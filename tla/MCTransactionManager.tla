------------------------ MODULE MCTransactionManager ------------------------
(***************************************************************************)
(* Model checking of TransactionManager: clients are interchangeable.      *)
(***************************************************************************)
EXTENDS TransactionManager, TLC

Symmetry == Permutations(Clients)
=============================================================================
