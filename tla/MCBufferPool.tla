---------------------------- MODULE MCBufferPool ----------------------------
(***************************************************************************)
(* Model checking of BufferPool: clients and pages are interchangeable.    *)
(***************************************************************************)
EXTENDS BufferPool, TLC

Symmetry == Permutations(Clients) \cup Permutations(Pages)
=============================================================================
