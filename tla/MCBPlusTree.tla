---------------------------- MODULE MCBPlusTree -----------------------------
(***************************************************************************)
(* Keys for model checking BPlusTree, of one integer column.               *)
(***************************************************************************)
EXTENDS BPlusTree

\* On integers of one byte the order of the bytes is the order of the values ...
OneByteKeys == {<<n>> : n \in 0 .. Radix - 1}

\* ... on these, 1, 2, Radix + 1 and Radix + 2, it is not.
TwoByteKeys == {<<low + Radix * high>> : low \in {1, 2}, high \in {0, 1}}
=============================================================================
