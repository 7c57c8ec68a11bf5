---------------------------- MODULE MCTableHeap -----------------------------
(***************************************************************************)
(* Model checking of TableHeap in two settings, one of which is chosen at  *)
(* the start.  "restart": two clients, in all interleavings, across a      *)
(* restart.  "reader": a third client that only reads beside two writers,  *)
(* in one run of the process; begin and create_snapshot are not            *)
(* interrupted there.                                                      *)
(***************************************************************************)
EXTENDS TableHeap, TLC

CONSTANTS
    Writers,        \* the clients that insert, update and erase
    MaxRestartId    \* bound on the identifiers given out in a run of "restart"

VARIABLE setting

Present == IF setting = "restart" THEN Writers ELSE Clients

\* Nobody is in the middle of begin or create_snapshot.
Settled == \A c \in Clients : pc[c] \in {"idle", "open", "reading"}

MCInit == HeapInit /\ setting \in {"restart", "reader"}

MCTransaction(c) ==
    /\ Transaction(c)
    /\ setting = "reader" => Settled \/ pc[c] \notin {"idle", "open", "reading"}
    /\ setting = "restart" => txn'[c] <= MaxRestartId

MCWrite(c) ==
    /\ setting = "reader" => Settled
    /\ \/ Insert(c)
       \/ \E op \in {"update", "erase"}, id \in DOMAIN versions : ReadOld(c, op, id)
       \/ MarkOld(c)
       \/ InsertNew(c)
       \/ NoRoom(c)

\* HeapNext, for the clients and the calls of the setting.
MCNext ==
    /\ \/ \E c \in Present : MCTransaction(c)
       \/ \E c \in Writers : MCWrite(c)
       \/ setting = "restart" /\ Restart
    /\ UNCHANGED setting

MCSpec == MCInit /\ [][MCNext]_<<allVars, setting>>

\* Writers are interchangeable.
Symmetry == Permutations(Writers)
=============================================================================
