--------------------------- MODULE MCLockManager ----------------------------
(***************************************************************************)
(* Workloads for model checking LockManager.                               *)
(***************************************************************************)
EXTENDS LockManager

CONSTANTS r1, r2, s1, s2

TwoShards == [r \in Resources |-> IF r = r1 THEN s1 ELSE s2]

Calls(txns, resources, modes, timed) ==
    [txn : txns, res : resources, mode : modes, timed : timed]

\* Every pair of modes in competition but IS with IS, and re-requests of a held
\* resource in stronger and in weaker modes.  Without fairness a timed wait
\* may also never expire, so timed calls stand for both kinds.
AllModes ==
    Calls({1}, {r1}, Modes, {TRUE})
        \cup Calls({2}, {r1}, {"IX", "S", "X"}, {TRUE})
        \cup Calls({3}, {r1}, {"SIX"}, {TRUE})

\* The two transactions of the deadlock test: exclusive locks, no timeout.
Exclusive == Calls(Txns, Resources, {"X"}, {FALSE})

\* Shared and exclusive locks, held to the end, no timeout, no re-requests in
\* another mode.
ReadersAndWriters ==
    Calls({1}, Resources, {"S"}, {FALSE})
        \cup Calls({2}, {r1}, {"X"}, {FALSE})
        \cup Calls({2}, {r2}, {"S"}, {FALSE})
        \cup Calls({3}, Resources, {"X"}, {FALSE})

(***************************************************************************)
(* Only transaction 2 takes two locks, so no set of transactions can wait  *)
(* for itself; reader, writer and timed calls meet in one queue.           *)
(***************************************************************************)
NoCircularWait ==
    Calls({1}, {r1}, {"S"}, {FALSE})
        \cup Calls({2}, {r1}, {"S"}, {FALSE})
        \cup Calls({2}, {r2}, {"X"}, {FALSE})
        \cup Calls({3}, {r1}, {"X"}, {FALSE, TRUE})
        \cup Calls({4}, {r2}, {"S"}, {FALSE})

\* Two writers that may release locks before they end.
EarlyUnlock == Calls({1, 2}, Resources, {"X"}, {TRUE})

\* Transaction 3 waits for the intention lock of 1 only, while 2, which may wait
\* for 3, holds the resource as well.
Intentions ==
    Calls({1}, {r1}, {"IX"}, {FALSE})
        \cup Calls({2}, {r1}, {"IS"}, {FALSE})
        \cup Calls({2}, {r2}, {"X"}, {FALSE})
        \cup Calls({3}, {r1}, {"S"}, {FALSE})
        \cup Calls({3}, {r2}, {"X"}, {FALSE})

NoHandles == {}
AllHandles == Txns \X Resources
=============================================================================
