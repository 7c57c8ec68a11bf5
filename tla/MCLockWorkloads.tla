-------------------------- MODULE MCLockWorkloads ---------------------------
(***************************************************************************)
(* Five workloads in one model: "workload" is chosen at the start and says *)
(* which of the Requests are made.  Transactions without requests take no  *)
(* steps; AllModes and EarlyUnlock release locks early.                    *)
(***************************************************************************)
EXTENDS MCLockManager

VARIABLE workload

Made(name) ==
    CASE name = "AllModes" -> AllModes
      [] name = "ReadersAndWriters" -> ReadersAndWriters
      [] name = "NoCircularWait" -> NoCircularWait
      [] name = "EarlyUnlock" -> EarlyUnlock
      [] name = "Intentions" -> Intentions

Workloads == {"AllModes", "ReadersAndWriters", "NoCircularWait", "EarlyUnlock",
              "Intentions"}

\* A lock given up before the transaction ends is a LockHandle's.
EarlyReleases == {"AllModes", "EarlyUnlock"}

AllWorkloads == UNION {Made(name) : name \in Workloads}

\* The transactions that make calls in the chosen workload.
Present(t) == \E q \in Made(workload) : q.txn = t

LocksInit == Init /\ workload \in Workloads

\* Next of LockManager, for the requests and the transactions of the workload.
LocksNext ==
    /\ \E t \in {u \in Txns : Present(u)} :
        \/ \E q \in Made(workload) : Lock(t, q)
        \/ Step(t)
        \/ WakeUp(t)
        \/ TimeOut(t)
        \/ workload \in EarlyReleases /\ \E r \in Resources : Unlock(t, r)
        \/ ReleaseAll(t)
    /\ UNCHANGED workload

\* The fairness of LockManager, in the workload that EveryCallReturns is about
\* and for the transactions present there.
Fair(t) == workload = "NoCircularWait" /\ Present(t)

LocksFairness ==
    \A t \in Txns :
        /\ SF_vars(Fair(t) /\ Step(t))
        /\ WF_vars(Fair(t) /\ TimeOut(t))
        /\ WF_vars(Fair(t) /\ ReleaseAll(t))

LocksSpec ==
    LocksInit /\ [][LocksNext]_<<vars, workload>> /\ LocksFairness

(***************************************************************************)
(* Where no set of transactions can come to wait for itself, every call of *)
(* lock and lock_with_timeout returns, through queues of readers, writers  *)
(* and timed calls.                                                        *)
(***************************************************************************)
EveryCallReturns ==
    \A t \in Txns :
        workload = "NoCircularWait" /\ Waiting(t) ~> ~Waiting(t)

=============================================================================
