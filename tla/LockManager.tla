---------------------------- MODULE LockManager -----------------------------
(***************************************************************************)
(* The lock manager of src/src/concurrency/lock_manager.cpp: a sharded     *)
(* table of per-resource lock states, each with its holders, a FIFO queue  *)
(* of waiters and a condition variable, and one wait-for graph shared by   *)
(* all shards.                                                             *)
(*                                                                         *)
(* A transaction is driven by one thread, so a thread inside the lock      *)
(* manager is named by its transaction.  A shard's mutex is held from the  *)
(* enqueueing of a request until the thread sleeps on the condition        *)
(* variable; calls on other shards interleave with it at every access to   *)
(* the graph, which has a mutex of its own.                                *)
(***************************************************************************)
EXTENDS WaitForGraph

CONSTANTS
    Txns,       \* transaction ids: victim selection compares them
    Resources,  \* LockResource values
    Shards,     \* indices of m_shards
    ShardOf,    \* get_shard: the shard each resource hashes to
    Requests,   \* the calls of lock and lock_with_timeout the callers may make
    Handles,    \* <<txn, resource>> pairs held by a LockHandle, released early
    NoRequest   \* "no call made yet"

Modes == {"IS", "IX", "S", "SIX", "X"}
NoLock == "none"

ASSUME TxnsAssumption == Txns \subseteq Nat

ASSUME ShardOfAssumption == ShardOf \in [Resources -> Shards]

ASSUME RequestsAssumption ==
    Requests \subseteq
        [txn : Txns, res : Resources, mode : Modes, timed : BOOLEAN]

ASSUME NoRequestAssumption == NoRequest \notin Requests

VARIABLES
    holders,    \* holders[r][t]: the mode t holds r in, or NoLock
    waiters,    \* waiters[r]: the queue of r, a sequence of [txn, mode]
    edges,      \* m_wait_for_graph
    pc,         \* where each transaction's thread is
    request,    \* its latest call of lock or lock_with_timeout
    result,     \* the Status that call returned, "pending" until then
    blockers,   \* the holders whose edge the thread has still to add
    toRelease   \* the resources release_all has still to unlock

vars == <<holders, waiters, edges, pc, request, result, blockers, toRelease>>

\* "running" and "ended" are outside the lock manager.
CriticalPCs == {"adding", "detecting", "checking"}
WaitingPCs == CriticalPCs \cup {"asleep", "notified"}
PCs == WaitingPCs \cup {"running", "releasing", "ended"}
Statuses == {"none", "pending", "Ok", "TransactionAborted", "Timeout"}

-----------------------------------------------------------------------------
\* is_compatible, row by row: the modes another transaction may hold.
Compatible(a, b) ==
    CASE a = "IS"  -> b # "X"
      [] a = "IX"  -> b \in {"IS", "IX"}
      [] a = "S"   -> b \in {"IS", "S"}
      [] a = "SIX" -> b = "IS"
      [] a = "X"   -> FALSE

IsHolder(t, r) == holders[r][t] # NoLock
HoldersOf(r) == {t \in Txns : IsHolder(t, r)}

\* Seeded fault: only one holder has to be compatible.
CanGrantAny(r, mode) ==
    HoldersOf(r) = {} \/ \E u \in HoldersOf(r) : Compatible(holders[r][u], mode)

\* The loop of can_grant runs over all holders, the requester included.
CanGrant(r, mode) == \A u \in HoldersOf(r) : Compatible(holders[r][u], mode)

\* The fast path of an upgrade skips the requester's own lock.
CanUpgrade(t, r, mode) ==
    \A u \in HoldersOf(r) \ {t} : Compatible(holders[r][u], mode)

\* The mutex of shard s is free: no thread is between its unlocks and waits.
ShardFree(s) ==
    \A t \in Txns : pc[t] \in CriticalPCs => ShardOf[request[t].res] # s

MutexFree(r) == ShardFree(ShardOf[r])

SetHolder(t, r, mode) == holders' = [holders EXCEPT ![r][t] = mode]

\* waiters.erase of the one entry of transaction t.
Without(queue, t) ==
    LET i == CHOOSE k \in 1..Len(queue) : queue[k].txn = t
    IN  SubSeq(queue, 1, i - 1) \o SubSeq(queue, i + 1, Len(queue))

Waiting(t) == pc[t] \in WaitingPCs

-----------------------------------------------------------------------------
Init ==
    /\ holders = [r \in Resources |-> [t \in Txns |-> NoLock]]
    /\ waiters = [r \in Resources |-> <<>>]
    /\ edges = {}
    /\ pc = [t \in Txns |-> "running"]
    /\ request = [t \in Txns |-> NoRequest]
    /\ result = [t \in Txns |-> "none"]
    /\ blockers = [t \in Txns |-> {}]
    /\ toRelease = [t \in Txns |-> {}]

(***************************************************************************)
(* lock_with_timeout, up to its first access to the graph.  The caller     *)
(* enters with the shard's mutex; it either returns at once or keeps the   *)
(* mutex and has joined the queue.                                         *)
(***************************************************************************)
Call(t, q) ==
    /\ pc[t] = "running"
    /\ q.txn = t
    /\ MutexFree(q.res)
    /\ request' = [request EXCEPT ![t] = q]

ReturnOk(t) ==
    /\ result' = [result EXCEPT ![t] = "Ok"]
    /\ UNCHANGED <<waiters, edges, pc, blockers, toRelease>>

Enqueue(t, r, queue) ==
    /\ waiters' = [waiters EXCEPT ![r] = queue]
    /\ result' = [result EXCEPT ![t] = "pending"]
    /\ pc' = [pc EXCEPT ![t] = "adding"]
    /\ blockers' = [blockers EXCEPT ![t] = HoldersOf(r) \ {t}]
    /\ UNCHANGED <<holders, edges, toRelease>>

\* The early return taken when the held mode is thought to be enough.
HeldSuffices(t, q) ==
    \/ holders[q.res][t] = q.mode
    \/ Compatible(q.mode, holders[q.res][t])

LockAlreadyHeld(t, q) ==
    /\ Call(t, q)
    /\ IsHolder(t, q.res)
    /\ HeldSuffices(t, q)
    /\ UNCHANGED holders
    /\ ReturnOk(t)

LockUpgradeNow(t, q) ==
    /\ Call(t, q)
    /\ IsHolder(t, q.res)
    /\ ~HeldSuffices(t, q)
    /\ CanUpgrade(t, q.res, q.mode)
    /\ SetHolder(t, q.res, q.mode)
    /\ ReturnOk(t)

LockUpgradeWait(t, q) ==
    /\ Call(t, q)
    /\ IsHolder(t, q.res)
    /\ ~HeldSuffices(t, q)
    /\ ~CanUpgrade(t, q.res, q.mode)
    /\ Enqueue(t, q.res, <<[txn |-> t, mode |-> q.mode]>> \o waiters[q.res])

LockGrantNow(t, q) ==
    /\ Call(t, q)
    /\ ~IsHolder(t, q.res)
    /\ waiters[q.res] = <<>>
    /\ CanGrant(q.res, q.mode)
    /\ SetHolder(t, q.res, q.mode)
    /\ ReturnOk(t)

LockEnqueue(t, q) ==
    /\ Call(t, q)
    /\ ~IsHolder(t, q.res)
    /\ waiters[q.res] # <<>> \/ ~CanGrant(q.res, q.mode)
    /\ Enqueue(t, q.res, Append(waiters[q.res], [txn |-> t, mode |-> q.mode]))

\* One add_edge of the loop over the holders, whose order is unspecified.
AddBlocker(t, u) ==
    /\ pc[t] = "adding"
    /\ u \in blockers[t]
    /\ edges' = AddEdge(edges, t, u)
    /\ blockers' = [blockers EXCEPT ![t] = @ \ {u}]
    /\ UNCHANGED <<holders, waiters, pc, request, result, toRelease>>

\* Seeded fault: the entry of an aborted or timed-out call stays in the queue.
GiveUpStaysQueued(t, status) ==
    /\ edges' = RemoveTransaction(edges, t)
    /\ pc' = [pc EXCEPT ![t] = "running"]
    /\ result' = [result EXCEPT ![t] = status]
    /\ UNCHANGED <<holders, waiters, request, blockers, toRelease>>


\* A call that leaves the queue without the lock.
GiveUp(t, status) ==
    LET r == request[t].res IN
    /\ waiters' = [waiters EXCEPT ![r] = Without(@, t)]
    /\ edges' = RemoveTransaction(edges, t)
    /\ pc' = [pc EXCEPT ![t] = "running"]
    /\ result' = [result EXCEPT ![t] = status]
    /\ UNCHANGED <<holders, request, blockers, toRelease>>

\* detect_cycle names the caller: it aborts itself.
DetectSelf(t) ==
    /\ pc[t] = "adding"
    /\ blockers[t] = {}
    /\ t \in DetectCycle(edges)
    /\ GiveUp(t, "TransactionAborted")

\* detect_cycle finds no cycle, or names another victim: nothing is done.
DetectOther(t) ==
    /\ pc[t] = "adding"
    /\ blockers[t] = {}
    /\ DetectCycle(edges) # {t}
    /\ pc' = [pc EXCEPT ![t] = "checking"]
    /\ UNCHANGED <<holders, waiters, edges, request, result, blockers, toRelease>>

-----------------------------------------------------------------------------
(***************************************************************************)
(* The wait loop.  wait_pred is evaluated with the shard's mutex: once     *)
(* before the thread first sleeps and again after every wake-up.  The      *)
(* aborted flag it also tests is never set by any code, so it is left out. *)
(***************************************************************************)
WaitPred(t) ==
    LET q == request[t] IN
    Head(waiters[q.res]).txn = t /\ CanGrant(q.res, q.mode)

HasMutex(t) ==
    \/ pc[t] = "checking"
    \/ pc[t] = "notified" /\ MutexFree(request[t].res)

\* The holder is set and the queue popped; other waiters are not notified.
Grant(t) ==
    LET q == request[t] IN
    /\ HasMutex(t)
    /\ WaitPred(t)
    /\ SetHolder(t, q.res, q.mode)
    /\ waiters' = [waiters EXCEPT ![q.res] = Tail(@)]
    /\ edges' = RemoveTransaction(edges, t)
    /\ pc' = [pc EXCEPT ![t] = "running"]
    /\ result' = [result EXCEPT ![t] = "Ok"]
    /\ UNCHANGED <<request, blockers, toRelease>>

Sleep(t) ==
    /\ HasMutex(t)
    /\ ~WaitPred(t)
    /\ pc' = [pc EXCEPT ![t] = "asleep"]
    /\ UNCHANGED <<holders, waiters, edges, request, result, blockers, toRelease>>

\* A spurious wake-up, or a timer that expires when the lock can be granted.
WakeUp(t) ==
    /\ pc[t] = "asleep"
    /\ pc' = [pc EXCEPT ![t] = "notified"]
    /\ UNCHANGED <<holders, waiters, edges, request, result, blockers, toRelease>>

\* The timer of a timed wait expires and wait_pred is still false.
TimeOut(t) ==
    /\ pc[t] \in {"asleep", "notified"}
    /\ request[t].timed
    /\ MutexFree(request[t].res)
    /\ ~WaitPred(t)
    /\ GiveUp(t, "Timeout")

-----------------------------------------------------------------------------
\* Seeded fault: unlock does not notify the waiters.
NotifyNobody(r, from) == from

Notify(r, from) ==
    [u \in Txns |-> IF from[u] = "asleep" /\ request[u].res = r
                    THEN "notified" ELSE from[u]]

\* unlock by a holder: notify_all, but the graph is left as it is.
UnlockResource(t, r) ==
    /\ MutexFree(r)
    /\ IsHolder(t, r)
    /\ SetHolder(t, r, NoLock)
    /\ pc' = Notify(r, pc)
    /\ UNCHANGED <<waiters, request, blockers>>

\* A LockHandle goes out of scope.
Unlock(t, r) ==
    /\ pc[t] = "running"
    /\ <<t, r>> \in Handles
    /\ UnlockResource(t, r)
    /\ result' = [result EXCEPT ![t] = "none"]
    /\ UNCHANGED <<edges, toRelease>>

\* Seeded fault: the transaction's record of its locks is lost.
ReleaseAllForgets(t) ==
    /\ pc[t] = "running"
    /\ pc' = [pc EXCEPT ![t] = "releasing"]
    /\ toRelease' = [toRelease EXCEPT ![t] = {}]
    /\ result' = [result EXCEPT ![t] = "none"]
    /\ UNCHANGED <<holders, waiters, edges, request, blockers>>

\* Commit or abort calls release_all with the locks the transaction recorded.
ReleaseAll(t) ==
    /\ pc[t] = "running"
    /\ pc' = [pc EXCEPT ![t] = "releasing"]
    /\ toRelease' = [toRelease EXCEPT ![t] = {r \in Resources : IsHolder(t, r)}]
    /\ result' = [result EXCEPT ![t] = "none"]
    /\ UNCHANGED <<holders, waiters, edges, request, blockers>>

ReleaseOne(t, r) ==
    /\ pc[t] = "releasing"
    /\ r \in toRelease[t]
    /\ UnlockResource(t, r)
    /\ toRelease' = [toRelease EXCEPT ![t] = @ \ {r}]
    /\ UNCHANGED <<edges, result>>

ReleaseDone(t) ==
    /\ pc[t] = "releasing"
    /\ toRelease[t] = {}
    /\ edges' = RemoveTransaction(edges, t)
    /\ pc' = [pc EXCEPT ![t] = "ended"]
    /\ UNCHANGED <<holders, waiters, request, result, blockers, toRelease>>

-----------------------------------------------------------------------------
Lock(t, q) ==
    \/ LockAlreadyHeld(t, q)
    \/ LockUpgradeNow(t, q)
    \/ LockUpgradeWait(t, q)
    \/ LockGrantNow(t, q)
    \/ LockEnqueue(t, q)

\* What a thread inside the lock manager does next.
Step(t) ==
    \/ \E u \in Txns : AddBlocker(t, u)
    \/ DetectSelf(t)
    \/ DetectOther(t)
    \/ Grant(t)
    \/ Sleep(t)
    \/ \E r \in Resources : ReleaseOne(t, r)
    \/ ReleaseDone(t)

Next ==
    \E t \in Txns :
        \/ \E q \in Requests : Lock(t, q)
        \/ Step(t)
        \/ WakeUp(t)
        \/ TimeOut(t)
        \/ \E r \in Resources : Unlock(t, r)
        \/ ReleaseAll(t)

Spec == Init /\ [][Next]_vars

(***************************************************************************)
(* Fairness: the scheduler runs every thread, and a thread that contends   *)
(* for a shard's mutex again and again gets it in the end (hence strong    *)
(* fairness), timers expire, and a transaction that is not waiting ends.   *)
(* No call has to be made and no wake-up has to be spurious.               *)
(***************************************************************************)
Fairness ==
    \A t \in Txns :
        /\ SF_vars(Step(t))
        /\ WF_vars(TimeOut(t))
        /\ WF_vars(ReleaseAll(t))

FairSpec == Spec /\ Fairness

-----------------------------------------------------------------------------
\* Type invariant.
TypeOK ==
    /\ holders \in [Resources -> [Txns -> Modes \cup {NoLock}]]
    /\ waiters \in [Resources -> Seq([txn : Txns, mode : Modes])]
    /\ edges \subseteq Txns \X Txns
    /\ pc \in [Txns -> PCs]
    /\ request \in [Txns -> Requests \cup {NoRequest}]
    /\ result \in [Txns -> Statuses]
    /\ blockers \in [Txns -> SUBSET Txns]
    /\ toRelease \in [Txns -> SUBSET Resources]

(***************************************************************************)
(* Two transactions never hold one resource in incompatible modes, on      *)
(* whichever of the three granting paths (immediate, upgrade, queue) each  *)
(* of them got its lock.                                                   *)
(***************************************************************************)
HoldersCompatible ==
    \A r \in Resources : \A t, u \in HoldersOf(r) :
        t # u => Compatible(holders[r][t], holders[r][u])

\* A thread inside lock_with_timeout works on a call of its own transaction.
RequestsMatchThreads ==
    \A t \in Txns : Waiting(t) => request[t] \in Requests /\ request[t].txn = t

(***************************************************************************)
(* The queues and the threads agree: a transaction waits in exactly the    *)
(* queue of the resource it asked for, once, with the mode it asked for,   *)
(* and no other transaction is queued.                                     *)
(***************************************************************************)
QueuesMatchThreads ==
    \A r \in Resources :
        /\ \A i \in 1..Len(waiters[r]) :
            LET w == waiters[r][i] IN
            /\ Waiting(w.txn)
            /\ request[w.txn].res = r
            /\ request[w.txn].mode = w.mode
            /\ \A j \in 1..Len(waiters[r]) : waiters[r][j].txn = w.txn => j = i
        /\ \A t \in Txns : Waiting(t) /\ request[t].res = r
                => \E i \in 1..Len(waiters[r]) : waiters[r][i].txn = t

(***************************************************************************)
(* No wake-up is lost on a free resource: whichever way its last holder    *)
(* and the earlier waiters left, the transaction at the front of the queue *)
(* of a resource nobody holds is awake to take the lock.                   *)
(***************************************************************************)
NoLostWakeup ==
    \A r \in Resources :
        HoldersOf(r) = {} /\ waiters[r] # <<>>
            => pc[waiters[r][1].txn] = "notified"

\* Only a transaction that is still waiting has outgoing edges in the graph.
EdgesFromWaiters == \A e \in edges : Waiting(e[1])

-----------------------------------------------------------------------------
(***************************************************************************)
(* The real wait relation: t, queued on r, cannot be granted before u      *)
(* releases r or, being ahead in the queue, leaves it.  can_grant counts   *)
(* t's own lock, so a queued upgrade may be blocked by t itself.           *)
(***************************************************************************)
Ahead(u, t, queue) ==
    \E i, j \in 1..Len(queue) : i < j /\ queue[i].txn = u /\ queue[j].txn = t

Blocks(t, u) ==
    LET q == request[t] IN
    /\ Waiting(t)
    /\ \/ IsHolder(u, q.res) /\ ~Compatible(holders[q.res][u], q.mode)
       \/ Ahead(u, t, waiters[q.res])

\* Transactions that wait, directly or not, for a set that waits for itself.
Deadlocked ==
    {t \in Txns : \E S \in SUBSET {x \in Txns : Waiting(x)} :
        t \in S /\ \A x \in S : \E y \in S : Blocks(x, y)}

AbortedBy(t) == result[t] = "pending" /\ result'[t] = "TransactionAborted"

\* Transactions that reach, along the edges of the graph, a circle of
\* transactions that all wait.
Encircled ==
    {t \in Txns : \E S \in SUBSET {x \in Txns : Waiting(x)} :
        t \in S /\ \A x \in S : \E y \in S : <<x, y>> \in edges}

\* README.md: "if an unresolvable deadlock occurs, a TransactionError is raised".
DeadlockRaised == Deadlocked # {} ~> Deadlocked = {}
=============================================================================
