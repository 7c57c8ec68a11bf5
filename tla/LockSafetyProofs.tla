-------------------------- MODULE LockSafetyProofs --------------------------
(***************************************************************************)
(* What the lock manager's queues (LockManagerProofs) are good for: locks  *)
(* exclude each other, the wait-for graph is current and no waiter is      *)
(* forgotten, for every set of transactions, resources, shards and calls.  *)
(***************************************************************************)
EXTENDS LockManagerProofs

\* Every step keeps the holders of a resource compatible.
LEMMA CompatibleStep ==
    TypeOK /\ RequestsMatchThreads /\ HoldersCompatible /\ [Next]_vars
        => HoldersCompatible'
<1> SUFFICES ASSUME TypeOK, RequestsMatchThreads, HoldersCompatible, [Next]_vars
             PROVE  HoldersCompatible'
  OBVIOUS
<1>1. ASSUME NEW t \in Txns, NEW r \in Resources, NEW mode \in Modes,
             CanUpgrade(t, r, mode), SetHolder(t, r, mode)
      PROVE  HoldersCompatible'
  <2> SUFFICES ASSUME NEW x \in Resources, NEW u \in Txns, NEW v \in Txns, u # v,
                      holders'[x][u] # NoLock, holders'[x][v] # NoLock
               PROVE  Compatible(holders'[x][u], holders'[x][v])
    BY DEF HoldersCompatible, HoldersOf, IsHolder
  <2>1. /\ holders'[x][u] = IF x = r /\ u = t THEN mode ELSE holders[x][u]
        /\ holders'[x][v] = IF x = r /\ v = t THEN mode ELSE holders[x][v]
    BY <1>1 DEF SetHolder, TypeOK
  <2>2. CASE x # r \/ (u # t /\ v # t)
    BY <2>1, <2>2 DEF HoldersCompatible, HoldersOf, IsHolder
  <2>3. CASE x = r /\ v = t
    BY <1>1, <2>1, <2>3 DEF CanUpgrade, HoldersOf, IsHolder
  <2>4. CASE x = r /\ u = t
    <3>1. holders[x][v] \in Modes /\ Compatible(holders[x][v], mode)
      BY <1>1, <2>1, <2>4 DEF CanUpgrade, HoldersOf, IsHolder, TypeOK
    <3> QED
      BY <1>1, <2>1, <2>4, <3>1, CompatibleSymmetric
  <2> QED
    BY <2>2, <2>3, <2>4
<1>2. ASSUME NEW r \in Resources, NEW mode, NEW t, CanGrant(r, mode)
      PROVE  CanUpgrade(t, r, mode)
  BY <1>2 DEF CanGrant, CanUpgrade
<1>3. ASSUME NEW t \in Txns, NEW r \in Resources, SetHolder(t, r, NoLock)
      PROVE  HoldersCompatible'
  BY <1>3 DEF SetHolder, HoldersCompatible, HoldersOf, IsHolder, TypeOK
<1>4. ASSUME UNCHANGED holders PROVE HoldersCompatible'
  BY <1>4 DEF HoldersCompatible, HoldersOf, IsHolder
<1>5. ASSUME NEW t \in Txns, NEW q \in Requests, Lock(t, q)
      PROVE  HoldersCompatible'
  <2>1. q.res \in Resources /\ q.mode \in Modes
    BY RequestsAssumption
  <2>2. CASE LockUpgradeNow(t, q)
    BY <2>1, <2>2, <1>1 DEF LockUpgradeNow
  <2>3. CASE LockGrantNow(t, q)
    BY <2>1, <2>3, <1>1, <1>2 DEF LockGrantNow
  <2>4. CASE LockAlreadyHeld(t, q) \/ LockUpgradeWait(t, q) \/ LockEnqueue(t, q)
    BY <2>4, <1>4 DEF LockAlreadyHeld, LockUpgradeWait, LockEnqueue, Enqueue
  <2> QED
    BY <1>5, <2>2, <2>3, <2>4 DEF Lock
<1>6. ASSUME NEW t \in Txns, Grant(t) PROVE HoldersCompatible'
  <2>1. Waiting(t)
    BY <1>6 DEF Grant, HasMutex, Waiting, WaitingPCs, CriticalPCs
  <2>2. request[t].res \in Resources /\ request[t].mode \in Modes
    BY <2>1, RequestFields
  <2> QED
    BY <1>1, <1>2, <1>6, <2>2 DEF Grant, WaitPred
<1>7. ASSUME NEW t \in Txns, NEW r \in Resources,
             ReleaseOne(t, r) \/ Unlock(t, r)
      PROVE  HoldersCompatible'
  BY <1>3, <1>7 DEF ReleaseOne, Unlock, UnlockResource
<1>8. ASSUME NEW t \in Txns, Step(t) PROVE HoldersCompatible'
  BY <1>4, <1>6, <1>7, <1>8
  DEF Step, AddBlocker, DetectSelf, DetectOther, GiveUp, Sleep, ReleaseDone
<1>9. ASSUME NEW t \in Txns, WakeUp(t) \/ TimeOut(t) \/ ReleaseAll(t)
      PROVE  HoldersCompatible'
  BY <1>4, <1>9 DEF WakeUp, TimeOut, GiveUp, ReleaseAll
<1>10. CASE UNCHANGED vars
  BY <1>4, <1>10 DEF vars
<1> QED
  BY <1>5, <1>7, <1>8, <1>9, <1>10 DEF Next

(***************************************************************************)
(* Mutual exclusion: two transactions never hold one resource in           *)
(* incompatible modes, whether they were granted at once, by an upgrade or *)
(* from the queue.                                                         *)
(***************************************************************************)
THEOREM LocksExclude == Spec => []HoldersCompatible
<1> DEFINE Inv == Base /\ HoldersCompatible
<1>1. Init => Inv
  <2>1. Init => HoldersCompatible
    BY DEF Init, HoldersCompatible, HoldersOf, IsHolder
  <2> QED
    BY <2>1, BaseInit
<1>2. Inv /\ [Next]_vars => Inv'
  BY BaseStep, CompatibleStep DEF Base
<1>3. Inv => HoldersCompatible
  OBVIOUS
<1> QED
  BY <1>1, <1>2, <1>3, PTL DEF Spec

-----------------------------------------------------------------------------
\* Every step keeps the sources of the edges waiting.
LEMMA EdgesStep == Base /\ EdgesFromWaiters /\ [Next]_vars => EdgesFromWaiters'
<1> SUFFICES ASSUME Base, EdgesFromWaiters, [Next]_vars PROVE EdgesFromWaiters'
  OBVIOUS
<1> USE DEF Base
<1>1. \A e \in edges : e[1] \in Txns
  BY DEF TypeOK
<1>2. ASSUME \A u \in Txns : Waiting(u) => Waiting(u)', edges' \subseteq edges
      PROVE  EdgesFromWaiters'
  BY <1>1, <1>2 DEF EdgesFromWaiters, Waiting
<1>3. ASSUME NEW t \in Txns, edges' = RemoveTransaction(edges, t),
             \A u \in Txns \ {t} : Waiting(u) => Waiting(u)'
      PROVE  EdgesFromWaiters'
  BY <1>1, <1>3 DEF EdgesFromWaiters, RemoveTransaction, Waiting
<1> USE DEF TypeOK, Waiting, WaitingPCs, CriticalPCs
<1>4. ASSUME NEW t \in Txns, NEW q \in Requests, Lock(t, q)
      PROVE  EdgesFromWaiters'
  BY <1>2, <1>4
  DEF Lock, LockAlreadyHeld, LockUpgradeNow, LockUpgradeWait, LockGrantNow,
      LockEnqueue, Call, ReturnOk, Enqueue
<1>5. ASSUME NEW t \in Txns, Step(t) PROVE EdgesFromWaiters'
  <2>1. ASSUME NEW u \in Txns, AddBlocker(t, u) PROVE EdgesFromWaiters'
    <3>1. /\ UNCHANGED pc
          /\ Waiting(t)
          /\ edges' \subseteq edges \cup {<<t, u>>}
      BY <2>1 DEF AddBlocker, AddEdge
    <3> QED
      BY <1>1, <3>1 DEF EdgesFromWaiters
  <2>2. CASE DetectSelf(t)
    BY <2>2, <1>3 DEF DetectSelf, GiveUp
  <2>3. CASE DetectOther(t)
    BY <2>3, <1>2 DEF DetectOther
  <2>4. CASE Grant(t)
    BY <2>4, <1>3 DEF Grant
  <2>5. CASE Sleep(t)
    BY <2>5, <1>2 DEF Sleep
  <2>6. ASSUME NEW r \in Resources, ReleaseOne(t, r) PROVE EdgesFromWaiters'
    BY <2>6, <1>2 DEF ReleaseOne, UnlockResource, Notify
  <2>7. CASE ReleaseDone(t)
    BY <2>7, <1>3 DEF ReleaseDone
  <2> QED
    BY <1>5, <2>1, <2>2, <2>3, <2>4, <2>5, <2>6, <2>7 DEF Step
<1>6. ASSUME NEW t \in Txns, WakeUp(t) PROVE EdgesFromWaiters'
  BY <1>2, <1>6 DEF WakeUp
<1>7. ASSUME NEW t \in Txns, TimeOut(t) PROVE EdgesFromWaiters'
  BY <1>3, <1>7 DEF TimeOut, GiveUp
<1>8. ASSUME NEW t \in Txns, NEW r \in Resources, Unlock(t, r)
      PROVE  EdgesFromWaiters'
  BY <1>2, <1>8 DEF Unlock, UnlockResource, Notify
<1>9. ASSUME NEW t \in Txns, ReleaseAll(t) PROVE EdgesFromWaiters'
  BY <1>2, <1>9 DEF ReleaseAll
<1>10. CASE UNCHANGED vars
  BY <1>2, <1>10 DEF vars
<1> QED
  BY <1>4, <1>5, <1>6, <1>7, <1>8, <1>9, <1>10 DEF Next

(***************************************************************************)
(* The wait-for graph has no edge from a transaction that no longer waits, *)
(* so a cycle never runs through a call that has already returned.         *)
(***************************************************************************)
THEOREM GraphIsCurrent == Spec => []EdgesFromWaiters
<1> DEFINE Inv == Base /\ EdgesFromWaiters
<1>1. Init => Inv
  BY BaseInit DEF Init, EdgesFromWaiters
<1>2. Inv /\ [Next]_vars => Inv'
  BY BaseStep, EdgesStep
<1>3. Inv => EdgesFromWaiters
  OBVIOUS
<1> QED
  BY <1>1, <1>2, <1>3, PTL DEF Spec

-----------------------------------------------------------------------------
(* What is known of the front of a queue that is not empty.                *)
LEMMA FrontOfQueue ==
    ASSUME Base, NEW r \in Resources, waiters[r] # <<>>
    PROVE  LET f == waiters[r][1].txn IN
           /\ 1 \in 1..Len(waiters[r])
           /\ Head(waiters[r]) = waiters[r][1]
           /\ f \in Txns
           /\ Waiting(f)
           /\ request[f].res = r
<1>1. waiters[r] \in Seq(Waiter) /\ Len(waiters[r]) \in Nat
  BY QueueEntries DEF Base
<1>2. 1 \in 1..Len(waiters[r])
  BY <1>1, EmptySeq
<1> QED
  BY <1>1, <1>2, QueueEntries DEF Base, QueuesMatchThreads

\* Every step keeps the front of the queue of a free resource awake.
LEMMA WakeupStep == Base /\ NoLostWakeup /\ [Next]_vars => NoLostWakeup'
<1> SUFFICES ASSUME Base, NoLostWakeup, [Next]_vars,
                    NEW x \in Resources, HoldersOf(x)' = {}, waiters'[x] # <<>>
             PROVE  pc'[waiters'[x][1].txn] = "notified"
  BY DEF NoLostWakeup
<1> DEFINE f == waiters[x][1].txn
           Goal == pc'[waiters'[x][1].txn] = "notified"
<1>0. pc \in [Txns -> PCs] /\ holders \in [Resources -> [Txns -> Modes \cup {NoLock}]]
  BY DEF Base, TypeOK
\* A step that frees no resource and keeps the front of the queue in place.
<1>1. ASSUME HoldersOf(x) = {}, waiters[x] # <<>>
      PROVE  /\ pc[f] = "notified"
             /\ f \in Txns
             /\ request[f].res = x
             /\ Head(waiters[x]).txn = f
  BY <1>1, FrontOfQueue DEF NoLostWakeup
<1>2. ASSUME HoldersOf(x) = {}, waiters'[x] = waiters[x],
             pc[f] = "notified" => pc'[f] = "notified"
      PROVE  Goal
  BY <1>1, <1>2
<1>3. ASSUME UNCHANGED holders PROVE HoldersOf(x) = {}
  BY <1>3 DEF HoldersOf, IsHolder
<1>4. ASSUME NEW t \in Txns, NEW r \in Resources, NEW mode \in Modes,
             SetHolder(t, r, mode)
      PROVE  x # r /\ HoldersOf(x) = {}
  BY <1>0, <1>4 DEF SetHolder, HoldersOf, IsHolder, NoLock, Modes
\* Entering a queue: never at the front of the queue of a free resource.
<1>5. ASSUME NEW t \in Txns, NEW r \in Resources, Joins(t, r),
             HoldersOf(x) = {}, \A u \in Txns \ {t} : pc'[u] = pc[u]
      PROVE  Goal
  <2>1. CASE x # r
    <3>1. waiters'[x] = waiters[x]
      BY <2>1, <1>5 DEF Joins
    <3>2. f # t
      BY <1>5, <3>1, FrontOfQueue DEF Joins
    <3> QED
      BY <1>1, <1>2, <1>5, <3>1, <3>2
  <2>2. CASE x = r
    <3>1. PICK p \in 1..Len(waiters'[x]) : p # 1 /\ Removal(waiters'[x], p, waiters[x])
      BY <1>5, <2>2 DEF Joins
    <3>2. Len(waiters[x]) \in Nat
      BY QueueEntries DEF Base
    <3>3. 1 \in 1..Len(waiters[x]) /\ waiters[x][1] = waiters'[x][1]
      BY <3>1, <3>2 DEF Removal
    <3>4. waiters[x] # <<>>
      BY <3>3
    <3>5. f # t
      BY <1>5, <3>4, FrontOfQueue DEF Joins
    <3> QED
      BY <1>1, <1>5, <3>3, <3>4, <3>5
  <2> QED
    BY <2>1, <2>2
\* Leaving a queue: never from the front of the queue of a free resource.
<1>6. ASSUME NEW t \in Txns, NEW r \in Resources, Leaves(t, r),
             HoldersOf(x) = {}, \A u \in Txns \ {t} : pc'[u] = pc[u],
             x = r /\ waiters[x] # <<>> => f # t
      PROVE  Goal
  <2>1. CASE x # r
    <3>1. waiters'[x] = waiters[x]
      BY <2>1, <1>6 DEF Leaves
    <3>2. f # t
      BY <1>6, <2>1, <3>1, FrontOfQueue DEF Leaves
    <3> QED
      BY <1>1, <1>2, <1>6, <3>1, <3>2
  <2>2. CASE x = r
    <3>1. PICK p \in 1..Len(waiters[x]) :
              Removal(waiters[x], p, waiters'[x]) /\ waiters[x][p].txn = t
      BY <1>6, <2>2 DEF Leaves
    <3>2. Len(waiters[x]) \in Nat
      BY QueueEntries DEF Base
    <3>3. waiters[x] # <<>>
      BY <3>1, <3>2
    <3>4. p # 1
      BY <1>6, <2>2, <3>1, <3>3
    <3>5. waiters'[x][1] = waiters[x][1]
      BY <3>1, <3>2, <3>4 DEF Removal
    <3> QED
      BY <1>1, <1>6, <2>2, <3>3, <3>5
  <2> QED
    BY <2>1, <2>2
\* Releasing a lock wakes every waiter of the resource.
<1>7. ASSUME NEW t \in Txns, NEW r \in Resources, UnlockResource(t, r)
      PROVE  Goal
  <2>1. waiters'[x] = waiters[x] /\ waiters[x] # <<>>
    BY <1>7 DEF UnlockResource
  <2>2. f \in Txns /\ Waiting(f) /\ request[f].res = x
    BY <2>1, FrontOfQueue
  <2>3. pc'[f] = IF pc[f] = "asleep" /\ x = r THEN "notified" ELSE pc[f]
    BY <1>7, <2>2 DEF UnlockResource, Notify
  <2>4. CASE x = r
    <3>1. pc[f] \notin CriticalPCs
      BY <1>7, <2>2, <2>4 DEF UnlockResource, MutexFree, ShardFree
    <3> QED
      BY <2>1, <2>2, <2>3, <2>4, <3>1 DEF Waiting, WaitingPCs
  <2>5. CASE x # r
    <3>1. HoldersOf(x) = {}
      BY <1>0, <1>7, <2>5 DEF UnlockResource, SetHolder, HoldersOf, IsHolder
    <3> QED
      BY <1>2, <2>1, <2>3, <3>1
  <2> QED
    BY <2>4, <2>5
\* On a free resource wait_pred is true of the front of the queue.
<1>8. ASSUME NEW t \in Txns, HoldersOf(x) = {}, waiters[x] # <<>>,
             request[t].res = x, ~WaitPred(t)
      PROVE  f # t
  BY <1>1, <1>8 DEF WaitPred, CanGrant
<1>9. ASSUME NEW t \in Txns, NEW q \in Requests, Lock(t, q) PROVE Goal
  <2>0. q.res \in Resources /\ q.mode \in Modes
    BY RequestsAssumption
  <2>1. CASE LockAlreadyHeld(t, q)
    BY <1>2, <1>3, <2>1 DEF LockAlreadyHeld, ReturnOk
  <2>2. CASE LockUpgradeNow(t, q) \/ LockGrantNow(t, q)
    BY <1>2, <1>4, <2>0, <2>2 DEF LockUpgradeNow, LockGrantNow, ReturnOk
  <2>3. CASE LockUpgradeWait(t, q) \/ LockEnqueue(t, q)
    <3>1. q.res \in Resources /\ Joins(t, q.res)
      BY <2>3, EnqueueJoins
    <3>2. UNCHANGED holders /\ \A u \in Txns \ {t} : pc'[u] = pc[u]
      BY <1>0, <2>3 DEF LockUpgradeWait, LockEnqueue, Enqueue
    <3> QED
      BY <1>3, <1>5, <3>1, <3>2
  <2> QED
    BY <1>9, <2>1, <2>2, <2>3 DEF Lock
<1>10. ASSUME NEW t \in Txns, NEW status, Waiting(t), GiveUp(t, status),
              pc[t] = "adding" \/ ~WaitPred(t)
       PROVE  Goal
  <2>1. request[t].res \in Resources /\ Leaves(t, request[t].res)
    BY <1>10, GiveUpLeaves
  <2>2. HoldersOf(x) = {} /\ \A u \in Txns \ {t} : pc'[u] = pc[u]
    BY <1>0, <1>3, <1>10, SMTT(30) DEF GiveUp
  <2>3. x = request[t].res /\ waiters[x] # <<>> => f # t
    BY <1>1, <1>8, <1>10, <2>2
  <2> QED
    BY <1>6, <2>1, <2>2, <2>3
<1>11. ASSUME NEW t \in Txns, Step(t) PROVE Goal
  <2>1. ASSUME NEW u \in Txns, AddBlocker(t, u) PROVE Goal
    BY <1>2, <1>3, <2>1 DEF AddBlocker
  <2>2. CASE DetectSelf(t)
    BY <1>10, <2>2 DEF DetectSelf, Waiting, WaitingPCs, CriticalPCs
  <2>3. CASE DetectOther(t)
    BY <1>0, <1>2, <1>3, <2>3, SMTT(30) DEF DetectOther
  <2>4. CASE Grant(t)
    <3>1. /\ Waiting(t)
          /\ request[t].res \in Resources
          /\ Leaves(t, request[t].res)
      BY <2>4, GrantLeaves
    <3>2. request[t].mode \in Modes
      BY <3>1, RequestFields DEF Base
    <3>3. x # request[t].res /\ HoldersOf(x) = {}
      BY <1>4, <2>4, <3>1, <3>2 DEF Grant
    <3>4. \A u \in Txns \ {t} : pc'[u] = pc[u]
      BY <1>0, <2>4 DEF Grant
    <3> QED
      BY <1>6, <3>1, <3>3, <3>4
  <2>5. CASE Sleep(t)
    <3>1. HoldersOf(x) = {} /\ waiters[x] # <<>> /\ waiters'[x] = waiters[x]
      BY <1>3, <2>5 DEF Sleep
    <3>2. f # t
      BY <1>1, <1>8, <2>5, <3>1 DEF Sleep
    <3> QED
      BY <1>0, <1>2, <2>5, <3>1, <3>2, SMTT(30) DEF Sleep
  <2>6. ASSUME NEW r \in Resources, ReleaseOne(t, r) PROVE Goal
    BY <1>7, <2>6 DEF ReleaseOne
  <2>7. CASE ReleaseDone(t)
    BY <1>0, <1>2, <1>3, <2>7, SMTT(30) DEF ReleaseDone
  <2> QED
    BY <1>11, <2>1, <2>2, <2>3, <2>4, <2>5, <2>6, <2>7 DEF Step
<1>12. ASSUME NEW t \in Txns, WakeUp(t) PROVE Goal
  BY <1>0, <1>2, <1>3, <1>12 DEF WakeUp
<1>13. ASSUME NEW t \in Txns, TimeOut(t) PROVE Goal
  BY <1>10, <1>13 DEF TimeOut, Waiting, WaitingPCs
<1>14. ASSUME NEW t \in Txns, NEW r \in Resources, Unlock(t, r) PROVE Goal
  BY <1>7, <1>14 DEF Unlock
<1>15. ASSUME NEW t \in Txns, ReleaseAll(t) PROVE Goal
  BY <1>0, <1>2, <1>3, <1>15, SMTT(30) DEF ReleaseAll
<1>16. CASE UNCHANGED vars
  BY <1>2, <1>3, <1>16 DEF vars
<1> QED
  BY <1>9, <1>11, <1>12, <1>13, <1>14, <1>15, <1>16 DEF Next

(***************************************************************************)
(* No wake-up is lost on a resource that nobody holds: the transaction at  *)
(* the front of its queue has been notified and is on its way to take the  *)
(* lock.  The strengthening needed is Base: the front entry belongs to a   *)
(* thread that waits for this resource, so notify_all reaches it.          *)
(***************************************************************************)
THEOREM WakeupsReachFront == Spec => []NoLostWakeup
<1> DEFINE Inv == Base /\ NoLostWakeup
<1>1. Init => Inv
  BY BaseInit DEF Init, NoLostWakeup
<1>2. Inv /\ [Next]_vars => Inv'
  BY BaseStep, WakeupStep
<1>3. Inv => NoLostWakeup
  OBVIOUS
<1> QED
  BY <1>1, <1>2, <1>3, PTL DEF Spec
=============================================================================
