------------------------- MODULE LockManagerProofs --------------------------
(***************************************************************************)
(* Types and queues of the lock manager, for every set of transactions,    *)
(* resources, shards and calls.                                            *)
(***************************************************************************)
EXTENDS LockManager, SequenceTheorems, TLAPS

\* What every step needs to know: types, and what the threads wait for.
Base == TypeOK /\ RequestsMatchThreads /\ QueuesMatchThreads

Waiter == [txn : Txns, mode : Modes]

-----------------------------------------------------------------------------
(* The compatibility matrix of is_compatible is symmetric.                 *)
LEMMA CompatibleSymmetric ==
    \A a, b \in Modes : Compatible(a, b) => Compatible(b, a)
BY Zenon DEF Modes, Compatible

(* A request of a thread that waits has the fields of a call. *)
LEMMA RequestFields ==
    ASSUME TypeOK, RequestsMatchThreads, NEW t \in Txns, Waiting(t)
    PROVE  /\ request[t] \in Requests
           /\ request[t].txn = t
           /\ request[t].res \in Resources
           /\ request[t].mode \in Modes
           /\ request[t].timed \in BOOLEAN
BY RequestsAssumption DEF RequestsMatchThreads

(* Entries of a queue. *)
LEMMA QueueEntries ==
    ASSUME TypeOK, NEW r \in Resources
    PROVE  /\ waiters[r] \in Seq(Waiter)
           /\ Len(waiters[r]) \in Nat
           /\ \A i \in 1..Len(waiters[r]) :
                waiters[r][i].txn \in Txns /\ waiters[r][i].mode \in Modes
<1>1. waiters[r] \in Seq(Waiter)
  BY Zenon DEF TypeOK, Waiter
<1>2. Len(waiters[r]) \in Nat /\ \A i \in 1..Len(waiters[r]) : waiters[r][i] \in Waiter
  BY <1>1, ElementOfSeq, LenProperties
<1> QED
  BY <1>1, <1>2 DEF Waiter

(* Erasing the entry of a queued transaction closes the gap it leaves.     *)
LEMMA WithoutProperties ==
    ASSUME NEW q \in Seq(Waiter), NEW t,
           \E k \in 1..Len(q) : q[k].txn = t
    PROVE  \E i \in 1..Len(q) :
              /\ q[i].txn = t
              /\ Without(q, t) \in Seq(Waiter)
              /\ Len(Without(q, t)) = Len(q) - 1
              /\ \A j \in 1..(Len(q) - 1) :
                    Without(q, t)[j] = IF j < i THEN q[j] ELSE q[j + 1]
<1> DEFINE i == CHOOSE k \in 1..Len(q) : q[k].txn = t
<1>1. i \in 1..Len(q) /\ q[i].txn = t
  OBVIOUS
<1> HIDE DEF i
<1> DEFINE a == SubSeq(q, 1, i - 1)
           b == SubSeq(q, i + 1, Len(q))
<1>2. Len(q) \in Nat
  BY LenProperties
<1>3. /\ a \in Seq(Waiter)
      /\ Len(a) = i - 1
      /\ \A j \in 1..(i - 1) : a[j] = q[j]
  BY <1>1, <1>2, SubSeqProperties
<1>4. /\ b \in Seq(Waiter)
      /\ Len(b) = Len(q) - i
      /\ \A j \in 1..(Len(q) - i) : b[j] = q[i + j]
  BY <1>1, <1>2, SubSeqProperties
<1> HIDE DEF a, b
<1>5. /\ a \o b \in Seq(Waiter)
      /\ Len(a \o b) = Len(q) - 1
      /\ \A j \in 1..(Len(q) - 1) :
            (a \o b)[j] = IF j <= Len(a) THEN a[j] ELSE b[j - Len(a)]
  <2>1. /\ a \o b \in Seq(Waiter)
        /\ Len(a \o b) = Len(a) + Len(b)
        /\ \A j \in 1..(Len(a) + Len(b)) :
              (a \o b)[j] = IF j <= Len(a) THEN a[j] ELSE b[j - Len(a)]
    BY <1>3, <1>4, ConcatProperties
  <2>2. Len(a) + Len(b) = Len(q) - 1
    BY <1>1, <1>2, <1>3, <1>4
  <2> QED
    BY <2>1, <2>2
<1>6. ASSUME NEW j \in 1..(Len(q) - 1)
      PROVE  (a \o b)[j] = IF j < i THEN q[j] ELSE q[j + 1]
  <2>1. CASE j < i
    BY <2>1, <1>1, <1>2, <1>3, <1>5
  <2>2. CASE ~(j < i)
    <3>1. j - Len(a) \in 1..(Len(q) - i) /\ i + (j - Len(a)) = j + 1
      BY <2>2, <1>1, <1>2, <1>3
    <3> QED
      BY <2>2, <3>1, <1>1, <1>2, <1>3, <1>4, <1>5
  <2> QED
    BY <2>1, <2>2, Zenon
<1>7. Without(q, t) = a \o b
  BY DEF Without, a, b, i
<1> QED
  BY <1>1, <1>5, <1>6, <1>7, Zenon

(* The same for the queue of a waiting thread.                             *)
LEMMA WithoutOfWaiter ==
    ASSUME Base, NEW t \in Txns, Waiting(t)
    PROVE  LET r == request[t].res
               q == waiters[r]
               w == Without(q, t)
           IN  /\ w \in Seq(Waiter)
               /\ Len(w) = Len(q) - 1
               /\ \E i \in 1..Len(q) :
                    /\ q[i].txn = t
                    /\ \A j \in 1..Len(w) :
                          w[j] = IF j < i THEN q[j] ELSE q[j + 1]
<1> DEFINE r == request[t].res
           q == waiters[r]
<1>1. r \in Resources
  BY RequestFields DEF Base
<1>2. q \in Seq(Waiter)
  BY <1>1, Zenon DEF Base, TypeOK, Waiter
<1>3. \E k \in 1..Len(q) : q[k].txn = t
  BY <1>1 DEF Base, QueuesMatchThreads
<1>4. PICK i \in 1..Len(q) :
          /\ q[i].txn = t
          /\ Without(q, t) \in Seq(Waiter)
          /\ Len(Without(q, t)) = Len(q) - 1
          /\ \A j \in 1..(Len(q) - 1) :
                Without(q, t)[j] = IF j < i THEN q[j] ELSE q[j + 1]
  BY <1>2, <1>3, WithoutProperties, Zenon
<1> QED
  BY <1>4

(* Its queue is never empty, so popping it is defined. *)
LEMMA QueueOfWaiter ==
    ASSUME Base, NEW t \in Txns, Waiting(t)
    PROVE  LET q == waiters[request[t].res]
           IN  /\ request[t].res \in Resources
               /\ q \in Seq(Waiter)
               /\ q # <<>>
               /\ Tail(q) \in Seq(Waiter)
               /\ Len(Tail(q)) = Len(q) - 1
               /\ \A j \in 1..Len(Tail(q)) : Tail(q)[j] = q[j + 1]
<1> DEFINE r == request[t].res
           q == waiters[r]
<1>1. r \in Resources
  BY RequestFields DEF Base
<1>2. q \in Seq(Waiter)
  BY <1>1, Zenon DEF Base, TypeOK, Waiter
<1>3. \E k \in 1..Len(q) : q[k].txn = t
  BY <1>1 DEF Base, QueuesMatchThreads
<1>4. q # <<>>
  BY <1>3
<1> HIDE DEF q
<1>5. /\ Tail(q) \in Seq(Waiter)
      /\ Len(Tail(q)) = Len(q) - 1
      /\ \A j \in 1..Len(Tail(q)) : Tail(q)[j] = q[j + 1]
  BY <1>2, <1>4, HeadTailProperties
<1> QED
  BY <1>1, <1>2, <1>4, <1>5 DEF q

-----------------------------------------------------------------------------
\* Every step keeps the types, given the rest of Base.
LEMMA TypeStep == Base /\ [Next]_vars => TypeOK'
<1> SUFFICES ASSUME Base, [Next]_vars PROVE TypeOK'
  OBVIOUS
<1> USE DEF Base, TypeOK
<1>1. ASSUME NEW t \in Txns, NEW q \in Requests, Lock(t, q)
      PROVE  TypeOK'
  <2>0. q.res \in Resources /\ q.mode \in Modes
    BY RequestsAssumption
  <2> DEFINE w == [txn |-> t, mode |-> q.mode]
  <2>1. /\ w \in Waiter
        /\ waiters[q.res] \in Seq(Waiter)
        /\ <<w>> \o waiters[q.res] \in Seq(Waiter)
        /\ Append(waiters[q.res], w) \in Seq(Waiter)
    <3>1. w \in Waiter /\ waiters[q.res] \in Seq(Waiter)
      BY <2>0, Zenon DEF Waiter
    <3> HIDE DEF w
    <3>2. <<w>> \in Seq(Waiter)
      BY <3>1
    <3>3. <<w>> \o waiters[q.res] \in Seq(Waiter)
      BY <3>1, <3>2, ConcatProperties
    <3>4. Append(waiters[q.res], w) \in Seq(Waiter)
      BY <3>1, AppendProperties
    <3> QED
      BY <3>1, <3>3, <3>4
  <2>2. CASE LockAlreadyHeld(t, q)
    BY <2>2, Zenon DEF LockAlreadyHeld, Call, ReturnOk, Statuses
  <2>3. CASE LockUpgradeNow(t, q)
    BY <2>3, <2>0, Zenon DEF LockUpgradeNow, Call, ReturnOk, SetHolder, Statuses
  <2>4. CASE LockGrantNow(t, q)
    BY <2>4, <2>0, Zenon DEF LockGrantNow, Call, ReturnOk, SetHolder, Statuses
  <2>5. CASE LockUpgradeWait(t, q)
    BY <2>5, <2>0, <2>1, Zenon
    DEF LockUpgradeWait, Call, Enqueue, Statuses, PCs, WaitingPCs, CriticalPCs,
        HoldersOf, Waiter
  <2>6. CASE LockEnqueue(t, q)
    BY <2>6, <2>0, <2>1, Zenon
    DEF LockEnqueue, Call, Enqueue, Statuses, PCs, WaitingPCs, CriticalPCs,
        HoldersOf, Waiter
  <2> QED
    BY <1>1, <2>2, <2>3, <2>4, <2>5, <2>6, Zenon DEF Lock
<1>2. ASSUME NEW t \in Txns, NEW status \in Statuses, Waiting(t),
             GiveUp(t, status)
      PROVE  TypeOK'
  <2>1. request[t].res \in Resources
    BY <1>2, QueueOfWaiter, Zenon
  <2>2. Without(waiters[request[t].res], t) \in Seq(Waiter)
    BY <1>2, WithoutOfWaiter, Zenon
  <2> QED
    BY <1>2, <2>1, <2>2, Zenon DEF GiveUp, RemoveTransaction, PCs, Waiter
<1>3. ASSUME NEW t \in Txns, Step(t)
      PROVE  TypeOK'
  <2>1. ASSUME NEW u \in Txns, AddBlocker(t, u) PROVE TypeOK'
    <3>1. edges' \subseteq Txns \X Txns
      <4>1. <<t, u>> \in Txns \X Txns
        OBVIOUS
      <4> QED
        BY <2>1, <4>1 DEF AddBlocker, AddEdge
    <3> QED
      BY <2>1, <3>1, Zenon DEF AddBlocker
  <2>2. CASE DetectSelf(t)
    BY <2>2, <1>2, Zenon DEF DetectSelf, Waiting, WaitingPCs, CriticalPCs, Statuses
  <2>3. CASE DetectOther(t)
    BY <2>3, Zenon DEF DetectOther, PCs, WaitingPCs, CriticalPCs
  <2>4. CASE Grant(t)
    <3>1. Waiting(t)
      BY <2>4 DEF Grant, HasMutex, Waiting, WaitingPCs, CriticalPCs
    <3>2. request[t].mode \in Modes
      BY <3>1, RequestFields, Zenon
    <3>3. /\ request[t].res \in Resources
          /\ Tail(waiters[request[t].res]) \in Seq(Waiter)
      BY <3>1, QueueOfWaiter, Zenon
    <3> QED
      BY <2>4, <3>2, <3>3, Zenon
      DEF Grant, SetHolder, RemoveTransaction, PCs, Statuses, Waiter
  <2>5. CASE Sleep(t)
    BY <2>5, Zenon DEF Sleep, PCs, WaitingPCs
  <2>6. ASSUME NEW r \in Resources, ReleaseOne(t, r) PROVE TypeOK'
    BY <2>6, Zenon
    DEF ReleaseOne, UnlockResource, SetHolder, Notify, PCs, WaitingPCs
  <2>7. CASE ReleaseDone(t)
    BY <2>7, Zenon DEF ReleaseDone, RemoveTransaction, PCs
  <2> QED
    BY <1>3, <2>1, <2>2, <2>3, <2>4, <2>5, <2>6, <2>7, Zenon DEF Step
<1>4. ASSUME NEW t \in Txns, WakeUp(t) PROVE TypeOK'
  BY <1>4, Zenon DEF WakeUp, PCs, WaitingPCs
<1>5. ASSUME NEW t \in Txns, TimeOut(t) PROVE TypeOK'
  BY <1>5, <1>2, Zenon DEF TimeOut, Waiting, WaitingPCs, Statuses
<1>6. ASSUME NEW t \in Txns, NEW r \in Resources, Unlock(t, r) PROVE TypeOK'
  BY <1>6, Zenon
  DEF Unlock, UnlockResource, SetHolder, Notify, PCs, WaitingPCs, Statuses
<1>7. ASSUME NEW t \in Txns, ReleaseAll(t) PROVE TypeOK'
  BY <1>7, Zenon DEF ReleaseAll, PCs, Statuses
<1>8. CASE UNCHANGED vars
  BY <1>8, Zenon DEF vars
<1> QED
  BY <1>1, <1>3, <1>4, <1>5, <1>6, <1>7, <1>8, Zenon DEF Next

-----------------------------------------------------------------------------
(***************************************************************************)
(* For the queues a step is one of three: a transaction joins a queue, one *)
(* leaves its queue, or the queues and the sets of waiting transactions    *)
(* stay as they are.                                                       *)
(***************************************************************************)
\* Queue "shorter" is queue "longer" without its entry at position p.
Removal(longer, p, shorter) ==
    /\ p \in 1..Len(longer)
    /\ Len(shorter) = Len(longer) - 1
    /\ \A j \in 1..Len(shorter) :
          shorter[j] = IF j < p THEN longer[j] ELSE longer[j + 1]

OthersKeepWaiting(t) ==
    /\ \A u \in Txns \ {t} : Waiting(u)' <=> Waiting(u)
    /\ \A u \in Txns \ {t} : Waiting(u) => request'[u] = request[u]

Joins(t, r) ==
    /\ ~Waiting(t) /\ Waiting(t)'
    /\ OthersKeepWaiting(t)
    /\ request'[t] \in Requests
    /\ request'[t].txn = t
    /\ request'[t].res = r
    /\ \A x \in Resources \ {r} : waiters'[x] = waiters[x]
    /\ \E p \in 1..Len(waiters'[r]) :
          /\ Removal(waiters'[r], p, waiters[r])
          /\ waiters'[r][p] = [txn |-> t, mode |-> request'[t].mode]
          /\ p = 1 => HoldersOf(r) # {}

Leaves(t, r) ==
    /\ Waiting(t) /\ ~Waiting(t)'
    /\ OthersKeepWaiting(t)
    /\ request[t].res = r
    /\ \A x \in Resources \ {r} : waiters'[x] = waiters[x]
    /\ \E p \in 1..Len(waiters[r]) :
          /\ Removal(waiters[r], p, waiters'[r])
          /\ waiters[r][p].txn = t

Stays ==
    /\ UNCHANGED waiters
    /\ \A u \in Txns : Waiting(u)' <=> Waiting(u)
    /\ \A u \in Txns : Waiting(u) => request'[u] = request[u]

\* A step that moves no thread in or out of a queue keeps the queues right.
LEMMA StaysKeepsQueues ==
    ASSUME Base, TypeOK', Stays
    PROVE  RequestsMatchThreads' /\ QueuesMatchThreads'
<1> USE DEF Base, Stays
<1>1. RequestsMatchThreads'
  BY DEF RequestsMatchThreads
<1>2. QueuesMatchThreads'
  <2> SUFFICES ASSUME NEW r \in Resources
               PROVE  /\ \A i \in 1..Len(waiters[r]) :
                          LET w == waiters[r][i] IN
                          /\ pc'[w.txn] \in WaitingPCs
                          /\ request'[w.txn].res = r
                          /\ request'[w.txn].mode = w.mode
                          /\ \A j \in 1..Len(waiters[r]) :
                                waiters[r][j].txn = w.txn => j = i
                      /\ \A t \in Txns : Waiting(t)' /\ request'[t].res = r
                            => \E i \in 1..Len(waiters[r]) : waiters[r][i].txn = t
    BY DEF QueuesMatchThreads, Waiting
  <2>1. \A i \in 1..Len(waiters[r]) : waiters[r][i].txn \in Txns
    BY QueueEntries
  <2> QED
    BY <2>1 DEF QueuesMatchThreads, Waiting
<1> QED
  BY <1>1, <1>2

\* So does one in which a thread leaves its queue.
LEMMA LeavesKeepsQueues ==
    ASSUME Base, TypeOK', NEW t \in Txns, NEW r \in Resources, Leaves(t, r)
    PROVE  RequestsMatchThreads' /\ QueuesMatchThreads'
<1> USE DEF Base
<1>1. RequestsMatchThreads'
  BY DEF RequestsMatchThreads, Leaves, OthersKeepWaiting
<1>2. ASSUME NEW x \in Resources
      PROVE  /\ \A i \in 1..Len(waiters'[x]) :
                  LET w == waiters'[x][i] IN
                  /\ pc'[w.txn] \in WaitingPCs
                  /\ request'[w.txn].res = x
                  /\ request'[w.txn].mode = w.mode
                  /\ \A j \in 1..Len(waiters'[x]) :
                        waiters'[x][j].txn = w.txn => j = i
             /\ \A u \in Txns : Waiting(u)' /\ request'[u].res = x
                    => \E i \in 1..Len(waiters'[x]) : waiters'[x][i].txn = u
  <2>0. \A i \in 1..Len(waiters[x]) : waiters[x][i].txn \in Txns
    BY QueueEntries
  <2>1. CASE x # r
    <3>1. waiters'[x] = waiters[x]
      BY <2>1 DEF Leaves
    <3>2. ASSUME NEW i \in 1..Len(waiters[x])
          PROVE  waiters[x][i].txn # t
      BY <2>1 DEF QueuesMatchThreads, Leaves
    <3> QED
      BY <2>0, <2>1, <3>1, <3>2, SMTT(30)
      DEF QueuesMatchThreads, Leaves, OthersKeepWaiting, Waiting
  <2>2. CASE x = r
    <3>1. PICK p \in 1..Len(waiters[r]) :
              Removal(waiters[r], p, waiters'[r]) /\ waiters[r][p].txn = t
      BY DEF Leaves
    <3>2. /\ Len(waiters[r]) \in Nat
          /\ Len(waiters'[r]) = Len(waiters[r]) - 1
          /\ \A j \in 1..Len(waiters'[r]) :
                waiters'[r][j]
                    = IF j < p THEN waiters[r][j] ELSE waiters[r][j + 1]
      BY <3>1 DEF Removal, TypeOK
    <3>3. ASSUME NEW i \in 1..Len(waiters'[r])
          PROVE  \E k \in 1..Len(waiters[r]) :
                    /\ k # p
                    /\ k = IF i < p THEN i ELSE i + 1
                    /\ waiters'[r][i] = waiters[r][k]
                    /\ waiters[r][k].txn # t
      <4> DEFINE k == IF i < p THEN i ELSE i + 1
      <4>1. k \in 1..Len(waiters[r]) /\ k # p
        BY <3>2
      <4>2. waiters'[r][i] = waiters[r][k]
        BY <3>2
      <4>3. waiters[r][k].txn # t
        BY <3>1, <4>1 DEF QueuesMatchThreads
      <4> QED
        BY <4>1, <4>2, <4>3
    <3>4. ASSUME NEW i \in 1..Len(waiters'[r])
          PROVE  LET w == waiters'[r][i] IN
                 /\ pc'[w.txn] \in WaitingPCs
                 /\ request'[w.txn].res = r
                 /\ request'[w.txn].mode = w.mode
      <4>1. PICK k \in 1..Len(waiters[r]) :
                waiters'[r][i] = waiters[r][k] /\ waiters[r][k].txn # t
        BY <3>3
      <4>2. /\ waiters[r][k].txn \in Txns
            /\ Waiting(waiters[r][k].txn)
            /\ request[waiters[r][k].txn].res = r
            /\ request[waiters[r][k].txn].mode = waiters[r][k].mode
        BY <2>0, <2>2 DEF QueuesMatchThreads
      <4> QED
        BY <4>1, <4>2 DEF Leaves, OthersKeepWaiting, Waiting
    <3>5. ASSUME NEW i \in 1..Len(waiters'[r]), NEW j \in 1..Len(waiters'[r]),
                 waiters'[r][j].txn = waiters'[r][i].txn
          PROVE  j = i
      <4>1. PICK k \in 1..Len(waiters[r]) :
                k = (IF i < p THEN i ELSE i + 1) /\ waiters'[r][i] = waiters[r][k]
        BY <3>3
      <4>2. PICK l \in 1..Len(waiters[r]) :
                l = (IF j < p THEN j ELSE j + 1) /\ waiters'[r][j] = waiters[r][l]
        BY <3>3
      <4>3. l = k
        BY <4>1, <4>2, <3>5 DEF QueuesMatchThreads
      <4> QED
        BY <4>1, <4>2, <4>3, <3>2
    <3>6. ASSUME NEW u \in Txns, Waiting(u)', request'[u].res = r
          PROVE  \E i \in 1..Len(waiters'[r]) : waiters'[r][i].txn = u
      <4>1. u # t /\ Waiting(u) /\ request[u].res = r
        BY <3>6 DEF Leaves, OthersKeepWaiting
      <4>2. PICK k \in 1..Len(waiters[r]) : waiters[r][k].txn = u
        BY <4>1 DEF QueuesMatchThreads
      <4> DEFINE i == IF k < p THEN k ELSE k - 1
      <4>3. k # p
        BY <3>1, <4>1, <4>2
      <4>4. i \in 1..Len(waiters'[r]) /\ waiters'[r][i] = waiters[r][k]
        BY <3>2, <4>3
      <4> QED
        BY <4>2, <4>4
    <3> QED
      BY <2>2, <3>4, <3>5, <3>6
  <2> QED
    BY <2>1, <2>2
<1>3. QueuesMatchThreads'
  BY <1>2 DEF QueuesMatchThreads, Waiting
<1> QED
  BY <1>1, <1>3

\* And one in which a thread joins the queue of its resource.
LEMMA JoinsKeepsQueues ==
    ASSUME Base, TypeOK', NEW t \in Txns, NEW r \in Resources, Joins(t, r)
    PROVE  RequestsMatchThreads' /\ QueuesMatchThreads'
<1> USE DEF Base
<1>1. RequestsMatchThreads'
  BY DEF RequestsMatchThreads, Joins, OthersKeepWaiting
<1>2. ASSUME NEW x \in Resources, NEW i \in 1..Len(waiters[x])
      PROVE  LET w == waiters[x][i] IN
             /\ w.txn \in Txns
             /\ w.txn # t
             /\ pc'[w.txn] \in WaitingPCs
             /\ request'[w.txn].res = x
             /\ request'[w.txn].mode = w.mode
  <2>1. /\ waiters[x][i].txn \in Txns
        /\ Waiting(waiters[x][i].txn)
        /\ request[waiters[x][i].txn].res = x
        /\ request[waiters[x][i].txn].mode = waiters[x][i].mode
    BY QueueEntries DEF QueuesMatchThreads
  <2> QED
    BY <2>1 DEF Joins, OthersKeepWaiting, Waiting
<1>3. ASSUME NEW x \in Resources
      PROVE  /\ \A i \in 1..Len(waiters'[x]) :
                  LET w == waiters'[x][i] IN
                  /\ pc'[w.txn] \in WaitingPCs
                  /\ request'[w.txn].res = x
                  /\ request'[w.txn].mode = w.mode
                  /\ \A j \in 1..Len(waiters'[x]) :
                        waiters'[x][j].txn = w.txn => j = i
             /\ \A u \in Txns : Waiting(u)' /\ request'[u].res = x
                    => \E i \in 1..Len(waiters'[x]) : waiters'[x][i].txn = u
  <2>1. CASE x # r
    <3>1. waiters'[x] = waiters[x]
      BY <2>1 DEF Joins
    <3>2. request'[t].res # x
      BY <2>1 DEF Joins
    <3> QED
      BY <1>2, <3>1, <3>2, SMTT(30)
      DEF QueuesMatchThreads, Joins, OthersKeepWaiting, Waiting
  <2>2. CASE x = r
    <3>1. PICK p \in 1..Len(waiters'[r]) :
              /\ Removal(waiters'[r], p, waiters[r])
              /\ waiters'[r][p] = [txn |-> t, mode |-> request'[t].mode]
      BY DEF Joins
    <3>2. /\ Len(waiters'[r]) \in Nat
          /\ Len(waiters[r]) = Len(waiters'[r]) - 1
          /\ \A j \in 1..Len(waiters[r]) :
                waiters[r][j]
                    = IF j < p THEN waiters'[r][j] ELSE waiters'[r][j + 1]
      <4>1. waiters'[r] \in Seq([txn : Txns, mode : Modes])
        BY Zenon DEF TypeOK
      <4>2. Len(waiters'[r]) \in Nat
        BY <4>1, LenProperties
      <4> QED
        BY <3>1, <4>2 DEF Removal
    <3>3. ASSUME NEW i \in 1..Len(waiters'[r]), i # p
          PROVE  \E k \in 1..Len(waiters[r]) :
                    /\ k = IF i < p THEN i ELSE i - 1
                    /\ waiters'[r][i] = waiters[r][k]
      <4> DEFINE k == IF i < p THEN i ELSE i - 1
      <4>1. k \in 1..Len(waiters[r]) /\ (k < p <=> i < p)
        BY <3>2, <3>3
      <4>2. waiters'[r][i] = waiters[r][k]
        BY <3>2, <3>3, <4>1
      <4> QED
        BY <4>1, <4>2
    <3>4. ASSUME NEW i \in 1..Len(waiters'[r])
          PROVE  LET w == waiters'[r][i] IN
                 /\ pc'[w.txn] \in WaitingPCs
                 /\ request'[w.txn].res = r
                 /\ request'[w.txn].mode = w.mode
                 /\ i # p => w.txn # t
      <4>1. CASE i = p
        BY <4>1, <3>1 DEF Joins, Waiting
      <4>2. CASE i # p
        <5>1. PICK k \in 1..Len(waiters[r]) : waiters'[r][i] = waiters[r][k]
          BY <4>2, <3>3
        <5> QED
          BY <5>1, <1>2
      <4> QED
        BY <4>1, <4>2
    <3>5. ASSUME NEW i \in 1..Len(waiters'[r]), NEW j \in 1..Len(waiters'[r]),
                 waiters'[r][j].txn = waiters'[r][i].txn
          PROVE  j = i
      <4>1. CASE i = p \/ j = p
        BY <4>1, <3>1, <3>4, <3>5
      <4>2. CASE i # p /\ j # p
        <5>1. PICK k \in 1..Len(waiters[r]) :
                  k = (IF i < p THEN i ELSE i - 1) /\ waiters'[r][i] = waiters[r][k]
          BY <4>2, <3>3
        <5>2. PICK l \in 1..Len(waiters[r]) :
                  l = (IF j < p THEN j ELSE j - 1) /\ waiters'[r][j] = waiters[r][l]
          BY <4>2, <3>3
        <5>3. l = k
          BY <5>1, <5>2, <3>5 DEF QueuesMatchThreads
        <5> QED
          BY <4>2, <5>1, <5>2, <5>3, <3>2
      <4> QED
        BY <4>1, <4>2
    <3>6. ASSUME NEW u \in Txns, Waiting(u)', request'[u].res = r
          PROVE  \E i \in 1..Len(waiters'[r]) : waiters'[r][i].txn = u
      <4>1. CASE u = t
        BY <4>1, <3>1
      <4>2. CASE u # t
        <5>1. Waiting(u) /\ request[u].res = r
          BY <4>2, <3>6 DEF Joins, OthersKeepWaiting
        <5>2. PICK k \in 1..Len(waiters[r]) : waiters[r][k].txn = u
          BY <5>1 DEF QueuesMatchThreads
        <5> DEFINE i == IF k < p THEN k ELSE k + 1
        <5>3. i \in 1..Len(waiters'[r]) /\ waiters'[r][i] = waiters[r][k]
          BY <3>2
        <5> QED
          BY <5>2, <5>3
      <4> QED
        BY <4>1, <4>2
    <3> QED
      BY <2>2, <3>4, <3>5, <3>6
  <2> QED
    BY <2>1, <2>2
<1>4. QueuesMatchThreads'
  BY <1>3 DEF QueuesMatchThreads, Waiting
<1> QED
  BY <1>1, <1>4

-----------------------------------------------------------------------------
(* Entering the queue, at its front (an upgrade) or at its back.           *)
LEMMA EnqueueJoins ==
    ASSUME Base, NEW t \in Txns, NEW q \in Requests,
           LockUpgradeWait(t, q) \/ LockEnqueue(t, q)
    PROVE  q.res \in Resources /\ Joins(t, q.res)
<1> DEFINE r == q.res
           w == [txn |-> t, mode |-> q.mode]
           old == waiters[r]
<1>1. r \in Resources /\ q.mode \in Modes
  BY RequestsAssumption
<1>2. old \in Seq(Waiter) /\ Len(old) \in Nat /\ w \in Waiter
  BY <1>1, QueueEntries, Zenon DEF Base, Waiter
<1>3. /\ pc[t] = "running" /\ q.txn = t
      /\ request' = [request EXCEPT ![t] = q]
      /\ pc' = [pc EXCEPT ![t] = "adding"]
  BY DEF LockUpgradeWait, LockEnqueue, Call, Enqueue
<1>4. /\ ~Waiting(t) /\ Waiting(t)'
      /\ OthersKeepWaiting(t)
      /\ request'[t] = q
  BY <1>3
  DEF Waiting, WaitingPCs, CriticalPCs, OthersKeepWaiting, Base, TypeOK
<1>5. \A x \in Resources \ {r} : waiters'[x] = waiters[x]
  BY <1>1 DEF LockUpgradeWait, LockEnqueue, Enqueue, Base, TypeOK
<1>6. \E p \in 1..Len(waiters'[r]) :
          /\ Removal(waiters'[r], p, old)
          /\ waiters'[r][p] = w
          /\ p = 1 => HoldersOf(r) # {}
  <2>1. CASE LockUpgradeWait(t, q)
    <3>1. waiters'[r] = <<w>> \o old
      BY <2>1, <1>1 DEF LockUpgradeWait, Enqueue, Base, TypeOK
    <3> HIDE DEF old, w
    <3>2. <<w>> \in Seq(Waiter) /\ Len(<<w>>) = 1 /\ <<w>>[1] = w
      BY <1>2
    <3>3. /\ Len(<<w>> \o old) = Len(old) + 1
          /\ \A i \in 1..(Len(old) + 1) :
                (<<w>> \o old)[i] = IF i <= 1 THEN w ELSE old[i - 1]
      BY <1>2, <3>2, ConcatProperties
    <3>4. Removal(waiters'[r], 1, old) /\ waiters'[r][1] = w
      BY <1>2, <3>1, <3>3 DEF Removal
    <3>5. HoldersOf(r) # {}
      BY <2>1 DEF LockUpgradeWait, HoldersOf
    <3> QED
      BY <3>4, <3>5 DEF Removal
  <2>2. CASE LockEnqueue(t, q)
    <3>1. waiters'[r] = Append(old, w)
      BY <2>2, <1>1 DEF LockEnqueue, Enqueue, Base, TypeOK
    <3>2. old # <<>> \/ HoldersOf(r) # {}
      BY <2>2 DEF LockEnqueue, CanGrant
    <3> HIDE DEF old, w
    <3>3. /\ Len(Append(old, w)) = Len(old) + 1
          /\ \A i \in 1..Len(old) : Append(old, w)[i] = old[i]
          /\ Append(old, w)[Len(old) + 1] = w
      BY <1>2, AppendProperties
    <3>4. Removal(waiters'[r], Len(old) + 1, old) /\ waiters'[r][Len(old) + 1] = w
      BY <1>2, <3>1, <3>3 DEF Removal
    <3>5. Len(old) + 1 = 1 => old = <<>>
      BY <1>2, EmptySeq
    <3> QED
      BY <3>2, <3>4, <3>5 DEF Removal
  <2> QED
    BY <2>1, <2>2
<1> QED
  BY <1>1, <1>3, <1>4, <1>5, <1>6 DEF Joins

(* Giving up, after a deadlock or a timeout.                               *)
LEMMA GiveUpLeaves ==
    ASSUME Base, NEW t \in Txns, NEW status, Waiting(t), GiveUp(t, status)
    PROVE  request[t].res \in Resources /\ Leaves(t, request[t].res)
<1> DEFINE r == request[t].res
<1>1. r \in Resources
  BY RequestFields DEF Base
<1>2. PICK p \in 1..Len(waiters[r]) :
          /\ waiters[r][p].txn = t
          /\ \A j \in 1..Len(Without(waiters[r], t)) :
                Without(waiters[r], t)[j]
                    = IF j < p THEN waiters[r][j] ELSE waiters[r][j + 1]
  BY WithoutOfWaiter
<1>3. Len(Without(waiters[r], t)) = Len(waiters[r]) - 1
  BY WithoutOfWaiter
<1>4. waiters'[r] = Without(waiters[r], t)
  BY <1>1 DEF GiveUp, Base, TypeOK
<1>5. Removal(waiters[r], p, waiters'[r])
  BY <1>2, <1>3, <1>4 DEF Removal
<1>6. ~Waiting(t)' /\ OthersKeepWaiting(t)
  BY DEF GiveUp, Waiting, WaitingPCs, CriticalPCs, OthersKeepWaiting, Base, TypeOK
<1>7. \A x \in Resources \ {r} : waiters'[x] = waiters[x]
  BY <1>1 DEF GiveUp, Base, TypeOK
<1> QED
  BY <1>1, <1>2, <1>5, <1>6, <1>7 DEF Leaves

(* Being granted the lock, at the front of the queue.                      *)
LEMMA GrantLeaves ==
    ASSUME Base, NEW t \in Txns, Grant(t)
    PROVE  /\ Waiting(t)
           /\ request[t].res \in Resources
           /\ Leaves(t, request[t].res)
<1> DEFINE r == request[t].res
<1>0. Waiting(t)
  BY DEF Grant, HasMutex, Waiting, WaitingPCs, CriticalPCs
<1>1. /\ r \in Resources
      /\ waiters[r] \in Seq(Waiter)
      /\ waiters[r] # <<>>
      /\ Len(Tail(waiters[r])) = Len(waiters[r]) - 1
      /\ \A j \in 1..Len(Tail(waiters[r])) : Tail(waiters[r])[j] = waiters[r][j + 1]
  BY <1>0, QueueOfWaiter
<1>2. Len(waiters[r]) \in Nat /\ Len(waiters[r]) >= 1
  BY <1>1, EmptySeq, LenProperties
<1>3. waiters'[r] = Tail(waiters[r])
  BY <1>1 DEF Grant, Base, TypeOK
<1>4. Removal(waiters[r], 1, waiters'[r])
  BY <1>1, <1>2, <1>3 DEF Removal
<1>5. waiters[r][1].txn = t
  BY <1>1 DEF Grant, WaitPred
<1>6. ~Waiting(t)' /\ OthersKeepWaiting(t)
  BY DEF Grant, Waiting, WaitingPCs, CriticalPCs, OthersKeepWaiting, Base, TypeOK
<1>7. \A x \in Resources \ {r} : waiters'[x] = waiters[x]
  BY <1>1 DEF Grant, Base, TypeOK
<1> QED
  BY <1>0, <1>1, <1>2, <1>4, <1>5, <1>6, <1>7, SMTT(30) DEF Leaves

(* The three kinds of step.                                                *)
LEMMA StepShape ==
    ASSUME Base, [Next]_vars
    PROVE  \/ Stays
           \/ \E t \in Txns, r \in Resources : Joins(t, r)
           \/ \E t \in Txns, r \in Resources : Leaves(t, r)
<1> USE DEF Base, TypeOK, Waiting, WaitingPCs, CriticalPCs
<1>1. ASSUME NEW t \in Txns, NEW q \in Requests, Lock(t, q)
      PROVE  Stays \/ \E u \in Txns, r \in Resources : Joins(u, r)
  <2>1. CASE LockAlreadyHeld(t, q) \/ LockUpgradeNow(t, q) \/ LockGrantNow(t, q)
    BY <2>1
    DEF LockAlreadyHeld, LockUpgradeNow, LockGrantNow, Call, ReturnOk, Stays
  <2>2. CASE LockUpgradeWait(t, q) \/ LockEnqueue(t, q)
    BY <2>2, EnqueueJoins, Zenon
  <2> QED
    BY <1>1, <2>1, <2>2 DEF Lock
<1>2. ASSUME NEW t \in Txns, Step(t)
      PROVE  Stays \/ \E u \in Txns, r \in Resources : Leaves(u, r)
  <2>1. ASSUME NEW u \in Txns, AddBlocker(t, u) PROVE Stays
    BY <2>1 DEF AddBlocker, Stays
  <2>2. CASE DetectSelf(t)
    BY <2>2, GiveUpLeaves, Zenon DEF DetectSelf
  <2>3. CASE DetectOther(t)
    BY <2>3 DEF DetectOther, Stays
  <2>4. CASE Grant(t)
    BY <2>4, GrantLeaves, Zenon
  <2>5. CASE Sleep(t)
    BY <2>5 DEF Sleep, HasMutex, Stays
  <2>6. ASSUME NEW r \in Resources, ReleaseOne(t, r) PROVE Stays
    BY <2>6 DEF ReleaseOne, UnlockResource, Notify, Stays
  <2>7. CASE ReleaseDone(t)
    BY <2>7 DEF ReleaseDone, Stays
  <2> QED
    BY <1>2, <2>1, <2>2, <2>3, <2>4, <2>5, <2>6, <2>7 DEF Step
<1>3. ASSUME NEW t \in Txns, WakeUp(t) PROVE Stays
  BY <1>3 DEF WakeUp, Stays
<1>4. ASSUME NEW t \in Txns, TimeOut(t)
      PROVE  \E u \in Txns, r \in Resources : Leaves(u, r)
  BY <1>4, GiveUpLeaves, Zenon DEF TimeOut
<1>5. ASSUME NEW t \in Txns, NEW r \in Resources, Unlock(t, r) PROVE Stays
  BY <1>5 DEF Unlock, UnlockResource, Notify, Stays
<1>6. ASSUME NEW t \in Txns, ReleaseAll(t) PROVE Stays
  BY <1>6 DEF ReleaseAll, Stays
<1>7. CASE UNCHANGED vars
  BY <1>7 DEF vars, Stays
<1> QED
  BY <1>1, <1>2, <1>3, <1>4, <1>5, <1>6, <1>7 DEF Next

\* Every step, and stuttering, keeps Base.
LEMMA BaseStep == Base /\ [Next]_vars => Base'
<1> SUFFICES ASSUME Base, [Next]_vars PROVE Base'
  OBVIOUS
<1>1. TypeOK'
  BY TypeStep
<1>2. RequestsMatchThreads' /\ QueuesMatchThreads'
  BY <1>1, StepShape, StaysKeepsQueues, JoinsKeepsQueues, LeavesKeepsQueues
<1> QED
  BY <1>1, <1>2 DEF Base

\* Base holds initially.
LEMMA BaseInit == Init => Base
<1> SUFFICES ASSUME Init PROVE Base
  OBVIOUS
<1>1. \A r \in Resources : waiters[r] = <<>> /\ Len(waiters[r]) = 0
  BY DEF Init
<1>2. \A t \in Txns : ~Waiting(t)
  BY DEF Init, Waiting, WaitingPCs, CriticalPCs
<1>3. TypeOK
  BY DEF Init, TypeOK, Statuses, PCs
<1> QED
  BY <1>1, <1>2, <1>3 DEF Base, RequestsMatchThreads, QueuesMatchThreads

(***************************************************************************)
(* Every reachable state of the lock table, the queues, the graph and the  *)
(* threads is well typed.                                                  *)
(***************************************************************************)
THEOREM LockManagerTypes == Spec => []TypeOK
<1>1. Init => Base
  BY BaseInit
<1>2. Base /\ [Next]_vars => Base'
  BY BaseStep
<1>3. Base => TypeOK
  BY DEF Base
<1> QED
  BY <1>1, <1>2, <1>3, PTL DEF Spec

(***************************************************************************)
(* A transaction is queued exactly on the resource its thread waits for,   *)
(* once, with the mode of its call, however joins, grants, timeouts and    *)
(* deadlock aborts interleave.                                             *)
(***************************************************************************)
THEOREM QueuesMatch == Spec => []QueuesMatchThreads
<1>1. Init => Base
  BY BaseInit
<1>2. Base /\ [Next]_vars => Base'
  BY BaseStep
<1>3. Base => QueuesMatchThreads
  BY DEF Base
<1> QED
  BY <1>1, <1>2, <1>3, PTL DEF Spec
=============================================================================
