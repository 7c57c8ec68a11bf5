-------------------------- MODULE WALManagerProofs --------------------------
(***************************************************************************)
(* What holds of the log for any number of threads, records and segments.  *)
(* The flush mutex makes its owner the only thread that touches the flush  *)
(* buffer, the stream and the file after the swap (FlushMutexHeld).        *)
(***************************************************************************)
EXTENDS WALManager, SequenceTheorems, TLAPS

Clearing == {"syncing", "observing", "publishing"}
Owning == {"writing"} \cup Clearing

\* A thread between locking and unlocking the flush mutex owns it.
FlushMutexHeld == \A t \in Threads : pc[t] \in Flushing <=> flushMutex = t

Base == TypeOK /\ FlushMutexHeld

-----------------------------------------------------------------------------
\* The records of a concatenation, of an append and of the empty sequence.
LEMMA RecsOfConcat ==
    ASSUME NEW s \in Seq(Nat), NEW u \in Seq(Nat)
    PROVE  s \o u \in Seq(Nat) /\ Recs(s \o u) = Recs(s) \cup Recs(u)
<1>1. s \o u \in Seq(Nat)
    BY ConcatProperties
<1>2. Len(s \o u) = Len(s) + Len(u)
    BY ConcatProperties
<1>3. Len(s) \in Nat /\ Len(u) \in Nat
    BY LenProperties
<1>4. \A i \in 1..Len(s) : (s \o u)[i] = s[i]
    BY <1>2, <1>3, ConcatProperties
<1>5. \A i \in 1..Len(u) : (s \o u)[Len(s) + i] = u[i]
    BY <1>2, <1>3, ConcatProperties
<1>6. Recs(s \o u) \subseteq Recs(s) \cup Recs(u)
    <2>1. SUFFICES ASSUME NEW i \in 1..Len(s \o u)
                   PROVE  (s \o u)[i] \in Recs(s) \cup Recs(u)
        BY DEF Recs
    <2>2. CASE i <= Len(s)
        BY <2>2, <1>3, <1>4 DEF Recs
    <2>3. CASE i > Len(s)
        <3>1. i - Len(s) \in 1..Len(u) /\ i = Len(s) + (i - Len(s))
            BY <2>3, <1>2, <1>3
        <3>2. (s \o u)[i] = u[i - Len(s)]
            BY <3>1, <1>5
        <3> QED BY <3>1, <3>2 DEF Recs
    <2> QED BY <2>2, <2>3, <1>2, <1>3
<1>7. Recs(s) \subseteq Recs(s \o u)
    BY <1>2, <1>3, <1>4 DEF Recs
<1>8. Recs(u) \subseteq Recs(s \o u)
    <2>1. \A i \in 1..Len(u) : Len(s) + i \in 1..Len(s \o u)
        BY <1>2, <1>3
    <2> QED BY <2>1, <1>5, Zenon DEF Recs
<1> QED BY <1>1, <1>6, <1>7, <1>8

\* The records of a sequence with one appended.
LEMMA RecsOfAppend ==
    ASSUME NEW s \in Seq(Nat), NEW n \in Nat
    PROVE  Append(s, n) \in Seq(Nat) /\ Recs(Append(s, n)) = Recs(s) \cup {n}
<1>1. /\ Append(s, n) \in Seq(Nat)
      /\ Len(Append(s, n)) = Len(s) + 1
      /\ \A i \in 1..Len(s) : Append(s, n)[i] = s[i]
      /\ Append(s, n)[Len(s) + 1] = n
    BY AppendProperties
<1>2. Len(s) \in Nat
    BY LenProperties
<1>3. 1..Len(s) + 1 = (1..Len(s)) \cup {Len(s) + 1}
    BY <1>2
<1> QED BY <1>1, <1>2, <1>3 DEF Recs

\* The empty sequence has no records.
LEMMA RecsOfEmpty == <<>> \in Seq(Nat) /\ Recs(<<>>) = {}
<1>1. Len(<<>>) = 0
    OBVIOUS
<1> QED BY <1>1 DEF Recs

\* A record of a sequence of LSNs is an LSN.
LEMMA RecsAreLsns == \A s \in Seq(Nat) : Recs(s) \subseteq Nat
BY ElementOfSeq DEF Recs

-----------------------------------------------------------------------------
\* The two shapes of the segment after roll_segment_if_needed.
LEMMA RolledSegment ==
    ASSUME TypeOK, NEW segment \in Rolled
    PROVE  /\ segment.file \in Seq(Nat) /\ segment.stream \in Seq(Nat)
           /\ segment.size \in Nat /\ segment.broken \in BOOLEAN
           /\ segment.faults \subseteq {"write", "flush"}
           /\ Recs(file) \subseteq Recs(segment.file)
           /\ "flush" \notin segment.faults =>
                Recs(segment.file) \cup Recs(segment.stream)
                    = Recs(file) \cup Recs(stream)
           /\ segment.broken => broken
<1> USE DEF TypeOK
<1>1. file \o stream \in Seq(Nat)
      /\ Recs(file \o stream) = Recs(file) \cup Recs(stream)
    BY RecsOfConcat
<1>2. Recs(<<>>) = {} /\ <<>> \in Seq(Nat)
    BY RecsOfEmpty
<1>3. CASE segmentSize >= SegmentLimit
    <2>1. PICK f \in Closed :
            segment = [file |-> f, stream |-> <<>>, size |-> 0, broken |-> FALSE,
                       faults |-> IF f = file \o stream THEN {} ELSE {"flush"}]
        BY <1>3, Zenon DEF Rolled
    <2>2. /\ segment.file = f /\ segment.stream = <<>> /\ segment.size = 0
          /\ segment.faults = IF f = file \o stream THEN {} ELSE {"flush"}
        BY <2>1
    <2>3. f \in {file \o stream, file}
        BY Zenon DEF Closed
    <2>4. "flush" \notin segment.faults => segment.file = file \o stream
        BY <2>2, Zenon
    <2>5. Recs(segment.stream) = {} /\ segment.stream \in Seq(Nat)
        BY <2>2, <1>2
    <2>6. segment.file \in Seq(Nat) /\ Recs(file) \subseteq Recs(segment.file)
        BY <2>2, <2>3, <1>1, Zenon
    <2>7. "flush" \notin segment.faults =>
            Recs(segment.file) \cup Recs(segment.stream) = Recs(file) \cup Recs(stream)
        BY <2>4, <2>5, <1>1, Zenon
    <2>8. segment.broken \in BOOLEAN /\ (segment.broken => broken)
        BY <2>1, Zenon
    <2>9. segment.size \in Nat /\ segment.faults \subseteq {"write", "flush"}
        BY <2>2
    <2> QED BY <2>5, <2>6, <2>7, <2>8, <2>9
<1>4. CASE ~(segmentSize >= SegmentLimit)
    <2>1. segment = [file |-> file, stream |-> stream, size |-> segmentSize,
                     broken |-> broken, faults |-> {}]
        BY <1>4, Zenon DEF Rolled
    <2>2. /\ segment.file = file /\ segment.stream = stream
          /\ segment.size = segmentSize /\ segment.faults = {}
        BY <2>1
    <2>3. segment.broken = broken
        BY <2>1, Zenon
    <2> QED BY <2>2, <2>3
<1> QED BY <1>3, <1>4

-----------------------------------------------------------------------------
\* The type invariant and the flush mutex, step by step.
LEMMA BaseInit == Init => Base
<1> SUFFICES ASSUME Init PROVE Base
    OBVIOUS
<1>1. <<>> \in Seq(Nat)
    BY RecsOfEmpty
<1>2. TypeOK
    <2>1. broken \in BOOLEAN /\ faults \subseteq {"write", "flush"}
        BY Zenon DEF Init
    <2>2. nextLsn \in Nat \ {0} /\ flushedLsn \in Nat /\ segmentSize \in Nat
        BY DEF Init
    <2>3. pc \in [Threads -> PCs] /\ op \in [Threads -> Ops]
        BY DEF Init, PCs, Ops
    <2>4. /\ lsn \in [Threads -> Nat] /\ observed \in [Threads -> Nat]
          /\ owed \in [Threads -> SUBSET Nat]
        BY DEF Init
    <2>5. appended \subseteq Nat /\ confirmed \subseteq Nat /\ rejected \subseteq Nat
              /\ delayed \subseteq Nat
        BY DEF Init
    <2> QED BY <1>1, <2>1, <2>2, <2>3, <2>4, <2>5 DEF Init, TypeOK
<1>3. FlushMutexHeld
    BY NoThreadAssumption, Zenon DEF Init, FlushMutexHeld, Flushing
<1> QED BY <1>2, <1>3 DEF Base

\* Finish resets what a thread keeps for a call.
LEMMA FinishTypes ==
    ASSUME TypeOK, NEW t \in Threads, Finish(t)
    PROVE  /\ pc' \in [Threads -> PCs] /\ op' \in [Threads -> Ops]
           /\ lsn' \in [Threads -> Nat] /\ observed' \in [Threads -> Nat]
           /\ owed' \in [Threads -> SUBSET Nat]
BY DEF TypeOK, Finish, Goto, PCs, Ops

\* Return keeps the types of what it changes.
LEMMA ReturnTypes ==
    ASSUME TypeOK, NEW t \in Threads, Return(t)
    PROVE  /\ pc' \in [Threads -> PCs] /\ op' \in [Threads -> Ops]
           /\ lsn' \in [Threads -> Nat] /\ observed' \in [Threads -> Nat]
           /\ owed' \in [Threads -> SUBSET Nat]
           /\ appendMutex' = appendMutex /\ flushMutex' = NoThread
           /\ appended' = appended /\ rejected' = rejected
           /\ delayed' = delayed
           /\ confirmed' \subseteq Nat
<1>1. CASE op[t] = "append"
    BY <1>1, Zenon DEF Return, TypeOK, Goto, PCs, locals
<1>2. CASE op[t] # "append"
    <2>1. Finish(t)
        BY <1>2 DEF Return
    <2>2. confirmed' \subseteq Nat
        <3>1. lsn[t] \in Nat /\ confirmed \subseteq Nat
            BY DEF TypeOK
        <3>2. confirmed' = confirmed \cup {lsn[t]} \/ confirmed' = confirmed
            BY <1>2 DEF Return
        <3> QED BY <3>1, <3>2, Zenon
    <2> QED BY <2>1, <2>2, FinishTypes DEF Return
<1> QED BY <1>1, <1>2

\* Every step keeps the types.
LEMMA TypeStep ==
    ASSUME TypeOK, Next
    PROVE  TypeOK'
<1> USE DEF TypeOK, log, mutexes, locals, history
<1>1. PICK t \in Threads : Step(t) \/ Call(t)
    BY DEF Next
<1>2. CASE Append1(t)
    BY <1>2, SMTT(30) DEF Append1, Goto, PCs, Ops
<1>3. ASSUME AppendFits(t) PROVE TypeOK'
    <2>1. buffer' \in Seq(Nat)
        BY <1>3, RecsOfAppend DEF AppendFits
    <2>2. Finish(t)
        BY <1>3 DEF AppendFits
    <2> QED BY <1>3, <2>1, <2>2, FinishTypes, Zenon DEF AppendFits
<1>4. CASE AppendFull(t)
    BY <1>4, Zenon DEF AppendFull, Goto, PCs
<1>5. CASE AppendRelock(t)
    BY <1>5 DEF AppendRelock, Goto, PCs
<1>6. CASE AppendThrows(t)
    <2>1. Finish(t)
        BY <1>6 DEF AppendThrows
    <2> QED BY <1>6, <2>1, FinishTypes, Zenon DEF AppendThrows
<1>7. ASSUME NEW call \in Ops, NEW target \in Nat, CallFlush(t, call, target)
      PROVE  TypeOK'
    BY <1>7, RecsAreLsns, SMTT(30) DEF CallFlush, Goto, PCs
<1>8. CASE Flush(t)
    BY <1>8, <1>7, Zenon DEF Flush, Ops
<1>9. ASSUME NEW target \in appended, FlushUpTo(t, target)
      PROVE  TypeOK'
    BY <1>9, <1>7, Zenon DEF FlushUpTo, Ops
<1>10. ASSUME NEW target \in appended, FlushUpToReturns(t, target)
       PROVE  TypeOK'
    BY <1>10, Zenon DEF FlushUpToReturns
<1>11. CASE LockFlush(t)
    BY <1>11 DEF LockFlush, Goto, PCs
<1>12. CASE SwapEmpty(t)
    <2>1. Return(t)
        BY <1>12 DEF SwapEmpty
    <2> QED BY <1>12, <2>1, ReturnTypes, Zenon DEF SwapEmpty
<1>13. CASE Swap(t)
    BY <1>13, SMTT(30) DEF Swap, Goto, PCs
<1>14. CASE Write(t)
    <2>1. PICK segment \in Rolled :
            /\ file' = segment.file
            /\ stream' = segment.stream \o flushBuffer
            /\ segmentSize' = segment.size + Len(flushBuffer)
            /\ faults' = faults \cup segment.faults
        BY <1>14, Zenon DEF Write
    <2>2. stream' \in Seq(Nat)
        BY <2>1, RolledSegment, RecsOfConcat, SMTT(30)
    <2>3. file' \in Seq(Nat) /\ segmentSize' \in Nat
        <3>1. Len(flushBuffer) \in Nat
            BY LenProperties
        <3>2. segment.file \in Seq(Nat) /\ segment.size \in Nat
            BY RolledSegment, SMTT(30)
        <3> HIDE DEF TypeOK
        <3>3. file' \in Seq(Nat)
            BY <2>1, <3>2
        <3>4. segment.size + Len(flushBuffer) \in Nat
            BY <3>1, <3>2
        <3> QED BY <2>1, <3>3, <3>4
    <2>4. faults' \subseteq {"write", "flush"}
        BY <2>1, RolledSegment, Zenon
    <2> QED BY <1>14, <2>2, <2>3, <2>4, Zenon DEF Write, Goto, PCs
<1>15. ASSUME NEW n \in 0..Len(flushBuffer), WriteFails(t, n)
       PROVE  TypeOK'
    <2>1. PICK segment \in Rolled :
            /\ file' = segment.file
            /\ stream' = segment.stream \o SubSeq(flushBuffer, 1, n)
            /\ segmentSize' = segment.size
            /\ faults' = faults \cup segment.faults \cup {"write"}
        BY <1>15, Zenon DEF WriteFails
    <2>2. SubSeq(flushBuffer, 1, n) \in Seq(Nat)
        <3>1. flushBuffer \in Seq(Nat)
            OBVIOUS
        <3>2. Len(flushBuffer) \in Nat
            BY <3>1, LenProperties
        <3> HIDE DEF TypeOK
        <3>3. \A i \in 1..n : i \in 1..Len(flushBuffer)
            BY <1>15, <3>2
        <3> QED BY <3>1, <3>3, <1>15, SubSeqProperties
    <2>3. stream' \in Seq(Nat)
        BY <2>1, <2>2, RolledSegment, RecsOfConcat
    <2>4. file' \in Seq(Nat) /\ segmentSize' \in Nat
        BY <2>1, RolledSegment, SMTT(30)
    <2>5. Finish(t)
        BY <1>15 DEF WriteFails
    <2>6. faults' \subseteq {"write", "flush"}
        BY <2>1, RolledSegment, Zenon
    <2> QED BY <1>15, <2>3, <2>4, <2>5, <2>6, FinishTypes, Zenon DEF WriteFails
<1>16. CASE Sync(t)
    <2>1. file \o stream \in Seq(Nat) /\ <<>> \in Seq(Nat)
        BY RecsOfConcat, RecsOfEmpty
    <2> QED BY <1>16, <2>1 DEF Sync, Goto, PCs
<1>17. CASE SyncFails(t)
    BY <1>17, SMTT(30) DEF SyncFails, Goto, PCs
<1>18. CASE Observe(t)
    BY <1>18, SMTT(30) DEF Observe, Goto, PCs
<1>19. CASE Publish(t)
    <2>1. Return(t)
        BY <1>19 DEF Publish
    <2> QED BY <1>19, <2>1, ReturnTypes, RecsOfEmpty, Zenon DEF Publish
<1> QED
    BY <1>1, <1>2, <1>3, <1>4, <1>5, <1>6, <1>8, <1>9, <1>10, <1>11, <1>12,
       <1>13, <1>14, <1>15, <1>16, <1>17, <1>18, <1>19, Zenon
    DEF Step, Call, Append2, AppendRetry

\* A step moves one thread, and how that goes with the flush mutex.
Outside(t, x) ==
    pc[t] \notin Flushing /\ x \notin Flushing /\ flushMutex' = flushMutex
Enters(t, x) ==
    x = "swapping" /\ flushMutex = NoThread /\ flushMutex' = t
Inside(t, x) ==
    pc[t] \in Flushing /\ x \in Flushing /\ flushMutex' = flushMutex
Leaves(t, x) ==
    pc[t] \in Flushing /\ x \notin Flushing /\ flushMutex' = NoThread

\* Every step is one of four kinds as far as the flush mutex is concerned.
LEMMA StepShape ==
    ASSUME TypeOK, NEW t \in Threads, Step(t) \/ Call(t)
    PROVE  \E x \in PCs : /\ pc' = [pc EXCEPT ![t] = x]
                          /\ \/ Outside(t, x)
                             \/ Enters(t, x)
                             \/ Inside(t, x)
                             \/ Leaves(t, x)
<1> USE DEF PCs, Flushing, Goto, Outside, Enters, Inside, Leaves, mutexes
<1>1. CASE Append1(t)
    BY <1>1 DEF Append1
<1>2. CASE Append2(t)
    BY <1>2 DEF Append2, AppendFits, Finish
<1>3. CASE AppendFull(t)
    BY <1>3 DEF AppendFull
<1>4. CASE AppendRelock(t)
    BY <1>4 DEF AppendRelock
<1>5. CASE AppendRetry(t)
    BY <1>5 DEF AppendRetry, AppendFits, Finish
<1>6. CASE AppendThrows(t)
    BY <1>6 DEF AppendThrows, Finish
<1>7. CASE Flush(t)
    BY <1>7 DEF Flush, CallFlush
<1>8. CASE \E target \in appended : FlushUpTo(t, target)
    BY <1>8 DEF FlushUpTo, CallFlush
<1>9. CASE \E target \in appended : FlushUpToReturns(t, target)
    <2>1. pc[t] = "idle" /\ pc' = pc /\ flushMutex' = flushMutex
        BY <1>9 DEF FlushUpToReturns
    <2>2. pc' = [pc EXCEPT ![t] = "idle"]
        BY <2>1 DEF TypeOK
    <2> QED BY <2>1, <2>2, Zenon
<1>10. CASE LockFlush(t)
    BY <1>10 DEF LockFlush
<1>11. CASE SwapEmpty(t)
    BY <1>11 DEF SwapEmpty, Return, Finish
<1>12. CASE Swap(t)
    BY <1>12 DEF Swap
<1>13. CASE Write(t)
    BY <1>13 DEF Write
<1>14. CASE \E n \in 0..Len(flushBuffer) : WriteFails(t, n)
    BY <1>14 DEF WriteFails, Finish
<1>15. CASE Sync(t)
    BY <1>15 DEF Sync
<1>16. CASE SyncFails(t)
    BY <1>16 DEF SyncFails
<1>17. CASE Observe(t)
    BY <1>17 DEF Observe
<1>18. CASE Publish(t)
    BY <1>18 DEF Publish, Return, Finish
<1> QED
    BY <1>1, <1>2, <1>3, <1>4, <1>5, <1>6, <1>7, <1>8, <1>9, <1>10, <1>11,
       <1>12, <1>13, <1>14, <1>15, <1>16, <1>17, <1>18 DEF Step, Call

\* Every step, and stuttering, keeps the types and the flush mutex.
LEMMA BaseStep ==
    ASSUME Base, [Next]_vars
    PROVE  Base'
<1>1. CASE Next
    <2>1. TypeOK'
        BY <1>1, TypeStep DEF Base
    <2>2. PICK t \in Threads : Step(t) \/ Call(t)
        BY <1>1 DEF Next
    <2>3. PICK x \in PCs : /\ pc' = [pc EXCEPT ![t] = x]
                           /\ Outside(t, x) \/ Enters(t, x) \/ Inside(t, x)
                              \/ Leaves(t, x)
        BY <2>2, StepShape DEF Base
    <2>4. pc'[t] = x /\ \A u \in Threads \ {t} : pc'[u] = pc[u]
        BY <2>3 DEF Base, TypeOK
    <2>5. FlushMutexHeld'
        BY <2>3, <2>4, NoThreadAssumption
        DEF Base, FlushMutexHeld, Flushing, Outside, Enters, Inside, Leaves
    <2> QED BY <2>1, <2>5 DEF Base
<1>2. CASE UNCHANGED vars
    BY <1>2 DEF vars, log, mutexes, locals, history, Base, TypeOK, FlushMutexHeld
<1> QED BY <1>1, <1>2

\* While a thread is flushing no other thread is.
LEMMA FlushesAlone ==
    ASSUME Base, NEW t \in Threads, NEW u \in Threads, u # t, pc[t] \in Flushing
    PROVE  pc[u] \notin Flushing
BY DEF Base, FlushMutexHeld

\* The types of the log's state: integers are naturals, mutexes are free or owned.
THEOREM WALManagerTypes == Spec => []TypeOK
<1>1. Base => TypeOK
    BY DEF Base
<1> QED BY <1>1, BaseInit, BaseStep, PTL DEF Spec
=============================================================================
