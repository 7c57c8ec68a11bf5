-------------------------- MODULE WALSafetyProofs ---------------------------
(***************************************************************************)
(* What the log keeps and what a flush has written, for any number of      *)
(* threads, records and segments.  From FlushMutexHeld (WALManagerProofs)  *)
(* follow two invariants: WrittenFirst, that a flush buffer about to be    *)
(* cleared has been written, and FlushInv, where the records a flush owes  *)
(* its caller are while it runs.                                           *)
(***************************************************************************)
EXTENDS WALManagerProofs

\* What a thread about to clear the flush buffer holds in it is written.
WrittenFirst ==
    \A t \in Threads :
        pc[t] \in Clearing => Recs(flushBuffer) \subseteq Recs(stream) \cup Recs(file)

\* What has failed is not forgotten.
LEMMA FaultsGrow ==
    ASSUME [Next]_vars
    PROVE  faults \subseteq faults'
<1>1. CASE UNCHANGED vars
    BY <1>1 DEF vars
<1>2. CASE Next
    <2>1. PICK t \in Threads : Step(t) \/ Call(t)
        BY <1>2 DEF Next
    <2>2. CASE Write(t)
        BY <2>2, Zenon DEF Write
    <2>3. CASE \E n \in 0..Len(flushBuffer) : WriteFails(t, n)
        BY <2>3, Zenon DEF WriteFails
    <2>4. CASE SyncFails(t)
        BY <2>4 DEF SyncFails
    <2>5. CASE faults' = faults
        BY <2>5
    <2> QED BY <2>1, <2>2, <2>3, <2>4, <2>5
            DEF Step, Call, Append1, Append2, AppendFits, AppendFull, AppendRelock,
                AppendRetry, AppendThrows, CallFlush, Flush, FlushUpTo,
                FlushUpToReturns, LockFlush, SwapEmpty, Swap, Sync, Observe, Publish
<1> QED BY <1>1, <1>2

\* Every step keeps WrittenFirst and Kept, unless a failed flush of a full
\* segment drops its stream.
LEMMA LostStep ==
    ASSUME Base, WrittenFirst, Kept, Next, "flush" \notin faults'
    PROVE  WrittenFirst' /\ Kept'
<1> USE DEF log, history, Clearing, Flushing
<1>1. PICK t \in Threads : Step(t) \/ Call(t)
    BY DEF Next
<1>2. PICK x \in PCs : /\ pc' = [pc EXCEPT ![t] = x]
                       /\ \/ Outside(t, x)
                          \/ Enters(t, x)
                          \/ Inside(t, x)
                          \/ Leaves(t, x)
    BY <1>1, StepShape DEF Base
<1>3. pc'[t] = x /\ \A u \in Threads \ {t} : pc'[u] = pc[u]
    BY <1>2 DEF Base, TypeOK
<1>4. \A u \in Threads \ {t} : pc[t] \in Flushing => pc[u] \notin Flushing
    BY FlushesAlone
<1>5. /\ buffer \in Seq(Nat) /\ flushBuffer \in Seq(Nat)
      /\ stream \in Seq(Nat) /\ file \in Seq(Nat)
    BY DEF Base, TypeOK
<1>6. ASSUME UNCHANGED log, appended' = appended,
             pc'[t] \in Clearing => pc[t] \in Clearing
      PROVE  WrittenFirst' /\ Kept'
    BY <1>6, <1>3 DEF WrittenFirst, Kept, Recs
<1>7. CASE Append1(t)
    BY <1>7, <1>6, <1>3 DEF Append1, Goto, Base, TypeOK
<1>8. ASSUME AppendFits(t) PROVE WrittenFirst' /\ Kept'
    <2>1. /\ pc'[t] = "idle"
          /\ buffer' = Append(buffer, lsn[t]) /\ appended' = appended \cup {lsn[t]}
          /\ flushBuffer' = flushBuffer /\ stream' = stream /\ file' = file
        BY <1>8 DEF AppendFits, Finish, Goto, Base, TypeOK
    <2>2. Recs(buffer') = Recs(buffer) \cup {lsn[t]}
        BY <2>1, <1>5, RecsOfAppend DEF Base, TypeOK
    <2>3. WrittenFirst'
        BY <2>1, <1>3 DEF WrittenFirst
    <2>4. Kept'
        BY <2>1, <2>2 DEF Kept
    <2> QED BY <2>3, <2>4
<1>9. CASE AppendFull(t)
    BY <1>9, <1>6 DEF AppendFull, Goto, Base, TypeOK
<1>10. CASE AppendRelock(t)
    BY <1>10, <1>6 DEF AppendRelock, Goto, Base, TypeOK
<1>11. CASE AppendThrows(t)
    BY <1>11, <1>6 DEF AppendThrows, Finish, Goto, Base, TypeOK
<1>12. CASE Flush(t)
    BY <1>12, <1>6 DEF Flush, CallFlush, Goto, Base, TypeOK
<1>13. CASE \E target \in appended : FlushUpTo(t, target)
    BY <1>13, <1>6 DEF FlushUpTo, CallFlush, Goto, Base, TypeOK
<1>14. CASE \E target \in appended : FlushUpToReturns(t, target)
    BY <1>14, <1>6 DEF FlushUpToReturns, Base, TypeOK
<1>15. CASE LockFlush(t)
    BY <1>15, <1>6 DEF LockFlush, Goto, Base, TypeOK
<1>16. CASE SwapEmpty(t)
    <2>1. /\ UNCHANGED log /\ appended' = appended /\ pc'[t] \notin Clearing
        BY <1>16 DEF SwapEmpty, Return, Finish, Goto, Base, TypeOK
    <2> QED BY <2>1, <1>6
<1>17. CASE Swap(t)
    <2>1. /\ pc[t] = "swapping" /\ pc'[t] = "writing"
          /\ buffer' = flushBuffer /\ flushBuffer' = buffer
          /\ stream' = stream /\ file' = file /\ appended' = appended
        BY <1>17 DEF Swap, Goto, Base, TypeOK
    <2>2. WrittenFirst'
        BY <2>1, <1>3, <1>4 DEF WrittenFirst
    <2>3. Kept'
        BY <2>1 DEF Kept
    <2> QED BY <2>2, <2>3
<1>18. CASE Write(t)
    <2>1. PICK segment \in Rolled : /\ file' = segment.file
                                    /\ stream' = segment.stream \o flushBuffer
                                    /\ faults' = faults \cup segment.faults
        BY <1>18, Zenon DEF Write
    <2>2. /\ pc[t] = "writing" /\ buffer' = buffer /\ flushBuffer' = flushBuffer
          /\ appended' = appended
        BY <1>18 DEF Write
    <2>3. /\ segment.stream \in Seq(Nat)
          /\ Recs(segment.file) \cup Recs(segment.stream) = Recs(file) \cup Recs(stream)
        BY <2>1, RolledSegment DEF Base
    <2>4. Recs(stream') = Recs(segment.stream) \cup Recs(flushBuffer)
        BY <2>1, <2>3, <1>5, RecsOfConcat
    <2>5. WrittenFirst'
        BY <2>2, <2>4, <1>3, <1>4 DEF WrittenFirst
    <2>6. Kept'
        BY <2>1, <2>2, <2>3, <2>4 DEF Kept
    <2> QED BY <2>5, <2>6
<1>19. CASE \E n \in 0..Len(flushBuffer) : WriteFails(t, n)
    <2>1. PICK n \in 0..Len(flushBuffer) : WriteFails(t, n)
        BY <1>19
    <2>2. PICK segment \in Rolled :
            /\ file' = segment.file
            /\ stream' = segment.stream \o SubSeq(flushBuffer, 1, n)
            /\ faults' = faults \cup segment.faults \cup {"write"}
        BY <2>1, Zenon DEF WriteFails
    <2>3. /\ pc[t] = "writing" /\ pc'[t] = "idle"
          /\ buffer' = buffer /\ flushBuffer' = flushBuffer /\ appended' = appended
        BY <2>1 DEF WriteFails, Finish, Goto, Base, TypeOK
    <2>4. /\ segment.stream \in Seq(Nat)
          /\ Recs(segment.file) \cup Recs(segment.stream) = Recs(file) \cup Recs(stream)
        BY <2>2, RolledSegment DEF Base
    <2>5. SubSeq(flushBuffer, 1, n) \in Seq(Nat)
        BY <1>5, LenProperties, SubSeqProperties
    <2>6. Recs(segment.stream) \subseteq Recs(stream')
        <3>1. Recs(segment.stream \o SubSeq(flushBuffer, 1, n))
                = Recs(segment.stream) \cup Recs(SubSeq(flushBuffer, 1, n))
            BY <2>4, <2>5, RecsOfConcat, Zenon
        <3> QED BY <2>2, <3>1
    <2>7. WrittenFirst'
        BY <2>3, <1>3, <1>4 DEF WrittenFirst
    <2>8. Kept'
        BY <2>2, <2>3, <2>4, <2>6 DEF Kept
    <2> QED BY <2>7, <2>8
<1>20. CASE Sync(t)
    <2>1. /\ pc[t] = "syncing" /\ buffer' = buffer /\ flushBuffer' = flushBuffer
          /\ appended' = appended
          /\ \/ file' = file /\ stream' = stream
             \/ file' = file \o stream /\ stream' = <<>>
        BY <1>20 DEF Sync
    <2>2. Recs(stream') \cup Recs(file') = Recs(stream) \cup Recs(file)
        <3>1. Recs(file \o stream) = Recs(file) \cup Recs(stream)
            BY <1>5, RecsOfConcat
        <3>2. Recs(<<>>) = {}
            BY RecsOfEmpty
        <3> QED BY <2>1, <3>1, <3>2, Zenon
    <2>3. WrittenFirst'
        BY <2>1, <2>2, <1>3, <1>4 DEF WrittenFirst
    <2>4. Kept'
        BY <2>1, <2>2 DEF Kept
    <2> QED BY <2>3, <2>4
<1>21. CASE SyncFails(t)
    BY <1>21, <1>6 DEF SyncFails, Goto, Base, TypeOK
<1>22. CASE Observe(t)
    BY <1>22, <1>6 DEF Observe, Goto, Base, TypeOK
<1>23. CASE Publish(t)
    <2>1. /\ pc[t] = "publishing" /\ flushBuffer' = <<>> /\ buffer' = buffer
          /\ stream' = stream /\ file' = file /\ appended' = appended
        BY <1>23 DEF Publish, Return
    <2>2. Recs(flushBuffer) \subseteq Recs(stream) \cup Recs(file)
        BY <2>1 DEF WrittenFirst
    <2>3. WrittenFirst'
        BY <2>1, RecsOfEmpty DEF WrittenFirst
    <2>4. Kept'
        BY <2>1, <2>2 DEF Kept
    <2> QED BY <2>3, <2>4
<1> QED
    BY <1>1, <1>7, <1>8, <1>9, <1>10, <1>11, <1>12, <1>13, <1>14, <1>15, <1>16,
       <1>17, <1>18, <1>19, <1>20, <1>21, <1>22, <1>23
    DEF Step, Call, Append2, AppendRetry

(***************************************************************************)
(* A record whose append has returned stays in a buffer, the stream or the *)
(* file, for every interleaving and every failed write, as long as no      *)
(* flush of a stream has failed.                                           *)
(***************************************************************************)
THEOREM AppendedIsKept == Spec => []NoRecordLost
<1> DEFINE IInv == Base /\ ("flush" \notin faults => WrittenFirst /\ Kept)
<1>1. Init => IInv
    <2> SUFFICES ASSUME Init PROVE IInv
        OBVIOUS
    <2>1. WrittenFirst
        BY DEF Init, WrittenFirst, Clearing
    <2>2. Kept
        BY DEF Init, Kept
    <2> QED BY <2>1, <2>2, BaseInit
<1>2. IInv /\ [Next]_vars => IInv'
    <2> SUFFICES ASSUME IInv, [Next]_vars PROVE IInv'
        OBVIOUS
    <2>1. ASSUME "flush" \notin faults' PROVE WrittenFirst' /\ Kept'
        <3>1. WrittenFirst /\ Kept
            BY <2>1, FaultsGrow
        <3>2. CASE Next
            BY <2>1, <3>1, <3>2, LostStep
        <3>3. CASE UNCHANGED vars
            <4>1. UNCHANGED <<pc, appended, buffer, flushBuffer, stream, file>>
                BY <3>3 DEF vars, log, history
            <4>2. WrittenFirst => WrittenFirst'
                BY <4>1, SMTT(30) DEF WrittenFirst, Recs
            <4>3. Kept => Kept'
                BY <4>1, SMTT(30) DEF Kept, Recs
            <4> QED BY <3>1, <4>2, <4>3
        <3> QED BY <3>2, <3>3
    <2>2. Base'
        BY BaseStep
    <2> QED BY <2>1, <2>2
<1>3. IInv => NoRecordLost
    BY DEF NoRecordLost
<1> QED BY <1>1, <1>2, <1>3, PTL DEF Spec

-----------------------------------------------------------------------------
(***************************************************************************)
(* Where the records are that a flush owes its caller, when nothing fails  *)
(* and durability is on: until the swap in a buffer or the file, then in   *)
(* the flush buffer or the file.  The flush buffer is empty unless it has  *)
(* an owner, so that an empty buffer means that nothing is in memory.      *)
(***************************************************************************)
FlushInv ==
    /\ ~broken
    /\ (\A t \in Threads : pc[t] \notin Owning) => flushBuffer = <<>>
    /\ \A t \in Threads :
        /\ pc[t] = "syncing" => Recs(flushBuffer) \subseteq Recs(stream)
        /\ pc[t] \in {"observing", "publishing"} =>
                Recs(flushBuffer) \subseteq Recs(file)
        /\ owed[t] \subseteq Recs(buffer) \cup Recs(flushBuffer) \cup Recs(file)
        /\ pc[t] \in Owning => owed[t] \subseteq Recs(flushBuffer) \cup Recs(file)

\* What FlushWritesAll says of one step.
WritesAll == \A t \in Threads : Returns(t) => owed[t] \subseteq Recs(file')

\* Every step keeps FlushInv, and a flush that returns has written what it owes.
LEMMA FlushStep ==
    ASSUME Base, Mode # "Off", FlushInv, Next, faults' = {}
    PROVE  FlushInv' /\ WritesAll
<1> USE DEF log, Clearing, Owning, Flushing
<1>1. PICK t \in Threads : Step(t) \/ Call(t)
    BY DEF Next
<1>2. PICK x \in PCs : /\ pc' = [pc EXCEPT ![t] = x]
                       /\ \/ Outside(t, x)
                          \/ Enters(t, x)
                          \/ Inside(t, x)
                          \/ Leaves(t, x)
    BY <1>1, StepShape DEF Base
<1>3. pc'[t] = x /\ \A u \in Threads \ {t} : pc'[u] = pc[u]
    BY <1>2 DEF Base, TypeOK
<1>4. \A u \in Threads \ {t} : pc[t] \in Flushing => pc[u] \notin Flushing
    BY FlushesAlone
<1>5. /\ buffer \in Seq(Nat) /\ flushBuffer \in Seq(Nat)
      /\ stream \in Seq(Nat) /\ file \in Seq(Nat)
      /\ owed \in [Threads -> SUBSET Nat]
    BY DEF Base, TypeOK
<1>6. \A u \in Threads \ {t} : ~Returns(u)
    BY <1>3 DEF Returns
<1>7. ASSUME UNCHANGED <<log, broken>>, pc'[t] \notin Owning, pc[t] \notin Owning,
             owed'[t] \subseteq Recs(buffer) \cup Recs(flushBuffer) \cup Recs(file),
             \A u \in Threads \ {t} : owed'[u] = owed[u]
      PROVE  FlushInv'
    <2>1. UNCHANGED <<buffer, flushBuffer, stream, file, broken>>
        BY <1>7
    <2>2. \A u \in Threads : pc'[u] \in Owning <=> pc[u] \in Owning
        BY <1>7, <1>3
    <2>3. \A u \in Threads : pc[u] \in Owning => u # t /\ pc'[u] = pc[u]
        BY <1>7, <1>3
    <2> QED BY <1>7, <2>1, <2>2, <2>3 DEF FlushInv
<1>8. CASE Append1(t)
    <2>1. /\ UNCHANGED <<log, broken, owed>>
          /\ pc[t] = "idle" /\ pc'[t] = "appending"
        BY <1>8 DEF Append1, Goto, Base, TypeOK
    <2>2. FlushInv'
        BY <2>1, <1>7 DEF FlushInv
    <2> QED BY <2>1, <2>2, <1>6 DEF WritesAll, Returns
<1>9. ASSUME AppendFits(t), pc[t] \in {"appending", "retrying"}
      PROVE  FlushInv' /\ WritesAll
    <2>1. /\ pc'[t] = "idle" /\ buffer' = Append(buffer, lsn[t])
          /\ flushBuffer' = flushBuffer /\ stream' = stream /\ file' = file
          /\ broken' = broken /\ owed' = [owed EXCEPT ![t] = {}]
        BY <1>9 DEF AppendFits, Finish, Goto, Base, TypeOK
    <2>2. Recs(buffer') = Recs(buffer) \cup {lsn[t]}
        BY <2>1, <1>5, RecsOfAppend DEF Base, TypeOK
    <2>3. owed'[t] = {} /\ \A u \in Threads \ {t} : owed'[u] = owed[u]
        BY <2>1, <1>5
    <2>4. FlushInv'
        BY <1>9, <2>1, <2>2, <2>3, <1>3 DEF FlushInv
    <2> QED BY <1>9, <2>4, <1>6 DEF WritesAll, Returns
<1>10. CASE AppendFull(t) \/ AppendRelock(t)
    <2>1. /\ UNCHANGED <<log, broken, owed>>
          /\ pc[t] \notin Flushing /\ pc'[t] \notin Flushing
        BY <1>10 DEF AppendFull, AppendRelock, Goto, Base, TypeOK, locals
    <2>2. FlushInv'
        BY <2>1, <1>7 DEF FlushInv
    <2> QED BY <2>1, <2>2, <1>6 DEF WritesAll, Returns
<1>11. CASE AppendThrows(t)
    <2>1. /\ UNCHANGED <<log, broken>> /\ pc[t] = "retrying" /\ pc'[t] = "idle"
          /\ owed' = [owed EXCEPT ![t] = {}]
        BY <1>11 DEF AppendThrows, Finish, Goto, Base, TypeOK
    <2>2. owed'[t] = {} /\ \A u \in Threads \ {t} : owed'[u] = owed[u]
        BY <2>1, <1>5
    <2>3. FlushInv'
        BY <2>1, <2>2, <1>7 DEF FlushInv
    <2> QED BY <2>1, <2>3, <1>6 DEF WritesAll, Returns
<1>12. CASE Flush(t) \/ \E target \in appended : FlushUpTo(t, target)
    <2>1. /\ UNCHANGED <<log, broken>> /\ pc[t] = "idle" /\ pc'[t] = "flushing"
          /\ owed' = [owed EXCEPT ![t] = Recs(buffer) \cup Recs(flushBuffer)]
        BY <1>12 DEF Flush, FlushUpTo, CallFlush, Goto, Base, TypeOK
    <2>2. /\ owed'[t] = Recs(buffer) \cup Recs(flushBuffer)
          /\ \A u \in Threads \ {t} : owed'[u] = owed[u]
        BY <2>1, <1>5
    <2>3. FlushInv'
        BY <2>1, <2>2, <1>7 DEF FlushInv
    <2> QED BY <2>1, <2>3, <1>6 DEF WritesAll, Returns
<1>13. CASE \E target \in appended : FlushUpToReturns(t, target)
    <2>1. UNCHANGED <<log, broken, owed, pc>> /\ pc[t] = "idle"
        BY <1>13 DEF FlushUpToReturns, locals
    <2>2. FlushInv'
        BY <2>1, <1>7 DEF FlushInv
    <2> QED BY <2>1, <2>2, <1>6 DEF WritesAll, Returns
<1>14. CASE LockFlush(t)
    <2>1. /\ UNCHANGED <<log, broken, owed>>
          /\ pc[t] = "flushing" /\ pc'[t] = "swapping"
        BY <1>14 DEF LockFlush, Goto, Base, TypeOK, locals
    <2>2. FlushInv'
        BY <2>1, <1>7 DEF FlushInv
    <2> QED BY <2>1, <2>2, <1>6 DEF WritesAll, Returns
<1>15. CASE SwapEmpty(t)
    <2>1. /\ UNCHANGED <<log, broken>> /\ pc[t] = "swapping" /\ pc'[t] \notin Flushing
          /\ buffer = <<>> /\ (owed' = owed \/ owed' = [owed EXCEPT ![t] = {}])
        BY <1>15 DEF SwapEmpty, Return, Finish, Goto, Base, TypeOK, locals
    <2>2. /\ owed'[t] \in {owed[t], {}}
          /\ \A u \in Threads \ {t} : owed'[u] = owed[u]
        BY <2>1, <1>5
    <2>3. FlushInv'
        BY <2>1, <2>2, <1>7 DEF FlushInv
    <2>4. flushBuffer = <<>>
        BY <2>1, <1>4 DEF FlushInv
    <2>5. owed[t] \subseteq Recs(file)
        BY <2>1, <2>4, RecsOfEmpty DEF FlushInv
    <2> QED BY <2>1, <2>3, <2>5, <1>6 DEF WritesAll
<1>16. CASE Swap(t)
    <2>1. /\ pc[t] = "swapping" /\ pc'[t] = "writing"
          /\ buffer' = flushBuffer /\ flushBuffer' = buffer
          /\ UNCHANGED <<stream, file, broken, owed>>
        BY <1>16 DEF Swap, Goto, Base, TypeOK, locals
    <2>2. flushBuffer = <<>>
        BY <2>1, <1>4 DEF FlushInv
    <2>3. FlushInv'
        BY <2>1, <2>2, <1>3, <1>4, RecsOfEmpty DEF FlushInv
    <2> QED BY <2>1, <2>3, <1>6 DEF WritesAll, Returns
<1>17. CASE Write(t)
    <2>1. PICK segment \in Rolled : /\ file' = segment.file
                                    /\ stream' = segment.stream \o flushBuffer
        BY <1>17, Zenon DEF Write
    <2>2. /\ pc[t] = "writing" /\ pc'[t] = "syncing" /\ ~broken'
          /\ UNCHANGED <<buffer, flushBuffer, owed>>
        BY <1>17 DEF Write, Goto, Base, TypeOK, locals
    <2>3. segment.stream \in Seq(Nat) /\ Recs(file) \subseteq Recs(file')
        BY <2>1, RolledSegment DEF Base
    <2>4. Recs(flushBuffer) \subseteq Recs(stream')
        BY <2>1, <2>3, <1>5, RecsOfConcat
    <2>5. FlushInv'
        BY <2>2, <2>3, <2>4, <1>3, <1>4 DEF FlushInv
    <2> QED BY <2>2, <2>5, <1>6 DEF WritesAll, Returns
<1>18. CASE \E n \in 0..Len(flushBuffer) : WriteFails(t, n)
    <2>1. "write" \in faults'
        BY <1>18, Zenon DEF WriteFails
    <2> QED BY <2>1
<1>19. CASE Sync(t)
    <2>1. /\ pc[t] = "syncing" /\ pc'[t] = "observing"
          /\ UNCHANGED <<buffer, flushBuffer, owed, broken>> /\ file' = file \o stream
        BY <1>19 DEF Sync, Goto, Base, TypeOK, locals
    <2>2. Recs(file') = Recs(file) \cup Recs(stream)
        BY <2>1, <1>5, RecsOfConcat
    <2>3. FlushInv'
        BY <2>1, <2>2, <1>3, <1>4 DEF FlushInv
    <2> QED BY <2>1, <2>3, <1>6 DEF WritesAll, Returns
<1>20. CASE SyncFails(t)
    BY <1>20 DEF SyncFails
<1>21. CASE Observe(t)
    <2>1. /\ pc[t] = "observing" /\ pc'[t] = "publishing"
          /\ UNCHANGED <<log, broken, owed>>
        BY <1>21 DEF Observe, Goto, Base, TypeOK
    <2>2. FlushInv'
        BY <2>1, <1>3, <1>4 DEF FlushInv
    <2> QED BY <2>1, <2>2, <1>6 DEF WritesAll, Returns
<1>22. CASE Publish(t)
    <2>1. /\ pc[t] = "publishing" /\ pc'[t] \notin Flushing /\ flushBuffer' = <<>>
          /\ UNCHANGED <<buffer, stream, file, broken>>
          /\ (owed' = owed \/ owed' = [owed EXCEPT ![t] = {}])
        BY <1>22 DEF Publish, Return, Finish, Goto, Base, TypeOK, locals
    <2>2. Recs(flushBuffer) \subseteq Recs(file)
        BY <2>1 DEF FlushInv
    <2>3. \A u \in Threads : owed'[u] \in {owed[u], {}}
        BY <2>1, <1>5
    <2>4. FlushInv'
        BY <2>1, <2>2, <2>3, <1>3, <1>4, RecsOfEmpty DEF FlushInv
    <2>5. owed[t] \subseteq Recs(file')
        BY <2>1, <2>2 DEF FlushInv
    <2> QED BY <2>4, <2>5, <1>6 DEF WritesAll
<1>23. CASE Append2(t) \/ AppendRetry(t)
    BY <1>23, <1>9 DEF Append2, AppendRetry
<1> QED
    BY <1>1, <1>8, <1>10, <1>11, <1>12, <1>13, <1>14, <1>15, <1>16, <1>17, <1>18,
       <1>19, <1>20, <1>21, <1>22, <1>23 DEF Step, Call

(***************************************************************************)
(* When flush, or flush_up_to without its early return, comes back, every  *)
(* record that was in memory when it was called is in the file, as long as *)
(* nothing has failed and durability is on.                                *)
(***************************************************************************)
THEOREM FlushIsComplete ==
    ASSUME Mode # "Off"
    PROVE  Spec => FlushWritesAll
<1> DEFINE IInv == Base /\ (faults = {} => FlushInv)
<1>1. Init => IInv
    <2> SUFFICES ASSUME Init PROVE IInv
        OBVIOUS
    <2>1. FlushInv
        BY DEF Init, FlushInv, Owning, Clearing
    <2> QED BY <2>1, BaseInit
<1>2. IInv /\ [Next]_vars => IInv'
    <2> SUFFICES ASSUME IInv, [Next]_vars PROVE IInv'
        OBVIOUS
    <2>1. ASSUME faults' = {} PROVE FlushInv'
        <3>1. FlushInv
            BY <2>1, FaultsGrow
        <3>2. CASE Next
            BY <2>1, <3>1, <3>2, FlushStep
        <3>3. CASE UNCHANGED vars
            BY <3>1, <3>3, SMTT(30)
            DEF vars, log, mutexes, locals, history, FlushInv, Recs
        <3> QED BY <3>2, <3>3
    <2>2. Base'
        BY BaseStep
    <2> QED BY <2>1, <2>2
<1>3. IInv /\ [Next]_vars => [faults' = {} => WritesAll]_vars
    <2> SUFFICES ASSUME IInv, Next, faults' = {} PROVE WritesAll
        OBVIOUS
    <2>1. FlushInv
        BY FaultsGrow
    <2> QED BY <2>1, FlushStep
<1>4. Spec => [][faults' = {} => WritesAll]_vars
    BY <1>1, <1>2, <1>3, PTL DEF Spec
<1> QED BY <1>4 DEF WritesAll, FlushWritesAll
=============================================================================
