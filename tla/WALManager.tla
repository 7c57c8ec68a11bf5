----------------------------- MODULE WALManager -----------------------------
(***************************************************************************)
(* The write side of the log: src/src/wal/wal_manager.cpp with the         *)
(* LogBuffer and the WALSegment it writes to.  Threads append records to   *)
(* m_buffer under the append mutex and write it out, double-buffered       *)
(* through m_flush_buffer, under the flush mutex.                          *)
(*                                                                         *)
(* A record is its LSN and has size 1.  "stream" is what the segment's     *)
(* fstream still buffers, "file" what its flush() has handed over, which   *)
(* the code takes as durable: a crash at any moment leaves the records of  *)
(* file and loses every other one.  The segments are one sequence, cut by  *)
(* segmentSize.                                                            *)
(***************************************************************************)
EXTENDS Naturals, Sequences

CONSTANTS
    Threads,        \* threads that call append, flush and flush_up_to
    NoThread,       \* the owner of a free mutex
    Capacity,       \* m_capacity of the LogBuffer
    SegmentLimit,   \* MAX_SEGMENT_SIZE
    Mode,           \* the DurabilityMode
    MayFail,        \* what the file system may refuse: writes, flushes of a stream
    MaxLsn          \* bound on the number of records appended

ASSUME NoThreadAssumption == NoThread \notin Threads
ASSUME CapacityAssumption == Capacity \in Nat
ASSUME SegmentLimitAssumption == SegmentLimit \in Nat \ {0}
ASSUME ModeAssumption == Mode \in {"Full", "Normal", "Off"}
ASSUME MayFailAssumption == MayFail \subseteq {"write", "flush"}

VARIABLES
    nextLsn,        \* m_next_lsn
    flushedLsn,     \* m_flushed_lsn
    buffer,         \* m_buffer
    flushBuffer,    \* m_flush_buffer
    stream, file,   \* the current segment
    segmentSize,    \* m_size of the current segment
    broken,         \* the segment's stream has failed: good() stays false
    faults,         \* what has failed so far
    appendMutex,    \* owner of m_append_mutex
    flushMutex,     \* owner of m_flush_mutex
    pc, op,         \* where each thread is, and the call it executes
    lsn,            \* its assigned_lsn or target_lsn
    observed,       \* its safely_flushed
    owed,           \* records not yet written when its flush was called
    appended,       \* the LSNs append has returned
    confirmed,      \* the LSNs for which flush_up_to has returned
    rejected,       \* the LSNs for which append has thrown
    delayed         \* the LSNs whose append found the buffer full

log == <<buffer, flushBuffer, stream, file>>
mutexes == <<appendMutex, flushMutex>>
locals == <<op, lsn, observed, owed>>
history == <<appended, confirmed, rejected, delayed>>
vars == <<nextLsn, flushedLsn, log, segmentSize, broken, faults, mutexes, pc,
          locals, history>>

PCs == {"idle", "appending", "relocking", "retrying", "flushing", "swapping",
        "writing", "syncing", "observing", "publishing"}
Ops == {"none", "append", "flush", "flush_up_to"}

Recs(s) == {s[i] : i \in 1..Len(s)}

\* The threads that own the flush buffer.
Flushing == {"swapping", "writing", "syncing", "observing", "publishing"}

-----------------------------------------------------------------------------
Init ==
    /\ nextLsn = 1
    /\ flushedLsn = 0
    /\ buffer = <<>> /\ flushBuffer = <<>> /\ stream = <<>> /\ file = <<>>
    /\ segmentSize = 0
    /\ broken = FALSE /\ faults = {}
    /\ appendMutex = NoThread /\ flushMutex = NoThread
    /\ pc = [t \in Threads |-> "idle"]
    /\ op = [t \in Threads |-> "none"]
    /\ lsn = [t \in Threads |-> 0]
    /\ observed = [t \in Threads |-> 0]
    /\ owed = [t \in Threads |-> {}]
    /\ appended = {} /\ confirmed = {} /\ rejected = {} /\ delayed = {}

Goto(t, label) == pc' = [pc EXCEPT ![t] = label]

\* The call returns to the caller, or throws.
Finish(t) ==
    /\ Goto(t, "idle")
    /\ op' = [op EXCEPT ![t] = "none"]
    /\ lsn' = [lsn EXCEPT ![t] = 0]
    /\ observed' = [observed EXCEPT ![t] = 0]
    /\ owed' = [owed EXCEPT ![t] = {}]

-----------------------------------------------------------------------------
\* Seeded fault: the LSN is assigned outside the append mutex.
Append1Unlocked(t) ==
    /\ pc[t] = "idle"
    /\ nextLsn <= MaxLsn
    /\ lsn' = [lsn EXCEPT ![t] = nextLsn]
    /\ nextLsn' = nextLsn + 1
    /\ op' = [op EXCEPT ![t] = "append"]
    /\ Goto(t, "appending")
    /\ UNCHANGED <<flushedLsn, log, segmentSize, broken, faults, mutexes, observed,
                   owed, history>>

\* append: takes the mutex and assigns the next LSN.
Append1(t) ==
    /\ pc[t] = "idle"
    /\ nextLsn <= MaxLsn
    /\ appendMutex = NoThread
    /\ appendMutex' = t
    /\ lsn' = [lsn EXCEPT ![t] = nextLsn]
    /\ nextLsn' = nextLsn + 1
    /\ op' = [op EXCEPT ![t] = "append"]
    /\ Goto(t, "appending")
    /\ UNCHANGED <<flushedLsn, log, segmentSize, broken, faults, flushMutex, observed,
                   owed, history>>

\* LogBuffer::append fits: the call returns the LSN.
AppendFits(t) ==
    /\ Len(buffer) + 1 <= Capacity
    /\ buffer' = Append(buffer, lsn[t])
    /\ appended' = appended \cup {lsn[t]}
    /\ appendMutex' = NoThread
    /\ Finish(t)
    /\ UNCHANGED <<nextLsn, flushedLsn, flushBuffer, stream, file, segmentSize,
                   broken, faults, flushMutex, confirmed, rejected, delayed>>

Append2(t) == pc[t] = "appending" /\ AppendFits(t)

\* The buffer is full: the mutex is released for the duration of a flush.
AppendFull(t) ==
    /\ pc[t] = "appending"
    /\ Len(buffer) + 1 > Capacity
    /\ appendMutex' = NoThread
    /\ delayed' = delayed \cup {lsn[t]}
    /\ Goto(t, "flushing")
    /\ UNCHANGED <<nextLsn, flushedLsn, log, segmentSize, broken, faults, flushMutex,
                   locals, appended, confirmed, rejected>>

\* The flush has returned: append takes its mutex again.
AppendRelock(t) ==
    /\ pc[t] = "relocking"
    /\ appendMutex = NoThread
    /\ appendMutex' = t
    /\ Goto(t, "retrying")
    /\ UNCHANGED <<nextLsn, flushedLsn, log, segmentSize, broken, faults, flushMutex,
                   locals, history>>

AppendRetry(t) == pc[t] = "retrying" /\ AppendFits(t)

\* "Log record is larger than WAL buffer capacity."
AppendThrows(t) ==
    /\ pc[t] = "retrying"
    /\ Len(buffer) + 1 > Capacity
    /\ rejected' = rejected \cup {lsn[t]}
    /\ appendMutex' = NoThread
    /\ Finish(t)
    /\ UNCHANGED <<nextLsn, flushedLsn, log, segmentSize, broken, faults, flushMutex,
                   appended, confirmed, delayed>>

-----------------------------------------------------------------------------
CallFlush(t, call, target) ==
    /\ op' = [op EXCEPT ![t] = call]
    /\ lsn' = [lsn EXCEPT ![t] = target]
    /\ owed' = [owed EXCEPT ![t] = Recs(buffer) \cup Recs(flushBuffer)]
    /\ Goto(t, "flushing")
    /\ UNCHANGED <<nextLsn, flushedLsn, log, segmentSize, broken, faults, mutexes,
                   observed, history>>

\* flush, as called by abort.
Flush(t) == pc[t] = "idle" /\ CallFlush(t, "flush", 0)

\* flush_up_to, as called by commit and by the buffer pool.
FlushUpTo(t, target) ==
    /\ pc[t] = "idle"
    /\ target > flushedLsn
    /\ CallFlush(t, "flush_up_to", target)

\* "Already flushed"
FlushUpToReturns(t, target) ==
    /\ pc[t] = "idle"
    /\ target <= flushedLsn
    /\ confirmed' = confirmed \cup {target}
    /\ UNCHANGED <<nextLsn, flushedLsn, log, segmentSize, broken, faults, mutexes, pc,
                   locals, appended, rejected, delayed>>

-----------------------------------------------------------------------------
\* Seeded fault: execute_flush does not wait for the flush mutex.
LockFlushNoWait(t) ==
    /\ pc[t] = "flushing"
    /\ flushMutex' = t
    /\ Goto(t, "swapping")
    /\ UNCHANGED <<nextLsn, flushedLsn, log, segmentSize, broken, faults, appendMutex,
                   locals, history>>

(***************************************************************************)
(* execute_flush, step by step.                                            *)
(***************************************************************************)
LockFlush(t) ==
    /\ pc[t] = "flushing"
    /\ flushMutex = NoThread
    /\ flushMutex' = t
    /\ Goto(t, "swapping")
    /\ UNCHANGED <<nextLsn, flushedLsn, log, segmentSize, broken, faults, appendMutex,
                   locals, history>>

\* execute_flush returns, to append or to the caller of a flush.
Return(t) ==
    /\ flushMutex' = NoThread
    /\ \/ /\ op[t] = "append"
          /\ Goto(t, "relocking")
          /\ UNCHANGED <<locals, confirmed>>
       \/ /\ op[t] # "append"
          /\ confirmed' = IF op[t] = "flush_up_to"
                          THEN confirmed \cup {lsn[t]} ELSE confirmed
          /\ Finish(t)
    /\ UNCHANGED <<appendMutex, appended, rejected, delayed>>

SwapEmpty(t) ==
    /\ pc[t] = "swapping"
    /\ appendMutex = NoThread
    /\ buffer = <<>>
    /\ Return(t)
    /\ UNCHANGED <<nextLsn, flushedLsn, log, segmentSize, broken, faults>>

Swap(t) ==
    /\ pc[t] = "swapping"
    /\ appendMutex = NoThread
    /\ buffer # <<>>
    /\ buffer' = flushBuffer
    /\ flushBuffer' = buffer
    /\ Goto(t, "writing")
    /\ UNCHANGED <<nextLsn, flushedLsn, stream, file, segmentSize, broken, faults,
                   mutexes, locals, history>>

(***************************************************************************)
(* The segment after roll_segment_if_needed.  A full one is closed, which  *)
(* flushes its stream (what that fails to write is gone with the stream),  *)
(* and the next one is opened.                                             *)
(***************************************************************************)
Closed == {file \o stream} \cup (IF "flush" \in MayFail THEN {file} ELSE {})

Rolled ==
    IF segmentSize >= SegmentLimit
    THEN {[file |-> f, stream |-> <<>>, size |-> 0, broken |-> FALSE,
           faults |-> IF f = file \o stream THEN {} ELSE {"flush"}] : f \in Closed}
    ELSE {[file |-> file, stream |-> stream, size |-> segmentSize,
           broken |-> broken, faults |-> {}]}

\* WALSegment::append of the flush buffer.
Write(t) ==
    /\ pc[t] = "writing"
    /\ \E segment \in Rolled :
        /\ ~segment.broken
        /\ file' = segment.file
        /\ stream' = segment.stream \o flushBuffer
        /\ segmentSize' = segment.size + Len(flushBuffer)
        /\ faults' = faults \cup segment.faults
    /\ broken' = FALSE
    /\ Goto(t, "syncing")
    /\ UNCHANGED <<nextLsn, flushedLsn, buffer, flushBuffer, mutexes, locals,
                   history>>

\* Seeded fault: the flush buffer is cleared when the write fails.
WriteFailsClears(t, n) ==
    /\ pc[t] = "writing"
    /\ "write" \in MayFail
    /\ flushBuffer' = <<>>
    /\ broken' = TRUE
    /\ faults' = faults \cup {"write"}
    /\ flushMutex' = NoThread
    /\ appendMutex' = IF op[t] = "append" THEN NoThread ELSE appendMutex
    /\ Finish(t)
    /\ UNCHANGED <<nextLsn, flushedLsn, buffer, stream, file, segmentSize, history>>

(***************************************************************************)
(* The segment cannot be written or the next one opened: execute_flush     *)
(* throws.  Its lock guard releases the flush mutex and the flush buffer   *)
(* keeps its records; the first n of them may have reached the stream,     *)
(* which has failed and is never cleared.  In append the exception meets a *)
(* lock guard of the append mutex, which the thread does not own at that   *)
(* point: unlocking it leaves the mutex free whoever held it.              *)
(***************************************************************************)
WriteFails(t, n) ==
    /\ pc[t] = "writing"
    /\ \E segment \in Rolled :
        /\ segment.broken \/ "write" \in MayFail
        /\ segment.broken => n = 0
        /\ file' = segment.file
        /\ stream' = segment.stream \o SubSeq(flushBuffer, 1, n)
        /\ segmentSize' = segment.size
        /\ faults' = faults \cup segment.faults \cup {"write"}
    /\ broken' = TRUE
    /\ flushMutex' = NoThread
    /\ appendMutex' = IF op[t] = "append" THEN NoThread ELSE appendMutex
    /\ Finish(t)
    /\ UNCHANGED <<nextLsn, flushedLsn, buffer, flushBuffer, history>>

\* WALSegment::flush, skipped when durability is off.
Sync(t) ==
    /\ pc[t] = "syncing"
    /\ file' = IF Mode = "Off" THEN file ELSE file \o stream
    /\ stream' = IF Mode = "Off" THEN stream ELSE <<>>
    /\ Goto(t, "observing")
    /\ UNCHANGED <<nextLsn, flushedLsn, buffer, flushBuffer, segmentSize, broken,
                   faults, mutexes, locals, history>>

\* WALSegment::flush does not report that the stream failed.
SyncFails(t) ==
    /\ pc[t] = "syncing"
    /\ Mode # "Off"
    /\ "flush" \in MayFail
    /\ broken' = TRUE
    /\ faults' = faults \cup {"flush"}
    /\ Goto(t, "observing")
    /\ UNCHANGED <<nextLsn, flushedLsn, log, segmentSize, mutexes, locals, history>>

\* safely_flushed is read from m_next_lsn without the append mutex.
Observe(t) ==
    /\ pc[t] = "observing"
    /\ observed' = [observed EXCEPT ![t] = nextLsn - 1]
    /\ Goto(t, "publishing")
    /\ UNCHANGED <<nextLsn, flushedLsn, log, segmentSize, broken, faults, mutexes, op,
                   lsn, owed, history>>

\* Seeded fault: the flush buffer is not cleared.
PublishKeepsBuffer(t) ==
    /\ pc[t] = "publishing"
    /\ flushedLsn' = IF observed[t] > flushedLsn THEN observed[t] ELSE flushedLsn
    /\ Return(t)
    /\ UNCHANGED <<nextLsn, log, segmentSize, broken, faults>>

\* Seeded fault: the compare-exchange loop does not stop when m_flushed_lsn is
\* already high enough.
PublishSpins(t) ==
    /\ pc[t] = "publishing"
    /\ IF observed[t] > flushedLsn
       THEN /\ flushedLsn' = observed[t]
            /\ flushBuffer' = <<>>
            /\ Return(t)
       ELSE /\ Goto(t, "observing")
            /\ UNCHANGED <<flushedLsn, flushBuffer, mutexes, locals, history>>
    /\ UNCHANGED <<nextLsn, buffer, stream, file, segmentSize, broken, faults>>

\* The compare-exchange loop raises m_flushed_lsn; the flush buffer is cleared.
Publish(t) ==
    /\ pc[t] = "publishing"
    /\ flushedLsn' = IF observed[t] > flushedLsn THEN observed[t] ELSE flushedLsn
    /\ flushBuffer' = <<>>
    /\ Return(t)
    /\ UNCHANGED <<nextLsn, buffer, stream, file, segmentSize, broken, faults>>

-----------------------------------------------------------------------------
\* What a thread inside a call does next.
Step(t) ==
    \/ Append2(t)
    \/ AppendFull(t)
    \/ AppendRelock(t)
    \/ AppendRetry(t)
    \/ AppendThrows(t)
    \/ LockFlush(t)
    \/ SwapEmpty(t)
    \/ Swap(t)
    \/ Write(t)
    \/ \E n \in 0..Len(flushBuffer) : WriteFails(t, n)
    \/ Sync(t)
    \/ SyncFails(t)
    \/ Observe(t)
    \/ Publish(t)

Call(t) ==
    \/ Append1(t)
    \/ Flush(t)
    \/ \E target \in appended : FlushUpTo(t, target)
    \/ \E target \in appended : FlushUpToReturns(t, target)

Next == \E t \in Threads : Step(t) \/ Call(t)

Spec == Init /\ [][Next]_vars

\* The scheduler runs every thread inside a call, and a thread that contends
\* for a mutex again and again gets it in the end.
FairSpec == Spec /\ \A t \in Threads : SF_vars(Step(t))

-----------------------------------------------------------------------------
\* Type invariant.
TypeOK ==
    /\ nextLsn \in Nat \ {0} /\ flushedLsn \in Nat
    /\ buffer \in Seq(Nat) /\ flushBuffer \in Seq(Nat)
    /\ stream \in Seq(Nat) /\ file \in Seq(Nat)
    /\ segmentSize \in Nat
    /\ broken \in BOOLEAN /\ faults \subseteq {"write", "flush"}
    /\ appendMutex \in Threads \cup {NoThread}
    /\ flushMutex \in Threads \cup {NoThread}
    /\ pc \in [Threads -> PCs]
    /\ op \in [Threads -> Ops]
    /\ lsn \in [Threads -> Nat]
    /\ observed \in [Threads -> Nat]
    /\ owed \in [Threads -> SUBSET Nat]
    /\ appended \subseteq Nat /\ confirmed \subseteq Nat
    /\ rejected \subseteq Nat /\ delayed \subseteq Nat

Kept ==
    appended \subseteq Recs(buffer) \cup Recs(flushBuffer)
                        \cup Recs(stream) \cup Recs(file)

(***************************************************************************)
(* No record is lost in memory: a record whose append has returned is in   *)
(* one of the buffers or written, through every swap of the buffers, full  *)
(* buffer and failed write.  Once the flush of a stream has failed nothing *)
(* is said: closing that segment drops what the stream still holds.        *)
(***************************************************************************)
NoRecordLost == "flush" \notin faults => Kept

\* The flush buffer's records are not yet, or already, part of the stream.
Unwritten ==
    IF \E t \in Threads : pc[t] \in {"syncing", "observing", "publishing"}
    THEN <<>> ELSE flushBuffer

\* Everything logged, in the order in which recovery will read it.
WholeLog == file \o stream \o Unwritten \o buffer

(***************************************************************************)
(* As long as nothing has failed every record is logged once: an LSN       *)
(* returned by append, or in the log, is there exactly once, and a         *)
(* rejected one not at all.                                                *)
(***************************************************************************)
LoggedOnce ==
    faults = {} =>
        /\ \A i, j \in 1..Len(WholeLog) : WholeLog[i] = WholeLog[j] => i = j
        /\ Recs(WholeLog) = appended
        /\ Recs(WholeLog) \cap rejected = {}

(***************************************************************************)
(* As long as nothing has failed the log holds the records in the order of *)
(* their LSNs, as the scan for a checkpoint's LSN in log_reader.cpp        *)
(* expects: the append mutex covers the assignment of the LSN and the      *)
(* append to the buffer.  The exception are records whose append found the *)
(* buffer full and gave up the mutex meanwhile: they may come late, and no *)
(* other record ever does.                                                 *)
(***************************************************************************)
LogInLsnOrder ==
    faults = {} =>
        \A i, j \in 1..Len(WholeLog) :
            i < j /\ WholeLog[j] \notin delayed => WholeLog[i] < WholeLog[j]

(***************************************************************************)
(* The log is what was appended, until something fails: each record once,  *)
(* in the order of the LSNs that append gave out.                          *)
(***************************************************************************)
LoggedOnceInOrder == LoggedOnce /\ LogInLsnOrder

Returns(t) ==
    /\ pc[t] \in {"swapping", "publishing"}
    /\ op[t] \in {"flush", "flush_up_to"}
    /\ pc'[t] = "idle"

(***************************************************************************)
(* A flush that runs writes everything: when flush, or flush_up_to without *)
(* its early return, comes back and nothing has failed, the records that   *)
(* were in memory when it was called are in the file, whichever thread     *)
(* wrote them.                                                             *)
(***************************************************************************)
FlushWritesAll ==
    [][faults' = {} => \A t \in Threads :
           Returns(t) => owed[t] \subseteq Recs(file')]_vars

\* Every call returns or throws: append, which flushes while it owns an LSN,
\* and the flushes never wait for each other forever.
EveryCallReturns == \A t \in Threads : pc[t] # "idle" ~> pc[t] = "idle"

-----------------------------------------------------------------------------
(***************************************************************************)
(* flush_up_to "Ensures all log records up to and including the given LSN  *)
(* are safely flushed to durable storage" (wal_manager.hpp:32).            *)
(***************************************************************************)
FlushUpToDurable ==
    \A target \in confirmed : {l \in appended : l <= target} \subseteq Recs(file)
=============================================================================
