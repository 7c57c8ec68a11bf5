------------------------------ MODULE Recovery -------------------------------
(***************************************************************************)
(* Restart after a crash: src/src/wal/recovery_manager.cpp over            *)
(* log_reader.cpp, wal_segment.cpp and checkpoint_manager.cpp.             *)
(*                                                                         *)
(* Transactions log through a WALManager and change pages of the buffer    *)
(* pool, which writes a page back after the log up to its LSN.  A crash    *)
(* keeps the segments, the master record and the pages on disk; recovery   *)
(* then reads the segments in three passes, and may itself crash.          *)
(*                                                                         *)
(* A page is one cell and its LSN.  The value an update writes is its LSN. *)
(* The payload of an Update record is the page's number, which is all that *)
(* TableHeap puts there: redo_record and undo_record ask for at least 8    *)
(* bytes, so that neither changes a page.                                  *)
(***************************************************************************)
EXTENDS Integers, SequencesExt

CONSTANTS
    Txns,           \* transaction ids, positive
    DataPages,      \* pages that transactions update
    SegmentRecords, \* MAX_SEGMENT_SIZE, in records
    MaxLsn,         \* bound on the records of the first session
    MaxCrashes      \* bound on the number of crashes

VARIABLES
    segments,       \* the segment files: sequences of records and torn tails
    current,        \* m_current_segment_id
    logBuffer,      \* records appended and not flushed
    nextLsn,        \* m_next_lsn
    flushedLsn,     \* m_flushed_lsn
    master,         \* checkpoint_lsn of the master record, 0 if it cannot be read
    disk,           \* the pages in the database file
    pool,           \* the pages as the buffer pool shows them
    txns,           \* state and last_lsn of the transactions
    phase,          \* "running", the RecoveryState, or "down"
    tt, dpt,        \* m_txn_table and m_dirty_page_table
    checkpoint,     \* LSN of a CHECKPOINT_BEGIN whose master record is not written
    crashes,
    acked           \* the value of each page as of the last commit that returned

sessionVars == <<logBuffer, nextLsn, flushedLsn>>
fileVars == <<segments, current>>
passVars == <<tt, dpt>>
recVars == <<fileVars, sessionVars, master, disk, pool, txns, phase, passVars,
             checkpoint, crashes, acked>>

NoValue == 0

Rec(txn, type, prev) ==
    [lsn |-> 0, txn |-> txn, type |-> type, prev |-> prev, page |-> NoValue]

\* What a crash leaves of a record: less than its header, or part of its payload.
Tails == {"stub", "cut"}
TornTail(kind) == Rec(0, kind, 0)
IsTorn(item) == item.type \in Tails

-----------------------------------------------------------------------------
\* The log as the session writes it.

\* append: the record gets the next LSN.
Logged(buffer, next, recs) ==
    buffer \o [i \in 1 .. Len(recs) |-> [recs[i] EXCEPT !.lsn = next + i - 1]]

\* roll_segment_if_needed.
TargetSegment(segs, id) == IF Len(segs[id]) >= SegmentRecords THEN id + 1 ELSE id

\* Items are written behind whatever the segment holds.
AppendTo(segs, id, items) ==
    [i \in 1 .. Max({id, Len(segs)}) |->
        (IF i \in DOMAIN segs THEN segs[i] ELSE <<>>) \o (IF i = id THEN items ELSE <<>>)]

\* execute_flush with the records buf in the buffer and next as the next LSN.
Flushed(buf, next) ==
    IF buf = <<>>
    THEN UNCHANGED <<segments, current, flushedLsn>> /\ logBuffer' = buf
    ELSE /\ current' = TargetSegment(segments, current)
         /\ segments' = AppendTo(segments, current', buf)
         /\ logBuffer' = <<>>
         /\ flushedLsn' = next - 1

LogOnly(recs) ==
    /\ logBuffer' = Logged(logBuffer, nextLsn, recs)
    /\ nextLsn' = nextLsn + Len(recs)
    /\ UNCHANGED <<fileVars, flushedLsn>>

LogAndFlush(recs) ==
    /\ nextLsn' = nextLsn + Len(recs)
    /\ Flushed(Logged(logBuffer, nextLsn, recs), nextLsn')

Running(recs) == phase = "running" /\ nextLsn + recs - 1 <= MaxLsn

-----------------------------------------------------------------------------
RecInit ==
    /\ segments = << <<>> >>
    /\ current = 1
    /\ logBuffer = <<>>
    /\ nextLsn = 1
    /\ flushedLsn = 0
    /\ master = 0
    /\ disk = [p \in DataPages |-> [value |-> NoValue, lsn |-> 0]]
    /\ pool = disk
    /\ txns = [t \in Txns |-> [state |-> "new", last |-> 0]]
    /\ phase = "running"
    /\ tt = <<>> /\ dpt = <<>>
    /\ checkpoint = 0
    /\ crashes = 0
    /\ acked = [p \in DataPages |-> NoValue]

\* TransactionManager::begin.
RecBegin(t) ==
    /\ Running(1)
    /\ txns[t].state = "new"
    /\ LogOnly(<<Rec(t, "TxnBegin", 0)>>)
    /\ txns' = [txns EXCEPT ![t] = [state |-> "active", last |-> nextLsn]]
    /\ UNCHANGED <<master, disk, pool, phase, passVars, checkpoint, crashes, acked>>

\* The transactions that have changed a page and are not finished.
Writers(p) ==
    {t \in Txns : /\ txns[t].state \in {"active", "committing", "aborting"}
                  /\ \E r \in ToSet(FlattenSeq(segments) \o logBuffer) : r.txn = t /\ r.page = p}

\* TableHeap::update, which refuses what another transaction has marked.
RecUpdate(t, p) ==
    /\ Running(1)
    /\ txns[t].state = "active"
    /\ Writers(p) \subseteq {t}
    /\ LogOnly(<<[Rec(t, "Update", txns[t].last) EXCEPT !.page = p]>>)
    /\ pool' = [pool EXCEPT ![p] = [value |-> nextLsn, lsn |-> nextLsn]]
    /\ txns' = [txns EXCEPT ![t].last = nextLsn]
    /\ UNCHANGED <<master, disk, phase, passVars, checkpoint, crashes, acked>>

\* TransactionManager::commit appends the record ...
RecCommit(t) ==
    /\ Running(1)
    /\ txns[t].state = "active"
    /\ LogOnly(<<Rec(t, "TxnCommit", txns[t].last)>>)
    /\ txns' = [txns EXCEPT ![t] = [state |-> "committing", last |-> nextLsn]]
    /\ UNCHANGED <<master, disk, pool, phase, passVars, checkpoint, crashes, acked>>

\* ... and returns when it is flushed.
RecCommitReturns(t) ==
    /\ phase = "running"
    /\ txns[t].state = "committing"
    /\ IF txns[t].last > flushedLsn THEN Flushed(logBuffer, nextLsn)
       ELSE UNCHANGED <<fileVars, logBuffer, flushedLsn>>
    /\ txns' = [txns EXCEPT ![t].state = "committed"]
    /\ acked' = [p \in DataPages |-> IF t \in Writers(p) THEN pool[p].value ELSE acked[p]]
    /\ UNCHANGED <<nextLsn, master, disk, pool, phase, passVars, checkpoint, crashes>>

\* TransactionManager::abort, which leaves the pages to the readers' visibility ...
RecAbort(t) ==
    /\ Running(1)
    /\ txns[t].state = "active"
    /\ LogOnly(<<Rec(t, "TxnAbort", txns[t].last)>>)
    /\ txns' = [txns EXCEPT ![t] = [state |-> "aborting", last |-> nextLsn]]
    /\ UNCHANGED <<master, disk, pool, phase, passVars, checkpoint, crashes, acked>>

\* ... and ends the transaction.
RecAbortReturns(t) ==
    /\ Running(1)
    /\ txns[t].state = "aborting"
    /\ LogAndFlush(<<Rec(t, "TxnEnd", txns[t].last)>>)
    /\ txns' = [txns EXCEPT ![t].state = "aborted"]
    /\ UNCHANGED <<master, disk, pool, phase, passVars, checkpoint, crashes, acked>>

\* The buffer pool writes a page back, after flush_up_to(page LSN).
RecWriteBack(p) ==
    /\ phase # "down"
    /\ pool[p] # disk[p]
    /\ disk' = [disk EXCEPT ![p] = pool[p]]
    /\ IF pool[p].lsn > flushedLsn THEN Flushed(logBuffer, nextLsn)
       ELSE UNCHANGED <<fileVars, logBuffer, flushedLsn>>
    /\ UNCHANGED <<nextLsn, master, pool, txns, phase, passVars, checkpoint, crashes, acked>>

\* perform_checkpoint: both records, without the tables they should carry, and a flush.
CheckpointLogged ==
    /\ Running(2)
    /\ checkpoint = 0
    /\ LogAndFlush(<<Rec(0, "CheckpointBegin", 0), Rec(0, "CheckpointEnd", nextLsn)>>)
    /\ checkpoint' = nextLsn
    /\ UNCHANGED <<master, disk, pool, txns, phase, passVars, crashes, acked>>

\* write_master_record truncates the file, and then writes it.
MasterTruncated ==
    /\ phase = "running"
    /\ checkpoint > 0
    /\ master' = 0
    /\ checkpoint' = -checkpoint
    /\ UNCHANGED <<fileVars, sessionVars, disk, pool, txns, phase, passVars, crashes, acked>>

MasterWritten ==
    /\ phase = "running"
    /\ checkpoint < 0
    /\ master' = -checkpoint
    /\ checkpoint' = 0
    /\ UNCHANGED <<fileVars, sessionVars, disk, pool, txns, phase, passVars, crashes, acked>>

\* A flush under way may have written some records, and part of the next one.
RecCrash ==
    /\ phase # "down"
    /\ crashes < MaxCrashes
    /\ \E n \in 0 .. Len(logBuffer), torn \in {<<>>} \cup {<<TornTail(k)>> : k \in Tails} :
        /\ n = Len(logBuffer) => torn = <<>>
        /\ torn = <<TornTail("cut")>> => logBuffer[n + 1].page # NoValue
        /\ LET kept == SubSeq(logBuffer, 1, n) \o torn
           IN  segments' = IF kept = <<>> THEN segments
                           ELSE AppendTo(segments, TargetSegment(segments, current), kept)
    /\ phase' = "down"
    /\ crashes' = crashes + 1
    /\ current' = 1 /\ logBuffer' = <<>> /\ nextLsn' = 1 /\ flushedLsn' = 0
    /\ pool' = disk
    /\ tt' = <<>> /\ dpt' = <<>>
    /\ checkpoint' = 0
    /\ UNCHANGED <<master, disk, txns, acked>>

-----------------------------------------------------------------------------
\* The log as recovery reads it.

\* open_read compares HEADER_SIZE with gcount(), which counts the bytes of the last
\* of the four reads only: no segment opens.
HeaderSize == 24
LastFieldSize == 8
Opens == LastFieldSize = HeaderSize

\* open_segment and read_next until it returns nothing.  Less than a header
\* at the end of a segment sends the reader to the next one; any other torn
\* record ends the log.
Readable(segs) ==
    LET Whole(s) == IF s # <<>> /\ Last(s).type = "stub" THEN Front(s) ELSE s
        items == FlattenSeq([i \in DOMAIN segs |-> Whole(segs[i])])
        torn == {i \in DOMAIN items : IsTorn(items[i])}
    IN  IF ~Opens THEN <<>>
        ELSE IF torn = {} THEN items ELSE SubSeq(items, 1, Min(torn) - 1)

\* seek_to_lsn: the first record at or behind the LSN, 0 if there is none.
Seek(records, lsn) ==
    LET found == {i \in DOMAIN records : records[i].lsn >= lsn}
    IN  IF found = {} THEN 0 ELSE Min(found)

\* Reading from the LSN, or from the first record if it is not found.
ReadFrom(records, lsn) == SubSeq(records, Max({1, Seek(records, lsn)}), Len(records))

\* RecoveryTransactionTable::update.  Only the first call sets undo_next_lsn.
TableUpdate(table, t, state, lsn) ==
    LET undoNext == IF t \in DOMAIN table THEN table[t].undoNext ELSE lsn
    IN  [u \in DOMAIN table \cup {t} |->
            IF u = t THEN [state |-> state, last |-> lsn, undoNext |-> undoNext] ELSE table[u]]

PageTypes == {"Insert", "Update", "Delete", "CLR"}

\* phase_analysis, one record.
AnalyzeTxn(table, r) ==
    CASE r.type \in {"TxnBegin"} \cup PageTypes -> TableUpdate(table, r.txn, "active", r.lsn)
      [] r.type = "TxnCommit" -> TableUpdate(table, r.txn, "committed", r.lsn)
      [] r.type = "TxnAbort" -> TableUpdate(table, r.txn, "aborted", r.lsn)
      [] r.type = "TxnEnd" -> [t \in DOMAIN table \ {r.txn} |-> table[t]]
      [] OTHER -> table

\* DirtyPageTable::update keeps the first LSN.
AnalyzePage(table, r) ==
    IF r.type \in PageTypes /\ r.page \notin DOMAIN table
    THEN [p \in DOMAIN table \cup {r.page} |-> IF p = r.page THEN r.lsn ELSE table[p]]
    ELSE table

\* read_master_record: a file without both numbers is no master record.
HasMaster == master # 0

\* What phase_analysis reads.
Scanned == IF HasMaster THEN ReadFrom(Readable(segments), master) ELSE Readable(segments)

\* phase_analysis: from the checkpoint, or from the first record.
RecAnalysis ==
    /\ phase = "down"
    /\ tt' = FoldLeft(AnalyzeTxn, <<>>, Scanned)
    /\ dpt' = FoldLeft(AnalyzePage, <<>>, Scanned)
    /\ phase' = "redo"
    /\ UNCHANGED <<fileVars, sessionVars, master, disk, pool, txns, checkpoint, crashes,
                   acked>>

\* phase_redo: redo_record takes one of its early returns for every record.
RecRedo ==
    /\ phase = "redo"
    /\ phase' = "undo"
    /\ UNCHANGED <<fileVars, sessionVars, master, disk, pool, txns, passVars, checkpoint,
                   crashes, acked>>

\* get_losers.
Losers == {t \in DOMAIN tt : tt[t].state # "committed"}

\* phase_undo: undo_record changes nothing, the losers are ended and the log is flushed.
RecUndo ==
    /\ phase = "undo"
    /\ LET ends == [i \in 1 .. Cardinality(Losers) |->
                        Rec(SetToSortSeq(Losers, <)[i], "TxnEnd", 0)]
       IN  IF Losers = {} THEN UNCHANGED <<fileVars, sessionVars>> ELSE LogAndFlush(ends)
    /\ phase' = "complete"
    /\ UNCHANGED <<master, disk, pool, txns, passVars, checkpoint, crashes, acked>>

RecNext ==
    \/ \E t \in Txns : RecBegin(t) \/ RecCommit(t) \/ RecCommitReturns(t)
    \/ \E t \in Txns : RecAbort(t) \/ RecAbortReturns(t)
    \/ \E t \in Txns, p \in DataPages : RecUpdate(t, p)
    \/ \E p \in DataPages : RecWriteBack(p)
    \/ CheckpointLogged
    \/ MasterTruncated
    \/ MasterWritten
    \/ RecCrash
    \/ RecAnalysis
    \/ RecRedo
    \/ RecUndo

RecSpec == RecInit /\ [][RecNext]_recVars

-----------------------------------------------------------------------------
(***************************************************************************)
(* What README.md says of a restart: the committed state is there again.   *)
(* When recovery is complete, a page that was last changed by a commit     *)
(* that returned shows what that transaction wrote.                        *)
(***************************************************************************)
CommittedSurvive ==
    phase = "complete" =>
        \A p \in DataPages : acked[p] # NoValue /\ Writers(p) = {} => pool[p].value = acked[p]
=============================================================================
