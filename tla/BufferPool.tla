----------------------------- MODULE BufferPool -----------------------------
(***************************************************************************)
(* The page cache of src/src/storage/buffer_pool.cpp with the handles of   *)
(* page_handle.cpp.  A client is a PageHandle variable of some thread: it  *)
(* fetches a page, reads and writes it, and lets it go.  A page's content  *)
(* is a version number.  Concurrent says whether calls of different        *)
(* clients overlap; without it one thread makes them all, one after the    *)
(* other, and may hold several handles.                                    *)
(*                                                                         *)
(* m_page_table_mutex is held within one step, except by flush_all.        *)
(* DiskManager writes and reads whole pages or fails without effect.  The  *)
(* log is the WALManager of one thread: flush_up_to writes the buffer out, *)
(* throws, or returns without doing anything; nobody here catches what it  *)
(* throws.                                                                 *)
(***************************************************************************)
EXTENDS ClockReplacer, Sequences

CONSTANTS
    Clients, Pages,
    NoFrame, NoPage, NoClient,
    Concurrent,         \* whether calls of different clients overlap
    MaxRecords,         \* bound on the log records
    MaxWrites,          \* bound on the changes to pages
    MaxFailures,        \* bound on the reads and writes that fail
    MaxCrashes          \* bound on the crashes

ASSUME NoFrameAssumption == NoFrame \notin Frames
ASSUME NoPageAssumption == NoPage \notin Pages
ASSUME NoClientAssumption == NoClient \notin Clients
ASSUME ConcurrentAssumption == Concurrent \in BOOLEAN

VARIABLES
    pageTable,      \* m_page_table: page -> frame or NoFrame
    freeList,       \* m_free_list
    frame,          \* m_frames: [page, valid, dirty, pins, version, lsn]
    replacer,       \* m_replacer
    tableOwner,     \* flush_all's hold of m_page_table_mutex
    ioOwner,        \* frame -> holder of its io_mutex
    cpc,            \* what a client does next
    want,           \* the page it works on
    at,             \* the frame it works on
    todo,           \* the pages flush_all still has to visit
    disk,           \* the file: page -> [version, lsn]
    log,            \* the WAL manager: see NewLog
    lost,           \* history: pages whose frame an exception left to another page
    stranded,       \* history: frames an exception left pinned
    written,        \* history: the version last written by a client
    failures,       \* reads and writes that failed so far
    crashes         \* crashes so far

table == <<pageTable, freeList>>
locks == <<tableOwner, ioOwner>>
local == <<cpc, want, at, todo>>
damage == <<lost, stranded>>
bounds == <<failures, crashes>>
vars == <<table, frame, replacer, locks, local, disk, log, damage, written, bounds>>

EmptyFrame == [page |-> NoPage, valid |-> FALSE, dirty |-> FALSE, pins |-> 0,
               version |-> 0, lsn |-> 0]

(***************************************************************************)
(* A WAL manager whose records up to lsn are on disk: the last LSN given   *)
(* out, m_flushed_lsn, whether m_buffer and m_flush_buffer hold records,   *)
(* whether the segment's stream has failed (it never recovers), and        *)
(* whether it did so before.                                               *)
(***************************************************************************)
NewLog(lsn, failed) ==
    [last |-> lsn, flushed |-> lsn, buffered |-> FALSE, held |-> FALSE,
     broken |-> FALSE, failed |-> failed]

\* A new pool on an existing file.
Init ==
    /\ pageTable = [p \in Pages |-> NoFrame]
    /\ freeList = [i \in 1 .. PoolSize |-> i - 1]
    /\ frame = [f \in Frames |-> EmptyFrame]
    /\ replacer = NewReplacer
    /\ tableOwner = NoClient
    /\ ioOwner = [f \in Frames |-> NoClient]
    /\ cpc = [c \in Clients |-> "out"]
    /\ want = [c \in Clients |-> NoPage]
    /\ at = [c \in Clients |-> NoFrame]
    /\ todo = [c \in Clients |-> {}]
    /\ disk = [p \in Pages |-> [version |-> 0, lsn |-> 0]]
    /\ log = NewLog(0, FALSE)
    /\ lost = {}
    /\ stranded = {}
    /\ written = [p \in Pages |-> 0]
    /\ failures = 0
    /\ crashes = 0

-----------------------------------------------------------------------------
Goto(c, label) == cpc' = [cpc EXCEPT ![c] = label]

Calling(c) == cpc[c] \notin {"out", "holding"}

\* A client may start a call.
Ready(c) == Concurrent \/ \A d \in Clients : ~Calling(d)

\* A call that is under way goes on, at the client's frame.
In(c, label) == cpc[c] = label

TakeIo(c, f) ==
    /\ ioOwner[f] = NoClient
    /\ ioOwner' = [ioOwner EXCEPT ![f] = c]

DropIo(f) == ioOwner' = [ioOwner EXCEPT ![f] = NoClient]

Fail == failures < MaxFailures /\ failures' = failures + 1

\* The call is over; its locals die.
Leave(c) ==
    /\ Goto(c, "out")
    /\ want' = [want EXCEPT ![c] = NoPage]
    /\ at' = [at EXCEPT ![c] = NoFrame]

Dirty(f) == frame[f].valid /\ frame[f].dirty

\* The early returns of flush_up_to(page_lsn) and execute_flush; an invalid LSN is 0.
NothingToFlush(f) == frame[f].lsn <= log.flushed \/ ~log.buffered

\* Seeded fault: the page is written without regard to the log.
LogFlushedNever(f) == UNCHANGED log

\* flush_up_to(page_lsn) returns.
LogFlushed(f) ==
    \/ NothingToFlush(f) /\ UNCHANGED log
    \/ /\ ~NothingToFlush(f)
       /\ ~log.broken
       /\ log' = [log EXCEPT !.flushed = log.last, !.buffered = FALSE]

\* flush_up_to(page_lsn) throws: the records stay in m_flush_buffer, from where
\* the next swap takes them back.
LogThrows(f) ==
    /\ ~NothingToFlush(f)
    /\ log' = [log EXCEPT !.buffered = log.held, !.held = TRUE,
                          !.broken = TRUE, !.failed = TRUE]
    /\ IF log.broken THEN UNCHANGED failures ELSE Fail

\* Seeded fault: the page is written under the number the table has for the frame.
SavedAsMapped(f) ==
    [p \in Pages |-> IF pageTable[p] = f
                     THEN [version |-> frame[f].version, lsn |-> frame[f].lsn]
                     ELSE disk[p]]

\* write_page of what the frame holds, with the frame's own page id.
Saved(f) ==
    [disk EXCEPT ![frame[f].page] = [version |-> frame[f].version, lsn |-> frame[f].lsn]]

-----------------------------------------------------------------------------
\* fetch_page, the page is in the table: pin and return at once.
FetchHit(c, p) ==
    LET f == pageTable[p] IN
    /\ cpc[c] = "out" /\ Ready(c)
    /\ tableOwner = NoClient
    /\ f # NoFrame
    /\ frame' = [frame EXCEPT ![f].pins = @ + 1]
    /\ replacer' = Accessed(Pinned(replacer, f), f)
    /\ want' = [want EXCEPT ![c] = p]
    /\ at' = [at EXCEPT ![c] = f]
    /\ Goto(c, "holding")
    /\ UNCHANGED <<table, locks, todo, disk, log, damage, written, bounds>>

\* The frame a miss takes over, the free list and the replacer afterwards.
Claim(c, p, f, free, repl) ==
    /\ freeList' = free
    /\ replacer' = Pinned(repl, f)
    /\ pageTable' = [q \in Pages |->
            CASE q = p -> f
              [] q # p /\ frame[f].valid /\ q = frame[f].page -> NoFrame
              [] OTHER -> pageTable[q]]
    /\ frame' = [frame EXCEPT ![f].pins = @ + 1]
    /\ want' = [want EXCEPT ![c] = p]
    /\ at' = [at EXCEPT ![c] = f]
    /\ Goto(c, "locking")

\* fetch_page, the page is not in the table: a free frame or a victim is taken
\* for it, without its io_mutex, and the table already shows the new page.
\* Without a frame the call fails and only the clock hand has moved, a full turn.
FetchMiss(c, p) ==
    /\ cpc[c] = "out" /\ Ready(c)
    /\ tableOwner = NoClient
    /\ pageTable[p] = NoFrame
    /\ \/ /\ freeList # <<>>
          /\ Claim(c, p, Head(freeList), Tail(freeList), replacer)
       \/ /\ freeList = <<>>
          /\ HasVictim(replacer)
          /\ Claim(c, p, Victim(replacer), freeList, AfterVictim(replacer))
    /\ UNCHANGED <<locks, todo, disk, log, damage, written, bounds>>

\* Under the io_mutex: a dirty old page must go to disk, its log records first.
EvictDirty(c) ==
    /\ In(c, "locking")
    /\ TakeIo(c, at[c])
    /\ Dirty(at[c])
    /\ LogFlushed(at[c])
    /\ Goto(c, "writing")
    /\ UNCHANGED <<table, frame, replacer, tableOwner, want, at, todo, disk, damage,
                   written, bounds>>

\* The exception leaves fetch_page: the io_mutex is released, but the frame stays
\* pinned, with the old page in it, under the new page's number.
EvictThrows(c) ==
    LET f == at[c] IN
    /\ In(c, "locking")
    /\ ioOwner[f] = NoClient
    /\ Dirty(f)
    /\ LogThrows(f)
    /\ stranded' = stranded \cup {f}
    /\ lost' = IF frame[f].page = want[c] THEN lost
               ELSE lost \cup {frame[f].page, want[c]}
    /\ Leave(c)
    /\ UNCHANGED <<table, frame, replacer, locks, todo, disk, written, crashes>>

EvictClean(c) ==
    /\ In(c, "locking")
    /\ TakeIo(c, at[c])
    /\ ~Dirty(at[c])
    /\ Goto(c, "reading")
    /\ UNCHANGED <<table, frame, replacer, tableOwner, want, at, todo, disk, log,
                   damage, written, bounds>>

WriteVictim(c) ==
    /\ In(c, "writing")
    /\ disk' = Saved(at[c])
    /\ frame' = [frame EXCEPT ![at[c]].dirty = FALSE]
    /\ Goto(c, "reading")
    /\ UNCHANGED <<table, replacer, locks, want, at, todo, log, damage, written, bounds>>

\* read_page, and the frame becomes the page's; the io_mutex is released.
ReadPage(c) ==
    LET f == at[c]
        p == want[c]
    IN
    /\ In(c, "reading")
    /\ frame' = [frame EXCEPT ![f] = [@ EXCEPT !.page = p, !.valid = TRUE, !.dirty = FALSE,
                                      !.version = disk[p].version, !.lsn = disk[p].lsn]]
    /\ replacer' = Accessed(replacer, f)
    /\ DropIo(f)
    /\ Goto(c, "holding")
    /\ UNCHANGED <<table, tableOwner, want, at, todo, disk, log, damage, written, bounds>>

\* The disk fails: the frame is unpinned, and evictable if nobody else pins it ...
GiveUp(c) ==
    LET f == at[c] IN
    /\ cpc[c] \in {"writing", "reading"}
    /\ Fail
    /\ frame' = [frame EXCEPT ![f].pins = @ - 1]
    /\ replacer' = IF frame[f].pins = 1 THEN Unpinned(replacer, f) ELSE replacer
    /\ Goto(c, "cleaning")
    /\ UNCHANGED <<table, locks, want, at, todo, disk, log, damage, written, crashes>>

\* ... and then the page leaves the table and the frame joins the free list, the
\* old page still in it, valid, and dirty if it was the write that failed.
CleanUp(c) ==
    /\ In(c, "cleaning")
    /\ tableOwner = NoClient
    /\ pageTable' = [pageTable EXCEPT ![want[c]] = NoFrame]
    /\ freeList' = Append(freeList, at[c])
    /\ DropIo(at[c])
    /\ Leave(c)
    /\ UNCHANGED <<frame, replacer, tableOwner, todo, disk, log, damage, written, bounds>>

-----------------------------------------------------------------------------
(***************************************************************************)
(* A client changes its page through get_mut, which marks the frame dirty. *)
(* Changes of tables are logged and the page gets the LSN; changes of      *)
(* indexes are not.                                                        *)
(***************************************************************************)
Write(c, isLogged) ==
    LET p == want[c] IN
    /\ In(c, "holding") /\ Ready(c)
    /\ isLogged => log.last < MaxRecords
    /\ MapThenSumSet(LAMBDA q : written[q], Pages) < MaxWrites
    /\ log' = IF isLogged THEN [log EXCEPT !.last = @ + 1, !.buffered = TRUE] ELSE log
    /\ written' = [written EXCEPT ![p] = @ + 1]
    /\ frame' = [frame EXCEPT ![at[c]] =
            [@ EXCEPT !.dirty = TRUE, !.version = written[p] + 1,
                      !.lsn = IF isLogged THEN log.last + 1 ELSE @]]
    /\ UNCHANGED <<table, replacer, locks, local, disk, damage, bounds>>

\* ~PageHandle: the frame's pin count goes down ...
Unpin(c) ==
    /\ In(c, "holding") /\ Ready(c)
    /\ frame' = [frame EXCEPT ![at[c]].pins = @ - 1]
    /\ Goto(c, "checking")
    /\ UNCHANGED <<table, replacer, locks, want, at, todo, disk, log, damage, written, bounds>>

\* ... unpin_page reads it ...
CheckPins(c) ==
    /\ In(c, "checking")
    /\ \/ frame[at[c]].pins = 0 /\ Goto(c, "unpinning") /\ UNCHANGED <<want, at>>
       \/ frame[at[c]].pins # 0 /\ Leave(c)
    /\ UNCHANGED <<table, frame, replacer, locks, todo, disk, log, damage, written, bounds>>

\* ... and if it was zero, the replacer may have the frame.
UnpinPage(c) ==
    /\ In(c, "unpinning")
    /\ replacer' = Unpinned(replacer, at[c])
    /\ Leave(c)
    /\ UNCHANGED <<table, frame, locks, todo, disk, log, damage, written, bounds>>

-----------------------------------------------------------------------------
\* flush_page: the frame is looked up under the table's mutex ...
FlushPage(c, p) ==
    /\ cpc[c] = "out" /\ Ready(c)
    /\ tableOwner = NoClient
    /\ pageTable[p] # NoFrame
    /\ want' = [want EXCEPT ![c] = p]
    /\ at' = [at EXCEPT ![c] = pageTable[p]]
    /\ Goto(c, "flushing")
    /\ UNCHANGED <<table, frame, replacer, locks, todo, disk, log, damage, written, bounds>>

\* ... and examined again under its own.
FlushLog(c) ==
    /\ In(c, "flushing")
    /\ ioOwner[at[c]] = NoClient
    /\ \/ /\ Dirty(at[c]) /\ frame[at[c]].page = want[c]
          /\ TakeIo(c, at[c])
          /\ LogFlushed(at[c])
          /\ Goto(c, "saving")
          /\ UNCHANGED <<want, at>>
       \/ /\ ~(Dirty(at[c]) /\ frame[at[c]].page = want[c])
          /\ Leave(c)
          /\ UNCHANGED <<ioOwner, log>>
    /\ UNCHANGED <<table, frame, replacer, tableOwner, todo, disk, damage, written,
                   bounds>>

\* flush_up_to throws out of flush_page.
FlushThrows(c) ==
    /\ In(c, "flushing")
    /\ ioOwner[at[c]] = NoClient
    /\ Dirty(at[c]) /\ frame[at[c]].page = want[c]
    /\ LogThrows(at[c])
    /\ Leave(c)
    /\ UNCHANGED <<table, frame, replacer, locks, todo, disk, damage, written, crashes>>

\* Seeded fault: the dirty flag is cleared although the write failed.
FlushSaveForgets(c) ==
    /\ In(c, "saving")
    /\ frame' = [frame EXCEPT ![at[c]].dirty = FALSE]
    /\ \/ disk' = Saved(at[c]) /\ UNCHANGED failures
       \/ Fail /\ UNCHANGED disk
    /\ DropIo(at[c])
    /\ Leave(c)
    /\ UNCHANGED <<table, replacer, tableOwner, todo, log, damage, written, crashes>>

\* The page is written and clean; a failed write leaves it dirty.
FlushSave(c) ==
    /\ In(c, "saving")
    /\ \/ /\ disk' = Saved(at[c])
          /\ frame' = [frame EXCEPT ![at[c]].dirty = FALSE]
          /\ UNCHANGED failures
       \/ Fail /\ UNCHANGED <<disk, frame>>
    /\ DropIo(at[c])
    /\ Leave(c)
    /\ UNCHANGED <<table, replacer, tableOwner, todo, log, damage, written, crashes>>

\* flush_all holds the table's mutex from here ...
FlushAll(c) ==
    /\ cpc[c] = "out" /\ Ready(c)
    /\ tableOwner = NoClient
    /\ tableOwner' = c
    /\ todo' = [todo EXCEPT ![c] = {p \in Pages : pageTable[p] # NoFrame}]
    /\ Goto(c, "sweeping")
    /\ UNCHANGED <<table, frame, replacer, ioOwner, want, at, disk, log, damage, written, bounds>>

\* ... over every entry of the table, in the order of the hash table ...
SweepLog(c, p) ==
    LET f == pageTable[p] IN
    /\ In(c, "sweeping")
    /\ p \in todo[c]
    /\ ioOwner[f] = NoClient
    /\ \/ /\ Dirty(f)
          /\ TakeIo(c, f)
          /\ LogFlushed(f)
          /\ want' = [want EXCEPT ![c] = p]
          /\ at' = [at EXCEPT ![c] = f]
          /\ Goto(c, "sweepSaving")
          /\ UNCHANGED todo
       \/ /\ ~Dirty(f)
          /\ todo' = [todo EXCEPT ![c] = @ \ {p}]
          /\ UNCHANGED <<ioOwner, log, want, at, cpc>>
    /\ UNCHANGED <<table, frame, replacer, tableOwner, disk, damage, written, bounds>>

\* ... until flush_up_to throws out of flush_all ...
SweepThrows(c, p) ==
    LET f == pageTable[p] IN
    /\ In(c, "sweeping")
    /\ p \in todo[c]
    /\ ioOwner[f] = NoClient
    /\ Dirty(f)
    /\ LogThrows(f)
    /\ tableOwner' = NoClient
    /\ todo' = [todo EXCEPT ![c] = {}]
    /\ Leave(c)
    /\ UNCHANGED <<table, frame, replacer, ioOwner, disk, damage, written, crashes>>

SweepSave(c) ==
    /\ In(c, "sweepSaving")
    /\ disk' = Saved(at[c])
    /\ frame' = [frame EXCEPT ![at[c]].dirty = FALSE]
    /\ todo' = [todo EXCEPT ![c] = @ \ {want[c]}]
    /\ want' = [want EXCEPT ![c] = NoPage]
    /\ at' = [at EXCEPT ![c] = NoFrame]
    /\ DropIo(at[c])
    /\ Goto(c, "sweeping")
    /\ UNCHANGED <<table, replacer, tableOwner, log, damage, written, bounds>>

\* ... or a write fails ...
SweepFails(c) ==
    /\ In(c, "sweepSaving")
    /\ Fail
    /\ tableOwner' = NoClient
    /\ todo' = [todo EXCEPT ![c] = {}]
    /\ DropIo(at[c])
    /\ Leave(c)
    /\ UNCHANGED <<table, frame, replacer, disk, log, damage, written, crashes>>

\* ... or the end.
SweepEnds(c) ==
    /\ In(c, "sweeping")
    /\ todo[c] = {}
    /\ tableOwner' = NoClient
    /\ Leave(c)
    /\ UNCHANGED <<table, frame, replacer, ioOwner, todo, disk, log, damage, written, bounds>>

-----------------------------------------------------------------------------
\* The process dies; a new pool is built on the same file.  The log ends where it
\* was flushed.  The code counts LSNs from 1 again, after which flush_up_to writes
\* the buffer for old LSNs more often, never less.
Crash ==
    /\ crashes < MaxCrashes
    /\ crashes' = crashes + 1
    /\ pageTable' = [p \in Pages |-> NoFrame]
    /\ freeList' = [i \in 1 .. PoolSize |-> i - 1]
    /\ frame' = [f \in Frames |-> EmptyFrame]
    /\ replacer' = NewReplacer
    /\ tableOwner' = NoClient
    /\ ioOwner' = [f \in Frames |-> NoClient]
    /\ cpc' = [c \in Clients |-> "out"]
    /\ want' = [c \in Clients |-> NoPage]
    /\ at' = [c \in Clients |-> NoFrame]
    /\ todo' = [c \in Clients |-> {}]
    /\ written' = [p \in Pages |-> disk[p].version]
    /\ log' = NewLog(log.flushed, log.failed)
    /\ lost' = {} /\ stranded' = {}
    /\ UNCHANGED <<disk, failures>>

Next ==
    \/ \E c \in Clients :
        \/ \E p \in Pages : FetchHit(c, p) \/ FetchMiss(c, p)
        \/ EvictDirty(c) \/ EvictThrows(c) \/ EvictClean(c)
        \/ WriteVictim(c) \/ ReadPage(c)
        \/ GiveUp(c) \/ CleanUp(c)
        \/ \E isLogged \in BOOLEAN : Write(c, isLogged)
        \/ Unpin(c) \/ CheckPins(c) \/ UnpinPage(c)
        \/ \E p \in Pages : FlushPage(c, p)
        \/ FlushLog(c) \/ FlushThrows(c) \/ FlushSave(c)
        \/ FlushAll(c)
        \/ \E p \in Pages : SweepLog(c, p) \/ SweepThrows(c, p)
        \/ SweepSave(c) \/ SweepFails(c) \/ SweepEnds(c)
    \/ Crash

Spec == Init /\ [][Next]_vars

-----------------------------------------------------------------------------
(***************************************************************************)
(* A handle that fetch_page returned shows the page that was asked for, in *)
(* its latest version: neither an eviction, nor one whose write or read    *)
(* failed, nor another page's use of the frame loses a change.  Excepted   *)
(* are the two pages of an eviction out of which flush_up_to threw: the    *)
(* table names the old page's frame for the new page (buffer_pool.cpp:95). *)
(***************************************************************************)
HandleShowsPage ==
    \A c \in Clients : cpc[c] = "holding" /\ want[c] \notin lost =>
        LET f == frame[at[c]]
        IN  f.valid /\ f.page = want[c] /\ f.version = written[want[c]]

(***************************************************************************)
(* fetch_page finds a frame unless each is pinned by a handle or was left  *)
(* pinned by an exception out of an eviction: two rounds of the clock      *)
(* suffice whatever the reference bits, and no other failed call and no    *)
(* released handle leaves a pin behind.                                    *)
(***************************************************************************)
FrameFound ==
    (\A c \in Clients : ~Calling(c)) /\ freeList = <<>> /\ ~HasVictim(replacer)
        => \A f \in Frames \ stranded : \E c \in Clients : cpc[c] = "holding" /\ at[c] = f

(***************************************************************************)
(* The log records of a page are written before the page is: until the     *)
(* log's stream fails, no page in the file has an LSN beyond the flushed   *)
(* end of the log.  After a failure flush_up_to may return with nothing    *)
(* written, as the buffer is empty (wal_manager.cpp:68).                   *)
(***************************************************************************)
LogBeforePage == ~log.failed => \A p \in Pages : disk[p].lsn <= log.flushed

(***************************************************************************)
(* The pool implements PageStore: what reaches the file, by eviction or by *)
(* a flush, is the latest version of a page, under that page's number,     *)
(* unless an exception has mixed the page up with another one.             *)
(***************************************************************************)
Store == INSTANCE PageStore WITH
            latest <- written,
            saved <- [p \in Pages |-> disk[p].version]

StoreSpec == Store!Spec
=============================================================================
