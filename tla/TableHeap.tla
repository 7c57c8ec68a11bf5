----------------------------- MODULE TableHeap ------------------------------
(***************************************************************************)
(* The row versions of src/src/storage/table_heap.cpp under the            *)
(* transactions of TransactionManager.  A RecordID is the position of a    *)
(* version in "versions"; its content is left out, its MVCC header kept.   *)
(* update and erase copy the old header out of the page, check it, and     *)
(* write the copy back: no lock makes that atomic, neither here nor in a   *)
(* caller.  The rows on which two writers had a copy at once are recorded  *)
(* in "raced".  Pages, their free space and the log records are left out,  *)
(* but an update may find no room for the new version after it has marked  *)
(* the old one.                                                            *)
(***************************************************************************)
EXTENDS TransactionManager, Sequences

CONSTANTS
    MaxVersions,        \* bound on the number of versions stored
    MaxRestarts         \* bound on the restarts of the process

VARIABLES
    versions,       \* the stored versions: [xmin, xmax, prev]
    step,           \* what a client's update or erase does next
    call,           \* that call: [op, id, header], header the bytes it copied
    restarts,       \* how often the process was restarted
    raced           \* the versions that two writers copied before either wrote back

heap == <<versions, step, call, raced>>
allVars == <<vars, heap, restarts>>

NoCall == [op |-> "none", id |-> 0, header |-> [xmin |-> 0, xmax |-> 0, prev |-> 0]]

-----------------------------------------------------------------------------
HeapInit ==
    /\ Init
    /\ versions = <<>>
    /\ step = [c \in Clients |-> "none"]
    /\ call = [c \in Clients |-> NoCall]
    /\ restarts = 0
    /\ raced = {}

\* A client calls the heap with its transaction and snapshot, one call at a time.
Ready(c) == pc[c] = "reading" /\ step[c] = "none"

\* insert: a new row.
Insert(c) ==
    /\ Ready(c)
    /\ Len(versions) < MaxVersions
    /\ versions' = Append(versions, [xmin |-> txn[c], xmax |-> INVALID_TRANSACTION_ID,
                                     prev |-> 0])
    /\ UNCHANGED <<vars, step, call, restarts, raced>>

\* Seeded fault: no write-write conflict is found.
ConflictNever(header, current) == FALSE

\* The write-write conflict check on the copied header.
Conflict(header, current) ==
    header.xmax # INVALID_TRANSACTION_ID /\ header.xmax # current

\* Another client has a copy of the header that it will write back.
Copied(id) == \E c \in Clients : step[c] = "marking" /\ call[c].id = id

\* update and erase read the old version; after a conflict they return
\* TransactionAborted and have changed nothing.
ReadOld(c, op, id) ==
    /\ Ready(c)
    /\ ~Conflict(versions[id], txn[c])
    /\ step' = [step EXCEPT ![c] = "marking"]
    /\ call' = [call EXCEPT ![c] = [op |-> op, id |-> id,
                    header |-> [versions[id] EXCEPT !.xmax = txn[c]]]]
    /\ raced' = IF Copied(id) THEN raced \cup {id} ELSE raced
    /\ UNCHANGED <<vars, versions, restarts>>

\* They write the whole copy back, marked as deleted by the transaction.
MarkOld(c) ==
    /\ step[c] = "marking"
    /\ versions' = [versions EXCEPT ![call[c].id] = call[c].header]
    /\ \/ /\ call[c].op = "erase"
          /\ step' = [step EXCEPT ![c] = "none"]
          /\ call' = [call EXCEPT ![c] = NoCall]
       \/ /\ call[c].op = "update"
          /\ step' = [step EXCEPT ![c] = "inserting"]
          /\ UNCHANGED call
    /\ UNCHANGED <<vars, restarts, raced>>

EndCall(c) ==
    /\ step[c] = "inserting"
    /\ step' = [step EXCEPT ![c] = "none"]
    /\ call' = [call EXCEPT ![c] = NoCall]
    /\ UNCHANGED <<vars, restarts, raced>>

\* update stores the new version, linked to the old one ...
InsertNew(c) ==
    /\ Len(versions) < MaxVersions
    /\ versions' = Append(versions, [xmin |-> txn[c], xmax |-> INVALID_TRANSACTION_ID,
                                     prev |-> call[c].id])
    /\ EndCall(c)

\* ... or finds no page with room for it: InternalError.
NoRoom(c) == UNCHANGED versions /\ EndCall(c)

\* The transaction manager's operations; a transaction ends between calls.
Transaction(c) ==
    /\ step[c] = "none"
    /\ \/ Begin(c)
       \/ Register(c)
       \/ SnapshotXmax(c)
       \/ SnapshotXmin(c)
       \/ SnapshotActive(c)
       \/ Commit(c)
       \/ Abort(c)
    /\ UNCHANGED <<heap, restarts>>

(***************************************************************************)
(* The process is restarted with every page written: the versions are all  *)
(* there, the registry is empty and identifiers are given out from 1.      *)
(***************************************************************************)
Restart ==
    /\ restarts < MaxRestarts
    /\ restarts' = restarts + 1
    /\ nextTxnId' = 1
    /\ registry' = [id \in Ids |-> "none"]
    /\ pc' = [c \in Clients |-> "idle"]
    /\ txn' = [c \in Clients |-> INVALID_TRANSACTION_ID]
    /\ snapshot' = [c \in Clients |-> NoSnapshot]
    /\ unregistered' = [c \in Clients |-> {}]
    /\ before' = [c \in Clients |-> {}]
    /\ step' = [c \in Clients |-> "none"]
    /\ call' = [c \in Clients |-> NoCall]
    /\ UNCHANGED <<versions, raced>>

HeapNext ==
    \/ \E c \in Clients :
        \/ Transaction(c)
        \/ Insert(c)
        \/ \E op \in {"update", "erase"}, id \in DOMAIN versions : ReadOld(c, op, id)
        \/ MarkOld(c)
        \/ InsertNew(c)
        \/ NoRoom(c)
    \/ Restart

HeapSpec == HeapInit /\ [][HeapNext]_allVars

-----------------------------------------------------------------------------
\* The versions is_visible shows to the client.
VisibleTo(c) ==
    {id \in DOMAIN versions : IsVisible(registry, versions[id], snapshot[c], txn[c])}

(***************************************************************************)
(* A reader never sees a version together with the one that replaced it,   *)
(* whichever writers committed, aborted or are still at work, and whatever *)
(* identifiers a restart gives out again.  Excepted are versions on which  *)
(* two writers raced: the later mark hides the earlier one, and if its     *)
(* transaction aborts both versions show (table_heap.cpp:155-162).         *)
(***************************************************************************)
ReadersSeeOne ==
    \A c \in Clients : pc[c] = "reading" =>
        \A id \in VisibleTo(c) : versions[id].prev \notin VisibleTo(c) \ raced

-----------------------------------------------------------------------------
\* The versions reached from a RecordID through prev_version.
Chain(id) ==
    LET from[n \in 0..Len(versions)] ==
            IF n = 0 THEN {} ELSE {n} \cup from[versions[n].prev]
    IN from[id]

\* get: the first visible version on the chain, 0 for NotFound.
Get(c, id) ==
    LET first[n \in 0..Len(versions)] ==
            IF n = 0 \/ n \in VisibleTo(c) THEN n ELSE first[versions[n].prev]
    IN first[id]

\* The versions that client c, or a transaction its snapshot missed because it
\* was not registered yet, has written.
Excepted(c) ==
    {id \in DOMAIN versions :
        {versions[id].xmin, versions[id].xmax} \cap ({txn[c]} \cup unregistered[c]) # {}}

(***************************************************************************)
(* Reads are repeatable: while a client keeps its snapshot, get returns    *)
(* the same version for the same RecordID, whatever others insert, update, *)
(* erase, commit and abort meanwhile.  Excepted are chains on which the    *)
(* client itself, or a transaction its snapshot missed, has written, and   *)
(* chains with a version two writers raced on, as the stale copy of one    *)
(* may take back a mark of the other.                                      *)
(***************************************************************************)
RepeatableRead ==
    [][\A c \in Clients, id \in DOMAIN versions :
        KeepsSnapshot(c) /\ Chain(id) \cap (Excepted(c) \cup Excepted(c)' \cup raced) = {}
            => Get(c, id)' = Get(c, id)]_allVars
=============================================================================
