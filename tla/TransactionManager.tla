------------------------- MODULE TransactionManager -------------------------
(***************************************************************************)
(* The transactions of src/src/transaction/transaction_manager.cpp and the *)
(* registry of their states.  Each client, a thread with a connection of   *)
(* its own, runs transactions one after the other.  begin and              *)
(* create_snapshot are not atomic: each access to m_next_txn_id and to the *)
(* registry is a step.  Logging is modelled by WALManager, the release of  *)
(* the locks by LockManager.                                               *)
(***************************************************************************)
EXTENDS Visibility

CONSTANTS
    Clients,    \* threads that run transactions
    MaxTxnId    \* bound on the transaction identifiers given out

ASSUME MaxTxnIdAssumption == MaxTxnId \in Nat \ {0}

VARIABLES
    nextTxnId,      \* m_next_txn_id
    registry,       \* m_registry: the state of each transaction, "none" if absent
    pc,             \* where each client is
    txn,            \* the identifier of its transaction
    snapshot,       \* its snapshot, complete at "reading"
    unregistered,   \* ids given out and not registered when it took its xmin
    before          \* the transactions committed when it began its snapshot

vars == <<nextTxnId, registry, pc, txn, snapshot, unregistered, before>>

Ids == 1..MaxTxnId
States == {"none", "Active", "Committed", "Aborted"}
PCs == {"idle", "beginning", "open", "snapshot_xmin", "snapshot_active", "reading"}

NoSnapshot == [xmin |-> 0, xmax |-> 0, active |-> {}]

-----------------------------------------------------------------------------
Init ==
    /\ nextTxnId = 1
    /\ registry = [id \in Ids |-> "none"]
    /\ pc = [c \in Clients |-> "idle"]
    /\ txn = [c \in Clients |-> INVALID_TRANSACTION_ID]
    /\ snapshot = [c \in Clients |-> NoSnapshot]
    /\ unregistered = [c \in Clients |-> {}]
    /\ before = [c \in Clients |-> {}]

Goto(c, label) == pc' = [pc EXCEPT ![c] = label]

\* begin takes the next identifier ...
Begin(c) ==
    /\ pc[c] = "idle"
    /\ nextTxnId <= MaxTxnId
    /\ txn' = [txn EXCEPT ![c] = nextTxnId]
    /\ nextTxnId' = nextTxnId + 1
    /\ Goto(c, "beginning")
    /\ UNCHANGED <<registry, snapshot, unregistered, before>>

\* ... and registers it as active.
Register(c) ==
    /\ pc[c] = "beginning"
    /\ registry' = [registry EXCEPT ![txn[c]] = "Active"]
    /\ Goto(c, "open")
    /\ UNCHANGED <<nextTxnId, txn, snapshot, unregistered, before>>

-----------------------------------------------------------------------------
(***************************************************************************)
(* create_snapshot reads m_next_txn_id, then the oldest active transaction *)
(* and then all active ones, each under a lock of its own.  It may be      *)
(* called again: every call builds a fresh snapshot.                       *)
(***************************************************************************)
SnapshotXmax(c) ==
    /\ pc[c] \in {"open", "reading"}
    /\ snapshot' = [snapshot EXCEPT ![c] = [NoSnapshot EXCEPT !.xmax = nextTxnId]]
    /\ before' = [before EXCEPT ![c] = {id \in Ids : registry[id] = "Committed"}]
    /\ Goto(c, "snapshot_xmin")
    /\ UNCHANGED <<nextTxnId, registry, txn, unregistered>>

\* get_active_transactions: Committing and Aborting are never set.
ActiveTransactions == {id \in Ids : registry[id] = "Active"}

\* id is get_oldest_active_transaction, or xmax when none is below it.
IsOldestActive(id, xmax) ==
    /\ id \in ActiveTransactions \cup {xmax}
    /\ \A other \in ActiveTransactions \cup {xmax} : id <= other

SnapshotXmin(c) ==
    /\ pc[c] = "snapshot_xmin"
    /\ \E id \in Ids \cup {snapshot[c].xmax} :
        /\ IsOldestActive(id, snapshot[c].xmax)
        /\ snapshot' = [snapshot EXCEPT ![c].xmin = id]
    /\ unregistered' = [unregistered EXCEPT ![c] =
                            {id \in Ids : id < nextTxnId /\ registry[id] = "none"}]
    /\ Goto(c, "snapshot_active")
    /\ UNCHANGED <<nextTxnId, registry, txn, before>>

\* Seeded fault: m_next_txn_id is read after the active transactions.
SnapshotActiveThenXmax(c) ==
    /\ pc[c] = "snapshot_active"
    /\ snapshot' = [snapshot EXCEPT ![c].active = ActiveTransactions,
                                    ![c].xmax = nextTxnId]
    /\ Goto(c, "reading")
    /\ UNCHANGED <<nextTxnId, registry, txn, unregistered, before>>

SnapshotActive(c) ==
    /\ pc[c] = "snapshot_active"
    /\ snapshot' = [snapshot EXCEPT ![c].active = ActiveTransactions]
    /\ Goto(c, "reading")
    /\ UNCHANGED <<nextTxnId, registry, txn, unregistered, before>>

-----------------------------------------------------------------------------
\* The end of a transaction: update_state, and the client forgets it.
End(c, state) ==
    /\ pc[c] \in {"open", "reading"}
    /\ registry' = [registry EXCEPT ![txn[c]] = state]
    /\ txn' = [txn EXCEPT ![c] = INVALID_TRANSACTION_ID]
    /\ snapshot' = [snapshot EXCEPT ![c] = NoSnapshot]
    /\ unregistered' = [unregistered EXCEPT ![c] = {}]
    /\ before' = [before EXCEPT ![c] = {}]
    /\ Goto(c, "idle")
    /\ UNCHANGED nextTxnId

Commit(c) == End(c, "Committed")

\* abort: rollback_undo_records changes nothing.
Abort(c) == End(c, "Aborted")

-----------------------------------------------------------------------------
Next ==
    \E c \in Clients :
        \/ Begin(c)
        \/ Register(c)
        \/ SnapshotXmax(c)
        \/ SnapshotXmin(c)
        \/ SnapshotActive(c)
        \/ Commit(c)
        \/ Abort(c)

Spec == Init /\ [][Next]_vars

-----------------------------------------------------------------------------
\* Type invariant.
TypeOK ==
    /\ nextTxnId \in 1..MaxTxnId + 1
    /\ registry \in [Ids -> States]
    /\ pc \in [Clients -> PCs]
    /\ txn \in [Clients -> Ids \cup {INVALID_TRANSACTION_ID}]
    /\ snapshot \in [Clients -> [xmin: Nat, xmax: Nat, active: SUBSET Ids]]
    /\ unregistered \in [Clients -> SUBSET Ids]
    /\ before \in [Clients -> SUBSET Ids]

\* The transactions whose effects the client's reads include.
Seen(c) == {id \in Ids : Sees(registry, snapshot[c], txn[c], id)}

\* A client that keeps its snapshot over a step.
KeepsSnapshot(c) ==
    /\ pc[c] = "reading" /\ pc'[c] = "reading"
    /\ txn'[c] = txn[c] /\ snapshot'[c] = snapshot[c]

(***************************************************************************)
(* A snapshot is stable: while a client keeps it, no transaction starts or *)
(* ceases to count for its reads, whatever begins, commits or aborts       *)
(* meanwhile and in whatever order create_snapshot's three reads met them. *)
(* Excepted are the transactions that had their identifier but were not    *)
(* registered when it was taken.                                           *)
(***************************************************************************)
SnapshotStable ==
    [][\A c \in Clients :
        KeepsSnapshot(c) =>
            Seen(c)' \ unregistered[c] = Seen(c) \ unregistered[c]]_vars

(***************************************************************************)
(* A snapshot is fresh: it includes every transaction that had committed   *)
(* when create_snapshot was called.                                        *)
(***************************************************************************)
SnapshotFresh ==
    \A c \in Clients : pc[c] = "reading" => before[c] \subseteq Seen(c)

(***************************************************************************)
(* "Readers read from a snapshot isolated to the moment their transaction  *)
(* started" (README.md:40): no transaction that ends later ever counts.    *)
(***************************************************************************)
SnapshotIsolated ==
    [][\A c \in Clients : KeepsSnapshot(c) => Seen(c)' = Seen(c)]_vars
=============================================================================
