---------------------- MODULE TransactionManagerProofs ----------------------
(***************************************************************************)
(* Snapshots are stable and fresh, for any number of clients and           *)
(* transactions.  The inductive invariant says who owns which identifier   *)
(* (Owners) and, for each stage of create_snapshot, that a transaction     *)
(* that may still commit is active in the snapshot or was unregistered     *)
(* when its xmin was read (Stages).                                        *)
(***************************************************************************)
EXTENDS TransactionManager, TLAPS

Running == {"open", "snapshot_xmin", "snapshot_active", "reading"}

\* Every identifier is unused or belongs to one client, which alone ends it.
Owners ==
    /\ \A id \in Ids : id >= nextTxnId => registry[id] = "none"
    /\ \A c \in Clients :
        /\ pc[c] # "idle" => txn[c] \in Ids /\ txn[c] < nextTxnId
        /\ pc[c] = "idle" => txn[c] = INVALID_TRANSACTION_ID
        /\ pc[c] = "beginning" => registry[txn[c]] = "none"
        /\ pc[c] \in Running => registry[txn[c]] = "Active"
    /\ \A c, d \in Clients : c # d /\ pc[c] # "idle" => txn[c] # txn[d]

\* What is known of a snapshot after each of the reads of create_snapshot.
HasXmax(c) ==
    /\ snapshot[c].xmax <= nextTxnId
    /\ \A id \in before[c] : registry[id] = "Committed" /\ id < snapshot[c].xmax
HasXmin(c) ==
    \A id \in Ids \ unregistered[c] :
        /\ id < snapshot[c].xmax => registry[id] # "none"
        /\ id < snapshot[c].xmin => registry[id] \in {"Committed", "Aborted"}
HasActive(c) ==
    /\ before[c] \cap snapshot[c].active = {}
    /\ \A id \in Ids \ unregistered[c] :
        registry[id] = "Active" => IsActive(snapshot[c], id)

Stages ==
    \A c \in Clients :
        /\ pc[c] \in {"snapshot_xmin", "snapshot_active", "reading"} => HasXmax(c)
        /\ pc[c] \in {"snapshot_active", "reading"} => HasXmin(c)
        /\ pc[c] = "reading" => HasActive(c)

IInv == TypeOK /\ Owners /\ Stages

-----------------------------------------------------------------------------
\* Every step keeps the types.
LEMMA TypeStep ==
    ASSUME IInv, NEW c \in Clients,
           \/ Begin(c) \/ Register(c) \/ SnapshotXmax(c) \/ SnapshotXmin(c)
           \/ SnapshotActive(c) \/ Commit(c) \/ Abort(c)
    PROVE  TypeOK'
<1> USE MaxTxnIdAssumption DEF IInv, TypeOK, Goto, PCs, States, Ids, INVALID_TRANSACTION_ID
<1>1. CASE Begin(c)
    BY <1>1 DEF Begin
<1>2. CASE Register(c)
    BY <1>2 DEF Register, Owners
<1>3. CASE SnapshotXmax(c)
    <2>1. snapshot' \in [Clients -> [xmin: Nat, xmax: Nat, active: SUBSET Ids]]
        <3>1. [NoSnapshot EXCEPT !.xmax = nextTxnId]
                \in [xmin: Nat, xmax: Nat, active: SUBSET Ids]
            <4>1. nextTxnId \in Nat
                OBVIOUS
            <4> HIDE DEF Ids
            <4> QED BY <4>1 DEF NoSnapshot
        <3> QED BY <1>3, <3>1, Zenon DEF SnapshotXmax
    <2> QED BY <1>3, <2>1, Zenon DEF SnapshotXmax
<1>4. CASE SnapshotXmin(c)
    <2>1. PICK id \in Ids \cup {snapshot[c].xmax} :
            snapshot' = [snapshot EXCEPT ![c].xmin = id]
        BY <1>4, Zenon DEF SnapshotXmin
    <2>2. id \in Nat
        OBVIOUS
    <2>3. snapshot' \in [Clients -> [xmin: Nat, xmax: Nat, active: SUBSET Ids]]
        BY <2>1, <2>2, ZenonT(30)
    <2> QED BY <1>4, <2>3, Zenon DEF SnapshotXmin
<1>5. CASE SnapshotActive(c)
    <2>1. snapshot' \in [Clients -> [xmin: Nat, xmax: Nat, active: SUBSET Ids]]
        BY <1>5, ZenonT(30) DEF SnapshotActive, ActiveTransactions
    <2> QED BY <1>5, <2>1 DEF SnapshotActive
<1>6. CASE Commit(c) \/ Abort(c)
    <2>1. PICK state \in {"Committed", "Aborted"} : End(c, state)
        BY <1>6 DEF Commit, Abort
    <2>2. NoSnapshot \in [xmin: Nat, xmax: Nat, active: SUBSET Ids]
        BY DEF NoSnapshot
    <2> QED BY <2>1, <2>2, Zenon DEF End
<1> QED BY <1>1, <1>2, <1>3, <1>4, <1>5, <1>6

\* Every step keeps the ownership of identifiers.
LEMMA OwnersStep ==
    ASSUME IInv, NEW c \in Clients,
           \/ Begin(c) \/ Register(c) \/ SnapshotXmax(c) \/ SnapshotXmin(c)
           \/ SnapshotActive(c) \/ Commit(c) \/ Abort(c)
    PROVE  Owners'
<1> USE DEF IInv, TypeOK, Owners, Goto, Running, Ids
<1>1. CASE Begin(c)
    BY <1>1 DEF Begin, INVALID_TRANSACTION_ID
<1>2. CASE Register(c)
    BY <1>2 DEF Register
<1>3. CASE SnapshotXmax(c)
    BY <1>3 DEF SnapshotXmax
<1>4. CASE SnapshotXmin(c)
    BY <1>4 DEF SnapshotXmin
<1>5. CASE SnapshotActive(c)
    BY <1>5 DEF SnapshotActive
<1>6. CASE Commit(c) \/ Abort(c)
    <2>1. PICK state \in {"Committed", "Aborted"} : End(c, state)
        BY <1>6 DEF Commit, Abort
    <2> QED BY <2>1 DEF End, INVALID_TRANSACTION_ID
<1> QED BY <1>1, <1>2, <1>3, <1>4, <1>5, <1>6

-----------------------------------------------------------------------------
\* What any step does to the states: none becomes Active, Active ends.
Evolves ==
    /\ nextTxnId' >= nextTxnId
    /\ \A id \in Ids :
        \/ registry'[id] = registry[id]
        \/ registry[id] = "none" /\ registry'[id] = "Active"
        \/ registry[id] = "Active" /\ registry'[id] \in {"Committed", "Aborted"}

\* Every step of the specification is one of Evolves.
LEMMA StepEvolves ==
    ASSUME IInv, NEW c \in Clients,
           \/ Begin(c) \/ Register(c) \/ SnapshotXmax(c) \/ SnapshotXmin(c)
           \/ SnapshotActive(c) \/ Commit(c) \/ Abort(c)
    PROVE  /\ Evolves
           /\ \A d \in Clients \ {c} :
                /\ pc'[d] = pc[d] /\ txn'[d] = txn[d] /\ snapshot'[d] = snapshot[d]
                /\ unregistered'[d] = unregistered[d] /\ before'[d] = before[d]
<1> USE DEF IInv, TypeOK, Evolves, Goto, Ids
<1>1. CASE Begin(c)
    BY <1>1 DEF Begin
<1>2. CASE Register(c)
    BY <1>2 DEF Register, Owners
<1>3. CASE SnapshotXmax(c)
    BY <1>3 DEF SnapshotXmax
<1>4. CASE SnapshotXmin(c)
    BY <1>4 DEF SnapshotXmin
<1>5. CASE SnapshotActive(c)
    BY <1>5 DEF SnapshotActive
<1>6. CASE Commit(c) \/ Abort(c)
    <2>1. PICK state \in {"Committed", "Aborted"} : End(c, state)
        BY <1>6 DEF Commit, Abort
    <2>2. registry[txn[c]] = "Active"
        BY <2>1 DEF End, Owners, Running
    <2> QED BY <2>1, <2>2 DEF End
<1> QED BY <1>1, <1>2, <1>3, <1>4, <1>5, <1>6, Zenon

\* A snapshot that is kept keeps what is known of it.
LEMMA StagesKept ==
    ASSUME TypeOK, TypeOK', Evolves, NEW d \in Clients, snapshot'[d] = snapshot[d],
           unregistered'[d] = unregistered[d], before'[d] = before[d]
    PROVE  /\ HasXmax(d) => HasXmax(d)'
           /\ HasXmin(d) => HasXmin(d)'
           /\ HasXmin(d) /\ HasActive(d) => HasActive(d)'
<1>1. /\ snapshot[d].xmax \in Nat /\ snapshot[d].xmin \in Nat
      /\ nextTxnId \in Nat /\ nextTxnId' \in Nat /\ before[d] \subseteq Ids
      /\ Ids \subseteq Nat
    BY MaxTxnIdAssumption DEF TypeOK, Ids
<1>2. HasXmax(d) => HasXmax(d)'
    <2> SUFFICES ASSUME HasXmax(d) PROVE HasXmax(d)'
        OBVIOUS
    <2>1. (snapshot[d].xmax <= nextTxnId)'
        BY <1>1 DEF HasXmax, Evolves
    <2>2. ASSUME NEW id \in before[d]
          PROVE  registry'[id] = "Committed" /\ id < snapshot[d].xmax
        BY <1>1, Zenon DEF HasXmax, Evolves
    <2> QED BY <2>1, <2>2 DEF HasXmax
<1>3. HasXmin(d) => HasXmin(d)'
    BY <1>1 DEF HasXmin, Evolves
<1>4. ASSUME HasXmin(d), HasActive(d) PROVE HasActive(d)'
    <2>1. (before[d] \cap snapshot[d].active = {})'
        BY <1>4 DEF HasActive
    <2>2. ASSUME NEW id \in Ids \ unregistered[d], registry'[id] = "Active"
          PROVE  IsActive(snapshot[d], id)
        <3>1. CASE registry[id] = "Active"
            BY <3>1, <1>4 DEF HasActive
        <3>2. CASE registry[id] = "none"
            BY <3>2, <1>1, <1>4 DEF HasXmin, IsActive
        <3> QED BY <2>2, <3>1, <3>2 DEF Evolves
    <2> QED BY <2>1, <2>2 DEF HasActive, IsActive
<1> QED BY <1>2, <1>3, <1>4

\* Every step keeps what is known of every snapshot.
LEMMA StagesStep ==
    ASSUME IInv, NEW c \in Clients,
           \/ Begin(c) \/ Register(c) \/ SnapshotXmax(c) \/ SnapshotXmin(c)
           \/ SnapshotActive(c) \/ Commit(c) \/ Abort(c)
    PROVE  Stages'
<1> DEFINE Known(d) ==
        /\ pc[d] \in {"snapshot_xmin", "snapshot_active", "reading"} => HasXmax(d)
        /\ pc[d] \in {"snapshot_active", "reading"} => HasXmin(d)
        /\ pc[d] = "reading" => HasActive(d)
<1>1. Evolves /\ TypeOK /\ TypeOK'
    BY StepEvolves, TypeStep DEF IInv
<1>2. ASSUME NEW d \in Clients \ {c} PROVE Known(d)'
    <2>1. /\ pc'[d] = pc[d] /\ snapshot'[d] = snapshot[d]
          /\ unregistered'[d] = unregistered[d] /\ before'[d] = before[d]
        BY StepEvolves
    <2> QED BY <2>1, <1>1, StagesKept DEF IInv, Stages
<1>3. Known(c)'
    <2> USE DEF IInv, TypeOK, Goto
    <2>1. CASE Begin(c) \/ Register(c) \/ Commit(c) \/ Abort(c)
        BY <2>1 DEF Begin, Register, Commit, Abort, End
    <2>2. CASE SnapshotXmax(c)
        <3>1. /\ pc'[c] = "snapshot_xmin" /\ snapshot'[c].xmax = nextTxnId
              /\ before'[c] = {id \in Ids : registry[id] = "Committed"}
              /\ UNCHANGED <<registry, nextTxnId>>
            BY <2>2 DEF SnapshotXmax, NoSnapshot
        <3>2. HasXmax(c)'
            BY <3>1 DEF HasXmax, Owners, Ids
        <3> QED BY <3>1, <3>2
    <2>3. CASE SnapshotXmin(c)
        <3>1. PICK xmin \in Ids \cup {snapshot[c].xmax} :
                /\ IsOldestActive(xmin, snapshot[c].xmax)
                /\ snapshot' = [snapshot EXCEPT ![c].xmin = xmin]
            BY <2>3, Zenon DEF SnapshotXmin
        <3>2. /\ pc[c] = "snapshot_xmin" /\ pc'[c] = "snapshot_active"
              /\ snapshot'[c].xmax = snapshot[c].xmax /\ snapshot'[c].xmin = xmin
              /\ unregistered'[c] =
                    {id \in Ids : id < nextTxnId /\ registry[id] = "none"}
              /\ UNCHANGED <<registry, nextTxnId, before>>
            BY <2>3, <3>1 DEF SnapshotXmin
        <3>3. HasXmax(c)
            BY <3>2 DEF Stages
        <3>4. HasXmax(c)'
            BY <3>2, <3>3 DEF HasXmax
        <3>5. snapshot[c].xmax \in Nat /\ xmin \in Nat
            BY <3>1 DEF Ids
        <3>6. /\ xmin <= snapshot[c].xmax
              /\ \A id \in Ids : registry[id] = "Active" => xmin <= id
            BY <3>1 DEF IsOldestActive, ActiveTransactions
        <3>7. HasXmin(c)'
            <4> SUFFICES ASSUME NEW id \in Ids, id \notin unregistered'[c]
                         PROVE  /\ id < snapshot[c].xmax => registry[id] # "none"
                                /\ id < xmin => registry[id] \in {"Committed", "Aborted"}
                BY <3>2 DEF HasXmin
            <4>1. id \in Nat /\ nextTxnId \in Nat
                BY DEF Ids
            <4>2. id < snapshot[c].xmax => registry[id] # "none"
                BY <3>2, <3>3, <3>5, <4>1 DEF HasXmax
            <4>3. registry[id] \in States
                OBVIOUS
            <4> QED BY <3>5, <3>6, <4>1, <4>2, <4>3 DEF States
        <3> QED BY <3>2, <3>4, <3>7
    <2>4. CASE SnapshotActive(c)
        <3>1. /\ pc[c] = "snapshot_active" /\ pc'[c] = "reading"
              /\ snapshot'[c].xmax = snapshot[c].xmax
              /\ snapshot'[c].xmin = snapshot[c].xmin
              /\ snapshot'[c].active = ActiveTransactions
              /\ UNCHANGED <<registry, nextTxnId, before, unregistered>>
            BY <2>4 DEF SnapshotActive
        <3>2. HasXmax(c) /\ HasXmin(c)
            BY <3>1 DEF Stages
        <3>3. HasXmax(c)' /\ HasXmin(c)'
            BY <3>1, <3>2 DEF HasXmax, HasXmin
        <3>4. HasActive(c)'
            <4>1. before[c] \cap ActiveTransactions = {}
                BY <3>2 DEF HasXmax, ActiveTransactions
            <4>2. /\ Ids \subseteq Nat /\ snapshot[c].xmin \in Nat
                  /\ snapshot[c].xmax \in Nat
                BY DEF Ids
            <4>3. ASSUME NEW id \in Ids \ unregistered[c], registry[id] = "Active"
                  PROVE  id >= snapshot[c].xmin /\ id \in ActiveTransactions
                BY <4>2, <4>3, <3>2 DEF HasXmin, ActiveTransactions
            <4> QED BY <3>1, <4>1, <4>3 DEF HasActive, IsActive
        <3> QED BY <3>1, <3>3, <3>4
    <2> QED BY <2>1, <2>2, <2>3, <2>4
<1> QED BY <1>2, <1>3 DEF Stages

\* The inductive invariant holds initially.
LEMMA IInvInit == Init => IInv
<1> SUFFICES ASSUME Init PROVE IInv
    OBVIOUS
<1> USE MaxTxnIdAssumption DEF Init, Ids, INVALID_TRANSACTION_ID
<1>1. TypeOK
    <2>1. NoSnapshot \in [xmin: Nat, xmax: Nat, active: SUBSET Ids]
        BY DEF NoSnapshot
    <2> QED BY <2>1 DEF TypeOK, States, PCs
<1>2. Owners
    BY DEF Owners, Running
<1>3. Stages
    BY DEF Stages
<1> QED BY <1>1, <1>2, <1>3 DEF IInv

\* Every step, and stuttering, keeps the inductive invariant.
LEMMA IInvStep ==
    ASSUME IInv, [Next]_vars
    PROVE  IInv'
<1>1. CASE Next
    BY <1>1, TypeStep, OwnersStep, StagesStep DEF Next, IInv
<1>2. CASE UNCHANGED vars
    BY <1>2 DEF vars, IInv, TypeOK, Owners, Stages, HasXmax, HasXmin, HasActive
<1> QED BY <1>1, <1>2

\* The types of the transaction manager's state.
THEOREM TransactionManagerTypes == Spec => []TypeOK
<1>1. IInv => TypeOK
    BY DEF IInv
<1> QED BY <1>1, IInvInit, IInvStep, PTL DEF Spec

\* A complete snapshot includes what had committed when it was begun.
THEOREM SnapshotsAreFresh == Spec => []SnapshotFresh
<1>1. IInv => SnapshotFresh
    <2> SUFFICES ASSUME IInv, NEW c \in Clients, pc[c] = "reading",
                        NEW id \in before[c]
                 PROVE  id \in Seen(c)
        BY DEF SnapshotFresh
    <2>1. HasXmax(c) /\ HasActive(c)
        BY DEF IInv, Stages
    <2>2. id \in Ids
        BY DEF IInv, TypeOK
    <2>3. snapshot[c].xmax \in Nat /\ id \in Nat
        BY <2>2 DEF IInv, TypeOK, Ids
    <2>4. ~IsActive(snapshot[c], id)
        BY <2>1, <2>3 DEF HasXmax, HasActive, IsActive
    <2> QED BY <2>1, <2>2, <2>4 DEF Seen, Sees, HasXmax
<1> QED BY <1>1, IInvInit, IInvStep, PTL DEF Spec

\* What SnapshotStable says of one step.
Stable ==
    \A c \in Clients :
        KeepsSnapshot(c) => Seen(c)' \ unregistered[c] = Seen(c) \ unregistered[c]

\* What a kept snapshot sees does not change over a step.
LEMMA StableStep ==
    ASSUME IInv, Next
    PROVE  Stable
<1> SUFFICES ASSUME NEW c \in Clients, KeepsSnapshot(c),
                    NEW id \in Ids \ unregistered[c]
             PROVE  id \in Seen(c)' <=> id \in Seen(c)
    BY DEF Stable, Seen
<1>1. PICK d \in Clients :
        \/ Begin(d) \/ Register(d) \/ SnapshotXmax(d) \/ SnapshotXmin(d)
        \/ SnapshotActive(d) \/ Commit(d) \/ Abort(d)
    BY DEF Next
<1>2. Evolves
    BY <1>1, StepEvolves
<1>3. HasActive(c)
    BY DEF IInv, Stages, KeepsSnapshot
<1>4. registry'[id] = registry[id] \/ registry[id] # "Committed"
    BY <1>2 DEF Evolves
<1>5. registry[id] = "Active" => IsActive(snapshot[c], id)
    BY <1>3 DEF HasActive
<1> QED BY <1>2, <1>4, <1>5 DEF Evolves, KeepsSnapshot, Seen, Sees, IsActive

(***************************************************************************)
(* A kept snapshot never changes what counts for its reader, apart from    *)
(* the transactions that begin had not registered when it was taken.       *)
(***************************************************************************)
THEOREM SnapshotsAreStable == Spec => SnapshotStable
<1>1. IInv /\ [Next]_vars => [Stable]_vars
    BY StableStep
<1>2. Spec => [][Stable]_vars
    BY <1>1, IInvInit, IInvStep, PTL DEF Spec
<1> QED BY <1>2 DEF Stable, SnapshotStable
=============================================================================
