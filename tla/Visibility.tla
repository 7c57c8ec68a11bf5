----------------------------- MODULE Visibility -----------------------------
(***************************************************************************)
(* The MVCC visibility rule: src/src/transaction/snapshot.cpp and          *)
(* visibility.cpp.  A snapshot is a record [xmin, xmax, active]; its       *)
(* sorted vector of active transactions is a set.  The header of a row     *)
(* version is a record with xmin, its creator, and xmax, its deleter.      *)
(***************************************************************************)
EXTENDS Naturals

INVALID_TRANSACTION_ID == 0

\* Seeded fault: xmax is off by one.
IsActiveOffByOne(snapshot, id) ==
    /\ id >= snapshot.xmin
    /\ id + 1 >= snapshot.xmax \/ id \in snapshot.active

\* Snapshot::is_active
IsActive(snapshot, id) ==
    /\ id >= snapshot.xmin
    /\ id >= snapshot.xmax \/ id \in snapshot.active

\* The effects of transaction id count for the current transaction.
Sees(registry, snapshot, current, id) ==
    \/ id = current
    \/ ~IsActive(snapshot, id) /\ registry[id] = "Committed"

\* Seeded fault: a committed deletion counts whatever the snapshot.
IsVisibleNow(registry, header, snapshot, current) ==
    /\ Sees(registry, snapshot, current, header.xmin)
    /\ \/ header.xmax = INVALID_TRANSACTION_ID
       \/ header.xmax # current /\ registry[header.xmax] # "Committed"

\* VisibilityManager::is_visible
IsVisible(registry, header, snapshot, current) ==
    /\ Sees(registry, snapshot, current, header.xmin)
    /\ \/ header.xmax = INVALID_TRANSACTION_ID
       \/ ~Sees(registry, snapshot, current, header.xmax)
=============================================================================
