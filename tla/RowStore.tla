------------------------------ MODULE RowStore ------------------------------
(***************************************************************************)
(* What a table page promises: a map from slots to records.  A record that *)
(* is inserted gets a slot nobody uses, and nothing but its own update or  *)
(* erase changes it.                                                       *)
(***************************************************************************)
EXTENDS Naturals

CONSTANTS Slots, Records

VARIABLE rows       \* the records, by slot

Init == rows = [i \in {} |-> 0]

Insert(i, r) ==
    /\ i \notin DOMAIN rows
    /\ rows' = [j \in DOMAIN rows \cup {i} |-> IF j = i THEN r ELSE rows[j]]

Update(i, r) ==
    /\ i \in DOMAIN rows
    /\ rows' = [rows EXCEPT ![i] = r]

Erase(i) ==
    /\ i \in DOMAIN rows
    /\ rows' = [j \in DOMAIN rows \ {i} |-> rows[j]]

\* An update that writes what is there already is a stuttering step.
Next ==
    /\ rows' # rows
    /\ \E i \in Slots :
        \/ Erase(i)
        \/ \E r \in Records : Insert(i, r) \/ Update(i, r)

Spec == Init /\ [][Next]_rows
=============================================================================
