----------------------------- MODULE PageStore ------------------------------
(***************************************************************************)
(* What the page cache promises: every page has its latest version and the *)
(* version in the file.  Saving a page puts the latest version, never an   *)
(* older one and never another page's, into the file; a crash leaves the   *)
(* versions in the file.  Two pages may be mixed up, once, with each       *)
(* other: nothing is promised of what the file holds for them until the    *)
(* next crash.                                                             *)
(***************************************************************************)
EXTENDS Naturals

CONSTANT Pages

VARIABLES
    latest,         \* the latest version of every page
    saved,          \* the version of every page in the file
    lost            \* the pages that were mixed up

Init ==
    /\ latest = [p \in Pages |-> 0]
    /\ saved = [p \in Pages |-> 0]
    /\ lost = {}

Write(p) ==
    /\ latest' = [latest EXCEPT ![p] = @ + 1]
    /\ UNCHANGED <<saved, lost>>

Save(p) ==
    /\ saved' = [saved EXCEPT ![p] = latest[p]]
    /\ UNCHANGED <<latest, lost>>

MixUp(p, q) ==
    /\ lost' = lost \cup {p, q}
    /\ UNCHANGED <<latest, saved>>

SaveLost(p) ==
    /\ p \in lost
    /\ saved' = [saved EXCEPT ![p] = saved'[p]]
    /\ UNCHANGED <<latest, lost>>

Crash ==
    /\ latest' = saved
    /\ lost' = {}
    /\ UNCHANGED saved

Next ==
    \/ Crash
    \/ \E p \in Pages : Write(p) \/ Save(p) \/ SaveLost(p)
    \/ \E p, q \in Pages : MixUp(p, q)

Spec == Init /\ [][Next]_<<latest, saved, lost>>
=============================================================================
