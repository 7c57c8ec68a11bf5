--------------------------- MODULE ClockReplacer ----------------------------
(***************************************************************************)
(* The second-chance clock of src/src/storage/clock_replacer.cpp, as       *)
(* operators on its state: a record with the clock hand and, for every     *)
(* frame, the flags of FrameState.  Each call holds m_mutex from beginning *)
(* to end, so each is one step of its caller.                              *)
(***************************************************************************)
EXTENDS Integers, FiniteSetsExt

CONSTANT PoolSize       \* number of frames

ASSUME PoolSizeAssumption == PoolSize \in Nat \ {0}

Frames == 0 .. PoolSize - 1

\* A new replacer: every frame is empty until it is first used.
NewReplacer ==
    [hand |-> 0,
     pinned |-> [f \in Frames |-> FALSE],
     empty |-> [f \in Frames |-> TRUE],
     ref |-> [f \in Frames |-> FALSE]]

\* The frame under the hand after k moves.
UnderHand(r, k) == (r.hand + k) % PoolSize

Evictable(r, f) == ~r.pinned[f] /\ ~r.empty[f]

\* Seeded fault: the hand goes round once.
RoundsOnce(r) ==
    {k \in 0 .. PoolSize - 1 :
        LET f == UnderHand(r, k) IN Evictable(r, f) /\ ~r.ref[f]}

(***************************************************************************)
(* victim: the hand makes at most two rounds.  It stops at an evictable    *)
(* frame without reference bit; in the first round it clears the bits it   *)
(* passes, so in the second any evictable frame will do.                   *)
(***************************************************************************)
Stops(r) ==
    {k \in 0 .. 2 * PoolSize - 1 :
        LET f == UnderHand(r, k) IN Evictable(r, f) /\ (~r.ref[f] \/ k >= PoolSize)}

HasVictim(r) == Stops(r) # {}

Victim(r) == UnderHand(r, Min(Stops(r)))

AfterVictim(r) ==
    LET stop == Min(Stops(r))
        passed == {UnderHand(r, k) : k \in 0 .. stop}
    IN  [r EXCEPT !.hand = UnderHand(r, stop + 1),
                  !.empty[Victim(r)] = TRUE,
                  !.ref = [f \in Frames |->
                              @[f] /\ ~(f \in passed /\ Evictable(r, f))]]

Pinned(r, f) == [r EXCEPT !.pinned[f] = TRUE, !.empty[f] = FALSE]

Unpinned(r, f) == [r EXCEPT !.pinned[f] = FALSE, !.empty[f] = FALSE]

Accessed(r, f) == [r EXCEPT !.ref[f] = TRUE]
=============================================================================
