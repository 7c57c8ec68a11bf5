----------------------------- MODULE TablePage ------------------------------
(***************************************************************************)
(* The slotted page of src/src/storage/table_page.cpp.  The slot array     *)
(* grows up from the headers to "lower", the records grow down from the    *)
(* end of the page to "upper".  Record bytes are kept byte by byte, the    *)
(* headers and the slot array by their sizes only.  Slots count from 1     *)
(* here and from 0 in the code.  The calls change one page in place, under *)
(* one handle, so each is one step.                                        *)
(***************************************************************************)
EXTENDS Integers, SequencesExt

CONSTANTS
    PageSize,           \* bytes of a page
    HeaderSize,         \* bytes of its two headers
    SlotSize,           \* bytes of a slot
    Values,             \* what a byte of a record may be
    MaxLength           \* bound on the length of a record

ASSUME SizesAssumption ==
    /\ PageSize \in Nat /\ HeaderSize \in Nat /\ SlotSize \in Nat \ {0}
    /\ HeaderSize + SlotSize <= PageSize

VARIABLES
    slots,          \* the slot array: [offset, length, live]
    lower,          \* free_space_lower_bound
    upper,          \* free_space_upper_bound
    liveCount,      \* live_record_count
    bytes           \* the bytes of the page

vars == <<slots, lower, upper, liveCount, bytes>>

Addresses == 0 .. PageSize - 1
Slot == [offset: Nat, length: Nat, live: BOOLEAN]

\* Records whose bytes are all the same: enough to see a foreign byte.
Records == {[i \in 1 .. n |-> v] : n \in 1 .. MaxLength, v \in Values}

\* init, on a page of whatever bytes.
Init ==
    /\ slots = <<>>
    /\ lower = HeaderSize
    /\ upper = PageSize
    /\ liveCount = 0
    /\ \E v \in Values : bytes = [a \in Addresses |-> v]

-----------------------------------------------------------------------------
FreeSpace == IF upper >= lower THEN upper - lower ELSE 0

Live == {i \in DOMAIN slots : slots[i].live}

\* memcpy of a record to an offset.
Copied(mem, offset, r) ==
    [a \in DOMAIN mem |->
        IF a \in offset .. offset + Len(r) - 1 THEN r[a - offset + 1] ELSE mem[a]]

\* The bytes of a slot.
Content(mem, s) == [k \in 1 .. s.length |-> mem[s.offset + k - 1]]

\* Seeded fault: the room for a new slot is not asked for.
RequiredNoSlot(r) == Len(r)

\* The room an insert asks for: a new slot counts if no dead one can be reused.
Required(r) == Len(r) + (IF Live = DOMAIN slots THEN SlotSize ELSE 0)

\* The first slot that is not live, or a new one at the end.
Target ==
    IF Live = DOMAIN slots THEN Len(slots) + 1 ELSE Min(DOMAIN slots \ Live)

Insert(r) ==
    /\ Len(r) <= PageSize - HeaderSize - SlotSize
    /\ Required(r) <= FreeSpace
    /\ LET s == [offset |-> upper - Len(r), length |-> Len(r), live |-> TRUE]
       IN  /\ slots' = IF Target > Len(slots) THEN Append(slots, s)
                                              ELSE [slots EXCEPT ![Target] = s]
           /\ lower' = IF Target > Len(slots) THEN lower + SlotSize ELSE lower
           /\ upper' = s.offset
           /\ bytes' = Copied(bytes, s.offset, r)
    /\ liveCount' = liveCount + 1

\* The slot is dead; its bytes stay until the next compaction.
Erase(i) ==
    /\ i \in Live
    /\ slots' = [slots EXCEPT ![i].live = FALSE]
    /\ liveCount' = liveCount - 1
    /\ UNCHANGED <<lower, upper, bytes>>

\* update, where the record fits into the old one's place: the rest of the place
\* is lost until the next compaction.
UpdateInPlace(i, r) ==
    /\ i \in Live
    /\ Len(r) <= slots[i].length
    /\ bytes' = Copied(bytes, slots[i].offset, r)
    /\ slots' = [slots EXCEPT ![i].length = Len(r)]
    /\ UNCHANGED <<lower, upper, liveCount>>

\* update, where it has to move.
UpdateMoves(i, r) ==
    /\ i \in Live
    /\ Len(r) > slots[i].length
    /\ Len(r) <= FreeSpace
    /\ upper' = upper - Len(r)
    /\ bytes' = Copied(bytes, upper', r)
    /\ slots' = [slots EXCEPT ![i].offset = upper', ![i].length = Len(r)]
    /\ UNCHANGED <<lower, liveCount>>

-----------------------------------------------------------------------------
\* Seeded fault: the live slots are visited from the lowest offset up.
CompactOrderAscending ==
    SetToSortSeq(Live, LAMBDA i, j : slots[i].offset < slots[j].offset)

\* compact visits the live slots from the end of the page ...
CompactOrder ==
    SetToSortSeq(Live, LAMBDA i, j : slots[i].offset > slots[j].offset)

\* ... and moves one after the other up to the cursor.
Move(page, i) ==
    LET s == page.slots[i]
        cursor == page.cursor - s.length
    IN  [slots |-> [page.slots EXCEPT ![i].offset = cursor],
         bytes |-> Copied(page.bytes, cursor, Content(page.bytes, s)),
         cursor |-> cursor]

Compacted ==
    FoldLeft(Move, [slots |-> slots, bytes |-> bytes, cursor |-> PageSize], CompactOrder)

\* Dead slots at the end of the array are dropped.
Trimmed(page) == Max({i \in DOMAIN page.slots : page.slots[i].live} \cup {0})

Compact ==
    LET page == Compacted
        count == Trimmed(page)
    IN  /\ slots' = SubSeq(page.slots, 1, count)
        /\ bytes' = page.bytes
        /\ upper' = page.cursor
        /\ lower' = lower - SlotSize * (Len(slots) - count)
        /\ UNCHANGED liveCount

Next ==
    \/ \E r \in Records : Insert(r)
    \/ \E i \in DOMAIN slots : Erase(i)
    \/ \E i \in DOMAIN slots, r \in Records : UpdateInPlace(i, r) \/ UpdateMoves(i, r)
    \/ Compact

Spec == Init /\ [][Next]_vars

-----------------------------------------------------------------------------
(***************************************************************************)
(* The areas of the page never run into each other: the slot array ends    *)
(* where the header says and below the records, the live records lie       *)
(* between "upper" and the end of the page and share no byte, and as many  *)
(* slots are live as the header counts.                                    *)
(***************************************************************************)
LayoutSound ==
    /\ slots \in Seq(Slot)
    /\ lower = HeaderSize + SlotSize * Len(slots)
    /\ lower <= upper
    /\ \A i \in Live :
        /\ upper <= slots[i].offset
        /\ slots[i].offset + slots[i].length <= PageSize
    /\ \A i, j \in Live : i # j =>
        \/ slots[i].offset + slots[i].length <= slots[j].offset
        \/ slots[j].offset + slots[j].length <= slots[i].offset
    /\ liveCount = Cardinality(Live)

(***************************************************************************)
(* The page implements RowStore: get returns the record last stored under  *)
(* its RecordID, through inserts into reused slots, updates in place and   *)
(* moves of other records, erasures and compactions.                       *)
(***************************************************************************)
Rows == INSTANCE RowStore WITH
            Slots <- 1 .. PageSize,
            rows <- [i \in Live |-> Content(bytes, slots[i])]

RowsSpec == Rows!Spec
=============================================================================
