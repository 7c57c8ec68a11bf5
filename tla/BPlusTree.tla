----------------------------- MODULE BPlusTree ------------------------------
(***************************************************************************)
(* The B+ tree index of src/src/index/: slotted nodes, leaves linked both  *)
(* ways, splits that climb to the root, removal without merging, lookups   *)
(* and iterators.  A tree is used by one thread, so a call is one step.    *)
(*                                                                         *)
(* Page identifiers are 1, 2, ... in the order of allocation; slots count  *)
(* from 1 here and from 0 in the code.  Space is counted in words of four  *)
(* bytes, the size of an EntrySlot.  An allocation fails when the disk is  *)
(* full, at "limit" pages; reads of pages of the file succeed.             *)
(***************************************************************************)
EXTENDS IndexKeys

CONSTANTS
    Keys,           \* the index keys in use
    MaxRecords,     \* bound on the number of inserts
    PageLimits,     \* how many pages the file may have room for
    NodeSpace,      \* words of a page for slots and entries
    StrayPages      \* what a page identifier read from an unwritten slot may be

VARIABLES
    tree,           \* m_metadata and the pages, and what splits lost or misplaced
    inserts,        \* number of inserts so far
    stored,         \* entries whose insert reported success, less those removed
    unsure,         \* entries whose insert reported an error, less those removed
    disordered      \* an insert repeated a key, failed half way or followed an unwritten slot

treeVars == <<tree, inserts, stored, unsure, disordered>>

NoPage == 0         \* the invalid page identifier, and one outside the file
Stray == -1         \* the child read from a slot that was never written
Hang == -2          \* the descent of find_leaf meets a page for the second time

\* Words of a serialised key: the count, and length and value of each column.
KeySize(key) ==
    FoldLeft(LAMBDA n, v : n + (IF v = Null THEN 1 ELSE 2), 1, key)

LeafEntry(key, rid) == [key |-> key, ref |-> rid, size |-> KeySize(key) + 2]
ChildEntry(key, child) == [key |-> key, ref |-> child, size |-> KeySize(key) + 1]
Unwritten == [key |-> <<>>, ref |-> Stray, size |-> 0]

\* BPlusTreeLeaf::init and BPlusTreeInternal::init.
FreshNode(leaf, level) ==
    [leaf |-> leaf, level |-> level, entries |-> <<>>,
     lower |-> 0, upper |-> NodeSpace, free |-> NodeSpace,
     parent |-> NoPage, next |-> NoPage, prev |-> NoPage]

-----------------------------------------------------------------------------
(***************************************************************************)
(* Nodes.                                                                  *)
(***************************************************************************)
\* The order of the serialised keys; the empty key is in a new root for a moment.
KeyOrder ==
    [a, b \in Keys \cup {<<>>} |-> CompareBytes(Serialize(a), Serialize(b))]

ByteOrder(a, b) == KeyOrder[a, b]

\* A split chooses the half by the order of the values, a search by the bytes.
OrdersDiffer(a, b) == (Compare(a, b) >= 0) # (ByteOrder(a, b) >= 0)

\* The key that is read back from the bytes of an entry.
ReadBack == [k \in Keys \cup {<<>>} |-> Deserialize(Serialize(k))]

KeyAt(n, i) == ReadBack[n.entries[i].key]

\* compact: the entries are moved to the end of the page.
CompactedNode(n) ==
    LET high == NodeSpace - FoldLeft(LAMBDA w, e : w + e.size, 0, n.entries)
    IN  [n EXCEPT !.upper = high, !.free = high - n.lower]

HasRoom(n, size) == size + 1 <= n.free

\* The node once an insert has asked for room.
WithRoom(n, size) == IF HasRoom(n, size) THEN n ELSE CompactedNode(n)

\* make_slot_room and write_entry.  An entry placed behind the end of the slot
\* array is outside of it: the array grows by the slot in between, unwritten.
Placed(n, i, e) ==
    LET low == n.lower + 1
        high == n.upper - e.size
    IN  [n EXCEPT !.entries = IF i > Len(@) + 1 THEN Append(@, Unwritten)
                                                ELSE InsertAt(@, i, e),
                  !.lower = low, !.upper = high, !.free = high - low]

\* The outcome of a node's insert: the node may be compacted even if it fails.
Insertion(n, i, e) ==
    LET m == WithRoom(n, e.size)
    IN  IF HasRoom(m, e.size) THEN [ok |-> TRUE, node |-> Placed(m, i, e)]
                              ELSE [ok |-> FALSE, node |-> m]

\* find_lower_bound.
LowerBound(n, key) ==
    Min({i \in DOMAIN n.entries : ByteOrder(n.entries[i].key, key) >= 0}
            \cup {Len(n.entries) + 1})

\* Behind the entries with an equal key.
LeafIndex(n, key) ==
    Min({i \in LowerBound(n, key) .. Len(n.entries) : n.entries[i].key # key}
            \cup {Len(n.entries) + 1})

LeafInsert(n, key, rid) == Insertion(n, LeafIndex(n, key), LeafEntry(key, rid))

\* The slots of an internal node that have a key: all but the first.
Keyed(n) == 2 .. Len(n.entries)

InternalIndex(n, key) ==
    Min({i \in Keyed(n) : ByteOrder(n.entries[i].key, key) >= 0}
            \cup {Max({Len(n.entries) + 1, 2})})

InternalInsert(n, key, child) ==
    Insertion(n, InternalIndex(n, key), ChildEntry(key, child))

\* child_at; "stray" is what the memory of an unwritten slot holds.
ChildAt(n, i, stray) ==
    IF n.entries[i].ref = Stray THEN stray ELSE n.entries[i].ref

FindChild(n, key, stray) ==
    LET above == {i \in Keyed(n) : ByteOrder(n.entries[i].key, key) > 0}
    IN  ChildAt(n, IF above = {} THEN Len(n.entries) ELSE Min(above) - 1, stray)

\* The lower half of a node that splits.  The slots given up are not subtracted
\* from "lower": the code subtracts key_count - mid after key_count became mid.
LowerHalf(n, mid) == CompactedNode([n EXCEPT !.entries = SubSeq(@, 1, mid)])

UpperHalf(n, mid) == SubSeq(n.entries, mid + 1, Len(n.entries))

-----------------------------------------------------------------------------
(***************************************************************************)
(* The tree.                                                               *)
(***************************************************************************)
RECURSIVE Descend(_, _, _, _, _)
Descend(t, p, key, stray, seen) ==
    CASE p \notin DOMAIN t.nodes -> NoPage
      [] p \in seen -> Hang
      [] p \in DOMAIN t.nodes \ seen /\ t.nodes[p].leaf -> p
      [] OTHER -> Descend(t, FindChild(t.nodes[p], key, stray), key, stray, seen \cup {p})

FindLeaf(t, key, stray) == Descend(t, t.root, key, stray, {})

CanAllocate(t) == Len(t.nodes) < t.limit

Ok(t) == [ok |-> TRUE, tree |-> t]
Failed(t) == [ok |-> FALSE, tree |-> t]

\* set_parent_page_id, for each of the children.
WithParent(nodes, children, q) ==
    [p \in DOMAIN nodes |->
        IF p \in children THEN [nodes[p] EXCEPT !.parent = q] ELSE nodes[p]]

\* A new root one level up.  The entry for the left child is placed behind the
\* empty slot array and the separator's entry then overwrites it.
NewRoot(t, left, sep, right) ==
    LET top == Len(t.nodes) + 1
        dummy == InternalInsert(FreshNode(FALSE, t.height), <<>>, left).node
        node == InternalInsert(dummy, sep, right).node
    IN  [t EXCEPT !.nodes = Append(WithParent(@, {left, right}, top), node),
                  !.root = top,
                  !.height = @ + 1]

\* split of an internal node: the middle key goes up, its child comes first.
UpperInternal(n, mid) ==
    LET first == [key |-> <<>>, ref |-> n.entries[mid + 1].ref, size |-> 1]
        fresh == FreshNode(FALSE, n.level)
        begun == [fresh EXCEPT !.entries = <<first>>, !.lower = 1,
                               !.upper = @ - 1, !.parent = n.parent]
    IN  FoldLeft(LAMBDA m, e : InternalInsert(m, ReadBack[e.key], e.ref).node,
                 begun, Tail(UpperHalf(n, mid)))

\* Seeded fault: the children that moved keep their parent.
AdoptNobody(nodes, q) == nodes

\* The children of a new internal node get it as their parent.
Adopt(nodes, q) ==
    WithParent(nodes, {nodes[q].entries[i].ref : i \in DOMAIN nodes[q].entries}, q)

\* The tree once the full node n of page p is split and the separator is in its half.
SplitInternal(t, p, n, mid, sep, right) ==
    LET low == LowerHalf(n, mid)
        high == UpperInternal(n, mid)
        halves == IF Compare(sep, KeyAt(n, mid + 1)) >= 0
                  THEN <<low, InternalInsert(high, sep, right).node>>
                  ELSE <<InternalInsert(low, sep, right).node, high>>
    IN  [t EXCEPT !.nodes =
                Adopt(Append([@ EXCEPT ![p] = halves[1]], halves[2]), Len(t.nodes) + 1),
                  !.misplaced = @ \/ OrdersDiffer(sep, KeyAt(n, mid + 1))]

RECURSIVE InsertIntoParent(_, _, _, _)

\* An insert into the parent p that ended with "put".
ParentOutcome(t, p, put, sep, right) ==
    LET full == [t EXCEPT !.nodes[p] = put.node]
        n == put.node
        mid == Len(n.entries) \div 2
    IN  CASE put.ok -> Ok(full)
          [] ~put.ok /\ ~CanAllocate(t) -> Failed(full)
          \* the key of the first slot cannot be read back
          [] ~put.ok /\ CanAllocate(t) /\ mid = 0 ->
                Failed([full EXCEPT !.nodes = Append(@, FreshNode(FALSE, n.level))])
          [] OTHER -> InsertIntoParent(SplitInternal(t, p, n, mid, sep, right),
                                       p, KeyAt(n, mid + 1), Len(t.nodes) + 1)

InsertIntoParent(t, left, sep, right) ==
    LET p == t.nodes[left].parent
    IN  CASE p = NoPage /\ CanAllocate(t) -> Ok(NewRoot(t, left, sep, right))
          [] p = NoPage /\ ~CanAllocate(t) -> Failed(t)
          [] OTHER -> ParentOutcome(t, p, InternalInsert(t.nodes[p], sep, right), sep, right)

\* Seeded fault: the leaf behind a new one keeps its link back.
LinkedOneWay(nodes, l, r) == [nodes EXCEPT ![l].next = r]

\* The links around the new leaf r behind l.
Linked(nodes, l, r) ==
    [p \in DOMAIN nodes |->
        CASE p = l -> [nodes[p] EXCEPT !.next = r]
          [] p = nodes[l].next /\ p # l -> [nodes[p] EXCEPT !.prev = r]
          [] OTHER -> nodes[p]]

\* Seeded fault: the entry in the middle is not moved.
UpperLeafSkips(n, mid, l) ==
    LET begun == [FreshNode(TRUE, 0) EXCEPT !.parent = n.parent, !.next = n.next, !.prev = l]
    IN  FoldLeft(LAMBDA m, e : LeafInsert(m, ReadBack[e.key], e.ref).node, begun, Tail(UpperHalf(n, mid)))

\* split of a leaf: the entries from the middle on are inserted into the new leaf.
UpperLeaf(n, mid, l) ==
    LET begun == [FreshNode(TRUE, 0) EXCEPT !.parent = n.parent, !.next = n.next, !.prev = l]
    IN  FoldLeft(LAMBDA m, e : LeafInsert(m, ReadBack[e.key], e.ref).node, begun, UpperHalf(n, mid))

\* The insert into the half where the key belongs; its result is not looked at.
HalfInsert(t, halves, target, key, rid) ==
    LET again == LeafInsert(halves[target], key, rid)
    IN  [t EXCEPT !.nodes = [halves EXCEPT ![target] = again.node],
                  !.lost = IF again.ok THEN @ ELSE @ \cup {<<key, rid>>}]

\* Seeded fault: the key always goes into the upper half.
SplitLeafUpper(t, l, n, mid, key, rid) ==
    LET r == Len(t.nodes) + 1
        halves == Append(Linked([t.nodes EXCEPT ![l] = LowerHalf(n, mid)], l, r),
                         UpperLeaf(n, mid, l))
    IN  HalfInsert(t, halves, r, key, rid)

\* The tree once the full leaf n of page l is split.
SplitLeaf(t, l, n, mid, key, rid) ==
    LET r == Len(t.nodes) + 1
        halves == Append(Linked([t.nodes EXCEPT ![l] = LowerHalf(n, mid)], l, r),
                         UpperLeaf(n, mid, l))
        target == IF Compare(key, KeyAt(n, mid + 1)) >= 0 THEN r ELSE l
    IN  HalfInsert([t EXCEPT !.misplaced = @ \/ OrdersDiffer(key, KeyAt(n, mid + 1))],
                   halves, target, key, rid)

\* An insert into the leaf l that ended with "put".
LeafOutcome(t, l, put, key, rid) ==
    LET full == [t EXCEPT !.nodes[l] = put.node]
        n == put.node
        mid == Len(n.entries) \div 2
    IN  IF put.ok THEN Ok(full)
        ELSE IF ~CanAllocate(t) THEN Failed(full)
        ELSE InsertIntoParent(SplitLeaf(t, l, n, mid, key, rid),
                              l, KeyAt(n, mid + 1), Len(t.nodes) + 1)

InsertIntoLeaf(t, l, key, rid) ==
    LeafOutcome(t, l, LeafInsert(t.nodes[l], key, rid), key, rid)

\* It reports nothing if there is no page to be had.
StartNewTree(t, key, rid) ==
    IF CanAllocate(t)
    THEN [t EXCEPT !.nodes = Append(@, LeafInsert(FreshNode(TRUE, 0), key, rid).node),
                   !.root = Len(t.nodes) + 1,
                   !.height = 1]
    ELSE [t EXCEPT !.lost = @ \cup {<<key, rid>>}]

-----------------------------------------------------------------------------
(***************************************************************************)
(* Lookups.                                                                *)
(***************************************************************************)
\* find: the equal entries from slot i of leaf p on, through the next leaves.
RECURSIVE Collect(_, _, _, _)
Collect(t, p, i, key) ==
    IF p = NoPage THEN {}
    ELSE LET es == t.nodes[p].entries
             past == {j \in i .. Len(es) : es[j].key # key}
         IN  IF past # {} THEN {es[j].ref : j \in i .. Min(past) - 1}
             ELSE IF es = <<>> THEN {}
             ELSE {es[j].ref : j \in i .. Len(es)} \cup Collect(t, t.nodes[p].next, 1, key)

Find(t, key, stray) ==
    LET l == FindLeaf(t, key, stray)
        i == LowerBound(t.nodes[l], key)
    IN  IF l = NoPage \/ i > Len(t.nodes[l].entries) \/ t.nodes[l].entries[i].key # key
        THEN {} ELSE Collect(t, l, i, key)

\* Seeded fault: an exhausted leaf ends the iteration.
RECURSIVE LoadPageStops(_, _, _)
LoadPageStops(t, p, i) ==
    IF p = NoPage \/ i > Len(t.nodes[p].entries) THEN <<NoPage, 0>> ELSE <<p, i>>

\* BPlusTreeIterator::load_page: a position <<page, slot>> with an entry.
RECURSIVE LoadPage(_, _, _)
LoadPage(t, p, i) ==
    IF p = NoPage THEN <<NoPage, 0>>
    ELSE IF i > Len(t.nodes[p].entries) THEN LoadPage(t, t.nodes[p].next, 1)
    ELSE <<p, i>>

At(t, it) == t.nodes[it[1]].entries[it[2]]

IteratorNext(t, it) == LoadPage(t, it[1], it[2] + 1)

LowerBoundIterator(t, key, stray) ==
    LET l == FindLeaf(t, key, stray) IN LoadPage(t, l, LowerBound(t.nodes[l], key))

\* begin: down the first slots.
RECURSIVE Leftmost(_, _, _)
Leftmost(t, p, stray) ==
    IF p \notin DOMAIN t.nodes \/ t.nodes[p].leaf THEN p
    ELSE Leftmost(t, ChildAt(t.nodes[p], 1, stray), stray)

BeginIterator(t) == LoadPage(t, Leftmost(t, t.root, NoPage), 1)

RECURSIVE Skip(_, _, _)
Skip(t, it, key) ==
    IF it[1] # NoPage /\ Compare(ReadBack[At(t, it).key], key) <= 0
    THEN Skip(t, IteratorNext(t, it), key) ELSE it

UpperBoundIterator(t, key, stray) == Skip(t, LowerBoundIterator(t, key, stray), key)

-----------------------------------------------------------------------------
TreeInit ==
    /\ \E limit \in PageLimits :
        tree = [root |-> NoPage, height |-> 0, nodes |-> <<>>, limit |-> limit,
                lost |-> {}, misplaced |-> FALSE]
    /\ inserts = 0
    /\ stored = {}
    /\ unsure = {}
    /\ disordered = FALSE

Inserted == stored \cup unsure

\* insert, once find_leaf has returned l.
InsertAtLeaf(t, l, key, rid) ==
    IF t.root = NoPage THEN Ok(StartNewTree(t, key, rid))
    ELSE IF l = NoPage THEN Failed(t)
    ELSE InsertIntoLeaf(t, l, key, rid)

\* The record of the n-th insert is n.
TreeInsert(key, stray) ==
    LET rid == inserts + 1
        l == FindLeaf(tree, key, stray)
    IN  /\ rid <= MaxRecords
        /\ l # Hang
        /\ inserts' = rid
        /\ \E result \in {InsertAtLeaf(tree, l, key, rid)} :
            /\ tree' = result.tree
            /\ stored' = IF result.ok THEN stored \cup {<<key, rid>>} ELSE stored
            /\ unsure' = IF result.ok THEN unsure ELSE unsure \cup {<<key, rid>>}
            /\ disordered' = \/ disordered
                             \/ \E e \in Inserted : e[1] = key
                             \/ l # NoPage /\ ~result.ok
                             \/ tree.root # NoPage /\ FindLeaf(tree, key, NoPage) # l

\* remove: the first entry with the key and the record, in the leaf of the key.
TreeRemove(e, stray) ==
    LET l == FindLeaf(tree, e[1], stray)
        n == tree.nodes[l]
        from == LowerBound(n, e[1])
        run == {i \in from .. Len(n.entries) : \A j \in from .. i : n.entries[j].key = e[1]}
        hits == {i \in run : n.entries[i].ref = e[2]}
    IN  /\ l \notin {NoPage, Hang}
        /\ hits # {}
        /\ tree' = [tree EXCEPT !.nodes[l] =
                [n EXCEPT !.entries = RemoveAt(@, Min(hits)),
                          !.lower = @ - 1,
                          !.free = n.upper - (n.lower - 1)]]
        /\ stored' = stored \ {e}
        /\ unsure' = unsure \ {e}
        /\ UNCHANGED <<inserts, disordered>>

TreeNext ==
    \E stray \in StrayPages :
        \/ \E key \in Keys : TreeInsert(key, stray)
        \/ \E e \in Inserted : TreeRemove(e, stray)

TreeSpec == TreeInit /\ [][TreeNext]_treeVars

-----------------------------------------------------------------------------
Leaves == {p \in DOMAIN tree.nodes : tree.nodes[p].leaf}

\* The entries of the leaves from p on, along the links.
RECURSIVE EntriesFrom(_)
EntriesFrom(p) ==
    IF p = NoPage THEN <<>> ELSE tree.nodes[p].entries \o EntriesFrom(tree.nodes[p].next)

FirstLeaf == CHOOSE p \in Leaves : tree.nodes[p].prev = NoPage

Chain == IF Leaves = {} THEN <<>> ELSE EntriesFrom(FirstLeaf)

(***************************************************************************)
(* The leaves form one list, linked both ways, through every split and     *)
(* every allocation that fails half way.                                   *)
(***************************************************************************)
LinksPaired ==
    /\ Cardinality({p \in Leaves : tree.nodes[p].prev = NoPage}) = Min({1, Cardinality(Leaves)})
    /\ \A p, q \in Leaves : tree.nodes[p].next = q <=> tree.nodes[q].prev = p

(***************************************************************************)
(* Every insert that reported success has its entry in exactly one place   *)
(* of the list of leaves until it is removed, except where the code drops  *)
(* it without a report: no page for the first leaf, or no room in the half *)
(* of a split leaf.  Nothing else is in the list.                          *)
(***************************************************************************)
ChainHoldsAll ==
    LET chain == Chain
        pairs == {<<chain[i].key, chain[i].ref>> : i \in DOMAIN chain}
    IN  /\ Len(chain) = Cardinality(pairs)
        /\ stored \ tree.lost \subseteq pairs
        /\ pairs \subseteq Inserted

(***************************************************************************)
(* The child that an internal node names has that node as its parent, so   *)
(* that a split below climbs into the right node.                          *)
(***************************************************************************)
ParentNamesChild ==
    \A p \in DOMAIN tree.nodes \ Leaves : \A i \in DOMAIN tree.nodes[p].entries :
        tree.nodes[p].entries[i].ref # Stray =>
            tree.nodes[tree.nodes[p].entries[i].ref].parent = p

\* The keys in the leaves below page p, unwritten slots aside.
RECURSIVE KeysBelow(_)
KeysBelow(p) ==
    LET es == tree.nodes[p].entries
    IN  IF tree.nodes[p].leaf THEN {es[i].key : i \in DOMAIN es}
        ELSE UNION {KeysBelow(es[i].ref) : i \in {j \in DOMAIN es : es[j].ref # Stray}}

(***************************************************************************)
(* In an ordered tree no insert has repeated a key, failed half way or     *)
(* followed an unwritten slot, and no split has put a key into the half    *)
(* where the values want it and the bytes do not (bplus_tree.cpp:111 and   *)
(* :177): integers are serialised least significant byte first, so that    *)
(* 257 is searched for below 2 and put above it.                           *)
(***************************************************************************)
Ordered == ~disordered /\ ~tree.misplaced

(***************************************************************************)
(* The keys below a child of an ordered tree lie between the separators    *)
(* around it, in the order of the serialised bytes.                        *)
(***************************************************************************)
SeparatorsBound ==
    Ordered =>
        \A p \in DOMAIN tree.nodes \ Leaves :
            LET es == tree.nodes[p].entries
            IN  \A i \in DOMAIN es : es[i].ref # Stray =>
                    \A k \in KeysBelow(es[i].ref) :
                        /\ i > 1 => ByteOrder(es[i].key, k) <= 0
                        /\ i < Len(es) => ByteOrder(k, es[i + 1].key) < 0

(***************************************************************************)
(* The nodes fit together: the leaves are one list, parents and children   *)
(* name each other, and while the tree is ordered the separators bound the *)
(* keys below them, through the splits that insert_into_parent carries up  *)
(* to the root.                                                            *)
(***************************************************************************)
TreeWellFormed == LinksPaired /\ ParentNamesChild /\ SeparatorsBound

\* The iterator is at the first of these entries of the chain.
StartsAt(it, chain, entries) ==
    IF entries = {} THEN it[1] = NoPage
    ELSE it[1] # NoPage /\ At(tree, it) = chain[Min(entries)]

(***************************************************************************)
(* The iterators of an ordered tree start where the bytes say: begin,      *)
(* where it gets to a leaf, at the first entry of the whole index,         *)
(* lower_bound at the first entry whose serialised key is not less, and    *)
(* upper_bound at the first from there on whose value is greater,          *)
(* whichever leaf the search ends in, and also if removals have emptied    *)
(* that leaf and the ones behind it.  In the order of the values these are *)
(* the bounds only for keys on which the two orders agree.                 *)
(***************************************************************************)
BoundsExact ==
    Ordered /\ tree.root # NoPage =>
        LET chain == Chain
            NotLess(key) == {i \in DOMAIN chain : ByteOrder(chain[i].key, key) >= 0}
        IN  /\ Leftmost(tree, tree.root, NoPage) # NoPage =>
                StartsAt(BeginIterator(tree), chain, DOMAIN chain)
            /\ \A key \in Keys : FindLeaf(tree, key, NoPage) # NoPage =>
                /\ StartsAt(LowerBoundIterator(tree, key, NoPage), chain, NotLess(key))
                /\ StartsAt(UpperBoundIterator(tree, key, NoPage), chain,
                            {i \in NotLess(key) : Compare(chain[i].key, key) > 0})

(***************************************************************************)
(* Every entry whose insert reported success is found by its key.          *)
(***************************************************************************)
InsertedFound ==
    \A e \in stored : e[2] \in Find(tree, e[1], NoPage)
=============================================================================
