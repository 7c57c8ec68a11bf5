------------------------- MODULE DiskManagerProofs --------------------------
(***************************************************************************)
(* Proofs about DiskManager.  While the file is open, the header in it is  *)
(* one that a close has written, with a number that is not beyond the      *)
(* manager's, and only a close writes page 0; so whatever a crash leaves   *)
(* of the last write, the pages below the header's number are in the file. *)
(***************************************************************************)
EXTENDS DiskManager, FiniteSetTheorems, TLAPS

\* The file is open, or is being closed.
Session == dm.next # 0

\* The pages that are handed out or on the free list, and not forgotten.
Kept == (owned \cup {dm.free[i] : i \in 1 .. Len(dm.free)}) \ forgotten

DiskTypes ==
    /\ \E n \in Nat : DOMAIN file = 0 .. n - 1
    /\ pending.page \in Nat
    /\ dm \in [open : BOOLEAN, next : Nat, free : Seq(Nat \ {0})]
    /\ owned \subseteq Nat \ {0}
    /\ headers \subseteq Nat \ {0}

\* The free list names no page twice, and none that is owned.
FreeIsFree ==
    \A i \in 1 .. Len(dm.free) :
        /\ dm.free[i] \notin owned
        /\ \A j \in 1 .. Len(dm.free) : dm.free[i] = dm.free[j] => i = j

\* Page 0, in the file and on the way to it.
HeaderSound ==
    /\ 0 \in DOMAIN file /\ file[0].kind = "header" => file[0].next \in headers
    /\ Session =>
        /\ 0 \in DOMAIN file
        /\ file[0].kind = "header"
        /\ file[0].next <= dm.next
        /\ \A q \in DOMAIN file : file[q] # Short
        /\ pending.image # Short
    /\ dm.open => Session /\ (pending = NoWrite \/ pending.page # 0)
    /\ ~dm.open /\ Session =>
        /\ pending = [page |-> 0, image |-> Header(dm.next)]
        /\ dm.next \in headers
    /\ ~Session => pending = NoWrite /\ dm = ClosedManager

\* The pages that are kept have numbers below the next one, and images.
KeptSound ==
    /\ Session => \A p \in Kept : p < dm.next /\ p \in DOMAIN View
    /\ 0 \in DOMAIN file /\ file[0].kind = "header" =>
        \A p \in Kept : p < file[0].next => p \in DOMAIN file
    /\ ~dm.open /\ Session => \A p \in Kept : p \in DOMAIN file
    /\ ~Session => \A p \in Kept : ~(p >= NextIn(file[0]))
    /\ ~exists => owned = {} /\ ~Session

DiskInv ==
    DiskTypes /\ FreeIsFree /\ HeaderSound /\ KeptSound /\ OnlyForgottenTwice

-----------------------------------------------------------------------------
LEMMA SizeIs ==
    ASSUME NEW f, NEW n \in Nat, DOMAIN f = 0 .. n - 1
    PROVE  Size(f) = n
<1>1. Cardinality(0 .. n - 1) = n
    BY FS_Interval
<1> QED
    BY <1>1 DEF Size

\* A write leaves the other pages as they are, and the file without gaps.
LEMMA WrittenFacts ==
    ASSUME NEW f, NEW n \in Nat, DOMAIN f = 0 .. n - 1, NEW p \in Nat, NEW image
    PROVE  /\ \E m \in Nat : DOMAIN Written(f, p, image) = 0 .. m - 1
           /\ DOMAIN f \subseteq DOMAIN Written(f, p, image)
           /\ 0 \in DOMAIN Written(f, p, image)
           /\ p \in DOMAIN Written(f, p, image)
           /\ Written(f, p, image)[p] = image
           /\ \A q \in DOMAIN f : q # p => Written(f, p, image)[q] = f[q]
           /\ \A q \in DOMAIN Written(f, p, image) :
                q # p /\ q \notin DOMAIN f => Written(f, p, image)[q] = Hole
<1> DEFINE m == IF p < n THEN n ELSE p + 1
<1>1. m \in Nat /\ 0 .. p \cup 0 .. n - 1 = 0 .. m - 1
    OBVIOUS
<1> HIDE DEF m
<1>2. Written(f, p, image) =
        [q \in 0 .. m - 1 |-> IF q = p THEN image ELSE IF q \in DOMAIN f THEN f[q] ELSE Hole]
    BY <1>1 DEF Written
<1>3. 0 \in 0 .. m - 1 /\ p \in 0 .. m - 1 /\ 0 .. n - 1 \subseteq 0 .. m - 1
    BY <1>1
<1> QED
    BY <1>1, <1>2, <1>3

\* View, for any file and any last write.
ViewOf(f, w) == IF w = NoWrite THEN f ELSE Written(f, w.page, w.image)

LEMMA ViewIs == View = ViewOf(file, pending) /\ View' = ViewOf(file', pending')
    BY DEF View, ViewOf

LEMMA ViewFacts ==
    ASSUME NEW f, NEW n \in Nat, DOMAIN f = 0 .. n - 1, NEW w, w.page \in Nat
    PROVE  /\ \E m \in Nat : DOMAIN ViewOf(f, w) = 0 .. m - 1
           /\ DOMAIN f \subseteq DOMAIN ViewOf(f, w)
           /\ w # NoWrite => /\ w.page \in DOMAIN ViewOf(f, w)
                             /\ 0 \in DOMAIN ViewOf(f, w)
                             /\ ViewOf(f, w)[w.page] = w.image
           /\ \A q \in DOMAIN f : w = NoWrite \/ q # w.page => ViewOf(f, w)[q] = f[q]
           /\ \A q \in DOMAIN ViewOf(f, w) :
                \/ q \in DOMAIN f
                \/ w # NoWrite /\ q = w.page
                \/ ViewOf(f, w)[q] = Hole
<1>1. CASE w = NoWrite
    BY <1>1 DEF ViewOf
<1>2. CASE w # NoWrite
    <2>1. ViewOf(f, w) = Written(f, w.page, w.image)
        BY <1>2 DEF ViewOf
    <2> QED
        BY <1>2, <2>1, WrittenFacts
<1> QED
    BY <1>1, <1>2

\* The images differ in kind.
LEMMA Kinds ==
    /\ Hole # Short /\ Torn # Short /\ Empty # Short
    /\ \A n : Header(n) # Short /\ Header(n) # Hole
    /\ \A n : Header(n).kind = "header" /\ Header(n).next = n /\ NextIn(Header(n)) = n
    /\ \A b : Data(b) # Short
    /\ Hole.kind # "header" /\ Torn.kind # "header" /\ Short.kind # "header"
<1>1. /\ Hole.kind = "hole" /\ Torn.kind = "torn" /\ Short.kind = "short"
      /\ Empty.kind = "page"
    BY DEF Hole, Torn, Short, Empty
<1>2. \A n : Header(n).kind = "header" /\ Header(n).next = n
    BY DEF Header
<1>3. \A b : Data(b).kind = "page"
    BY DEF Data
<1>4. \A n : NextIn(Header(n)) = n
    BY <1>2 DEF NextIn
<1>5. /\ Hole # Short /\ Torn # Short /\ Empty # Short
      /\ Hole.kind # "header" /\ Torn.kind # "header" /\ Short.kind # "header"
    BY <1>1
<1>6. \A n : Header(n) # Short /\ Header(n) # Hole
    BY <1>1, <1>2
<1>7. \A b : Data(b) # Short
    BY <1>1, <1>3
<1> QED
    BY <1>2, <1>4, <1>5, <1>6, <1>7

\* While the file is open, what the stream shows has the header of the file.
LEMMA OpenView ==
    ASSUME DiskInv, dm.open
    PROVE  /\ \E n \in Nat : DOMAIN View = 0 .. n - 1
           /\ DOMAIN file \subseteq DOMAIN View
           /\ 0 \in DOMAIN View
           /\ View[0] = file[0]
           /\ file[0].kind = "header"
           /\ file[0].next \in headers
           /\ file[0].next <= dm.next
           /\ \A q \in DOMAIN View : View[q] # Short
           /\ Session
<1>1. Session /\ (pending = NoWrite \/ pending.page # 0)
    BY DEF DiskInv, HeaderSound
<1>2. /\ 0 \in DOMAIN file /\ file[0].kind = "header" /\ file[0].next <= dm.next
      /\ file[0].next \in headers
      /\ \A q \in DOMAIN file : file[q] # Short
      /\ pending.image # Short
    BY <1>1 DEF DiskInv, HeaderSound
<1>3. PICK n \in Nat : DOMAIN file = 0 .. n - 1
    BY DEF DiskInv, DiskTypes
<1>4. pending.page \in Nat
    BY DEF DiskInv, DiskTypes
<1>5. /\ \E m \in Nat : DOMAIN View = 0 .. m - 1
      /\ DOMAIN file \subseteq DOMAIN View
      /\ pending # NoWrite => View[pending.page] = pending.image
      /\ \A q \in DOMAIN file : pending = NoWrite \/ q # pending.page => View[q] = file[q]
      /\ \A q \in DOMAIN View :
            \/ q \in DOMAIN file
            \/ pending # NoWrite /\ q = pending.page
            \/ View[q] = Hole
    BY <1>3, <1>4, ViewFacts, ViewIs
<1>6. View[0] = file[0]
    BY <1>1, <1>2, <1>5
<1>7. \A q \in DOMAIN View : View[q] # Short
    BY <1>2, <1>5, Kinds
<1> QED
    BY <1>1, <1>2, <1>5, <1>6, <1>7

LEMMA DiskInitInv == DiskInit => DiskInv
<1> SUFFICES ASSUME DiskInit PROVE DiskInv
    OBVIOUS
<1>1. dm = ClosedManager /\ dm.next = 0 /\ dm.open = FALSE /\ dm.free = <<>> /\ Kept = {}
    BY DEF DiskInit, ClosedManager, Kept
<1>2. /\ file = IF exists THEN [q \in {0} |-> Header(1)] ELSE <<>>
      /\ pending = NoWrite /\ owned = {} /\ headers = {1} /\ twice = {}
    BY DEF DiskInit
<1>3. \E n \in Nat : DOMAIN file = 0 .. n - 1
    <2>1. CASE exists
        <3>1. DOMAIN file = 0 .. 1 - 1
            BY <1>2, <2>1
        <3> QED
            BY <3>1
    <2>2. CASE ~exists
        <3>1. DOMAIN file = 0 .. 0 - 1
            BY <1>2, <2>2
        <3> QED
            BY <3>1
    <2> QED
        BY <2>1, <2>2
<1>4. DiskTypes
    BY <1>1, <1>2, <1>3 DEF DiskTypes, NoWrite, ClosedManager
<1>5. FreeIsFree /\ OnlyForgottenTwice
    BY <1>1, <1>2 DEF FreeIsFree, OnlyForgottenTwice
<1>6. HeaderSound
    <2>1. 0 \in DOMAIN file => file[0] = Header(1)
        BY <1>2
    <2> QED
        BY <1>1, <1>2, <2>1, Kinds DEF HeaderSound, Session
<1>7. KeptSound
    BY <1>1, <1>2 DEF KeptSound, Session
<1> QED
    BY <1>4, <1>5, <1>6, <1>7 DEF DiskInv

\* A step of the open file that writes no header.
LEMMA StillOpen ==
    ASSUME DiskInv, dm.open, dm'.open, dm'.next \in Nat, dm.next <= dm'.next,
           UNCHANGED <<headers, exists, forgotten>>, pending'.page \in Nat,
           \/ UNCHANGED <<file, pending>>
           \/ /\ file' = View
              /\ pending' = NoWrite \/ (pending'.page # 0 /\ pending'.image # Short),
           \A p \in Kept' : \/ p \in Kept
                            \/ p = dm.next /\ p < dm'.next /\ p \in DOMAIN View'
    PROVE  (\E n \in Nat : DOMAIN file' = 0 .. n - 1) /\ HeaderSound' /\ KeptSound'
<1>1. /\ DOMAIN file \subseteq DOMAIN View
      /\ 0 \in DOMAIN View /\ View[0] = file[0]
      /\ file[0].kind = "header" /\ file[0].next \in headers /\ file[0].next <= dm.next
      /\ \A q \in DOMAIN View : View[q] # Short
      /\ Session
    BY OpenView
<1>2. dm.next \in Nat /\ dm.next # 0 /\ file[0].next \in Nat /\ Kept \subseteq Nat
    <2>1. dm.next \in Nat /\ headers \subseteq Nat /\ owned \subseteq Nat
          /\ dm.free \in Seq(Nat \ {0})
        BY DEF DiskInv, DiskTypes
    <2>2. \A i \in 1 .. Len(dm.free) : dm.free[i] \in Nat
        BY <2>1
    <2>3. Kept \subseteq Nat
        BY <2>1, <2>2, Zenon DEF Kept
    <2>4. file[0].next \in Nat
        BY <1>1, <2>1, Zenon
    <2> QED
        BY <1>1, <2>1, <2>3, <2>4 DEF Session
<1>3. /\ 0 \in DOMAIN file
      /\ \A q \in DOMAIN file : file[q] # Short
      /\ pending.image # Short
      /\ pending = NoWrite \/ pending.page # 0
    BY <1>1 DEF DiskInv, HeaderSound
<1>4. \E n \in Nat : DOMAIN file' = 0 .. n - 1
    BY OpenView DEF DiskInv, DiskTypes
<1>5. /\ DOMAIN file \subseteq DOMAIN file' /\ 0 \in DOMAIN file'
      /\ file'[0] = file[0]
      /\ \A q \in DOMAIN file' : file'[q] # Short
    BY <1>1, <1>3
<1>6. DOMAIN View \subseteq DOMAIN View'
    <2>1. CASE UNCHANGED <<file, pending>>
        BY <2>1 DEF View
    <2>2. CASE file' = View
        <3>1. PICK n \in Nat : DOMAIN file' = 0 .. n - 1
            BY <1>4
        <3>2. DOMAIN file' \subseteq DOMAIN ViewOf(file', pending')
            BY <3>1, ViewFacts
        <3> QED
            BY <2>2, <3>2, ViewIs
    <2> QED
        BY <2>1, <2>2
<1>7. Session' /\ dm'.next # 0
    BY <1>2 DEF Session
<1>8. HeaderSound'
    <2>1. pending'.image # Short
        BY <1>3, Kinds DEF NoWrite
    <2> QED
        BY <1>1, <1>2, <1>3, <1>5, <1>7, <2>1 DEF HeaderSound
<1>9. KeptSound'
    <2>1. \A p \in Kept : p < dm.next /\ p \in DOMAIN View
        BY <1>1 DEF DiskInv, KeptSound
    <2>2. \A p \in Kept : p < file[0].next => p \in DOMAIN file
        BY <1>1, <1>3 DEF DiskInv, KeptSound
    <2>3. ASSUME NEW p \in Kept'
          PROVE  /\ p < dm'.next /\ p \in DOMAIN View'
                 /\ p < file'[0].next => p \in DOMAIN file'
        <3>1. CASE p \in Kept
            <4>1. p \in Nat /\ p < dm.next /\ p \in DOMAIN View
                BY <1>2, <2>1, <3>1, Zenon
            <4>2. p < dm'.next
                BY <1>2, <4>1
            <4>3. p < file'[0].next => p \in DOMAIN file'
                BY <1>5, <2>2, <3>1
            <4> QED
                BY <1>6, <4>1, <4>2, <4>3
        <3>2. CASE p = dm.next /\ p < dm'.next /\ p \in DOMAIN View'
            BY <1>1, <1>2, <1>5, <3>2
        <3> QED
            BY <3>1, <3>2
    <2>5. exists'
        BY <1>1 DEF DiskInv, KeptSound
    <2> QED
        BY <1>7, <2>3, <2>5 DEF KeptSound
<1> QED
    BY <1>4, <1>8, <1>9

-----------------------------------------------------------------------------
LEMMA DmTypes ==
    ASSUME DiskInv
    PROVE  /\ dm.open \in BOOLEAN /\ dm.next \in Nat /\ dm.free \in Seq(Nat \ {0})
           /\ pending.page \in Nat /\ owned \subseteq Nat \ {0} /\ headers \subseteq Nat \ {0}
           /\ dm.open => dm.next # 0
    BY DEF DiskInv, DiskTypes, HeaderSound, Session

LEMMA WritePageInv ==
    ASSUME DiskInv, NEW p \in owned, NEW body, DiskWritePage(p, body)
    PROVE  DiskInv'
<1>1. /\ dm.open /\ file' = View /\ pending' = [page |-> p, image |-> Data(body)]
      /\ UNCHANGED <<exists, dm, sessions, owned, forgotten, twice, headers>>
    BY DEF DiskWritePage, FileWrite
<1>2. p \in Nat /\ p # 0 /\ dm.next \in Nat
    BY DmTypes
<1>3. pending'.page = p /\ pending'.image # Short
    BY <1>1, Kinds
<1>4. Kept' = Kept
    BY <1>1 DEF Kept
<1>5. (\E n \in Nat : DOMAIN file' = 0 .. n - 1) /\ HeaderSound' /\ KeptSound'
    BY <1>1, <1>2, <1>3, <1>4, StillOpen
<1>6. DiskTypes'
    BY <1>1, <1>2, <1>3, <1>5 DEF DiskInv, DiskTypes
<1>7. FreeIsFree' /\ OnlyForgottenTwice'
    BY <1>1 DEF DiskInv, FreeIsFree, OnlyForgottenTwice
<1> QED
    BY <1>5, <1>6, <1>7 DEF DiskInv

LEMMA DiskFlushInv ==
    ASSUME DiskInv, DiskFlush
    PROVE  DiskInv'
<1>1. /\ dm.open /\ file' = View /\ pending' = NoWrite
      /\ UNCHANGED <<exists, dm, sessions, owned, forgotten, twice, headers>>
    BY DEF DiskFlush, FileFlush
<1>2. pending'.page = 0 /\ dm.next \in Nat
    BY <1>1, DmTypes DEF NoWrite
<1>3. Kept' = Kept
    BY <1>1 DEF Kept
<1>4. (\E n \in Nat : DOMAIN file' = 0 .. n - 1) /\ HeaderSound' /\ KeptSound'
    BY <1>1, <1>2, <1>3, StillOpen
<1>5. DiskTypes'
    BY <1>1, <1>2, <1>4 DEF DiskInv, DiskTypes
<1>6. FreeIsFree' /\ OnlyForgottenTwice'
    BY <1>1 DEF DiskInv, FreeIsFree, OnlyForgottenTwice
<1> QED
    BY <1>4, <1>5, <1>6 DEF DiskInv

\* The page from the free list was not owned, and is no longer on the list.
LEMMA AllocateFreedInv ==
    ASSUME DiskInv, AllocateFreed
    PROVE  DiskInv'
<1> DEFINE last == Len(dm.free)
           p == dm.free[last]
<1>1. /\ dm.open /\ dm.free # <<>> /\ dm' = [dm EXCEPT !.free = SubSeq(@, 1, Len(@) - 1)]
      /\ owned' = owned \cup {p}
      /\ twice' = IF p \in owned THEN twice \cup {p} ELSE twice
      /\ UNCHANGED <<exists, file, pending, sessions, forgotten, headers>>
    BY DEF AllocateFreed, HandOut
<1>2. /\ dm.next \in Nat /\ dm.free \in Seq(Nat \ {0}) /\ pending.page \in Nat
      /\ owned \subseteq Nat \ {0}
    BY DmTypes
<1>3. last \in Nat /\ last # 0 /\ p \in Nat \ {0}
    BY <1>1, <1>2
<1>4. dm \in [open : BOOLEAN, next : Nat, free : Seq(Nat \ {0})]
    BY DEF DiskInv, DiskTypes
<1>5. /\ dm'.open = dm.open /\ dm'.next = dm.next /\ dm'.free = SubSeq(dm.free, 1, Len(dm.free) - 1)
    BY <1>1, <1>4, Zenon
<1>6. /\ dm'.free \in Seq(Nat \ {0}) /\ Len(dm'.free) = last - 1
      /\ \A i \in 1 .. Len(dm'.free) : dm'.free[i] = dm.free[i] /\ i \in 1 .. last /\ i # last
    BY <1>2, <1>3, <1>5
<1>7. Kept' \subseteq Kept
    <2> SUFFICES ASSUME NEW q \in Kept'
                 PROVE  q \in Kept
        OBVIOUS
    <2>1. last \in 1 .. last
        BY <1>3
    <2>2. /\ q \notin forgotten
          /\ q \in owned \/ q = p \/ \E i \in 1 .. Len(dm'.free) : q = dm'.free[i]
        BY <1>1 DEF Kept
    <2>3. q \in owned \/ \E i \in 1 .. last : q = dm.free[i]
        BY <1>6, <2>1, <2>2, Zenon
    <2> QED
        BY <2>2, <2>3 DEF Kept
<1>8. (\E n \in Nat : DOMAIN file' = 0 .. n - 1) /\ HeaderSound' /\ KeptSound'
    BY <1>1, <1>2, <1>5, <1>7, StillOpen
<1>9. DiskTypes'
    <2>1. dm' \in [open : BOOLEAN, next : Nat, free : Seq(Nat \ {0})]
        BY <1>1, <1>4, <1>5, <1>6, Zenon
    <2> QED
        BY <1>1, <1>2, <1>3, <1>8, <2>1 DEF DiskInv, DiskTypes
<1>10. p \notin owned
    BY <1>3 DEF DiskInv, FreeIsFree
<1>11. FreeIsFree'
    <2>1. ASSUME NEW i \in 1 .. Len(dm'.free)
          PROVE  dm'.free[i] \notin owned'
        <3>1. i \in 1 .. last /\ i # last /\ dm'.free[i] = dm.free[i]
            BY <1>6, <2>1, Zenon
        <3>2. last \in 1 .. last
            BY <1>3
        <3>3. dm.free[i] \notin owned /\ dm.free[i] # p
            BY <3>1, <3>2 DEF DiskInv, FreeIsFree
        <3> QED
            BY <1>1, <3>1, <3>3
    <2>2. ASSUME NEW i \in 1 .. Len(dm'.free), NEW j \in 1 .. Len(dm'.free),
                 dm'.free[i] = dm'.free[j]
          PROVE  i = j
        BY <1>6, <2>2 DEF DiskInv, FreeIsFree
    <2> QED
        BY <2>1, <2>2 DEF FreeIsFree
<1>12. OnlyForgottenTwice'
    BY <1>1, <1>10 DEF DiskInv, OnlyForgottenTwice
<1> QED
    BY <1>8, <1>9, <1>11, <1>12 DEF DiskInv

LEMMA DeallocateInv ==
    ASSUME DiskInv, NEW p \in PageNumbers, DiskDeallocate(p)
    PROVE  DiskInv'
<1> DEFINE last == Len(dm.free)
<1>1. /\ dm.open /\ dm' = [dm EXCEPT !.free = Append(@, p)]
      /\ owned' = owned \ {p}
      /\ p \in owned
      /\ \A i \in 1 .. last : dm.free[i] # p
      /\ UNCHANGED <<exists, file, pending, sessions, forgotten, twice, headers>>
    BY DEF DiskDeallocate, Releases, IsFree
<1>2. /\ dm.next \in Nat /\ dm.free \in Seq(Nat \ {0}) /\ pending.page \in Nat
      /\ owned \subseteq Nat \ {0}
    BY DmTypes
<1>3. last \in Nat /\ p \in Nat \ {0}
    BY <1>1, <1>2
<1>4. dm \in [open : BOOLEAN, next : Nat, free : Seq(Nat \ {0})]
    BY DEF DiskInv, DiskTypes
<1>5. /\ dm'.open = dm.open /\ dm'.next = dm.next /\ dm'.free = Append(dm.free, p)
    BY <1>1, <1>4, Zenon
<1>6. /\ dm'.free \in Seq(Nat \ {0}) /\ Len(dm'.free) = last + 1
      /\ dm'.free[last + 1] = p
      /\ \A i \in 1 .. last : dm'.free[i] = dm.free[i]
    BY <1>2, <1>3, <1>5
<1>7. \A i \in 1 .. Len(dm'.free) : i \in 1 .. last \/ i = last + 1
    BY <1>3, <1>6
<1>8. Kept' \subseteq Kept
    BY <1>1, <1>6, <1>7 DEF Kept
<1>9. (\E n \in Nat : DOMAIN file' = 0 .. n - 1) /\ HeaderSound' /\ KeptSound'
    BY <1>1, <1>2, <1>5, <1>8, StillOpen
<1>10. DiskTypes'
    <2>1. dm' \in [open : BOOLEAN, next : Nat, free : Seq(Nat \ {0})]
        BY <1>1, <1>4, <1>5, <1>6, Zenon
    <2> QED
        BY <1>1, <1>2, <1>9, <2>1 DEF DiskInv, DiskTypes
<1>11. FreeIsFree'
    <2>1. ASSUME NEW i \in 1 .. Len(dm'.free)
          PROVE  dm'.free[i] \notin owned'
        BY <1>1, <1>6, <1>7, <2>1 DEF DiskInv, FreeIsFree
    <2>2. ASSUME NEW i \in 1 .. Len(dm'.free), NEW j \in 1 .. Len(dm'.free),
                 dm'.free[i] = dm'.free[j]
          PROVE  i = j
        BY <1>1, <1>6, <1>7, <2>2 DEF DiskInv, FreeIsFree
    <2> QED
        BY <2>1, <2>2 DEF FreeIsFree
<1>12. OnlyForgottenTwice'
    BY <1>1 DEF DiskInv, OnlyForgottenTwice
<1> QED
    BY <1>9, <1>10, <1>11, <1>12 DEF DiskInv

\* A new page is behind every page that is kept.
LEMMA AllocateNewInv ==
    ASSUME DiskInv, AllocateNew
    PROVE  DiskInv'
<1> DEFINE p == dm.next
<1>1. /\ dm.open /\ dm.free = <<>> /\ dm' = [dm EXCEPT !.next = @ + 1]
      /\ file' = View /\ pending' = [page |-> p, image |-> Empty]
      /\ owned' = owned \cup {p}
      /\ twice' = IF p \in owned THEN twice \cup {p} ELSE twice
      /\ UNCHANGED <<exists, sessions, forgotten, headers>>
    BY DEF AllocateNew, FileWrite, HandOut
<1>2. p \in Nat /\ p # 0 /\ owned \subseteq Nat \ {0}
    BY <1>1, DmTypes
<1>3. dm \in [open : BOOLEAN, next : Nat, free : Seq(Nat \ {0})]
    BY DEF DiskInv, DiskTypes
<1>4. dm'.open = dm.open /\ dm'.next = p + 1 /\ dm'.free = <<>>
    BY <1>1, <1>3, Zenon
<1>5. pending'.page = p /\ pending'.image # Short /\ pending' # NoWrite
    BY <1>1, <1>2, Kinds DEF NoWrite
<1>6. Kept = owned \ forgotten /\ Kept' = (owned \cup {p}) \ forgotten
    BY <1>1, <1>4 DEF Kept
<1>7. p \in DOMAIN View'
    <2>1. PICK n \in Nat : DOMAIN file' = 0 .. n - 1
        BY <1>1, OpenView
    <2>2. pending'.page \in DOMAIN ViewOf(file', pending')
        BY <1>2, <1>5, <2>1, ViewFacts
    <2> QED
        BY <1>5, <2>2, ViewIs
<1>8. \A q \in Kept' : q \in Kept \/ (q = dm.next /\ q < dm'.next /\ q \in DOMAIN View')
    BY <1>2, <1>4, <1>6, <1>7
<1>9. (\E n \in Nat : DOMAIN file' = 0 .. n - 1) /\ HeaderSound' /\ KeptSound'
    <2>1. dm'.open /\ dm'.next \in Nat /\ dm.next <= dm'.next /\ pending'.page \in Nat
        BY <1>1, <1>2, <1>4, <1>5
    <2>2. file' = View /\ pending'.page # 0 /\ pending'.image # Short
        BY <1>1, <1>2, <1>5
    <2> HIDE DEF p
    <2> QED
        BY <1>1, <1>8, <2>1, <2>2, StillOpen
<1>10. DiskTypes'
    <2>1. dm' \in [open : BOOLEAN, next : Nat, free : Seq(Nat \ {0})]
        BY <1>1, <1>2, <1>3
    <2> QED
        BY <1>1, <1>2, <1>5, <1>9, <2>1 DEF DiskInv, DiskTypes
<1>11. FreeIsFree'
    BY <1>4 DEF FreeIsFree
<1>12. p \in owned => p \in forgotten
    <2>1. \A q \in Kept : q < dm.next
        BY <1>1 DEF DiskInv, KeptSound, HeaderSound
    <2> QED
        BY <1>2, <1>6, <2>1
<1>13. OnlyForgottenTwice'
    BY <1>1, <1>12 DEF DiskInv, OnlyForgottenTwice
<1> QED
    BY <1>9, <1>10, <1>11, <1>13 DEF DiskInv

LEMMA AllocateFailsInv ==
    ASSUME DiskInv, AllocateFails
    PROVE  DiskInv'
<1>1. /\ dm.open /\ dm.free = <<>> /\ dm' = [dm EXCEPT !.next = @ + 1]
      /\ UNCHANGED <<exists, file, pending, sessions, owned, forgotten, twice, headers>>
    BY DEF AllocateFails
<1>2. dm.next \in Nat /\ pending.page \in Nat
    BY DmTypes
<1>3. dm \in [open : BOOLEAN, next : Nat, free : Seq(Nat \ {0})]
    BY DEF DiskInv, DiskTypes
<1>4. dm'.open = dm.open /\ dm'.next = dm.next + 1 /\ dm'.free = dm.free
    BY <1>1, <1>3, Zenon
<1>5. Kept' = Kept
    BY <1>1, <1>4 DEF Kept
<1>6. (\E n \in Nat : DOMAIN file' = 0 .. n - 1) /\ HeaderSound' /\ KeptSound'
    BY <1>1, <1>2, <1>4, <1>5, StillOpen
<1>7. DiskTypes'
    <2>1. dm' \in [open : BOOLEAN, next : Nat, free : Seq(Nat \ {0})]
        BY <1>1, <1>2, <1>3
    <2> QED
        BY <1>1, <1>6, <2>1 DEF DiskInv, DiskTypes
<1>8. FreeIsFree' /\ OnlyForgottenTwice'
    BY <1>1, <1>4 DEF DiskInv, FreeIsFree, OnlyForgottenTwice
<1> QED
    BY <1>6, <1>7, <1>8 DEF DiskInv

-----------------------------------------------------------------------------
LEMMA ClosedFacts ==
    /\ ClosedManager.open = FALSE /\ ClosedManager.next = 0 /\ ClosedManager.free = <<>>
    /\ ClosedManager \in [open : BOOLEAN, next : Nat, free : Seq(Nat \ {0})]
    /\ NoWrite.page = 0 /\ NoWrite.image = Hole
    BY DEF ClosedManager, NoWrite

LEMMA DiskCreateInv ==
    ASSUME DiskInv, DiskCreate
    PROVE  DiskInv'
<1>1. /\ dm.next = 0 /\ ~exists /\ exists' /\ file' = <<>>
      /\ UNCHANGED <<pending, dm, sessions, owned, forgotten, twice, headers>>
    BY DEF DiskCreate
<1>2. dm = ClosedManager /\ pending = NoWrite /\ owned = {}
    BY <1>1 DEF DiskInv, HeaderSound, KeptSound, Session
<1>3. Kept' = {}
    BY <1>1, <1>2, ClosedFacts DEF Kept
<1>4. DOMAIN file' = 0 .. 0 - 1
    BY <1>1
<1>5. DiskTypes'
    BY <1>1, <1>4 DEF DiskInv, DiskTypes
<1>6. FreeIsFree' /\ OnlyForgottenTwice'
    BY <1>1 DEF DiskInv, FreeIsFree, OnlyForgottenTwice
<1>7. HeaderSound' /\ KeptSound'
    BY <1>1, <1>2, <1>3, <1>4, ClosedFacts DEF HeaderSound, KeptSound, Session
<1> QED
    BY <1>5, <1>6, <1>7 DEF DiskInv

\* A header is believed: what is known of the file becomes true of the session.
LEMMA OpenFacts ==
    ASSUME DiskInv, DiskOpen
    PROVE  /\ 0 \in DOMAIN file /\ file[0].kind = "header"
           /\ file[0].next \in headers /\ file[0].next \in Nat \ {0}
           /\ NextIn(file[0]) = file[0].next
           /\ dm = ClosedManager /\ pending = NoWrite /\ ~Session
           /\ \A q \in DOMAIN file : file[q] # Short
<1>1. dm.next = 0 /\ Loads(file)
    BY DEF DiskOpen
<1>2. dm = ClosedManager /\ pending = NoWrite /\ ~Session
    BY <1>1 DEF DiskInv, HeaderSound, Session
<1>3. PICK n \in Nat : DOMAIN file = 0 .. n - 1
    BY DEF DiskInv, DiskTypes
<1>4. n > 0 /\ file[0].kind = "header" /\ \A q \in DOMAIN file : file[q] # Short
    BY <1>1, <1>3, SizeIs DEF Loads
<1>5. 0 \in DOMAIN file
    BY <1>3, <1>4
<1>6. file[0].next \in headers
    BY <1>4, <1>5 DEF DiskInv, HeaderSound
<1> QED
    BY <1>2, <1>4, <1>5, <1>6, DmTypes DEF NextIn

LEMMA DiskOpenInv ==
    ASSUME DiskInv, DiskOpen
    PROVE  DiskInv'
<1> DEFINE n == file[0].next
<1>1. /\ 0 \in DOMAIN file /\ file[0].kind = "header"
      /\ n \in headers /\ n \in Nat \ {0} /\ NextIn(file[0]) = n
      /\ dm = ClosedManager /\ pending = NoWrite /\ ~Session
      /\ \A q \in DOMAIN file : file[q] # Short
    BY OpenFacts
<1>2. /\ dm' = [open |-> TRUE, next |-> n, free |-> <<>>]
      /\ exists
      /\ UNCHANGED <<exists, file, pending, owned, forgotten, twice, headers>>
    BY <1>1 DEF DiskOpen
<1>3. dm'.open /\ dm'.next = n /\ dm'.free = <<>> /\ Session'
    BY <1>1, <1>2 DEF Session
<1>4. Kept' = owned \ forgotten /\ Kept' \subseteq Kept /\ Kept' \subseteq Nat
    BY <1>2, <1>3, DmTypes DEF Kept
<1>5. DiskTypes'
    BY <1>1, <1>2 DEF DiskInv, DiskTypes
<1>6. FreeIsFree' /\ OnlyForgottenTwice'
    BY <1>2, <1>3 DEF DiskInv, FreeIsFree, OnlyForgottenTwice
<1>7. HeaderSound'
    <2>1. pending'.image # Short /\ pending' = NoWrite
        BY <1>1, <1>2, ClosedFacts, Kinds
    <2> QED
        BY <1>1, <1>2, <1>3, <2>1 DEF HeaderSound
<1>8. KeptSound'
    <2>1. \A p \in Kept : ~(p >= n) /\ (p < n => p \in DOMAIN file)
        BY <1>1 DEF DiskInv, KeptSound
    <2>2. \A p \in Kept' : p < n /\ p \in DOMAIN file
        BY <1>1, <1>4, <2>1
    <2>3. DOMAIN View' = DOMAIN file
        BY <1>1, <1>2 DEF View
    <2> QED
        BY <1>2, <1>3, <2>2, <2>3 DEF KeptSound
<1> QED
    BY <1>5, <1>6, <1>7, <1>8 DEF DiskInv

\* The header that close writes names no page that is missing in the file.
LEMMA CloseBeginsInv ==
    ASSUME DiskInv, DiskCloseBegins
    PROVE  DiskInv'
<1>1. /\ dm.open /\ dm' = [dm EXCEPT !.open = FALSE, !.free = <<>>]
      /\ file' = View /\ pending' = [page |-> 0, image |-> Header(dm.next)]
      /\ headers' = headers \cup {dm.next}
      /\ UNCHANGED <<exists, sessions, owned, forgotten, twice>>
    BY DEF DiskCloseBegins, CloseHeader, FileWrite
<1>2. /\ \E n \in Nat : DOMAIN View = 0 .. n - 1
      /\ 0 \in DOMAIN View /\ View[0] = file[0]
      /\ file[0].kind = "header" /\ file[0].next \in headers /\ file[0].next <= dm.next
      /\ \A q \in DOMAIN View : View[q] # Short
      /\ Session
    BY <1>1, OpenView
<1>3. dm \in [open : BOOLEAN, next : Nat, free : Seq(Nat \ {0})]
    BY DEF DiskInv, DiskTypes
<1>4. dm'.open = FALSE /\ dm'.next = dm.next /\ dm'.free = <<>>
      /\ dm' \in [open : BOOLEAN, next : Nat, free : Seq(Nat \ {0})]
    <2>1. dm = [open |-> dm.open, next |-> dm.next, free |-> dm.free] /\ dm.next \in Nat
        BY <1>3
    <2>2. dm' = [open |-> FALSE, next |-> dm.next, free |-> <<>>]
        BY <1>1, <2>1, Zenon
    <2>3. <<>> \in Seq(Nat \ {0})
        OBVIOUS
    <2> QED
        BY <2>1, <2>2, <2>3
<1>5. Kept' = owned \ forgotten /\ Kept' \subseteq Kept /\ Session'
    BY <1>1, <1>2, <1>4 DEF Kept, Session
<1>6. pending'.page = 0 /\ pending'.image = Header(dm.next) /\ pending'.image # Short
      /\ pending' # NoWrite
    BY <1>1, Kinds DEF NoWrite
<1>7. DiskTypes'
    BY <1>1, <1>2, <1>4, <1>6, DmTypes DEF DiskInv, DiskTypes
<1>8. FreeIsFree' /\ OnlyForgottenTwice'
    BY <1>1, <1>4 DEF DiskInv, FreeIsFree, OnlyForgottenTwice
<1>9. HeaderSound'
    BY <1>1, <1>2, <1>4, <1>5, <1>6 DEF HeaderSound
<1>10. KeptSound'
    <2>1. exists /\ \A p \in Kept : p < dm.next /\ p \in DOMAIN View
        BY <1>2 DEF DiskInv, KeptSound
    <2>2. DOMAIN file' \subseteq DOMAIN View'
        <3>1. PICK n \in Nat : DOMAIN file' = 0 .. n - 1
            BY <1>1, <1>2
        <3>2. DOMAIN file' \subseteq DOMAIN ViewOf(file', pending')
            BY <1>6, <3>1, ViewFacts
        <3> QED
            BY <3>2, ViewIs
    <2> QED
        BY <1>1, <1>4, <1>5, <2>1, <2>2 DEF KeptSound
<1> QED
    BY <1>7, <1>8, <1>9, <1>10 DEF DiskInv

\* What a session may leave behind: the file, with the last write whole,
\* torn, cut short or missing.
Leaves(f) ==
    \/ f = file
    \/ /\ pending # NoWrite
       /\ \E image \in {pending.image, Torn, Short} :
            f = Written(file, pending.page, image)

LEMMA LeftBehind ==
    ASSUME DiskInv, Session, NEW f, Leaves(f)
    PROVE  /\ \E n \in Nat : DOMAIN f = 0 .. n - 1
           /\ 0 \in DOMAIN f /\ f[0].kind = "header" =>
                f[0].next \in headers /\ \A p \in Kept : p < f[0].next => p \in DOMAIN f
<1>1. PICK n \in Nat : DOMAIN file = 0 .. n - 1
    BY DEF DiskInv, DiskTypes
<1>2. /\ 0 \in DOMAIN file /\ file[0].kind = "header" /\ file[0].next \in headers
      /\ \A p \in Kept : p < file[0].next => p \in DOMAIN file
    BY DEF DiskInv, HeaderSound, KeptSound
<1>3. CASE f = file
    BY <1>1, <1>2, <1>3
<1>4. CASE f # file
    <2>1. pending # NoWrite /\ \E image \in {pending.image, Torn, Short} :
                f = Written(file, pending.page, image)
        BY <1>4 DEF Leaves
    <2>2. PICK image \in {pending.image, Torn, Short} : f = Written(file, pending.page, image)
        BY <2>1
    <2>3. pending.page \in Nat
        BY DmTypes
    <2>4. /\ \E m \in Nat : DOMAIN f = 0 .. m - 1
          /\ DOMAIN file \subseteq DOMAIN f
          /\ f[pending.page] = image
          /\ \A q \in DOMAIN file : q # pending.page => f[q] = file[q]
        BY <1>1, <2>2, <2>3, WrittenFacts
    <2>5. CASE pending.page # 0
        <3>1. f[0] = file[0]
            BY <1>2, <2>4, <2>5
        <3> QED
            BY <1>2, <2>4, <3>1
    <2>6. CASE pending.page = 0
        <3>1. /\ pending.image = Header(dm.next) /\ dm.next \in headers
              /\ \A p \in Kept : p \in DOMAIN file
            <4>1. ~dm.open
                BY <2>1, <2>6 DEF DiskInv, HeaderSound
            <4>2. pending = [page |-> 0, image |-> Header(dm.next)] /\ dm.next \in headers
                BY <4>1 DEF DiskInv, HeaderSound
            <4>3. \A p \in Kept : p \in DOMAIN file
                BY <4>1 DEF DiskInv, KeptSound
            <4> QED
                BY <4>2, <4>3
        <3>2. f[0].kind = "header" => f[0].next = dm.next
            <4>1. f[0] \in {Header(dm.next), Torn, Short}
                BY <2>2, <2>4, <2>6, <3>1
            <4> QED
                BY <4>1, Kinds
        <3> QED
            BY <2>4, <3>1, <3>2
    <2> QED
        BY <2>5, <2>6
<1> QED
    BY <1>3, <1>4

\* The end of a session: the manager's memory is gone.
LEMMA SessionEnds ==
    ASSUME DiskInv, Session, Leaves(file'), pending' = NoWrite, dm' = ClosedManager,
           Forget, UNCHANGED <<exists, owned, twice, headers>>
    PROVE  DiskInv'
<1>1. /\ \E n \in Nat : DOMAIN file' = 0 .. n - 1
      /\ 0 \in DOMAIN file' /\ file'[0].kind = "header" =>
            /\ file'[0].next \in headers
            /\ \A p \in Kept : p < file'[0].next => p \in DOMAIN file'
    BY LeftBehind
<1>2. dm'.open = FALSE /\ dm'.next = 0 /\ dm'.free = <<>> /\ ~Session' /\ pending'.page = 0
      /\ dm' \in [open : BOOLEAN, next : Nat, free : Seq(Nat \ {0})]
    BY ClosedFacts DEF Session
<1>3. /\ forgotten \subseteq forgotten'
      /\ \A p \in owned \ forgotten' : ~(p >= NextIn(file'[0]))
    BY DEF Forget
<1>4. Kept' = owned \ forgotten' /\ Kept' \subseteq Kept
    BY <1>2, <1>3 DEF Kept
<1>5. DiskTypes'
    BY <1>1, <1>2 DEF DiskInv, DiskTypes
<1>6. FreeIsFree' /\ OnlyForgottenTwice'
    BY <1>2, <1>3 DEF DiskInv, FreeIsFree, OnlyForgottenTwice
<1>7. HeaderSound'
    BY <1>1, <1>2 DEF HeaderSound
<1>8. KeptSound'
    <2>1. exists
        BY DEF DiskInv, KeptSound
    <2> QED
        BY <1>1, <1>2, <1>3, <1>4, <2>1 DEF KeptSound
<1> QED
    BY <1>5, <1>6, <1>7, <1>8 DEF DiskInv

\* What the stream shows is one of the things a session may leave.
LEMMA ViewLeaves == Leaves(View)
    BY DEF View, Leaves

LEMMA CloseEndsInv ==
    ASSUME DiskInv, DiskCloseEnds \/ DiskCloseFails
    PROVE  DiskInv'
<1>1. /\ Session /\ file' = View /\ pending' = NoWrite /\ dm' = ClosedManager
      /\ Forget /\ UNCHANGED <<exists, owned, twice, headers>>
    BY DmTypes DEF DiskCloseEnds, DiskCloseFails, FileFlush, Session
<1> QED
    BY <1>1, ViewLeaves, SessionEnds

LEMMA CrashInv ==
    ASSUME DiskInv, DiskCrash
    PROVE  DiskInv'
<1>1. /\ Session /\ file' \in Survivors /\ pending' = NoWrite /\ dm' = ClosedManager
      /\ Forget /\ UNCHANGED <<exists, owned, twice, headers>>
    BY DEF DiskCrash, Session
<1>2. Leaves(file')
    BY <1>1, ViewLeaves DEF Survivors, Leaves
<1> QED
    BY <1>1, <1>2, SessionEnds

LEMMA DiskNextInv == DiskInv /\ [DiskNext]_diskVars => DiskInv'
<1> SUFFICES ASSUME DiskInv, [DiskNext]_diskVars
             PROVE  DiskInv'
    OBVIOUS
<1>1. CASE DiskCreate
    BY <1>1, DiskCreateInv
<1>2. CASE DiskOpen
    BY <1>2, DiskOpenInv
<1>3. CASE DiskCloseBegins
    BY <1>3, CloseBeginsInv
<1>4. CASE DiskCloseEnds \/ DiskCloseFails
    BY <1>4, CloseEndsInv
<1>5. CASE \E p \in owned, body \in Bodies : DiskWritePage(p, body)
    BY <1>5, WritePageInv
<1>6. CASE DiskFlush
    BY <1>6, DiskFlushInv
<1>7. CASE AllocateFreed
    BY <1>7, AllocateFreedInv
<1>8. CASE AllocateNew
    BY <1>8, AllocateNewInv
<1>9. CASE AllocateFails
    BY <1>9, AllocateFailsInv
<1>10. CASE \E p \in PageNumbers : DiskDeallocate(p)
    BY <1>10, DeallocateInv DEF PageNumbers
<1>11. CASE DiskCrash
    BY <1>11, CrashInv
<1>12. CASE UNCHANGED diskVars
    <2>1. UNCHANGED <<exists, file, pending, dm, owned, forgotten, twice, headers>>
        BY <1>12 DEF diskVars
    <2>2. UNCHANGED <<Kept, View, Session>>
        BY <2>1 DEF Kept, View, Session
    <2>3. DiskTypes' /\ FreeIsFree' /\ OnlyForgottenTwice'
        BY <2>1, Zenon DEF DiskInv, DiskTypes, FreeIsFree, OnlyForgottenTwice
    <2>4. HeaderSound' /\ KeptSound'
        BY <2>1, <2>2 DEF DiskInv, HeaderSound, KeptSound
    <2> QED
        BY <2>3, <2>4 DEF DiskInv
<1> QED
    BY <1>1, <1>2, <1>3, <1>4, <1>5, <1>6, <1>7, <1>8, <1>9, <1>10, <1>11, <1>12 DEF DiskNext

LEMMA DiskAlways == DiskSpec => []DiskInv
    BY DiskInitInv, DiskNextInv, PTL DEF DiskSpec

-----------------------------------------------------------------------------
\* allocate_page hands out an owned page only if a crash, or a close that
\* failed, made the manager forget it.
THEOREM PagesHandedOutOnce == DiskSpec => []OnlyForgottenTwice
<1>1. DiskInv => OnlyForgottenTwice
    BY DEF DiskInv
<1> QED
    BY <1>1, DiskAlways, PTL

\* Every page that is handed out and not forgotten is inside the file.
THEOREM HandedOutPagesExist == DiskSpec => []OwnedPagesExist
<1>1. DiskInv => OwnedPagesExist
    BY DEF DiskInv, KeptSound, HeaderSound, Kept, OwnedPagesExist
<1> QED
    BY <1>1, DiskAlways, PTL

\* open believes only a header that some close has written in full.
THEOREM HeadersAreGenuine == DiskSpec => OpenIsGenuine
<1>1. DiskInv /\ [DiskNext]_diskVars => [DiskOpen => dm'.next \in headers]_diskVars
    <2> SUFFICES ASSUME DiskInv, DiskOpen
                 PROVE  dm'.next \in headers
        OBVIOUS
    <2> QED
        BY OpenFacts DEF DiskOpen
<1> QED
    BY <1>1, DiskAlways, PTL DEF DiskSpec, OpenIsGenuine

\* A clean close leaves a file that opens, with the owned pages below the
\* header's number.
THEOREM CleanCloseIsComplete == DiskSpec => CleanCloseOpens
<1>1. ASSUME DiskInv, DiskCloseEnds
      PROVE  /\ Loads(file')
             /\ \A p \in owned \ forgotten : p < NextIn(file'[0])
    <2>1. ~dm.open /\ Session /\ file' = View
        BY <1>1 DEF DiskCloseEnds, FileFlush, Session
    <2>2. /\ pending = [page |-> 0, image |-> Header(dm.next)]
          /\ \A q \in DOMAIN file : file[q] # Short
        BY <1>1, <2>1 DEF DiskInv, HeaderSound
    <2>3. pending.page = 0 /\ pending.image = Header(dm.next) /\ pending # NoWrite
        BY <2>2, Kinds DEF NoWrite
    <2>4. PICK n \in Nat : DOMAIN file = 0 .. n - 1
        BY <1>1 DEF DiskInv, DiskTypes
    <2>5. /\ \E m \in Nat : DOMAIN file' = 0 .. m - 1
          /\ 0 \in DOMAIN file'
          /\ file'[0] = Header(dm.next)
          /\ \A q \in DOMAIN file : q # 0 => file'[q] = file[q]
          /\ \A q \in DOMAIN file' : q \in DOMAIN file \/ q = 0 \/ file'[q] = Hole
        BY <2>1, <2>3, <2>4, ViewFacts, ViewIs
    <2>6. \A q \in DOMAIN file' : file'[q] # Short
        BY <2>2, <2>5, Kinds
    <2>7. Size(file') > 0
        <3>1. PICK m \in Nat : DOMAIN file' = 0 .. m - 1
            BY <2>5
        <3>2. m > 0
            BY <2>5, <3>1
        <3> QED
            BY <3>1, <3>2, SizeIs
    <2>8. \A p \in owned \ forgotten : p < dm.next
        BY <1>1, <2>1 DEF DiskInv, KeptSound, Kept
    <2> QED
        BY <2>5, <2>6, <2>7, <2>8, Kinds DEF Loads
<1>2. DiskInv /\ [DiskNext]_diskVars =>
        [DiskCloseEnds =>
            /\ Loads(file')
            /\ \A p \in owned \ forgotten : p < NextIn(file'[0])]_diskVars
    BY <1>1
<1> QED
    BY <1>2, DiskAlways, PTL DEF DiskSpec, CleanCloseOpens
=============================================================================
