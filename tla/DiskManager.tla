---------------------------- MODULE DiskManager -----------------------------
(***************************************************************************)
(* The database file of src/src/storage/: disk_manager.cpp over            *)
(* file_manager.cpp and free_page_manager.cpp.  Page 0 holds the database  *)
(* header, which close alone writes; the next free page number and the     *)
(* free list live in memory.                                               *)
(*                                                                         *)
(* Writes go through one std::fstream, which every seek empties: when the  *)
(* process dies, all writes but the last one have reached the operating    *)
(* system, and the last one has, has not, or is torn or cut short.  The    *)
(* code never calls fsync, so a power failure is outside what it promises. *)
(***************************************************************************)
EXTENDS Integers, Sequences, FiniteSets

CONSTANTS
    Bodies,         \* contents of a page
    MaxPage,        \* bound: page numbers are at most MaxPage
    MaxSessions     \* bound on the number of times the file is opened

VARIABLES
    exists,         \* the file exists
    file,           \* what is in the file for certain: images of its pages
    pending,        \* the last write, still in the stream's buffer, or NoWrite
    dm,             \* the manager: [open, next, free]
    sessions,       \* number of successful opens
    owned,          \* pages handed out and not given back
    forgotten,      \* pages handed out since the header was last written, and then lost
    twice,          \* pages handed out although they were owned
    headers         \* the values of next_page_id that were written to page 0

diskVars == <<exists, file, pending, dm, sessions, owned, forgotten, twice, headers>>

PageNumbers == 0 .. MaxPage

\* Images of a page.  A hole reads as zeroes, whose checksum is wrong.
Hole == [kind |-> "hole"]
Torn == [kind |-> "torn"]
Short == [kind |-> "short"]
Header(next) == [kind |-> "header", next |-> next]
Data(body) == [kind |-> "page", body |-> body]
Empty == [kind |-> "page", body |-> "empty"]

\* The file is a function from 0 .. size - 1 to images.
Size(f) == Cardinality(DOMAIN f)

\* A write behind the end of the file leaves a hole.
Written(f, p, image) ==
    [q \in 0 .. p \cup DOMAIN f |->
        IF q = p THEN image ELSE IF q \in DOMAIN f THEN f[q] ELSE Hole]

NoWrite == [page |-> 0, image |-> Hole]

\* What the stream shows, and what a seek or a flush puts into the file.
View == IF pending = NoWrite THEN file ELSE Written(file, pending.page, pending.image)

\* FileManager::write of a page: the seek pushes out the write before it.
FileWrite(p, image) == file' = View /\ pending' = [page |-> p, image |-> image]

\* FileManager::flush.
FileFlush == file' = View /\ pending' = NoWrite

ClosedManager == [open |-> FALSE, next |-> 0, free |-> <<>>]

-----------------------------------------------------------------------------
\* There is no file, or one that holds a header and no pages.
DiskInit ==
    /\ exists \in BOOLEAN
    /\ file = IF exists THEN [p \in {0} |-> Header(1)] ELSE <<>>
    /\ pending = NoWrite
    /\ dm = ClosedManager
    /\ sessions = 0
    /\ owned = {}
    /\ forgotten = {}
    /\ twice = {}
    /\ headers = {1}

\* create: the file is made, but the header cannot be written to it, since
\* write_page refuses while the manager is not open.
DiskCreate ==
    /\ dm.next = 0
    /\ ~exists
    /\ exists' = TRUE
    /\ file' = <<>>
    /\ UNCHANGED <<pending, dm, sessions, owned, forgotten, twice, headers>>

\* The checks of load_existing_database on the size and on the header.
Loads(f) ==
    /\ \A p \in DOMAIN f : f[p] # Short
    /\ Size(f) > 0
    /\ f[0].kind = "header"

\* The number a header shows; a torn one may show any.
NextIn(image) == IF image.kind = "header" THEN image.next ELSE MaxPage + 1

DiskOpen ==
    /\ dm.next = 0
    /\ exists
    /\ sessions < MaxSessions
    /\ Loads(file)
    /\ dm' = [open |-> TRUE, next |-> NextIn(file[0]), free |-> <<>>]
    /\ sessions' = sessions + 1
    /\ UNCHANGED <<exists, file, pending, owned, forgotten, twice, headers>>

\* Seeded fault: a clean close leaves the header as it was.
CloseHeaderSkipped ==
    /\ dm.open
    /\ UNCHANGED <<file, pending, headers>>

\* close writes the header ...
CloseHeader ==
    /\ dm.open
    /\ FileWrite(0, Header(dm.next))
    /\ headers' = headers \cup {dm.next}

\* ... and flushes and closes the file.
DiskCloseBegins ==
    /\ CloseHeader
    /\ dm' = [dm EXCEPT !.open = FALSE, !.free = <<>>]
    /\ UNCHANGED <<exists, sessions, owned, forgotten, twice>>

\* The manager's memory is gone, and with it the pages of a header not written.
Forget == forgotten' = forgotten \cup {p \in owned : p >= NextIn(file'[0])}

DiskCloseEnds ==
    /\ ~dm.open
    /\ dm.next # 0
    /\ FileFlush
    /\ dm' = ClosedManager
    /\ Forget
    /\ UNCHANGED <<exists, sessions, owned, twice, headers>>

\* close when the header cannot be written: the file is closed all the same.
DiskCloseFails ==
    /\ dm.open
    /\ FileFlush
    /\ dm' = ClosedManager
    /\ Forget
    /\ UNCHANGED <<exists, sessions, owned, twice, headers>>

\* write_page, by an owner; the buffer pool writes pages back at any time.
DiskWritePage(p, body) ==
    /\ dm.open
    /\ p \in owned
    /\ FileWrite(p, Data(body))
    /\ UNCHANGED <<exists, dm, sessions, owned, forgotten, twice, headers>>

\* flush; a read also empties the buffer.
DiskFlush ==
    /\ dm.open
    /\ FileFlush
    /\ UNCHANGED <<exists, dm, sessions, owned, forgotten, twice, headers>>

\* The page p is handed out.
HandOut(p) ==
    /\ owned' = owned \cup {p}
    /\ twice' = IF p \in owned THEN twice \cup {p} ELSE twice

\* allocate_page, from the free list: the page keeps its content.
AllocateFreed ==
    /\ dm.open
    /\ dm.free # <<>>
    /\ dm' = [dm EXCEPT !.free = SubSeq(@, 1, Len(@) - 1)]
    /\ HandOut(dm.free[Len(dm.free)])
    /\ UNCHANGED <<exists, file, pending, sessions, forgotten, headers>>

\* allocate_page, at the end of the file.
AllocateNew ==
    /\ dm.open
    /\ dm.free = <<>>
    /\ dm.next <= MaxPage
    /\ dm' = [dm EXCEPT !.next = @ + 1]
    /\ FileWrite(dm.next, Empty)
    /\ HandOut(dm.next)
    /\ UNCHANGED <<exists, sessions, forgotten, headers>>

\* The write of the empty page fails after the number is taken.
AllocateFails ==
    /\ dm.open
    /\ dm.free = <<>>
    /\ dm.next <= MaxPage
    /\ dm' = [dm EXCEPT !.next = @ + 1]
    /\ UNCHANGED <<exists, file, pending, sessions, owned, forgotten, twice, headers>>

\* Seeded fault: a page can be put on the free list twice.
ReleasesAgain(p) == TRUE

IsFree(p) == \E i \in 1 .. Len(dm.free) : dm.free[i] = p

\* FreePageManager::release.
Releases(p) == p # 0 /\ ~IsFree(p)

\* deallocate_page, by the owner or once more by who was the owner.
DiskDeallocate(p) ==
    /\ dm.open
    /\ Releases(p)
    /\ p \in owned \/ IsFree(p)
    /\ Len(dm.free) <= MaxPage
    /\ dm' = [dm EXCEPT !.free = Append(@, p)]
    /\ owned' = owned \ {p}
    /\ UNCHANGED <<exists, file, pending, sessions, forgotten, twice, headers>>

\* The last write is in the file, is not, or is torn; at the end of the file
\* it may also be cut short.
Survivors ==
    IF pending = NoWrite THEN {file}
    ELSE {file, View, Written(file, pending.page, Torn)}
            \cup {Written(file, pending.page, image) :
                    image \in IF pending.page >= Size(file) THEN {Short} ELSE {}}

DiskCrash ==
    /\ dm.next # 0
    /\ file' \in Survivors
    /\ pending' = NoWrite
    /\ dm' = ClosedManager
    /\ Forget
    /\ UNCHANGED <<exists, sessions, owned, twice, headers>>

DiskNext ==
    \/ DiskCreate
    \/ DiskOpen
    \/ DiskCloseBegins
    \/ DiskCloseEnds
    \/ DiskCloseFails
    \/ \E p \in owned, body \in Bodies : DiskWritePage(p, body)
    \/ DiskFlush
    \/ AllocateFreed
    \/ AllocateNew
    \/ AllocateFails
    \/ \E p \in PageNumbers : DiskDeallocate(p)
    \/ DiskCrash

DiskSpec == DiskInit /\ [][DiskNext]_diskVars

-----------------------------------------------------------------------------
(***************************************************************************)
(* A page is handed out a second time only if a crash, or a close that     *)
(* could not write the header, has made the manager forget it; the free    *)
(* list alone, with any number of attempts to free a page, never does it.  *)
(* A forgotten page may come twice (disk_manager.cpp:170), so of those     *)
(* nothing is said, nor of an owner that frees such a page once more.      *)
(***************************************************************************)
OnlyForgottenTwice == twice \subseteq forgotten

(***************************************************************************)
(* Every page that the manager has handed out and not forgotten is inside  *)
(* the file, so that a read of it finds an image: also when the writes of  *)
(* new pages fail in between.                                              *)
(***************************************************************************)
OwnedPagesExist ==
    dm.open => \A p \in owned \ forgotten : p \in DOMAIN View

(***************************************************************************)
(* A header is believed only if some close has written it in full: a torn  *)
(* page 0 is refused, and the numbers handed out start from a genuine one. *)
(***************************************************************************)
OpenIsGenuine == [][DiskOpen => dm'.next \in headers]_diskVars

(***************************************************************************)
(* A clean close leaves a file that opens, with every owned page below the *)
(* next number, unless an earlier crash has already forgotten the page.    *)
(***************************************************************************)
CleanCloseOpens ==
    [][DiskCloseEnds =>
        /\ Loads(file')
        /\ \A p \in owned \ forgotten : p < NextIn(file'[0])]_diskVars
=============================================================================
