----------------------------- MODULE BufferPool -----------------------------
(***************************************************************************)
(* The buffer pool of the storage engine: a fixed number of frames that    *)
(* cache page files, a table from page ids to frames, and an LRU list from *)
(* which the page to evict is chosen.                                      *)
(*                                                                         *)
(* Every operation of the pool runs under one mutex and is one action.     *)
(* What a caller does with the page it was given (write bytes, set the     *)
(* dirty flag) happens outside the mutex, between the operations of        *)
(* others: these are actions of their own.  A call that returns nullptr or *)
(* false, or flushes a clean page, changes nothing and is a stuttering     *)
(* step.                                                                   *)
(*                                                                         *)
(* A handle is one page given by fetchPage or allocatePage and not yet     *)
(* unpinned: callers unpin exactly what they were given.  The bytes of a   *)
(* page are one value.  A file is emptied when it is opened for writing;   *)
(* when the bytes do not follow, and nothing looks whether they did, a     *)
(* page that is read from it is zero.                                      *)
(*                                                                         *)
(* The history variable hurt collects the pages whose last contents the    *)
(* pool has dropped, or has let their caller drop: a write of an evicted   *)
(* page that fails, a file emptied and not filled, an unpin that does not  *)
(* announce a write, an allocation over a page file, a deletion that       *)
(* leaves the page file.                                                   *)
(***************************************************************************)
EXTENDS Naturals, Sequences, FiniteSets, Functions

CONSTANTS
    PageId,     \* the pages
    Data,       \* the contents a page may have
    Zero,       \* the contents of a page filled with zeros
    Handle,     \* as many as pages are in use at once
    PoolSize,   \* the number of frames
    NoPage      \* an empty frame, an unused handle, a missing page file

Frame == 1..PoolSize
Page == [id : PageId, data : Data, dirty : BOOLEAN, pins : Nat]

ASSUME PoolAssumption ==
    /\ PoolSize \in Nat
    /\ Zero \in Data
    /\ IsFiniteSet(Handle)
    /\ NoPage \notin PageId /\ NoPage \notin Data /\ NoPage \notin Page

-----------------------------------------------------------------------------

VARIABLES
    pages,      \* the frames
    pageTable,  \* the map from resident pages to frames
    lruList,    \* the resident pages, the most recently used first
    disk,       \* the page files
    using,      \* the page each handle was given for
    unsaved,    \* handles that wrote and did not set the dirty flag since
    content,    \* history: what was last written to each page
    hurt        \* history: pages that were dropped with their contents

pool == <<pages, pageTable, lruList>>
vars == <<pool, disk, using, unsaved, content, hurt>>

TypeOK ==
    /\ pages \in [Frame -> Page \cup {NoPage}]
    /\ DOMAIN pageTable \subseteq PageId
    /\ pageTable \in [DOMAIN pageTable -> Frame]
    /\ lruList \in Seq(PageId)
    /\ disk \in [PageId -> Data \cup {NoPage}]
    /\ using \in [Handle -> PageId \cup {NoPage}]
    /\ unsaved \subseteq Handle
    /\ content \in [PageId -> Data]
    /\ hurt \subseteq PageId

EmptyPool ==
    /\ pages = [f \in Frame |-> NoPage]
    /\ pageTable = [p \in {} |-> NoPage]
    /\ lruList = <<>>

Init ==
    /\ EmptyPool
    /\ disk = [p \in PageId |-> NoPage]
    /\ using = [h \in Handle |-> NoPage]
    /\ unsaved = {}
    /\ content = [p \in PageId |-> Zero]
    /\ hurt = {}

-----------------------------------------------------------------------------
(* Helpers. *)

Resident == DOMAIN pageTable
PageOf(p) == pages[pageTable[p]]

\* Mutant of FileData: it is not looked whether the page has a file.
FileDataUnchecked(p) == disk[p]

\* What the file of a page gives a page that is read in.
FileData(p) == IF disk[p] = NoPage THEN Zero ELSE disk[p]

Position(p) == CHOOSE i \in 1..Len(lruList) : lruList[i] = p

\* The LRU list without page p, erased where lruMap_ says it is.
Erased(p) ==
    [i \in 1..(Len(lruList) - 1) |->
        IF i < Position(p) THEN lruList[i] ELSE lruList[i + 1]]

EmptyFrames == {f \in Frame : pages[f] = NoPage}
UnpinnedPositions == {i \in 1..Len(lruList) : PageOf(lruList[i]).pins = 0}

\* Mutant of findVictim: the back of the LRU list is taken, pinned or not.
VictimAtBack(f) ==
    \/ /\ f \in EmptyFrames
       /\ \A g \in EmptyFrames : f <= g
    \/ /\ EmptyFrames = {}
       /\ lruList # <<>>
       /\ f = pageTable[lruList[Len(lruList)]]

\* f is the frame findVictim returns: the first empty frame, or the frame of
\* the unpinned page nearest to the back of the LRU list.
findVictim(f) ==
    \/ /\ f \in EmptyFrames
       /\ \A g \in EmptyFrames : f <= g
    \/ /\ EmptyFrames = {}
       /\ \E i \in UnpinnedPositions :
            /\ \A j \in UnpinnedPositions : j <= i
            /\ f = pageTable[lruList[i]]

\* The page in frame f is written to its file if it is dirty.  When the file
\* cannot be opened, or is opened and not filled, the page is dropped all the
\* same.
WriteBack(f, alsoHurt) ==
    LET victim == pages[f]
    IN  IF victim # NoPage /\ victim.dirty
        THEN \/ /\ disk' = [disk EXCEPT ![victim.id] = victim.data]
                /\ hurt' = hurt \cup alsoHurt
             \/ /\ disk' \in {disk, [disk EXCEPT ![victim.id] = Zero]}
                /\ hurt' = hurt \cup alsoHurt \cup {victim.id}
        ELSE UNCHANGED disk /\ hurt' = hurt \cup alsoHurt

NewPage(p, data) == [id |-> p, data |-> data, dirty |-> FALSE, pins |-> 1]

\* The LRU list without the page in frame f, if there is one.
WithoutVictim(f) == IF pages[f] = NoPage THEN lruList ELSE Erased(pages[f].id)

\* Mutant of Install: the victim keeps its entry in the page table.
KeepVictim(f, p, data) ==
    /\ pages' = [pages EXCEPT ![f] = NewPage(p, data)]
    /\ pageTable' = [q \in Resident \cup {p} |-> IF q = p THEN f ELSE pageTable[q]]
    /\ lruList' = <<p>> \o WithoutVictim(f)

\* A new page object for p, pinned once, takes frame f.
Install(f, p, data) ==
    LET left == {q \in Resident : pages[f] = NoPage \/ q # pages[f].id}
    IN  /\ pages' = [pages EXCEPT ![f] = NewPage(p, data)]
        /\ pageTable' = [q \in left \cup {p} |-> IF q = p THEN f ELSE pageTable[q]]
        /\ lruList' = <<p>> \o WithoutVictim(f)

SetPage(p, page) == pages' = [pages EXCEPT ![pageTable[p]] = page]

\* Mutant of MoveToFront: the page leaves the list and is not put back.
LeaveList(p) == Erased(p)

MoveToFront(p) == <<p>> \o Erased(p)

-----------------------------------------------------------------------------
(* The operations of the pool. *)

\* fetchPage of a resident page.
FetchHit(h, p) ==
    /\ using[h] = NoPage
    /\ p \in Resident
    /\ SetPage(p, [PageOf(p) EXCEPT !.pins = @ + 1])
    /\ lruList' = MoveToFront(p)
    /\ using' = [using EXCEPT ![h] = p]
    /\ UNCHANGED <<pageTable, disk, unsaved, content, hurt>>

\* A page that is not resident is brought in, with a victim's frame if need be.
Load(h, p, data, alsoHurt) ==
    /\ using[h] = NoPage
    /\ p \notin Resident
    /\ \E f \in Frame :
        /\ findVictim(f)
        /\ WriteBack(f, alsoHurt)
        /\ Install(f, p, data)
    /\ using' = [using EXCEPT ![h] = p]
    /\ UNCHANGED unsaved

\* fetchPage of a page that is not resident.
FetchMiss(h, p) ==
    /\ Load(h, p, FileData(p), {})
    /\ UNCHANGED content

\* allocatePage.  It does not look for a file of the page: the new page is
\* zero and clean, and the file keeps what it has.
allocatePage(h, p) ==
    /\ Load(h, p, Zero, IF disk[p] = NoPage THEN {} ELSE {p})
    /\ content' = [content EXCEPT ![p] = Zero]

\* Mutant of unpinPage: the argument overwrites the dirty flag.
UnpinOverwrites(h, isDirty) ==
    LET p == using[h]
    IN  /\ p # NoPage
        /\ SetPage(p, [PageOf(p) EXCEPT !.pins = @ - 1, !.dirty = isDirty])
        /\ using' = [using EXCEPT ![h] = NoPage]
        /\ unsaved' = unsaved \ {h}
        /\ hurt' = IF h \in unsaved /\ ~isDirty THEN hurt \cup {p} ELSE hurt
        /\ UNCHANGED <<pageTable, lruList, disk, content>>

\* unpinPage by the holder of h, who may forget to announce what it wrote.
unpinPage(h, isDirty) ==
    LET p == using[h]
        announced == isDirty \/ PageOf(p).dirty \/ \E g \in unsaved \ {h} : using[g] = p
    IN  /\ p # NoPage
        /\ SetPage(p, [PageOf(p) EXCEPT !.pins = @ - 1, !.dirty = @ \/ isDirty])
        /\ using' = [using EXCEPT ![h] = NoPage]
        /\ unsaved' = unsaved \ {h}
        /\ hurt' = IF h \in unsaved /\ ~announced THEN hurt \cup {p} ELSE hurt
        /\ UNCHANGED <<pageTable, lruList, disk, content>>

DirtyPages == {p \in Resident : PageOf(p).dirty}

\* The files of the pages in written get their contents; those of the pages in
\* torn are emptied and not filled.
WriteFiles(written, torn) ==
    disk' = [p \in PageId |-> IF p \in torn THEN Zero
                            ELSE IF p \in written THEN PageOf(p).data ELSE disk[p]]

\* The pages whose files could be opened are marked clean.
FlushPages(written, torn) ==
    /\ WriteFiles(written, torn)
    /\ pages' = [f \in Frame |->
                   IF pages[f] # NoPage /\ pages[f].id \in written \cup torn
                   THEN [pages[f] EXCEPT !.dirty = FALSE] ELSE pages[f]]
    /\ hurt' = hurt \cup torn
    /\ UNCHANGED <<pageTable, lruList, using, unsaved, content>>

\* flushPage of a dirty page whose file can be opened.
flushPage(p) ==
    /\ p \in DirtyPages
    /\ FlushPages({p}, {}) \/ FlushPages({}, {p})

\* flushAllPages goes on past a page that cannot be written.
flushAllPages ==
    \E written, torn \in SUBSET DirtyPages : FlushPages(written, torn)

\* deletePage that answers true.  Only a resident page has its file removed,
\* and whether the file could be removed is not looked at.
deletePage(p) ==
    /\ \/ /\ p \in Resident
          /\ PageOf(p).pins = 0
          /\ pageTable' = [q \in Resident \ {p} |-> pageTable[q]]
          /\ lruList' = Erased(p)
          /\ pages' = [pages EXCEPT ![pageTable[p]] = NoPage]
          /\ disk' \in {disk, [disk EXCEPT ![p] = NoPage]}
       \/ /\ p \notin Resident
          /\ UNCHANGED <<pool, disk>>
    /\ content' = [content EXCEPT ![p] = Zero]
    /\ hurt' = IF disk'[p] = NoPage THEN hurt \ {p} ELSE hurt \cup {p}
    /\ UNCHANGED <<using, unsaved>>

-----------------------------------------------------------------------------
(* What callers do with a page they were given, and the end of the process. *)

\* The holder of h writes the page, and sets its dirty flag itself or leaves
\* that to unpinPage.
WriteData(h, data, setDirty) ==
    LET p == using[h]
    IN  /\ p # NoPage
        /\ SetPage(p, [PageOf(p) EXCEPT !.data = data, !.dirty = @ \/ setDirty])
        /\ unsaved' = IF setDirty THEN unsaved ELSE unsaved \cup {h}
        /\ content' = [content EXCEPT ![p] = data]
        /\ hurt' = hurt \ {p}
        /\ UNCHANGED <<pageTable, lruList, disk, using>>

UnsavedPages == {using[h] : h \in unsaved}

\* The process ends, after the destructor has flushed every page or in a crash
\* that leaves some not written or torn, and a new pool is made.
End ==
    /\ \E written, torn \in SUBSET DirtyPages :
            /\ WriteFiles(written, torn)
            /\ hurt' = hurt \cup torn \cup ((DirtyPages \cup UnsavedPages) \ written)
    /\ pages' = [f \in Frame |-> NoPage]
    /\ pageTable' = [p \in {} |-> NoPage]
    /\ lruList' = <<>>
    /\ using' = [h \in Handle |-> NoPage]
    /\ unsaved' = {}
    /\ UNCHANGED content

Next ==
    \/ \E h \in Handle : \E p \in PageId :
            FetchHit(h, p) \/ FetchMiss(h, p) \/ allocatePage(h, p)
    \/ \E h \in Handle : \E isDirty \in BOOLEAN : unpinPage(h, isDirty)
    \/ \E h \in Handle : \E data \in Data : \E setDirty \in BOOLEAN :
            WriteData(h, data, setDirty)
    \/ \E p \in PageId : flushPage(p) \/ deletePage(p)
    \/ flushAllPages
    \/ End

Spec == Init /\ [][Next]_vars

-----------------------------------------------------------------------------
(* Safety. *)

\* The frames, the page table and the LRU list tell the same story: a resident
\* page is in the frame the table says, in no other, and once in the list; the
\* list names no other page.  Three structures are updated by hand in every
\* operation that brings a page in or drops one.
PoolConsistent ==
    /\ \A p \in Resident : PageOf(p) # NoPage /\ PageOf(p).id = p
    /\ \A f \in Frame : pages[f] # NoPage =>
            pages[f].id \in Resident /\ pageTable[pages[f].id] = f
    /\ Range(lruList) = Resident
    /\ IsInjective(lruList)

Users(p) == {h \in Handle : using[h] = p}

\* A page in use is resident, and its pin count is the number of its users: so
\* it is neither evicted nor deleted under them, and it is not kept when the
\* last of them has gone.
PinsAreUsers ==
    /\ \A h \in Handle : using[h] # NoPage => using[h] \in Resident
    /\ \A p \in Resident : PageOf(p).pins = Cardinality(Users(p))

\* What a caller reads of page p: in the pool, or in the file.
View(p) == IF p \in Resident THEN PageOf(p).data ELSE FileData(p)

\* No update is lost but those in hurt: through evictions, flushes, restarts and
\* crashes every other page reads as it was last written, allocated or deleted.
NoLostUpdate == \A p \in PageId \ hurt : View(p) = content[p]

\* fetchPage and allocatePage find a frame unless every frame holds a page that
\* is in use: no page leaks from the LRU list.
RefusedOnlyWhenFull ==
    (\A f \in Frame : ~findVictim(f)) =>
        \A f \in Frame : pages[f] # NoPage /\ Users(pages[f].id) # {}

-----------------------------------------------------------------------------
(* The strengthening that makes NoLostUpdate inductive. *)

\* A clean page that nobody has written unannounced can be dropped: its file
\* has its contents.
CleanIsOnDisk ==
    \A p \in Resident \ hurt :
        ~PageOf(p).dirty /\ p \notin UnsavedPages => FileData(p) = content[p]

\* Only a page in use has writes to announce.
UnsavedInUse == \A h \in unsaved : using[h] # NoPage
=============================================================================
