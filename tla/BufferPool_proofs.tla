-------------------------- MODULE BufferPool_proofs --------------------------
(***************************************************************************)
(* What holds of the buffer pool for any pages, any number of frames and   *)
(* any finite number of users.                                             *)
(***************************************************************************)
EXTENDS BufferPool, FiniteSetTheorems, SequenceTheorems, WellFoundedInduction, TLAPS

-----------------------------------------------------------------------------
(* The LRU list. *)

\* Erasing a page takes it, and nothing else, out of the list.
LEMMA ErasedFacts ==
    ASSUME lruList \in Seq(PageId), IsInjective(lruList), NEW p \in Range(lruList)
    PROVE  /\ Erased(p) \in Seq(PageId)
           /\ Range(Erased(p)) = Range(lruList) \ {p}
           /\ IsInjective(Erased(p))
  <1> DEFINE n == Len(lruList)
             k == Position(p)
             e == Erased(p)
  <1>1. /\ n \in Nat
        /\ DOMAIN lruList = 1..n
        /\ \A i \in 1..n : lruList[i] \in PageId
    BY LenProperties
  <1>2. \E i \in 1..n : lruList[i] = p
    BY <1>1 DEF Range
  <1>3. k \in 1..n /\ lruList[k] = p
    BY <1>2 DEF Position
  <1>4. \A i, j \in 1..n : lruList[i] = lruList[j] => i = j
    BY <1>1 DEF IsInjective
  <1>5. e = [i \in 1..(n - 1) |-> IF i < k THEN lruList[i] ELSE lruList[i + 1]]
    BY DEF Erased
  <1>6. n - 1 \in Nat /\ DOMAIN e = 1..(n - 1)
    BY <1>1, <1>3, <1>5
  <1> HIDE DEF k, e
  <1>7. \A i \in 1..(n - 1) : e[i] \in PageId \ {p}
    <2> TAKE i \in 1..(n - 1)
    <2>1. CASE i < k
      <3>1. i \in 1..n /\ e[i] = lruList[i] /\ i # k
        BY <1>1, <1>3, <1>5, <2>1
      <3> QED
        BY <1>1, <1>3, <1>4, <3>1
    <2>2. CASE ~(i < k)
      <3>1. i + 1 \in 1..n /\ e[i] = lruList[i + 1] /\ i + 1 # k
        BY <1>1, <1>3, <1>5, <2>2
      <3> QED
        BY <1>1, <1>3, <1>4, <3>1
    <2> QED
      BY <2>1, <2>2
  <1>8. e \in Seq(PageId)
    <2>1. e \in [1..(n - 1) -> PageId]
      BY <1>5, <1>7
    <2> QED
      BY <1>6, <2>1, SeqDef
  <1>9. \A q \in Range(lruList) \ {p} : q \in Range(e)
    <2> TAKE q \in Range(lruList) \ {p}
    <2>1. PICK j \in 1..n : lruList[j] = q
      BY <1>1 DEF Range
    <2>2. CASE j < k
      <3>1. j \in 1..(n - 1) /\ e[j] = q
        BY <1>1, <1>3, <1>5, <2>1, <2>2
      <3> QED
        BY <1>6, <3>1 DEF Range
    <2>3. CASE k < j
      <3>1. j - 1 \in 1..(n - 1) /\ ~(j - 1 < k) /\ (j - 1) + 1 = j
        BY <1>1, <1>3, <2>1, <2>3
      <3>2. e[j - 1] = q
        BY <1>5, <2>1, <3>1
      <3> QED
        BY <1>6, <3>1, <3>2 DEF Range
    <2> QED
      BY <1>1, <1>3, <2>1, <2>2, <2>3
  <1>10. \A i \in 1..(n - 1) : e[i] \in Range(lruList)
    BY <1>1, <1>3, <1>5 DEF Range
  <1>11. IsInjective(e)
    <2> SUFFICES ASSUME NEW i \in 1..(n - 1), NEW j \in 1..(n - 1), e[i] = e[j]
                 PROVE  i = j
      BY <1>6 DEF IsInjective
    <2> DEFINE at(x) == IF x < k THEN x ELSE x + 1
    <2>1. at(i) \in 1..n /\ at(j) \in 1..n
      BY <1>1, <1>3
    <2>2. lruList[at(i)] = lruList[at(j)]
      BY <1>5
    <2>3. at(i) = at(j)
      BY <1>4, <2>1, <2>2
    <2> QED
      BY <1>1, <1>3, <2>3
  <1>12. Range(e) = Range(lruList) \ {p}
    <2>1. \A q \in Range(e) : q \in Range(lruList) \ {p}
      BY <1>6, <1>7, <1>10 DEF Range
    <2> QED
      BY <1>9, <2>1
  <1> QED
    BY <1>8, <1>11, <1>12 DEF e

\* A page that is not in a list can be pushed in front of it.
LEMMA PushFacts ==
    ASSUME NEW s \in Seq(PageId), IsInjective(s), NEW p \in PageId, p \notin Range(s)
    PROVE  /\ <<p>> \o s \in Seq(PageId)
           /\ Range(<<p>> \o s) = Range(s) \cup {p}
           /\ IsInjective(<<p>> \o s)
  <1> DEFINE n == Len(s)
             t == <<p>> \o s
  <1>1. <<p>> \in Seq(PageId) /\ Len(<<p>>) = 1 /\ <<p>>[1] = p
    OBVIOUS
  <1>2. n \in Nat /\ DOMAIN s = 1..n
    BY LenProperties
  <1>3. /\ t \in Seq(PageId)
        /\ Len(t) = n + 1
        /\ \A i \in 1..(n + 1) : t[i] = IF i <= 1 THEN <<p>>[i] ELSE s[i - 1]
    BY <1>1, <1>2, ConcatProperties
  <1>4. DOMAIN t = 1..(n + 1)
    BY <1>3, LenProperties
  <1> HIDE DEF t
  <1>5. t[1] = p
    BY <1>1, <1>2, <1>3
  <1>6. \A i \in 1..(n + 1) : i # 1 => i - 1 \in 1..n /\ t[i] = s[i - 1]
    BY <1>2, <1>3
  <1>7. \A i \in 1..n : i + 1 \in 1..(n + 1) /\ t[i + 1] = s[i]
    <2> TAKE i \in 1..n
    <2>1. i + 1 \in 1..(n + 1) /\ i + 1 # 1 /\ (i + 1) - 1 = i
      BY <1>2
    <2> QED
      BY <1>6, <2>1
  <1>8. Range(t) = Range(s) \cup {p}
    <2>1. \A q \in Range(t) : q \in Range(s) \cup {p}
      BY <1>2, <1>4, <1>5, <1>6 DEF Range
    <2>2. \A q \in Range(s) : q \in Range(t)
      BY <1>2, <1>4, <1>7 DEF Range
    <2>3. 1 \in 1..(n + 1)
      BY <1>2
    <2>4. p \in Range(t)
      BY <1>4, <1>5, <2>3 DEF Range
    <2> QED
      BY <2>1, <2>2, <2>4
  <1>9. IsInjective(t)
    <2> SUFFICES ASSUME NEW i \in 1..(n + 1), NEW j \in 1..(n + 1), t[i] = t[j]
                 PROVE  i = j
      BY <1>4 DEF IsInjective
    <2>1. CASE i = 1 /\ j # 1
      <3>1. s[j - 1] = p /\ j - 1 \in 1..n
        BY <1>5, <1>6, <2>1
      <3> QED
        BY <1>2, <3>1 DEF Range
    <2>2. CASE j = 1 /\ i # 1
      <3>1. s[i - 1] = p /\ i - 1 \in 1..n
        BY <1>5, <1>6, <2>2
      <3> QED
        BY <1>2, <3>1 DEF Range
    <2>3. CASE i # 1 /\ j # 1
      <3>1. i - 1 = j - 1
        BY <1>2, <1>6, <2>3 DEF IsInjective
      <3> QED
        BY <3>1
    <2> QED
      BY <2>1, <2>2, <2>3
  <1> QED
    BY <1>3, <1>8, <1>9 DEF t

-----------------------------------------------------------------------------
(* A set of natural numbers has a least element, and a bounded one a        *)
(* greatest.                                                                *)

LEMMA LeastElement ==
    ASSUME NEW S \in SUBSET Nat, S # {}
    PROVE  \E x \in S : \A y \in S : x <= y
  <1> DEFINE Less == OpToRel(<, Nat)
  <1>1. \A y, z \in Nat : <<y, z>> \in Less <=> y < z
    BY DEF OpToRel
  <1>2. IsWellFoundedOn(Less, Nat)
    BY NatLessThanWellFounded
  <1> HIDE DEF Less
  <1>3. PICK x \in S : \A y \in S : ~(<<y, x>> \in Less)
    BY <1>2, WFMin
  <1>4. \A y \in S : ~(y < x)
    BY <1>1, <1>3
  <1> QED
    BY <1>3, <1>4

LEMMA GreatestElement ==
    ASSUME NEW n \in Nat, NEW S \in SUBSET (1..n), S # {}
    PROVE  \E x \in S : \A y \in S : y <= x
  <1> DEFINE R == {n - x : x \in S}
  <1>1. R \in SUBSET Nat /\ R # {}
    <2>1. \A x \in S : n - x \in Nat
      <3> TAKE x \in S
      <3>1. x \in 1..n
        OBVIOUS
      <3> QED
        BY <3>1
    <2> QED
      BY <2>1
  <1>2. PICK r \in R : \A s \in R : r <= s
    BY <1>1, LeastElement
  <1>3. PICK x \in S : r = n - x
    BY <1>2
  <1>4. \A y \in S : n - x <= n - y
    BY <1>2, <1>3
  <1> QED
    BY <1>3, <1>4

-----------------------------------------------------------------------------
(* The frames. *)

Consistent == TypeOK /\ PoolConsistent

\* A resident page has a frame of its own, which holds a page with its id.
LEMMA ResidentFacts ==
    ASSUME Consistent, NEW p \in Resident
    PROVE  /\ p \in PageId
           /\ pageTable[p] \in Frame
           /\ PageOf(p) \in Page
           /\ PageOf(p).id = p
           /\ \A q \in Resident : pageTable[q] = pageTable[p] => q = p
  <1>1. p \in PageId /\ pageTable[p] \in Frame
    BY DEF Consistent, TypeOK, Resident
  <1>2. pages[pageTable[p]] \in Page \cup {NoPage}
    BY <1>1 DEF Consistent, TypeOK
  <1>3. \A q \in Resident : pages[pageTable[q]] # NoPage /\ pages[pageTable[q]].id = q
    BY DEF Consistent, PoolConsistent, PageOf
  <1> QED
    BY <1>1, <1>2, <1>3 DEF PageOf

\* A frame that is not empty is the frame of the page it holds.
LEMMA FrameFacts ==
    ASSUME Consistent, NEW f \in Frame, pages[f] # NoPage
    PROVE  /\ pages[f] \in Page
           /\ pages[f].id \in Resident
           /\ pageTable[pages[f].id] = f
           /\ PageOf(pages[f].id) = pages[f]
  BY DEF Consistent, TypeOK, PoolConsistent, PageOf

\* The fields of a page, and those of the pages made from it.
LEMMA PageFields ==
    ASSUME NEW page \in Page
    PROVE  /\ page.id \in PageId
           /\ page.data \in Data
           /\ page.dirty \in BOOLEAN
           /\ page.pins \in Nat
           /\ page # NoPage
  BY PoolAssumption DEF Page

LEMMA NewPageFacts ==
    ASSUME NEW p \in PageId, NEW data \in Data
    PROVE  /\ NewPage(p, data) \in Page
           /\ NewPage(p, data).id = p
           /\ NewPage(p, data).data = data
           /\ NewPage(p, data).dirty = FALSE
           /\ NewPage(p, data).pins = 1
  BY DEF NewPage, Page

\* What SetPage does: the page of p, and no other, is replaced.
LEMMA SetPageFacts ==
    ASSUME Consistent, NEW p \in Resident, NEW page \in Page, page.id = p,
           SetPage(p, page), pageTable' = pageTable
    PROVE  /\ pages' \in [Frame -> Page \cup {NoPage}]
           /\ \A q \in Resident : pages'[pageTable'[q]] = IF q = p THEN page ELSE PageOf(q)
           /\ \A q \in Resident : pages'[pageTable'[q]] # NoPage /\ pages'[pageTable'[q]].id = q
           /\ \A f \in Frame : pages'[f] # NoPage =>
                    pages'[f].id \in Resident' /\ pageTable'[pages'[f].id] = f
  <1>1. /\ pages \in [Frame -> Page \cup {NoPage}]
        /\ pages' = [pages EXCEPT ![pageTable[p]] = page]
        /\ Resident' = Resident
    BY DEF Consistent, TypeOK, SetPage, Resident
  <1>2. pageTable[p] \in Frame /\ PageOf(p).id = p
    BY ResidentFacts
  <1>3. \A f \in Frame : pages'[f] = IF f = pageTable[p] THEN page ELSE pages[f]
    BY <1>1, <1>2
  <1>4. pages' \in [Frame -> Page \cup {NoPage}]
    BY <1>1, <1>2
  <1>5. ASSUME NEW q \in Resident
        PROVE  /\ pages'[pageTable'[q]] = IF q = p THEN page ELSE PageOf(q)
               /\ pages'[pageTable'[q]] # NoPage
               /\ pages'[pageTable'[q]].id = q
    <2>1. pageTable[q] \in Frame /\ PageOf(q) \in Page /\ PageOf(q).id = q
      BY ResidentFacts
    <2>2. pageTable[q] = pageTable[p] => q = p
      BY ResidentFacts
    <2>3. pages'[pageTable'[q]] = IF q = p THEN page ELSE PageOf(q)
      BY <1>3, <2>1, <2>2 DEF PageOf
    <2>4. page # NoPage /\ PageOf(q) # NoPage
      BY <2>1, PageFields
    <2> QED
      BY <2>1, <2>3, <2>4
  <1>6. ASSUME NEW f \in Frame, pages'[f] # NoPage
        PROVE  pages'[f].id \in Resident' /\ pageTable'[pages'[f].id] = f
    <2>1. CASE f = pageTable[p]
      BY <1>1, <1>3, <2>1
    <2>2. CASE f # pageTable[p]
      BY <1>1, <1>3, <1>6, <2>2, FrameFacts
    <2> QED
      BY <2>1, <2>2
  <1> QED
    BY <1>4, <1>5, <1>6

\* The pages that stay when frame f is taken.
Kept(f) == {q \in Resident : pages[f] = NoPage \/ q # pages[f].id}

\* What Install does: page p takes frame f, and the page that was there goes.
LEMMA InstallFacts ==
    ASSUME Consistent, NEW f \in Frame, NEW p \in PageId, p \notin Resident,
           NEW data \in Data, Install(f, p, data)
    PROVE  /\ Resident' = Kept(f) \cup {p}
           /\ pages' \in [Frame -> Page \cup {NoPage}]
           /\ pageTable' \in [Resident' -> Frame]
           /\ lruList' \in Seq(PageId)
           /\ PoolConsistent'
           /\ pages'[pageTable'[p]] = NewPage(p, data)
           /\ \A q \in Kept(f) : pages'[pageTable'[q]] = PageOf(q)
  <1> DEFINE left == Kept(f)
  <1>1. /\ pages \in [Frame -> Page \cup {NoPage}]
        /\ pages' = [pages EXCEPT ![f] = NewPage(p, data)]
        /\ pageTable' = [q \in left \cup {p} |-> IF q = p THEN f ELSE pageTable[q]]
        /\ lruList' = <<p>> \o WithoutVictim(f)
    BY DEF Consistent, TypeOK, Install, Kept
  <1>2. Resident' = left \cup {p} /\ p \notin left /\ left \subseteq Resident
    BY <1>1 DEF Resident, Kept
  <1>3. /\ pageTable'[p] = f
        /\ \A q \in left : pageTable'[q] = pageTable[q]
    BY <1>1, <1>2
  <1>4. \A g \in Frame : pages'[g] = IF g = f THEN NewPage(p, data) ELSE pages[g]
    BY <1>1
  <1>5. NewPage(p, data) \in Page /\ NewPage(p, data).id = p /\ NewPage(p, data) # NoPage
    BY NewPageFacts, PageFields
  <1>6. pages' \in [Frame -> Page \cup {NoPage}]
    BY <1>1, <1>5
  <1>7. ASSUME NEW q \in left
        PROVE  /\ pageTable[q] \in Frame \ {f}
               /\ pages'[pageTable'[q]] = PageOf(q)
               /\ PageOf(q) # NoPage /\ PageOf(q).id = q
    <2>1. q \in Resident
      BY <1>2
    <2>2. pageTable[q] \in Frame /\ PageOf(q) \in Page /\ PageOf(q).id = q
      BY <2>1, ResidentFacts
    <2>3. PageOf(q) # NoPage
      BY <2>2, PageFields
    <2>4. pageTable[q] # f
      BY <1>7, <2>2, <2>3 DEF PageOf, Kept
    <2> QED
      BY <1>3, <1>4, <2>2, <2>3, <2>4 DEF PageOf
  <1>8. pageTable' \in [Resident' -> Frame]
    BY <1>1, <1>2, <1>7
  <1>9. /\ WithoutVictim(f) \in Seq(PageId)
        /\ Range(WithoutVictim(f)) = left
        /\ IsInjective(WithoutVictim(f))
    <2>1. lruList \in Seq(PageId) /\ Range(lruList) = Resident /\ IsInjective(lruList)
      BY DEF Consistent, TypeOK, PoolConsistent
    <2>2. CASE pages[f] = NoPage
      BY <2>1, <2>2 DEF WithoutVictim, Kept
    <2>3. CASE pages[f] # NoPage
      <3>1. pages[f].id \in Range(lruList)
        BY <2>1, <2>3, FrameFacts
      <3>2. left = Range(lruList) \ {pages[f].id}
        BY <2>1, <2>3 DEF Kept
      <3> QED
        BY <2>1, <2>3, <3>1, <3>2, ErasedFacts DEF WithoutVictim
    <2> QED
      BY <2>2, <2>3
  <1>10. /\ lruList' \in Seq(PageId)
         /\ Range(lruList') = Resident'
         /\ IsInjective(lruList')
    BY <1>1, <1>2, <1>9, PushFacts
  <1>11. \A q \in Resident' : pages'[pageTable'[q]] # NoPage /\ pages'[pageTable'[q]].id = q
    BY <1>2, <1>3, <1>4, <1>5, <1>7
  <1>12. ASSUME NEW g \in Frame, pages'[g] # NoPage
         PROVE  pages'[g].id \in Resident' /\ pageTable'[pages'[g].id] = g
    <2>1. CASE g = f
      BY <1>2, <1>3, <1>4, <1>5, <2>1
    <2>2. CASE g # f
      <3>1. pages'[g] = pages[g] /\ pages[g] # NoPage
        BY <1>4, <1>12, <2>2
      <3>2. pages[g].id \in Resident /\ pageTable[pages[g].id] = g
        BY <3>1, FrameFacts
      <3>3. pages[f] # NoPage => pages[g].id # pages[f].id
        BY <2>2, <3>2, FrameFacts
      <3>4. pages[g].id \in left
        BY <3>2, <3>3 DEF Kept
      <3> QED
        BY <1>2, <1>3, <3>1, <3>2, <3>4
    <2> QED
      BY <2>1, <2>2
  <1>13. PoolConsistent'
    BY <1>10, <1>11, <1>12 DEF PoolConsistent, PageOf
  <1> QED
    BY <1>2, <1>3, <1>4, <1>6, <1>7, <1>8, <1>10, <1>13

-----------------------------------------------------------------------------
(* The users of a page. *)

LEMMA UsersFinite ==
    ASSUME NEW p
    PROVE  IsFiniteSet(Users(p)) /\ Cardinality(Users(p)) \in Nat
  <1>1. Users(p) \subseteq Handle
    BY DEF Users
  <1>2. IsFiniteSet(Users(p))
    BY <1>1, PoolAssumption, FS_Subset
  <1> QED
    BY <1>2, FS_CardinalityType

\* A handle is given page p.
LEMMA HandleGiven ==
    ASSUME TypeOK, UnsavedInUse, NEW h \in Handle, NEW p \in PageId, using[h] = NoPage,
           using' = [using EXCEPT ![h] = p], unsaved' = unsaved
    PROVE  /\ Users(p)' = Users(p) \cup {h} /\ h \notin Users(p)
           /\ Cardinality(Users(p)') = Cardinality(Users(p)) + 1
           /\ \A q \in PageId : q # p => Users(q)' = Users(q)
           /\ using' \in [Handle -> PageId \cup {NoPage}]
           /\ UnsavedInUse'
           /\ UnsavedPages' = UnsavedPages
  <1>1. using \in [Handle -> PageId \cup {NoPage}] /\ unsaved \subseteq Handle
    BY DEF TypeOK
  <1>2. \A g \in Handle : using'[g] = IF g = h THEN p ELSE using[g]
    BY <1>1
  <1>3. p # NoPage /\ \A q \in PageId : q # NoPage
    BY PoolAssumption
  <1>4. Users(p)' = Users(p) \cup {h} /\ h \notin Users(p)
    BY <1>2, <1>3 DEF Users
  <1>5. \A q \in PageId : q # p => Users(q)' = Users(q)
    BY <1>2, <1>3 DEF Users
  <1>6. Cardinality(Users(p)') = Cardinality(Users(p)) + 1
    BY <1>4, UsersFinite, FS_AddElement
  <1>7. h \notin unsaved
    BY DEF UnsavedInUse
  <1>8. UnsavedInUse'
    BY <1>1, <1>2, <1>7 DEF UnsavedInUse
  <1>9. UnsavedPages' = UnsavedPages
    BY <1>1, <1>2, <1>7 DEF UnsavedPages
  <1> QED
    BY <1>1, <1>4, <1>5, <1>6, <1>8, <1>9

\* A handle gives its page back.
LEMMA HandleReturned ==
    ASSUME TypeOK, UnsavedInUse, NEW h \in Handle, NEW p \in PageId, using[h] = p,
           using' = [using EXCEPT ![h] = NoPage], unsaved' = unsaved \ {h}
    PROVE  /\ h \in Users(p)
           /\ Cardinality(Users(p)') = Cardinality(Users(p)) - 1
           /\ Cardinality(Users(p)) - 1 \in Nat
           /\ \A q \in PageId : q # p => Users(q)' = Users(q)
           /\ using' \in [Handle -> PageId \cup {NoPage}]
           /\ UnsavedInUse'
           /\ UnsavedPages' = {using[g] : g \in unsaved \ {h}}
  <1>1. using \in [Handle -> PageId \cup {NoPage}] /\ unsaved \subseteq Handle
    BY DEF TypeOK
  <1>2. \A g \in Handle : using'[g] = IF g = h THEN NoPage ELSE using[g]
    BY <1>1
  <1>3. p # NoPage /\ \A q \in PageId : q # NoPage
    BY PoolAssumption
  <1>4. Users(p)' = Users(p) \ {h} /\ h \in Users(p)
    BY <1>2, <1>3 DEF Users
  <1>5. \A q \in PageId : q # p => Users(q)' = Users(q)
    BY <1>2, <1>3 DEF Users
  <1>6. Cardinality(Users(p)') = Cardinality(Users(p)) - 1
    BY <1>4, UsersFinite, FS_RemoveElement
  <1>7. Cardinality(Users(p)) - 1 \in Nat
    BY <1>6, UsersFinite, <1>4, FS_RemoveElement, FS_CardinalityType
  <1>8. UnsavedInUse'
    BY <1>1, <1>2 DEF UnsavedInUse
  <1>9. UnsavedPages' = {using[g] : g \in unsaved \ {h}}
    BY <1>1, <1>2 DEF UnsavedPages
  <1> QED
    BY <1>1, <1>4, <1>5, <1>6, <1>7, <1>8, <1>9

\* A page with a pin count of zero has no users, and nobody wrote it
\* unannounced.
LEMMA NoPinsNoUsers ==
    ASSUME TypeOK, PinsAreUsers, UnsavedInUse, NEW p \in Resident, PageOf(p).pins = 0
    PROVE  Users(p) = {} /\ p \notin UnsavedPages
  <1>1. Cardinality(Users(p)) = 0
    BY DEF PinsAreUsers
  <1>2. Users(p) = {}
    BY <1>1, UsersFinite, FS_EmptySet
  <1>3. \A h \in unsaved : using[h] # p
    BY <1>2 DEF Users, TypeOK
  <1> QED
    BY <1>2, <1>3 DEF UnsavedPages

\* findVictim takes no frame whose page is in use.
LEMMA VictimFacts ==
    ASSUME Consistent, PinsAreUsers, UnsavedInUse, NEW f \in Frame, findVictim(f), pages[f] # NoPage
    PROVE  Users(pages[f].id) = {} /\ pages[f].id \notin UnsavedPages
  <1>1. f \notin EmptyFrames
    BY DEF EmptyFrames
  <1>2. PICK i \in UnpinnedPositions : f = pageTable[lruList[i]]
    BY <1>1 DEF findVictim
  <1>3. lruList[i] \in Resident /\ PageOf(lruList[i]).pins = 0
    BY <1>2, LenProperties DEF UnpinnedPositions, Consistent, TypeOK, PoolConsistent, Range
  <1>4. PageOf(lruList[i]) = pages[f] /\ pages[f].id = lruList[i]
    BY <1>2, <1>3, ResidentFacts DEF PageOf
  <1>5. pages[f].id \in Resident /\ PageOf(pages[f].id).pins = 0
    BY <1>3, <1>4
  <1> QED
    BY <1>5, NoPinsNoUsers DEF Consistent

-----------------------------------------------------------------------------
(* The inductive invariant.  NoLostUpdate alone says nothing of what the file *)
(* of a resident page holds, and so nothing of the page once it is evicted:   *)
(* CleanIsOnDisk does, and it needs the pin counts to be right for a page     *)
(* that was written and not yet announced to be out of findVictim's reach.    *)

IInv ==
    /\ Consistent
    /\ PinsAreUsers
    /\ UnsavedInUse
    /\ NoLostUpdate
    /\ CleanIsOnDisk

\* NoLostUpdate and CleanIsOnDisk for one page.
Safe(q) ==
    q \notin hurt =>
        /\ q \in Resident =>
            /\ PageOf(q).data = content[q]
            /\ ~PageOf(q).dirty /\ q \notin UnsavedPages => FileData(q) = content[q]
        /\ q \notin Resident => FileData(q) = content[q]

LEMMA SafePages ==
    ASSUME Resident \subseteq PageId
    PROVE  NoLostUpdate /\ CleanIsOnDisk <=> \A q \in PageId : Safe(q)
  BY DEF NoLostUpdate, CleanIsOnDisk, Safe, View

LEMMA SafePagesNext ==
    ASSUME Resident' \subseteq PageId, \A q \in PageId : Safe(q)'
    PROVE  NoLostUpdate' /\ CleanIsOnDisk'
  BY DEF NoLostUpdate, CleanIsOnDisk, Safe, View

\* The pages of an initial state.
LEMMA InitInv == Init => IInv
  <1> SUFFICES ASSUME Init PROVE IInv
    OBVIOUS
  <1>1. Resident = {} /\ unsaved = {} /\ lruList = <<>>
    BY DEF Init, EmptyPool, Resident
  <1>2. TypeOK
    <2>1. lruList \in Seq(PageId)
      BY <1>1
    <2>2. pageTable \in [DOMAIN pageTable -> Frame] /\ DOMAIN pageTable \subseteq PageId
      BY DEF Init, EmptyPool
    <2> QED
      BY <2>1, <2>2, PoolAssumption DEF Init, EmptyPool, TypeOK
  <1>3. PoolConsistent
    <2>1. Range(lruList) = {} /\ IsInjective(lruList)
      BY <1>1 DEF Range, IsInjective
    <2> QED
      BY <1>1, <2>1 DEF Init, EmptyPool, PoolConsistent
  <1>4. PinsAreUsers
    BY <1>1 DEF Init, PinsAreUsers
  <1>5. \A q \in PageId : Safe(q)
    BY <1>1 DEF Init, Safe, FileData
  <1> QED
    BY <1>1, <1>2, <1>3, <1>4, <1>5, SafePages DEF IInv, Consistent, UnsavedInUse

LEMMA FetchHitStep ==
    ASSUME IInv, NEW h \in Handle, NEW p \in PageId, FetchHit(h, p)
    PROVE  IInv'
  <1> DEFINE page == [PageOf(p) EXCEPT !.pins = PageOf(p).pins + 1]
  <1> USE DEF IInv
  <1>1. /\ using[h] = NoPage /\ p \in Resident
        /\ SetPage(p, page)
        /\ lruList' = <<p>> \o Erased(p)
        /\ using' = [using EXCEPT ![h] = p]
        /\ UNCHANGED <<pageTable, disk, unsaved, content, hurt>>
    BY DEF FetchHit, MoveToFront
  <1>2. TypeOK /\ PageOf(p) \in Page /\ PageOf(p).id = p
    BY <1>1, ResidentFacts DEF Consistent
  <1>3. /\ page \in Page /\ page.id = p /\ page.data = PageOf(p).data
        /\ page.dirty = PageOf(p).dirty /\ page.pins = PageOf(p).pins + 1
    BY <1>2 DEF Page
  <1> HIDE DEF page
  <1>4. /\ pages' \in [Frame -> Page \cup {NoPage}]
        /\ \A q \in Resident : pages'[pageTable'[q]] = IF q = p THEN page ELSE PageOf(q)
        /\ \A q \in Resident : pages'[pageTable'[q]] # NoPage /\ pages'[pageTable'[q]].id = q
        /\ \A f \in Frame : pages'[f] # NoPage =>
                pages'[f].id \in Resident' /\ pageTable'[pages'[f].id] = f
    BY <1>1, <1>3, SetPageFacts
  <1>5. /\ lruList' \in Seq(PageId)
        /\ Range(lruList') = Resident
        /\ IsInjective(lruList')
    <2>1. lruList \in Seq(PageId) /\ Range(lruList) = Resident /\ IsInjective(lruList)
      BY DEF Consistent, TypeOK, PoolConsistent
    <2>2. /\ Erased(p) \in Seq(PageId)
          /\ Range(Erased(p)) = Resident \ {p}
          /\ IsInjective(Erased(p))
      BY <1>1, <2>1, ErasedFacts
    <2>3. (Resident \ {p}) \cup {p} = Resident /\ p \notin Resident \ {p}
      BY <1>1
    <2> QED
      BY <1>1, <2>2, <2>3, PushFacts
  <1>6. Resident' = Resident
    BY <1>1 DEF Resident
  <1>7. /\ Users(p)' = Users(p) \cup {h}
        /\ Cardinality(Users(p)') = Cardinality(Users(p)) + 1
        /\ \A q \in PageId : q # p => Users(q)' = Users(q)
        /\ using' \in [Handle -> PageId \cup {NoPage}]
        /\ UnsavedInUse'
        /\ UnsavedPages' = UnsavedPages
    BY <1>1, <1>2, HandleGiven
  <1>8. Consistent'
    BY <1>1, <1>4, <1>5, <1>6, <1>7 DEF Consistent, TypeOK, PoolConsistent, PageOf, Resident
  <1>9. PinsAreUsers'
    <2>1. \A g \in Handle : using'[g] # NoPage => using'[g] \in Resident'
      BY <1>1, <1>2, <1>6 DEF PinsAreUsers, TypeOK
    <2>2. \A q \in Resident : pages'[pageTable'[q]].pins = Cardinality(Users(q)')
      <3> TAKE q \in Resident
      <3>1. PageOf(q).pins = Cardinality(Users(q))
        BY DEF PinsAreUsers
      <3>2. CASE q = p
        <4>1. pages'[pageTable'[p]] = page
          BY <1>1, <1>4
        <4>2. pages'[pageTable'[p]].pins = Cardinality(Users(p)')
          BY <1>3, <1>7, <3>1, <3>2, <4>1
        <4> QED
          BY <3>2, <4>2
      <3>3. CASE q # p
        BY <1>2, <1>4, <1>7, <3>1, <3>3 DEF TypeOK, Resident
      <3> QED
        BY <3>2, <3>3
    <2> QED
      BY <1>6, <2>1, <2>2 DEF PinsAreUsers, PageOf
  <1>10. \A q \in PageId : Safe(q)'
    <2> TAKE q \in PageId
    <2>1. Safe(q)
      BY <1>2, SafePages DEF TypeOK, Resident
    <2>2. q \in Resident =>
            PageOf(q)'.data = PageOf(q).data /\ PageOf(q)'.dirty = PageOf(q).dirty
      BY <1>3, <1>4 DEF PageOf
    <2> QED
      BY <1>1, <1>6, <1>7, <2>1, <2>2 DEF Safe, FileData
  <1>11. NoLostUpdate' /\ CleanIsOnDisk'
    <2>1. Resident' \subseteq PageId
      BY <1>8 DEF Consistent, TypeOK, Resident
    <2> QED
      BY <1>10, <2>1, SafePagesNext
  <1> QED
    BY <1>7, <1>8, <1>9, <1>11

\* What becomes of the file of the page in frame f when the frame is taken.
LEMMA WriteBackFacts ==
    ASSUME IInv, NEW f \in Frame, findVictim(f), NEW extra \in SUBSET PageId,
           WriteBack(f, extra)
    PROVE  /\ disk' \in [PageId -> Data \cup {NoPage}]
           /\ hurt' \subseteq PageId /\ hurt \cup extra \subseteq hurt'
           /\ \A q \in PageId :
                pages[f] = NoPage \/ q # pages[f].id => FileData(q)' = FileData(q)
           /\ \A q \in Resident :
                q \notin Kept(f) /\ q \notin hurt' => FileData(q)' = content[q]
  <1> USE DEF IInv
  <1>1. /\ disk \in [PageId -> Data \cup {NoPage}] /\ hurt \subseteq PageId
        /\ Resident \subseteq PageId /\ Zero \in Data /\ NoPage \notin Data
    BY PoolAssumption DEF Consistent, TypeOK, Resident
  <1>2. CASE pages[f] = NoPage
    BY <1>1, <1>2 DEF WriteBack, FileData, Kept
  <1>3. CASE pages[f] # NoPage
    <2>0. PICK v \in PageId : v = pages[f].id
      BY <1>3, FrameFacts, PageFields
    <2>1. /\ pages[f] \in Page /\ v \in Resident /\ PageOf(v) = pages[f]
          /\ v \notin UnsavedPages
      BY <1>3, <2>0, FrameFacts, VictimFacts
    <2>2. pages[f].data \in Data
      BY <2>1, PageFields
    <2>3. v \notin hurt =>
            /\ pages[f].data = content[v]
            /\ ~pages[f].dirty => FileData(v) = content[v]
      BY <1>1, <2>1, <2>2, SafePages DEF Safe
    <2>4. \A q \in Resident : q \notin Kept(f) => q = v
      BY <1>3, <2>0 DEF Kept
    <2>5. CASE ~pages[f].dirty
      <3>1. disk' = disk /\ hurt' = hurt \cup extra
        BY <1>3, <2>5 DEF WriteBack
      <3> QED
        BY <1>1, <2>3, <2>4, <2>5, <3>1 DEF FileData
    <2>6. CASE pages[f].dirty
      <3>1. \/ disk' = [disk EXCEPT ![v] = pages[f].data] /\ hurt' = hurt \cup extra
            \/ /\ disk' \in {disk, [disk EXCEPT ![v] = Zero]}
               /\ hurt' = hurt \cup extra \cup {v}
        BY <1>3, <2>0, <2>6 DEF WriteBack
      <3>2. CASE disk' = [disk EXCEPT ![v] = pages[f].data] /\ hurt' = hurt \cup extra
        <4>1. \A q \in PageId : disk'[q] = IF q = v THEN pages[f].data ELSE disk[q]
          BY <1>1, <3>2
        <4>2. disk' \in [PageId -> Data \cup {NoPage}]
          BY <1>1, <2>2, <3>2
        <4>3. FileData(v)' = pages[f].data
          BY <1>1, <2>2, <4>1 DEF FileData
        <4>4. \A q \in PageId : q # v => FileData(q)' = FileData(q)
          BY <4>1 DEF FileData
        <4> QED
          BY <1>1, <1>3, <2>0, <2>3, <2>4, <3>2, <4>2, <4>3, <4>4
      <3>3. CASE /\ disk' \in {disk, [disk EXCEPT ![v] = Zero]}
                 /\ hurt' = hurt \cup extra \cup {v}
        <4>1. \A q \in PageId : q # v => disk'[q] = disk[q]
          BY <1>1, <3>3
        <4>2. disk' \in [PageId -> Data \cup {NoPage}]
          BY <1>1, <2>2, <3>3
        <4>3. \A q \in PageId : q # v => FileData(q)' = FileData(q)
          BY <4>1 DEF FileData
        <4> QED
          BY <1>1, <1>3, <2>0, <2>2, <2>4, <3>3, <4>2, <4>3
      <3> QED
        BY <3>1, <3>2, <3>3
    <2> QED
      BY <2>5, <2>6
  <1> QED
    BY <1>2, <1>3

\* A page is brought in: what it holds is what it should hold, or it is hurt.
LEMMA LoadStep ==
    ASSUME IInv, NEW h \in Handle, NEW p \in PageId, NEW data \in Data,
           NEW extra \in SUBSET {p}, Load(h, p, data, extra),
           content' \in [PageId -> Data],
           \A q \in PageId \ {p} : content'[q] = content[q],
           p \notin hurt \cup extra => content'[p] = data /\ FileData(p) = data
    PROVE  IInv'
  <1> USE DEF IInv
  <1>1. /\ using[h] = NoPage /\ p \notin Resident
        /\ using' = [using EXCEPT ![h] = p]
        /\ unsaved' = unsaved
    BY DEF Load
  <1>2. PICK f \in Frame :
            findVictim(f) /\ WriteBack(f, extra) /\ Install(f, p, data)
    BY DEF Load
  <1>3. TypeOK /\ Resident \subseteq PageId
    BY DEF Consistent, TypeOK, Resident
  <1>4. /\ Resident' = Kept(f) \cup {p}
        /\ pages' \in [Frame -> Page \cup {NoPage}]
        /\ pageTable' \in [Resident' -> Frame]
        /\ lruList' \in Seq(PageId)
        /\ PoolConsistent'
        /\ pages'[pageTable'[p]] = NewPage(p, data)
        /\ \A q \in Kept(f) : pages'[pageTable'[q]] = PageOf(q)
    BY <1>1, <1>2, InstallFacts
  <1>5. /\ disk' \in [PageId -> Data \cup {NoPage}]
        /\ hurt' \subseteq PageId /\ hurt \cup extra \subseteq hurt'
        /\ \A q \in PageId :
             pages[f] = NoPage \/ q # pages[f].id => FileData(q)' = FileData(q)
        /\ \A q \in Resident :
             q \notin Kept(f) /\ q \notin hurt' => FileData(q)' = content[q]
    <2>1. extra \in SUBSET PageId
      OBVIOUS
    <2> QED
      BY <1>2, <2>1, WriteBackFacts
  <1>6. /\ Users(p)' = Users(p) \cup {h}
        /\ \A q \in PageId : q # p => Users(q)' = Users(q)
        /\ using' \in [Handle -> PageId \cup {NoPage}]
        /\ UnsavedInUse'
        /\ UnsavedPages' = UnsavedPages
    BY <1>1, <1>3, HandleGiven
  <1>7. Kept(f) \subseteq Resident /\ p \notin Kept(f)
    BY <1>1 DEF Kept
  <1>8. \A q \in Kept(f) : pages[f] = NoPage \/ q # pages[f].id
    BY DEF Kept
  <1>9. \A q \in PageId : q \notin Resident => pages[f] = NoPage \/ q # pages[f].id
    BY FrameFacts
  <1>10. /\ NewPage(p, data).data = data
         /\ NewPage(p, data).pins = 1
    BY NewPageFacts
  <1>11. Consistent'
    BY <1>1, <1>3, <1>4, <1>5, <1>6, <1>7 DEF Consistent, TypeOK, Resident
  <1>12. PinsAreUsers'
    <2>1. p \notin UnsavedPages /\ Users(p) = {}
      BY <1>1, <1>3, PoolAssumption DEF PinsAreUsers, Users, UnsavedPages, TypeOK
    <2>2. Cardinality(Users(p)') = 1
      <3>1. Users(p)' = {h}
        BY <1>6, <2>1
      <3> QED
        BY <3>1, FS_Singleton
    <2>3. \A g \in Handle : using'[g] # NoPage => using'[g] \in Resident'
      <3> SUFFICES ASSUME NEW g \in Handle, using'[g] # NoPage, g # h
                   PROVE  using'[g] \in Resident'
        BY <1>1, <1>3, <1>4 DEF TypeOK
      <3>1. using'[g] = using[g] /\ using[g] \in Resident
        BY <1>1, <1>3 DEF PinsAreUsers, TypeOK
      <3>2. pages[f] # NoPage => using[g] # pages[f].id
        BY <1>2, VictimFacts DEF Users
      <3>3. using[g] \in Kept(f)
        BY <3>1, <3>2 DEF Kept
      <3> QED
        BY <1>4, <3>1, <3>3
    <2>4. \A q \in Resident' : pages'[pageTable'[q]].pins = Cardinality(Users(q)')
      <3>1. ASSUME NEW q \in Kept(f)
            PROVE  pages'[pageTable'[q]].pins = Cardinality(Users(q)')
        <4>1. q \in Resident /\ q \in PageId /\ q # p
          BY <1>3, <1>7
        <4>2. PageOf(q).pins = Cardinality(Users(q))
          BY <4>1 DEF PinsAreUsers
        <4> QED
          BY <1>4, <1>6, <4>1, <4>2
      <3>2. pages'[pageTable'[p]].pins = Cardinality(Users(p)')
        BY <1>4, <1>10, <2>2
      <3> QED
        BY <1>4, <3>1, <3>2
    <2> QED
      BY <2>3, <2>4 DEF PinsAreUsers, PageOf
  <1>13. \A q \in PageId : Safe(q)'
    <2> SUFFICES ASSUME NEW q \in PageId, q \notin hurt'
                 PROVE  Safe(q)'
      BY DEF Safe
    <2>1. Safe(q) /\ q \notin hurt
      BY <1>3, <1>5, SafePages
    <2>2. CASE q = p
      <3>1. content'[p] = data /\ FileData(p) = data
        BY <1>5, <2>2
      <3>2. FileData(p)' = FileData(p)
        BY <1>1, <1>5, <1>9
      <3>3. PageOf(p)'.data = data /\ p \in Resident'
        BY <1>4, <1>10 DEF PageOf
      <3>4. Safe(p)'
        BY <3>1, <3>2, <3>3 DEF Safe
      <3> QED
        BY <2>2, <3>4
    <2>3. CASE q \in Kept(f)
      <3>1. q \in Resident /\ q \in Resident' /\ q # p /\ FileData(q)' = FileData(q)
        BY <1>4, <1>5, <1>7, <1>8, <2>3
      <3>2. PageOf(q)' = PageOf(q) /\ content'[q] = content[q]
        BY <1>4, <2>3, <3>1 DEF PageOf
      <3> QED
        BY <1>6, <2>1, <3>1, <3>2 DEF Safe
    <2>4. CASE q # p /\ q \notin Kept(f)
      <3>1. q \notin Resident' /\ content'[q] = content[q]
        BY <1>4, <2>4
      <3>2. FileData(q)' = content[q]
        <4>1. CASE q \in Resident
          BY <1>5, <2>4, <4>1
        <4>2. CASE q \notin Resident
          BY <1>5, <1>9, <2>1, <4>2 DEF Safe
        <4> QED
          BY <4>1, <4>2
      <3> QED
        BY <3>1, <3>2 DEF Safe
    <2> QED
      BY <2>2, <2>3, <2>4
  <1>14. NoLostUpdate' /\ CleanIsOnDisk'
    <2>1. Resident' \subseteq PageId
      BY <1>11 DEF Consistent, TypeOK, Resident
    <2> QED
      BY <1>13, <2>1, SafePagesNext
  <1> QED
    BY <1>6, <1>11, <1>12, <1>14

LEMMA FetchMissStep ==
    ASSUME IInv, NEW h \in Handle, NEW p \in PageId, FetchMiss(h, p)
    PROVE  IInv'
  <1>1. /\ Resident \subseteq PageId /\ p \notin Resident
        /\ content \in [PageId -> Data] /\ content' = content
        /\ FileData(p) \in Data
    BY PoolAssumption DEF IInv, Consistent, TypeOK, Resident, FetchMiss, Load, FileData
  <1>2. p \notin hurt => content[p] = FileData(p)
    BY <1>1, SafePages DEF IInv, Safe
  <1>3. Load(h, p, FileData(p), {}) /\ {} \in SUBSET {p}
    BY DEF FetchMiss
  <1> QED
    BY <1>1, <1>2, <1>3, LoadStep

LEMMA AllocateStep ==
    ASSUME IInv, NEW h \in Handle, NEW p \in PageId, allocatePage(h, p)
    PROVE  IInv'
  <1> DEFINE extra == IF disk[p] = NoPage THEN {} ELSE {p}
  <1>1. /\ Load(h, p, Zero, extra) /\ extra \in SUBSET {p}
        /\ content' = [content EXCEPT ![p] = Zero]
        /\ content \in [PageId -> Data] /\ Zero \in Data
    BY PoolAssumption DEF IInv, Consistent, TypeOK, allocatePage
  <1>2. /\ content' \in [PageId -> Data]
        /\ \A q \in PageId \ {p} : content'[q] = content[q]
        /\ content'[p] = Zero
    BY <1>1
  <1>3. p \notin hurt \cup extra => FileData(p) = Zero
    BY DEF FileData
  <1> HIDE DEF extra
  <1> QED
    BY <1>1, <1>2, <1>3, LoadStep

\* The pool after the page of p alone has changed.
LEMMA PageChanged ==
    ASSUME IInv, NEW p \in Resident, NEW page \in Page, page.id = p,
           SetPage(p, page), UNCHANGED <<pageTable, lruList>>
    PROVE  /\ Resident' = Resident
           /\ pages' \in [Frame -> Page \cup {NoPage}]
           /\ PoolConsistent'
           /\ PageOf(p)' = page
           /\ \A q \in Resident : q # p => PageOf(q)' = PageOf(q)
  <1>1. /\ pages' \in [Frame -> Page \cup {NoPage}]
        /\ \A q \in Resident : pages'[pageTable'[q]] = IF q = p THEN page ELSE PageOf(q)
        /\ \A q \in Resident : pages'[pageTable'[q]] # NoPage /\ pages'[pageTable'[q]].id = q
        /\ \A f \in Frame : pages'[f] # NoPage =>
                pages'[f].id \in Resident' /\ pageTable'[pages'[f].id] = f
    BY SetPageFacts DEF IInv
  <1>2. Resident' = Resident
    BY DEF Resident
  <1>3. Range(lruList') = Resident' /\ IsInjective(lruList')
    BY <1>2 DEF IInv, Consistent, PoolConsistent
  <1> QED
    BY <1>1, <1>2, <1>3 DEF PoolConsistent, PageOf

LEMMA UnpinStep ==
    ASSUME IInv, NEW h \in Handle, NEW isDirty \in BOOLEAN, unpinPage(h, isDirty)
    PROVE  IInv'
  <1> USE DEF IInv
  <1>1. PICK p \in PageId : p = using[h]
    BY DEF unpinPage, Consistent, TypeOK
  <1> DEFINE page == [PageOf(p) EXCEPT !.pins = PageOf(p).pins - 1,
                                       !.dirty = PageOf(p).dirty \/ isDirty]
             announced == isDirty \/ PageOf(p).dirty \/ \E g \in unsaved \ {h} : using[g] = p
  <1>2. /\ using[h] # NoPage
        /\ SetPage(p, page)
        /\ using' = [using EXCEPT ![h] = NoPage]
        /\ unsaved' = unsaved \ {h}
        /\ hurt' = IF h \in unsaved /\ ~announced THEN hurt \cup {p} ELSE hurt
        /\ UNCHANGED <<pageTable, lruList, disk, content>>
    BY <1>1 DEF unpinPage
  <1>3. TypeOK /\ p \in Resident /\ Resident \subseteq PageId
    BY <1>1, <1>2 DEF Consistent, TypeOK, PinsAreUsers, Resident
  <1>4. /\ Cardinality(Users(p)') = Cardinality(Users(p)) - 1
        /\ Cardinality(Users(p)) - 1 \in Nat
        /\ \A q \in PageId : q # p => Users(q)' = Users(q)
        /\ using' \in [Handle -> PageId \cup {NoPage}]
        /\ UnsavedInUse'
        /\ UnsavedPages' = {using[g] : g \in unsaved \ {h}}
    BY <1>1, <1>2, <1>3, HandleReturned
  <1>5. /\ PageOf(p) \in Page /\ PageOf(p).id = p
        /\ PageOf(p).pins = Cardinality(Users(p))
    BY <1>3, ResidentFacts DEF PinsAreUsers
  <1>6. /\ page \in Page /\ page.id = p /\ page.data = PageOf(p).data
        /\ page.pins = Cardinality(Users(p)')
    BY <1>4, <1>5 DEF Page
  <1>7. page.dirty = FALSE => ~isDirty /\ ~PageOf(p).dirty
    BY <1>5 DEF Page
  <1> HIDE DEF page
  <1>8. /\ Resident' = Resident
        /\ pages' \in [Frame -> Page \cup {NoPage}]
        /\ PoolConsistent'
        /\ PageOf(p)' = page
        /\ \A q \in Resident : q # p => PageOf(q)' = PageOf(q)
    BY <1>2, <1>3, <1>6, PageChanged
  <1>9. Consistent'
    BY <1>1, <1>2, <1>3, <1>4, <1>8 DEF Consistent, TypeOK, Resident
  <1>10. PinsAreUsers'
    <2>1. \A g \in Handle : using'[g] # NoPage => using'[g] \in Resident'
      BY <1>2, <1>3, <1>8 DEF PinsAreUsers, TypeOK
    <2>2. \A q \in Resident : PageOf(q)'.pins = Cardinality(Users(q)')
      <3> TAKE q \in Resident
      <3>1. CASE q = p
        <4>1. PageOf(p)'.pins = Cardinality(Users(p)')
          BY <1>6, <1>8
        <4> QED
          BY <3>1, <4>1
      <3>2. CASE q # p
        <4>1. PageOf(q).pins = Cardinality(Users(q))
          BY DEF PinsAreUsers
        <4> QED
          BY <1>3, <1>4, <1>8, <3>2, <4>1
      <3> QED
        BY <3>1, <3>2
    <2> QED
      BY <1>8, <2>1, <2>2 DEF PinsAreUsers
  <1>11. \A q \in PageId : Safe(q)'
    <2> SUFFICES ASSUME NEW q \in PageId, q \notin hurt'
                 PROVE  Safe(q)'
      BY DEF Safe
    <2>1. Safe(q) /\ q \notin hurt
      BY <1>2, <1>3, SafePages
    <2>2. FileData(q)' = FileData(q) /\ content'[q] = content[q]
      BY <1>2 DEF FileData
    <2>3. CASE q # p
      <3>1. q \in UnsavedPages => q \in UnsavedPages'
        BY <1>1, <1>4, <2>3 DEF UnsavedPages
      <3> QED
        BY <1>8, <2>1, <2>2, <2>3, <3>1 DEF Safe
    <2>4. CASE q = p
      <3>1. PageOf(p).data = content[p]
        BY <1>3, <2>1, <2>4 DEF Safe
      <3>2. ASSUME ~page.dirty, p \notin UnsavedPages'
            PROVE  FileData(p) = content[p]
        <4>1. page.dirty = FALSE
          BY <1>6, <3>2, PageFields
        <4>2. ~announced
          BY <1>4, <1>7, <3>2, <4>1
        <4>3. h \notin unsaved
          BY <1>2, <2>4, <4>2
        <4>4. p \notin UnsavedPages
          BY <1>4, <3>2, <4>3 DEF UnsavedPages
        <4> QED
          BY <1>3, <1>7, <2>1, <2>4, <4>1, <4>4 DEF Safe
      <3>3. PageOf(p)'.data = content[p] /\ PageOf(p)'.dirty = page.dirty
        BY <1>6, <1>8, <3>1
      <3>4. Safe(p)'
        BY <1>3, <1>8, <2>2, <2>4, <3>2, <3>3 DEF Safe
      <3> QED
        BY <2>4, <3>4
    <2> QED
      BY <2>3, <2>4
  <1>12. NoLostUpdate' /\ CleanIsOnDisk'
    BY <1>3, <1>8, <1>11, SafePagesNext
  <1> QED
    BY <1>4, <1>9, <1>10, <1>12

LEMMA WriteDataStep ==
    ASSUME IInv, NEW h \in Handle, NEW data \in Data, NEW setDirty \in BOOLEAN,
           WriteData(h, data, setDirty)
    PROVE  IInv'
  <1> USE DEF IInv
  <1>1. PICK p \in PageId : p = using[h]
    BY DEF WriteData, Consistent, TypeOK
  <1> DEFINE page == [PageOf(p) EXCEPT !.data = data, !.dirty = PageOf(p).dirty \/ setDirty]
  <1>2. /\ using[h] # NoPage
        /\ SetPage(p, page)
        /\ unsaved' = IF setDirty THEN unsaved ELSE unsaved \cup {h}
        /\ content' = [content EXCEPT ![p] = data]
        /\ hurt' = hurt \ {p}
        /\ UNCHANGED <<pageTable, lruList, disk, using>>
    BY <1>1 DEF WriteData
  <1>3. TypeOK /\ p \in Resident /\ Resident \subseteq PageId
    BY <1>1, <1>2 DEF Consistent, TypeOK, PinsAreUsers, Resident
  <1>4. PageOf(p) \in Page /\ PageOf(p).id = p
    BY <1>3, ResidentFacts
  <1>5. /\ page \in Page /\ page.id = p /\ page.data = data
        /\ page.pins = PageOf(p).pins
        /\ ~page.dirty => ~setDirty
    BY <1>4 DEF Page
  <1> HIDE DEF page
  <1>6. /\ Resident' = Resident
        /\ pages' \in [Frame -> Page \cup {NoPage}]
        /\ PoolConsistent'
        /\ PageOf(p)' = page
        /\ \A q \in Resident : q # p => PageOf(q)' = PageOf(q)
    BY <1>2, <1>3, <1>5, PageChanged
  <1>7. content' \in [PageId -> Data] /\ unsaved' \subseteq Handle
    BY <1>2, <1>3 DEF TypeOK
  <1>8. Consistent'
    BY <1>2, <1>3, <1>6, <1>7 DEF Consistent, TypeOK, Resident
  <1>9. UnsavedInUse'
    BY <1>2 DEF UnsavedInUse
  <1>10. PinsAreUsers'
    <2>1. \A q \in PageId : Users(q)' = Users(q)
      BY <1>2 DEF Users
    <2>2. \A q \in Resident : PageOf(q)'.pins = PageOf(q).pins
      BY <1>5, <1>6
    <2> QED
      BY <1>2, <1>3, <1>6, <2>1, <2>2 DEF PinsAreUsers
  <1>11. \A q \in PageId : Safe(q)'
    <2> TAKE q \in PageId
    <2>1. Safe(q)
      BY <1>3, SafePages
    <2>2. \A g \in unsaved : g \in unsaved' /\ using'[g] = using[g]
      BY <1>2
    <2>3. CASE q # p
      <3>1. q \in UnsavedPages => q \in UnsavedPages'
        BY <2>2 DEF UnsavedPages
      <3>2. content'[q] = content[q] /\ FileData(q)' = FileData(q)
        BY <1>2, <1>3, <2>3 DEF FileData, TypeOK
      <3> QED
        BY <1>2, <1>6, <2>1, <2>3, <3>1, <3>2 DEF Safe
    <2>4. CASE q = p
      <3>1. content'[p] = data
        BY <1>2, <1>3 DEF TypeOK
      <3>2. ~setDirty => p \in UnsavedPages'
        <4>1. ~setDirty => h \in unsaved' /\ using'[h] = p
          BY <1>1, <1>2
        <4> QED
          BY <4>1 DEF UnsavedPages
      <3>3. PageOf(p)'.data = data /\ PageOf(p)'.dirty = page.dirty
        BY <1>5, <1>6
      <3>4. Safe(p)'
        BY <1>3, <1>5, <1>6, <3>1, <3>2, <3>3 DEF Safe
      <3> QED
        BY <2>4, <3>4
    <2> QED
      BY <2>3, <2>4
  <1>12. NoLostUpdate' /\ CleanIsOnDisk'
    BY <1>3, <1>6, <1>11, SafePagesNext
  <1> QED
    BY <1>8, <1>9, <1>10, <1>12

LEMMA FlushStep ==
    ASSUME IInv, NEW written \in SUBSET DirtyPages, NEW torn \in SUBSET DirtyPages,
           FlushPages(written, torn)
    PROVE  IInv'
  <1> USE DEF IInv
  <1> DEFINE clean(f) == [pages[f] EXCEPT !.dirty = FALSE]
             flushed(f) == pages[f] # NoPage /\ pages[f].id \in written \cup torn
  <1>1. /\ disk' = [p \in PageId |-> IF p \in torn THEN Zero
                                     ELSE IF p \in written THEN PageOf(p).data ELSE disk[p]]
        /\ pages' = [f \in Frame |-> IF flushed(f) THEN clean(f) ELSE pages[f]]
        /\ hurt' = hurt \cup torn
        /\ UNCHANGED <<pageTable, lruList, using, unsaved, content>>
    BY DEF FlushPages, WriteFiles
  <1>2. TypeOK /\ Resident \subseteq PageId /\ DirtyPages \subseteq Resident
    BY DEF Consistent, TypeOK, Resident, DirtyPages
  <1>3. ASSUME NEW f \in Frame, pages[f] # NoPage
        PROVE  /\ clean(f) \in Page /\ clean(f) # NoPage /\ clean(f).id = pages[f].id
               /\ clean(f).data = pages[f].data /\ clean(f).pins = pages[f].pins
               /\ clean(f).dirty = FALSE
    <2>1. pages[f] \in Page
      BY <1>3, FrameFacts
    <2>2. clean(f) \in Page
      BY <2>1 DEF Page
    <2> QED
      BY <2>1, <2>2, PageFields DEF Page
  <1>4. ASSUME NEW p \in DirtyPages
        PROVE  PageOf(p).data \in Data
    BY <1>2, <1>4, ResidentFacts, PageFields
  <1> HIDE DEF clean
  <1>5. pages' \in [Frame -> Page \cup {NoPage}]
    <2>1. \A f \in Frame : pages'[f] \in Page \cup {NoPage}
      BY <1>1, <1>2, <1>3 DEF TypeOK
    <2> QED
      BY <1>1, <2>1
  <1>6. Resident' = Resident
    BY <1>1 DEF Resident
  <1>7. ASSUME NEW q \in Resident
        PROVE  /\ PageOf(q)' # NoPage /\ PageOf(q)'.id = q
               /\ PageOf(q)'.data = PageOf(q).data /\ PageOf(q)'.pins = PageOf(q).pins
               /\ q \notin written \cup torn => PageOf(q)' = PageOf(q)
    <2>1. pageTable[q] \in Frame /\ pages[pageTable[q]].id = q /\ pages[pageTable[q]] # NoPage
      BY ResidentFacts, PageFields DEF PageOf
    <2>2. CASE q \in written \cup torn
      <3>1. PageOf(q)' = clean(pageTable[q])
        BY <1>1, <2>1, <2>2 DEF PageOf
      <3> QED
        BY <1>3, <2>1, <2>2, <3>1 DEF PageOf
    <2>3. CASE q \notin written \cup torn
      <3>1. PageOf(q)' = pages[pageTable[q]]
        BY <1>1, <2>1, <2>3 DEF PageOf
      <3> QED
        BY <2>1, <3>1 DEF PageOf
    <2> QED
      BY <2>2, <2>3
  <1>8. \A f \in Frame : pages'[f] # NoPage =>
            pages[f] # NoPage /\ pages'[f].id = pages[f].id
    BY <1>1, <1>3
  <1>9. PoolConsistent'
    BY <1>1, <1>6, <1>7, <1>8 DEF Consistent, PoolConsistent
  <1>10. disk' \in [PageId -> Data \cup {NoPage}]
    BY <1>1, <1>2, <1>4, PoolAssumption DEF TypeOK
  <1>11. Consistent'
    BY <1>1, <1>2, <1>5, <1>9, <1>10 DEF Consistent, TypeOK
  <1>12. PinsAreUsers'
    <2>1. \A q \in Resident : Users(q)' = Users(q)
      BY <1>1 DEF Users
    <2> QED
      BY <1>1, <1>6, <1>7, <2>1 DEF PinsAreUsers
  <1>13. UnsavedInUse' /\ UnsavedPages' = UnsavedPages
    BY <1>1 DEF UnsavedInUse, UnsavedPages
  <1>14. \A q \in PageId : Safe(q)'
    <2> SUFFICES ASSUME NEW q \in PageId, q \notin hurt'
                 PROVE  Safe(q)'
      BY DEF Safe
    <2>1. Safe(q) /\ q \notin hurt /\ q \notin torn
      BY <1>1, <1>2, SafePages
    <2>2. CASE q \in written
      <3>1. q \in Resident /\ q \in DirtyPages
        BY <1>2, <2>2
      <3>2. PageOf(q).data = content[q]
        BY <2>1, <3>1 DEF Safe
      <3>3. disk'[q] = PageOf(q).data /\ disk'[q] # NoPage
        BY <1>1, <1>4, <2>1, <2>2, <3>1, PoolAssumption
      <3>4. FileData(q)' = content[q]
        BY <3>2, <3>3 DEF FileData
      <3> QED
        BY <1>1, <1>6, <1>7, <3>1, <3>2, <3>4 DEF Safe
    <2>3. CASE q \notin written
      <3>1. FileData(q)' = FileData(q)
        BY <1>1, <2>1, <2>3 DEF FileData
      <3> QED
        BY <1>1, <1>6, <1>7, <1>13, <2>1, <2>3, <3>1 DEF Safe
    <2> QED
      BY <2>2, <2>3
  <1>15. NoLostUpdate' /\ CleanIsOnDisk'
    BY <1>2, <1>6, <1>14, SafePagesNext
  <1> QED
    BY <1>11, <1>12, <1>13, <1>15

LEMMA DeleteStep ==
    ASSUME IInv, NEW p \in PageId, deletePage(p)
    PROVE  IInv'
  <1> USE DEF IInv
  <1>1. /\ content' = [content EXCEPT ![p] = Zero]
        /\ hurt' = IF disk'[p] = NoPage THEN hurt \ {p} ELSE hurt \cup {p}
        /\ UNCHANGED <<using, unsaved>>
    BY DEF deletePage
  <1>2. TypeOK /\ Resident \subseteq PageId
    BY DEF Consistent, TypeOK, Resident
  <1>3. /\ content' \in [PageId -> Data] /\ content'[p] = Zero
        /\ \A q \in PageId : q # p => content'[q] = content[q]
        /\ hurt' \subseteq PageId
    BY <1>1, <1>2, PoolAssumption DEF TypeOK
  <1>4. /\ UnsavedInUse' /\ UnsavedPages' = UnsavedPages
        /\ \A q \in PageId : Users(q)' = Users(q)
    BY <1>1 DEF UnsavedInUse, UnsavedPages, Users
  <1>5. p \notin hurt' => FileData(p)' = Zero
    BY <1>1 DEF FileData
  \* In both cases p is not resident afterwards, and nothing else has changed.
  <1>6. /\ Consistent'
        /\ Resident' = Resident \ {p}
        /\ \A q \in Resident \ {p} : PageOf(q)' = PageOf(q)
        /\ \A q \in PageId : q # p => FileData(q)' = FileData(q)
        /\ Users(p) = {}
    <2>1. CASE p \notin Resident
      <3>1. UNCHANGED <<pages, pageTable, lruList, disk>>
        BY <2>1 DEF deletePage, pool
      <3>2. Resident' = Resident /\ \A q \in Resident : PageOf(q)' = PageOf(q)
        BY <3>1 DEF Resident, PageOf
      <3>3. TypeOK' /\ PoolConsistent'
        BY <1>1, <1>2, <1>3, <3>1 DEF Consistent, TypeOK, PoolConsistent, Resident, PageOf
      <3>4. Users(p) = {}
        BY <2>1, PoolAssumption DEF PinsAreUsers, Users
      <3> QED
        BY <2>1, <3>1, <3>2, <3>3, <3>4 DEF Consistent, FileData
    <2>2. CASE p \in Resident
      <3>1. /\ PageOf(p).pins = 0
            /\ pageTable' = [q \in Resident \ {p} |-> pageTable[q]]
            /\ lruList' = Erased(p)
            /\ pages' = [pages EXCEPT ![pageTable[p]] = NoPage]
            /\ disk' \in {disk, [disk EXCEPT ![p] = NoPage]}
        BY <2>2 DEF deletePage
      <3>2. Users(p) = {}
        BY <1>2, <2>2, <3>1, NoPinsNoUsers
      <3>3. Resident' = Resident \ {p}
        BY <3>1 DEF Resident
      <3>4. /\ Erased(p) \in Seq(PageId)
            /\ Range(Erased(p)) = Resident \ {p}
            /\ IsInjective(Erased(p))
        BY <2>2, ErasedFacts DEF Consistent, TypeOK, PoolConsistent
      <3>5. /\ disk' \in [PageId -> Data \cup {NoPage}]
            /\ \A q \in PageId : q # p => disk'[q] = disk[q]
        BY <1>2, <3>1 DEF TypeOK
      <3>6. /\ pages' \in [Frame -> Page \cup {NoPage}]
            /\ \A f \in Frame : pages'[f] = IF f = pageTable[p] THEN NoPage ELSE pages[f]
        BY <1>2, <3>1 DEF TypeOK
      <3>7. \A q \in Resident \ {p} :
                pageTable'[q] = pageTable[q] /\ pageTable[q] \in Frame /\ PageOf(q)' = PageOf(q)
        <4> TAKE q \in Resident \ {p}
        <4>1. pageTable[q] \in Frame /\ pageTable[q] # pageTable[p]
          BY <2>2, ResidentFacts
        <4> QED
          BY <3>1, <3>6, <4>1 DEF PageOf
      <3>8. TypeOK'
        <4>1. pageTable' \in [DOMAIN pageTable' -> Frame] /\ DOMAIN pageTable' \subseteq PageId
          BY <1>2, <3>1, <3>7
        <4> QED
          BY <1>1, <1>2, <1>3, <3>1, <3>4, <3>5, <3>6, <4>1 DEF TypeOK
      <3>9. \A q \in Resident' : PageOf(q)' # NoPage /\ PageOf(q)'.id = q
        BY <3>3, <3>7 DEF Consistent, PoolConsistent
      <3>10. ASSUME NEW f \in Frame, pages'[f] # NoPage
             PROVE  pages'[f].id \in Resident' /\ pageTable'[pages'[f].id] = f
        <4>1. f # pageTable[p] /\ pages'[f] = pages[f] /\ pages[f] # NoPage
          BY <3>6, <3>10
        <4>2. pages[f].id \in Resident /\ pageTable[pages[f].id] = f
          BY <4>1, FrameFacts
        <4> QED
          BY <3>3, <3>7, <4>1, <4>2
      <3>11. PoolConsistent'
        BY <3>1, <3>3, <3>4, <3>9, <3>10 DEF PoolConsistent
      <3> QED
        BY <3>2, <3>3, <3>5, <3>7, <3>8, <3>11 DEF Consistent, FileData
    <2> QED
      BY <2>1, <2>2
  <1>7. PinsAreUsers'
    <2>1. \A g \in Handle : using'[g] # NoPage => using'[g] \in Resident'
      BY <1>1, <1>6 DEF PinsAreUsers, Users
    <2> QED
      BY <1>2, <1>4, <1>6, <2>1 DEF PinsAreUsers
  <1>8. \A q \in PageId : Safe(q)'
    <2> TAKE q \in PageId
    <2>1. Safe(q)
      BY <1>2, SafePages
    <2>2. CASE q # p
      <3>1. q \in hurt' <=> q \in hurt
        BY <1>1, <2>2
      <3> QED
        BY <1>3, <1>4, <1>6, <2>1, <2>2, <3>1 DEF Safe
    <2>3. CASE q = p
      <3>1. Safe(p)'
        BY <1>3, <1>5, <1>6 DEF Safe
      <3> QED
        BY <2>3, <3>1
    <2> QED
      BY <2>2, <2>3
  <1>9. NoLostUpdate' /\ CleanIsOnDisk'
    BY <1>2, <1>6, <1>8, SafePagesNext
  <1> QED
    BY <1>4, <1>6, <1>7, <1>9

LEMMA EndStep ==
    ASSUME IInv, End
    PROVE  IInv'
  <1> USE DEF IInv
  <1>1. PICK written \in SUBSET DirtyPages, torn \in SUBSET DirtyPages :
            /\ disk' = [p \in PageId |-> IF p \in torn THEN Zero
                                     ELSE IF p \in written THEN PageOf(p).data ELSE disk[p]]
            /\ hurt' = hurt \cup torn \cup ((DirtyPages \cup UnsavedPages) \ written)
    BY DEF End, WriteFiles
  <1>2. /\ pages' = [f \in Frame |-> NoPage]
        /\ pageTable' = [p \in {} |-> NoPage]
        /\ lruList' = <<>>
        /\ using' = [h \in Handle |-> NoPage]
        /\ unsaved' = {}
        /\ content' = content
    BY DEF End
  <1>3. /\ TypeOK /\ Resident \subseteq PageId /\ DirtyPages \subseteq Resident
        /\ UnsavedPages \subseteq PageId
    BY DEF Consistent, TypeOK, Resident, DirtyPages, UnsavedPages, UnsavedInUse
  <1>4. Resident' = {} /\ Range(lruList') = {} /\ IsInjective(lruList')
    BY <1>2 DEF Resident, Range, IsInjective
  <1>5. ASSUME NEW p \in DirtyPages
        PROVE  PageOf(p).data \in Data
    BY <1>3, <1>5, ResidentFacts, PageFields
  <1>6. disk' \in [PageId -> Data \cup {NoPage}]
    BY <1>1, <1>3, <1>5, PoolAssumption DEF TypeOK
  <1>7. TypeOK'
    <2>1. lruList' \in Seq(PageId)
      BY <1>2
    <2>2. pageTable' \in [DOMAIN pageTable' -> Frame] /\ DOMAIN pageTable' \subseteq PageId
      BY <1>2
    <2>3. hurt' \subseteq PageId
      BY <1>1, <1>3 DEF TypeOK
    <2> QED
      BY <1>2, <1>3, <1>6, <2>1, <2>2, <2>3 DEF TypeOK
  <1>8. Consistent'
    BY <1>2, <1>4, <1>7 DEF Consistent, PoolConsistent
  <1>9. PinsAreUsers' /\ UnsavedInUse'
    BY <1>2, <1>4 DEF PinsAreUsers, UnsavedInUse
  <1>10. \A q \in PageId : Safe(q)'
    <2> SUFFICES ASSUME NEW q \in PageId, q \notin hurt'
                 PROVE  FileData(q)' = content[q]
      BY <1>2, <1>4 DEF Safe
    <2>1. Safe(q) /\ q \notin hurt /\ q \notin torn
      BY <1>1, <1>3, SafePages
    <2>2. CASE q \in written
      <3>1. q \in DirtyPages /\ q \in Resident
        BY <1>3, <2>2
      <3>2. PageOf(q).data = content[q]
        BY <2>1, <3>1 DEF Safe
      <3>3. disk'[q] = PageOf(q).data /\ disk'[q] # NoPage
        BY <1>1, <1>5, <2>1, <2>2, <3>1, PoolAssumption
      <3> QED
        BY <3>2, <3>3 DEF FileData
    <2>3. CASE q \notin written
      <3>1. q \notin DirtyPages /\ q \notin UnsavedPages
        BY <1>1, <2>3
      <3>2. FileData(q) = content[q]
        BY <2>1, <3>1 DEF Safe, DirtyPages
      <3>3. FileData(q)' = FileData(q)
        BY <1>1, <2>1, <2>3 DEF FileData
      <3> QED
        BY <3>2, <3>3
    <2> QED
      BY <2>2, <2>3
  <1>11. NoLostUpdate' /\ CleanIsOnDisk'
    BY <1>4, <1>10, SafePagesNext
  <1> QED
    BY <1>8, <1>9, <1>11

LEMMA StutterStep ==
    ASSUME IInv, UNCHANGED vars
    PROVE  IInv'
  BY DEF IInv, vars, pool, Consistent, TypeOK, PoolConsistent, PinsAreUsers, UnsavedInUse,
         NoLostUpdate, CleanIsOnDisk, Resident, PageOf, Users, View, FileData, UnsavedPages

LEMMA NextInv == IInv /\ [Next]_vars => IInv'
  <1> SUFFICES ASSUME IInv, [Next]_vars PROVE IInv'
    OBVIOUS
  <1>1. ASSUME NEW h \in Handle, NEW p \in PageId,
               FetchHit(h, p) \/ FetchMiss(h, p) \/ allocatePage(h, p)
        PROVE  IInv'
    BY <1>1, FetchHitStep, FetchMissStep, AllocateStep
  <1>2. ASSUME NEW h \in Handle, NEW isDirty \in BOOLEAN, unpinPage(h, isDirty)
        PROVE  IInv'
    BY <1>2, UnpinStep
  <1>3. ASSUME NEW h \in Handle, NEW data \in Data, NEW setDirty \in BOOLEAN,
               WriteData(h, data, setDirty)
        PROVE  IInv'
    BY <1>3, WriteDataStep
  <1>4. ASSUME NEW p \in PageId, flushPage(p)
        PROVE  IInv'
    <2>1. {p} \in SUBSET DirtyPages /\ {} \in SUBSET DirtyPages
      BY <1>4 DEF flushPage
    <2> QED
      BY <1>4, <2>1, FlushStep DEF flushPage
  <1>5. ASSUME NEW p \in PageId, deletePage(p)
        PROVE  IInv'
    BY <1>5, DeleteStep
  <1>6. CASE flushAllPages
    BY <1>6, FlushStep DEF flushAllPages
  <1>7. CASE End
    BY <1>7, EndStep
  <1>8. CASE UNCHANGED vars
    BY <1>8, StutterStep
  <1> QED
    BY <1>1, <1>2, <1>3, <1>4, <1>5, <1>6, <1>7, <1>8 DEF Next

LEMMA AlwaysInv == Spec => []IInv
  BY InitInv, NextInv, PTL DEF Spec

-----------------------------------------------------------------------------
(* What a reader should know. *)

\* The variables of the pool have the types TypeOK says: a pin count never goes
\* below zero and the LRU list never names a page that does not exist.
THEOREM PoolTypes == Spec => []TypeOK
  <1>1. IInv => TypeOK
    BY DEF IInv, Consistent
  <1> QED
    BY <1>1, AlwaysInv, PTL

\* pages_, pageTable_ and lruList_ always name the same pages in the same frames.
THEOREM StructuresAgree == Spec => []PoolConsistent
  <1>1. IInv => PoolConsistent
    BY DEF IInv, Consistent
  <1> QED
    BY <1>1, AlwaysInv, PTL

\* A page is pinned once for every caller that uses it: it is never evicted or
\* deleted under one.
THEOREM PinsCountUsers == Spec => []PinsAreUsers
  <1>1. IInv => PinsAreUsers
    BY DEF IInv
  <1> QED
    BY <1>1, AlwaysInv, PTL

\* Evictions, flushes, restarts and crashes lose no update but those of the
\* pages in hurt: a failed or torn write, an unannounced write, an allocation
\* over a file, a deletion that leaves the file.
THEOREM UpdatesSurvive == Spec => []NoLostUpdate
  <1>1. IInv => NoLostUpdate
    BY DEF IInv
  <1> QED
    BY <1>1, AlwaysInv, PTL

\* findVictim gives up only when every frame holds a page in use.
LEMMA RefusalFacts == IInv => RefusedOnlyWhenFull
  <1> SUFFICES ASSUME IInv, \A f \in Frame : ~findVictim(f), NEW f \in Frame
               PROVE  pages[f] # NoPage /\ Users(pages[f].id) # {}
    BY DEF RefusedOnlyWhenFull
  <1> USE DEF IInv
  <1>1. EmptyFrames = {}
    <2> SUFFICES ASSUME EmptyFrames # {} PROVE FALSE
      OBVIOUS
    <2>1. EmptyFrames \in SUBSET Nat /\ EmptyFrames \subseteq Frame
      BY PoolAssumption DEF EmptyFrames, Frame
    <2>2. \E g \in EmptyFrames : \A k \in EmptyFrames : g <= k
      BY <2>1, LeastElement
    <2> QED
      BY <2>1, <2>2 DEF findVictim
  <1>2. Len(lruList) \in Nat /\ \A i \in 1..Len(lruList) : lruList[i] \in Resident
    BY LenProperties DEF Consistent, TypeOK, PoolConsistent, Range
  <1>3. UnpinnedPositions = {}
    <2> SUFFICES ASSUME UnpinnedPositions # {} PROVE FALSE
      OBVIOUS
    <2>1. UnpinnedPositions \in SUBSET (1..Len(lruList))
      BY DEF UnpinnedPositions
    <2>2. PICK i \in UnpinnedPositions : \A j \in UnpinnedPositions : j <= i
      BY <1>2, <2>1, GreatestElement
    <2>3. pageTable[lruList[i]] \in Frame
      BY <1>2, <2>1, ResidentFacts
    <2> QED
      BY <1>1, <2>2, <2>3 DEF findVictim
  <1>4. pages[f] # NoPage
    BY <1>1 DEF EmptyFrames
  <1>5. PICK p \in Resident : p = pages[f].id
    BY <1>4, FrameFacts
  <1>6. PageOf(p).pins # 0
    <2>1. PICK i \in 1..Len(lruList) : lruList[i] = p
      BY <1>2, LenProperties DEF Consistent, TypeOK, PoolConsistent, Range
    <2> QED
      BY <1>3, <2>1 DEF UnpinnedPositions
  <1>7. Cardinality(Users(p)) # 0
    BY <1>6 DEF PinsAreUsers
  <1>8. Users(p) # {}
    BY <1>7, FS_EmptySet
  <1> QED
    BY <1>4, <1>5, <1>8

\* fetchPage and allocatePage refuse only when every frame holds a page that is
\* in use: no frame and no page is lost to the pool.
THEOREM RefusedForGoodReason == Spec => []RefusedOnlyWhenFull
  BY AlwaysInv, RefusalFacts, PTL

=============================================================================
