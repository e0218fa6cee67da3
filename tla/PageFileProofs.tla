--------------------------- MODULE PageFileProofs ---------------------------
(***************************************************************************)
(* Theorems about PageFile, for a file of any size.  Whatever becomes of   *)
(* the used list, the free list stays sound (FreeListAlways), and from it  *)
(* a page file is the store of numbered pages FileStore describes          *)
(* (ImplementsStore).  A sound used list is kept sound by every call but   *)
(* one (UsedListKeptAlways).                                               *)
(***************************************************************************)
EXTENDS PageFile, Iteration, FiniteSetTheorems, TLAPS

\* The inductive invariant, but for what only bounds numFree.
IInv == TypeOK /\ FreeListSound

-----------------------------------------------------------------------------
(***************************************************************************)
(* The free list as a stack.                                               *)
(***************************************************************************)
\* No page is on the free list twice, so it is no longer than the file.
LEMMA ListBound ==
  ASSUME NEW n \in Nat, NEW l \in [1 .. n -> Pages],
         \A i, j \in 1 .. n : l[i] = l[j] => i = j
  PROVE  n <= MaxPages
<1>1. IsFiniteSet(Pages) /\ Cardinality(Pages) = MaxPages
  BY PageFileAssumption, FS_Interval DEF Pages
<1>2. IsFiniteSet(1 .. n) /\ Cardinality(1 .. n) = n
  BY FS_Interval
<1>3. l \in Injection(1 .. n, Pages)
  BY DEF Injection, IsInjective
<1>4. QED
  BY <1>1, <1>2, <1>3, FS_Injection

\* The head of the free list is a free page of the file.
LEMMA HeadIsFree ==
  ASSUME IInv, numFree > 0
  PROVE  firstFree \in FreePages /\ firstFree \in Pages
<1>1. PICK l \in [1 .. numFree -> Pages] : IsFreeList(l)
  BY DEF IInv, FreeListSound
<1>2. 1 \in 1 .. numFree
  BY DEF IInv, TypeOK
<1>3. firstFree = l[1] /\ l[1] \in FreePages
  BY <1>1, <1>2 DEF IsFreeList
<1>4. QED
  BY <1>2, <1>3

\* What a call may do to the pages other than p: nothing to the free ones,
\* and those in use stay in use.
OthersKept(p) ==
  \A r \in Pages \ {p} :
    /\ page'[r].used = page[r].used
    /\ ~page[r].used => page'[r].next = page[r].next

\* A page in use goes to the head of the free list.
LEMMA Push ==
  ASSUME IInv, NEW p \in Pages, page[p].used, OthersKept(p),
         ~page'[p].used, page'[p].next = firstFree,
         firstFree' = p, numFree' = numFree + 1, numPages' = numPages
  PROVE  FreeListSound' /\ numFree' <= MaxPages
<1>1. PICK l \in [1 .. numFree -> Pages] : IsFreeList(l)
  BY DEF IInv, FreeListSound
<1>2. numFree \in Nat
  BY DEF IInv, TypeOK
<1> DEFINE pushed == [i \in 1 .. numFree + 1 |-> IF i = 1 THEN p ELSE l[i - 1]]
<1>3. PICK m :
        /\ m \in [1 .. numFree + 1 -> Pages]
        /\ m[1] = p
        /\ \A i \in 1 .. numFree : m[i + 1] = l[i]
        /\ \A i \in 2 .. numFree + 1 : i - 1 \in 1 .. numFree /\ m[i] = l[i - 1]
  <2>1. /\ pushed \in [1 .. numFree + 1 -> Pages]
        /\ pushed[1] = p
        /\ \A i \in 1 .. numFree : pushed[i + 1] = l[i]
        /\ \A i \in 2 .. numFree + 1 : /\ i - 1 \in 1 .. numFree
                                       /\ pushed[i] = l[i - 1]
    BY <1>2
  <2> HIDE DEF pushed
  <2>2. QED
    BY <2>1
<1> HIDE DEF pushed
<1>4. \A i \in 1 .. numFree : l[i] \in FreePages /\ l[i] # p /\ ~page[l[i]].used
  BY <1>1 DEF IsFreeList, FreePages
<1>5. \A i, j \in 1 .. numFree + 1 : m[i] = m[j] => i = j
  <2>1. \A i \in 2 .. numFree + 1 : m[i] # m[1]
    BY <1>2, <1>3, <1>4
  <2>2. \A i, j \in 2 .. numFree + 1 : m[i] = m[j] => i = j
    BY <1>1, <1>2, <1>3 DEF IsFreeList
  <2>3. \A i \in 1 .. numFree + 1 : i = 1 \/ i \in 2 .. numFree + 1
    BY <1>2
  <2>4. QED
    BY <2>1, <2>2, <2>3
<1>6. numFree + 1 <= MaxPages
  <2>1. ASSUME NEW n \in Nat, NEW k \in [1 .. n -> Pages],
               \A i, j \in 1 .. n : k[i] = k[j] => i = j
        PROVE  n <= MaxPages
    BY <2>1, ListBound
  <2>2. numFree + 1 \in Nat /\ m \in [1 .. numFree + 1 -> Pages]
    BY <1>2, <1>3
  <2>3. QED
    BY <1>5, <2>1, <2>2
<1>7. \A r \in Pages : page'[r].used <=> page[r].used /\ r # p
  BY DEF OthersKept
<1>8. p \in 1 .. numPages - 1
  BY DEF IInv, FreeListSound, UsedPages
<1>9. FreePages' = FreePages \cup {p} /\ UsedPages' = UsedPages \ {p}
  <2>1. 1 .. numPages - 1 \subseteq Pages
    BY PageFileAssumption DEF IInv, TypeOK, Pages
  <2>2. QED
    BY <1>7, <1>8, <2>1 DEF FreePages, UsedPages
<1>10. {m[i] : i \in 1 .. numFree + 1} = FreePages'
  <2>1. {l[i] : i \in 1 .. numFree} = FreePages
    BY <1>1 DEF IsFreeList
  <2>2. \A i \in 1 .. numFree + 1 : m[i] \in FreePages'
    BY <1>3, <1>4, <1>9, <1>2
  <2>3. ASSUME NEW q \in FreePages' PROVE \E i \in 1 .. numFree + 1 : m[i] = q
    <3>1. CASE q = p
      BY <3>1, <1>2, <1>3
    <3>2. CASE q \in FreePages
      <4>1. PICK i \in 1 .. numFree : l[i] = q
        BY <2>1, <3>2
      <4>2. i + 1 \in 1 .. numFree + 1 /\ m[i + 1] = q
        BY <4>1, <1>2, <1>3
      <4>3. QED
        BY <4>2
    <3>3. QED
      BY <3>1, <3>2, <1>9
  <2>4. QED
    BY <2>2, <2>3
<1> DEFINE at(i) == IF i <= numFree THEN l[i] ELSE NoPage
           at2(i) == IF i <= numFree + 1 THEN m[i] ELSE NoPage
<1>11. \A i \in 1 .. numFree + 1 : page'[m[i]].next = at2(i + 1)
  <2>1. \A i \in 1 .. numFree : page'[l[i]].next = at(i + 1)
    BY <1>1, <1>4 DEF IsFreeList, OthersKept
  <2>2. \A i \in 1 .. numFree + 1 : at2(i + 1) = at(i)
    BY <1>2, <1>3
  <2>3. page'[m[1]].next = at(1)
    BY <1>1, <1>3 DEF IsFreeList
  <2>4. ASSUME NEW i \in 2 .. numFree + 1 PROVE page'[m[i]].next = at(i)
    <3>1. i - 1 \in 1 .. numFree /\ (i - 1) + 1 = i
      BY <1>2
    <3>2. m[i] = l[i - 1]
      BY <1>2, <1>3
    <3>3. QED
      BY <2>1, <3>1, <3>2
  <2>5. QED
    BY <2>2, <2>3, <2>4, <1>2
<1>12. firstFree' = at2(1)
  BY <1>2, <1>3
<1>13. IsFreeList(m)'
  BY <1>5, <1>10, <1>11, <1>12 DEF IsFreeList
<1>14. QED
  BY <1>3, <1>6, <1>9, <1>13 DEF FreeListSound, IInv

\* The page at the head of the free list comes into use.
LEMMA Pop ==
  ASSUME IInv, numFree > 0, OthersKept(firstFree), page'[firstFree].used,
         firstFree' = page[firstFree].next, numFree' = numFree - 1,
         numPages' = numPages
  PROVE  FreeListSound'
<1>1. PICK l \in [1 .. numFree -> Pages] : IsFreeList(l)
  BY DEF IInv, FreeListSound
<1>2. numFree \in Nat \ {0} /\ 1 \in 1 .. numFree
  BY DEF IInv, TypeOK
<1> DEFINE popped == [i \in 1 .. numFree - 1 |-> l[i + 1]]
<1>3. PICK m :
        /\ m \in [1 .. numFree - 1 -> Pages]
        /\ \A i \in 1 .. numFree - 1 : i + 1 \in 1 .. numFree /\ m[i] = l[i + 1]
  <2>1. /\ popped \in [1 .. numFree - 1 -> Pages]
        /\ \A i \in 1 .. numFree - 1 : /\ i + 1 \in 1 .. numFree
                                       /\ popped[i] = l[i + 1]
    BY <1>2
  <2> HIDE DEF popped
  <2>2. QED
    BY <2>1
<1> HIDE DEF popped
<1> DEFINE at(i) == IF i <= numFree THEN l[i] ELSE NoPage
           at2(i) == IF i <= numFree - 1 THEN m[i] ELSE NoPage
<1>4. l[1] = firstFree /\ firstFree \in FreePages /\ firstFree \in Pages
  BY <1>1, <1>2 DEF IsFreeList
<1>5. \A i \in 1 .. numFree - 1 : m[i] \in FreePages /\ m[i] # firstFree
  BY <1>1, <1>2, <1>3, <1>4 DEF IsFreeList
<1>6. \A r \in Pages : page'[r].used <=> page[r].used \/ r = firstFree
  BY DEF OthersKept
<1>7. FreePages' = FreePages \ {firstFree} /\ UsedPages' = UsedPages \cup {firstFree}
  <2>1. 1 .. numPages - 1 \subseteq Pages
    BY PageFileAssumption DEF IInv, TypeOK, Pages
  <2>2. QED
    BY <1>4, <1>6, <2>1 DEF FreePages, UsedPages
<1>8. {m[i] : i \in 1 .. numFree - 1} = FreePages'
  <2>1. ASSUME NEW q \in FreePages' PROVE \E i \in 1 .. numFree - 1 : m[i] = q
    <3>1. PICK i \in 1 .. numFree : l[i] = q
      BY <1>1, <1>7 DEF IsFreeList
    <3>2. i # 1
      BY <1>4, <1>7, <3>1
    <3>3. i - 1 \in 1 .. numFree - 1 /\ m[i - 1] = q
      BY <1>2, <1>3, <3>1, <3>2
    <3>4. QED
      BY <3>3
  <2>2. QED
    BY <1>5, <1>7, <2>1
<1>9. \A i, j \in 1 .. numFree - 1 : m[i] = m[j] => i = j
  <2> SUFFICES ASSUME NEW i \in 1 .. numFree - 1, NEW j \in 1 .. numFree - 1,
                      m[i] = m[j]
               PROVE  i = j
    OBVIOUS
  <2>1. i + 1 = j + 1
    BY <1>1, <1>3 DEF IsFreeList
  <2>2. QED
    BY <2>1
<1>10. \A i \in 1 .. numFree - 1 : page'[m[i]].next = at2(i + 1)
  <2>1. \A i \in 1 .. numFree - 1 : page'[m[i]].next = page[l[i + 1]].next
    BY <1>3, <1>5 DEF OthersKept, FreePages
  <2>2. \A i \in 1 .. numFree - 1 : page[l[i + 1]].next = at(i + 1 + 1)
    BY <1>1, <1>3 DEF IsFreeList
  <2>3. \A i \in 1 .. numFree - 1 : at2(i + 1) = at(i + 1 + 1)
    BY <1>2, <1>3
  <2> HIDE DEF at, at2
  <2>4. QED
    BY <2>1, <2>2, <2>3
<1>11. firstFree' = at2(1)
  <2>1. page[l[1]].next = at(1 + 1)
    BY <1>1, <1>2 DEF IsFreeList
  <2>2. at2(1) = at(1 + 1)
    BY <1>2, <1>3
  <2>3. QED
    BY <1>4, <2>1, <2>2
<1>12. IsFreeList(m)'
  BY <1>8, <1>9, <1>10, <1>11 DEF IsFreeList
<1>13. UsedPages' \subseteq 1 .. numPages' - 1
  BY <1>4, <1>7 DEF IInv, FreeListSound, FreePages
<1>14. QED
  BY <1>3, <1>12, <1>13 DEF FreeListSound

\* The file grows by a page in use while no page is free.
LEMMA Grow ==
  ASSUME IInv, numFree = 0, numPages <= MaxPages, OthersKept(numPages),
         page'[numPages].used, firstFree' = firstFree, numFree' = numFree,
         numPages' = numPages + 1
  PROVE  FreeListSound'
<1>1. PICK l \in [1 .. numFree -> Pages] : IsFreeList(l)
  BY DEF IInv, FreeListSound
<1>2. FreePages = {} /\ numPages \in Nat /\ numPages \in Pages
  BY <1>1, PageFileAssumption DEF IsFreeList, IInv, TypeOK, Pages
<1>3. 1 .. numPages' - 1 = (1 .. numPages - 1) \cup {numPages}
  BY <1>2 DEF IInv, TypeOK
<1>4. FreePages' = {}
  <2>1. 1 .. numPages - 1 \subseteq Pages \ {numPages}
    BY <1>2, PageFileAssumption DEF IInv, TypeOK, Pages
  <2>2. QED
    BY <1>2, <1>3, <2>1 DEF FreePages, OthersKept
<1>5. UsedPages' \subseteq 1 .. numPages' - 1
  BY <1>3 DEF UsedPages, OthersKept, IInv, FreeListSound
<1>6. IsFreeList(l)'
  <2>1. \A i \in 1 .. numFree : FALSE
    OBVIOUS
  <2>2. firstFree = NoPage
    BY <1>1 DEF IsFreeList
  <2>3. QED
    BY <1>4, <2>1, <2>2 DEF IsFreeList
<1>7. QED
  BY <1>5, <1>6 DEF FreeListSound

\* A call that frees no page and takes none from the free list.
LEMMA Keep ==
  ASSUME IInv, \A r \in Pages : /\ page'[r].used = page[r].used
                                /\ ~page[r].used => page'[r].next = page[r].next,
         firstFree' = firstFree, numFree' = numFree, numPages' = numPages
  PROVE  FreeListSound'
<1>1. PICK l \in [1 .. numFree -> Pages] : IsFreeList(l)
  BY DEF IInv, FreeListSound
<1>2. 1 .. numPages - 1 \subseteq Pages
  BY PageFileAssumption DEF IInv, TypeOK, Pages
<1>3. FreePages' = FreePages /\ UsedPages' = UsedPages
  BY <1>2 DEF FreePages, UsedPages
<1>4. \A i \in 1 .. numFree : page'[l[i]].next = page[l[i]].next
  BY <1>1, <1>2 DEF IsFreeList, FreePages
<1>5. IsFreeList(l)'
  BY <1>1, <1>3, <1>4 DEF IsFreeList
<1>6. QED
  BY <1>3, <1>5 DEF IInv, FreeListSound

-----------------------------------------------------------------------------
(***************************************************************************)
(* Every step keeps the invariant.                                         *)
(***************************************************************************)
LEMMA InitInv == Init => IInv
<1> SUFFICES ASSUME Init PROVE IInv
  OBVIOUS
<1>1. TypeOK
  <2>1. [FreshPage EXCEPT !.used = FALSE] \in PageType
    BY PageFileAssumption DEF FreshPage, PageType
  <2>2. numPages \in 1 .. MaxPages + 1 /\ numFree \in 0 .. MaxPages
    BY PageFileAssumption DEF Init
  <2>3. QED
    BY <2>1, <2>2 DEF Init, TypeOK, Result
<1>2. UsedPages = {} /\ FreePages = {}
  BY DEF Init, UsedPages, FreePages, FreshPage, Pages
<1>3. PICK l : l \in [1 .. 0 -> Pages]
  <2>1. [i \in 1 .. 0 |-> NoPage] \in [1 .. 0 -> Pages]
    OBVIOUS
  <2>2. QED
    BY <2>1
<1>4. IsFreeList(l)
  <2>1. 1 .. 0 = {}
    OBVIOUS
  <2>2. QED
    BY <1>2, <2>1 DEF Init, IsFreeList, NoPage
<1>5. QED
  BY <1>1, <1>2, <1>3, <1>4 DEF Init, IInv, FreeListSound

\* A page in use is a page of the file, and one that is free is not in use.
LEMMA UsedIsInFile ==
  ASSUME IInv, NEW p \in Pages, page[p].used
  PROVE  p \in 1 .. numPages - 1 /\ (numFree > 0 => p # firstFree)
BY HeadIsFree DEF IInv, FreeListSound, UsedPages, FreePages

\* A loop that throws or never ends has written nothing.
LEMMA FailsInv ==
  ASSUME IInv, NEW S, Fails(S)
  PROVE  IInv'
<1>1. TypeOK'
  BY DEF IInv, TypeOK, Fails, header, Result
<1>2. FreeListSound'
  BY Keep DEF Fails, header
<1>3. QED
  BY <1>1, <1>2 DEF IInv

LEMMA GivesType ==
  ASSUME page' \in [Pages -> PageType], NEW p \in Pages, Gives(p)
  PROVE  /\ copy' \in CopyType \cup {NoCopy}
         /\ given' \in Pages \cup {NoPage}
         /\ result' \in Result
BY DEF Gives, CopyType, PageType, Result

LEMMA UnfreeType ==
  ASSUME IInv, firstFree \in Pages, numFree > 0, Unfree
  PROVE  firstFree' \in Pages \cup {NoPage} /\ numFree' \in 0 .. MaxPages
BY PageFileAssumption DEF IInv, TypeOK, PageType, Unfree

LEMMA AllocateInv ==
  ASSUME IInv, AllocatePage
  PROVE  IInv'
<1>1. CASE AllocHead
  <2>1. firstFree \in Pages /\ ~page[firstFree].used
    BY <1>1, HeadIsFree DEF AllocHead, FreePages
  <2>2. page' \in [Pages -> PageType] /\ page'[firstFree].used
    BY <1>1, <2>1 DEF AllocHead, IInv, TypeOK, Reused, PageType
  <2>3. OthersKept(firstFree)
    BY <1>1, <2>1 DEF AllocHead, OthersKept, IInv, TypeOK
  <2>4. TypeOK'
    BY <1>1, <2>1, <2>2, GivesType, UnfreeType DEF AllocHead, IInv, TypeOK
  <2>5. FreeListSound'
    BY <1>1, <2>2, <2>3, Pop DEF AllocHead, Unfree
  <2>6. QED
    BY <2>4, <2>5 DEF IInv
<1>2. ASSUME NEW q \in Pages, AllocBetween(q) PROVE IInv'
  <2>1. firstFree \in Pages /\ ~page[firstFree].used
    BY <1>2, HeadIsFree DEF AllocBetween, FreePages
  <2>2. page[q].used /\ q # firstFree
    BY <1>2, <2>1 DEF AllocBetween, BreaksAt
  <2>3. page' \in [Pages -> PageType] /\ page'[firstFree].used
    <3>1. page \in [Pages -> PageType]
      BY DEF IInv, TypeOK
    <3>2. page[q].next \in Pages \cup {NoPage} /\ firstFree \in Pages \cup {NoPage}
      BY <2>1, <3>1 DEF PageType
    <3>3. /\ Reused(page[q].next) \in PageType /\ Reused(page[q].next).used
          /\ \A r \in Pages : [page[r] EXCEPT !.next = firstFree] \in PageType
      BY <2>1, <3>1, <3>2 DEF Reused, PageType
    <3>4. /\ page'[firstFree] = Reused(page[q].next)
          /\ page'[q] = [page[q] EXCEPT !.next = firstFree]
          /\ DOMAIN page' = Pages
          /\ \A r \in Pages : r # q /\ r # firstFree => page'[r] = page[r]
      BY <1>2, <2>1, <2>2, <3>1 DEF AllocBetween
    <3>5. page' = [r \in Pages |-> page'[r]]
      BY <1>2, <3>1 DEF AllocBetween
    <3>6. \A r \in Pages : page'[r] \in PageType
      BY <3>1, <3>3, <3>4
    <3>7. QED
      BY <3>3, <3>4, <3>5, <3>6
  <2>4. OthersKept(firstFree)
    BY <1>2, <2>1, <2>2 DEF AllocBetween, OthersKept, IInv, TypeOK, PageType
  <2>5. TypeOK'
    BY <1>2, <2>1, <2>3, GivesType, UnfreeType DEF AllocBetween, IInv, TypeOK
  <2>6. FreeListSound'
    BY <1>2, <2>3, <2>4, Pop DEF AllocBetween, Unfree
  <2>7. QED
    BY <2>5, <2>6 DEF IInv
<1>3. CASE AllocFirst
  <2>1. numPages \in Pages
    BY <1>3, PageFileAssumption DEF AllocFirst, IInv, TypeOK, Pages
  <2>2. page' \in [Pages -> PageType] /\ page'[numPages].used
    BY <1>3, <2>1, PageFileAssumption
       DEF AllocFirst, IInv, TypeOK, FreshPage, PageType, NoPage
  <2>3. OthersKept(numPages)
    BY <1>3, <2>1 DEF AllocFirst, OthersKept, IInv, TypeOK
  <2>4. TypeOK'
    BY <1>3, <2>1, <2>2, GivesType, PageFileAssumption
       DEF AllocFirst, IInv, TypeOK
  <2>5. FreeListSound'
    BY <1>3, <2>2, <2>3, Grow DEF AllocFirst
  <2>6. QED
    BY <2>4, <2>5 DEF IInv
<1>4. ASSUME NEW q \in Pages, AllocTail(q) PROVE IInv'
  <2>1. numPages \in Pages
    BY <1>4, PageFileAssumption DEF AllocTail, IInv, TypeOK, Pages
  <2>2. page[q].used /\ q # numPages
    BY <1>4, <2>1, UsedIsInFile DEF AllocTail, BreaksAt, Pages
  <2>3. page' \in [Pages -> PageType] /\ page'[numPages].used
    BY <1>4, <2>1, <2>2, PageFileAssumption
       DEF AllocTail, IInv, TypeOK, FreshPage, PageType, NoPage
  <2>4. OthersKept(numPages)
    BY <1>4, <2>1, <2>2 DEF AllocTail, OthersKept, IInv, TypeOK, PageType
  <2>5. TypeOK'
    BY <1>4, <2>1, <2>3, GivesType, PageFileAssumption
       DEF AllocTail, IInv, TypeOK
  <2>6. FreeListSound'
    BY <1>4, <2>3, <2>4, Grow DEF AllocTail
  <2>7. QED
    BY <2>5, <2>6 DEF IInv
<1>5. QED
  BY <1>1, <1>2, <1>3, <1>4, FailsInv
     DEF AllocatePage, AllocBetweenFails, AllocTailFails

LEMMA ReadInv ==
  ASSUME IInv, NEW p \in Pages, ReadPage(p)
  PROVE  IInv'
<1>1. TypeOK'
  BY DEF ReadPage, IInv, TypeOK, header, CopyOf, CopyType, PageType, Result
<1>2. FreeListSound'
  BY Keep DEF ReadPage, header
<1>3. QED
  BY <1>1, <1>2 DEF IInv

\* A write changes neither list, whatever the copy it comes from.
LEMMA WriteInv ==
  ASSUME IInv, NEW d \in Data, WritePage(d)
  PROVE  IInv'
<1>1. copy \in CopyType
  BY DEF WritePage, IInv, TypeOK
<1>2. /\ page' \in [Pages -> PageType]
      /\ \A r \in Pages : page'[r].used = page[r].used /\ page'[r].next = page[r].next
  BY <1>1 DEF WritePage, Written, IInv, TypeOK, PageType, CopyType
<1>3. TypeOK'
  BY <1>2 DEF WritePage, IInv, TypeOK, header, Result
<1>4. FreeListSound'
  BY <1>2, Keep DEF WritePage, header
<1>5. QED
  BY <1>3, <1>4 DEF IInv

LEMMA DeleteInv ==
  ASSUME IInv, NEW p \in Pages, DeletePage(p)
  PROVE  IInv'
<1>1. CASE DeleteFails(p)
  BY <1>1, FailsInv DEF DeleteFails
<1>2. CASE DeleteFree(p)
  <2>1. TypeOK'
    BY <1>2 DEF DeleteFree, IInv, TypeOK, header, Result
  <2>2. FreeListSound'
    BY <1>2, Keep DEF DeleteFree, header
  <2>3. QED
    BY <2>1, <2>2 DEF IInv
<1>3. CASE /\ page[p].used
           /\ DeleteHead(p) \/ DeleteLost(p) \/ \E q \in Pages : DeleteAfter(p, q)
           /\ firstFree' = p
           /\ numFree' = numFree + 1
           /\ given' = NoPage
           /\ result' = "ok"
           /\ UNCHANGED <<numPages, copy>>
  <2>1. Freed(p) \in PageType /\ ~Freed(p).used /\ Freed(p).next = firstFree
    BY PageFileAssumption DEF Freed, PageType, IInv, TypeOK
  <2>2. /\ page' \in [Pages -> PageType] /\ firstUsed' \in Pages \cup {NoPage}
        /\ page'[p] = Freed(p) /\ OthersKept(p)
    <3>1. CASE DeleteHead(p) \/ DeleteLost(p)
      BY <2>1, <3>1 DEF DeleteHead, DeleteLost, IInv, TypeOK, PageType, OthersKept
    <3>2. ASSUME NEW q \in Pages, DeleteAfter(p, q)
          PROVE  /\ page' \in [Pages -> PageType]
                 /\ firstUsed' \in Pages \cup {NoPage}
                 /\ page'[p] = Freed(p) /\ OthersKept(p)
      BY <2>1, <3>2
         DEF DeleteAfter, BreaksAt, IInv, TypeOK, PageType, OthersKept
    <3>3. QED
      BY <1>3, <3>1, <3>2
  <2>3. FreeListSound' /\ numFree' <= MaxPages
    BY <1>3, <2>1, <2>2, Push
  <2>4. TypeOK'
    BY <1>3, <2>2, <2>3, PageFileAssumption DEF IInv, TypeOK, Result
  <2>5. QED
    BY <2>3, <2>4 DEF IInv
<1>4. QED
  BY <1>1, <1>2, <1>3 DEF DeletePage

LEMMA NextInv == IInv /\ [Next]_vars => IInv'
<1> SUFFICES ASSUME IInv, [Next]_vars PROVE IInv'
  OBVIOUS
<1>1. CASE AllocatePage
  BY <1>1, AllocateInv
<1>2. ASSUME NEW d \in Data, WritePage(d) PROVE IInv'
  BY <1>2, WriteInv
<1>3. ASSUME NEW p \in 1 .. numPages - 1, ReadPage(p) \/ DeletePage(p) PROVE IInv'
  <2>1. p \in Pages
    BY PageFileAssumption DEF IInv, TypeOK, Pages
  <2>2. QED
    BY <1>3, <2>1, ReadInv, DeleteInv
<1>4. CASE UNCHANGED vars
  <2>1. TypeOK'
    BY <1>4 DEF IInv, TypeOK, vars
  <2>2. FreeListSound'
    BY <1>4, Keep DEF vars
  <2>3. QED
    BY <2>1, <2>2 DEF IInv
<1>5. QED
  BY <1>1, <1>2, <1>3, <1>4 DEF Next

\* The variables of a page file keep their types.
THEOREM TypeCorrect == Spec => []TypeOK
<1>1. IInv => TypeOK
  BY DEF IInv
<1>2. QED
  BY InitInv, NextInv, <1>1, PTL DEF Spec

\* The free list is sound after every sequence of calls, those over a broken
\* used list included: no page in use is ever on it, no free page is lost.
THEOREM FreeListAlways == Spec => []FreeListSound
<1>1. IInv => FreeListSound
  BY DEF IInv
<1>2. QED
  BY InitInv, NextInv, <1>1, PTL DEF Spec

-----------------------------------------------------------------------------
(***************************************************************************)
(* A page file is the store of FileStore.  The invariant on the free list  *)
(* gives that a page handed out was not in use; that it comes empty is     *)
(* because deletePage has cleared it.                                      *)
(***************************************************************************)
FreeIsEmpty == \A p \in Pages : ~page[p].used => page[p].body = Empty

seen == [p \in Pages |-> IF page[p].used THEN page[p].body ELSE Free]

\* A call that shows above at page p only.
BodiesKept(p) ==
  \A r \in Pages \ {p} : page'[r].used = page[r].used /\ page'[r].body = page[r].body

LEMMA SeenAt ==
  ASSUME NEW p \in Pages, NEW v, BodiesKept(p),
         v = IF page'[p].used THEN page'[p].body ELSE Free
  PROVE  seen' = [seen EXCEPT ![p] = v]
BY DEF BodiesKept, seen

\* The page handed out from the free list, and what is left alone.
LEMMA ReusePages ==
  ASSUME IInv, NEW q \in Pages, AllocHead \/ AllocBetween(q)
  PROVE  /\ firstFree \in Pages /\ ~page[firstFree].used
         /\ page'[firstFree].used /\ page'[firstFree].body = page[firstFree].body
         /\ BodiesKept(firstFree)
<1>1. firstFree \in Pages /\ ~page[firstFree].used
  BY HeadIsFree DEF AllocHead, AllocBetween, FreePages
<1>2. \A n : /\ Reused(n).used
              /\ Reused(n).body = page[firstFree].body
  BY <1>1 DEF Reused, IInv, TypeOK, PageType
<1>3. CASE AllocHead
  BY <1>1, <1>2, <1>3 DEF AllocHead, BodiesKept, IInv, TypeOK
<1>4. CASE AllocBetween(q)
  <2>1. q # firstFree
    BY <1>1, <1>4 DEF AllocBetween, BreaksAt
  <2>2. QED
    BY <1>1, <1>2, <1>4, <2>1 DEF AllocBetween, BodiesKept, IInv, TypeOK, PageType
<1>5. QED
  BY <1>1, <1>3, <1>4

LEMMA NextFreeIsEmpty ==
  ASSUME IInv, IInv', FreeIsEmpty, [Next]_vars
  PROVE  FreeIsEmpty'
<1>1. ASSUME NEW q \in Pages, AllocHead \/ AllocBetween(q) PROVE FreeIsEmpty'
  BY <1>1, ReusePages DEF BodiesKept, FreeIsEmpty
<1>2. ASSUME NEW q \in Pages, AllocFirst \/ AllocTail(q) PROVE FreeIsEmpty'
  BY <1>2 DEF AllocFirst, AllocTail, BreaksAt, FreshPage, FreeIsEmpty, IInv, TypeOK, PageType
<1>3. ASSUME NEW d \in Data, WritePage(d) PROVE FreeIsEmpty'
  <2>1. copy.num \in Pages
    BY <1>3 DEF WritePage, IInv, TypeOK, CopyType
  <2>2. QED
    BY <1>3, <2>1 DEF WritePage, Written, FreeIsEmpty, IInv, TypeOK, PageType
<1>4. ASSUME NEW p \in Pages, DeletePage(p) PROVE FreeIsEmpty'
  <2>1. CASE DeleteFails(p) \/ DeleteFree(p)
    BY <2>1 DEF DeleteFails, DeleteFree, Fails, FreeIsEmpty
  <2>2. CASE DeleteHead(p) \/ DeleteLost(p)
    BY <2>2 DEF DeleteHead, DeleteLost, Freed, FreeIsEmpty, IInv, TypeOK
  <2>3. ASSUME NEW q \in Pages, DeleteAfter(p, q), page[p].used PROVE FreeIsEmpty'
    BY <2>3 DEF DeleteAfter, BreaksAt, Freed, FreeIsEmpty, IInv, TypeOK, PageType
  <2>4. QED
    BY <1>4, <2>1, <2>2, <2>3 DEF DeletePage
<1>5. ASSUME UNCHANGED page PROVE FreeIsEmpty'
  BY <1>5 DEF FreeIsEmpty
<1>6. 1 .. numPages - 1 \subseteq Pages
  BY PageFileAssumption DEF IInv, TypeOK, Pages
<1>7. Pages # {}
  BY PageFileAssumption DEF Pages
<1>8. QED
  BY <1>1, <1>2, <1>3, <1>4, <1>5, <1>6, <1>7
     DEF Next, AllocatePage, AllocBetweenFails, AllocTailFails, Fails, ReadPage, vars

LEMMA InitStore == Init => Store!Init
BY DEF Init, FreshPage, Store!Init, NoPage

\* An allocation that changes nothing above but page p, which was free.
LEMMA AllocStep ==
  ASSUME NEW p \in Pages, ~page[p].used, seen' = [seen EXCEPT ![p] = Empty],
         given' = p
  PROVE  Store!Next
BY DEF seen, Store!Next, Store!Alloc

LEMMA OtherStep ==
  ASSUME seen' = seen, given' = NoPage
  PROVE  Store!Next
BY DEF seen, Store!Next, Store!Other, NoPage

LEMMA NextStore ==
  ASSUME IInv, FreeIsEmpty, [Next]_vars
  PROVE  [Store!Next]_(Store!storeVars)
<1>1. ASSUME NEW q \in Pages, AllocHead \/ AllocBetween(q) PROVE Store!Next
  <2>1. firstFree \in Pages /\ ~page[firstFree].used
    BY <1>1, ReusePages
  <2>2. seen' = [seen EXCEPT ![firstFree] = Empty]
    BY <1>1, <2>1, ReusePages, SeenAt DEF FreeIsEmpty
  <2>3. QED
    BY <1>1, <2>1, <2>2, AllocStep DEF AllocHead, AllocBetween, Gives
<1>2. ASSUME NEW q \in Pages, AllocFirst \/ AllocTail(q) PROVE Store!Next
  <2>1. numPages \in Pages
    BY <1>2, PageFileAssumption DEF AllocFirst, AllocTail, IInv, TypeOK, Pages
  <2>2. ~page[numPages].used
    BY <2>1, UsedIsInFile DEF Pages
  <2>3. page'[numPages].used /\ page'[numPages].body = Empty
    BY <1>2, <2>1, <2>2
       DEF AllocFirst, AllocTail, BreaksAt, FreshPage, IInv, TypeOK, PageType
  <2>4. BodiesKept(numPages)
    BY <1>2, <2>1, <2>2
       DEF AllocFirst, AllocTail, BreaksAt, BodiesKept, IInv, TypeOK, PageType
  <2>5. seen' = [seen EXCEPT ![numPages] = Empty]
    BY <2>1, <2>3, <2>4, SeenAt
  <2>6. QED
    BY <1>2, <2>1, <2>2, <2>5, AllocStep DEF AllocFirst, AllocTail, Gives
<1>3. ASSUME NEW S, Fails(S) PROVE Store!Next
  BY <1>3, OtherStep DEF Fails, seen
<1>4. ASSUME NEW p, ReadPage(p) PROVE Store!Next
  BY <1>4, OtherStep DEF ReadPage, seen
<1>5. ASSUME NEW d \in Data, WritePage(d) PROVE Store!Next
  <2>1. copy.num \in Pages /\ given' = NoPage
    BY <1>5 DEF WritePage, IInv, TypeOK, CopyType
  <2>2. CASE ~page[copy.num].used
    BY <1>5, <2>1, <2>2, OtherStep DEF WritePage, seen
  <2>3. CASE page[copy.num].used
    <3>1. seen' = [seen EXCEPT ![copy.num] = d]
      <4>1. page'[copy.num].used /\ page'[copy.num].body = d
        BY <1>5, <2>1, <2>3 DEF WritePage, Written, IInv, TypeOK, PageType
      <4>2. BodiesKept(copy.num)
        BY <1>5, <2>1, <2>3 DEF WritePage, BodiesKept, IInv, TypeOK
      <4>3. QED
        BY <2>1, <4>1, <4>2, SeenAt
    <3>2. seen[copy.num] # Free
      BY <2>1, <2>3, PageFileAssumption DEF seen, IInv, TypeOK, PageType
    <3>3. QED
      BY <2>1, <3>1, <3>2 DEF seen, Store!Next, Store!Write, NoPage
  <2>4. QED
    BY <2>2, <2>3
<1>6. ASSUME NEW p \in Pages, DeletePage(p) PROVE Store!Next
  <2>1. CASE DeleteFails(p)
    BY <1>3, <2>1 DEF DeleteFails
  <2>2. CASE DeleteFree(p)
    BY <2>2, OtherStep DEF DeleteFree, seen
  <2>3. CASE /\ page[p].used
             /\ DeleteHead(p) \/ DeleteLost(p) \/ \E q \in Pages : DeleteAfter(p, q)
             /\ given' = NoPage
    <3>1. seen' = [seen EXCEPT ![p] = Free]
      <4>1. CASE DeleteHead(p) \/ DeleteLost(p)
        <5>1. ~page'[p].used /\ BodiesKept(p)
          BY <4>1 DEF DeleteHead, DeleteLost, Freed, BodiesKept, IInv, TypeOK
        <5>2. QED
          BY <5>1, SeenAt
      <4>2. ASSUME NEW q \in Pages, DeleteAfter(p, q)
            PROVE  seen' = [seen EXCEPT ![p] = Free]
        <5>1. ~page'[p].used /\ BodiesKept(p)
          BY <4>2 DEF DeleteAfter, BreaksAt, Freed, BodiesKept, IInv, TypeOK, PageType
        <5>2. QED
          BY <5>1, SeenAt
      <4>3. QED
        BY <2>3, <4>1, <4>2
    <3>2. seen[p] # Free
      BY <2>3, PageFileAssumption DEF seen, IInv, TypeOK, PageType
    <3>3. QED
      BY <2>3, <3>1, <3>2 DEF seen, Store!Next, Store!Delete, NoPage
  <2>4. QED
    BY <1>6, <2>1, <2>2, <2>3 DEF DeletePage
<1>7. CASE UNCHANGED vars
  BY <1>7 DEF vars, Store!storeVars
<1>8. 1 .. numPages - 1 \subseteq Pages
  BY PageFileAssumption DEF IInv, TypeOK, Pages
<1>9. Pages # {}
  BY PageFileAssumption DEF Pages
<1>10. QED
  BY <1>1, <1>2, <1>3, <1>4, <1>5, <1>6, <1>7, <1>8, <1>9
     DEF Next, AllocatePage, AllocBetweenFails, AllocTailFails

\* A page file implements FileStore: allocatePage gives out a page that was
\* not in use, empty, and no call changes a page it was not asked to change.
THEOREM ImplementsStore == Spec => StoreSpec
<1>1. Init => FreeIsEmpty
  BY DEF Init, FreeIsEmpty, FreshPage
<1>2. IInv /\ IInv' /\ FreeIsEmpty /\ [Next]_vars => FreeIsEmpty'
  BY NextFreeIsEmpty
<1>3. IInv /\ FreeIsEmpty /\ [Next]_vars => [Store!Next]_(Store!storeVars)
  BY NextStore
<1>4. QED
  BY InitInv, NextInv, InitStore, <1>1, <1>2, <1>3, PTL
     DEF Spec, StoreSpec, Store!Spec

-----------------------------------------------------------------------------
(***************************************************************************)
(* The used list.                                                          *)
(***************************************************************************)
\* The iterator over the used list is what its definition says.
LEMMA WalkIs ==
  ASSUME TypeOK
  PROVE  /\ Walk \in [0 .. MaxPages -> Pages \cup {NoPage}]
         /\ Walk[0] = firstUsed
         /\ \A k \in 1 .. MaxPages :
              Walk[k] = IF Walk[k - 1] = NoPage THEN NoPage ELSE page[Walk[k - 1]].next
<1> DEFINE Place == Pages \cup {NoPage}
           step == [q \in Place |-> IF q = NoPage THEN NoPage ELSE page[q].next]
           IsWalk(g) == g = [k \in 0 .. MaxPages |->
                               IF k = 0 THEN firstUsed
                               ELSE IF g[k - 1] = NoPage THEN NoPage
                               ELSE page[g[k - 1]].next]
<1>1. step \in [Place -> Place] /\ firstUsed \in Place
  BY DEF TypeOK, PageType
<1>2. PICK g \in [0 .. MaxPages -> Place] : Iterates(g, step, firstUsed, MaxPages)
  <2> HIDE DEF step, Place
  <2>1. MaxPages \in Nat
    BY PageFileAssumption
  <2>2. QED
    BY <1>1, <2>1, IterationExists
<1>3. ASSUME NEW k \in 0 .. MaxPages, k # 0
      PROVE  /\ k - 1 \in 0 .. MaxPages /\ k \in 1 .. MaxPages
             /\ g[k] = IF g[k - 1] = NoPage THEN NoPage ELSE page[g[k - 1]].next
  <2>1. k - 1 \in 0 .. MaxPages /\ k \in 1 .. MaxPages
    BY <1>3, PageFileAssumption
  <2>2. g[k - 1] \in Place /\ g[k] = step[g[k - 1]]
    BY <1>2, <2>1 DEF Iterates
  <2>3. QED
    BY <2>1, <2>2
<1>4. IsWalk(g)
  BY <1>2, <1>3 DEF Iterates
<1>5. IsWalk(Walk)
  <2>1. Walk = CHOOSE w : IsWalk(w)
    BY DEF Walk
  <2> HIDE DEF IsWalk
  <2>2. QED
    BY <1>4, <2>1
<1> HIDE DEF step, IsWalk
<1>6. /\ Walk[0] = firstUsed
      /\ \A k \in 1 .. MaxPages :
           Walk[k] = IF Walk[k - 1] = NoPage THEN NoPage ELSE page[Walk[k - 1]].next
  <2>1. \A k \in 0 .. MaxPages :
          Walk[k] = IF k = 0 THEN firstUsed
                    ELSE IF Walk[k - 1] = NoPage THEN NoPage ELSE page[Walk[k - 1]].next
    BY <1>5 DEF IsWalk
  <2>2. 0 \in 0 .. MaxPages /\ \A k \in 1 .. MaxPages : k \in 0 .. MaxPages /\ k # 0
    BY PageFileAssumption
  <2>3. QED
    BY <2>1, <2>2
<1>7. ASSUME NEW k \in 0 .. MaxPages PROVE Walk[k] \in Place
  <2> DEFINE S == {i \in Nat : i <= MaxPages => Walk[i] \in Place}
  <2>1. 0 \in S
    BY <1>1, <1>6
  <2>2. ASSUME NEW i \in Nat, i \in S PROVE i + 1 \in S
    <3>1. CASE i + 1 <= MaxPages
      <4>1. i + 1 \in 1 .. MaxPages /\ (i + 1) - 1 = i /\ Walk[i] \in Place
        BY <2>2, <3>1, PageFileAssumption
      <4>2. Walk[i + 1] = IF Walk[i] = NoPage THEN NoPage ELSE page[Walk[i]].next
        BY <1>6, <4>1
      <4>3. QED
        BY <4>1, <4>2 DEF TypeOK, PageType
    <3>2. CASE ~(i + 1 <= MaxPages)
      BY <3>2
    <3>3. QED
      BY <3>1, <3>2
  <2> HIDE DEF S
  <2>3. k \in S
    BY <2>1, <2>2, SetInduction
  <2>4. QED
    BY <2>3 DEF S
<1>8. Walk \in [0 .. MaxPages -> Place]
  <2>1. Walk = [k \in 0 .. MaxPages |-> Walk[k]]
    BY <1>5 DEF IsWalk
  <2>2. QED
    BY <1>7, <2>1
<1>9. QED
  BY <1>6, <1>8

\* The page after p on the used list, the first if p is none.
Link(p) == IF p = NoPage THEN firstUsed ELSE page[p].next

Places == UsedPages \cup {NoPage}

LEMMA SoundLinks ==
  ASSUME UsedListSound, NEW p \in Places
  PROVE  NextUsed(p, Link(p)) /\ p \in Int /\ Link(p) \in Int
<1>1. NextUsed(p, Link(p)) /\ p \in Int
  BY DEF UsedListSound, Places, Link, NoPage, UsedPages, Pages
<1>2. Link(p) \in UsedPages \/ Link(p) = NoPage
  BY <1>1 DEF NextUsed
<1>3. QED
  BY <1>1, <1>2 DEF UsedPages, Pages, NoPage

LEMMA LinksSound ==
  ASSUME \A p \in Places' : NextUsed(p, Link(p))'
  PROVE  UsedListSound'
<1>1. NextUsed(0, firstUsed)'
  BY DEF Places, Link, NoPage
<1>2. \A p \in UsedPages' : p # NoPage
  BY DEF UsedPages, Pages, NoPage
<1>3. QED
  BY <1>1, <1>2 DEF UsedListSound, Places, Link

\* A page that goes in use between two neighbours of a sound list, the last
\* page and the end of it included, and is linked there, leaves it sound.
LEMMA LinkedIn ==
  ASSUME UsedListSound, NEW f \in Pages \ UsedPages, NEW q \in Places,
         q < f, Link(q) = NoPage \/ Link(q) > f,
         UsedPages' = UsedPages \cup {f},
         Link(f)' = Link(q), Link(q)' = f,
         \A p \in Places \ {q} : Link(p)' = Link(p)
  PROVE  UsedListSound'
<1>1. NextUsed(q, Link(q)) /\ Link(q) \in Int
  BY SoundLinks
<1>2. f \in Int /\ q \in Int /\ \A r \in UsedPages : r \in Int /\ r # 0
  BY DEF Pages, Places, UsedPages, NoPage
<1> SUFFICES ASSUME NEW p \in Places' PROVE NextUsed(p, Link(p))'
  BY LinksSound
<1>3. CASE p = q
  <2>1. \A r \in UsedPages : r > q => r >= f
    BY <1>1, <1>2 DEF NextUsed, NoPage
  <2>2. \A r \in UsedPages' : r > q => r >= f
    BY <1>2, <2>1
  <2>3. NextUsed(q, f)'
    BY <2>2 DEF NextUsed
  <2>4. QED
    BY <1>3, <2>3
<1>4. CASE p = f
  BY <1>1, <1>2, <1>4 DEF NextUsed, NoPage
<1>5. CASE p # q /\ p # f
  <2>1. p \in Places /\ p \in Int /\ Link(p)' = Link(p)
    BY <1>2, <1>5 DEF Places, NoPage
  <2>2. NextUsed(p, Link(p)) /\ Link(p) \in Int
    BY <2>1, SoundLinks
  <2>3. p < f => Link(p) \in UsedPages /\ Link(p) < f
    <3>1. CASE p < q
      BY <1>2, <2>1, <2>2, <3>1 DEF NextUsed, Places, NoPage, UsedPages, Pages
    <3>2. CASE p > q
      BY <1>1, <1>2, <2>1, <3>2 DEF NextUsed, Places, NoPage, UsedPages, Pages
    <3>3. QED
      BY <1>2, <1>5, <2>1, <3>1, <3>2
  <2>4. QED
    <3>1. CASE p < f
      <4>1. \A r \in UsedPages' : r > p => r >= Link(p)
        BY <1>2, <2>1, <2>2, <2>3, <3>1 DEF NextUsed, NoPage
      <4>2. Link(p) > p
        BY <1>2, <2>1, <2>2, <2>3, <3>1 DEF NextUsed, NoPage
      <4>3. QED
        BY <2>1, <2>3, <3>1, <4>1, <4>2 DEF NextUsed
    <3>2. CASE p > f
      BY <1>2, <2>1, <2>2, <3>2 DEF NextUsed, NoPage
    <3>3. QED
      BY <1>2, <1>5, <2>1, <3>1, <3>2
<1>6. QED
  BY <1>3, <1>4, <1>5

\* So does one that goes out of use and that the page before it, or the
\* header, no longer points to.
LEMMA LinkedOut ==
  ASSUME UsedListSound, NEW f \in UsedPages, NEW q \in Places,
         Link(q) = f,
         UsedPages' = UsedPages \ {f},
         Link(q)' = Link(f),
         \A p \in Places \ {q, f} : Link(p)' = Link(p)
  PROVE  UsedListSound'
<1>1. NextUsed(q, f) /\ NextUsed(f, Link(f)) /\ Link(f) \in Int
  BY SoundLinks DEF Places
<1>2. f \in Int /\ q \in Int /\ \A r \in UsedPages : r \in Int /\ r # 0
  BY DEF Pages, Places, UsedPages, NoPage
<1> SUFFICES ASSUME NEW p \in Places' PROVE NextUsed(p, Link(p))'
  BY LinksSound
<1>3. CASE p = q
  <2>1. PICK n \in Int : n = Link(f)
    BY <1>1
  <2>2. NextUsed(q, n)'
    BY <1>1, <1>2, <2>1 DEF NextUsed, NoPage
  <2>3. QED
    BY <1>3, <2>1, <2>2
<1>4. CASE p # q
  <2>1. p \in Places /\ p # f /\ p \in Int /\ Link(p)' = Link(p)
    BY <1>2, <1>4 DEF Places, NoPage
  <2>2. NextUsed(p, Link(p)) /\ Link(p) \in Int
    BY <2>1, SoundLinks
  <2>3. Link(p) # f
    BY <1>1, <1>2, <1>4, <2>1, <2>2 DEF NextUsed, Places, NoPage, UsedPages, Pages
  <2>4. QED
    BY <1>2, <2>1, <2>2, <2>3 DEF NextUsed, NoPage
<1>5. QED
  BY <1>3, <1>4

\* Calls that relink nothing.
LEMMA LinksKept ==
  ASSUME UsedListSound, UsedPages' = UsedPages,
         \A p \in Places : Link(p)' = Link(p)
  PROVE  UsedListSound'
<1> SUFFICES ASSUME NEW p \in Places' PROVE NextUsed(p, Link(p))'
  BY LinksSound
<1>1. p \in Places /\ NextUsed(p, Link(p))
  BY SoundLinks DEF Places
<1>2. QED
  BY <1>1 DEF NextUsed

-----------------------------------------------------------------------------
(***************************************************************************)
(* Every call keeps the used list, but for an allocation that reuses a     *)
(* page while no page is in use.                                           *)
(***************************************************************************)
\* Only f changes hands, and the pages after q and f are what they were.
LEMMA AllocHeadList ==
  ASSUME IInv, UsedListSound, ~(firstUsed = NoPage /\ numFree > 1), AllocHead
  PROVE  UsedListSound'
<1>1. firstFree \in FreePages /\ firstFree \in Pages
  BY HeadIsFree DEF AllocHead
<1>2. PICK f \in Pages : f = firstFree
  BY <1>1
<1>3. f \notin UsedPages /\ page \in [Pages -> PageType]
  BY <1>1, <1>2 DEF FreePages, UsedPages, IInv, TypeOK
<1>4. page[f].next = NoPage \/ firstUsed # NoPage
  <2>1. CASE firstUsed = NoPage
    <3>1. numFree = 1
      BY <2>1 DEF AllocHead, IInv, TypeOK
    <3>2. PICK l \in [1 .. numFree -> Pages] : IsFreeList(l)
      BY DEF IInv, FreeListSound
    <3>3. firstFree = l[1] /\ page[l[1]].next = NoPage
      BY <3>1, <3>2 DEF IsFreeList
    <3>4. QED
      BY <1>2, <3>3
  <2>2. QED
    BY <2>1
<1>5. Link(f)' = firstUsed /\ page'[f].used
  <2>1. page'[f] = Reused(IF firstUsed > f THEN firstUsed ELSE page[f].next)
    BY <1>2, <1>3 DEF AllocHead
  <2>2. firstUsed = NoPage => ~(firstUsed > f)
    BY DEF NoPage, Pages
  <2>3. page'[f].next = firstUsed /\ page'[f].used
    BY <1>2, <1>3, <1>4, <2>1, <2>2 DEF AllocHead, Reused, PageType
  <2>4. QED
    BY <2>3 DEF Link, Pages, NoPage
<1>6. \A r \in Pages \ {f} : page'[r] = page[r]
  BY <1>2, <1>3 DEF AllocHead
<1>7. UsedPages' = UsedPages \cup {f}
  BY <1>5, <1>6 DEF UsedPages
<1>8. Link(NoPage)' = f /\ Link(NoPage) = firstUsed
  BY <1>2 DEF Link, AllocHead
<1>9. \A p \in Places \ {NoPage} : Link(p)' = Link(p)
  BY <1>3, <1>6 DEF Link, Places, UsedPages
<1>10. NoPage < f /\ (firstUsed = NoPage \/ firstUsed > f)
  BY <1>2 DEF AllocHead, NoPage, Pages
<1>11. QED
  BY <1>3, <1>5, <1>7, <1>8, <1>9, <1>10, LinkedIn DEF Places

\* The page the loop stops at is before the one to be reused: the loop has
\* come to it from the head of the list, or from a page it did not stop at.
LEMMA StopsBefore ==
  ASSUME TypeOK, NEW q \in Pages, NEW f \in Pages, firstUsed <= f,
         BreaksAt(Before(f), q)
  PROVE  q <= f
<1>1. PICK k \in 0 .. MaxPages : Reaches(Before(f), k) /\ Walk[k] = q
  BY DEF BreaksAt
<1>2. CASE k = 0
  BY <1>1, <1>2, WalkIs
<1>3. CASE k # 0
  <2>1. k \in 1 .. MaxPages /\ k - 1 \in 0 .. k - 1 /\ k - 1 \in 0 .. MaxPages
    BY <1>3, PageFileAssumption
  <2>2. Walk[k - 1] # NoPage /\ Walk[k - 1] \notin Before(f)
    BY <1>1, <1>3, <2>1 DEF Reaches, Passes
  <2>3. Walk[k - 1] \in Pages /\ page[Walk[k - 1]].next = q
    BY <1>1, <2>1, <2>2, WalkIs
  <2>4. ~(q > f)
    BY <2>2, <2>3 DEF Before
  <2>5. QED
    BY <2>4 DEF Pages
<1>4. QED
  BY <1>2, <1>3

LEMMA AllocBetweenList ==
  ASSUME IInv, UsedListSound, NEW q \in Pages, AllocBetween(q)
  PROVE  UsedListSound'
<1>1. firstFree \in FreePages /\ firstFree \in Pages
  BY HeadIsFree DEF AllocBetween
<1>2. PICK f \in Pages : f = firstFree
  BY <1>1
<1>3. f \notin UsedPages /\ page \in [Pages -> PageType] /\ TypeOK
  BY <1>1, <1>2 DEF FreePages, UsedPages, IInv, TypeOK
<1>4. q \in UsedPages /\ (page[q].next > f \/ page[q].next = NoPage)
  BY <1>2 DEF AllocBetween, BreaksAt, Before, UsedPages
<1>5. q < f
  <2>1. q <= f
    BY <1>2, <1>3, StopsBefore DEF AllocBetween
  <2>2. QED
    BY <1>3, <1>4, <2>1 DEF Pages
<1>6. /\ page'[f] = Reused(page[q].next)
      /\ page'[q] = [page[q] EXCEPT !.next = f]
      /\ \A r \in Pages \ {f, q} : page'[r] = page[r]
  <2>1. f # q
    BY <1>5 DEF Pages
  <2>2. QED
    BY <1>2, <1>3, <2>1 DEF AllocBetween
<1>7. /\ page'[f].used /\ page'[f].next = page[q].next
      /\ page'[q].used /\ page'[q].next = f
  BY <1>2, <1>3, <1>4, <1>6 DEF Reused, PageType, UsedPages
<1>8. UsedPages' = UsedPages \cup {f}
  BY <1>4, <1>6, <1>7 DEF UsedPages
<1>9. f # NoPage /\ q # NoPage
  BY DEF Pages, NoPage
<1>10. Link(f)' = Link(q) /\ Link(q)' = f
  BY <1>7, <1>9 DEF Link
<1>11. \A p \in Places \ {q} : Link(p)' = Link(p)
  BY <1>3, <1>6 DEF Link, Places, UsedPages, AllocBetween
<1>12. q \in Places /\ (Link(q) = NoPage \/ Link(q) > f)
  BY <1>4, <1>9 DEF Places, Link
<1>13. QED
  BY <1>3, <1>5, <1>8, <1>10, <1>11, <1>12, LinkedIn

\* The page a file grows by has a higher number than any other.
LEMMA NewIsLast ==
  ASSUME IInv, numPages <= MaxPages
  PROVE  /\ numPages \in Pages /\ numPages \notin UsedPages
         /\ \A r \in UsedPages : r < numPages
<1>1. numPages \in Pages /\ numPages \in Int
  BY PageFileAssumption DEF IInv, TypeOK, Pages
<1>2. \A r \in UsedPages : r \in Int /\ r < numPages
  BY <1>1 DEF IInv, FreeListSound
<1>3. QED
  BY <1>1, <1>2

LEMMA AllocFirstList ==
  ASSUME IInv, UsedListSound, AllocFirst
  PROVE  UsedListSound'
<1>1. PICK f \in Pages : f = numPages
  BY NewIsLast DEF AllocFirst
<1>2. f \notin UsedPages /\ page \in [Pages -> PageType]
  BY <1>1, NewIsLast DEF AllocFirst, IInv, TypeOK
<1>3. page'[f] = FreshPage /\ \A r \in Pages \ {f} : page'[r] = page[r]
  BY <1>1, <1>2 DEF AllocFirst
<1>4. UsedPages' = UsedPages \cup {f}
  BY <1>3 DEF UsedPages, FreshPage
<1>5. f # NoPage /\ NoPage < f
  BY DEF Pages, NoPage
<1>6. Link(NoPage)' = f /\ Link(NoPage) = NoPage /\ Link(f)' = NoPage
  BY <1>1, <1>3, <1>5 DEF Link, AllocFirst, FreshPage
<1>7. \A p \in Places \ {NoPage} : Link(p)' = Link(p)
  BY <1>2, <1>3 DEF Link, Places, UsedPages
<1>8. QED
  BY <1>2, <1>4, <1>5, <1>6, <1>7, LinkedIn DEF Places

LEMMA AllocTailList ==
  ASSUME IInv, UsedListSound, NEW q \in Pages, AllocTail(q)
  PROVE  UsedListSound'
<1>1. PICK f \in Pages : f = numPages
  BY NewIsLast DEF AllocTail
<1>2. /\ f \notin UsedPages /\ page \in [Pages -> PageType]
      /\ q \in UsedPages /\ page[q].next = NoPage /\ q < f
  BY <1>1, NewIsLast DEF AllocTail, BreaksAt, TailPages, UsedPages, IInv, TypeOK
<1>3. /\ page'[f] = FreshPage /\ page'[q] = [page[q] EXCEPT !.next = f]
      /\ \A r \in Pages \ {f, q} : page'[r] = page[r]
  BY <1>1, <1>2 DEF AllocTail
<1>4. page'[q].used /\ page'[q].next = f
  BY <1>2, <1>3 DEF PageType, UsedPages
<1>5. UsedPages' = UsedPages \cup {f}
  <2>1. page'[f].used
    BY <1>3 DEF FreshPage
  <2>2. \A r \in Pages \ {f} : page'[r].used <=> page[r].used
    BY <1>2, <1>3, <1>4 DEF UsedPages
  <2>3. QED
    BY <2>1, <2>2 DEF UsedPages
<1>6. f # NoPage /\ q # NoPage
  BY DEF Pages, NoPage
<1>7. Link(q)' = f /\ Link(q) = NoPage /\ Link(f)' = NoPage
  BY <1>2, <1>3, <1>4, <1>6 DEF Link, FreshPage
<1>8. \A p \in Places \ {q} : Link(p)' = Link(p)
  BY <1>2, <1>3 DEF Link, Places, UsedPages, AllocTail
<1>9. QED
  BY <1>2, <1>5, <1>7, <1>8, LinkedIn DEF Places

\* A loop that has written nothing, and readPage.
LEMMA SamePages ==
  ASSUME UsedListSound, UNCHANGED <<firstUsed, page>>
  PROVE  UsedListSound'
BY LinksKept DEF UsedPages, Link

LEMMA AllocateList ==
  ASSUME IInv, UsedListSound, ~(firstUsed = NoPage /\ numFree > 1), AllocatePage
  PROVE  UsedListSound'
<1>1. ASSUME NEW S, Fails(S) PROVE UsedListSound'
  BY <1>1, SamePages DEF Fails, header
<1>2. QED
  BY <1>1, AllocHeadList, AllocBetweenList, AllocFirstList, AllocTailList
  DEF AllocatePage, AllocBetweenFails, AllocTailFails

\* Of a stale copy writePage takes the body only.
LEMMA WriteList ==
  ASSUME IInv, UsedListSound, NEW d \in Data, WritePage(d)
  PROVE  UsedListSound'
<1>1. page \in [Pages -> PageType] /\ firstUsed' = firstUsed
  BY DEF WritePage, header, IInv, TypeOK
<1>2. \A r \in Pages : page'[r].used = page[r].used /\ page'[r].next = page[r].next
  <2>1. CASE UNCHANGED page
    BY <2>1
  <2>2. CASE page' = [page EXCEPT ![copy.num] = Written(copy.num, d)]
    BY <1>1, <2>2 DEF Written, PageType
  <2>3. QED
    BY <2>1, <2>2 DEF WritePage
<1>3. UsedPages' = UsedPages /\ \A p \in Places : Link(p)' = Link(p)
  BY <1>1, <1>2 DEF UsedPages, Places, Link
<1>4. QED
  BY <1>3, LinksKept

LEMMA DeleteHeadList ==
  ASSUME IInv, UsedListSound, NEW p \in Pages, page[p].used, DeleteHead(p)
  PROVE  UsedListSound'
<1>1. page \in [Pages -> PageType] /\ p \in UsedPages /\ p # NoPage
  BY DEF IInv, TypeOK, UsedPages, Pages, NoPage
<1>2. ~page'[p].used /\ \A r \in Pages \ {p} : page'[r] = page[r]
  BY <1>1 DEF DeleteHead, Freed
<1>3. UsedPages' = UsedPages \ {p}
  BY <1>2 DEF UsedPages
<1>4. Link(NoPage) = p /\ Link(NoPage)' = Link(p)
  BY <1>1 DEF Link, DeleteHead
<1>5. \A r \in Places \ {NoPage, p} : Link(r)' = Link(r)
  BY <1>2 DEF Link, Places, UsedPages
<1>6. QED
  BY <1>1, <1>3, <1>4, <1>5, LinkedOut DEF Places

LEMMA DeleteAfterList ==
  ASSUME IInv, UsedListSound, NEW p \in Pages, page[p].used,
         NEW q \in Pages, DeleteAfter(p, q)
  PROVE  UsedListSound'
<1>1. /\ page \in [Pages -> PageType] /\ p \in UsedPages /\ p # NoPage
      /\ q \in UsedPages /\ q # NoPage /\ page[q].next = p
  BY DEF IInv, TypeOK, UsedPages, Pages, NoPage, DeleteAfter, BreaksAt, PointTo
<1>2. q # p
  BY <1>1, SoundLinks DEF NextUsed, Places, Link, UsedPages, Pages
<1>3. /\ ~page'[p].used
      /\ page'[q].used /\ page'[q].next = page[p].next
      /\ \A r \in Pages \ {p, q} : page'[r] = page[r]
  BY <1>1, <1>2 DEF DeleteAfter, Freed, PageType, UsedPages
<1>4. UsedPages' = UsedPages \ {p}
  BY <1>1, <1>2, <1>3 DEF UsedPages
<1>5. Link(q) = p /\ Link(q)' = Link(p)
  BY <1>1, <1>3 DEF Link
<1>6. \A r \in Places \ {q, p} : Link(r)' = Link(r)
  <2>1. firstUsed' = firstUsed
    BY DEF DeleteAfter
  <2>2. \A r \in Places : r \in Pages \/ r = NoPage
    BY DEF Places, UsedPages
  <2>3. QED
    BY <1>3, <2>1, <2>2 DEF Link
<1>7. QED
  BY <1>1, <1>4, <1>5, <1>6, LinkedOut DEF Places

\* The loop for the page before one in use meets it: until it does, it stands
\* at a page in use before that one.
LEMMA NoneLost ==
  ASSUME TypeOK, UsedListSound, NEW p \in Pages, page[p].used, p # firstUsed
  PROVE  ~Ends(PointTo(p))
<1> SUFFICES ASSUME NEW k \in 0 .. MaxPages, Reaches(PointTo(p), k), Walk[k] = NoPage
             PROVE  FALSE
  BY DEF Ends
<1>1. p \in UsedPages /\ p \in Int /\ p > 0
  BY DEF UsedPages, Pages
<1>2. ASSUME NEW q \in Places, q < p, Link(q) # p
      PROVE  Link(q) \in UsedPages /\ Link(q) < p
  BY <1>1, <1>2, SoundLinks DEF NextUsed, NoPage
<1> DEFINE S == {i \in Nat : i <= k => Walk[i] \in UsedPages /\ Walk[i] < p}
<1>3. 0 \in S
  <2>1. NoPage \in Places /\ NoPage < p /\ Link(NoPage) = firstUsed
    BY <1>1 DEF Places, Link, NoPage
  <2>2. Walk[0] = firstUsed
    BY WalkIs
  <2>3. QED
    BY <1>2, <2>1, <2>2
<1>4. ASSUME NEW i \in Nat, i \in S PROVE i + 1 \in S
  <2>1. CASE i + 1 <= k
    <3>1. i \in 0 .. k - 1 /\ k # 0 /\ i + 1 \in 1 .. MaxPages /\ (i + 1) - 1 = i
      BY <2>1, PageFileAssumption
    <3>2. Walk[i] \in UsedPages /\ Walk[i] < p
      BY <1>4, <3>1
    <3>3. Walk[i] # NoPage /\ page[Walk[i]].next # p
      BY <3>1, <3>2 DEF Reaches, Passes, PointTo, UsedPages
    <3>4. Walk[i + 1] = Link(Walk[i])
      BY <3>1, <3>3, WalkIs DEF Link
    <3>5. Link(Walk[i]) \in UsedPages /\ Link(Walk[i]) < p
      BY <1>2, <3>2, <3>3 DEF Places, Link
    <3>6. QED
      BY <3>4, <3>5
  <2>2. CASE ~(i + 1 <= k)
    BY <2>2
  <2>3. QED
    BY <2>1, <2>2
<1>5. k \in S
  <2> HIDE DEF S
  <2>1. k \in Nat
    BY PageFileAssumption
  <2>2. QED
    BY <1>3, <1>4, <2>1, SetInduction
<1>6. QED
  BY <1>5 DEF UsedPages, Pages, NoPage

LEMMA DeleteList ==
  ASSUME IInv, UsedListSound, NEW p \in Pages, DeletePage(p)
  PROVE  UsedListSound'
<1>1. CASE /\ page[p].used
           /\ DeleteHead(p) \/ DeleteLost(p) \/ \E q \in Pages : DeleteAfter(p, q)
  <2>1. ~DeleteLost(p)
    BY <1>1, NoneLost DEF DeleteLost, IInv
  <2>2. QED
    BY <1>1, <2>1, DeleteHeadList, DeleteAfterList
<1>2. CASE DeleteFails(p) \/ DeleteFree(p)
  BY <1>2, SamePages DEF DeleteFails, Fails, DeleteFree, header
<1>3. QED
  BY <1>1, <1>2 DEF DeletePage

\* In a file of any size every call but one keeps a sound used list sound: the
\* exception is an allocation that reuses one of several free pages while no
\* page is in use (file.cpp:163-261).
THEOREM UsedListKeptAlways == Spec => UsedListKept
<1>1. IInv /\ [Next]_vars =>
        [UsedListSound /\ ~(firstUsed = NoPage /\ numFree > 1) => UsedListSound']_vars
  <2> SUFFICES ASSUME IInv, Next, UsedListSound, ~(firstUsed = NoPage /\ numFree > 1)
               PROVE  UsedListSound'
    OBVIOUS
  <2>1. CASE AllocatePage
    BY <2>1, AllocateList
  <2>2. ASSUME NEW d \in Data, WritePage(d) PROVE UsedListSound'
    BY <2>2, WriteList
  <2>3. ASSUME NEW p \in 1 .. numPages - 1, ReadPage(p) \/ DeletePage(p)
        PROVE  UsedListSound'
    <3>1. p \in Pages
      BY PageFileAssumption DEF IInv, TypeOK, Pages
    <3>2. CASE ReadPage(p)
      BY <3>2, SamePages DEF ReadPage, header
    <3>3. QED
      BY <2>3, <3>1, <3>2, DeleteList
  <2>4. QED
    BY <2>1, <2>2, <2>3 DEF Next
<1>2. QED
  BY InitInv, NextInv, <1>1, PTL DEF Spec, UsedListKept
=============================================================================
