------------------------------ MODULE PageFile ------------------------------
(***************************************************************************)
(* A page file of project 3 (PageFile, src/p3/src/file.cpp): a header and  *)
(* numbered pages, each threaded on one of two lists through its field     *)
(* next: the used list, meant to run in ascending order, and the free      *)
(* list, last deleted first.  Calls do not overlap; what goes stale is the *)
(* Page object a caller (the buffer manager) keeps between reading a page  *)
(* and writing it back, here copy.                                         *)
(*                                                                         *)
(* Callers pass page numbers from 1 up to the last page of the file.       *)
(***************************************************************************)
EXTENDS Integers

CONSTANTS
  MaxPages,  \* bound: pages the file may grow to, the header not counted
  Data,      \* contents of a page
  Empty,     \* the contents Page::initialize leaves
  Free,      \* what the layer above sees at a page not in use
  NoCopy     \* the caller keeps no Page

Pages == 1 .. MaxPages
NoPage == 0                       \* Page::INVALID_NUMBER

ASSUME PageFileAssumption ==
  /\ MaxPages \in Nat \ {0}
  /\ Empty \in Data
  /\ Free \notin Data

VARIABLES
  numPages,   \* FileHeader::num_pages, counting the header
  firstUsed,  \* FileHeader::first_used_page
  numFree,    \* FileHeader::num_free_pages
  firstFree,  \* FileHeader::first_free_page
  page,       \* the pages on disk
  copy,       \* a Page object a caller read or was given, not yet written back
  given,      \* the page allocatePage has just returned, else NoPage
  result      \* how the last call ended

header == <<numPages, firstUsed, numFree, firstFree>>
vars == <<numPages, firstUsed, numFree, firstFree, page, copy, given, result>>

\* isUsed: the number in the header of the page is its own, not INVALID_NUMBER.
PageType == [used : BOOLEAN, next : Pages \cup {NoPage}, body : Data]
CopyType == [num : Pages, next : Pages \cup {NoPage}, body : Data]
Result == {"ok", "InvalidPage", "Hung"}

FreshPage == [used |-> TRUE, next |-> NoPage, body |-> Empty]

CopyOf(p) == [num |-> p, next |-> page[p].next, body |-> page[p].body]

Init ==
  /\ numPages = 1
  /\ firstUsed = NoPage
  /\ numFree = 0
  /\ firstFree = NoPage
  /\ page = [p \in Pages |-> [FreshPage EXCEPT !.used = FALSE]]
  /\ copy = NoCopy
  /\ given = NoPage
  /\ result = "ok"

-----------------------------------------------------------------------------
(***************************************************************************)
(* The loops "for (iter = begin(); iter != end(); ++iter)" of file.cpp.    *)
(* Walk[k] is where the iterator stands after k steps; reading the page    *)
(* there throws if it is not in use.  S is where the loop breaks.          *)
(***************************************************************************)
Walk[k \in 0 .. MaxPages] ==
  IF k = 0 THEN firstUsed
  ELSE IF Walk[k - 1] = NoPage THEN NoPage
  ELSE page[Walk[k - 1]].next

Passes(S, k) ==
  \A j \in 0 .. k : Walk[j] # NoPage /\ page[Walk[j]].used /\ Walk[j] \notin S

Reaches(S, k) == k = 0 \/ Passes(S, k - 1)

BreaksAt(S, q) ==
  /\ q \in S
  /\ page[q].used
  /\ \E k \in 0 .. MaxPages : Reaches(S, k) /\ Walk[k] = q

Ends(S) == \E k \in 0 .. MaxPages : Reaches(S, k) /\ Walk[k] = NoPage

Throws(S) ==
  \E k \in 0 .. MaxPages :
    Reaches(S, k) /\ Walk[k] # NoPage /\ ~page[Walk[k]].used

\* More steps than pages: the list has a cycle, and the loop goes on forever.
Hangs(S) == Passes(S, MaxPages)

\* A loop over the used list that gives its call no chance to write.
Fails(S) ==
  /\ \/ Throws(S) /\ result' = "InvalidPage"
     \/ Hangs(S) /\ result' = "Hung"
  /\ given' = NoPage
  /\ UNCHANGED <<header, page, copy>>

\* A call that never returns ends the behaviour.
Returned == result # "Hung"

Gives(p) ==
  /\ given' = p
  /\ copy' = [num |-> p, next |-> page'[p].next, body |-> page'[p].body]
  /\ result' = "ok"

-----------------------------------------------------------------------------
(***************************************************************************)
(* allocatePage, with a page of the free list to reuse.  As the head of    *)
(* the used list the page gets the old head as its next page, unless there *)
(* is none: then it keeps the next it had on the free list.                *)
(***************************************************************************)
UnfreeNot ==
  /\ numFree' = numFree - 1
  /\ UNCHANGED firstFree

Unfree ==
  /\ firstFree' = page[firstFree].next
  /\ numFree' = numFree - 1

Reused(next) == [page[firstFree] EXCEPT !.used = TRUE, !.next = next]

AllocHead ==
  /\ numFree > 0
  /\ firstUsed = NoPage \/ firstUsed > firstFree
  /\ page' = [page EXCEPT ![firstFree] =
                Reused(IF firstUsed > firstFree THEN firstUsed ELSE @.next)]
  /\ firstUsed' = firstFree
  /\ Unfree
  /\ Gives(firstFree)
  /\ UNCHANGED numPages

\* The first page of the used list whose next page is a later one, or none.
Before(p) == {q \in Pages : page[q].next > p \/ page[q].next = NoPage}

AllocBetween(q) ==
  /\ numFree > 0
  /\ firstUsed # NoPage /\ firstUsed <= firstFree
  /\ BreaksAt(Before(firstFree), q)
  /\ page' = [page EXCEPT ![firstFree] = Reused(page[q].next),
                          ![q].next = firstFree]
  /\ Unfree
  /\ Gives(firstFree)
  /\ UNCHANGED <<numPages, firstUsed>>

AllocBetweenFails ==
  /\ numFree > 0
  /\ firstUsed # NoPage /\ firstUsed <= firstFree
  /\ Fails(Before(firstFree))

(***************************************************************************)
(* allocatePage, with no free page: the file grows by one, and the tail of *)
(* the used list is found by walking it.                                   *)
(***************************************************************************)
TailPages == {q \in Pages : page[q].next = NoPage}

AllocFirst ==
  /\ numFree = 0
  /\ firstUsed = NoPage
  /\ numPages <= MaxPages
  /\ page' = [page EXCEPT ![numPages] = FreshPage]
  /\ firstUsed' = numPages
  /\ numPages' = numPages + 1
  /\ Gives(numPages)
  /\ UNCHANGED <<numFree, firstFree>>

AllocTail(q) ==
  /\ numFree = 0
  /\ numPages <= MaxPages
  /\ BreaksAt(TailPages, q)
  /\ page' = [page EXCEPT ![numPages] = FreshPage, ![q].next = numPages]
  /\ numPages' = numPages + 1
  /\ Gives(numPages)
  /\ UNCHANGED <<firstUsed, numFree, firstFree>>

AllocTailFails ==
  /\ numFree = 0
  /\ numPages <= MaxPages
  /\ firstUsed # NoPage
  /\ Fails(TailPages)

AllocatePage ==
  /\ Returned
  /\ \/ AllocHead \/ AllocBetweenFails
     \/ AllocFirst \/ AllocTailFails
     \/ \E q \in Pages : AllocBetween(q) \/ AllocTail(q)

-----------------------------------------------------------------------------
(***************************************************************************)
(* readPage and writePage.  writePage takes everything from the caller's   *)
(* Page but the next page, which another call may have changed since.      *)
(***************************************************************************)
ReadPage(p) ==
  /\ Returned
  /\ \/ page[p].used /\ copy' = CopyOf(p) /\ result' = "ok"
     \/ ~page[p].used /\ UNCHANGED copy /\ result' = "InvalidPage"
  /\ given' = NoPage
  /\ UNCHANGED <<header, page>>

WrittenAll(p, d) == [used |-> TRUE, next |-> copy.next, body |-> d]

Written(p, d) == [page[p] EXCEPT !.body = d]

WritePage(d) ==
  /\ Returned
  /\ copy # NoCopy
  /\ LET p == copy.num IN
       \/ /\ page[p].used
          /\ page' = [page EXCEPT ![p] = Written(p, d)]
          /\ result' = "ok"
       \/ /\ ~page[p].used
          /\ result' = "InvalidPage"
          /\ UNCHANGED page
  /\ copy' = NoCopy
  /\ given' = NoPage
  /\ UNCHANGED header

(***************************************************************************)
(* deletePage.                                                             *)
(***************************************************************************)
FreedUnlinked(p) == [used |-> FALSE, next |-> NoPage, body |-> Empty]

FreedUninitialized(p) == [page[p] EXCEPT !.used = FALSE, !.next = firstFree]

Freed(p) == [used |-> FALSE, next |-> firstFree, body |-> Empty]

PointTo(p) == {q \in Pages : page[q].next = p}

DeleteHead(p) ==
  /\ p = firstUsed
  /\ firstUsed' = page[p].next
  /\ page' = [page EXCEPT ![p] = Freed(p)]

DeleteAfter(p, q) ==
  /\ p # firstUsed
  /\ BreaksAt(PointTo(p), q)
  /\ page' = [page EXCEPT ![q].next = page[p].next, ![p] = Freed(p)]
  /\ UNCHANGED firstUsed

\* The loop ends without meeting the page, and rewrites the last page of the
\* list as it was.  The code allows for it; no run reaches it.
DeleteLost(p) ==
  /\ p # firstUsed
  /\ Ends(PointTo(p))
  /\ page' = [page EXCEPT ![p] = Freed(p)]
  /\ UNCHANGED firstUsed

DeleteFreeAgain(p) ==
  /\ ~page[p].used
  /\ page' = [page EXCEPT ![p] = Freed(p)]
  /\ firstFree' = p
  /\ numFree' = numFree + 1
  /\ given' = NoPage
  /\ result' = "ok"
  /\ UNCHANGED <<numPages, firstUsed, copy>>

\* Reading the page throws when it is not in use.
DeleteFree(p) ==
  /\ ~page[p].used
  /\ given' = NoPage
  /\ result' = "InvalidPage"
  /\ UNCHANGED <<header, page, copy>>

DeleteFails(p) ==
  /\ page[p].used
  /\ p # firstUsed
  /\ Fails(PointTo(p))

DeletePage(p) ==
  /\ Returned
  /\ \/ /\ page[p].used
        /\ DeleteHead(p) \/ DeleteLost(p) \/ \E q \in Pages : DeleteAfter(p, q)
        /\ firstFree' = p
        /\ numFree' = numFree + 1
        /\ given' = NoPage
        /\ result' = "ok"
        /\ UNCHANGED <<numPages, copy>>
     \/ DeleteFails(p)
     \/ DeleteFree(p)

Next ==
  \/ AllocatePage
  \/ \E d \in Data : WritePage(d)
  \/ \E p \in 1 .. numPages - 1 : ReadPage(p) \/ DeletePage(p)

Spec == Init /\ [][Next]_vars
-----------------------------------------------------------------------------
(***************************************************************************)
(* Properties.                                                             *)
(***************************************************************************)
TypeOK ==
  /\ numPages \in 1 .. MaxPages + 1
  /\ firstUsed \in Pages \cup {NoPage}
  /\ numFree \in 0 .. MaxPages
  /\ firstFree \in Pages \cup {NoPage}
  /\ page \in [Pages -> PageType]
  /\ copy \in CopyType \cup {NoCopy}
  /\ given \in Pages \cup {NoPage}
  /\ result \in Result

UsedPages == {p \in Pages : page[p].used}
FreePages == {p \in 1 .. numPages - 1 : ~page[p].used}

\* l lists the free pages: from firstFree each leads to the next, the last to
\* none, and every free page of the file is on it exactly once.
IsFreeList(l) ==
  LET at(i) == IF i <= numFree THEN l[i] ELSE NoPage IN
    /\ \A i \in 1 .. numFree : page[l[i]].next = at(i + 1)
    /\ firstFree = at(1)
    /\ \A i, j \in 1 .. numFree : l[i] = l[j] => i = j
    /\ {l[i] : i \in 1 .. numFree} = FreePages

\* The free list is sound, however the used list fares: deleted pages are
\* all on it, nothing else is, and num_free_pages counts them.
FreeListSound ==
  /\ UsedPages \subseteq 1 .. numPages - 1
  /\ \E l \in [1 .. numFree -> Pages] : IsFreeList(l)

\* q is the next page in use after p, NoPage if there is none.
NextUsed(p, q) ==
  \/ q \in UsedPages /\ q > p /\ \A r \in UsedPages : r > p => r >= q
  \/ q = NoPage /\ \A r \in UsedPages : r <= p

\* The used list runs through the pages in use in ascending order.
UsedListSound ==
  /\ NextUsed(0, firstUsed)
  /\ \A p \in UsedPages : NextUsed(p, page[p].next)

\* Every call keeps a sound used list sound, stale copies written back
\* included, but for one: an allocation that reuses a page while no page is
\* in use and others are free.  It leaves its free-list link in the page
\* (file.cpp:176), where page.h:57 has the "Number of the next used page".
UsedListKept ==
  [][UsedListSound /\ ~(firstUsed = NoPage /\ numFree > 1)
       => UsedListSound']_vars

\* To the layer above the lists do not show.
Store == INSTANCE FileStore WITH
  disk <- [p \in Pages |-> IF page[p].used THEN page[p].body ELSE Free]

StoreSpec == Store!Spec
=============================================================================
