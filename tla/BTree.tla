------------------------------- MODULE BTree -------------------------------
(***************************************************************************)
(* The B+ tree index of project 3 (BTreeIndex, src/p3/src/btree.cpp): its  *)
(* nodes, one to a page of the index file, and the insertion of an entry.  *)
(*                                                                         *)
(* A node is its array slots up to the first empty one, which the code     *)
(* finds by an INVALID_NUMBER in ridArray or pageNoArray.  The slots after *)
(* are not read again but by startScan, which trusts the key INT_MAX the   *)
(* code writes into the first of them: bound says that key is there.       *)
(* Keys are distinct ("No duplicate keys", btree.cpp:173), so a key stands *)
(* for its record id too.                                                  *)
(*                                                                         *)
(* An insertion pins the meta page, the nodes from the root to a leaf and  *)
(* each new node.  Any of these may throw BufferExceededException, as the  *)
(* other users of the buffer pool hold its frames; what was done is not    *)
(* undone and what was pinned stays pinned.                                *)
(***************************************************************************)
EXTENDS Integers, SequencesExt

CONSTANTS
  Keys,           \* the values of the indexed attribute
  leafOccupancy,  \* entries a leaf holds
  nodeOccupancy,  \* keys a non-leaf node holds
  MaxPages        \* bound: pages of the index file

ASSUME BTreeAssumption ==
  /\ Keys \subseteq Int
  /\ leafOccupancy \in Nat \ {0, 1}
  /\ nodeOccupancy \in Nat \ {0, 1}
  /\ MaxPages \in Nat \ {0, 1}

NoPage == 0
FirstLeaf == 2                    \* page 1 is the meta page
PageIds == FirstLeaf .. MaxPages

VARIABLES
  node,      \* the node on each page
  root,      \* rootPageNum, and rootPageNo of the meta page
  height,    \* height of the meta page
  numPages,  \* the page allocatePage gives out next
  damage     \* what insertions that threw have left of the tree

vars == <<node, root, height, numPages, damage>>

(***************************************************************************)
(* An insertion that throws in its descent changes no node.  One that      *)
(* cannot allocate a new root leaves the tree "unrooted": the right half   *)
(* of the root is in the leaf chain and has no parent.  One that cannot    *)
(* allocate a right sibling leaves a node "overfull", with one entry too   *)
(* many.  The next entry for that node is written past its arrays, so no   *)
(* insertion follows here.                                                 *)
(***************************************************************************)
Damages == {"unrooted", "overfull"}

NodeType ==
  [keys : Seq(Keys), kids : Seq(PageIds), next : PageIds \cup {NoPage},
   level : {0, 1}, bound : BOOLEAN]

EmptyLeaf ==
  [keys |-> <<>>, kids |-> <<>>, next |-> NoPage, level |-> 0, bound |-> TRUE]

Init ==
  /\ node = [p \in PageIds |-> EmptyLeaf]
  /\ root = FirstLeaf
  /\ height = 1
  /\ numPages = FirstLeaf + 1
  /\ damage = {}

-----------------------------------------------------------------------------
(***************************************************************************)
(* The descent.  Pos is the number of slots passed over: a child to the    *)
(* right of a key holds the entries not less than it.                      *)
(***************************************************************************)
PosAtEnd(n, k) == Len(n.keys)

Pos(n, k) == Cardinality({i \in DOMAIN n.keys : n.keys[i] <= k})

\* The pages from the root down to the leaf where k belongs.
Path(k) ==
  LET page[i \in 1 .. height] ==
        IF i = 1 THEN root
        ELSE node[page[i - 1]].kids[Pos(node[page[i - 1]], k) + 1]
  IN  page

Occupancy(n) == IF n.kids = <<>> THEN leafOccupancy ELSE nodeOccupancy

FullLate(n) == Len(n.keys) > Occupancy(n)

Full(n) == Len(n.keys) = Occupancy(n)

(***************************************************************************)
(* The split of a node g that holds one entry too many, p being the page   *)
(* of its new right sibling.                                               *)
(***************************************************************************)
LeftSizeAll(g) == Len(g.keys) - 1

LeftSize(g) ==
  IF g.kids = <<>> THEN leafOccupancy \div 2 + 1
                   ELSE (nodeOccupancy + 1) \div 2

\* A leaf keeps its separator, a non-leaf node gives it up to its parent.
SeparatorOfLeft(g) == g.keys[LeftSize(g)]

Separator(g) == g.keys[LeftSize(g) + 1]

Left(g, p) ==
  IF g.kids = <<>>
  THEN [g EXCEPT !.keys = SubSeq(@, 1, LeftSize(g)), !.next = p]
  ELSE [g EXCEPT !.keys = SubSeq(@, 1, LeftSize(g)),
                 !.kids = SubSeq(@, 1, LeftSize(g) + 1), !.bound = TRUE]

RightLast(g) ==
  IF g.kids = <<>>
  THEN [g EXCEPT !.keys = SubSeq(@, LeftSize(g) + 1, Len(@)), !.next = NoPage]
  ELSE [g EXCEPT !.keys = SubSeq(@, LeftSize(g) + 2, Len(@)),
                 !.kids = SubSeq(@, LeftSize(g) + 2, Len(@)), !.bound = TRUE]

Right(g) ==
  IF g.kids = <<>>
  THEN [g EXCEPT !.keys = SubSeq(@, LeftSize(g) + 1, Len(@))]
  ELSE [g EXCEPT !.keys = SubSeq(@, LeftSize(g) + 2, Len(@)),
                 !.kids = SubSeq(@, LeftSize(g) + 2, Len(@)), !.bound = TRUE]

-----------------------------------------------------------------------------
(***************************************************************************)
(* insertEntry and insertUnderNode.  The node at depth i of the path takes *)
(* in an entry if it is the leaf or the node below it has split; it splits *)
(* if it was full.  New pages are allocated from the leaf upward.          *)
(***************************************************************************)
Splits(path, i) == \A j \in i .. height : Full(node[path[j]])
TakesIn(path, i) == i = height \/ Splits(path, i + 1)

NewPage(i) == numPages + height - i

\* The nodes of the path with what they take in, before any of them splits.
Grown(path, k) ==
  LET g[i \in 1 .. height] ==
        LET n == node[path[i]] IN
          IF i = height
          THEN [n EXCEPT !.keys = InsertAt(@, Pos(n, k) + 1, k)]
          ELSE IF TakesIn(path, i)
          THEN [n EXCEPT !.keys = InsertAt(@, Pos(n, k) + 1, Separator(g[i + 1])),
                         !.kids = InsertAt(@, Pos(n, k) + 2, NewPage(i + 1))]
          ELSE n
  IN  g

\* A node that has taken in an entry without splitting.  One left overfull
\* has no slot for the key INT_MAX.
Kept(g, over) == [g EXCEPT !.bound = ~over]

\* The nodes once those at depths S have split and the node at depth top
\* alone has taken in its entry without splitting.
Stored(path, g, S, top) ==
  [p \in PageIds |->
     CASE \E i \in S : path[i] = p ->
            LET i == CHOOSE j \in S : path[j] = p IN Left(g[i], NewPage(i))
       [] \E i \in S : NewPage(i) = p ->
            Right(g[CHOOSE j \in S : NewPage(j) = p])
       [] top > 0 /\ path[IF top > 0 THEN top ELSE 1] = p ->
            Kept(g[top], "overfull" \in damage')
       [] OTHER -> node[p]]

NewRootUnlevelled(g, p) ==
  [keys |-> <<Separator(g)>>, kids |-> <<root, p>>, next |-> NoPage,
   level |-> 0, bound |-> FALSE]

\* The new root does not get a key INT_MAX behind its only key.
NewRoot(g, p) ==
  [keys |-> <<Separator(g)>>, kids |-> <<root, p>>, next |-> NoPage,
   level |-> IF height = 1 THEN 1 ELSE 0, bound |-> FALSE]

\* Some node on the path takes the entry in without splitting.
InsertInside(k) ==
  LET path == Path(k)
      S == {i \in 1 .. height : Splits(path, i)} IN
    /\ 1 \notin S
    /\ numPages + Cardinality(S) <= MaxPages + 1
    /\ UNCHANGED <<root, height, damage>>
    /\ node' = Stored(path, Grown(path, k), S, height - Cardinality(S))
    /\ numPages' = numPages + Cardinality(S)

\* Every node on the path splits, and the tree grows by a level.
InsertAbove(k) ==
  LET path == Path(k)
      g == Grown(path, k)
      newRoot == numPages + height IN
    /\ Splits(path, 1)
    /\ newRoot <= MaxPages
    /\ UNCHANGED damage
    /\ node' = [Stored(path, g, 1 .. height, 0)
                  EXCEPT ![newRoot] = NewRoot(g[1], NewPage(1))]
    /\ root' = newRoot
    /\ height' = height + 1
    /\ numPages' = newRoot + 1

\* No frame for the right sibling of the node at depth i.
InsertOverfull(k, i) ==
  LET path == Path(k) IN
    /\ Splits(path, i)
    /\ NewPage(i) <= MaxPages + 1
    /\ damage' = damage \cup {"overfull"}
    /\ node' = Stored(path, Grown(path, k), i + 1 .. height, i)
    /\ numPages' = NewPage(i)
    /\ UNCHANGED <<root, height>>

\* No frame for the new root.
InsertUnrooted(k) ==
  LET path == Path(k) IN
    /\ Splits(path, 1)
    /\ numPages + height <= MaxPages + 1
    /\ damage' = damage \cup {"unrooted"}
    /\ node' = Stored(path, Grown(path, k), 1 .. height, 0)
    /\ numPages' = numPages + height
    /\ UNCHANGED <<root, height>>

-----------------------------------------------------------------------------
(***************************************************************************)
(* The leaves, linked from the first by rightSibPageNo.                    *)
(***************************************************************************)
Chain[i \in 1 .. MaxPages] ==
  IF i = 1 THEN FirstLeaf
  ELSE IF Chain[i - 1] = NoPage THEN NoPage
  ELSE node[Chain[i - 1]].next

Leaves == {p \in {Chain[i] : i \in 1 .. MaxPages} : p # NoPage}
Contents == UNION {ToSet(node[p].keys) : p \in Leaves}

InsertEntry(k) ==
  /\ k \notin Contents
  /\ "overfull" \notin damage
  /\ \/ InsertInside(k)
     \/ InsertAbove(k)
     \/ InsertUnrooted(k)
     \/ \E i \in 1 .. height : InsertOverfull(k, i)

Next == \E k \in Keys : InsertEntry(k)

Spec == Init /\ [][Next]_vars
-----------------------------------------------------------------------------
(***************************************************************************)
(* Properties.                                                             *)
(***************************************************************************)
\* A node holds no more than its occupancy, but for the one an interrupted
\* split has left overfull.
TypeOK ==
  /\ \A p \in PageIds :
       /\ node[p].keys \in Seq(Keys)
       /\ node[p].kids \in Seq(PageIds)
       /\ node[p].next \in PageIds \cup {NoPage}
       /\ node[p].level \in {0, 1} /\ node[p].bound \in BOOLEAN
       /\ Len(node[p].keys) <= Occupancy(node[p])
                               + (IF "overfull" \in damage THEN 1 ELSE 0)
  /\ root \in PageIds
  /\ height \in 1 .. MaxPages
  /\ numPages \in FirstLeaf + 1 .. MaxPages + 1
  /\ damage \subseteq Damages

\* The keys of the leaves from left to right.
InOrder == FlattenSeq([i \in 1 .. MaxPages |->
                         IF Chain[i] = NoPage THEN <<>> ELSE node[Chain[i]].keys])

\* The leaf chain lists the keys in ascending order, each once, while every
\* root that was split has a parent: a scan that follows it misses none.
ChainSorted ==
  "unrooted" \notin damage =>
    \A i \in 1 .. Len(InOrder) - 1 : InOrder[i] < InOrder[i + 1]

\* Every key inserted is in the leaf its own descent leads to, so that a
\* search finds it, however many splits have moved it.
Searchable ==
  "unrooted" \notin damage =>
    \A k \in Contents : k \in ToSet(node[Path(k)[height]].keys)

\* The nodes at each depth of the tree.
Level[i \in 1 .. height] ==
  IF i = 1 THEN {root} ELSE UNION {ToSet(node[p].kids) : p \in Level[i - 1]}

\* All leaves are at the same depth, the one the meta page tells, and the
\* nodes right above them are the ones of level 1; a node with n keys has
\* n + 1 children.
Balanced ==
  \A i \in 1 .. height : \A p \in Level[i] :
    /\ i = height <=> node[p].kids = <<>>
    /\ i < height => Len(node[p].kids) = Len(node[p].keys) + 1
    /\ i < height => (node[p].level = 1 <=> i = height - 1)

\* Every node but the root is at least half full.
HalfFull ==
  \A i \in 2 .. height : \A p \in Level[i] :
    Len(node[p].keys) >= IF i = height THEN (leafOccupancy + 1) \div 2
                                       ELSE nodeOccupancy \div 2

\* No insertion, not even one that throws halfway, loses a key.
Index == INSTANCE IndexSet WITH entries <- Contents

IndexSpec == Index!Spec
=============================================================================
