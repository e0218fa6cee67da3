----------------------------- MODULE BTreeScan -----------------------------
(***************************************************************************)
(* The filtered scan of the B+ tree (startScan, scanNext and endScan of    *)
(* src/p3/src/btree.cpp) beside insertions that throw nothing.             *)
(*                                                                         *)
(* A page that cannot be pinned throws BufferExceededException out of any  *)
(* of the reads.  Not modelled: startScan reads the level of a node it has *)
(* unpinned, in a frame the read of the child may have taken               *)
(* (btree.cpp:423-428); here that frame still holds the node.              *)
(***************************************************************************)
EXTENDS BTree

CONSTANTS
  Bounds,  \* the values a scan is bounded by
  IntMax   \* INT_MAX, the key behind the last key of a node

ASSUME ScanAssumption ==
  /\ IntMax \in Int
  /\ Bounds \subseteq Int
  /\ \A k \in Keys : k < IntMax
  /\ \A b \in Bounds : b <= IntMax

Done == 0         \* -1 in the code, whose slots count from 0
HeaderPage == 1   \* headerPageNum

VARIABLES
  scanExecuting, lowVal, lowOp, highVal, highOp,
  currentPageNum,
  nextEntry,
  pins,      \* how often the scan has pinned each page
  moved      \* an insertion has changed the leaf the scan is on

range == <<lowVal, lowOp, highVal, highOp>>
scan == <<range, scanExecuting, currentPageNum, nextEntry, pins>>
svars == <<vars, scan, moved>>

\* The slots of a scan that has never been started hold any values.
ScanInit ==
  /\ Init
  /\ scanExecuting = FALSE
  /\ lowVal \in Bounds /\ highVal = lowVal /\ lowOp = "GT" /\ highOp = "LT"
  /\ currentPageNum = NoPage
  /\ nextEntry = Done
  /\ pins = [p \in NoPage .. MaxPages |-> 0]
  /\ moved = FALSE

Pinned(b, p) == [b EXCEPT ![p] = @ + 1]
Unpinned(b, p) == [b EXCEPT ![p] = @ - 1]

Leaf == node[currentPageNum]

(***************************************************************************)
(* The page that does not exist is the one a scan reads when it descends   *)
(* through a root without the key INT_MAX.  Its read leaves the file's     *)
(* stream failed, so no step follows here.                                 *)
(***************************************************************************)
StreamGood == pins[NoPage] = 0
-----------------------------------------------------------------------------
AtLeast(k) == k > lowVal \/ (k = lowVal /\ lowOp = "GTE")
AtMost(k) == k < highVal \/ (k = highVal /\ highOp = "LTE")
Matches(k) == AtLeast(k) /\ AtMost(k)

(***************************************************************************)
(* The descent of startScan to a leaf.                                     *)
(***************************************************************************)
\* The slots behind the key of a root without INT_MAX are still zero.
SlotKey(n, i) ==
  IF i <= Len(n.keys) THEN n.keys[i] ELSE IF n.bound THEN IntMax ELSE 0

SlotPage(n, i) == IF i <= Len(n.kids) THEN n.kids[i] ELSE NoPage

ChildLeft(n, low) ==
  LET i == CHOOSE i \in 1 .. nodeOccupancy :
             /\ SlotKey(n, i) >= low \/ i = nodeOccupancy
             /\ \A j \in 1 .. i - 1 : SlotKey(n, j) < low
  IN  SlotPage(n, i)

Child(n, low) ==
  LET i == CHOOSE i \in 1 .. nodeOccupancy :
             /\ SlotKey(n, i) >= low \/ i = nodeOccupancy
             /\ \A j \in 1 .. i - 1 : SlotKey(n, j) < low
      p == SlotPage(n, IF SlotKey(n, i) > low THEN i ELSE i + 1)
  IN  IF p = NoPage THEN SlotPage(n, i) ELSE p

\* The pages startScan reads below the meta page, NoPage the last of them if
\* it gets there.
Descent(low) ==
  LET page[i \in 1 .. height] ==
        IF i = 1 THEN root
        ELSE IF page[i - 1] = NoPage THEN NoPage
        ELSE Child(node[page[i - 1]], low)
  IN  page

\* The slots of a leaf startScan looks at: those in use, and INT_MAX.
LeafKey(n, i) == IF i <= Len(n.keys) THEN n.keys[i] ELSE IntMax

(***************************************************************************)
(* Where startScan lands: a page and an entry of it, Done if it throws     *)
(* NoSuchKeyFoundException.  A leaf whose slots hold none it wants hands   *)
(* over to the first entry of its right sibling; a leaf that is not full   *)
(* does so for a highVal of INT_MAX only, as its INT_MAX ends the loop.    *)
(***************************************************************************)
Wanted(k, low, lop, high) == (k > low /\ k < high) \/ (k = low /\ lop = "GTE")

\* The slot that ends the loop over the leaf.
StopsAt(n, low, lop, high) ==
  CHOOSE i \in 1 .. leafOccupancy + 1 :
    /\ \/ i > Len(n.keys)
       \/ n.keys[i] > high
       \/ Wanted(n.keys[i], low, lop, high)
    /\ \A j \in 1 .. i - 1 : j <= Len(n.keys) /\ n.keys[j] <= high
                             /\ ~Wanted(n.keys[j], low, lop, high)

Throws(n, i, high) ==
  \/ i <= leafOccupancy /\ LeafKey(n, i) > high
  \/ i > Len(n.keys) /\ n.next = NoPage

Landing(low, lop, high) ==
  LET p == Descent(low)[height] IN
    IF p = NoPage THEN <<NoPage, Done>>
    ELSE LET n == node[p]
             i == StopsAt(n, low, lop, high)
         IN  IF Throws(n, i, high) THEN <<p, Done>>
             ELSE IF i <= Len(n.keys) THEN <<p, i>>
             ELSE <<n.next, 1>>

HeldOn == pins

\* endScan, for a scan startScan finds executing.
Held == IF scanExecuting THEN Unpinned(pins, currentPageNum) ELSE pins
-----------------------------------------------------------------------------
(***************************************************************************)
(* startScan has taken over its parameters before it refuses the range or  *)
(* ends the scan that is executing.                                        *)
(***************************************************************************)
SetRange(low, lop, high, hop) ==
  /\ lowVal' = low /\ lowOp' = lop
  /\ highVal' = high /\ highOp' = hop

StartScan(low, lop, high, hop) ==
  LET landing == Landing(low, lop, high) IN
    /\ low <= high
    /\ StreamGood
    /\ scanExecuting => pins[currentPageNum] > 0
    /\ SetRange(low, lop, high, hop)
    /\ scanExecuting' = TRUE
    /\ currentPageNum' = landing[1]
    /\ nextEntry' = landing[2]
    /\ pins' = Pinned(Held, landing[1])
    /\ moved' = FALSE
    /\ UNCHANGED vars

\* No frame for the meta page or a node: nextEntry is what it was, or Done
\* if it is the right sibling that finds none.
StartScanExceeded(low, lop, high, hop) ==
  LET path == Descent(low)
      landing == Landing(low, lop, high) IN
    /\ low <= high
    /\ StreamGood
    /\ scanExecuting => pins[currentPageNum] > 0
    /\ SetRange(low, lop, high, hop)
    /\ scanExecuting' = TRUE
    /\ \/ /\ currentPageNum' \in {HeaderPage} \cup ToSet(path)
          /\ nextEntry' = nextEntry
       \/ /\ landing[1] \notin {path[height], NoPage}
          /\ currentPageNum' = landing[1]
          /\ nextEntry' = Done
    /\ pins' = Held
    /\ moved' = FALSE
    /\ UNCHANGED vars

\* BadScanrangeException: a scan that is executing goes on in the bad range.
StartScanBadRange(low, lop, high, hop) ==
  /\ low > high
  /\ StreamGood
  /\ SetRange(low, lop, high, hop)
  /\ UNCHANGED <<vars, scanExecuting, currentPageNum, nextEntry, pins, moved>>

\* The scan that is executing has no page to unpin: endScan throws.
StartScanAdrift(low, lop, high, hop) ==
  /\ low <= high
  /\ StreamGood
  /\ scanExecuting
  /\ pins[currentPageNum] = 0
  /\ SetRange(low, lop, high, hop)
  /\ scanExecuting' = FALSE
  /\ UNCHANGED <<vars, currentPageNum, nextEntry, pins, moved>>

(***************************************************************************)
(* scanNext returns the entry at nextEntry and moves on.  What it returns  *)
(* once the scan has lost its pin, or once its leaf has changed under it,  *)
(* is not modelled.                                                        *)
(***************************************************************************)
Ready ==
  /\ scanExecuting
  /\ nextEntry # Done
  /\ StreamGood
  /\ pins[currentPageNum] > 0
  /\ ~moved

NextInLeaf ==
  /\ nextEntry < Len(Leaf.keys)
  /\ nextEntry' = IF AtMost(Leaf.keys[nextEntry + 1]) THEN nextEntry + 1 ELSE Done
  /\ UNCHANGED <<currentPageNum, pins>>

NextNone ==
  /\ nextEntry = Len(Leaf.keys)
  /\ Leaf.next = NoPage
  /\ nextEntry' = Done
  /\ UNCHANGED <<currentPageNum, pins>>

NextLeafUnchecked ==
  /\ nextEntry = Len(Leaf.keys)
  /\ Leaf.next # NoPage
  /\ currentPageNum' = Leaf.next
  /\ pins' = Pinned(Unpinned(pins, currentPageNum), Leaf.next)
  /\ nextEntry' = 1

NextLeaf ==
  /\ nextEntry = Len(Leaf.keys)
  /\ Leaf.next # NoPage
  /\ currentPageNum' = Leaf.next
  /\ pins' = Pinned(Unpinned(pins, currentPageNum), Leaf.next)
  /\ nextEntry' = IF AtMost(node[Leaf.next].keys[1]) THEN 1 ELSE Done

\* No frame for the right sibling, and the leaf is unpinned.
NextLeafExceeded ==
  /\ nextEntry = Len(Leaf.keys)
  /\ Leaf.next # NoPage
  /\ currentPageNum' = Leaf.next
  /\ pins' = Unpinned(pins, currentPageNum)
  /\ UNCHANGED nextEntry

ScanNext ==
  /\ Ready
  /\ NextInLeaf \/ NextNone \/ NextLeaf \/ NextLeafExceeded
  /\ UNCHANGED <<vars, range, scanExecuting, moved>>

\* Throws PageNotPinnedException or HashNotFoundException if it holds no pin.
EndScan ==
  /\ scanExecuting
  /\ StreamGood
  /\ scanExecuting' = FALSE
  /\ pins' = IF pins[currentPageNum] > 0 THEN Unpinned(pins, currentPageNum) ELSE pins
  /\ UNCHANGED <<vars, range, currentPageNum, nextEntry, moved>>

Insert(k) ==
  /\ k \notin Contents
  /\ StreamGood
  /\ InsertInside(k) \/ InsertAbove(k)
  /\ moved' = (moved \/ (scanExecuting /\ currentPageNum \in PageIds
                         /\ node'[currentPageNum] # Leaf))
  /\ UNCHANGED scan

ScanStep ==
  \/ \E low, high \in Bounds, lop \in {"GT", "GTE"}, hop \in {"LT", "LTE"} :
       \/ StartScan(low, lop, high, hop)
       \/ StartScanExceeded(low, lop, high, hop)
       \/ StartScanBadRange(low, lop, high, hop)
       \/ StartScanAdrift(low, lop, high, hop)
  \/ ScanNext
  \/ EndScan
  \/ \E k \in Keys : Insert(k)

ScanSpec == ScanInit /\ [][ScanStep]_svars
-----------------------------------------------------------------------------
(***************************************************************************)
(* Properties.                                                             *)
(***************************************************************************)
\* The scan pins at most the page it is on, and none once it has ended,
\* whichever of its operations have thrown: nothing else keeps the index
\* file from being flushed.
OnePin ==
  \A p \in DOMAIN pins :
    pins[p] # 0 => pins[p] = 1 /\ scanExecuting /\ p = currentPageNum

Current == Leaf.keys[nextEntry]
Starts == StartScan(lowVal', lowOp', highVal', highOp')

\* A scan that startScan has started begins at a key above its low bound,
\* and passes over none that is strictly inside its range.
StartPassesNone ==
  [][Starts /\ nextEntry' # Done =>
       /\ AtLeast(Current)'
       /\ \A k \in Contents : AtLeast(k)' /\ k < highVal' => Current' <= k]_svars

\* scanNext moves on to the key that follows in the index, in whichever leaf
\* that is now, and completes the scan if that is beyond the high bound.
Advances ==
  [][ScanNext /\ pins'[currentPageNum'] > 0 =>
       LET later == {k \in Contents : k > Current} IN
         IF nextEntry' = Done
         THEN \A k \in later : ~AtMost(k)
         ELSE /\ Current' \in later /\ AtMost(Current')
              /\ \A k \in later : Current' <= k]_svars

\* "NoSuchKeyFoundException If there is no key in the B+ tree that satisfies
\* the scan criteria." (btree.h:357)
NoSuchKeyIfNone ==
  [][Starts /\ nextEntry' = Done => \A k \in Contents : ~Matches(k)']_svars
=============================================================================
