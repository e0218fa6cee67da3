------------------------------ MODULE FileScan ------------------------------
(***************************************************************************)
(* A FileScan of project 3 (src/p3/src/filescan.cpp) over the pages of a   *)
(* relation and a buffer pool that others use too.  The pool is what its   *)
(* callers see of it: the pages cached for each File object and their      *)
(* pins; any frame that is free or unpinned may be taken for a new page,   *)
(* which BufMgr narrows down to the one the clock finds.                   *)
(*                                                                         *)
(* scanNext takes a step per page: while the page it is on has no further  *)
(* record, it unpins it and pins the next.                                 *)
(***************************************************************************)
EXTENDS Integers, Sequences, FiniteSets, SequencesExt

VARIABLES
  relation,   \* the file: whether it exists, and the records of its pages
  pool,       \* the pins of the cached pages, by <<File object, page>>
  bufs,       \* frames of the pool
  scan,       \* the FileScan
  scanning,   \* whether scanNext is in its loop
  result,     \* what scanNext last returned or threw
  delivered   \* the records the scan has returned: a history

scanVars == <<scan, scanning, result, delivered>>
fsVars == <<relation, pool, bufs, scanVars>>

NoRelation == [exists |-> FALSE, pages |-> <<>>]
Relation(pages) == [exists |-> TRUE, pages |-> pages]

NumPages == Len(relation.pages)
End == NumPages + 1
Records(p) == relation.pages[p]
RecordIds == FlattenSeq([p \in 1 .. NumPages |->
                           [s \in 1 .. Len(Records(p)) |-> <<p, s>>]])
-----------------------------------------------------------------------------
(***************************************************************************)
(* The buffer pool, each operation from a pool to those it may become.     *)
(***************************************************************************)
PagesOf(pl, file) == {k \in DOMAIN pl : k[1] = file}
Drop(pl, pages) == [k \in DOMAIN pl \ pages |-> pl[k]]

Victims(pl) ==
  {{k} : k \in {k \in DOMAIN pl : pl[k] = 0}}
  \cup (IF Cardinality(DOMAIN pl) < bufs THEN {{}} ELSE {})

\* None if all frames are pinned: BufferExceededException.
Reads(pl, file, p) ==
  LET page == <<file, p>>
  IN  IF page \in DOMAIN pl THEN {[pl EXCEPT ![page] = @ + 1]}
      ELSE {[k \in DOMAIN Drop(pl, v) \cup {page} |-> IF k = page THEN 1 ELSE pl[k]] :
              v \in Victims(pl)}

Unpins(pl, file, p) == [pl EXCEPT ![<<file, p>>] = @ - 1]

\* PagePinnedException if a page of the file is pinned.
CanFlush(pl, file) == \A k \in PagesOf(pl, file) : pl[k] = 0
Flush(pl, file) == Drop(pl, PagesOf(pl, file))
-----------------------------------------------------------------------------
\* curPage and filePageIter are pages, End that of file->end(); a record is
\* its slot, 0 the end of the page.
NoScan == [live |-> FALSE, curPage |-> 0, filePageIter |-> 0, pageRecordIter |-> 0]

\* The next used slot: records that were deleted are not in Records(p).
NextRecord(p, slot) == IF slot < Len(Records(p)) THEN slot + 1 ELSE 0
FirstRecord(p) == NextRecord(p, 0)

NewScan ==
  /\ relation.exists /\ ~ scan.live
  /\ scan' = [NoScan EXCEPT !.live = TRUE, !.filePageIter = 1]
  /\ scanning' = FALSE /\ result' = "none" /\ delivered' = <<>>
  /\ UNCHANGED <<relation, pool, bufs>>

Throw(e) == result' = e /\ scanning' = FALSE /\ UNCHANGED delivered

\* The scan stands on a record: it is returned.
Return(p, slot) ==
  /\ result' = "record" /\ scanning' = FALSE
  /\ delivered' = Append(delivered, <<p, slot>>)

ScanEof ==
  /\ scan.live /\ ~ scanning
  /\ scan.filePageIter = End
  /\ Throw("EndOfFile")
  /\ UNCHANGED <<relation, pool, bufs, scan>>

\* Without a page, the scan begins at the first page of the file.
ScanFirst ==
  /\ scan.live /\ ~ scanning
  /\ scan.curPage = 0 /\ scan.filePageIter # End
  /\ pool' \in Reads(pool, "fscan", 1)
  /\ scan' = [scan EXCEPT !.curPage = 1, !.filePageIter = 1,
                          !.pageRecordIter = FirstRecord(1)]
  /\ IF FirstRecord(1) # 0 THEN Return(1, 1)
     ELSE scanning' = TRUE /\ UNCHANGED <<result, delivered>>
  /\ UNCHANGED <<relation, bufs>>

\* The first page of a scan that has none: no frame is free.
ScanFirstExceeded ==
  /\ scan.live /\ ~ scanning
  /\ scan.curPage = 0 /\ scan.filePageIter # End
  /\ Reads(pool, "fscan", 1) = {}
  /\ scan' = [scan EXCEPT !.filePageIter = 1]
  /\ Throw("BufferExceeded")
  /\ UNCHANGED <<relation, pool, bufs>>

\* pageRecordIter moves on before the loop.
ScanWithin ==
  LET p == scan.curPage
      next == NextRecord(p, scan.pageRecordIter)
  IN  /\ scan.live /\ ~ scanning /\ p # 0
      /\ scan' = [scan EXCEPT !.pageRecordIter = next]
      /\ IF next # 0 THEN Return(p, next)
         ELSE scanning' = TRUE /\ UNCHANGED <<result, delivered>>
      /\ UNCHANGED <<relation, pool, bufs>>

\* LeftAfter: as it would be if the next page were pinned first.
LeftAfter(p) == {Unpins(pl, "fscan", scan.filePageIter) : pl \in Reads(pool, "fscan", p)}

\* The page is left, then the next one is read.
Left(p) == Reads(Unpins(pool, "fscan", scan.filePageIter), "fscan", p)

\* One turn of the loop.
ScanTurn ==
  LET p == scan.filePageIter + 1
  IN  /\ scanning /\ p # End
      /\ IF Left(p) # {}
         THEN /\ pool' \in Left(p)
              /\ scan' = [scan EXCEPT !.curPage = p, !.filePageIter = p,
                                      !.pageRecordIter = FirstRecord(p)]
              /\ IF FirstRecord(p) # 0 THEN Return(p, 1)
                 ELSE UNCHANGED <<scanning, result, delivered>>
         ELSE /\ pool' = Unpins(pool, "fscan", scan.filePageIter)
              /\ scan' = [scan EXCEPT !.curPage = 0, !.filePageIter = p]
              /\ Throw("BufferExceeded")
      /\ UNCHANGED <<relation, bufs>>

ScanTurnLast ==
  /\ scanning /\ scan.filePageIter + 1 = End
  /\ pool' = Unpins(pool, "fscan", scan.filePageIter)
  /\ scan' = [scan EXCEPT !.curPage = 0, !.filePageIter = End]
  /\ Throw("EndOfFile")
  /\ UNCHANGED <<relation, bufs>>

ScanNext == ScanEof \/ ScanFirst \/ ScanFirstExceeded \/ ScanWithin
ScanLoop == ScanTurn \/ ScanTurnLast

\* The pool after ~FileScan, as it would be if it did not flush its file.
DeletedUnflushed(pl) ==
  IF scan.curPage # 0 THEN Unpins(pl, "fscan", scan.filePageIter) ELSE pl

Deleted(pl) ==
  Flush(IF scan.curPage # 0 THEN Unpins(pl, "fscan", scan.filePageIter) ELSE pl, "fscan")

DeleteScan ==
  /\ scan.live /\ ~ scanning
  /\ pool' = Deleted(pool)
  /\ scan' = NoScan /\ result' = "none" /\ delivered' = <<>>
  /\ UNCHANGED <<relation, bufs, scanning>>
=============================================================================
