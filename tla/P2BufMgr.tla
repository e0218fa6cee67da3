------------------------------ MODULE P2BufMgr ------------------------------
(***************************************************************************)
(* The buffer manager of project 2 (src/p2/src) and the File objects it    *)
(* keeps.  Files are compared by name, every frame and every bucket of the *)
(* hash table holds a File object of its own, and a file can be removed    *)
(* only when no object is open on it.  The hash table is its chains, and   *)
(* the clock takes one step per turn of its loop.                          *)
(*                                                                         *)
(* File objects on one name share one stream while open_counts_ is right,  *)
(* so an object is its name.  The count of the empty name, which default   *)
(* objects only ever take below zero, is left out: nobody reads it.        *)
(* A file is its pages and its free list; of the used list, which is left  *)
(* out, PageFile models the later version.                                 *)
(***************************************************************************)
EXTENDS Integers, Sequences, FiniteSets, SequencesExt, FiniteSetsExt

CONSTANTS
  Names,       \* file names
  NoName,      \* the empty name, of a default File object
  MaxPages,    \* bound: pages of a file
  Empty,       \* a new page
  Free,        \* a page of the free list, or none
  Hash,        \* std::hash of a name and a page number
  MaxPins,     \* bound: pins of a page
  MaxHandles   \* bound: File objects of the program on a name

ASSUME FilesAssumption ==
  /\ NoName \notin Names
  /\ Free \notin Names /\ Free # Empty
  /\ MaxPages \in Nat
  /\ Hash \in [Names \X (0 .. MaxPages) -> Nat]

VARIABLES
  numBufs, clockHand, bufDescTable, bufPool,
  ht,            \* the chains of buckets
  disk,          \* each file: whether it exists, its pages and its free list
  open_counts_,  \* 0 where the map has no entry
  handles,       \* File objects of the program itself on each name
  call,          \* the call that waits for a frame, or NoCall
  loop, start,   \* allocBuf's variables
  outcome        \* what the last call returned or threw

poolVars == <<numBufs, clockHand, bufDescTable, bufPool, ht>>
fileVars == <<disk, open_counts_, handles>>
clockVars == <<call, loop, start>>
mgrVars == <<poolVars, fileVars, clockVars, outcome>>

PageIds == 1 .. MaxPages
NoCall == [op |-> "none"]
Frames(bufs) == 0 .. bufs - 1

Cleared == [file |-> NoName, pageNo |-> 0, pinCnt |-> 0,
            dirty |-> FALSE, valid |-> FALSE, refbit |-> FALSE]
SetTo(n, p) == [file |-> n, pageNo |-> p, pinCnt |-> 1,
                dirty |-> FALSE, valid |-> TRUE, refbit |-> TRUE]

HASHTABLE_SZ(bufs) == (((bufs * 12) \div 10) \div 2) * 2 + 1

NoFile == [exists |-> FALSE, num_pages |-> 0, free |-> <<>>,
           page |-> [p \in PageIds |-> Free]]
NewFile == [NoFile EXCEPT !.exists = TRUE, !.num_pages = 1]

Manager(bufs) ==
  /\ numBufs' = bufs
  /\ clockHand' = bufs - 1
  /\ bufDescTable' = [f \in Frames(bufs) |-> Cleared]
  /\ bufPool' = [f \in Frames(bufs) |-> [page_number |-> 0, data |-> Empty]]
  /\ ht' = [i \in 0 .. HASHTABLE_SZ(bufs) - 1 |-> <<>>]

MgrInit(bufs, files) ==
  /\ numBufs = bufs
  /\ clockHand = bufs - 1
  /\ bufDescTable = [f \in Frames(bufs) |-> Cleared]
  /\ bufPool = [f \in Frames(bufs) |-> [page_number |-> 0, data |-> Empty]]
  /\ ht = [i \in 0 .. HASHTABLE_SZ(bufs) - 1 |-> <<>>]
  /\ disk = files
  /\ open_counts_ = [n \in Names |-> 0]
  /\ handles = [n \in Names |-> 0]
  /\ call = NoCall /\ loop = 0 /\ start = 0
  /\ outcome = "none"

\* loop and start are gone with the call.
CallEnds == call' = NoCall /\ loop' = 0 /\ start' = 0
-----------------------------------------------------------------------------
(***************************************************************************)
(* BufHashTbl.                                                             *)
(***************************************************************************)
hash(n, p) == Hash[<<n, p>>] % HASHTABLE_SZ(numBufs)
Is(bucket, n, p) == bucket.file = n /\ bucket.pageNo = p

Found(n, p) == \E i \in DOMAIN ht[hash(n, p)] : Is(ht[hash(n, p)][i], n, p)
lookup(n, p) ==
  LET chain == ht[hash(n, p)]
  IN  chain[SelectInSeq(chain, LAMBDA b : Is(b, n, p))].frameNo

\* A new bucket goes to the head of its chain.
Inserted(t, n, p, f) ==
  [t EXCEPT ![hash(n, p)] = <<[file |-> n, pageNo |-> p, frameNo |-> f]>> \o @]

\* Removed as it would be if the head were taken whatever it holds.
RemovedHead(t, n, p) == [t EXCEPT ![hash(n, p)] = Tail(@)]

Removed(t, n, p) ==
  [t EXCEPT ![hash(n, p)] = RemoveFirstMatch(@, LAMBDA b : Is(b, n, p))]

(***************************************************************************)
(* File: pages on disk and open counts.                                    *)
(***************************************************************************)
\* The page allocatePage gives: the last one freed, or one more.
NextPage(file) == IF file.free # <<>> THEN Head(file.free) ELSE file.num_pages

WithPage(file) ==
  LET p == NextPage(file)
  IN  [file EXCEPT !.page[p] = Empty,
                   !.free = IF @ # <<>> THEN Tail(@) ELSE @,
                   !.num_pages = IF p = @ THEN @ + 1 ELSE @]

WithoutPage(file, p) == [file EXCEPT !.page[p] = Free, !.free = <<p>> \o @]

HasPage(file, p) == p \in PageIds /\ p < file.num_pages /\ file.page[p] # Free

Opened(counts, n, k) == [counts EXCEPT ![n] = @ + k]
Closed(counts, n, k) == [counts EXCEPT ![n] = @ - k]
-----------------------------------------------------------------------------
(***************************************************************************)
(* allocBuf.                                                               *)
(***************************************************************************)
Advanced(hand) == (hand + 1) % numBufs
Hand == bufDescTable[clockHand]
PassedOver == Hand.valid /\ (Hand.refbit \/ Hand.pinCnt > 0)

\* Rounds as they would be if only a free or unpinned frame counted.
RoundsUncounted == IF start = clockHand /\ ~ PassedOver THEN loop + 1 ELSE loop

\* The rounds begun, this turn included.
Rounds == IF start = clockHand THEN loop + 1 ELSE loop

AllocBuf(c) ==
  /\ call' = c
  /\ clockHand' = Advanced(clockHand)
  /\ start' = clockHand'
  /\ loop' = 0
  /\ outcome' = "none"
  /\ UNCHANGED <<numBufs, bufDescTable, bufPool, ht, fileVars>>

ClockPass ==
  /\ call # NoCall /\ loop < 3
  /\ PassedOver
  /\ bufDescTable' = [bufDescTable EXCEPT ![clockHand].refbit = FALSE]
  /\ clockHand' = Advanced(clockHand)
  /\ loop' = Rounds
  /\ UNCHANGED <<numBufs, bufPool, ht, fileVars, call, start, outcome>>

ClockExceeded ==
  /\ call # NoCall /\ loop >= 3
  /\ CallEnds /\ outcome' = "BufferExceeded"
  /\ UNCHANGED <<poolVars, fileVars>>

\* The victim is written if it is dirty, leaves the hash table and is
\* cleared, which closes the File objects of its bucket and its frame.
\*
\* Flushed as it would be if the clock took dirty frames for clean.
FlushedNever(d, desc, page) == d

Flushed(d, desc, page) ==
  IF desc.dirty THEN [d EXCEPT ![desc.file].page[desc.pageNo] = page.data] ELSE d

DiskWithout(f) == IF bufDescTable[f].valid
                  THEN Flushed(disk, bufDescTable[f], bufPool[f]) ELSE disk
TableWithout(f) == IF bufDescTable[f].valid
                   THEN Removed(ht, bufDescTable[f].file, bufDescTable[f].pageNo)
                   ELSE ht

\* The counts as they would be if a cleared frame kept its File object.
CountsKept(f) == IF bufDescTable[f].valid
                 THEN Closed(open_counts_, bufDescTable[f].file, 1)
                 ELSE open_counts_

CountsWithout(f) == IF bufDescTable[f].valid
                    THEN Closed(open_counts_, bufDescTable[f].file, 2)
                    ELSE open_counts_

\* The frame at the hand, free now, is given to page p of file n.
Filled(n, p, data) ==
  /\ bufPool' = [bufPool EXCEPT ![clockHand] = [page_number |-> p, data |-> data]]
  /\ bufDescTable' = [bufDescTable EXCEPT ![clockHand] = SetTo(n, p)]
  /\ ht' = Inserted(TableWithout(clockHand), n, p, clockHand)
  /\ open_counts_' = Opened(CountsWithout(clockHand), n, 2)
  /\ outcome' = "ok"

Takes(op) ==
  /\ call.op = op /\ loop < 3
  /\ ~ PassedOver
  /\ CallEnds
  /\ UNCHANGED <<numBufs, clockHand, handles>>

ReadInto ==
  LET n == call.file
      p == call.pageNo
  IN  /\ Takes("read")
      /\ disk' = DiskWithout(clockHand)
      /\ HasPage(disk[n], p)
      /\ Filled(n, p, disk'[n].page[p])

\* file.readPage throws: the frame has been cleared and stays free.
ReadNothing ==
  /\ Takes("read")
  /\ ~ HasPage(disk[call.file], call.pageNo)
  /\ disk' = DiskWithout(clockHand)
  /\ ht' = TableWithout(clockHand)
  /\ open_counts_' = CountsWithout(clockHand)
  /\ bufDescTable' = [bufDescTable EXCEPT ![clockHand] = Cleared]
  /\ outcome' = "InvalidPage"
  /\ UNCHANGED bufPool

AllocInto ==
  LET n == call.file
      p == NextPage(disk[n])
  IN  /\ Takes("alloc")
      /\ disk' = [DiskWithout(clockHand) EXCEPT ![n] = WithPage(@)]
      /\ Filled(n, p, Empty)

Clock == ClockPass \/ ClockExceeded \/ ReadInto \/ ReadNothing \/ AllocInto
-----------------------------------------------------------------------------
Idle == call = NoCall

Returns(o) ==
  Idle /\ outcome' = o /\ UNCHANGED <<numBufs, clockHand, call, loop, start>>

ReadPage(n, p) ==
  /\ Idle /\ handles[n] > 0
  /\ IF Found(n, p)
     THEN /\ bufDescTable[lookup(n, p)].pinCnt < MaxPins
          /\ bufDescTable' = [bufDescTable EXCEPT ![lookup(n, p)].refbit = TRUE,
                                                  ![lookup(n, p)].pinCnt = @ + 1]
          /\ Returns("ok")
          /\ UNCHANGED <<bufPool, ht, fileVars>>
     ELSE AllocBuf([op |-> "read", file |-> n, pageNo |-> p])

AllocPage(n) ==
  /\ Idle /\ handles[n] > 0
  /\ NextPage(disk[n]) <= MaxPages
  /\ AllocBuf([op |-> "alloc", file |-> n])

UnPinPage(n, p, dirty) ==
  LET f == lookup(n, p)
  IN  /\ handles[n] > 0
      /\ IF ~ Found(n, p)
         THEN Returns("ok") /\ UNCHANGED bufDescTable
         ELSE IF bufDescTable[f].pinCnt = 0
         THEN Returns("PageNotPinned") /\ UNCHANGED bufDescTable
         ELSE /\ Returns("ok")
              /\ bufDescTable' = [bufDescTable EXCEPT ![f].pinCnt = @ - 1,
                                                      ![f].dirty = @ \/ dirty]
      /\ UNCHANGED <<bufPool, ht, fileVars>>

\* flushFile goes through the frames of the file up to the first pinned one.
FramesOf(n) == {f \in Frames(numBufs) : bufDescTable[f].file = n}
PinnedOf(n) == {f \in FramesOf(n) : bufDescTable[f].pinCnt > 0}
Flushable(n) == {f \in FramesOf(n) : \A g \in PinnedOf(n) : f < g}

Without(chain, out) ==
  FlattenSeq([k \in DOMAIN chain |->
                IF chain[k].frameNo \in out THEN <<>> ELSE <<chain[k]>>])

FlushFile(n) ==
  LET out == Flushable(n)
      Of(p) == CHOOSE f \in out : bufDescTable[f].pageNo = p
  IN  /\ handles[n] > 0
      /\ Returns(IF PinnedOf(n) = {} THEN "ok" ELSE "PagePinned")
      /\ disk' = [disk EXCEPT ![n].page =
                    [p \in PageIds |->
                       IF \E f \in out : bufDescTable[f].pageNo = p
                                           /\ bufDescTable[f].dirty
                       THEN bufPool[Of(p)].data ELSE @[p]]]
      /\ ht' = [i \in DOMAIN ht |-> Without(ht[i], out)]
      /\ bufDescTable' = [f \in Frames(numBufs) |->
                            IF f \in out THEN Cleared ELSE bufDescTable[f]]
      /\ open_counts_' = Closed(open_counts_, n, 2 * Cardinality(out))
      /\ UNCHANGED <<bufPool, handles>>

\* disposePage of a page that is not in the pool deletes it all the same.
DisposePage(n, p) ==
  LET f == lookup(n, p)
  IN  /\ handles[n] > 0
      /\ IF HasPage(disk[n], p)
         THEN Returns("ok") /\ disk' = [disk EXCEPT ![n] = WithoutPage(@, p)]
         ELSE Returns("InvalidPage") /\ UNCHANGED disk
      /\ IF Found(n, p)
         THEN /\ bufDescTable' = [bufDescTable EXCEPT ![f] = Cleared]
              /\ ht' = Removed(ht, n, p)
              /\ open_counts_' = Closed(open_counts_, n, 2)
         ELSE UNCHANGED <<bufDescTable, ht, open_counts_>>
      /\ UNCHANGED <<bufPool, handles>>
-----------------------------------------------------------------------------
(***************************************************************************)
(* File objects of the program.                                            *)
(***************************************************************************)
Exists(n) == disk[n].exists
IsOpen(n) == Exists(n) /\ open_counts_[n] # 0

\* File::create of a name nobody has open.  For a name that is open it
\* skips the test for an existing file and writes a new header over it
\* (file.cpp:235); no program here does that.
Create(n) ==
  /\ open_counts_[n] = 0
  /\ IF Exists(n) THEN Returns("FileExists") /\ UNCHANGED fileVars
     ELSE /\ Returns("ok")
          /\ disk' = [disk EXCEPT ![n] = NewFile]
          /\ open_counts_' = Opened(open_counts_, n, 1)
          /\ handles' = [handles EXCEPT ![n] = 1]
  /\ UNCHANGED <<bufDescTable, bufPool, ht>>

\* File::open, and a copy of an object on the name.
Open(n) ==
  /\ handles[n] < MaxHandles
  /\ IF open_counts_[n] = 0 /\ ~ Exists(n)
     THEN Returns("FileNotFound") /\ UNCHANGED <<open_counts_, handles>>
     ELSE /\ Returns("ok")
          /\ open_counts_' = Opened(open_counts_, n, 1)
          /\ handles' = [handles EXCEPT ![n] = @ + 1]
  /\ UNCHANGED <<bufDescTable, bufPool, ht, disk>>

\* An object on name m is assigned one on name n.
Assign(m, n) ==
  /\ m # n /\ handles[m] > 0 /\ handles[n] \in 1 .. MaxHandles - 1
  /\ Returns("ok")
  /\ open_counts_' = Opened(Closed(open_counts_, m, 1), n, 1)
  /\ handles' = [handles EXCEPT ![m] = @ - 1, ![n] = @ + 1]
  /\ UNCHANGED <<bufDescTable, bufPool, ht, disk>>

Close(n) ==
  /\ handles[n] > 0
  /\ Returns("ok")
  /\ open_counts_' = Closed(open_counts_, n, 1)
  /\ handles' = [handles EXCEPT ![n] = @ - 1]
  /\ UNCHANGED <<bufDescTable, bufPool, ht, disk>>

RemoveFile(n) ==
  /\ Returns(CASE ~ Exists(n) -> "FileNotFound"
               [] IsOpen(n)   -> "FileOpen"
               [] OTHER       -> "ok")
  /\ disk' = IF Exists(n) /\ ~ IsOpen(n) THEN [disk EXCEPT ![n] = NoFile] ELSE disk
  /\ UNCHANGED <<bufDescTable, bufPool, ht, open_counts_, handles>>
=============================================================================
