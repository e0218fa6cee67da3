------------------------------- MODULE BufMgr -------------------------------
(***************************************************************************)
(* The buffer manager of project 3 (src/p3/src/buffer.cpp): a pool of      *)
(* frames over the pages of files, a hash table from (file, page) to       *)
(* frame, and the clock that chooses a victim.  Calls do not overlap: the  *)
(* code has one thread, so each call is one step.  What interleaves are    *)
(* the callers that hold pins across calls (an index scan, an insertion, a *)
(* file scan, a test), here Clients.                                       *)
(*                                                                         *)
(* A frame and the hash table name a File OBJECT by its address, and two   *)
(* may be open on one file of the disk: FileScan makes its own.  So Files  *)
(* are objects and Name[f] is the file on disk (File::filename()).         *)
(*                                                                         *)
(* Definitions placed before another and named for a mistake (UnhashedNot  *)
(* before Unhashed) are what the code would do with that mistake; no action *)
(* uses them.  PROJECT.json lists them as mutants.                         *)
(***************************************************************************)
EXTENDS Integers, FiniteSets

CONSTANTS
  NumBufs,   \* number of frames in the pool
  Clients,   \* callers that can hold a pin
  Files,     \* File objects
  Names,     \* files on disk
  Name,      \* the file on disk each File object is open on
  Pages,     \* page numbers a file may use (bounds the size of a file)
  Data,      \* contents of a page
  Empty,     \* the contents of a page just allocated
  Free,      \* what the disk holds at the place of a page not in use
  NoFile     \* the NULL File*

Frames == 0 .. NumBufs - 1
NoFrame == -1
NoPage == 0                       \* Page::INVALID_NUMBER
Keys == Files \X Pages            \* keys of the hash table
DiskKeys == Names \X Pages

ASSUME BufMgrAssumption ==
  /\ NumBufs \in Nat \ {0}
  /\ Name \in [Files -> Names]
  /\ Pages \subseteq Nat \ {0}
  /\ Empty \in Data
  /\ Free \notin Data
  /\ NoFile \notin Files

VARIABLES
  desc,      \* bufDescTable: one BufDesc for each frame
  hash,      \* hashTable: the frame of each (file, page), or NoFrame
  clockHand, \* the frame the clock looked at last
  bufPool,   \* the contents of each frame
  disk,      \* the contents of each page in use on disk, Free for the others
  held,      \* the Page* the clients hold: who, for which page, which frame
  unsaved,   \* those of held that were written through, not yet unpinned
  result     \* how the last call ended: "ok" or the exception thrown

vars == <<desc, hash, clockHand, bufPool, disk, held, unsaved, result>>

BufDesc == [valid : BOOLEAN, file : Files \cup {NoFile},
            page : Pages \cup {NoPage}, pinCnt : Nat,
            dirty : BOOLEAN, refbit : BOOLEAN]

Handle == [client : Clients, file : Files, page : Pages, frame : Frames]

Result == {"ok", "BufferExceeded", "HashNotFound", "HashAlreadyPresent",
           "InvalidPage", "PageNotPinned", "PagePinned"}

(***************************************************************************)
(* BufDesc::Clear and BufDesc::Set.                                        *)
(***************************************************************************)
Clear == [valid |-> FALSE, file |-> NoFile, page |-> NoPage, pinCnt |-> 0,
          dirty |-> FALSE, refbit |-> FALSE]

Set(f, p) == [valid |-> TRUE, file |-> f, page |-> p, pinCnt |-> 1,
              dirty |-> FALSE, refbit |-> TRUE]

KeyOf(i) == <<desc[i].file, desc[i].page>>
Place(f, p) == <<Name[f], p>>
PlaceOf(i) == Place(desc[i].file, desc[i].page)

Init ==
  /\ desc = [i \in Frames |-> Clear]
  /\ hash = [key \in Keys |-> NoFrame]
  /\ clockHand = NumBufs - 1
  /\ bufPool = [i \in Frames |-> Empty]
  /\ disk = [place \in DiskKeys |-> Free]
  /\ held = {}
  /\ unsaved = {}
  /\ result = "ok"

-----------------------------------------------------------------------------
(***************************************************************************)
(* allocBuf.  The loop looks at frame At(k) in its k-th round, for at most *)
(* two turns of the clock.  It takes a frame that is invalid, or one that  *)
(* nobody pins and whose reference bit is clear; the bits of the valid     *)
(* frames it passes over are cleared, so in the second turn (k > NumBufs)  *)
(* every bit is.                                                           *)
(***************************************************************************)
RoundsOneTurn == 1 .. NumBufs

Rounds == 1 .. 2 * NumBufs

At(k) == (clockHand + k) % NumBufs

TakesReferenced(k) ==
  LET d == desc[At(k)] IN ~d.valid \/ d.pinCnt = 0

TakesPinned(k) ==
  LET d == desc[At(k)] IN
    ~d.valid \/ (d.pinCnt = 0 /\ ~d.refbit) \/ k > NumBufs

Takes(k) ==
  LET d == desc[At(k)] IN
    \/ ~d.valid
    \/ d.pinCnt = 0 /\ (~d.refbit \/ k > NumBufs)

StopsAt(k) == Takes(k) /\ \A j \in 1 .. k - 1 : ~Takes(j)

\* The descriptors after rounds 1 .. k have cleared the bits they found set.
Swept(k) ==
  [i \in Frames |->
     IF \E j \in 1 .. k : At(j) = i THEN [desc[i] EXCEPT !.refbit = FALSE]
                                    ELSE desc[i]]

\* A valid victim leaves the hash table before it is written back.
Hashed(i) == desc[i].valid => hash[KeyOf(i)] # NoFrame
Writable(i) == desc[i].dirty => disk[PlaceOf(i)] # Free

UnhashedNot(i) == hash

Unhashed(i) == IF desc[i].valid THEN [hash EXCEPT ![KeyOf(i)] = NoFrame]
                                ELSE hash

Written(i) == IF desc[i].dirty THEN [disk EXCEPT ![PlaceOf(i)] = bufPool[i]]
                               ELSE disk

\* allocBuf returns frame At(k): its caller fills it, starting from the
\* descriptors Swept(k), the hash table Unhashed(At(k)), the disk disk'.
AllocBuf(k) ==
  /\ StopsAt(k)
  /\ Hashed(At(k))
  /\ Writable(At(k))
  /\ clockHand' = At(k)

\* No frame in two turns: the hand is back where it was, every bit cleared.
AllocBufExceeded ==
  /\ \A k \in Rounds : ~Takes(k)
  /\ desc' = Swept(2 * NumBufs)
  /\ result' = "BufferExceeded"
  /\ UNCHANGED <<hash, clockHand>>

\* The victim is not in the hash table: hashTable->remove throws.
AllocBufUnhashed(k) ==
  /\ StopsAt(k)
  /\ ~Hashed(At(k))
  /\ desc' = Swept(k)
  /\ clockHand' = At(k)
  /\ result' = "HashNotFound"
  /\ UNCHANGED hash

\* The victim's page is gone from the file: writePage throws, the victim is
\* out of the hash table and still valid.
AllocBufUnwritable(k) ==
  /\ StopsAt(k)
  /\ Hashed(At(k))
  /\ ~Writable(At(k))
  /\ desc' = Swept(k)
  /\ hash' = Unhashed(At(k))
  /\ clockHand' = At(k)
  /\ result' = "InvalidPage"

AllocBufThrows ==
  /\ \/ AllocBufExceeded
     \/ \E k \in Rounds : AllocBufUnhashed(k) \/ AllocBufUnwritable(k)
  /\ UNCHANGED <<bufPool, disk, held, unsaved>>

-----------------------------------------------------------------------------
(***************************************************************************)
(* readPage.  A client asks for a page it does not hold already.           *)
(***************************************************************************)
Holds(c, f, p) ==
  \E h \in held : h.client = c /\ h.file = f /\ h.page = p

NewHandle(c, f, p, i) ==
  [client |-> c, file |-> f, page |-> p, frame |-> i]

ReadHitUncounted(c, f, p) ==
  LET i == hash[<<f, p>>] IN
    /\ i # NoFrame
    /\ desc' = [desc EXCEPT ![i].refbit = TRUE]
    /\ held' = held \cup {NewHandle(c, f, p, i)}
    /\ result' = "ok"
    /\ UNCHANGED <<hash, clockHand, bufPool, disk, unsaved>>

ReadHit(c, f, p) ==
  LET i == hash[<<f, p>>] IN
    /\ i # NoFrame
    /\ desc' = [desc EXCEPT ![i].refbit = TRUE, ![i].pinCnt = @ + 1]
    /\ held' = held \cup {NewHandle(c, f, p, i)}
    /\ result' = "ok"
    /\ UNCHANGED <<hash, clockHand, bufPool, disk, unsaved>>

\* Page not in use: file->readPage throws after the frame has been cleared.
ReadInvalid(f, p, k) ==
  /\ AllocBuf(k)
  /\ Written(At(k))[Place(f, p)] = Free
  /\ desc' = [Swept(k) EXCEPT ![At(k)] = Clear]
  /\ hash' = Unhashed(At(k))
  /\ disk' = Written(At(k))
  /\ result' = "InvalidPage"
  /\ UNCHANGED <<bufPool, held, unsaved>>

ReadMiss(c, f, p, k) ==
  /\ AllocBuf(k)
  /\ Written(At(k))[Place(f, p)] # Free
  /\ desc' = [Swept(k) EXCEPT ![At(k)] = Set(f, p)]
  /\ hash' = [Unhashed(At(k)) EXCEPT ![<<f, p>>] = At(k)]
  /\ disk' = Written(At(k))
  /\ bufPool' = [bufPool EXCEPT ![At(k)] = Written(At(k))[Place(f, p)]]
  /\ held' = held \cup {NewHandle(c, f, p, At(k))}
  /\ result' = "ok"
  /\ UNCHANGED unsaved

ReadPage(c, f, p) ==
  /\ ~Holds(c, f, p)
  /\ \/ ReadHit(c, f, p)
     \/ /\ hash[<<f, p>>] = NoFrame
        /\ \/ \E k \in Rounds : ReadInvalid(f, p, k) \/ ReadMiss(c, f, p, k)
           \/ AllocBufThrows

(***************************************************************************)
(* allocPage.  The file gives out some page not in use.  The key is in the *)
(* hash table already when the page was deleted through another File       *)
(* object of the same file: hashTable->insert throws, after the descriptor *)
(* has been set.                                                           *)
(***************************************************************************)
AllocInto(c, f, p, k) ==
  LET cached == Unhashed(At(k))[<<f, p>>] # NoFrame IN
    /\ AllocBuf(k)
    /\ disk[Place(f, p)] = Free
    /\ desc' = [Swept(k) EXCEPT ![At(k)] = Set(f, p)]
    /\ disk' = [Written(At(k)) EXCEPT ![Place(f, p)] = Empty]
    /\ bufPool' = [bufPool EXCEPT ![At(k)] = Empty]
    /\ \/ /\ ~cached
          /\ hash' = [Unhashed(At(k)) EXCEPT ![<<f, p>>] = At(k)]
          /\ held' = held \cup {NewHandle(c, f, p, At(k))}
          /\ result' = "ok"
       \/ /\ cached
          /\ hash' = Unhashed(At(k))
          /\ result' = "HashAlreadyPresent"
          /\ UNCHANGED held
    /\ UNCHANGED unsaved

AllocPage(c, f) ==
  \/ /\ \E p \in Pages : disk[Place(f, p)] = Free
     /\ AllocBufThrows
  \/ \E p \in Pages, k \in Rounds : ~Holds(c, f, p) /\ AllocInto(c, f, p, k)

(***************************************************************************)
(* A client writes through the Page* it holds.                             *)
(***************************************************************************)
WriteThrough(h, d) ==
  /\ bufPool' = [bufPool EXCEPT ![h.frame] = d]
  /\ unsaved' = unsaved \cup {h}
  /\ result' = "ok"
  /\ UNCHANGED <<desc, hash, clockHand, disk, held>>

(***************************************************************************)
(* unPinPage.  The lookup goes by key, and the dirty bit is set before the *)
(* pin count is looked at.                                                 *)
(***************************************************************************)
UnPinnedOverwrites(f, p, dirty) ==
  LET i == hash[<<f, p>>] IN
    /\ i # NoFrame /\ desc[i].pinCnt # 0
    /\ desc' = [desc EXCEPT ![i].dirty = dirty, ![i].pinCnt = @ - 1]
    /\ result' = "ok"

UnPinnedUnchecked(f, p, dirty) ==
  LET i == hash[<<f, p>>] IN
    /\ i # NoFrame
    /\ desc' = [desc EXCEPT ![i].dirty = @ \/ dirty, ![i].pinCnt = @ - 1]
    /\ result' = "ok"

UnPinned(f, p, dirty) ==
  LET i == hash[<<f, p>>] IN
    \/ /\ i = NoFrame
       /\ result' = "HashNotFound"
       /\ UNCHANGED desc
    \/ /\ i # NoFrame
       /\ \/ /\ desc[i].pinCnt = 0
             /\ desc' = [desc EXCEPT ![i].dirty = @ \/ dirty]
             /\ result' = "PageNotPinned"
          \/ /\ desc[i].pinCnt # 0
             /\ desc' = [desc EXCEPT ![i].dirty = @ \/ dirty,
                                     ![i].pinCnt = @ - 1]
             /\ result' = "ok"

\* A client gives a pin back; if it wrote the page it says so.
UnPinPage(h, dirty) ==
  /\ h \in unsaved => dirty
  /\ UnPinned(h.file, h.page, dirty)
  /\ held' = held \ {h}
  /\ unsaved' = unsaved \ {h}
  /\ UNCHANGED <<hash, clockHand, bufPool, disk>>

\* A call for a page nobody pins, as endScan makes after a failed startScan.
UnPinUnpinned(f, p, dirty) ==
  /\ hash[<<f, p>>] # NoFrame => desc[hash[<<f, p>>]].pinCnt = 0
  /\ UnPinned(f, p, dirty)
  /\ UNCHANGED <<hash, clockHand, bufPool, disk, held, unsaved>>

(***************************************************************************)
(* flushFile.  One pass over the frames of the file, which ends at the     *)
(* first it cannot flush: those before it have been flushed.  The branch   *)
(* that throws BadBufferException needs an invalid frame that still names  *)
(* the file; Clear rules it out (ClearedWhenInvalid).                      *)
(***************************************************************************)
Mine(f) == {i \in Frames : desc[i].valid /\ desc[i].file = f}

\* A second frame for one key finds its key removed by the first.
Removable(i) ==
  /\ Hashed(i)
  /\ ~\E j \in Mine(desc[i].file) : j < i /\ desc[j].page = desc[i].page

Unflushable(i) ==
  desc[i].pinCnt > 0 \/ ~Writable(i) \/ ~Removable(i)

\* The disk once the dirty frames of S are written in ascending order: the
\* last frame written to a place is what stays there.
LastWritten(S, place) ==
  {i \in S : /\ desc[i].dirty /\ PlaceOf(i) = place
             /\ \A j \in S : desc[j].dirty /\ PlaceOf(j) = place => j <= i}

WrittenBy(S) ==
  [place \in DiskKeys |->
     IF LastWritten(S, place) # {}
     THEN bufPool[CHOOSE i \in LastWritten(S, place) : TRUE]
     ELSE disk[place]]

FlushedKept(S) ==
  /\ desc' = [i \in Frames |-> IF i \in S THEN [desc[i] EXCEPT !.dirty = FALSE]
                                ELSE desc[i]]
  /\ hash' = [key \in Keys |->
                IF \E i \in S : KeyOf(i) = key THEN NoFrame ELSE hash[key]]
  /\ disk' = WrittenBy(S)

FlushedInvalid(S) ==
  /\ desc' = [i \in Frames |-> IF i \in S THEN [desc[i] EXCEPT !.valid = FALSE]
                                ELSE desc[i]]
  /\ hash' = [key \in Keys |->
                IF \E i \in S : KeyOf(i) = key THEN NoFrame ELSE hash[key]]
  /\ disk' = WrittenBy(S)

FlushedUnwritten(S) ==
  /\ desc' = [i \in Frames |-> IF i \in S THEN Clear ELSE desc[i]]
  /\ hash' = [key \in Keys |->
                IF \E i \in S : KeyOf(i) = key THEN NoFrame ELSE hash[key]]
  /\ UNCHANGED disk

Flushed(S) ==
  /\ desc' = [i \in Frames |-> IF i \in S THEN Clear ELSE desc[i]]
  /\ hash' = [key \in Keys |->
                IF \E i \in S : KeyOf(i) = key THEN NoFrame ELSE hash[key]]
  /\ disk' = WrittenBy(S)

FlushAll(f) ==
  /\ \A i \in Mine(f) : ~Unflushable(i)
  /\ Flushed(Mine(f))
  /\ result' = "ok"

\* Frame s is the first that fails: pinned, then unwritable, then not hashed.
FlushSome(f, s) ==
  LET before == {i \in Mine(f) : i < s} IN
    /\ Unflushable(s)
    /\ \A i \in before : ~Unflushable(i)
    /\ \/ /\ desc[s].pinCnt > 0
          /\ Flushed(before)
          /\ result' = "PagePinned"
       \/ /\ desc[s].pinCnt = 0
          /\ ~Writable(s)
          /\ Flushed(before)
          /\ result' = "InvalidPage"
       \/ /\ desc[s].pinCnt = 0
          /\ Writable(s)
          /\ desc' = [i \in Frames |->
                        CASE i \in before -> Clear
                          [] i = s -> [desc[i] EXCEPT !.dirty = FALSE]
                          [] OTHER -> desc[i]]
          /\ hash' = [key \in Keys |->
                        IF \E i \in before : KeyOf(i) = key
                        THEN NoFrame ELSE hash[key]]
          /\ disk' = WrittenBy(before \cup {s})
          /\ result' = "HashNotFound"

FlushFile(f) ==
  /\ FlushAll(f) \/ \E s \in Mine(f) : FlushSome(f, s)
  /\ UNCHANGED <<clockHand, bufPool, held, unsaved>>

(***************************************************************************)
(* disposePage.  Callers dispose of a page that nobody else holds; their   *)
(* own Page* is dead after the call.                                       *)
(***************************************************************************)
DisposePageCached(c, f, p) ==
  /\ \A h \in held : Place(h.file, h.page) # Place(f, p)
  /\ disk' = [disk EXCEPT ![Place(f, p)] = Free]
  /\ result' = "ok"
  /\ UNCHANGED <<desc, hash, clockHand, bufPool, held, unsaved>>

DisposePage(c, f, p) ==
  LET i == hash[<<f, p>>]
      own == {h \in held : h.client = c /\ h.file = f /\ h.page = p} IN
    /\ \A h \in held : Place(h.file, h.page) = Place(f, p) => h.client = c
    /\ \/ /\ i = NoFrame
          /\ result' = "HashNotFound"
          /\ UNCHANGED <<desc, hash, disk, held, unsaved>>
       \/ /\ i # NoFrame
          /\ desc' = [desc EXCEPT ![i] = Clear]
          /\ hash' = [hash EXCEPT ![<<f, p>>] = NoFrame]
          /\ disk' = [disk EXCEPT ![Place(f, p)] = Free]
          /\ result' = IF disk[Place(f, p)] = Free THEN "InvalidPage" ELSE "ok"
          /\ held' = held \ own
          /\ unsaved' = unsaved \ own
    /\ UNCHANGED <<clockHand, bufPool>>

(***************************************************************************)
(* The manager is destroyed once no client has unsaved work, and a new one *)
(* is made over the same files.  ~BufMgr writes the dirty frames, pinned   *)
(* or not.  A page it cannot write ends the program: not a step here.      *)
(***************************************************************************)
Restart ==
  /\ unsaved = {}
  /\ \A i \in Frames : desc[i].valid => Writable(i)
  /\ disk' = WrittenBy({i \in Frames : desc[i].valid})
  /\ desc' = [i \in Frames |-> Clear]
  /\ hash' = [key \in Keys |-> NoFrame]
  /\ clockHand' = NumBufs - 1
  /\ bufPool' = [i \in Frames |-> Empty]
  /\ held' = {}
  /\ result' = "ok"
  /\ UNCHANGED unsaved

Next ==
  \/ \E c \in Clients, f \in Files, p \in Pages :
       ReadPage(c, f, p) \/ DisposePage(c, f, p)
  \/ \E c \in Clients, f \in Files : AllocPage(c, f)
  \/ \E h \in held, d \in Data : WriteThrough(h, d)
  \/ \E h \in held, dirty \in BOOLEAN : UnPinPage(h, dirty)
  \/ \E f \in Files, p \in Pages, dirty \in BOOLEAN : UnPinUnpinned(f, p, dirty)
  \/ \E f \in Files : FlushFile(f)
  \/ Restart

Spec == Init /\ [][Next]_vars
-----------------------------------------------------------------------------
(***************************************************************************)
(* Properties.                                                             *)
(***************************************************************************)
TypeOK ==
  /\ desc \in [Frames -> BufDesc]
  /\ hash \in [Keys -> Frames \cup {NoFrame}]
  /\ clockHand \in Frames
  /\ bufPool \in [Frames -> Data]
  /\ disk \in [DiskKeys -> Data \cup {Free}]
  /\ held \subseteq Handle
  /\ unsaved \subseteq held
  /\ result \in Result

\* An entry of the hash table leads to a valid frame that holds the page of
\* that entry: no call leaves an entry behind for a frame it has cleared or
\* reused, whichever way the call ends.
HashSound ==
  \A f \in Files, p \in Pages :
    LET i == hash[<<f, p>>] IN
      i # NoFrame => desc[i].valid /\ desc[i].file = f /\ desc[i].page = p

\* No two File objects are open on one file.
NoAlias == \A f, g \in Files : Name[f] = Name[g] => f = g

\* Every valid frame is found by its key, so a page is never cached twice.
\* It takes NoAlias: a page deleted through one object and still cached through
\* another makes writePage throw between the two steps of an eviction.
FrameHashed ==
  \A i \in Frames : desc[i].valid => hash[KeyOf(i)] = i

\* A frame that is not valid is as Clear leaves it: this is why flushFile
\* never throws BadBufferException and allocBuf never writes an invalid frame.
ClearedWhenInvalid ==
  \A i \in Frames : ~desc[i].valid => desc[i] = Clear

\* A Page* a client holds stays good: its frame holds the page the client
\* asked for and is pinned, whatever the other clients do between two calls.
HandleValid ==
  \A h \in held :
    /\ desc[h.frame].valid
    /\ KeyOf(h.frame) = <<h.file, h.page>>
    /\ desc[h.frame].pinCnt > 0

\* The pin count of a frame is the number of clients that hold its page.
PinsMatch ==
  \A i \in Frames : desc[i].pinCnt = Cardinality({h \in held : h.frame = i})

\* A cached page is in use on disk, so no write-back meets a deleted page.
CachedIsOnDisk ==
  \A i \in Frames : desc[i].valid => disk[PlaceOf(i)] # Free

\* No update is lost: a valid frame not marked dirty holds what the disk
\* holds, unless a client that wrote it still has to unpin it.
CleanMatchesDisk ==
  \A i \in Frames :
    /\ desc[i].valid
    /\ ~desc[i].dirty
    /\ \A h \in unsaved : h.frame # i
    => bufPool[i] = disk[PlaceOf(i)]

\* readPage and allocPage give up only when every frame is pinned.  The
\* throw leaves the pin counts alone, so they can be looked at after it.
ExceededMeansAllPinned ==
  result = "BufferExceeded" =>
    \A i \in Frames : desc[i].valid /\ desc[i].pinCnt > 0

\* Second chance: a frame is given to another page only when nobody pins it,
\* and one referenced since the clock last passed only when no unpinned frame
\* is free or unreferenced.
SecondChance ==
  [][\A i \in Frames :
       desc[i].valid /\ desc'[i].valid /\ KeyOf(i) # KeyOf(i)' =>
         /\ desc[i].pinCnt = 0
         /\ desc[i].refbit => \A j \in Frames :
                                desc[j].valid /\ (desc[j].pinCnt = 0 => desc[j].refbit)
    ]_vars

\* The frames below do not show: to the clients the manager is the store of
\* PageStore, a cached page being the frame and any other the disk.
seen ==
  [key \in Keys |-> IF hash[key] # NoFrame THEN bufPool[hash[key]]
                    ELSE disk[Place(key[1], key[2])]]

holders == {<<h.client, h.file, h.page>> : h \in held}

Store == INSTANCE PageStore WITH store <- seen, holders <- holders

StoreSpec == Store!Spec
=============================================================================
