# A verification project for cs564-projects

The repository holds four course projects: a word locator (`src/p1`), a buffer
manager over a paged file (`src/p2`), a B+ tree index over a later version of
that buffer manager (`src/p3`), and converters and a schema for auction data
(`src/p5`). This directory models all four, the storage stack of project 3 in
most depth. The modules are checked with TLC on small instances; theorems about the
buffer managers, the page lists, the slotted page, the B+ tree and its scan, the
scan of a file, the tests that use it and the auction parsers are checked with
TLAPS for every value of their constants.

`PROJECT.json` lists the components, the runs, the source lines every definition
stands for, the hazards of the code and the mutants: for each property, a
plausible bug in one mapped definition that makes TLC find the property violated.
The mutated form stands just before the definition it would replace
(`UnhashedNot` before `Unhashed`); no action uses it.

## 1. Inventory

| Component | State | Operations | What makes it correct |
|---|---|---|---|
| Buffer manager, `p3/src/buffer.cpp` | `bufDescTable`, `bufPool`, `hashTable`, `clockHand` | `readPage`, `unPinPage`, `allocPage`, `flushFile`, `disposePage`, destructor | a page a caller holds stays in its frame; pins are counted; nothing written is lost; a frame is refused only when all are pinned |
| Buffer hash table, `p3/src/bufHashTbl.cpp` | chained buckets | `insert`, `lookup`, `remove` | a partial function from (File*, page) to frame that agrees with the descriptors |
| PageFile, `p3/src/file.cpp` | on disk: `num_pages`, `first_used_page`, `num_free_pages`, `first_free_page`, the link in each page | `allocatePage`, `readPage`, `writePage`, `deletePage`, iteration | a page is on one list; the used list is ascending; contents survive the work on the links |
| Open files and BlobFile, `p3/src/file.cpp` | `open_counts_`, `open_streams_` | construct, copy, assign, close, remove | the stream lives while somebody has it open, the count ends at zero |
| Slotted page, `p3/src/page.cpp`, `page_iterator.h` | slots, `free_space_*_bound`, `num_slots`, `num_free_slots`, bytes | insert, get, update, delete, iterate | record ids keep their records; the free space is what the slots leave |
| B+ tree insertion, `p3/src/btree.cpp` | nodes on pages, `rootPageNum`, meta page | `insertEntry` | balanced, sorted, searchable, no key lost |
| B+ tree scan, `p3/src/btree.cpp` | `scanExecuting`, `currentPageNum`, `nextEntry`, range | `startScan`, `scanNext`, `endScan`, destructor | the entries in range, each once, in order; one pin, given back |
| FileScan, `p3/src/filescan.cpp` | page and record iterators, `curPage` | `scanNext`, `getRecord`, destructor | every record once; at most one pin |
| Tests, `p3/src/main.cpp` | relation and index files, the pool | create, index, scan, remove | they pass, also after a run that was stopped |
| Buffer manager and files, `p2/src` | as above; frames and buckets hold `File` objects, which are counted per name | as above, another clock and other error paths | as above; the clock stops; a file is open while an object is on it |
| Tests, `p2/src/main.cpp` | files, page numbers kept | calls with an expected outcome | they pass, also after a run that was stopped |
| Word locator, `p1/wl.cpp` | radix tree of words and their positions, the command before | `load`, `locate`, `new`, `end` | the n-th occurrence of each word is found |
| Auction parsers, `p5/*.py`, `create.sql` | rows per table, counters, the null map | `parse`, `set_file`, `flush` | one row per key, references met, what was known kept |

How they interact: a caller (an index scan, an insertion, a file scan, a test)
holds `Page*` pointers into `bufPool` between `readPage`/`allocPage` and
`unPinPage`; the pool calls the file to read, write, allocate and delete pages;
the index constructor drives a `FileScan`, which opens a `PageFile` object of its
own on the relation, so that the pool holds pages of one file under two
addresses. There is one thread. What makes the code hard is not parallelism but
callers that hold pins across each other's calls, exceptions that leave an
operation halfway through, state kept across calls that another call makes
stale, files left by a run that was stopped, and long sequences of legal calls.
The hazards in `PROJECT.json` name each at its line.

## 2. Modules

    PageStore   <--refines--  BufMgr    <--  BufMgrProofs
    FileStore   <--refines--  PageFile  <--  PageFileProofs
    RecordStore <--refines--  SlottedPage  <--  SlottedPageProofs
    IndexSet    <--refines--  BTree     <--  BTreeScan      <--  BTreeProofs
                              FileScan  <--  RelationTests  <--  RelationTestsProofs
                              P2BufMgr  <--  P2Tests        <--  P2BufMgrProofs
                              AuctionParser                 <--  AuctionParserProofs
                              WordTree  <--  WordLocator

An arrow `A <-- B` is `B EXTENDS A`; `refines` is an instance with a refinement
mapping, checked as a property. `Iteration`, which all proof modules but
`BufMgrProofs` extend, holds what their proofs share: induction over numbers and
over the subsets of a finite set, functions defined by recursion, sums, the least
and greatest of a set, and sequences of sequences.

* `BufMgr` (p3 buffer.cpp, buffer.h). Each public call is one action, or one
  action for each way it ends: `ReadHit`, `ReadMiss`, `ReadInvalid`, `AllocInto`,
  `UnPinPage`, `FlushFile`, `DisposePage`, and `Restart` for the destructor and a
  new manager. `AllocBuf(k)` is the clock that stops in its k-th round; the other
  `AllocBuf...` are the exceptions that end it. `held` is what the callers hold,
  `unsaved` what they have written through a pointer and not yet unpinned as
  dirty. `Files` are File objects, `Name[f]` the file each is open on: the pool
  is keyed by the object. Of a file it assumes what `FileStore` states: `disk`
  says which pages are in use and what they hold, and `allocatePage` gives some
  page not in use. A `PageFile` may also throw or not return over a broken used
  list (below).
* `PageStore`: what the buffer manager's interface promises. Contents of pages,
  and a restart that may lose nothing that was unpinned as dirty.
* `PageFile` (p3 file.cpp, file_iterator.h). `page[p]` is a page on disk with the
  link in its header, `copy` one `Page` that a caller has read and may write back
  later. The walks of the code's iterator are the recursive function `Walk`; a
  walk ends, breaks at a page, meets a free page (`readPage` throws) or never
  returns, after which nothing follows (`Returned`).
* `FileStore`: what `PageFile` promises: pages given out are not in use, contents
  are kept.
* `SlottedPage` (p3 page.cpp, page_iterator.h; p2 has the same code). The data
  area is a row of cells; a slot is one cell and a record some cells, so that the
  slot array and the records share the space as in the code, and a slot that is
  allocated over the bytes of an old record reads what it finds there.
  `deleteRecord` is `Freed`, `Compacted` and `Trimmed` in one step; `failed` is a
  `SlotInUseException`, which nobody catches. `cursor` is an iterator used while
  the page changes, `ahead` and `moved` are history.
* `RecordStore`: a record id keeps its record until that id is updated or deleted.
* `BTree` (p3 btree.cpp, insertion). A node is its slots in use; `bound` says
  whether the key INT_MAX that the code writes behind them is there. `Path` is the
  descent, `Grown` what the nodes of the path take in, `Left`, `Right` and
  `Separator` the split. `InsertInside` and `InsertAbove` are insertions that
  return; `InsertOverfull` and `InsertUnrooted` the ones that
  `BufferExceededException` ends at the allocation of a sibling or of a root.
* `IndexSet`: a set of keys that only grows, by the key inserted.
* `BTreeScan` (p3 btree.cpp, scan) extends `BTree` with a scan and interleaves its
  calls with insertions. `Descent` and `Landing` say where `startScan` goes,
  `pins` what it pins.
* `FileScan` (p3 filescan.cpp). A scan over the pages of a relation and a pool
  seen by its callers: the pages cached for each File object, their pins, and any
  victim a clock might take. `scanNext` takes a step per page.
* `RelationTests` (p3 main.cpp, the constructor and destructor of btree.cpp)
  extends `FileScan` with two programs: a client that scans while it holds other
  pages, and the tests, a list of instructions (`Script`) each of which is one
  action or, for the constructor of an index and a query, several. `index` has
  the entries and the page a scan pins, its nodes are those of `BTree`. `Rerun`
  stops the tests anywhere and starts them over the files that are there.
* `P2BufMgr` (p2 buffer.cpp, bufHashTbl.cpp, file.cpp). The hash table is its
  chains, the clock takes a step per frame (`ClockPass`) with `call` the call
  that waits for it, and `open_counts_` counts the File objects the program, the
  frames and the buckets hold on each name. Pages of a file are numbered upward;
  the links between them are those of `PageFile`, in a later version.
* `P2Tests` (p2 main.cpp) extends it with two programs: any sequence of calls,
  and the tests as instructions with the outcome each expects. `Issue` makes a
  call and `Check` compares; a test that fails goes no further.
* `WordTree` (p1 wl.cpp, `Node`). The tree is a function from the path of a node
  to its positions; `Insert` and `Search` are folds of a turn of their loops over
  the word. `WordLocator` (the rest of wl.cpp) reads a line, parses it into a
  command and executes it; a file may vanish between the two. `deep` is history:
  a node was split behind its second character.
* `AuctionParser` (p5). An item is parsed in three steps, in the order in which
  the keys are looked up; `gnullmap` and `logged` are debug_parser's; the tables
  are written one at a time into `dat`.
* `MC...` modules: constants for TLC.

## 3. Runs

| Run | Instance | Shows |
|---|---|---|
| `bufmgr` | 2 frames, 2 files of 1 page, 2 callers, 2 contents, restarts | `CachedIsOnDisk`, `CleanMatchesDisk`, `FrameHashed`, `PinsMatch`, `SecondChance`, refinement of `PageStore` |
| `bufmgr_alias` | 2 File objects on one file of 2 pages | `HandleValid`; `HashSound`, `ClearedWhenInvalid`, `ExceededMeansAllPinned` without `NoAlias` |
| `pagefile` | a file of 4 pages, 2 contents, one stale copy | `FreeListSound`, `UsedListKept`, refinement of `FileStore` |
| `slotted_page` | 8 cells, records of 1 and 3, bytes that look used or not | `SpaceAccounted`, `InUseOnlyAfterMove`, `IteratorMissesNone`, refinement of `RecordStore` |
| `btree` | keys 1..8 in every order, up to 12 nearly ascending; leaves of 3, nodes of 2 | `ChainSorted`, `Searchable`, `Balanced`, `HalfFull`, refinement of `IndexSet` |
| `btree_scan` | keys -1..2, bounds -1, 1 and INT_MAX; leaves of 2, nodes of 3 | `OnePin`, `StartPassesNone`, `Advances` |
| `btree_nosuchkey` | the same | violation of `NoSuchKeyIfNone` |
| `relation` | client: 5 pages, three of them empty, 3 frames; tests: relations of 4 and 6 keys, 2 on a page, 5 frames, one stop anywhere | `EachInTurn`, `NoDangling`, `TestsPass` |
| `p2` | any calls on 2 files and 2 frames; the tests with 6 for 100 and 1 for 10, over every leftover of an earlier run | `TableMatches`, `OpenCounted`, `AllocEnds`, `TestsPass` |
| `wl` | texts of two lines of up to four characters, 5 words asked for | `LocateRight`, `FiledOnce` |
| `wl_locate` | the same | violation of `LocateTold` |
| `auction` | two items in one file or two, 6 versions of 2 users | `UsersMerged`, `KeysHold`, `NullKeysKnown` |

Each module's `TypeOK` is checked where it has one.

Why the bounds are enough. With two frames every position of the clock and a
full pool occur, and each frame may be clean, dirty, pinned or free; in `bufmgr`
a dirty page is evicted once the other frame was pinned or freed in between, and
in `bufmgr_alias` four pages compete for the two frames. Four pages are the fewest that give `PageFile` a free list of two
beside a used list of two, hence insertion at the head, in the middle and at the
tail of each. The occupancies of the `btree` run have the parity of the code's
(681 and 1022), and twelve keys split a node that is neither a leaf nor the root.
The scan run has trees of up to three leaves, keys below and above the zeros of
unused slots, and bounds on, between and beyond the keys; four slots past one key
are what `startScan` needs to run over the missing INT_MAX of a root. Eight cells
hold up to four slots with records between which a deletion leaves a gap, and
too few for what else is inserted; the two kinds of byte are those a slot reads
as used and as unused. The relations have empty pages at both ends and in
between, and more keys than a leaf, so that insertions and scans read leaves; five
frames are what an insertion needs beside the pages the constructor and its scan
hold. The test scale of `p2` keeps what the tests rely on: as many frames as
pages, one page pinned while the others are not, and room for the pages test2
holds (`ScaleAssumption`); `SomeHash` puts pages of two files in one chain. The
texts of `wl` split edges behind the first character and later ones, find words
that are prefixes of others and words that occur up to three times, one more than
the count the command can hold. Two items meet each user as bidder and seller in
either order, with each field missing, known, and known otherwise.

`CHECK_DEADLOCK FALSE` appears where the system really stops: `pagefile` (a walk
over a cyclic list never returns), `btree` (all keys are in, or a node is
overfull), the scan runs (the file's stream has failed), `slotted_page`
(`SlotInUseException` ends the program), and the programs that end.

Fairness: the components are called by callers free to stop, so nothing is
assumed of them. Two modules have a program that is one thread and waits for
nothing: `RelationTests` has weak fairness of `TestStep`, `P2Tests` of
`Issue \/ Check` and of `Turn`, a turn of the clock's loop. The client and the
program of any calls have none: they may stop between two calls. `AllocEnds` needs
that of `Turn` alone.

## 4. What the runs found

Two runs show where the code does other than it says.

* `wl_locate`: a word inserted over an edge that is split behind its second
  character is filed under another word and not found: the loop goes on with the
  next character whatever the split consumed (`wl.cpp:374`). After a text of
  `sso` and `sss`, `locate sss 1` answers that there is no matching entry, and
  `ssss` that it is there. `LocateRight` shows that all else about locate is
  right, `FiledOnce` that no position is lost.
* `btree_nosuchkey`: `startScan` throws `NoSuchKeyFoundException` for keys that
  satisfy the scan (`btree.h:357`): a key equal to `highVal` under LTE, a range
  that begins in the leaf to the right, a range above the only key of a new root.

Other departures from what a comment says, met while modelling. The modules have
them as the code does; no run is spent on them.

* `disposePage` does not delete a page that is not in the pool (`buffer.cpp:220`),
  which its doc says it does (`buffer.h:264`).
* `PageFile::allocatePage` reuses a page with its free-list link still in it when
  no page is in use (`file.cpp:176`, the same at `p2/src/file.cpp:94`); the next
  page used is documented as used (`page.h:57`). `UsedListKept` shows that it is
  the only call that breaks the list, and `FreeListSound` that the free list
  survives it.
* `scanNext` returns an entry outside the range (`btree.h:363`) that `startScan`
  chose without comparing it with `highVal` (`btree.cpp:468`).
* The destructor of an index flushes its file and lets `PagePinnedException` out
  (`btree.cpp:145`) when a scan or a failed insertion holds a page (see the doc
  at `btree.h:325`). The tests never get there.
* A run of project 3 that is stopped while an index file exists may make the next
  one fail: main removes the relation (`main.cpp:88`) but no index, and the
  constructor takes any file for whole (`btree.cpp:69`). `TestsPass` of
  `RelationTests` shows that this is the one case.
* A run of project 2 that is stopped while it removes its files, the first of
  them gone, makes the next one fail: the clean-up is one `try` block
  (`p2/src/main.cpp:160`) that the first missing file ends. `Leftover` of `P2Tests`
  therefore has the files of a run stopped before that; `TestsPass` holds for them.
* `insertRecord` throws `SlotInUseException` in ordinary use, after a deletion
  whose move left bytes of a record where the next slot comes (`page.cpp:104`,
  `page.cpp:185`); `InUseOnlyAfterMove` shows that nothing else brings it about.
  Records of no bytes break `RecordStore` (their offset may lie below that of the
  record moved, `page.cpp:91`), so the run has none.
* The global null map of `debug_parser.py` misses files: one flag says of all keys
  whether the file has been listed (`debug_parser.py:80`). `NullKeysKnown` says
  what the map can be relied on for.
* `create.sql:52` lets the item of a bid refer to a column `User` does not have;
  `KeysHold` takes it for `Item`.

What is right was checked with the same care: an insertion that throws halfway,
at whichever node, loses no key; a scan of an index leaks no pin on any path; a
FileScan never begins again in the middle, because the frame it has just unpinned
is free for the page it goes to (`filescan.cpp:79`).

## 5. Proofs

Every theorem holds for all values of the constants that satisfy the assumptions
named in the modules (`BufMgrAssumption`, `PageFileAssumption`, `BTreeAssumption`
and so on): the types of the constants, at least one frame, `Empty` a content of
a page and `Free` not, integers for keys, occupancies of at least two.

**Buffer manager.**

* `BufMgrProofs`: `TypeOK`, `HashSound`, `ExceededMeansAllPinned` and
  `SecondChance`. The last two follow from two facts about the clock: its first N
  rounds visit every frame, and in the second turn it takes every frame that
  nobody pins. No assumption on the files is made: they hold with several File
  objects on one file.
* Its second part proves `ClearedWhenInvalid` as generally, and under `NoAlias`
  (one File object on each file, as a hypothesis of the theorems) `HandleValid`,
  `PinsMatch`, `FrameHashed` and `CachedIsOnDisk`. None is inductive alone: that a
  pinned frame is not evicted takes that pin counts match the holders, which takes
  that holders name valid frames, which takes that frames are hashed, which takes
  that no eviction throws between its two steps, which takes that cached pages are
  on disk. `PinInv` is their conjunction, and the proof has one step for each
  action.
* The last part proves `CleanMatchesDisk` and that `BufMgr` implements
  `PageStore`, under `NoAlias` as well. A page's content is in its frame when one
  caches it and on disk otherwise (`seen`), and whoever holds the frame holds the
  page (`holders`); `CleanInv` adds to `PinInv` that a frame nobody has to unpin as
  dirty, and that is not dirty, agrees with the disk. An eviction, a flush or a
  write-back that throws halfway then changes neither `seen` nor `holders`. That
  it needs `NoAlias` is no weakness of the proof: with two objects on one file
  two frames cache one page, as the constructor of an index does in the code.

**Page lists.** `PageFileProofs` proves, for any size of file, `TypeOK`,
`FreeListSound` (the witness of the list is carried through each step: its tail
when a page is reused, the page before it when one is deleted), that `PageFile`
implements `FileStore`, and `UsedListKept`. That one speaks of a walk defined by
recursion on the number of its steps: `Iteration` gives induction in a form that
names a set of numbers instead of a predicate (the library's theorem takes an
operator), and that a function so defined exists; with it a walk over an ascending
list is shown to visit the pages of the list one by one, and to end. Each call then
changes one link, and the list before and after is compared at that place.

**Slotted page.** `SlottedPageProofs` proves `SpaceAccounted`,
`InUseOnlyAfterMove`, `IteratorMissesNone` and that `SlottedPage` implements
`RecordStore`, for pages of any size, under `HasBytes`: no record of length 0 is put
in. The program puts in none: its records are structs and short texts. The
hypothesis is needed: the code takes an empty record, whose offset is that of the
record put in before it. When that one is deleted the empty record stays behind,
below the records that are packed, and the next deletion that moves records
starts at its offset (page.cpp:92) and moves too few bytes of the others. With
`Lengths = {0, 1}` TLC finds a record lost this way in six steps.
`Page` is the heart of the invariant: the records are packed, which is said
without a list of them (`Packed`: the distance of a record from the start of the
records is the total length of those with smaller offsets), and `MoveIs` and
`CompactedIs` show that the move of the bytes and the correction of the offsets
keep that and every other record. The total is
a fold over a set, whose order is the fold's own, so `AddsExists` and `TotalIs`
first show that it does not depend on that order. While nothing has moved, the
free space holds nothing that looks like a slot in use (`FreeClean`), hence a slot allocated there is not in
use; after a move it holds the bytes the move left, and `SlotInUseException` may
be thrown. `Coming` says of an iterator that the slots it has still to come to
are behind it and in use.

**B+ tree.** `BTreeProofs` proves `TypeOK`, `Balanced`, `HalfFull`, `Searchable`,
`ChainSorted` and that `BTree` implements `IndexSet`, for any occupancies, number
of pages and set of keys. The properties are computed by recursion from the root
and along the chain, which no step of an insertion preserves in a form one can
reason about; the inductive invariant `IInv` therefore says of every page where it
is, by three witnesses an insertion changes in few places:

* a depth for each page, such that children are one deeper and leaves are at
  `height`, and the level tells the nodes right above the leaves (`Forest`, with
  `Filled` for the numbers of keys);
* an enumeration `l[1..n]` of the leaves in the order of the right-sibling links
  (`LeafChain`);
* for each page the set of keys that belong under it (`Spanned`): all integers
  under the root, the parts between two neighbouring keys under the children. This
  one is claimed only while no insertion has failed to get a page for a new root
  (`"unrooted"`), because the entries of the right half are then out of reach of
  any descent, as in the code.

`Insertion` describes one insertion without variables: the path to the leaf,
which nodes of it are full, and what each takes in. For it there is a lemma for
each part of the invariant when it stops below the root (`ForestAfter`,
`FilledAfter`, `ChainAfter`, `SpannedAfter`) and one when a new root is put over the
halves (`ForestAbove` ...); `StepInv` and `AboveInv` put them together, with the
interrupted insertions as the ones that stop early. From the invariant,
`DescentSpans` says that a descent for a key stays where the key belongs,
`ContentsIs` that the leaves found by recursion from the root hold what the pages
at depth `height` hold, and `ConcatSorted` that leaves sorted in turn make a sorted
list. The module begins with the facts about single nodes: what `InsertAt`, `Left`,
`Right` and `Separator` return, that they keep the order, and that the halves of an
overfull node are half full, whichever parity the occupancies have.

**Scan of the index.** The second part of `BTreeProofs` proves `OnePin`, `StartPassesNone` and `Advances`
whatever the scan and the insertions between its calls do.

* `PinInv` (counts are natural numbers, and the current page is the only one that
  may have a pin): each action pins before or after it unpins, never twice.
* `ScanInv` adds the `IInv` of the tree with no damage, and that a scan that is
  ready for `scanNext` is on an entry of a leaf (`ReadyInv`). An insertion that
  leaves the scan's leaf as it was leaves it a leaf, however many others it splits.
* `ChildSlot` follows the loop of `startScan` over the slots of a node, which
  stops at the key INT_MAX, at a zero nobody wrote or at the end: whichever it is,
  the child it goes on to is the one the low bound belongs to, or no page. So a
  descent that arrives arrives at the leaf whose span has the low bound
  (`DescentLands`). That it does not always arrive is the finding of
  `btree_nosuchkey`.
* The spans of the leaves ascend along the chain, and no leaf behind another is
  empty, as it is not the root (`NextLeafIs`): hence the key after the last of a
  leaf is the first of its right sibling (`BehindLast`, `FirstOfNext`), and nothing
  of the range is before the entry the loop over the leaf ends at
  (`NoneBeforeStop`).

**File scan and tests.** `RelationTestsProofs` proves `EachInTurn` and `NoDangling`
for any relation the client scans, any sizes of the tests' relations, of pages,
leaves and pools, and a run that is stopped anywhere (`ConstantsAssumption` gives
the types of these and a page room for a record). What others read and unpin is
arbitrary, and so is the victim the pool picks.

* `ScanInv` says what the scan pins, the page it is on and no other, where it
  stands, and what it has returned: the records of the pages before
  (`Before`) and those of its page up to the one it is on (`Firsts`). A scan
  without a page has returned nothing or everything. That there is no third case
  is what the property rests on: `scanNext` sets `curPage` to none when no frame
  is free for the next page, and would begin again at the first; but the frame of
  the page it has just left has no other pin, since the pool is keyed by the
  scan's own File object, so one is free (`ScanLeaves`, `InLoop`).
* `OnlyOf` says of a pool that calls were about the pages of one file; every call
  but those of the scan keeps `ScanInv` by `OtherSteps` for that reason alone.
* For `NoDangling`, `Course` is a function from the place in `Script` to what of
  file1 and the index is open there. `ScriptRuns` shows that there is one: each
  block of main can run where the block before it ends (`Runs`, `RunTogether`).
  `OpenInv` says that the program is on that course and that the pool has pages of
  open files only. It needs the course in one place: a query brings in pages of the
  index and of file1, which nothing in the query itself says are open.

**Buffer manager of project 2.** `P2BufMgrProofs` proves `TableMatches` and
`OpenCounted` for any pool, hash function, names, bounds and scale of the tests,
under any calls and under the tests. From `FilesAssumption` it needs that a page
on the free list is told from one with contents, that the empty name is no file's,
and that a hash is a natural number; from `ScaleAssumption` that the numbers in
the tests are pages and registers there are.

* `Sound` says of the chains, the descriptors, the pages, the files and the counts
  at once that they agree. That the chains match the frames takes that a page is
  never brought in twice; for the call that waits while the clock turns that is
  `CallSound`: what `readPage` found out before the clock started still holds when
  it stops, since nothing but the clock moves meanwhile. That a new page is in no
  frame takes that the pages in frames are in use on disk, and that the free list
  has no page twice (`FreeSound`). That a file can be removed without leaving
  frames behind takes that its count is exact, and the count is that of the frames
  and buckets only while both agree.
* A step takes buckets out of chains, clears descriptors, fills one, or changes
  pins and bits. `SoundSwept`, `SoundFilled` and `SoundBits` say so of any values
  of the five parts; `Vacated` applies the first to the victim of the clock, in
  the middle of the action. The lemmas before them say what `RemoveFirstMatch` and
  `FlattenSeq` do to a chain.
* `ScriptIn` shows of the instructions of the tests, whatever their scale, that
  each names files, frames and pages of the right kind; what they do is left to the
  lemmas about the calls.
* `ChainsCounted` turns the fold over the table into a sum over its chains
  (`FoldIs`), and a chain is as long as the set of its frames (`ChainLen`).

**Auction parser.** `AuctionParserProofs` proves `KeysHold`, `UsersMerged` and
`NullKeysKnown` for any files. It assumes of them that they are lists of items,
whose categories and bids are missing or lists (`InputsAssumption`), and that the
fields of a user are a list (`FieldsAssumption`); ids, names and values may be
anything, None and Null included.

* A table is in memory or in the file written for it (`Written`), so that `RInv`
  says the same of it before and after the flush. It says that the rows have keys
  and find what they refer to, but for the item being parsed, whose bids and
  categories come before its own row (`Open`); and that `users` is the merge of the
  users met (`Merged`), those of the parts of the item already parsed included
  (`MetNow`). That the references hold takes the merge: a bid finds its bidder
  because every user met has a row.
* The loops are folds. `FoldSegments` turns a fold over the positions of a list
  into a function on the numbers that takes one element after the other
  (`Walks`), by which `FoldListed`, `FoldSmartAdd` and `FoldLogged` are followed
  with the induction of `Iteration`; `FlattenGrows` does the same for lists of
  lists. `SmartAddIs` and `FirstGrows` are the step for a user met: the row and
  the first value known change together.
* `NullInv` says of the null map what was null in each file so far, item by item
  and part by part (`Seen`). The property needs its last conjunct, that the flag
  is set exactly when the file has a null key: a key known before must be listed
  for the file unless another one is.

Only model-checked:

* liveness under fairness (`AllocEnds` and both `TestsPass`), which the prover
  does not do;
* `LocateRight` and `FiledOnce`: `Insert` and `Search` are folds over the tree, and
  that they agree needs an induction over words and over the splits before.

## 6. Not modelled

* In the modelled parts: statistics, printing, the bytes of pages but in
  `SlottedPage`; a caller that disposes of a page another holds; duplicate keys
  (the code assumes none, btree.cpp:173); insertions into a node an interrupted
  split left overfull, which write past its arrays; `scanNext` on a leaf an
  insertion changed or after its pin was lost; the contents of the frames under
  the index, one of which `startScan` reads after unpinning it.
* `FileScan::markDirty`, which nothing calls; `testBlobFile`, which main does not
  call; the example with which project 2's main begins, which has no buffer
  manager.
* Creating a file of project 2 under a name that is open, which writes a new
  header over the one in use (`p2/src/file.cpp:235`): `Create` has the guard that
  the tests keep.
* A stop between the writes of one allocation or deletion (`file.cpp:227`):
  nothing in the code repairs such a file, so there is no property to keep.
* Quoting, dates and prices of the parsers, but for a text that reads as NULL.
* Left out for good: the exception classes, queries, skeletons, vendored and
  generated files.

## 7. Plan

The modules of the inventory are done, and of the safety properties the runs check
all but two are theorems. Those of `WordLocator` remain: for them the tree must be
described without its folds, by the word each node stands for, and the words that
the run `wl_locate` shows misfiled told apart.
