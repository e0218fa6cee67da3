--------------------------- MODULE RelationTests ---------------------------
(***************************************************************************)
(* Two programs of project 3 over FileScan: a client that scans a relation *)
(* while it holds other pages of it, and the tests of src/p3/src/main.cpp, *)
(* which create relations, build or open a BTreeIndex on them, scan it and *)
(* remove the files.  An exception nobody catches ends the program: here   *)
(* it goes no further.                                                     *)
(*                                                                         *)
(* Of the index there is the constructor, its file, its entries and the    *)
(* frames it takes: BTree and BTreeScan model its nodes.                   *)
(***************************************************************************)
EXTENDS FileScan, FiniteSetsExt

CONSTANTS
  AnyPages,                    \* the pages of the client's relation
  AnyBufs, NumBufs,            \* frames of the client's pool, and the tests'
  relationSize, LargeSize,     \* 5000 and 50000 in the code
  PageCap, LeafCap             \* records of a page, keys of the first leaf

ASSUME ConstantsAssumption ==
  /\ AnyPages \in Seq(Seq(Nat))
  /\ relationSize \in Nat /\ LargeSize \in Nat
  /\ PageCap \in Nat \ {0}

VARIABLES
  program,   \* "client" or "tests"
  ip,        \* the instruction of the tests to come
  phase,     \* where in it they are
  file1,     \* whether the PageFile of that name is open
  index,     \* the BTreeIndex
  indexFile, \* its file
  wanted,    \* the keys a scan of the index is still to return
  stopped    \* history: what an earlier run left when it was stopped

testVars == <<program, ip, phase, file1, index, indexFile, wanted, stopped>>
vars == <<fsVars, testVars>>

\* entries: the page of each key's record.  page: the one a scan pins, or 0.
NoIndex == [live |-> FALSE, entries |-> {}, page |-> 0]
\* The file has no entries until its meta page, which names the root, is
\* written.
NoIndexFile == [exists |-> FALSE, entries |-> {}]
-----------------------------------------------------------------------------
Instr(op) == [op |-> op, arg |-> {}]
Create(order) == [op |-> "create", arg |-> order]
Query(keys) == [op |-> "query", arg |-> keys]

\* The scans of intTests: inside the keys, across their lower end, and of a
\* range without a key, which ends in NoSuchKeyFoundException.
intTests ==
  <<Instr("index"), Query({1, 2}), Query({0, 1}), Query({}), Query({1, 2}),
    Instr("delete index")>>

removeIndex == Instr("remove index")
deleteRelation == <<Instr("delete file1"), Instr("remove relation")>>
indexTests == intTests \o <<removeIndex>>

test(order) == <<Create(order)>> \o indexTests \o deleteRelation

errorTests ==
  <<Create("forward"), Instr("index")>> \o deleteRelation
  \o <<Instr("delete index"), removeIndex>>

test5 ==
  <<Create("forward"), Instr("index"), Query(0 .. relationSize - 1),
    Instr("delete index"), removeIndex>> \o deleteRelation

test6 == <<Create("forward")>> \o intTests \o indexTests \o deleteRelation

test8 ==
  <<Create("random"), Instr("index"), Query(0 .. relationSize - 1),
    Instr("delete index"), removeIndex>> \o deleteRelation

FirstScan ==
  <<Instr("remove relation"), Instr("write"), Instr("scan"), Instr("remove relation")>>

Script ==
  FirstScan \o test("forward") \o test("backward") \o test("random")
  \o errorTests \o test5 \o test6 \o test8 \o test("large")

Op == IF ip > Len(Script) THEN "none" ELSE Script[ip].op
At(op, ph) == program = "tests" /\ Op = op /\ phase = ph
Goes(ph) == phase' = ph /\ UNCHANGED <<program, ip, stopped>>
Done == ip' = ip + 1 /\ phase' = "start" /\ UNCHANGED <<program, stopped>>
-----------------------------------------------------------------------------
(***************************************************************************)
(* The relation.                                                           *)
(***************************************************************************)
\* The file is filled a page at a time: a record that finds no space on a
\* page begins the next.
Paged(keys) ==
  LET pages == (Len(keys) + PageCap - 1) \div PageCap
  IN  [p \in 1 .. pages |->
         SubSeq(keys, (p - 1) * PageCap + 1, Min({p * PageCap, Len(keys)}))]

Upto(size) == [i \in 1 .. size |-> i - 1]
Orders(order) ==
  CASE order = "forward"  -> {Upto(relationSize)}
    [] order = "backward" -> {Reverse(Upto(relationSize))}
    [] order = "random"   -> SetToSeqs(0 .. relationSize - 1)
    [] order = "large"    -> {Upto(LargeSize)}

IsOpen == file1 \/ scan.live

\* A copy that is there is removed first.  FileOpenException is not caught.
CreateRelation ==
  /\ At("create", "start")
  /\ ~ (relation.exists /\ IsOpen)
  /\ \E keys \in Orders(Script[ip].arg) : relation' = Relation(Paged(keys))
  /\ file1' = TRUE
  /\ Done
  /\ UNCHANGED <<pool, bufs, scanVars, index, indexFile, wanted>>

\* main writes 20 pages of a record each through an object of its own.
WritePages ==
  /\ At("write", "start") /\ ~ relation.exists
  /\ relation' = Relation([i \in 1 .. relationSize |-> <<i - 1>>])
  /\ Done
  /\ UNCHANGED <<pool, bufs, scanVars, file1, index, indexFile, wanted>>

RemoveRelation ==
  /\ At("remove relation", "start")
  /\ ~ (relation.exists /\ IsOpen)
  /\ relation' = NoRelation
  /\ Done
  /\ UNCHANGED <<pool, bufs, scanVars, file1, index, indexFile, wanted>>

DeleteFile1 ==
  /\ At("delete file1", "start")
  /\ CanFlush(pool, "file1")
  /\ pool' = Flush(pool, "file1")
  /\ file1' = FALSE
  /\ Done
  /\ UNCHANGED <<relation, bufs, scanVars, index, indexFile, wanted>>
-----------------------------------------------------------------------------
(***************************************************************************)
(* The index.  Its file has a meta page and a root; once it has more than  *)
(* LeafCap keys, an insertion or a scan reads leaves too, and an insertion *)
(* may allocate one: two pages stand for all of them.                      *)
(***************************************************************************)
Meta == 1
Root == 2
LeafPages == {3, 4}

\* A page is read and unpinned again.
Touch(pl, p) == {Unpins(q, "index", p) : q \in Reads(pl, "index", p)}

Inserts(pl) ==
  IF Cardinality(index.entries) < LeafCap THEN {pl}
  ELSE {Unpins(q, "index", 3) : q \in
          UNION {Touch(q, 4) : q \in Reads(pl, "index", 3)}}
       \cup UNION {Touch(pl, p) : p \in LeafPages}

\* The constructor opens a file that exists and takes the root it names.
OpenIndex ==
  /\ At("index", "start") /\ indexFile.exists
  /\ pool' \in Touch(pool, Meta)
  /\ index' = [NoIndex EXCEPT !.live = TRUE, !.entries = indexFile.entries]
  /\ Done
  /\ UNCHANGED <<relation, bufs, scanVars, file1, indexFile, wanted>>

\* Otherwise it creates one, with a meta page and a root that it holds while
\* it inserts the records of a FileScan.
CreateIndex ==
  /\ At("index", "start") /\ ~ indexFile.exists
  /\ pool' \in UNION {Reads(q, "index", Root) : q \in Reads(pool, "index", Meta)}
  /\ index' = NoIndex
  /\ indexFile' = [NoIndexFile EXCEPT !.exists = TRUE]
  /\ Goes("open scan")
  /\ UNCHANGED <<relation, bufs, scanVars, file1, wanted>>

OpenScan ==
  /\ At("index", "open scan") \/ At("scan", "start")
  /\ NewScan
  /\ Goes("scan")
  /\ UNCHANGED <<file1, index, indexFile, wanted>>

Scans ==
  /\ At("index", "scan") \/ At("scan", "scan")
  /\ ScanNext \/ ScanLoop
  /\ Goes(IF scanning' THEN "scan"
          ELSE CASE result' = "record" /\ Op = "index" -> "insert"
                 [] result' = "record" -> "scan"
                 [] result' = "EndOfFile" -> "close"
                 [] OTHER -> "thrown")
  /\ UNCHANGED <<file1, index, indexFile, wanted>>

InsertEntry ==
  LET rid == Last(delivered)
  IN  /\ At("index", "insert")
      /\ pool' \in Inserts(pool)
      /\ index' = [index EXCEPT !.entries =
                     @ \cup {[key |-> Records(rid[1])[rid[2]], page |-> rid[1]]}]
      /\ Goes("scan")
      /\ UNCHANGED <<relation, bufs, scanVars, file1, indexFile, wanted>>

\* What the constructor has pinned itself, as it would be released if the
\* root were forgotten.
ReleasedMeta == Unpins(pool, "index", Meta)

Released == Unpins(Unpins(pool, "index", Meta), "index", Root)

\* The pages are unpinned and the file flushed, then the scan goes.
CloseIndex ==
  /\ At("index", "close")
  /\ CanFlush(Released, "index")
  /\ pool' = Flush(Released, "index")
  /\ indexFile' = [indexFile EXCEPT !.entries = index.entries]
  /\ index' = [index EXCEPT !.live = TRUE]
  /\ Goes("closed")
  /\ UNCHANGED <<relation, bufs, scanVars, file1, wanted>>

CloseScan ==
  /\ At("index", "closed") \/ At("scan", "close")
  /\ DeleteScan
  /\ Done
  /\ UNCHANGED <<file1, index, indexFile, wanted>>
-----------------------------------------------------------------------------
(***************************************************************************)
(* intScan: the index's scan gives the keys in order, and the record of    *)
(* each is read through file1.  The scan keeps a page pinned; the one that *)
(* finds no key is not ended, and keeps it until the next begins.          *)
(***************************************************************************)
Ended(pl) == IF index.page = 0 THEN pl ELSE Unpins(pl, "index", index.page)

\* The pages of a descent, to each page it may end on.
Descents(pl, p) ==
  UNION {Reads(q, "index", p) :
           q \in UNION {Touch(m, Root) : m \in Touch(pl, Meta)}}

StartQuery ==
  /\ At("query", "start")
  /\ \E p \in IF Cardinality(index.entries) > LeafCap THEN LeafPages ELSE {Root} :
       /\ pool' \in Descents(Ended(pool), p)
       /\ index' = [index EXCEPT !.page = p]
  /\ wanted' = {e.key : e \in index.entries} \cap Script[ip].arg
  /\ IF wanted' = {} THEN Script[ip].arg = {} /\ Done ELSE Goes("query")
  /\ UNCHANGED <<relation, bufs, scanVars, file1, indexFile>>

\* getRecord throws if the record is not there.
QueryNext ==
  /\ At("query", "query") /\ wanted # {}
  /\ \E e \in index.entries :
       /\ e.key = Min(wanted)
       /\ e.page \in 1 .. NumPages /\ e.key \in ToSet(Records(e.page))
       /\ pool' \in {Unpins(q, "file1", e.page) : q \in Reads(pool, "file1", e.page)}
       /\ wanted' = wanted \ {e.key}
  /\ Goes("query")
  /\ UNCHANGED <<relation, bufs, scanVars, file1, index, indexFile>>

\* checkPassFail: as many records as expected.
EndQuery ==
  /\ At("query", "query") /\ wanted = {}
  /\ Script[ip].arg \subseteq {e.key : e \in index.entries}
  /\ pool' = Ended(pool)
  /\ index' = [index EXCEPT !.page = 0]
  /\ Done
  /\ UNCHANGED <<relation, bufs, scanVars, file1, indexFile, wanted>>

\* flushFile throws out of the destructor if a scan pins a page.
DeleteIndex ==
  /\ At("delete index", "start")
  /\ CanFlush(pool, "index")
  /\ pool' = Flush(pool, "index")
  /\ index' = NoIndex
  /\ Done
  /\ UNCHANGED <<relation, bufs, scanVars, file1, indexFile, wanted>>

RemoveIndex ==
  /\ At("remove index", "start") /\ ~ index.live
  /\ indexFile' = NoIndexFile
  /\ Done
  /\ UNCHANGED <<relation, pool, bufs, scanVars, file1, index, wanted>>

TestStep ==
  \/ CreateRelation \/ WritePages \/ RemoveRelation \/ DeleteFile1
  \/ OpenIndex \/ CreateIndex \/ OpenScan \/ Scans \/ InsertEntry
  \/ CloseIndex \/ CloseScan
  \/ StartQuery \/ QueryNext \/ EndQuery \/ DeleteIndex \/ RemoveIndex
-----------------------------------------------------------------------------
(***************************************************************************)
(* A client of FileScan that reads pages through a File of its own.        *)
(***************************************************************************)
Hold(p) ==
  /\ <<"file1", p>> \in DOMAIN pool => pool[<<"file1", p>>] = 0
  /\ pool' \in Reads(pool, "file1", p)
  /\ UNCHANGED <<relation, bufs, scanVars>>

Release(p) ==
  /\ <<"file1", p>> \in DOMAIN pool /\ pool[<<"file1", p>>] > 0
  /\ pool' = Unpins(pool, "file1", p)
  /\ UNCHANGED <<relation, bufs, scanVars>>

ClientStep ==
  /\ program = "client"
  /\ IF scanning THEN ScanLoop
     ELSE \/ NewScan \/ ScanNext \/ DeleteScan
          \/ \E p \in 1 .. NumPages : Hold(p) \/ Release(p)
  /\ UNCHANGED testVars

Init ==
  /\ \/ /\ program = "client" /\ bufs = AnyBufs /\ file1 = TRUE
        /\ relation = Relation(AnyPages)
     \/ /\ program = "tests" /\ bufs = NumBufs /\ file1 = FALSE
        /\ relation = NoRelation
  /\ pool = <<>> /\ scan = NoScan /\ scanning = FALSE
  /\ result = "none" /\ delivered = <<>>
  /\ ip = 1 /\ phase = "start" /\ stopped = "never"
  /\ index = NoIndex /\ indexFile = NoIndexFile /\ wanted = {}

\* The tests may stop anywhere, once, and run again over the files that are
\* there then.
Rerun ==
  /\ program = "tests" /\ stopped = "never"
  /\ pool' = <<>> /\ scan' = NoScan /\ scanning' = FALSE
  /\ result' = "none" /\ delivered' = <<>>
  /\ ip' = 1 /\ phase' = "start"
  /\ stopped' = IF indexFile.exists THEN "with index" ELSE "without index"
  /\ file1' = FALSE /\ index' = NoIndex /\ wanted' = {}
  /\ UNCHANGED <<relation, bufs, program, indexFile>>

Next == ClientStep \/ TestStep \/ Rerun

\* One thread runs the tests: they go on as long as they can.
Spec == Init /\ [][Next]_vars /\ WF_vars(TestStep)
-----------------------------------------------------------------------------
(***************************************************************************)
(* Properties.                                                             *)
(***************************************************************************)
\* A scan returns the records of the relation in their order, each once, and
\* all of them before EndOfFileException, whatever pages others hold: it
\* does not begin again in the middle.
EachInTurn ==
  /\ IsPrefix(delivered, RecordIds)
  /\ scan.live /\ scan.filePageIter = End => delivered = RecordIds

LiveFiles == {f \in {"file1", "fscan", "index"} :
                CASE f = "file1" -> file1
                  [] f = "fscan" -> scan.live
                  [] f = "index" -> index.live \/ Op = "index"}

\* The pool is keyed by the address of File objects: it keeps no page of one
\* that is gone, whose address the next may be given.
NoDangling == \A page \in DOMAIN pool : page[1] \in LiveFiles

\* The tests pass: no call of theirs throws what they do not catch, finds a
\* file open or a page pinned that it may not, or gets other records than
\* it expects.  They pass too when an earlier run was stopped ("Clean up from
\* any previous runs that crashed.", main.cpp:88), unless it left an index
\* file: main does not remove it, and the constructor takes one that was
\* stopped halfway, or made for other records, for whole (btree.cpp:69).
TestsPass == program = "tests" ~> ip > Len(Script) \/ stopped = "with index"
=============================================================================
