------------------------------ MODULE P2Tests ------------------------------
(***************************************************************************)
(* Two programs over the buffer manager of project 2: any sequence of its  *)
(* calls, and the tests of src/p2/src/main.cpp.  The tests are a list of   *)
(* instructions with the outcome each must have; a test that fails exits,  *)
(* which here is a program that goes no further.                           *)
(*                                                                         *)
(* The tests' constants are scaled: num, 100 there, is Num, and the 10     *)
(* pages that test_clock_algo_3 leaves pinned are Held.                    *)
(***************************************************************************)
EXTENDS P2BufMgr

CONSTANTS
  AnyFiles, AnyBufs,     \* files and frames of the program of any calls
  AnyPages,              \* bound: pages of one of these files
  Num, Held,
  test1, test2, test3, test4, test5, algo_test, page_test, page_test2

ASSUME ScaleAssumption ==
  /\ Num \in Nat /\ Held \in Nat /\ Held + 4 <= Num /\ Num <= MaxPages
  /\ {test1, test2, test3, test4, test5, algo_test, page_test, page_test2} \subseteq Names
  /\ AnyFiles \subseteq Names /\ AnyBufs \in Nat \ {0}
  /\ AnyPages \in Nat /\ AnyPages < MaxPages

VARIABLES
  program,   \* "any" or "tests"
  ip,        \* the instruction of the tests to come
  issued,    \* whether it was issued and is to be checked
  pid        \* the page numbers the tests keep

testVars == <<program, ip, issued, pid>>
vars == <<mgrVars, testVars>>

\* pid[1 .. num] of the tests, and the variables of their own.
pageno1 == Num + 1
pageno2 == Num + 2
pageno3 == Num + 3
pageId == Num + 4
Registers == 1 .. Num + 4
-----------------------------------------------------------------------------
Reg(r) == [reg |-> r, lit |-> 0]
Lit(p) == [reg |-> 0, lit |-> p]
Value(arg) == IF arg.reg = 0 THEN arg.lit ELSE pid[arg.reg]

Instr(op, n, arg, flag, expect) ==
  [op |-> op, file |-> n, arg |-> arg, flag |-> flag, expect |-> expect]

\* flag: a record is written on the new page; its content is compared; the
\* page is unpinned as dirty.
Alloc(n, r)         == Instr("alloc", n, Reg(r), TRUE, "ok")
Allot(n, r)         == Instr("alloc", n, Reg(r), FALSE, "ok")
ReadBack(n, r)      == Instr("read", n, Reg(r), TRUE, "ok")
ReadRandom(n)       == Instr("random", n, Reg(pageno1), TRUE, "ok")
Read(n, arg)        == Instr("read", n, arg, FALSE, "ok")
Unpin(n, arg, flag) == Instr("unpin", n, arg, flag, "ok")
Flush(n)            == Instr("flush", n, Lit(0), FALSE, "ok")
Throws(i, o)        == [i EXCEPT !.expect = o]
InFrame(f, arg)     == Instr("frame", f, arg, FALSE, "ok")
Of(op, n)           == Instr(op, n, Lit(0), FALSE, "ok")
Each(op, names)     == [k \in DOMAIN names |-> Of(op, names[k])]
For(from, to, Body(_)) == FlattenSeq([k \in 1 .. to - from + 1 |-> Body(from + k - 1)])

Test1 ==
  LET Written(k)  == <<Alloc(test1, k), Unpin(test1, Reg(k), TRUE)>>
      Compared(k) == <<ReadBack(test1, k), Unpin(test1, Reg(k), FALSE)>>
  IN  For(1, Num, Written) \o For(1, Num, Compared)

Test2 ==
  LET Mixed(k) == <<Alloc(test2, pageno2), ReadRandom(test1), Alloc(test3, pageno3),
                    ReadBack(test2, pageno2), ReadBack(test3, pageno3),
                    Unpin(test1, Reg(pageno1), FALSE)>>
      Twice(k) == <<Unpin(test2, Lit(k), TRUE), Unpin(test2, Lit(k), TRUE),
                    Unpin(test3, Lit(k), TRUE), Unpin(test3, Lit(k), TRUE)>>
  IN  For(1, Num \div 3, Mixed) \o For(1, Num \div 3, Twice)

Test3 == <<Throws(Read(test4, Lit(1)), "InvalidPage")>>

Test4 ==
  <<Allot(test4, pageId), Unpin(test4, Reg(pageId), TRUE),
    Throws(Unpin(test4, Reg(pageId), FALSE), "PageNotPinned")>>

Test5 ==
  LET Written(k)  == <<Alloc(test5, k)>>
      Unpinned(k) == <<Unpin(test5, Lit(k), TRUE)>>
  IN  For(1, Num, Written) \o <<Throws(Allot(test5, pageId), "BufferExceeded")>>
      \o For(1, Num, Unpinned)

Test6 ==
  LET Pinned(k)   == <<Read(test1, Lit(k))>>
      Unpinned(k) == <<Unpin(test1, Lit(k), TRUE)>>
  IN  For(1, Num, Pinned) \o <<Throws(Flush(test1), "PagePinned")>>
      \o For(1, Num, Unpinned) \o <<Flush(test1)>>

TestFiles == <<test1, test2, test3, test4, test5>>

testBufMgr ==
  <<Of("manager", test1), Of("cleanup", test1)>> \o Each("create", TestFiles)
  \o Test1 \o Test2 \o Test3 \o Test4 \o Test5 \o Test6
  \o Each("close", TestFiles) \o Each("remove", TestFiles)

ClockTest(f) ==
  <<Allot(algo_test, pageId), Unpin(algo_test, Reg(pageId), FALSE),
    InFrame(f, Reg(pageId)), Flush(algo_test)>>

ClockTest3 ==
  LET Written(k)  == <<Allot(algo_test, k)>>
      Unpinned(k) == <<Unpin(algo_test, Reg(k), FALSE)>>
  IN  For(1, Num, Written) \o For(Held + 1, Num, Unpinned)
      \o <<Allot(algo_test, Held + 1), InFrame(Held + 2, Reg(Held + 1))>>
      \o For(1, Held + 1, Unpinned) \o <<Flush(algo_test)>>

ClockTest4 ==
  <<Read(algo_test, Lit(1)), InFrame(Held + 3, Lit(1)),
    Unpin(algo_test, Lit(1), FALSE), Flush(algo_test)>>

testBufMgrClock ==
  <<Of("manager", algo_test), Of("cleanup", algo_test), Of("create", algo_test)>>
  \o ClockTest(0) \o ClockTest(1) \o ClockTest3 \o ClockTest4
  \o <<Of("close", algo_test), Of("remove", algo_test)>>

\* test_page_1 passes the Page* as the dirty flag: it is not null.
PageTest ==
  LET Written(k)  == <<Allot(page_test, k)>>
      Unpinned(k) == <<Unpin(page_test, Lit(k), TRUE)>>
  IN  For(1, Num, Written)
      \o <<Unpin(page_test, Lit(1), TRUE),
           Throws(Unpin(page_test, Lit(1), TRUE), "PageNotPinned"),
           Unpin(page_test, Lit(0), TRUE),
           Throws(Unpin(page_test, Lit(1), TRUE), "PageNotPinned"),
           Unpin(page_test, Lit(Num), TRUE)>>
      \o For(2, Num - 1, Unpinned) \o <<Flush(page_test)>>

testBufMgrPage ==
  <<Of("cleanup", page_test), Of("create", page_test), Of("open", page_test)>>
  \o PageTest \o <<Throws(Of("open", page_test2), "FileNotFound")>>
  \o <<Of("close", page_test), Of("close", page_test), Of("remove", page_test)>>

Script == testBufMgr \o testBufMgrClock \o testBufMgrPage
-----------------------------------------------------------------------------
\* A new buffer manager: the old one goes, and its File objects with it.
NewManager ==
  /\ Idle /\ Manager(Num) /\ outcome' = "ok"
  /\ open_counts_' = [n \in Names |-> handles[n]]
  /\ UNCHANGED <<disk, handles, clockVars>>

\* The files of a run that crashed are removed in one try block: the first
\* that does not exist ends it.
CleanUp(names) ==
  LET gone == {k \in DOMAIN names : \A j \in 1 .. k : Exists(names[j])}
  IN  /\ \A k \in gone : ~ IsOpen(names[k])
      /\ Returns("ok")
      /\ disk' = [n \in Names |-> IF \E k \in gone : names[k] = n THEN NoFile ELSE disk[n]]
      /\ UNCHANGED <<bufDescTable, bufPool, ht, open_counts_, handles>>

Does(i) ==
  CASE i.op = "alloc"   -> AllocPage(i.file)
    [] i.op = "read"    -> ReadPage(i.file, Value(i.arg))
    [] i.op = "random"  -> ReadPage(i.file, pid'[pageno1])
    [] i.op = "unpin"   -> UnPinPage(i.file, Value(i.arg), i.flag)
    [] i.op = "flush"   -> FlushFile(i.file)
    [] i.op = "frame"   -> Returns("ok") /\ UNCHANGED <<bufDescTable, bufPool, ht, fileVars>>
    [] i.op = "create"  -> Create(i.file)
    [] i.op = "open"    -> Open(i.file)
    [] i.op = "close"   -> Close(i.file)
    [] i.op = "remove"  -> RemoveFile(i.file)
    [] i.op = "manager" -> NewManager
    [] i.op = "cleanup" -> CleanUp(IF i.file = test1 THEN TestFiles ELSE <<i.file>>)

Issue ==
  /\ program = "tests" /\ ~ issued /\ ip <= Len(Script)
  /\ IF Script[ip].op = "random"
     THEN \E k \in 1 .. Num : pid' = [pid EXCEPT ![pageno1] = pid[k]]
     ELSE UNCHANGED pid
  /\ Does(Script[ip])
  /\ issued' = TRUE
  /\ UNCHANGED <<program, ip>>

\* What the tests compare: the outcome, a record read, the page in a frame.
Holds(i) ==
  /\ outcome = i.expect
  /\ i.op \in {"read", "random"} /\ i.flag =>
       bufPool[lookup(i.file, Value(i.arg))] =
         [page_number |-> Value(i.arg), data |-> i.file]
  /\ i.op = "frame" => bufPool[i.file].page_number = Value(i.arg)

\* After an allocation the number is kept and a record is written.
Check ==
  LET i == Script[ip]
      allocated == i.op = "alloc" /\ outcome = "ok"
  IN  /\ program = "tests" /\ issued /\ Idle
      /\ Holds(i)
      /\ ip' = ip + 1 /\ issued' = FALSE
      /\ IF allocated
         THEN pid' = [pid EXCEPT ![i.arg.reg] = bufPool[clockHand].page_number]
         ELSE UNCHANGED pid
      /\ IF allocated /\ i.flag
         THEN bufPool' = [bufPool EXCEPT ![clockHand].data = i.file]
         ELSE UNCHANGED bufPool
      /\ UNCHANGED <<program, numBufs, clockHand, bufDescTable, ht, fileVars,
                     clockVars, outcome>>

AnyCall ==
  /\ program = "any"
  /\ \E n \in AnyFiles :
       \/ NextPage(disk[n]) <= AnyPages /\ AllocPage(n)
       \/ FlushFile(n) \/ Create(n) \/ Open(n) \/ Close(n) \/ RemoveFile(n)
       \/ \E m \in AnyFiles : Assign(n, m)
       \/ \E p \in 1 .. AnyPages + 1 :
            \/ ReadPage(n, p) \/ DisposePage(n, p)
            \/ \E dirty \in BOOLEAN : UnPinPage(n, p, dirty)
  /\ UNCHANGED testVars

Turn == Clock /\ UNCHANGED testVars

Start(d) ==
  /\ MgrInit(IF program = "any" THEN AnyBufs ELSE Num, d)
  /\ ip = 1 /\ issued = FALSE
  /\ pid = [r \in Registers |-> 0]

\* The tests may find files of a run that stopped while it created or used
\* its files: the first of a list.
Leftover ==
  {{TestFiles[j] : j \in 1 .. k} : k \in 0 .. Len(TestFiles)}
  \cup {{algo_test}, {page_test}}

OnDisk(left) == [n \in Names |-> IF n \in left THEN NewFile ELSE NoFile]

Init ==
  \/ program = "any" /\ Start(OnDisk({}))
  \/ program = "tests" /\ \E left \in Leftover : Start(OnDisk(left))

Next == AnyCall \/ Issue \/ Check \/ Turn

\* One thread runs the program: it goes on as long as it can.
Spec == Init /\ [][Next]_vars /\ WF_vars(Issue \/ Check) /\ WF_vars(Turn)
-----------------------------------------------------------------------------
(***************************************************************************)
(* Properties.                                                             *)
(***************************************************************************)
Valid(f) == bufDescTable[f].valid

\* The hash table finds every page in the pool, in its own chain and once,
\* and nothing else; a page in the pool is in use in its file, so that the
\* write of a victim does not throw out of allocBuf; its frame holds it.
TableMatches ==
  /\ \A f \in Frames(numBufs) : Valid(f) =>
       LET desc == bufDescTable[f] IN
         /\ Found(desc.file, desc.pageNo)
         /\ lookup(desc.file, desc.pageNo) = f
         /\ HasPage(disk[desc.file], desc.pageNo)
         /\ bufPool[f].page_number = desc.pageNo
  /\ FoldFunction(LAMBDA chain, n : n + Len(chain), 0, ht)
       = Cardinality({f \in Frames(numBufs) : Valid(f)})

\* A file counts as open by exactly the objects that are on it: those of
\* the program, and for each of its pages in the pool that of the frame and
\* that of the bucket.  It can be removed when they are gone, not before.
OpenCounted ==
  \A n \in Names :
    open_counts_[n] = handles[n] + 2 * Cardinality({f \in FramesOf(n) : Valid(f)})

\* The clock stops, with a frame or with BufferExceededException, whatever
\* pins and reference bits it meets (allocBuf, buffer.cpp:59).
AllocEnds == call # NoCall ~> call = NoCall

\* The tests pass, over what an earlier run left that stopped before it began
\* to remove its files ("Clean up from any previous runs that crashed.",
\* main.cpp:160): no outcome but the one a test expects (main.cpp:252-494),
\* no record lost, and every file can be removed in the end.
TestsPass == program = "tests" ~> ip > Len(Script)
=============================================================================
