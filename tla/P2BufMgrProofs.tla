--------------------------- MODULE P2BufMgrProofs ---------------------------
(***************************************************************************)
(* The buffer manager of project 2, under any calls and under its tests:   *)
(* the hash table and the frames agree, and a file counts as open by the   *)
(* objects that are on it.                                                 *)
(***************************************************************************)
EXTENDS P2Tests, Iteration, SequenceTheorems

-----------------------------------------------------------------------------
(***************************************************************************)
(* The inductive invariant.                                                *)
(***************************************************************************)
Data == Names \cup {Empty}

Buckets == [file : Names, pageNo : PageIds, frameNo : Nat]

Descs == [file : Names, pageNo : PageIds, pinCnt : Nat, dirty : BOOLEAN,
          valid : {TRUE}, refbit : BOOLEAN] \cup {Cleared}

Files == [exists : BOOLEAN, num_pages : Nat, free : Seq(PageIds),
          page : [PageIds -> Data \cup {Free}]]

Calls == [op : {"read"}, file : Names, pageNo : 0 .. MaxPages]
         \cup [op : {"alloc"}, file : Names] \cup {NoCall}

Table == [0 .. HASHTABLE_SZ(numBufs) - 1 -> Seq(Buckets)]
Frame == [Frames(numBufs) -> Descs]
Pool == [Frames(numBufs) -> [page_number : 0 .. MaxPages, data : Data]]

\* Frame f of the descriptors d has page p of file n.
Has(d, f, n, p) == d[f].valid /\ d[f].file = n /\ d[f].pageNo = p

\* The chains t hold a bucket for each frame of d in use, in the chain of its
\* key, and no other; no two frames have the same page.
TableIs(t, d) ==
  /\ \A i \in DOMAIN t : \A k \in DOMAIN t[i] :
       /\ t[i][k].frameNo \in DOMAIN d
       /\ Has(d, t[i][k].frameNo, t[i][k].file, t[i][k].pageNo)
       /\ hash(t[i][k].file, t[i][k].pageNo) = i
  /\ \A i \in DOMAIN t : \A k, m \in DOMAIN t[i] :
       t[i][k].frameNo = t[i][m].frameNo => k = m
  /\ \A f \in DOMAIN d : d[f].valid =>
       \E k \in DOMAIN t[hash(d[f].file, d[f].pageNo)] :
         t[hash(d[f].file, d[f].pageNo)][k].frameNo = f
  /\ \A f, g \in DOMAIN d : d[f].valid /\ Has(d, g, d[f].file, d[f].pageNo) => f = g

\* A page of the free list is free and there once.
FreeSound(file) ==
  /\ file.exists => file.num_pages > 0
  /\ \A i \in DOMAIN file.free :
       file.page[file.free[i]] = Free /\ file.free[i] < file.num_pages
  /\ \A i, j \in DOMAIN file.free : file.free[i] = file.free[j] => i = j

\* The pages in the frames of d are in use on disk.
PoolOnDisk(d, b, files) ==
  \A f \in DOMAIN d : d[f].valid =>
    /\ HasPage(files[d[f].file], d[f].pageNo)
    /\ b[f].page_number = d[f].pageNo

\* The frames of d with pages of file n.
On(d, n) == {f \in DOMAIN d : d[f].file = n}

\* Two objects on a file for each of its frames, and the held ones.
Counted(counts, held, d) ==
  \A n \in Names : counts[n] = held[n] + 2 * Cardinality(On(d, n))

\* The pool, the files and the counts agree: chains t, descriptors d, pages b.
Sound(t, d, b, files, counts, held) ==
  /\ t \in Table /\ d \in Frame /\ b \in Pool /\ files \in [Names -> Files]
  /\ counts \in [Names -> Int] /\ held \in [Names -> Nat]
  /\ TableIs(t, d)
  /\ \A n \in Names : FreeSound(files[n])
  /\ PoolOnDisk(d, b, files)
  /\ Counted(counts, held, d)
  /\ \A n \in Names : counts[n] # 0 => files[n].exists

\* What the call that waits for a frame has found out holds until it has one.
CallSound ==
  call # NoCall =>
    /\ handles[call.file] > 0
    /\ call.op = "read" =>
         \A f \in Frames(numBufs) : ~ Has(bufDescTable, f, call.file, call.pageNo)
    /\ call.op = "alloc" => NextPage(disk[call.file]) <= MaxPages

TestInv ==
  /\ pid \in [Registers -> 0 .. MaxPages]
  /\ ip \in Nat \ {0} /\ (issued => ip <= Len(Script))

PoolInv ==
  /\ numBufs \in Nat \ {0}
  /\ Sound(ht, bufDescTable, bufPool, disk, open_counts_, handles)

IInv ==
  /\ PoolInv
  /\ clockHand \in Frames(numBufs) /\ call \in Calls
  /\ CallSound
  /\ TestInv
-----------------------------------------------------------------------------
(***************************************************************************)
(* Frames and chains.                                                      *)
(***************************************************************************)
\* What a descriptor tells: one that is not valid is cleared.
LEMMA DescIs ==
  ASSUME NEW e \in Descs
  PROVE  /\ e.valid \in BOOLEAN /\ e.pinCnt \in Nat
         /\ e.valid => e.file \in Names /\ e.pageNo \in PageIds
         /\ ~ e.valid => e = Cleared
         /\ \A n \in Names : e.file = n => e.valid
<1>1. CASE e = Cleared
  <2>1. e.valid = FALSE /\ e.pinCnt = 0 /\ e.file = NoName
    BY <1>1 DEF Cleared
  <2>2. \A n \in Names : e.file # n
    BY <2>1, FilesAssumption
  <2>3. e.valid \in BOOLEAN
    BY <2>1
  <2>4. ~ e.valid
    BY <2>1
  <2>5. e.pinCnt \in Nat
    BY <2>1
  <2>6. QED
    BY <1>1, <2>2, <2>3, <2>4, <2>5
<1>2. CASE e # Cleared
  <2>1. e.valid = TRUE /\ e.pinCnt \in Nat /\ e.file \in Names /\ e.pageNo \in PageIds
    BY <1>2 DEF Descs
  <2>2. QED
    BY <2>1
<1>3. QED
  BY <1>1, <1>2

\* The descriptors that the calls make.
LEMMA DescMade ==
  /\ Cleared \in Descs /\ ~ Cleared.valid /\ \A n \in Names : Cleared.file # n
  /\ \A n \in Names, p \in PageIds :
       /\ SetTo(n, p) \in Descs /\ SetTo(n, p).valid
       /\ SetTo(n, p).file = n /\ SetTo(n, p).pageNo = p
BY FilesAssumption DEF Descs, Cleared, SetTo

\* The table has a chain for every key.
LEMMA HashIn ==
  ASSUME numBufs \in Nat \ {0}, NEW n \in Names, NEW p \in 0 .. MaxPages
  PROVE  hash(n, p) \in 0 .. HASHTABLE_SZ(numBufs) - 1
<1>1. HASHTABLE_SZ(numBufs) \in Nat \ {0}
  BY DEF HASHTABLE_SZ
<1>2. Hash[<<n, p>>] \in Nat
  BY FilesAssumption
<1>3. \A i \in Nat, z \in Nat \ {0} : i % z \in 0 .. z - 1
  OBVIOUS
<1>4. QED
  BY <1>1, <1>2, <1>3 DEF hash

\* The buckets of a chain are of this kind.
LEMMA BucketIs ==
  ASSUME NEW t \in Table, NEW i \in DOMAIN t
  PROVE  /\ t[i] \in Seq(Buckets) /\ DOMAIN t[i] = 1 .. Len(t[i]) /\ Len(t[i]) \in Nat
         /\ \A k \in DOMAIN t[i] : /\ t[i][k] \in Buckets
                                   /\ t[i][k].file \in Names
                                   /\ t[i][k].pageNo \in PageIds
                                   /\ t[i][k].frameNo \in Nat
<1>1. t[i] \in Seq(Buckets)
  BY DEF Table
<1>2. \A k \in DOMAIN t[i] : t[i][k] \in Buckets
  BY <1>1
<1>3. QED
  BY <1>1, <1>2 DEF Buckets

\* lookup finds the frame of a page that is in the pool, and no other.
LEMMA LookupIs ==
  ASSUME NEW n \in Names, NEW p \in 0 .. MaxPages, numBufs \in Nat \ {0},
         ht \in Table, bufDescTable \in Frame, TableIs(ht, bufDescTable)
  PROVE  /\ Found(n, p) => /\ lookup(n, p) \in Frames(numBufs)
                           /\ Has(bufDescTable, lookup(n, p), n, p)
         /\ \A f \in Frames(numBufs) : Has(bufDescTable, f, n, p) =>
              Found(n, p) /\ lookup(n, p) = f
<1> DEFINE h == hash(n, p)
           chain == ht[h]
           I == {i \in 1 .. Len(chain) : Is(chain[i], n, p)}
<1>1. h \in DOMAIN ht
  BY HashIn DEF Table
<1>2. DOMAIN chain = 1 .. Len(chain) /\ Len(chain) \in Nat
  BY <1>1, BucketIs
<1>3. IsFiniteSet(I) /\ I \in SUBSET Int
  <2>1. IsFiniteSet(1 .. Len(chain)) /\ I \in SUBSET (1 .. Len(chain))
    BY <1>2, FS_Interval
  <2>2. QED
    BY <2>1, FS_Subset
<1>4. Found(n, p) <=> I # {}
  BY <1>2 DEF Found
<1>5. ASSUME I # {} PROVE lookup(n, p) = chain[Min(I)].frameNo
  BY <1>5 DEF lookup, SelectInSeq
<1>6. ASSUME I # {} PROVE Min(I) \in I
  <2> HIDE DEF I
  <2>1. QED
    BY <1>3, <1>6, MinIs
<1>7. ASSUME NEW k \in I
      PROVE  /\ chain[k].frameNo \in Frames(numBufs)
             /\ Has(bufDescTable, chain[k].frameNo, n, p)
  <2>1. k \in DOMAIN chain /\ chain[k].file = n /\ chain[k].pageNo = p
    BY <1>2 DEF Is
  <2>2. DOMAIN bufDescTable = Frames(numBufs)
    BY DEF Frame
  <2> HIDE DEF h
  <2>3. QED
    BY <1>1, <2>1, <2>2 DEF TableIs
<1>8. Found(n, p) => /\ lookup(n, p) \in Frames(numBufs)
                     /\ Has(bufDescTable, lookup(n, p), n, p)
  BY <1>4, <1>5, <1>6, <1>7
<1>9. ASSUME NEW f \in Frames(numBufs), Has(bufDescTable, f, n, p)
      PROVE  Found(n, p) /\ lookup(n, p) = f
  <2>1. f \in DOMAIN bufDescTable /\ DOMAIN bufDescTable = Frames(numBufs)
    BY DEF Frame
  <2>2. bufDescTable[f].valid /\ bufDescTable[f].file = n /\ bufDescTable[f].pageNo = p
    BY <1>9 DEF Has
  <2>3. PICK k \in DOMAIN chain : chain[k].frameNo = f
    BY <2>1, <2>2 DEF TableIs
  <2>4. Has(bufDescTable, f, chain[k].file, chain[k].pageNo)
    BY <1>1, <2>3 DEF TableIs
  <2>5. Found(n, p)
    BY <2>2, <2>3, <2>4 DEF Found, Is, Has
  <2>6. lookup(n, p) \in Frames(numBufs) /\ Has(bufDescTable, lookup(n, p), n, p)
    BY <1>8, <2>5
  <2>7. lookup(n, p) = f
    BY <2>1, <2>2, <2>6 DEF TableIs
  <2>8. QED
    BY <2>5, <2>7
<1>10. QED
  BY <1>8, <1>9
-----------------------------------------------------------------------------
(***************************************************************************)
(* What the calls do to the chains.                                        *)
(***************************************************************************)
\* No two buckets of a chain are for one frame.
Once(c) == \A k, m \in DOMAIN c : c[k].frameNo = c[m].frameNo => k = m

\* The chain c2 is what is left of c without the buckets of the frames out.
Left(c, c2, out) ==
  /\ \A k \in DOMAIN c2 : \E m \in DOMAIN c : c2[k] = c[m] /\ c[m].frameNo \notin out
  /\ \A m \in DOMAIN c : c[m].frameNo \notin out => \E k \in DOMAIN c2 : c2[k] = c[m]
  /\ Once(c2)

\* The descriptors with the frames out cleared.
Swept(d, out) == [f \in Frames(numBufs) |-> IF f \in out THEN Cleared ELSE d[f]]

\* The descriptors with some of them cleared.
LEMMA SweptIs ==
  ASSUME NEW d \in Frame, NEW out
  PROVE  /\ Swept(d, out) \in Frame
         /\ \A f \in Frames(numBufs) : f \in out => ~ Swept(d, out)[f].valid
         /\ \A f \in Frames(numBufs) : f \notin out => Swept(d, out)[f] = d[f]
<1>1. Swept(d, out) \in Frame
  BY DescMade DEF Swept, Frame
<1>2. \A f \in Frames(numBufs) : f \in out => Swept(d, out)[f] = Cleared
  BY DEF Swept
<1>3. \A f \in Frames(numBufs) : f \notin out => Swept(d, out)[f] = d[f]
  BY DEF Swept
<1>4. QED
  BY <1>1, <1>2, <1>3, DescMade

\* Chains that lose the buckets of the frames that are cleared, and no other.
LEMMA TableKept ==
  ASSUME numBufs \in Nat \ {0}, NEW t \in Table, NEW t2 \in Table, NEW d \in Frame,
         NEW out, TableIs(t, d), \A i \in DOMAIN t : Left(t[i], t2[i], out)
  PROVE  TableIs(t2, Swept(d, out))
<1> DEFINE d2 == Swept(d, out)
<1>1. DOMAIN t2 = DOMAIN t /\ DOMAIN d2 = DOMAIN d /\ DOMAIN d = Frames(numBufs)
  BY SweptIs DEF Table, Frame
<1>2. /\ \A f \in DOMAIN d : f \in out => ~ d2[f].valid
      /\ \A f \in DOMAIN d : f \notin out => d2[f] = d[f]
  BY <1>1, SweptIs
<1> HIDE DEF d2
<1>3. ASSUME NEW i \in DOMAIN t2, NEW k \in DOMAIN t2[i]
      PROVE  /\ t2[i][k].frameNo \in DOMAIN d2
             /\ Has(d2, t2[i][k].frameNo, t2[i][k].file, t2[i][k].pageNo)
             /\ hash(t2[i][k].file, t2[i][k].pageNo) = i
  <2>1. PICK m \in DOMAIN t[i] : t2[i][k] = t[i][m] /\ t[i][m].frameNo \notin out
    BY <1>1, <1>3 DEF Left
  <2>2. /\ t[i][m].frameNo \in DOMAIN d
        /\ Has(d, t[i][m].frameNo, t[i][m].file, t[i][m].pageNo)
        /\ hash(t[i][m].file, t[i][m].pageNo) = i
    BY <1>1 DEF TableIs
  <2>3. d2[t[i][m].frameNo] = d[t[i][m].frameNo]
    BY <1>2, <2>1, <2>2
  <2>4. QED
    BY <1>1, <2>1, <2>2, <2>3 DEF Has
<1>4. ASSUME NEW i \in DOMAIN t2, NEW k \in DOMAIN t2[i], NEW m \in DOMAIN t2[i],
             t2[i][k].frameNo = t2[i][m].frameNo
      PROVE  k = m
  BY <1>1, <1>4 DEF Left, Once
<1>5. ASSUME NEW f \in DOMAIN d2, d2[f].valid
      PROVE  \E k \in DOMAIN t2[hash(d2[f].file, d2[f].pageNo)] :
               t2[hash(d2[f].file, d2[f].pageNo)][k].frameNo = f
  <2>1. f \in DOMAIN d /\ f \notin out /\ d2[f] = d[f]
    BY <1>1, <1>2, <1>5
  <2> DEFINE i == hash(d[f].file, d[f].pageNo)
  <2>2. d[f].valid
    BY <1>5, <2>1
  <2>3. PICK m \in DOMAIN t[i] : t[i][m].frameNo = f
    BY <2>1, <2>2 DEF TableIs
  <2>4. d[f] \in Descs
    BY <2>1 DEF Frame
  <2>5. d[f].file \in Names /\ d[f].pageNo \in PageIds
    BY <2>2, <2>4, DescIs
  <2>6. d[f].pageNo \in 0 .. MaxPages
    BY <2>5, FilesAssumption DEF PageIds
  <2>7. i \in DOMAIN t
    BY <2>5, <2>6, HashIn DEF Table
  <2> HIDE DEF i
  <2>8. PICK k \in DOMAIN t2[i] : t2[i][k] = t[i][m]
    BY <2>1, <2>3, <2>7 DEF Left
  <2>9. t2[i][k].frameNo = f
    BY <2>3, <2>8
  <2>10. QED
    BY <2>1, <2>9 DEF i
<1>6. ASSUME NEW f \in DOMAIN d2, NEW g \in DOMAIN d2,
             d2[f].valid, Has(d2, g, d2[f].file, d2[f].pageNo)
      PROVE  f = g
  <2>1. d2[g].valid
    BY <1>6 DEF Has
  <2>2. d2[f] = d[f] /\ d2[g] = d[g]
    BY <1>1, <1>2, <1>6, <2>1
  <2>3. d[f].valid /\ Has(d, g, d[f].file, d[f].pageNo)
    BY <1>6, <2>2 DEF Has
  <2>4. QED
    BY <1>1, <2>3 DEF TableIs
<1>7. QED
  BY <1>3, <1>4, <1>5, <1>6 DEF TableIs, d2

\* RemoveAt takes out one entry and moves those behind it up.
LEMMA RemoveAtIs ==
  ASSUME NEW S, NEW s \in Seq(S), NEW j \in 1 .. Len(s)
  PROVE  /\ RemoveAt(s, j) \in Seq(S) /\ Len(RemoveAt(s, j)) = Len(s) - 1
         /\ \A k \in 1 .. Len(s) - 1 : RemoveAt(s, j)[k] = IF k < j THEN s[k] ELSE s[k + 1]
<1> DEFINE a == SubSeq(s, 1, j - 1)
           b == SubSeq(s, j + 1, Len(s))
<1>1. /\ a \in Seq(S) /\ Len(a) = j - 1
      /\ \A k \in 1 .. j - 1 : a[k] = s[k]
  OBVIOUS
<1>2. /\ b \in Seq(S) /\ Len(b) = Len(s) - j
      /\ \A k \in 1 .. Len(s) - j : b[k] = s[k + j]
  OBVIOUS
<1>3. RemoveAt(s, j) = a \o b
  BY DEF RemoveAt
<1> HIDE DEF a, b
<1>4. /\ a \o b \in Seq(S) /\ Len(a \o b) = Len(s) - 1
      /\ \A k \in 1 .. Len(s) - 1 : (a \o b)[k] = IF k < j THEN a[k] ELSE b[k - (j - 1)]
  BY <1>1, <1>2
<1>5. ASSUME NEW k \in 1 .. Len(s) - 1
      PROVE  RemoveAt(s, j)[k] = IF k < j THEN s[k] ELSE s[k + 1]
  <2>1. CASE k < j
    BY <1>1, <1>3, <1>4, <2>1
  <2>2. CASE ~ (k < j)
    <3>1. k - (j - 1) \in 1 .. Len(s) - j /\ k - (j - 1) + j = k + 1
      BY <2>2
    <3>2. b[k - (j - 1)] = s[k + 1]
      BY <1>2, <3>1
    <3>3. QED
      BY <1>3, <1>4, <2>2, <3>2
  <2>3. QED
    BY <2>1, <2>2
<1>6. QED
  BY <1>3, <1>4, <1>5

\* A chain without its bucket for a frame is what is left of it.
LEMMA RemoveAtLeft ==
  ASSUME NEW c \in Seq(Buckets), NEW j \in 1 .. Len(c), Once(c)
  PROVE  Left(c, RemoveAt(c, j), {c[j].frameNo})
<1> DEFINE r == RemoveAt(c, j)
<1>1. /\ r \in Seq(Buckets) /\ Len(r) = Len(c) - 1 /\ Len(c) \in Nat
      /\ \A k \in 1 .. Len(c) - 1 : r[k] = IF k < j THEN c[k] ELSE c[k + 1]
  <2>1. Len(c) \in Nat
    OBVIOUS
  <2>2. /\ RemoveAt(c, j) \in Seq(Buckets) /\ Len(RemoveAt(c, j)) = Len(c) - 1
        /\ \A k \in 1 .. Len(c) - 1 :
             RemoveAt(c, j)[k] = IF k < j THEN c[k] ELSE c[k + 1]
    BY RemoveAtIs, Zenon
  <2>3. QED
    BY <2>1, <2>2
<1> HIDE DEF r
<1>2. DOMAIN r = 1 .. Len(c) - 1 /\ DOMAIN c = 1 .. Len(c)
  BY <1>1
<1> DEFINE from(k) == IF k < j THEN k ELSE k + 1
<1>3. ASSUME NEW k \in DOMAIN r
      PROVE  from(k) \in DOMAIN c /\ from(k) # j /\ r[k] = c[from(k)]
  BY <1>1, <1>2
<1>4. ASSUME NEW k \in DOMAIN r
      PROVE  \E m \in DOMAIN c : r[k] = c[m] /\ c[m].frameNo \notin {c[j].frameNo}
  <2>1. c[from(k)].frameNo # c[j].frameNo
    BY <1>2, <1>3 DEF Once
  <2>2. QED
    BY <1>3, <2>1
<1>5. ASSUME NEW m \in DOMAIN c, c[m].frameNo \notin {c[j].frameNo}
      PROVE  \E k \in DOMAIN r : r[k] = c[m]
  <2>1. m # j
    BY <1>5
  <2>2. CASE m < j
    <3>1. m \in DOMAIN r /\ r[m] = c[m]
      BY <1>1, <1>2, <2>2
    <3>2. QED
      BY <3>1
  <2>3. CASE m > j
    <3>1. m - 1 \in DOMAIN r /\ r[m - 1] = c[m]
      BY <1>1, <1>2, <2>3
    <3>2. QED
      BY <3>1
  <2>4. QED
    BY <1>2, <2>1, <2>2, <2>3
<1>6. ASSUME NEW k \in DOMAIN r, NEW m \in DOMAIN r, r[k].frameNo = r[m].frameNo
      PROVE  k = m
  <2>1. from(k) = from(m)
    BY <1>3, <1>6 DEF Once
  <2>2. QED
    BY <1>2, <2>1
<1>7. QED
  BY <1>4, <1>5, <1>6 DEF Left, Once, r

\* The bucket of a key in its chain is that of the frame which has the page.
LEMMA BucketOf ==
  ASSUME numBufs \in Nat \ {0}, NEW t \in Table, NEW d \in Frame, TableIs(t, d),
         NEW f \in Frames(numBufs), d[f].valid
  PROVE  LET i == hash(d[f].file, d[f].pageNo)
         IN  /\ i \in DOMAIN t
             /\ \E k \in DOMAIN t[i] : t[i][k].frameNo = f
             /\ \A k \in DOMAIN t[i] :
                  Is(t[i][k], d[f].file, d[f].pageNo) <=> t[i][k].frameNo = f
             /\ \A j \in DOMAIN t : \A k \in DOMAIN t[j] : t[j][k].frameNo = f => j = i
<1> DEFINE i == hash(d[f].file, d[f].pageNo)
<1>1. f \in DOMAIN d /\ d[f] \in Descs
  BY DEF Frame
<1>2. d[f].file \in Names /\ d[f].pageNo \in PageIds
  BY <1>1, DescIs
<1>3. i \in DOMAIN t
  <2>1. d[f].pageNo \in 0 .. MaxPages
    BY <1>2, FilesAssumption DEF PageIds
  <2>2. QED
    BY <1>2, <2>1, HashIn DEF Table
<1>4. \E k \in DOMAIN t[i] : t[i][k].frameNo = f
  BY <1>1 DEF TableIs
<1>5. ASSUME NEW j \in DOMAIN t, NEW k \in DOMAIN t[j], t[j][k].frameNo = f
      PROVE  j = i /\ Is(t[j][k], d[f].file, d[f].pageNo)
  <2>1. Has(d, f, t[j][k].file, t[j][k].pageNo) /\ hash(t[j][k].file, t[j][k].pageNo) = j
    BY <1>5 DEF TableIs
  <2>2. t[j][k].file = d[f].file /\ t[j][k].pageNo = d[f].pageNo
    BY <2>1 DEF Has
  <2>3. QED
    BY <2>1, <2>2 DEF Is
<1>6. ASSUME NEW k \in DOMAIN t[i], Is(t[i][k], d[f].file, d[f].pageNo)
      PROVE  t[i][k].frameNo = f
  <2>1. t[i][k].frameNo \in DOMAIN d /\ Has(d, t[i][k].frameNo, t[i][k].file, t[i][k].pageNo)
    BY <1>3 DEF TableIs
  <2>2. Has(d, t[i][k].frameNo, d[f].file, d[f].pageNo)
    BY <1>6, <2>1 DEF Is
  <2>3. QED
    BY <1>1, <2>1, <2>2 DEF TableIs
<1> HIDE DEF i
<1>7. \A k \in DOMAIN t[i] : Is(t[i][k], d[f].file, d[f].pageNo) <=> t[i][k].frameNo = f
  BY <1>3, <1>5, <1>6
<1>8. QED
  BY <1>3, <1>4, <1>5, <1>7 DEF i

\* The chains without the bucket of frame f, which is cleared.
LEMMA RemovedIs ==
  ASSUME numBufs \in Nat \ {0}, NEW t \in Table, NEW d \in Frame, TableIs(t, d),
         NEW f \in Frames(numBufs), d[f].valid
  PROVE  /\ Removed(t, d[f].file, d[f].pageNo) \in Table
         /\ TableIs(Removed(t, d[f].file, d[f].pageNo), Swept(d, {f}))
<1> DEFINE n == d[f].file
           p == d[f].pageNo
           i == hash(n, p)
           c == t[i]
           I == {k \in 1 .. Len(c) : Is(c[k], n, p)}
           j == SelectInSeq(c, LAMBDA b : Is(b, n, p))
           t2 == Removed(t, n, p)
<1>1. /\ i \in DOMAIN t
      /\ \E k \in DOMAIN t[i] : t[i][k].frameNo = f
      /\ \A k \in DOMAIN t[i] : Is(t[i][k], n, p) <=> t[i][k].frameNo = f
      /\ \A l \in DOMAIN t : \A k \in DOMAIN t[l] : t[l][k].frameNo = f => l = i
  BY BucketOf
<1>2. c \in Seq(Buckets) /\ DOMAIN c = 1 .. Len(c) /\ Len(c) \in Nat
  BY <1>1, BucketIs
<1>3. I # {}
  BY <1>1, <1>2
<1>4. j = Min(I)
  BY <1>3 DEF SelectInSeq
<1>5. j \in I
  <2>1. IsFiniteSet(1 .. Len(c)) /\ I \in SUBSET (1 .. Len(c)) /\ I \in SUBSET Int
    BY <1>2, FS_Interval
  <2>2. IsFiniteSet(I)
    BY <2>1, FS_Subset
  <2> HIDE DEF I, j
  <2>3. QED
    BY <1>3, <1>4, <2>1, <2>2, MinIs
<1>6. j \in 1 .. Len(c) /\ c[j].frameNo = f
  BY <1>1, <1>2, <1>5
<1>7. RemoveFirstMatch(c, LAMBDA b : Is(b, n, p)) = RemoveAt(c, j)
  BY <1>3 DEF RemoveFirstMatch
<1>8. t2 = [t EXCEPT ![i] = RemoveAt(c, j)]
  BY <1>7 DEF Removed
<1>9. \A l \in DOMAIN t : Once(t[l])
  BY DEF TableIs, Once
<1>10. RemoveAt(c, j) \in Seq(Buckets) /\ Left(c, RemoveAt(c, j), {f})
  <2> HIDE DEF c, j
  <2>1. RemoveAt(c, j) \in Seq(Buckets)
    BY <1>2, <1>6, RemoveAtIs
  <2>2. Once(c)
    BY <1>1, <1>9 DEF c
  <2>3. Left(c, RemoveAt(c, j), {c[j].frameNo})
    BY <1>2, <1>6, <2>2, RemoveAtLeft
  <2>4. QED
    BY <1>6, <2>1, <2>3
<1>11. ASSUME NEW l \in DOMAIN t, l # i PROVE Left(t[l], t[l], {f})
  <2>1. \A k \in DOMAIN t[l] : t[l][k].frameNo # f
    BY <1>1, <1>11
  <2>2. QED
    BY <1>9, <2>1 DEF Left
<1> HIDE DEF c, j, I, i
<1>12. t2 \in Table
  <2> HIDE DEF t2
  <2>1. QED
    BY <1>1, <1>8, <1>10 DEF Table
<1>13. \A l \in DOMAIN t : Left(t[l], t2[l], {f})
  <2> HIDE DEF t2
  <2>1. t2[i] = RemoveAt(c, j) /\ \A l \in DOMAIN t : l # i => t2[l] = t[l]
    BY <1>1, <1>8
  <2>2. QED
    BY <1>10, <1>11, <2>1 DEF c
<1>14. QED
  BY <1>12, <1>13, TableKept

\* What Without leaves of the first i buckets of c.
LeftTo(c, i, r, out) ==
  /\ \A k \in DOMAIN r : \E m \in 1 .. i : r[k] = c[m] /\ c[m].frameNo \notin out
  /\ \A m \in 1 .. i : c[m].frameNo \notin out => \E k \in DOMAIN r : r[k] = c[m]
  /\ Once(r)

\* One more bucket of the chain stays or goes.
LEMMA LeftToNext ==
  ASSUME NEW c \in Seq(Buckets), NEW i \in Nat, i + 1 <= Len(c), Once(c),
         NEW r \in Seq(Buckets), NEW out, LeftTo(c, i, r, out)
  PROVE  LeftTo(c, i + 1,
                r \o (IF c[i + 1].frameNo \in out THEN <<>> ELSE <<c[i + 1]>>), out)
<1> DEFINE b == c[i + 1]
<1>1. b \in Buckets /\ i + 1 \in 1 .. i + 1 /\ \A m \in 1 .. i : m \in 1 .. i + 1
  OBVIOUS
<1>2. \A m \in 1 .. i + 1 : m \in 1 .. i \/ m = i + 1
  OBVIOUS
<1>3. CASE b.frameNo \in out
  <2>1. r \o <<>> = r
    OBVIOUS
  <2>2. LeftTo(c, i + 1, r, out)
    BY <1>1, <1>2, <1>3 DEF LeftTo
  <2>3. QED
    BY <1>3, <2>1, <2>2
<1>4. CASE b.frameNo \notin out
  <2> DEFINE r2 == r \o <<b>>
             n == Len(r)
  <2>1. /\ n \in Nat /\ DOMAIN r = 1 .. n /\ DOMAIN r2 = 1 .. n + 1
        /\ r2[n + 1] = b /\ \A k \in 1 .. n : r2[k] = r[k]
    BY <1>1
  <2> HIDE DEF r2, n
  <2>2. \A k \in DOMAIN r2 : (k \in DOMAIN r /\ r2[k] = r[k]) \/ (k = n + 1 /\ r2[k] = b)
    BY <2>1
  <2>3. \A k \in DOMAIN r : k \in DOMAIN r2 /\ r2[k] = r[k]
    BY <2>1
  <2>4. n + 1 \in DOMAIN r2 /\ r2[n + 1] = b
    BY <2>1
  <2>5. \A k \in DOMAIN r : r[k].frameNo # b.frameNo
    <3>1. DOMAIN c = 1 .. Len(c)
      OBVIOUS
    <3>2. \A m \in 1 .. i : m \in DOMAIN c /\ i + 1 \in DOMAIN c /\ m # i + 1
      BY <3>1
    <3>3. QED
      BY <3>2 DEF LeftTo, Once
  <2>6. \A k \in DOMAIN r2 : \E m \in 1 .. i + 1 : r2[k] = c[m] /\ c[m].frameNo \notin out
    BY <1>1, <1>4, <2>2 DEF LeftTo
  <2>7. \A m \in 1 .. i + 1 : c[m].frameNo \notin out => \E k \in DOMAIN r2 : r2[k] = c[m]
    BY <1>2, <2>3, <2>4 DEF LeftTo
  <2>8. Once(r2)
    BY <2>2, <2>5 DEF LeftTo, Once
  <2>9. LeftTo(c, i + 1, r2, out)
    BY <2>6, <2>7, <2>8 DEF LeftTo
  <2>10. QED
    BY <1>4, <2>9 DEF r2
<1>5. QED
  BY <1>3, <1>4

\* Without leaves the chain without the buckets of the frames out.
LEMMA WithoutIs ==
  ASSUME NEW c \in Seq(Buckets), NEW out, Once(c)
  PROVE  Without(c, out) \in Seq(Buckets) /\ Left(c, Without(c, out), out)
<1> DEFINE n == Len(c)
           one(k) == IF c[k].frameNo \in out THEN <<>> ELSE <<c[k]>>
           seqs == [k \in 1 .. n |-> one(k)]
<1>1. n \in Nat /\ DOMAIN c = 1 .. n /\ \A k \in 1 .. n : c[k] \in Buckets
  OBVIOUS
<1>2. \A k \in 1 .. n : one(k) \in Seq(Buckets)
  <2>1. \A b \in Buckets : <<b>> \in Seq(Buckets)
    OBVIOUS
  <2>2. <<>> \in Seq(Buckets)
    OBVIOUS
  <2>3. QED
    BY <1>1, <2>1, <2>2
<1>3. Without(c, out) = FlattenSeq(seqs)
  <2>1. Without(c, out) = FlattenSeq([k \in DOMAIN c |-> one(k)])
    BY DEF Without
  <2>2. QED
    BY <1>1, <2>1
<1> HIDE DEF one
<1>4. seqs \in Seq(Seq(Buckets)) /\ Len(seqs) = n /\ \A k \in 1 .. n : seqs[k] = one(k)
  <2>1. \A k \in 1 .. n : seqs[k] = one(k)
    OBVIOUS
  <2>2. seqs \in [1 .. n -> Seq(Buckets)]
    BY <1>2
  <2> HIDE DEF seqs, n
  <2>3. seqs \in Seq(Seq(Buckets)) /\ Len(seqs) = n
    BY <1>1, <2>2
  <2>4. QED
    BY <2>1, <2>3
<1> HIDE DEF seqs
<1>5. PICK flat : Joins(flat, seqs, n, Buckets)
  <2>1. \A k \in 1 .. n : seqs[k] \in Seq(Buckets)
    BY <1>2, <1>4
  <2>2. QED
    BY <1>1, <2>1, JoinsExists
<1>6. Without(c, out) = flat[n]
  BY <1>3, <1>4, <1>5, FlattenIs
<1> DEFINE F == {i \in Nat : i <= n => LeftTo(c, i, flat[i], out)}
<1>7. 0 \in F
  <2>1. flat[0] = <<>>
    BY <1>5 DEF Joins
  <2>2. LeftTo(c, 0, <<>>, out)
    BY DEF LeftTo, Once
  <2>3. QED
    BY <2>1, <2>2
<1>8. ASSUME NEW i \in Nat, i \in F PROVE i + 1 \in F
  <2> SUFFICES ASSUME i + 1 <= n PROVE LeftTo(c, i + 1, flat[i + 1], out)
    OBVIOUS
  <2>1. i \in 0 .. n /\ i + 1 \in 1 .. n /\ i + 1 - 1 = i
    BY <1>1
  <2>2. flat[i] \in Seq(Buckets) /\ flat[i + 1] = Cat(flat[i], seqs[i + 1])
    BY <1>5, <2>1 DEF Joins
  <2>3. LeftTo(c, i, flat[i], out)
    BY <1>8, <2>1
  <2>4. seqs[i + 1] = one(i + 1)
    BY <1>4, <2>1
  <2>5. LeftTo(c, i + 1, flat[i] \o one(i + 1), out)
    <3> DEFINE r == flat[i]
    <3>1. r \in Seq(Buckets) /\ LeftTo(c, i, r, out)
      BY <2>2, <2>3
    <3> HIDE DEF r
    <3>2. LeftTo(c, i + 1,
                 r \o (IF c[i + 1].frameNo \in out THEN <<>> ELSE <<c[i + 1]>>), out)
      BY <3>1, LeftToNext
    <3>3. QED
      BY <3>2 DEF r, one
  <2>6. QED
    BY <2>2, <2>4, <2>5 DEF Cat
<1> HIDE DEF F
<1>9. n \in F
  BY <1>1, <1>7, <1>8, SetInduction
<1>10. LeftTo(c, n, flat[n], out)
  BY <1>1, <1>9 DEF F
<1>11. Left(c, flat[n], out)
  BY <1>1, <1>10 DEF Left, LeftTo
<1>12. flat[n] \in Seq(Buckets)
  BY <1>1, <1>5 DEF Joins
<1>13. QED
  BY <1>6, <1>11, <1>12

\* flushFile leaves the chains without the buckets of the frames it clears.
LEMMA FlushedIs ==
  ASSUME numBufs \in Nat \ {0}, NEW t \in Table, NEW d \in Frame, TableIs(t, d), NEW out
  PROVE  /\ [i \in DOMAIN t |-> Without(t[i], out)] \in Table
         /\ TableIs([i \in DOMAIN t |-> Without(t[i], out)], Swept(d, out))
<1> DEFINE t2 == [i \in DOMAIN t |-> Without(t[i], out)]
<1>1. \A i \in DOMAIN t : t[i] \in Seq(Buckets) /\ Once(t[i])
  BY DEF TableIs, Once, Table
<1>2. \A i \in DOMAIN t : Without(t[i], out) \in Seq(Buckets)
                            /\ Left(t[i], Without(t[i], out), out)
  BY <1>1, WithoutIs
<1>3. t2 \in Table
  BY <1>2 DEF Table
<1>4. \A i \in DOMAIN t : Left(t[i], t2[i], out)
  BY <1>2
<1> HIDE DEF t2
<1>5. TableIs(t2, Swept(d, out))
  BY <1>3, <1>4, TableKept
<1>6. QED
  BY <1>3, <1>5 DEF t2

\* Descriptors of the same pages, whatever their pins and bits.
LEMMA TableSame ==
  ASSUME NEW t, NEW d, NEW d2, TableIs(t, d), DOMAIN d2 = DOMAIN d,
         \A f \in DOMAIN d : /\ d2[f].valid = d[f].valid
                             /\ d2[f].file = d[f].file /\ d2[f].pageNo = d[f].pageNo
  PROVE  TableIs(t, d2)
<1>1. \A f \in DOMAIN d : \A n, p : Has(d2, f, n, p) <=> Has(d, f, n, p)
  BY DEF Has
<1>2. /\ \A i \in DOMAIN t : \A k \in DOMAIN t[i] :
           /\ t[i][k].frameNo \in DOMAIN d2
           /\ Has(d2, t[i][k].frameNo, t[i][k].file, t[i][k].pageNo)
           /\ hash(t[i][k].file, t[i][k].pageNo) = i
      /\ \A i \in DOMAIN t : \A k, m \in DOMAIN t[i] :
           t[i][k].frameNo = t[i][m].frameNo => k = m
  BY <1>1 DEF TableIs
<1>3. \A f \in DOMAIN d2 : d2[f].valid =>
        \E k \in DOMAIN t[hash(d2[f].file, d2[f].pageNo)] :
          t[hash(d2[f].file, d2[f].pageNo)][k].frameNo = f
  BY DEF TableIs
<1>4. \A f, g \in DOMAIN d2 : d2[f].valid /\ Has(d2, g, d2[f].file, d2[f].pageNo) => f = g
  BY <1>1 DEF TableIs
<1>5. QED
  BY <1>2, <1>3, <1>4 DEF TableIs

\* The chains with a bucket for frame f, which is given page p of file n.
LEMMA InsertedIs ==
  ASSUME numBufs \in Nat \ {0}, NEW t \in Table, NEW d \in Frame, TableIs(t, d),
         NEW f \in Frames(numBufs), ~ d[f].valid, NEW n \in Names, NEW p \in PageIds,
         \A g \in Frames(numBufs) : ~ Has(d, g, n, p)
  PROVE  /\ Inserted(t, n, p, f) \in Table
         /\ [d EXCEPT ![f] = SetTo(n, p)] \in Frame
         /\ TableIs(Inserted(t, n, p, f), [d EXCEPT ![f] = SetTo(n, p)])
<1> DEFINE h == hash(n, p)
           c == t[h]
           b == [file |-> n, pageNo |-> p, frameNo |-> f]
           c2 == <<b>> \o c
           t2 == Inserted(t, n, p, f)
           d2 == [d EXCEPT ![f] = SetTo(n, p)]
<1>1. h \in DOMAIN t
  <2>1. p \in 0 .. MaxPages
    BY FilesAssumption DEF PageIds
  <2>2. QED
    BY <2>1, HashIn DEF Table
<1>2. c \in Seq(Buckets) /\ DOMAIN c = 1 .. Len(c) /\ Len(c) \in Nat
  BY <1>1, BucketIs
<1>3. b \in Buckets /\ b.file = n /\ b.pageNo = p /\ b.frameNo = f
  <2>1. f \in Nat
    BY DEF Frames
  <2>2. QED
    BY <2>1 DEF Buckets
<1> HIDE DEF h, c, b
<1>4. /\ c2 \in Seq(Buckets) /\ DOMAIN c2 = 1 .. Len(c) + 1
      /\ c2[1] = b /\ \A k \in 1 .. Len(c) : c2[k + 1] = c[k]
  BY <1>2, <1>3
<1> HIDE DEF c2
<1>5. /\ \A k \in DOMAIN c2 : k # 1 => k - 1 \in DOMAIN c /\ c2[k] = c[k - 1]
      /\ \A k \in DOMAIN c : k + 1 \in DOMAIN c2 /\ c2[k + 1] = c[k]
      /\ 1 \in DOMAIN c2 /\ c2[1] = b
  BY <1>2, <1>4
<1>6. /\ DOMAIN t2 = DOMAIN t /\ t2[h] = c2
      /\ \A i \in DOMAIN t : i # h => t2[i] = t[i]
  BY <1>1 DEF Inserted, h, c, b, c2
<1>7. t2 \in Table
  <2>1. t2 = [t EXCEPT ![h] = c2]
    BY DEF Inserted, h, c, b, c2
  <2> HIDE DEF t2
  <2>2. QED
    BY <1>4, <2>1 DEF Table
<1>8. SetTo(n, p) \in Descs /\ SetTo(n, p).valid
      /\ SetTo(n, p).file = n /\ SetTo(n, p).pageNo = p
  BY DescMade
<1>9. d2 \in Frame
  BY <1>8 DEF Frame
<1>10. /\ DOMAIN d = Frames(numBufs) /\ DOMAIN d2 = DOMAIN d /\ d2[f] = SetTo(n, p)
       /\ \A g \in DOMAIN d : g # f => d2[g] = d[g]
  BY DEF Frame
<1> HIDE DEF t2, d2
<1>11. Has(d2, f, n, p)
  BY <1>8, <1>10 DEF Has
<1>12. \A g \in DOMAIN d : g # f => \A m, q : Has(d2, g, m, q) <=> Has(d, g, m, q)
  BY <1>10 DEF Has
<1>13. \A i \in DOMAIN t : \A k \in DOMAIN t[i] :
         /\ t[i][k].frameNo \in DOMAIN d /\ t[i][k].frameNo # f
         /\ Has(d, t[i][k].frameNo, t[i][k].file, t[i][k].pageNo)
         /\ hash(t[i][k].file, t[i][k].pageNo) = i
  BY DEF TableIs, Has
<1>14. ASSUME NEW i \in DOMAIN t2, NEW k \in DOMAIN t2[i]
       PROVE  /\ t2[i][k].frameNo \in DOMAIN d2
              /\ Has(d2, t2[i][k].frameNo, t2[i][k].file, t2[i][k].pageNo)
              /\ hash(t2[i][k].file, t2[i][k].pageNo) = i
  <2>1. CASE i = h /\ k = 1
    BY <1>3, <1>5, <1>6, <1>10, <1>11, <2>1 DEF h
  <2>2. CASE i = h /\ k # 1
    <3>1. k - 1 \in DOMAIN t[i] /\ t2[i][k] = t[i][k - 1] /\ i \in DOMAIN t
      BY <1>1, <1>5, <1>6, <2>2 DEF c
    <3>2. QED
      BY <1>10, <1>12, <1>13, <3>1
  <2>3. CASE i # h
    <3>1. k \in DOMAIN t[i] /\ t2[i][k] = t[i][k] /\ i \in DOMAIN t
      BY <1>6, <2>3
    <3>2. QED
      BY <1>10, <1>12, <1>13, <3>1
  <2>4. QED
    BY <2>1, <2>2, <2>3
<1>15. ASSUME NEW i \in DOMAIN t2, NEW k \in DOMAIN t2[i], NEW m \in DOMAIN t2[i],
              t2[i][k].frameNo = t2[i][m].frameNo
       PROVE  k = m
  <2>1. CASE i # h
    <3>1. k \in DOMAIN t[i] /\ m \in DOMAIN t[i] /\ t2[i] = t[i] /\ i \in DOMAIN t
      BY <1>6, <2>1
    <3>2. QED
      BY <1>15, <3>1 DEF TableIs
  <2>2. CASE i = h
    <3>1. \A l \in DOMAIN c2 : l # 1 => c2[l].frameNo # f
      BY <1>1, <1>5, <1>13 DEF c
    <3>2. CASE k = 1 \/ m = 1
      BY <1>3, <1>5, <1>6, <1>15, <2>2, <3>1, <3>2
    <3>3. CASE k # 1 /\ m # 1
      <4>1. k - 1 \in DOMAIN c /\ m - 1 \in DOMAIN c /\ c[k - 1].frameNo = c[m - 1].frameNo
        BY <1>5, <1>6, <1>15, <2>2, <3>3
      <4>2. k - 1 = m - 1
        BY <1>1, <4>1 DEF TableIs, c
      <4>3. k \in 1 .. Len(c) + 1 /\ m \in 1 .. Len(c) + 1
        BY <1>4, <1>6, <2>2
      <4>4. QED
        BY <1>2, <4>2, <4>3
    <3>4. QED
      BY <3>2, <3>3
  <2>3. QED
    BY <2>1, <2>2
<1>16. ASSUME NEW g \in DOMAIN d2, d2[g].valid
       PROVE  \E k \in DOMAIN t2[hash(d2[g].file, d2[g].pageNo)] :
                t2[hash(d2[g].file, d2[g].pageNo)][k].frameNo = g
  <2>1. CASE g = f
    <3>1. hash(d2[g].file, d2[g].pageNo) = h
      BY <1>8, <1>10, <2>1 DEF h
    <3>2. t2[h][1].frameNo = g /\ 1 \in DOMAIN t2[h]
      BY <1>3, <1>5, <1>6, <2>1
    <3>3. QED
      BY <3>1, <3>2
  <2>2. CASE g # f
    <3> DEFINE i == hash(d[g].file, d[g].pageNo)
    <3>1. d2[g] = d[g] /\ g \in Frames(numBufs) /\ d[g].valid
      BY <1>10, <1>16, <2>2
    <3>2. i \in DOMAIN t /\ \E k \in DOMAIN t[i] : t[i][k].frameNo = g
      BY <3>1, BucketOf
    <3> HIDE DEF i
    <3>3. PICK k \in DOMAIN t[i] : t[i][k].frameNo = g
      BY <3>2
    <3>4. CASE i = h
      <4>1. k + 1 \in DOMAIN t2[i] /\ t2[i][k + 1] = t[i][k]
        BY <1>5, <1>6, <3>4 DEF c
      <4>2. QED
        BY <3>1, <3>3, <4>1 DEF i
    <3>5. CASE i # h
      <4>1. t2[i] = t[i]
        BY <1>6, <3>2, <3>5
      <4>2. QED
        BY <3>1, <3>3, <4>1 DEF i
    <3>6. QED
      BY <3>4, <3>5
  <2>3. QED
    BY <2>1, <2>2
<1>17. ASSUME NEW g \in DOMAIN d2, NEW l \in DOMAIN d2,
              d2[g].valid, Has(d2, l, d2[g].file, d2[g].pageNo)
       PROVE  g = l
  <2>1. CASE g = f
    <3>1. Has(d2, l, n, p)
      BY <1>8, <1>10, <1>17, <2>1
    <3>2. QED
      BY <1>10, <1>12, <2>1, <3>1
  <2>2. CASE g # f
    <3>1. d2[g] = d[g] /\ d[g].valid /\ g \in DOMAIN d /\ l \in DOMAIN d
      BY <1>10, <1>17, <2>2
    <3>2. l # f
      <4>1. SUFFICES ASSUME l = f PROVE FALSE
        OBVIOUS
      <4>2. d[g].file = n /\ d[g].pageNo = p
        BY <1>8, <1>10, <1>17, <3>1, <4>1 DEF Has
      <4>3. Has(d, g, n, p)
        BY <3>1, <4>2 DEF Has
      <4>4. QED
        BY <1>10, <3>1, <4>3
    <3>3. Has(d, l, d[g].file, d[g].pageNo)
      BY <1>12, <1>17, <3>1, <3>2
    <3>4. QED
      BY <3>1, <3>3 DEF TableIs
  <2>3. QED
    BY <2>1, <2>2
<1>18. TableIs(t2, d2)
  BY <1>14, <1>15, <1>16, <1>17 DEF TableIs
<1>19. QED
  BY <1>7, <1>9, <1>18 DEF t2, d2
-----------------------------------------------------------------------------
(***************************************************************************)
(* What the calls do to the counts.                                        *)
(***************************************************************************)
LEMMA OnFinite ==
  ASSUME numBufs \in Nat \ {0}, NEW d \in Frame, NEW n
  PROVE  IsFiniteSet(On(d, n)) /\ Cardinality(On(d, n)) \in Nat
<1>1. IsFiniteSet(Frames(numBufs))
  BY FS_Interval DEF Frames
<1>2. On(d, n) \in SUBSET Frames(numBufs)
  BY DEF On, Frame
<1>3. QED
  BY <1>1, <1>2, FS_Subset, FS_CardinalityType

\* Frames of file n are cleared, and their objects closed.
LEMMA CountedSwept ==
  ASSUME numBufs \in Nat \ {0}, NEW d \in Frame, NEW n \in Names,
         NEW out \in SUBSET On(d, n), NEW counts \in [Names -> Int],
         NEW held \in [Names -> Nat], Counted(counts, held, d)
  PROVE  /\ Closed(counts, n, 2 * Cardinality(out)) \in [Names -> Int]
         /\ Counted(Closed(counts, n, 2 * Cardinality(out)), held, Swept(d, out))
<1> DEFINE d2 == Swept(d, out)
           z == Cardinality(out)
<1>1. IsFiniteSet(On(d, n)) /\ IsFiniteSet(out) /\ z \in Nat
  BY OnFinite, FS_Subset, FS_CardinalityType
<1>2. DOMAIN d2 = DOMAIN d /\ DOMAIN d = Frames(numBufs)
  BY SweptIs DEF Frame
<1>3. /\ \A f \in DOMAIN d : f \in out => d2[f].file \notin Names
      /\ \A f \in DOMAIN d : f \notin out => d2[f] = d[f]
  <2>1. \A f \in DOMAIN d : f \in out => d2[f] = Cleared
    BY <1>2 DEF Swept
  <2>2. QED
    BY <1>2, <2>1, DescMade, SweptIs
<1> HIDE DEF d2
<1>4. On(d2, n) = On(d, n) \ out
  BY <1>2, <1>3 DEF On
<1>5. Cardinality(On(d2, n)) = Cardinality(On(d, n)) - z
  <2>1. On(d, n) \cap out = out
    OBVIOUS
  <2>2. Cardinality(On(d, n) \ out) = Cardinality(On(d, n)) - Cardinality(On(d, n) \cap out)
    BY <1>1, FS_Difference
  <2>3. QED
    BY <1>4, <2>1, <2>2
<1>6. \A m \in Names : m # n => On(d2, m) = On(d, m)
  <2> SUFFICES ASSUME NEW m \in Names, m # n PROVE On(d2, m) = On(d, m)
    OBVIOUS
  <2>1. \A f \in out : d[f].file = n
    BY DEF On
  <2>2. \A f \in DOMAIN d : d2[f].file = m <=> d[f].file = m
    BY <1>3, <2>1
  <2>3. QED
    BY <1>2, <2>2 DEF On
<1> DEFINE c2 == Closed(counts, n, 2 * z)
<1>7. c2 \in [Names -> Int] /\ c2[n] = counts[n] - 2 * z
      /\ \A m \in Names : m # n => c2[m] = counts[m]
  <2> HIDE DEF z
  <2>1. QED
    BY <1>1 DEF Closed
<1> HIDE DEF c2
<1>8. c2[n] = held[n] + 2 * Cardinality(On(d2, n))
  <2>1. counts[n] = held[n] + 2 * Cardinality(On(d, n)) /\ held[n] \in Nat
    BY DEF Counted
  <2>2. Cardinality(On(d, n)) \in Nat
    BY OnFinite
  <2> HIDE DEF z
  <2>3. QED
    BY <1>1, <1>5, <1>7, <2>1, <2>2
<1>9. \A m \in Names : m # n => c2[m] = held[m] + 2 * Cardinality(On(d2, m))
  BY <1>6, <1>7 DEF Counted
<1>10. Counted(c2, held, d2)
  BY <1>8, <1>9 DEF Counted
<1>11. QED
  BY <1>7, <1>10 DEF c2, d2

\* A free frame is given a page of file n, and objects are opened for it.
LEMMA CountedSet ==
  ASSUME numBufs \in Nat \ {0}, NEW d \in Frame, NEW f \in Frames(numBufs), ~ d[f].valid,
         NEW n \in Names, NEW p \in PageIds, NEW counts \in [Names -> Int],
         NEW held \in [Names -> Nat], Counted(counts, held, d)
  PROVE  /\ Opened(counts, n, 2) \in [Names -> Int]
         /\ Counted(Opened(counts, n, 2), held, [d EXCEPT ![f] = SetTo(n, p)])
<1> DEFINE d2 == [d EXCEPT ![f] = SetTo(n, p)]
           c2 == Opened(counts, n, 2)
<1>1. f \in DOMAIN d /\ DOMAIN d2 = DOMAIN d /\ d2[f].file = n
      /\ \A g \in DOMAIN d : g # f => d2[g] = d[g]
  BY DescMade DEF Frame
<1>2. \A m \in Names : d[f].file # m
  <2>1. d[f] \in Descs
    BY DEF Frame
  <2>2. QED
    BY <2>1, DescIs
<1> HIDE DEF d2
<1>3. On(d2, n) = On(d, n) \cup {f} /\ f \notin On(d, n)
  BY <1>1, <1>2 DEF On
<1>4. \A m \in Names : m # n => On(d2, m) = On(d, m)
  BY <1>1, <1>2 DEF On
<1>5. Cardinality(On(d2, n)) = Cardinality(On(d, n)) + 1
  BY <1>3, OnFinite, FS_AddElement
<1>6. c2 \in [Names -> Int] /\ c2[n] = counts[n] + 2
      /\ \A m \in Names : m # n => c2[m] = counts[m]
  BY DEF Opened
<1> HIDE DEF c2
<1>7. c2[n] = held[n] + 2 * Cardinality(On(d2, n))
  <2>1. counts[n] = held[n] + 2 * Cardinality(On(d, n)) /\ held[n] \in Nat
    BY DEF Counted
  <2>2. Cardinality(On(d, n)) \in Nat
    BY OnFinite
  <2>3. QED
    BY <1>5, <1>6, <2>1, <2>2
<1>8. \A m \in Names : m # n => c2[m] = held[m] + 2 * Cardinality(On(d2, m))
  BY <1>4, <1>6 DEF Counted
<1>9. Counted(c2, held, d2)
  BY <1>7, <1>8 DEF Counted
<1>10. QED
  BY <1>6, <1>9 DEF c2, d2
-----------------------------------------------------------------------------
(***************************************************************************)
(* What the calls do to the files.                                         *)
(***************************************************************************)
\* The file e2 has the pages and the free list of e, and perhaps other data.
SameUse(e, e2) ==
  /\ e2.exists = e.exists /\ e2.num_pages = e.num_pages /\ e2.free = e.free
  /\ \A p \in PageIds : (e2.page[p] = Free) <=> (e.page[p] = Free)

\* Then the same pages are in use, and the next page given out is the same.
LEMMA SameUseIs ==
  ASSUME NEW e \in Files, NEW e2 \in Files, SameUse(e, e2)
  PROVE  /\ \A p : HasPage(e2, p) <=> HasPage(e, p)
         /\ NextPage(e2) = NextPage(e)
         /\ FreeSound(e) => FreeSound(e2)
<1>1. \A p : HasPage(e2, p) <=> HasPage(e, p)
  BY DEF HasPage, SameUse
<1>2. NextPage(e2) = NextPage(e)
  BY DEF NextPage, SameUse
<1>3. ASSUME FreeSound(e) PROVE FreeSound(e2)
  <2>1. \A i \in DOMAIN e.free : e.free[i] \in PageIds
    BY DEF Files
  <2>2. \A i \in DOMAIN e2.free : e2.page[e2.free[i]] = Free /\ e2.free[i] < e2.num_pages
    BY <1>3, <2>1 DEF FreeSound, SameUse
  <2>3. QED
    BY <1>3, <2>2 DEF FreeSound, SameUse
<1>4. QED
  BY <1>1, <1>2, <1>3

\* Pages in use are written.
LEMMA PagesWritten ==
  ASSUME NEW e \in Files, NEW pg \in [PageIds -> Data \cup {Free}],
         \A p \in PageIds : (pg[p] = Free) <=> (e.page[p] = Free)
  PROVE  [e EXCEPT !.page = pg] \in Files /\ SameUse(e, [e EXCEPT !.page = pg])
<1>1. /\ [e EXCEPT !.page = pg].exists = e.exists
      /\ [e EXCEPT !.page = pg].num_pages = e.num_pages
      /\ [e EXCEPT !.page = pg].free = e.free
      /\ [e EXCEPT !.page = pg].page = pg
  BY DEF Files
<1>2. [e EXCEPT !.page = pg] \in Files
  BY DEF Files
<1>3. QED
  BY <1>1, <1>2 DEF SameUse

\* What allocatePage does: the page it gives was not in use, and is.
LEMMA WithPageIs ==
  ASSUME NEW e \in Files, e.exists, FreeSound(e), NextPage(e) <= MaxPages
  PROVE  /\ NextPage(e) \in PageIds /\ ~ HasPage(e, NextPage(e))
         /\ WithPage(e) \in Files /\ WithPage(e).exists /\ FreeSound(WithPage(e))
         /\ HasPage(WithPage(e), NextPage(e))
         /\ \A q : HasPage(e, q) => HasPage(WithPage(e), q)
<1> DEFINE p == NextPage(e)
           w == WithPage(e)
<1>1. /\ e.num_pages \in Nat \ {0} /\ e.free \in Seq(PageIds)
      /\ e.page \in [PageIds -> Data \cup {Free}] /\ e.exists \in BOOLEAN
  BY DEF Files, FreeSound
<1>2. CASE e.free # <<>>
  <2> DEFINE rest == Tail(e.free)
             n == Len(e.free)
  <2>1. /\ n \in Nat \ {0} /\ DOMAIN e.free = 1 .. n
        /\ p = e.free[1] /\ 1 \in DOMAIN e.free
        /\ rest \in Seq(PageIds) /\ DOMAIN rest = 1 .. n - 1
        /\ \A i \in 1 .. n - 1 : rest[i] = e.free[i + 1]
    BY <1>1, <1>2 DEF NextPage
  <2>2. /\ \A i \in DOMAIN rest : i + 1 \in DOMAIN e.free /\ i + 1 # 1
                                    /\ rest[i] = e.free[i + 1]
        /\ \A i, j \in DOMAIN rest : i + 1 = j + 1 => i = j
    BY <2>1
  <2>3. p \in PageIds /\ e.page[p] = Free /\ p < e.num_pages
    BY <1>1, <2>1 DEF FreeSound
  <2>4. p # e.num_pages
    BY <1>1, <2>3 DEF PageIds
  <2>5. /\ w.exists = e.exists /\ w.num_pages = e.num_pages /\ w.free = rest
        /\ w.page = [e.page EXCEPT ![p] = Empty]
    BY <1>2, <2>4 DEF WithPage, Files
  <2>6. w \in Files
    <3>1. w = [e EXCEPT !.page = [e.page EXCEPT ![p] = Empty], !.free = rest,
                        !.num_pages = e.num_pages]
      BY <1>2, <2>4 DEF WithPage, Files
    <3>2. [e.page EXCEPT ![p] = Empty] \in [PageIds -> Data \cup {Free}]
      BY <1>1 DEF Data
    <3> HIDE DEF w, p, rest
    <3>3. QED
      BY <1>1, <2>1, <3>1, <3>2 DEF Files
  <2> HIDE DEF w, rest, p
  <2>7. w.page[p] = Empty /\ \A q \in PageIds : q # p => w.page[q] = e.page[q]
    BY <1>1, <2>3, <2>5
  <2>8. \A i \in DOMAIN w.free : w.page[w.free[i]] = Free /\ w.free[i] < w.num_pages
    <3> SUFFICES ASSUME NEW i \in DOMAIN rest
                 PROVE  w.page[rest[i]] = Free /\ rest[i] < e.num_pages
      BY <2>5
    <3>1. rest[i] # p
      BY <2>1, <2>2 DEF FreeSound
    <3>2. rest[i] \in PageIds
      BY <1>1, <2>2
    <3>3. e.page[rest[i]] = Free /\ rest[i] < e.num_pages
      BY <2>2 DEF FreeSound
    <3>4. QED
      BY <2>7, <3>1, <3>2, <3>3
  <2>9. \A i, j \in DOMAIN w.free : w.free[i] = w.free[j] => i = j
    BY <2>2, <2>5 DEF FreeSound
  <2>10. FreeSound(w)
    BY <1>1, <2>5, <2>8, <2>9 DEF FreeSound
  <2>11. ~ HasPage(e, p) /\ HasPage(w, p)
    BY <2>3, <2>5, <2>7, FilesAssumption DEF HasPage
  <2>12. \A q : HasPage(e, q) => HasPage(w, q)
    BY <2>3, <2>5, <2>7 DEF HasPage
  <2>13. QED
    BY <2>3, <2>5, <2>6, <2>10, <2>11, <2>12 DEF w, p
<1>3. CASE e.free = <<>>
  <2>1. p = e.num_pages
    BY <1>3 DEF NextPage
  <2>2. p \in PageIds /\ ~ HasPage(e, p)
    BY <1>1, <2>1 DEF PageIds, HasPage
  <2>3. /\ w.exists = e.exists /\ w.num_pages = p + 1 /\ w.free = <<>>
        /\ w.page = [e.page EXCEPT ![p] = Empty]
    BY <1>3, <2>1 DEF WithPage, Files
  <2>4. w \in Files
    <3>1. w = [e EXCEPT !.page = [e.page EXCEPT ![p] = Empty], !.free = <<>>,
                        !.num_pages = p + 1]
      BY <1>3, <2>1 DEF WithPage, Files
    <3>2. [e.page EXCEPT ![p] = Empty] \in [PageIds -> Data \cup {Free}]
      BY <1>1 DEF Data
    <3>3. p + 1 \in Nat /\ <<>> \in Seq(PageIds)
      BY <1>1, <2>1
    <3> HIDE DEF w, p
    <3>4. QED
      BY <1>1, <3>1, <3>2, <3>3 DEF Files
  <2> HIDE DEF w, p
  <2>5. w.page[p] = Empty /\ \A q \in PageIds : q # p => w.page[q] = e.page[q]
    BY <1>1, <2>2, <2>3
  <2>6. FreeSound(w)
    BY <1>1, <2>1, <2>3 DEF FreeSound
  <2>7. HasPage(w, p)
    BY <1>1, <2>1, <2>2, <2>3, <2>5, FilesAssumption DEF HasPage
  <2>8. \A q : HasPage(e, q) => HasPage(w, q)
    <3> SUFFICES ASSUME NEW q, HasPage(e, q) PROVE HasPage(w, q)
      OBVIOUS
    <3>1. q \in PageIds /\ q < e.num_pages /\ e.page[q] # Free /\ q \in Nat
      BY DEF HasPage, PageIds
    <3>2. q # p
      BY <1>1, <2>1, <3>1
    <3>3. q < p + 1
      BY <1>1, <2>1, <3>1
    <3>4. QED
      BY <2>3, <2>5, <3>1, <3>2, <3>3 DEF HasPage
  <2>9. QED
    BY <2>2, <2>3, <2>4, <2>6, <2>7, <2>8 DEF w, p
<1>4. QED
  BY <1>2, <1>3

\* What deletePage does.
LEMMA WithoutPageIs ==
  ASSUME NEW e \in Files, FreeSound(e), NEW p, HasPage(e, p)
  PROVE  /\ WithoutPage(e, p) \in Files /\ FreeSound(WithoutPage(e, p))
         /\ WithoutPage(e, p).exists = e.exists
         /\ \A q : q # p /\ HasPage(e, q) => HasPage(WithoutPage(e, p), q)
<1> DEFINE w == WithoutPage(e, p)
           free == <<p>> \o e.free
           n == Len(e.free)
<1>1. /\ e.num_pages \in Nat /\ e.free \in Seq(PageIds)
      /\ e.page \in [PageIds -> Data \cup {Free}]
  BY DEF Files
<1>2. p \in PageIds /\ p < e.num_pages /\ e.page[p] # Free
  BY DEF HasPage
<1>3. /\ n \in Nat /\ DOMAIN e.free = 1 .. n
      /\ free \in Seq(PageIds) /\ DOMAIN free = 1 .. n + 1 /\ free[1] = p
      /\ \A i \in 1 .. n : free[i + 1] = e.free[i]
  BY <1>1, <1>2
<1> HIDE DEF free
<1>4. \A i \in DOMAIN free :
        (i = 1 /\ free[i] = p) \/ (i - 1 \in DOMAIN e.free /\ free[i] = e.free[i - 1])
  <2> SUFFICES ASSUME NEW i \in DOMAIN free, i # 1
               PROVE  i - 1 \in DOMAIN e.free /\ free[i] = e.free[i - 1]
    BY <1>3
  <2>1. i - 1 \in 1 .. n /\ i - 1 + 1 = i
    BY <1>3
  <2>2. QED
    BY <1>3, <2>1
<1>5. \A i, j \in DOMAIN free : i - 1 = j - 1 => i = j
  BY <1>3
<1>6. /\ w.exists = e.exists /\ w.num_pages = e.num_pages /\ w.free = free
      /\ w.page = [e.page EXCEPT ![p] = Free]
  BY DEF WithoutPage, Files, free
<1>7. w \in Files
  <2>1. w = [e EXCEPT !.page = [e.page EXCEPT ![p] = Free], !.free = free]
    BY DEF WithoutPage, Files, free
  <2>2. [e.page EXCEPT ![p] = Free] \in [PageIds -> Data \cup {Free}]
    BY <1>1
  <2> HIDE DEF w
  <2>3. QED
    BY <1>1, <1>3, <2>1, <2>2 DEF Files
<1> HIDE DEF w
<1>8. w.page[p] = Free /\ \A q \in PageIds : q # p => w.page[q] = e.page[q]
  BY <1>1, <1>2, <1>6
<1>9. \A i \in DOMAIN e.free : e.free[i] # p /\ e.free[i] \in PageIds
  BY <1>1, <1>2 DEF FreeSound
<1>10. \A i \in DOMAIN free : w.page[free[i]] = Free /\ free[i] < w.num_pages
  BY <1>2, <1>4, <1>6, <1>8, <1>9 DEF FreeSound
<1>11. \A i, j \in DOMAIN free : free[i] = free[j] => i = j
  BY <1>4, <1>5, <1>9 DEF FreeSound
<1>12. e.exists => e.num_pages > 0
  BY DEF FreeSound
<1>13. FreeSound(w)
  BY <1>6, <1>10, <1>11, <1>12 DEF FreeSound
<1>14. \A q : q # p /\ HasPage(e, q) => HasPage(w, q)
  BY <1>6, <1>8 DEF HasPage
<1>15. QED
  BY <1>6, <1>7, <1>13, <1>14 DEF w
-----------------------------------------------------------------------------
(***************************************************************************)
(* The parts of the calls.                                                 *)
(***************************************************************************)
\* Files that have what the pool needs of them.
LEMMA FilesKept ==
  ASSUME NEW t, NEW d \in Frame, NEW b, NEW files, NEW files2 \in [Names -> Files],
         NEW counts, NEW held, Sound(t, d, b, files, counts, held),
         \A n \in Names : FreeSound(files2[n]) /\ (counts[n] # 0 => files2[n].exists),
         \A f \in Frames(numBufs) : d[f].valid => HasPage(files2[d[f].file], d[f].pageNo)
  PROVE  Sound(t, d, b, files2, counts, held)
<1>1. PoolOnDisk(d, b, files2)
  BY DEF PoolOnDisk, Sound, Frame
<1>2. QED
  BY <1>1 DEF Sound

\* The same, when only data of pages in use is new.
LEMMA DataKept ==
  ASSUME NEW t, NEW d \in Frame, NEW b, NEW files \in [Names -> Files],
         NEW files2 \in [Names -> Files],
         NEW counts, NEW held, Sound(t, d, b, files, counts, held),
         \A n \in Names : SameUse(files[n], files2[n])
  PROVE  Sound(t, d, b, files2, counts, held)
<1>1. \A n \in Names : /\ \A p : HasPage(files2[n], p) <=> HasPage(files[n], p)
                       /\ FreeSound(files[n]) => FreeSound(files2[n])
                       /\ files2[n].exists = files[n].exists
  BY SameUseIs DEF SameUse
<1>2. \A n \in Names : FreeSound(files2[n]) /\ (counts[n] # 0 => files2[n].exists)
  BY <1>1 DEF Sound
<1>3. ASSUME NEW f \in Frames(numBufs), d[f].valid
      PROVE  HasPage(files2[d[f].file], d[f].pageNo)
  <2>1. d[f] \in Descs /\ f \in DOMAIN d
    BY DEF Frame
  <2>2. d[f].file \in Names
    BY <1>3, <2>1, DescIs
  <2>3. HasPage(files[d[f].file], d[f].pageNo)
    BY <1>3, <2>1 DEF Sound, PoolOnDisk
  <2>4. QED
    BY <1>1, <2>2, <2>3
<1>4. QED
  BY <1>2, <1>3, FilesKept

\* Frames are cleared: their buckets go and their objects are closed.
LEMMA SoundSwept ==
  ASSUME numBufs \in Nat \ {0}, NEW t, NEW d, NEW b, NEW files, NEW counts, NEW held,
         Sound(t, d, b, files, counts, held),
         NEW n \in Names, NEW out \in SUBSET On(d, n), NEW t2 \in Table,
         TableIs(t2, Swept(d, out)), NEW k, k = Cardinality(out)
  PROVE  Sound(t2, Swept(d, out), b, files, Closed(counts, n, 2 * k), held)
<1> DEFINE d2 == Swept(d, out)
           c2 == Closed(counts, n, 2 * k)
<1>1. /\ t \in Table /\ d \in Frame /\ b \in Pool /\ files \in [Names -> Files]
      /\ counts \in [Names -> Int] /\ held \in [Names -> Nat]
      /\ PoolOnDisk(d, b, files) /\ Counted(counts, held, d)
      /\ \A m \in Names : FreeSound(files[m])
      /\ \A m \in Names : counts[m] # 0 => files[m].exists
  BY DEF Sound
<1>2. c2 \in [Names -> Int] /\ Counted(c2, held, d2)
  BY <1>1, CountedSwept
<1>3. d2 \in Frame
  BY <1>1, SweptIs
<1>4. PoolOnDisk(d2, b, files)
  <2>1. DOMAIN d2 = Frames(numBufs) /\ DOMAIN d = Frames(numBufs)
    BY <1>1, <1>3 DEF Frame
  <2>2. \A f \in Frames(numBufs) : d2[f].valid => d2[f] = d[f]
    BY <1>1, SweptIs
  <2> HIDE DEF d2
  <2>3. QED
    BY <1>1, <2>1, <2>2 DEF PoolOnDisk
<1>5. \A m \in Names : c2[m] # 0 => files[m].exists
  <2> SUFFICES ASSUME NEW m \in Names, c2[m] # 0 PROVE files[m].exists
    OBVIOUS
  <2>1. CASE m # n \/ k = 0
    <3>1. c2[m] = counts[m]
      BY <1>1, <2>1 DEF Closed
    <3>2. QED
      BY <1>1, <3>1
  <2>2. CASE m = n /\ k # 0
    <3>1. IsFiniteSet(On(d, n)) /\ Cardinality(On(d, n)) \in Nat
      BY <1>1, OnFinite
    <3>2. k \in Nat /\ k <= Cardinality(On(d, n))
      BY <3>1, FS_Subset, FS_CardinalityType
    <3>3. counts[n] = held[n] + 2 * Cardinality(On(d, n)) /\ held[n] \in Nat
      BY <1>1 DEF Counted
    <3>4. counts[n] # 0
      BY <2>2, <3>1, <3>2, <3>3
    <3>5. QED
      BY <1>1, <2>2, <3>4
  <2>3. QED
    BY <2>1, <2>2
<1> HIDE DEF d2, c2
<1>6. TableIs(t2, d2)
  BY DEF d2
<1>7. Sound(t2, d2, b, files, c2, held)
  BY <1>1, <1>2, <1>3, <1>4, <1>5, <1>6 DEF Sound
<1>8. QED
  BY <1>7 DEF d2, c2

\* A free frame is given a page that no frame has.
LEMMA SoundFilled ==
  ASSUME numBufs \in Nat \ {0}, NEW t, NEW d, NEW b, NEW files, NEW counts, NEW held,
         Sound(t, d, b, files, counts, held),
         NEW f \in Frames(numBufs), ~ d[f].valid, NEW n \in Names, NEW p \in PageIds,
         NEW data \in Data, \A g \in Frames(numBufs) : ~ Has(d, g, n, p),
         HasPage(files[n], p), files[n].exists
  PROVE  Sound(Inserted(t, n, p, f), [d EXCEPT ![f] = SetTo(n, p)],
               [b EXCEPT ![f] = [page_number |-> p, data |-> data]],
               files, Opened(counts, n, 2), held)
<1> DEFINE t2 == Inserted(t, n, p, f)
           d2 == [d EXCEPT ![f] = SetTo(n, p)]
           b2 == [b EXCEPT ![f] = [page_number |-> p, data |-> data]]
           c2 == Opened(counts, n, 2)
<1>1. /\ t \in Table /\ d \in Frame /\ b \in Pool /\ files \in [Names -> Files]
      /\ counts \in [Names -> Int] /\ held \in [Names -> Nat]
      /\ TableIs(t, d) /\ PoolOnDisk(d, b, files) /\ Counted(counts, held, d)
      /\ \A m \in Names : FreeSound(files[m])
      /\ \A m \in Names : counts[m] # 0 => files[m].exists
  BY DEF Sound
<1>2. t2 \in Table /\ d2 \in Frame /\ TableIs(t2, d2)
  BY <1>1, InsertedIs
<1>3. c2 \in [Names -> Int] /\ Counted(c2, held, d2)
  BY <1>1, CountedSet
<1>4. b2 \in Pool
  <2>1. p \in 0 .. MaxPages
    BY FilesAssumption DEF PageIds
  <2>2. [page_number |-> p, data |-> data] \in [page_number : 0 .. MaxPages, data : Data]
    BY <2>1
  <2>3. QED
    BY <1>1, <2>2 DEF Pool
<1>5. PoolOnDisk(d2, b2, files)
  <2>1. DOMAIN d2 = DOMAIN d /\ DOMAIN b2 = DOMAIN d /\ f \in DOMAIN d /\ DOMAIN b = DOMAIN d
    BY <1>1 DEF Frame, Pool
  <2>2. d2[f] = SetTo(n, p) /\ b2[f].page_number = p
    BY <2>1
  <2>3. d2[f].file = n /\ d2[f].pageNo = p
    BY <2>2, DescMade
  <2>4. \A g \in DOMAIN d : g # f => d2[g] = d[g] /\ b2[g] = b[g]
    BY <2>1
  <2> HIDE DEF d2, b2
  <2>5. QED
    BY <1>1, <2>1, <2>2, <2>3, <2>4 DEF PoolOnDisk
<1>6. \A m \in Names : c2[m] # 0 => files[m].exists
  BY <1>1 DEF Opened
<1> HIDE DEF t2, d2, b2, c2
<1>7. Sound(t2, d2, b2, files, c2, held)
  BY <1>1, <1>2, <1>3, <1>4, <1>5, <1>6 DEF Sound
<1>8. QED
  BY <1>7 DEF t2, d2, b2, c2

\* Pins and bits do not matter.
LEMMA SoundBits ==
  ASSUME NEW t, NEW d, NEW b, NEW files, NEW counts, NEW held,
         Sound(t, d, b, files, counts, held), NEW d2 \in Frame,
         \A f \in Frames(numBufs) : /\ d2[f].valid = d[f].valid
                                    /\ d2[f].file = d[f].file
                                    /\ d2[f].pageNo = d[f].pageNo
  PROVE  Sound(t, d2, b, files, counts, held)
<1>1. d \in Frame /\ TableIs(t, d) /\ PoolOnDisk(d, b, files) /\ Counted(counts, held, d)
  BY DEF Sound
<1>2. DOMAIN d = Frames(numBufs) /\ DOMAIN d2 = Frames(numBufs)
  BY <1>1 DEF Frame
<1>3. TableIs(t, d2)
  BY <1>1, <1>2, TableSame
<1>4. PoolOnDisk(d2, b, files)
  BY <1>1, <1>2 DEF PoolOnDisk
<1>5. Counted(counts, held, d2)
  <2>1. \A n : On(d2, n) = On(d, n)
    BY <1>2 DEF On
  <2>2. QED
    BY <1>1, <2>1 DEF Counted
<1>6. QED
  BY <1>3, <1>4, <1>5 DEF Sound

\* What holds of the new values with the same number of frames holds next.
LEMMA SoundNext ==
  ASSUME PoolInv, numBufs' = numBufs,
         Sound(ht', bufDescTable', bufPool', disk', open_counts_', handles')
  PROVE  PoolInv'
<1>1. Table' = Table /\ Frame' = Frame /\ Pool' = Pool
  BY DEF Table, Frame, Pool
<1>2. TableIs(ht', bufDescTable') <=> TableIs(ht, bufDescTable)'
  BY DEF TableIs, hash
<1>3. QED
  BY <1>1, <1>2 DEF PoolInv, Sound, PoolOnDisk, Counted

\* The frame at the hand is vacated: its page is written if it is dirty.
LEMMA Vacated ==
  ASSUME PoolInv, NEW f \in Frames(numBufs)
  PROVE  /\ Sound(TableWithout(f), Swept(bufDescTable, {f}), bufPool, DiskWithout(f),
                  CountsWithout(f), handles)
         /\ \A n \in Names : SameUse(disk[n], DiskWithout(f)[n])
<1> DEFINE d == bufDescTable
           d2 == Swept(d, {f})
           n == d[f].file
           p == d[f].pageNo
<1>1. /\ numBufs \in Nat \ {0}
      /\ Sound(ht, d, bufPool, disk, open_counts_, handles)
  BY DEF PoolInv
<1>2. /\ ht \in Table /\ d \in Frame /\ bufPool \in Pool /\ disk \in [Names -> Files]
      /\ TableIs(ht, d) /\ PoolOnDisk(d, bufPool, disk) /\ d[f] \in Descs
  BY <1>1 DEF Sound, Frame
<1>3. CASE d[f].valid
  <2>1. n \in Names /\ p \in PageIds
    BY <1>2, <1>3, DescIs
  <2>2. TableWithout(f) = Removed(ht, n, p)
    BY <1>3 DEF TableWithout
  <2>3. TableWithout(f) \in Table /\ TableIs(TableWithout(f), d2)
    BY <1>1, <1>2, <1>3, <2>2, RemovedIs
  <2>4. {f} \in SUBSET On(d, n) /\ 1 = Cardinality({f})
    BY <1>2, FS_Singleton DEF On, Frame
  <2>5. CountsWithout(f) = Closed(open_counts_, n, 2 * 1)
    BY <1>3 DEF CountsWithout
  <2>6. Sound(TableWithout(f), d2, bufPool, disk, CountsWithout(f), handles)
    <3> DEFINE t2 == TableWithout(f)
    <3>1. t2 \in Table /\ TableIs(t2, Swept(d, {f}))
      BY <2>3
    <3> HIDE DEF t2, d2, d, n
    <3>2. Sound(t2, Swept(d, {f}), bufPool, disk, Closed(open_counts_, n, 2 * 1), handles)
      BY <1>1, <2>1, <2>4, <3>1, SoundSwept
    <3>3. QED
      BY <2>5, <3>2 DEF t2, d2
  <2>7. /\ DiskWithout(f) \in [Names -> Files]
        /\ \A m \in Names : SameUse(disk[m], DiskWithout(f)[m])
    <3> DEFINE pg == [disk[n].page EXCEPT ![p] = bufPool[f].data]
    <3>1. HasPage(disk[n], p) /\ disk[n] \in Files /\ bufPool[f].data \in Data
      BY <1>2, <1>3, <2>1 DEF PoolOnDisk, Pool, Frame
    <3>2. disk[n].page \in [PageIds -> Data \cup {Free}] /\ disk[n].page[p] # Free
      BY <3>1 DEF HasPage, Files
    <3>3. bufPool[f].data # Free
      BY <3>1, FilesAssumption DEF Data
    <3>4. /\ pg \in [PageIds -> Data \cup {Free}]
          /\ \A q \in PageIds : (pg[q] = Free) <=> (disk[n].page[q] = Free)
      BY <3>1, <3>2, <3>3
    <3> DEFINE e == [disk[n] EXCEPT !.page = pg]
    <3>5. e \in Files /\ SameUse(disk[n], e)
      <4> HIDE DEF pg, n
      <4>1. QED
        BY <3>1, <3>4, PagesWritten
    <3>6. \A m \in Names : SameUse(disk[m], disk[m])
      BY DEF SameUse
    <3>7. CASE d[f].dirty
      <4>1. DiskWithout(f) = [disk EXCEPT ![n] = e]
        BY <1>2, <1>3, <2>1, <3>7 DEF DiskWithout, Flushed
      <4> HIDE DEF e, n
      <4>2. QED
        BY <1>2, <2>1, <3>5, <3>6, <4>1
    <3>8. CASE ~ d[f].dirty
      BY <1>2, <1>3, <3>6, <3>8 DEF DiskWithout, Flushed
    <3>9. QED
      BY <3>7, <3>8
  <2>8. QED
    BY <1>1, <1>2, <2>6, <2>7, SweptIs, DataKept
<1>4. CASE ~ d[f].valid
  <2>1. d[f] = Cleared
    BY <1>2, <1>4, DescIs
  <2>2. d2 = d
    <3>1. \A g \in Frames(numBufs) : d2[g] = d[g]
      BY <2>1 DEF Swept
    <3>2. d2 \in Frame
      BY <1>2, SweptIs
    <3> HIDE DEF d2, d
    <3>3. QED
      BY <1>2, <3>1, <3>2 DEF Frame
  <2>3. TableWithout(f) = ht /\ DiskWithout(f) = disk /\ CountsWithout(f) = open_counts_
    BY <1>4 DEF TableWithout, DiskWithout, CountsWithout
  <2>4. \A m \in Names : SameUse(disk[m], disk[m])
    BY DEF SameUse
  <2>5. QED
    BY <1>1, <2>2, <2>3, <2>4
<1>5. QED
  BY <1>3, <1>4
-----------------------------------------------------------------------------
(***************************************************************************)
(* The turns of the clock.                                                 *)
(***************************************************************************)
\* A frame in use with other pins and bits.
LEMMA DescBits ==
  ASSUME NEW e \in Descs, e.valid
  PROVE  /\ [e EXCEPT !.refbit = FALSE] \in Descs
         /\ [e EXCEPT !.refbit = TRUE, !.pinCnt = @ + 1] \in Descs
         /\ \A dirty \in BOOLEAN : e.pinCnt # 0 =>
              [e EXCEPT !.pinCnt = @ - 1, !.dirty = @ \/ dirty] \in Descs
<1>1. e # Cleared
  <2>1. Cleared.valid = FALSE
    BY DEF Cleared
  <2>2. QED
    BY <2>1
<1>2. e \in [file : Names, pageNo : PageIds, pinCnt : Nat, dirty : BOOLEAN,
             valid : {TRUE}, refbit : BOOLEAN]
  BY <1>1 DEF Descs
<1>3. [e EXCEPT !.refbit = FALSE] \in Descs
  BY <1>2 DEF Descs
<1>4. [e EXCEPT !.refbit = TRUE, !.pinCnt = @ + 1] \in Descs
  <2>1. \A q \in Nat : [e EXCEPT !.refbit = TRUE, !.pinCnt = q] \in Descs
    BY <1>2 DEF Descs
  <2>2. e.pinCnt + 1 \in Nat
    BY <1>2
  <2>3. QED
    BY <2>1, <2>2
<1>5. ASSUME NEW dirty \in BOOLEAN, e.pinCnt # 0
      PROVE  [e EXCEPT !.pinCnt = @ - 1, !.dirty = @ \/ dirty] \in Descs
  <2>1. \A q \in Nat, w \in BOOLEAN : [e EXCEPT !.pinCnt = q, !.dirty = w] \in Descs
    BY <1>2 DEF Descs
  <2>2. e.pinCnt - 1 \in Nat
    BY <1>2, <1>5
  <2>3. (e.dirty \/ dirty) \in BOOLEAN
    OBVIOUS
  <2>4. QED
    BY <2>1, <2>2, <2>3
<1>6. QED
  BY <1>3, <1>4, <1>5

\* The hand stays on a frame.
LEMMA AdvancedIn ==
  ASSUME numBufs \in Nat \ {0}, clockHand \in Frames(numBufs)
  PROVE  Advanced(clockHand) \in Frames(numBufs)
<1>1. clockHand + 1 \in Nat
  BY DEF Frames
<1>2. \A i \in Nat, z \in Nat \ {0} : i % z \in 0 .. z - 1
  OBVIOUS
<1>3. QED
  BY <1>1, <1>2 DEF Advanced, Frames

\* The state of the tests, when a step is not theirs.
LEMMA TestInvKept ==
  ASSUME TestInv, UNCHANGED testVars
  PROVE  TestInv'
BY DEF TestInv, testVars

\* Control, when no call waits any more.
LEMMA Done ==
  ASSUME IInv, PoolInv', TestInv', numBufs' = numBufs, clockHand' = clockHand, call' = NoCall
  PROVE  IInv'
<1>1. clockHand' \in Frames(numBufs') /\ call' \in Calls
  BY DEF IInv, Calls
<1>2. CallSound'
  BY DEF CallSound
<1>3. QED
  BY <1>1, <1>2 DEF IInv

\* A turn of the clock, each way it ends.
LEMMA PassStep ==
  ASSUME IInv, ClockPass, UNCHANGED testVars
  PROVE  IInv'
<1> DEFINE d == bufDescTable
           d2 == bufDescTable'
           h == clockHand
<1>1. /\ numBufs \in Nat \ {0} /\ h \in Frames(numBufs) /\ call \in Calls
      /\ Sound(ht, d, bufPool, disk, open_counts_, handles)
  BY DEF IInv, PoolInv
<1>2. /\ d[h].valid /\ d2 = [d EXCEPT ![h].refbit = FALSE]
      /\ numBufs' = numBufs /\ bufPool' = bufPool /\ ht' = ht /\ disk' = disk
      /\ open_counts_' = open_counts_ /\ handles' = handles /\ call' = call
      /\ clockHand' = Advanced(h)
  BY DEF ClockPass, PassedOver, Hand, fileVars
<1>3. d \in Frame
  BY <1>1 DEF Sound
<1>4. d[h] \in Descs
  BY <1>1, <1>3 DEF Frame
<1> DEFINE e == [d[h] EXCEPT !.refbit = FALSE]
<1>5. /\ e \in Descs /\ e.valid = d[h].valid /\ e.file = d[h].file
      /\ e.pageNo = d[h].pageNo
  BY <1>2, <1>4, DescBits DEF Descs, Cleared
<1>6. d2 = [d EXCEPT ![h] = e]
  BY <1>2
<1> HIDE DEF e
<1>7. d2 \in Frame /\ d2[h] = e /\ \A f \in Frames(numBufs) : f # h => d2[f] = d[f]
  <2> HIDE DEF d, d2, h
  <2>1. QED
    BY <1>1, <1>3, <1>5, <1>6 DEF Frame
<1>8. \A f \in Frames(numBufs) :
        d2[f].valid = d[f].valid /\ d2[f].file = d[f].file /\ d2[f].pageNo = d[f].pageNo
  <2> HIDE DEF d, d2, h
  <2>1. QED
    BY <1>5, <1>7
<1>9. Sound(ht, d2, bufPool, disk, open_counts_, handles)
  <2> HIDE DEF d, d2, h
  <2>1. QED
    BY <1>1, <1>7, <1>8, SoundBits
<1>10. PoolInv'
  BY <1>2, <1>9, SoundNext DEF IInv
<1>11. CallSound'
  <2>1. CallSound
    BY DEF IInv
  <2>2. \A f \in Frames(numBufs) : \A n, p : Has(d2, f, n, p) <=> Has(d, f, n, p)
    BY <1>8 DEF Has
  <2>3. QED
    BY <1>2, <2>1, <2>2 DEF CallSound
<1>12. clockHand' \in Frames(numBufs')
  BY <1>1, <1>2, AdvancedIn
<1>13. TestInv'
  BY TestInvKept DEF IInv
<1>14. QED
  BY <1>1, <1>2, <1>10, <1>11, <1>12, <1>13 DEF IInv

LEMMA ExceededStep ==
  ASSUME IInv, ClockExceeded, UNCHANGED testVars
  PROVE  IInv'
<1>1. /\ numBufs' = numBufs /\ clockHand' = clockHand /\ call' = NoCall
      /\ ht' = ht /\ bufDescTable' = bufDescTable /\ bufPool' = bufPool
      /\ disk' = disk /\ open_counts_' = open_counts_ /\ handles' = handles
  BY DEF ClockExceeded, CallEnds, poolVars, fileVars
<1>2. PoolInv'
  BY <1>1, SoundNext DEF IInv, PoolInv
<1>3. TestInv'
  BY TestInvKept DEF IInv
<1>4. QED
  BY <1>1, <1>2, <1>3, Done

\* A file that the program has an object on exists.
LEMMA HeldExists ==
  ASSUME numBufs \in Nat \ {0}, NEW t, NEW d, NEW b, NEW files, NEW counts, NEW held,
         Sound(t, d, b, files, counts, held), NEW n \in Names
  PROVE  /\ held[n] > 0 => files[n].exists
         /\ counts[n] = 0 => held[n] = 0 /\ On(d, n) = {}
<1>1. d \in Frame /\ counts[n] = held[n] + 2 * Cardinality(On(d, n)) /\ held[n] \in Nat
  BY DEF Sound, Counted
<1>2. Cardinality(On(d, n)) \in Nat /\ IsFiniteSet(On(d, n))
  BY <1>1, OnFinite
<1>3. held[n] > 0 => counts[n] # 0
  BY <1>1, <1>2
<1>4. counts[n] = 0 => held[n] = 0 /\ Cardinality(On(d, n)) = 0
  BY <1>1, <1>2
<1>5. QED
  BY <1>2, <1>3, <1>4, FS_EmptySet DEF Sound

\* What a call that waits tells.
LEMMA CallIs ==
  ASSUME call \in Calls
  PROVE  /\ call.op = "read" => /\ call # NoCall /\ call.file \in Names
                                /\ call.pageNo \in 0 .. MaxPages
         /\ call.op = "alloc" => call # NoCall /\ call.file \in Names
BY DEF Calls, NoCall

\* The frame at the hand once it is vacated.
LEMMA VacatedFrame ==
  ASSUME PoolInv, NEW f \in Frames(numBufs)
  PROVE  LET d2 == Swept(bufDescTable, {f})
         IN  /\ [bufDescTable EXCEPT ![f] = Cleared] = d2
             /\ \A e : [bufDescTable EXCEPT ![f] = e] = [d2 EXCEPT ![f] = e]
             /\ ~ d2[f].valid
             /\ \A g \in Frames(numBufs) : \A n, p : Has(d2, g, n, p) => Has(bufDescTable, g, n, p)
<1> DEFINE d == bufDescTable
           d2 == Swept(d, {f})
<1>1. d \in Frame /\ DOMAIN d = Frames(numBufs)
  BY DEF PoolInv, Sound, Frame
<1>2. d2 = [g \in Frames(numBufs) |-> IF g = f THEN Cleared ELSE d[g]]
  BY DEF Swept
<1>3. [d EXCEPT ![f] = Cleared] = d2
  BY <1>1, <1>2
<1>4. ASSUME NEW e PROVE [d EXCEPT ![f] = e] = [d2 EXCEPT ![f] = e]
  <2> HIDE DEF d2, d
  <2>1. QED
    BY <1>1, <1>2
<1>5. /\ \A g \in Frames(numBufs) : g \in {f} => ~ d2[g].valid
      /\ \A g \in Frames(numBufs) : g \notin {f} => d2[g] = d[g]
  BY <1>1, SweptIs
<1> HIDE DEF d2, d
<1>6. \A g \in Frames(numBufs) : \A n, p : Has(d2, g, n, p) => Has(d, g, n, p)
  BY <1>5 DEF Has
<1>7. ~ d2[f].valid
  BY <1>5
<1>8. QED
  BY <1>3, <1>4, <1>6, <1>7 DEF d2, d

LEMMA ReadNothingStep ==
  ASSUME IInv, ReadNothing, UNCHANGED testVars
  PROVE  IInv'
<1>1. PoolInv /\ clockHand \in Frames(numBufs)
  BY DEF IInv
<1>2. /\ numBufs' = numBufs /\ clockHand' = clockHand /\ call' = NoCall
      /\ ht' = TableWithout(clockHand) /\ bufPool' = bufPool
      /\ disk' = DiskWithout(clockHand) /\ open_counts_' = CountsWithout(clockHand)
      /\ handles' = handles
      /\ bufDescTable' = [bufDescTable EXCEPT ![clockHand] = Cleared]
  BY DEF ReadNothing, Takes, CallEnds
<1>3. bufDescTable' = Swept(bufDescTable, {clockHand})
  BY <1>1, <1>2, VacatedFrame
<1>4. Sound(TableWithout(clockHand), Swept(bufDescTable, {clockHand}), bufPool,
            DiskWithout(clockHand), CountsWithout(clockHand), handles)
  BY <1>1, Vacated
<1>5. Sound(ht', bufDescTable', bufPool', disk', open_counts_', handles')
  BY <1>2, <1>3, <1>4
<1>6. PoolInv'
  BY <1>1, <1>2, <1>5, SoundNext
<1>7. TestInv'
  BY TestInvKept DEF IInv
<1>8. QED
  BY <1>2, <1>6, <1>7, Done

LEMMA ReadIntoStep ==
  ASSUME IInv, ReadInto, UNCHANGED testVars
  PROVE  IInv'
<1> DEFINE h == clockHand
           n == call.file
           p == call.pageNo
           d2 == Swept(bufDescTable, {h})
           files == DiskWithout(h)
           data == files[n].page[p]
           t == TableWithout(h)
           counts == CountsWithout(h)
<1>1. PoolInv /\ h \in Frames(numBufs) /\ call \in Calls /\ CallSound
  BY DEF IInv
<1>2. /\ numBufs' = numBufs /\ clockHand' = h /\ call' = NoCall /\ call.op = "read"
      /\ ht' = Inserted(t, n, p, h)
      /\ disk' = files /\ open_counts_' = Opened(counts, n, 2)
      /\ handles' = handles /\ HasPage(disk[n], p)
      /\ bufPool' = [bufPool EXCEPT ![h] = [page_number |-> p, data |-> data]]
      /\ bufDescTable' = [bufDescTable EXCEPT ![h] = SetTo(n, p)]
  BY DEF ReadInto, Takes, CallEnds, Filled
<1>3. n \in Names /\ call # NoCall
  BY <1>1, <1>2, CallIs
<1>4. /\ Sound(t, d2, bufPool, files, counts, handles)
      /\ \A m \in Names : SameUse(disk[m], files[m])
  BY <1>1, Vacated
<1>5. disk \in [Names -> Files] /\ files \in [Names -> Files]
  BY <1>1, <1>4 DEF PoolInv, Sound
<1>6. ~ d2[h].valid /\ bufDescTable' = [d2 EXCEPT ![h] = SetTo(n, p)]
      /\ \A g \in Frames(numBufs) : \A m, q : Has(d2, g, m, q) => Has(bufDescTable, g, m, q)
  BY <1>1, <1>2, VacatedFrame
<1>7. \A g \in Frames(numBufs) : ~ Has(d2, g, n, p)
  BY <1>1, <1>2, <1>3, <1>6 DEF CallSound
<1> HIDE DEF files, d2, t, counts, n, p, h
<1>8. HasPage(files[n], p)
  BY <1>2, <1>3, <1>4, <1>5, SameUseIs
<1>9. p \in PageIds
  BY <1>2 DEF HasPage
<1>10. data \in Data
  BY <1>3, <1>5, <1>8, <1>9 DEF HasPage, Files
<1>11. files[n].exists
  <2>1. handles[n] > 0
    BY <1>1, <1>3 DEF CallSound, n
  <2>2. numBufs \in Nat \ {0}
    BY <1>1 DEF PoolInv
  <2>3. QED
    BY <1>3, <1>4, <2>1, <2>2, HeldExists
<1> HIDE DEF data
<1>12. Sound(Inserted(t, n, p, h), [d2 EXCEPT ![h] = SetTo(n, p)],
             [bufPool EXCEPT ![h] = [page_number |-> p, data |-> data]],
             files, Opened(counts, n, 2), handles)
  <2>1. numBufs \in Nat \ {0}
    BY <1>1 DEF PoolInv
  <2>2. QED
    BY <1>1, <1>3, <1>4, <1>6, <1>7, <1>8, <1>9, <1>10, <1>11, <2>1, SoundFilled
<1>13. Sound(ht', bufDescTable', bufPool', disk', open_counts_', handles')
  BY <1>2, <1>6, <1>12
<1>14. PoolInv'
  BY <1>1, <1>2, <1>13, SoundNext
<1>15. TestInv'
  BY TestInvKept DEF IInv
<1>16. clockHand' = clockHand
  BY <1>2 DEF h
<1>17. QED
  BY <1>2, <1>14, <1>15, <1>16, Done

LEMMA AllocIntoStep ==
  ASSUME IInv, AllocInto, UNCHANGED testVars
  PROVE  IInv'
<1> DEFINE h == clockHand
           n == call.file
           p == NextPage(disk[n])
           d2 == Swept(bufDescTable, {h})
           files == DiskWithout(h)
           files2 == [files EXCEPT ![n] = WithPage(files[n])]
           t == TableWithout(h)
           counts == CountsWithout(h)
<1>1. PoolInv /\ h \in Frames(numBufs) /\ call \in Calls /\ CallSound /\ numBufs \in Nat \ {0}
  BY DEF IInv, PoolInv
<1>2. /\ numBufs' = numBufs /\ clockHand' = h /\ call' = NoCall /\ call.op = "alloc"
      /\ ht' = Inserted(t, n, p, h)
      /\ disk' = files2 /\ open_counts_' = Opened(counts, n, 2)
      /\ handles' = handles
      /\ bufPool' = [bufPool EXCEPT ![h] = [page_number |-> p, data |-> Empty]]
      /\ bufDescTable' = [bufDescTable EXCEPT ![h] = SetTo(n, p)]
  BY DEF AllocInto, Takes, CallEnds, Filled
<1>3. n \in Names /\ call # NoCall
  BY <1>1, <1>2, CallIs
<1>4. /\ Sound(t, d2, bufPool, files, counts, handles)
      /\ \A m \in Names : SameUse(disk[m], files[m])
  BY <1>1, Vacated
<1>5. disk \in [Names -> Files] /\ files \in [Names -> Files]
      /\ FreeSound(files[n]) /\ PoolOnDisk(d2, bufPool, files) /\ d2 \in Frame
  BY <1>1, <1>3, <1>4 DEF PoolInv, Sound
<1>6. ~ d2[h].valid /\ bufDescTable' = [d2 EXCEPT ![h] = SetTo(n, p)]
  BY <1>1, <1>2, VacatedFrame
<1>7. p = NextPage(files[n]) /\ NextPage(files[n]) <= MaxPages
  <2>1. NextPage(disk[n]) <= MaxPages
    BY <1>1, <1>2, <1>3 DEF CallSound
  <2>2. NextPage(files[n]) = NextPage(disk[n])
    <3> HIDE DEF files, n
    <3>1. QED
      BY <1>3, <1>4, <1>5, SameUseIs
  <2>3. QED
    BY <2>1, <2>2
<1> HIDE DEF files, d2, t, counts, n, p, h
<1>8. files[n].exists
  <2>1. handles[n] > 0
    BY <1>1, <1>3 DEF CallSound, n
  <2>2. QED
    BY <1>1, <1>3, <1>4, <2>1, HeldExists
<1>9. files[n] \in Files
  BY <1>3, <1>5
<1>10. /\ p \in PageIds /\ ~ HasPage(files[n], p)
       /\ WithPage(files[n]) \in Files /\ WithPage(files[n]).exists
       /\ FreeSound(WithPage(files[n])) /\ HasPage(WithPage(files[n]), p)
       /\ \A q : HasPage(files[n], q) => HasPage(WithPage(files[n]), q)
  BY <1>5, <1>7, <1>8, <1>9, WithPageIs
<1>11. /\ files2 \in [Names -> Files] /\ files2[n] = WithPage(files[n])
       /\ \A m \in Names : m # n => files2[m] = files[m]
  BY <1>3, <1>5, <1>10
<1> HIDE DEF files2
<1>12. \A f \in Frames(numBufs) : d2[f].valid => /\ HasPage(files[d2[f].file], d2[f].pageNo)
                                                /\ d2[f].file \in Names
  BY <1>5, DescIs DEF PoolOnDisk, Frame
<1>13. \A g \in Frames(numBufs) : ~ Has(d2, g, n, p)
  BY <1>10, <1>12 DEF Has
<1>14. Sound(t, d2, bufPool, files2, counts, handles)
  <2>1. \A m \in Names : FreeSound(files2[m]) /\ (counts[m] # 0 => files2[m].exists)
    BY <1>4, <1>10, <1>11 DEF Sound
  <2>2. \A f \in Frames(numBufs) : d2[f].valid => HasPage(files2[d2[f].file], d2[f].pageNo)
    BY <1>10, <1>11, <1>12
  <2>3. QED
    BY <1>4, <1>5, <1>11, <2>1, <2>2, FilesKept
<1>15. Sound(Inserted(t, n, p, h), [d2 EXCEPT ![h] = SetTo(n, p)],
             [bufPool EXCEPT ![h] = [page_number |-> p, data |-> Empty]],
             files2, Opened(counts, n, 2), handles)
  <2>1. Empty \in Data
    BY DEF Data
  <2>2. HasPage(files2[n], p) /\ files2[n].exists
    BY <1>10, <1>11
  <2>3. QED
    BY <1>1, <1>3, <1>6, <1>10, <1>13, <1>14, <2>1, <2>2, SoundFilled
<1>16. Sound(ht', bufDescTable', bufPool', disk', open_counts_', handles')
  BY <1>2, <1>6, <1>15
<1>17. PoolInv'
  BY <1>1, <1>2, <1>16, SoundNext
<1>18. TestInv'
  BY TestInvKept DEF IInv
<1>19. clockHand' = clockHand
  BY <1>2 DEF h
<1>20. QED
  BY <1>2, <1>17, <1>18, <1>19, Done
-----------------------------------------------------------------------------
(***************************************************************************)
(* The calls on pages.                                                     *)
(***************************************************************************)
\* What every call leaves alone that returns or throws at once.
LEMMA Returned ==
  ASSUME NEW o, Returns(o)
  PROVE  /\ call = NoCall /\ call' = NoCall /\ numBufs' = numBufs /\ clockHand' = clockHand
BY DEF Returns, Idle

\* Pins and bits of one frame change, and nothing the invariant reads.
LEMMA BitsStep ==
  ASSUME PoolInv, NEW f \in Frames(numBufs), NEW e \in Descs, numBufs' = numBufs,
         e.valid = bufDescTable[f].valid, e.file = bufDescTable[f].file,
         e.pageNo = bufDescTable[f].pageNo,
         bufDescTable' = [bufDescTable EXCEPT ![f] = e],
         UNCHANGED <<bufPool, ht, fileVars>>
  PROVE  PoolInv'
<1> DEFINE d == bufDescTable
           d2 == bufDescTable'
<1>1. /\ d \in Frame /\ Sound(ht, d, bufPool, disk, open_counts_, handles)
  BY DEF PoolInv, Sound
<1>2. /\ bufPool' = bufPool /\ ht' = ht /\ disk' = disk
      /\ open_counts_' = open_counts_ /\ handles' = handles
  BY DEF fileVars
<1>3. d2 \in Frame
  BY <1>1 DEF Frame
<1>4. \A g \in Frames(numBufs) :
        d2[g].valid = d[g].valid /\ d2[g].file = d[g].file /\ d2[g].pageNo = d[g].pageNo
  BY <1>1 DEF Frame
<1>5. Sound(ht, d2, bufPool, disk, open_counts_, handles)
  <2> HIDE DEF d, d2
  <2>1. QED
    BY <1>1, <1>3, <1>4, SoundBits
<1>6. QED
  BY <1>2, <1>5, SoundNext

\* The frame of a page that is in the pool.
LEMMA FoundIs ==
  ASSUME PoolInv, NEW n \in Names, NEW p \in 0 .. MaxPages
  PROVE  /\ Found(n, p) => /\ lookup(n, p) \in Frames(numBufs)
                           /\ Has(bufDescTable, lookup(n, p), n, p)
                           /\ bufDescTable[lookup(n, p)] \in Descs
         /\ ~ Found(n, p) => \A f \in Frames(numBufs) : ~ Has(bufDescTable, f, n, p)
<1>1. /\ numBufs \in Nat \ {0} /\ ht \in Table /\ bufDescTable \in Frame
      /\ TableIs(ht, bufDescTable)
  BY DEF PoolInv, Sound
<1>2. /\ Found(n, p) => /\ lookup(n, p) \in Frames(numBufs)
                        /\ Has(bufDescTable, lookup(n, p), n, p)
      /\ \A f \in Frames(numBufs) : Has(bufDescTable, f, n, p) => Found(n, p)
  BY <1>1, LookupIs
<1>3. QED
  BY <1>1, <1>2 DEF Frame

\* The clock is started for a call.
LEMMA AllocBufStep ==
  ASSUME IInv, TestInv', NEW c \in Calls, AllocBuf(c), c # NoCall,
         c.file \in Names, handles[c.file] > 0,
         c.op = "read" => \A f \in Frames(numBufs) : ~ Has(bufDescTable, f, c.file, c.pageNo),
         c.op = "alloc" => NextPage(disk[c.file]) <= MaxPages
  PROVE  IInv'
<1>1. /\ PoolInv /\ clockHand \in Frames(numBufs) /\ numBufs \in Nat \ {0}
      /\ Sound(ht, bufDescTable, bufPool, disk, open_counts_, handles)
  BY DEF IInv, PoolInv
<1>2. /\ call' = c /\ clockHand' = Advanced(clockHand) /\ numBufs' = numBufs
      /\ bufDescTable' = bufDescTable /\ bufPool' = bufPool /\ ht' = ht /\ disk' = disk
      /\ open_counts_' = open_counts_ /\ handles' = handles
  BY DEF AllocBuf, fileVars
<1>3. PoolInv'
  BY <1>1, <1>2, SoundNext
<1>4. clockHand' \in Frames(numBufs')
  BY <1>1, <1>2, AdvancedIn
<1>5. CallSound'
  BY <1>2 DEF CallSound, Has
<1>6. QED
  BY <1>2, <1>3, <1>4, <1>5 DEF IInv

\* Each call, whoever makes it.
LEMMA ReadPageStep ==
  ASSUME IInv, TestInv', NEW n \in Names, NEW p \in 0 .. MaxPages, ReadPage(n, p)
  PROVE  IInv'
<1>1. PoolInv
  BY DEF IInv
<1>2. CASE Found(n, p)
  <2> DEFINE l == lookup(n, p)
             e == [bufDescTable[l] EXCEPT !.refbit = TRUE, !.pinCnt = @ + 1]
  <2>1. /\ bufDescTable' = [bufDescTable EXCEPT ![l].refbit = TRUE, ![l].pinCnt = @ + 1]
        /\ Returns("ok") /\ UNCHANGED <<bufPool, ht, fileVars>>
    BY <1>2 DEF ReadPage
  <2>2. l \in Frames(numBufs) /\ bufDescTable[l].valid /\ bufDescTable[l] \in Descs
    BY <1>1, <1>2, FoundIs DEF Has
  <2>3. bufDescTable \in Frame
    BY <1>1 DEF PoolInv, Sound
  <2> HIDE DEF l
  <2>4. /\ e \in Descs /\ e.valid = bufDescTable[l].valid
        /\ e.file = bufDescTable[l].file /\ e.pageNo = bufDescTable[l].pageNo
    BY <2>2, DescBits DEF Descs, Cleared
  <2>5. bufDescTable' = [bufDescTable EXCEPT ![l] = e]
    BY <2>1, <2>2, <2>3 DEF Frame
  <2> HIDE DEF e
  <2>6. PoolInv'
    BY <1>1, <2>1, <2>2, <2>4, <2>5, Returned, BitsStep
  <2>7. QED
    BY <2>1, <2>6, Returned, Done
<1>3. CASE ~ Found(n, p)
  <2> DEFINE c == [op |-> "read", file |-> n, pageNo |-> p]
  <2>1. AllocBuf(c) /\ handles[n] > 0
    BY <1>3 DEF ReadPage
  <2>2. c \in Calls /\ c # NoCall /\ c.file = n /\ c.pageNo = p /\ c.op = "read"
    BY DEF Calls, NoCall
  <2>3. \A f \in Frames(numBufs) : ~ Has(bufDescTable, f, n, p)
    BY <1>1, <1>3, FoundIs
  <2> HIDE DEF c
  <2>4. c.op # "alloc"
    BY <2>2
  <2>5. QED
    BY <2>1, <2>2, <2>3, <2>4, AllocBufStep
<1>4. QED
  BY <1>2, <1>3

LEMMA AllocPageStep ==
  ASSUME IInv, TestInv', NEW n \in Names, AllocPage(n)
  PROVE  IInv'
<1> DEFINE c == [op |-> "alloc", file |-> n]
<1>1. AllocBuf(c) /\ handles[n] > 0 /\ NextPage(disk[n]) <= MaxPages
  BY DEF AllocPage
<1>2. c \in Calls /\ c # NoCall /\ c.file = n /\ c.op = "alloc"
  BY DEF Calls, NoCall
<1> HIDE DEF c
<1>3. c.op # "read"
  BY <1>2
<1>4. QED
  BY <1>1, <1>2, <1>3, AllocBufStep

LEMMA UnPinPageStep ==
  ASSUME IInv, TestInv', NEW n \in Names, NEW p \in 0 .. MaxPages, NEW dirty \in BOOLEAN,
         UnPinPage(n, p, dirty)
  PROVE  IInv'
<1> DEFINE l == lookup(n, p)
           e == [bufDescTable[l] EXCEPT !.pinCnt = @ - 1, !.dirty = @ \/ dirty]
<1>1. PoolInv /\ bufDescTable \in Frame
  BY DEF IInv, PoolInv, Sound
<1>2. /\ \E o : Returns(o)
      /\ UNCHANGED <<bufPool, ht, fileVars>>
      /\ \/ bufDescTable' = bufDescTable
         \/ /\ Found(n, p) /\ bufDescTable[l].pinCnt # 0
            /\ bufDescTable' = [bufDescTable EXCEPT ![l].pinCnt = @ - 1,
                                                    ![l].dirty = @ \/ dirty]
  BY DEF UnPinPage
<1>3. call' = NoCall /\ numBufs' = numBufs /\ clockHand' = clockHand
  BY <1>2, Returned
<1>4. CASE bufDescTable' = bufDescTable
  <2>1. Sound(ht', bufDescTable', bufPool', disk', open_counts_', handles')
    BY <1>1, <1>2, <1>4 DEF PoolInv, fileVars
  <2>2. PoolInv'
    BY <1>1, <1>3, <2>1, SoundNext
  <2>3. QED
    BY <1>3, <2>2, Done
<1>5. CASE /\ Found(n, p) /\ bufDescTable[l].pinCnt # 0
           /\ bufDescTable' = [bufDescTable EXCEPT ![l].pinCnt = @ - 1,
                                                   ![l].dirty = @ \/ dirty]
  <2>1. l \in Frames(numBufs) /\ bufDescTable[l].valid /\ bufDescTable[l] \in Descs
    BY <1>1, <1>5, FoundIs DEF Has
  <2> HIDE DEF l
  <2>2. /\ e \in Descs /\ e.valid = bufDescTable[l].valid
        /\ e.file = bufDescTable[l].file /\ e.pageNo = bufDescTable[l].pageNo
    BY <1>5, <2>1, DescBits DEF Descs, Cleared
  <2>3. bufDescTable' = [bufDescTable EXCEPT ![l] = e]
    BY <1>1, <1>5, <2>1 DEF Frame
  <2> HIDE DEF e
  <2>4. PoolInv'
    BY <1>1, <1>2, <1>3, <2>1, <2>2, <2>3, BitsStep
  <2>5. QED
    BY <1>3, <2>4, Done
<1>6. QED
  BY <1>2, <1>4, <1>5

LEMMA FlushFileStep ==
  ASSUME IInv, TestInv', NEW n \in Names, FlushFile(n)
  PROVE  IInv'
<1> DEFINE d == bufDescTable
           out == Flushable(n)
           Of1(p) == CHOOSE f \in out : d[f].pageNo = p
           Written(p) == \E f \in out : d[f].pageNo = p /\ d[f].dirty
           pg == [p \in PageIds |->
                    IF Written(p) THEN bufPool[Of1(p)].data ELSE disk[n].page[p]]
           e == [disk[n] EXCEPT !.page = pg]
           files2 == [disk EXCEPT ![n] = e]
           t2 == [i \in DOMAIN ht |-> Without(ht[i], out)]
           k == Cardinality(out)
<1>1. /\ PoolInv /\ numBufs \in Nat \ {0}
      /\ Sound(ht, d, bufPool, disk, open_counts_, handles)
  BY DEF IInv, PoolInv
<1>2. /\ ht \in Table /\ d \in Frame /\ bufPool \in Pool /\ disk \in [Names -> Files]
      /\ TableIs(ht, d) /\ PoolOnDisk(d, bufPool, disk) /\ disk[n] \in Files
  BY <1>1 DEF Sound
<1>3. \E o : Returns(o)
  BY DEF FlushFile
<1>4. /\ ht' = t2 /\ bufPool' = bufPool /\ handles' = handles
      /\ open_counts_' = Closed(open_counts_, n, 2 * k)
      /\ bufDescTable' = Swept(d, out)
  BY DEF FlushFile, Swept
<1>5. disk' = files2
  <2>1. disk' = [disk EXCEPT ![n].page = pg]
    BY DEF FlushFile
  <2>2. QED
    BY <1>2, <2>1
<1>6. out \in SUBSET On(d, n)
  BY <1>2 DEF Flushable, FramesOf, On, Frame
<1>7. ASSUME NEW f \in out
      PROVE  /\ f \in Frames(numBufs) /\ bufPool[f].data \in Data
             /\ d[f].pageNo \in PageIds => disk[n].page[d[f].pageNo] # Free
  <2>1. f \in DOMAIN d /\ d[f].file = n /\ f \in Frames(numBufs) /\ d[f] \in Descs
    BY <1>2, <1>6 DEF On, Frame
  <2>2. d[f].valid
    BY <2>1, DescIs
  <2>3. HasPage(disk[n], d[f].pageNo)
    BY <1>2, <2>1, <2>2 DEF PoolOnDisk
  <2>4. QED
    BY <1>2, <2>1, <2>3 DEF HasPage, Pool
<1> HIDE DEF out
<1>8. ASSUME NEW p \in PageIds
      PROVE  /\ pg[p] \in Data \cup {Free}
             /\ (pg[p] = Free) <=> (disk[n].page[p] = Free)
  <2>1. CASE Written(p)
    <3>1. Of1(p) \in out /\ d[Of1(p)].pageNo = p
      BY <2>1
    <3> HIDE DEF Of1
    <3>2. pg[p] = bufPool[Of1(p)].data
      BY <2>1
    <3>3. bufPool[Of1(p)].data \in Data /\ disk[n].page[p] # Free
      BY <1>7, <3>1
    <3>4. Free \notin Data
      BY FilesAssumption DEF Data
    <3> HIDE DEF pg
    <3>5. QED
      BY <3>2, <3>3, <3>4
  <2>2. CASE ~ Written(p)
    <3> HIDE DEF Written, Of1
    <3>1. pg[p] = disk[n].page[p]
      BY <2>2
    <3>2. disk[n].page[p] \in Data \cup {Free}
      BY <1>2 DEF Files
    <3>3. QED
      BY <3>1, <3>2
  <2>3. QED
    BY <2>1, <2>2
<1>9. pg \in [PageIds -> Data \cup {Free}]
  <2> HIDE DEF Written, Of1
  <2>1. QED
    BY <1>8
<1> HIDE DEF pg
<1>10. e \in Files /\ SameUse(disk[n], e)
  BY <1>2, <1>8, <1>9, PagesWritten
<1> HIDE DEF e
<1>11. files2 \in [Names -> Files] /\ \A m \in Names : SameUse(disk[m], files2[m])
  <2>1. \A m \in Names : SameUse(disk[m], disk[m])
    BY DEF SameUse
  <2>2. QED
    BY <1>2, <1>10, <2>1
<1>12. t2 \in Table /\ TableIs(t2, Swept(d, out))
  BY <1>1, <1>2, FlushedIs
<1> HIDE DEF t2, d, files2
<1>13. Sound(t2, Swept(d, out), bufPool, disk, Closed(open_counts_, n, 2 * k), handles)
  <2>1. k = Cardinality(out)
    OBVIOUS
  <2> HIDE DEF k
  <2>2. QED
    BY <1>1, <1>6, <1>12, <2>1, SoundSwept
<1>14. Sound(t2, Swept(d, out), bufPool, files2, Closed(open_counts_, n, 2 * k), handles)
  BY <1>2, <1>11, <1>13, SweptIs, DataKept
<1>15. Sound(ht', bufDescTable', bufPool', disk', open_counts_', handles')
  BY <1>4, <1>5, <1>14
<1>16. call' = NoCall /\ numBufs' = numBufs /\ clockHand' = clockHand
  BY <1>3, Returned
<1>17. PoolInv'
  BY <1>1, <1>15, <1>16, SoundNext
<1>18. QED
  BY <1>16, <1>17, Done

LEMMA DisposePageStep ==
  ASSUME IInv, TestInv', NEW n \in Names, NEW p \in 0 .. MaxPages, DisposePage(n, p)
  PROVE  IInv'
<1> DEFINE d == bufDescTable
           l == lookup(n, p)
           w == WithoutPage(disk[n], p)
<1>1. /\ PoolInv /\ numBufs \in Nat \ {0}
      /\ Sound(ht, d, bufPool, disk, open_counts_, handles)
  BY DEF IInv, PoolInv
<1>2. /\ ht \in Table /\ d \in Frame /\ disk \in [Names -> Files]
      /\ TableIs(ht, d) /\ disk[n] \in Files /\ FreeSound(disk[n])
  BY <1>1 DEF Sound
<1>3. /\ \E o : Returns(o)
      /\ bufPool' = bufPool /\ handles' = handles
      /\ HasPage(disk[n], p) => disk' = [disk EXCEPT ![n] = w]
      /\ ~ HasPage(disk[n], p) => disk' = disk
      /\ Found(n, p) => /\ bufDescTable' = [d EXCEPT ![l] = Cleared]
                        /\ ht' = Removed(ht, n, p)
                        /\ open_counts_' = Closed(open_counts_, n, 2)
      /\ ~ Found(n, p) => /\ bufDescTable' = d /\ ht' = ht /\ open_counts_' = open_counts_
  BY DEF DisposePage
<1>4. /\ Sound(ht', bufDescTable', bufPool, disk, open_counts_', handles)
      /\ \A f \in Frames(numBufs) : ~ Has(bufDescTable', f, n, p)
  <2>1. CASE Found(n, p)
    <3>1. l \in Frames(numBufs) /\ Has(d, l, n, p)
      BY <1>1, <2>1, FoundIs
    <3>2. d[l].valid /\ d[l].file = n /\ d[l].pageNo = p
      BY <3>1 DEF Has
    <3>3. /\ bufDescTable' = Swept(d, {l})
          /\ \A g \in Frames(numBufs) : \A m, q : Has(Swept(d, {l}), g, m, q) => Has(d, g, m, q)
          /\ ~ Swept(d, {l})[l].valid
      BY <1>1, <1>3, <2>1, <3>1, VacatedFrame
    <3>4. {l} \in SUBSET On(d, n) /\ 1 = Cardinality({l})
      BY <1>2, <3>1, <3>2, FS_Singleton DEF On, Frame
    <3> HIDE DEF l, d
    <3>5. Removed(ht, n, p) \in Table /\ TableIs(Removed(ht, n, p), Swept(d, {l}))
      BY <1>1, <1>2, <3>1, <3>2, RemovedIs
    <3>6. Sound(Removed(ht, n, p), Swept(d, {l}), bufPool, disk,
                Closed(open_counts_, n, 2 * 1), handles)
      BY <1>1, <3>4, <3>5, SoundSwept
    <3>7. open_counts_' = Closed(open_counts_, n, 2 * 1)
      BY <1>3, <2>1
    <3>8. \A f \in Frames(numBufs) : ~ Has(Swept(d, {l}), f, n, p)
      <4> SUFFICES ASSUME NEW f \in Frames(numBufs), Has(Swept(d, {l}), f, n, p) PROVE FALSE
        OBVIOUS
      <4>1. Has(d, f, n, p)
        BY <3>3
      <4>2. f = l
        BY <1>2, <3>1, <3>2, <4>1 DEF TableIs, Frame
      <4>3. QED
        BY <3>3, <4>2 DEF Has
    <3>9. QED
      BY <1>3, <2>1, <3>3, <3>6, <3>7, <3>8
  <2>2. CASE ~ Found(n, p)
    BY <1>1, <1>3, <2>2, FoundIs
  <2>3. QED
    BY <2>1, <2>2
<1>5. Sound(ht', bufDescTable', bufPool, disk', open_counts_', handles)
  <2>1. CASE HasPage(disk[n], p)
    <3>1. /\ w \in Files /\ FreeSound(w) /\ w.exists = disk[n].exists
          /\ \A q : q # p /\ HasPage(disk[n], q) => HasPage(w, q)
      BY <1>2, <2>1, WithoutPageIs
    <3> HIDE DEF w, d
    <3>2. /\ disk' \in [Names -> Files] /\ disk'[n] = w
          /\ \A m \in Names : m # n => disk'[m] = disk[m]
      BY <1>2, <1>3, <2>1, <3>1
    <3>3. bufDescTable' \in Frame /\ PoolOnDisk(bufDescTable', bufPool, disk)
      BY <1>4 DEF Sound
    <3>4. \A f \in Frames(numBufs) : bufDescTable'[f].valid =>
            /\ HasPage(disk[bufDescTable'[f].file], bufDescTable'[f].pageNo)
            /\ bufDescTable'[f].file \in Names
      BY <3>3, DescIs DEF PoolOnDisk, Frame
    <3>5. \A f \in Frames(numBufs) : bufDescTable'[f].valid =>
            HasPage(disk'[bufDescTable'[f].file], bufDescTable'[f].pageNo)
      BY <1>4, <3>1, <3>2, <3>4 DEF Has
    <3>6. \A m \in Names :
            FreeSound(disk'[m]) /\ (open_counts_'[m] # 0 => disk'[m].exists)
      BY <1>4, <3>1, <3>2 DEF Sound
    <3>7. QED
      BY <1>4, <3>2, <3>3, <3>5, <3>6, FilesKept
  <2>2. CASE ~ HasPage(disk[n], p)
    BY <1>3, <1>4, <2>2
  <2>3. QED
    BY <2>1, <2>2
<1>6. call' = NoCall /\ numBufs' = numBufs /\ clockHand' = clockHand
  BY <1>3, Returned
<1>7. PoolInv'
  BY <1>1, <1>3, <1>5, <1>6, SoundNext
<1>8. QED
  BY <1>6, <1>7, Done
-----------------------------------------------------------------------------
(***************************************************************************)
(* The calls on files.                                                     *)
(***************************************************************************)
\* A file that nobody has open is created, or removed.
LEMMA FilesReplaced ==
  ASSUME PoolInv, NEW files2 \in [Names -> Files], \A n \in Names : FreeSound(files2[n]),
         \A n \in Names : files2[n] = disk[n] \/ open_counts_[n] = 0
  PROVE  Sound(ht, bufDescTable, bufPool, files2, open_counts_, handles)
<1> DEFINE d == bufDescTable
<1>1. /\ numBufs \in Nat \ {0} /\ Sound(ht, d, bufPool, disk, open_counts_, handles)
      /\ d \in Frame /\ PoolOnDisk(d, bufPool, disk)
      /\ \A n \in Names : open_counts_[n] # 0 => disk[n].exists
  BY DEF PoolInv, Sound
<1>2. ASSUME NEW f \in Frames(numBufs), d[f].valid
      PROVE  HasPage(files2[d[f].file], d[f].pageNo)
  <2>1. f \in DOMAIN d /\ d[f] \in Descs
    BY <1>1 DEF Frame
  <2>2. d[f].file \in Names /\ f \in On(d, d[f].file)
    BY <1>2, <2>1, DescIs DEF On
  <2>3. open_counts_[d[f].file] # 0
    BY <1>1, <2>2, HeldExists
  <2>4. HasPage(disk[d[f].file], d[f].pageNo)
    BY <1>1, <1>2, <2>1 DEF PoolOnDisk
  <2>5. QED
    BY <2>2, <2>3, <2>4
<1>3. \A n \in Names : FreeSound(files2[n]) /\ (open_counts_[n] # 0 => files2[n].exists)
  BY <1>1
<1>4. QED
  BY <1>1, <1>2, <1>3, FilesKept

\* The program opens and closes objects.
LEMMA HandlesKept ==
  ASSUME numBufs \in Nat \ {0}, NEW t, NEW d, NEW b, NEW files, NEW counts, NEW held,
         Sound(t, d, b, files, counts, held),
         NEW counts2 \in [Names -> Int], NEW held2 \in [Names -> Nat],
         \A n \in Names : counts2[n] - held2[n] = counts[n] - held[n],
         \A n \in Names : held2[n] > held[n] => files[n].exists
  PROVE  Sound(t, d, b, files, counts2, held2)
<1>1. /\ counts \in [Names -> Int] /\ held \in [Names -> Nat] /\ Counted(counts, held, d)
      /\ d \in Frame /\ \A n \in Names : counts[n] # 0 => files[n].exists
  BY DEF Sound
<1>2. Counted(counts2, held2, d)
  <2> SUFFICES ASSUME NEW n \in Names PROVE counts2[n] = held2[n] + 2 * Cardinality(On(d, n))
    BY DEF Counted
  <2>1. Cardinality(On(d, n)) \in Nat
    BY <1>1, OnFinite
  <2>2. counts[n] = held[n] + 2 * Cardinality(On(d, n))
    BY <1>1 DEF Counted
  <2>3. /\ counts2[n] - held2[n] = counts[n] - held[n]
        /\ counts2[n] \in Int /\ held2[n] \in Nat /\ counts[n] \in Int /\ held[n] \in Nat
    BY <1>1
  <2>4. QED
    BY <2>1, <2>2, <2>3
<1>3. \A n \in Names : counts2[n] # 0 => files[n].exists
  <2> SUFFICES ASSUME NEW n \in Names, counts2[n] # 0, counts[n] = 0 PROVE files[n].exists
    BY <1>1
  <2>1. held[n] = 0
    BY HeldExists
  <2>2. counts2[n] - held2[n] = 0 - 0 /\ counts2[n] \in Int /\ held2[n] \in Nat
    BY <2>1
  <2>3. held2[n] > held[n]
    BY <2>1, <2>2
  <2>4. QED
    BY <2>3
<1>4. QED
  BY <1>2, <1>3 DEF Sound

\* A file that is not there, and a new one.
LEMMA NoFileIs ==
  /\ NoFile \in Files /\ FreeSound(NoFile)
  /\ NewFile \in Files /\ FreeSound(NewFile) /\ NewFile.exists
<1>1. NoFile \in Files
  BY DEF NoFile, Files
<1>2. NewFile = [NoFile EXCEPT !.exists = TRUE, !.num_pages = 1]
  BY DEF NewFile
<1>3. /\ NewFile.exists = TRUE /\ NewFile.num_pages = 1 /\ NewFile.free = <<>>
      /\ NoFile.exists = FALSE /\ NoFile.free = <<>>
  BY DEF NewFile, NoFile
<1>4. NewFile \in Files
  BY <1>1, <1>2 DEF Files
<1>5. FreeSound(NewFile) /\ FreeSound(NoFile)
  BY <1>3 DEF FreeSound
<1>6. QED
  BY <1>1, <1>3, <1>4, <1>5

LEMMA CreateStep ==
  ASSUME IInv, TestInv', NEW n \in Names, Create(n)
  PROVE  IInv'
<1>1. /\ PoolInv /\ numBufs \in Nat \ {0}
      /\ Sound(ht, bufDescTable, bufPool, disk, open_counts_, handles)
      /\ disk \in [Names -> Files] /\ open_counts_ \in [Names -> Int]
      /\ handles \in [Names -> Nat] /\ \A m \in Names : FreeSound(disk[m])
  BY DEF IInv, PoolInv, Sound
<1>2. /\ \E o : Returns(o)
      /\ open_counts_[n] = 0
      /\ bufDescTable' = bufDescTable /\ bufPool' = bufPool /\ ht' = ht
      /\ \/ disk' = disk /\ open_counts_' = open_counts_ /\ handles' = handles
         \/ /\ disk' = [disk EXCEPT ![n] = NewFile]
            /\ open_counts_' = Opened(open_counts_, n, 1)
            /\ handles' = [handles EXCEPT ![n] = 1]
  BY DEF Create, fileVars
<1>3. call' = NoCall /\ numBufs' = numBufs /\ clockHand' = clockHand
  BY <1>2, Returned
<1>4. Sound(ht, bufDescTable, bufPool, disk', open_counts_', handles')
  <2>1. CASE disk' = disk /\ open_counts_' = open_counts_ /\ handles' = handles
    BY <1>1, <2>1
  <2>2. CASE /\ disk' = [disk EXCEPT ![n] = NewFile]
             /\ open_counts_' = Opened(open_counts_, n, 1)
             /\ handles' = [handles EXCEPT ![n] = 1]
    <3>1. /\ disk' \in [Names -> Files] /\ disk'[n] = NewFile
          /\ \A m \in Names : m # n => disk'[m] = disk[m]
      BY <1>1, <2>2, NoFileIs
    <3>2. \A m \in Names : FreeSound(disk'[m])
      BY <1>1, <3>1, NoFileIs
    <3>3. \A m \in Names : disk'[m] = disk[m] \/ open_counts_[m] = 0
      BY <1>2, <3>1
    <3>4. Sound(ht, bufDescTable, bufPool, disk', open_counts_, handles)
      BY <1>1, <3>1, <3>2, <3>3, FilesReplaced
    <3>5. handles[n] = 0
      BY <1>1, <1>2, HeldExists
    <3>6. /\ open_counts_' \in [Names -> Int] /\ open_counts_'[n] = open_counts_[n] + 1
          /\ \A m \in Names : m # n => open_counts_'[m] = open_counts_[m]
      BY <1>1, <2>2 DEF Opened
    <3>7. /\ handles' \in [Names -> Nat] /\ handles'[n] = handles[n] + 1
          /\ \A m \in Names : m # n => handles'[m] = handles[m]
      BY <1>1, <2>2, <3>5
    <3>8. \A m \in Names : open_counts_'[m] - handles'[m] = open_counts_[m] - handles[m]
      <4> SUFFICES ASSUME NEW m \in Names
                   PROVE  open_counts_'[m] - handles'[m] = open_counts_[m] - handles[m]
        OBVIOUS
      <4>1. open_counts_[m] \in Int /\ handles[m] \in Nat
        BY <1>1
      <4>2. QED
        BY <3>6, <3>7, <4>1
    <3>9. \A m \in Names : handles'[m] > handles[m] => disk'[m].exists
      <4> SUFFICES ASSUME NEW m \in Names, m # n PROVE ~ (handles'[m] > handles[m])
        BY <3>1, NoFileIs
      <4>1. handles'[m] = handles[m] /\ handles[m] \in Nat
        BY <1>1, <3>7
      <4>2. QED
        BY <4>1
    <3>10. QED
      BY <1>1, <3>4, <3>6, <3>7, <3>8, <3>9, HandlesKept
  <2>3. QED
    BY <1>2, <2>1, <2>2
<1>5. PoolInv'
  BY <1>1, <1>2, <1>3, <1>4, SoundNext
<1>6. QED
  BY <1>3, <1>5, Done

LEMMA OpenStep ==
  ASSUME IInv, TestInv', NEW n \in Names, Open(n)
  PROVE  IInv'
<1>1. /\ PoolInv /\ numBufs \in Nat \ {0}
      /\ Sound(ht, bufDescTable, bufPool, disk, open_counts_, handles)
      /\ open_counts_ \in [Names -> Int] /\ handles \in [Names -> Nat]
      /\ \A m \in Names : open_counts_[m] # 0 => disk[m].exists
  BY DEF IInv, PoolInv, Sound
<1>2. /\ \E o : Returns(o)
      /\ bufDescTable' = bufDescTable /\ bufPool' = bufPool /\ ht' = ht /\ disk' = disk
      /\ \/ open_counts_' = open_counts_ /\ handles' = handles
         \/ /\ open_counts_[n] # 0 \/ disk[n].exists
            /\ open_counts_' = Opened(open_counts_, n, 1)
            /\ handles' = [handles EXCEPT ![n] = @ + 1]
  BY DEF Open, Exists
<1>3. call' = NoCall /\ numBufs' = numBufs /\ clockHand' = clockHand
  BY <1>2, Returned
<1>4. Sound(ht, bufDescTable, bufPool, disk, open_counts_', handles')
  <2>1. CASE open_counts_' = open_counts_ /\ handles' = handles
    BY <1>1, <2>1
  <2>2. CASE /\ open_counts_[n] # 0 \/ disk[n].exists
             /\ open_counts_' = Opened(open_counts_, n, 1)
             /\ handles' = [handles EXCEPT ![n] = @ + 1]
    <3>1. disk[n].exists
      BY <1>1, <2>2
    <3>2. /\ open_counts_' \in [Names -> Int] /\ open_counts_'[n] = open_counts_[n] + 1
          /\ \A m \in Names : m # n => open_counts_'[m] = open_counts_[m]
      BY <1>1, <2>2 DEF Opened
    <3>3. /\ handles' \in [Names -> Nat] /\ handles'[n] = handles[n] + 1
          /\ \A m \in Names : m # n => handles'[m] = handles[m]
      BY <1>1, <2>2
    <3>4. \A m \in Names : /\ open_counts_'[m] - handles'[m] = open_counts_[m] - handles[m]
                           /\ handles'[m] > handles[m] => disk[m].exists
      <4> SUFFICES ASSUME NEW m \in Names
                   PROVE  /\ open_counts_'[m] - handles'[m] = open_counts_[m] - handles[m]
                          /\ handles'[m] > handles[m] => disk[m].exists
        OBVIOUS
      <4>1. open_counts_[m] \in Int /\ handles[m] \in Nat
        BY <1>1
      <4>2. QED
        BY <3>1, <3>2, <3>3, <4>1
    <3>5. QED
      BY <1>1, <3>2, <3>3, <3>4, HandlesKept
  <2>3. QED
    BY <1>2, <2>1, <2>2
<1>5. PoolInv'
  BY <1>1, <1>2, <1>3, <1>4, SoundNext
<1>6. QED
  BY <1>3, <1>5, Done

LEMMA CloseStep ==
  ASSUME IInv, TestInv', NEW n \in Names, Close(n)
  PROVE  IInv'
<1>1. /\ PoolInv /\ numBufs \in Nat \ {0}
      /\ Sound(ht, bufDescTable, bufPool, disk, open_counts_, handles)
      /\ open_counts_ \in [Names -> Int] /\ handles \in [Names -> Nat]
  BY DEF IInv, PoolInv, Sound
<1>2. /\ \E o : Returns(o) /\ handles[n] > 0
      /\ bufDescTable' = bufDescTable /\ bufPool' = bufPool /\ ht' = ht /\ disk' = disk
      /\ open_counts_' = Closed(open_counts_, n, 1)
      /\ handles' = [handles EXCEPT ![n] = @ - 1]
  BY DEF Close
<1>3. call' = NoCall /\ numBufs' = numBufs /\ clockHand' = clockHand
  BY <1>2, Returned
<1>4. /\ open_counts_' \in [Names -> Int] /\ open_counts_'[n] = open_counts_[n] - 1
      /\ \A m \in Names : m # n => open_counts_'[m] = open_counts_[m]
  BY <1>1, <1>2 DEF Closed
<1>5. /\ handles' \in [Names -> Nat] /\ handles'[n] = handles[n] - 1
      /\ \A m \in Names : m # n => handles'[m] = handles[m]
  BY <1>1, <1>2
<1>6. \A m \in Names : /\ open_counts_'[m] - handles'[m] = open_counts_[m] - handles[m]
                       /\ handles'[m] > handles[m] => disk[m].exists
  <2> SUFFICES ASSUME NEW m \in Names
               PROVE  /\ open_counts_'[m] - handles'[m] = open_counts_[m] - handles[m]
                      /\ handles'[m] > handles[m] => disk[m].exists
    OBVIOUS
  <2>1. open_counts_[m] \in Int /\ handles[m] \in Nat
    BY <1>1
  <2>2. QED
    BY <1>4, <1>5, <2>1
<1>7. Sound(ht, bufDescTable, bufPool, disk, open_counts_', handles')
  BY <1>1, <1>4, <1>5, <1>6, HandlesKept
<1>8. PoolInv'
  BY <1>1, <1>2, <1>3, <1>7, SoundNext
<1>9. QED
  BY <1>3, <1>8, Done

LEMMA AssignStep ==
  ASSUME IInv, TestInv', NEW m \in Names, NEW n \in Names, Assign(m, n)
  PROVE  IInv'
<1>1. /\ PoolInv /\ numBufs \in Nat \ {0}
      /\ Sound(ht, bufDescTable, bufPool, disk, open_counts_, handles)
      /\ open_counts_ \in [Names -> Int] /\ handles \in [Names -> Nat]
  BY DEF IInv, PoolInv, Sound
<1>2. /\ \E o : Returns(o) /\ m # n /\ handles[m] > 0 /\ handles[n] > 0
      /\ bufDescTable' = bufDescTable /\ bufPool' = bufPool /\ ht' = ht /\ disk' = disk
      /\ open_counts_' = Opened(Closed(open_counts_, m, 1), n, 1)
      /\ handles' = [handles EXCEPT ![m] = @ - 1, ![n] = @ + 1]
  BY DEF Assign
<1>3. call' = NoCall /\ numBufs' = numBufs /\ clockHand' = clockHand
  BY <1>2, Returned
<1>4. /\ open_counts_' \in [Names -> Int] /\ open_counts_'[m] = open_counts_[m] - 1
      /\ open_counts_'[n] = open_counts_[n] + 1
      /\ \A l \in Names : l # m /\ l # n => open_counts_'[l] = open_counts_[l]
  BY <1>1, <1>2 DEF Closed, Opened
<1>5. /\ handles' \in [Names -> Nat] /\ handles'[m] = handles[m] - 1
      /\ handles'[n] = handles[n] + 1
      /\ \A l \in Names : l # m /\ l # n => handles'[l] = handles[l]
  BY <1>1, <1>2
<1>6. disk[n].exists
  BY <1>1, <1>2, HeldExists
<1>7. \A l \in Names : /\ open_counts_'[l] - handles'[l] = open_counts_[l] - handles[l]
                       /\ handles'[l] > handles[l] => disk[l].exists
  <2> SUFFICES ASSUME NEW l \in Names
               PROVE  /\ open_counts_'[l] - handles'[l] = open_counts_[l] - handles[l]
                      /\ handles'[l] > handles[l] => disk[l].exists
    OBVIOUS
  <2>1. open_counts_[l] \in Int /\ handles[l] \in Nat
    BY <1>1
  <2>2. QED
    BY <1>4, <1>5, <1>6, <2>1
<1>8. Sound(ht, bufDescTable, bufPool, disk, open_counts_', handles')
  BY <1>1, <1>4, <1>5, <1>7, HandlesKept
<1>9. PoolInv'
  BY <1>1, <1>2, <1>3, <1>8, SoundNext
<1>10. QED
  BY <1>3, <1>9, Done

\* Files that nobody has open are removed.
LEMMA GoneStep ==
  ASSUME IInv, TestInv', \E o : Returns(o), NEW gone \in SUBSET Names,
         \A n \in gone : open_counts_[n] = 0,
         \A n \in Names : disk'[n] = IF n \in gone THEN NoFile ELSE disk[n],
         DOMAIN disk' = Names, disk' = [n \in Names |-> disk'[n]],
         UNCHANGED <<bufDescTable, bufPool, ht, open_counts_, handles>>
  PROVE  IInv'
<1>1. /\ PoolInv /\ disk \in [Names -> Files] /\ \A m \in Names : FreeSound(disk[m])
  BY DEF IInv, PoolInv, Sound
<1>2. disk' \in [Names -> Files]
  BY <1>1, NoFileIs
<1>3. \A n \in Names : FreeSound(disk'[n])
  BY <1>1, NoFileIs
<1>4. \A n \in Names : disk'[n] = disk[n] \/ open_counts_[n] = 0
  OBVIOUS
<1>5. Sound(ht, bufDescTable, bufPool, disk', open_counts_, handles)
  BY <1>1, <1>2, <1>3, <1>4, FilesReplaced
<1>6. call' = NoCall /\ numBufs' = numBufs /\ clockHand' = clockHand
  BY Returned
<1>7. PoolInv'
  BY <1>1, <1>5, <1>6, SoundNext
<1>8. QED
  BY <1>6, <1>7, Done

LEMMA RemoveFileStep ==
  ASSUME IInv, TestInv', NEW n \in Names, RemoveFile(n)
  PROVE  IInv'
<1> DEFINE gone == IF Exists(n) /\ ~ IsOpen(n) THEN {n} ELSE {}
<1>1. disk \in [Names -> Files]
  BY DEF IInv, PoolInv, Sound
<1>2. /\ \E o : Returns(o)
      /\ UNCHANGED <<bufDescTable, bufPool, ht, open_counts_, handles>>
      /\ disk' = IF Exists(n) /\ ~ IsOpen(n) THEN [disk EXCEPT ![n] = NoFile] ELSE disk
  BY DEF RemoveFile
<1>3. gone \in SUBSET Names /\ \A m \in gone : open_counts_[m] = 0
  BY DEF IsOpen
<1>4. /\ DOMAIN disk' = Names /\ disk' = [m \in Names |-> disk'[m]]
      /\ \A m \in Names : disk'[m] = IF m \in gone THEN NoFile ELSE disk[m]
  <2>1. CASE Exists(n) /\ ~ IsOpen(n)
    BY <1>1, <1>2, <2>1
  <2>2. CASE ~ (Exists(n) /\ ~ IsOpen(n))
    BY <1>1, <1>2, <2>2
  <2>3. QED
    BY <2>1, <2>2
<1> HIDE DEF gone
<1>5. QED
  BY <1>2, <1>3, <1>4, GoneStep

LEMMA CleanUpStep ==
  ASSUME IInv, TestInv', NEW names \in Seq(Names), CleanUp(names)
  PROVE  IInv'
<1> DEFINE ks == {k \in DOMAIN names : \A j \in 1 .. k : Exists(names[j])}
           gone == {n \in Names : \E k \in ks : names[k] = n}
<1>1. /\ \A k \in ks : ~ IsOpen(names[k])
      /\ \E o : Returns(o)
      /\ disk' = [n \in Names |-> IF \E k \in ks : names[k] = n THEN NoFile ELSE disk[n]]
      /\ UNCHANGED <<bufDescTable, bufPool, ht, open_counts_, handles>>
  BY DEF CleanUp
<1>2. \A k \in ks : Exists(names[k])
  <2>1. DOMAIN names = 1 .. Len(names) /\ Len(names) \in Nat
    OBVIOUS
  <2>2. \A k \in DOMAIN names : k \in 1 .. k
    BY <2>1
  <2>3. QED
    BY <2>2
<1> HIDE DEF ks
<1>3. \A n \in gone : open_counts_[n] = 0
  BY <1>1, <1>2 DEF IsOpen
<1>4. \A n \in Names : disk'[n] = IF n \in gone THEN NoFile ELSE disk[n]
  BY <1>1
<1>5. DOMAIN disk' = Names /\ disk' = [n \in Names |-> disk'[n]]
  BY <1>1
<1>6. gone \in SUBSET Names
  OBVIOUS
<1> HIDE DEF gone
<1>7. QED
  BY <1>1, <1>3, <1>4, <1>5, <1>6, GoneStep
-----------------------------------------------------------------------------
(***************************************************************************)
(* A new manager.                                                          *)
(***************************************************************************)
Fresh ==
  /\ numBufs \in Nat \ {0}
  /\ bufDescTable = [f \in Frames(numBufs) |-> Cleared]
  /\ bufPool = [f \in Frames(numBufs) |-> [page_number |-> 0, data |-> Empty]]
  /\ ht = [i \in 0 .. HASHTABLE_SZ(numBufs) - 1 |-> <<>>]
  /\ disk \in [Names -> Files] /\ \A n \in Names : FreeSound(disk[n])
  /\ handles \in [Names -> Nat] /\ \A n \in Names : handles[n] > 0 => disk[n].exists
  /\ open_counts_ = [n \in Names |-> handles[n]]

\* A pool with nothing in it agrees with files that only the program has open.
LEMMA FreshIs == Fresh => PoolInv
<1> SUFFICES ASSUME Fresh PROVE PoolInv
  OBVIOUS
<1>1. ht \in Table /\ \A i \in DOMAIN ht : ht[i] = <<>>
  <2>1. <<>> \in Seq(Buckets)
    OBVIOUS
  <2>2. QED
    BY <2>1 DEF Fresh, Table
<1>2. /\ bufDescTable \in Frame /\ DOMAIN bufDescTable = Frames(numBufs)
      /\ \A f \in Frames(numBufs) : bufDescTable[f] = Cleared
  BY DescMade DEF Fresh, Frame
<1>3. bufPool \in Pool
  <2>1. [page_number |-> 0, data |-> Empty] \in [page_number : 0 .. MaxPages, data : Data]
    BY FilesAssumption DEF Data
  <2>2. QED
    BY <2>1 DEF Fresh, Pool
<1>4. \A f \in DOMAIN bufDescTable : ~ bufDescTable[f].valid
  BY <1>2, DescMade
<1>5. TableIs(ht, bufDescTable)
  BY <1>1, <1>4 DEF TableIs
<1>6. PoolOnDisk(bufDescTable, bufPool, disk)
  BY <1>4 DEF PoolOnDisk
<1>7. Counted(open_counts_, handles, bufDescTable)
  <2> SUFFICES ASSUME NEW n \in Names
               PROVE  open_counts_[n] = handles[n] + 2 * Cardinality(On(bufDescTable, n))
    BY DEF Counted
  <2>1. On(bufDescTable, n) = {}
    BY <1>2, DescMade DEF On
  <2>2. Cardinality(On(bufDescTable, n)) = 0
    BY <2>1, FS_EmptySet
  <2>3. open_counts_[n] = handles[n] /\ handles[n] \in Nat
    BY DEF Fresh
  <2>4. QED
    BY <2>2, <2>3
<1>8. open_counts_ \in [Names -> Int] /\ \A n \in Names : open_counts_[n] # 0 => disk[n].exists
  BY DEF Fresh
<1>9. QED
  BY <1>1, <1>2, <1>3, <1>5, <1>6, <1>7, <1>8 DEF Fresh, PoolInv, Sound

LEMMA NewManagerStep ==
  ASSUME IInv, TestInv', NewManager
  PROVE  IInv'
<1>1. /\ PoolInv /\ numBufs \in Nat \ {0} /\ disk \in [Names -> Files]
      /\ handles \in [Names -> Nat] /\ \A n \in Names : FreeSound(disk[n])
      /\ Sound(ht, bufDescTable, bufPool, disk, open_counts_, handles)
  BY DEF IInv, PoolInv, Sound
<1>2. /\ numBufs' = Num /\ clockHand' = Num - 1 /\ call = NoCall /\ call' = call
      /\ bufDescTable' = [f \in Frames(Num) |-> Cleared]
      /\ bufPool' = [f \in Frames(Num) |-> [page_number |-> 0, data |-> Empty]]
      /\ ht' = [i \in 0 .. HASHTABLE_SZ(Num) - 1 |-> <<>>]
      /\ open_counts_' = [n \in Names |-> handles[n]]
      /\ disk' = disk /\ handles' = handles
  BY DEF NewManager, Idle, Manager, clockVars
<1>3. Num \in Nat \ {0}
  BY ScaleAssumption
<1>4. \A n \in Names : handles[n] > 0 => disk[n].exists
  BY <1>1, HeldExists
<1>5. Fresh'
  BY <1>1, <1>2, <1>3, <1>4 DEF Fresh
<1>6. PoolInv'
  BY <1>5, FreshIs, PTL
<1>7. clockHand' \in Frames(numBufs') /\ call' \in Calls
  BY <1>2, <1>3 DEF Frames, Calls
<1>8. CallSound'
  BY <1>2 DEF CallSound
<1>9. QED
  BY <1>6, <1>7, <1>8 DEF IInv
-----------------------------------------------------------------------------
(***************************************************************************)
(* The instructions of the tests name files, frames and page numbers that  *)
(* there are.                                                              *)
(***************************************************************************)
FileOps == {"alloc", "read", "random", "unpin", "flush", "create", "open",
            "close", "remove", "manager", "cleanup"}

Outcomes == {"ok", "InvalidPage", "PageNotPinned", "BufferExceeded", "PagePinned",
             "FileNotFound"}

Args == [reg : 0 .. Num + 4, lit : 0 .. MaxPages]

Steps ==
  [op : FileOps, file : Names, arg : Args, flag : BOOLEAN, expect : Outcomes]
  \cup [op : {"frame"}, file : Nat, arg : Args, flag : BOOLEAN, expect : Outcomes]

\* What an instruction tells.
LEMMA StepIs ==
  ASSUME NEW i \in Steps
  PROVE  /\ i.op \in FileOps => i.file \in Names
         /\ i.op \in FileOps \cup {"frame"}
         /\ i.arg \in Args /\ i.flag \in BOOLEAN
BY DEF Steps, FileOps

\* The instructions of the tests are of this kind.
LEMMA ArgsMade ==
  /\ \A r \in Registers : Reg(r) \in Args
  /\ \A p \in 0 .. MaxPages : Lit(p) \in Args
<1>1. Num \in Nat /\ MaxPages \in Nat
  BY ScaleAssumption, FilesAssumption
<1>2. QED
  BY <1>1 DEF Reg, Lit, Args, Registers

\* So are those with other outcomes, and the looks into a frame.
LEMMA InstrMade ==
  /\ \A op \in FileOps, n \in Names, arg \in Args, flag \in BOOLEAN :
       Instr(op, n, arg, flag, "ok") \in Steps
  /\ \A f \in Nat, arg \in Args : InFrame(f, arg) \in Steps
  /\ \A i \in Steps, o \in Outcomes : Throws(i, o) \in Steps
<1>1. \A op \in FileOps, n \in Names, arg \in Args, flag \in BOOLEAN :
        Instr(op, n, arg, flag, "ok") \in Steps
  BY DEF Instr, Steps, Outcomes
<1>2. \A f \in Nat, arg \in Args : InFrame(f, arg) \in Steps
  BY DEF InFrame, Instr, Steps, Outcomes
<1>3. ASSUME NEW i \in Steps, NEW o \in Outcomes PROVE Throws(i, o) \in Steps
  <2>1. CASE i.op = "frame"
    BY <1>3, <2>1 DEF Throws, Steps, FileOps
  <2>2. CASE i.op # "frame"
    BY <1>3, <2>2 DEF Throws, Steps, FileOps
  <2>3. QED
    BY <2>1, <2>2
<1>4. QED
  BY <1>1, <1>2, <1>3

\* The instructions on one file.
LEMMA StepsMade ==
  ASSUME NEW n \in Names
  PROVE  /\ \A r \in Registers : /\ Alloc(n, r) \in Steps /\ Allot(n, r) \in Steps
                                 /\ ReadBack(n, r) \in Steps
         /\ ReadRandom(n) \in Steps
         /\ \A arg \in Args : Read(n, arg) \in Steps
         /\ \A arg \in Args, flag \in BOOLEAN : Unpin(n, arg, flag) \in Steps
         /\ Flush(n) \in Steps
         /\ \A op \in FileOps : Of(op, n) \in Steps
<1>1. pageno1 \in Registers /\ 0 \in 0 .. MaxPages
  BY ScaleAssumption, FilesAssumption DEF pageno1, Registers
<1>2. {"alloc", "read", "random", "unpin", "flush"} \subseteq FileOps
  BY DEF FileOps
<1>3. \A r \in Registers : /\ Alloc(n, r) \in Steps /\ Allot(n, r) \in Steps
                           /\ ReadBack(n, r) \in Steps
  BY <1>2, ArgsMade, InstrMade DEF Alloc, Allot, ReadBack
<1>4. ReadRandom(n) \in Steps
  BY <1>1, <1>2, ArgsMade, InstrMade DEF ReadRandom
<1>5. \A arg \in Args : Read(n, arg) \in Steps
  BY <1>2, InstrMade DEF Read
<1>6. \A arg \in Args, flag \in BOOLEAN : Unpin(n, arg, flag) \in Steps
  BY <1>2, InstrMade DEF Unpin
<1>7. Flush(n) \in Steps
  BY <1>1, <1>2, ArgsMade, InstrMade DEF Flush
<1>8. \A op \in FileOps : Of(op, n) \in Steps
  BY <1>1, ArgsMade, InstrMade DEF Of
<1>9. QED
  BY <1>3, <1>4, <1>5, <1>6, <1>7, <1>8

\* The numbers in the tests.
LEMMA NumbersIn ==
  /\ Num \in Nat /\ Held \in Nat /\ Held + 4 <= Num
  /\ \A k \in 1 .. Num : k \in Registers /\ k \in 0 .. MaxPages
  /\ \A k \in 1 .. Num \div 3 : k \in 0 .. MaxPages
  /\ {pageno1, pageno2, pageno3, pageId} \subseteq Registers
  /\ 0 \in 0 .. MaxPages /\ 1 \in 1 .. Num /\ Held + 1 \in 1 .. Num
<1>1. Num \in Nat /\ Held \in Nat /\ Held + 4 <= Num /\ Num <= MaxPages /\ MaxPages \in Nat
  BY ScaleAssumption, FilesAssumption
<1>2. Num \div 3 <= Num
  BY <1>1
<1>3. QED
  BY <1>1, <1>2 DEF pageno1, pageno2, pageno3, pageId, Registers

\* A loop of the tests is a sequence of instructions.
LEMMA LoopIn ==
  ASSUME NEW m \in Nat, NEW body, \A k \in 1 .. m : body[k] \in Seq(Steps),
         body = [k \in 1 .. m |-> body[k]]
  PROVE  FlattenSeq(body) \in Seq(Steps)
<1>1. body \in Seq(Seq(Steps))
  OBVIOUS
<1>2. QED
  BY <1>1, FlattenIn

\* Two parts of the tests are a sequence of instructions.
LEMMA CatIn ==
  ASSUME NEW a \in Seq(Steps), NEW b \in Seq(Steps)
  PROVE  a \o b \in Seq(Steps)
OBVIOUS

\* A few instructions in a row.
LEMMA RowIn ==
  /\ \A a \in Steps : <<a>> \in Seq(Steps)
  /\ \A a, b \in Steps : <<a, b>> \in Seq(Steps)
  /\ \A a, b, c \in Steps : <<a, b, c>> \in Seq(Steps)
  /\ \A a, b, c, d \in Steps : <<a, b, c, d>> \in Seq(Steps)
  /\ \A a, b, c, d, e \in Steps : <<a, b, c, d, e>> \in Seq(Steps)
  /\ \A a, b, c, d, e, f \in Steps : <<a, b, c, d, e, f>> \in Seq(Steps)
<1>1. \A a \in Steps : <<a>> \in Seq(Steps)
  OBVIOUS
<1>2. \A a, b \in Steps : <<a, b>> \in Seq(Steps)
  OBVIOUS
<1>3. \A a, b, c \in Steps : <<a, b, c>> \in Seq(Steps)
  OBVIOUS
<1>4. \A a, b, c, d \in Steps : <<a, b, c, d>> \in Seq(Steps)
  OBVIOUS
<1>5. \A a, b, c, d, e \in Steps : <<a, b, c, d, e>> \in Seq(Steps)
  OBVIOUS
<1>6. \A a, b, c, d, e, f \in Steps : <<a, b, c, d, e, f>> \in Seq(Steps)
  OBVIOUS
<1>7. QED
  BY <1>1, <1>2, <1>3, <1>4, <1>5, <1>6

\* The files of the tests have names.
LEMMA TestNames ==
  /\ test1 \in Names /\ test2 \in Names /\ test3 \in Names /\ test4 \in Names
  /\ test5 \in Names /\ algo_test \in Names /\ page_test \in Names /\ page_test2 \in Names
BY ScaleAssumption

\* The tests, one after another.
LEMMA Test1In == Test1 \in Seq(Steps)
<1> DEFINE Written(k)  == <<Alloc(test1, k), Unpin(test1, Reg(k), TRUE)>>
           Compared(k) == <<ReadBack(test1, k), Unpin(test1, Reg(k), FALSE)>>
<1>1. ASSUME NEW k \in 1 .. Num
      PROVE  Written(1 + k - 1) \in Seq(Steps) /\ Compared(1 + k - 1) \in Seq(Steps)
  <2>1. k \in Registers /\ 1 + k - 1 = k
    BY NumbersIn
  <2>2. /\ Alloc(test1, k) \in Steps /\ ReadBack(test1, k) \in Steps
        /\ Unpin(test1, Reg(k), TRUE) \in Steps /\ Unpin(test1, Reg(k), FALSE) \in Steps
    BY <2>1, TestNames, StepsMade, ArgsMade
  <2>3. QED
    BY <2>1, <2>2, RowIn
<1> HIDE DEF Written, Compared
<1>2. Num - 1 + 1 = Num /\ Num \in Nat
  BY NumbersIn
<1>3. For(1, Num, Written) \in Seq(Steps)
  BY <1>1, <1>2, LoopIn DEF For
<1>4. For(1, Num, Compared) \in Seq(Steps)
  BY <1>1, <1>2, LoopIn DEF For
<1>5. QED
  BY <1>3, <1>4, CatIn DEF Test1, Written, Compared

LEMMA Test2In == Test2 \in Seq(Steps)
<1> DEFINE Mixed(k) == <<Alloc(test2, pageno2), ReadRandom(test1), Alloc(test3, pageno3),
                         ReadBack(test2, pageno2), ReadBack(test3, pageno3),
                         Unpin(test1, Reg(pageno1), FALSE)>>
           Twice(k) == <<Unpin(test2, Lit(k), TRUE), Unpin(test2, Lit(k), TRUE),
                         Unpin(test3, Lit(k), TRUE), Unpin(test3, Lit(k), TRUE)>>
           m == Num \div 3
<1>1. /\ m \in Nat /\ m - 1 + 1 = m /\ m <= Num
      /\ \A k \in 1 .. m : k \in 0 .. MaxPages /\ 1 + k - 1 = k
  BY NumbersIn
<1>2. ASSUME NEW k \in 1 .. m
      PROVE  Mixed(1 + k - 1) \in Seq(Steps)
  <2>1. {pageno1, pageno2, pageno3} \subseteq Registers
    BY NumbersIn
  <2>2. /\ Alloc(test2, pageno2) \in Steps /\ ReadRandom(test1) \in Steps
        /\ Alloc(test3, pageno3) \in Steps /\ ReadBack(test2, pageno2) \in Steps
        /\ ReadBack(test3, pageno3) \in Steps /\ Unpin(test1, Reg(pageno1), FALSE) \in Steps
    BY <2>1, TestNames, StepsMade, ArgsMade
  <2>3. QED
    BY <2>2, RowIn
<1>3. ASSUME NEW k \in 1 .. m
      PROVE  Twice(1 + k - 1) \in Seq(Steps)
  <2>1. k \in 0 .. MaxPages /\ 1 + k - 1 = k
    BY <1>1
  <2>2. Unpin(test2, Lit(k), TRUE) \in Steps /\ Unpin(test3, Lit(k), TRUE) \in Steps
    BY <2>1, TestNames, StepsMade, ArgsMade
  <2>3. QED
    BY <2>1, <2>2, RowIn
<1> HIDE DEF Mixed, Twice, m
<1>4. For(1, m, Mixed) \in Seq(Steps)
  BY <1>1, <1>2, LoopIn DEF For
<1>5. For(1, m, Twice) \in Seq(Steps)
  BY <1>1, <1>3, LoopIn DEF For
<1>6. QED
  BY <1>4, <1>5, CatIn DEF Test2, Mixed, Twice, m

LEMMA ErrorsIn == Test3 \in Seq(Steps) /\ Test4 \in Seq(Steps)
<1>1. pageId \in Registers /\ 1 \in 0 .. MaxPages
  BY NumbersIn
<1>2. /\ Read(test4, Lit(1)) \in Steps /\ Allot(test4, pageId) \in Steps
      /\ Unpin(test4, Reg(pageId), TRUE) \in Steps
      /\ Unpin(test4, Reg(pageId), FALSE) \in Steps
  BY <1>1, TestNames, StepsMade, ArgsMade
<1>3. /\ Throws(Read(test4, Lit(1)), "InvalidPage") \in Steps
      /\ Throws(Unpin(test4, Reg(pageId), FALSE), "PageNotPinned") \in Steps
  BY <1>2, InstrMade DEF Outcomes
<1>4. QED
  BY <1>2, <1>3, RowIn DEF Test3, Test4

LEMMA Test5In == Test5 \in Seq(Steps)
<1> DEFINE Written(k)  == <<Alloc(test5, k)>>
           Unpinned(k) == <<Unpin(test5, Lit(k), TRUE)>>
<1>1. ASSUME NEW k \in 1 .. Num
      PROVE  Written(1 + k - 1) \in Seq(Steps) /\ Unpinned(1 + k - 1) \in Seq(Steps)
  <2>1. k \in Registers /\ k \in 0 .. MaxPages /\ 1 + k - 1 = k
    BY NumbersIn
  <2>2. Alloc(test5, k) \in Steps /\ Unpin(test5, Lit(k), TRUE) \in Steps
    BY <2>1, TestNames, StepsMade, ArgsMade
  <2>3. QED
    BY <2>1, <2>2, RowIn
<1> HIDE DEF Written, Unpinned
<1>2. Num - 1 + 1 = Num /\ Num \in Nat
  BY NumbersIn
<1>3. For(1, Num, Written) \in Seq(Steps)
  BY <1>1, <1>2, LoopIn DEF For
<1>4. For(1, Num, Unpinned) \in Seq(Steps)
  BY <1>1, <1>2, LoopIn DEF For
<1>5. <<Throws(Allot(test5, pageId), "BufferExceeded")>> \in Seq(Steps)
  <2>1. Allot(test5, pageId) \in Steps
    BY NumbersIn, TestNames, StepsMade
  <2>2. Throws(Allot(test5, pageId), "BufferExceeded") \in Steps
    BY <2>1, InstrMade DEF Outcomes
  <2>3. QED
    BY <2>2
<1>6. QED
  BY <1>3, <1>4, <1>5, CatIn DEF Test5, Written, Unpinned

LEMMA Test6In == Test6 \in Seq(Steps)
<1> DEFINE Pinned(k)   == <<Read(test1, Lit(k))>>
           Unpinned(k) == <<Unpin(test1, Lit(k), TRUE)>>
<1>1. ASSUME NEW k \in 1 .. Num
      PROVE  Pinned(1 + k - 1) \in Seq(Steps) /\ Unpinned(1 + k - 1) \in Seq(Steps)
  <2>1. k \in 0 .. MaxPages /\ 1 + k - 1 = k
    BY NumbersIn
  <2>2. Read(test1, Lit(k)) \in Steps /\ Unpin(test1, Lit(k), TRUE) \in Steps
    BY <2>1, TestNames, StepsMade, ArgsMade
  <2>3. QED
    BY <2>1, <2>2, RowIn
<1> HIDE DEF Pinned, Unpinned
<1>2. Num - 1 + 1 = Num /\ Num \in Nat
  BY NumbersIn
<1>3. For(1, Num, Pinned) \in Seq(Steps)
  BY <1>1, <1>2, LoopIn DEF For
<1>4. For(1, Num, Unpinned) \in Seq(Steps)
  BY <1>1, <1>2, LoopIn DEF For
<1>5. /\ <<Throws(Flush(test1), "PagePinned")>> \in Seq(Steps)
      /\ <<Flush(test1)>> \in Seq(Steps)
  <2>1. Flush(test1) \in Steps
    BY TestNames, StepsMade
  <2>2. Throws(Flush(test1), "PagePinned") \in Steps
    BY <2>1, InstrMade DEF Outcomes
  <2>3. QED
    BY <2>1, <2>2
<1>6. QED
  BY <1>3, <1>4, <1>5, CatIn DEF Test6, Pinned, Unpinned

LEMMA EachIn ==
  ASSUME NEW op \in FileOps, NEW names \in Seq(Names)
  PROVE  Each(op, names) \in Seq(Steps)
<1>1. \A k \in 1 .. Len(names) : Of(op, names[k]) \in Steps
  BY StepsMade
<1>2. DOMAIN names = 1 .. Len(names) /\ Len(names) \in Nat
  OBVIOUS
<1>3. Each(op, names) = [k \in 1 .. Len(names) |-> Of(op, names[k])]
  BY <1>2 DEF Each
<1>4. QED
  BY <1>1, <1>2, <1>3

LEMMA TestFilesIn == TestFiles \in Seq(Names)
BY TestNames DEF TestFiles

LEMMA TestBufMgrIn == testBufMgr \in Seq(Steps)
<1>1. <<Of("manager", test1), Of("cleanup", test1)>> \in Seq(Steps)
  <2>1. Of("manager", test1) \in Steps /\ Of("cleanup", test1) \in Steps
    BY TestNames, StepsMade DEF FileOps
  <2>2. QED
    BY <2>1
<1>2. /\ Each("create", TestFiles) \in Seq(Steps) /\ Each("close", TestFiles) \in Seq(Steps)
      /\ Each("remove", TestFiles) \in Seq(Steps)
  BY TestFilesIn, EachIn DEF FileOps
<1>3. /\ Test1 \in Seq(Steps) /\ Test2 \in Seq(Steps) /\ Test3 \in Seq(Steps)
      /\ Test4 \in Seq(Steps) /\ Test5 \in Seq(Steps) /\ Test6 \in Seq(Steps)
  BY Test1In, Test2In, ErrorsIn, Test5In, Test6In
<1>4. QED
  BY <1>1, <1>2, <1>3, CatIn DEF testBufMgr

LEMMA ClockTestsIn ==
  /\ \A f \in Nat : ClockTest(f) \in Seq(Steps)
  /\ ClockTest3 \in Seq(Steps) /\ ClockTest4 \in Seq(Steps)
<1> DEFINE Written(k)  == <<Allot(algo_test, k)>>
           Unpinned(k) == <<Unpin(algo_test, Reg(k), FALSE)>>
<1>1. ASSUME NEW k \in 1 .. Num
      PROVE  Written(k) \in Seq(Steps) /\ Unpinned(k) \in Seq(Steps)
  <2>1. k \in Registers
    BY NumbersIn
  <2>2. Allot(algo_test, k) \in Steps /\ Unpin(algo_test, Reg(k), FALSE) \in Steps
    BY <2>1, TestNames, StepsMade, ArgsMade
  <2>3. QED
    BY <2>2, RowIn
<1>2. /\ Flush(algo_test) \in Steps
      /\ \A r \in Registers : /\ Allot(algo_test, r) \in Steps
                              /\ Unpin(algo_test, Reg(r), FALSE) \in Steps
      /\ \A f \in Nat, r \in Registers : InFrame(f, Reg(r)) \in Steps
  BY TestNames, StepsMade, ArgsMade, InstrMade
<1>3. ASSUME NEW f \in Nat PROVE ClockTest(f) \in Seq(Steps)
  <2>1. pageId \in Registers
    BY NumbersIn
  <2>2. /\ Allot(algo_test, pageId) \in Steps /\ Unpin(algo_test, Reg(pageId), FALSE) \in Steps
        /\ InFrame(f, Reg(pageId)) \in Steps /\ Flush(algo_test) \in Steps
    BY <1>2, <2>1
  <2>3. QED
    BY <2>2, RowIn DEF ClockTest
<1>4. ClockTest3 \in Seq(Steps)
  <2>1. /\ Num - 1 + 1 = Num /\ Num \in Nat /\ Held + 1 - 1 + 1 = Held + 1 /\ Held + 1 \in Nat
        /\ Num - (Held + 1) + 1 \in Nat /\ Held + 2 \in Nat
        /\ \A k \in 1 .. Num : 1 + k - 1 \in 1 .. Num
        /\ \A k \in 1 .. Held + 1 : 1 + k - 1 \in 1 .. Num
        /\ \A k \in 1 .. Num - (Held + 1) + 1 : Held + 1 + k - 1 \in 1 .. Num
    BY NumbersIn
  <2> HIDE DEF Written, Unpinned
  <2>2. For(1, Num, Written) \in Seq(Steps)
    BY <1>1, <2>1, LoopIn DEF For
  <2>3. For(Held + 1, Num, Unpinned) \in Seq(Steps)
    BY <1>1, <2>1, LoopIn DEF For
  <2>4. For(1, Held + 1, Unpinned) \in Seq(Steps)
    <3> DEFINE m == Held + 1
    <3>1. m - 1 + 1 = m /\ m \in Nat /\ \A k \in 1 .. m : 1 + k - 1 \in 1 .. Num
      BY <2>1
    <3> HIDE DEF m
    <3>2. For(1, m, Unpinned) \in Seq(Steps)
      BY <1>1, <3>1, LoopIn DEF For
    <3>3. QED
      BY <3>2 DEF m
  <2>5. <<Allot(algo_test, Held + 1), InFrame(Held + 2, Reg(Held + 1))>> \in Seq(Steps)
    <3>1. Held + 1 \in Registers
      BY NumbersIn
    <3>2. Allot(algo_test, Held + 1) \in Steps /\ InFrame(Held + 2, Reg(Held + 1)) \in Steps
      BY <1>2, <2>1, <3>1
    <3>3. QED
      BY <3>2
  <2>6. <<Flush(algo_test)>> \in Seq(Steps)
    BY <1>2
  <2>7. QED
    BY <2>2, <2>3, <2>4, <2>5, <2>6, CatIn DEF ClockTest3, Written, Unpinned
<1>5. ClockTest4 \in Seq(Steps)
  <2>1. 1 \in 0 .. MaxPages /\ Held + 3 \in Nat
    BY NumbersIn
  <2>2. /\ Read(algo_test, Lit(1)) \in Steps /\ InFrame(Held + 3, Lit(1)) \in Steps
        /\ Unpin(algo_test, Lit(1), FALSE) \in Steps /\ Flush(algo_test) \in Steps
    BY <2>1, TestNames, StepsMade, ArgsMade, InstrMade
  <2>3. QED
    BY <2>2, RowIn DEF ClockTest4
<1>6. QED
  BY <1>3, <1>4, <1>5

LEMMA TestClockIn == testBufMgrClock \in Seq(Steps)
<1>1. <<Of("manager", algo_test), Of("cleanup", algo_test), Of("create", algo_test)>>
        \in Seq(Steps)
  <2>1. /\ Of("manager", algo_test) \in Steps /\ Of("cleanup", algo_test) \in Steps
        /\ Of("create", algo_test) \in Steps
    BY TestNames, StepsMade DEF FileOps
  <2>2. QED
    BY <2>1
<1>2. <<Of("close", algo_test), Of("remove", algo_test)>> \in Seq(Steps)
  <2>1. Of("close", algo_test) \in Steps /\ Of("remove", algo_test) \in Steps
    BY TestNames, StepsMade DEF FileOps
  <2>2. QED
    BY <2>1
<1>3. QED
  BY <1>1, <1>2, ClockTestsIn, CatIn DEF testBufMgrClock

LEMMA PageTestIn == PageTest \in Seq(Steps)
<1> DEFINE Written(k)  == <<Allot(page_test, k)>>
           Unpinned(k) == <<Unpin(page_test, Lit(k), TRUE)>>
<1>1. ASSUME NEW k \in 1 .. Num
      PROVE  Written(k) \in Seq(Steps) /\ Unpinned(k) \in Seq(Steps)
  <2>1. k \in Registers /\ k \in 0 .. MaxPages
    BY NumbersIn
  <2>2. Allot(page_test, k) \in Steps /\ Unpin(page_test, Lit(k), TRUE) \in Steps
    BY <2>1, TestNames, StepsMade, ArgsMade
  <2>3. QED
    BY <2>2, RowIn
<1>2. /\ Num - 1 + 1 = Num /\ Num \in Nat /\ Num - 1 - 2 + 1 \in Nat
      /\ \A k \in 1 .. Num : 1 + k - 1 \in 1 .. Num
      /\ \A k \in 1 .. Num - 1 - 2 + 1 : 2 + k - 1 \in 1 .. Num
  BY NumbersIn
<1> HIDE DEF Written, Unpinned
<1>3. For(1, Num, Written) \in Seq(Steps)
  BY <1>1, <1>2, LoopIn DEF For
<1>4. For(2, Num - 1, Unpinned) \in Seq(Steps)
  BY <1>1, <1>2, LoopIn DEF For
<1>5. <<Unpin(page_test, Lit(1), TRUE),
        Throws(Unpin(page_test, Lit(1), TRUE), "PageNotPinned"),
        Unpin(page_test, Lit(0), TRUE),
        Throws(Unpin(page_test, Lit(1), TRUE), "PageNotPinned"),
        Unpin(page_test, Lit(Num), TRUE)>> \in Seq(Steps)
  <2>1. 0 \in 0 .. MaxPages /\ 1 \in 0 .. MaxPages /\ Num \in 0 .. MaxPages
    BY NumbersIn
  <2>2. /\ Unpin(page_test, Lit(0), TRUE) \in Steps /\ Unpin(page_test, Lit(1), TRUE) \in Steps
        /\ Unpin(page_test, Lit(Num), TRUE) \in Steps
    BY <2>1, TestNames, StepsMade, ArgsMade
  <2>3. Throws(Unpin(page_test, Lit(1), TRUE), "PageNotPinned") \in Steps
    BY <2>2, InstrMade DEF Outcomes
  <2>4. QED
    BY <2>2, <2>3, RowIn
<1>6. <<Flush(page_test)>> \in Seq(Steps)
  BY TestNames, StepsMade
<1>7. QED
  BY <1>3, <1>4, <1>5, <1>6, CatIn DEF PageTest, Written, Unpinned

LEMMA TestPageIn == testBufMgrPage \in Seq(Steps)
<1>1. \A op \in FileOps : Of(op, page_test) \in Steps /\ Of(op, page_test2) \in Steps
  BY TestNames, StepsMade
<1>2. {"cleanup", "create", "open", "close", "remove"} \subseteq FileOps
  BY DEF FileOps
<1>3. Throws(Of("open", page_test2), "FileNotFound") \in Steps
  BY <1>1, <1>2, InstrMade DEF Outcomes
<1>4. <<Of("cleanup", page_test), Of("create", page_test), Of("open", page_test)>>
        \in Seq(Steps)
  BY <1>1, <1>2
<1>5. <<Throws(Of("open", page_test2), "FileNotFound")>> \in Seq(Steps)
  BY <1>3
<1>6. <<Of("close", page_test), Of("close", page_test), Of("remove", page_test)>>
        \in Seq(Steps)
  BY <1>1, <1>2
<1>7. QED
  BY <1>4, <1>5, <1>6, PageTestIn, CatIn DEF testBufMgrPage

\* Every instruction of the tests is one of Steps.
LEMMA ScriptIn == Script \in Seq(Steps)
BY TestBufMgrIn, TestClockIn, TestPageIn, CatIn DEF Script
-----------------------------------------------------------------------------
(***************************************************************************)
(* The programs.                                                           *)
(***************************************************************************)
LEMMA ValueIn ==
  ASSUME pid \in [Registers -> 0 .. MaxPages], NEW arg \in Args
  PROVE  Value(arg) \in 0 .. MaxPages
<1>1. arg.reg \in 0 .. Num + 4 /\ arg.lit \in 0 .. MaxPages /\ Num \in Nat
  BY NumbersIn DEF Args
<1>2. CASE arg.reg = 0
  BY <1>1, <1>2 DEF Value
<1>3. CASE arg.reg # 0
  <2>1. arg.reg \in Registers
    BY <1>1, <1>3 DEF Registers
  <2>2. QED
    BY <1>3, <2>1 DEF Value
<1>4. QED
  BY <1>2, <1>3

\* A step of the tests: the call it makes has arguments of the right kind.
LEMMA IssueStep ==
  ASSUME IInv, Issue
  PROVE  IInv'
<1> DEFINE i == Script[ip]
<1>1. i \in Steps
  <2>1. ip \in 1 .. Len(Script)
    BY ScriptIn DEF IInv, TestInv, Issue
  <2>2. QED
    BY <2>1, ScriptIn
<1> HIDE DEF i
<1>2. pid' \in [Registers -> 0 .. MaxPages] /\ pid'[pageno1] \in 0 .. MaxPages
  <2>1. pid \in [Registers -> 0 .. MaxPages]
    BY DEF IInv, TestInv
  <2>2. \A k \in 1 .. Num : pid[k] \in 0 .. MaxPages
    BY <2>1, NumbersIn
  <2>3. pid' = pid \/ \E k \in 1 .. Num : pid' = [pid EXCEPT ![pageno1] = pid[k]]
    BY DEF Issue
  <2>4. pid' \in [Registers -> 0 .. MaxPages]
    BY <2>1, <2>2, <2>3
  <2>5. QED
    BY <2>4, NumbersIn
<1>3. TestInv'
  BY <1>2 DEF IInv, TestInv, Issue
<1>4. Does(i)
  BY DEF Issue, i
<1>5. i.arg \in Args /\ i.flag \in BOOLEAN /\ Value(i.arg) \in 0 .. MaxPages
  BY <1>1, StepIs, ValueIn DEF IInv, TestInv
<1>6. CASE i.op = "frame"
  <2>1. Returns("ok") /\ UNCHANGED <<bufDescTable, bufPool, ht, fileVars>>
    BY <1>4, <1>6 DEF Does
  <2>2. numBufs' = numBufs /\ clockHand' = clockHand /\ call' = NoCall
    BY <2>1, Returned
  <2>3. Sound(ht', bufDescTable', bufPool', disk', open_counts_', handles')
    BY <2>1 DEF IInv, PoolInv, fileVars, Sound
  <2>4. PoolInv'
    BY <2>2, <2>3, SoundNext DEF IInv
  <2>5. QED
    BY <1>3, <2>2, <2>4, Done
<1>7. CASE i.op \in FileOps
  <2>1. i.file \in Names
    BY <1>1, <1>7, StepIs
  <2>2. CASE i.op = "alloc"
    <3>1. AllocPage(i.file)
      BY <1>4, <2>2 DEF Does
    <3>2. QED
      BY <1>3, <2>1, <3>1, AllocPageStep
  <2>3. CASE i.op = "read"
    <3>1. ReadPage(i.file, Value(i.arg))
      BY <1>4, <2>3 DEF Does
    <3>2. QED
      BY <1>3, <1>5, <2>1, <3>1, ReadPageStep
  <2>4. CASE i.op = "random"
    <3>1. ReadPage(i.file, pid'[pageno1])
      BY <1>4, <2>4 DEF Does
    <3>2. QED
      BY <1>2, <1>3, <2>1, <3>1, ReadPageStep
  <2>5. CASE i.op = "unpin"
    <3>1. UnPinPage(i.file, Value(i.arg), i.flag)
      BY <1>4, <2>5 DEF Does
    <3>2. QED
      BY <1>3, <1>5, <2>1, <3>1, UnPinPageStep
  <2>6. CASE i.op = "flush"
    <3>1. FlushFile(i.file)
      BY <1>4, <2>6 DEF Does
    <3>2. QED
      BY <1>3, <2>1, <3>1, FlushFileStep
  <2>7. CASE i.op = "create"
    <3>1. Create(i.file)
      BY <1>4, <2>7 DEF Does
    <3>2. QED
      BY <1>3, <2>1, <3>1, CreateStep
  <2>8. CASE i.op = "open"
    <3>1. Open(i.file)
      BY <1>4, <2>8 DEF Does
    <3>2. QED
      BY <1>3, <2>1, <3>1, OpenStep
  <2>9. CASE i.op = "close"
    <3>1. Close(i.file)
      BY <1>4, <2>9 DEF Does
    <3>2. QED
      BY <1>3, <2>1, <3>1, CloseStep
  <2>10. CASE i.op = "remove"
    <3>1. RemoveFile(i.file)
      BY <1>4, <2>10 DEF Does
    <3>2. QED
      BY <1>3, <2>1, <3>1, RemoveFileStep
  <2>11. CASE i.op = "manager"
    <3>1. NewManager
      BY <1>4, <2>11 DEF Does
    <3>2. QED
      BY <1>3, <3>1, NewManagerStep
  <2>12. CASE i.op = "cleanup"
    <3> DEFINE names == IF i.file = test1 THEN TestFiles ELSE <<i.file>>
    <3>1. CleanUp(names)
      BY <1>4, <2>12 DEF Does
    <3>2. names \in Seq(Names)
      BY <2>1, TestFilesIn
    <3> HIDE DEF names
    <3>3. QED
      BY <1>3, <3>1, <3>2, CleanUpStep
  <2>13. QED
    BY <1>7, <2>2, <2>3, <2>4, <2>5, <2>6, <2>7, <2>8, <2>9, <2>10, <2>11, <2>12
       DEF FileOps
<1>8. QED
  BY <1>1, <1>6, <1>7, StepIs

\* A record written on a page in the pool changes no other field.
LEMMA RecordKept ==
  ASSUME NEW t, NEW d, NEW b, NEW files, NEW counts, NEW held,
         Sound(t, d, b, files, counts, held), NEW f \in Frames(numBufs), NEW n \in Names
  PROVE  Sound(t, d, [b EXCEPT ![f].data = n], files, counts, held)
<1> DEFINE b2 == [b EXCEPT ![f].data = n]
<1>1. b \in Pool /\ d \in Frame
  BY DEF Sound
<1>2. b2 \in Pool
  <2>1. b[f] \in [page_number : 0 .. MaxPages, data : Data] /\ n \in Data
    BY <1>1 DEF Pool, Data
  <2>2. [b[f] EXCEPT !.data = n] \in [page_number : 0 .. MaxPages, data : Data]
    BY <2>1
  <2>3. b2 = [b EXCEPT ![f] = [b[f] EXCEPT !.data = n]]
    BY <1>1 DEF Pool
  <2>4. QED
    BY <1>1, <2>2, <2>3 DEF Pool
<1>3. \A g \in Frames(numBufs) : b2[g].page_number = b[g].page_number
  BY <1>1 DEF Pool
<1> HIDE DEF b2
<1>4. PoolOnDisk(d, b2, files)
  <2>1. DOMAIN d = Frames(numBufs)
    BY <1>1 DEF Frame
  <2>2. PoolOnDisk(d, b, files)
    BY DEF Sound
  <2>3. QED
    BY <1>3, <2>1, <2>2 DEF PoolOnDisk
<1>5. Sound(t, d, b2, files, counts, held)
  BY <1>2, <1>4 DEF Sound
<1>6. QED
  BY <1>5 DEF b2

\* A result of the tests compared, and a record written on a new page.
LEMMA CheckStep ==
  ASSUME IInv, Check
  PROVE  IInv'
<1> DEFINE i == Script[ip]
           r == i.arg.reg
<1>1. clockHand \in Frames(numBufs) /\ numBufs' = numBufs /\ clockHand' = clockHand
  BY DEF IInv, Check
<1>2. call = NoCall /\ call' = NoCall
  BY DEF Check, Idle, clockVars
<1>3. i \in Steps
  <2>1. ip \in 1 .. Len(Script)
    BY ScriptIn DEF IInv, TestInv, Check
  <2>2. QED
    BY <2>1, ScriptIn
<1>4. Sound(ht, bufDescTable, bufPool, disk, open_counts_, handles)
  BY DEF IInv, PoolInv
<1>5. Sound(ht, bufDescTable, bufPool', disk, open_counts_, handles)
  <2>1. CASE i.op = "alloc" /\ bufPool' = [bufPool EXCEPT ![clockHand].data = i.file]
    <3>1. i.file \in Names
      BY <1>3, <2>1, StepIs DEF FileOps
    <3> HIDE DEF i
    <3>2. QED
      BY <1>1, <1>4, <2>1, <3>1, RecordKept
  <2>2. CASE bufPool' = bufPool
    BY <1>4, <2>2
  <2>3. QED
    BY <2>1, <2>2 DEF Check
<1>6. PoolInv'
  <2>1. UNCHANGED <<ht, bufDescTable, disk, open_counts_, handles>>
    BY DEF Check, fileVars
  <2>2. Sound(ht', bufDescTable', bufPool', disk', open_counts_', handles')
    BY <1>5, <2>1
  <2>3. QED
    BY <1>1, <2>2, SoundNext DEF IInv
<1>7. pid' \in [Registers -> 0 .. MaxPages]
  <2>1. pid \in [Registers -> 0 .. MaxPages]
    BY DEF IInv, TestInv
  <2>2. bufPool \in Pool
    BY <1>4 DEF Sound
  <2>3. bufPool[clockHand].page_number \in 0 .. MaxPages
    BY <1>1, <2>2 DEF Pool
  <2> DEFINE q == bufPool[clockHand].page_number
  <2>4. pid' = pid \/ pid' = [pid EXCEPT ![r] = q]
    BY DEF Check
  <2> HIDE DEF q, r
  <2>5. QED
    BY <2>1, <2>3, <2>4 DEF q
<1>8. TestInv'
  BY <1>7 DEF IInv, TestInv, Check
<1>9. QED
  BY <1>1, <1>2, <1>6, <1>8, Done

\* A call of the program of any calls.
LEMMA AnyCallStep ==
  ASSUME IInv, AnyCall
  PROVE  IInv'
<1>1. TestInv'
  BY TestInvKept DEF IInv, AnyCall
<1>2. AnyFiles \subseteq Names /\ 1 .. AnyPages + 1 \subseteq 0 .. MaxPages
  BY ScaleAssumption, FilesAssumption
<1>3. PICK n \in AnyFiles :
        \/ AllocPage(n)
        \/ FlushFile(n) \/ Create(n) \/ Open(n) \/ Close(n) \/ RemoveFile(n)
        \/ \E m \in AnyFiles : Assign(n, m)
        \/ \E p \in 1 .. AnyPages + 1 :
             \/ ReadPage(n, p) \/ DisposePage(n, p)
             \/ \E dirty \in BOOLEAN : UnPinPage(n, p, dirty)
  BY DEF AnyCall
<1>4. n \in Names
  BY <1>2
<1>5. CASE AllocPage(n)
  BY <1>1, <1>4, <1>5, AllocPageStep
<1>6. CASE FlushFile(n)
  BY <1>1, <1>4, <1>6, FlushFileStep
<1>7. CASE Create(n)
  BY <1>1, <1>4, <1>7, CreateStep
<1>8. CASE Open(n)
  BY <1>1, <1>4, <1>8, OpenStep
<1>9. CASE Close(n)
  BY <1>1, <1>4, <1>9, CloseStep
<1>10. CASE RemoveFile(n)
  BY <1>1, <1>4, <1>10, RemoveFileStep
<1>11. ASSUME NEW m \in AnyFiles, Assign(n, m) PROVE IInv'
  <2>1. m \in Names
    BY <1>2
  <2>2. QED
    BY <1>1, <1>4, <1>11, <2>1, AssignStep
<1>12. ASSUME NEW p \in 1 .. AnyPages + 1, ReadPage(n, p) PROVE IInv'
  <2>1. p \in 0 .. MaxPages
    BY <1>2
  <2>2. QED
    BY <1>1, <1>4, <1>12, <2>1, ReadPageStep
<1>13. ASSUME NEW p \in 1 .. AnyPages + 1, DisposePage(n, p) PROVE IInv'
  <2>1. p \in 0 .. MaxPages
    BY <1>2
  <2>2. QED
    BY <1>1, <1>4, <1>13, <2>1, DisposePageStep
<1>14. ASSUME NEW p \in 1 .. AnyPages + 1, NEW dirty \in BOOLEAN, UnPinPage(n, p, dirty)
       PROVE  IInv'
  <2>1. p \in 0 .. MaxPages
    BY <1>2
  <2>2. QED
    BY <1>1, <1>4, <1>14, <2>1, UnPinPageStep
<1>15. QED
  BY <1>3, <1>5, <1>6, <1>7, <1>8, <1>9, <1>10, <1>11, <1>12, <1>13, <1>14

\* The invariant holds at first and is kept by every step.
LEMMA StartInv == Init => IInv
<1> SUFFICES ASSUME Init PROVE IInv
  OBVIOUS
<1>1. PICK left : MgrInit(IF program = "any" THEN AnyBufs ELSE Num, OnDisk(left))
                  /\ ip = 1 /\ issued = FALSE /\ pid = [r \in Registers |-> 0]
  BY DEF Init, Start
<1> DEFINE bufs == IF program = "any" THEN AnyBufs ELSE Num
<1>2. bufs \in Nat \ {0}
  BY ScaleAssumption
<1>3. MgrInit(bufs, OnDisk(left))
  BY <1>1
<1> HIDE DEF bufs
<1>4. /\ OnDisk(left) \in [Names -> Files]
      /\ \A n \in Names : FreeSound(OnDisk(left)[n])
  BY NoFileIs DEF OnDisk
<1>5. /\ numBufs = bufs /\ clockHand = bufs - 1 /\ call = NoCall /\ disk = OnDisk(left)
      /\ bufDescTable = [f \in Frames(bufs) |-> Cleared]
      /\ bufPool = [f \in Frames(bufs) |-> [page_number |-> 0, data |-> Empty]]
      /\ ht = [i \in 0 .. HASHTABLE_SZ(bufs) - 1 |-> <<>>]
      /\ open_counts_ = [n \in Names |-> 0] /\ handles = [n \in Names |-> 0]
  BY <1>3 DEF MgrInit
<1>6. /\ handles \in [Names -> Nat] /\ \A n \in Names : handles[n] = 0
      /\ open_counts_ = [n \in Names |-> handles[n]]
  BY <1>5
<1>7. Fresh
  BY <1>2, <1>4, <1>5, <1>6 DEF Fresh
<1>8. clockHand \in Frames(numBufs) /\ call \in Calls
  BY <1>2, <1>5 DEF Frames, Calls
<1>9. TestInv
  <2>1. pid \in [Registers -> 0 .. MaxPages]
    BY <1>1, NumbersIn
  <2>2. QED
    BY <1>1, <2>1 DEF TestInv
<1>10. QED
  BY <1>5, <1>7, <1>8, <1>9, FreshIs DEF IInv, CallSound

LEMMA NextInv == IInv /\ [Next]_vars => IInv'
<1> SUFFICES ASSUME IInv, [Next]_vars PROVE IInv'
  OBVIOUS
<1>1. CASE AnyCall
  BY <1>1, AnyCallStep
<1>2. CASE Issue
  BY <1>2, IssueStep
<1>3. CASE Check
  BY <1>3, CheckStep
<1>4. CASE Turn
  <2>1. UNCHANGED testVars
    BY <1>4 DEF Turn
  <2>2. ClockPass \/ ClockExceeded \/ ReadInto \/ ReadNothing \/ AllocInto
    BY <1>4 DEF Turn, Clock
  <2>3. QED
    BY <2>1, <2>2, PassStep, ExceededStep, ReadIntoStep, ReadNothingStep, AllocIntoStep
<1>5. CASE UNCHANGED vars
  <2>1. UNCHANGED testVars /\ TestInv'
    BY <1>5, TestInvKept DEF vars, IInv
  <2>2. /\ numBufs' = numBufs /\ clockHand' = clockHand /\ call' = call
        /\ UNCHANGED <<bufDescTable, bufPool, ht, disk, open_counts_, handles>>
    BY <1>5 DEF vars, mgrVars, poolVars, fileVars, clockVars
  <2>3. PoolInv'
    BY <2>2, SoundNext DEF IInv, PoolInv
  <2>4. CallSound'
    BY <2>2 DEF IInv, CallSound, Has
  <2>5. QED
    BY <2>1, <2>2, <2>3, <2>4 DEF IInv
<1>6. QED
  BY <1>1, <1>2, <1>3, <1>4, <1>5 DEF Next

\* The frames, the hash table, the files and the open counts agree in every
\* state, whatever calls were made (BufMgr, BufHashTbl and File of
\* src/p2/src): the invariant that the two theorems below rest on.
THEOREM PoolInvariant == Spec => []IInv
<1>1. QED
  BY StartInv, NextInv, PTL DEF Spec
-----------------------------------------------------------------------------
(***************************************************************************)
(* What the invariant says: the buckets are as many as the frames in use.  *)
(***************************************************************************)
\* The frames in use whose keys belong to the chains T.
InChains(T) ==
  {f \in Frames(numBufs) :
     Valid(f) /\ hash(bufDescTable[f].file, bufDescTable[f].pageNo) \in T}

\* The fold over the table adds up the lengths of the chains.
LEMMA FoldIs ==
  ASSUME NEW t \in Table, NEW g,
         Adds(g, [i \in DOMAIN t |-> Len(t[i])], DOMAIN t), IsFiniteSet(DOMAIN t)
  PROVE  FoldFunction(LAMBDA chain, n : n + Len(chain), 0, t) = g[DOMAIN t]
<1> DEFINE A == DOMAIN t
           one(s) == CHOOSE x \in s : TRUE
           Body(f, s) == IF s = {} THEN 0 ELSE f[s \ {one(s)}] + Len(t[one(s)])
           iter == CHOOSE f : f = [s \in SUBSET A |-> Body(f, s)]
<1>1. FoldFunction(LAMBDA chain, n : n + Len(chain), 0, t) = iter[A]
  BY DEF FoldFunction, FoldFunctionOnSet, MapThenFoldSet
<1>2. \A s \in SUBSET A : s # {} => one(s) \in s /\ s \ {one(s)} \in SUBSET A
  OBVIOUS
<1>3. \A s \in SUBSET A : s # {} => g[s] = g[s \ {one(s)}] + Len(t[one(s)])
  <2> SUFFICES ASSUME NEW s \in SUBSET A, s # {}
               PROVE  g[s] = g[s \ {one(s)}] + Len(t[one(s)])
    OBVIOUS
  <2>1. one(s) \in s /\ one(s) \in A /\ s \ {one(s)} \in SUBSET A
    BY <1>2
  <2>2. Len(t[one(s)]) \in Nat
    BY <2>1, BucketIs
  <2> HIDE DEF one
  <2>3. g[s] = Len(t[one(s)]) + g[s \ {one(s)}] /\ g[s \ {one(s)}] \in Nat
    BY <2>1 DEF Adds
  <2>4. QED
    BY <2>2, <2>3
<1>4. g[{}] = 0
  BY DEF Adds
<1> DEFINE h == [s \in SUBSET A |-> g[s]]
<1>5. h = [s \in SUBSET A |-> Body(h, s)]
  <2> SUFFICES ASSUME NEW s \in SUBSET A PROVE h[s] = Body(h, s)
    OBVIOUS
  <2>1. CASE s = {}
    BY <1>4, <2>1
  <2>2. CASE s # {}
    <3> HIDE DEF one
    <3>1. QED
      BY <1>2, <1>3, <2>2
  <2>3. QED
    BY <2>1, <2>2
<1> HIDE DEF one, h
<1>6. iter = [s \in SUBSET A |-> Body(iter, s)]
  BY <1>5
<1> HIDE DEF iter
<1> DEFINE F == {s \in SUBSET A : iter[s] = g[s]}
<1>7. {} \in F
  <2>1. {} \in SUBSET A
    OBVIOUS
  <2>2. iter[{}] = 0
    BY <1>6, <2>1
  <2>3. QED
    BY <1>4, <2>1, <2>2
<1>8. ASSUME NEW s \in SUBSET A, s # {}, \A x \in s : s \ {x} \in F PROVE s \in F
  <2>1. iter[s] = iter[s \ {one(s)}] + Len(t[one(s)])
    BY <1>6, <1>8
  <2>2. iter[s \ {one(s)}] = g[s \ {one(s)}]
    BY <1>2, <1>8
  <2>3. QED
    BY <1>3, <1>8, <2>1, <2>2
<1> HIDE DEF F
<1>9. \A s \in SUBSET A : s \in F
  BY <1>7, <1>8, SubsetInduction
<1>10. A \in SUBSET A
  OBVIOUS
<1>11. QED
  BY <1>1, <1>9, <1>10 DEF F

\* A chain has a bucket for each of its frames.
LEMMA ChainLen ==
  ASSUME PoolInv, NEW i \in DOMAIN ht
  PROVE  Cardinality(InChains({i})) = Len(ht[i])
<1> DEFINE n == Len(ht[i])
           frame == [k \in 1 .. n |-> ht[i][k].frameNo]
           T == InChains({i})
<1>1. /\ ht \in Table /\ bufDescTable \in Frame /\ TableIs(ht, bufDescTable)
      /\ DOMAIN bufDescTable = Frames(numBufs)
  BY DEF PoolInv, Sound, Frame
<1>2. DOMAIN ht[i] = 1 .. n /\ n \in Nat
  BY <1>1, BucketIs
<1>3. ASSUME NEW k \in 1 .. n PROVE frame[k] \in T
  <2> DEFINE b == ht[i][k]
  <2>1. /\ b.frameNo \in Frames(numBufs)
        /\ Has(bufDescTable, b.frameNo, b.file, b.pageNo)
        /\ hash(b.file, b.pageNo) = i
    BY <1>1, <1>2 DEF TableIs
  <2>2. b.frameNo \in T
    BY <2>1 DEF Has, InChains, Valid
  <2>3. QED
    BY <2>2
<1>4. ASSUME NEW f \in T PROVE \E k \in 1 .. n : frame[k] = f
  <2>1. /\ f \in DOMAIN bufDescTable /\ bufDescTable[f].valid
        /\ hash(bufDescTable[f].file, bufDescTable[f].pageNo) = i
    BY <1>1 DEF InChains, Valid
  <2>2. \E k \in DOMAIN ht[i] : ht[i][k].frameNo = f
    BY <1>1, <2>1 DEF TableIs
  <2>3. QED
    BY <1>2, <2>2
<1>5. ASSUME NEW k \in 1 .. n, NEW m \in 1 .. n, frame[k] = frame[m] PROVE k = m
  BY <1>1, <1>2, <1>5 DEF TableIs
<1>6. frame \in [1 .. n -> T] /\ DOMAIN frame = 1 .. n
  BY <1>3
<1> HIDE DEF frame, T
<1>7. frame \in Bijection(1 .. n, T)
  BY <1>4, <1>5, <1>6 DEF Bijection, Injection, Surjection, IsInjective
<1>8. IsFiniteSet(1 .. n) /\ Cardinality(1 .. n) = n
  BY <1>2, NumbersCounted
<1>9. QED
  BY <1>7, <1>8, FS_Bijection DEF ExistsBijection, T

\* The lengths of the chains add up to the number of frames in use.
LEMMA ChainsCounted ==
  ASSUME PoolInv
  PROVE  FoldFunction(LAMBDA chain, n : n + Len(chain), 0, ht)
           = Cardinality({f \in Frames(numBufs) : Valid(f)})
<1> DEFINE A == DOMAIN ht
           w == [i \in A |-> Len(ht[i])]
<1>1. /\ ht \in Table /\ bufDescTable \in Frame /\ TableIs(ht, bufDescTable)
      /\ numBufs \in Nat \ {0} /\ A = 0 .. HASHTABLE_SZ(numBufs) - 1
  BY DEF PoolInv, Sound, Table
<1>2. IsFiniteSet(A)
  <2>1. HASHTABLE_SZ(numBufs) \in Nat
    BY <1>1 DEF HASHTABLE_SZ
  <2>2. QED
    BY <1>1, <2>1, FS_Interval
<1>3. w \in [A -> Nat]
  BY <1>1, BucketIs
<1>4. PICK g : Adds(g, w, A)
  BY <1>2, <1>3, AddsExists
<1>5. FoldFunction(LAMBDA chain, n : n + Len(chain), 0, ht) = g[A]
  BY <1>1, <1>2, <1>4, FoldIs
<1>6. IsFiniteSet(Frames(numBufs))
  BY <1>1, FS_Interval DEF Frames
<1>7. \A T : IsFiniteSet(InChains(T)) /\ Cardinality(InChains(T)) \in Nat
  <2> SUFFICES ASSUME NEW T
               PROVE  IsFiniteSet(InChains(T)) /\ Cardinality(InChains(T)) \in Nat
    OBVIOUS
  <2>1. InChains(T) \in SUBSET Frames(numBufs)
    BY DEF InChains
  <2>2. QED
    BY <1>6, <2>1, FS_Subset, FS_CardinalityType
<1> DEFINE F == {T \in SUBSET A : g[T] = Cardinality(InChains(T))}
<1>8. {} \in F
  <2>1. InChains({}) = {}
    BY DEF InChains
  <2>2. g[{}] = 0
    BY <1>4 DEF Adds
  <2>3. QED
    BY <2>1, <2>2, FS_EmptySet
<1>9. ASSUME NEW T \in SUBSET A, T # {}, \A x \in T : T \ {x} \in F PROVE T \in F
  <2>1. PICK x \in T : TRUE
    BY <1>9
  <2> DEFINE P == InChains(T \ {x})
             Q == InChains({x})
  <2>2. x \in A /\ T \ {x} \in F
    BY <1>9, <2>1
  <2>3. g[T] = w[x] + g[T \ {x}]
    <3> HIDE DEF w
    <3>1. QED
      BY <1>4, <2>1 DEF Adds
  <2>4. InChains(T) = P \cup Q /\ P \cap Q = {}
    BY <2>1 DEF InChains
  <2>5. Cardinality(P \cup Q) = Cardinality(P) + Cardinality(Q)
    <3>1. IsFiniteSet(P) /\ IsFiniteSet(Q) /\ Cardinality(P) \in Nat /\ Cardinality(Q) \in Nat
      BY <1>7
    <3> HIDE DEF P, Q
    <3>2. Cardinality(P \cup Q)
            = Cardinality(P) + Cardinality(Q) - Cardinality(P \cap Q)
      BY <3>1, FS_Union
    <3>3. Cardinality(P \cap Q) = 0
      BY <2>4, FS_EmptySet
    <3>4. QED
      BY <3>1, <3>2, <3>3
  <2>6. Cardinality(Q) = w[x]
    BY <2>2, ChainLen
  <2>7. g[T \ {x}] = Cardinality(P)
    BY <2>2
  <2>8. Cardinality(P) \in Nat /\ Cardinality(Q) \in Nat
    BY <1>7
  <2> HIDE DEF P, Q, w
  <2>9. g[T] = Cardinality(InChains(T))
    BY <2>3, <2>4, <2>5, <2>6, <2>7, <2>8
  <2>10. QED
    BY <2>9
<1> HIDE DEF F
<1>10. \A T \in SUBSET A : T \in F
  BY <1>2, <1>8, <1>9, SubsetInduction
<1>11. InChains(A) = {f \in Frames(numBufs) : Valid(f)}
  <2> SUFFICES ASSUME NEW f \in Frames(numBufs), Valid(f)
               PROVE  hash(bufDescTable[f].file, bufDescTable[f].pageNo) \in A
    BY DEF InChains
  <2>1. bufDescTable[f] \in Descs /\ bufDescTable[f].valid
    BY <1>1 DEF Frame, Valid
  <2>2. bufDescTable[f].file \in Names /\ bufDescTable[f].pageNo \in PageIds
    BY <2>1, DescIs
  <2>3. bufDescTable[f].pageNo \in 0 .. MaxPages
    BY <2>2, FilesAssumption DEF PageIds
  <2>4. QED
    BY <1>1, <2>2, <2>3, HashIn
<1>12. A \in F
  <2>1. A \in SUBSET A
    OBVIOUS
  <2>2. QED
    BY <1>10, <2>1
<1>13. QED
  BY <1>5, <1>11, <1>12 DEF F

\* The invariant says that the hash table and the frames match.
LEMMA InvTable == IInv => TableMatches
<1> SUFFICES ASSUME IInv PROVE TableMatches
  OBVIOUS
<1>1. PoolInv /\ numBufs \in Nat \ {0}
  BY DEF IInv, PoolInv
<1>2. /\ ht \in Table /\ bufDescTable \in Frame /\ TableIs(ht, bufDescTable)
      /\ PoolOnDisk(bufDescTable, bufPool, disk) /\ DOMAIN bufDescTable = Frames(numBufs)
  BY <1>1 DEF PoolInv, Sound, Frame
<1>3. ASSUME NEW f \in Frames(numBufs), Valid(f)
      PROVE  LET desc == bufDescTable[f] IN
               /\ Found(desc.file, desc.pageNo)
               /\ lookup(desc.file, desc.pageNo) = f
               /\ HasPage(disk[desc.file], desc.pageNo)
               /\ bufPool[f].page_number = desc.pageNo
  <2> DEFINE n == bufDescTable[f].file
             p == bufDescTable[f].pageNo
  <2>1. bufDescTable[f] \in Descs /\ bufDescTable[f].valid
    BY <1>2, <1>3 DEF Frame, Valid
  <2>2. n \in Names /\ p \in PageIds
    BY <2>1, DescIs
  <2>3. p \in 0 .. MaxPages
    BY <2>2, FilesAssumption DEF PageIds
  <2>4. Has(bufDescTable, f, n, p)
    BY <2>1 DEF Has
  <2>5. HasPage(disk[n], p) /\ bufPool[f].page_number = p
    BY <1>2, <2>1 DEF PoolOnDisk
  <2> HIDE DEF n, p
  <2>6. Found(n, p) /\ lookup(n, p) = f
    BY <1>1, <1>2, <2>2, <2>3, <2>4, LookupIs
  <2>7. QED
    BY <2>5, <2>6 DEF n, p
<1>4. QED
  BY <1>1, <1>3, ChainsCounted DEF TableMatches

\* It says how often a file counts as open.
LEMMA InvCounted == IInv => OpenCounted
<1> SUFFICES ASSUME IInv, NEW n \in Names
             PROVE  open_counts_[n]
                      = handles[n] + 2 * Cardinality({f \in FramesOf(n) : Valid(f)})
  BY DEF OpenCounted
<1>1. /\ bufDescTable \in Frame /\ DOMAIN bufDescTable = Frames(numBufs)
      /\ Counted(open_counts_, handles, bufDescTable)
  BY DEF IInv, PoolInv, Sound, Frame
<1>2. \A f \in Frames(numBufs) : bufDescTable[f].file = n => bufDescTable[f].valid
  BY <1>1, DescIs DEF Frame
<1>3. {f \in FramesOf(n) : Valid(f)} = On(bufDescTable, n)
  BY <1>1, <1>2 DEF FramesOf, Valid, On
<1>4. QED
  BY <1>1, <1>3 DEF Counted

\* In every state lookup finds each page of the pool in its own chain, once
\* and in the frame that holds it, the hash table has no other bucket, and
\* the page is in use in its file (BufHashTbl and BufMgr of src/p2/src).
THEOREM TableMatchesAlways == Spec => []TableMatches
<1>1. QED
  BY PoolInvariant, InvTable, PTL

\* In every state a file counts as open by the program's File objects on it
\* and by two for each of its pages in the pool: removing a file fails as
\* long as one is there, and no longer (File::open_counts_, file.cpp).
THEOREM OpenCountedAlways == Spec => []OpenCounted
<1>1. QED
  BY PoolInvariant, InvCounted, PTL
==============================================================================
