------------------------ MODULE RelationTestsProofs ------------------------
(***************************************************************************)
(* A FileScan, under a client that holds other pages and in the tests of   *)
(* main: it returns the records of any relation in their order, each once, *)
(* and no page outlives the File object it was read through.               *)
(***************************************************************************)
EXTENDS RelationTests, Iteration, SequenceTheorems

-----------------------------------------------------------------------------
(***************************************************************************)
(* The records of the first pages.                                         *)
(***************************************************************************)
\* The keys of the records of each page, and the places of records.
PagesOfAny == Seq(Seq(Nat))
Rids == Nat \X Nat

\* The first s records of page p, and all of them.
Firsts(p, s) == [i \in 1 .. s |-> <<p, i>>]
OfPage(pages, p) == Firsts(p, Len(pages[p]))

\* The records of the pages up to p.
Before(pages, p) == FlattenSeq([q \in 1 .. p |-> OfPage(pages, q)])

\* Every relation has a number of pages, every page one of records.
LEMMA PagesType ==
  ASSUME NEW pages \in PagesOfAny
  PROVE  Len(pages) \in Nat /\ \A p \in 1 .. Len(pages) : Len(pages[p]) \in Nat
<1>1. Len(pages) \in Nat /\ \A p \in 1 .. Len(pages) : pages[p] \in Seq(Nat)
  BY DEF PagesOfAny
<1>2. QED
  BY <1>1, LenProperties

\* The first records of a page are those before the last of them and that one.
LEMMA FirstsIs ==
  ASSUME NEW p \in Nat, NEW s \in Nat
  PROVE  /\ Firsts(p, s) \in Seq(Rids) /\ Len(Firsts(p, s)) = s
         /\ Firsts(p, 0) = <<>>
         /\ Append(Firsts(p, s), <<p, s + 1>>) = Firsts(p, s + 1)
<1>1. ASSUME NEW n \in Nat
      PROVE  /\ Firsts(p, n) \in Seq(Rids) /\ Len(Firsts(p, n)) = n
             /\ \A i \in 1 .. n : Firsts(p, n)[i] = <<p, i>>
  <2>1. \A i \in 1 .. n : <<p, i>> \in Rids
    BY DEF Rids
  <2>2. QED
    BY <2>1 DEF Firsts
<1>2. Firsts(p, 0) = <<>>
  BY DEF Firsts
<1> DEFINE a == Append(Firsts(p, s), <<p, s + 1>>)
<1>3. a \in Seq(Rids) /\ Len(a) = s + 1 /\ \A i \in 1 .. s + 1 : a[i] = <<p, i>>
  <2>1. Firsts(p, s) \in Seq(Rids) /\ Len(Firsts(p, s)) = s
    BY <1>1
  <2> <<p, s + 1>> \in Rids
    BY DEF Rids
  <2>2. /\ a \in Seq(Rids) /\ Len(a) = s + 1 /\ a[s + 1] = <<p, s + 1>>
        /\ \A i \in 1 .. s : a[i] = Firsts(p, s)[i]
    BY <2>1, AppendProperties
  <2> HIDE DEF a
  <2>3. ASSUME NEW i \in 1 .. s + 1 PROVE a[i] = <<p, i>>
    <3>1. CASE i = s + 1
      BY <2>2, <3>1
    <3>2. CASE i # s + 1
      <4>1. i \in 1 .. s
        BY <3>2
      <4>2. QED
        BY <1>1, <2>2, <4>1
    <3>3. QED
      BY <3>1, <3>2
  <2>4. QED
    BY <2>2, <2>3
<1> HIDE DEF a
<1>4. a = Firsts(p, s + 1)
  <2>1. s + 1 \in Nat
    OBVIOUS
  <2>2. /\ Firsts(p, s + 1) \in Seq(Rids) /\ Len(Firsts(p, s + 1)) = s + 1
        /\ \A i \in 1 .. s + 1 : Firsts(p, s + 1)[i] = <<p, i>>
    BY <1>1, <2>1
  <2>3. QED
    BY <1>3, <2>2, SeqEqual
<1>5. QED
  BY <1>1, <1>2, <1>4 DEF a

\* A record appended to the first ones of its page, behind those of others.
LEMMA OneMore ==
  ASSUME NEW b \in Seq(Rids), NEW p \in Nat, NEW s \in Nat
  PROVE  Append(Cat(b, Firsts(p, s)), <<p, s + 1>>) = Cat(b, Firsts(p, s + 1))
<1>1. PICK f \in Seq(Rids) : f = Firsts(p, s)
  BY FirstsIs
<1>2. PICK e \in Rids : e = <<p, s + 1>>
  <2>1. <<p, s + 1>> \in Rids
    BY DEF Rids
  <2>2. QED
    BY <2>1, Zenon
<1>3. Append(f, e) = Firsts(p, s + 1)
  BY <1>1, <1>2, FirstsIs
<1>4. Append(Cat(b, f), e) = Cat(b, Append(f, e))
  BY CatAppend
<1>5. QED
  BY <1>1, <1>2, <1>3, <1>4

\* The records up to a page are those up to the one before it and its own.
LEMMA BeforeIs ==
  ASSUME NEW pages \in PagesOfAny
  PROVE  /\ Before(pages, 0) = <<>>
         /\ \A p \in 0 .. Len(pages) : Before(pages, p) \in Seq(Rids)
         /\ \A p \in 1 .. Len(pages) :
              /\ OfPage(pages, p) \in Seq(Rids)
              /\ Before(pages, p) = Cat(Before(pages, p - 1), OfPage(pages, p))
<1> DEFINE lists(p) == [q \in 1 .. p |-> OfPage(pages, q)]
<1>1. Len(pages) \in Nat /\ \A p \in 1 .. Len(pages) : Len(pages[p]) \in Nat
  BY PagesType
<1>2. ASSUME NEW p \in 1 .. Len(pages) PROVE OfPage(pages, p) \in Seq(Rids)
  <2>1. p \in Nat /\ Len(pages[p]) \in Nat
    BY <1>1
  <2>2. QED
    BY <2>1, FirstsIs, Zenon DEF OfPage
<1>3. ASSUME NEW p \in 0 .. Len(pages)
      PROVE  /\ lists(p) \in Seq(Seq(Rids)) /\ Len(lists(p)) = p
             /\ \A q \in 1 .. p : lists(p)[q] = OfPage(pages, q)
  <2>1. p \in Nat /\ \A q \in 1 .. p : OfPage(pages, q) \in Seq(Rids)
    BY <1>1, <1>2
  <2>2. QED
    BY <2>1
<1>4. Before(pages, 0) = <<>>
  <2>1. 0 \in 0 .. Len(pages)
    BY <1>1
  <2>2. Len(lists(0)) = 0 /\ lists(0) \in Seq(Seq(Rids))
    BY <1>3, <2>1
  <2>3. lists(0) = <<>>
    BY <2>2, EmptySeq
  <2>4. FlattenSeq(lists(0)) = <<>>
    BY <2>2, <2>3 DEF FlattenSeq
  <2>5. QED
    BY <2>4 DEF Before
<1>5. ASSUME NEW p \in 0 .. Len(pages) PROVE Before(pages, p) \in Seq(Rids)
  BY <1>3, FlattenIn DEF Before
<1>6. ASSUME NEW p \in 1 .. Len(pages)
      PROVE  Before(pages, p) = Cat(Before(pages, p - 1), OfPage(pages, p))
  <2> DEFINE a == lists(p - 1)
             t == OfPage(pages, p)
  <2>1. p \in 0 .. Len(pages) /\ p - 1 \in 0 .. Len(pages) /\ p \in Nat
    BY <1>1
  <2>2. /\ a \in Seq(Seq(Rids)) /\ Len(a) = p - 1
        /\ \A q \in 1 .. p - 1 : a[q] = OfPage(pages, q)
    BY <1>3, <2>1
  <2>3. t \in Seq(Rids)
    BY <1>2
  <2>4. /\ lists(p) \in Seq(Seq(Rids)) /\ Len(lists(p)) = p
        /\ \A q \in 1 .. p : lists(p)[q] = OfPage(pages, q)
    BY <1>3, <2>1
  <2> HIDE DEF lists, a
  <2>5. Append(a, t) = lists(p)
    <3>1. /\ Append(a, t) \in Seq(Seq(Rids)) /\ Len(Append(a, t)) = p
          /\ Append(a, t)[p] = t /\ \A q \in 1 .. p - 1 : Append(a, t)[q] = a[q]
      <4>1. /\ Append(a, t) \in Seq(Seq(Rids)) /\ Len(Append(a, t)) = (p - 1) + 1
            /\ Append(a, t)[(p - 1) + 1] = t
            /\ \A q \in 1 .. p - 1 : Append(a, t)[q] = a[q]
        BY <2>2, <2>3, AppendProperties
      <4>2. (p - 1) + 1 = p
        BY <2>1
      <4>3. QED
        BY <4>1, <4>2
    <3>2. ASSUME NEW q \in 1 .. p PROVE Append(a, t)[q] = lists(p)[q]
      <4>1. q = p \/ q \in 1 .. p - 1
        BY <2>1
      <4>2. QED
        BY <2>2, <2>4, <3>1, <4>1
    <3>3. QED
      BY <2>4, <3>1, <3>2, SeqEqual
  <2>6. FlattenSeq(Append(a, t)) = Cat(FlattenSeq(a), t)
    BY <2>2, <2>3, FlattenGrows DEF Cat
  <2>7. QED
    BY <2>5, <2>6 DEF a, lists, Before
<1>7. QED
  BY <1>2, <1>4, <1>5, <1>6

\* What a sequence goes on from is a prefix of it.
LEMMA GoesOn ==
  ASSUME NEW T, NEW s \in Seq(T), NEW t \in Seq(T)
  PROVE  IsPrefix(s, Cat(s, t))
<1>1. /\ Len(s) \in Nat /\ Len(t) \in Nat
      /\ Cat(s, t) \in Seq(T) /\ Len(Cat(s, t)) = Len(s) + Len(t)
      /\ \A i \in 1 .. Len(s) + Len(t) :
           (Cat(s, t))[i] = IF i <= Len(s) THEN s[i] ELSE t[i - Len(s)]
  BY CatIs, LenProperties
<1> DEFINE n == Len(s)
           c == Cat(s, t)
<1> HIDE DEF c
<1>2. /\ SubSeq(s, 1, n) \in Seq(T) /\ Len(SubSeq(s, 1, n)) = n
      /\ \A i \in 1 .. n : SubSeq(s, 1, n)[i] = s[i]
  <2>1. n \in Int /\ \A i \in 1 .. n : s[i] \in T
    BY <1>1
  <2>2. QED
    BY <1>1, <2>1
<1>3. /\ SubSeq(c, 1, n) \in Seq(T) /\ Len(SubSeq(c, 1, n)) = n
      /\ \A i \in 1 .. n : SubSeq(c, 1, n)[i] = s[i]
  <2>1. c \in Seq(T) /\ Len(c) >= n /\ \A i \in 1 .. n : c[i] = s[i]
    BY <1>1 DEF c
  <2>2. QED
    BY <1>1, <2>1
<1>4. SubSeq(s, 1, n) = SubSeq(c, 1, n)
  BY <1>2, <1>3, SeqEqual
<1>5. QED
  BY <1>1, <1>4 DEF IsPrefix, c

\* The records up to a page go on to those up to a later one.
LEMMA BeforeGoesOn ==
  ASSUME NEW pages \in PagesOfAny, NEW p \in 0 .. Len(pages)
  PROVE  \E t \in Seq(Rids) : Before(pages, Len(pages)) = Cat(Before(pages, p), t)
<1> DEFINE F == {d \in Nat : p + d <= Len(pages) =>
                   \E t \in Seq(Rids) : Before(pages, p + d) = Cat(Before(pages, p), t)}
<1>1. Len(pages) \in Nat /\ p \in Nat
  BY PagesType
<1>2. Before(pages, p) \in Seq(Rids)
  BY BeforeIs
<1>3. 0 \in F
  <2>1. <<>> \in Seq(Rids) /\ Before(pages, p) = Cat(Before(pages, p), <<>>) /\ p + 0 = p
    BY <1>1, <1>2, EmptySeq, CatEmpty
  <2>2. QED
    BY <2>1
<1>4. ASSUME NEW d \in Nat, d \in F, p + (d + 1) <= Len(pages)
      PROVE  \E t \in Seq(Rids) : Before(pages, p + (d + 1)) = Cat(Before(pages, p), t)
  <2> DEFINE q == p + (d + 1)
  <2>1. q \in 1 .. Len(pages) /\ q - 1 = p + d /\ p + d <= Len(pages)
    BY <1>1, <1>4
  <2>2. PICK t \in Seq(Rids) : Before(pages, p + d) = Cat(Before(pages, p), t)
    BY <1>4, <2>1
  <2>3. Before(pages, q) = Cat(Before(pages, q - 1), OfPage(pages, q))
        /\ OfPage(pages, q) \in Seq(Rids)
    BY <2>1, BeforeIs
  <2> HIDE DEF q
  <2>4. Before(pages, q) = Cat(Before(pages, p), Cat(t, OfPage(pages, q)))
    <3>1. Cat(Cat(Before(pages, p), t), OfPage(pages, q))
            = Cat(Before(pages, p), Cat(t, OfPage(pages, q)))
      BY <1>2, <2>3, CatAssociative
    <3>2. QED
      BY <2>1, <2>2, <2>3, <3>1, Zenon
  <2>5. Cat(t, OfPage(pages, q)) \in Seq(Rids)
    BY <2>3, CatIs
  <2>6. QED
    BY <2>4, <2>5 DEF q
<1>5. ASSUME NEW d \in Nat, d \in F PROVE d + 1 \in F
  <2>1. d + 1 \in Nat
    OBVIOUS
  <2>2. QED
    BY <1>4, <1>5, <2>1, Zenon
<1> HIDE DEF F
<1>6. Len(pages) - p \in F
  <2>1. Len(pages) - p \in Nat
    BY <1>1
  <2>2. QED
    BY <1>3, <1>5, <2>1, SetInduction
<1>7. QED
  <2>1. p + (Len(pages) - p) = Len(pages) /\ Len(pages) <= Len(pages)
    BY <1>1
  <2>2. QED
    BY <1>6, <2>1 DEF F

\* The first records of a page, behind those of the pages before it, are a
\* prefix of all there are.
LEMMA FirstsPrefix ==
  ASSUME NEW pages \in PagesOfAny, NEW p \in 1 .. Len(pages), NEW s \in 0 .. Len(pages[p])
  PROVE  IsPrefix(Cat(Before(pages, p - 1), Firsts(p, s)), Before(pages, Len(pages)))
<1> DEFINE n == Len(pages[p])
           rest == [i \in 1 .. n - s |-> <<p, s + i>>]
           b == Before(pages, p - 1)
<1>1. /\ Len(pages) \in Nat /\ n \in Nat /\ p \in Nat /\ s \in Nat
      /\ p - 1 \in 0 .. Len(pages) /\ p \in 0 .. Len(pages)
  BY PagesType
<1> HIDE DEF n
<1>2. /\ Firsts(p, s) \in Seq(Rids) /\ Len(Firsts(p, s)) = s
      /\ Firsts(p, n) \in Seq(Rids) /\ Len(Firsts(p, n)) = n
  BY <1>1, FirstsIs
<1>3. rest \in Seq(Rids) /\ Len(rest) = n - s /\ \A i \in 1 .. n - s : rest[i] = <<p, s + i>>
  <2>1. n - s \in Nat /\ \A i \in 1 .. n - s : <<p, s + i>> \in Rids
    BY <1>1 DEF Rids, n
  <2>2. QED
    BY <2>1
<1> HIDE DEF rest, b
<1>4. Firsts(p, n) = Cat(Firsts(p, s), rest)
  <2> DEFINE c == Cat(Firsts(p, s), rest)
  <2>1. /\ c \in Seq(Rids) /\ Len(c) = s + (n - s)
        /\ \A i \in 1 .. s + (n - s) :
             c[i] = IF i <= s THEN Firsts(p, s)[i] ELSE rest[i - s]
    <3> HIDE DEF c
    <3>1. /\ c \in Seq(Rids) /\ Len(c) = Len(Firsts(p, s)) + Len(rest)
          /\ \A i \in 1 .. Len(Firsts(p, s)) + Len(rest) :
               c[i] = IF i <= Len(Firsts(p, s)) THEN Firsts(p, s)[i]
                      ELSE rest[i - Len(Firsts(p, s))]
      BY <1>2, <1>3, CatIs, Zenon DEF c
    <3>2. QED
      BY <1>2, <1>3, <3>1
  <2>2. s + (n - s) = n
    BY <1>1
  <2> HIDE DEF c
  <2>3. ASSUME NEW i \in 1 .. n PROVE Firsts(p, n)[i] = c[i]
    <3>1. Firsts(p, n)[i] = <<p, i>>
      BY DEF Firsts
    <3>2. CASE i <= s
      <4>1. i \in 1 .. s
        BY <1>1, <3>2
      <4>2. Firsts(p, s)[i] = <<p, i>>
        BY <4>1 DEF Firsts
      <4>3. QED
        BY <2>1, <2>2, <3>1, <3>2, <4>2
    <3>3. CASE ~ (i <= s)
      <4>1. i - s \in 1 .. n - s /\ s + (i - s) = i
        BY <1>1, <3>3
      <4>2. rest[i - s] = <<p, i>>
        BY <1>3, <4>1
      <4>3. QED
        BY <2>1, <2>2, <3>1, <3>3, <4>2
    <3>4. QED
      BY <3>2, <3>3
  <2>4. c = Firsts(p, n)
    BY <1>2, <2>1, <2>2, <2>3, SeqEqual
  <2>5. QED
    BY <2>4 DEF c
<1>5. b \in Seq(Rids) /\ Before(pages, p) = Cat(b, Firsts(p, n))
  BY <1>1, BeforeIs DEF OfPage, b, n
<1>6. PICK t \in Seq(Rids) : Before(pages, Len(pages)) = Cat(Before(pages, p), t)
  BY <1>1, BeforeGoesOn
<1>7. /\ Cat(b, Firsts(p, s)) \in Seq(Rids) /\ Cat(rest, t) \in Seq(Rids)
      /\ Cat(b, Cat(Firsts(p, s), rest)) \in Seq(Rids)
  BY <1>2, <1>3, <1>5, CatIs
<1>8. Before(pages, Len(pages)) = Cat(Cat(b, Firsts(p, s)), Cat(rest, t))
  <2>1. Cat(b, Cat(Firsts(p, s), rest)) = Cat(Cat(b, Firsts(p, s)), rest)
    BY <1>2, <1>3, <1>5, CatAssociative
  <2>2. Cat(Cat(Cat(b, Firsts(p, s)), rest), t) = Cat(Cat(b, Firsts(p, s)), Cat(rest, t))
    BY <1>3, <1>7, CatAssociative
  <2>3. QED
    BY <1>4, <1>5, <1>6, <2>1, <2>2
<1>9. IsPrefix(Cat(b, Firsts(p, s)), Cat(Cat(b, Firsts(p, s)), Cat(rest, t)))
  BY <1>7, GoesOn
<1>10. QED
  BY <1>8, <1>9 DEF b

-----------------------------------------------------------------------------
(***************************************************************************)
(* The pool.  q is pl after calls about pages of the file f: the pages of  *)
(* others keep their pins, and those that were pinned are still there.     *)
(***************************************************************************)
OnlyOf(f, pl, q) ==
  /\ \A k \in DOMAIN q : k[1] # f => k \in DOMAIN pl /\ q[k] = pl[k]
  /\ \A k \in DOMAIN pl : k[1] # f /\ pl[k] # 0 => k \in DOMAIN q

\* Calls about f after calls about f.
LEMMA OnlyOfTwice ==
  ASSUME NEW f, NEW pl, NEW q, NEW r, OnlyOf(f, pl, q), OnlyOf(f, q, r)
  PROVE  OnlyOf(f, pl, r)
<1>1. ASSUME NEW k \in DOMAIN pl, k[1] # f, pl[k] # 0 PROVE k \in DOMAIN r
  BY <1>1 DEF OnlyOf
<1>2. ASSUME NEW k \in DOMAIN r, k[1] # f PROVE k \in DOMAIN pl /\ r[k] = pl[k]
  BY <1>2 DEF OnlyOf
<1>3. QED
  BY <1>1, <1>2 DEF OnlyOf

\* A page that is read takes the frame of no pinned one.
LEMMA ReadsOnly ==
  ASSUME NEW f, NEW pl, NEW p, NEW q \in Reads(pl, f, p)
  PROVE  OnlyOf(f, pl, q)
<1> DEFINE page == <<f, p>>
<1>1. page[1] = f
  OBVIOUS
<1>2. CASE page \in DOMAIN pl
  <2>1. q = [pl EXCEPT ![page] = @ + 1]
    BY <1>2 DEF Reads
  <2> HIDE DEF page
  <2>2. QED
    BY <1>1, <2>1 DEF OnlyOf
<1>3. CASE page \notin DOMAIN pl
  <2>1. PICK v \in Victims(pl) :
          q = [k \in DOMAIN Drop(pl, v) \cup {page} |-> IF k = page THEN 1 ELSE pl[k]]
    BY <1>3 DEF Reads
  <2> HIDE DEF page
  <2>2. \A k \in v : k \in DOMAIN pl /\ pl[k] = 0
    BY DEF Victims
  <2>3. DOMAIN q = (DOMAIN pl \ v) \cup {page}
    BY <2>1 DEF Drop
  <2>4. \A k \in DOMAIN q : k # page => q[k] = pl[k]
    BY <2>1, <2>3
  <2>5. QED
    BY <1>1, <2>2, <2>3, <2>4 DEF OnlyOf
<1>4. QED
  BY <1>2, <1>3

\* A page is unpinned: no frame is given up.
LEMMA UnpinsOnly ==
  ASSUME NEW f, NEW pl, NEW p
  PROVE  OnlyOf(f, pl, Unpins(pl, f, p)) /\ DOMAIN Unpins(pl, f, p) = DOMAIN pl
<1> DEFINE page == <<f, p>>
<1>1. page[1] = f /\ Unpins(pl, f, p) = [pl EXCEPT ![page] = @ - 1]
  BY DEF Unpins
<1> HIDE DEF page
<1>2. QED
  BY <1>1 DEF OnlyOf

\* A file is flushed: no page of it stays.
LEMMA FlushOnly ==
  ASSUME NEW f, NEW pl
  PROVE  OnlyOf(f, pl, Flush(pl, f)) /\ \A k \in DOMAIN Flush(pl, f) : k[1] # f
BY DEF OnlyOf, Flush, Drop, PagesOf

\* What an insertion into the index, a descent in it, or a read of the
\* relation do to the pool.
LEMMA TouchOnly ==
  ASSUME NEW pl, NEW p, NEW q \in Touch(pl, p)
  PROVE  OnlyOf("index", pl, q)
<1>1. PICK r \in Reads(pl, "index", p) : q = Unpins(r, "index", p)
  BY DEF Touch
<1>2. OnlyOf("index", pl, r) /\ OnlyOf("index", r, q)
  BY <1>1, ReadsOnly, UnpinsOnly
<1>3. QED
  BY <1>2, OnlyOfTwice

\* An insertion in the index reads and unpins pages of its file.
LEMMA InsertsOnly ==
  ASSUME NEW pl, NEW q \in Inserts(pl)
  PROVE  OnlyOf("index", pl, q)
<1>1. CASE q = pl
  BY <1>1 DEF OnlyOf
<1>2. CASE q \in {Unpins(r, "index", 3) : r \in
                    UNION {Touch(m, 4) : m \in Reads(pl, "index", 3)}}
  <2>1. PICK m \in Reads(pl, "index", 3) :
          \E r \in Touch(m, 4) : q = Unpins(r, "index", 3)
    BY <1>2
  <2>2. PICK r \in Touch(m, 4) : q = Unpins(r, "index", 3)
    BY <2>1
  <2>3. OnlyOf("index", pl, m) /\ OnlyOf("index", m, r) /\ OnlyOf("index", r, q)
    BY <2>2, ReadsOnly, TouchOnly, UnpinsOnly
  <2>4. QED
    BY <2>3, OnlyOfTwice
<1>3. CASE q \in UNION {Touch(pl, p) : p \in LeafPages}
  BY <1>3, TouchOnly
<1>4. QED
  BY <1>1, <1>2, <1>3 DEF Inserts

\* A descent reads the meta page, the root and the page it ends on.
LEMMA DescentsOnly ==
  ASSUME NEW pl, NEW p, NEW q \in Descents(pl, p)
  PROVE  OnlyOf("index", pl, q)
<1>1. PICK m \in Touch(pl, Meta) : \E r \in Touch(m, Root) : q \in Reads(r, "index", p)
  BY DEF Descents
<1>2. PICK r \in Touch(m, Root) : q \in Reads(r, "index", p)
  BY <1>1
<1>3. OnlyOf("index", pl, m) /\ OnlyOf("index", m, r) /\ OnlyOf("index", r, q)
  BY <1>2, TouchOnly, ReadsOnly
<1>4. QED
  BY <1>3, OnlyOfTwice

\* A scan of the index that is ended gives back the page it holds.
LEMMA EndedOnly ==
  ASSUME NEW pl
  PROVE  OnlyOf("index", pl, Ended(pl))
<1>1. CASE index.page = 0
  BY <1>1 DEF Ended, OnlyOf
<1>2. CASE index.page # 0
  BY <1>2, UnpinsOnly DEF Ended
<1>3. QED
  BY <1>1, <1>2

\* The pages a scan has pinned: its current one, p, if it has one.
ScanPins(pl, cur, p) ==
  /\ cur # 0 => <<"fscan", p>> \in DOMAIN pl
  /\ \A k \in DOMAIN pl :
       k[1] = "fscan" => pl[k] = IF cur # 0 /\ k = <<"fscan", p>> THEN 1 ELSE 0

\* Calls about other files do not change them.
LEMMA OthersKeep ==
  ASSUME NEW f, f # "fscan", NEW pl, NEW q, OnlyOf(f, pl, q), NEW cur, NEW p,
         ScanPins(pl, cur, p)
  PROVE  ScanPins(q, cur, p)
<1> DEFINE page == <<"fscan", p>>
<1>1. page[1] = "fscan" /\ page[1] # f
  OBVIOUS
<1>2. cur # 0 => page \in DOMAIN pl
  BY DEF ScanPins
<1>3. \A k \in DOMAIN pl : k[1] = "fscan" => pl[k] = IF cur # 0 /\ k = page THEN 1 ELSE 0
  BY DEF ScanPins
<1> HIDE DEF page
<1>4. cur # 0 => page \in DOMAIN q
  BY <1>1, <1>2, <1>3 DEF OnlyOf
<1>5. \A k \in DOMAIN q : k[1] = "fscan" => pl[k] = q[k] /\ k \in DOMAIN pl
  BY DEF OnlyOf
<1>6. QED
  BY <1>3, <1>4, <1>5 DEF ScanPins, page

\* A scan that has no page pins the one it reads.
LEMMA ScanReads ==
  ASSUME NEW pl, NEW r, ScanPins(pl, 0, r), NEW p, NEW q \in Reads(pl, "fscan", p),
         NEW cur, cur # 0
  PROVE  ScanPins(q, cur, p)
<1> DEFINE page == <<"fscan", p>>
<1>1. \A k \in DOMAIN pl : k[1] = "fscan" => pl[k] = 0
  BY DEF ScanPins
<1>2. page[1] = "fscan"
  OBVIOUS
<1>3. page \in DOMAIN q /\ q[page] = 1
      /\ \A k \in DOMAIN q : k # page => k \in DOMAIN pl /\ q[k] = pl[k]
  <2>1. CASE page \in DOMAIN pl
    <3>1. q = [pl EXCEPT ![page] = @ + 1] /\ pl[page] = 0
      BY <1>1, <1>2, <2>1 DEF Reads
    <3> HIDE DEF page
    <3>2. QED
      BY <2>1, <3>1
  <2>2. CASE page \notin DOMAIN pl
    <3>1. PICK v \in Victims(pl) :
            q = [k \in DOMAIN Drop(pl, v) \cup {page} |-> IF k = page THEN 1 ELSE pl[k]]
      BY <2>2 DEF Reads
    <3> HIDE DEF page
    <3>2. DOMAIN q = (DOMAIN pl \ v) \cup {page}
      BY <3>1 DEF Drop
    <3>3. QED
      BY <3>1, <3>2
  <2>3. QED
    BY <2>1, <2>2
<1> HIDE DEF page
<1>4. QED
  BY <1>1, <1>3 DEF ScanPins, page

\* It unpins its page and then has a frame for the next: that page's, if
\* there is no other.
LEMMA ScanLeaves ==
  ASSUME NEW pl, NEW cur, cur # 0, NEW p, ScanPins(pl, cur, p), NEW q
  PROVE  /\ ScanPins(Unpins(pl, "fscan", p), 0, q)
         /\ Reads(Unpins(pl, "fscan", p), "fscan", q) # {}
<1> DEFINE page == <<"fscan", p>>
           left == Unpins(pl, "fscan", p)
<1>1. page \in DOMAIN pl /\ pl[page] = 1
      /\ \A k \in DOMAIN pl : k[1] = "fscan" /\ k # page => pl[k] = 0
  BY DEF ScanPins
<1>2. left = [pl EXCEPT ![page] = @ - 1]
  BY DEF Unpins
<1> HIDE DEF page, left
<1>3. DOMAIN left = DOMAIN pl /\ left[page] = 0
      /\ \A k \in DOMAIN left : k # page => left[k] = pl[k]
  BY <1>1, <1>2
<1>4. ScanPins(left, 0, q)
  BY <1>1, <1>3 DEF ScanPins
<1>5. {page} \in Victims(left)
  BY <1>1, <1>3 DEF Victims
<1>6. Reads(left, "fscan", q) # {}
  BY <1>5 DEF Reads
<1>7. QED
  BY <1>4, <1>6 DEF left

-----------------------------------------------------------------------------
(***************************************************************************)
(* The invariant of the scan.                                              *)
(***************************************************************************)
\* What may be in the file, and in the scan.
RelationOK(r) == r \in [exists : BOOLEAN, pages : PagesOfAny]

ScanType ==
  /\ scan \in [live : BOOLEAN, curPage : Nat, filePageIter : Nat, pageRecordIter : Nat]
  /\ scanning \in BOOLEAN

\* A scan without a page has returned nothing yet, or everything.
AtEnds ==
  LET pages == relation.pages
  IN  /\ ~ scanning
      /\ \/ scan.filePageIter = 1 /\ delivered = <<>>
         \/ scan.filePageIter = Len(pages) + 1 /\ delivered = Before(pages, Len(pages))

\* One on page p has returned the records before it and, of its own, those up
\* to the one it is on: all of them once it is at the end of the page.
OnPage ==
  LET p == scan.filePageIter
      pages == relation.pages
  IN  /\ scan.curPage = p /\ p \in 1 .. Len(pages)
      /\ scanning => scan.pageRecordIter = 0 /\ delivered = Before(pages, p)
      /\ ~ scanning =>
           /\ scan.pageRecordIter \in 1 .. Len(pages[p])
           /\ delivered = Cat(Before(pages, p - 1), Firsts(p, scan.pageRecordIter))

\* A relation does not change under a scan of it.
ScanInv ==
  /\ RelationOK(relation) /\ ScanType
  /\ ScanPins(pool, scan.curPage, scan.filePageIter)
  /\ scan.live =>
       /\ relation.exists
       /\ IF scan.curPage = 0 THEN AtEnds ELSE OnPage
  /\ ~ scan.live => scan = NoScan /\ ~ scanning /\ delivered = <<>>

\* The records of all pages are those of the relation.
LEMMA RecordIdsAre ==
  RecordIds = Before(relation.pages, Len(relation.pages))
BY DEF RecordIds, Before, OfPage, Firsts, NumPages, Records

\* What a scan has returned is a prefix of the records.
LEMMA ScanInTurn ==
  ASSUME ScanInv
  PROVE  EachInTurn
<1> DEFINE pages == relation.pages
           all == Before(pages, Len(pages))
<1>1. pages \in PagesOfAny /\ Len(pages) \in Nat
  BY PagesType DEF ScanInv, RelationOK
<1>2. all \in Seq(Rids) /\ Before(pages, 0) = <<>>
  <2>1. Len(pages) \in 0 .. Len(pages)
    BY <1>1
  <2>2. QED
    BY <1>1, <2>1, BeforeIs
<1>3. IsPrefix(<<>>, all)
  <2>1. <<>> \in Seq(Rids) /\ Cat(<<>>, all) = all
    BY <1>2, CatEmpty, EmptySeq
  <2>2. QED
    BY <1>2, <2>1, GoesOn
<1>4. IsPrefix(all, all)
  <2>1. <<>> \in Seq(Rids) /\ Cat(all, <<>>) = all
    BY <1>2, CatEmpty, EmptySeq
  <2>2. QED
    BY <1>2, <2>1, GoesOn
<1> HIDE DEF all
<1>5. CASE ~ scan.live
  BY <1>3, <1>5, RecordIdsAre DEF ScanInv, EachInTurn, all
<1>6. CASE scan.live /\ scan.curPage = 0
  <2>1. AtEnds
    BY <1>6 DEF ScanInv
  <2>2. CASE scan.filePageIter = 1 /\ delivered = <<>>
    <3>1. scan.filePageIter = End => Len(pages) = 0
      BY <1>1, <2>2 DEF End, NumPages
    <3>2. QED
      BY <1>2, <1>3, <2>2, <3>1, RecordIdsAre DEF EachInTurn, all
  <2>3. CASE scan.filePageIter = Len(pages) + 1 /\ delivered = Before(pages, Len(pages))
    BY <1>4, <2>3, RecordIdsAre DEF EachInTurn, all
  <2>4. QED
    BY <2>1, <2>2, <2>3 DEF AtEnds
<1>7. CASE scan.live /\ scan.curPage # 0
  <2> DEFINE p == scan.filePageIter
             slot == scan.pageRecordIter
  <2>1. OnPage
    BY <1>7 DEF ScanInv
  <2>2. p \in 1 .. Len(pages) /\ p # End /\ Len(pages[p]) \in Nat
    BY <1>1, <2>1, PagesType DEF OnPage, End, NumPages
  <2>3. \A s \in 0 .. Len(pages[p]) :
          IsPrefix(Cat(Before(pages, p - 1), Firsts(p, s)), all)
    <3> HIDE DEF pages, p
    <3>1. QED
      BY <1>1, <2>2, FirstsPrefix DEF all
  <2>4. Cat(Before(pages, p - 1), Firsts(p, Len(pages[p]))) = Before(pages, p)
    <3> HIDE DEF pages, p
    <3>1. QED
      BY <1>1, <2>2, BeforeIs DEF OfPage
  <2>5. \E s \in 0 .. Len(pages[p]) : delivered = Cat(Before(pages, p - 1), Firsts(p, s))
    <3>1. CASE scanning
      <4>1. delivered = Before(pages, p) /\ Len(pages[p]) \in 0 .. Len(pages[p])
        BY <2>1, <2>2, <3>1 DEF OnPage
      <4>2. QED
        BY <2>4, <4>1
    <3>2. CASE ~ scanning
      <4>1. /\ delivered = Cat(Before(pages, p - 1), Firsts(p, slot))
            /\ slot \in 0 .. Len(pages[p])
        BY <2>1, <2>2, <3>2 DEF OnPage
      <4>2. QED
        BY <4>1
    <3>3. QED
      BY <3>1, <3>2
  <2>6. IsPrefix(delivered, all)
    BY <2>3, <2>5
  <2>7. QED
    BY <2>2, <2>6, RecordIdsAre DEF EachInTurn, all
<1>8. QED
  BY <1>5, <1>6, <1>7

-----------------------------------------------------------------------------
(***************************************************************************)
(* The steps that keep it.                                                 *)
(***************************************************************************)
\* What others do to the pool.
LEMMA OtherSteps ==
  ASSUME ScanInv, UNCHANGED <<relation, scanVars>>,
         NEW f, f # "fscan", OnlyOf(f, pool, pool')
  PROVE  ScanInv'
<1>1. ScanPins(pool', scan.curPage, scan.filePageIter)
  BY OthersKeep DEF ScanInv
<1>2. QED
  BY <1>1 DEF ScanInv, ScanType, AtEnds, OnPage, scanVars

\* Steps that are about neither the pool nor the scan.
LEMMA IdleSteps ==
  ASSUME ScanInv, UNCHANGED <<relation, pool, scanVars>>
  PROVE  ScanInv'
<1>1. OnlyOf("file1", pool, pool')
  BY DEF OnlyOf
<1>2. QED
  BY <1>1, OtherSteps

\* The relation is written, or goes, while there is no scan of it.
LEMMA RelationSteps ==
  ASSUME ScanInv, UNCHANGED <<pool, scanVars>>, ~ scan.live, RelationOK(relation')
  PROVE  ScanInv'
BY DEF ScanInv, ScanType, scanVars

\* A scan begins without a page, and has returned nothing.
LEMMA NewScanStep ==
  ASSUME ScanInv, NewScan
  PROVE  ScanInv'
<1>1. /\ scan' \in [live : BOOLEAN, curPage : Nat, filePageIter : Nat, pageRecordIter : Nat]
      /\ scan'.live = TRUE /\ scan'.curPage = 0 /\ scan'.filePageIter = 1
  BY DEF NewScan, NoScan
<1>2. /\ scanning' = FALSE /\ delivered' = <<>> /\ relation' = relation /\ pool' = pool
      /\ relation.exists
  BY DEF NewScan
<1>3. ScanPins(pool', 0, 1)
  BY <1>2 DEF NewScan, ScanInv, NoScan, ScanPins
<1>4. AtEnds'
  BY <1>1, <1>2 DEF AtEnds
<1>5. QED
  BY <1>1, <1>2, <1>3, <1>4 DEF ScanInv, ScanType

\* At the end of the file scanNext changes nothing but what it throws.
LEMMA ScanEofStep ==
  ASSUME ScanInv, ScanEof
  PROVE  ScanInv'
<1>1. UNCHANGED <<relation, pool, scan, delivered>> /\ scanning' = FALSE /\ ~ scanning
  BY DEF ScanEof, Throw
<1>2. ScanType' /\ (AtEnds => AtEnds') /\ (OnPage => OnPage')
  BY <1>1 DEF ScanInv, ScanType, AtEnds, OnPage
<1>3. QED
  BY <1>1, <1>2 DEF ScanInv

\* A page is entered behind the records of those before it: the scan stands
\* on its first record, or at its end if it has none.
LEMMA Enters ==
  ASSUME NEW pages \in PagesOfAny, NEW p \in 1 .. Len(pages)
  PROVE  /\ Len(pages[p]) = 0 => Before(pages, p) = Before(pages, p - 1)
         /\ Append(Before(pages, p - 1), <<p, 1>>) = Cat(Before(pages, p - 1), Firsts(p, 1))
<1>1. p \in Nat /\ p - 1 \in 0 .. Len(pages)
  BY PagesType
<1>2. /\ Before(pages, p - 1) \in Seq(Rids)
      /\ Before(pages, p) = Cat(Before(pages, p - 1), OfPage(pages, p))
  BY <1>1, BeforeIs
<1>3. Cat(Before(pages, p - 1), Firsts(p, 0)) = Before(pages, p - 1)
  BY <1>1, <1>2, FirstsIs, CatEmpty
<1>4. Len(pages[p]) = 0 => Before(pages, p) = Before(pages, p - 1)
  BY <1>2, <1>3 DEF OfPage
<1>5. Append(Cat(Before(pages, p - 1), Firsts(p, 0)), <<p, 0 + 1>>)
        = Cat(Before(pages, p - 1), Firsts(p, 0 + 1))
  BY <1>1, <1>2, OneMore
<1>6. 0 + 1 = 1
  OBVIOUS
<1>7. QED
  BY <1>3, <1>4, <1>5, <1>6

\* scanNext on the first page, or on the next, p.
LEMMA EnterStep ==
  ASSUME ScanInv, NEW p \in 1 .. NumPages, scan.live, relation' = relation,
         delivered = Before(relation.pages, p - 1),
         ScanPins(pool', p, p),
         scan' = [scan EXCEPT !.curPage = p, !.filePageIter = p,
                              !.pageRecordIter = FirstRecord(p)],
         IF FirstRecord(p) # 0 THEN Return(p, 1)
         ELSE scanning' = TRUE /\ delivered' = delivered
  PROVE  ScanInv'
<1> DEFINE pages == relation.pages
           n == Len(pages[p])
<1>1. pages \in PagesOfAny /\ Len(pages) \in Nat /\ p \in 1 .. Len(pages) /\ n \in Nat
  BY PagesType DEF ScanInv, RelationOK, NumPages
<1>2. FirstRecord(p) = IF 0 < n THEN 1 ELSE 0
  BY DEF FirstRecord, NextRecord, Records
<1>3. /\ scan' \in [live : BOOLEAN, curPage : Nat, filePageIter : Nat, pageRecordIter : Nat]
      /\ scan'.live = TRUE /\ scan'.curPage = p /\ scan'.filePageIter = p
      /\ scan'.pageRecordIter = FirstRecord(p)
  <2>1. p \in Nat /\ FirstRecord(p) \in Nat
    BY <1>1, <1>2
  <2>2. QED
    BY <2>1 DEF ScanInv, ScanType
<1>4. /\ n = 0 => Before(pages, p) = Before(pages, p - 1)
      /\ Append(Before(pages, p - 1), <<p, 1>>) = Cat(Before(pages, p - 1), Firsts(p, 1))
  BY <1>1, Enters
<1>5. p # 0 /\ p \in Nat
  BY <1>1
<1>6. RelationOK(relation') /\ relation'.exists
  BY DEF ScanInv
<1> HIDE DEF n
<1>7. CASE 0 < n
  <2>1. scanning' = FALSE /\ delivered' = Append(delivered, <<p, 1>>)
    BY <1>2, <1>7 DEF Return
  <2>2. ScanType'
    BY <1>3, <2>1 DEF ScanType
  <2>3. OnPage'
    BY <1>1, <1>2, <1>3, <1>4, <1>7, <2>1 DEF OnPage, n
  <2>4. QED
    BY <1>3, <1>5, <1>6, <2>2, <2>3 DEF ScanInv
<1>8. CASE ~ (0 < n)
  <2>1. scanning' = TRUE /\ delivered' = delivered /\ n = 0
    BY <1>1, <1>2, <1>8
  <2>2. ScanType'
    BY <1>3, <2>1 DEF ScanType
  <2>3. OnPage'
    BY <1>1, <1>2, <1>3, <1>4, <1>8, <2>1 DEF OnPage
  <2>4. QED
    BY <1>3, <1>5, <1>6, <2>2, <2>3 DEF ScanInv
<1>9. QED
  BY <1>7, <1>8

\* A scan without a page that is not at the end is at the start.
LEMMA WithoutPage ==
  ASSUME ScanInv, scan.live, scan.curPage = 0, scan.filePageIter # End
  PROVE  /\ ~ scanning /\ scan.filePageIter = 1 /\ 1 \in 1 .. NumPages
         /\ delivered = Before(relation.pages, 1 - 1)
<1>1. AtEnds /\ RelationOK(relation)
  BY DEF ScanInv
<1>2. Len(relation.pages) \in Nat /\ Before(relation.pages, 0) = <<>>
  BY <1>1, PagesType, BeforeIs DEF RelationOK
<1>3. scan.filePageIter = 1 /\ delivered = <<>> /\ ~ scanning
  BY <1>1 DEF AtEnds, End, NumPages
<1>4. Len(relation.pages) # 0
  BY <1>3 DEF End, NumPages
<1>5. QED
  BY <1>2, <1>3, <1>4 DEF NumPages

\* scanNext without a page reads the first one.
LEMMA ScanFirstStep ==
  ASSUME ScanInv, ScanFirst
  PROVE  ScanInv'
<1>1. /\ 1 \in 1 .. NumPages /\ scan.live /\ relation' = relation
      /\ delivered = Before(relation.pages, 1 - 1)
  BY WithoutPage DEF ScanFirst
<1>2. ScanPins(pool', 1, 1)
  <2>1. ScanPins(pool, 0, scan.filePageIter)
    BY DEF ScanInv, ScanFirst
  <2>2. QED
    BY <2>1, ScanReads DEF ScanFirst
<1>3. /\ scan' = [scan EXCEPT !.curPage = 1, !.filePageIter = 1,
                              !.pageRecordIter = FirstRecord(1)]
      /\ IF FirstRecord(1) # 0 THEN Return(1, 1)
         ELSE scanning' = TRUE /\ delivered' = delivered
  BY DEF ScanFirst
<1>4. QED
  BY <1>1, <1>2, <1>3, EnterStep

\* No frame is free for it: the scan stays before the first page.
LEMMA ScanFirstExceededStep ==
  ASSUME ScanInv, ScanFirstExceeded
  PROVE  ScanInv'
<1>1. scan.filePageIter = 1 /\ ~ scanning
  BY WithoutPage DEF ScanFirstExceeded
<1>2. scan' = scan
  BY <1>1 DEF ScanFirstExceeded, ScanInv, ScanType
<1>3. scanning' = scanning /\ delivered' = delivered /\ UNCHANGED <<relation, pool>>
  BY <1>1 DEF ScanFirstExceeded, Throw, ScanInv, ScanType
<1>4. QED
  BY <1>2, <1>3 DEF ScanInv, ScanType, AtEnds, OnPage

\* scanNext goes on to the next record of the page, or to its end.
LEMMA ScanWithinStep ==
  ASSUME ScanInv, ScanWithin
  PROVE  ScanInv'
<1> DEFINE p == scan.filePageIter
           pages == relation.pages
           n == Len(pages[p])
           slot == scan.pageRecordIter
           b == Before(pages, p - 1)
<1>1. scan.live /\ ~ scanning /\ scan.curPage # 0 /\ OnPage
  BY DEF ScanWithin, ScanInv
<1>2. /\ scan.curPage = p /\ p \in 1 .. Len(pages) /\ slot \in 1 .. n
      /\ delivered = Cat(b, Firsts(p, slot))
  BY <1>1 DEF OnPage
<1>3. pages \in PagesOfAny /\ Len(pages) \in Nat /\ n \in Nat /\ p \in Nat /\ slot \in Nat
      /\ p - 1 \in 0 .. Len(pages)
  BY <1>2, PagesType DEF ScanInv, RelationOK
<1>4. /\ b \in Seq(Rids) /\ Before(pages, p) = Cat(b, Firsts(p, n))
  <2> HIDE DEF pages, p
  <2>1. QED
    BY <1>2, <1>3, BeforeIs DEF OfPage
<1>5. NextRecord(scan.curPage, slot) = IF slot < n THEN slot + 1 ELSE 0
  BY <1>2 DEF NextRecord, Records
<1>6. UNCHANGED <<relation, pool>>
  BY DEF ScanWithin
<1>7. scan' = [live |-> TRUE, curPage |-> p, filePageIter |-> p,
               pageRecordIter |-> NextRecord(scan.curPage, slot)]
  BY <1>1, <1>2 DEF ScanWithin, ScanInv, ScanType
<1>8. ScanPins(pool', p, p) /\ RelationOK(relation') /\ relation'.exists
  BY <1>1, <1>2, <1>6 DEF ScanInv
<1>9. CASE slot < n
  <2>1. scanning' = FALSE /\ delivered' = Append(delivered, <<p, slot + 1>>)
    BY <1>2, <1>3, <1>5, <1>9 DEF ScanWithin, Return
  <2>2. delivered' = Cat(b, Firsts(p, slot + 1))
    <3> HIDE DEF b, p, slot
    <3>1. Append(Cat(b, Firsts(p, slot)), <<p, slot + 1>>) = Cat(b, Firsts(p, slot + 1))
      BY <1>3, <1>4, OneMore
    <3>2. QED
      BY <1>2, <2>1, <3>1
  <2>3. slot + 1 \in 1 .. n /\ slot + 1 \in Nat
    <3> HIDE DEF slot, n
    <3>1. QED
      BY <1>3, <1>9
  <2>4. ScanType'
    BY <1>3, <1>5, <1>7, <1>9, <2>1, <2>3 DEF ScanType
  <2>5. OnPage'
    BY <1>2, <1>5, <1>6, <1>7, <1>9, <2>1, <2>2, <2>3 DEF OnPage
  <2>6. QED
    BY <1>2, <1>7, <1>8, <2>4, <2>5 DEF ScanInv
<1>10. CASE ~ (slot < n)
  <2>1. scanning' = TRUE /\ delivered' = delivered /\ slot = n
    BY <1>2, <1>3, <1>5, <1>10 DEF ScanWithin
  <2>2. ScanType'
    BY <1>3, <1>5, <1>7, <1>10, <2>1 DEF ScanType
  <2>3. OnPage'
    BY <1>2, <1>4, <1>5, <1>6, <1>7, <1>10, <2>1 DEF OnPage
  <2>4. QED
    BY <1>2, <1>7, <1>8, <2>2, <2>3 DEF ScanInv
<1>11. QED
  BY <1>9, <1>10

\* In the loop the scan is at the end of its page, which it leaves.
LEMMA InLoop ==
  ASSUME ScanInv, scanning
  PROVE  /\ scan.live /\ scan.curPage # 0 /\ scan.filePageIter \in 1 .. NumPages
         /\ delivered = Before(relation.pages, scan.filePageIter)
         /\ \A q : /\ ScanPins(Unpins(pool, "fscan", scan.filePageIter), 0, q)
                   /\ Left(q) # {}
<1>1. scan.live /\ scan.curPage # 0 /\ OnPage
  BY DEF ScanInv, AtEnds
<1>2. \A q : /\ ScanPins(Unpins(pool, "fscan", scan.filePageIter), 0, q)
             /\ Left(q) # {}
  BY <1>1, ScanLeaves DEF ScanInv, Left
<1>3. QED
  BY <1>1, <1>2 DEF OnPage, NumPages

\* The loop leaves the page for the next: the frame left is free, so the
\* read finds one.
LEMMA ScanTurnStep ==
  ASSUME ScanInv, ScanTurn
  PROVE  ScanInv'
<1> DEFINE i == scan.filePageIter
           p == i + 1
           pages == relation.pages
<1>1. /\ scan.live /\ i \in 1 .. NumPages
      /\ delivered = Before(pages, i) /\ Left(p) # {}
      /\ ScanPins(Unpins(pool, "fscan", i), 0, p)
  BY InLoop DEF ScanTurn
<1>2. NumPages \in Nat
  BY PagesType DEF ScanInv, RelationOK, NumPages
<1>3. p \in 1 .. NumPages /\ p - 1 = i /\ p # 0
  BY <1>1, <1>2 DEF ScanTurn, End
<1>4. /\ pool' \in Left(p) /\ relation' = relation
      /\ scan' = [scan EXCEPT !.curPage = p, !.filePageIter = p,
                              !.pageRecordIter = FirstRecord(p)]
      /\ IF FirstRecord(p) # 0 THEN Return(p, 1)
         ELSE scanning' = TRUE /\ delivered' = delivered
  BY <1>1 DEF ScanTurn, ScanInv, ScanType
<1> HIDE DEF p
<1>5. ScanPins(pool', p, p)
  BY <1>1, <1>3, <1>4, ScanReads DEF Left
<1>6. QED
  BY <1>1, <1>3, <1>4, <1>5, EnterStep

\* The loop leaves the last page, and the records are all returned.
LEMMA ScanTurnLastStep ==
  ASSUME ScanInv, ScanTurnLast
  PROVE  ScanInv'
<1> DEFINE i == scan.filePageIter
<1>1. /\ scan.live /\ i \in 1 .. NumPages
      /\ delivered = Before(relation.pages, i)
      /\ ScanPins(Unpins(pool, "fscan", i), 0, End)
  BY InLoop DEF ScanTurnLast
<1>2. NumPages \in Nat /\ RelationOK(relation) /\ relation.exists
  BY <1>1, PagesType DEF ScanInv, RelationOK, NumPages
<1>3. i = NumPages
  BY <1>1, <1>2 DEF ScanTurnLast, End
<1>4. scan' = [scan EXCEPT !.curPage = 0, !.filePageIter = End]
  BY DEF ScanTurnLast
<1>5. /\ scan' \in [live : BOOLEAN, curPage : Nat, filePageIter : Nat, pageRecordIter : Nat]
      /\ scan'.live = TRUE /\ scan'.curPage = 0 /\ scan'.filePageIter = End
  <2>1. End \in Nat
    BY <1>2 DEF End
  <2>2. QED
    BY <1>1, <1>4, <2>1 DEF ScanInv, ScanType
<1>6. /\ scanning' = FALSE /\ delivered' = delivered /\ relation' = relation
      /\ pool' = Unpins(pool, "fscan", i)
  BY DEF ScanTurnLast, Throw
<1>7. AtEnds'
  BY <1>1, <1>3, <1>5, <1>6 DEF AtEnds, End, NumPages
<1>8. QED
  BY <1>1, <1>2, <1>5, <1>6, <1>7 DEF ScanInv, ScanType

\* The destructor releases what the scan has pinned.
LEMMA DeleteScanStep ==
  ASSUME ScanInv, DeleteScan
  PROVE  ScanInv'
<1>1. \A k \in DOMAIN pool' : k[1] # "fscan"
  BY FlushOnly DEF DeleteScan, Deleted
<1>2. ScanPins(pool', 0, 0)
  BY <1>1 DEF ScanPins
<1>3. QED
  BY <1>2 DEF DeleteScan, ScanInv, ScanType, NoScan

-----------------------------------------------------------------------------
(***************************************************************************)
(* The tests.                                                              *)
(***************************************************************************)
\* Every instruction of the script that has no argument, the orders of a new
\* relation, and the instructions.
Names == {"index", "delete index", "remove index", "delete file1", "remove relation",
          "write", "scan"}
OrderNames == {"forward", "backward", "random", "large"}
Instrs ==
  {Instr(op) : op \in Names} \cup {Create(order) : order \in OrderNames}
  \cup {Query(keys) : keys \in SUBSET Int}

\* What may be open, of file1 and the index, after an instruction before
\* which open was, if it comes in its place: a query needs both.
Steps(instr, open, next) ==
  /\ instr.op = "create" => instr.arg \in OrderNames
  /\ instr.op = "query" => "file1" \in open /\ "index" \in open
  /\ "file1" \in next =>
       instr.op = "create" \/ ("file1" \in open /\ instr.op # "delete file1")
  /\ "index" \in next =>
       instr.op = "index" \/ ("index" \in open /\ instr.op # "delete index")

\* What of file1 and the index may be open.
Opens == SUBSET {"file1", "index"}

\* w[i] is what is open after i instructions of s.
Walk(w, s) ==
  /\ w \in [0 .. Len(s) -> Opens]
  /\ \A i \in 1 .. Len(s) : Steps(s[i], w[i - 1], w[i])

\* s can run where open is, and leaves next open.
Runs(s, open, next) ==
  /\ s \in Seq(Instrs)
  /\ \E w : Walk(w, s) /\ w[0] = open /\ w[Len(s)] = next

\* What the constructors of instructions make.
LEMMA InstrsAre ==
  /\ \A op \in Names : Instr(op) \in Instrs /\ Instr(op).op = op
  /\ \A order \in OrderNames : /\ Create(order) \in Instrs
                               /\ Create(order).op = "create" /\ Create(order).arg = order
  /\ \A keys \in SUBSET Int : Query(keys) \in Instrs /\ Query(keys).op = "query"
<1>1. ASSUME NEW op \in Names PROVE Instr(op) \in Instrs /\ Instr(op).op = op
  <2>1. Instr(op) \in Instrs
    BY DEF Instrs
  <2>2. QED
    BY <2>1 DEF Instr
<1>2. ASSUME NEW order \in OrderNames
      PROVE  /\ Create(order) \in Instrs
             /\ Create(order).op = "create" /\ Create(order).arg = order
  <2>1. Create(order) \in Instrs
    BY DEF Instrs
  <2>2. QED
    BY <2>1 DEF Create
<1>3. ASSUME NEW keys \in SUBSET Int PROVE Query(keys) \in Instrs /\ Query(keys).op = "query"
  <2>1. Query(keys) \in Instrs
    BY DEF Instrs
  <2>2. QED
    BY <2>1 DEF Query
<1>4. QED
  BY <1>1, <1>2, <1>3

\* An instruction by itself.
LEMMA OneRuns ==
  ASSUME NEW i \in Instrs, NEW open \in Opens, NEW next \in Opens, Steps(i, open, next)
  PROVE  Runs(<<i>>, open, next)
<1> DEFINE s == <<i>>
           w == [n \in 0 .. 1 |-> IF n = 0 THEN open ELSE next]
<1>1. s \in Seq(Instrs) /\ Len(s) = 1 /\ s[1] = i
  OBVIOUS
<1>2. w \in [0 .. 1 -> Opens] /\ w[0] = open /\ w[1] = next
  OBVIOUS
<1> HIDE DEF s, w
<1>3. \A n \in 1 .. 1 : n = 1 /\ n - 1 = 0
  OBVIOUS
<1>4. \A n \in 1 .. Len(s) : Steps(s[n], w[n - 1], w[n])
  BY <1>1, <1>2, <1>3
<1>5. Walk(w, s)
  BY <1>1, <1>2, <1>4 DEF Walk
<1>6. QED
  BY <1>1, <1>2, <1>5 DEF Runs, s

\* One sequence after another.
LEMMA RunTogether ==
  ASSUME NEW a, NEW b, NEW o1, NEW o2, NEW o3, Runs(a, o1, o2), Runs(b, o2, o3)
  PROVE  Runs(Cat(a, b), o1, o3)
<1> DEFINE m == Len(a)
           n == Len(b)
           c == Cat(a, b)
<1>1. /\ c \in Seq(Instrs) /\ Len(c) = m + n /\ m \in Nat /\ n \in Nat
      /\ \A i \in 1 .. m + n : c[i] = IF i <= m THEN a[i] ELSE b[i - m]
  BY CatIs, LenProperties DEF Runs
<1>2. PICK u : Walk(u, a) /\ u[0] = o1 /\ u[m] = o2
  BY DEF Runs
<1>3. PICK v : Walk(v, b) /\ v[0] = o2 /\ v[n] = o3
  BY DEF Runs
<1>4. /\ u \in [0 .. m -> Opens] /\ v \in [0 .. n -> Opens]
      /\ \A i \in 1 .. m : Steps(a[i], u[i - 1], u[i])
      /\ \A i \in 1 .. n : Steps(b[i], v[i - 1], v[i])
  BY <1>2, <1>3 DEF Walk
<1> HIDE DEF c, m, n
<1> DEFINE w == [i \in 0 .. m + n |-> IF i <= m THEN u[i] ELSE v[i - m]]
<1>5. w \in [0 .. m + n -> Opens]
  <2>1. ASSUME NEW i \in 0 .. m + n PROVE (IF i <= m THEN u[i] ELSE v[i - m]) \in Opens
    <3>1. i <= m => i \in 0 .. m
      BY <1>1
    <3>2. ~ (i <= m) => i - m \in 0 .. n
      BY <1>1
    <3>3. QED
      BY <1>4, <3>1, <3>2
  <2>2. QED
    BY <2>1
<1>6. /\ \A i \in 0 .. m : w[i] = u[i]
      /\ \A i \in 0 .. n : w[m + i] = v[i]
  <2>1. \A i \in 0 .. m : w[i] = u[i]
    BY <1>1
  <2>2. ASSUME NEW i \in 0 .. n PROVE w[m + i] = v[i]
    <3>1. m + i \in 0 .. m + n /\ (m + i) - m = i /\ (m + i <= m => i = 0)
      BY <1>1
    <3>2. CASE i = 0
      BY <1>1, <1>2, <1>3, <3>1, <3>2
    <3>3. CASE i # 0
      BY <3>1, <3>3
    <3>4. QED
      BY <3>2, <3>3
  <2>3. QED
    BY <2>1, <2>2
<1> HIDE DEF w
<1>7. ASSUME NEW i \in 1 .. m + n PROVE Steps(c[i], w[i - 1], w[i])
  <2>1. CASE i <= m
    <3>1. i \in 1 .. m /\ i - 1 \in 0 .. m /\ i \in 0 .. m
      BY <1>1, <2>1
    <3>2. QED
      BY <1>1, <1>4, <1>6, <2>1, <3>1
  <2>2. CASE ~ (i <= m)
    <3> DEFINE j == i - m
    <3>1. /\ j \in 1 .. n /\ j - 1 \in 0 .. n /\ j \in 0 .. n
          /\ i = m + j /\ i - 1 = m + (j - 1)
      BY <1>1, <2>2
    <3>2. c[i] = b[j]
      BY <1>1, <2>2
    <3> HIDE DEF j
    <3>3. w[i - 1] = v[j - 1] /\ w[i] = v[j]
      BY <1>6, <3>1
    <3>4. QED
      BY <1>4, <3>1, <3>2, <3>3
  <2>3. QED
    BY <2>1, <2>2
<1>8. w[0] = o1 /\ w[m + n] = o3
  <2>1. 0 \in 0 .. m /\ n \in 0 .. n
    BY <1>1
  <2>2. QED
    BY <1>2, <1>3, <1>6, <2>1
<1>9. Walk(w, c)
  BY <1>1, <1>5, <1>7 DEF Walk
<1>10. QED
  BY <1>1, <1>8, <1>9 DEF Runs, c

\* Short sequences one after another.
LEMMA TwoAre ==
  ASSUME NEW a, NEW b
  PROVE  <<a, b>> = Cat(<<a>>, <<b>>)
<1> DEFINE T == {a, b}
           s == <<a>>
           t == <<b>>
           r == <<a, b>>
<1>1. s \in Seq(T) /\ t \in Seq(T) /\ r \in Seq(T)
  OBVIOUS
<1>2. /\ Len(s) = 1 /\ Len(t) = 1 /\ Len(r) = 2
      /\ s[1] = a /\ t[1] = b /\ r[1] = a /\ r[2] = b
  OBVIOUS
<1> HIDE DEF s, t, r, T
<1>3. /\ Cat(s, t) \in Seq(T) /\ Len(Cat(s, t)) = 1 + 1
      /\ \A i \in 1 .. 1 + 1 : Cat(s, t)[i] = IF i <= 1 THEN s[i] ELSE t[i - 1]
  <2>1. /\ Cat(s, t) \in Seq(T) /\ Len(Cat(s, t)) = Len(s) + Len(t)
        /\ \A i \in 1 .. Len(s) + Len(t) :
             Cat(s, t)[i] = IF i <= Len(s) THEN s[i] ELSE t[i - Len(s)]
    BY <1>1, CatIs
  <2>2. QED
    BY <1>2, <2>1
<1>4. ASSUME NEW i \in 1 .. 2 PROVE r[i] = Cat(s, t)[i]
  <2>1. i = 1 \/ i = 2
    OBVIOUS
  <2>2. QED
    BY <1>2, <1>3, <2>1
<1>5. r = Cat(s, t)
  BY <1>1, <1>2, <1>3, <1>4, SeqEqual
<1>6. QED
  BY <1>5 DEF s, t, r

\* A sequence of three, four, five or six as two shorter ones.
LEMMA ThreeAre ==
  ASSUME NEW a, NEW b, NEW c
  PROVE  <<a, b, c>> = Cat(<<a>>, <<b, c>>)
BY DEF Cat

\* Four are one and three.
LEMMA FourAre ==
  ASSUME NEW a, NEW b, NEW c, NEW d
  PROVE  <<a, b, c, d>> = Cat(<<a>>, <<b, c, d>>)
BY DEF Cat

\* Five are two and three.
LEMMA FiveAre ==
  ASSUME NEW a, NEW b, NEW c, NEW d, NEW e
  PROVE  <<a, b, c, d, e>> = Cat(<<a, b>>, <<c, d, e>>)
BY DEF Cat

\* Six are three and three.
LEMMA SixAre ==
  ASSUME NEW a, NEW b, NEW c, NEW d, NEW e, NEW f
  PROVE  <<a, b, c, d, e, f>> = Cat(<<a, b, c>>, <<d, e, f>>)
BY DEF Cat

\* Two instructions can run where the second can after the first.
LEMMA TwoRun ==
  ASSUME NEW i \in Instrs, NEW j \in Instrs,
         NEW o1 \in Opens, NEW o2 \in Opens, NEW o3 \in Opens,
         Steps(i, o1, o2), Steps(j, o2, o3)
  PROVE  Runs(<<i, j>>, o1, o3)
<1>1. Runs(<<i>>, o1, o2) /\ Runs(<<j>>, o2, o3)
  BY OneRuns
<1>2. <<i, j>> = Cat(<<i>>, <<j>>)
  BY TwoAre
<1>3. QED
  BY <1>1, <1>2, RunTogether

\* So can three, each after the one before.
LEMMA ThreeRun ==
  ASSUME NEW i \in Instrs, NEW j \in Instrs, NEW k \in Instrs,
         NEW o1 \in Opens, NEW o2 \in Opens, NEW o3 \in Opens, NEW o4 \in Opens,
         Steps(i, o1, o2), Steps(j, o2, o3), Steps(k, o3, o4)
  PROVE  Runs(<<i, j, k>>, o1, o4)
<1>1. Runs(<<i>>, o1, o2) /\ Runs(<<j, k>>, o2, o4)
  BY OneRuns, TwoRun
<1>2. <<i, j, k>> = Cat(<<i>>, <<j, k>>)
  BY ThreeAre
<1>3. QED
  BY <1>1, <1>2, RunTogether

-----------------------------------------------------------------------------
(***************************************************************************)
(* The blocks of main.                                                     *)
(***************************************************************************)
\* intTests opens an index, of a relation that is open, and closes it.
LEMMA IntTestsRun == Runs(intTests, {"file1"}, {"file1"})
<1> DEFINE a == Instr("index")
           b == Query({1, 2})
           c == Query({0, 1})
           d == Query({})
           f == Instr("delete index")
           o == {"file1"}
           both == {"file1", "index"}
<1>1. {1, 2} \in SUBSET Int /\ {0, 1} \in SUBSET Int /\ {} \in SUBSET Int
  OBVIOUS
<1>2. /\ a \in Instrs /\ f \in Instrs /\ a.op = "index" /\ f.op = "delete index"
  BY InstrsAre DEF Names
<1>3. /\ b \in Instrs /\ c \in Instrs /\ d \in Instrs
      /\ b.op = "query" /\ c.op = "query" /\ d.op = "query"
  BY <1>1, InstrsAre
<1>4. intTests = <<a, b, c, d, b, f>>
  BY DEF intTests
<1> HIDE DEF a, b, c, d, f
<1>5. /\ Steps(a, o, both) /\ Steps(b, both, both) /\ Steps(c, both, both)
      /\ Steps(d, both, both) /\ Steps(f, both, o)
  BY <1>2, <1>3 DEF Steps
<1>6. o \in Opens /\ both \in Opens
  BY DEF Opens
<1> HIDE DEF o, both
<1>7. Runs(<<a, b, c>>, o, both) /\ Runs(<<d, b, f>>, both, o)
  BY <1>2, <1>3, <1>5, <1>6, ThreeRun
<1>8. Runs(intTests, o, o)
  BY <1>4, <1>7, SixAre, RunTogether
<1>9. QED
  BY <1>8 DEF o

\* deleteRelation closes it, and the index file goes with all closed or not.
LEMMA EndsRun ==
  /\ Runs(deleteRelation, {"file1"}, {})
  /\ Runs(deleteRelation, {"file1", "index"}, {"index"})
  /\ Runs(<<removeIndex>>, {"file1"}, {"file1"})
<1> DEFINE a == Instr("delete file1")
           b == Instr("remove relation")
           c == Instr("remove index")
<1>1. /\ a \in Instrs /\ b \in Instrs /\ c \in Instrs
      /\ a.op = "delete file1" /\ b.op = "remove relation" /\ c.op = "remove index"
  BY InstrsAre DEF Names
<1>2. deleteRelation = <<a, b>> /\ removeIndex = c
  BY DEF deleteRelation, removeIndex
<1> HIDE DEF a, b, c
<1>3. /\ Steps(a, {"file1"}, {}) /\ Steps(b, {}, {})
      /\ Steps(a, {"file1", "index"}, {"index"}) /\ Steps(b, {"index"}, {"index"})
      /\ Steps(c, {"file1"}, {"file1"})
  BY <1>1 DEF Steps
<1>4. /\ {} \in Opens /\ {"file1"} \in Opens /\ {"index"} \in Opens
      /\ {"file1", "index"} \in Opens
  BY DEF Opens
<1>5. Runs(<<a, b>>, {"file1"}, {})
  BY <1>1, <1>3, <1>4, TwoRun
<1>6. Runs(<<a, b>>, {"file1", "index"}, {"index"})
  BY <1>1, <1>3, <1>4, TwoRun
<1>7. Runs(<<c>>, {"file1"}, {"file1"})
  BY <1>1, <1>3, <1>4, OneRuns
<1>8. QED
  BY <1>2, <1>5, <1>6, <1>7

\* createRelation.
LEMMA CreateRuns ==
  ASSUME NEW order \in OrderNames
  PROVE  Runs(<<Create(order)>>, {}, {"file1"})
<1> DEFINE a == Create(order)
<1>1. a \in Instrs /\ a.op = "create" /\ a.arg = order
  BY InstrsAre
<1> HIDE DEF a
<1>2. Steps(a, {}, {"file1"})
  BY <1>1 DEF Steps
<1>3. {} \in Opens /\ {"file1"} \in Opens
  BY DEF Opens
<1>4. Runs(<<a>>, {}, {"file1"})
  BY <1>1, <1>2, <1>3, OneRuns
<1>5. QED
  BY <1>4 DEF a

\* indexTests removes the index file after intTests.
LEMMA IndexTestsRun == Runs(indexTests, {"file1"}, {"file1"})
<1>1. indexTests = Cat(intTests, <<removeIndex>>)
  BY DEF indexTests, Cat
<1>2. QED
  BY <1>1, IntTestsRun, EndsRun, RunTogether

\* test1, test2, test3 and the large one create the relation and delete it.
LEMMA TestRuns ==
  ASSUME NEW order \in OrderNames
  PROVE  Runs(test(order), {}, {})
<1>1. test(order) = Cat(Cat(<<Create(order)>>, indexTests), deleteRelation)
  BY DEF test, Cat
<1>2. Runs(Cat(<<Create(order)>>, indexTests), {}, {"file1"})
  BY CreateRuns, IndexTestsRun, RunTogether
<1>3. QED
  BY <1>1, <1>2, EndsRun, RunTogether

\* test6 runs the tests of the index twice.
LEMMA Test6Runs == Runs(test6, {}, {})
<1>1. test6 = Cat(Cat(Cat(<<Create("forward")>>, intTests), indexTests), deleteRelation)
  BY DEF test6, Cat
<1>2. Runs(<<Create("forward")>>, {}, {"file1"})
  BY CreateRuns DEF OrderNames
<1>3. Runs(Cat(<<Create("forward")>>, intTests), {}, {"file1"})
  BY <1>2, IntTestsRun, RunTogether
<1>4. Runs(Cat(Cat(<<Create("forward")>>, intTests), indexTests), {}, {"file1"})
  BY <1>3, IndexTestsRun, RunTogether
<1>5. QED
  BY <1>1, <1>4, EndsRun, RunTogether

\* In errorTests the relation goes before the index.
LEMMA ErrorTestsRun == Runs(errorTests, {}, {})
<1> DEFINE a == Create("forward")
           b == Instr("index")
           c == Instr("delete index")
           d == Instr("remove index")
<1>1. /\ a \in Instrs /\ a.op = "create" /\ a.arg = "forward"
  BY InstrsAre DEF OrderNames
<1>2. /\ b \in Instrs /\ c \in Instrs /\ d \in Instrs
      /\ b.op = "index" /\ c.op = "delete index" /\ d.op = "remove index"
  BY InstrsAre DEF Names
<1>3. errorTests = Cat(Cat(<<a, b>>, deleteRelation), <<c, d>>)
  BY DEF errorTests, removeIndex, Cat
<1> HIDE DEF a, b, c, d
<1>4. /\ Steps(a, {}, {"file1"}) /\ Steps(b, {"file1"}, {"file1", "index"})
      /\ Steps(c, {"index"}, {}) /\ Steps(d, {}, {})
  BY <1>1, <1>2 DEF Steps, OrderNames
<1>5. /\ {} \in Opens /\ {"file1"} \in Opens /\ {"index"} \in Opens
      /\ {"file1", "index"} \in Opens
  BY DEF Opens
<1>6. Runs(<<a, b>>, {}, {"file1", "index"})
  BY <1>1, <1>2, <1>4, <1>5, TwoRun
<1>7. Runs(<<c, d>>, {"index"}, {})
  BY <1>2, <1>4, <1>5, TwoRun
<1>8. Runs(Cat(<<a, b>>, deleteRelation), {}, {"index"})
  BY <1>6, EndsRun, RunTogether
<1>9. QED
  BY <1>3, <1>7, <1>8, RunTogether

\* test5 and test8: a scan of the whole index.
LEMMA WholeScanRuns ==
  ASSUME NEW order \in OrderNames, NEW keys \in SUBSET Int
  PROVE  Runs(<<Create(order), Instr("index"), Query(keys), Instr("delete index"),
                removeIndex>> \o deleteRelation, {}, {})
<1> DEFINE a == Create(order)
           b == Instr("index")
           q == Query(keys)
           c == Instr("delete index")
           d == removeIndex
           o == {"file1"}
           both == {"file1", "index"}
<1>1. a \in Instrs /\ a.op = "create" /\ a.arg \in OrderNames
  BY InstrsAre
<1>2. /\ b \in Instrs /\ c \in Instrs /\ d \in Instrs
      /\ b.op = "index" /\ c.op = "delete index" /\ d.op = "remove index"
  BY InstrsAre DEF Names, removeIndex
<1>3. q \in Instrs /\ q.op = "query"
  BY InstrsAre
<1> HIDE DEF a, b, c, d, q
<1>4. /\ Steps(a, {}, o) /\ Steps(b, o, both)
      /\ Steps(q, both, both) /\ Steps(c, both, o) /\ Steps(d, o, o)
  BY <1>1, <1>2, <1>3 DEF Steps
<1>5. {} \in Opens /\ o \in Opens /\ both \in Opens
  BY DEF Opens
<1> HIDE DEF both
<1>6. Runs(<<a, b>>, {}, both)
  BY <1>1, <1>2, <1>4, <1>5, TwoRun
<1>7. Runs(<<q, c, d>>, both, o)
  BY <1>2, <1>3, <1>4, <1>5, ThreeRun
<1>8. <<a, b, q, c, d>> = Cat(<<a, b>>, <<q, c, d>>)
  BY FiveAre
<1>9. Runs(<<a, b, q, c, d>>, {}, o)
  BY <1>6, <1>7, <1>8, RunTogether
<1>10. Runs(Cat(<<a, b, q, c, d>>, deleteRelation), {}, {})
  BY <1>9, EndsRun, RunTogether
<1>11. QED
  BY <1>10 DEF Cat, a, b, q, c, d

\* What main does first opens neither.
LEMMA FirstScanRuns == Runs(FirstScan, {}, {})
<1> DEFINE a == Instr("remove relation")
           b == Instr("write")
           c == Instr("scan")
<1>1. /\ a \in Instrs /\ b \in Instrs /\ c \in Instrs
      /\ a.op = "remove relation" /\ b.op = "write" /\ c.op = "scan"
  BY InstrsAre DEF Names
<1>2. FirstScan = <<a, b, c, a>>
  BY DEF FirstScan
<1> HIDE DEF a, b, c
<1>3. Steps(a, {}, {}) /\ Steps(b, {}, {}) /\ Steps(c, {}, {})
  BY <1>1 DEF Steps
<1>4. {} \in Opens
  BY DEF Opens
<1>5. Runs(<<a>>, {}, {}) /\ Runs(<<b, c, a>>, {}, {})
  BY <1>1, <1>3, <1>4, OneRuns, ThreeRun
<1>6. QED
  BY <1>2, <1>5, FourAre, RunTogether

\* main as a whole.
LEMMA ScriptRuns == Runs(Script, {}, {})
<1>1. "forward" \in OrderNames /\ "backward" \in OrderNames /\ "random" \in OrderNames
      /\ "large" \in OrderNames
  BY DEF OrderNames
<1>2. Runs(test5, {}, {}) /\ Runs(test8, {}, {})
  <2>1. 0 .. relationSize - 1 \in SUBSET Int
    OBVIOUS
  <2>2. QED
    BY <1>1, <2>1, WholeScanRuns DEF test5, test8
<1>3. Script = Cat(Cat(Cat(Cat(Cat(Cat(Cat(Cat(FirstScan, test("forward")),
                 test("backward")), test("random")), errorTests), test5), test6), test8),
                 test("large"))
  BY DEF Script, Cat
<1>4. Runs(Cat(FirstScan, test("forward")), {}, {})
  BY <1>1, FirstScanRuns, TestRuns, RunTogether
<1>5. Runs(Cat(Cat(FirstScan, test("forward")), test("backward")), {}, {})
  BY <1>1, <1>4, TestRuns, RunTogether
<1>6. Runs(Cat(Cat(Cat(FirstScan, test("forward")), test("backward")), test("random")),
           {}, {})
  BY <1>1, <1>5, TestRuns, RunTogether
<1>7. ASSUME NEW s, Runs(s, {}, {})
      PROVE  Runs(Cat(Cat(Cat(Cat(Cat(s, errorTests), test5), test6), test8),
                      test("large")), {}, {})
  <2>1. Runs(Cat(Cat(s, errorTests), test5), {}, {})
    BY <1>2, <1>7, ErrorTestsRun, RunTogether
  <2>2. Runs(Cat(Cat(Cat(s, errorTests), test5), test6), {}, {})
    BY <2>1, Test6Runs, RunTogether
  <2>3. Runs(Cat(Cat(Cat(Cat(s, errorTests), test5), test6), test8), {}, {})
    BY <1>2, <2>2, RunTogether
  <2>4. QED
    BY <1>1, <2>3, TestRuns, RunTogether
<1>8. QED
  BY <1>3, <1>6, <1>7

-----------------------------------------------------------------------------
(***************************************************************************)
(* The relations the tests write.                                          *)
(***************************************************************************)
\* Keys that fill pages make a relation.
LEMMA PagedType ==
  ASSUME NEW keys \in Seq(Nat)
  PROVE  Paged(keys) \in PagesOfAny
<1> DEFINE n == Len(keys)
           pages == (n + PageCap - 1) \div PageCap
<1>1. n \in Nat /\ PageCap \in Nat \ {0} /\ \A i \in 1 .. n : keys[i] \in Nat
  BY LenProperties, ConstantsAssumption
<1>2. pages \in Nat
  <2> HIDE DEF n
  <2>1. n + PageCap - 1 \in Nat /\ PageCap > 0
    BY <1>1
  <2>2. QED
    BY <1>1, <2>1
<1>3. ASSUME NEW p \in 1 .. pages
      PROVE  SubSeq(keys, (p - 1) * PageCap + 1, Min({p * PageCap, n})) \in Seq(Nat)
  <2> DEFINE a == (p - 1) * PageCap
             b == p * PageCap
             m == Min({b, n})
  <2>1. a \in Nat /\ b \in Nat
    <3> HIDE DEF pages, n
    <3>1. p - 1 \in Nat /\ p \in Nat
      BY <1>2
    <3>2. QED
      BY <1>1, <3>1
  <2> HIDE DEF a, b, n
  <2>2. m \in Int /\ m <= n
    <3>1. \E x \in {b, n} : \A y \in {b, n} : x <= y
      BY <1>1, <2>1
    <3>2. m \in {b, n} /\ \A y \in {b, n} : m <= y
      BY <3>1 DEF Min
    <3>3. QED
      BY <1>1, <2>1, <3>2
  <2> HIDE DEF m
  <2>3. a + 1 \in Int /\ \A i \in a + 1 .. m : keys[i] \in Nat
    BY <1>1, <2>1, <2>2
  <2>4. SubSeq(keys, a + 1, m) \in Seq(Nat)
    BY <2>2, <2>3, SubSeqProperties
  <2>5. QED
    BY <2>4 DEF a, b, m, n
<1> HIDE DEF pages
<1>4. Paged(keys) = [p \in 1 .. pages |->
                       SubSeq(keys, (p - 1) * PageCap + 1, Min({p * PageCap, n}))]
  BY DEF Paged, pages
<1>5. QED
  <2> DEFINE page(p) == SubSeq(keys, (p - 1) * PageCap + 1, Min({p * PageCap, n}))
  <2>1. \A p \in 1 .. pages : page(p) \in Seq(Nat)
    BY <1>3
  <2> HIDE DEF page
  <2>2. [p \in 1 .. pages |-> page(p)] \in Seq(Seq(Nat))
    BY <1>2, <2>1
  <2>3. QED
    BY <1>4, <2>2 DEF page, PagesOfAny

\* Every order the tests create a relation in is a sequence of keys.
LEMMA OrdersType ==
  ASSUME NEW order \in OrderNames, NEW keys \in Orders(order)
  PROVE  keys \in Seq(Nat)
<1>1. relationSize \in Nat /\ LargeSize \in Nat
  BY ConstantsAssumption
<1>2. ASSUME NEW n \in Nat PROVE Upto(n) \in Seq(Nat)
  BY DEF Upto
<1>3. CASE order = "forward"
  BY <1>1, <1>2, <1>3 DEF Orders
<1>4. CASE order = "large"
  BY <1>1, <1>2, <1>4 DEF Orders
<1>5. CASE order = "backward"
  <2> DEFINE s == Upto(relationSize)
  <2>1. s \in Seq(Nat) /\ Len(s) \in Nat /\ \A i \in 1 .. Len(s) : s[i] \in Nat
    BY <1>1, <1>2, LenProperties
  <2> HIDE DEF s
  <2>2. \A i \in 1 .. Len(s) : Len(s) - i + 1 \in 1 .. Len(s)
    BY <2>1
  <2>3. Reverse(s) \in Seq(Nat)
    BY <2>1, <2>2 DEF Reverse
  <2>4. QED
    BY <1>5, <2>3 DEF Orders, s
<1>6. CASE order = "random"
  <2> DEFINE D == 0 .. relationSize - 1
             c == Cardinality(D)
  <2>1. c \in Nat
    <3>1. 0 \in Int /\ relationSize - 1 \in Int
      BY <1>1
    <3>2. c = IF 0 > relationSize - 1 THEN 0 ELSE (relationSize - 1) - 0 + 1
      BY <3>1, FS_Interval
    <3> HIDE DEF c
    <3>3. QED
      BY <1>1, <3>2
  <2>2. keys \in SetToSeqs(D)
    BY <1>6 DEF Orders
  <2>3. keys \in [1 .. c -> D]
    BY <2>2 DEF SetToSeqs
  <2> HIDE DEF c
  <2>4. keys \in [1 .. c -> Nat]
    BY <1>1, <2>3
  <2>5. QED
    BY <2>1, <2>4, SeqDef
<1>7. QED
  BY <1>3, <1>4, <1>5, <1>6 DEF OrderNames

-----------------------------------------------------------------------------
(***************************************************************************)
(* The File objects that are there.  w is what is open as main goes on.    *)
(***************************************************************************)
\* w[i] is what is open after i instructions of main.
Course(w) == Walk(w, Script) /\ w[0] = {}

\* f is a File object that is there.
Live(f) ==
  \/ f = "file1" /\ file1
  \/ f = "fscan" /\ scan.live
  \/ f = "index" /\ (index.live \/ Op = "index")

\* The fields of the index.
IndexOK == index = [live |-> index.live, entries |-> index.entries, page |-> index.page]

\* What is open is what the course says, and the pool has pages of it only.
OpenInv(w) ==
  /\ ip \in 1 .. Len(Script) + 1
  /\ IndexOK
  /\ program = "client" => file1
  /\ program = "tests" =>
       /\ "file1" \in w[ip - 1] => file1
       /\ "index" \in w[ip - 1] /\ Op # "index" => index.live
       /\ Op = "index" /\ phase = "closed" => index.live
  /\ \A k \in DOMAIN pool : Live(k[1])

\* Live is membership of LiveFiles.
LEMMA LiveFilesAre == \A f : Live(f) <=> f \in LiveFiles
<1> SUFFICES ASSUME NEW f PROVE Live(f) <=> f \in LiveFiles
  OBVIOUS
<1>1. CASE f = "file1"
  BY <1>1 DEF Live, LiveFiles
<1>2. CASE f = "fscan"
  BY <1>2 DEF Live, LiveFiles
<1>3. CASE f = "index"
  BY <1>3 DEF Live, LiveFiles
<1>4. CASE f # "file1" /\ f # "fscan" /\ f # "index"
  BY <1>4 DEF Live, LiveFiles
<1>5. QED
  BY <1>1, <1>2, <1>3, <1>4

\* The script has a length.
LEMMA ScriptIs == Len(Script) \in Nat
BY ScriptRuns, LenProperties DEF Runs

\* An instruction that is to come is in its place in the script.
LEMMA OpPlace ==
  ASSUME NEW w, OpenInv(w), Op # "none"
  PROVE  ip \in 1 .. Len(Script) /\ Script[ip].op = Op
<1>1. Len(Script) \in Nat /\ ip \in 1 .. Len(Script) + 1
  BY ScriptIs DEF OpenInv
<1>2. ~ (ip > Len(Script)) /\ Script[ip].op = Op
  BY DEF Op
<1>3. QED
  BY <1>1, <1>2

\* The instruction that the tests are at.
LEMMA OpIs ==
  ASSUME NEW w, OpenInv(w), NEW op, op # "none", NEW ph, At(op, ph)
  PROVE  /\ program = "tests" /\ Op = op /\ phase = ph
         /\ ip \in 1 .. Len(Script) /\ Script[ip].op = op
BY ScriptIs DEF OpenInv, At, Op

\* A step within an instruction, or one of the client.
LEMMA WithinOp ==
  ASSUME NEW w, OpenInv(w), program' = program, ip' = ip, file1' = file1, IndexOK',
         scan.live => scan'.live,
         index'.live = index.live \/ Op = "index",
         program = "tests" /\ Op = "index" /\ phase' = "closed" => index'.live,
         \A k \in DOMAIN pool' :
           \/ k \in DOMAIN pool
           \/ k[1] = "file1" /\ file1
           \/ k[1] = "fscan" /\ scan'.live
           \/ k[1] = "index" /\ (index.live \/ Op = "index")
  PROVE  OpenInv(w)'
<1>1. Op' = Op
  BY DEF Op
<1>2. \A g : Live(g) => Live(g)'
  BY <1>1 DEF Live
<1>3. \A k \in DOMAIN pool' : Live(k[1])'
  BY <1>1, <1>2 DEF OpenInv, Live
<1>4. /\ program = "tests" /\ Op' # "index" /\ "index" \in w[ip - 1] => index'.live
      /\ ip' \in 1 .. Len(Script) + 1
  BY <1>1 DEF OpenInv
<1>5. QED
  BY <1>1, <1>3, <1>4 DEF OpenInv

\* The place after one in the script.
LEMMA OnePlaceOn ==
  ASSUME NEW n \in Nat, NEW i \in 1 .. n
  PROVE  i + 1 \in 1 .. n + 1 /\ (i + 1) - 1 = i
OBVIOUS

\* A step that ends an instruction.
LEMMA OpDone ==
  ASSUME NEW w, Course(w), OpenInv(w), program = "tests", Op # "none", Done, IndexOK',
         Op = "create" \/ (file1 /\ Op # "delete file1") => file1',
         Op = "index" \/ (index.live /\ Op # "delete index") => index'.live,
         \A k \in DOMAIN pool' :
           \/ k[1] = "file1" /\ file1'
           \/ k[1] = "fscan" /\ scan'.live
           \/ k[1] = "index" /\ index'.live
  PROVE  OpenInv(w)'
<1>1. ip \in 1 .. Len(Script) /\ Script[ip].op = Op /\ Len(Script) \in Nat
  BY ScriptIs, OpPlace
<1>2. /\ ip' = ip + 1 /\ phase' = "start" /\ program' = "tests"
  BY DEF Done
<1>3. Steps(Script[ip], w[ip - 1], w[ip])
  BY <1>1 DEF Course, Walk
<1>4. "file1" \in w[ip] => file1'
  BY <1>1, <1>3 DEF Steps, OpenInv
<1>5. "index" \in w[ip] => index'.live
  BY <1>1, <1>3 DEF Steps, OpenInv
<1>6. \A k \in DOMAIN pool' : Live(k[1])'
  BY DEF Live
<1>7. ip' \in 1 .. Len(Script) + 1 /\ ip' - 1 = ip
  <2>1. ip + 1 \in 1 .. Len(Script) + 1 /\ (ip + 1) - 1 = ip
    BY <1>1, OnePlaceOn
  <2>2. QED
    BY <1>2, <2>1
<1>8. QED
  BY <1>2, <1>4, <1>5, <1>6, <1>7 DEF OpenInv

\* Calls about a file that is there bring in no page of one that is not.
LEMMA OnlyLive ==
  ASSUME NEW w, OpenInv(w), NEW f, OnlyOf(f, pool, pool')
  PROVE  \A k \in DOMAIN pool' : k[1] = f \/ (k \in DOMAIN pool /\ Live(k[1]))
BY DEF OnlyOf, OpenInv

\* A field of the index is assigned, the others stay.
LEMMA IndexExcept ==
  ASSUME IndexOK, NEW x
  PROVE  /\ [index EXCEPT !.live = x] = [live |-> x, entries |-> index.entries,
                                         page |-> index.page]
         /\ [index EXCEPT !.entries = x] = [live |-> index.live, entries |-> x,
                                            page |-> index.page]
         /\ [index EXCEPT !.page = x] = [live |-> index.live, entries |-> index.entries,
                                         page |-> x]
BY DEF IndexOK

-----------------------------------------------------------------------------
(***************************************************************************)
(* Each step keeps both invariants.                                        *)
(***************************************************************************)
\* The inductive invariant.
RelInv(w) == ScanInv /\ OpenInv(w)

\* createRelation opens file1, of a relation that no scan reads.
LEMMA CreateRelationStep ==
  ASSUME NEW w, Course(w), RelInv(w), CreateRelation
  PROVE  RelInv(w)'
<1>1. Op = "create" /\ program = "tests" /\ ip \in 1 .. Len(Script) /\ Script[ip].op = "create"
  BY OpIs DEF RelInv, CreateRelation
<1>2. Script[ip].arg \in OrderNames
  BY <1>1 DEF Course, Walk, Steps
<1>3. PICK keys \in Orders(Script[ip].arg) : relation' = Relation(Paged(keys))
  BY DEF CreateRelation
<1>4. RelationOK(relation')
  BY <1>2, <1>3, OrdersType, PagedType DEF Relation, RelationOK
<1>5. ~ scan.live /\ UNCHANGED <<pool, scanVars>>
  BY DEF CreateRelation, IsOpen, RelInv, ScanInv
<1>6. ScanInv'
  BY <1>4, <1>5, RelationSteps DEF RelInv
<1>7. file1' = TRUE /\ UNCHANGED <<pool, scan, index>> /\ Done
  BY DEF CreateRelation, scanVars
<1>8. IndexOK' /\ \A k \in DOMAIN pool : Live(k[1])
  BY <1>7 DEF RelInv, OpenInv, IndexOK
<1>9. OpenInv(w)'
  BY <1>1, <1>7, <1>8, OpDone DEF RelInv, Live
<1>10. QED
  BY <1>6, <1>9 DEF RelInv

\* main writes pages through an object of its own.
LEMMA WritePagesStep ==
  ASSUME NEW w, Course(w), RelInv(w), WritePages
  PROVE  RelInv(w)'
<1>1. Op = "write" /\ program = "tests"
  BY OpIs DEF RelInv, WritePages
<1>2. RelationOK(relation')
  <2>1. relationSize \in Nat
    BY ConstantsAssumption
  <2>2. ASSUME NEW i \in 1 .. relationSize PROVE <<i - 1>> \in Seq(Nat)
    <3>1. i - 1 \in Nat
      BY <2>1
    <3>2. QED
      BY <3>1
  <2>3. [i \in 1 .. relationSize |-> <<i - 1>>] \in PagesOfAny
    BY <2>1, <2>2 DEF PagesOfAny
  <2>4. QED
    BY <2>3 DEF WritePages, Relation, RelationOK
<1>3. ~ scan.live /\ UNCHANGED <<pool, scanVars>>
  BY DEF WritePages, RelInv, ScanInv
<1>4. ScanInv'
  BY <1>2, <1>3, RelationSteps DEF RelInv
<1>5. UNCHANGED <<pool, scan, index, file1>> /\ Done
  BY DEF WritePages, scanVars
<1>6. IndexOK' /\ \A k \in DOMAIN pool : Live(k[1])
  BY <1>5 DEF RelInv, OpenInv, IndexOK
<1>7. OpenInv(w)'
  BY <1>1, <1>5, <1>6, OpDone DEF RelInv, Live
<1>8. QED
  BY <1>4, <1>7 DEF RelInv

\* File::remove is not called under a scan.
LEMMA RemoveRelationStep ==
  ASSUME NEW w, Course(w), RelInv(w), RemoveRelation
  PROVE  RelInv(w)'
<1>1. Op = "remove relation" /\ program = "tests"
  BY OpIs DEF RelInv, RemoveRelation
<1>2. RelationOK(relation')
  <2>1. <<>> \in PagesOfAny
    BY EmptySeq DEF PagesOfAny
  <2>2. QED
    BY <2>1 DEF RemoveRelation, NoRelation, RelationOK
<1>3. ~ scan.live /\ UNCHANGED <<pool, scanVars>>
  BY DEF RemoveRelation, IsOpen, RelInv, ScanInv
<1>4. ScanInv'
  BY <1>2, <1>3, RelationSteps DEF RelInv
<1>5. UNCHANGED <<pool, scan, index, file1>> /\ Done
  BY DEF RemoveRelation, scanVars
<1>6. IndexOK' /\ \A k \in DOMAIN pool : Live(k[1])
  BY <1>5 DEF RelInv, OpenInv, IndexOK
<1>7. OpenInv(w)'
  BY <1>1, <1>5, <1>6, OpDone DEF RelInv, Live
<1>8. QED
  BY <1>4, <1>7 DEF RelInv

\* file1 is flushed before it is deleted: it leaves no page behind.
LEMMA DeleteFile1Step ==
  ASSUME NEW w, Course(w), RelInv(w), DeleteFile1
  PROVE  RelInv(w)'
<1>1. Op = "delete file1" /\ program = "tests"
  BY OpIs DEF RelInv, DeleteFile1
<1>2. /\ pool' = Flush(pool, "file1") /\ file1' = FALSE
      /\ UNCHANGED <<relation, scanVars>> /\ UNCHANGED <<scan, index>> /\ Done
  BY DEF DeleteFile1, scanVars
<1>3. OnlyOf("file1", pool, pool') /\ \A k \in DOMAIN pool' : k[1] # "file1"
  BY <1>2, FlushOnly
<1>4. ScanInv'
  BY <1>2, <1>3, OtherSteps DEF RelInv
<1>5. IndexOK' /\ \A k \in DOMAIN pool' : Live(k[1])
  BY <1>2, <1>3, OnlyLive DEF RelInv, OpenInv, IndexOK
<1>6. OpenInv(w)'
  BY <1>1, <1>2, <1>3, <1>5, OpDone DEF RelInv, Live
<1>7. QED
  BY <1>4, <1>6 DEF RelInv

\* The constructor of an index that exists reads its meta page.
LEMMA OpenIndexStep ==
  ASSUME NEW w, Course(w), RelInv(w), OpenIndex
  PROVE  RelInv(w)'
<1>1. Op = "index" /\ program = "tests"
  BY OpIs DEF RelInv, OpenIndex
<1>2. /\ pool' \in Touch(pool, Meta)
      /\ index' = [live |-> TRUE, entries |-> indexFile.entries, page |-> 0]
      /\ UNCHANGED <<relation, scanVars>> /\ UNCHANGED <<scan, file1>> /\ Done
  BY DEF OpenIndex, scanVars, NoIndex
<1>3. OnlyOf("index", pool, pool')
  BY <1>2, TouchOnly
<1>4. ScanInv'
  BY <1>2, <1>3, OtherSteps DEF RelInv
<1>5. IndexOK' /\ index'.live
  BY <1>2 DEF IndexOK
<1>6. \A k \in DOMAIN pool' : k[1] = "index" \/ Live(k[1])
  BY <1>3, OnlyLive DEF RelInv
<1>7. OpenInv(w)'
  BY <1>1, <1>2, <1>5, <1>6, OpDone DEF RelInv, Live
<1>8. QED
  BY <1>4, <1>7 DEF RelInv

\* The constructor of a new one holds the meta page and the root.
LEMMA CreateIndexStep ==
  ASSUME NEW w, Course(w), RelInv(w), CreateIndex
  PROVE  RelInv(w)'
<1>1. Op = "index" /\ program = "tests"
  BY OpIs DEF RelInv, CreateIndex
<1>2. /\ index' = [live |-> FALSE, entries |-> {}, page |-> 0]
      /\ UNCHANGED <<relation, scanVars>> /\ UNCHANGED <<scan, file1, program, ip>>
      /\ phase' = "open scan"
  BY DEF CreateIndex, scanVars, NoIndex, Goes
<1>3. OnlyOf("index", pool, pool')
  <2>1. PICK q \in Reads(pool, "index", Meta) : pool' \in Reads(q, "index", Root)
    BY DEF CreateIndex
  <2>2. OnlyOf("index", pool, q) /\ OnlyOf("index", q, pool')
    BY <2>1, ReadsOnly
  <2>3. QED
    BY <2>2, OnlyOfTwice
<1>4. ScanInv'
  BY <1>2, <1>3, OtherSteps DEF RelInv
<1>5. IndexOK'
  BY <1>2 DEF IndexOK
<1>6. \A k \in DOMAIN pool' : k \in DOMAIN pool \/ k[1] = "index"
  BY <1>3, OnlyLive DEF RelInv
<1>7. OpenInv(w)'
  BY <1>1, <1>2, <1>5, <1>6, WithinOp DEF RelInv
<1>8. QED
  BY <1>4, <1>7 DEF RelInv

\* It makes a scan, which brings in no page yet.
LEMMA OpenScanStep ==
  ASSUME NEW w, RelInv(w), OpenScan
  PROVE  RelInv(w)'
<1>1. ScanInv'
  BY NewScanStep DEF RelInv, OpenScan
<1>2. UNCHANGED <<pool, file1, index, program, ip>> /\ phase' = "scan"
  BY DEF OpenScan, NewScan, Goes
<1>3. IndexOK'
  BY <1>2 DEF RelInv, OpenInv, IndexOK
<1>4. ~ scan.live
  BY DEF OpenScan, NewScan
<1>5. OpenInv(w)'
  BY <1>2, <1>3, <1>4, WithinOp DEF RelInv
<1>6. QED
  BY <1>1, <1>5 DEF RelInv

\* What scanNext does to the pool it does to the pages of the scan's file.
LEMMA ScanNextStep ==
  ASSUME ScanInv, ScanNext \/ ScanLoop
  PROVE  ScanInv' /\ scan.live /\ scan'.live /\ OnlyOf("fscan", pool, pool')
<1>1. ScanInv' /\ scan.live
  <2>1. CASE ScanNext
    BY <2>1, ScanEofStep, ScanFirstStep, ScanFirstExceededStep, ScanWithinStep
    DEF ScanNext, ScanEof, ScanFirst, ScanFirstExceeded, ScanWithin
  <2>2. CASE ScanLoop
    <3>1. scanning
      BY <2>2 DEF ScanLoop, ScanTurn, ScanTurnLast
    <3>2. QED
      BY <2>2, <3>1, InLoop, ScanTurnStep, ScanTurnLastStep DEF ScanLoop
  <2>3. QED
    BY <2>1, <2>2
<1>2. scan'.live
  <2>1. scan \in [live : BOOLEAN, curPage : Nat, filePageIter : Nat, pageRecordIter : Nat]
    BY DEF ScanInv, ScanType
  <2>2. CASE ScanEof
    BY <1>1, <2>2 DEF ScanEof
  <2>3. CASE ScanFirst
    BY <1>1, <2>1, <2>3 DEF ScanFirst
  <2>4. CASE ScanFirstExceeded
    BY <1>1, <2>1, <2>4 DEF ScanFirstExceeded
  <2>5. CASE ScanWithin
    BY <1>1, <2>1, <2>5 DEF ScanWithin
  <2>6. CASE ScanTurn
    BY <1>1, <2>1, <2>6 DEF ScanTurn
  <2>7. CASE ScanTurnLast
    BY <1>1, <2>1, <2>7 DEF ScanTurnLast
  <2>8. QED
    BY <2>2, <2>3, <2>4, <2>5, <2>6, <2>7 DEF ScanNext, ScanLoop
<1>3. OnlyOf("fscan", pool, pool')
  <2> DEFINE left == Unpins(pool, "fscan", scan.filePageIter)
  <2>1. OnlyOf("fscan", pool, left)
    BY UnpinsOnly
  <2>2. CASE ScanEof \/ ScanFirstExceeded \/ ScanWithin
    <3>1. pool' = pool
      BY <2>2 DEF ScanEof, ScanFirstExceeded, ScanWithin
    <3>2. QED
      BY <3>1 DEF OnlyOf
  <2>3. CASE ScanFirst
    BY <2>3, ReadsOnly DEF ScanFirst
  <2>4. CASE ScanTurn
    <3>1. pool' = left \/ pool' \in Reads(left, "fscan", scan.filePageIter + 1)
      BY <2>4 DEF ScanTurn, Left
    <3> HIDE DEF left
    <3>2. pool' = left \/ OnlyOf("fscan", left, pool')
      BY <3>1, ReadsOnly
    <3>3. QED
      BY <2>1, <3>2, OnlyOfTwice
  <2>5. CASE ScanTurnLast
    BY <2>1, <2>5 DEF ScanTurnLast
  <2>6. QED
    BY <2>2, <2>3, <2>4, <2>5 DEF ScanNext, ScanLoop
<1>4. QED
  BY <1>1, <1>2, <1>3

\* Its scanNext brings in pages of the scan only.
LEMMA ScansStep ==
  ASSUME NEW w, RelInv(w), Scans
  PROVE  RelInv(w)'
<1>1. ScanInv' /\ scan'.live /\ OnlyOf("fscan", pool, pool')
  BY ScanNextStep DEF RelInv, Scans
<1>2. UNCHANGED <<file1, index, program, ip>> /\ phase' # "closed"
  <2>1. Goes(IF scanning' THEN "scan"
             ELSE CASE result' = "record" /\ Op = "index" -> "insert"
                    [] result' = "record" -> "scan"
                    [] result' = "EndOfFile" -> "close"
                    [] OTHER -> "thrown")
    BY DEF Scans
  <2>2. phase' # "closed"
    BY <2>1 DEF Goes
  <2>3. QED
    BY <2>1, <2>2 DEF Scans, Goes
<1>3. IndexOK'
  BY <1>2 DEF RelInv, OpenInv, IndexOK
<1>4. \A k \in DOMAIN pool' : k \in DOMAIN pool \/ k[1] = "fscan"
  BY <1>1, OnlyLive DEF RelInv
<1>5. OpenInv(w)'
  BY <1>1, <1>2, <1>3, <1>4, WithinOp DEF RelInv
<1>6. QED
  BY <1>1, <1>5 DEF RelInv

\* An insertion brings in pages of the index only.
LEMMA InsertEntryStep ==
  ASSUME NEW w, RelInv(w), InsertEntry
  PROVE  RelInv(w)'
<1>1. Op = "index" /\ program = "tests"
  BY OpIs DEF RelInv, InsertEntry
<1>2. /\ pool' \in Inserts(pool) /\ phase' = "scan"
      /\ UNCHANGED <<relation, scanVars>> /\ UNCHANGED <<scan, file1, program, ip>>
  BY DEF InsertEntry, scanVars, Goes
<1>3. IndexOK' /\ index'.live = index.live
  <2>1. PICK x : index' = [index EXCEPT !.entries = x]
    BY DEF InsertEntry
  <2>2. index' = [live |-> index.live, entries |-> x, page |-> index.page]
    BY <2>1, IndexExcept DEF RelInv, OpenInv
  <2>3. QED
    BY <2>2 DEF IndexOK
<1>4. OnlyOf("index", pool, pool')
  BY <1>2, InsertsOnly
<1>5. ScanInv'
  BY <1>2, <1>4, OtherSteps DEF RelInv
<1>6. \A k \in DOMAIN pool' : k \in DOMAIN pool \/ k[1] = "index"
  BY <1>4, OnlyLive DEF RelInv
<1>7. OpenInv(w)'
  BY <1>1, <1>2, <1>3, <1>6, WithinOp DEF RelInv
<1>8. QED
  BY <1>5, <1>7 DEF RelInv

\* What the constructor has pinned is released, and the index is there.
LEMMA CloseIndexStep ==
  ASSUME NEW w, RelInv(w), CloseIndex
  PROVE  RelInv(w)'
<1>1. Op = "index" /\ program = "tests"
  BY OpIs DEF RelInv, CloseIndex
<1>2. /\ pool' = Flush(Released, "index")
      /\ UNCHANGED <<relation, scanVars>> /\ UNCHANGED <<scan, file1, program, ip>>
  BY DEF CloseIndex, scanVars, Goes
<1>3. IndexOK' /\ index'.live
  <2>1. index' = [live |-> TRUE, entries |-> index.entries, page |-> index.page]
    BY IndexExcept DEF CloseIndex, RelInv, OpenInv
  <2>2. QED
    BY <2>1 DEF IndexOK
<1>4. OnlyOf("index", pool, pool')
  <2> DEFINE q == Unpins(pool, "index", Meta)
  <2>1. OnlyOf("index", pool, q)
    BY UnpinsOnly
  <2> HIDE DEF q
  <2>2. OnlyOf("index", q, Unpins(q, "index", Root))
    BY UnpinsOnly
  <2>3. OnlyOf("index", Released, pool')
    BY <1>2, FlushOnly
  <2>4. Released = Unpins(q, "index", Root)
    BY DEF Released, q
  <2>5. QED
    BY <2>1, <2>2, <2>3, <2>4, OnlyOfTwice
<1>5. ScanInv'
  BY <1>2, <1>4, OtherSteps DEF RelInv
<1>6. \A k \in DOMAIN pool' : k \in DOMAIN pool \/ k[1] = "index"
  BY <1>4, OnlyLive DEF RelInv
<1>7. OpenInv(w)'
  BY <1>1, <1>2, <1>3, <1>6, WithinOp DEF RelInv
<1>8. QED
  BY <1>5, <1>7 DEF RelInv

\* ~FileScan takes the pages of its file out of the pool, and no other.
LEMMA NoneOfScan ==
  ASSUME pool' = Deleted(pool)
  PROVE  OnlyOf("fscan", pool, pool') /\ \A k \in DOMAIN pool' : k[1] # "fscan"
<1> DEFINE q == IF scan.curPage # 0 THEN Unpins(pool, "fscan", scan.filePageIter) ELSE pool
<1>1. OnlyOf("fscan", pool, q)
  <2>1. CASE scan.curPage # 0
    BY <2>1, UnpinsOnly
  <2>2. CASE scan.curPage = 0
    BY <2>2 DEF OnlyOf
  <2>3. QED
    BY <2>1, <2>2
<1>2. pool' = Flush(q, "fscan")
  BY DEF Deleted
<1> HIDE DEF q
<1>3. OnlyOf("fscan", q, pool') /\ \A k \in DOMAIN pool' : k[1] # "fscan"
  BY <1>2, FlushOnly
<1>4. QED
  BY <1>1, <1>3, OnlyOfTwice

\* The scan goes at the end of the constructor: its pages are gone.
LEMMA CloseScanStep ==
  ASSUME NEW w, Course(w), RelInv(w), CloseScan
  PROVE  RelInv(w)'
<1>1. program = "tests" /\ ((Op = "index" /\ phase = "closed") \/ Op = "scan")
  BY OpIs DEF RelInv, CloseScan
<1>2. ScanInv'
  BY DeleteScanStep DEF RelInv, CloseScan
<1>3. /\ pool' = Deleted(pool) /\ UNCHANGED <<file1, index>> /\ Done
  BY DEF CloseScan, DeleteScan
<1>4. OnlyOf("fscan", pool, pool') /\ \A k \in DOMAIN pool' : k[1] # "fscan"
  BY <1>3, NoneOfScan
<1>5. Op = "index" => index.live
  BY <1>1 DEF RelInv, OpenInv
<1>6. IndexOK' /\ \A k \in DOMAIN pool' : Live(k[1]) /\ k[1] # "fscan"
  BY <1>3, <1>4, OnlyLive DEF RelInv, OpenInv, IndexOK
<1>7. \A k \in DOMAIN pool' : (k[1] = "file1" /\ file1') \/ (k[1] = "index" /\ index'.live)
  BY <1>3, <1>5, <1>6 DEF Live
<1>8. OpenInv(w)'
  BY <1>1, <1>3, <1>5, <1>6, <1>7, OpDone DEF RelInv
<1>9. QED
  BY <1>2, <1>8 DEF RelInv

\* At a query both are open.
LEMMA AtQuery ==
  ASSUME NEW w, Course(w), RelInv(w), NEW ph, At("query", ph)
  PROVE  Op = "query" /\ program = "tests" /\ file1 /\ index.live
<1>1. Op = "query" /\ program = "tests" /\ ip \in 1 .. Len(Script) /\ Script[ip].op = "query"
  BY OpIs DEF RelInv
<1>2. "file1" \in w[ip - 1] /\ "index" \in w[ip - 1]
  BY <1>1 DEF Course, Walk, Steps
<1>3. QED
  BY <1>1, <1>2 DEF RelInv, OpenInv

\* A scan of the index starts where the one before it is ended.
LEMMA StartQueryStep ==
  ASSUME NEW w, Course(w), RelInv(w), StartQuery
  PROVE  RelInv(w)'
<1>1. Op = "query" /\ program = "tests" /\ file1 /\ index.live
  BY AtQuery DEF StartQuery
<1>2. PICK p : pool' \in Descents(Ended(pool), p) /\ index' = [index EXCEPT !.page = p]
  BY DEF StartQuery
<1>3. UNCHANGED <<relation, scanVars>> /\ UNCHANGED <<scan, file1>>
  BY DEF StartQuery, scanVars
<1>4. index' = [live |-> index.live, entries |-> index.entries, page |-> p]
  BY <1>2, IndexExcept DEF RelInv, OpenInv
<1>5. IndexOK' /\ index'.live
  BY <1>1, <1>4 DEF IndexOK
<1>6. OnlyOf("index", pool, pool')
  <2>1. OnlyOf("index", pool, Ended(pool)) /\ OnlyOf("index", Ended(pool), pool')
    BY <1>2, EndedOnly, DescentsOnly
  <2>2. QED
    BY <2>1, OnlyOfTwice
<1>7. ScanInv'
  BY <1>3, <1>6, OtherSteps DEF RelInv
<1>8. \A k \in DOMAIN pool' : k[1] = "index" \/ (k \in DOMAIN pool /\ Live(k[1]))
  BY <1>6, OnlyLive DEF RelInv
<1>9. CASE Done
  <2>1. \A k \in DOMAIN pool' : \/ k[1] = "file1" /\ file1'
                                \/ k[1] = "fscan" /\ scan'.live
                                \/ k[1] = "index" /\ index'.live
    BY <1>3, <1>5, <1>8 DEF Live
  <2>2. OpenInv(w)'
    BY <1>1, <1>3, <1>5, <1>9, <2>1, OpDone DEF RelInv
  <2>3. QED
    BY <1>7, <2>2 DEF RelInv
<1>10. CASE Goes("query")
  <2>1. program' = program /\ ip' = ip
    BY <1>10 DEF Goes
  <2>2. OpenInv(w)'
    BY <1>1, <1>3, <1>5, <1>8, <2>1, WithinOp DEF RelInv
  <2>3. QED
    BY <1>7, <2>2 DEF RelInv
<1>11. QED
  BY <1>9, <1>10 DEF StartQuery

\* A record is read through file1, which is open.
LEMMA QueryNextStep ==
  ASSUME NEW w, Course(w), RelInv(w), QueryNext
  PROVE  RelInv(w)'
<1>1. Op = "query" /\ program = "tests" /\ file1 /\ index.live
  BY AtQuery DEF QueryNext
<1>2. PICK p : pool' \in {Unpins(q, "file1", p) : q \in Reads(pool, "file1", p)}
  BY DEF QueryNext
<1>3. PICK q \in Reads(pool, "file1", p) : pool' = Unpins(q, "file1", p)
  BY <1>2
<1>4. OnlyOf("file1", pool, pool')
  <2>1. OnlyOf("file1", pool, q) /\ OnlyOf("file1", q, pool')
    BY <1>3, ReadsOnly, UnpinsOnly
  <2>2. QED
    BY <2>1, OnlyOfTwice
<1>5. UNCHANGED <<relation, scanVars>> /\ UNCHANGED <<scan, file1, index, program, ip>>
  BY DEF QueryNext, scanVars, Goes
<1>6. ScanInv'
  BY <1>4, <1>5, OtherSteps DEF RelInv
<1>7. IndexOK'
  BY <1>5 DEF RelInv, OpenInv, IndexOK
<1>8. \A k \in DOMAIN pool' : k[1] = "file1" \/ k \in DOMAIN pool
  BY <1>4, OnlyLive DEF RelInv
<1>9. OpenInv(w)'
  BY <1>1, <1>5, <1>7, <1>8, WithinOp DEF RelInv
<1>10. QED
  BY <1>6, <1>9 DEF RelInv

\* A scan of the index that ends brings in no page.
LEMMA EndQueryStep ==
  ASSUME NEW w, Course(w), RelInv(w), EndQuery
  PROVE  RelInv(w)'
<1>1. Op = "query" /\ program = "tests" /\ file1 /\ index.live
  BY AtQuery DEF EndQuery
<1>2. UNCHANGED <<relation, scanVars>> /\ UNCHANGED <<scan, file1>> /\ Done
  BY DEF EndQuery, scanVars
<1>3. index' = [live |-> index.live, entries |-> index.entries, page |-> 0]
  BY IndexExcept DEF EndQuery, RelInv, OpenInv
<1>4. IndexOK' /\ index'.live
  BY <1>1, <1>3 DEF IndexOK
<1>5. OnlyOf("index", pool, pool')
  BY EndedOnly DEF EndQuery
<1>6. ScanInv'
  BY <1>2, <1>5, OtherSteps DEF RelInv
<1>7. \A k \in DOMAIN pool' : k[1] = "index" \/ Live(k[1])
  BY <1>5, OnlyLive DEF RelInv
<1>8. OpenInv(w)'
  BY <1>1, <1>2, <1>4, <1>7, OpDone DEF RelInv, Live
<1>9. QED
  BY <1>6, <1>8 DEF RelInv

\* The index flushes its file before it goes.
LEMMA DeleteIndexStep ==
  ASSUME NEW w, Course(w), RelInv(w), DeleteIndex
  PROVE  RelInv(w)'
<1>1. Op = "delete index" /\ program = "tests"
  BY OpIs DEF RelInv, DeleteIndex
<1>2. /\ pool' = Flush(pool, "index")
      /\ index' = [live |-> FALSE, entries |-> {}, page |-> 0]
      /\ UNCHANGED <<relation, scanVars>> /\ UNCHANGED <<scan, file1>> /\ Done
  BY DEF DeleteIndex, scanVars, NoIndex
<1>3. OnlyOf("index", pool, pool') /\ \A k \in DOMAIN pool' : k[1] # "index"
  BY <1>2, FlushOnly
<1>4. ScanInv'
  BY <1>2, <1>3, OtherSteps DEF RelInv
<1>5. IndexOK' /\ \A k \in DOMAIN pool' : Live(k[1])
  BY <1>2, <1>3, OnlyLive DEF RelInv, IndexOK
<1>6. OpenInv(w)'
  BY <1>1, <1>2, <1>3, <1>5, OpDone DEF RelInv, Live
<1>7. QED
  BY <1>4, <1>6 DEF RelInv

\* The file of an index is removed when the index has gone.
LEMMA RemoveIndexStep ==
  ASSUME NEW w, Course(w), RelInv(w), RemoveIndex
  PROVE  RelInv(w)'
<1>1. Op = "remove index" /\ program = "tests"
  BY OpIs DEF RelInv, RemoveIndex
<1>2. UNCHANGED <<relation, pool, scanVars, scan, file1, index>> /\ Done
  BY DEF RemoveIndex, scanVars
<1>3. ScanInv'
  BY <1>2, IdleSteps DEF RelInv
<1>4. IndexOK' /\ \A k \in DOMAIN pool : Live(k[1])
  BY <1>2 DEF RelInv, OpenInv, IndexOK
<1>5. \A k \in DOMAIN pool' : \/ k[1] = "file1" /\ file1'
                              \/ k[1] = "fscan" /\ scan'.live
                              \/ k[1] = "index" /\ index'.live
  BY <1>1, <1>2, <1>4 DEF Live
<1>6. OpenInv(w)'
  <2>1. Done /\ OpenInv(w) /\ IndexOK' /\ Op = "remove index"
    BY <1>1, <1>2, <1>4 DEF RelInv
  <2>2. (Op = "create" \/ (file1 /\ Op # "delete file1")) => file1'
    BY <1>1, <1>2
  <2>3. (Op = "index" \/ (index.live /\ Op # "delete index")) => index'.live
    BY <1>1, <1>2
  <2>4. QED
    BY <1>1, <1>5, <2>1, <2>2, <2>3, OpDone
<1>7. QED
  BY <1>3, <1>6 DEF RelInv

\* The client holds file1 open and has no index: a step of it that leaves the
\* scan there brings in pages of these two files only.
LEMMA ClientScans ==
  ASSUME NEW w, RelInv(w), ClientStep, ScanNext \/ ScanLoop
  PROVE  RelInv(w)'
<1>1. program' = program /\ ip' = ip /\ phase' = phase /\ index' = index /\ file1' = file1
      /\ program = "client"
  BY DEF ClientStep, testVars
<1>2. ScanInv' /\ scan'.live /\ OnlyOf("fscan", pool, pool')
  BY ScanNextStep DEF RelInv
<1>3. IndexOK'
  BY <1>1 DEF RelInv, OpenInv, IndexOK
<1>4. \A k \in DOMAIN pool' : k[1] = "fscan" \/ k \in DOMAIN pool
  BY <1>2, OnlyLive DEF RelInv
<1>5. OpenInv(w)'
  BY <1>1, <1>2, <1>3, <1>4, WithinOp DEF RelInv
<1>6. QED
  BY <1>2, <1>5 DEF RelInv

\* The client makes a scan.
LEMMA ClientOpens ==
  ASSUME NEW w, RelInv(w), ClientStep, NewScan
  PROVE  RelInv(w)'
<1>1. program' = program /\ ip' = ip /\ phase' = phase /\ index' = index /\ file1' = file1
      /\ program = "client"
  BY DEF ClientStep, testVars
<1>2. ScanInv' /\ pool' = pool /\ ~ scan.live
  BY NewScanStep DEF RelInv, NewScan
<1>3. IndexOK'
  BY <1>1 DEF RelInv, OpenInv, IndexOK
<1>4. OpenInv(w)'
  BY <1>1, <1>2, <1>3, WithinOp DEF RelInv
<1>5. QED
  BY <1>2, <1>4 DEF RelInv

\* The destructor of the scan leaves no page of its file in the pool.
LEMMA ClientCloses ==
  ASSUME NEW w, RelInv(w), ClientStep, DeleteScan
  PROVE  RelInv(w)'
<1>1. program' = program /\ ip' = ip /\ phase' = phase /\ index' = index /\ file1' = file1
      /\ program = "client"
  BY DEF ClientStep, testVars
<1>2. ScanInv'
  BY DeleteScanStep DEF RelInv
<1>3. OnlyOf("fscan", pool, pool') /\ \A k \in DOMAIN pool' : k[1] # "fscan"
  BY NoneOfScan DEF DeleteScan
<1>4. IndexOK' /\ Op' = Op
  BY <1>1 DEF RelInv, OpenInv, IndexOK, Op
<1>5. \A k \in DOMAIN pool' : Live(k[1])'
  <2>1. \A k \in DOMAIN pool' : Live(k[1]) /\ k[1] # "fscan"
    BY <1>3, OnlyLive DEF RelInv
  <2>2. QED
    BY <1>1, <1>4, <2>1 DEF Live
<1>6. OpenInv(w)'
  BY <1>1, <1>4, <1>5 DEF RelInv, OpenInv
<1>7. QED
  BY <1>2, <1>6 DEF RelInv

\* It reads or unpins a page through file1.
LEMMA ClientReads ==
  ASSUME NEW w, RelInv(w), ClientStep, NEW p, Hold(p) \/ Release(p)
  PROVE  RelInv(w)'
<1>1. program' = program /\ ip' = ip /\ phase' = phase /\ index' = index /\ file1' = file1
      /\ program = "client"
  BY DEF ClientStep, testVars
<1>2. OnlyOf("file1", pool, pool')
  BY ReadsOnly, UnpinsOnly DEF Hold, Release
<1>3. UNCHANGED <<relation, scanVars>> /\ scan' = scan
  BY DEF Hold, Release, scanVars
<1>4. ScanInv'
  BY <1>2, <1>3, OtherSteps DEF RelInv
<1>5. IndexOK' /\ file1
  BY <1>1 DEF RelInv, OpenInv, IndexOK
<1>6. \A k \in DOMAIN pool' : k[1] = "file1" \/ k \in DOMAIN pool
  BY <1>2, OnlyLive DEF RelInv
<1>7. OpenInv(w)'
  BY <1>1, <1>3, <1>5, <1>6, WithinOp DEF RelInv
<1>8. QED
  BY <1>4, <1>7 DEF RelInv

\* Every step of the client.
LEMMA ClientSteps ==
  ASSUME NEW w, RelInv(w), ClientStep
  PROVE  RelInv(w)'
<1>1. CASE ScanLoop \/ ScanNext
  BY <1>1, ClientScans
<1>2. CASE NewScan
  BY <1>2, ClientOpens
<1>3. CASE DeleteScan
  BY <1>3, ClientCloses
<1>4. CASE \E p \in 1 .. NumPages : Hold(p) \/ Release(p)
  BY <1>4, ClientReads
<1>5. QED
  BY <1>1, <1>2, <1>3, <1>4 DEF ClientStep

\* Without a scan, the invariant asks of the pool only that it has no pin of
\* one.
LEMMA Afresh ==
  ASSUME RelationOK(relation'), pool' = <<>>, scan' = NoScan, scanning' = FALSE,
         delivered' = <<>>, result' = "none"
  PROVE  ScanInv'
<1>1. ScanPins(pool', 0, 0)
  BY DEF ScanPins
<1>2. QED
  BY <1>1 DEF ScanInv, ScanType, NoScan

\* Nor is there a page of a file that is not open in an empty one.
LEMMA OpenAfresh ==
  ASSUME NEW w, Course(w), pool' = <<>>, ip' = 1, phase' = "start", index' = NoIndex,
         program' = "tests"
  PROVE  OpenInv(w)'
<1>1. 1 \in 1 .. Len(Script) + 1
  BY ScriptIs
<1>2. IndexOK'
  BY DEF IndexOK, NoIndex
<1>3. w[ip' - 1] = {}
  BY DEF Course
<1>4. QED
  BY <1>1, <1>2, <1>3 DEF OpenInv

\* A new run has an empty pool and no scan.
LEMMA RerunStep ==
  ASSUME NEW w, Course(w), RelInv(w), Rerun
  PROVE  RelInv(w)'
<1>1. /\ pool' = <<>> /\ scan' = NoScan /\ scanning' = FALSE /\ delivered' = <<>>
      /\ result' = "none" /\ relation' = relation /\ program' = "tests"
      /\ ip' = 1 /\ phase' = "start" /\ index' = NoIndex
  BY DEF Rerun
<1>2. ScanInv'
  BY <1>1, Afresh DEF RelInv, ScanInv
<1>3. OpenInv(w)'
  BY <1>1, OpenAfresh
<1>4. QED
  BY <1>2, <1>3 DEF RelInv

\* Both programs begin with an empty pool and no scan.
LEMMA StartsRight ==
  ASSUME NEW w, Course(w), Init
  PROVE  RelInv(w)
<1>1. ScanInv
  <2>1. RelationOK(relation)
    <3>1. <<>> \in PagesOfAny /\ AnyPages \in PagesOfAny
      BY ConstantsAssumption, EmptySeq DEF PagesOfAny
    <3>2. RelationOK(NoRelation) /\ RelationOK(Relation(AnyPages))
      BY <3>1 DEF RelationOK, NoRelation, Relation
    <3>3. QED
      BY <3>2 DEF Init
  <2>2. ScanPins(pool, 0, 0)
    BY DEF Init, ScanPins
  <2>3. QED
    BY <2>1, <2>2 DEF Init, ScanInv, ScanType, NoScan
<1>2. OpenInv(w)
  <2>1. 1 \in 1 .. Len(Script) + 1
    BY ScriptIs
  <2>2. ip = 1 /\ phase = "start" /\ pool = <<>> /\ index = NoIndex
        /\ (program = "client" => file1)
    BY DEF Init
  <2>3. IndexOK
    BY <2>2 DEF IndexOK, NoIndex
  <2>4. w[ip - 1] = {}
    BY <2>2 DEF Course
  <2>5. QED
    BY <2>1, <2>2, <2>3, <2>4 DEF OpenInv
<1>3. QED
  BY <1>1, <1>2 DEF RelInv

\* Every step of the tests.
LEMMA ScriptSteps ==
  ASSUME NEW w, Course(w), RelInv(w), TestStep
  PROVE  RelInv(w)'
<1>1. CASE CreateRelation \/ WritePages \/ RemoveRelation \/ DeleteFile1
  BY <1>1, CreateRelationStep, WritePagesStep, RemoveRelationStep, DeleteFile1Step
<1>2. CASE OpenIndex \/ CreateIndex \/ OpenScan \/ Scans \/ InsertEntry
  BY <1>2, OpenIndexStep, CreateIndexStep, OpenScanStep, ScansStep, InsertEntryStep
<1>3. CASE CloseIndex \/ CloseScan
  BY <1>3, CloseIndexStep, CloseScanStep
<1>4. CASE StartQuery \/ QueryNext \/ EndQuery
  BY <1>4, StartQueryStep, QueryNextStep, EndQueryStep
<1>5. CASE DeleteIndex \/ RemoveIndex
  BY <1>5, DeleteIndexStep, RemoveIndexStep
<1>6. QED
  BY <1>1, <1>2, <1>3, <1>4, <1>5 DEF TestStep

\* Nothing happens.
LEMMA Stutters ==
  ASSUME NEW w, RelInv(w), UNCHANGED vars
  PROVE  RelInv(w)'
<1>1. UNCHANGED <<relation, pool, scanVars, program, ip, phase, file1, index>>
      /\ scan' = scan
  BY DEF vars, fsVars, testVars, scanVars
<1>2. ScanInv'
  BY <1>1, IdleSteps DEF RelInv
<1>3. Op' = Op
  BY <1>1 DEF Op
<1>4. OpenInv(w)'
  BY <1>1, <1>3 DEF RelInv, OpenInv, IndexOK, Live
<1>5. QED
  BY <1>2, <1>4 DEF RelInv
-----------------------------------------------------------------------------
(***************************************************************************)
(* The theorems.                                                           *)
(***************************************************************************)
\* Along some course of what main's script leaves open, the scan stands
\* where its pins and its records say, and the pool has pages of files that
\* are open only.
RelationInv == \E w : Course(w) /\ RelInv(w)

\* The scan of filescan.cpp holds the page it stands on and no other, and has
\* returned the records before it; what its callers, the constructor of the
\* index and the scans of the index hold is released before their File goes.
THEOREM RelationInvariant == Spec => []RelationInv
<1>1. \E w : Course(w)
  BY ScriptRuns DEF Runs, Course
<1>2. Init => RelationInv
  BY <1>1, StartsRight DEF RelationInv
<1>3. RelationInv /\ [Next]_vars => RelationInv'
  <2> SUFFICES ASSUME RelationInv, [Next]_vars
               PROVE  RelationInv'
    OBVIOUS
  <2>1. PICK w : Course(w) /\ RelInv(w)
    BY DEF RelationInv
  <2>2. RelInv(w)'
    <3>1. CASE ClientStep
      BY <2>1, <3>1, ClientSteps
    <3>2. CASE TestStep
      BY <2>1, <3>2, ScriptSteps
    <3>3. CASE Rerun
      BY <2>1, <3>3, RerunStep
    <3>4. CASE UNCHANGED vars
      BY <2>1, <3>4, Stutters
    <3>5. QED
      BY <3>1, <3>2, <3>3, <3>4 DEF Next
  <2>3. QED
    BY <2>1, <2>2 DEF RelationInv
<1>4. QED
  BY <1>2, <1>3, PTL DEF Spec

\* A FileScan returns the records of the relation in their order, each once,
\* and all of them before EndOfFileException, whatever pages others hold
\* (filescan.cpp:36): it never begins again in the middle.
THEOREM EachInTurnAlways == Spec => []EachInTurn
<1>1. RelationInv => EachInTurn
  BY ScanInTurn DEF RelationInv, RelInv
<1>2. QED
  BY <1>1, RelationInvariant, PTL

\* The pool, keyed by the address of File objects, keeps no page of one that
\* is gone, through every test of main.cpp and a run that was stopped.
THEOREM NoDanglingAlways == Spec => []NoDangling
<1>1. RelationInv => NoDangling
  BY LiveFilesAre DEF RelationInv, RelInv, OpenInv, NoDangling
<1>2. QED
  BY <1>1, RelationInvariant, PTL
==============================================================================
