----------------------------- MODULE BTreeProofs -----------------------------
(***************************************************************************)
(* The B+ tree keeps its shape, its order and its keys, and a scan of it   *)
(* goes through them in order, for any occupancies and any number of pages *)
(* and keys.                                                               *)
(*                                                                         *)
(* First come the facts about single nodes: what the insertion of an entry *)
(* and a split do to one, whatever its keys and however many.  Then those  *)
(* about the nodes nd of a tree whose height is h and whose file has the   *)
(* pages before np, and about nd2, what an insertion makes of them: no     *)
(* variable occurs in them.  Then come the steps of insertion, and last    *)
(* the scan.                                                               *)
(***************************************************************************)
EXTENDS BTreeScan, Iteration, SequenceTheorems

-----------------------------------------------------------------------------
(***************************************************************************)
(* Sequences.                                                              *)
(***************************************************************************)
Sorted(s) == \A i, j \in 1 .. Len(s) : i < j => s[i] < s[j]

\* t is s with e put in at i.
Takes(t, s, i, e) ==
  /\ Len(t) = Len(s) + 1
  /\ \A j \in 1 .. Len(s) + 1 :
       t[j] = IF j < i THEN s[j] ELSE IF j = i THEN e ELSE s[j - 1]

\* InsertAt puts its element in place and moves up those from there on.
LEMMA InsertAtIs ==
  ASSUME NEW T, NEW s \in Seq(T), NEW i \in 1 .. Len(s) + 1, NEW e \in T
  PROVE  InsertAt(s, i, e) \in Seq(T) /\ Takes(InsertAt(s, i, e), s, i, e)
<1> DEFINE a == SubSeq(s, 1, i - 1)
           b == SubSeq(s, i, Len(s))
<1>1. Len(s) \in Nat /\ \A j \in 1 .. Len(s) : s[j] \in T
  BY LenProperties
<1>2. /\ a \in Seq(T) /\ Len(a) = i - 1
      /\ \A j \in 1 .. i - 1 : a[j] = s[j]
  BY <1>1, SubSeqProperties
<1>3. /\ b \in Seq(T) /\ Len(b) = Len(s) - i + 1
      /\ \A j \in 1 .. Len(s) - i + 1 : b[j] = s[i + j - 1]
  BY <1>1, SubSeqProperties
<1>4. <<e>> \in Seq(T) /\ Len(<<e>>) = 1 /\ <<e>>[1] = e
  OBVIOUS
<1> HIDE DEF a, b
<1> DEFINE ae == a \o <<e>>
<1>5. /\ ae \in Seq(T) /\ Len(ae) = i
      /\ \A j \in 1 .. i : ae[j] = IF j < i THEN s[j] ELSE e
  BY <1>1, <1>2, <1>4, ConcatProperties
<1> HIDE DEF ae
<1>6. /\ ae \o b \in Seq(T) /\ Len(ae \o b) = Len(s) + 1
      /\ \A j \in 1 .. Len(s) + 1 : (ae \o b)[j] = IF j <= i THEN ae[j] ELSE b[j - i]
  <2>1. /\ ae \o b \in Seq(T) /\ Len(ae \o b) = Len(ae) + Len(b)
        /\ \A j \in 1 .. Len(ae) + Len(b) :
             (ae \o b)[j] = IF j <= Len(ae) THEN ae[j] ELSE b[j - Len(ae)]
    BY <1>3, <1>5, ConcatProperties
  <2>2. Len(ae) + Len(b) = Len(s) + 1
    BY <1>1, <1>3, <1>5
  <2>3. QED
    BY <1>5, <2>1, <2>2
<1>7. \A j \in 1 .. Len(s) + 1 : j > i => b[j - i] = s[j - 1]
  BY <1>1, <1>3
<1>8. InsertAt(s, i, e) = ae \o b
  BY DEF InsertAt, a, b, ae
<1>9. QED
  BY <1>1, <1>5, <1>6, <1>7, <1>8 DEF Takes

\* A set that holds each number below one of its own, from 1 on, is an
\* interval.
LEMMA Downward ==
  ASSUME NEW n \in Nat, NEW W \in SUBSET (1 .. n),
         \A i \in W : \A j \in 1 .. n : j < i => j \in W
  PROVE  Cardinality(W) \in 0 .. n /\ W = 1 .. Cardinality(W)
<1>1. PICK m \in 0 .. n : W = 1 .. m
  <2> DEFINE S == {i \in Nat : i <= n => W \cap (1 .. i) = 1 .. i
                                        \/ \E m \in 0 .. n : W = 1 .. m}
  <2>1. 0 \in S
    OBVIOUS
  <2>2. ASSUME NEW i \in Nat, i \in S PROVE i + 1 \in S
    <3>1. CASE i + 1 \in W
      BY <2>2, <3>1
    <3>2. CASE i + 1 \notin W /\ i + 1 <= n /\ W \cap (1 .. i) = 1 .. i
      <4>1. \A j \in W : j < i + 1
        BY <3>2
      <4>2. \A j \in W : j \in 1 .. i
        BY <4>1
      <4>3. 1 .. i \subseteq W
        BY <3>2
      <4>4. W = 1 .. i
        BY <4>2, <4>3
      <4>5. QED
        BY <3>2, <4>4
    <3>3. QED
      BY <2>2, <3>1, <3>2
  <2> HIDE DEF S
  <2>3. n \in S
    BY <2>1, <2>2, SetInduction
  <2>4. CASE W \cap (1 .. n) = 1 .. n
    <3>1. 1 .. n \subseteq W
      BY <2>4
    <3>2. \A j \in W : j \in 1 .. n
      OBVIOUS
    <3>3. W = 1 .. n
      BY <3>1, <3>2
    <3>4. n \in 0 .. n
      OBVIOUS
    <3>5. QED
      BY <3>3, <3>4
  <2>5. QED
    BY <2>3, <2>4 DEF S
<1>2. QED
  BY <1>1, FS_Interval

-----------------------------------------------------------------------------
(***************************************************************************)
(* Where a key belongs in a node.                                          *)
(***************************************************************************)
\* x belongs in front of the j-th key of s and behind the one before.
In(s, j, x) ==
  /\ j > 1 => s[j - 1] <= x
  /\ j <= Len(s) => x < s[j]

\* The keys passed over are a part of the node's keys, sorted or not.
LEMMA PosRange ==
  ASSUME NEW n, n.keys \in Seq(Int), NEW k \in Int
  PROVE  Pos(n, k) \in 0 .. Len(n.keys)
<1> DEFINE W == {i \in DOMAIN n.keys : n.keys[i] <= k}
<1>1. DOMAIN n.keys = 1 .. Len(n.keys) /\ Len(n.keys) \in Nat
  BY LenProperties
<1>2. IsFiniteSet(1 .. Len(n.keys)) /\ Cardinality(1 .. Len(n.keys)) = Len(n.keys)
  BY <1>1, FS_Interval
<1>3. W \in SUBSET (1 .. Len(n.keys))
  BY <1>1
<1> HIDE DEF W
<1>4. IsFiniteSet(W) /\ Cardinality(W) <= Len(n.keys)
  BY <1>2, <1>3, FS_Subset
<1>5. Cardinality(W) \in Nat
  BY <1>4, FS_CardinalityType
<1>6. QED
  BY <1>1, <1>4, <1>5 DEF Pos, W

\* In a sorted node they are the first ones: the rest are greater than k.
LEMMA PosIs ==
  ASSUME NEW n, n.keys \in Seq(Int), Sorted(n.keys), NEW k \in Int
  PROVE  /\ Pos(n, k) \in 0 .. Len(n.keys)
         /\ \A i \in 1 .. Len(n.keys) : n.keys[i] <= k <=> i <= Pos(n, k)
<1> DEFINE s == n.keys
           W == {i \in DOMAIN s : s[i] <= k}
<1>1. DOMAIN s = 1 .. Len(s) /\ Len(s) \in Nat /\ \A i \in 1 .. Len(s) : s[i] \in Int
  BY LenProperties
<1>2. W \in SUBSET (1 .. Len(s))
  BY <1>1
<1>3. \A i \in W : \A j \in 1 .. Len(s) : j < i => j \in W
  <2> SUFFICES ASSUME NEW i \in W, NEW j \in 1 .. Len(s), j < i PROVE s[j] <= k
    BY <1>1
  <2>1. s[j] < s[i] /\ s[i] <= k
    BY <1>1 DEF Sorted
  <2>2. QED
    BY <1>1, <2>1
<1>4. Cardinality(W) \in 0 .. Len(s) /\ W = 1 .. Cardinality(W)
  <2> HIDE DEF W
  <2>1. QED
    BY <1>1, <1>2, <1>3, Downward
<1>5. Pos(n, k) = Cardinality(W)
  BY DEF Pos
<1>6. \A i \in 1 .. Len(s) : i \in W <=> s[i] <= k
  BY <1>1
<1> HIDE DEF W
<1>7. \A i \in 1 .. Len(s) : i \in W <=> i <= Cardinality(W)
  BY <1>1, <1>4
<1>8. QED
  BY <1>4, <1>5, <1>6, <1>7

\* So a key belongs in one place of a sorted node.
LEMMA PosIn ==
  ASSUME NEW n, n.keys \in Seq(Int), Sorted(n.keys), NEW k \in Int,
         NEW j \in 1 .. Len(n.keys) + 1
  PROVE  In(n.keys, j, k) <=> j = Pos(n, k) + 1
<1> DEFINE s == n.keys
           c == Pos(n, k)
<1>1. Len(s) \in Nat /\ \A i \in 1 .. Len(s) : s[i] \in Int
  BY LenProperties
<1>2. c \in 0 .. Len(s) /\ \A i \in 1 .. Len(s) : s[i] <= k <=> i <= c
  BY PosIs
<1> HIDE DEF c
<1>3. (j <= Len(s) => k < s[j]) <=> j > c
  <2>1. CASE j <= Len(s)
    <3>1. s[j] <= k <=> j <= c
      BY <1>2, <2>1
    <3>2. QED
      BY <1>1, <1>2, <2>1, <3>1
  <2>2. CASE j > Len(s)
    BY <1>1, <1>2, <2>2
  <2>3. QED
    BY <1>1, <2>1, <2>2
<1>4. (j > 1 => s[j - 1] <= k) <=> j - 1 <= c
  <2>1. CASE j > 1
    <3>1. j - 1 \in 1 .. Len(s)
      BY <1>1, <2>1
    <3>2. QED
      BY <1>2, <2>1, <3>1
  <2>2. QED
    BY <1>1, <1>2, <2>1
<1>5. QED
  BY <1>1, <1>2, <1>3, <1>4 DEF In, c

\* A key that is new to a sorted node goes to its place there.
LEMMA InsertSorted ==
  ASSUME NEW s \in Seq(Int), Sorted(s), NEW i \in 1 .. Len(s) + 1, NEW e \in Int,
         In(s, i, e), \A j \in 1 .. Len(s) : s[j] # e
  PROVE  Sorted(InsertAt(s, i, e))
<1>1. Len(s) \in Nat /\ \A j \in 1 .. Len(s) : s[j] \in Int
  BY LenProperties
<1> DEFINE t == InsertAt(s, i, e)
<1>2. /\ Len(t) = Len(s) + 1
      /\ \A j \in 1 .. Len(s) + 1 :
           t[j] = IF j < i THEN s[j] ELSE IF j = i THEN e ELSE s[j - 1]
  <2>1. Takes(t, s, i, e)
    BY InsertAtIs
  <2>2. QED
    BY <2>1 DEF Takes
<1> HIDE DEF t
<1>3. \A j \in 1 .. Len(s) : (j < i => s[j] < e) /\ (j >= i => e < s[j])
  <2> SUFFICES ASSUME NEW j \in 1 .. Len(s)
               PROVE  (j < i => s[j] < e) /\ (j >= i => e < s[j])
    OBVIOUS
  <2>1. CASE j < i
    <3>1. i - 1 \in 1 .. Len(s) /\ s[i - 1] <= e
      BY <1>1, <2>1 DEF In
    <3>2. j = i - 1 \/ s[j] < s[i - 1]
      BY <1>1, <2>1, <3>1 DEF Sorted
    <3>3. s[j] # e /\ s[j] \in Int /\ s[i - 1] \in Int
      BY <1>1, <3>1
    <3>4. QED
      BY <2>1, <3>1, <3>2, <3>3
  <2>2. CASE j >= i
    <3>1. i \in 1 .. Len(s) /\ e < s[i]
      BY <1>1, <2>2 DEF In
    <3>2. j = i \/ s[i] < s[j]
      BY <1>1, <2>2, <3>1 DEF Sorted
    <3>3. s[i] \in Int /\ s[j] \in Int
      BY <1>1, <3>1
    <3>4. QED
      BY <2>2, <3>1, <3>2, <3>3
  <2>3. QED
    BY <1>1, <2>1, <2>2
<1>4. ASSUME NEW a \in 1 .. Len(t), NEW b \in 1 .. Len(t), a < b PROVE t[a] < t[b]
  <2>0. a \in 1 .. Len(s) + 1 /\ b \in 1 .. Len(s) + 1
    BY <1>2
  <2>1. CASE b < i
    <3>1. a \in 1 .. Len(s) /\ b \in 1 .. Len(s) /\ a < i
      BY <1>1, <1>4, <2>0, <2>1
    <3>2. t[a] = s[a] /\ t[b] = s[b]
      BY <1>2, <2>0, <2>1, <3>1
    <3>3. s[a] < s[b]
      BY <1>4, <3>1 DEF Sorted
    <3>4. QED
      BY <3>2, <3>3
  <2>2. CASE b = i
    <3>1. t[b] = e /\ t[a] = s[a] /\ a \in 1 .. Len(s) /\ a < i
      BY <1>1, <1>2, <1>4, <2>0, <2>2
    <3>2. QED
      BY <1>3, <3>1
  <2>3. CASE b > i /\ a < i
    <3>1. t[b] = s[b - 1] /\ t[a] = s[a] /\ a \in 1 .. Len(s) /\ b - 1 \in 1 .. Len(s) /\ b - 1 >= i
      BY <1>1, <1>2, <1>4, <2>0, <2>3
    <3>2. a < b - 1
      BY <2>3, <2>0
    <3>3. QED
      BY <3>1, <3>2 DEF Sorted
  <2>4. CASE b > i /\ a = i
    <3>1. t[b] = s[b - 1] /\ t[a] = e /\ b - 1 \in 1 .. Len(s) /\ b - 1 >= i
      BY <1>1, <1>2, <1>4, <2>0, <2>4
    <3>2. QED
      BY <1>3, <3>1
  <2>5. CASE b > i /\ a > i
    <3>1. t[b] = s[b - 1] /\ t[a] = s[a - 1] /\ b - 1 \in 1 .. Len(s) /\ a - 1 \in 1 .. Len(s)
      BY <1>1, <1>2, <1>4, <2>0, <2>5
    <3>2. a - 1 < b - 1
      BY <1>4, <2>0
    <3>3. QED
      BY <3>1, <3>2 DEF Sorted
  <2>6. QED
    BY <1>4, <2>0, <2>1, <2>2, <2>3, <2>4, <2>5
<1>5. QED
  BY <1>4 DEF Sorted, t

-----------------------------------------------------------------------------
(***************************************************************************)
(* The two halves of a split node.                                         *)
(***************************************************************************)
\* t is what s has from m on to n.
Part(t, s, m, n) ==
  /\ Len(t) = n - m + 1
  /\ \A j \in 1 .. n - m + 1 : t[j] = s[m + j - 1]

\* SubSeq gives the part from m to n.
LEMMA SubSeqIs ==
  ASSUME NEW T, NEW s \in Seq(T), NEW m \in Nat \ {0}, NEW n \in Nat,
         m <= n + 1, n <= Len(s)
  PROVE  SubSeq(s, m, n) \in Seq(T) /\ Part(SubSeq(s, m, n), s, m, n)
<1>1. Len(s) \in Nat /\ \A i \in 1 .. Len(s) : s[i] \in T
  BY LenProperties
<1>2. m \in Int /\ n \in Int /\ \A i \in m .. n : s[i] \in T
  BY <1>1
<1>3. /\ SubSeq(s, m, n) \in Seq(T)
      /\ Len(SubSeq(s, m, n)) = IF m <= n THEN n - m + 1 ELSE 0
      /\ \A i \in 1 .. n - m + 1 : SubSeq(s, m, n)[i] = s[m + i - 1]
  BY <1>2, SubSeqProperties
<1>4. m > n => n - m + 1 = 0
  OBVIOUS
<1>5. QED
  BY <1>3, <1>4 DEF Part

\* The least a node other than the root holds.
MinKeys(n) ==
  IF n.kids = <<>> THEN (leafOccupancy + 1) \div 2 ELSE nodeOccupancy \div 2

\* A node that has taken in one entry too many.
Overfull(g) ==
  /\ g \in NodeType
  /\ Len(g.keys) = Occupancy(g) + 1
  /\ g.kids # <<>> => Len(g.kids) = Len(g.keys) + 1

\* The left half has a key, and so has the right one behind the separator.
LEMMA LeftSizeIs ==
  ASSUME NEW g, Overfull(g)
  PROVE  /\ LeftSize(g) \in Nat \ {0} /\ LeftSize(g) + 1 <= Len(g.keys)
         /\ Len(g.keys) \in Nat
         /\ g.kids = <<>> => /\ LeftSize(g) = leafOccupancy \div 2 + 1
                             /\ Len(g.keys) = leafOccupancy + 1
         /\ g.kids # <<>> => /\ LeftSize(g) = (nodeOccupancy + 1) \div 2
                             /\ Len(g.keys) = nodeOccupancy + 1
BY BTreeAssumption DEF LeftSize, Overfull, Occupancy

\* The left half has the keys up to LeftSize, and the children around them.
LEMMA LeftIs ==
  ASSUME NEW g, Overfull(g), NEW p \in PageIds
  PROVE  LET l == Left(g, p) IN
           /\ l \in NodeType
           /\ Part(l.keys, g.keys, 1, LeftSize(g))
           /\ l.kids = <<>> <=> g.kids = <<>>
           /\ g.kids # <<>> => Part(l.kids, g.kids, 1, LeftSize(g) + 1)
           /\ l.next = IF g.kids = <<>> THEN p ELSE g.next
           /\ l.level = g.level
           /\ Len(l.keys) <= Occupancy(l)
           /\ Len(l.keys) >= MinKeys(l)
<1> DEFINE L == LeftSize(g)
           l == Left(g, p)
           ks == SubSeq(g.keys, 1, L)
<1>1. /\ g \in NodeType /\ g.keys \in Seq(Keys) /\ g.kids \in Seq(PageIds)
      /\ L \in Nat \ {0} /\ L + 1 <= Len(g.keys) /\ Len(g.keys) \in Nat
  BY LeftSizeIs DEF Overfull, NodeType
<1>2. ks \in Seq(Keys) /\ Part(ks, g.keys, 1, L)
  <2> HIDE DEF L
  <2>1. QED
    BY <1>1, SubSeqIs
<1>3. CASE g.kids = <<>>
  <2> HIDE DEF L
  <2>1. l = [g EXCEPT !.keys = ks, !.next = p]
    BY <1>3 DEF Left, L
  <2> HIDE DEF ks, l
  <2>2. l \in NodeType /\ l.keys = ks /\ l.kids = g.kids /\ l.next = p /\ l.level = g.level
    BY <1>1, <1>2, <2>1 DEF NodeType
  <2>3. Len(ks) = leafOccupancy \div 2 + 1
    BY <1>1, <1>2, <1>3, LeftSizeIs DEF Part, L
  <2>4. Len(ks) <= leafOccupancy /\ Len(ks) >= (leafOccupancy + 1) \div 2
    BY <2>3, BTreeAssumption
  <2>5. QED
    BY <1>2, <1>3, <2>2, <2>4 DEF Occupancy, MinKeys, l, L
<1>4. CASE g.kids # <<>>
  <2> DEFINE cs == SubSeq(g.kids, 1, L + 1)
  <2> HIDE DEF L
  <2>1. l = [g EXCEPT !.keys = ks, !.kids = cs, !.bound = TRUE]
    BY <1>4 DEF Left, L
  <2>2. cs \in Seq(PageIds) /\ Part(cs, g.kids, 1, L + 1)
    <3>1. Len(g.kids) = Len(g.keys) + 1
      BY <1>4 DEF Overfull
    <3>2. 1 \in Nat \ {0} /\ L + 1 \in Nat /\ 1 <= (L + 1) + 1 /\ L + 1 <= Len(g.kids)
      BY <1>1, <3>1
    <3>3. QED
      BY <1>1, <3>2, SubSeqIs
  <2> HIDE DEF ks, cs, l
  <2>3. l \in NodeType /\ l.keys = ks /\ l.kids = cs /\ l.next = g.next /\ l.level = g.level
    BY <1>1, <1>2, <2>1, <2>2 DEF NodeType
  <2>4. cs # <<>>
    BY <1>1, <2>2 DEF Part
  <2>5. Len(ks) = (nodeOccupancy + 1) \div 2
    BY <1>1, <1>2, <1>4, LeftSizeIs DEF Part, L
  <2>6. Len(ks) <= nodeOccupancy /\ Len(ks) >= nodeOccupancy \div 2
    BY <2>5, BTreeAssumption
  <2>7. QED
    BY <1>2, <1>4, <2>2, <2>3, <2>4, <2>6 DEF Occupancy, MinKeys, l, L
<1>5. QED
  BY <1>3, <1>4

\* The right half has the keys after them; a node that is not a leaf gives
\* the first of these up.
LEMMA RightIs ==
  ASSUME NEW g, Overfull(g)
  PROVE  LET r == Right(g) IN
           /\ r \in NodeType
           /\ r.kids = <<>> <=> g.kids = <<>>
           /\ g.kids = <<>> => Part(r.keys, g.keys, LeftSize(g) + 1, Len(g.keys))
           /\ g.kids # <<>> => /\ Part(r.keys, g.keys, LeftSize(g) + 2, Len(g.keys))
                               /\ Part(r.kids, g.kids, LeftSize(g) + 2, Len(g.kids))
           /\ r.next = g.next
           /\ r.level = g.level
           /\ Len(r.keys) <= Occupancy(r)
           /\ Len(r.keys) >= MinKeys(r)
<1> DEFINE L == LeftSize(g)
           r == Right(g)
           n == Len(g.keys)
<1>1. /\ g \in NodeType /\ g.keys \in Seq(Keys) /\ g.kids \in Seq(PageIds)
      /\ L \in Nat \ {0} /\ L + 1 <= n /\ n \in Nat
  BY LeftSizeIs DEF Overfull, NodeType
<1>2. CASE g.kids = <<>>
  <2> DEFINE ks == SubSeq(g.keys, L + 1, n)
  <2>1. r = [g EXCEPT !.keys = ks]
    BY <1>2 DEF Right, L
  <2> HIDE DEF L
  <2>2. ks \in Seq(Keys) /\ Part(ks, g.keys, L + 1, n)
    <3>1. L + 1 \in Nat \ {0} /\ L + 1 <= n + 1 /\ n <= Len(g.keys)
      BY <1>1
    <3>2. QED
      BY <1>1, <3>1, SubSeqIs
  <2> HIDE DEF ks, r
  <2>3. r \in NodeType /\ r.keys = ks /\ r.kids = g.kids /\ r.next = g.next /\ r.level = g.level
    BY <1>1, <2>1, <2>2 DEF NodeType
  <2>4. Len(ks) = leafOccupancy - leafOccupancy \div 2
    <3>1. Len(ks) = n - (L + 1) + 1
      BY <2>2 DEF Part
    <3>2. L = leafOccupancy \div 2 + 1 /\ n = leafOccupancy + 1
      BY <1>2, LeftSizeIs DEF L
    <3>3. QED
      BY <3>1, <3>2, BTreeAssumption
  <2>5. Len(ks) <= leafOccupancy /\ Len(ks) >= (leafOccupancy + 1) \div 2
    BY <2>4, BTreeAssumption
  <2>6. QED
    BY <1>2, <2>2, <2>3, <2>5 DEF Occupancy, MinKeys, r, L
<1>3. CASE g.kids # <<>>
  <2> DEFINE ks == SubSeq(g.keys, L + 2, n)
             cs == SubSeq(g.kids, L + 2, Len(g.kids))
  <2>1. r = [g EXCEPT !.keys = ks, !.kids = cs, !.bound = TRUE]
    BY <1>3 DEF Right, L
  <2> HIDE DEF L
  <2>2. Len(g.kids) = n + 1
    BY <1>3 DEF Overfull
  <2>3. ks \in Seq(Keys) /\ Part(ks, g.keys, L + 2, n)
    <3>1. L + 2 \in Nat \ {0} /\ L + 2 <= n + 1 /\ n <= Len(g.keys)
      BY <1>1
    <3>2. QED
      BY <1>1, <3>1, SubSeqIs
  <2>4. cs \in Seq(PageIds) /\ Part(cs, g.kids, L + 2, Len(g.kids))
    <3>1. L + 2 \in Nat \ {0} /\ L + 2 <= Len(g.kids) + 1 /\ Len(g.kids) \in Nat
      BY <1>1, <2>2
    <3>2. QED
      BY <1>1, <3>1, SubSeqIs
  <2> HIDE DEF ks, cs, r
  <2>5. r \in NodeType /\ r.keys = ks /\ r.kids = cs /\ r.next = g.next /\ r.level = g.level
    BY <1>1, <2>1, <2>3, <2>4 DEF NodeType
  <2>6. cs # <<>>
    <3>1. Len(cs) = Len(g.kids) - (L + 2) + 1
      BY <2>4 DEF Part
    <3>2. Len(cs) > 0
      BY <1>1, <2>2, <3>1
    <3>3. QED
      BY <3>2
  <2>7. Len(ks) = nodeOccupancy - (nodeOccupancy + 1) \div 2
    <3>1. Len(ks) = n - (L + 2) + 1
      BY <2>3 DEF Part
    <3>2. L = (nodeOccupancy + 1) \div 2 /\ n = nodeOccupancy + 1
      BY <1>3, LeftSizeIs DEF L
    <3>3. QED
      BY <3>1, <3>2, BTreeAssumption
  <2>8. Len(ks) <= nodeOccupancy /\ Len(ks) >= nodeOccupancy \div 2
    BY <2>7, BTreeAssumption
  <2>9. QED
    BY <1>3, <2>3, <2>4, <2>5, <2>6, <2>8 DEF Occupancy, MinKeys, r, L
<1>4. QED
  BY <1>2, <1>3

-----------------------------------------------------------------------------
(***************************************************************************)
(* The keys of a node.  X are the keys that belong under it and under[c]   *)
(* those that belong under its child c.                                    *)
(***************************************************************************)
Ordered(n, X, under) ==
  /\ Sorted(n.keys)
  /\ \A j \in 1 .. Len(n.keys) : n.keys[j] \in X
  /\ \A j \in 1 .. Len(n.kids) : under[n.kids[j]] = {x \in X : In(n.keys, j, x)}

Below(X, k) == {x \in X : x < k}
From(X, k) == {x \in X : x >= k}

\* A split leaves each child where it was, for the keys below the separator
\* to the left and for the others to the right.
LEMMA SeparatorIs ==
  ASSUME NEW g, Overfull(g), NEW X \in SUBSET Int, NEW under, Ordered(g, X, under)
  PROVE  /\ Separator(g) \in Keys \cap X
         /\ \E x \in X : x < Separator(g)
<1> DEFINE L == LeftSize(g)
<1>1. L \in Nat \ {0} /\ L + 1 <= Len(g.keys) /\ Len(g.keys) \in Nat /\ g.keys \in Seq(Keys)
  BY LeftSizeIs DEF Overfull, NodeType
<1>2. L + 1 \in 1 .. Len(g.keys) /\ 1 \in 1 .. Len(g.keys) /\ 1 < L + 1
  BY <1>1
<1>3. Separator(g) = g.keys[L + 1]
  BY DEF Separator
<1> HIDE DEF L
<1>4. g.keys[L + 1] \in Keys
  BY <1>1, <1>2, ElementOfSeq
<1>5. g.keys[1] < g.keys[L + 1] /\ g.keys[1] \in X /\ g.keys[L + 1] \in X
  BY <1>2 DEF Ordered, Sorted
<1>6. QED
  BY <1>3, <1>4, <1>5

\* The left half is in order for the keys below the separator.
LEMMA LeftOrdered ==
  ASSUME NEW g, Overfull(g), NEW p \in PageIds,
         NEW X \in SUBSET Int, NEW under, Ordered(g, X, under)
  PROVE  Ordered(Left(g, p), Below(X, Separator(g)), under)
<1> DEFINE L == LeftSize(g)
           l == Left(g, p)
           sep == Separator(g)
           n == Len(g.keys)
<1>1. /\ L \in Nat \ {0} /\ L + 1 <= n /\ n \in Nat
      /\ g.keys \in Seq(Keys)
      /\ g.kids # <<>> => Len(g.kids) = n + 1
  BY LeftSizeIs DEF Overfull, NodeType
<1>2. sep = g.keys[L + 1]
  BY DEF Separator
<1>3. /\ Part(l.keys, g.keys, 1, L)
      /\ l.kids = <<>> <=> g.kids = <<>>
      /\ g.kids # <<>> => Part(l.kids, g.kids, 1, L + 1)
  BY LeftIs
<1>5. \A j \in 1 .. n : g.keys[j] \in Int /\ g.keys[j] \in X
  BY DEF Ordered
<1>6. \A i, j \in 1 .. n : i < j => g.keys[i] < g.keys[j]
  BY DEF Ordered, Sorted
<1>7. \A j \in 1 .. Len(g.kids) : under[g.kids[j]] = {x \in X : In(g.keys, j, x)}
  BY DEF Ordered
<1> HIDE DEF L, l, sep
<1>4. Len(l.keys) = L /\ \A j \in 1 .. L : l.keys[j] = g.keys[j]
  BY <1>1, <1>3 DEF Part
<1>8. L + 1 \in 1 .. n /\ sep \in Int /\ \A j \in 1 .. L : j \in 1 .. n /\ g.keys[j] < sep
  BY <1>1, <1>2, <1>5, <1>6
<1>9. Sorted(l.keys)
  <2>1. ASSUME NEW i \in 1 .. L, NEW j \in 1 .. L, i < j PROVE g.keys[i] < g.keys[j]
    BY <1>6, <1>8, <2>1
  <2>2. QED
    BY <1>4, <2>1 DEF Sorted
<1>10. \A j \in 1 .. Len(l.keys) : l.keys[j] \in Below(X, sep)
  BY <1>4, <1>5, <1>8 DEF Below
<1>11. ASSUME NEW j \in 1 .. Len(l.kids)
       PROVE  under[l.kids[j]] = {x \in Below(X, sep) : In(l.keys, j, x)}
  <2>1. CASE g.kids = <<>>
    BY <1>3, <2>1
  <2>2. CASE g.kids # <<>>
    <3>1. /\ Len(g.kids) = n + 1
          /\ Len(l.kids) = L + 1 /\ \A i \in 1 .. L + 1 : l.kids[i] = g.kids[i]
      <4>1. Len(g.kids) = n + 1 /\ Part(l.kids, g.kids, 1, L + 1)
        BY <1>1, <1>3, <2>2
      <4>2. L \in Nat
        BY <1>1
      <4>3. Len(l.kids) = (L + 1) - 1 + 1
            /\ \A i \in 1 .. (L + 1) - 1 + 1 : l.kids[i] = g.kids[1 + i - 1]
        BY <4>1 DEF Part
      <4>4. (L + 1) - 1 + 1 = L + 1
        BY <4>2
      <4>5. ASSUME NEW i \in 1 .. L + 1 PROVE l.kids[i] = g.kids[i]
        <5>1. 1 + i - 1 = i
          BY <4>2
        <5>2. QED
          BY <4>3, <4>4, <5>1
      <4>6. QED
        BY <4>1, <4>3, <4>4, <4>5
    <3>2. j \in 1 .. L + 1 /\ j \in Int /\ l.kids[j] = g.kids[j]
      BY <3>1
    <3>3. j \in 1 .. Len(g.kids)
      BY <1>1, <3>1, <3>2
    <3>4. under[g.kids[j]] = {x \in X : In(g.keys, j, x)}
      BY <1>7, <3>3
    <3>5. ASSUME NEW x \in X PROVE In(g.keys, j, x) <=> x < sep /\ In(l.keys, j, x)
      <4>1. j > 1 => l.keys[j - 1] = g.keys[j - 1]
        <5>1. j > 1 => j - 1 \in 1 .. L
          BY <1>1, <3>2
        <5>2. QED
          BY <1>4, <5>1
      <4>2. x \in Int
        OBVIOUS
      <4>3. CASE j <= L
        <5>1. j \in 1 .. L /\ j <= n
          BY <1>1, <3>2, <4>3
        <5>2. l.keys[j] = g.keys[j] /\ g.keys[j] < sep /\ g.keys[j] \in Int
          BY <1>4, <1>5, <1>8, <5>1
        <5>3. x < g.keys[j] => x < sep
          BY <1>8, <4>2, <5>2
        <5>4. j <= Len(g.keys) /\ j <= Len(l.keys)
          BY <1>4, <4>3, <5>1
        <5>5. QED
          BY <4>1, <5>2, <5>3, <5>4 DEF In
      <4>4. CASE j = L + 1
        <5>1. j <= Len(g.keys) /\ ~(j <= Len(l.keys)) /\ g.keys[j] = sep
          BY <1>1, <1>2, <1>4, <4>4
        <5>2. QED
          BY <4>1, <5>1 DEF In
      <4>5. QED
        BY <1>1, <3>2, <4>3, <4>4
    <3>6. QED
      BY <3>2, <3>4, <3>5 DEF Below
  <2>3. QED
    BY <2>1, <2>2
<1>12. QED
  BY <1>9, <1>10, <1>11 DEF Ordered, l, sep

\* The right half is in order for the others.
LEMMA RightOrdered ==
  ASSUME NEW g, Overfull(g), NEW X \in SUBSET Int, NEW under, Ordered(g, X, under)
  PROVE  Ordered(Right(g), From(X, Separator(g)), under)
<1> DEFINE L == LeftSize(g)
           r == Right(g)
           sep == Separator(g)
           n == Len(g.keys)
<1>1. /\ L \in Nat \ {0} /\ L + 1 <= n /\ n \in Nat
      /\ g.keys \in Seq(Keys)
      /\ g.kids # <<>> => Len(g.kids) = n + 1
  BY LeftSizeIs DEF Overfull, NodeType
<1>2. sep = g.keys[L + 1]
  BY DEF Separator
<1>3. /\ r.kids = <<>> <=> g.kids = <<>>
      /\ g.kids = <<>> => Part(r.keys, g.keys, L + 1, n)
      /\ g.kids # <<>> => Part(r.keys, g.keys, L + 2, n)
                          /\ Part(r.kids, g.kids, L + 2, Len(g.kids))
  BY RightIs
<1>4. \A j \in 1 .. n : g.keys[j] \in Int /\ g.keys[j] \in X
  BY DEF Ordered
<1>5. \A i, j \in 1 .. n : i < j => g.keys[i] < g.keys[j]
  BY DEF Ordered, Sorted
<1>6. \A j \in 1 .. Len(g.kids) : under[g.kids[j]] = {x \in X : In(g.keys, j, x)}
  BY DEF Ordered
<1> HIDE DEF L, r, sep
<1>7. sep \in Int /\ L + 1 \in 1 .. n
  BY <1>1, <1>2, <1>4
<1>8. \A j \in 1 .. n : j >= L + 1 => g.keys[j] >= sep
  <2> SUFFICES ASSUME NEW j \in 1 .. n, j >= L + 1 PROVE g.keys[j] >= sep
    OBVIOUS
  <2>1. j = L + 1 \/ sep < g.keys[j]
    BY <1>1, <1>2, <1>5, <1>7
  <2>2. g.keys[j] \in Int
    BY <1>4
  <2>3. QED
    BY <1>2, <1>7, <2>1, <2>2
<1>9. CASE g.kids = <<>>
  <2>1. Len(r.keys) = n - (L + 1) + 1
        /\ \A j \in 1 .. n - (L + 1) + 1 : r.keys[j] = g.keys[(L + 1) + j - 1]
    BY <1>3, <1>9 DEF Part
  <2>2. \A j \in 1 .. n - (L + 1) + 1 : (L + 1) + j - 1 \in 1 .. n /\ (L + 1) + j - 1 >= L + 1
    BY <1>1
  <2>3. Sorted(r.keys)
    <3>1. ASSUME NEW a \in 1 .. Len(r.keys), NEW b \in 1 .. Len(r.keys), a < b
          PROVE  r.keys[a] < r.keys[b]
      <4>1. (L + 1) + a - 1 < (L + 1) + b - 1
        BY <1>1, <3>1
      <4>2. a \in 1 .. n - (L + 1) + 1 /\ b \in 1 .. n - (L + 1) + 1
        BY <2>1
      <4>3. r.keys[a] = g.keys[(L + 1) + a - 1] /\ r.keys[b] = g.keys[(L + 1) + b - 1]
        BY <2>1, <4>2
      <4>4. (L + 1) + a - 1 \in 1 .. n /\ (L + 1) + b - 1 \in 1 .. n
        BY <2>2, <4>2
      <4>5. g.keys[(L + 1) + a - 1] < g.keys[(L + 1) + b - 1]
        BY <1>5, <4>1, <4>4
      <4>6. QED
        BY <4>3, <4>5
    <3>2. QED
      BY <3>1 DEF Sorted
  <2>4. \A j \in 1 .. Len(r.keys) : r.keys[j] \in From(X, sep)
    BY <1>4, <1>8, <2>1, <2>2 DEF From
  <2>5. 1 .. Len(r.kids) = {}
    BY <1>3, <1>9
  <2>6. QED
    BY <2>3, <2>4, <2>5 DEF Ordered, r, sep
<1>10. CASE g.kids # <<>>
  <2>0. Len(g.kids) = n + 1
    BY <1>1, <1>10
  <2>1. /\ Len(r.keys) = n - (L + 2) + 1
        /\ \A j \in 1 .. n - (L + 2) + 1 : r.keys[j] = g.keys[(L + 2) + j - 1]
        /\ Len(r.kids) = Len(g.kids) - (L + 2) + 1
        /\ \A j \in 1 .. Len(g.kids) - (L + 2) + 1 : r.kids[j] = g.kids[(L + 2) + j - 1]
    BY <1>3, <1>10 DEF Part
  <2>2. \A j \in 1 .. n - (L + 2) + 1 : (L + 2) + j - 1 \in 1 .. n /\ (L + 2) + j - 1 >= L + 1
    BY <1>1
  <2>3. Sorted(r.keys)
    <3>1. ASSUME NEW a \in 1 .. Len(r.keys), NEW b \in 1 .. Len(r.keys), a < b
          PROVE  r.keys[a] < r.keys[b]
      <4>1. (L + 2) + a - 1 < (L + 2) + b - 1
        BY <1>1, <3>1
      <4>2. a \in 1 .. n - (L + 2) + 1 /\ b \in 1 .. n - (L + 2) + 1
        BY <2>1
      <4>3. r.keys[a] = g.keys[(L + 2) + a - 1] /\ r.keys[b] = g.keys[(L + 2) + b - 1]
        BY <2>1, <4>2
      <4>4. (L + 2) + a - 1 \in 1 .. n /\ (L + 2) + b - 1 \in 1 .. n
        BY <2>2, <4>2
      <4>5. g.keys[(L + 2) + a - 1] < g.keys[(L + 2) + b - 1]
        BY <1>5, <4>1, <4>4
      <4>6. QED
        BY <4>3, <4>5
    <3>2. QED
      BY <3>1 DEF Sorted
  <2>4. \A j \in 1 .. Len(r.keys) : r.keys[j] \in From(X, sep)
    BY <1>4, <1>8, <2>1, <2>2 DEF From
  <2>5. ASSUME NEW j \in 1 .. Len(r.kids)
        PROVE  under[r.kids[j]] = {x \in From(X, sep) : In(r.keys, j, x)}
    <3> DEFINE i == (L + 2) + j - 1
    <3>1. /\ r.kids[j] = g.kids[i]
          /\ j \in Int /\ j >= 1 /\ j <= Len(r.keys) + 1
          /\ Len(r.keys) = n - (L + 2) + 1
      BY <1>1, <2>0, <2>1
    <3>2. i \in 1 .. Len(g.kids) /\ i \in Int /\ i > 1 /\ i - 1 \in 1 .. n
      BY <1>1, <2>0, <3>1
    <3>3. under[g.kids[i]] = {x \in X : In(g.keys, i, x)}
      BY <1>6, <3>2
    <3>4. ASSUME NEW x \in X PROVE In(g.keys, i, x) <=> x >= sep /\ In(r.keys, j, x)
      <4>1. (i <= n => x < g.keys[i]) <=> (j <= Len(r.keys) => x < r.keys[j])
        <5>1. i <= n <=> j <= Len(r.keys)
          BY <1>1, <3>1
        <5>2. j <= Len(r.keys) => r.keys[j] = g.keys[i]
          BY <2>1, <3>1
        <5>3. QED
          BY <5>1, <5>2
      <4>2. g.keys[i - 1] <= x <=> x >= sep /\ (j > 1 => r.keys[j - 1] <= x)
        <5>0. x \in Int /\ g.keys[i - 1] \in Int
          BY <1>4, <3>2
        <5>1. CASE j = 1
          <6>1. i - 1 = L + 1
            BY <1>1, <5>1
          <6>2. QED
            BY <1>2, <1>7, <5>0, <5>1, <6>1
        <5>2. CASE j > 1
          <6>1. r.keys[j - 1] = g.keys[i - 1]
            <7>1. j - 1 \in 1 .. n - (L + 2) + 1 /\ (L + 2) + (j - 1) - 1 = i - 1
              BY <1>1, <3>1, <5>2
            <7>2. QED
              BY <2>1, <7>1
          <6>2. g.keys[i - 1] >= sep
            <7>1. i - 1 >= L + 1
              BY <1>1, <3>1, <5>2
            <7>2. QED
              BY <1>8, <3>2, <7>1
          <6>3. QED
            BY <1>7, <5>0, <5>2, <6>1, <6>2
        <5>3. QED
          BY <3>1, <5>1, <5>2
      <4>3. i > 1 /\ In(g.keys, i, x) <=> g.keys[i - 1] <= x /\ (i <= n => x < g.keys[i])
        BY <3>2 DEF In
      <4>4. QED
        BY <3>2, <4>1, <4>2, <4>3 DEF In
    <3>5. QED
      BY <3>1, <3>3, <3>4 DEF From
  <2>6. QED
    BY <2>3, <2>4, <2>5 DEF Ordered, r, sep
<1>11. QED
  BY <1>9, <1>10
\* The keys of a sequence: of one that takes in a key, and of the halves of
\* one that is cut.
LEMMA TakesSet ==
  ASSUME NEW t \in Seq(Int), NEW s \in Seq(Int), NEW i \in 1 .. Len(s) + 1, NEW e,
         Takes(t, s, i, e)
  PROVE  ToSet(t) = ToSet(s) \cup {e}
<1>1. Len(s) \in Nat /\ DOMAIN s = 1 .. Len(s) /\ DOMAIN t = 1 .. Len(t)
  BY LenProperties
<1>2. /\ Len(t) = Len(s) + 1
      /\ \A j \in 1 .. Len(s) + 1 :
           t[j] = IF j < i THEN s[j] ELSE IF j = i THEN e ELSE s[j - 1]
  BY DEF Takes
<1>3. ASSUME NEW x \in ToSet(t) PROVE x \in ToSet(s) \cup {e}
  <2>1. PICK j \in 1 .. Len(s) + 1 : t[j] = x
    BY <1>1, <1>2 DEF ToSet
  <2>2. /\ j < i => j \in 1 .. Len(s)
        /\ j > i => j - 1 \in 1 .. Len(s)
        /\ j < i \/ j = i \/ j > i
    BY <1>1, <2>1
  <2>3. QED
    BY <1>1, <1>2, <2>1, <2>2 DEF ToSet
<1>4. ASSUME NEW j \in 1 .. Len(s) PROVE s[j] \in ToSet(t)
  <2>1. CASE j < i
    <3>1. j \in 1 .. Len(s) + 1 /\ t[j] = s[j]
      BY <1>1, <1>2, <2>1
    <3>2. QED
      BY <1>1, <1>2, <3>1 DEF ToSet
  <2>2. CASE j >= i
    <3>1. j + 1 \in 1 .. Len(s) + 1 /\ ~(j + 1 < i) /\ j + 1 # i /\ (j + 1) - 1 = j
      BY <1>1, <2>2
    <3>2. t[j + 1] = s[j]
      BY <1>2, <3>1, SMTT(30)
    <3>3. QED
      BY <1>1, <1>2, <3>1, <3>2 DEF ToSet
  <2>3. QED
    BY <2>1, <2>2
<1>5. e \in ToSet(t)
  <2>1. t[i] = e /\ i \in DOMAIN t
    BY <1>1, <1>2
  <2>2. QED
    BY <2>1 DEF ToSet
<1>6. ToSet(s) \subseteq ToSet(t)
  BY <1>1, <1>4 DEF ToSet
<1>7. QED
  BY <1>3, <1>5, <1>6

\* The two parts of a sequence have its elements between them.
LEMMA PartsSet ==
  ASSUME NEW a \in Seq(Int), NEW b \in Seq(Int), NEW s \in Seq(Int),
         NEW m \in Nat, m <= Len(s), Part(a, s, 1, m), Part(b, s, m + 1, Len(s))
  PROVE  ToSet(a) \cup ToSet(b) = ToSet(s)
<1>1. /\ Len(s) \in Nat /\ DOMAIN s = 1 .. Len(s)
      /\ DOMAIN a = 1 .. Len(a) /\ DOMAIN b = 1 .. Len(b)
  BY LenProperties
<1>2. /\ Len(a) = m - 1 + 1 /\ \A j \in 1 .. m - 1 + 1 : a[j] = s[1 + j - 1]
      /\ Len(b) = Len(s) - (m + 1) + 1
      /\ \A j \in 1 .. Len(s) - (m + 1) + 1 : b[j] = s[(m + 1) + j - 1]
  BY DEF Part
<1>3. ASSUME NEW x \in ToSet(a) PROVE x \in ToSet(s)
  <2>1. PICK j \in 1 .. Len(a) : a[j] = x
    BY <1>1 DEF ToSet
  <2>2. j \in 1 .. m - 1 + 1 /\ 1 + j - 1 \in 1 .. Len(s)
    BY <1>1, <1>2, <2>1
  <2>3. QED
    BY <1>1, <1>2, <2>1, <2>2 DEF ToSet
<1>4. ASSUME NEW x \in ToSet(b) PROVE x \in ToSet(s)
  <2>1. PICK j \in 1 .. Len(b) : b[j] = x
    BY <1>1 DEF ToSet
  <2>2. j \in 1 .. Len(s) - (m + 1) + 1 /\ (m + 1) + j - 1 \in 1 .. Len(s)
    BY <1>1, <1>2, <2>1
  <2>3. QED
    BY <1>1, <1>2, <2>1, <2>2 DEF ToSet
<1>5. ASSUME NEW j \in 1 .. Len(s) PROVE s[j] \in ToSet(a) \cup ToSet(b)
  <2>1. CASE j <= m
    <3>1. j \in 1 .. m - 1 + 1 /\ 1 + j - 1 = j /\ j \in 1 .. Len(a)
      BY <1>1, <1>2, <2>1
    <3>2. a[j] = s[j]
      BY <1>2, <3>1
    <3>3. QED
      BY <1>1, <3>1, <3>2 DEF ToSet
  <2>2. CASE j > m
    <3>1. /\ j - m \in 1 .. Len(s) - (m + 1) + 1 /\ (m + 1) + (j - m) - 1 = j
          /\ j - m \in 1 .. Len(b)
      BY <1>1, <1>2, <2>2
    <3>2. b[j - m] = s[j]
      BY <1>2, <3>1
    <3>3. QED
      BY <1>1, <3>1, <3>2 DEF ToSet
  <2>3. QED
    BY <2>1, <2>2
<1>6. ToSet(s) \subseteq ToSet(a) \cup ToSet(b)
  BY <1>1, <1>5 DEF ToSet
<1>7. QED
  BY <1>3, <1>4, <1>6

-----------------------------------------------------------------------------
(***************************************************************************)
(* A node that takes in an entry: the key k in a leaf, the separator sep   *)
(* of a split child and the page q of its right half in another node.      *)
(***************************************************************************)
WithKey(n, k) == [n EXCEPT !.keys = InsertAt(@, Pos(n, k) + 1, k)]

WithChild(n, k, sep, q) ==
  [n EXCEPT !.keys = InsertAt(@, Pos(n, k) + 1, sep),
            !.kids = InsertAt(@, Pos(n, k) + 2, q)]

\* The keys of a node are integers.
LEMMA KeysInt ==
  ASSUME NEW n \in NodeType
  PROVE  /\ n.keys \in Seq(Keys) /\ n.keys \in Seq(Int) /\ n.kids \in Seq(PageIds)
         /\ Len(n.keys) \in Nat /\ Len(n.kids) \in Nat
<1>1. n.keys \in Seq(Keys) /\ n.kids \in Seq(PageIds)
  BY DEF NodeType
<1>2. n.keys \in Seq(Int)
  <2>1. Len(n.keys) \in Nat /\ n.keys \in [1 .. Len(n.keys) -> Keys]
    BY <1>1, LenProperties
  <2>2. n.keys \in [1 .. Len(n.keys) -> Int]
    BY <2>1, BTreeAssumption
  <2>3. QED
    BY <2>1, <2>2
<1>3. QED
  BY <1>1, <1>2

\* A leaf that takes in a key has one key more and is else as it was.
LEMMA WithKeyIs ==
  ASSUME NEW n \in NodeType, NEW k \in Keys
  PROVE  LET g == WithKey(n, k) IN
           /\ g \in NodeType
           /\ Len(g.keys) = Len(n.keys) + 1
           /\ Takes(g.keys, n.keys, Pos(n, k) + 1, k)
           /\ g.kids = n.kids /\ g.next = n.next /\ g.level = n.level
<1> DEFINE m == Pos(n, k)
           ks == InsertAt(n.keys, m + 1, k)
           g == WithKey(n, k)
<1>1. n.keys \in Seq(Keys) /\ Len(n.keys) \in Nat /\ m \in 0 .. Len(n.keys)
  BY KeysInt, PosRange, BTreeAssumption
<1>2. g = [n EXCEPT !.keys = ks]
  BY DEF WithKey
<1> HIDE DEF m
<1>3. ks \in Seq(Keys) /\ Takes(ks, n.keys, m + 1, k)
  <2>1. m + 1 \in 1 .. Len(n.keys) + 1
    BY <1>1
  <2>2. QED
    BY <1>1, <2>1, InsertAtIs
<1> HIDE DEF ks, g
<1>4. /\ g \in NodeType /\ g.keys = ks
      /\ g.kids = n.kids /\ g.next = n.next /\ g.level = n.level
  BY <1>2, <1>3 DEF NodeType
<1>5. QED
  BY <1>3, <1>4 DEF Takes, m, g

\* A node that takes in a child has one key and one child more.
LEMMA WithChildIs ==
  ASSUME NEW n \in NodeType, Len(n.kids) = Len(n.keys) + 1,
         NEW k \in Keys, NEW sep \in Keys, NEW q \in PageIds
  PROVE  LET g == WithChild(n, k, sep, q) IN
           /\ g \in NodeType
           /\ Len(g.keys) = Len(n.keys) + 1
           /\ Len(g.kids) = Len(g.keys) + 1
           /\ Takes(g.keys, n.keys, Pos(n, k) + 1, sep)
           /\ Takes(g.kids, n.kids, Pos(n, k) + 2, q)
           /\ g.next = n.next /\ g.level = n.level
<1> DEFINE m == Pos(n, k)
           ks == InsertAt(n.keys, m + 1, sep)
           cs == InsertAt(n.kids, m + 2, q)
           g == WithChild(n, k, sep, q)
<1>1. /\ n.keys \in Seq(Keys) /\ Len(n.keys) \in Nat /\ m \in 0 .. Len(n.keys)
      /\ n.kids \in Seq(PageIds)
  BY KeysInt, PosRange, BTreeAssumption
<1>2. g = [n EXCEPT !.keys = ks, !.kids = cs]
  BY DEF WithChild
<1> HIDE DEF m
<1>3. ks \in Seq(Keys) /\ Takes(ks, n.keys, m + 1, sep)
  <2>1. m + 1 \in 1 .. Len(n.keys) + 1
    BY <1>1
  <2>2. QED
    BY <1>1, <2>1, InsertAtIs
<1>4. cs \in Seq(PageIds) /\ Takes(cs, n.kids, m + 2, q)
  <2>1. m + 2 \in 1 .. Len(n.kids) + 1
    BY <1>1
  <2>2. QED
    BY <1>1, <2>1, InsertAtIs
<1> HIDE DEF ks, cs, g
<1>5. /\ g \in NodeType /\ g.keys = ks /\ g.kids = cs
      /\ g.next = n.next /\ g.level = n.level
  BY <1>2, <1>3, <1>4 DEF NodeType
<1>6. QED
  BY <1>1, <1>3, <1>4, <1>5 DEF Takes, m, g

\* A leaf stays sorted when it takes in a key it does not hold.
LEMMA WithKeyOrdered ==
  ASSUME NEW n \in NodeType, n.kids = <<>>, NEW k \in Keys,
         NEW X \in SUBSET Int, NEW under, NEW below, Ordered(n, X, under),
         k \in X, \A j \in 1 .. Len(n.keys) : n.keys[j] # k
  PROVE  Ordered(WithKey(n, k), X, below)
<1> DEFINE g == WithKey(n, k)
<1>1. n.keys \in Seq(Int) /\ Len(n.keys) \in Nat /\ k \in Int
  BY KeysInt, BTreeAssumption
<1>2. Sorted(n.keys) /\ \A j \in 1 .. Len(n.keys) : n.keys[j] \in X
  BY DEF Ordered
<1>3. Pos(n, k) \in 0 .. Len(n.keys) /\ Pos(n, k) + 1 \in 1 .. Len(n.keys) + 1
  <2>1. Pos(n, k) \in 0 .. Len(n.keys)
    BY <1>1, PosRange
  <2>2. QED
    BY <1>1, <2>1
<1>4. In(n.keys, Pos(n, k) + 1, k)
  BY <1>1, <1>2, <1>3, PosIn
<1>5. Sorted(InsertAt(n.keys, Pos(n, k) + 1, k))
  BY <1>1, <1>2, <1>3, <1>4, InsertSorted
<1>6. /\ Len(g.keys) = Len(n.keys) + 1
      /\ Takes(g.keys, n.keys, Pos(n, k) + 1, k)
      /\ g.kids = n.kids
  BY WithKeyIs
<1>7. g.keys = InsertAt(n.keys, Pos(n, k) + 1, k)
  BY DEF WithKey, NodeType
<1> HIDE DEF g
<1>8. ASSUME NEW j \in 1 .. Len(g.keys) PROVE g.keys[j] \in X
  <2>1. j \in 1 .. Len(n.keys) + 1 /\ (j > Pos(n, k) + 1 => j - 1 \in 1 .. Len(n.keys))
    BY <1>1, <1>3, <1>6
  <2>2. j < Pos(n, k) + 1 => j \in 1 .. Len(n.keys)
    BY <1>1, <1>3, <2>1
  <2>3. g.keys[j] = IF j < Pos(n, k) + 1 THEN n.keys[j]
                    ELSE IF j = Pos(n, k) + 1 THEN k ELSE n.keys[j - 1]
    BY <1>6, <2>1 DEF Takes
  <2>4. j < Pos(n, k) + 1 \/ j = Pos(n, k) + 1 \/ j > Pos(n, k) + 1
    BY <1>3, <2>1
  <2>5. QED
    BY <1>2, <2>1, <2>2, <2>3, <2>4
<1>9. 1 .. Len(g.kids) = {}
  BY <1>6
<1>10. QED
  BY <1>5, <1>7, <1>8, <1>9 DEF Ordered, g

\* What belongs under a child may be split in two at a key between two keys
\* of its parent.
LEMMA WithChildOrdered ==
  ASSUME NEW n \in NodeType, Len(n.kids) = Len(n.keys) + 1,
         NEW k \in Keys, NEW sep \in Keys, NEW q \in PageIds,
         NEW X \in SUBSET Int, NEW under, NEW below, Ordered(n, X, under),
         sep \in under[n.kids[Pos(n, k) + 1]],
         \E x \in under[n.kids[Pos(n, k) + 1]] : x < sep,
         below[n.kids[Pos(n, k) + 1]] = Below(under[n.kids[Pos(n, k) + 1]], sep),
         below[q] = From(under[n.kids[Pos(n, k) + 1]], sep),
         \A j \in 1 .. Len(n.kids) : j # Pos(n, k) + 1 => below[n.kids[j]] = under[n.kids[j]]
  PROVE  Ordered(WithChild(n, k, sep, q), X, below)
<1> DEFINE g == WithChild(n, k, sep, q)
           L == Len(n.keys)
           i == Pos(n, k) + 1
<1>1. n.keys \in Seq(Int) /\ L \in Nat /\ k \in Int /\ sep \in Int
  BY KeysInt, BTreeAssumption
<1>2. Sorted(n.keys) /\ \A j \in 1 .. L : n.keys[j] \in X
  BY DEF Ordered
<1>3. i \in 1 .. L + 1 /\ i \in Int
  <2>1. Pos(n, k) \in 0 .. L
    BY <1>1, PosRange
  <2>2. QED
    BY <1>1, <2>1
<1>4. \A j \in 1 .. L + 1 : under[n.kids[j]] = {x \in X : In(n.keys, j, x)}
  BY DEF Ordered
<1>5. /\ g.keys = InsertAt(n.keys, i, sep)
      /\ Len(g.keys) = L + 1 /\ Len(g.kids) = L + 2
      /\ Takes(g.keys, n.keys, i, sep) /\ Takes(g.kids, n.kids, i + 1, q)
  <2>1. LET h == WithChild(n, k, sep, q) IN
          /\ Len(h.keys) = Len(n.keys) + 1 /\ Len(h.kids) = Len(h.keys) + 1
          /\ Takes(h.keys, n.keys, Pos(n, k) + 1, sep)
          /\ Takes(h.kids, n.kids, Pos(n, k) + 2, q)
    BY WithChildIs
  <2>2. Len(g.keys) = L + 1 /\ Len(g.kids) = (L + 1) + 1 /\ (L + 1) + 1 = L + 2
    BY <1>1, <2>1
  <2>3. Pos(n, k) + 2 = i + 1
    BY <1>1, PosRange
  <2>4. g.keys = InsertAt(n.keys, i, sep)
    BY DEF WithChild, NodeType
  <2>5. QED
    BY <2>1, <2>2, <2>3, <2>4
<1>6. /\ sep \in under[n.kids[i]] /\ \E x \in under[n.kids[i]] : x < sep
      /\ below[n.kids[i]] = Below(under[n.kids[i]], sep)
      /\ below[q] = From(under[n.kids[i]], sep)
      /\ \A j \in 1 .. L + 1 : j # i => below[n.kids[j]] = under[n.kids[j]]
  OBVIOUS
<1> HIDE DEF g, i
<1>7. sep \in X /\ In(n.keys, i, sep)
  BY <1>3, <1>4, <1>6
<1>8. ASSUME NEW j \in 1 .. L PROVE n.keys[j] # sep
  <2> SUFFICES ASSUME n.keys[j] = sep PROVE FALSE
    OBVIOUS
  <2>1. PICK x \in under[n.kids[i]] : x < sep
    BY <1>6
  <2>2. In(n.keys, i, x) /\ x \in Int
    BY <1>3, <1>4, <2>1
  <2>3. CASE j >= i
    <3>1. i \in 1 .. L
      BY <1>1, <1>3, <2>3
    <3>2. sep < n.keys[i]
      BY <1>7, <3>1 DEF In
    <3>3. i = j \/ n.keys[i] < n.keys[j]
      BY <1>2, <2>3, <3>1 DEF Sorted
    <3>4. n.keys[i] \in Int
      BY <1>2, <3>1
    <3>5. QED
      BY <1>1, <3>2, <3>3, <3>4
  <2>4. CASE j < i
    <3>1. i > 1 /\ i - 1 \in 1 .. L /\ j <= i - 1
      BY <1>1, <1>3, <2>4
    <3>2. n.keys[i - 1] <= x
      BY <2>2, <3>1 DEF In
    <3>3. j = i - 1 \/ n.keys[j] < n.keys[i - 1]
      BY <1>2, <3>1 DEF Sorted
    <3>4. n.keys[i - 1] \in Int
      BY <1>2, <3>1
    <3>5. QED
      BY <1>1, <2>1, <2>2, <3>2, <3>3, <3>4, SMTT(30)
  <2>5. QED
    BY <1>3, <2>3, <2>4
<1>9. Sorted(g.keys)
  BY <1>1, <1>2, <1>3, <1>5, <1>7, <1>8, InsertSorted
<1>10. \A j \in 1 .. L + 1 :
         g.keys[j] = IF j < i THEN n.keys[j] ELSE IF j = i THEN sep ELSE n.keys[j - 1]
  BY <1>5 DEF Takes
<1>11. ASSUME NEW j \in 1 .. Len(g.keys) PROVE g.keys[j] \in X
  <2>1. j \in 1 .. L + 1 /\ (j > i => j - 1 \in 1 .. L) /\ (j < i => j \in 1 .. L)
    BY <1>1, <1>3, <1>5
  <2>2. j < i \/ j = i \/ j > i
    BY <1>3, <2>1
  <2>3. QED
    BY <1>2, <1>7, <1>10, <2>1, <2>2
<1>12. \A j \in 1 .. L + 2 :
         g.kids[j] = IF j < i + 1 THEN n.kids[j] ELSE IF j = i + 1 THEN q ELSE n.kids[j - 1]
  <2>1. Len(n.kids) + 1 = L + 2
    BY <1>1
  <2>2. QED
    BY <1>5, <2>1 DEF Takes
<1>13. ASSUME NEW j \in 1 .. Len(g.kids)
       PROVE  below[g.kids[j]] = {x \in X : In(g.keys, j, x)}
  <2>0. j \in 1 .. L + 2 /\ j \in Int
    BY <1>5
  <2>1. CASE j < i
    <3>1. /\ j \in 1 .. L + 1 /\ j <= L /\ j # i /\ g.kids[j] = n.kids[j]
          /\ g.keys[j] = n.keys[j] /\ j <= L + 1
          /\ j > 1 => g.keys[j - 1] = n.keys[j - 1]
      <4>0. L \in Nat /\ i \in Int /\ i <= L + 1
        BY <1>1, <1>3
      <4>7. j \in Int /\ 1 <= j
        BY <4>0, <2>0
      <4>8. j \in 1 .. L + 1 /\ j <= L /\ j < i + 1
        BY <4>0, <4>7, <2>1
      <4>9. j > 1 => j - 1 \in 1 .. L + 1 /\ j - 1 < i
        BY <4>0, <4>7, <2>1
      <4>1. j \in 1 .. L + 1 /\ j <= L /\ j < i + 1 /\ (j > 1 => j - 1 \in 1 .. L + 1 /\ j - 1 < i)
        BY <4>8, <4>9
      <4>2. g.kids[j] = n.kids[j]
        BY <1>12, <2>0, <4>1
      <4>3. g.keys[j] = n.keys[j]
        BY <1>10, <2>1, <4>1
      <4>4. j > 1 => g.keys[j - 1] = n.keys[j - 1]
        BY <1>10, <4>1
      <4>5. j # i
        BY <1>3, <2>0, <2>1
      <4>6. QED
        BY <2>0, <4>1, <4>2, <4>3, <4>4, <4>5
    <3>2. below[g.kids[j]] = {x \in X : In(n.keys, j, x)}
      BY <1>4, <1>6, <3>1
    <3>3. \A x : In(n.keys, j, x) <=> In(g.keys, j, x)
      BY <1>5, <3>1 DEF In
    <3>4. QED
      BY <3>2, <3>3
  <2>2. CASE j = i
    <3>1. /\ g.kids[j] = n.kids[i] /\ g.keys[j] = sep /\ j <= Len(g.keys)
          /\ j > 1 => g.keys[j - 1] = n.keys[j - 1]
      <4>1. j < i + 1 /\ j \in 1 .. L + 1 /\ (j > 1 => j - 1 \in 1 .. L + 1 /\ j - 1 < i)
        BY <1>1, <1>3, <2>0, <2>2
      <4>2. g.kids[j] = n.kids[j]
        BY <1>12, <2>0, <4>1
      <4>3. g.keys[j] = sep
        BY <1>10, <2>2, <4>1
      <4>4. j > 1 => g.keys[j - 1] = n.keys[j - 1]
        BY <1>10, <4>1
      <4>5. QED
        BY <1>5, <2>2, <4>1, <4>2, <4>3, <4>4
    <3>2. below[g.kids[j]] = {x \in X : In(n.keys, i, x) /\ x < sep}
      BY <1>3, <1>4, <1>6, <3>1 DEF Below
    <3>3. ASSUME NEW x \in X PROVE In(n.keys, i, x) /\ x < sep <=> In(g.keys, j, x)
      <4>1. i <= L => sep < n.keys[i] /\ n.keys[i] \in Int
        <5>1. i <= L => i \in 1 .. L
          BY <1>1, <1>3
        <5>2. QED
          BY <1>2, <1>7, <5>1 DEF In
      <4>2. x < sep => (i <= L => x < n.keys[i])
        <5>1. x \in Int
          OBVIOUS
        <5>2. QED
          BY <1>1, <4>1, <5>1
      <4>3. QED
        BY <2>2, <3>1, <4>2 DEF In
    <3>4. QED
      BY <3>2, <3>3
  <2>3. CASE j = i + 1
    <3>1. /\ g.kids[j] = q /\ j > 1 /\ g.keys[j - 1] = sep
          /\ j <= Len(g.keys) <=> i <= L
          /\ i <= L => g.keys[j] = n.keys[i]
      <4>1. /\ ~(j < i + 1) /\ j > 1 /\ j - 1 = i /\ i \in 1 .. L + 1
            /\ ~(i < i) /\ (j <= L + 1 <=> i <= L)
            /\ j <= L + 1 => j \in 1 .. L + 1 /\ ~(j < i) /\ j # i
        BY <1>1, <1>3, <2>0, <2>3
      <4>2. g.kids[j] = q
        BY <1>12, <2>0, <2>3, <4>1
      <4>3. g.keys[i] = sep
        BY <1>3, <1>10, <4>1
      <4>4. j <= L + 1 => g.keys[j] = n.keys[j - 1]
        BY <1>10, <4>1
      <4>5. QED
        BY <1>5, <4>1, <4>2, <4>3, <4>4
    <3>2. below[g.kids[j]] = {x \in X : In(n.keys, i, x) /\ x >= sep}
      BY <1>3, <1>4, <1>6, <3>1 DEF From
    <3>3. ASSUME NEW x \in X PROVE In(n.keys, i, x) /\ x >= sep <=> In(g.keys, j, x)
      <4>0. x \in Int
        OBVIOUS
      <4>1. x >= sep => (i > 1 => n.keys[i - 1] <= x)
        <5>1. i > 1 => i - 1 \in 1 .. L
          BY <1>1, <1>3
        <5>2. i > 1 => n.keys[i - 1] <= sep /\ n.keys[i - 1] \in Int
          BY <1>2, <1>7, <5>1 DEF In
        <5>3. QED
          BY <1>1, <4>0, <5>2
      <4>2. x >= sep <=> sep <= x
        BY <1>1, <4>0
      <4>3. QED
        BY <3>1, <4>1, <4>2 DEF In
    <3>4. QED
      BY <3>2, <3>3
  <2>4. CASE j > i + 1
    <3>1. /\ j - 1 \in 1 .. L + 1 /\ j - 1 # i /\ g.kids[j] = n.kids[j - 1]
          /\ j > 1 /\ j - 1 > 1 /\ g.keys[j - 1] = n.keys[(j - 1) - 1]
          /\ j <= Len(g.keys) <=> j - 1 <= L
          /\ j - 1 <= L => g.keys[j] = n.keys[j - 1]
      <4>1. /\ j - 1 \in 1 .. L + 1 /\ j - 1 # i /\ ~(j < i + 1) /\ j # i + 1
            /\ j > 1 /\ j - 1 > 1 /\ ~(j - 1 < i)
            /\ j <= L + 1 <=> j - 1 <= L
            /\ j <= L + 1 => j \in 1 .. L + 1 /\ ~(j < i) /\ j # i
        BY <1>1, <1>3, <2>0, <2>4
      <4>2. g.kids[j] = n.kids[j - 1]
        BY <1>12, <2>0, <4>1
      <4>3. g.keys[j - 1] = n.keys[(j - 1) - 1]
        BY <1>10, <4>1
      <4>4. j <= L + 1 => g.keys[j] = n.keys[j - 1]
        BY <1>10, <4>1
      <4>5. QED
        BY <1>5, <4>1, <4>2, <4>3, <4>4
    <3>2. below[g.kids[j]] = {x \in X : In(n.keys, j - 1, x)}
      BY <1>4, <1>6, <3>1
    <3>3. \A x : In(n.keys, j - 1, x) <=> In(g.keys, j, x)
      BY <3>1 DEF In
    <3>4. QED
      BY <3>2, <3>3
  <2>5. QED
    BY <1>3, <2>0, <2>1, <2>2, <2>3, <2>4
<1>14. QED
  BY <1>9, <1>11, <1>13 DEF Ordered, g

-----------------------------------------------------------------------------
(***************************************************************************)
(* The shape of a tree.  depth tells of each page how far it is from the   *)
(* root.  A page that an insertion without a frame for a new root left     *)
(* without a parent has the depth of the node it was split from.           *)
(***************************************************************************)
Alive(np) == FirstLeaf .. np - 1

\* n is as a node at depth d has to be.
AtDepth(n, np, h, depth, d) ==
  /\ d = h <=> n.kids = <<>>
  /\ d < h => /\ Len(n.kids) = Len(n.keys) + 1
              /\ n.level = 1 <=> d = h - 1
  /\ \A j \in 1 .. Len(n.kids) :
       n.kids[j] \in Alive(np) /\ depth[n.kids[j]] = d + 1

Forest(nd, np, h, depth) ==
  /\ nd \in [PageIds -> NodeType]
  /\ np \in FirstLeaf + 1 .. MaxPages + 1
  /\ h \in Nat \ {0}
  /\ \A p \in Alive(np) :
       depth[p] \in 1 .. h /\ AtDepth(nd[p], np, h, depth, depth[p])

-----------------------------------------------------------------------------
(***************************************************************************)
(* An insertion.  path leads down to the leaf where k belongs, the nodes   *)
(* of the path below depth s are full, and g has these nodes and the one   *)
(* at depth s with what they take in.                                      *)
(***************************************************************************)
Insertion(nd, np, h, depth, k, s, path, g) ==
  /\ k \in Keys
  /\ s \in 0 .. h
  /\ np + h - s <= MaxPages + 1
  /\ \A i \in 1 .. h : path[i] \in Alive(np) /\ depth[path[i]] = i
  /\ \A i \in 1 .. h - 1 :
       path[i + 1] = nd[path[i]].kids[Pos(nd[path[i]], k) + 1]
  /\ \A i \in s + 1 .. h : Full(nd[path[i]])
  /\ g[h] = WithKey(nd[path[h]], k)
  /\ \A i \in 1 .. h - 1 :
       i >= s => g[i] = WithChild(nd[path[i]], k, Separator(g[i + 1]), np + h - (i + 1))

\* The depths once the node at depth i has split to the page np + h - i.
Deeper(np, h, depth) ==
  [p \in PageIds |-> IF p < np THEN depth[p] ELSE np + h - p]

\* What holds of h and, where s or more, of a number below when it does of
\* the next one, holds of all from s to h.
LEMMA DownInduction ==
  ASSUME NEW S, NEW h \in Nat \ {0}, NEW s \in 0 .. h, h \in S,
         \A i \in 1 .. h - 1 : i >= s /\ i + 1 \in S => i \in S
  PROVE  \A i \in 1 .. h : i >= s => i \in S
<1> DEFINE T == {m \in Nat : h - m >= 1 /\ h - m >= s => h - m \in S}
<1>1. 0 \in T
  OBVIOUS
<1>2. ASSUME NEW m \in Nat, m \in T PROVE m + 1 \in T
  <2> SUFFICES ASSUME h - (m + 1) >= 1, h - (m + 1) >= s PROVE h - (m + 1) \in S
    OBVIOUS
  <2>1. h - m >= 1 /\ h - m >= s /\ h - m = (h - (m + 1)) + 1 /\ h - (m + 1) \in 1 .. h - 1
    OBVIOUS
  <2>2. h - m \in S
    BY <1>2, <2>1
  <2>3. QED
    BY <2>1, <2>2
<1> HIDE DEF T
<1>3. \A m \in Nat : m \in T
  BY <1>1, <1>2, SetInduction
<1>4. ASSUME NEW i \in 1 .. h, i >= s PROVE i \in S
  <2>1. h - i \in Nat /\ h - (h - i) = i
    OBVIOUS
  <2>2. h - i \in T
    BY <1>3, <2>1
  <2>3. QED
    BY <1>4, <2>1, <2>2 DEF T
<1>5. QED
  BY <1>4

\* The nodes that take something in have one key more, in its place; below
\* depth s that is one too many.
LEMMA GrownIs ==
  ASSUME NEW nd, NEW np, NEW h, NEW depth, NEW k, NEW s, NEW path, NEW g,
         Forest(nd, np, h, depth), Insertion(nd, np, h, depth, k, s, path, g)
  PROVE  \A i \in 1 .. h : i >= s =>
           /\ nd[path[i]] \in NodeType
           /\ g[i] \in NodeType
           /\ Len(g[i].keys) = Len(nd[path[i]].keys) + 1
           /\ Occupancy(g[i]) = Occupancy(nd[path[i]])
           /\ g[i].next = nd[path[i]].next
           /\ AtDepth(g[i], np + h - s, h, Deeper(np, h, depth), i)
           /\ i > s => Overfull(g[i])
<1> DEFINE np2 == np + h - s
           deeper == Deeper(np, h, depth)
           Good(i) ==
           /\ nd[path[i]] \in NodeType
           /\ g[i] \in NodeType
           /\ Len(g[i].keys) = Len(nd[path[i]].keys) + 1
           /\ Occupancy(g[i]) = Occupancy(nd[path[i]])
           /\ g[i].next = nd[path[i]].next
           /\ AtDepth(g[i], np2, h, deeper, i)
           /\ i > s => Overfull(g[i])
<1>1. /\ nd \in [PageIds -> NodeType]
      /\ np \in Int /\ np >= FirstLeaf + 1 /\ np <= MaxPages + 1
      /\ h \in Nat \ {0} /\ h \in 1 .. h /\ s \in 0 .. h /\ s \in Int
      /\ np2 \in Int /\ np2 <= MaxPages + 1 /\ np <= np2 /\ MaxPages \in Nat
      /\ k \in Keys
  BY BTreeAssumption DEF Forest, Insertion, FirstLeaf
<1>2. ASSUME NEW i \in 1 .. h
      PROVE  /\ path[i] \in Alive(np) /\ path[i] \in PageIds
             /\ nd[path[i]] \in NodeType
             /\ AtDepth(nd[path[i]], np, h, depth, i)
  <2>1. path[i] \in Alive(np) /\ depth[path[i]] = i
    BY DEF Insertion
  <2>2. path[i] \in PageIds
    BY <1>1, <2>1 DEF Alive, PageIds
  <2>3. QED
    BY <1>1, <2>1, <2>2 DEF Forest
<1>3. ASSUME NEW p \in Alive(np) PROVE p \in Alive(np2) /\ deeper[p] = depth[p]
  BY <1>1 DEF Alive, Deeper, PageIds
<1>4. \A i \in s + 1 .. h : Len(nd[path[i]].keys) = Occupancy(nd[path[i]])
  BY DEF Insertion, Full
<1> HIDE DEF np2, deeper
<1>5. Good(h)
  <2>1. /\ g[h] = WithKey(nd[path[h]], k) /\ nd[path[h]] \in NodeType
        /\ nd[path[h]].kids = <<>>
    BY <1>1, <1>2 DEF Insertion, AtDepth
  <2>2. /\ g[h] \in NodeType /\ Len(g[h].keys) = Len(nd[path[h]].keys) + 1
        /\ g[h].kids = <<>> /\ g[h].next = nd[path[h]].next
    <3>1. k \in Keys
      BY <1>1
    <3>2. QED
      BY <2>1, <3>1, WithKeyIs
  <2>3. Occupancy(g[h]) = Occupancy(nd[path[h]])
    BY <2>1, <2>2 DEF Occupancy
  <2>4. AtDepth(g[h], np2, h, deeper, h)
    BY <1>1, <2>2 DEF AtDepth
  <2>5. h > s => Overfull(g[h])
    <3>1. h > s => h \in s + 1 .. h
      BY <1>1
    <3>2. QED
      BY <1>4, <2>2, <2>3, <3>1 DEF Overfull
  <2>6. QED
    BY <2>1, <2>2, <2>3, <2>4, <2>5
<1>6. ASSUME NEW i \in 1 .. h - 1, i >= s, Good(i + 1) PROVE Good(i)
  <2> DEFINE n == nd[path[i]]
             sep == Separator(g[i + 1])
             q == np + h - (i + 1)
  <2>1. i \in Int /\ i >= 1 /\ i < h /\ i \in 1 .. h /\ i + 1 \in 1 .. h /\ i + 1 > s /\ i # h
    BY <1>1, <1>6
  <2>2. n \in NodeType /\ AtDepth(n, np, h, depth, i)
    BY <1>2, <2>1
  <2>3. sep \in Keys
    <3>1. Overfull(g[i + 1])
      BY <1>6, <2>1
    <3>2. g[i + 1].keys \in Seq(Keys) /\ LeftSize(g[i + 1]) + 1 \in 1 .. Len(g[i + 1].keys)
      BY <3>1, LeftSizeIs DEF Overfull, NodeType
    <3>3. QED
      BY <3>2, ElementOfSeq DEF Separator
  <2>4. q \in Alive(np2) /\ q \in PageIds /\ deeper[q] = i + 1
    BY <1>1, <1>6, <2>1 DEF Alive, PageIds, deeper, Deeper, np2, FirstLeaf
  <2>5. g[i] = WithChild(n, k, sep, q)
    BY <1>6 DEF Insertion
  <2>6. Len(n.kids) = Len(n.keys) + 1 /\ (n.level = 1 <=> i = h - 1)
    BY <2>1, <2>2 DEF AtDepth
  <2>7. \A j \in 1 .. Len(n.kids) : n.kids[j] \in Alive(np) /\ depth[n.kids[j]] = i + 1
    BY <2>2 DEF AtDepth
  <2> HIDE DEF n, sep, q
  <2>8. /\ g[i] \in NodeType
        /\ Len(g[i].keys) = Len(n.keys) + 1 /\ Len(g[i].kids) = Len(g[i].keys) + 1
        /\ Takes(g[i].kids, n.kids, Pos(n, k) + 2, q)
        /\ g[i].next = n.next /\ g[i].level = n.level
    BY <1>1, <2>2, <2>3, <2>4, <2>5, <2>6, WithChildIs
  <2>9. Len(n.keys) \in Nat /\ Pos(n, k) \in 0 .. Len(n.keys)
    BY <1>1, <2>2, KeysInt, PosRange, BTreeAssumption
  <2>10. n.kids # <<>> /\ g[i].kids # <<>>
    <3>1. n.kids # <<>> /\ Len(n.kids) \in Nat /\ Len(g[i].kids) = Len(n.kids) + 1
      BY <2>6, <2>8, <2>9
    <3>2. QED
      BY <3>1
  <2>11. Occupancy(g[i]) = Occupancy(n)
    BY <2>10 DEF Occupancy
  <2>12. ASSUME NEW j \in 1 .. Len(g[i].kids)
         PROVE  g[i].kids[j] \in Alive(np2) /\ deeper[g[i].kids[j]] = i + 1
    <3>1. /\ j \in 1 .. Len(n.kids) + 1
          /\ j < Pos(n, k) + 2 => j \in 1 .. Len(n.kids)
          /\ j > Pos(n, k) + 2 => j - 1 \in 1 .. Len(n.kids)
          /\ (j < Pos(n, k) + 2 \/ j = Pos(n, k) + 2 \/ j > Pos(n, k) + 2)
      BY <2>6, <2>8, <2>9
    <3>2. g[i].kids[j] = IF j < Pos(n, k) + 2 THEN n.kids[j]
                         ELSE IF j = Pos(n, k) + 2 THEN q ELSE n.kids[j - 1]
      BY <2>8, <3>1 DEF Takes
    <3>3. g[i].kids[j] = q \/ \E m \in 1 .. Len(n.kids) : g[i].kids[j] = n.kids[m]
      BY <3>1, <3>2
    <3>4. QED
      BY <1>3, <2>4, <2>7, <3>3
  <2>13. AtDepth(g[i], np2, h, deeper, i)
    BY <2>1, <2>6, <2>8, <2>10, <2>12 DEF AtDepth
  <2>14. i > s => Overfull(g[i])
    <3>1. i > s => i \in s + 1 .. h
      BY <1>1, <2>1
    <3>2. QED
      BY <1>4, <2>8, <2>11, <3>1 DEF Overfull, n
  <2>15. QED
    BY <2>2, <2>8, <2>11, <2>13, <2>14 DEF n
<1> DEFINE S == {i \in 1 .. h : Good(i)}
<1>7. h \in S
  BY <1>1, <1>5
<1>8. \A i \in 1 .. h - 1 : i >= s /\ i + 1 \in S => i \in S
  <2>1. \A i \in 1 .. h - 1 : i \in 1 .. h
    BY <1>1
  <2>2. QED
    BY <1>6, <2>1
<1>9. \A i \in 1 .. h : i >= s => i \in S
  <2> HIDE DEF S
  <2>1. QED
    BY <1>1, <1>7, <1>8, DownInduction
<1>10. QED
  BY <1>9 DEF np2, deeper

\* The halves of a node are as a node at its depth has to be.
LEMMA HalvesAtDepth ==
  ASSUME NEW g, Overfull(g), NEW q \in PageIds,
         NEW np, NEW h \in Nat, NEW depth, NEW d \in 1 .. h, AtDepth(g, np, h, depth, d)
  PROVE  AtDepth(Left(g, q), np, h, depth, d) /\ AtDepth(Right(g), np, h, depth, d)
<1> DEFINE L == LeftSize(g)
           l == Left(g, q)
           r == Right(g)
<1>1. /\ L \in Nat \ {0} /\ L + 1 <= Len(g.keys) /\ Len(g.keys) \in Nat
      /\ g.kids # <<>> => Len(g.kids) = Len(g.keys) + 1
  BY LeftSizeIs DEF Overfull
<1>2. /\ Part(l.keys, g.keys, 1, L)
      /\ l.kids = <<>> <=> g.kids = <<>>
      /\ g.kids # <<>> => Part(l.kids, g.kids, 1, L + 1)
      /\ l.level = g.level
  BY LeftIs
<1>3. /\ r.kids = <<>> <=> g.kids = <<>>
      /\ g.kids # <<>> => /\ Part(r.keys, g.keys, L + 2, Len(g.keys))
                          /\ Part(r.kids, g.kids, L + 2, Len(g.kids))
      /\ r.level = g.level
  BY RightIs
<1>4. \A j \in 1 .. Len(g.kids) :
        g.kids[j] \in Alive(np) /\ depth[g.kids[j]] = d + 1
  BY DEF AtDepth
<1>5. d = h <=> g.kids = <<>>
  BY DEF AtDepth
<1>6. d < h => g.level = 1 <=> d = h - 1
  BY DEF AtDepth
<1> HIDE DEF L, l, r
<1>7. CASE g.kids = <<>>
  <2>1. d = h /\ 1 .. Len(l.kids) = {} /\ 1 .. Len(r.kids) = {} /\ ~(d < h)
    BY <1>2, <1>3, <1>5, <1>7
  <2>2. QED
    BY <1>2, <1>3, <1>7, <2>1 DEF AtDepth, l, r
<1>8. CASE g.kids # <<>>
  <2>1. d < h /\ d # h
    BY <1>5, <1>8
  <2>2. /\ Len(l.keys) = L /\ Len(l.kids) = L + 1
        /\ \A j \in 1 .. L + 1 : l.kids[j] = g.kids[j]
    BY <1>1, <1>2, <1>8 DEF Part
  <2>3. \A j \in 1 .. Len(l.kids) : l.kids[j] \in Alive(np) /\ depth[l.kids[j]] = d + 1
    <3>1. \A j \in 1 .. L + 1 : j \in 1 .. Len(g.kids)
      BY <1>1, <1>8
    <3>2. QED
      BY <1>4, <2>2, <3>1
  <2>4. /\ Len(r.keys) = Len(g.keys) - (L + 2) + 1 /\ Len(r.kids) = Len(g.kids) - (L + 2) + 1
        /\ \A j \in 1 .. Len(g.kids) - (L + 2) + 1 : r.kids[j] = g.kids[(L + 2) + j - 1]
    BY <1>3, <1>8 DEF Part
  <2>5. Len(r.kids) = Len(r.keys) + 1
    <3>1. Len(g.kids) = Len(g.keys) + 1 /\ Len(g.keys) \in Int /\ L \in Int
      BY <1>1, <1>8
    <3>2. QED
      BY <2>4, <3>1
  <2>6. \A j \in 1 .. Len(r.kids) : r.kids[j] \in Alive(np) /\ depth[r.kids[j]] = d + 1
    <3> SUFFICES ASSUME NEW j \in 1 .. Len(r.kids)
                 PROVE  r.kids[j] \in Alive(np) /\ depth[r.kids[j]] = d + 1
      OBVIOUS
    <3>1. (L + 2) + j - 1 \in 1 .. Len(g.kids)
      BY <1>1, <1>8, <2>4
    <3>2. r.kids[j] = g.kids[(L + 2) + j - 1]
      BY <2>4
    <3>3. QED
      BY <1>4, <3>1, <3>2
  <2>7. AtDepth(l, np, h, depth, d)
    BY <1>2, <1>6, <1>8, <2>1, <2>2, <2>3 DEF AtDepth
  <2>8. AtDepth(r, np, h, depth, d)
    BY <1>3, <1>6, <1>8, <2>1, <2>5, <2>6 DEF AtDepth
  <2>9. QED
    BY <2>7, <2>8 DEF l, r
<1>9. QED
  BY <1>7, <1>8

\* A node kept without a split has all that it took in.
LEMMA KeptIs ==
  ASSUME NEW g \in NodeType, NEW over \in BOOLEAN
  PROVE  LET n == Kept(g, over) IN
           /\ n \in NodeType
           /\ n.keys = g.keys /\ n.kids = g.kids /\ n.next = g.next /\ n.level = g.level
BY DEF Kept, NodeType

-----------------------------------------------------------------------------
(***************************************************************************)
(* The nodes nd2 after an insertion: those below depth s are split, the    *)
(* one at depth s keeps what it has taken in, and no other has changed.    *)
(***************************************************************************)
After(nd2, nd, np, h, s, path, g) ==
  /\ nd2 = [p \in PageIds |-> nd2[p]]
  /\ \A i \in s + 1 .. h :
       nd2[path[i]] = Left(g[i], np + h - i) /\ nd2[np + h - i] = Right(g[i])
  /\ s > 0 => \E over \in BOOLEAN : nd2[path[s]] = Kept(g[s], over)
  /\ \A p \in PageIds :
       /\ p \notin np .. np + h - s - 1
       /\ \A i \in 1 .. h : i >= s => path[i] # p
       => nd2[p] = nd[p]

\* The four kinds of pages that makes.
LEMMA AfterCases ==
  ASSUME NEW nd2, NEW nd, NEW np \in Int, NEW h \in Nat, NEW s \in 0 .. h, NEW path, NEW g,
         After(nd2, nd, np, h, s, path, g), NEW p \in PageIds
  PROVE  \/ /\ nd2[p] = nd[p]
            /\ p \notin np .. np + h - s - 1
            /\ \A i \in 1 .. h : i >= s => path[i] # p
         \/ \E i \in s + 1 .. h : path[i] = p
         \/ s > 0 /\ path[s] = p
         \/ \E i \in s + 1 .. h : p = np + h - i
<1>1. CASE p \in np .. np + h - s - 1
  <2>1. np + h - p \in s + 1 .. h /\ p = np + h - (np + h - p)
    BY <1>1
  <2>2. QED
    BY <2>1
<1>2. CASE p \notin np .. np + h - s - 1 /\ \A i \in 1 .. h : i >= s => path[i] # p
  BY <1>2 DEF After
<1>3. CASE \E i \in 1 .. h : i >= s /\ path[i] = p
  <2>1. PICK i \in 1 .. h : i >= s /\ path[i] = p
    BY <1>3
  <2>2. i = s \/ i \in s + 1 .. h
    BY <2>1
  <2>3. s \in Int /\ (i = s => s > 0)
    BY <2>1
  <2>4. QED
    BY <2>1, <2>2, <2>3
<1>4. QED
  BY <1>1, <1>2, <1>3

\* An insertion keeps the shape of the tree.
LEMMA ForestAfter ==
  ASSUME NEW nd2, NEW nd, NEW np, NEW h, NEW depth, NEW k, NEW s, NEW path, NEW g,
         Forest(nd, np, h, depth), Insertion(nd, np, h, depth, k, s, path, g),
         After(nd2, nd, np, h, s, path, g)
  PROVE  Forest(nd2, np + h - s, h, Deeper(np, h, depth))
<1> DEFINE np2 == np + h - s
           deeper == Deeper(np, h, depth)
<1>1. /\ nd \in [PageIds -> NodeType]
      /\ np \in Int /\ np >= FirstLeaf + 1 /\ np <= MaxPages + 1
      /\ h \in Nat \ {0} /\ h \in Nat /\ s \in 0 .. h /\ s \in Int
      /\ np2 \in Int /\ np2 <= MaxPages + 1 /\ np <= np2 /\ MaxPages \in Nat
      /\ np2 \in FirstLeaf + 1 .. MaxPages + 1
  BY BTreeAssumption DEF Forest, Insertion, FirstLeaf
<1>2. ASSUME NEW i \in 1 .. h
      PROVE  /\ path[i] \in Alive(np) /\ path[i] \in PageIds /\ deeper[path[i]] = i
  <2>1. path[i] \in Alive(np) /\ depth[path[i]] = i
    BY DEF Insertion
  <2>2. QED
    BY <1>1, <2>1 DEF Alive, PageIds, Deeper
<1>3. \A i \in 1 .. h : i >= s =>
        g[i] \in NodeType /\ AtDepth(g[i], np2, h, deeper, i) /\ (i > s => Overfull(g[i]))
  BY GrownIs
<1>4. ASSUME NEW i \in s + 1 .. h
      PROVE  i \in 1 .. h /\ i >= s /\ i > s
             /\ np + h - i \in PageIds /\ deeper[np + h - i] = i
  BY <1>1 DEF PageIds, Deeper, FirstLeaf
<1>5. ASSUME NEW p \in PageIds
      PROVE  /\ nd2[p] \in NodeType
             /\ p \in Alive(np2) => /\ deeper[p] \in 1 .. h
                                    /\ AtDepth(nd2[p], np2, h, deeper, deeper[p])
  <2> HIDE DEF np2, deeper
  <2>1. CASE nd2[p] = nd[p] /\ p \notin np .. np + h - s - 1
    <3>1. nd2[p] \in NodeType
      BY <1>1, <2>1
    <3>2. ASSUME p \in Alive(np2)
          PROVE  deeper[p] \in 1 .. h /\ AtDepth(nd2[p], np2, h, deeper, deeper[p])
      <4>1. p \in Alive(np)
        BY <1>1, <2>1, <3>2 DEF Alive, np2
      <4>2. depth[p] \in 1 .. h /\ AtDepth(nd[p], np, h, depth, depth[p])
        BY <4>1 DEF Forest
      <4>3. \A q \in Alive(np) : q \in Alive(np2) /\ deeper[q] = depth[q]
        BY <1>1 DEF Alive, PageIds, deeper, Deeper
      <4>4. AtDepth(nd2[p], np2, h, deeper, depth[p])
        BY <2>1, <4>2, <4>3 DEF AtDepth
      <4>5. QED
        BY <4>1, <4>2, <4>3, <4>4
    <3>3. QED
      BY <3>1, <3>2
  <2>2. ASSUME NEW i \in s + 1 .. h, path[i] = p \/ p = np + h - i
        PROVE  /\ nd2[p] \in NodeType
               /\ deeper[p] \in 1 .. h /\ AtDepth(nd2[p], np2, h, deeper, deeper[p])
    <3>1. Overfull(g[i]) /\ AtDepth(g[i], np2, h, deeper, i) /\ i \in 1 .. h
          /\ np + h - i \in PageIds /\ deeper[np + h - i] = i /\ deeper[path[i]] = i
      BY <1>2, <1>3, <1>4
    <3>2. Left(g[i], np + h - i) \in NodeType /\ Right(g[i]) \in NodeType
      BY <3>1, LeftIs, RightIs
    <3>3. /\ AtDepth(Left(g[i], np + h - i), np2, h, deeper, i)
          /\ AtDepth(Right(g[i]), np2, h, deeper, i)
      BY <1>1, <3>1, HalvesAtDepth
    <3>4. nd2[path[i]] = Left(g[i], np + h - i) /\ nd2[np + h - i] = Right(g[i])
      BY DEF After
    <3>5. QED
      BY <2>2, <3>1, <3>2, <3>3, <3>4
  <2>3. ASSUME s > 0, path[s] = p
        PROVE  /\ nd2[p] \in NodeType
               /\ deeper[p] \in 1 .. h /\ AtDepth(nd2[p], np2, h, deeper, deeper[p])
    <3>1. s \in 1 .. h /\ s >= s
      BY <1>1, <2>3
    <3>2. g[s] \in NodeType /\ AtDepth(g[s], np2, h, deeper, s) /\ deeper[p] = s
      BY <1>2, <1>3, <2>3, <3>1
    <3>3. PICK over \in BOOLEAN : nd2[p] = Kept(g[s], over)
      BY <2>3 DEF After
    <3>4. /\ nd2[p] \in NodeType /\ nd2[p].keys = g[s].keys /\ nd2[p].kids = g[s].kids
          /\ nd2[p].level = g[s].level
      BY <3>2, <3>3, KeptIs
    <3>5. AtDepth(nd2[p], np2, h, deeper, s)
      BY <3>2, <3>4 DEF AtDepth
    <3>6. QED
      BY <3>1, <3>2, <3>4, <3>5
  <2>4. QED
    BY <1>1, <2>1, <2>2, <2>3, AfterCases
<1>6. nd2 \in [PageIds -> NodeType]
  BY <1>5 DEF After
<1>7. \A p \in Alive(np2) : p \in PageIds
  BY <1>1 DEF Alive, PageIds
<1>8. QED
  BY <1>1, <1>5, <1>6, <1>7 DEF Forest

-----------------------------------------------------------------------------
(***************************************************************************)
(* How full the nodes are.  rt is the root and over tells that a node has  *)
(* been left with an entry too many.                                       *)
(***************************************************************************)
Filled(nd, np, rt, over) ==
  /\ \A p \in PageIds :
       Len(nd[p].keys) <= Occupancy(nd[p]) + (IF over THEN 1 ELSE 0)
  /\ \A p \in Alive(np) \ {rt} : Len(nd[p].keys) >= MinKeys(nd[p])

\* An insertion that splits the root leaves that half full too.
LEMMA FilledAfter ==
  ASSUME NEW nd2, NEW nd, NEW np, NEW h, NEW depth, NEW k, NEW s, NEW path, NEW g,
         Forest(nd, np, h, depth), Insertion(nd, np, h, depth, k, s, path, g),
         After(nd2, nd, np, h, s, path, g),
         Filled(nd, np, path[1], FALSE), NEW over \in BOOLEAN,
         over \/ s = 0 \/ ~Full(nd[path[s]])
  PROVE  /\ Filled(nd2, np + h - s, path[1], over)
         /\ s = 0 => \A p \in Alive(np + h - s) : Len(nd2[p].keys) >= MinKeys(nd2[p])
<1> DEFINE np2 == np + h - s
           more == IF over THEN 1 ELSE 0
<1>1. /\ nd \in [PageIds -> NodeType]
      /\ np \in Int /\ np >= FirstLeaf + 1 /\ np <= MaxPages + 1
      /\ h \in Nat \ {0} /\ h \in Nat /\ s \in 0 .. h /\ s \in Int
      /\ np2 \in Int /\ np2 <= MaxPages + 1 /\ np <= np2 /\ MaxPages \in Nat
  BY BTreeAssumption DEF Forest, Insertion, FirstLeaf
<1>2. ASSUME NEW p \in PageIds
      PROVE  /\ Len(nd[p].keys) \in Nat /\ Occupancy(nd[p]) \in Nat
             /\ Len(nd[p].keys) <= Occupancy(nd[p])
             /\ p \in Alive(np) \ {path[1]} => Len(nd[p].keys) >= MinKeys(nd[p])
  <2>1. nd[p] \in NodeType
    BY <1>1
  <2>2. Len(nd[p].keys) \in Nat /\ Occupancy(nd[p]) \in Nat
    BY <2>1, KeysInt, BTreeAssumption DEF Occupancy
  <2>3. Len(nd[p].keys) <= Occupancy(nd[p]) + (IF FALSE THEN 1 ELSE 0)
    BY DEF Filled
  <2>4. Occupancy(nd[p]) + (IF FALSE THEN 1 ELSE 0) = Occupancy(nd[p])
    BY <2>2
  <2>5. QED
    BY <2>2, <2>3, <2>4 DEF Filled
<1>3. more \in {0, 1}
  OBVIOUS
<1>4. \A i \in 1 .. h : i >= s =>
        /\ g[i] \in NodeType /\ (i > s => Overfull(g[i]))
        /\ Len(g[i].keys) = Len(nd[path[i]].keys) + 1
        /\ Occupancy(g[i]) = Occupancy(nd[path[i]])
  BY GrownIs
<1>5. ASSUME NEW p \in PageIds
      PROVE  /\ Len(nd2[p].keys) <= Occupancy(nd2[p]) + more
             /\ p \in Alive(np2) /\ (p # path[1] \/ s = 0) => Len(nd2[p].keys) >= MinKeys(nd2[p])
  <2>1. CASE /\ nd2[p] = nd[p]
             /\ p \notin np .. np + h - s - 1
             /\ \A i \in 1 .. h : i >= s => path[i] # p
    <3>1. Len(nd2[p].keys) <= Occupancy(nd2[p]) + more
      <4> HIDE DEF more
      <4>1. QED
        BY <1>2, <1>3, <2>1
    <3>2. s = 0 => p # path[1]
      BY <1>1, <2>1
    <3>3. p \in Alive(np2) => p \in Alive(np)
      BY <1>1, <2>1 DEF Alive
    <3>4. QED
      BY <1>2, <2>1, <3>1, <3>2, <3>3
  <2>2. ASSUME NEW i \in s + 1 .. h, path[i] = p \/ p = np + h - i
        PROVE  /\ Len(nd2[p].keys) <= Occupancy(nd2[p]) + more
               /\ Len(nd2[p].keys) >= MinKeys(nd2[p])
    <3>1. i \in 1 .. h /\ i >= s /\ i > s /\ np + h - i \in PageIds
      BY <1>1 DEF PageIds, FirstLeaf
    <3>2. Overfull(g[i])
      BY <1>4, <3>1
    <3>3. nd2[path[i]] = Left(g[i], np + h - i) /\ nd2[np + h - i] = Right(g[i])
      BY DEF After
    <3>4. /\ nd2[p] \in NodeType /\ Len(nd2[p].keys) <= Occupancy(nd2[p])
          /\ Len(nd2[p].keys) >= MinKeys(nd2[p])
      <4>1. /\ Left(g[i], np + h - i) \in NodeType
            /\ Len(Left(g[i], np + h - i).keys) <= Occupancy(Left(g[i], np + h - i))
            /\ Len(Left(g[i], np + h - i).keys) >= MinKeys(Left(g[i], np + h - i))
        BY <3>1, <3>2, LeftIs
      <4>2. /\ Right(g[i]) \in NodeType
            /\ Len(Right(g[i]).keys) <= Occupancy(Right(g[i]))
            /\ Len(Right(g[i]).keys) >= MinKeys(Right(g[i]))
        BY <3>2, RightIs
      <4>3. QED
        BY <2>2, <3>3, <4>1, <4>2
    <3>5. Len(nd2[p].keys) \in Nat /\ Occupancy(nd2[p]) \in Nat
      BY <3>4, KeysInt, BTreeAssumption DEF Occupancy
    <3> HIDE DEF more
    <3>6. QED
      BY <1>3, <3>4, <3>5
  <2>3. ASSUME s > 0, path[s] = p
        PROVE  /\ Len(nd2[p].keys) <= Occupancy(nd2[p]) + more
               /\ p # path[1] => Len(nd2[p].keys) >= MinKeys(nd2[p])
    <3>1. s \in 1 .. h /\ s >= s
      BY <1>1, <2>3
    <3>2. g[s] \in NodeType /\ Len(g[s].keys) = Len(nd[p].keys) + 1
          /\ Occupancy(g[s]) = Occupancy(nd[p])
      BY <1>4, <2>3, <3>1
    <3>3. PICK o \in BOOLEAN : nd2[p] = Kept(g[s], o)
      BY <2>3 DEF After
    <3>4. nd2[p].keys = g[s].keys /\ nd2[p].kids = g[s].kids
      BY <3>2, <3>3, KeptIs
    <3>5. Occupancy(nd2[p]) = Occupancy(nd[p]) /\ Len(nd2[p].keys) = Len(nd[p].keys) + 1
      BY <3>2, <3>4 DEF Occupancy
    <3>6. Len(nd2[p].keys) <= Occupancy(nd2[p]) + more
      <4>1. over \/ Len(nd[p].keys) # Occupancy(nd[p])
        BY <1>1, <2>3 DEF Full
      <4>2. QED
        BY <1>2, <3>5, <4>1
    <3>7. p # path[1] => Len(nd2[p].keys) >= MinKeys(nd2[p])
      <4>1. p \in Alive(np)
        BY <2>3, <3>1 DEF Insertion
      <4>2. MinKeys(nd2[p]) = MinKeys(nd[p])
        <5>1. nd[p].kids = <<>> <=> g[s].kids = <<>>
          <6>1. AtDepth(g[s], np2, h, Deeper(np, h, depth), s)
            BY <3>1, GrownIs
          <6>2. depth[p] = s /\ AtDepth(nd[p], np, h, depth, depth[p])
            BY <2>3, <3>1, <4>1 DEF Insertion, Forest
          <6>3. QED
            BY <1>1, <6>1, <6>2 DEF AtDepth
        <5>2. QED
          BY <3>4, <5>1 DEF MinKeys
      <4>3. MinKeys(nd[p]) \in Int
        BY BTreeAssumption DEF MinKeys
      <4>4. QED
        BY <1>2, <3>5, <4>1, <4>2, <4>3
    <3>8. QED
      BY <3>6, <3>7
  <2> HIDE DEF more, np2
  <2>4. \/ /\ nd2[p] = nd[p]
           /\ p \notin np .. np + h - s - 1
           /\ \A i \in 1 .. h : i >= s => path[i] # p
        \/ \E i \in s + 1 .. h : path[i] = p
        \/ s > 0 /\ path[s] = p
        \/ \E i \in s + 1 .. h : p = np + h - i
    BY <1>1, AfterCases, SMTT(30)
  <2>5. s > 0 => s # 0
    BY <1>1
  <2>6. QED
    BY <2>1, <2>2, <2>3, <2>4, <2>5
<1>6. \A p \in Alive(np2) : p \in PageIds
  BY <1>1 DEF Alive, PageIds
<1>7. QED
  BY <1>5, <1>6 DEF Filled

-----------------------------------------------------------------------------
(***************************************************************************)
(* The leaves.                                                             *)
(***************************************************************************)
LeafPages(np, h, depth) == {p \in Alive(np) : depth[p] = h}

\* The keys the leaves hold.
KeysHeld(nd, np, h, depth) == UNION {ToSet(nd[p].keys) : p \in LeafPages(np, h, depth)}

\* An insertion changes one leaf, and splits it if it changes a node above.
LEMMA LeavesAfter ==
  ASSUME NEW nd2, NEW nd, NEW np, NEW h, NEW depth, NEW k, NEW s, NEW path, NEW g,
         Forest(nd, np, h, depth), Insertion(nd, np, h, depth, k, s, path, g),
         After(nd2, nd, np, h, s, path, g)
  PROVE  /\ path[h] \in LeafPages(np, h, depth)
         /\ nd[path[h]] \in NodeType /\ nd[path[h]].kids = <<>>
         /\ \A p \in LeafPages(np, h, depth) \ {path[h]} : nd2[p] = nd[p]
         /\ s = h => /\ LeafPages(np + h - s, h, Deeper(np, h, depth)) = LeafPages(np, h, depth)
                     /\ nd2[path[h]].keys = g[h].keys
                     /\ nd2[path[h]].next = nd[path[h]].next
         /\ s # h => /\ LeafPages(np + h - s, h, Deeper(np, h, depth))
                          = LeafPages(np, h, depth) \cup {np}
                     /\ np \notin LeafPages(np, h, depth)
                     /\ Overfull(g[h]) /\ g[h].kids = <<>>
                     /\ nd2[path[h]] = Left(g[h], np) /\ nd2[np] = Right(g[h])
                     /\ nd2[path[h]].next = np
                     /\ nd2[np].next = nd[path[h]].next
<1> DEFINE np2 == np + h - s
           deeper == Deeper(np, h, depth)
<1>1. /\ nd \in [PageIds -> NodeType]
      /\ np \in Int /\ np >= FirstLeaf + 1 /\ np <= MaxPages + 1
      /\ h \in Nat \ {0} /\ h \in Nat /\ h \in 1 .. h /\ s \in 0 .. h /\ s \in Int
      /\ np2 \in Int /\ np2 <= MaxPages + 1 /\ np <= np2 /\ MaxPages \in Nat
  BY BTreeAssumption DEF Forest, Insertion, FirstLeaf
<1>2. \A i \in 1 .. h : path[i] \in Alive(np) /\ depth[path[i]] = i
  BY DEF Insertion
<1>3. path[h] \in LeafPages(np, h, depth) /\ path[h] \in PageIds
  BY <1>1, <1>2 DEF LeafPages, Alive, PageIds
<1>4. nd[path[h]] \in NodeType /\ nd[path[h]].kids = <<>>
  <2>1. AtDepth(nd[path[h]], np, h, depth, h)
    BY <1>1, <1>2 DEF Forest
  <2>2. QED
    BY <1>1, <1>3, <2>1 DEF AtDepth
<1>5. ASSUME NEW p \in LeafPages(np, h, depth) \ {path[h]} PROVE nd2[p] = nd[p]
  <2>1. p \in Alive(np) /\ depth[p] = h /\ p \in PageIds /\ p \notin np .. np + h - s - 1
    BY <1>1 DEF LeafPages, Alive, PageIds
  <2>2. \A i \in 1 .. h : path[i] # p
    BY <1>2, <2>1
  <2>3. QED
    BY <2>1, <2>2 DEF After
<1>6. /\ g[h] \in NodeType /\ AtDepth(g[h], np2, h, deeper, h)
      /\ g[h].next = nd[path[h]].next
      /\ h > s => Overfull(g[h])
  BY <1>1, GrownIs
<1>7. g[h].kids = <<>>
  BY <1>1, <1>6 DEF AtDepth
<1>8. ASSUME NEW p
      PROVE  p \in LeafPages(np2, h, deeper) <=>
               p \in LeafPages(np, h, depth) \/ (s # h /\ p = np)
  <2> HIDE DEF deeper
  <2>1. CASE p \in Alive(np)
    <3>1. p \in Alive(np2) /\ deeper[p] = depth[p] /\ p # np
      BY <1>1, <2>1 DEF Alive, PageIds, deeper, Deeper
    <3>2. QED
      BY <2>1, <3>1 DEF LeafPages
  <2>2. CASE p \in Alive(np2) /\ p \notin Alive(np)
    <3>1. /\ deeper[p] = np + h - p /\ p \in Int /\ p >= np /\ p < np2
          /\ p \notin LeafPages(np, h, depth)
      BY <1>1, <2>2 DEF Alive, PageIds, deeper, Deeper, LeafPages
    <3>2. deeper[p] = h <=> p = np
      BY <1>1, <3>1
    <3>3. s # h
      BY <1>1, <3>1
    <3>4. QED
      BY <2>2, <3>1, <3>2, <3>3 DEF LeafPages
  <2>3. CASE p \notin Alive(np2)
    <3>1. p \notin Alive(np)
      BY <1>1, <2>3 DEF Alive
    <3>2. s # h => np \in Alive(np2)
      BY <1>1 DEF Alive, FirstLeaf
    <3>3. QED
      BY <2>3, <3>1, <3>2 DEF LeafPages
  <2>4. QED
    BY <2>1, <2>2, <2>3
<1>9. CASE s = h
  <2>1. s > 0 /\ path[s] = path[h] /\ g[s] = g[h]
    BY <1>1, <1>9
  <2>2. PICK o \in BOOLEAN : nd2[path[h]] = Kept(g[h], o)
    BY <1>9, <2>1 DEF After
  <2>3. nd2[path[h]].keys = g[h].keys /\ nd2[path[h]].next = nd[path[h]].next
    BY <1>6, <2>2, KeptIs
  <2>4. LeafPages(np2, h, deeper) = LeafPages(np, h, depth)
    BY <1>8, <1>9
  <2>5. QED
    BY <1>3, <1>4, <1>5, <1>9, <2>3, <2>4
<1>10. CASE s # h
  <2>1. h \in s + 1 .. h /\ h > s /\ np + h - h = np /\ np \in PageIds
    <3>1. s < h
      BY <1>1, <1>10
    <3>2. QED
      BY <1>1, <3>1 DEF PageIds, FirstLeaf
  <2>2. nd2[path[h]] = Left(g[h], np) /\ nd2[np] = Right(g[h])
    <3>1. nd2[path[h]] = Left(g[h], np + h - h) /\ nd2[np + h - h] = Right(g[h])
      BY <2>1 DEF After
    <3>2. QED
      BY <2>1, <3>1
  <2>3. Overfull(g[h])
    BY <1>6, <2>1
  <2>4. Left(g[h], np).next = np /\ Right(g[h]).next = g[h].next
    BY <1>7, <2>1, <2>3, LeftIs, RightIs
  <2>5. LeafPages(np2, h, deeper) = LeafPages(np, h, depth) \cup {np}
    BY <1>8, <1>10
  <2>6. np \notin LeafPages(np, h, depth)
    BY <1>1 DEF LeafPages, Alive
  <2>7. QED
    BY <1>3, <1>4, <1>5, <1>6, <1>7, <1>10, <2>2, <2>3, <2>4, <2>5, <2>6
<1>11. QED
  BY <1>9, <1>10

\* An insertion adds its key to those the leaves hold, and moves the others.
LEMMA HeldAfter ==
  ASSUME NEW nd2, NEW nd, NEW np, NEW h, NEW depth, NEW k, NEW s, NEW path, NEW g,
         Forest(nd, np, h, depth), Insertion(nd, np, h, depth, k, s, path, g),
         After(nd2, nd, np, h, s, path, g)
  PROVE  KeysHeld(nd2, np + h - s, h, Deeper(np, h, depth)) = KeysHeld(nd, np, h, depth) \cup {k}
<1> DEFINE F == LeafPages(np, h, depth)
           F2 == LeafPages(np + h - s, h, Deeper(np, h, depth))
           p == path[h]
           K == ToSet(nd[p].keys)
<1>1. /\ p \in F /\ nd[p] \in NodeType
      /\ \A q \in F \ {p} : nd2[q] = nd[q]
      /\ s = h => F2 = F /\ nd2[p].keys = g[h].keys
      /\ s # h => /\ F2 = F \cup {np} /\ np \notin F
                  /\ Overfull(g[h]) /\ g[h].kids = <<>>
                  /\ nd2[p] = Left(g[h], np) /\ nd2[np] = Right(g[h])
  BY LeavesAfter
<1>2. k \in Keys /\ g[h] = WithKey(nd[p], k)
  BY DEF Insertion
<1>3. ToSet(g[h].keys) = K \cup {k}
  <2>1. g[h] \in NodeType /\ Takes(g[h].keys, nd[p].keys, Pos(nd[p], k) + 1, k)
    BY <1>1, <1>2, WithKeyIs
  <2>2. /\ g[h].keys \in Seq(Int) /\ nd[p].keys \in Seq(Int)
        /\ Len(nd[p].keys) \in Nat /\ Pos(nd[p], k) \in 0 .. Len(nd[p].keys)
    BY <1>1, <1>2, <2>1, KeysInt, PosRange, BTreeAssumption
  <2>3. Pos(nd[p], k) + 1 \in 1 .. Len(nd[p].keys) + 1
    BY <2>2
  <2>4. QED
    BY <2>1, <2>2, <2>3, TakesSet
<1> HIDE DEF F, F2, p
<1>4. CASE s = h
  <2>1. ASSUME NEW q \in F
        PROVE  ToSet(nd2[q].keys) = IF q = p THEN K \cup {k} ELSE ToSet(nd[q].keys)
    BY <1>1, <1>3, <1>4
  <2>2. UNION {ToSet(nd2[q].keys) : q \in F} = (UNION {ToSet(nd[q].keys) : q \in F}) \cup {k}
    BY <1>1, <2>1
  <2>3. QED
    BY <1>1, <1>4, <2>2 DEF KeysHeld, F, F2
<1>5. CASE s # h
  <2>1. np \in PageIds
    <3>1. np \in F2
      BY <1>1, <1>5
    <3>2. np + h - s <= MaxPages + 1 /\ np \in Int /\ h \in Nat /\ s \in 0 .. h
      BY DEF Insertion, Forest
    <3>3. QED
      BY <3>1, <3>2, BTreeAssumption DEF F2, LeafPages, Alive, PageIds, FirstLeaf
  <2>2. ToSet(nd2[p].keys) \cup ToSet(nd2[np].keys) = K \cup {k}
    <3> DEFINE L == LeftSize(g[h])
               a == Left(g[h], np).keys
               b == Right(g[h]).keys
    <3>1. L \in Nat /\ L <= Len(g[h].keys) /\ g[h] \in NodeType
      BY <1>1, <1>5, LeftSizeIs DEF Overfull
    <3>2. Left(g[h], np) \in NodeType /\ Part(a, g[h].keys, 1, L)
      BY <1>1, <1>5, <2>1, LeftIs
    <3>3. Right(g[h]) \in NodeType /\ Part(b, g[h].keys, L + 1, Len(g[h].keys))
      BY <1>1, <1>5, RightIs
    <3> HIDE DEF L
    <3>4. a \in Seq(Int) /\ b \in Seq(Int) /\ g[h].keys \in Seq(Int)
      BY <3>1, <3>2, <3>3, KeysInt
    <3>5. ToSet(a) \cup ToSet(b) = ToSet(g[h].keys)
      <4> HIDE DEF a, b
      <4>1. QED
        BY <3>1, <3>2, <3>3, <3>4, PartsSet
    <3>6. QED
      BY <1>1, <1>3, <1>5, <3>5
  <2>3. ASSUME NEW q \in F, q # p PROVE ToSet(nd2[q].keys) = ToSet(nd[q].keys)
    BY <1>1, <2>3
  <2>4. UNION {ToSet(nd2[q].keys) : q \in F \cup {np}}
          = (UNION {ToSet(nd[q].keys) : q \in F}) \cup {k}
    <3> HIDE DEF K
    <3>1. ToSet(nd[p].keys) = K
      BY DEF K
    <3>2. ASSUME NEW q \in F \cup {np}, NEW x \in ToSet(nd2[q].keys)
          PROVE  x \in (UNION {ToSet(nd[r].keys) : r \in F}) \cup {k}
      <4>1. CASE q = p \/ q = np
        BY <1>1, <2>2, <3>1, <4>1
      <4>2. CASE q # p /\ q # np
        BY <2>3, <4>2
      <4>3. QED
        BY <4>1, <4>2
    <3>3. ASSUME NEW q \in F, NEW x \in ToSet(nd[q].keys)
          PROVE  x \in UNION {ToSet(nd2[r].keys) : r \in F \cup {np}}
      <4>1. CASE q = p
        BY <1>1, <2>2, <3>1, <4>1
      <4>2. CASE q # p
        BY <2>3, <4>2
      <4>3. QED
        BY <4>1, <4>2
    <3>4. k \in UNION {ToSet(nd2[r].keys) : r \in F \cup {np}}
      BY <1>1, <2>2
    <3>5. QED
      BY <3>2, <3>3, <3>4
  <2>5. QED
    BY <1>1, <1>5, <2>4 DEF KeysHeld, F, F2
<1>6. QED
  BY <1>4, <1>5

-----------------------------------------------------------------------------
(***************************************************************************)
(* The chain of the leaves: l lists all n of them, each with the next one  *)
(* as its right sibling.                                                   *)
(***************************************************************************)
LeafChain(nd, np, h, depth, n, l) ==
  /\ n \in Nat \ {0} /\ n + FirstLeaf <= np
  /\ \A i \in 1 .. n : l[i] \in LeafPages(np, h, depth)
  /\ \A p \in LeafPages(np, h, depth) : \E i \in 1 .. n : l[i] = p
  /\ \A i, j \in 1 .. n : l[i] = l[j] => i = j
  /\ l[1] = FirstLeaf
  /\ \A i \in 1 .. n : nd[l[i]].next = IF i < n THEN l[i + 1] ELSE NoPage

\* l with the page q put in behind the a-th of its n.
WithLeaf(l, n, a, q) ==
  [i \in 1 .. n + 1 |-> IF i <= a THEN l[i] ELSE IF i = a + 1 THEN q ELSE l[i - 1]]

\* A split puts its new leaf behind the one it splits.
LEMMA ChainAfter ==
  ASSUME NEW nd2, NEW nd, NEW np, NEW h, NEW depth, NEW k, NEW s, NEW path, NEW g,
         Forest(nd, np, h, depth), Insertion(nd, np, h, depth, k, s, path, g),
         After(nd2, nd, np, h, s, path, g),
         NEW n, NEW l, LeafChain(nd, np, h, depth, n, l)
  PROVE  IF s = h
         THEN LeafChain(nd2, np + h - s, h, Deeper(np, h, depth), n, l)
         ELSE \A a \in 1 .. n : l[a] = path[h] =>
                LeafChain(nd2, np + h - s, h, Deeper(np, h, depth), n + 1, WithLeaf(l, n, a, np))
<1> DEFINE F == LeafPages(np, h, depth)
           F2 == LeafPages(np + h - s, h, Deeper(np, h, depth))
           p == path[h]
<1>1. /\ p \in F
      /\ \A q \in F \ {p} : nd2[q] = nd[q]
      /\ s = h => F2 = F /\ nd2[p].next = nd[p].next
      /\ s # h => /\ F2 = F \cup {np} /\ np \notin F
                  /\ nd2[p].next = np /\ nd2[np].next = nd[p].next
  BY LeavesAfter
<1>2. /\ n \in Nat \ {0} /\ n + FirstLeaf <= np
      /\ \A i \in 1 .. n : l[i] \in F
      /\ \A q \in F : \E i \in 1 .. n : l[i] = q
      /\ \A i, j \in 1 .. n : l[i] = l[j] => i = j
      /\ l[1] = FirstLeaf
      /\ \A i \in 1 .. n : nd[l[i]].next = IF i < n THEN l[i + 1] ELSE NoPage
  BY DEF LeafChain
<1>3. np \in Int /\ h \in Nat /\ s \in 0 .. h /\ np + h - s \in Int
      /\ (s = h => np + h - s = np) /\ (s # h => np + h - s >= np + 1)
  BY DEF Forest, Insertion, FirstLeaf
<1>4. CASE s = h
  <2> HIDE DEF F, F2, p
  <2>1. \A q \in F : nd2[q].next = nd[q].next
    BY <1>1, <1>4
  <2>2. n + FirstLeaf <= np + h - s
    BY <1>2, <1>3, <1>4
  <2>3. \A i \in 1 .. n : nd2[l[i]].next = IF i < n THEN l[i + 1] ELSE NoPage
    BY <1>2, <2>1
  <2>4. F2 = F
    BY <1>1, <1>4
  <2>5. LeafChain(nd2, np + h - s, h, Deeper(np, h, depth), n, l)
    BY <1>2, <2>2, <2>3, <2>4 DEF LeafChain, F2
  <2>6. QED
    BY <1>4, <2>5
<1>5. ASSUME s # h, NEW a \in 1 .. n, l[a] = p
      PROVE  LeafChain(nd2, np + h - s, h, Deeper(np, h, depth), n + 1, WithLeaf(l, n, a, np))
  <2> DEFINE l2 == WithLeaf(l, n, a, np)
  <2> HIDE DEF F, F2, p
  <2>1. n \in Nat /\ n >= 1 /\ a \in Nat /\ 1 <= a /\ a <= n
    BY <1>2
  <2>2. /\ \A i \in 1 .. n + 1 : i <= a => i \in 1 .. n /\ l2[i] = l[i]
        /\ a + 1 \in 1 .. n + 1 /\ l2[a + 1] = np
        /\ \A i \in 1 .. n + 1 : i > a + 1 => i - 1 \in 1 .. n /\ l2[i] = l[i - 1]
        /\ \A i \in 1 .. n + 1 : i <= a \/ i = a + 1 \/ i > a + 1
    BY <2>1 DEF WithLeaf
  <2> HIDE DEF l2
  <2>3. n + 1 \in Nat \ {0} /\ (n + 1) + FirstLeaf <= np + h - s
    BY <1>2, <1>3, <1>5, <2>1 DEF FirstLeaf
  <2>4. F2 = F \cup {np} /\ np \notin F /\ nd2[p].next = np /\ nd2[np].next = nd[p].next
    BY <1>1, <1>5
  <2>5. \A i \in 1 .. n + 1 : l2[i] \in F2
    BY <1>2, <2>2, <2>4
  <2>6. ASSUME NEW q \in F2 PROVE \E i \in 1 .. n + 1 : l2[i] = q
    <3>1. CASE q = np
      BY <2>2, <3>1
    <3>2. CASE q \in F
      <4>1. PICK i \in 1 .. n : l[i] = q
        BY <1>2, <3>2
      <4>2. CASE i <= a
        <5>1. i \in 1 .. n + 1
          BY <2>1
        <5>2. QED
          BY <2>2, <4>1, <4>2, <5>1
      <4>3. CASE i > a
        <5>1. i + 1 \in 1 .. n + 1 /\ i + 1 > a + 1 /\ (i + 1) - 1 = i
          BY <2>1, <4>3
        <5>2. QED
          BY <2>2, <4>1, <5>1
      <4>4. QED
        BY <2>1, <4>2, <4>3
    <3>3. QED
      BY <2>4, <3>1, <3>2
  <2>7. ASSUME NEW i \in 1 .. n + 1, NEW j \in 1 .. n + 1, l2[i] = l2[j] PROVE i = j
    <3>1. /\ i <= a \/ i = a + 1 \/ i > a + 1
          /\ j <= a \/ j = a + 1 \/ j > a + 1
          /\ i \in Int /\ j \in Int
      BY <2>2
    <3>2. i = a + 1 <=> l2[i] = np
      <4>1. i # a + 1 => l2[i] \in F
        BY <1>2, <2>2
      <4>2. QED
        BY <2>2, <2>4, <4>1
    <3>3. j = a + 1 <=> l2[j] = np
      <4>1. j # a + 1 => l2[j] \in F
        BY <1>2, <2>2
      <4>2. QED
        BY <2>2, <2>4, <4>1
    <3>4. CASE i <= a /\ j <= a
      BY <1>2, <2>2, <2>7, <3>4
    <3>5. CASE i > a + 1 /\ j > a + 1
      <4>1. l[i - 1] = l[j - 1] /\ i - 1 \in 1 .. n /\ j - 1 \in 1 .. n
        BY <2>2, <2>7, <3>5
      <4>2. i - 1 = j - 1
        BY <1>2, <4>1
      <4>3. QED
        BY <3>1, <4>2
    <3>6. CASE i <= a /\ j > a + 1
      <4>1. l[i] = l[j - 1] /\ i \in 1 .. n /\ j - 1 \in 1 .. n
        BY <2>2, <2>7, <3>6
      <4>2. i = j - 1
        BY <1>2, <4>1
      <4>3. QED
        BY <2>1, <3>1, <3>6, <4>2
    <3>7. CASE i > a + 1 /\ j <= a
      <4>1. l[i - 1] = l[j] /\ i - 1 \in 1 .. n /\ j \in 1 .. n
        BY <2>2, <2>7, <3>7
      <4>2. i - 1 = j
        BY <1>2, <4>1
      <4>3. QED
        BY <2>1, <3>1, <3>7, <4>2
    <3>8. QED
      BY <2>7, <3>1, <3>2, <3>3, <3>4, <3>5, <3>6, <3>7
  <2>8. l2[1] = FirstLeaf
    <3>1. 1 \in 1 .. n + 1 /\ 1 <= a
      BY <2>1
    <3>2. QED
      BY <1>2, <2>2, <3>1
  <2>9. ASSUME NEW i \in 1 .. n + 1
        PROVE  nd2[l2[i]].next = IF i < n + 1 THEN l2[i + 1] ELSE NoPage
    <3>1. CASE i < a
      <4>1. /\ i \in 1 .. n /\ i < n /\ i < n + 1 /\ l2[i] = l[i]
            /\ i + 1 \in 1 .. n + 1 /\ i + 1 <= a /\ l2[i + 1] = l[i + 1]
        BY <2>1, <2>2, <3>1
      <4>2. l[i] # p
        BY <1>2, <1>5, <2>1, <3>1, <4>1
      <4>3. QED
        BY <1>1, <1>2, <4>1, <4>2
    <3>2. CASE i = a
      BY <1>5, <2>1, <2>2, <2>4, <3>2
    <3>3. CASE i = a + 1
      <4>1. nd2[l2[i]].next = nd[l[a]].next
        BY <1>5, <2>2, <2>4, <3>3
      <4>2. nd[l[a]].next = IF a < n THEN l[a + 1] ELSE NoPage
        BY <1>2
      <4>3. i < n + 1 <=> a < n
        BY <2>1, <3>3
      <4>4. a < n => l2[i + 1] = l[a + 1]
        <5>1. a < n => i + 1 \in 1 .. n + 1 /\ i + 1 > a + 1 /\ (i + 1) - 1 = a + 1
          BY <2>1, <3>3
        <5>2. QED
          BY <2>2, <5>1
      <4>5. QED
        BY <4>1, <4>2, <4>3, <4>4
    <3>4. CASE i > a + 1
      <4>1. i - 1 \in 1 .. n /\ l2[i] = l[i - 1] /\ i - 1 # a /\ (i - 1) + 1 = i
        BY <2>1, <2>2, <3>4
      <4>2. l[i - 1] # p
        BY <1>2, <1>5, <4>1
      <4>3. nd2[l2[i]].next = IF i - 1 < n THEN l[i] ELSE NoPage
        BY <1>1, <1>2, <4>1, <4>2
      <4>4. i < n + 1 <=> i - 1 < n
        BY <2>1
      <4>5. i < n + 1 => l2[i + 1] = l[i]
        <5>1. i < n + 1 => i + 1 \in 1 .. n + 1 /\ i + 1 > a + 1 /\ (i + 1) - 1 = i
          BY <2>1, <3>4
        <5>2. QED
          BY <2>2, <5>1
      <4>6. QED
        BY <4>3, <4>4, <4>5
    <3>5. QED
      BY <2>1, <3>1, <3>2, <3>3, <3>4
  <2>10. QED
    BY <2>3, <2>5, <2>6, <2>7, <2>8, <2>9 DEF LeafChain, F2, l2
<1>6. QED
  BY <1>4, <1>5

-----------------------------------------------------------------------------
(***************************************************************************)
(* A new root r over two subtrees.                                         *)
(***************************************************************************)
\* The depths once the tree has grown by the root r.
Raised(depth, r) == [p \in PageIds |-> IF p = r THEN 1 ELSE depth[p] + 1]

\* n0 is a node over the two pages a and b, and nothing else.
RootOver(n0, a, b, h) ==
  /\ n0 \in NodeType
  /\ Len(n0.keys) = 1
  /\ n0.kids = <<a, b>>
  /\ n0.level = IF h = 1 THEN 1 ELSE 0

\* A new root on page np is above all that was there.
LEMMA RaisedIs ==
  ASSUME NEW np, NEW h, NEW depth, NEW nd, Forest(nd, np, h, depth), np \in PageIds,
         NEW n0 \in NodeType
  PROVE  LET nd2 == [nd EXCEPT ![np] = n0] IN
           /\ Alive(np + 1) = Alive(np) \cup {np} /\ np \notin Alive(np)
           /\ Alive(np) \subseteq PageIds
           /\ nd2 \in [PageIds -> NodeType] /\ nd2[np] = n0
           /\ \A p \in PageIds \ {np} : nd2[p] = nd[p]
           /\ Raised(depth, np)[np] = 1
           /\ \A p \in Alive(np) : Raised(depth, np)[p] = depth[p] + 1
<1>1. np \in Int /\ np >= FirstLeaf + 1 /\ nd \in [PageIds -> NodeType] /\ MaxPages \in Nat
  BY BTreeAssumption DEF Forest, FirstLeaf
<1>2. Alive(np + 1) = Alive(np) \cup {np} /\ np \notin Alive(np)
  <2>1. (np + 1) - 1 = np
    BY <1>1
  <2>2. FirstLeaf .. np = (FirstLeaf .. np - 1) \cup {np} /\ np \notin FirstLeaf .. np - 1
    BY <1>1 DEF FirstLeaf
  <2>3. QED
    BY <2>1, <2>2 DEF Alive
<1>3. Alive(np) \subseteq PageIds
  BY <1>1 DEF Alive, PageIds, FirstLeaf
<1>4. QED
  BY <1>1, <1>2, <1>3 DEF Raised

\* Under a new root over two nodes of depth 1 the tree keeps its shape.
LEMMA ForestAbove ==
  ASSUME NEW np, NEW h, NEW depth, NEW nd, Forest(nd, np, h, depth), np \in PageIds,
         NEW a \in Alive(np), NEW b \in Alive(np), depth[a] = 1, depth[b] = 1,
         NEW n0, RootOver(n0, a, b, h)
  PROVE  Forest([nd EXCEPT ![np] = n0], np + 1, h + 1, Raised(depth, np))
<1> DEFINE nd2 == [nd EXCEPT ![np] = n0]
           raised == Raised(depth, np)
<1>1. /\ Alive(np + 1) = Alive(np) \cup {np} /\ np \notin Alive(np)
      /\ Alive(np) \subseteq PageIds
      /\ nd2 \in [PageIds -> NodeType] /\ nd2[np] = n0
      /\ \A p \in PageIds \ {np} : nd2[p] = nd[p]
      /\ raised[np] = 1
      /\ \A p \in Alive(np) : raised[p] = depth[p] + 1
  BY RaisedIs DEF RootOver
<1>2. /\ np + 1 \in FirstLeaf + 1 .. MaxPages + 1 /\ h \in Nat \ {0} /\ h + 1 \in Nat \ {0}
  BY BTreeAssumption DEF Forest, PageIds, FirstLeaf
<1> HIDE DEF nd2, raised
<1>3. ASSUME NEW p \in Alive(np)
      PROVE  raised[p] \in 1 .. h + 1 /\ AtDepth(nd2[p], np + 1, h + 1, raised, raised[p])
  <2>1. nd2[p] = nd[p] /\ raised[p] = depth[p] + 1
    BY <1>1
  <2>2. depth[p] \in 1 .. h /\ AtDepth(nd[p], np, h, depth, depth[p])
    BY DEF Forest
  <2>3. depth[p] + 1 = h + 1 <=> depth[p] = h
    BY <1>2, <2>2
  <2>4. depth[p] + 1 < h + 1 <=> depth[p] < h
    BY <1>2, <2>2
  <2>5. depth[p] + 1 = (h + 1) - 1 <=> depth[p] = h - 1
    BY <1>2, <2>2
  <2>6. \A j \in 1 .. Len(nd[p].kids) :
          nd[p].kids[j] \in Alive(np + 1) /\ raised[nd[p].kids[j]] = (depth[p] + 1) + 1
    BY <1>1, <2>2 DEF AtDepth
  <2>7. depth[p] = h <=> nd[p].kids = <<>>
    BY <2>2 DEF AtDepth
  <2>8. depth[p] < h =>
           /\ Len(nd[p].kids) = Len(nd[p].keys) + 1
           /\ nd[p].level = 1 <=> depth[p] = h - 1
    BY <2>2 DEF AtDepth
  <2>9. AtDepth(nd[p], np + 1, h + 1, raised, depth[p] + 1)
    BY <2>3, <2>4, <2>5, <2>6, <2>7, <2>8 DEF AtDepth
  <2>10. depth[p] + 1 \in 1 .. h + 1
    BY <1>2, <2>2
  <2>11. QED
    BY <2>1, <2>9, <2>10
<1>4. AtDepth(n0, np + 1, h + 1, raised, 1)
  <2>1. /\ Len(n0.kids) = 2 /\ n0.kids[1] = a /\ n0.kids[2] = b /\ n0.kids # <<>>
        /\ Len(n0.keys) = 1
    BY DEF RootOver
  <2>2. \A j \in 1 .. 2 : j = 1 \/ j = 2
    OBVIOUS
  <2>3. \A j \in 1 .. Len(n0.kids) :
          n0.kids[j] \in Alive(np + 1) /\ raised[n0.kids[j]] = 1 + 1
    <3>1. raised[a] = 1 + 1 /\ raised[b] = 1 + 1
      BY <1>1
    <3>2. QED
      BY <1>1, <2>1, <2>2, <3>1
  <2>4. n0.level = 1 <=> 1 = (h + 1) - 1
    BY <1>2 DEF RootOver
  <2>5. Len(n0.kids) = Len(n0.keys) + 1 /\ 1 # h + 1
    BY <1>2, <2>1
  <2>6. QED
    BY <2>1, <2>3, <2>4, <2>5 DEF AtDepth
<1>5. ASSUME NEW p \in Alive(np + 1)
      PROVE  raised[p] \in 1 .. h + 1 /\ AtDepth(nd2[p], np + 1, h + 1, raised, raised[p])
  <2>1. CASE p = np
    BY <1>1, <1>2, <1>4, <2>1
  <2>2. CASE p \in Alive(np)
    BY <1>3, <2>2
  <2>3. QED
    BY <1>1, <2>1, <2>2
<1>6. QED
  BY <1>1, <1>2, <1>5 DEF Forest, nd2, raised

\* A new root may be nearly empty; the nodes below it are half full.
LEMMA FilledAbove ==
  ASSUME NEW np, NEW h, NEW depth, NEW nd, Forest(nd, np, h, depth), np \in PageIds,
         NEW rt, NEW over \in BOOLEAN, Filled(nd, np, rt, over),
         \A p \in Alive(np) : Len(nd[p].keys) >= MinKeys(nd[p]),
         NEW a, NEW b, NEW n0, RootOver(n0, a, b, h)
  PROVE  Filled([nd EXCEPT ![np] = n0], np + 1, np, over)
<1> DEFINE nd2 == [nd EXCEPT ![np] = n0]
<1>1. /\ Alive(np + 1) = Alive(np) \cup {np} /\ Alive(np) \subseteq PageIds
      /\ np \notin Alive(np) /\ nd2[np] = n0
      /\ \A p \in PageIds \ {np} : nd2[p] = nd[p]
  BY RaisedIs DEF RootOver
<1> HIDE DEF nd2
<1>2. Len(n0.keys) <= Occupancy(n0) + (IF over THEN 1 ELSE 0)
  <2>1. n0.kids # <<>> /\ Len(n0.keys) = 1
    BY DEF RootOver
  <2>2. QED
    BY <2>1, BTreeAssumption DEF Occupancy
<1>3. \A p \in PageIds : Len(nd2[p].keys) <= Occupancy(nd2[p]) + (IF over THEN 1 ELSE 0)
  BY <1>1, <1>2 DEF Filled
<1>4. \A p \in Alive(np + 1) \ {np} : Len(nd2[p].keys) >= MinKeys(nd2[p])
  BY <1>1
<1>5. QED
  BY <1>3, <1>4 DEF Filled, nd2

\* A new root changes no leaf.
LEMMA LeavesAbove ==
  ASSUME NEW np, NEW h, NEW depth, NEW nd, Forest(nd, np, h, depth), np \in PageIds,
         NEW n0 \in NodeType
  PROVE  LET nd2 == [nd EXCEPT ![np] = n0]
             raised == Raised(depth, np) IN
           /\ LeafPages(np + 1, h + 1, raised) = LeafPages(np, h, depth)
           /\ KeysHeld(nd2, np + 1, h + 1, raised) = KeysHeld(nd, np, h, depth)
           /\ \A n, l : LeafChain(nd, np, h, depth, n, l)
                          => LeafChain(nd2, np + 1, h + 1, raised, n, l)
<1> DEFINE nd2 == [nd EXCEPT ![np] = n0]
           raised == Raised(depth, np)
           F == LeafPages(np, h, depth)
<1>1. /\ Alive(np + 1) = Alive(np) \cup {np} /\ np \notin Alive(np)
      /\ Alive(np) \subseteq PageIds
      /\ \A p \in PageIds \ {np} : nd2[p] = nd[p]
      /\ raised[np] = 1
      /\ \A p \in Alive(np) : raised[p] = depth[p] + 1
  BY RaisedIs
<1>2. h \in Nat \ {0} /\ np \in Int /\ \A p \in Alive(np) : depth[p] \in Int
  BY DEF Forest, FirstLeaf
<1> HIDE DEF nd2, raised
<1>3. LeafPages(np + 1, h + 1, raised) = F
  <2>1. ASSUME NEW p \in Alive(np) PROVE raised[p] = h + 1 <=> depth[p] = h
    BY <1>1, <1>2
  <2>2. raised[np] # h + 1
    BY <1>1, <1>2
  <2>3. QED
    BY <1>1, <2>1, <2>2 DEF LeafPages
<1>4. \A p \in F : nd2[p] = nd[p]
  BY <1>1 DEF LeafPages
<1> HIDE DEF F
<1>5. KeysHeld(nd2, np + 1, h + 1, raised) = KeysHeld(nd, np, h, depth)
  <2>1. {ToSet(nd2[p].keys) : p \in F} = {ToSet(nd[p].keys) : p \in F}
    BY <1>4
  <2>2. QED
    BY <1>3, <2>1 DEF KeysHeld, F
<1>6. ASSUME NEW n, NEW l, LeafChain(nd, np, h, depth, n, l)
      PROVE  LeafChain(nd2, np + 1, h + 1, raised, n, l)
  <2>1. /\ n \in Nat \ {0} /\ n + FirstLeaf <= np
        /\ \A i \in 1 .. n : l[i] \in F
        /\ \A i \in 1 .. n : nd[l[i]].next = IF i < n THEN l[i + 1] ELSE NoPage
    BY <1>6 DEF LeafChain, F
  <2>2. n + FirstLeaf <= np + 1
    BY <1>2, <2>1 DEF FirstLeaf
  <2>3. \A i \in 1 .. n : nd2[l[i]].next = IF i < n THEN l[i + 1] ELSE NoPage
    BY <1>4, <2>1
  <2>4. QED
    BY <1>3, <1>6, <2>2, <2>3 DEF LeafChain, F
<1>7. QED
  BY <1>3, <1>5, <1>6 DEF nd2, raised, F

-----------------------------------------------------------------------------
(***************************************************************************)
(* What an insertion computes, in a state where the nodes form a tree.     *)
(***************************************************************************)
Rooted(depth) ==
  /\ Forest(node, numPages, height, depth)
  /\ root \in Alive(numPages) /\ depth[root] = 1

\* A descent goes from a node that is not a leaf to one of the next depth.
LEMMA ChildIs ==
  ASSUME NEW nd, NEW np, NEW h, NEW depth, Forest(nd, np, h, depth), NEW k \in Keys,
         NEW p \in Alive(np), nd[p].kids # <<>>
  PROVE  /\ nd[p].kids[Pos(nd[p], k) + 1] \in Alive(np)
         /\ depth[nd[p].kids[Pos(nd[p], k) + 1]] = depth[p] + 1
         /\ Pos(nd[p], k) + 1 \in 1 .. Len(nd[p].kids)
<1>1. p \in PageIds
  BY BTreeAssumption DEF Forest, Alive, PageIds, FirstLeaf
<1>2. /\ nd[p] \in NodeType /\ depth[p] \in 1 .. h /\ h \in Nat
      /\ AtDepth(nd[p], np, h, depth, depth[p])
  BY <1>1 DEF Forest
<1>3. depth[p] < h
  BY <1>2 DEF AtDepth
<1>4. Len(nd[p].kids) = Len(nd[p].keys) + 1
  BY <1>2, <1>3 DEF AtDepth
<1>5. Len(nd[p].keys) \in Nat /\ Pos(nd[p], k) \in 0 .. Len(nd[p].keys)
  BY <1>2, KeysInt, PosRange, BTreeAssumption
<1>6. Pos(nd[p], k) + 1 \in 1 .. Len(nd[p].kids)
  BY <1>4, <1>5
<1>7. QED
  BY <1>2, <1>6 DEF AtDepth

\* Path leads from the root down to a leaf, from each node to the child that
\* Pos tells.
LEMMA PathIs ==
  ASSUME NEW depth, Rooted(depth), NEW k \in Keys
  PROVE  /\ Path(k)[1] = root
         /\ \A i \in 1 .. height : Path(k)[i] \in Alive(numPages) /\ depth[Path(k)[i]] = i
         /\ \A i \in 1 .. height - 1 :
              Path(k)[i + 1] = node[Path(k)[i]].kids[Pos(node[Path(k)[i]], k) + 1]
<1> DEFINE V == Alive(numPages)
           child(p) == node[p].kids[Pos(node[p], k) + 1]
           step == [p \in V |-> IF node[p].kids = <<>> THEN p ELSE child(p)]
           IsPath(f) == f = [i \in 1 .. height |-> IF i = 1 THEN root ELSE child(f[i - 1])]
<1>1. /\ height \in Nat \ {0} /\ height - 1 \in Nat /\ root \in V /\ depth[root] = 1
      /\ Forest(node, numPages, height, depth)
  BY DEF Rooted, Forest
<1>2. ASSUME NEW p \in V
      PROVE  /\ depth[p] \in 1 .. height /\ (depth[p] = height <=> node[p].kids = <<>>)
             /\ node[p].kids # <<>> => child(p) \in V /\ depth[child(p)] = depth[p] + 1
  <2>1. depth[p] \in 1 .. height /\ AtDepth(node[p], numPages, height, depth, depth[p])
    BY <1>1 DEF Forest
  <2>2. depth[p] = height <=> node[p].kids = <<>>
    BY <2>1 DEF AtDepth
  <2>3. CASE node[p].kids # <<>>
    <3> HIDE DEF V
    <3>1. child(p) \in Alive(numPages) /\ depth[child(p)] = depth[p] + 1
      BY <1>1, <2>3, ChildIs DEF V
    <3>2. QED
      BY <2>1, <2>2, <3>1 DEF V
  <2>4. QED
    BY <2>1, <2>2, <2>3
<1>3. step \in [V -> V]
  BY <1>2
<1>4. PICK f \in [0 .. height - 1 -> V] : Iterates(f, step, root, height - 1)
  <2> HIDE DEF V, step
  <2>1. QED
    BY <1>1, <1>3, IterationExists
<1> HIDE DEF child
<1>5. \A i \in Nat : i <= height - 1 => depth[f[i]] = i + 1
  <2> DEFINE S == {i \in Nat : i <= height - 1 => depth[f[i]] = i + 1}
  <2>1. 0 \in S
    BY <1>1, <1>4 DEF Iterates
  <2>2. ASSUME NEW i \in Nat, i \in S PROVE i + 1 \in S
    <3> SUFFICES ASSUME i + 1 <= height - 1 PROVE depth[f[i + 1]] = (i + 1) + 1
      OBVIOUS
    <3>1. i \in 0 .. height - 1 /\ i + 1 \in 1 .. height - 1 /\ (i + 1) - 1 = i /\ i + 1 # height
      BY <1>1
    <3>2. f[i] \in V /\ depth[f[i]] = i + 1 /\ f[i + 1] = step[f[i]]
      BY <1>4, <2>2, <3>1 DEF Iterates
    <3>3. f[i + 1] = child(f[i]) /\ node[f[i]].kids # <<>>
      BY <1>2, <3>1, <3>2
    <3>4. QED
      BY <1>2, <3>2, <3>3
  <2> HIDE DEF S
  <2>3. \A i \in Nat : i \in S
    BY <2>1, <2>2, SetInduction
  <2>4. QED
    BY <2>3 DEF S
<1> DEFINE path == [i \in 1 .. height |-> f[i - 1]]
<1>6. ASSUME NEW i \in 1 .. height
      PROVE  /\ path[i] \in V /\ depth[path[i]] = i
             /\ path[i] = IF i = 1 THEN root ELSE child(path[i - 1])
  <2>1. i - 1 \in 0 .. height - 1 /\ i - 1 \in Nat /\ i - 1 <= height - 1 /\ (i - 1) + 1 = i
    BY <1>1
  <2>2. path[i] \in V /\ depth[path[i]] = i
    BY <1>4, <1>5, <2>1
  <2>3. CASE i = 1
    BY <1>4, <2>2, <2>3 DEF Iterates
  <2>4. CASE i # 1
    <3>1. /\ i - 1 \in 1 .. height /\ i - 1 \in 1 .. height - 1 /\ (i - 1) - 1 \in Nat
          /\ (i - 1) - 1 <= height - 1 /\ (i - 1) - 1 \in 0 .. height - 1 /\ i - 1 # height
          /\ ((i - 1) - 1) + 1 = i - 1
      BY <1>1, <2>4
    <3>2. f[i - 1] = step[f[(i - 1) - 1]] /\ f[(i - 1) - 1] \in V
      BY <1>4, <3>1 DEF Iterates
    <3>3. depth[f[(i - 1) - 1]] = i - 1
      BY <1>5, <3>1
    <3>4. f[i - 1] = child(f[(i - 1) - 1])
      BY <1>2, <3>1, <3>2, <3>3
    <3>5. path[i] = f[i - 1] /\ path[i - 1] = f[(i - 1) - 1]
      BY <3>1
    <3>6. QED
      BY <2>2, <2>4, <3>4, <3>5
  <2>5. QED
    BY <2>2, <2>3, <2>4
<1>7. IsPath(path)
  BY <1>6
<1>8. IsPath(Path(k))
  <2>1. Path(k) = CHOOSE p : IsPath(p)
    BY DEF Path, child
  <2> HIDE DEF IsPath
  <2>2. QED
    BY <1>7, <2>1
<1> HIDE DEF path, step
<1>9. \A i \in 1 .. height : Path(k)[i] = IF i = 1 THEN root ELSE child(Path(k)[i - 1])
  BY <1>8 DEF IsPath
<1>10. \A i \in Nat : i + 1 <= height => Path(k)[i + 1] = path[i + 1]
  <2> DEFINE S == {i \in Nat : i + 1 <= height => Path(k)[i + 1] = path[i + 1]}
  <2>1. 0 \in S
    <3>1. 1 \in 1 .. height
      BY <1>1
    <3>2. QED
      BY <1>6, <1>9, <3>1
  <2>2. ASSUME NEW i \in Nat, i \in S PROVE i + 1 \in S
    <3> SUFFICES ASSUME (i + 1) + 1 <= height
                 PROVE  Path(k)[(i + 1) + 1] = path[(i + 1) + 1]
      OBVIOUS
    <3>1. (i + 1) + 1 \in 1 .. height /\ (i + 1) + 1 # 1 /\ ((i + 1) + 1) - 1 = i + 1
          /\ i + 1 <= height
      BY <1>1
    <3>2. Path(k)[i + 1] = path[i + 1]
      BY <2>2, <3>1
    <3>3. QED
      BY <1>6, <1>9, <3>1, <3>2
  <2> HIDE DEF S
  <2>3. \A i \in Nat : i \in S
    BY <2>1, <2>2, SetInduction
  <2>4. QED
    BY <2>3 DEF S
<1>11. ASSUME NEW i \in 1 .. height PROVE Path(k)[i] = path[i]
  <2>1. i - 1 \in Nat /\ (i - 1) + 1 = i /\ i <= height
    BY <1>1
  <2>2. QED
    BY <1>10, <2>1
<1>12. ASSUME NEW i \in 1 .. height - 1 PROVE Path(k)[i + 1] = child(Path(k)[i])
  <2>1. i + 1 \in 1 .. height /\ i + 1 # 1 /\ (i + 1) - 1 = i
    BY <1>1
  <2>2. QED
    BY <1>9, <2>1
<1>13. 1 \in 1 .. height
  BY <1>1
<1>14. QED
  BY <1>6, <1>9, <1>11, <1>12, <1>13 DEF child

\* Grown is the node of the path that takes something in, with it.
LEMMA GrownPath ==
  ASSUME NEW path, NEW k, height \in Nat \ {0}
  PROVE  LET g == Grown(path, k) IN
           /\ g[height] = WithKey(node[path[height]], k)
           /\ \A i \in 1 .. height - 1 : TakesIn(path, i) =>
                g[i] = WithChild(node[path[i]], k, Separator(g[i + 1]), NewPage(i + 1))
<1> DEFINE inner(i, next) ==
             IF TakesIn(path, i)
             THEN WithChild(node[path[i]], k, Separator(next), NewPage(i + 1))
             ELSE node[path[i]]
           Is(f, lo) == f = [i \in lo .. height |->
                               IF i = height THEN WithKey(node[path[i]], k)
                               ELSE inner(i, f[i + 1])]
           S == {m \in Nat : \E f : Is(f, height - m)}
<1> HIDE DEF inner
<1>1. 0 \in S
  <2> DEFINE f == [i \in height - 0 .. height |-> WithKey(node[path[i]], k)]
  <2>1. \A i \in height - 0 .. height : i = height
    OBVIOUS
  <2>2. Is(f, height - 0)
    BY <2>1
  <2>3. QED
    BY <2>2
<1>2. ASSUME NEW m \in Nat, m \in S PROVE m + 1 \in S
  <2>1. PICK f : Is(f, height - m)
    BY <1>2
  <2> DEFINE lo == height - (m + 1)
             e == [i \in lo .. height |-> IF i = lo THEN inner(i, f[i + 1]) ELSE f[i]]
  <2>2. /\ lo \in Int /\ lo + 1 = height - m /\ lo < height
        /\ \A i \in lo .. height : i # lo => i \in height - m .. height
        /\ \A i \in lo .. height : i # height => i + 1 \in lo .. height /\ i + 1 # lo
    OBVIOUS
  <2>3. \A i \in lo .. height : i # lo =>
          f[i] = IF i = height THEN WithKey(node[path[i]], k) ELSE inner(i, f[i + 1])
    BY <2>1, <2>2
  <2>4. ASSUME NEW i \in lo .. height
        PROVE  e[i] = IF i = height THEN WithKey(node[path[i]], k) ELSE inner(i, e[i + 1])
    <3> HIDE DEF lo
    <3>1. i # height => e[i + 1] = f[i + 1]
      BY <2>2
    <3>2. i = lo => e[i] = inner(i, f[i + 1]) /\ i # height
      BY <2>2
    <3>3. i # lo => e[i] = f[i]
      OBVIOUS
    <3> HIDE DEF e
    <3>4. QED
      BY <2>3, <3>1, <3>2, <3>3
  <2>5. Is(e, lo)
    <3> HIDE DEF lo
    <3>1. QED
      BY <2>4
  <2>6. \E h : Is(h, height - (m + 1))
    <3> HIDE DEF Is, e
    <3>1. QED
      BY <2>5
  <2>7. QED
    BY <2>6
<1> HIDE DEF S
<1>3. \A m \in Nat : m \in S
  BY <1>1, <1>2, SetInduction
<1>4. height - 1 \in Nat /\ height - (height - 1) = 1
  OBVIOUS
<1>5. \E f : Is(f, 1)
  <2>1. height - 1 \in S
    BY <1>3, <1>4
  <2>2. QED
    BY <1>4, <2>1 DEF S
<1>6. Grown(path, k) = CHOOSE f : Is(f, 1)
  BY DEF Grown, WithKey, WithChild, inner
<1>7. Is(Grown(path, k), 1)
  <2> HIDE DEF Is
  <2>1. QED
    BY <1>5, <1>6
<1> DEFINE g == Grown(path, k)
<1> HIDE DEF g
<1>8. \A i \in 1 .. height :
        g[i] = IF i = height THEN WithKey(node[path[i]], k) ELSE inner(i, g[i + 1])
  BY <1>7 DEF Is, g
<1>9. height \in 1 .. height /\ \A i \in 1 .. height - 1 : i \in 1 .. height /\ i # height
  OBVIOUS
<1>10. QED
  BY <1>8, <1>9 DEF inner, g

\* The depths of the nodes that split are the last ones.
LEMMA SplitSet ==
  ASSUME NEW path, height \in Nat \ {0}
  PROVE  LET S == {i \in 1 .. height : Splits(path, i)} IN
           /\ Cardinality(S) \in 0 .. height
           /\ S = height - Cardinality(S) + 1 .. height
<1> DEFINE S == {i \in 1 .. height : Splits(path, i)}
           W == {i \in 1 .. height : ~Splits(path, i)}
           s == Cardinality(W)
<1>1. \A i \in W : \A j \in 1 .. height : j < i => j \in W
  <2> SUFFICES ASSUME NEW i \in W, NEW j \in 1 .. height, j < i, Splits(path, j) PROVE FALSE
    OBVIOUS
  <2>1. i .. height \subseteq j .. height
    OBVIOUS
  <2>2. Splits(path, i)
    BY <2>1 DEF Splits
  <2>3. QED
    BY <2>2
<1>2. s \in 0 .. height /\ W = 1 .. s
  <2>1. height \in Nat /\ W \in SUBSET (1 .. height)
    OBVIOUS
  <2> HIDE DEF W
  <2>2. QED
    BY <1>1, <2>1, Downward
<1>3. \A i \in 1 .. height : i \in S <=> i \notin W
  OBVIOUS
<1> HIDE DEF s, W, S
<1>4. S \subseteq 1 .. height
  BY DEF S
<1>5. S = s + 1 .. height
  <2>1. \A i \in 1 .. height : i \in S <=> i \in s + 1 .. height
    BY <1>2, <1>3
  <2>2. s + 1 .. height \subseteq 1 .. height
    BY <1>2
  <2>3. QED
    BY <1>4, <2>1, <2>2
<1>6. Cardinality(S) = height - s
  <2>1. s + 1 \in Int /\ height \in Int
    BY <1>2
  <2>2. Cardinality(s + 1 .. height) = IF s + 1 > height THEN 0 ELSE height - (s + 1) + 1
    BY <2>1, FS_Interval
  <2>3. QED
    BY <1>2, <1>5, <2>2
<1>7. Cardinality(S) \in 0 .. height /\ S = height - Cardinality(S) + 1 .. height
  BY <1>2, <1>5, <1>6
<1>8. QED
  BY <1>7 DEF S

\* Stored puts the halves and the kept node where After says.
LEMMA StoredIs ==
  ASSUME NEW depth, NEW k, NEW s, NEW path, NEW g, NEW nd2,
         Forest(node, numPages, height, depth),
         Insertion(node, numPages, height, depth, k, s, path, g),
         nd2 = Stored(path, g, s + 1 .. height, s)
  PROVE  After(nd2, node, numPages, height, s, path, g)
<1> DEFINE S == s + 1 .. height
           over == "overfull" \in damage'
           atPath(p) == \E i \in S : path[i] = p
           atNew(p) == \E i \in S : NewPage(i) = p
           atTop(p) == s > 0 /\ path[IF s > 0 THEN s ELSE 1] = p
<1>1. /\ numPages \in Int /\ numPages >= FirstLeaf + 1 /\ MaxPages \in Nat
      /\ height \in Nat \ {0} /\ s \in 0 .. height /\ s \in Int
      /\ numPages + height - s <= MaxPages + 1
      /\ \A i \in 1 .. height : path[i] \in Alive(numPages) /\ depth[path[i]] = i
  BY BTreeAssumption DEF Forest, Insertion, FirstLeaf
<1>2. /\ nd2 = [p \in PageIds |-> nd2[p]]
      /\ \A p \in PageIds :
           nd2[p] = CASE atPath(p) ->
                           LET i == CHOOSE j \in S : path[j] = p IN Left(g[i], NewPage(i))
                      [] atNew(p) -> Right(g[CHOOSE j \in S : NewPage(j) = p])
                      [] atTop(p) -> Kept(g[s], over)
                      [] OTHER -> node[p]
  BY DEF Stored
<1>3. ASSUME NEW i \in S
      PROVE  /\ i \in 1 .. height /\ i \in Int /\ i # s
             /\ path[i] \in PageIds /\ path[i] < numPages /\ depth[path[i]] = i
             /\ NewPage(i) = numPages + height - i
             /\ NewPage(i) \in PageIds /\ NewPage(i) >= numPages /\ NewPage(i) \in Int
  <2>1. i \in 1 .. height /\ i \in Int /\ i # s
    BY <1>1
  <2>2. path[i] \in PageIds /\ path[i] < numPages /\ depth[path[i]] = i
    BY <1>1, <2>1 DEF Alive, PageIds
  <2>3. NewPage(i) = numPages + height - i
    BY DEF NewPage
  <2>4. numPages + height - i \in PageIds /\ numPages + height - i >= numPages
    BY <1>1 DEF PageIds, FirstLeaf
  <2>5. QED
    BY <1>1, <2>1, <2>2, <2>3, <2>4
<1>4. s > 0 => s \in 1 .. height /\ path[s] \in PageIds /\ path[s] < numPages /\ depth[path[s]] = s
  BY <1>1 DEF Alive, PageIds
<1> HIDE DEF S, over
<1>5. \A i, j \in S : path[i] = path[j] => i = j
  BY <1>3
<1>6. \A i, j \in S : NewPage(i) = NewPage(j) => i = j
  BY <1>1, <1>3
<1>7. \A i, j \in S : path[i] # NewPage(j)
  <2> SUFFICES ASSUME NEW i \in S, NEW j \in S, path[i] = NewPage(j) PROVE FALSE
    OBVIOUS
  <2>1. NewPage(j) \in Int /\ NewPage(j) < numPages /\ NewPage(j) >= numPages
    BY <1>3
  <2>2. QED
    BY <1>1, <2>1
<1>8. \A i \in S : s > 0 => path[s] # path[i] /\ path[s] # NewPage(i)
  <2> SUFFICES ASSUME NEW i \in S, s > 0 PROVE path[s] # path[i] /\ path[s] # NewPage(i)
    OBVIOUS
  <2>1. path[s] # path[i]
    BY <1>3, <1>4
  <2>2. path[s] # NewPage(i)
    BY <1>1, <1>3, <1>4
  <2>3. QED
    BY <2>1, <2>2
<1>9. ASSUME NEW i \in S PROVE nd2[path[i]] = Left(g[i], NewPage(i))
  <2>1. (CHOOSE j \in S : path[j] = path[i]) = i
    BY <1>5
  <2>2. atPath(path[i]) /\ ~atNew(path[i]) /\ ~atTop(path[i]) /\ path[i] \in PageIds
    BY <1>3, <1>7, <1>8
  <2> HIDE DEF atPath, atNew, atTop
  <2>3. nd2[path[i]] = LET m == CHOOSE j \in S : path[j] = path[i] IN Left(g[m], NewPage(m))
    BY <1>2, <2>2
  <2>4. QED
    BY <2>1, <2>3
<1>10. ASSUME NEW i \in S PROVE nd2[NewPage(i)] = Right(g[i])
  <2>1. (CHOOSE j \in S : NewPage(j) = NewPage(i)) = i
    BY <1>6
  <2>2. ~atPath(NewPage(i)) /\ atNew(NewPage(i)) /\ ~atTop(NewPage(i)) /\ NewPage(i) \in PageIds
    BY <1>3, <1>7, <1>8
  <2> HIDE DEF atPath, atNew, atTop
  <2>3. nd2[NewPage(i)] = Right(g[CHOOSE j \in S : NewPage(j) = NewPage(i)])
    BY <1>2, <2>2
  <2>4. QED
    BY <2>1, <2>3
<1>11. s > 0 => nd2[path[s]] = Kept(g[s], over) /\ over \in BOOLEAN
  <2> SUFFICES ASSUME s > 0 PROVE nd2[path[s]] = Kept(g[s], over) /\ over \in BOOLEAN
    OBVIOUS
  <2>1. ~atPath(path[s]) /\ ~atNew(path[s]) /\ atTop(path[s]) /\ path[s] \in PageIds
    BY <1>4, <1>8
  <2> HIDE DEF atPath, atNew, atTop
  <2>2. nd2[path[s]] = Kept(g[s], over)
    BY <1>2, <2>1
  <2>3. QED
    BY <2>2 DEF over
<1>12. ASSUME NEW p \in PageIds, p \notin numPages .. numPages + height - s - 1,
              \A i \in 1 .. height : i >= s => path[i] # p
       PROVE  nd2[p] = node[p]
  <2>1. ~atPath(p)
    <3>1. \A i \in S : i >= s
      BY <1>1 DEF S
    <3>2. QED
      BY <1>3, <1>12, <3>1
  <2>2. ~atNew(p)
    <3>1. \A i \in S : NewPage(i) \in numPages .. numPages + height - s - 1
      BY <1>1 DEF S, NewPage
    <3>2. QED
      BY <1>12, <3>1
  <2>3. ~atTop(p)
    <3>1. s > 0 => s >= s
      BY <1>1
    <3>2. QED
      BY <1>4, <1>12, <3>1
  <2> HIDE DEF atPath, atNew, atTop
  <2>4. QED
    BY <1>2, <2>1, <2>2, <2>3
<1>13. \A i \in s + 1 .. height :
         /\ nd2[path[i]] = Left(g[i], numPages + height - i)
         /\ nd2[numPages + height - i] = Right(g[i])
  BY <1>3, <1>9, <1>10 DEF S
<1>14. s > 0 => \E o \in BOOLEAN : nd2[path[s]] = Kept(g[s], o)
  BY <1>11
<1>15. QED
  BY <1>2, <1>12, <1>13, <1>14 DEF After

\* The path of a key and what its nodes grow to are an insertion.
LEMMA InsertionIs ==
  ASSUME NEW depth, Rooted(depth), NEW k \in Keys, NEW s \in 0 .. height,
         numPages + height - s <= MaxPages + 1, NEW path, path = Path(k),
         \A i \in s + 1 .. height : Full(node[path[i]])
  PROVE  /\ Insertion(node, numPages, height, depth, k, s, path, Grown(path, k))
         /\ path[1] = root
<1> DEFINE g == Grown(path, k)
<1>1. height \in Nat \ {0}
  BY DEF Rooted, Forest
<1>2. /\ path[1] = root
      /\ \A i \in 1 .. height : path[i] \in Alive(numPages) /\ depth[path[i]] = i
      /\ \A i \in 1 .. height - 1 :
           path[i + 1] = node[path[i]].kids[Pos(node[path[i]], k) + 1]
  BY PathIs
<1>3. /\ g[height] = WithKey(node[path[height]], k)
      /\ \A i \in 1 .. height - 1 : TakesIn(path, i) =>
           g[i] = WithChild(node[path[i]], k, Separator(g[i + 1]), NewPage(i + 1))
  BY <1>1, GrownPath
<1> HIDE DEF g
<1>4. ASSUME NEW i \in 1 .. height - 1, i >= s
      PROVE  g[i] = WithChild(node[path[i]], k, Separator(g[i + 1]), numPages + height - (i + 1))
  <2>1. i + 1 .. height \subseteq s + 1 .. height
    BY <1>1, <1>4
  <2>2. Splits(path, i + 1)
    BY <2>1 DEF Splits
  <2>3. TakesIn(path, i)
    BY <2>2 DEF TakesIn
  <2>4. QED
    BY <1>3, <2>3 DEF NewPage
<1>5. QED
  BY <1>2, <1>3, <1>4 DEF Insertion, g

\* What every insertion but the one that raises the tree does: the nodes
\* below some depth s have split, and if they all have then the right half of
\* the root is left without a parent.
LEMMA StepIs ==
  ASSUME NEW depth, Rooted(depth), NEW k \in Keys, damage \subseteq Damages,
         \/ InsertInside(k)
         \/ InsertUnrooted(k)
         \/ \E i \in 1 .. height : InsertOverfull(k, i)
  PROVE  \E s, path, g :
           /\ Insertion(node, numPages, height, depth, k, s, path, g)
           /\ After(node', node, numPages, height, s, path, g)
           /\ path[1] = root
           /\ "overfull" \in damage' \/ s = 0 \/ ~Full(node[path[s]])
           /\ root' = root /\ height' = height /\ numPages' = numPages + height - s
           /\ damage \subseteq damage' /\ damage' \subseteq Damages
           /\ s = 0 => "unrooted" \in damage'
<1>1. /\ height \in Nat \ {0} /\ height \in Nat /\ Forest(node, numPages, height, depth)
      /\ numPages \in Int
  BY DEF Rooted, Forest, FirstLeaf
<1>2. PICK path : path = Path(k)
  OBVIOUS
<1>3. PICK nd2 : nd2 = node'
  OBVIOUS
<1> DEFINE g == Grown(path, k)
<1>4. CASE InsertInside(k)
  <2> DEFINE S == {i \in 1 .. height : Splits(path, i)}
             s == height - Cardinality(S)
  <2>1. /\ 1 \notin S /\ numPages + Cardinality(S) <= MaxPages + 1
        /\ nd2 = Stored(path, g, S, s)
        /\ numPages' = numPages + Cardinality(S)
        /\ root' = root /\ height' = height /\ damage' = damage
    BY <1>2, <1>3, <1>4 DEF InsertInside
  <2>2. Cardinality(S) \in 0 .. height /\ S = s + 1 .. height
    BY <1>1, SplitSet
  <2>3. \A i \in 1 .. height : i \in S <=> Splits(path, i)
    OBVIOUS
  <2> HIDE DEF S
  <2>4. /\ s \in 0 .. height /\ s # 0 /\ numPages + Cardinality(S) = numPages + height - s
        /\ \A i \in s + 1 .. height : i \in 1 .. height
    BY <1>1, <2>1, <2>2
  <2> HIDE DEF s
  <2>5. \A i \in s + 1 .. height : Full(node[path[i]])
    <3> SUFFICES ASSUME NEW i \in s + 1 .. height PROVE Full(node[path[i]])
      OBVIOUS
    <3>1. Splits(path, i) /\ i \in i .. height
      BY <2>2, <2>3, <2>4
    <3>2. QED
      BY <3>1 DEF Splits
  <2>6. ~Full(node[path[s]])
    <3>1. s \in 1 .. height /\ s \notin S
      BY <1>1, <2>2, <2>4
    <3>2. PICK j \in s .. height : ~Full(node[path[j]])
      BY <2>3, <3>1 DEF Splits
    <3>3. j = s \/ j \in s + 1 .. height
      BY <3>1
    <3>4. QED
      BY <2>5, <3>2, <3>3
  <2>7. numPages + height - s <= MaxPages + 1
    BY <2>1, <2>4
  <2>8. Insertion(node, numPages, height, depth, k, s, path, g) /\ path[1] = root
    BY <1>2, <2>4, <2>5, <2>7, InsertionIs
  <2>9. After(nd2, node, numPages, height, s, path, g)
    BY <1>1, <2>1, <2>2, <2>8, StoredIs
  <2>10. QED
    BY <1>3, <2>1, <2>4, <2>6, <2>8, <2>9
<1>5. CASE InsertUnrooted(k)
  <2>1. /\ Splits(path, 1) /\ numPages + height <= MaxPages + 1
        /\ damage' = damage \cup {"unrooted"}
        /\ nd2 = Stored(path, g, 1 .. height, 0)
        /\ numPages' = numPages + height
        /\ root' = root /\ height' = height
    BY <1>2, <1>3, <1>5 DEF InsertUnrooted
  <2>2. 0 \in 0 .. height /\ 0 + 1 = 1 /\ numPages + height - 0 = numPages + height
    BY <1>1
  <2>3. \A i \in 0 + 1 .. height : Full(node[path[i]])
    BY <2>1, <2>2 DEF Splits
  <2>4. Insertion(node, numPages, height, depth, k, 0, path, g) /\ path[1] = root
    BY <1>2, <2>1, <2>2, <2>3, InsertionIs
  <2>5. After(nd2, node, numPages, height, 0, path, g)
    BY <1>1, <2>1, <2>2, <2>4, StoredIs
  <2>6. damage \subseteq damage' /\ damage' \subseteq Damages /\ "unrooted" \in damage'
    BY <2>1 DEF Damages
  <2>7. QED
    BY <1>3, <2>1, <2>2, <2>4, <2>5, <2>6
<1>6. ASSUME NEW s \in 1 .. height, InsertOverfull(k, s)
      PROVE  \E t, p, e :
               /\ Insertion(node, numPages, height, depth, k, t, p, e)
               /\ After(node', node, numPages, height, t, p, e)
               /\ p[1] = root
               /\ "overfull" \in damage' \/ t = 0 \/ ~Full(node[p[t]])
               /\ root' = root /\ height' = height /\ numPages' = numPages + height - t
               /\ damage \subseteq damage' /\ damage' \subseteq Damages
               /\ t = 0 => "unrooted" \in damage'
  <2>1. /\ Splits(path, s) /\ NewPage(s) <= MaxPages + 1
        /\ damage' = damage \cup {"overfull"}
        /\ nd2 = Stored(path, g, s + 1 .. height, s)
        /\ numPages' = NewPage(s)
        /\ root' = root /\ height' = height
    BY <1>2, <1>3, <1>6 DEF InsertOverfull
  <2>2. s \in 0 .. height /\ s # 0 /\ NewPage(s) = numPages + height - s
    BY <1>1 DEF NewPage
  <2>3. \A i \in s + 1 .. height : Full(node[path[i]])
    BY <2>1, <2>2 DEF Splits
  <2>4. Insertion(node, numPages, height, depth, k, s, path, g) /\ path[1] = root
    BY <1>2, <2>1, <2>2, <2>3, InsertionIs
  <2>5. After(nd2, node, numPages, height, s, path, g)
    BY <1>1, <2>1, <2>4, StoredIs
  <2>6. damage \subseteq damage' /\ damage' \subseteq Damages /\ "overfull" \in damage'
    BY <2>1 DEF Damages
  <2>7. QED
    BY <1>3, <2>1, <2>2, <2>4, <2>5, <2>6
<1>7. QED
  BY <1>4, <1>5, <1>6

\* The insertion that raises the tree splits every node on its path and puts
\* a new root over the two halves of the root.
LEMMA AboveIs ==
  ASSUME NEW depth, Rooted(depth), NEW k \in Keys, InsertAbove(k)
  PROVE  \E path, g, nd2 :
           /\ Insertion(node, numPages, height, depth, k, 0, path, g)
           /\ After(nd2, node, numPages, height, 0, path, g)
           /\ path[1] = root
           /\ numPages + height \in PageIds
           /\ node' = [nd2 EXCEPT ![numPages + height] = NewRoot(g[1], numPages + height - 1)]
           /\ root' = numPages + height /\ height' = height + 1
           /\ numPages' = numPages + height + 1 /\ damage' = damage
<1>1. /\ height \in Nat \ {0} /\ height \in Nat /\ Forest(node, numPages, height, depth)
      /\ numPages \in Int /\ numPages >= FirstLeaf + 1 /\ MaxPages \in Nat
  BY BTreeAssumption DEF Rooted, Forest, FirstLeaf
<1>2. PICK path : path = Path(k)
  OBVIOUS
<1> DEFINE g == Grown(path, k)
<1>3. PICK nd2 : nd2 = Stored(path, g, 1 .. height, 0)
  OBVIOUS
<1>4. /\ Splits(path, 1) /\ numPages + height <= MaxPages
      /\ node' = [nd2 EXCEPT ![numPages + height] = NewRoot(g[1], NewPage(1))]
      /\ root' = numPages + height /\ height' = height + 1
      /\ numPages' = numPages + height + 1 /\ damage' = damage
  BY <1>2, <1>3 DEF InsertAbove
<1>5. 0 \in 0 .. height /\ 0 + 1 = 1 /\ numPages + height - 0 <= MaxPages + 1
  BY <1>1, <1>4
<1>6. \A i \in 0 + 1 .. height : Full(node[path[i]])
  BY <1>4, <1>5 DEF Splits
<1>7. Insertion(node, numPages, height, depth, k, 0, path, g) /\ path[1] = root
  BY <1>2, <1>5, <1>6, InsertionIs
<1>8. After(nd2, node, numPages, height, 0, path, g)
  BY <1>1, <1>3, <1>5, <1>7, StoredIs
<1>9. numPages + height \in PageIds
  BY <1>1, <1>4 DEF PageIds, FirstLeaf
<1>10. NewPage(1) = numPages + height - 1
  BY DEF NewPage
<1>11. QED
  BY <1>4, <1>7, <1>8, <1>9, <1>10

-----------------------------------------------------------------------------
(***************************************************************************)
(* The order of the keys.  span[p] are the keys that belong in or under    *)
(* the node on page p.                                                     *)
(***************************************************************************)
Spanned(nd, np, depth, n, l, span) ==
  /\ \A p \in Alive(np) : span[p] \in SUBSET Int /\ Ordered(nd[p], span[p], span)
  /\ \A p, q \in Alive(np) : p # q /\ depth[p] = depth[q] => span[p] \cap span[q] = {}
  /\ \A i, j \in 1 .. n : i < j => \A x \in span[l[i]] : \A y \in span[l[j]] : x < y

\* The spans once the nodes of the path below depth s have split.
Narrowed(np, h, depth, s, path, g, span) ==
  [p \in PageIds |->
     IF p >= np THEN From(span[path[np + h - p]], Separator(g[np + h - p]))
     ELSE IF depth[p] > s /\ path[depth[p]] = p THEN Below(span[p], Separator(g[depth[p]]))
     ELSE span[p]]

\* A key belongs under each node of its path.
LEMMA DescentSpans ==
  ASSUME NEW nd, NEW np, NEW h, NEW depth, NEW k \in Keys, NEW path,
         NEW n, NEW l, NEW span,
         Forest(nd, np, h, depth),
         \A i \in 1 .. h : path[i] \in Alive(np) /\ depth[path[i]] = i,
         \A i \in 1 .. h - 1 : path[i + 1] = nd[path[i]].kids[Pos(nd[path[i]], k) + 1],
         Spanned(nd, np, depth, n, l, span), span[path[1]] = Int
  PROVE  \A i \in 1 .. h : k \in span[path[i]]
<1>1. h \in Nat \ {0} /\ k \in Keys /\ k \in Int
  BY BTreeAssumption DEF Forest
<1> DEFINE S == {i \in Nat : i + 1 <= h => k \in span[path[i + 1]]}
<1>2. 0 \in S
  BY <1>1
<1>3. ASSUME NEW i \in Nat, i \in S PROVE i + 1 \in S
  <2> SUFFICES ASSUME (i + 1) + 1 <= h PROVE k \in span[path[(i + 1) + 1]]
    OBVIOUS
  <2> DEFINE p == path[i + 1]
             m == Pos(nd[p], k)
  <2>1. i + 1 \in 1 .. h /\ i + 1 \in 1 .. h - 1 /\ i + 1 # h /\ i + 1 <= h
    BY <1>1
  <2>2. /\ p \in Alive(np) /\ depth[p] = i + 1 /\ path[(i + 1) + 1] = nd[p].kids[m + 1]
        /\ k \in span[p]
    BY <1>1, <1>3, <2>1
  <2>3. p \in PageIds /\ nd[p] \in NodeType
    BY <2>2, BTreeAssumption DEF Forest, Alive, PageIds, FirstLeaf
  <2>4. nd[p].kids # <<>>
    BY <2>1, <2>2 DEF Forest, AtDepth
  <2>5. m + 1 \in 1 .. Len(nd[p].kids) /\ Len(nd[p].kids) = Len(nd[p].keys) + 1
    <3>1. depth[p] < h
      BY <1>1, <2>1, <2>2
    <3>2. Len(nd[p].kids) = Len(nd[p].keys) + 1
      BY <2>2, <3>1 DEF Forest, AtDepth
    <3> HIDE DEF p
    <3>3. QED
      BY <1>1, <2>2, <2>4, <3>2, ChildIs
  <2>6. Sorted(nd[p].keys) /\ span[nd[p].kids[m + 1]] = {x \in span[p] : In(nd[p].keys, m + 1, x)}
    BY <2>2, <2>5, SMTT(30) DEF Spanned, Ordered
  <2>7. In(nd[p].keys, m + 1, k)
    <3>1. nd[p].keys \in Seq(Int) /\ m + 1 \in 1 .. Len(nd[p].keys) + 1
      BY <2>3, <2>5, KeysInt
    <3> HIDE DEF p
    <3>2. QED
      BY <1>1, <2>6, <3>1, PosIn
  <2>8. QED
    BY <2>2, <2>6, <2>7
<1> HIDE DEF S
<1>4. \A i \in Nat : i \in S
  BY <1>2, <1>3, SetInduction
<1>5. ASSUME NEW i \in 1 .. h PROVE k \in span[path[i]]
  <2>1. i - 1 \in Nat /\ (i - 1) + 1 = i /\ (i - 1) + 1 <= h
    BY <1>1
  <2>2. QED
    BY <1>4, <2>1 DEF S
<1>6. QED
  BY <1>5

\* The key to insert belongs under each node of its path.
LEMMA PathSpans ==
  ASSUME NEW nd, NEW np, NEW h, NEW depth, NEW k, NEW s, NEW path, NEW g,
         NEW n, NEW l, NEW span,
         Forest(nd, np, h, depth), Insertion(nd, np, h, depth, k, s, path, g),
         Spanned(nd, np, depth, n, l, span), span[path[1]] = Int
  PROVE  \A i \in 1 .. h : k \in span[path[i]]
<1>1. /\ k \in Keys
      /\ \A i \in 1 .. h : path[i] \in Alive(np) /\ depth[path[i]] = i
      /\ \A i \in 1 .. h - 1 : path[i + 1] = nd[path[i]].kids[Pos(nd[path[i]], k) + 1]
  BY DEF Insertion
<1>2. QED
  BY <1>1, DescentSpans

\* The spans of the pages of the path and of those allocated.
LEMMA NarrowedIs ==
  ASSUME NEW nd, NEW np, NEW h, NEW depth, NEW k, NEW s, NEW path, NEW g, NEW span,
         Forest(nd, np, h, depth), Insertion(nd, np, h, depth, k, s, path, g)
  PROVE  LET narrowed == Narrowed(np, h, depth, s, path, g, span) IN
           /\ \A i \in s + 1 .. h :
                /\ narrowed[path[i]] = Below(span[path[i]], Separator(g[i]))
                /\ narrowed[np + h - i] = From(span[path[i]], Separator(g[i]))
           /\ s > 0 => narrowed[path[s]] = span[path[s]]
           /\ \A p \in Alive(np) : narrowed[p] # span[p] => depth[p] > s /\ path[depth[p]] = p
<1> DEFINE narrowed == Narrowed(np, h, depth, s, path, g, span)
<1>1. /\ np \in Int /\ np >= FirstLeaf + 1 /\ np <= MaxPages + 1 /\ MaxPages \in Nat
      /\ h \in Nat \ {0} /\ s \in 0 .. h /\ s \in Int /\ np + h - s <= MaxPages + 1
      /\ \A i \in 1 .. h : path[i] \in Alive(np) /\ depth[path[i]] = i
  BY BTreeAssumption DEF Forest, Insertion, FirstLeaf
<1>2. ASSUME NEW p \in Alive(np)
      PROVE  narrowed[p] = IF depth[p] > s /\ path[depth[p]] = p
                           THEN Below(span[p], Separator(g[depth[p]])) ELSE span[p]
  <2>1. p \in PageIds /\ ~(p >= np)
    BY <1>1 DEF Alive, PageIds, FirstLeaf
  <2>2. QED
    BY <2>1 DEF Narrowed
<1>3. ASSUME NEW i \in s + 1 .. h
      PROVE  /\ narrowed[path[i]] = Below(span[path[i]], Separator(g[i]))
             /\ narrowed[np + h - i] = From(span[path[i]], Separator(g[i]))
  <2>1. i \in 1 .. h /\ i > s /\ path[i] \in Alive(np) /\ depth[path[i]] = i
    BY <1>1
  <2>2. np + h - i \in PageIds /\ np + h - i >= np /\ np + h - (np + h - i) = i
    BY <1>1 DEF PageIds, FirstLeaf
  <2>3. narrowed[np + h - i] = From(span[path[i]], Separator(g[i]))
    BY <2>2 DEF Narrowed
  <2>4. QED
    BY <1>2, <2>1, <2>3
<1>4. s > 0 => narrowed[path[s]] = span[path[s]]
  <2>1. s > 0 => s \in 1 .. h /\ ~(s > s)
    BY <1>1
  <2>2. QED
    BY <1>1, <1>2, <2>1
<1>5. QED
  BY <1>2, <1>3, <1>4

\* The nodes that take something in still have their keys in order.
LEMMA GrownOrdered ==
  ASSUME NEW nd, NEW np, NEW h, NEW depth, NEW k, NEW s, NEW path, NEW g,
         NEW n, NEW l, NEW span,
         Forest(nd, np, h, depth), Insertion(nd, np, h, depth, k, s, path, g),
         Spanned(nd, np, depth, n, l, span), span[path[1]] = Int,
         k \notin KeysHeld(nd, np, h, depth)
  PROVE  \A i \in 1 .. h : i >= s =>
           Ordered(g[i], span[path[i]], Narrowed(np, h, depth, s, path, g, span))
<1> DEFINE narrowed == Narrowed(np, h, depth, s, path, g, span)
<1>1. /\ h \in Nat \ {0} /\ h \in 1 .. h /\ k \in Keys /\ k \in Int /\ s \in 0 .. h /\ s \in Int
      /\ np \in Int /\ np + h - s <= MaxPages + 1 /\ np >= FirstLeaf + 1
      /\ np <= MaxPages + 1 /\ MaxPages \in Nat
      /\ nd \in [PageIds -> NodeType]
      /\ \A i \in 1 .. h : path[i] \in Alive(np) /\ depth[path[i]] = i
      /\ \A i \in 1 .. h - 1 : path[i + 1] = nd[path[i]].kids[Pos(nd[path[i]], k) + 1]
      /\ g[h] = WithKey(nd[path[h]], k)
      /\ \A i \in 1 .. h - 1 :
           i >= s => g[i] = WithChild(nd[path[i]], k, Separator(g[i + 1]), np + h - (i + 1))
  BY BTreeAssumption DEF Forest, Insertion, FirstLeaf
<1>2. ASSUME NEW i \in 1 .. h
      PROVE  /\ nd[path[i]] \in NodeType /\ span[path[i]] \in SUBSET Int
             /\ Ordered(nd[path[i]], span[path[i]], span) /\ k \in span[path[i]]
             /\ AtDepth(nd[path[i]], np, h, depth, i)
  <2>1. path[i] \in Alive(np) /\ depth[path[i]] = i
    BY <1>1
  <2>2. path[i] \in PageIds
    BY <1>1, <2>1 DEF Alive, PageIds, FirstLeaf
  <2>3. k \in span[path[i]]
    BY PathSpans
  <2>4. QED
    BY <1>1, <2>1, <2>2, <2>3 DEF Spanned, Forest
<1>3. /\ \A i \in s + 1 .. h :
           /\ narrowed[path[i]] = Below(span[path[i]], Separator(g[i]))
           /\ narrowed[np + h - i] = From(span[path[i]], Separator(g[i]))
      /\ \A p \in Alive(np) : narrowed[p] # span[p] => depth[p] > s /\ path[depth[p]] = p
  BY NarrowedIs
<1>4. \A i \in 1 .. h : i > s => Overfull(g[i])
  <2>1. \A i \in 1 .. h : i > s => i >= s
    BY <1>1
  <2>2. QED
    BY <2>1, GrownIs
<1> HIDE DEF narrowed
<1> DEFINE S == {i \in 1 .. h : Ordered(g[i], span[path[i]], narrowed)}
<1>5. h \in S
  <2>1. nd[path[h]].kids = <<>>
    BY <1>1, <1>2 DEF AtDepth
  <2>2. \A j \in 1 .. Len(nd[path[h]].keys) : nd[path[h]].keys[j] # k
    <3>1. path[h] \in LeafPages(np, h, depth)
      BY <1>1 DEF LeafPages
    <3>2. k \notin ToSet(nd[path[h]].keys)
      BY <3>1 DEF KeysHeld
    <3>3. DOMAIN nd[path[h]].keys = 1 .. Len(nd[path[h]].keys)
      BY <1>1, <1>2, KeysInt, LenProperties
    <3>4. QED
      BY <3>2, <3>3 DEF ToSet
  <2>3. Ordered(WithKey(nd[path[h]], k), span[path[h]], narrowed)
    BY <1>1, <1>2, <2>1, <2>2, WithKeyOrdered
  <2>4. QED
    BY <1>1, <2>3
<1>6. ASSUME NEW i \in 1 .. h - 1, i >= s, i + 1 \in S PROVE i \in S
  <2> DEFINE p == path[i]
             c == path[i + 1]
             sep == Separator(g[i + 1])
             q == np + h - (i + 1)
             m == Pos(nd[p], k) + 1
  <2>1. /\ i \in 1 .. h /\ i + 1 \in 1 .. h /\ i + 1 \in s + 1 .. h /\ i + 1 > s
        /\ i < h /\ i # h
    BY <1>1, <1>6
  <2>2. /\ nd[p] \in NodeType /\ span[p] \in SUBSET Int /\ Ordered(nd[p], span[p], span)
        /\ AtDepth(nd[p], np, h, depth, i) /\ k \in span[p]
    BY <1>2, <2>1
  <2>3. Len(nd[p].kids) = Len(nd[p].keys) + 1
    BY <2>1, <2>2 DEF AtDepth
  <2>4. \A j \in 1 .. Len(nd[p].kids) :
          nd[p].kids[j] \in Alive(np) /\ depth[nd[p].kids[j]] = i + 1
    BY <2>2 DEF AtDepth
  <2>5. c = nd[p].kids[m] /\ g[i] = WithChild(nd[p], k, sep, q)
    BY <1>1, <1>6
  <2>6. /\ Ordered(g[i + 1], span[c], narrowed) /\ Overfull(g[i + 1])
        /\ span[c] \in SUBSET Int /\ k \in span[c]
    BY <1>2, <1>4, <1>6, <2>1
  <2>7. sep \in Keys /\ sep \in span[c] /\ \E x \in span[c] : x < sep
    BY <2>6, SeparatorIs
  <2>8. narrowed[c] = Below(span[c], sep) /\ narrowed[q] = From(span[c], sep)
    BY <1>3, <2>1
  <2>9. q \in PageIds
    BY <1>1, <1>6, <2>1 DEF PageIds, FirstLeaf
  <2>10. nd[p].keys \in Seq(Int) /\ Len(nd[p].keys) \in Nat /\ Sorted(nd[p].keys)
    BY <2>2, KeysInt DEF Ordered
  <2> HIDE DEF p, sep, q
  <2>11. ASSUME NEW j \in 1 .. Len(nd[p].kids), j # m
         PROVE  narrowed[nd[p].kids[j]] = span[nd[p].kids[j]]
    <3> SUFFICES ASSUME narrowed[nd[p].kids[j]] # span[nd[p].kids[j]] PROVE FALSE
      OBVIOUS
    <3>1. nd[p].kids[j] = c
      BY <1>3, <2>4
    <3>2. span[nd[p].kids[j]] = {x \in span[p] : In(nd[p].keys, j, x)}
      BY <2>2 DEF Ordered
    <3>3. In(nd[p].keys, j, k)
      BY <2>6, <3>1, <3>2
    <3>4. j \in 1 .. Len(nd[p].keys) + 1
      BY <2>3
    <3>5. j = m
      <4>1. k \in Int
        BY <1>1
      <4> HIDE DEF c
      <4>2. In(nd[p].keys, j, k) <=> j = Pos(nd[p], k) + 1
        BY <2>10, <3>4, <4>1, PosIn
      <4>3. QED
        BY <3>3, <4>2
    <3>6. QED
      BY <2>11, <3>5
  <2>12. Ordered(WithChild(nd[p], k, sep, q), span[p], narrowed)
    BY <1>1, <2>2, <2>3, <2>5, <2>7, <2>8, <2>9, <2>11, WithChildOrdered
  <2>13. QED
    BY <2>1, <2>5, <2>12 DEF p
<1>7. \A i \in 1 .. h - 1 : i >= s /\ i + 1 \in S => i \in S
  BY <1>6
<1>8. \A i \in 1 .. h : i >= s => i \in S
  <2> HIDE DEF S
  <2>1. QED
    BY <1>1, <1>5, <1>7, DownInduction
<1>9. QED
  BY <1>8 DEF narrowed

\* After an insertion the keys of every node are in order.
LEMMA NarrowedOrdered ==
  ASSUME NEW nd2, NEW nd, NEW np, NEW h, NEW depth, NEW k, NEW s, NEW path, NEW g,
         NEW n, NEW l, NEW span,
         Forest(nd, np, h, depth), Insertion(nd, np, h, depth, k, s, path, g),
         After(nd2, nd, np, h, s, path, g),
         Spanned(nd, np, depth, n, l, span), span[path[1]] = Int,
         k \notin KeysHeld(nd, np, h, depth)
  PROVE  LET narrowed == Narrowed(np, h, depth, s, path, g, span) IN
           \A p \in Alive(np + h - s) :
             narrowed[p] \in SUBSET Int /\ Ordered(nd2[p], narrowed[p], narrowed)
<1> DEFINE narrowed == Narrowed(np, h, depth, s, path, g, span)
           np2 == np + h - s
<1>1. /\ h \in Nat \ {0} /\ h \in Nat /\ k \in Keys /\ s \in 0 .. h /\ s \in Int
      /\ np \in Int /\ np2 <= MaxPages + 1 /\ np2 \in Int /\ np >= FirstLeaf + 1
      /\ np <= MaxPages + 1 /\ MaxPages \in Nat
      /\ \A i \in 1 .. h : path[i] \in Alive(np) /\ depth[path[i]] = i
      /\ \A i \in 1 .. h - 1 : path[i + 1] = nd[path[i]].kids[Pos(nd[path[i]], k) + 1]
  BY BTreeAssumption DEF Forest, Insertion, FirstLeaf
<1>2. /\ \A i \in s + 1 .. h :
           /\ narrowed[path[i]] = Below(span[path[i]], Separator(g[i]))
           /\ narrowed[np + h - i] = From(span[path[i]], Separator(g[i]))
      /\ s > 0 => narrowed[path[s]] = span[path[s]]
      /\ \A p \in Alive(np) : narrowed[p] # span[p] => depth[p] > s /\ path[depth[p]] = p
  BY NarrowedIs
<1>3. \A i \in 1 .. h : i >= s =>
        /\ g[i] \in NodeType /\ Ordered(g[i], span[path[i]], narrowed)
        /\ i > s => Overfull(g[i])
  BY GrownIs, GrownOrdered
<1>4. \A i \in 1 .. h : k \in span[path[i]]
  BY PathSpans
<1>5. \A p \in Alive(np) : span[p] \in SUBSET Int /\ Ordered(nd[p], span[p], span)
  BY DEF Spanned
<1>6. \A p, q \in Alive(np) : p # q /\ depth[p] = depth[q] => span[p] \cap span[q] = {}
  BY DEF Spanned
<1> HIDE DEF narrowed, np2
<1>7. ASSUME NEW p \in Alive(np2)
      PROVE  narrowed[p] \in SUBSET Int /\ Ordered(nd2[p], narrowed[p], narrowed)
  <2>0. p \in PageIds
    BY <1>1 DEF Alive, PageIds, np2
  <2>1. CASE /\ nd2[p] = nd[p] /\ p \notin np .. np + h - s - 1
             /\ \A i \in 1 .. h : i >= s => path[i] # p
    <3>1. p \in Alive(np)
      BY <1>1, <2>1 DEF Alive, np2
    <3>2. depth[p] \in 1 .. h /\ AtDepth(nd[p], np, h, depth, depth[p])
      BY <3>1 DEF Forest
    <3>3. narrowed[p] = span[p]
      <4> SUFFICES ASSUME depth[p] > s, path[depth[p]] = p PROVE FALSE
        BY <1>2, <3>1
      <4>1. depth[p] >= s
        BY <1>1, <3>2
      <4>2. QED
        BY <2>1, <3>2, <4>1
    <3>4. ASSUME NEW j \in 1 .. Len(nd[p].kids)
          PROVE  narrowed[nd[p].kids[j]] = span[nd[p].kids[j]]
      <4> DEFINE c == nd[p].kids[j]
                 i == depth[p]
      <4> SUFFICES ASSUME narrowed[c] # span[c] PROVE FALSE
        OBVIOUS
      <4>1. c \in Alive(np) /\ depth[c] = i + 1
        BY <3>2 DEF AtDepth
      <4>2. i + 1 > s /\ path[i + 1] = c
        BY <1>2, <4>1
      <4>3. depth[c] \in 1 .. h
        BY <4>1 DEF Forest
      <4>4. i \in 1 .. h /\ i \in 1 .. h - 1 /\ i >= s /\ i + 1 \in 1 .. h
        BY <1>1, <3>2, <4>1, <4>2, <4>3
      <4>5. p # path[i] /\ path[i] \in Alive(np) /\ depth[path[i]] = depth[p]
        BY <1>1, <2>1, <4>4
      <4>6. k \in span[c] /\ k \in span[path[i]]
        BY <1>4, <4>2, <4>4
      <4>7. span[c] = {x \in span[p] : In(nd[p].keys, j, x)}
        BY <1>5, <3>1 DEF Ordered
      <4>8. k \in span[p]
        BY <4>6, <4>7
      <4>9. QED
        BY <1>6, <3>1, <4>5, <4>6, <4>8
    <3>5. Ordered(nd[p], span[p], narrowed)
      BY <1>5, <3>1, <3>4 DEF Ordered
    <3>6. QED
      BY <1>5, <2>1, <3>1, <3>3, <3>5
  <2>2. ASSUME NEW i \in s + 1 .. h, path[i] = p \/ p = np + h - i
        PROVE  narrowed[p] \in SUBSET Int /\ Ordered(nd2[p], narrowed[p], narrowed)
    <3> DEFINE sep == Separator(g[i])
    <3>1. i \in 1 .. h /\ i >= s /\ i > s /\ np + h - i \in PageIds
      BY <1>1 DEF PageIds, FirstLeaf, np2
    <3>2. Overfull(g[i]) /\ Ordered(g[i], span[path[i]], narrowed) /\ span[path[i]] \in SUBSET Int
      BY <1>1, <1>3, <1>5, <3>1
    <3>3. /\ Ordered(Left(g[i], np + h - i), Below(span[path[i]], sep), narrowed)
          /\ Ordered(Right(g[i]), From(span[path[i]], sep), narrowed)
      BY <3>1, <3>2, LeftOrdered, RightOrdered
    <3>4. nd2[path[i]] = Left(g[i], np + h - i) /\ nd2[np + h - i] = Right(g[i])
      BY DEF After
    <3>5. Below(span[path[i]], sep) \in SUBSET Int /\ From(span[path[i]], sep) \in SUBSET Int
      BY <3>2 DEF Below, From
    <3>6. QED
      BY <1>2, <2>2, <3>3, <3>4, <3>5
  <2>3. ASSUME s > 0, path[s] = p
        PROVE  narrowed[p] \in SUBSET Int /\ Ordered(nd2[p], narrowed[p], narrowed)
    <3>1. s \in 1 .. h /\ s >= s
      BY <1>1, <2>3
    <3>2. g[s] \in NodeType /\ Ordered(g[s], span[p], narrowed) /\ span[p] \in SUBSET Int
      BY <1>1, <1>3, <1>5, <2>3, <3>1
    <3>3. PICK o \in BOOLEAN : nd2[p] = Kept(g[s], o)
      BY <2>3 DEF After
    <3>4. nd2[p].keys = g[s].keys /\ nd2[p].kids = g[s].kids
      BY <3>2, <3>3, KeptIs
    <3>5. Ordered(nd2[p], span[p], narrowed)
      BY <3>2, <3>4 DEF Ordered
    <3>6. QED
      BY <1>2, <2>3, <3>2, <3>5
  <2>4. \/ /\ nd2[p] = nd[p]
           /\ p \notin np .. np + h - s - 1
           /\ \A i \in 1 .. h : i >= s => path[i] # p
        \/ \E i \in s + 1 .. h : path[i] = p
        \/ s > 0 /\ path[s] = p
        \/ \E i \in s + 1 .. h : p = np + h - i
    <3>1. np \in Int /\ h \in Nat /\ s \in 0 .. h
      BY <1>1
    <3>2. QED
      BY <2>0, <3>1, AfterCases, SMTT(30)
  <2>5. QED
    BY <2>1, <2>2, <2>3, <2>4
<1>8. QED
  BY <1>7 DEF narrowed, np2

\* Each page has a part of the span some page of its depth had; it is that
\* page, or the new page of that one's right half.
LEMMA NarrowedBase ==
  ASSUME NEW nd, NEW np, NEW h, NEW depth, NEW k, NEW s, NEW path, NEW g, NEW span,
         Forest(nd, np, h, depth), Insertion(nd, np, h, depth, k, s, path, g)
  PROVE  LET narrowed == Narrowed(np, h, depth, s, path, g, span) IN
           \A p \in Alive(np + h - s) :
             \E b \in Alive(np) :
               /\ depth[b] = Deeper(np, h, depth)[p]
               /\ narrowed[p] \subseteq span[b]
               /\ p = b \/ \E i \in s + 1 .. h : p = np + h - i /\ b = path[i]
<1> DEFINE narrowed == Narrowed(np, h, depth, s, path, g, span)
           deeper == Deeper(np, h, depth)
<1>1. /\ h \in Nat \ {0} /\ s \in 0 .. h /\ s \in Int
      /\ np \in Int /\ np + h - s <= MaxPages + 1 /\ np >= FirstLeaf + 1
      /\ np <= MaxPages + 1 /\ MaxPages \in Nat
      /\ \A i \in 1 .. h : path[i] \in Alive(np) /\ depth[path[i]] = i
  BY BTreeAssumption DEF Forest, Insertion, FirstLeaf
<1>2. /\ \A i \in s + 1 .. h :
           /\ narrowed[path[i]] = Below(span[path[i]], Separator(g[i]))
           /\ narrowed[np + h - i] = From(span[path[i]], Separator(g[i]))
      /\ \A p \in Alive(np) : narrowed[p] # span[p] => depth[p] > s /\ path[depth[p]] = p
  BY NarrowedIs
<1> HIDE DEF narrowed
<1>3. ASSUME NEW p \in Alive(np + h - s)
      PROVE  \E b \in Alive(np) :
               /\ depth[b] = deeper[p]
               /\ narrowed[p] \subseteq span[b]
               /\ p = b \/ \E i \in s + 1 .. h : p = np + h - i /\ b = path[i]
  <2>1. CASE p \in Alive(np)
    <3>1. deeper[p] = depth[p]
      BY <1>1, <2>1 DEF Alive, PageIds, Deeper, FirstLeaf
    <3>2. narrowed[p] \subseteq span[p]
      <4>1. CASE narrowed[p] = span[p]
        BY <4>1
      <4>2. CASE narrowed[p] # span[p]
        <5>1. depth[p] > s /\ path[depth[p]] = p /\ depth[p] \in 1 .. h
          BY <1>2, <2>1, <4>2 DEF Forest
        <5>2. depth[p] \in s + 1 .. h
          BY <1>1, <5>1
        <5>3. narrowed[p] = Below(span[p], Separator(g[depth[p]]))
          BY <1>2, <5>1, <5>2
        <5>4. QED
          BY <5>3 DEF Below
      <4>3. QED
        BY <4>1, <4>2
    <3>3. QED
      BY <2>1, <3>1, <3>2
  <2>2. CASE p \notin Alive(np)
    <3> DEFINE i == np + h - p
    <3>1. /\ p \in Int /\ p >= np /\ p < np + h - s /\ p \in PageIds
      BY <1>1, <2>2 DEF Alive, PageIds
    <3>2. i \in s + 1 .. h /\ p = np + h - i /\ i \in 1 .. h
      BY <1>1, <3>1
    <3>3. deeper[p] = i
      BY <1>1, <3>1 DEF Deeper
    <3> HIDE DEF i
    <3>4. path[i] \in Alive(np) /\ depth[path[i]] = i
      BY <1>1, <3>2
    <3>5. narrowed[p] \subseteq span[path[i]]
      BY <1>2, <3>2 DEF From
    <3>6. QED
      BY <3>2, <3>3, <3>4, <3>5
  <2>3. QED
    BY <2>1, <2>2
<1>4. QED
  BY <1>3 DEF narrowed, deeper

\* The nodes of a depth still share no key.
LEMMA NarrowedApart ==
  ASSUME NEW nd, NEW np, NEW h, NEW depth, NEW k, NEW s, NEW path, NEW g,
         NEW n, NEW l, NEW span,
         Forest(nd, np, h, depth), Insertion(nd, np, h, depth, k, s, path, g),
         \A p \in Alive(np) : span[p] \in SUBSET Int,
         \A i \in s + 1 .. h : Separator(g[i]) \in Int,
         Spanned(nd, np, depth, n, l, span)
  PROVE  LET narrowed == Narrowed(np, h, depth, s, path, g, span)
             deeper == Deeper(np, h, depth) IN
           \A p, q \in Alive(np + h - s) :
             p # q /\ deeper[p] = deeper[q] => narrowed[p] \cap narrowed[q] = {}
<1> DEFINE narrowed == Narrowed(np, h, depth, s, path, g, span)
           deeper == Deeper(np, h, depth)
           New(p, b) == \E i \in s + 1 .. h : p = np + h - i /\ b = path[i]
<1>1. /\ h \in Nat \ {0} /\ s \in 0 .. h /\ s \in Int
      /\ \A i \in 1 .. h : path[i] \in Alive(np) /\ depth[path[i]] = i
  BY DEF Forest, Insertion
<1>2. \A i \in s + 1 .. h :
        /\ narrowed[path[i]] = Below(span[path[i]], Separator(g[i]))
        /\ narrowed[np + h - i] = From(span[path[i]], Separator(g[i]))
  BY NarrowedIs
<1>3. \A p \in Alive(np + h - s) : \E b \in Alive(np) :
        depth[b] = deeper[p] /\ narrowed[p] \subseteq span[b] /\ (p = b \/ New(p, b))
  BY NarrowedBase
<1>4. \A i \in s + 1 .. h : i \in 1 .. h
  BY <1>1
<1>5. \A p, q \in Alive(np) : p # q /\ depth[p] = depth[q] => span[p] \cap span[q] = {}
  BY DEF Spanned
<1> HIDE DEF narrowed, deeper
<1>6. ASSUME NEW b \in Alive(np), NEW p, NEW q, p = b, New(q, b)
      PROVE  narrowed[p] \cap narrowed[q] = {}
  <2>1. PICK i \in s + 1 .. h : q = np + h - i /\ b = path[i]
    BY <1>6
  <2>2. /\ narrowed[p] = Below(span[b], Separator(g[i]))
        /\ narrowed[q] = From(span[b], Separator(g[i]))
    BY <1>2, <1>6, <2>1
  <2>3. \A x \in span[b] : ~(x < Separator(g[i]) /\ x >= Separator(g[i]))
    OBVIOUS
  <2>4. QED
    BY <2>2, <2>3 DEF Below, From
<1>7. ASSUME NEW p \in Alive(np + h - s), NEW q \in Alive(np + h - s),
             p # q, deeper[p] = deeper[q]
      PROVE  narrowed[p] \cap narrowed[q] = {}
  <2>1. PICK b \in Alive(np) :
          depth[b] = deeper[p] /\ narrowed[p] \subseteq span[b] /\ (p = b \/ New(p, b))
    BY <1>3
  <2>2. PICK c \in Alive(np) :
          depth[c] = deeper[q] /\ narrowed[q] \subseteq span[c] /\ (q = c \/ New(q, c))
    BY <1>3
  <2>3. CASE b # c
    <3>1. span[b] \cap span[c] = {}
      BY <1>5, <1>7, <2>1, <2>2, <2>3
    <3>2. QED
      BY <2>1, <2>2, <3>1
  <2>4. CASE b = c
    <3>1. ~(New(p, b) /\ New(q, b))
      <4> SUFFICES ASSUME New(p, b), New(q, b) PROVE FALSE
        OBVIOUS
      <4>1. PICK i \in s + 1 .. h : p = np + h - i /\ b = path[i]
        OBVIOUS
      <4>2. PICK j \in s + 1 .. h : q = np + h - j /\ b = path[j]
        OBVIOUS
      <4>3. i = depth[b] /\ j = depth[b]
        BY <1>1, <1>4, <4>1, <4>2
      <4>4. QED
        BY <1>7, <4>1, <4>2, <4>3
    <3> HIDE DEF New
    <3>2. (p = b /\ New(q, b)) \/ (q = b /\ New(p, b))
      BY <1>7, <2>1, <2>2, <2>4, <3>1
    <3>3. QED
      BY <1>6, <3>2
  <2>5. QED
    BY <2>3, <2>4
<1>8. QED
  BY <1>7 DEF narrowed, deeper

\* The leaves still come in the order of their keys.
LEMMA NarrowedLeaves ==
  ASSUME NEW nd, NEW np, NEW h, NEW depth, NEW k, NEW s, NEW path, NEW g,
         NEW n, NEW l, NEW span,
         Forest(nd, np, h, depth), Insertion(nd, np, h, depth, k, s, path, g),
         \A p \in Alive(np) : span[p] \in SUBSET Int,
         \A i \in s + 1 .. h : Separator(g[i]) \in Int,
         Spanned(nd, np, depth, n, l, span), LeafChain(nd, np, h, depth, n, l)
  PROVE  LET narrowed == Narrowed(np, h, depth, s, path, g, span) IN
           IF s = h
           THEN \A i, j \in 1 .. n : i < j =>
                  \A x \in narrowed[l[i]] : \A y \in narrowed[l[j]] : x < y
           ELSE \A a \in 1 .. n : l[a] = path[h] =>
                  \A i, j \in 1 .. n + 1 : i < j =>
                    \A x \in narrowed[WithLeaf(l, n, a, np)[i]] :
                      \A y \in narrowed[WithLeaf(l, n, a, np)[j]] : x < y
<1> DEFINE narrowed == Narrowed(np, h, depth, s, path, g, span)
<1>1. /\ h \in Nat \ {0} /\ s \in 0 .. h /\ s \in Int /\ np \in Int
      /\ n \in Nat \ {0} /\ n \in Nat
      /\ \A i \in 1 .. n : l[i] \in Alive(np) /\ depth[l[i]] = h
  BY DEF Forest, Insertion, LeafChain, LeafPages, FirstLeaf
<1>2. /\ \A i \in s + 1 .. h :
           /\ narrowed[path[i]] = Below(span[path[i]], Separator(g[i]))
           /\ narrowed[np + h - i] = From(span[path[i]], Separator(g[i]))
      /\ \A p \in Alive(np) : narrowed[p] # span[p] => depth[p] > s /\ path[depth[p]] = p
  BY NarrowedIs
<1>3. \A i, j \in 1 .. n : i < j => \A x \in span[l[i]] : \A y \in span[l[j]] : x < y
  BY DEF Spanned
<1> HIDE DEF narrowed
<1>4. \A i \in 1 .. n : narrowed[l[i]] \subseteq span[l[i]]
  <2> SUFFICES ASSUME NEW i \in 1 .. n, narrowed[l[i]] # span[l[i]]
               PROVE  narrowed[l[i]] \subseteq span[l[i]]
    OBVIOUS
  <2>1. h > s /\ path[h] = l[i]
    BY <1>1, <1>2
  <2>2. h \in s + 1 .. h
    BY <1>1, <2>1
  <2>3. narrowed[l[i]] = Below(span[l[i]], Separator(g[h]))
    BY <1>2, <2>1, <2>2
  <2>4. QED
    BY <2>3 DEF Below
<1>5. CASE s = h
  <2>1. \A i, j \in 1 .. n : i < j =>
          \A x \in narrowed[l[i]] : \A y \in narrowed[l[j]] : x < y
    BY <1>3, <1>4
  <2>2. QED
    BY <1>5, <2>1 DEF narrowed
<1>6. ASSUME s # h, NEW a \in 1 .. n, l[a] = path[h]
      PROVE  \A i, j \in 1 .. n + 1 : i < j =>
               \A x \in narrowed[WithLeaf(l, n, a, np)[i]] :
                 \A y \in narrowed[WithLeaf(l, n, a, np)[j]] : x < y
  <2> DEFINE l2 == WithLeaf(l, n, a, np)
             from(i) == IF i <= a THEN i ELSE i - 1
             sep == Separator(g[h])
  <2>1. h \in s + 1 .. h /\ np + h - h = np
    BY <1>1, <1>6
  <2>2. /\ narrowed[l[a]] = Below(span[l[a]], sep) /\ narrowed[np] = From(span[l[a]], sep)
        /\ sep \in Int /\ span[l[a]] \in SUBSET Int
    <3>1. /\ narrowed[path[h]] = Below(span[path[h]], sep)
          /\ narrowed[np + h - h] = From(span[path[h]], sep)
      BY <1>2, <2>1
    <3>2. span[l[a]] \in SUBSET Int
      BY <1>1
    <3>3. QED
      BY <1>6, <2>1, <3>1, <3>2
  <2>3. ASSUME NEW i \in 1 .. n + 1
        PROVE  from(i) \in 1 .. n /\ narrowed[l2[i]] \subseteq span[l[from(i)]]
    <3>1. CASE i <= a
      <4>1. l2[i] = l[i] /\ i \in 1 .. n
        BY <1>1, <3>1 DEF WithLeaf
      <4>2. QED
        BY <1>4, <3>1, <4>1
    <3>2. CASE i = a + 1
      <4>1. l2[i] = np /\ from(i) = a
        BY <1>1, <3>2 DEF WithLeaf
      <4>2. QED
        BY <2>2, <4>1 DEF From
    <3>3. CASE i > a + 1
      <4>1. l2[i] = l[i - 1] /\ i - 1 \in 1 .. n /\ from(i) = i - 1
        BY <1>1, <3>3 DEF WithLeaf
      <4>2. QED
        BY <1>4, <4>1
    <3>4. QED
      BY <1>1, <3>1, <3>2, <3>3
  <2>4. l2[a] = l[a] /\ l2[a + 1] = np
    BY <1>1 DEF WithLeaf
  <2> HIDE DEF l2
  <2>5. ASSUME NEW i \in 1 .. n + 1, NEW j \in 1 .. n + 1, i < j,
               NEW x \in narrowed[l2[i]], NEW y \in narrowed[l2[j]]
        PROVE  x < y
    <3>1. x \in span[l[from(i)]] /\ y \in span[l[from(j)]]
      BY <2>3
    <3>2. CASE from(i) < from(j)
      <4>1. from(i) \in 1 .. n /\ from(j) \in 1 .. n
        BY <2>3
      <4> HIDE DEF from
      <4>2. QED
        BY <1>3, <3>1, <3>2, <4>1
    <3>3. CASE ~(from(i) < from(j))
      <4>1. i = a /\ j = a + 1
        BY <1>1, <2>5, <3>3
      <4>2. /\ x \in Below(span[l[a]], sep) /\ y \in From(span[l[a]], sep)
        BY <2>2, <2>4, <4>1
      <4>3. x \in Int /\ y \in Int /\ x < sep /\ y >= sep
        BY <2>2, <4>2 DEF Below, From
      <4> HIDE DEF sep
      <4>4. QED
        BY <2>2, <4>3
    <3>4. QED
      BY <3>2, <3>3
  <2>6. QED
    BY <2>5 DEF l2
<1>7. QED
  BY <1>5, <1>6 DEF narrowed

\* An insertion of a new key keeps the keys in order.
LEMMA SpannedAfter ==
  ASSUME NEW nd2, NEW nd, NEW np, NEW h, NEW depth, NEW k, NEW s, NEW path, NEW g,
         NEW n, NEW l, NEW span,
         Forest(nd, np, h, depth), Insertion(nd, np, h, depth, k, s, path, g),
         After(nd2, nd, np, h, s, path, g),
         LeafChain(nd, np, h, depth, n, l),
         Spanned(nd, np, depth, n, l, span), span[path[1]] = Int,
         k \notin KeysHeld(nd, np, h, depth)
  PROVE  LET narrowed == Narrowed(np, h, depth, s, path, g, span)
             deeper == Deeper(np, h, depth)
             np2 == np + h - s IN
           /\ s = h => Spanned(nd2, np2, deeper, n, l, narrowed)
           /\ s # h => \A a \in 1 .. n : l[a] = path[h] =>
                        Spanned(nd2, np2, deeper, n + 1, WithLeaf(l, n, a, np), narrowed)
           /\ s # 0 => narrowed[path[1]] = Int
           /\ s = 0 => /\ Separator(g[1]) \in Keys
                       /\ narrowed[path[1]] = Below(Int, Separator(g[1]))
                       /\ narrowed[np + h - 1] = From(Int, Separator(g[1]))
<1> DEFINE narrowed == Narrowed(np, h, depth, s, path, g, span)
           deeper == Deeper(np, h, depth)
           np2 == np + h - s
<1>1. /\ h \in Nat \ {0} /\ s \in 0 .. h /\ s \in Int
      /\ \A i \in 1 .. h : path[i] \in Alive(np) /\ depth[path[i]] = i
  BY DEF Forest, Insertion
<1>2. \A p \in Alive(np2) : narrowed[p] \in SUBSET Int /\ Ordered(nd2[p], narrowed[p], narrowed)
  BY NarrowedOrdered
<1>3. \A p \in Alive(np) : span[p] \in SUBSET Int
  BY DEF Spanned
<1>4. \A i \in s + 1 .. h : Separator(g[i]) \in Keys /\ Separator(g[i]) \in Int
  <2> SUFFICES ASSUME NEW i \in s + 1 .. h
               PROVE  Separator(g[i]) \in Keys /\ Separator(g[i]) \in Int
    OBVIOUS
  <2>1. i \in 1 .. h /\ i >= s /\ i > s
    BY <1>1
  <2>2. Overfull(g[i])
    BY <2>1, GrownIs
  <2>3. Ordered(g[i], span[path[i]], narrowed)
    BY <2>1, GrownOrdered
  <2>4. span[path[i]] \in SUBSET Int
    BY <1>1, <1>3, <2>1
  <2>5. Separator(g[i]) \in Keys
    <3> HIDE DEF narrowed
    <3>1. QED
      BY <2>2, <2>3, <2>4, SeparatorIs
  <2>6. QED
    BY <2>5, BTreeAssumption
<1>5. \A p, q \in Alive(np2) :
        p # q /\ deeper[p] = deeper[q] => narrowed[p] \cap narrowed[q] = {}
  BY <1>3, <1>4, NarrowedApart
<1>6. IF s = h
      THEN \A i, j \in 1 .. n : i < j =>
             \A x \in narrowed[l[i]] : \A y \in narrowed[l[j]] : x < y
      ELSE \A a \in 1 .. n : l[a] = path[h] =>
             \A i, j \in 1 .. n + 1 : i < j =>
               \A x \in narrowed[WithLeaf(l, n, a, np)[i]] :
                 \A y \in narrowed[WithLeaf(l, n, a, np)[j]] : x < y
  BY <1>3, <1>4, NarrowedLeaves
<1>7. /\ \A i \in s + 1 .. h :
           /\ narrowed[path[i]] = Below(span[path[i]], Separator(g[i]))
           /\ narrowed[np + h - i] = From(span[path[i]], Separator(g[i]))
      /\ \A p \in Alive(np) : narrowed[p] # span[p] => depth[p] > s /\ path[depth[p]] = p
  BY NarrowedIs
<1> HIDE DEF narrowed, deeper, np2
<1>8. /\ s = h => Spanned(nd2, np2, deeper, n, l, narrowed)
      /\ s # h => \A a \in 1 .. n : l[a] = path[h] =>
                   Spanned(nd2, np2, deeper, n + 1, WithLeaf(l, n, a, np), narrowed)
  <2>1. CASE s = h
    BY <1>2, <1>5, <1>6, <2>1 DEF Spanned
  <2>2. CASE s # h
    BY <1>2, <1>5, <1>6, <2>2 DEF Spanned
  <2>3. QED
    BY <2>1, <2>2
<1>9. ASSUME s # 0 PROVE narrowed[path[1]] = Int
  <2>1. 1 \in 1 .. h /\ ~(1 > s)
    BY <1>1, <1>9
  <2>2. path[1] \in Alive(np) /\ depth[path[1]] = 1
    BY <1>1, <2>1
  <2>3. QED
    BY <1>7, <2>1, <2>2
<1>10. ASSUME s = 0
       PROVE  /\ Separator(g[1]) \in Keys
              /\ narrowed[path[1]] = Below(Int, Separator(g[1]))
              /\ narrowed[np + h - 1] = From(Int, Separator(g[1]))
  <2>1. 1 \in s + 1 .. h
    BY <1>1, <1>10
  <2>2. QED
    BY <1>4, <1>7, <2>1
<1>11. QED
  BY <1>8, <1>9, <1>10 DEF narrowed, deeper, np2

\* Under a new root belong all keys.
LEMMA SpannedAbove ==
  ASSUME NEW np, NEW h, NEW depth, NEW nd, Forest(nd, np, h, depth), np \in PageIds,
         NEW n, NEW l, LeafChain(nd, np, h, depth, n, l),
         NEW span, Spanned(nd, np, depth, n, l, span),
         NEW a \in Alive(np), NEW b \in Alive(np), NEW sep \in Keys,
         span[a] = Below(Int, sep), span[b] = From(Int, sep),
         NEW n0 \in NodeType, n0.keys = <<sep>>, n0.kids = <<a, b>>
  PROVE  LET all == [p \in PageIds |-> IF p = np THEN Int ELSE span[p]] IN
           /\ Spanned([nd EXCEPT ![np] = n0], np + 1, Raised(depth, np), n, l, all)
           /\ all[np] = Int
<1> DEFINE nd2 == [nd EXCEPT ![np] = n0]
           raised == Raised(depth, np)
           all == [p \in PageIds |-> IF p = np THEN Int ELSE span[p]]
<1>1. /\ Alive(np + 1) = Alive(np) \cup {np} /\ np \notin Alive(np)
      /\ Alive(np) \subseteq PageIds
      /\ nd2[np] = n0
      /\ \A p \in PageIds \ {np} : nd2[p] = nd[p]
      /\ raised[np] = 1
      /\ \A p \in Alive(np) : raised[p] = depth[p] + 1
  BY RaisedIs
<1>2. all[np] = Int /\ \A p \in Alive(np) : all[p] = span[p]
  BY <1>1
<1>3. /\ \A p \in Alive(np) : span[p] \in SUBSET Int /\ Ordered(nd[p], span[p], span)
      /\ \A p, q \in Alive(np) : p # q /\ depth[p] = depth[q] => span[p] \cap span[q] = {}
      /\ \A i, j \in 1 .. n : i < j => \A x \in span[l[i]] : \A y \in span[l[j]] : x < y
  BY DEF Spanned
<1>4. h \in Nat \ {0} /\ \A p \in Alive(np) :
        depth[p] \in 1 .. h /\ AtDepth(nd[p], np, h, depth, depth[p])
  BY DEF Forest
<1>5. \A i \in 1 .. n : l[i] \in Alive(np)
  BY DEF LeafChain, LeafPages
<1> HIDE DEF nd2, raised, all
<1>6. ASSUME NEW p \in Alive(np)
      PROVE  all[p] \in SUBSET Int /\ Ordered(nd2[p], all[p], all)
  <2>1. nd2[p] = nd[p] /\ all[p] = span[p]
    BY <1>1, <1>2
  <2>2. \A j \in 1 .. Len(nd[p].kids) : all[nd[p].kids[j]] = span[nd[p].kids[j]]
    <3>1. AtDepth(nd[p], np, h, depth, depth[p])
      BY <1>4
    <3>2. QED
      BY <1>2, <3>1 DEF AtDepth
  <2>3. span[p] \in SUBSET Int /\ Ordered(nd[p], span[p], span)
    BY <1>3
  <2>4. Ordered(nd[p], span[p], all)
    BY <2>2, <2>3 DEF Ordered
  <2>5. QED
    BY <2>1, <2>3, <2>4
<1>7. Ordered(n0, Int, all)
  <2>1. Len(n0.keys) = 1 /\ n0.keys[1] = sep /\ sep \in Int
    BY BTreeAssumption
  <2>2. Len(n0.kids) = 2 /\ n0.kids[1] = a /\ n0.kids[2] = b
    OBVIOUS
  <2>3. Sorted(n0.keys) /\ \A j \in 1 .. Len(n0.keys) : n0.keys[j] \in Int
    <3>1. \A j \in 1 .. 1 : j = 1
      OBVIOUS
    <3>2. \A i, j \in 1 .. Len(n0.keys) : ~(i < j)
      BY <2>1
    <3>3. QED
      BY <2>1, <3>1, <3>2 DEF Sorted
  <2>4. all[n0.kids[1]] = {x \in Int : In(n0.keys, 1, x)}
    BY <1>2, <2>1, <2>2 DEF In, Below
  <2>5. all[n0.kids[2]] = {x \in Int : In(n0.keys, 2, x)}
    <3>1. \A x \in Int : In(n0.keys, 2, x) <=> x >= sep
      <4>1. 2 > 1 /\ 2 - 1 = 1 /\ ~(2 <= 1)
        OBVIOUS
      <4>2. QED
        BY <2>1, <4>1 DEF In
    <3>2. all[n0.kids[2]] = {x \in Int : x >= sep}
      BY <1>2, <2>2 DEF From
    <3>3. QED
      BY <3>1, <3>2
  <2>6. \A j \in 1 .. 2 : j = 1 \/ j = 2
    OBVIOUS
  <2>7. \A j \in 1 .. Len(n0.kids) : all[n0.kids[j]] = {x \in Int : In(n0.keys, j, x)}
    BY <2>2, <2>4, <2>5, <2>6
  <2>8. QED
    BY <2>3, <2>7 DEF Ordered
<1>8. \A p \in Alive(np + 1) : all[p] \in SUBSET Int /\ Ordered(nd2[p], all[p], all)
  BY <1>1, <1>2, <1>6, <1>7
<1>9. ASSUME NEW p \in Alive(np + 1), NEW q \in Alive(np + 1), p # q, raised[p] = raised[q]
      PROVE  all[p] \cap all[q] = {}
  <2>1. \A r \in Alive(np) : raised[r] # 1
    BY <1>1, <1>4
  <2>2. p \in Alive(np) /\ q \in Alive(np)
    BY <1>1, <1>9, <2>1
  <2>3. depth[p] = depth[q]
    BY <1>1, <1>4, <1>9, <2>2
  <2>4. QED
    BY <1>2, <1>3, <1>9, <2>2, <2>3
<1>10. \A i, j \in 1 .. n : i < j => \A x \in all[l[i]] : \A y \in all[l[j]] : x < y
  BY <1>2, <1>3, <1>5
<1>11. Spanned(nd2, np + 1, raised, n, l, all)
  BY <1>8, <1>9, <1>10 DEF Spanned
<1>12. QED
  BY <1>2, <1>11 DEF nd2, raised, all

-----------------------------------------------------------------------------
(***************************************************************************)
(* The inductive invariant.  The tree, whose leaves are l[1] to l[n] from  *)
(* left to right, has its shape always, and its order while every root     *)
(* that was split has a parent.                                            *)
(***************************************************************************)
Shape(nd, rt, h, np, over, depth, n, l) ==
  /\ Forest(nd, np, h, depth)
  /\ rt \in Alive(np) /\ depth[rt] = 1
  /\ Filled(nd, np, rt, over)
  /\ LeafChain(nd, np, h, depth, n, l)
  /\ h + FirstLeaf <= np

Order(nd, rt, np, depth, n, l, span) ==
  Spanned(nd, np, depth, n, l, span) /\ span[rt] = Int

IInv ==
  /\ damage \subseteq Damages
  /\ \E depth, n, l :
       /\ Shape(node, root, height, numPages, "overfull" \in damage, depth, n, l)
       /\ "unrooted" \notin damage =>
            \E span : Order(node, root, numPages, depth, n, l, span)

\* The leaves hold the keys X.
Holding(X) ==
  \E depth, n, l :
    /\ Shape(node, root, height, numPages, "overfull" \in damage, depth, n, l)
    /\ X = KeysHeld(node, numPages, height, depth)

\* The pages the chain of right siblings goes through are the leaves in
\* their order, and the index holds what they do.
LEMMA ContentsIs ==
  \A depth, n, l :
    Shape(node, root, height, numPages, "overfull" \in damage, depth, n, l) =>
      /\ n \in 1 .. MaxPages
      /\ \A i \in 1 .. MaxPages : Chain[i] = IF i <= n THEN l[i] ELSE NoPage
      /\ Contents = KeysHeld(node, numPages, height, depth)
<1> SUFFICES ASSUME NEW depth, NEW n, NEW l,
                    Shape(node, root, height, numPages, "overfull" \in damage, depth, n, l)
             PROVE  /\ n \in 1 .. MaxPages
                    /\ \A i \in 1 .. MaxPages : Chain[i] = IF i <= n THEN l[i] ELSE NoPage
                    /\ Contents = KeysHeld(node, numPages, height, depth)
  OBVIOUS
<1> DEFINE F == LeafPages(numPages, height, depth)
           Is(c) == c = [i \in 1 .. MaxPages |->
                           IF i = 1 THEN FirstLeaf
                           ELSE IF c[i - 1] = NoPage THEN NoPage
                           ELSE node[c[i - 1]].next]
           chain == [i \in 1 .. MaxPages |-> IF i <= n THEN l[i] ELSE NoPage]
<1>1. /\ numPages \in FirstLeaf + 1 .. MaxPages + 1 /\ MaxPages \in Nat /\ MaxPages >= 2
      /\ n \in Nat \ {0} /\ n + FirstLeaf <= numPages
      /\ \A i \in 1 .. n : l[i] \in F
      /\ \A p \in F : \E i \in 1 .. n : l[i] = p
      /\ l[1] = FirstLeaf
      /\ \A i \in 1 .. n : node[l[i]].next = IF i < n THEN l[i + 1] ELSE NoPage
  BY BTreeAssumption DEF Shape, Forest, LeafChain
<1>2. n \in 1 .. MaxPages
  BY <1>1 DEF FirstLeaf
<1>3. NoPage \notin F
  BY DEF LeafPages, Alive, NoPage, FirstLeaf
<1> HIDE DEF F
<1>4. ASSUME NEW i \in 1 .. MaxPages
      PROVE  chain[i] = IF i = 1 THEN FirstLeaf
                        ELSE IF chain[i - 1] = NoPage THEN NoPage
                        ELSE node[chain[i - 1]].next
  <2>1. CASE i = 1
    BY <1>1, <1>2, <2>1
  <2>2. CASE i # 1 /\ i <= n
    <3>1. i - 1 \in 1 .. n /\ i - 1 \in 1 .. MaxPages /\ i - 1 < n /\ (i - 1) + 1 = i
      BY <1>1, <1>2, <2>2
    <3>2. chain[i] = l[i] /\ chain[i - 1] = l[i - 1]
      BY <2>2, <3>1
    <3>3. l[i - 1] # NoPage /\ node[l[i - 1]].next = l[i]
      BY <1>1, <1>3, <3>1
    <3>4. QED
      BY <2>2, <3>2, <3>3
  <2>3. CASE i = n + 1
    <3>1. i - 1 = n /\ n \in 1 .. n /\ i # 1 /\ ~(i <= n) /\ n \in 1 .. MaxPages
      BY <1>1, <1>2, <2>3
    <3>2. chain[i] = NoPage /\ chain[i - 1] = l[n]
      BY <3>1
    <3>3. l[n] # NoPage /\ node[l[n]].next = NoPage
      BY <1>1, <1>3, <3>1
    <3>4. QED
      BY <3>1, <3>2, <3>3
  <2>4. CASE i > n + 1
    <3>1. i # 1 /\ i - 1 \in 1 .. MaxPages /\ ~(i <= n) /\ ~(i - 1 <= n)
      BY <1>1, <1>2, <2>4
    <3>2. chain[i] = NoPage /\ chain[i - 1] = NoPage
      BY <3>1
    <3>3. QED
      BY <3>1, <3>2
  <2>5. QED
    BY <1>1, <1>2, <2>1, <2>2, <2>3, <2>4
<1>5. Is(chain)
  BY <1>4
<1>6. Is(Chain)
  <2>1. Chain = CHOOSE c : Is(c)
    BY DEF Chain
  <2> HIDE DEF Is
  <2>2. QED
    BY <1>5, <2>1
<1> HIDE DEF chain
<1>7. \A i \in 1 .. MaxPages :
        Chain[i] = IF i = 1 THEN FirstLeaf
                   ELSE IF Chain[i - 1] = NoPage THEN NoPage
                   ELSE node[Chain[i - 1]].next
  BY <1>6 DEF Is
<1>8. \A i \in Nat : i + 1 <= MaxPages => Chain[i + 1] = chain[i + 1]
  <2> DEFINE S == {i \in Nat : i + 1 <= MaxPages => Chain[i + 1] = chain[i + 1]}
  <2>1. 0 \in S
    <3>1. 1 \in 1 .. MaxPages
      BY <1>1
    <3>2. QED
      BY <1>4, <1>7, <3>1
  <2>2. ASSUME NEW i \in Nat, i \in S PROVE i + 1 \in S
    <3> SUFFICES ASSUME (i + 1) + 1 <= MaxPages
                 PROVE  Chain[(i + 1) + 1] = chain[(i + 1) + 1]
      OBVIOUS
    <3>1. (i + 1) + 1 \in 1 .. MaxPages /\ (i + 1) + 1 # 1 /\ ((i + 1) + 1) - 1 = i + 1
          /\ i + 1 <= MaxPages
      BY <1>1
    <3>2. Chain[i + 1] = chain[i + 1]
      BY <2>2, <3>1
    <3>3. QED
      BY <1>4, <1>7, <3>1, <3>2
  <2> HIDE DEF S
  <2>3. \A i \in Nat : i \in S
    BY <2>1, <2>2, SetInduction
  <2>4. QED
    BY <2>3 DEF S
<1>9. ASSUME NEW i \in 1 .. MaxPages PROVE Chain[i] = IF i <= n THEN l[i] ELSE NoPage
  <2>1. i - 1 \in Nat /\ (i - 1) + 1 = i /\ i <= MaxPages
    BY <1>1
  <2>2. Chain[i] = chain[i]
    BY <1>8, <2>1
  <2>3. QED
    BY <2>2 DEF chain
<1>10. Leaves = F
  <2>1. ASSUME NEW p \in Leaves PROVE p \in F
    <3>1. PICK i \in 1 .. MaxPages : p = Chain[i] /\ p # NoPage
      BY DEF Leaves
    <3>2. i <= n /\ p = l[i]
      BY <1>9, <3>1
    <3>3. i \in 1 .. n
      BY <1>1, <3>2
    <3>4. QED
      BY <1>1, <3>2, <3>3
  <2>2. ASSUME NEW p \in F PROVE p \in Leaves
    <3>1. PICK i \in 1 .. n : l[i] = p
      BY <1>1
    <3>2. i \in 1 .. MaxPages /\ i <= n
      BY <1>1, <1>2
    <3>3. Chain[i] = p /\ p # NoPage
      BY <1>3, <1>9, <3>1, <3>2
    <3>4. QED
      BY <3>2, <3>3 DEF Leaves
  <2>3. QED
    BY <2>1, <2>2
<1>11. Contents = KeysHeld(node, numPages, height, depth)
  BY <1>10 DEF Contents, KeysHeld, F
<1>12. QED
  BY <1>2, <1>9, <1>11

\* What the leaves hold is what the index holds.
LEMMA HoldingIs == \A X : Holding(X) => X = Contents
BY ContentsIs DEF Holding

\* The tree starts with one empty leaf for its root.
LEMMA InitInv == Init => IInv
<1> SUFFICES ASSUME Init PROVE IInv
  OBVIOUS
<1> DEFINE depth == [p \in PageIds |-> 1]
           l == [i \in 1 .. 1 |-> FirstLeaf]
           span == [p \in PageIds |-> Int]
<1>1. /\ Alive(numPages) = {FirstLeaf} /\ FirstLeaf \in PageIds
      /\ numPages = FirstLeaf + 1 /\ numPages \in FirstLeaf + 1 .. MaxPages + 1
      /\ height = 1 /\ root = FirstLeaf /\ damage = {}
      /\ MaxPages \in Nat /\ MaxPages >= 2
  BY BTreeAssumption DEF Init, Alive, PageIds, FirstLeaf
<1>2. /\ node = [p \in PageIds |-> EmptyLeaf] /\ EmptyLeaf \in NodeType
      /\ EmptyLeaf.kids = <<>> /\ EmptyLeaf.keys = <<>> /\ EmptyLeaf.next = NoPage
      /\ Len(EmptyLeaf.kids) = 0 /\ Len(EmptyLeaf.keys) = 0
  BY DEF Init, EmptyLeaf, NodeType
<1> HIDE DEF l
<1>3. Forest(node, numPages, height, depth)
  <2>1. node \in [PageIds -> NodeType]
    BY <1>2
  <2>2. AtDepth(EmptyLeaf, numPages, height, depth, 1)
    BY <1>1, <1>2 DEF AtDepth
  <2>3. QED
    BY <1>1, <1>2, <2>1, <2>2 DEF Forest
<1>4. Filled(node, numPages, root, "overfull" \in damage)
  <2>1. \A p \in PageIds : Len(node[p].keys) = 0 /\ Occupancy(node[p]) \in Nat
    BY <1>2, BTreeAssumption DEF Occupancy
  <2>2. QED
    BY <1>1, <2>1 DEF Filled
<1>5. LeafChain(node, numPages, height, depth, 1, l)
  <2>1. LeafPages(numPages, height, depth) = {FirstLeaf}
    BY <1>1 DEF LeafPages
  <2>2. l[1] = FirstLeaf /\ node[FirstLeaf].next = NoPage /\ 1 .. 1 = {1}
    BY <1>1, <1>2 DEF l
  <2>3. 1 \in Nat \ {0} /\ 1 + FirstLeaf <= numPages /\ ~(1 < 1)
    BY <1>1 DEF FirstLeaf
  <2>4. \A i \in 1 .. 1 : node[l[i]].next = IF i < 1 THEN l[i + 1] ELSE NoPage
    BY <2>2, <2>3
  <2>5. QED
    BY <2>1, <2>2, <2>3, <2>4 DEF LeafChain
<1>6. Shape(node, root, height, numPages, "overfull" \in damage, depth, 1, l)
  <2>1. root \in Alive(numPages) /\ depth[root] = 1 /\ height + FirstLeaf <= numPages
    BY <1>1 DEF FirstLeaf
  <2>2. QED
    BY <1>3, <1>4, <1>5, <2>1 DEF Shape
<1>7. Order(node, root, numPages, depth, 1, l, span)
  <2>1. Ordered(EmptyLeaf, Int, span)
    BY <1>2 DEF Ordered, Sorted
  <2>2. \A i, j \in 1 .. 1 : ~(i < j)
    OBVIOUS
  <2>3. Spanned(node, numPages, depth, 1, l, span)
    BY <1>1, <1>2, <2>1, <2>2 DEF Spanned
  <2>4. QED
    BY <1>1, <2>3 DEF Order
<1>8. QED
  BY <1>1, <1>6, <1>7 DEF IInv

\* An insertion that does not add a root keeps the invariant, whether it
\* throws on its way or not.
LEMMA StepInv ==
  ASSUME IInv, NEW k \in Keys, k \notin Contents, "overfull" \notin damage,
         \/ InsertInside(k)
         \/ InsertUnrooted(k)
         \/ \E i \in 1 .. height : InsertOverfull(k, i)
  PROVE  IInv' /\ \E X : X = Contents \cup {k} /\ Holding(X)'
<1>1. PICK depth, n, l :
        /\ Shape(node, root, height, numPages, "overfull" \in damage, depth, n, l)
        /\ "unrooted" \notin damage =>
             \E span : Order(node, root, numPages, depth, n, l, span)
  BY DEF IInv
<1>2. /\ Forest(node, numPages, height, depth) /\ root \in Alive(numPages) /\ depth[root] = 1
      /\ LeafChain(node, numPages, height, depth, n, l) /\ height + FirstLeaf <= numPages
      /\ Rooted(depth)
  BY <1>1 DEF Shape, Rooted
<1>3. k \notin KeysHeld(node, numPages, height, depth)
  BY <1>1, ContentsIs
<1>4. damage \subseteq Damages
  BY DEF IInv
<1>5. PICK s, path, g :
        /\ Insertion(node, numPages, height, depth, k, s, path, g)
        /\ After(node', node, numPages, height, s, path, g)
        /\ path[1] = root
        /\ "overfull" \in damage' \/ s = 0 \/ ~Full(node[path[s]])
        /\ root' = root /\ height' = height /\ numPages' = numPages + height - s
        /\ damage \subseteq damage' /\ damage' \subseteq Damages
        /\ s = 0 => "unrooted" \in damage'
  BY <1>2, <1>4, StepIs
<1>6. PICK nd2 : nd2 = node'
  OBVIOUS
<1>7. PICK over \in BOOLEAN : over <=> "overfull" \in damage'
  OBVIOUS
<1>8. PICK np2 : np2 = numPages + height - s
  OBVIOUS
<1> DEFINE deeper == Deeper(numPages, height, depth)
<1>9. After(nd2, node, numPages, height, s, path, g) /\ (over \/ s = 0 \/ ~Full(node[path[s]]))
  BY <1>5, <1>6, <1>7
<1>10. /\ height \in Nat \ {0} /\ height \in Nat /\ s \in 0 .. height /\ s \in Int
       /\ numPages \in Int /\ numPages >= FirstLeaf + 1 /\ numPages <= MaxPages + 1
       /\ np2 \in Int /\ numPages <= np2 /\ MaxPages \in Nat
  BY <1>2, <1>5, <1>8, BTreeAssumption DEF Forest, Insertion, FirstLeaf
<1>11. Forest(nd2, np2, height, deeper)
  BY <1>2, <1>5, <1>8, <1>9, ForestAfter
<1>12. Filled(nd2, np2, root, over)
  <2>1. Filled(node, numPages, root, FALSE)
    BY <1>1 DEF Shape, Filled
  <2>2. Filled(node, numPages, path[1], FALSE)
    BY <1>5, <2>1
  <2>3. Filled(nd2, numPages + height - s, path[1], over)
    BY <1>2, <1>5, <1>9, <2>2, FilledAfter
  <2>4. QED
    BY <1>5, <1>8, <2>3
<1>13. root \in Alive(np2) /\ deeper[root] = 1
  BY <1>2, <1>10, BTreeAssumption DEF Alive, Deeper, PageIds, FirstLeaf
<1>14. height + FirstLeaf <= np2
  BY <1>2, <1>10 DEF FirstLeaf
<1>22. /\ Insertion(node, numPages, height, depth, k, s, path, g)
       /\ After(nd2, node, numPages, height, s, path, g)
  BY <1>5, <1>9
<1>23. ASSUME NEW span, Order(node, root, numPages, depth, n, l, span)
       PROVE  LET narrowed == Narrowed(numPages, height, depth, s, path, g, span) IN
                /\ s = height => Spanned(nd2, numPages + height - s, deeper, n, l, narrowed)
                /\ s # height => \A b \in 1 .. n : l[b] = path[height] =>
                     Spanned(nd2, numPages + height - s, deeper, n + 1,
                             WithLeaf(l, n, b, numPages), narrowed)
                /\ s # 0 => narrowed[path[1]] = Int
  <2>1. Spanned(node, numPages, depth, n, l, span) /\ span[path[1]] = Int
    BY <1>5, <1>23 DEF Order
  <2>2. Forest(node, numPages, height, depth) /\ LeafChain(node, numPages, height, depth, n, l)
    BY <1>2
  <2> DEFINE narrowed == Narrowed(numPages, height, depth, s, path, g, span)
  <2>3. s = height => Spanned(nd2, numPages + height - s, deeper, n, l, narrowed)
    BY <1>3, <1>22, <2>1, <2>2, SpannedAfter
  <2>4. s # 0 => narrowed[path[1]] = Int
    <3>1. \A p \in Alive(numPages) :
            narrowed[p] # span[p] => depth[p] > s /\ path[depth[p]] = p
      BY <1>22, <2>2, NarrowedIs
    <3> HIDE DEF narrowed
    <3>2. s # 0 => ~(depth[root] > s)
      BY <1>2, <1>10
    <3>3. QED
      BY <1>2, <1>5, <2>1, <3>1, <3>2
  <2>5. ASSUME NEW b \in 1 .. n, l[b] = path[height], s # height
        PROVE  Spanned(nd2, numPages + height - s, deeper, n + 1,
                       WithLeaf(l, n, b, numPages), narrowed)
    BY <1>3, <1>22, <2>1, <2>2, <2>5, SpannedAfter
  <2> HIDE DEF narrowed, deeper
  <2>6. QED
    BY <2>3, <2>4, <2>5 DEF narrowed
<1> DEFINE Chained(m, c) == LeafChain(nd2, np2, height, deeper, m, c)
           Spaced(m, c) == \E span : Order(nd2, root, np2, deeper, m, c, span)
           unrooted == "unrooted" \in damage'
<1>15. \E m, c : Chained(m, c) /\ (~unrooted => Spaced(m, c))
  <2>1. ~unrooted => /\ s # 0
                     /\ \E span : Order(node, root, numPages, depth, n, l, span)
    BY <1>1, <1>5, <1>10
  <2>2. CASE s = height
    <3>1. Chained(n, l)
      BY <1>2, <1>5, <1>8, <1>9, <2>2, ChainAfter
    <3>2. ASSUME ~unrooted PROVE Spaced(n, l)
      <4>1. PICK span : Order(node, root, numPages, depth, n, l, span)
        BY <2>1, <3>2
      <4> DEFINE narrowed == Narrowed(numPages, height, depth, s, path, g, span)
      <4>3. /\ Spanned(nd2, numPages + height - s, deeper, n, l, narrowed)
            /\ s # 0 => narrowed[path[1]] = Int
        BY <1>23, <2>2, <4>1
      <4> HIDE DEF deeper, narrowed
      <4>4. Order(nd2, root, np2, deeper, n, l, narrowed)
        BY <1>5, <1>8, <2>1, <3>2, <4>3 DEF Order
      <4>5. QED
        BY <4>4
    <3> HIDE DEF Chained, Spaced, unrooted
    <3>3. QED
      BY <3>1, <3>2
  <2>3. CASE s # height
    <3>1. path[height] \in LeafPages(numPages, height, depth)
      BY <1>2, <1>5, <1>9, LeavesAfter
    <3>2. PICK a \in 1 .. n : l[a] = path[height]
      BY <1>2, <3>1 DEF LeafChain
    <3> DEFINE c == WithLeaf(l, n, a, numPages)
    <3>3. Chained(n + 1, c)
      BY <1>2, <1>5, <1>8, <1>9, <2>3, <3>2, ChainAfter
    <3>4. ASSUME ~unrooted PROVE Spaced(n + 1, c)
      <4>1. PICK span : Order(node, root, numPages, depth, n, l, span)
        BY <2>1, <3>4
      <4> DEFINE narrowed == Narrowed(numPages, height, depth, s, path, g, span)
      <4>3. /\ Spanned(nd2, numPages + height - s, deeper, n + 1, c, narrowed)
            /\ s # 0 => narrowed[path[1]] = Int
        BY <1>23, <2>3, <3>2, <4>1
      <4> HIDE DEF deeper, narrowed, c
      <4>4. Order(nd2, root, np2, deeper, n + 1, c, narrowed)
        BY <1>5, <1>8, <2>1, <3>4, <4>3 DEF Order
      <4>5. QED
        BY <4>4
    <3> HIDE DEF Chained, Spaced, unrooted, c
    <3>5. QED
      BY <3>3, <3>4
  <2>4. QED
    BY <2>2, <2>3
<1>16. PICK m, c : Chained(m, c) /\ (~unrooted => Spaced(m, c))
  BY <1>15
<1> HIDE DEF deeper
<1>17. Shape(nd2, root, height, np2, over, deeper, m, c)
  BY <1>11, <1>12, <1>13, <1>14, <1>16 DEF Shape
<1>18. Shape(node', root', height', numPages', "overfull" \in damage', deeper, m, c)
  BY <1>5, <1>6, <1>7, <1>8, <1>17 DEF Shape, Filled
<1>19. "unrooted" \notin damage' =>
         \E span : Order(node', root', numPages', deeper, m, c, span)
  BY <1>5, <1>6, <1>8, <1>16
<1>20. damage' \subseteq Damages
  BY <1>5
<1>21. IInv'
  BY <1>18, <1>19, <1>20 DEF IInv
<1>24. KeysHeld(node', numPages', height', deeper) = Contents \cup {k}
  <2>1. KeysHeld(nd2, numPages + height - s, height, deeper)
          = KeysHeld(node, numPages, height, depth) \cup {k}
    BY <1>2, <1>22, HeldAfter DEF deeper
  <2>2. Contents = KeysHeld(node, numPages, height, depth)
    BY <1>1, ContentsIs
  <2>3. QED
    BY <1>5, <1>6, <2>1, <2>2
<1>25. PICK X : X = Contents \cup {k}
  OBVIOUS
<1>26. Holding(X)'
  BY <1>18, <1>24, <1>25 DEF Holding
<1>27. QED
  BY <1>21, <1>25, <1>26

\* An insertion that adds a root keeps the invariant.
LEMMA AboveInv ==
  ASSUME IInv, NEW k \in Keys, k \notin Contents, "overfull" \notin damage, InsertAbove(k)
  PROVE  IInv' /\ \E X : X = Contents \cup {k} /\ Holding(X)'
<1>1. PICK depth, n, l :
        /\ Shape(node, root, height, numPages, "overfull" \in damage, depth, n, l)
        /\ "unrooted" \notin damage =>
             \E span : Order(node, root, numPages, depth, n, l, span)
  BY DEF IInv
<1>2. /\ Forest(node, numPages, height, depth) /\ root \in Alive(numPages) /\ depth[root] = 1
      /\ LeafChain(node, numPages, height, depth, n, l) /\ height + FirstLeaf <= numPages
      /\ Rooted(depth)
  BY <1>1 DEF Shape, Rooted
<1>3. k \notin KeysHeld(node, numPages, height, depth)
  BY <1>1, ContentsIs
<1>4. PICK path, g, nd2 :
        /\ Insertion(node, numPages, height, depth, k, 0, path, g)
        /\ After(nd2, node, numPages, height, 0, path, g)
        /\ path[1] = root
        /\ numPages + height \in PageIds
        /\ node' = [nd2 EXCEPT ![numPages + height] = NewRoot(g[1], numPages + height - 1)]
        /\ root' = numPages + height /\ height' = height + 1
        /\ numPages' = numPages + height + 1 /\ damage' = damage
  BY <1>2, AboveIs
<1>5. PICK np2, b : np2 = numPages + height - 0 /\ b = numPages + height - 1
  OBVIOUS
<1> DEFINE deeper == Deeper(numPages, height, depth)
           raised == Raised(deeper, np2)
           n0 == NewRoot(g[1], b)
           sep == Separator(g[1])
<1>6. /\ height \in Nat \ {0} /\ height \in Nat /\ 1 \in 1 .. height
      /\ 0 \in Int /\ 0 \in 0 .. height
      /\ numPages \in Int /\ numPages >= FirstLeaf + 1 /\ numPages <= MaxPages + 1
      /\ np2 \in Int /\ numPages <= np2 /\ np2 = numPages + height /\ MaxPages \in Nat
      /\ np2 \in PageIds /\ np2 <= MaxPages
  BY <1>2, <1>4, <1>5, BTreeAssumption DEF Forest, PageIds, FirstLeaf
<1>7. /\ Insertion(node, numPages, height, depth, k, 0, path, g)
      /\ After(nd2, node, numPages, height, 0, path, g)
  BY <1>4
<1>8. Forest(nd2, np2, height, deeper)
  BY <1>2, <1>5, <1>7, ForestAfter
<1>9. /\ Filled(nd2, np2, root, FALSE)
      /\ \A p \in Alive(np2) : Len(nd2[p].keys) >= MinKeys(nd2[p])
  <2>1. Filled(node, numPages, root, FALSE)
    BY <1>1 DEF Shape, Filled
  <2>2. Filled(node, numPages, path[1], FALSE)
    BY <1>4, <2>1
  <2>3. 0 = 0 /\ FALSE \in BOOLEAN
    OBVIOUS
  <2>4. /\ Filled(nd2, numPages + height - 0, path[1], FALSE)
        /\ 0 = 0 => \A p \in Alive(numPages + height - 0) : Len(nd2[p].keys) >= MinKeys(nd2[p])
    BY <1>2, <1>7, <2>2, <2>3, FilledAfter
  <2>5. QED
    BY <1>4, <1>5, <2>4
<1>10. /\ root \in Alive(np2) /\ deeper[root] = 1
       /\ b \in Alive(np2) /\ deeper[b] = 1
  <2>1. /\ root \in Alive(np2) /\ deeper[root] = 1
    BY <1>2, <1>6, BTreeAssumption DEF Alive, Deeper, PageIds, FirstLeaf
  <2>2. /\ b \in Int /\ b >= numPages /\ b < np2 /\ numPages + height - b = 1
        /\ b \in PageIds
    BY <1>5, <1>6 DEF PageIds, FirstLeaf
  <2>3. b \in Alive(np2) /\ deeper[b] = 1
    BY <1>6, <2>2 DEF Alive, Deeper, FirstLeaf
  <2>4. QED
    BY <2>1, <2>3
<1>11. sep \in Keys
  <2>1. Overfull(g[1]) /\ g[1] \in NodeType
    <3>1. 1 >= 0 /\ 1 > 0
      OBVIOUS
    <3>2. QED
      BY <1>2, <1>6, <1>7, <3>1, GrownIs
  <2>2. LeftSize(g[1]) + 1 \in 1 .. Len(g[1].keys) /\ g[1].keys \in Seq(Keys)
    BY <2>1, LeftSizeIs DEF Overfull, NodeType
  <2>3. QED
    BY <2>2, ElementOfSeq DEF Separator
<1>12. /\ RootOver(n0, root, b, height) /\ n0 \in NodeType
       /\ n0.keys = <<sep>> /\ n0.kids = <<root, b>>
  <2>1. root \in PageIds /\ b \in PageIds
    BY <1>6, <1>10 DEF Alive, PageIds
  <2>2. <<sep>> \in Seq(Keys) /\ <<root, b>> \in Seq(PageIds) /\ Len(<<sep>>) = 1
    <3> HIDE DEF sep
    <3>1. QED
      BY <1>11, <2>1
  <2> HIDE DEF sep
  <2>3. n0.keys = <<sep>> /\ n0.kids = <<root, b>> /\ n0.level = IF height = 1 THEN 1 ELSE 0
    BY DEF NewRoot, sep
  <2>4. n0 \in NodeType
    BY <2>2 DEF NewRoot, NodeType, sep
  <2> HIDE DEF n0
  <2>5. QED
    BY <2>2, <2>3, <2>4 DEF RootOver
<1> DEFINE nd3 == [nd2 EXCEPT ![np2] = n0]
<1> HIDE DEF deeper, n0
<1>13. Forest(nd3, np2 + 1, height + 1, raised)
  BY <1>6, <1>8, <1>10, <1>12, ForestAbove
<1>14. Filled(nd3, np2 + 1, np2, FALSE)
  BY <1>6, <1>8, <1>9, <1>12, FilledAbove
<1>15. np2 \in Alive(np2 + 1) /\ raised[np2] = 1 /\ (height + 1) + FirstLeaf <= np2 + 1
  BY <1>2, <1>6 DEF Alive, Raised, FirstLeaf
<1> DEFINE unrooted == "unrooted" \in damage
           Chained(m, c) == LeafChain(nd2, np2, height, deeper, m, c)
           Halved(m, c) == \E span : /\ Spanned(nd2, np2, deeper, m, c, span)
                                     /\ span[root] = Below(Int, sep)
                                     /\ span[b] = From(Int, sep)
<1>16. \E m, c : Chained(m, c) /\ (~unrooted => Halved(m, c))
  <2>1. ~unrooted => \E span : Order(node, root, numPages, depth, n, l, span)
    BY <1>1
  <2>2. ASSUME NEW span, Order(node, root, numPages, depth, n, l, span)
        PROVE  LET narrowed == Narrowed(numPages, height, depth, 0, path, g, span) IN
                 /\ 0 = height => Spanned(nd2, np2, deeper, n, l, narrowed)
                 /\ 0 # height => \A a \in 1 .. n : l[a] = path[height] =>
                      Spanned(nd2, np2, deeper, n + 1, WithLeaf(l, n, a, numPages), narrowed)
                 /\ narrowed[root] = Below(Int, sep)
                 /\ narrowed[b] = From(Int, sep)
    <3>1. Spanned(node, numPages, depth, n, l, span) /\ span[path[1]] = Int
      BY <1>4, <2>2 DEF Order
    <3>2. /\ Forest(node, numPages, height, depth)
          /\ LeafChain(node, numPages, height, depth, n, l)
      BY <1>2
    <3> DEFINE narrowed == Narrowed(numPages, height, depth, 0, path, g, span)
    <3>3. 0 = height => Spanned(nd2, np2, deeper, n, l, narrowed)
      BY <1>6
    <3>4. ASSUME NEW a \in 1 .. n, l[a] = path[height], 0 # height
          PROVE  Spanned(nd2, np2, deeper, n + 1, WithLeaf(l, n, a, numPages), narrowed)
      BY <1>3, <1>5, <1>7, <3>1, <3>2, <3>4, SpannedAfter DEF deeper
    <3>5. \A i \in 0 + 1 .. height :
            /\ narrowed[path[i]] = Below(span[path[i]], Separator(g[i]))
            /\ narrowed[numPages + height - i] = From(span[path[i]], Separator(g[i]))
      BY <1>7, <3>2, NarrowedIs
    <3> HIDE DEF narrowed
    <3>6. narrowed[root] = Below(Int, sep) /\ narrowed[b] = From(Int, sep)
      <4>1. 1 \in 0 + 1 .. height
        BY <1>6
      <4>2. QED
        BY <1>4, <1>5, <3>1, <3>5, <4>1
    <3>7. QED
      BY <3>3, <3>4, <3>6 DEF narrowed
  <2>3. path[height] \in LeafPages(numPages, height, depth)
    BY <1>2, <1>7, LeavesAfter
  <2>4. PICK a \in 1 .. n : l[a] = path[height]
    BY <1>2, <2>3 DEF LeafChain
  <2> DEFINE c == WithLeaf(l, n, a, numPages)
  <2>5. 0 # height
    BY <1>6
  <2>6. Chained(n + 1, c)
    BY <1>2, <1>5, <1>7, <2>4, <2>5, ChainAfter DEF deeper
  <2>7. ASSUME ~unrooted PROVE Halved(n + 1, c)
    <3>1. PICK span : Order(node, root, numPages, depth, n, l, span)
      BY <2>1, <2>7
    <3> DEFINE narrowed == Narrowed(numPages, height, depth, 0, path, g, span)
    <3>2. /\ Spanned(nd2, np2, deeper, n + 1, c, narrowed)
          /\ narrowed[root] = Below(Int, sep)
          /\ narrowed[b] = From(Int, sep)
      BY <2>2, <2>4, <2>5, <3>1
    <3> HIDE DEF narrowed, c, sep
    <3>3. QED
      BY <3>2
  <2> HIDE DEF Chained, Halved, unrooted, c
  <2>8. QED
    BY <2>6, <2>7
<1>17. PICK m, c : Chained(m, c) /\ (~unrooted => Halved(m, c))
  BY <1>16
<1>18. LeafChain(nd3, np2 + 1, height + 1, raised, m, c)
  BY <1>6, <1>8, <1>12, <1>17, LeavesAbove
<1>19. ASSUME ~unrooted
       PROVE  \E span : Order(nd3, np2, np2 + 1, raised, m, c, span)
  <2>1. PICK span : /\ Spanned(nd2, np2, deeper, m, c, span)
                    /\ span[root] = Below(Int, sep)
                    /\ span[b] = From(Int, sep)
    BY <1>17, <1>19
  <2> DEFINE all == [p \in PageIds |-> IF p = np2 THEN Int ELSE span[p]]
  <2>2. Chained(m, c)
    BY <1>17
  <2> HIDE DEF sep
  <2>3. Spanned(nd3, np2 + 1, raised, m, c, all) /\ all[np2] = Int
    BY <1>6, <1>8, <1>10, <1>11, <1>12, <2>1, <2>2, SpannedAbove
  <2> HIDE DEF all, nd3, raised
  <2>4. QED
    BY <2>3 DEF Order
<1>20. Shape(nd3, np2, height + 1, np2 + 1, FALSE, raised, m, c)
  <2> HIDE DEF nd3, raised
  <2>1. QED
    BY <1>13, <1>14, <1>15, <1>18 DEF Shape
<1>21. node' = nd3 /\ root' = np2 /\ height' = height + 1 /\ numPages' = np2 + 1 /\ damage' = damage
  BY <1>4, <1>5, <1>6 DEF n0
<1> HIDE DEF nd3, raised
<1>22. PICK r : r = raised
  OBVIOUS
<1>23. Shape(node', root', height', numPages', "overfull" \in damage', r, m, c)
  BY <1>20, <1>21, <1>22 DEF Shape, Filled
<1>24. "unrooted" \notin damage' =>
         \E span : Order(node', root', numPages', r, m, c, span)
  BY <1>19, <1>21, <1>22
<1>25. damage' \subseteq Damages
  BY <1>21 DEF IInv
<1>26. IInv'
  BY <1>23, <1>24, <1>25 DEF IInv
<1>27. KeysHeld(nd3, np2 + 1, height + 1, raised) = Contents \cup {k}
  <2>1. KeysHeld(nd2, numPages + height - 0, height, deeper)
          = KeysHeld(node, numPages, height, depth) \cup {k}
    BY <1>2, <1>7, HeldAfter DEF deeper
  <2>2. Contents = KeysHeld(node, numPages, height, depth)
    BY <1>1, ContentsIs
  <2>3. KeysHeld(nd3, np2 + 1, height + 1, raised) = KeysHeld(nd2, np2, height, deeper)
    BY <1>6, <1>8, <1>12, LeavesAbove DEF nd3, raised
  <2>4. QED
    BY <1>5, <2>1, <2>2, <2>3
<1>28. PICK X : X = Contents \cup {k}
  OBVIOUS
<1>29. Holding(X)'
  <2>1. X = KeysHeld(node', numPages', height', r)
    BY <1>21, <1>22, <1>27, <1>28
  <2>2. QED
    BY <1>23, <2>1 DEF Holding
<1>30. QED
  BY <1>26, <1>28, <1>29

\* Every insertion keeps the invariant.
LEMMA NextInv == IInv /\ [Next]_vars => IInv'
<1>1. ASSUME IInv, NEW k \in Keys, InsertEntry(k) PROVE IInv'
  <2>1. k \notin Contents /\ "overfull" \notin damage
    BY <1>1 DEF InsertEntry
  <2>2. CASE InsertAbove(k)
    BY <1>1, <2>1, <2>2, AboveInv
  <2>3. CASE ~InsertAbove(k)
    <3>1. InsertInside(k) \/ InsertUnrooted(k) \/ \E i \in 1 .. height : InsertOverfull(k, i)
      BY <1>1, <2>3 DEF InsertEntry
    <3>2. QED
      BY <1>1, <2>1, <3>1, StepInv
  <2>4. QED
    BY <2>2, <2>3
<1>2. ASSUME IInv, UNCHANGED vars PROVE IInv'
  BY <1>2 DEF IInv, vars
<1>3. QED
  BY <1>1, <1>2 DEF Next

\* The invariant holds of every tree that insertions can make, those that
\* threw included.
THEOREM TreeInvariant == Spec => []IInv
<1>1. QED
  BY InitInv, NextInv, PTL DEF Spec

-----------------------------------------------------------------------------
(***************************************************************************)
(* What follows from the invariant.                                        *)
(***************************************************************************)
\* Every page is a node, no node holds more than its arrays have room for
\* but the one an interrupted split has left overfull, and the file's pages
\* stay within its bounds.
THEOREM TypeCorrect == Spec => []TypeOK
<1>1. IInv => TypeOK
  <2> SUFFICES ASSUME IInv PROVE TypeOK
    OBVIOUS
  <2>1. PICK depth, n, l :
          Shape(node, root, height, numPages, "overfull" \in damage, depth, n, l)
    BY DEF IInv
  <2>2. /\ Forest(node, numPages, height, depth) /\ root \in Alive(numPages)
        /\ Filled(node, numPages, root, "overfull" \in damage)
        /\ height + FirstLeaf <= numPages
    BY <2>1 DEF Shape
  <2>3. /\ node \in [PageIds -> NodeType] /\ height \in Nat \ {0}
        /\ numPages \in FirstLeaf + 1 .. MaxPages + 1
    BY <2>2 DEF Forest
  <2>4. ASSUME NEW p \in PageIds
        PROVE  /\ node[p].keys \in Seq(Keys)
               /\ node[p].kids \in Seq(PageIds)
               /\ node[p].next \in PageIds \cup {NoPage}
               /\ node[p].level \in {0, 1} /\ node[p].bound \in BOOLEAN
               /\ Len(node[p].keys) <= Occupancy(node[p])
                                       + (IF "overfull" \in damage THEN 1 ELSE 0)
    <3>1. node[p] \in NodeType
      BY <2>3
    <3>2. Len(node[p].keys) <= Occupancy(node[p]) + (IF "overfull" \in damage THEN 1 ELSE 0)
      BY <2>2 DEF Filled
    <3>3. QED
      BY <3>1, <3>2 DEF NodeType
  <2>5. root \in PageIds /\ height \in 1 .. MaxPages
    BY <2>2, <2>3, BTreeAssumption DEF Alive, PageIds, FirstLeaf
  <2>6. damage \subseteq Damages
    BY DEF IInv
  <2>7. QED
    BY <2>3, <2>4, <2>5, <2>6 DEF TypeOK
<1>2. QED
  BY <1>1, TreeInvariant, PTL

\* The nodes that are i - 1 children away from the root have depth i.
LEMMA LevelIs ==
  ASSUME NEW depth, Rooted(depth)
  PROVE  \A i \in 1 .. height : \A p \in Level[i] : p \in Alive(numPages) /\ depth[p] = i
<1> DEFINE A == Alive(numPages)
           V == SUBSET A
           kidsOf(X) == UNION {ToSet(node[p].kids) : p \in X}
           step == [X \in V |-> kidsOf(X)]
           Is(f) == f = [i \in 1 .. height |-> IF i = 1 THEN {root} ELSE kidsOf(f[i - 1])]
           AllAt(X, i) == \A p \in X : depth[p] = i
<1>1. /\ height \in Nat \ {0} /\ height - 1 \in Nat /\ {root} \in V /\ depth[root] = 1
      /\ Forest(node, numPages, height, depth)
  BY DEF Rooted, Forest
<1>2. ASSUME NEW X \in V
      PROVE  /\ kidsOf(X) \in V
             /\ \A i \in Int : AllAt(X, i) => AllAt(kidsOf(X), i + 1)
  <2>1. ASSUME NEW q \in kidsOf(X)
        PROVE  q \in A /\ \E p \in X : depth[q] = depth[p] + 1
    <3>1. PICK p \in X : q \in ToSet(node[p].kids)
      OBVIOUS
    <3>2. p \in Alive(numPages) /\ AtDepth(node[p], numPages, height, depth, depth[p])
      BY <1>1 DEF Forest
    <3>3. p \in PageIds
      BY <1>1, <3>2, BTreeAssumption DEF Forest, Alive, PageIds, FirstLeaf
    <3>4. node[p].kids \in Seq(PageIds)
      BY <1>1, <3>3 DEF Forest, NodeType
    <3>5. PICK j \in 1 .. Len(node[p].kids) : q = node[p].kids[j]
      BY <3>1, <3>4 DEF ToSet
    <3>6. q \in Alive(numPages) /\ depth[q] = depth[p] + 1
      BY <3>2, <3>5 DEF AtDepth
    <3>7. QED
      BY <3>6
  <2> HIDE DEF kidsOf
  <2>2. kidsOf(X) \in V
    BY <2>1
  <2>3. ASSUME NEW i \in Int, AllAt(X, i) PROVE AllAt(kidsOf(X), i + 1)
    BY <2>1, <2>3
  <2>4. QED
    BY <2>2, <2>3
<1>3. step \in [V -> V]
  BY <1>2
<1>4. PICK f \in [0 .. height - 1 -> V] : Iterates(f, step, {root}, height - 1)
  <2> HIDE DEF V, step
  <2>1. QED
    BY <1>1, <1>3, IterationExists
<1> HIDE DEF kidsOf
<1>5. \A i \in Nat : i <= height - 1 => AllAt(f[i], i + 1)
  <2> DEFINE S == {i \in Nat : i <= height - 1 => AllAt(f[i], i + 1)}
  <2>1. 0 \in S
    BY <1>1, <1>4 DEF Iterates
  <2>2. ASSUME NEW i \in Nat, i \in S PROVE i + 1 \in S
    <3> SUFFICES ASSUME i + 1 <= height - 1 PROVE AllAt(f[i + 1], (i + 1) + 1)
      OBVIOUS
    <3> HIDE DEF AllAt
    <3>1. i \in 0 .. height - 1 /\ i + 1 \in 1 .. height - 1 /\ (i + 1) - 1 = i /\ i + 1 \in Int
      BY <1>1
    <3> HIDE DEF V, step
    <3>7. AllAt(f[i], i + 1) /\ f[i] \in V
      BY <1>4, <2>2, <3>1
    <3>6. f[i + 1] = step[f[i]]
      BY <1>4, <3>1 DEF Iterates
    <3>2. f[i] \in V /\ f[i + 1] = step[f[i]] /\ AllAt(f[i], i + 1)
      BY <3>7, <3>6
    <3>3. f[i + 1] = kidsOf(f[i])
      BY <3>2 DEF step
    <3>4. QED
      BY <1>2, <3>1, <3>2, <3>3
  <2> HIDE DEF S
  <2>3. \A i \in Nat : i \in S
    BY <2>1, <2>2, SetInduction
  <2>4. QED
    BY <2>3 DEF S
<1> DEFINE level == [i \in 1 .. height |-> f[i - 1]]
<1> HIDE DEF V, AllAt
<1>6. ASSUME NEW i \in 1 .. height
      PROVE  /\ level[i] \in V /\ AllAt(level[i], i)
             /\ level[i] = IF i = 1 THEN {root} ELSE kidsOf(level[i - 1])
  <2>1. i - 1 \in 0 .. height - 1 /\ i - 1 \in Nat /\ i - 1 <= height - 1 /\ (i - 1) + 1 = i
    BY <1>1
  <2>2. level[i] \in V /\ AllAt(level[i], i)
    BY <1>4, <1>5, <2>1
  <2>3. CASE i = 1
    BY <1>4, <2>2, <2>3 DEF Iterates
  <2>4. CASE i # 1
    <3>1. i - 1 \in 1 .. height /\ i - 1 \in 1 .. height - 1 /\ (i - 1) - 1 \in 0 .. height - 1
      BY <1>1, <2>4
    <3>2. f[i - 1] = step[f[(i - 1) - 1]] /\ f[(i - 1) - 1] \in V
      BY <1>4, <3>1 DEF Iterates
    <3>3. level[i] = f[i - 1] /\ level[i - 1] = f[(i - 1) - 1]
      BY <3>1
    <3> HIDE DEF level
    <3>4. level[i] = kidsOf(level[i - 1])
      BY <3>2, <3>3
    <3>5. QED
      BY <2>2, <2>4, <3>4
  <2>5. QED
    BY <2>2, <2>3, <2>4
<1>7. Is(level)
  BY <1>6
<1>8. Is(Level)
  <2>1. Level = CHOOSE c : Is(c)
    BY DEF Level, kidsOf
  <2> HIDE DEF Is
  <2>2. QED
    BY <1>7, <2>1
<1> HIDE DEF level, step
<1>9. \A i \in 1 .. height : Level[i] = IF i = 1 THEN {root} ELSE kidsOf(Level[i - 1])
  BY <1>8 DEF Is
<1>10. \A i \in Nat : i + 1 <= height => Level[i + 1] = level[i + 1]
  <2> DEFINE S == {i \in Nat : i + 1 <= height => Level[i + 1] = level[i + 1]}
  <2>1. 0 \in S
    <3>1. 1 \in 1 .. height
      BY <1>1
    <3>2. QED
      BY <1>6, <1>9, <3>1
  <2>2. ASSUME NEW i \in Nat, i \in S PROVE i + 1 \in S
    <3> SUFFICES ASSUME (i + 1) + 1 <= height
                 PROVE  Level[(i + 1) + 1] = level[(i + 1) + 1]
      OBVIOUS
    <3>1. (i + 1) + 1 \in 1 .. height /\ (i + 1) + 1 # 1 /\ ((i + 1) + 1) - 1 = i + 1
          /\ i + 1 <= height
      BY <1>1
    <3>2. Level[i + 1] = level[i + 1]
      BY <2>2, <3>1
    <3>3. QED
      BY <1>6, <1>9, <3>1, <3>2
  <2> HIDE DEF S
  <2>3. \A i \in Nat : i \in S
    BY <2>1, <2>2, SetInduction
  <2>4. QED
    BY <2>3 DEF S
<1>11. ASSUME NEW i \in 1 .. height, NEW p \in Level[i]
       PROVE  p \in Alive(numPages) /\ depth[p] = i
  <2>1. i - 1 \in Nat /\ (i - 1) + 1 = i /\ i <= height
    BY <1>1
  <2>2. Level[i] = level[i]
    BY <1>10, <2>1
  <2>3. QED
    BY <1>6, <2>2 DEF V, AllAt
<1>12. QED
  BY <1>11

\* All leaves are at the depth the meta page tells, the nodes right above
\* them are those of level 1, and a node has one child more than keys.
THEOREM BalancedAlways == Spec => []Balanced
<1>1. IInv => Balanced
  <2> SUFFICES ASSUME IInv, NEW i \in 1 .. height, NEW p \in Level[i]
               PROVE  /\ i = height <=> node[p].kids = <<>>
                      /\ i < height => Len(node[p].kids) = Len(node[p].keys) + 1
                      /\ i < height => (node[p].level = 1 <=> i = height - 1)
    BY DEF Balanced
  <2>1. PICK depth : Rooted(depth)
    BY DEF IInv, Shape, Rooted
  <2>2. p \in Alive(numPages) /\ depth[p] = i
    BY <2>1, LevelIs
  <2>3. AtDepth(node[p], numPages, height, depth, i)
    BY <2>1, <2>2 DEF Rooted, Forest
  <2>4. QED
    BY <2>3 DEF AtDepth
<1>2. QED
  BY <1>1, TreeInvariant, PTL

\* Every node but the root is at least half full.
THEOREM HalfFullAlways == Spec => []HalfFull
<1>1. IInv => HalfFull
  <2> SUFFICES ASSUME IInv, NEW i \in 2 .. height, NEW p \in Level[i]
               PROVE  Len(node[p].keys) >= IF i = height THEN (leafOccupancy + 1) \div 2
                                           ELSE nodeOccupancy \div 2
    BY DEF HalfFull
  <2>1. PICK depth, n, l :
          Shape(node, root, height, numPages, "overfull" \in damage, depth, n, l)
    BY DEF IInv
  <2>2. Rooted(depth) /\ Filled(node, numPages, root, "overfull" \in damage)
    BY <2>1 DEF Shape, Rooted
  <2>3. height \in Nat /\ depth[root] = 1
    BY <2>2 DEF Rooted, Forest
  <2>4. i \in 1 .. height /\ i # 1
    BY <2>3
  <2>5. p \in Alive(numPages) /\ depth[p] = i
    BY <2>2, <2>4, LevelIs
  <2>6. AtDepth(node[p], numPages, height, depth, i)
    BY <2>2, <2>5 DEF Rooted, Forest
  <2>7. i = height <=> node[p].kids = <<>>
    BY <2>6 DEF AtDepth
  <2>8. Len(node[p].keys) >= MinKeys(node[p])
    BY <2>2, <2>3, <2>4, <2>5 DEF Filled
  <2>9. QED
    BY <2>7, <2>8 DEF MinKeys
<1>2. QED
  BY <1>1, TreeInvariant, PTL

\* While every split root has a parent, the leaf a descent leads to is the
\* one where the key is, if any leaf has it.
THEOREM SearchableAlways == Spec => []Searchable
<1>1. IInv => Searchable
  <2> SUFFICES ASSUME IInv, "unrooted" \notin damage, NEW k \in Contents
               PROVE  k \in ToSet(node[Path(k)[height]].keys)
    BY DEF Searchable
  <2>1. PICK depth, n, l, span :
          /\ Shape(node, root, height, numPages, "overfull" \in damage, depth, n, l)
          /\ Order(node, root, numPages, depth, n, l, span)
    BY DEF IInv
  <2>2. /\ Forest(node, numPages, height, depth) /\ Rooted(depth)
        /\ Spanned(node, numPages, depth, n, l, span) /\ span[root] = Int
    BY <2>1 DEF Shape, Rooted, Order
  <2>3. k \in KeysHeld(node, numPages, height, depth)
    BY <2>1, ContentsIs
  <2>4. PICK p \in LeafPages(numPages, height, depth) : k \in ToSet(node[p].keys)
    BY <2>3 DEF KeysHeld
  <2>5. p \in Alive(numPages) /\ depth[p] = height /\ p \in PageIds
    BY <2>2, <2>4, BTreeAssumption DEF Forest, LeafPages, Alive, PageIds, FirstLeaf
  <2>6. node[p].keys \in Seq(Keys)
    BY <2>2, <2>5 DEF Forest, NodeType
  <2>7. PICK j \in 1 .. Len(node[p].keys) : node[p].keys[j] = k
    BY <2>4, <2>6 DEF ToSet
  <2>8. k \in Keys
    BY <2>6, <2>7, ElementOfSeq
  <2>9. k \in span[p]
    BY <2>2, <2>5, <2>7 DEF Spanned, Ordered
  <2>10. PICK path : path = Path(k)
    OBVIOUS
  <2>11. /\ path[1] = root
         /\ \A i \in 1 .. height : path[i] \in Alive(numPages) /\ depth[path[i]] = i
         /\ \A i \in 1 .. height - 1 :
              path[i + 1] = node[path[i]].kids[Pos(node[path[i]], k) + 1]
    BY <2>2, <2>8, <2>10, PathIs
  <2>12. height \in 1 .. height
    BY <2>2 DEF Forest
  <2>13. span[path[1]] = Int
    BY <2>2, <2>11
  <2>14. \A i \in 1 .. height : k \in span[path[i]]
    BY <2>2, <2>8, <2>11, <2>13, DescentSpans
  <2>15. /\ path[height] \in Alive(numPages) /\ depth[path[height]] = height
         /\ k \in span[path[height]]
    BY <2>11, <2>12, <2>14
  <2>16. p = path[height]
    <3>1. p # path[height] => span[p] \cap span[path[height]] = {}
      BY <2>2, <2>5, <2>15 DEF Spanned
    <3>2. QED
      BY <2>9, <2>15, <3>1
  <2>17. QED
    BY <2>4, <2>10, <2>16
<1>2. QED
  BY <1>1, TreeInvariant, PTL

\* An insertion that throws on its way adds its key too, and none loses
\* another: the tree implements the abstract index.
THEOREM ImplementsIndex == Spec => IndexSpec
<1>1. Init => Index!Init
  <2> SUFFICES ASSUME Init PROVE Contents = {}
    BY DEF Index!Init
  <2>1. IInv
    BY InitInv
  <2>2. PICK depth, n, l :
          Shape(node, root, height, numPages, "overfull" \in damage, depth, n, l)
    BY <2>1 DEF IInv
  <2>3. Contents = KeysHeld(node, numPages, height, depth)
    BY <2>2, ContentsIs
  <2>4. \A p \in PageIds : ToSet(node[p].keys) = {}
    BY DEF Init, EmptyLeaf, ToSet
  <2>5. Alive(numPages) \subseteq PageIds
    BY BTreeAssumption DEF Init, Alive, PageIds, FirstLeaf
  <2>6. QED
    BY <2>3, <2>4, <2>5 DEF KeysHeld, LeafPages
<1>2. (\A X : Holding(X) => X = Contents)'
  BY HoldingIs, PTL
<1>3. IInv /\ [Next]_vars => [Index!Next]_Contents
  <2>1. ASSUME IInv, NEW k \in Keys, InsertEntry(k) PROVE Index!Put(k)
    <3>1. k \notin Contents /\ "overfull" \notin damage
      BY <2>1 DEF InsertEntry
    <3>2. \E X : X = Contents \cup {k} /\ Holding(X)'
      <4>1. CASE InsertAbove(k)
        BY <2>1, <3>1, <4>1, AboveInv
      <4>2. CASE ~InsertAbove(k)
        <5>1. InsertInside(k) \/ InsertUnrooted(k) \/ \E i \in 1 .. height : InsertOverfull(k, i)
          BY <2>1, <4>2 DEF InsertEntry
        <5>2. QED
          BY <2>1, <3>1, <5>1, StepInv
      <4>3. QED
        BY <4>1, <4>2
    <3>3. Contents' = Contents \cup {k}
      BY <1>2, <3>2
    <3>4. QED
      BY <3>1, <3>3 DEF Index!Put
  <2>2. ASSUME UNCHANGED vars PROVE UNCHANGED Contents
    BY <2>2 DEF vars, Contents, Leaves, Chain
  <2>3. QED
    BY <2>1, <2>2 DEF Next, Index!Next
<1>4. QED
  BY <1>1, <1>3, TreeInvariant, PTL DEF Spec, IndexSpec, Index!Spec

\* Two sorted sequences make one, if the first is below the second.
LEMMA ConcatSorted ==
  ASSUME NEW a \in Seq(Int), NEW b \in Seq(Int), Sorted(a), Sorted(b),
         \A x \in ToSet(a) : \A y \in ToSet(b) : x < y
  PROVE  /\ a \o b \in Seq(Int) /\ Sorted(a \o b)
         /\ ToSet(a \o b) \subseteq ToSet(a) \cup ToSet(b)
<1> DEFINE c == a \o b
<1>1. /\ Len(a) \in Nat /\ Len(b) \in Nat /\ c \in Seq(Int) /\ Len(c) = Len(a) + Len(b)
      /\ \A i \in 1 .. Len(c) : c[i] = IF i <= Len(a) THEN a[i] ELSE b[i - Len(a)]
  OBVIOUS
<1>2. /\ \A i \in 1 .. Len(a) : a[i] \in ToSet(a) /\ a[i] \in Int
      /\ \A i \in 1 .. Len(b) : b[i] \in ToSet(b) /\ b[i] \in Int
      /\ ToSet(c) = {c[i] : i \in 1 .. Len(c)}
  <2>1. /\ DOMAIN a = 1 .. Len(a) /\ DOMAIN b = 1 .. Len(b)
        /\ \A i \in 1 .. Len(a) : a[i] \in Int
        /\ \A i \in 1 .. Len(b) : b[i] \in Int
    OBVIOUS
  <2> HIDE DEF c
  <2>2. DOMAIN c = 1 .. Len(c)
    BY <1>1
  <2>3. ToSet(c) = {c[i] : i \in 1 .. Len(c)}
    BY <2>2 DEF ToSet
  <2>4. QED
    BY <2>1, <2>3 DEF ToSet
<1> HIDE DEF c
<1>3. ASSUME NEW i \in 1 .. Len(c), NEW j \in 1 .. Len(c), i < j PROVE c[i] < c[j]
  <2>1. CASE j <= Len(a)
    <3>1. i \in 1 .. Len(a) /\ j \in 1 .. Len(a)
      BY <1>1, <1>3, <2>1
    <3>2. a[i] < a[j] /\ c[i] = a[i] /\ c[j] = a[j]
      BY <1>1, <1>3, <3>1 DEF Sorted
    <3>3. QED
      BY <3>2
  <2>2. CASE i <= Len(a) /\ ~(j <= Len(a))
    <3>1. i \in 1 .. Len(a) /\ j - Len(a) \in 1 .. Len(b)
      BY <1>1, <2>2
    <3>2. c[i] = a[i] /\ c[j] = b[j - Len(a)]
      BY <1>1, <2>2
    <3>3. a[i] \in ToSet(a) /\ b[j - Len(a)] \in ToSet(b)
      BY <1>2, <3>1
    <3>4. QED
      BY <3>2, <3>3
  <2>3. CASE ~(i <= Len(a))
    <3>1. /\ i - Len(a) \in 1 .. Len(b) /\ j - Len(a) \in 1 .. Len(b)
          /\ i - Len(a) < j - Len(a) /\ ~(j <= Len(a))
      BY <1>1, <1>3, <2>3, SMTT(30)
    <3>2. c[i] = b[i - Len(a)] /\ c[j] = b[j - Len(a)]
      BY <1>1, <2>3, <3>1
    <3>3. b[i - Len(a)] < b[j - Len(a)]
      BY <3>1 DEF Sorted
    <3>4. QED
      BY <3>2, <3>3
  <2>4. QED
    BY <2>1, <2>2, <2>3
<1>4. ASSUME NEW x \in ToSet(c) PROVE x \in ToSet(a) \cup ToSet(b)
  <2>1. PICK i \in 1 .. Len(c) : x = c[i]
    BY <1>2
  <2>2. CASE i <= Len(a)
    <3>1. i \in 1 .. Len(a) /\ x = a[i]
      BY <1>1, <2>1, <2>2
    <3>2. QED
      BY <1>2, <3>1
  <2>3. CASE ~(i <= Len(a))
    <3>1. i - Len(a) \in 1 .. Len(b) /\ x = b[i - Len(a)]
      BY <1>1, <2>1, <2>3
    <3>2. QED
      BY <1>2, <3>1
  <2>4. QED
    BY <2>2, <2>3
<1>5. QED
  BY <1>1, <1>3, <1>4 DEF Sorted, c

\* So do any number of them.
LEMMA FlattenSorted ==
  ASSUME NEW m \in Nat \ {0}, NEW seqs \in [1 .. m -> Seq(Int)],
         \A i \in 1 .. m : Sorted(seqs[i]),
         \A i, j \in 1 .. m : i < j =>
           \A x \in ToSet(seqs[i]) : \A y \in ToSet(seqs[j]) : x < y
  PROVE  FlattenSeq(seqs) \in Seq(Int) /\ Sorted(FlattenSeq(seqs))
<1> DEFINE Is(f, n) == f = [i \in 1 .. n |-> IF i = 1 THEN seqs[i] ELSE f[i - 1] \o seqs[i]]
           flat == CHOOSE f : Is(f, m)
<1>1. Len(seqs) = m /\ m # 0 /\ 1 \in 1 .. m /\ m \in 1 .. m
  OBVIOUS
<1>2. FlattenSeq(seqs) = flat[m]
  BY <1>1 DEF FlattenSeq
<1>3. \A n \in Nat : \E f : Is(f, n + 1)
  <2> DEFINE S == {n \in Nat : \E f : Is(f, n + 1)}
  <2>1. 0 \in S
    <3> DEFINE f == [i \in 1 .. 1 |-> seqs[1]]
    <3>1. Is(f, 0 + 1)
      OBVIOUS
    <3> HIDE DEF f, Is
    <3>2. QED
      BY <3>1
  <2>2. ASSUME NEW n \in Nat, n \in S PROVE n + 1 \in S
    <3>1. PICK f : Is(f, n + 1)
      BY <2>2
    <3> DEFINE q == n + 1
               h == [i \in 1 .. q + 1 |-> IF i <= q THEN f[i] ELSE f[q] \o seqs[q + 1]]
    <3>2. ASSUME NEW i \in 1 .. q + 1
          PROVE  h[i] = IF i = 1 THEN seqs[i] ELSE h[i - 1] \o seqs[i]
      <4>1. CASE i <= q
        <5>1. i \in 1 .. q /\ (i # 1 => i - 1 \in 1 .. q + 1 /\ i - 1 <= q)
          BY <4>1
        <5>2. h[i] = f[i] /\ (i # 1 => h[i - 1] = f[i - 1])
          BY <4>1, <5>1
        <5>3. f[i] = IF i = 1 THEN seqs[i] ELSE f[i - 1] \o seqs[i]
          <6> HIDE DEF h
          <6>1. f = [j \in 1 .. q |-> IF j = 1 THEN seqs[j] ELSE f[j - 1] \o seqs[j]]
            BY <3>1
          <6> HIDE DEF q
          <6>2. QED
            BY <5>1, <6>1
        <5> HIDE DEF h
        <5>4. QED
          BY <5>2, <5>3
      <4>2. CASE ~(i <= q)
        <5>1. i = q + 1 /\ i # 1 /\ i - 1 = q /\ q \in 1 .. q + 1 /\ q <= q
          BY <4>2
        <5>2. h[i] = f[q] \o seqs[q + 1] /\ h[i - 1] = f[q]
          BY <4>2, <5>1
        <5> HIDE DEF h
        <5>3. QED
          BY <5>1, <5>2
      <4>3. QED
        BY <4>1, <4>2
    <3>3. Is(h, q + 1)
      BY <3>2
    <3> HIDE DEF h, Is
    <3>4. QED
      BY <3>3
  <2> HIDE DEF S
  <2>3. \A n \in Nat : n \in S
    BY <2>1, <2>2, SetInduction
  <2>4. QED
    BY <2>3 DEF S
<1>4. Is(flat, m)
  <2> HIDE DEF Is
  <2>1. m - 1 \in Nat /\ (m - 1) + 1 = m
    OBVIOUS
  <2>2. \E f : Is(f, m)
    BY <1>3, <2>1
  <2>3. QED
    BY <2>2
<1> HIDE DEF flat
<1>5. \A i \in 1 .. m : flat[i] = IF i = 1 THEN seqs[i] ELSE flat[i - 1] \o seqs[i]
  BY <1>4
<1> HIDE DEF Is
<1> DEFINE Under(X, i) == \A x \in X : \E j \in 1 .. i : x \in ToSet(seqs[j])
           Good(i) == flat[i] \in Seq(Int) /\ Sorted(flat[i]) /\ Under(ToSet(flat[i]), i)
           T == {n \in Nat : n + 1 <= m => Good(n + 1)}
<1>6. 0 \in T
  <2>1. flat[1] = seqs[1]
    BY <1>1, <1>5
  <2>2. Good(1)
    BY <1>1, <2>1
  <2>3. QED
    BY <2>2
<1>7. ASSUME NEW n \in Nat, n \in T PROVE n + 1 \in T
  <2> SUFFICES ASSUME (n + 1) + 1 <= m PROVE Good((n + 1) + 1)
    OBVIOUS
  <2> DEFINE q == n + 1
  <2>1. /\ q \in 1 .. m /\ q + 1 \in 1 .. m /\ q + 1 # 1 /\ (q + 1) - 1 = q /\ q <= m
        /\ q \in Int
    OBVIOUS
  <2>2. flat[q] \in Seq(Int) /\ Sorted(flat[q]) /\ Under(ToSet(flat[q]), q)
    BY <1>7, <2>1
  <2> HIDE DEF q
  <2>3. flat[q + 1] = flat[q] \o seqs[q + 1]
    BY <1>5, <2>1
  <2>4. seqs[q + 1] \in Seq(Int) /\ Sorted(seqs[q + 1])
    BY <2>1
  <2>5. \A x \in ToSet(flat[q]) : \A y \in ToSet(seqs[q + 1]) : x < y
    <3> SUFFICES ASSUME NEW x \in ToSet(flat[q]), NEW y \in ToSet(seqs[q + 1]) PROVE x < y
      OBVIOUS
    <3>1. PICK j \in 1 .. q : x \in ToSet(seqs[j])
      BY <2>2
    <3>2. j \in 1 .. m /\ j < q + 1
      BY <2>1
    <3>3. QED
      BY <2>1, <3>1, <3>2
  <2>6. /\ flat[q + 1] \in Seq(Int) /\ Sorted(flat[q + 1])
        /\ ToSet(flat[q + 1]) \subseteq ToSet(flat[q]) \cup ToSet(seqs[q + 1])
    BY <2>2, <2>3, <2>4, <2>5, ConcatSorted
  <2>7. 1 .. q \subseteq 1 .. q + 1 /\ q + 1 \in 1 .. q + 1
    BY <2>1
  <2>8. Under(ToSet(flat[q + 1]), q + 1)
    BY <2>2, <2>6, <2>7
  <2>9. QED
    BY <2>6, <2>8 DEF q
<1> HIDE DEF T
<1>8. \A n \in Nat : n \in T
  BY <1>6, <1>7, SetInduction
<1>9. Good(m)
  <2>1. m - 1 \in Nat /\ (m - 1) + 1 = m /\ m <= m
    OBVIOUS
  <2>2. m - 1 \in T
    BY <1>8, <2>1
  <2> HIDE DEF Good
  <2>3. QED
    BY <2>1, <2>2 DEF T
<1>10. QED
  BY <1>2, <1>9

\* While every split root has a parent, the leaf chain lists the keys in
\* ascending order, each once.
THEOREM ChainSortedAlways == Spec => []ChainSorted
<1>1. IInv => ChainSorted
  <2> DEFINE seqs == [i \in 1 .. MaxPages |->
                        IF Chain[i] = NoPage THEN <<>> ELSE node[Chain[i]].keys]
  <2> SUFFICES ASSUME IInv, "unrooted" \notin damage
               PROVE  \A i \in 1 .. Len(InOrder) - 1 : InOrder[i] < InOrder[i + 1]
    BY DEF ChainSorted
  <2>1. PICK depth, n, l, span :
          /\ Shape(node, root, height, numPages, "overfull" \in damage, depth, n, l)
          /\ Order(node, root, numPages, depth, n, l, span)
    BY DEF IInv
  <2>2. /\ Forest(node, numPages, height, depth)
        /\ Spanned(node, numPages, depth, n, l, span)
        /\ LeafChain(node, numPages, height, depth, n, l)
    BY <2>1 DEF Shape, Order
  <2>3. /\ n \in 1 .. MaxPages
        /\ \A i \in 1 .. MaxPages : Chain[i] = IF i <= n THEN l[i] ELSE NoPage
    BY <2>1, ContentsIs
  <2>4. MaxPages \in Nat \ {0} /\ Keys \subseteq Int
    BY BTreeAssumption
  <2>5. ASSUME NEW i \in 1 .. n
        PROVE  /\ l[i] \in Alive(numPages) /\ l[i] # NoPage
               /\ node[l[i]].keys \in Seq(Int) /\ Sorted(node[l[i]].keys)
               /\ ToSet(node[l[i]].keys) \subseteq span[l[i]]
    <3>1. l[i] \in Alive(numPages) /\ l[i] # NoPage /\ l[i] \in PageIds
      BY <2>2, BTreeAssumption
      DEF Forest, LeafChain, LeafPages, Alive, PageIds, FirstLeaf, NoPage
    <3>2. node[l[i]] \in NodeType
      BY <2>2, <3>1 DEF Forest
    <3>3. node[l[i]].keys \in Seq(Int)
      BY <3>2, KeysInt
    <3>4. Ordered(node[l[i]], span[l[i]], span)
      BY <2>2, <3>1 DEF Spanned
    <3>5. ToSet(node[l[i]].keys) \subseteq span[l[i]]
      BY <3>3, <3>4 DEF Ordered, ToSet
    <3>6. QED
      BY <3>1, <3>3, <3>4, <3>5 DEF Ordered
  <2>6. ASSUME NEW i \in 1 .. MaxPages
        PROVE  /\ i <= n => i \in 1 .. n /\ seqs[i] = node[l[i]].keys
               /\ ~(i <= n) => seqs[i] = <<>>
    <3>1. CASE i <= n
      <4>1. i \in 1 .. n
        BY <2>3, <3>1
      <4>2. Chain[i] = l[i] /\ l[i] # NoPage
        BY <2>3, <2>5, <3>1, <4>1
      <4>3. QED
        BY <3>1, <4>1, <4>2
    <3>2. CASE ~(i <= n)
      BY <2>3, <3>2
    <3>3. QED
      BY <3>1, <3>2
  <2>7. seqs = [i \in 1 .. MaxPages |-> seqs[i]]
    OBVIOUS
  <2>8. InOrder = FlattenSeq(seqs)
    BY DEF InOrder
  <2> HIDE DEF seqs
  <2>9. <<>> \in Seq(Int) /\ Sorted(<<>>) /\ ToSet(<<>>) = {}
    BY DEF Sorted, ToSet
  <2>10. ASSUME NEW i \in 1 .. MaxPages PROVE seqs[i] \in Seq(Int) /\ Sorted(seqs[i])
    BY <2>5, <2>6, <2>9
  <2>11. seqs \in [1 .. MaxPages -> Seq(Int)]
    BY <2>7, <2>10
  <2>12. ASSUME NEW i \in 1 .. MaxPages, NEW j \in 1 .. MaxPages, i < j,
                NEW x \in ToSet(seqs[i]), NEW y \in ToSet(seqs[j])
         PROVE  x < y
    <3>1. i <= n /\ j <= n
      BY <2>6, <2>9, <2>12
    <3>2. /\ i \in 1 .. n /\ seqs[i] = node[l[i]].keys
          /\ j \in 1 .. n /\ seqs[j] = node[l[j]].keys
      BY <2>6, <3>1
    <3>3. x \in span[l[i]] /\ y \in span[l[j]]
      BY <2>5, <2>12, <3>2
    <3>4. QED
      BY <2>2, <2>12, <3>2, <3>3 DEF Spanned
  <2>13. InOrder \in Seq(Int) /\ Sorted(InOrder)
    BY <2>4, <2>8, <2>10, <2>11, <2>12, FlattenSorted
  <2>14. ASSUME NEW i \in 1 .. Len(InOrder) - 1 PROVE InOrder[i] < InOrder[i + 1]
    <3>1. /\ i \in 1 .. Len(InOrder) /\ i + 1 \in 1 .. Len(InOrder) /\ i < i + 1
      BY <2>13
    <3>2. QED
      BY <2>13, <3>1 DEF Sorted
  <2>15. QED
    BY <2>14
<1>2. QED
  BY <1>1, TreeInvariant, PTL

-----------------------------------------------------------------------------
(***************************************************************************)
(* The filtered scan beside insertions: the page it pins, where it lands   *)
(* and how it goes on.  The pins come first, as where a scan lands and     *)
(* what the leaves hold does not matter to them.                           *)
(***************************************************************************)
\* The inductive invariant: a count below zero would pass for no pin when it
\* is next raised.
PinInv ==
  /\ pins \in [NoPage .. MaxPages -> Nat]
  /\ OnePin

Pages == NoPage .. MaxPages

\* No page pinned.
NoPin(b) == b = [p \in Pages |-> 0]

-----------------------------------------------------------------------------
\* The page that is current is the only one a scan can hold a pin of, so
\* endScan leaves none.
LEMMA EndUnpins ==
  ASSUME PinInv, scanExecuting, pins[currentPageNum] > 0
  PROVE  NoPin(Unpinned(pins, currentPageNum))
<1> DEFINE c == currentPageNum
<1>1. ASSUME NEW p \in Pages PROVE Unpinned(pins, c)[p] = 0
  <2>1. CASE p = c
    <3>1. pins[p] = 1
      BY <2>1 DEF PinInv, OnePin, Pages
    <3>2. QED
      BY <2>1, <3>1 DEF Unpinned, PinInv, Pages
  <2>2. CASE p # c
    <3>1. pins[p] = 0
      BY <2>2 DEF PinInv, OnePin, Pages
    <3>2. QED
      BY <2>2, <3>1 DEF Unpinned, PinInv, Pages
  <2>3. QED
    BY <2>1, <2>2
<1>2. QED
  BY <1>1 DEF NoPin, Unpinned, PinInv, Pages

\* A scan that does not execute holds no pin.
LEMMA IdleHasNoPin ==
  ASSUME PinInv, ~scanExecuting
  PROVE  NoPin(pins)
BY DEF PinInv, OnePin, NoPin, Pages

\* Nor does one that executes without a pin of its page.
LEMMA AdriftHasNoPin ==
  ASSUME PinInv, pins[currentPageNum] = 0
  PROVE  NoPin(pins)
BY DEF PinInv, OnePin, NoPin, Pages

\* startScan has ended the scan it finds before it pins a page.
LEMMA HeldNone ==
  ASSUME PinInv, scanExecuting => pins[currentPageNum] > 0
  PROVE  NoPin(Held)
BY EndUnpins, IdleHasNoPin DEF Held

\* Nothing pinned, or one pin of the page a scan that executes is on.
LEMMA NoneHolds ==
  ASSUME NoPin(pins')
  PROVE  PinInv'
BY DEF NoPin, PinInv, OnePin, Pages

\* One pin, taken when there was none.
LEMMA OneHolds ==
  ASSUME NEW STATE b, NoPin(b), scanExecuting', pins' = Pinned(b, currentPageNum')
  PROVE  PinInv'
<1>1. pins' = [p \in Pages |-> IF p = currentPageNum' THEN 1 ELSE 0]
  <2>1. DOMAIN b = Pages /\ \A p \in Pages : b[p] = 0
    BY DEF NoPin
  <2>2. pins' = [p \in Pages |-> IF p = currentPageNum' THEN b[currentPageNum'] + 1 ELSE b[p]]
    BY <2>1 DEF Pinned
  <2>3. currentPageNum' \in Pages => b[currentPageNum'] + 1 = 1
    BY <2>1
  <2>4. QED
    BY <2>1, <2>2, <2>3
<1>2. pins' \in [NoPage .. MaxPages -> Nat]
  BY <1>1 DEF Pages
<1>3. \A p \in DOMAIN pins' : pins'[p] # 0 => pins'[p] = 1 /\ p = currentPageNum'
  BY <1>1
<1>4. QED
  BY <1>2, <1>3 DEF PinInv, OnePin

-----------------------------------------------------------------------------
\* startScan pins the page it lands on after it has let go of the one before.
LEMMA StartScanPins ==
  ASSUME PinInv, NEW low \in Bounds, NEW high \in Bounds,
         NEW lop \in {"GT", "GTE"}, NEW hop \in {"LT", "LTE"},
         \/ StartScan(low, lop, high, hop)
         \/ StartScanExceeded(low, lop, high, hop)
         \/ StartScanBadRange(low, lop, high, hop)
         \/ StartScanAdrift(low, lop, high, hop)
  PROVE  PinInv'
<1>1. CASE StartScan(low, lop, high, hop)
  BY <1>1, HeldNone, OneHolds DEF StartScan
<1>2. CASE StartScanExceeded(low, lop, high, hop)
  BY <1>2, HeldNone, NoneHolds DEF StartScanExceeded
<1>3. CASE StartScanBadRange(low, lop, high, hop)
  BY <1>3 DEF StartScanBadRange, PinInv, OnePin
<1>4. CASE StartScanAdrift(low, lop, high, hop)
  BY <1>4, AdriftHasNoPin, NoneHolds DEF StartScanAdrift
<1>5. QED
  BY <1>1, <1>2, <1>3, <1>4

\* scanNext lets go of its leaf before it pins the right sibling.
LEMMA ScanNextPins ==
  ASSUME PinInv, ScanNext
  PROVE  PinInv'
<1>1. NoPin(Unpinned(pins, currentPageNum))
  BY EndUnpins DEF ScanNext, Ready
<1>2. scanExecuting' /\ scanExecuting
  BY DEF ScanNext, Ready
<1>3. CASE NextInLeaf \/ NextNone
  BY <1>2, <1>3 DEF NextInLeaf, NextNone, ScanNext, PinInv, OnePin
<1>4. CASE NextLeaf
  BY <1>1, <1>2, <1>4, OneHolds DEF NextLeaf
<1>5. CASE NextLeafExceeded
  BY <1>1, <1>5, NoneHolds DEF NextLeafExceeded
<1>6. QED
  BY <1>3, <1>4, <1>5 DEF ScanNext

\* endScan lets go of the page the scan is on.
LEMMA EndScanPins ==
  ASSUME PinInv, EndScan
  PROVE  PinInv'
<1>1. CASE pins[currentPageNum] > 0
  BY <1>1, EndUnpins, NoneHolds DEF EndScan
<1>2. CASE ~(pins[currentPageNum] > 0)
  <2>1. NoPin(pins)
    BY <1>2 DEF PinInv, OnePin, NoPin, Pages
  <2>2. QED
    BY <1>2, <2>1, NoneHolds DEF EndScan
<1>3. QED
  BY <1>1, <1>2

\* Every step keeps the pins.
LEMMA NextPins == PinInv /\ [ScanStep]_svars => PinInv'
<1> SUFFICES ASSUME PinInv, [ScanStep]_svars
             PROVE  PinInv'
  OBVIOUS
<1>1. ASSUME NEW low \in Bounds, NEW high \in Bounds,
             NEW lop \in {"GT", "GTE"}, NEW hop \in {"LT", "LTE"},
             \/ StartScan(low, lop, high, hop)
             \/ StartScanExceeded(low, lop, high, hop)
             \/ StartScanBadRange(low, lop, high, hop)
             \/ StartScanAdrift(low, lop, high, hop)
      PROVE  PinInv'
  BY <1>1, StartScanPins
<1>2. CASE ScanNext
  BY <1>2, ScanNextPins
<1>3. CASE EndScan
  BY <1>3, EndScanPins
<1>4. ASSUME NEW k \in Keys, Insert(k) PROVE PinInv'
  BY <1>4 DEF Insert, scan, PinInv, OnePin
<1>5. CASE UNCHANGED svars
  BY <1>5 DEF svars, scan, PinInv, OnePin
<1>6. QED
  BY <1>1, <1>2, <1>3, <1>4, <1>5 DEF ScanStep

\* Whatever startScan, scanNext and endScan throw, and whatever insertions
\* come between them, the scan pins at most the page it is on, once, and
\* none when it does not execute (btree.cpp:379-552).
THEOREM OnePinAlways == ScanSpec => []OnePin
<1>1. ScanInit => PinInv
  BY BTreeAssumption DEF ScanInit, PinInv, OnePin, NoPage
<1>2. PinInv => OnePin
  BY DEF PinInv
<1>3. QED
  BY <1>1, <1>2, NextPins, PTL DEF ScanSpec

-----------------------------------------------------------------------------
(***************************************************************************)
(* The tree a scan goes through: no insertion has thrown, so that it has   *)
(* its order as well as its shape.                                         *)
(***************************************************************************)
Standing(depth, n, l, span) ==
  /\ Shape(node, root, height, numPages, FALSE, depth, n, l)
  /\ Order(node, root, numPages, depth, n, l, span)

TreeInv == IInv /\ damage = {}

\* The invariant of the tree gives the tree.
LEMMA StandingExists ==
  ASSUME TreeInv
  PROVE  \E depth, n, l, span : Standing(depth, n, l, span)
<1>1. ("overfull" \in damage) = FALSE /\ "unrooted" \notin damage
  BY DEF TreeInv
<1>2. PICK depth, n, l, span :
        /\ Shape(node, root, height, numPages, "overfull" \in damage, depth, n, l)
        /\ Order(node, root, numPages, depth, n, l, span)
  BY <1>1 DEF TreeInv, IInv
<1>3. Standing(depth, n, l, span)
  BY <1>1, <1>2 DEF Standing
<1>4. QED
  BY <1>3

\* A leaf: its keys are sorted, within its span and no more than it holds.
LEMMA LeafIs ==
  ASSUME NEW depth, NEW n, NEW l, NEW span, Standing(depth, n, l, span),
         NEW p \in LeafPages(numPages, height, depth)
  PROVE  /\ p \in Alive(numPages) /\ p \in PageIds /\ depth[p] = height
         /\ node[p].kids = <<>>
         /\ node[p].keys \in Seq(Keys) /\ node[p].keys \in Seq(Int)
         /\ Len(node[p].keys) \in 0 .. leafOccupancy
         /\ Sorted(node[p].keys)
         /\ span[p] \in SUBSET Int
         /\ \A j \in 1 .. Len(node[p].keys) :
              /\ node[p].keys[j] \in span[p]
              /\ node[p].keys[j] \in Keys /\ node[p].keys[j] \in Int
<1>1. /\ Forest(node, numPages, height, depth)
      /\ Filled(node, numPages, root, FALSE)
      /\ Spanned(node, numPages, depth, n, l, span)
  BY DEF Standing, Shape, Order
<1>2. p \in Alive(numPages) /\ depth[p] = height
  BY DEF LeafPages
<1>3. p \in PageIds
  BY <1>1, <1>2, BTreeAssumption DEF Forest, Alive, PageIds, FirstLeaf
<1>4. node[p] \in NodeType
  BY <1>1, <1>3 DEF Forest
<1>5. node[p].kids = <<>>
  BY <1>1, <1>2 DEF Forest, AtDepth
<1>6. /\ node[p].keys \in Seq(Keys) /\ node[p].keys \in Seq(Int)
      /\ Len(node[p].keys) \in Nat
  BY <1>4, KeysInt
<1>7. Len(node[p].keys) <= leafOccupancy
  <2>1. Len(node[p].keys) <= Occupancy(node[p]) + 0
    BY <1>1, <1>3 DEF Filled
  <2>2. Occupancy(node[p]) = leafOccupancy /\ leafOccupancy \in Nat
    BY <1>5, BTreeAssumption DEF Occupancy
  <2>3. QED
    BY <1>6, <2>1, <2>2
<1>8. Len(node[p].keys) \in 0 .. leafOccupancy
  BY <1>6, <1>7, BTreeAssumption
<1>9. span[p] \in SUBSET Int /\ Ordered(node[p], span[p], span)
  BY <1>1, <1>2 DEF Spanned
<1>10. Sorted(node[p].keys) /\ \A j \in 1 .. Len(node[p].keys) : node[p].keys[j] \in span[p]
  BY <1>9 DEF Ordered
<1>11. \A j \in 1 .. Len(node[p].keys) : node[p].keys[j] \in Keys
  BY <1>6
<1>12. QED
  BY <1>2, <1>3, <1>5, <1>6, <1>8, <1>9, <1>10, <1>11, BTreeAssumption

\* The leaves in their chain, and what the index holds in them.
LEMMA ChainIs ==
  ASSUME NEW depth, NEW n, NEW l, NEW span, Standing(depth, n, l, span), damage = {}
  PROVE  /\ n \in Nat
         /\ \A i \in 1 .. n : l[i] \in LeafPages(numPages, height, depth)
         /\ \A p \in LeafPages(numPages, height, depth) : \E i \in 1 .. n : l[i] = p
         /\ \A i \in 1 .. n : node[l[i]].next = IF i < n THEN l[i + 1] ELSE NoPage
         /\ \A i, j \in 1 .. n : i < j =>
              \A x \in span[l[i]] : \A y \in span[l[j]] : x < y
         /\ \A k \in Contents : \E b \in 1 .. n : \E j \in 1 .. Len(node[l[b]].keys) :
              node[l[b]].keys[j] = k
         /\ \A b \in 1 .. n : \A j \in 1 .. Len(node[l[b]].keys) :
              node[l[b]].keys[j] \in Contents
<1>1. /\ LeafChain(node, numPages, height, depth, n, l)
      /\ Spanned(node, numPages, depth, n, l, span)
  BY DEF Standing, Shape, Order
<1>2. Contents = KeysHeld(node, numPages, height, depth)
  <2>1. ("overfull" \in damage) = FALSE
    OBVIOUS
  <2>2. Shape(node, root, height, numPages, "overfull" \in damage, depth, n, l)
    BY <2>1 DEF Standing
  <2>3. QED
    BY <2>2, ContentsIs
<1>3. /\ n \in Nat
      /\ \A i \in 1 .. n : l[i] \in LeafPages(numPages, height, depth)
      /\ \A p \in LeafPages(numPages, height, depth) : \E i \in 1 .. n : l[i] = p
      /\ \A i \in 1 .. n : node[l[i]].next = IF i < n THEN l[i + 1] ELSE NoPage
  BY <1>1 DEF LeafChain
<1>4. \A i, j \in 1 .. n : i < j => \A x \in span[l[i]] : \A y \in span[l[j]] : x < y
  BY <1>1 DEF Spanned
<1>5. ASSUME NEW p \in LeafPages(numPages, height, depth)
      PROVE  ToSet(node[p].keys) = {node[p].keys[j] : j \in 1 .. Len(node[p].keys)}
  <2>1. node[p].keys \in Seq(Keys)
    BY LeafIs
  <2>2. DOMAIN node[p].keys = 1 .. Len(node[p].keys)
    BY <2>1
  <2>3. QED
    BY <2>2 DEF ToSet
<1>6. ASSUME NEW k \in Contents
      PROVE  \E b \in 1 .. n : \E j \in 1 .. Len(node[l[b]].keys) : node[l[b]].keys[j] = k
  <2>1. PICK p \in LeafPages(numPages, height, depth) : k \in ToSet(node[p].keys)
    BY <1>2 DEF KeysHeld
  <2>2. PICK b \in 1 .. n : l[b] = p
    BY <1>3
  <2>3. PICK j \in 1 .. Len(node[p].keys) : node[p].keys[j] = k
    BY <1>5, <2>1
  <2>4. QED
    BY <2>2, <2>3
<1>7. ASSUME NEW b \in 1 .. n, NEW j \in 1 .. Len(node[l[b]].keys)
      PROVE  node[l[b]].keys[j] \in Contents
  <2>1. l[b] \in LeafPages(numPages, height, depth)
    BY <1>3
  <2>2. node[l[b]].keys[j] \in ToSet(node[l[b]].keys)
    BY <1>5, <2>1
  <2>3. QED
    BY <1>2, <2>1, <2>2 DEF KeysHeld
<1>8. QED
  BY <1>3, <1>4, <1>6, <1>7

\* The right sibling of a leaf is behind it in the chain and not empty: it is
\* not the root.
LEMMA NextLeafIs ==
  ASSUME NEW depth, NEW n, NEW l, NEW span, Standing(depth, n, l, span), damage = {},
         NEW a \in 1 .. n, node[l[a]].next # NoPage
  PROVE  a + 1 \in 1 .. n /\ node[l[a]].next = l[a + 1] /\ Len(node[l[a + 1]].keys) >= 1
<1> DEFINE p == l[a]
           q == l[a + 1]
<1>1. n \in Nat /\ a < n /\ node[l[a]].next = l[a + 1]
  BY ChainIs
<1>2. a + 1 \in 1 .. n /\ a < a + 1
  BY <1>1
<1>3. p \in LeafPages(numPages, height, depth) /\ q \in LeafPages(numPages, height, depth)
  BY <1>2, ChainIs
<1>4. /\ p \in Alive(numPages) /\ q \in Alive(numPages) /\ depth[p] = depth[q]
      /\ node[p].kids = <<>> /\ node[q].kids = <<>>
      /\ \A j \in 1 .. Len(node[p].keys) : node[p].keys[j] \in span[p]
      /\ \A j \in 1 .. Len(node[q].keys) : node[q].keys[j] \in span[q]
      /\ span[p] \in SUBSET Int /\ span[q] \in SUBSET Int
      /\ Len(node[p].keys) \in Nat /\ Len(node[q].keys) \in Nat
  <2> HIDE DEF p, q
  <2>1. QED
    BY <1>3, LeafIs
<1>5. p # q
  BY <1>2 DEF Standing, Shape, LeafChain
<1>6. /\ span[p] \cap span[q] = {} /\ span[root] = Int
      /\ \A r \in Alive(numPages) \ {root} : Len(node[r].keys) >= MinKeys(node[r])
  BY <1>4, <1>5 DEF Standing, Shape, Order, Spanned, Filled
<1>7. MinKeys(node[p]) >= 1 /\ MinKeys(node[q]) >= 1
  BY <1>4, BTreeAssumption DEF MinKeys
<1>8. q # root
  <2> SUFFICES ASSUME q = root PROVE FALSE
    OBVIOUS
  <2>1. Len(node[p].keys) >= MinKeys(node[p])
    BY <1>4, <1>5, <1>6
  <2>2. MinKeys(node[p]) \in Int
    BY <1>4, BTreeAssumption DEF MinKeys
  <2>3. 1 \in 1 .. Len(node[p].keys)
    BY <1>4, <1>7, <2>1, <2>2
  <2>4. node[p].keys[1] \in span[p] /\ node[p].keys[1] \in span[q]
    BY <1>4, <1>6, <2>3
  <2>5. QED
    BY <1>6, <2>4
<1>9. Len(node[q].keys) >= 1
  <2>1. Len(node[q].keys) >= MinKeys(node[q]) /\ MinKeys(node[q]) \in Int
    BY <1>4, <1>6, <1>8, BTreeAssumption DEF MinKeys
  <2>2. QED
    BY <1>4, <1>7, <2>1
<1>10. QED
  BY <1>1, <1>2, <1>9

-----------------------------------------------------------------------------
(***************************************************************************)
(* What follows a key in the index: the next key of its leaf, or the first *)
(* of the right sibling.                                                   *)
(***************************************************************************)
\* The index holds integers.
LEMMA ContentsInt ==
  ASSUME NEW depth, NEW n, NEW l, NEW span, Standing(depth, n, l, span), damage = {}
  PROVE  Contents \subseteq Int
<1>1. \A k \in Contents : \E b \in 1 .. n : \E j \in 1 .. Len(node[l[b]].keys) :
        node[l[b]].keys[j] = k
  BY ChainIs
<1>2. ASSUME NEW b \in 1 .. n, NEW j \in 1 .. Len(node[l[b]].keys)
      PROVE  node[l[b]].keys[j] \in Int
  <2>1. l[b] \in LeafPages(numPages, height, depth)
    BY ChainIs
  <2>2. QED
    BY <2>1, LeafIs
<1>3. QED
  BY <1>1, <1>2

\* The keys of a leaf are below those of the leaves behind it.
LEMMA BelowLater ==
  ASSUME NEW depth, NEW n, NEW l, NEW span, Standing(depth, n, l, span), damage = {},
         NEW a \in 1 .. n, NEW b \in 1 .. n, a < b,
         NEW i \in 1 .. Len(node[l[a]].keys), NEW j \in 1 .. Len(node[l[b]].keys)
  PROVE  node[l[a]].keys[i] < node[l[b]].keys[j]
<1>1. l[a] \in LeafPages(numPages, height, depth) /\ l[b] \in LeafPages(numPages, height, depth)
  BY ChainIs
<1>2. node[l[a]].keys[i] \in span[l[a]] /\ node[l[b]].keys[j] \in span[l[b]]
  BY <1>1, LeafIs
<1>3. \A x \in span[l[a]] : \A y \in span[l[b]] : x < y
  BY ChainIs
<1>4. QED
  BY <1>2, <1>3

\* A key that is not below all of a leaf's is not in a leaf before it.
LEMMA NotBefore ==
  ASSUME NEW depth, NEW n, NEW l, NEW span, Standing(depth, n, l, span), damage = {},
         NEW a \in 1 .. n, NEW k \in Contents,
         NEW x \in span[l[a]], x <= k
  PROVE  \E b \in 1 .. n : \E j \in 1 .. Len(node[l[b]].keys) :
           a <= b /\ node[l[b]].keys[j] = k
<1>1. \A m \in Contents : \E b \in 1 .. n : \E j \in 1 .. Len(node[l[b]].keys) :
        node[l[b]].keys[j] = m
  BY ChainIs
<1>2. PICK b \in 1 .. n : \E j \in 1 .. Len(node[l[b]].keys) : node[l[b]].keys[j] = k
  BY <1>1
<1>3. PICK j \in 1 .. Len(node[l[b]].keys) : node[l[b]].keys[j] = k
  BY <1>2
<1>4. l[a] \in LeafPages(numPages, height, depth) /\ l[b] \in LeafPages(numPages, height, depth)
  BY ChainIs
<1>5. k \in span[l[b]] /\ k \in Int
  BY <1>3, <1>4, LeafIs
<1>6. x \in Int
  <2>1. span[l[a]] \in SUBSET Int
    BY <1>4, LeafIs
  <2>2. QED
    BY <2>1
<1>7. b < a => \A y \in span[l[b]] : \A z \in span[l[a]] : y < z
  BY ChainIs
<1>8. b < a => k < x
  BY <1>5, <1>7
<1>9. a <= b
  BY <1>5, <1>6, <1>8
<1>10. QED
  BY <1>3, <1>9

\* No key is between two neighbours.
LEMMA NoneBetween ==
  ASSUME NEW s, Len(s) \in Nat, Sorted(s), \A j \in 1 .. Len(s) : s[j] \in Int,
         NEW e \in 1 .. Len(s), e + 1 \in 1 .. Len(s),
         NEW j \in 1 .. Len(s), s[j] > s[e]
  PROVE  s[e + 1] <= s[j]
<1>1. ~(j < e) /\ j # e
  BY DEF Sorted
<1>2. j = e + 1 \/ e + 1 < j
  BY <1>1
<1>3. QED
  BY <1>2 DEF Sorted

\* Within a leaf.
LEMMA FollowsInLeaf ==
  ASSUME NEW depth, NEW n, NEW l, NEW span, Standing(depth, n, l, span), damage = {},
         NEW a \in 1 .. n, NEW e \in 1 .. Len(node[l[a]].keys),
         e + 1 \in 1 .. Len(node[l[a]].keys)
  PROVE  LET s == node[l[a]].keys IN
           /\ s[e + 1] \in Contents /\ s[e] < s[e + 1]
           /\ \A k \in Contents : k > s[e] => s[e + 1] <= k
<1> DEFINE s == node[l[a]].keys
<1>1. l[a] \in LeafPages(numPages, height, depth)
  BY ChainIs
<1>2. /\ Sorted(s) /\ s[e] \in span[l[a]] /\ s[e] \in Int /\ s[e + 1] \in Int
      /\ Len(s) \in Nat
      /\ \A j \in 1 .. Len(s) : s[j] \in Int
  <2>1. Sorted(node[l[a]].keys) /\ Len(node[l[a]].keys) \in 0 .. leafOccupancy
    BY <1>1, LeafIs
  <2>2. \A j \in 1 .. Len(node[l[a]].keys) :
          node[l[a]].keys[j] \in span[l[a]] /\ node[l[a]].keys[j] \in Int
    BY <1>1, LeafIs
  <2>3. QED
    BY <2>1, <2>2
<1>3. s[e + 1] \in Contents
  BY ChainIs
<1>4. s[e] < s[e + 1]
  BY <1>2 DEF Sorted
<1>5. ASSUME NEW k \in Contents, k > s[e] PROVE s[e + 1] <= k
  <2>1. k \in Int
    BY ContentsInt
  <2>2. s[e] <= k
    BY <1>2, <1>5, <2>1
  <2> HIDE DEF s
  <2>3. PICK b \in 1 .. n : \E j \in 1 .. Len(node[l[b]].keys) :
               a <= b /\ node[l[b]].keys[j] = k
    <3>1. PICK x \in span[l[a]] : x <= k
      BY <1>2, <2>2
    <3>2. QED
      BY <3>1, NotBefore
  <2>4. PICK j \in 1 .. Len(node[l[b]].keys) : a <= b /\ node[l[b]].keys[j] = k
    BY <2>3
  <2>5. CASE a = b
    <3>1. j \in 1 .. Len(s) /\ s[j] = k
      BY <2>4, <2>5 DEF s
    <3>2. e \in 1 .. Len(s) /\ e + 1 \in 1 .. Len(s)
      BY DEF s
    <3>3. QED
      BY <1>2, <1>5, <3>1, <3>2, NoneBetween
  <2>6. CASE a # b
    <3>1. a < b
      BY <2>4, <2>6, ChainIs
    <3>2. s[e + 1] < node[l[b]].keys[j]
      BY <3>1, BelowLater DEF s
    <3>3. QED
      BY <1>2, <2>1, <2>4, <3>2
  <2>7. QED
    BY <2>5, <2>6
<1>6. QED
  BY <1>3, <1>4, <1>5

\* Behind the last key of a leaf.
LEMMA BehindLast ==
  ASSUME NEW depth, NEW n, NEW l, NEW span, Standing(depth, n, l, span), damage = {},
         NEW a \in 1 .. n, NEW x \in span[l[a]],
         NEW k \in Contents, x <= k, \A j \in 1 .. Len(node[l[a]].keys) : node[l[a]].keys[j] # k
  PROVE  node[l[a]].next # NoPage /\ node[node[l[a]].next].keys[1] <= k
<1>1. PICK b \in 1 .. n : \E j \in 1 .. Len(node[l[b]].keys) : a <= b /\ node[l[b]].keys[j] = k
  BY NotBefore
<1>2. PICK j \in 1 .. Len(node[l[b]].keys) : a <= b /\ node[l[b]].keys[j] = k
  BY <1>1
<1>3. n \in Nat /\ a < b
  BY <1>2, ChainIs
<1>4. a + 1 \in 1 .. n /\ a < n /\ l[a + 1] # NoPage
  <2>1. a + 1 \in 1 .. n /\ a < n
    BY <1>3
  <2>2. l[a + 1] \in LeafPages(numPages, height, depth)
    BY <2>1, ChainIs
  <2>3. QED
    BY <2>1, <2>2, LeafIs DEF PageIds, FirstLeaf, NoPage
<1>5. node[l[a]].next = l[a + 1] /\ node[l[a]].next # NoPage
  BY <1>4, ChainIs
<1>6. Len(node[l[a + 1]].keys) >= 1
  BY <1>5, NextLeafIs
<1> DEFINE s == node[l[a + 1]].keys
<1>7. l[a + 1] \in LeafPages(numPages, height, depth) /\ l[b] \in LeafPages(numPages, height, depth)
  BY <1>4, ChainIs
<1>8. /\ Len(s) \in Nat /\ Sorted(s) /\ \A i \in 1 .. Len(s) : s[i] \in Int
  <2>1. Len(node[l[a + 1]].keys) \in 0 .. leafOccupancy /\ Sorted(node[l[a + 1]].keys)
    BY <1>7, LeafIs
  <2>2. \A i \in 1 .. Len(node[l[a + 1]].keys) : node[l[a + 1]].keys[i] \in Int
    BY <1>7, LeafIs
  <2>3. QED
    BY <2>1, <2>2
<1>9. 1 \in 1 .. Len(s) /\ s[1] \in Int
  BY <1>6, <1>8
<1>10. k \in Int
  BY <1>2, <1>7, LeafIs
<1>11. CASE a + 1 = b
  <2>1. j \in 1 .. Len(s) /\ s[j] = k /\ (j = 1 \/ 1 < j)
    BY <1>2, <1>8, <1>11
  <2>2. s[1] <= k
    BY <1>8, <1>9, <1>10, <2>1 DEF Sorted
  <2>3. QED
    BY <1>5, <2>2
<1>12. CASE a + 1 # b
  <2>1. a + 1 < b
    BY <1>3, <1>12
  <2>2. node[l[a + 1]].keys[1] < node[l[b]].keys[j]
    BY <1>4, <1>9, <2>1, BelowLater
  <2>3. s[1] <= k
    BY <1>2, <1>9, <1>10, <2>2
  <2>4. QED
    BY <1>5, <2>3
<1>13. QED
  BY <1>11, <1>12

\* The first key of the right sibling is above what a leaf may hold.
LEMMA FirstOfNext ==
  ASSUME NEW depth, NEW n, NEW l, NEW span, Standing(depth, n, l, span), damage = {},
         NEW a \in 1 .. n, NEW x \in span[l[a]], node[l[a]].next # NoPage
  PROVE  LET q == node[l[a]].next IN
           /\ q \in LeafPages(numPages, height, depth)
           /\ 1 \in 1 .. Len(node[q].keys)
           /\ node[q].keys[1] \in Contents
           /\ x < node[q].keys[1]
<1>1. a + 1 \in 1 .. n /\ node[l[a]].next = l[a + 1] /\ Len(node[l[a + 1]].keys) >= 1
  BY NextLeafIs
<1>2. l[a + 1] \in LeafPages(numPages, height, depth)
  BY <1>1, ChainIs
<1>3. Len(node[l[a + 1]].keys) \in Nat
  BY <1>2, LeafIs
<1>4. 1 \in 1 .. Len(node[l[a + 1]].keys)
  BY <1>1, <1>3
<1>5. node[l[a + 1]].keys[1] \in Contents
  BY <1>1, <1>4, ChainIs
<1>6. node[l[a + 1]].keys[1] \in span[l[a + 1]]
  BY <1>2, <1>4, LeafIs
<1>7. \A y \in span[l[a]] : \A z \in span[l[a + 1]] : y < z
  <2>1. \A i, j \in 1 .. n : i < j => \A y \in span[l[i]] : \A z \in span[l[j]] : y < z
    BY ChainIs
  <2>2. a \in 1 .. n /\ a + 1 \in 1 .. n /\ a < a + 1
    BY <1>1
  <2>3. QED
    BY <2>1, <2>2
<1>8. x < node[l[a + 1]].keys[1]
  BY <1>6, <1>7
<1>9. QED
  BY <1>1, <1>2, <1>4, <1>5, <1>8

-----------------------------------------------------------------------------
(***************************************************************************)
(* The descent of startScan leads to the leaf the low bound belongs to, or *)
(* to the page that does not exist.                                        *)
(***************************************************************************)
\* The first slot a loop stops at.
LEMMA FirstSlot ==
  ASSUME NEW m \in Nat \ {0}, NEW S, m \in S
  PROVE  \E i \in 1 .. m : i \in S /\ \A j \in 1 .. i - 1 : j \notin S
<1> DEFINE T == S \cap (1 .. m)
<1>1. T \in SUBSET Int /\ m \in T
  OBVIOUS
<1>2. IsFiniteSet(T)
  <2>1. IsFiniteSet(1 .. m) /\ T \subseteq 1 .. m
    BY FS_Interval
  <2>2. QED
    BY <2>1, FS_Subset
<1>3. Min(T) \in T /\ \A y \in T : Min(T) <= y
  <2> HIDE DEF T
  <2>1. QED
    BY <1>1, <1>2, MinIs
<1>4. PICK i \in T : \A y \in T : i <= y
  BY <1>3
<1>5. ASSUME NEW j \in 1 .. i - 1 PROVE j \notin S
  <2>1. j \in 1 .. m /\ ~(i <= j)
    BY <1>4
  <2>2. QED
    BY <1>4, <2>1
<1>6. QED
  BY <1>4, <1>5

\* Whatever is in the slots behind the last key, the child startScan goes on
\* to is the one the low bound belongs to, if it is any.
LEMMA ChildSlot ==
  ASSUME NEW m \in NodeType, Len(m.kids) = Len(m.keys) + 1, Sorted(m.keys),
         Len(m.keys) <= nodeOccupancy, NEW low \in Int
  PROVE  /\ Child(m, low) \in {NoPage, m.kids[Pos(m, low) + 1]}
         /\ Pos(m, low) + 1 \in 1 .. Len(m.kids)
<1> DEFINE c == Len(m.keys)
           P == Pos(m, low)
           Is(i) == /\ SlotKey(m, i) >= low \/ i = nodeOccupancy
                    /\ \A j \in 1 .. i - 1 : SlotKey(m, j) < low
           at == CHOOSE i \in 1 .. nodeOccupancy : Is(i)
           p == SlotPage(m, IF SlotKey(m, at) > low THEN at ELSE at + 1)
<1>1. /\ m.keys \in Seq(Int) /\ m.kids \in Seq(PageIds) /\ c \in Nat
      /\ Len(m.kids) = c + 1 /\ nodeOccupancy \in Nat \ {0} /\ c <= nodeOccupancy
      /\ IntMax \in Int
  BY KeysInt, BTreeAssumption, ScanAssumption
<1>2. \A j \in 1 .. c : m.keys[j] \in Int
  BY <1>1
<1>3. \A j \in Nat : SlotKey(m, j) \in Int \/ j = 0
  BY <1>1, <1>2 DEF SlotKey
<1>4. P \in 0 .. c /\ \A j \in 1 .. c : m.keys[j] <= low <=> j <= P
  <2> HIDE DEF P, c
  <2>1. QED
    BY <1>1, PosIs DEF P, c
<1>5. \E i \in 1 .. nodeOccupancy : Is(i)
  <2> DEFINE S == {i \in 1 .. nodeOccupancy : SlotKey(m, i) >= low \/ i = nodeOccupancy}
  <2>1. nodeOccupancy \in S
    BY <1>1
  <2>2. PICK i \in 1 .. nodeOccupancy : i \in S /\ \A j \in 1 .. i - 1 : j \notin S
    <3> HIDE DEF S
    <3>1. QED
      BY <1>1, <2>1, FirstSlot
  <2>3. ASSUME NEW j \in 1 .. i - 1 PROVE SlotKey(m, j) < low
    <3>1. j \in 1 .. nodeOccupancy /\ j \notin S /\ j \in Nat /\ j # 0
      BY <1>1, <2>2
    <3>2. ~(SlotKey(m, j) >= low) /\ SlotKey(m, j) \in Int
      BY <1>3, <3>1
    <3>3. QED
      BY <3>2
  <2>4. QED
    BY <2>2, <2>3
<1>6. at \in 1 .. nodeOccupancy /\ Is(at)
  <2> HIDE DEF Is
  <2>1. QED
    BY <1>5
<1>7. Child(m, low) = IF p = NoPage THEN SlotPage(m, at) ELSE p
  BY DEF Child
<1> HIDE DEF at
<1>8. at \in Nat /\ at >= 1 /\ at <= nodeOccupancy
  BY <1>1, <1>6
<1>9. \A j \in 1 .. c + 1 : m.kids[j] \in PageIds /\ m.kids[j] # NoPage
  <2>1. \A j \in 1 .. Len(m.kids) : m.kids[j] \in PageIds
    BY <1>1
  <2>2. QED
    BY <1>1, <2>1 DEF PageIds, NoPage, FirstLeaf
<1>10. \A j \in Nat : SlotPage(m, j) = IF j <= c + 1 THEN m.kids[j] ELSE NoPage
  BY <1>1 DEF SlotPage
<1>11. CASE at <= c
  <2>1. /\ \A j \in 1 .. c : SlotKey(m, j) = m.keys[j]
        /\ at \in 1 .. c /\ at \in 1 .. c + 1 /\ m.keys[at] \in Int
    BY <1>1, <1>2, <1>8, <1>11 DEF SlotKey
  <2>2. CASE m.keys[at] > low
    <3>1. ~(at <= P)
      BY <1>4, <2>1, <2>2
    <3>2. at > 1 => at - 1 <= P
      <4> SUFFICES ASSUME at > 1 PROVE at - 1 <= P
        OBVIOUS
      <4>1. at - 1 \in 1 .. at - 1 /\ at - 1 \in 1 .. c
        BY <1>1, <1>8, <2>1
      <4>2. m.keys[at - 1] < low /\ m.keys[at - 1] \in Int
        BY <1>2, <1>6, <2>1, <4>1
      <4>3. m.keys[at - 1] <= low
        BY <4>2
      <4>4. QED
        BY <1>4, <4>1, <4>3
    <3>3. P + 1 = at
      BY <1>1, <1>4, <1>8, <3>1, <3>2
    <3>4. SlotPage(m, at) = m.kids[at] /\ p = SlotPage(m, at)
      BY <1>8, <1>10, <2>1, <2>2
    <3>5. QED
      BY <1>1, <1>7, <2>1, <3>3, <3>4
  <2>3. CASE ~(m.keys[at] > low)
    <3>1. at <= P
      BY <1>4, <2>1, <2>3
    <3>2. P = at
      <4> SUFFICES ASSUME P > at PROVE FALSE
        BY <1>4, <1>8, <3>1
      <4>1. at + 1 \in 1 .. c /\ at + 1 <= P /\ at < at + 1
        BY <1>1, <1>4, <1>8
      <4>2. m.keys[at] < m.keys[at + 1] /\ m.keys[at + 1] <= low /\ m.keys[at + 1] \in Int
        BY <1>2, <1>4, <2>1, <4>1 DEF Sorted
      <4>3. ~(m.keys[at] >= low)
        BY <2>1, <4>2
      <4>4. at = nodeOccupancy
        BY <1>6, <2>1, <4>3
      <4>5. QED
        BY <1>1, <4>1, <4>4
    <3>3. at + 1 \in 1 .. c + 1 /\ at + 1 \in Nat
      BY <1>1, <1>8, <2>1
    <3>4. p = m.kids[at + 1]
      BY <1>10, <2>1, <2>3, <3>3
    <3>5. p # NoPage
      BY <1>9, <3>3, <3>4
    <3>6. QED
      BY <1>1, <1>7, <3>2, <3>3, <3>4, <3>5
  <2>4. QED
    BY <2>2, <2>3
<1>12. CASE ~(at <= c)
  <2>1. P = c
    <3> SUFFICES ASSUME c >= 1 PROVE c <= P
      BY <1>1, <1>4
    <3>1. c \in 1 .. at - 1 /\ c \in 1 .. c
      BY <1>1, <1>8, <1>12
    <3>2. m.keys[c] < low /\ m.keys[c] \in Int
      BY <1>2, <1>6, <3>1 DEF SlotKey
    <3>3. m.keys[c] <= low
      BY <3>2
    <3>4. QED
      BY <1>4, <3>1, <3>3
  <2>2. SlotPage(m, at) \in {NoPage, m.kids[c + 1]}
    <3>1. at <= c + 1 => at = c + 1
      BY <1>1, <1>8, <1>12
    <3>2. QED
      BY <1>8, <1>10, <3>1
  <2>3. SlotPage(m, at + 1) = NoPage
    BY <1>1, <1>8, <1>10, <1>12
  <2>4. p \in {NoPage, m.kids[c + 1]}
    BY <2>2, <2>3
  <2>5. c + 1 \in 1 .. Len(m.kids)
    BY <1>1
  <2>6. QED
    BY <1>7, <2>1, <2>2, <2>4, <2>5
<1>13. QED
  BY <1>11, <1>12

\* The child is one level down and the low bound belongs to it, too.
LEMMA ChildLands ==
  ASSUME NEW depth, NEW n, NEW l, NEW span, Standing(depth, n, l, span),
         NEW low \in Int, NEW q \in Alive(numPages), node[q].kids # <<>>
  PROVE  \/ Child(node[q], low) = NoPage
         \/ /\ Child(node[q], low) \in Alive(numPages)
            /\ depth[Child(node[q], low)] = depth[q] + 1
            /\ low \in span[q] => low \in span[Child(node[q], low)]
<1> DEFINE m == node[q]
           P == Pos(m, low)
           c == m.kids[P + 1]
<1>1. /\ Forest(node, numPages, height, depth)
      /\ Filled(node, numPages, root, FALSE)
      /\ Spanned(node, numPages, depth, n, l, span)
  BY DEF Standing, Shape, Order
<1>2. q \in PageIds /\ height \in Nat
  BY <1>1, BTreeAssumption DEF Forest, Alive, PageIds, FirstLeaf
<1>3. m \in NodeType
  BY <1>1, <1>2 DEF Forest
<1>4. depth[q] \in 1 .. height /\ AtDepth(m, numPages, height, depth, depth[q])
  BY <1>1 DEF Forest
<1>5. depth[q] < height
  BY <1>2, <1>4 DEF AtDepth
<1>6. Len(m.kids) = Len(m.keys) + 1
  BY <1>4, <1>5 DEF AtDepth
<1>7. Ordered(m, span[q], span)
  BY <1>1 DEF Spanned
<1>8. Sorted(m.keys)
  BY <1>7 DEF Ordered
<1>9. Len(m.keys) <= nodeOccupancy /\ m.keys \in Seq(Int)
  <2>1. Len(m.keys) <= Occupancy(m) + 0
    BY <1>1, <1>2 DEF Filled
  <2>2. m.keys \in Seq(Int) /\ Len(m.keys) \in Nat
    BY <1>3, KeysInt
  <2>3. Occupancy(m) = nodeOccupancy /\ nodeOccupancy \in Nat
    BY BTreeAssumption DEF Occupancy
  <2>4. QED
    BY <2>1, <2>2, <2>3
<1> HIDE DEF m
<1>10. Child(m, low) \in {NoPage, c} /\ P + 1 \in 1 .. Len(m.kids)
  BY <1>3, <1>6, <1>8, <1>9, ChildSlot
<1>11. c \in Alive(numPages) /\ depth[c] = depth[q] + 1
  BY <1>4, <1>10 DEF AtDepth
<1>12. ASSUME low \in span[q] PROVE low \in span[c]
  <2>1. span[c] = {x \in span[q] : In(m.keys, P + 1, x)}
    BY <1>7, <1>10 DEF Ordered
  <2>2. In(m.keys, P + 1, low)
    BY <1>6, <1>8, <1>9, <1>10, PosIn
  <2>3. QED
    BY <1>12, <2>1, <2>2
<1>13. QED
  BY <1>10, <1>11, <1>12 DEF m

\* Each page of the descent is a node at its depth the low bound belongs to,
\* or the page that does not exist.
LEMMA DescentLands ==
  ASSUME NEW depth, NEW n, NEW l, NEW span, Standing(depth, n, l, span), NEW low \in Int
  PROVE  /\ DOMAIN Descent(low) = 1 .. height
         /\ \A i \in 1 .. height :
              \/ Descent(low)[i] = NoPage
              \/ /\ Descent(low)[i] \in Alive(numPages)
                 /\ depth[Descent(low)[i]] = i
                 /\ low \in span[Descent(low)[i]]
<1> DEFINE V == Alive(numPages) \cup {NoPage}
           child(q) == IF q = NoPage THEN NoPage ELSE Child(node[q], low)
           step == [q \in V |-> IF q # NoPage /\ node[q].kids = <<>> THEN q ELSE child(q)]
           IsPath(f) == f = [i \in 1 .. height |-> IF i = 1 THEN root ELSE child(f[i - 1])]
           Good(q, i) == \/ q = NoPage
                         \/ q \in Alive(numPages) /\ depth[q] = i /\ low \in span[q]
<1>1. /\ height \in Nat \ {0} /\ height - 1 \in Nat
      /\ root \in Alive(numPages) /\ depth[root] = 1 /\ span[root] = Int
      /\ Forest(node, numPages, height, depth)
  BY DEF Standing, Shape, Order, Forest
<1>2. NoPage \notin Alive(numPages)
  BY DEF NoPage, Alive, FirstLeaf
<1>3. \A q \in Alive(numPages) : depth[q] = height <=> node[q].kids = <<>>
  BY <1>1 DEF Forest, AtDepth
<1>4. ASSUME NEW q \in V, q # NoPage => node[q].kids # <<>>
      PROVE  child(q) \in V
  BY <1>4, ChildLands
<1>5. ASSUME NEW q \in V, NEW i \in 1 .. height, i # height, Good(q, i)
      PROVE  Good(child(q), i + 1) /\ step[q] = child(q)
  <2>1. CASE q = NoPage
    BY <2>1
  <2>2. CASE q # NoPage
    <3>1. q \in Alive(numPages) /\ depth[q] = i /\ low \in span[q] /\ node[q].kids # <<>>
      BY <1>3, <1>5, <2>2
    <3>2. child(q) = Child(node[q], low) /\ step[q] = child(q)
      BY <2>2, <3>1
    <3>3. Good(Child(node[q], low), i + 1)
      BY <3>1, ChildLands
    <3>4. QED
      BY <3>2, <3>3
  <2>3. QED
    BY <2>1, <2>2
<1>6. step \in [V -> V]
  BY <1>4
<1>7. PICK f \in [0 .. height - 1 -> V] : Iterates(f, step, root, height - 1)
  <2>1. root \in V
    BY <1>1
  <2> HIDE DEF V, step
  <2>2. QED
    BY <1>1, <1>6, <2>1, IterationExists
<1> HIDE DEF child
<1>8. \A i \in Nat : i <= height - 1 => Good(f[i], i + 1)
  <2> DEFINE S == {i \in Nat : i <= height - 1 => Good(f[i], i + 1)}
  <2>1. 0 \in S
    <3>1. f[0] = root
      BY <1>7 DEF Iterates
    <3>2. QED
      BY <1>1, <3>1
  <2>2. ASSUME NEW i \in Nat, i \in S PROVE i + 1 \in S
    <3> SUFFICES ASSUME i + 1 <= height - 1 PROVE Good(f[i + 1], (i + 1) + 1)
      OBVIOUS
    <3> HIDE DEF Good, step
    <3>1. /\ i \in 0 .. height - 1 /\ i + 1 \in 1 .. height - 1 /\ (i + 1) - 1 = i
          /\ i + 1 \in 1 .. height /\ i + 1 # height /\ i <= height - 1
      BY <1>1
    <3>2. f[i] \in V /\ Good(f[i], i + 1) /\ f[i + 1] = step[f[i]]
      BY <1>7, <2>2, <3>1 DEF Iterates
    <3>3. QED
      BY <1>5, <3>1, <3>2
  <2> HIDE DEF S
  <2>3. \A i \in Nat : i \in S
    BY <2>1, <2>2, SetInduction
  <2>4. QED
    BY <2>3 DEF S
<1> HIDE DEF Good, step
<1> DEFINE path == [i \in 1 .. height |-> f[i - 1]]
<1>9. ASSUME NEW i \in 1 .. height
      PROVE  Good(path[i], i) /\ path[i] = IF i = 1 THEN root ELSE child(path[i - 1])
  <2>1. i - 1 \in 0 .. height - 1 /\ i - 1 \in Nat /\ i - 1 <= height - 1 /\ (i - 1) + 1 = i
    BY <1>1
  <2>2. Good(path[i], i)
    BY <1>8, <2>1
  <2>3. CASE i = 1
    BY <1>7, <2>2, <2>3 DEF Iterates
  <2>4. CASE i # 1
    <3>1. /\ i - 1 \in 1 .. height /\ i - 1 \in 1 .. height - 1 /\ (i - 1) - 1 \in Nat
          /\ (i - 1) - 1 <= height - 1 /\ (i - 1) - 1 \in 0 .. height - 1 /\ i - 1 # height
          /\ ((i - 1) - 1) + 1 = i - 1
      BY <1>1, <2>4
    <3>2. f[i - 1] = step[f[(i - 1) - 1]] /\ f[(i - 1) - 1] \in V
      BY <1>7, <3>1 DEF Iterates
    <3>3. Good(f[(i - 1) - 1], i - 1)
      BY <1>8, <3>1
    <3>4. f[i - 1] = child(f[(i - 1) - 1])
      BY <1>5, <3>1, <3>2, <3>3
    <3>5. path[i] = f[i - 1] /\ path[i - 1] = f[(i - 1) - 1]
      BY <3>1
    <3>6. QED
      BY <2>2, <2>4, <3>4, <3>5
  <2>5. QED
    BY <2>2, <2>3, <2>4
<1>10. IsPath(path)
  BY <1>9
<1>11. IsPath(Descent(low))
  <2>1. Descent(low) = CHOOSE g : IsPath(g)
    BY DEF Descent, child
  <2> HIDE DEF IsPath
  <2>2. QED
    BY <1>10, <2>1
<1> HIDE DEF path
<1>12. \A i \in 1 .. height :
         Descent(low)[i] = IF i = 1 THEN root ELSE child(Descent(low)[i - 1])
  BY <1>11 DEF IsPath
<1>13. \A i \in Nat : i + 1 <= height => Descent(low)[i + 1] = path[i + 1]
  <2> DEFINE S == {i \in Nat : i + 1 <= height => Descent(low)[i + 1] = path[i + 1]}
  <2>1. 0 \in S
    <3>1. 1 \in 1 .. height
      BY <1>1
    <3>2. QED
      BY <1>9, <1>12, <3>1
  <2>2. ASSUME NEW i \in Nat, i \in S PROVE i + 1 \in S
    <3> SUFFICES ASSUME (i + 1) + 1 <= height
                 PROVE  Descent(low)[(i + 1) + 1] = path[(i + 1) + 1]
      OBVIOUS
    <3>1. (i + 1) + 1 \in 1 .. height /\ (i + 1) + 1 # 1 /\ ((i + 1) + 1) - 1 = i + 1
          /\ i + 1 <= height
      BY <1>1
    <3>2. Descent(low)[i + 1] = path[i + 1]
      BY <2>2, <3>1
    <3>3. QED
      BY <1>9, <1>12, <3>1, <3>2
  <2> HIDE DEF S
  <2>3. \A i \in Nat : i \in S
    BY <2>1, <2>2, SetInduction
  <2>4. QED
    BY <2>3 DEF S
<1>14. ASSUME NEW i \in 1 .. height PROVE Good(Descent(low)[i], i)
  <2>1. i - 1 \in Nat /\ (i - 1) + 1 = i /\ i <= height
    BY <1>1
  <2>2. Descent(low)[i] = path[i]
    BY <1>13, <2>1
  <2>3. QED
    BY <1>9, <2>2
<1>15. DOMAIN Descent(low) = 1 .. height
  BY <1>11 DEF IsPath
<1>16. QED
  BY <1>14, <1>15 DEF Good

-----------------------------------------------------------------------------
(***************************************************************************)
(* Where startScan lands.                                                  *)
(***************************************************************************)
\* Entry e of the leaf on page q.
OnEntry(q, e) ==
  q \in Alive(numPages) /\ node[q].kids = <<>> /\ e \in 1 .. Len(node[q].keys)

\* The lower end of a range.
Above(k, low, lop) == k > low \/ (k = low /\ lop = "GTE")

\* The loop over a leaf ends at the first entry that is wanted or beyond the
\* range, or behind the last.
LEMMA StopIs ==
  ASSUME NEW s \in Seq(Int), Len(s) <= leafOccupancy,
         NEW m, m.keys = s, NEW low \in Int, NEW high \in Int, NEW lop
  PROVE  LET i == StopsAt(m, low, lop, high) IN
           /\ i \in 1 .. leafOccupancy + 1
           /\ i > Len(s) \/ s[i] > high \/ Wanted(s[i], low, lop, high)
           /\ \A j \in 1 .. i - 1 : j <= Len(s) /\ s[j] <= high
                                    /\ ~Wanted(s[j], low, lop, high)
<1> DEFINE Ends(i) == i > Len(s) \/ s[i] > high \/ Wanted(s[i], low, lop, high)
           Is(i) == /\ \/ i > Len(m.keys)
                       \/ m.keys[i] > high
                       \/ Wanted(m.keys[i], low, lop, high)
                    /\ \A j \in 1 .. i - 1 : j <= Len(m.keys) /\ m.keys[j] <= high
                                             /\ ~Wanted(m.keys[j], low, lop, high)
           at == CHOOSE i \in 1 .. leafOccupancy + 1 : Is(i)
           S == {i \in 1 .. leafOccupancy + 1 : Ends(i)}
<1>1. leafOccupancy \in Nat /\ leafOccupancy + 1 \in Nat \ {0} /\ Len(s) \in Nat
  BY BTreeAssumption
<1>2. leafOccupancy + 1 \in S
  <2>1. leafOccupancy + 1 > Len(s) /\ leafOccupancy + 1 \in 1 .. leafOccupancy + 1
    BY <1>1
  <2>2. QED
    BY <2>1
<1>3. PICK i \in 1 .. leafOccupancy + 1 : i \in S /\ \A j \in 1 .. i - 1 : j \notin S
  <2> HIDE DEF S
  <2>1. QED
    BY <1>1, <1>2, FirstSlot
<1>4. ASSUME NEW j \in 1 .. i - 1
      PROVE  j <= Len(s) /\ s[j] <= high /\ ~Wanted(s[j], low, lop, high)
  <2>1. j \in 1 .. leafOccupancy + 1
    BY <1>1
  <2>2. ~Ends(j)
    BY <1>3, <2>1
  <2>3. j <= Len(s)
    BY <1>1, <2>2
  <2>4. s[j] \in Int
    BY <2>3
  <2>5. QED
    BY <2>2, <2>3, <2>4
<1>5. Is(i)
  BY <1>3, <1>4
<1>6. at \in 1 .. leafOccupancy + 1 /\ Is(at)
  <2> HIDE DEF Is
  <2>1. QED
    BY <1>5
<1>7. at = StopsAt(m, low, lop, high)
  BY DEF StopsAt
<1> HIDE DEF at
<1>8. QED
  BY <1>6, <1>7

\* A key of the range is at the entry the loop over the leaf of the low bound
\* ends at or behind it, or from the right sibling on if it ends behind the
\* last.
LEMMA NoneBeforeStop ==
  ASSUME NEW depth, NEW n, NEW l, NEW span, Standing(depth, n, l, span), damage = {},
         NEW low \in Int, NEW high \in Int, NEW lop \in {"GT", "GTE"},
         NEW a \in 1 .. n, low \in span[l[a]],
         NEW i, i = StopsAt(node[l[a]], low, lop, high),
         NEW k \in Contents, Above(k, low, lop), k < high
  PROVE  LET m == node[l[a]] IN
           IF i <= Len(m.keys) THEN m.keys[i] <= k
           ELSE m.next # NoPage /\ node[m.next].keys[1] <= k
<1> DEFINE m == node[l[a]]
           s == m.keys
<1>1. l[a] \in LeafPages(numPages, height, depth)
  BY ChainIs
<1>2. /\ s \in Seq(Int) /\ Len(s) \in 0 .. leafOccupancy /\ Sorted(s)
      /\ \A j \in 1 .. Len(s) : s[j] \in span[l[a]] /\ s[j] \in Int
  BY <1>1, LeafIs
<1>3. k \in Int /\ low <= k
  <2>1. k \in Int
    BY ContentsInt
  <2>2. QED
    BY <2>1 DEF Above
<1>4. Len(s) \in Nat /\ Len(s) <= leafOccupancy
  BY <1>2, BTreeAssumption
<1>5. /\ i \in 1 .. leafOccupancy + 1
      /\ \A j \in 1 .. i - 1 : j <= Len(s) /\ s[j] <= high /\ ~Wanted(s[j], low, lop, high)
  <2> HIDE DEF m
  <2>1. QED
    BY <1>2, <1>4, StopIs DEF m
<1>6. i \in Nat /\ i >= 1
  BY <1>5, BTreeAssumption
<1>7. Wanted(k, low, lop, high)
  BY DEF Above, Wanted
<1>8. CASE \E j \in 1 .. Len(s) : s[j] = k
  <2>1. PICK j \in 1 .. Len(s) : s[j] = k
    BY <1>8
  <2>2. ~(j < i)
    <3>1. j < i => j \in 1 .. i - 1
      BY <1>4, <1>6
    <3>2. QED
      BY <1>5, <1>7, <2>1, <3>1
  <2>3. i \in 1 .. Len(s) /\ (i = j \/ i < j)
    BY <1>4, <1>6, <2>2
  <2>4. s[i] <= k
    <3>1. CASE i = j
      BY <1>2, <2>1, <2>3, <3>1
    <3>2. CASE i < j
      <4> HIDE DEF s
      <4>1. s[i] < s[j] /\ s[i] \in Int /\ s[j] = k
        BY <1>2, <2>1, <2>3, <3>2 DEF Sorted
      <4>2. QED
        BY <1>3, <4>1
    <3>3. QED
      BY <2>3, <3>1, <3>2
  <2>5. QED
    BY <1>4, <2>3, <2>4
<1>9. CASE ~(\E j \in 1 .. Len(s) : s[j] = k)
  <2>1. m.next # NoPage /\ node[m.next].keys[1] <= k
    BY <1>3, <1>9, BehindLast
  <2>2. ASSUME i <= Len(s) PROVE s[i] <= k
    <3>1. i \in 1 .. Len(s)
      BY <1>4, <1>6, <2>2
    <3>2. s[i] \in span[l[a]] /\ s[i] \in Int
      BY <1>2, <3>1
    <3>3. m.next \in LeafPages(numPages, height, depth) /\ 1 \in 1 .. Len(node[m.next].keys)
      BY <2>1, <3>2, FirstOfNext
    <3>4. s[i] < node[m.next].keys[1]
      BY <2>1, <3>2, FirstOfNext
    <3>5. node[m.next].keys[1] \in Int
      BY <3>3, LeafIs
    <3>6. QED
      BY <1>3, <2>1, <3>2, <3>4, <3>5
  <2>3. QED
    BY <2>1, <2>2
<1>10. QED
  BY <1>8, <1>9

\* startScan lands on a page, and if it does not throw on an entry of a leaf
\* that is above the low bound and behind which the rest of the range is.
LEMMA LandingIs ==
  ASSUME TreeInv, NEW low \in Bounds, NEW high \in Bounds, NEW lop \in {"GT", "GTE"},
         NEW q, q = Landing(low, lop, high)[1], NEW e, e = Landing(low, lop, high)[2]
  PROVE  /\ q \in Pages
         /\ e # Done => /\ OnEntry(q, e)
                        /\ Above(node[q].keys[e], low, lop)
                        /\ \A k \in Contents : Above(k, low, lop) /\ k < high
                             => node[q].keys[e] <= k
<1>1. PICK depth, n, l, span : Standing(depth, n, l, span)
  BY StandingExists
<1>2. damage = {} /\ low \in Int /\ high \in Int
  BY ScanAssumption DEF TreeInv
<1> DEFINE p == Descent(low)[height]
           m == node[p]
           s == m.keys
           i == StopsAt(m, low, lop, high)
<1>3. Forest(node, numPages, height, depth)
  BY <1>1 DEF Standing, Shape
<1>4. height \in 1 .. height /\ Alive(numPages) \subseteq Pages /\ NoPage \in Pages
  BY <1>3, BTreeAssumption DEF Forest, Alive, Pages, NoPage, FirstLeaf
<1>5. p = NoPage \/ (p \in Alive(numPages) /\ depth[p] = height /\ low \in span[p])
  BY <1>1, <1>2, <1>4, DescentLands
<1>6. Landing(low, lop, high) =
        IF p = NoPage THEN <<NoPage, Done>>
        ELSE IF Throws(m, i, high) THEN <<p, Done>>
        ELSE IF i <= Len(s) THEN <<p, i>> ELSE <<m.next, 1>>
  BY DEF Landing
<1> HIDE DEF p, i
<1>7. CASE p = NoPage
  BY <1>4, <1>6, <1>7
<1>8. CASE p # NoPage /\ Throws(m, i, high)
  <2>1. q = p /\ e = Done
    BY <1>6, <1>8
  <2>2. QED
    BY <1>4, <1>5, <1>8, <2>1
<1>9. CASE p # NoPage /\ ~Throws(m, i, high)
  <2>1. p \in LeafPages(numPages, height, depth) /\ low \in span[p]
    BY <1>5, <1>9 DEF LeafPages
  <2>2. PICK a \in 1 .. n : l[a] = p
    BY <1>1, <1>2, <2>1, ChainIs
  <2>3. /\ p \in Alive(numPages) /\ m.kids = <<>> /\ s \in Seq(Int)
        /\ Len(s) \in 0 .. leafOccupancy /\ \A j \in 1 .. Len(s) : s[j] \in Int
    BY <1>1, <2>1, LeafIs
  <2>4. Len(s) \in Nat /\ Len(s) <= leafOccupancy
    BY <2>3, BTreeAssumption
  <2>5. /\ i \in 1 .. leafOccupancy + 1
        /\ i > Len(s) \/ s[i] > high \/ Wanted(s[i], low, lop, high)
    <3> HIDE DEF m
    <3>1. QED
      BY <1>2, <2>3, <2>4, StopIs DEF i, m
  <2>6. i \in Nat /\ i >= 1
    BY <2>5, BTreeAssumption
  <2>7. \A k \in Contents : Above(k, low, lop) /\ k < high =>
          IF i <= Len(s) THEN s[i] <= k ELSE m.next # NoPage /\ node[m.next].keys[1] <= k
    BY <1>1, <1>2, <2>1, <2>2, NoneBeforeStop DEF i
  <2>8. CASE i <= Len(s)
    <3>1. q = p /\ e = i
      BY <1>6, <1>9, <2>8
    <3>2. i \in 1 .. Len(s)
      BY <2>4, <2>6, <2>8
    <3>3. OnEntry(q, e)
      BY <2>3, <3>1, <3>2 DEF OnEntry
    <3>4. ~(s[i] > high)
      <4>1. i <= leafOccupancy /\ LeafKey(m, i) = s[i]
        BY <2>3, <2>4, <2>6, <2>8, BTreeAssumption DEF LeafKey
      <4>2. QED
        BY <1>9, <4>1 DEF Throws
    <3>5. Wanted(s[i], low, lop, high)
      BY <2>4, <2>5, <2>6, <2>8, <3>4
    <3>6. Above(s[i], low, lop)
      BY <3>5 DEF Above, Wanted
    <3>7. \A k \in Contents : Above(k, low, lop) /\ k < high => s[i] <= k
      BY <2>7, <2>8
    <3>8. q \in Pages
      BY <1>4, <2>3, <3>1
    <3>9. QED
      BY <3>1, <3>3, <3>6, <3>7, <3>8
  <2>9. CASE ~(i <= Len(s))
    <3>1. q = m.next /\ e = 1
      BY <1>6, <1>9, <2>9
    <3>2. m.next # NoPage
      BY <1>9, <2>4, <2>6, <2>9 DEF Throws
    <3>3. /\ q \in LeafPages(numPages, height, depth)
          /\ 1 \in 1 .. Len(node[q].keys)
          /\ low < node[q].keys[1]
      BY <1>1, <1>2, <2>1, <2>2, <3>1, <3>2, FirstOfNext
    <3>4. q \in Alive(numPages) /\ node[q].kids = <<>> /\ node[q].keys[1] \in Int
      BY <1>1, <3>3, LeafIs
    <3>5. OnEntry(q, e)
      BY <3>1, <3>3, <3>4 DEF OnEntry
    <3>6. Above(node[q].keys[e], low, lop)
      BY <1>2, <3>1, <3>3, <3>4 DEF Above
    <3>7. \A k \in Contents : Above(k, low, lop) /\ k < high => node[q].keys[e] <= k
      BY <2>7, <2>9, <3>1
    <3>8. q \in Pages
      BY <1>4, <3>4
    <3>9. QED
      BY <3>5, <3>6, <3>7, <3>8
  <2>10. QED
    BY <2>8, <2>9
<1>10. QED
  BY <1>7, <1>8, <1>9

\* The pages startScan reads on its way are pages of the file, or the one
\* that does not exist.
LEMMA DescentPages ==
  ASSUME TreeInv, NEW low \in Bounds
  PROVE  ToSet(Descent(low)) \subseteq Pages
<1>1. PICK depth, n, l, span : Standing(depth, n, l, span)
  BY StandingExists
<1>2. low \in Int
  BY ScanAssumption
<1>3. Alive(numPages) \subseteq Pages /\ NoPage \in Pages
  <2>1. Forest(node, numPages, height, depth)
    BY <1>1 DEF Standing, Shape
  <2>2. QED
    BY <2>1, BTreeAssumption DEF Forest, Alive, Pages, NoPage, FirstLeaf
<1>4. \A i \in 1 .. height : Descent(low)[i] \in Pages
  BY <1>1, <1>2, <1>3, DescentLands
<1>5. DOMAIN Descent(low) = 1 .. height
  BY <1>1, <1>2, DescentLands
<1>6. QED
  BY <1>4, <1>5 DEF ToSet

-----------------------------------------------------------------------------
(***************************************************************************)
(* The inductive invariant of the scan: the tree has its shape and order,  *)
(* and a scan that is ready for scanNext is on an entry of a leaf.  What   *)
(* insertions do to other nodes does not move it.                          *)
(***************************************************************************)
RangeInv ==
  /\ lowVal \in Bounds /\ highVal \in Bounds
  /\ lowOp \in {"GT", "GTE"} /\ highOp \in {"LT", "LTE"}

ReadyInv ==
  /\ currentPageNum \in Pages
  /\ scanExecuting /\ nextEntry # Done /\ pins[currentPageNum] > 0 /\ ~moved
       => OnEntry(currentPageNum, nextEntry)

ScanInv == PinInv /\ TreeInv /\ RangeInv /\ ReadyInv

\* The operations of the scan leave the tree alone.
LEMMA TreeStays ==
  ASSUME UNCHANGED vars
  PROVE  /\ TreeInv => TreeInv'
         /\ Contents' = Contents
         /\ \A q, e : OnEntry(q, e) => OnEntry(q, e)'
<1>1. TreeInv => TreeInv'
  BY DEF vars, TreeInv, IInv
<1>2. Contents' = Contents
  BY DEF vars, Contents, Leaves, Chain
<1>3. \A q, e : OnEntry(q, e) => OnEntry(q, e)'
  BY DEF vars, OnEntry
<1>4. QED
  BY <1>1, <1>2, <1>3

\* No pin of the page the scan is on: there is nothing it is ready for.
LEMMA NotReady ==
  ASSUME NoPin(pins'), currentPageNum' \in Pages
  PROVE  ReadyInv'
BY DEF NoPin, ReadyInv, Pages

\* startScan in its four outcomes.
LEMMA StartScanReady ==
  ASSUME ScanInv, NEW low \in Bounds, NEW high \in Bounds,
         NEW lop \in {"GT", "GTE"}, NEW hop \in {"LT", "LTE"},
         \/ StartScan(low, lop, high, hop)
         \/ StartScanExceeded(low, lop, high, hop)
         \/ StartScanBadRange(low, lop, high, hop)
         \/ StartScanAdrift(low, lop, high, hop)
  PROVE  TreeInv' /\ RangeInv' /\ ReadyInv'
<1>1. PinInv /\ TreeInv /\ RangeInv /\ ReadyInv
  BY DEF ScanInv
<1>2. UNCHANGED vars
  BY DEF StartScan, StartScanExceeded, StartScanBadRange, StartScanAdrift
<1>3. RangeInv'
  BY DEF StartScan, StartScanExceeded, StartScanBadRange, StartScanAdrift, SetRange, RangeInv
<1>4. TreeInv'
  BY <1>1, <1>2, TreeStays
<1> DEFINE landing == Landing(low, lop, high)
<1>5. landing[1] \in Pages /\ (landing[2] # Done => OnEntry(landing[1], landing[2]))
  BY <1>1, LandingIs
<1> HIDE DEF landing
<1>6. CASE StartScan(low, lop, high, hop)
  <2>1. PICK q, e : q = landing[1] /\ e = landing[2]
    OBVIOUS
  <2>2. currentPageNum' = q /\ nextEntry' = e
    BY <1>6, <2>1 DEF StartScan, landing
  <2>3. e # Done => OnEntry(q, e)'
    BY <1>2, <1>5, <2>1, TreeStays
  <2>4. e # Done => OnEntry(currentPageNum, nextEntry)'
    BY <2>2, <2>3 DEF OnEntry
  <2>5. ReadyInv'
    BY <1>5, <2>1, <2>2, <2>4 DEF ReadyInv
  <2>6. QED
    BY <1>3, <1>4, <2>5
<1>7. CASE StartScanExceeded(low, lop, high, hop)
  <2>1. NoPin(pins')
    BY <1>1, <1>7, HeldNone DEF StartScanExceeded
  <2>2. \/ currentPageNum' \in {HeaderPage} \cup ToSet(Descent(low))
        \/ currentPageNum' = landing[1]
    BY <1>7 DEF StartScanExceeded, landing
  <2>3. HeaderPage \in Pages
    BY BTreeAssumption DEF HeaderPage, Pages, NoPage
  <2>4. ToSet(Descent(low)) \subseteq Pages
    BY <1>1, DescentPages
  <2>5. currentPageNum' \in Pages
    BY <1>5, <2>2, <2>3, <2>4
  <2>6. QED
    BY <1>3, <1>4, <2>1, <2>5, NotReady
<1>8. CASE StartScanBadRange(low, lop, high, hop)
  <2>1. UNCHANGED <<scanExecuting, currentPageNum, nextEntry, pins, moved>>
    BY <1>8 DEF StartScanBadRange
  <2>2. OnEntry(currentPageNum, nextEntry) => OnEntry(currentPageNum, nextEntry)'
    BY <1>2, <2>1 DEF OnEntry, vars
  <2>3. ReadyInv'
    BY <1>1, <2>1, <2>2 DEF ReadyInv
  <2>4. QED
    BY <1>3, <1>4, <2>3
<1>9. CASE StartScanAdrift(low, lop, high, hop)
  <2>1. ~scanExecuting' /\ currentPageNum' = currentPageNum
    BY <1>9 DEF StartScanAdrift
  <2>2. ReadyInv'
    BY <1>1, <2>1 DEF ReadyInv
  <2>3. QED
    BY <1>3, <1>4, <2>2
<1>10. QED
  BY <1>6, <1>7, <1>8, <1>9

\* What scanNext goes on to from the entry it is on.
LEMMA EntryIs ==
  ASSUME TreeInv, ReadyInv, Ready
  PROVE  \E depth, n, l, span :
           /\ Standing(depth, n, l, span)
           /\ \E a \in 1 .. n : l[a] = currentPageNum
           /\ currentPageNum \in LeafPages(numPages, height, depth)
           /\ nextEntry \in 1 .. Len(Leaf.keys)
<1>1. OnEntry(currentPageNum, nextEntry)
  BY DEF ReadyInv, Ready
<1>2. PICK depth, n, l, span : Standing(depth, n, l, span)
  BY StandingExists
<1>3. Forest(node, numPages, height, depth)
  BY <1>2 DEF Standing, Shape
<1>4. currentPageNum \in LeafPages(numPages, height, depth)
  BY <1>1, <1>3 DEF OnEntry, Forest, AtDepth, LeafPages
<1>5. \E a \in 1 .. n : l[a] = currentPageNum
  BY <1>2, <1>4, ChainIs DEF TreeInv
<1>6. nextEntry \in 1 .. Len(Leaf.keys)
  BY <1>1 DEF OnEntry, Leaf
<1>7. QED
  BY <1>2, <1>4, <1>5, <1>6

\* scanNext goes on to an entry of its leaf or of the right sibling, is done,
\* or loses its page.
LEMMA ScanNextReady ==
  ASSUME ScanInv, ScanNext
  PROVE  TreeInv' /\ RangeInv' /\ ReadyInv'
<1>1. PinInv /\ TreeInv /\ RangeInv /\ ReadyInv /\ Ready /\ damage = {}
  BY DEF ScanInv, ScanNext, TreeInv
<1>2. UNCHANGED vars /\ UNCHANGED <<range, scanExecuting, moved>>
  BY DEF ScanNext
<1>3. TreeInv'
  BY <1>1, <1>2, TreeStays
<1>4. RangeInv'
  BY <1>1, <1>2 DEF RangeInv, range
<1>5. PICK depth, n, l, span :
        /\ Standing(depth, n, l, span)
        /\ \E a \in 1 .. n : l[a] = currentPageNum
        /\ currentPageNum \in LeafPages(numPages, height, depth)
        /\ nextEntry \in 1 .. Len(Leaf.keys)
  BY <1>1, EntryIs
<1>6. PICK a \in 1 .. n : l[a] = currentPageNum
  BY <1>5
<1>7. /\ currentPageNum \in Alive(numPages) /\ node[currentPageNum].kids = <<>>
      /\ Len(Leaf.keys) \in 0 .. leafOccupancy /\ Len(Leaf.keys) \in Nat
      /\ Leaf.keys \in Seq(Int) /\ nextEntry \in 1 .. Len(Leaf.keys)
      /\ Leaf.keys[nextEntry] \in span[currentPageNum]
  <2>1. /\ currentPageNum \in Alive(numPages) /\ node[currentPageNum].kids = <<>>
        /\ Leaf.keys \in Seq(Int) /\ Len(Leaf.keys) \in 0 .. leafOccupancy
    BY <1>5, LeafIs DEF Leaf
  <2>2. Leaf.keys[nextEntry] \in span[currentPageNum]
    BY <1>5, LeafIs DEF Leaf
  <2>3. QED
    BY <1>5, <2>1, <2>2
<1>8. Alive(numPages) \subseteq Pages
  <2>1. Forest(node, numPages, height, depth)
    BY <1>5 DEF Standing, Shape
  <2>2. QED
    BY <2>1, BTreeAssumption DEF Forest, Alive, Pages, NoPage, FirstLeaf
<1>9. CASE NextInLeaf
  <2>1. currentPageNum' = currentPageNum /\ pins' = pins
    BY <1>9 DEF NextInLeaf
  <2>2. nextEntry' = Done \/ nextEntry' = nextEntry + 1
    BY <1>9 DEF NextInLeaf
  <2>3. nextEntry + 1 \in 1 .. Len(node[currentPageNum].keys)
    BY <1>7, <1>9 DEF NextInLeaf, Leaf
  <2>4. nextEntry' # Done => OnEntry(currentPageNum, nextEntry)'
    BY <1>2, <1>7, <2>1, <2>2, <2>3 DEF OnEntry, vars
  <2>5. ReadyInv'
    BY <1>1, <2>1, <2>4 DEF ReadyInv
  <2>6. QED
    BY <1>3, <1>4, <2>5
<1>10. CASE NextNone
  <2>1. nextEntry' = Done /\ currentPageNum' = currentPageNum
    BY <1>10 DEF NextNone
  <2>2. ReadyInv'
    BY <1>1, <2>1 DEF ReadyInv
  <2>3. QED
    BY <1>3, <1>4, <2>2
<1>11. ASSUME Leaf.next # NoPage
       PROVE  Leaf.next \in Alive(numPages) /\ OnEntry(Leaf.next, 1)
  <2>1. node[l[a]].next = Leaf.next /\ node[l[a]].next # NoPage
        /\ Leaf.keys[nextEntry] \in span[l[a]]
    BY <1>6, <1>7, <1>11 DEF Leaf
  <2>2. /\ Leaf.next \in LeafPages(numPages, height, depth)
        /\ 1 \in 1 .. Len(node[Leaf.next].keys)
    BY <1>1, <1>5, <2>1, FirstOfNext
  <2>3. Leaf.next \in Alive(numPages) /\ node[Leaf.next].kids = <<>>
    BY <1>5, <2>2, LeafIs
  <2>4. QED
    BY <2>2, <2>3 DEF OnEntry
<1>12. CASE NextLeaf
  <2>1. PICK q : q = Leaf.next
    OBVIOUS
  <2>2. q \in Alive(numPages) /\ OnEntry(q, 1)
    BY <1>11, <1>12, <2>1 DEF NextLeaf
  <2>3. currentPageNum' = q /\ nextEntry' \in {1, Done}
    BY <1>12, <2>1 DEF NextLeaf
  <2>4. OnEntry(q, 1)'
    BY <1>2, <2>2, TreeStays
  <2>5. nextEntry' # Done => OnEntry(currentPageNum, nextEntry)'
    BY <2>3, <2>4 DEF OnEntry
  <2>6. ReadyInv'
    BY <1>8, <2>2, <2>3, <2>5 DEF ReadyInv
  <2>7. QED
    BY <1>3, <1>4, <2>6
<1>13. CASE NextLeafExceeded
  <2>1. currentPageNum' \in Pages
    BY <1>8, <1>11, <1>13 DEF NextLeafExceeded
  <2>2. NoPin(pins')
    BY <1>1, <1>13, EndUnpins DEF NextLeafExceeded, Ready
  <2>3. QED
    BY <1>3, <1>4, <2>1, <2>2, NotReady
<1>14. QED
  BY <1>9, <1>10, <1>12, <1>13 DEF ScanNext

\* A scan that has ended is ready for nothing.
LEMMA EndScanReady ==
  ASSUME ScanInv, EndScan
  PROVE  TreeInv' /\ RangeInv' /\ ReadyInv'
<1>1. TreeInv /\ RangeInv /\ ReadyInv
  BY DEF ScanInv
<1>2. /\ UNCHANGED vars /\ UNCHANGED <<range, currentPageNum>> /\ ~scanExecuting'
  BY DEF EndScan
<1>3. TreeInv'
  BY <1>1, <1>2, TreeStays
<1>4. RangeInv'
  BY <1>1, <1>2 DEF RangeInv, range
<1>5. ReadyInv'
  BY <1>1, <1>2 DEF ReadyInv
<1>6. QED
  BY <1>3, <1>4, <1>5

\* A page stays alive while pages are added.
LEMMA AliveGrows ==
  ASSUME NEW before \in Int, NEW after \in Int, before <= after, NEW q \in Alive(before)
  PROVE  q \in Alive(after)
BY DEF Alive, FirstLeaf

\* An insertion keeps the tree's shape and order; the leaf the scan is on is
\* as it was, or the scan has moved.
LEMMA InsertReady ==
  ASSUME ScanInv, NEW k \in Keys, Insert(k)
  PROVE  TreeInv' /\ RangeInv' /\ ReadyInv'
<1>1. TreeInv /\ RangeInv /\ ReadyInv /\ IInv /\ damage = {}
  BY DEF ScanInv, TreeInv
<1>2. k \notin Contents /\ (InsertInside(k) \/ InsertAbove(k)) /\ "overfull" \notin damage
  BY <1>1 DEF Insert
<1>3. IInv'
  BY <1>1, <1>2, StepInv, AboveInv
<1>4. damage' = {}
  BY <1>1, <1>2 DEF InsertInside, InsertAbove
<1>5. TreeInv'
  BY <1>3, <1>4 DEF TreeInv
<1>6. UNCHANGED <<range, scanExecuting, currentPageNum, nextEntry, pins>>
  BY DEF Insert, scan
<1>7. RangeInv'
  BY <1>1, <1>6 DEF RangeInv, range
<1>8. PICK depth, n, l, span : Standing(depth, n, l, span)
  BY <1>1, StandingExists
<1>9. height \in Nat \ {0} /\ numPages \in FirstLeaf + 1 .. MaxPages + 1
  BY <1>8 DEF Standing, Shape, Forest
<1>10. numPages' \in Int /\ numPages <= numPages'
  <2>1. CASE InsertAbove(k)
    BY <1>9, <2>1 DEF InsertAbove, FirstLeaf
  <2>2. CASE InsertInside(k)
    <3>1. PICK path : path = Path(k)
      OBVIOUS
    <3>2. Cardinality({i \in 1 .. height : Splits(path, i)}) \in 0 .. height
      BY <1>9, SplitSet
    <3>3. numPages' = numPages + Cardinality({i \in 1 .. height : Splits(path, i)})
      BY <2>2, <3>1 DEF InsertInside
    <3>4. QED
      BY <1>9, <3>2, <3>3 DEF FirstLeaf
  <2>3. QED
    BY <1>2, <2>1, <2>2
<1>11. ASSUME OnEntry(currentPageNum, nextEntry), scanExecuting, ~moved'
       PROVE  OnEntry(currentPageNum, nextEntry)'
  <2>1. currentPageNum \in Alive(numPages) /\ currentPageNum \in PageIds
    BY <1>9, <1>11, BTreeAssumption DEF OnEntry, Alive, PageIds, FirstLeaf
  <2>2. node'[currentPageNum] = node[currentPageNum]
    BY <1>11, <2>1 DEF Insert, Leaf
  <2>3. currentPageNum \in Alive(numPages')
    <3>1. numPages \in Int
      BY <1>9, BTreeAssumption DEF FirstLeaf
    <3>2. QED
      BY <1>10, <2>1, <3>1, AliveGrows
  <2>4. QED
    BY <1>6, <1>11, <2>2, <2>3 DEF OnEntry
<1>12. moved => moved'
  BY DEF Insert
<1>13. ReadyInv'
  BY <1>1, <1>6, <1>11, <1>12 DEF ReadyInv
<1>14. QED
  BY <1>5, <1>7, <1>13

\* Every step keeps the invariant of the scan.
LEMMA NextScan == ScanInv /\ [ScanStep]_svars => ScanInv'
<1> SUFFICES ASSUME ScanInv, [ScanStep]_svars
             PROVE  ScanInv'
  OBVIOUS
<1>1. PinInv'
  BY NextPins DEF ScanInv
<1>2. ASSUME NEW low \in Bounds, NEW high \in Bounds,
             NEW lop \in {"GT", "GTE"}, NEW hop \in {"LT", "LTE"},
             \/ StartScan(low, lop, high, hop)
             \/ StartScanExceeded(low, lop, high, hop)
             \/ StartScanBadRange(low, lop, high, hop)
             \/ StartScanAdrift(low, lop, high, hop)
      PROVE  TreeInv' /\ RangeInv' /\ ReadyInv'
  BY <1>2, StartScanReady
<1>3. CASE ScanNext
  BY <1>1, <1>3, ScanNextReady DEF ScanInv
<1>4. CASE EndScan
  BY <1>1, <1>4, EndScanReady DEF ScanInv
<1>5. ASSUME NEW k \in Keys, Insert(k) PROVE TreeInv' /\ RangeInv' /\ ReadyInv'
  BY <1>5, InsertReady
<1>6. CASE UNCHANGED svars
  <2>1. UNCHANGED vars /\ UNCHANGED scan /\ UNCHANGED moved
    BY <1>6 DEF svars
  <2>2. TreeInv'
    BY <2>1, TreeStays DEF ScanInv
  <2>3. RangeInv'
    BY <2>1 DEF ScanInv, RangeInv, scan, range
  <2>4. ReadyInv'
    BY <2>1 DEF ScanInv, ReadyInv, OnEntry, scan, vars
  <2>5. QED
    BY <1>1, <2>2, <2>3, <2>4 DEF ScanInv
<1>7. TreeInv' /\ RangeInv' /\ ReadyInv'
  BY <1>2, <1>3, <1>4, <1>5, <1>6 DEF ScanStep, ScanInv
<1>8. QED
  BY <1>1, <1>7 DEF ScanInv

\* The invariant holds of every scan beside insertions, whatever the scan's
\* operations throw.
THEOREM ScanInvariant == ScanSpec => []ScanInv
<1>1. ScanInit => ScanInv
  <2> SUFFICES ASSUME ScanInit PROVE ScanInv
    OBVIOUS
  <2>1. PinInv
    BY BTreeAssumption DEF ScanInit, PinInv, OnePin, NoPage
  <2>2. TreeInv
    BY InitInv DEF ScanInit, Init, TreeInv
  <2>3. RangeInv
    BY DEF ScanInit, RangeInv
  <2>4. ReadyInv
    BY BTreeAssumption DEF ScanInit, ReadyInv, Pages, NoPage
  <2>5. QED
    BY <2>1, <2>2, <2>3, <2>4 DEF ScanInv
<1>2. QED
  BY <1>1, NextScan, PTL DEF ScanSpec

-----------------------------------------------------------------------------
(***************************************************************************)
(* What a scan gives.                                                      *)
(***************************************************************************)
\* A scan that startScan has started (btree.cpp:379-509) is on a key above
\* its low bound, and no key strictly inside its range comes before that one,
\* whatever the tree looks like that insertions have made.
THEOREM StartsAtFirst == ScanSpec => StartPassesNone
<1>1. ASSUME ScanInv, RangeInv', Starts, nextEntry' # Done
      PROVE  /\ AtLeast(Current)'
             /\ \A k \in Contents : AtLeast(k)' /\ k < highVal' => Current' <= k
  <2>1. PICK low, lop, high : low = lowVal' /\ lop = lowOp' /\ high = highVal'
    OBVIOUS
  <2>2. low \in Bounds /\ high \in Bounds /\ lop \in {"GT", "GTE"}
    BY <1>1, <2>1 DEF RangeInv
  <2>3. PICK q, e : q = Landing(low, lop, high)[1] /\ e = Landing(low, lop, high)[2]
    OBVIOUS
  <2>4. currentPageNum' = q /\ nextEntry' = e /\ UNCHANGED vars
    BY <1>1, <2>1, <2>3 DEF Starts, StartScan
  <2>5. /\ Above(node[q].keys[e], low, lop)
        /\ \A k \in Contents : Above(k, low, lop) /\ k < high => node[q].keys[e] <= k
    BY <1>1, <2>2, <2>3, <2>4, LandingIs DEF ScanInv
  <2>6. Current' = node[q].keys[e]
    BY <2>4 DEF Current, Leaf, vars
  <2>7. \A k : AtLeast(k)' <=> Above(k, low, lop)
    BY <2>1 DEF AtLeast, Above
  <2>8. AtLeast(Current)'
    BY <2>1, <2>5, <2>6 DEF AtLeast, Above
  <2>9. QED
    BY <2>1, <2>5, <2>6, <2>7, <2>8
<1>2. ScanInv /\ ScanInv' =>
        [Starts /\ nextEntry' # Done =>
           /\ AtLeast(Current)'
           /\ \A k \in Contents : AtLeast(k)' /\ k < highVal' => Current' <= k]_svars
  BY <1>1 DEF ScanInv
<1>3. QED
  BY <1>2, ScanInvariant, PTL DEF StartPassesNone

\* scanNext (btree.cpp:511-552) goes from each key to the one that follows it
\* in the index, also where that is in the right sibling and where insertions
\* have come between, and ends only when the range does.
THEOREM AdvancesInOrder == ScanSpec => Advances
<1>1. ASSUME ScanInv, ScanNext, pins'[currentPageNum'] > 0
      PROVE  LET later == {k \in Contents : k > Current} IN
               IF nextEntry' = Done
               THEN \A k \in later : ~AtMost(k)
               ELSE /\ Current' \in later /\ AtMost(Current')
                    /\ \A k \in later : Current' <= k
  <2> DEFINE later == {k \in Contents : k > Current}
             s == Leaf.keys
             e == nextEntry
  <2>1. PinInv /\ TreeInv /\ RangeInv /\ ReadyInv /\ Ready /\ damage = {}
    BY <1>1 DEF ScanInv, ScanNext, TreeInv
  <2>2. PICK depth, n, l, span :
          /\ Standing(depth, n, l, span)
          /\ \E a \in 1 .. n : l[a] = currentPageNum
          /\ currentPageNum \in LeafPages(numPages, height, depth)
          /\ nextEntry \in 1 .. Len(Leaf.keys)
    BY <2>1, EntryIs
  <2>3. PICK a \in 1 .. n : l[a] = currentPageNum
    BY <2>2
  <2>4. /\ Len(s) \in Nat /\ e \in 1 .. Len(s) /\ Sorted(s)
        /\ \A j \in 1 .. Len(s) : s[j] \in span[l[a]] /\ s[j] \in Int
    <3>1. Sorted(s) /\ s \in Seq(Int)
      BY <2>2, LeafIs DEF Leaf
    <3>2. \A j \in 1 .. Len(s) : s[j] \in span[l[a]] /\ s[j] \in Int
      BY <2>2, <2>3, LeafIs DEF Leaf
    <3>3. QED
      BY <2>2, <3>1, <3>2
  <2>5. /\ UNCHANGED <<node, highVal, highOp>> /\ highVal \in Int
        /\ Contents \subseteq Int /\ Current = s[e] /\ s[e] \in Int
    <3>1. UNCHANGED <<node, highVal, highOp>>
      BY <1>1 DEF ScanNext, vars, range
    <3>2. highVal \in Int
      BY <2>1, ScanAssumption DEF RangeInv
    <3>3. Contents \subseteq Int
      BY <2>1, <2>2, ContentsInt
    <3>4. QED
      BY <2>4, <3>1, <3>2, <3>3 DEF Current
  <2>6. \A x, y \in Int : x <= y /\ AtMost(y) => AtMost(x)
    BY <2>5 DEF AtMost
  <2>7. CASE NextInLeaf
    <3>1. e + 1 \in 1 .. Len(s)
      BY <2>4, <2>7 DEF NextInLeaf
    <3>2. /\ s[e + 1] \in Contents /\ s[e] < s[e + 1]
          /\ \A k \in Contents : k > s[e] => s[e + 1] <= k
      BY <2>1, <2>2, <2>3, <2>4, <3>1, FollowsInLeaf DEF Leaf
    <3>3. s[e + 1] \in later /\ s[e + 1] \in Int /\ \A k \in later : s[e + 1] <= k /\ k \in Int
      BY <2>5, <3>2
    <3>4. CASE AtMost(s[e + 1])
      <4>1. nextEntry' = e + 1 /\ currentPageNum' = currentPageNum /\ nextEntry' # Done
        BY <2>4, <2>7, <3>4 DEF NextInLeaf, Done
      <4>2. Current' = s[e + 1]
        BY <2>5, <4>1 DEF Current, Leaf
      <4>3. QED
        BY <3>3, <3>4, <4>1, <4>2
    <3>5. CASE ~AtMost(s[e + 1])
      <4>1. nextEntry' = Done
        BY <2>7, <3>5 DEF NextInLeaf
      <4>2. \A k \in later : ~AtMost(k)
        BY <2>6, <3>3, <3>5
      <4>3. QED
        BY <4>1, <4>2
    <3>6. QED
      BY <3>4, <3>5
  <2>8. ASSUME e = Len(s), NEW k \in later
        PROVE  Leaf.next # NoPage /\ node[Leaf.next].keys[1] <= k
    <3>1. k \in Contents /\ k > s[e] /\ k \in Int
      BY <2>5
    <3>2. \A j \in 1 .. Len(s) : s[j] # k
      <4> SUFFICES ASSUME NEW j \in 1 .. Len(s), s[j] = k PROVE FALSE
        OBVIOUS
      <4>1. j = e \/ j < e
        BY <2>4, <2>8
      <4>2. s[j] <= s[e]
        BY <2>4, <4>1 DEF Sorted
      <4>3. QED
        BY <2>5, <3>1, <4>2
    <3>3. s[e] \in span[l[a]] /\ s[e] <= k
      BY <2>4, <2>5, <3>1
    <3>4. \A j \in 1 .. Len(node[l[a]].keys) : node[l[a]].keys[j] # k
      BY <2>3, <3>2 DEF Leaf
    <3> HIDE DEF s
    <3>5. node[l[a]].next # NoPage /\ node[node[l[a]].next].keys[1] <= k
      BY <2>1, <2>2, <3>1, <3>3, <3>4, BehindLast
    <3>6. QED
      BY <2>3, <3>5 DEF Leaf
  <2>9. CASE NextNone
    <3>1. e = Len(s) /\ Leaf.next = NoPage /\ nextEntry' = Done
      BY <2>9 DEF NextNone
    <3>2. QED
      BY <2>8, <3>1
  <2>10. CASE NextLeaf
    <3>1. e = Len(s) /\ Leaf.next # NoPage
      BY <2>10 DEF NextLeaf
    <3>2. PICK q : q = Leaf.next
      OBVIOUS
    <3> DEFINE x == node[q].keys[1]
    <3>3. x \in Contents /\ s[e] < x /\ x \in Int
      <4>1. s[e] \in span[l[a]] /\ node[l[a]].next # NoPage /\ node[l[a]].next = q
        BY <2>3, <2>4, <3>1, <3>2 DEF Leaf
      <4>2. x \in Contents /\ s[e] < x
        BY <2>1, <2>2, <4>1, FirstOfNext
      <4>3. QED
        BY <2>5, <4>2
    <3>4. x \in later /\ \A k \in later : x <= k /\ k \in Int
      BY <2>5, <2>8, <3>1, <3>2, <3>3
    <3>5. currentPageNum' = q /\ nextEntry' = IF AtMost(x) THEN 1 ELSE Done
      BY <2>10, <3>2 DEF NextLeaf
    <3>6. CASE AtMost(x)
      <4>1. Current' = x /\ nextEntry' # Done
        BY <2>5, <3>5, <3>6 DEF Current, Leaf, Done
      <4>2. QED
        BY <3>4, <3>6, <4>1
    <3>7. CASE ~AtMost(x)
      <4>1. nextEntry' = Done
        BY <3>5, <3>7
      <4>2. \A k \in later : ~AtMost(k)
        BY <2>6, <3>3, <3>4, <3>7
      <4>3. QED
        BY <4>1, <4>2
    <3>8. QED
      BY <3>6, <3>7
  <2>11. CASE NextLeafExceeded
    <3>1. NoPin(pins')
      BY <2>1, <2>11, EndUnpins DEF NextLeafExceeded, Ready
    <3>2. PICK q : q = currentPageNum'
      OBVIOUS
    <3>3. q \in Pages
      BY <1>1, <3>2, ScanNextReady DEF ReadyInv
    <3>4. pins'[currentPageNum'] = 0
      BY <3>1, <3>2, <3>3 DEF NoPin
    <3>5. QED
      BY <1>1, <3>4
  <2>12. QED
    BY <1>1, <2>7, <2>9, <2>10, <2>11 DEF ScanNext
<1>2. ScanInv =>
        [ScanNext /\ pins'[currentPageNum'] > 0 =>
           LET later == {k \in Contents : k > Current} IN
             IF nextEntry' = Done
             THEN \A k \in later : ~AtMost(k)
             ELSE /\ Current' \in later /\ AtMost(Current')
                  /\ \A k \in later : Current' <= k]_svars
  BY <1>1
<1>3. QED
  BY <1>2, ScanInvariant, PTL DEF Advances
==============================================================================
