----------------------------- MODULE Iteration -----------------------------
(***************************************************************************)
(* Induction on the natural numbers and on finite sets, stated of a set    *)
(* rather than of a predicate so that it can be cited for any of them, and *)
(* what it gives: functions defined by recursion on their argument, sums   *)
(* over a finite set, its least and greatest element.                      *)
(***************************************************************************)
EXTENDS Integers, SequencesExt, FiniteSetsExt, FiniteSetTheorems, SequenceTheorems, TLAPS

\* A set with 0 and the successor of each number in it has every number: were
\* n not in it, each of its numbers below n would have a successor among
\* those but 0, which are fewer.
LEMMA SetInduction ==
  ASSUME NEW S, 0 \in S, \A n \in Nat : n \in S => n + 1 \in S
  PROVE  \A n \in Nat : n \in S
<1> SUFFICES ASSUME NEW n \in Nat, n \notin S PROVE FALSE
  OBVIOUS
<1> DEFINE T == S \cap (0 .. n)
           succ == [i \in T |-> i + 1]
<1>1. IsFiniteSet(T) /\ Cardinality(T) \in Nat
  <2>1. IsFiniteSet(0 .. n)
    BY FS_Interval
  <2>2. T \in SUBSET (0 .. n)
    OBVIOUS
  <2>3. IsFiniteSet(T)
    BY <2>1, <2>2, FS_Subset
  <2>4. QED
    BY <2>3, FS_CardinalityType
<1>2. 0 \in T
  OBVIOUS
<1>3. IsFiniteSet(T \ {0}) /\ Cardinality(T \ {0}) = Cardinality(T) - 1
  <2> HIDE DEF T
  <2>1. QED
    BY <1>1, <1>2, FS_RemoveElement
<1>4. succ \in [T -> T \ {0}]
  <2>1. ASSUME NEW i \in T PROVE i + 1 \in T \ {0}
    <3>1. i # n /\ i \in 0 .. n
      OBVIOUS
    <3>2. i + 1 \in 0 .. n /\ i + 1 # 0 /\ i \in Nat
      BY <3>1
    <3>3. i + 1 \in S
      BY <3>2
    <3>4. QED
      BY <3>2, <3>3
  <2>2. QED
    BY <2>1
<1>5. \E i, j \in T : i # j /\ succ[i] = succ[j]
  <2> HIDE DEF T, succ
  <2>1. Cardinality(T \ {0}) < Cardinality(T)
    BY <1>1, <1>3
  <2>2. QED
    BY <1>1, <1>3, <1>4, <2>1, FS_PigeonHole
<1>6. QED
  BY <1>5

\* g has v at 0 and from there applies step, n times.
Iterates(g, step, v, n) == g[0] = v /\ \A i \in 1 .. n : g[i] = step[g[i - 1]]

\* There is such a function, whatever step and v.
LEMMA IterationExists ==
  ASSUME NEW V, NEW step \in [V -> V], NEW v \in V, NEW n \in Nat
  PROVE  \E g \in [0 .. n -> V] : Iterates(g, step, v, n)
<1> USE DEF Iterates
<1> DEFINE Is(g, m) == Iterates(g, step, v, m)
           S == {m \in Nat : \E g \in [0 .. m -> V] : Is(g, m)}
<1>1. 0 \in S
  <2>1. [i \in 0 .. 0 |-> v] \in [0 .. 0 -> V] /\ Is([i \in 0 .. 0 |-> v], 0)
    OBVIOUS
  <2>2. QED
    BY <2>1
<1>2. ASSUME NEW m \in Nat, m \in S PROVE m + 1 \in S
  <2>1. PICK g \in [0 .. m -> V] : Is(g, m)
    BY <1>2
  <2> DEFINE h == [i \in 0 .. m + 1 |-> IF i <= m THEN g[i] ELSE step[g[m]]]
  <2>2. h \in [0 .. m + 1 -> V]
    OBVIOUS
  <2>3. h[0] = v
    BY <2>1
  <2>4. ASSUME NEW i \in 1 .. m + 1 PROVE h[i] = step[h[i - 1]]
    <3>1. i - 1 \in 0 .. m /\ h[i - 1] = g[i - 1]
      OBVIOUS
    <3>2. CASE i \in 1 .. m
      BY <2>1, <3>1, <3>2
    <3>3. CASE i = m + 1
      BY <3>1, <3>3
    <3>4. QED
      BY <3>2, <3>3
  <2> HIDE DEF h
  <2>5. QED
    BY <2>2, <2>3, <2>4
<1> HIDE DEF S, Iterates
<1>3. n \in S
  BY <1>1, <1>2, SetInduction
<1>4. QED
  BY <1>3 DEF S
-----------------------------------------------------------------------------
(***************************************************************************)
(* Sums over a finite set.                                                 *)
(***************************************************************************)
\* A set of subsets of A has them all if it has {} and every T that it has
\* all of but an element.
LEMMA SubsetInduction ==
  ASSUME NEW A, IsFiniteSet(A), NEW F, {} \in F,
         \A T \in SUBSET A : T # {} /\ (\A x \in T : T \ {x} \in F) => T \in F
  PROVE  \A T \in SUBSET A : T \in F
<1> DEFINE S == {n \in Nat : \A T \in SUBSET A : Cardinality(T) = n => T \in F}
<1>1. \A T \in SUBSET A : IsFiniteSet(T) /\ Cardinality(T) \in Nat
  BY FS_Subset, FS_CardinalityType
<1>2. 0 \in S
  <2>1. \A T \in SUBSET A : Cardinality(T) = 0 => T = {}
    BY <1>1, FS_EmptySet
  <2>2. QED
    BY <2>1
<1>3. ASSUME NEW n \in Nat, n \in S PROVE n + 1 \in S
  <2> SUFFICES ASSUME NEW T \in SUBSET A, Cardinality(T) = n + 1 PROVE T \in F
    OBVIOUS
  <2>1. T # {}
    <3>1. Cardinality({}) = 0 /\ n + 1 # 0
      BY FS_EmptySet
    <3>2. QED
      BY <3>1
  <2>2. ASSUME NEW x \in T PROVE T \ {x} \in F
    <3>1. Cardinality(T \ {x}) = n
      BY <1>1, FS_RemoveElement
    <3>2. T \ {x} \in SUBSET A
      OBVIOUS
    <3>3. QED
      BY <1>3, <3>1, <3>2
  <2>3. QED
    BY <2>1, <2>2
<1> HIDE DEF S
<1>4. \A n \in Nat : n \in S
  BY <1>2, <1>3, SetInduction
<1>5. QED
  BY <1>1, <1>4 DEF S

\* g has for every subset of A what adding up w over it gives.
Adds(g, w, A) ==
  /\ g \in [SUBSET A -> Nat]
  /\ g[{}] = 0
  /\ \A T \in SUBSET A : \A x \in T : g[T] = w[x] + g[T \ {x}]

\* There is such a g for a finite A.
LEMMA AddsExists ==
  ASSUME NEW A, IsFiniteSet(A), NEW w \in [A -> Nat]
  PROVE  \E g : Adds(g, w, A)
<1> DEFINE F == {T \in SUBSET A : \E g : Adds(g, w, T)}
<1>1. {} \in F
  <2>1. Adds([T \in SUBSET {} |-> 0], w, {})
    BY DEF Adds
  <2>2. QED
    BY <2>1
<1>2. ASSUME NEW T \in SUBSET A, T # {}, \A x \in T : T \ {x} \in F
      PROVE  T \in F
  <2>1. PICK x \in T : TRUE
    BY <1>2
  <2> DEFINE B == T \ {x}
  <2>2. PICK g : Adds(g, w, B)
    BY <1>2
  <2> DEFINE h == [U \in SUBSET T |-> IF x \in U THEN w[x] + g[U \ {x}] ELSE g[U]]
  <2>3. \A U \in SUBSET T : U \ {x} \in SUBSET B /\ (x \notin U => U \in SUBSET B)
    OBVIOUS
  <2>4. w[x] \in Nat /\ \A U \in SUBSET B : g[U] \in Nat
    BY <2>2 DEF Adds
  <2>5. h \in [SUBSET T -> Nat]
    <3> HIDE DEF B
    <3>1. QED
      BY <2>3, <2>4
  <2>6. h[{}] = 0
    <3>1. {} \in SUBSET T /\ x \notin {}
      OBVIOUS
    <3>2. QED
      BY <2>2, <3>1 DEF Adds
  <2>7. ASSUME NEW U \in SUBSET T, NEW y \in U PROVE h[U] = w[y] + h[U \ {y}]
    <3>1. CASE y = x
      BY <3>1
    <3>2. CASE y # x /\ x \notin U
      <4>1. U \in SUBSET B /\ U \ {y} \in SUBSET T /\ x \notin U \ {y}
        BY <3>2
      <4>2. g[U] = w[y] + g[U \ {y}]
        BY <2>2, <4>1 DEF Adds
      <4>3. QED
        BY <3>2, <4>1, <4>2
    <3>3. CASE y # x /\ x \in U
      <4>1. U \ {x} \in SUBSET B /\ y \in U \ {x} /\ U \ {y} \in SUBSET T /\ x \in U \ {y}
        BY <3>3
      <4>2. g[U \ {x}] = w[y] + g[(U \ {x}) \ {y}]
        BY <2>2, <4>1 DEF Adds
      <4>3. (U \ {y}) \ {x} = (U \ {x}) \ {y} /\ (U \ {x}) \ {y} \in SUBSET B
        BY <4>1
      <4>4. h[U] = w[x] + g[U \ {x}] /\ h[U \ {y}] = w[x] + g[(U \ {x}) \ {y}]
        BY <3>3, <4>1, <4>3
      <4>5. w[y] \in Nat /\ g[(U \ {x}) \ {y}] \in Nat
        BY <2>4, <4>3
      <4>6. QED
        BY <2>4, <4>2, <4>4, <4>5
    <3>4. QED
      BY <3>1, <3>2, <3>3
  <2> HIDE DEF h
  <2>8. QED
    BY <2>5, <2>6, <2>7 DEF Adds
<1> HIDE DEF F
<1>3. \A T \in SUBSET A : T \in F
  BY <1>1, <1>2, SubsetInduction
<1>4. QED
  BY <1>3 DEF F

-----------------------------------------------------------------------------
(***************************************************************************)
(* The least and the greatest.                                             *)
(***************************************************************************)
\* Min of a finite set of integers is in it and not above any of them.
LEMMA MinIs ==
  ASSUME NEW S \in SUBSET Int, IsFiniteSet(S), S # {}
  PROVE  Min(S) \in S /\ \A y \in S : Min(S) <= y
<1> DEFINE F == {T \in SUBSET S : T # {} => \E m \in T : \A y \in T : m <= y}
<1>1. {} \in F
  OBVIOUS
<1>2. ASSUME NEW T \in SUBSET S, T # {}, \A x \in T : T \ {x} \in F PROVE T \in F
  <2>1. PICK x \in T : TRUE
    BY <1>2
  <2>2. CASE T \ {x} = {}
    <3>1. \A y \in T : x <= y
      BY <2>2
    <3>2. QED
      BY <3>1
  <2>3. CASE T \ {x} # {}
    <3>1. PICK m \in T \ {x} : \A y \in T \ {x} : m <= y
      BY <1>2, <2>3
    <3>2. CASE m <= x
      BY <3>1, <3>2
    <3>3. CASE ~(m <= x)
      <4>1. \A y \in T : x <= y
        BY <3>1, <3>3
      <4>2. QED
        BY <4>1
    <3>4. QED
      BY <3>2, <3>3
  <2>4. QED
    BY <2>2, <2>3
<1> HIDE DEF F
<1>3. \A T \in SUBSET S : T \in F
  BY <1>1, <1>2, SubsetInduction
<1>4. \E m \in S : \A y \in S : m <= y
  BY <1>3 DEF F
<1>5. QED
  BY <1>4 DEF Min

\* Max of a finite set of integers is in it and not below any of them.
LEMMA MaxIs ==
  ASSUME NEW S \in SUBSET Int, IsFiniteSet(S), S # {}
  PROVE  Max(S) \in S /\ \A y \in S : y <= Max(S)
<1> DEFINE F == {T \in SUBSET S : T # {} => \E m \in T : \A y \in T : m >= y}
<1>1. {} \in F
  OBVIOUS
<1>2. ASSUME NEW T \in SUBSET S, T # {}, \A x \in T : T \ {x} \in F PROVE T \in F
  <2>1. PICK x \in T : TRUE
    BY <1>2
  <2>2. CASE T \ {x} = {}
    <3>1. \A y \in T : x >= y
      BY <2>2
    <3>2. QED
      BY <3>1
  <2>3. CASE T \ {x} # {}
    <3>1. PICK m \in T \ {x} : \A y \in T \ {x} : m >= y
      BY <1>2, <2>3
    <3>2. CASE m >= x
      BY <3>1, <3>2
    <3>3. CASE ~(m >= x)
      <4>1. \A y \in T : x >= y
        BY <3>1, <3>3
      <4>2. QED
        BY <4>1
    <3>4. QED
      BY <3>2, <3>3
  <2>4. QED
    BY <2>2, <2>3
<1> HIDE DEF F
<1>3. \A T \in SUBSET S : T \in F
  BY <1>1, <1>2, SubsetInduction
<1>4. \E m \in S : \A y \in S : m >= y
  BY <1>3 DEF F
<1>5. Max(S) \in S /\ \A y \in S : Max(S) >= y
  BY <1>4 DEF Max
<1>6. QED
  BY <1>5

\* There are n numbers from 1 to n.
LEMMA NumbersCounted ==
  ASSUME NEW n \in Nat
  PROVE  IsFiniteSet(1 .. n) /\ Cardinality(1 .. n) = n
BY FS_Interval
-----------------------------------------------------------------------------
(***************************************************************************)
(* Sequences of sequences.                                                *)
(***************************************************************************)
\* A name of its own keeps the provers from taking sequences apart.
Cat(a, b) == a \o b

\* What Cat makes of two sequences.
LEMMA CatIs ==
  ASSUME NEW T, NEW a \in Seq(T), NEW b \in Seq(T)
  PROVE  /\ Cat(a, b) \in Seq(T) /\ Len(Cat(a, b)) = Len(a) + Len(b)
         /\ \A i \in 1 .. Len(a) + Len(b) :
              Cat(a, b)[i] = IF i <= Len(a) THEN a[i] ELSE b[i - Len(a)]
BY ConcatProperties DEF Cat

\* The order of joining does not matter.
LEMMA CatAssociative ==
  ASSUME NEW T, NEW a \in Seq(T), NEW b \in Seq(T), NEW c \in Seq(T)
  PROVE  Cat(Cat(a, b), c) = Cat(a, Cat(b, c))
BY ConcatAssociative DEF Cat

\* An empty sequence joined on either side changes nothing.
LEMMA CatEmpty ==
  ASSUME NEW T, NEW a \in Seq(T)
  PROVE  Cat(a, <<>>) = a /\ Cat(<<>>, a) = a
BY ConcatEmptySeq DEF Cat

\* To append to two sequences joined is to append to the second.
LEMMA CatAppend ==
  ASSUME NEW T, NEW a \in Seq(T), NEW b \in Seq(T), NEW e \in T
  PROVE  Append(Cat(a, b), e) = Cat(a, Append(b, e))
<1>1. PICK c \in Seq(T) : c = <<e>>
  <2>1. <<e>> \in Seq(T)
    OBVIOUS
  <2>2. QED
    BY <2>1, Zenon
<1>2. PICK ab \in Seq(T) : ab = Cat(a, b)
  BY CatIs
<1>3. Append(ab, e) = Cat(ab, c) /\ Append(b, e) = Cat(b, c)
  BY <1>1, AppendIsConcat DEF Cat
<1>4. Cat(ab, c) = Cat(a, Cat(b, c))
  BY <1>2, CatAssociative
<1>5. QED
  BY <1>2, <1>3, <1>4

\* flat[i] is what the first i of m sequences are, one after another.
Joins(flat, seqs, m, S) ==
  /\ flat \in [0 .. m -> Seq(S)]
  /\ flat[0] = <<>>
  /\ \A i \in 1 .. m : flat[i] = Cat(flat[i - 1], seqs[i])

\* There is such a function: the concatenation, sequence by sequence.
LEMMA JoinsExists ==
  ASSUME NEW S, NEW n \in Nat, NEW seqs, \A i \in 1 .. n : seqs[i] \in Seq(S)
  PROVE  \E flat : Joins(flat, seqs, n, S)
<1> DEFINE F == {m \in Nat : m <= n => \E g : Joins(g, seqs, m, S)}
<1>1. 0 \in F
  <2>1. Joins([i \in 0 .. 0 |-> <<>>], seqs, 0, S)
    BY DEF Joins
  <2>2. QED
    BY <2>1
<1>2. ASSUME NEW m \in Nat, m + 1 <= n, NEW g, Joins(g, seqs, m, S)
      PROVE  \E h : Joins(h, seqs, m + 1, S)
  <2> DEFINE last == Cat(g[m], seqs[m + 1])
             h == [i \in 0 .. m + 1 |-> IF i <= m THEN g[i] ELSE last]
  <2>1. last \in Seq(S)
    <3>1. g[m] \in Seq(S) /\ seqs[m + 1] \in Seq(S)
      BY <1>2 DEF Joins
    <3>2. QED
      BY <3>1 DEF Cat
  <2> HIDE DEF last
  <2>2. h \in [0 .. m + 1 -> Seq(S)] /\ h[0] = <<>>
    BY <1>2, <2>1 DEF Joins
  <2>3. ASSUME NEW i \in 1 .. m + 1 PROVE h[i] = Cat(h[i - 1], seqs[i])
    <3>1. i - 1 \in 0 .. m /\ i - 1 \in 0 .. m + 1 /\ h[i - 1] = g[i - 1]
      OBVIOUS
    <3>2. CASE i \in 1 .. m
      <4>1. h[i] = g[i] /\ g[i] = Cat(g[i - 1], seqs[i])
        BY <1>2, <3>2 DEF Joins
      <4>2. QED
        BY <3>1, <4>1
    <3>3. CASE i = m + 1
      <4>1. h[i] = last /\ h[i - 1] = g[m]
        BY <3>1, <3>3
      <4>2. QED
        BY <3>3, <4>1 DEF last
    <3>4. QED
      BY <3>2, <3>3
  <2> HIDE DEF h
  <2>4. QED
    BY <2>2, <2>3 DEF Joins
<1>3. ASSUME NEW m \in Nat, m \in F PROVE m + 1 \in F
  BY <1>2, <1>3
<1> HIDE DEF F
<1>4. n \in F
  BY <1>1, <1>3, SetInduction
<1>5. QED
  BY <1>4 DEF F

\* The empty sequence adds nothing.
LEMMA EmptyFirst ==
  ASSUME NEW S, NEW s \in Seq(S)
  PROVE  Cat(<<>>, s) = s
BY DEF Cat

\* FlattenSeq is its last value.
LEMMA FlattenIs ==
  ASSUME NEW S, NEW seqs \in Seq(Seq(S)), NEW flat, Joins(flat, seqs, Len(seqs), S)
  PROVE  FlattenSeq(seqs) = flat[Len(seqs)]
<1> DEFINE n == Len(seqs)
           Body(f, i) == IF i = 1 THEN seqs[i] ELSE Cat(f[i - 1], seqs[i])
           iter == CHOOSE f : f = [i \in 1 .. n |-> Body(f, i)]
           h == [i \in 1 .. n |-> flat[i]]
<1>1. n \in Nat /\ \A i \in 1 .. n : seqs[i] \in Seq(S)
  OBVIOUS
<1>2. CASE n = 0
  <2>1. FlattenSeq(seqs) = seqs
    BY <1>2 DEF FlattenSeq
  <2>2. seqs = <<>>
    BY <1>2
  <2>3. QED
    BY <1>2, <2>1, <2>2 DEF Joins
<1>3. CASE n # 0
  <2>1. FlattenSeq(seqs) = iter[n]
    BY <1>3 DEF FlattenSeq, Cat
  <2>2. h = [i \in 1 .. n |-> Body(h, i)]
    <3> SUFFICES ASSUME NEW i \in 1 .. n PROVE h[i] = Body(h, i)
      OBVIOUS
    <3>1. flat[i] = Cat(flat[i - 1], seqs[i]) /\ flat[0] = <<>> /\ seqs[i] \in Seq(S)
      BY <1>1 DEF Joins
    <3>2. CASE i = 1
      BY <3>1, <3>2, EmptyFirst
    <3>3. CASE i # 1
      <4>1. i - 1 \in 1 .. n /\ h[i - 1] = flat[i - 1]
        BY <1>1, <3>3
      <4>2. QED
        BY <3>1, <3>3, <4>1
    <3>4. QED
      BY <3>2, <3>3
  <2> HIDE DEF h
  <2>3. iter = [i \in 1 .. n |-> Body(iter, i)]
    BY <2>2
  <2> HIDE DEF iter
  <2> DEFINE F == {m \in Nat : m \in 1 .. n => iter[m] = flat[m]}
  <2>4. 0 \in F
    OBVIOUS
  <2>5. ASSUME NEW m \in Nat, m \in F PROVE m + 1 \in F
    <3> SUFFICES ASSUME m + 1 \in 1 .. n PROVE iter[m + 1] = flat[m + 1]
      OBVIOUS
    <3>1. flat[m + 1] = Cat(flat[m], seqs[m + 1]) /\ flat[0] = <<>> /\ seqs[m + 1] \in Seq(S)
      <4>1. m + 1 \in 1 .. Len(seqs) /\ m + 1 - 1 = m
        OBVIOUS
      <4>2. flat[m + 1] = Cat(flat[m + 1 - 1], seqs[m + 1]) /\ flat[0] = <<>>
        BY <4>1 DEF Joins
      <4>3. QED
        BY <1>1, <4>1, <4>2
    <3>2. CASE m = 0
      <4>1. iter[1] = seqs[1] /\ flat[1] = Cat(<<>>, seqs[1]) /\ seqs[1] \in Seq(S)
        BY <2>3, <3>1, <3>2
      <4>2. QED
        BY <3>2, <4>1, EmptyFirst
    <3>3. CASE m # 0
      <4>1. iter[m + 1] = Cat(iter[m], seqs[m + 1])
        <5>1. m + 1 \in 1 .. n /\ m + 1 # 1 /\ m + 1 - 1 = m
          BY <3>3
        <5>2. iter[m + 1] = Body(iter, m + 1)
          BY <2>3, <5>1
        <5>3. QED
          BY <5>1, <5>2
      <4>2. m \in 1 .. n
        BY <1>1, <3>3
      <4>3. iter[m] = flat[m]
        BY <2>5, <4>2
      <4>4. QED
        BY <3>1, <4>1, <4>3
    <3>4. QED
      BY <3>2, <3>3
  <2> HIDE DEF F
  <2>6. n \in F
    BY <1>1, <2>4, <2>5, SetInduction
  <2>7. QED
    BY <1>1, <1>3, <2>1, <2>6 DEF F
<1>4. QED
  BY <1>2, <1>3

\* A sequence of sequences flattened is one over the same set.
LEMMA FlattenIn ==
  ASSUME NEW S, NEW seqs \in Seq(Seq(S))
  PROVE  FlattenSeq(seqs) \in Seq(S)
<1>1. PICK flat : Joins(flat, seqs, Len(seqs), S)
  <2>1. Len(seqs) \in Nat /\ \A i \in 1 .. Len(seqs) : seqs[i] \in Seq(S)
    OBVIOUS
  <2>2. QED
    BY <2>1, JoinsExists
<1>2. FlattenSeq(seqs) = flat[Len(seqs)] /\ Len(seqs) \in 0 .. Len(seqs)
  BY <1>1, FlattenIs
<1>3. QED
  BY <1>1, <1>2 DEF Joins

\* One more sequence goes to the end.
LEMMA FlattenGrows ==
  ASSUME NEW S, NEW seqs \in Seq(Seq(S)), NEW t \in Seq(S)
  PROVE  FlattenSeq(Append(seqs, t)) = FlattenSeq(seqs) \o t
<1> DEFINE n == Len(seqs)
           s2 == Append(seqs, t)
<1>1. n \in Nat /\ \A i \in 1 .. n : seqs[i] \in Seq(S)
  BY LenProperties
<1>2. /\ s2 \in Seq(Seq(S)) /\ Len(s2) = n + 1 /\ s2[n + 1] = t
      /\ \A i \in 1 .. n : s2[i] = seqs[i]
  BY AppendProperties
<1> HIDE DEF n, s2
<1>3. \A i \in 1 .. n + 1 : s2[i] \in Seq(S)
  BY <1>1, <1>2
<1>4. PICK g : Joins(g, s2, n + 1, S)
  <2>1. n + 1 \in Nat
    BY <1>1
  <2>2. QED
    BY <1>3, <2>1, JoinsExists
<1> DEFINE h == [i \in 0 .. n |-> g[i]]
<1>5. Joins(h, seqs, n, S)
  <2>1. h \in [0 .. n -> Seq(S)] /\ h[0] = <<>>
    BY <1>1, <1>4 DEF Joins
  <2>2. ASSUME NEW i \in 1 .. n PROVE h[i] = Cat(h[i - 1], seqs[i])
    <3>1. i \in 1 .. n + 1 /\ i \in 0 .. n /\ i - 1 \in 0 .. n
      BY <1>1
    <3>2. g[i] = Cat(g[i - 1], s2[i]) /\ s2[i] = seqs[i]
      BY <1>2, <1>4, <3>1 DEF Joins
    <3>3. QED
      BY <3>1, <3>2
  <2> HIDE DEF h
  <2>3. QED
    BY <2>1, <2>2 DEF Joins
<1>6. FlattenSeq(seqs) = g[n]
  <2>1. FlattenSeq(seqs) = h[n] /\ n \in 0 .. n
    BY <1>1, <1>5, FlattenIs DEF n
  <2>2. QED
    BY <2>1
<1>7. FlattenSeq(s2) = g[n + 1]
  BY <1>2, <1>4, FlattenIs
<1>8. g[n + 1] = Cat(g[n], t)
  <2>1. n + 1 \in 1 .. n + 1 /\ (n + 1) - 1 = n
    BY <1>1
  <2>2. QED
    BY <1>2, <1>4, <2>1 DEF Joins
<1>9. QED
  BY <1>6, <1>7, <1>8 DEF Cat, s2

\* What two lists hold together.
LEMMA ConcatToSet ==
  ASSUME NEW T, NEW s \in Seq(T), NEW t \in Seq(T)
  PROVE  s \o t \in Seq(T) /\ ToSet(s \o t) = ToSet(s) \cup ToSet(t)
<1> DEFINE c == s \o t
<1>1. /\ Len(s) \in Nat /\ DOMAIN s = 1 .. Len(s)
      /\ Len(t) \in Nat /\ DOMAIN t = 1 .. Len(t)
  BY LenProperties
<1>2. /\ c \in Seq(T) /\ Len(c) = Len(s) + Len(t) /\ DOMAIN c = 1 .. Len(s) + Len(t)
      /\ \A i \in 1 .. Len(s) + Len(t) : c[i] = IF i <= Len(s) THEN s[i] ELSE t[i - Len(s)]
  BY ConcatProperties, LenProperties
<1> HIDE DEF c
<1>3. \A i \in DOMAIN s : i \in DOMAIN c /\ c[i] = s[i]
  BY <1>1, <1>2
<1>4. \A j \in DOMAIN t : Len(s) + j \in DOMAIN c /\ c[Len(s) + j] = t[j]
  <2> SUFFICES ASSUME NEW j \in 1 .. Len(t)
               PROVE  Len(s) + j \in DOMAIN c /\ c[Len(s) + j] = t[j]
    BY <1>1
  <2>1. Len(s) + j \in 1 .. Len(s) + Len(t) /\ ~ (Len(s) + j <= Len(s))
        /\ (Len(s) + j) - Len(s) = j
    BY <1>1
  <2>2. QED
    BY <1>2, <2>1
<1>5. \A i \in DOMAIN c :
        (i \in DOMAIN s /\ c[i] = s[i]) \/ (i - Len(s) \in DOMAIN t /\ c[i] = t[i - Len(s)])
  BY <1>1, <1>2
<1>6. {c[i] : i \in DOMAIN c} = {s[i] : i \in DOMAIN s} \cup {t[i] : i \in DOMAIN t}
  BY <1>3, <1>4, <1>5
<1>7. QED
  BY <1>2, <1>6 DEF ToSet, c
=============================================================================
