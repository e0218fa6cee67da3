------------------------- MODULE AuctionParserProofs -------------------------
(***************************************************************************)
(* The rows of the parser, for any files: a row per key, each reference    *)
(* met, what was known of a user kept, and the null map of debug_parser.   *)
(***************************************************************************)
EXTENDS AuctionParser, Iteration, SequenceTheorems

-----------------------------------------------------------------------------
(***************************************************************************)
(* Folds.  What FoldLeft is defined by is a function on the sets of        *)
(* positions; of it only the values at 1 .. k matter.                      *)
(***************************************************************************)
\* it is what folds seq with step on v, whatever the positions that count.
Folds(it, step, v, seq, A) ==
  /\ it[{}] = v
  /\ \A s \in SUBSET A : s # {} => it[s] = step[<<it[s \ {Max(s)}], seq[Max(s)]>>]

\* The greatest of a set of positions is one of them.
LEMMA MaxOfSome ==
  ASSUME NEW n \in Nat
  PROVE  \A s \in SUBSET (1 .. n) :
           s # {} => Max(s) \in s /\ s \ {Max(s)} \in SUBSET (1 .. n)
                     /\ \A x \in s : x <= Max(s)
<1> SUFFICES ASSUME NEW s \in SUBSET (1 .. n), s # {}
             PROVE  Max(s) \in s /\ \A x \in s : x <= Max(s)
  OBVIOUS
<1>1. IsFiniteSet(1 .. n)
  BY FS_Interval
<1>2. IsFiniteSet(s)
  BY <1>1, FS_Subset
<1>3. s \in SUBSET Int
  OBVIOUS
<1>4. QED
  BY <1>2, <1>3, MaxIs

\* The greatest of 1 .. k is k.
LEMMA MaxOfFirst ==
  ASSUME NEW k \in Nat, k > 0
  PROVE  Max(1 .. k) = k /\ (1 .. k) \ {k} = 1 .. k - 1
<1>1. 1 .. k \in SUBSET (1 .. k) /\ k \in 1 .. k
  OBVIOUS
<1>2. Max(1 .. k) \in 1 .. k /\ k <= Max(1 .. k)
  BY <1>1, MaxOfSome
<1>3. QED
  BY <1>2

\* 1 .. k as a part of 1 .. n.
LEMMA FirstOfSome ==
  ASSUME NEW n \in Nat, NEW k \in 1 .. n
  PROVE  k \in Nat /\ k > 0 /\ 1 .. k # {} /\ 1 .. k \in SUBSET (1 .. n)
OBVIOUS

\* A function that folds exists.
LEMMA FoldExists ==
  ASSUME NEW V, NEW E, NEW v \in V, NEW step \in [V \X E -> V], NEW n \in Nat,
         NEW seq \in [1 .. n -> E]
  PROVE  \E it \in [SUBSET (1 .. n) -> V] : Folds(it, step, v, seq, 1 .. n)
<1> DEFINE Is(T) == \E it \in [SUBSET T -> V] : Folds(it, step, v, seq, T)
           F == {T \in SUBSET (1 .. n) : Is(T)}
<1>1. {} \in F
  <2> DEFINE it == [T \in SUBSET {} |-> v]
  <2>1. it \in [SUBSET {} -> V] /\ Folds(it, step, v, seq, {})
    BY DEF Folds
  <2>2. QED
    BY <2>1
<1>2. ASSUME NEW T \in SUBSET (1 .. n), T # {}, \A x \in T : T \ {x} \in F
      PROVE  T \in F
  <2> DEFINE x == Max(T)
  <2>1. x \in T /\ x \in 1 .. n /\ \A y \in T : y <= x
    BY <1>2, MaxOfSome
  <2> HIDE DEF x
  <2>2. PICK g \in [SUBSET (T \ {x}) -> V] : Folds(g, step, v, seq, T \ {x})
    BY <1>2, <2>1
  <2> DEFINE it == [s \in SUBSET T |-> IF x \in s THEN step[<<g[s \ {x}], seq[x]>>]
                                       ELSE g[s]]
  <2>3. it \in [SUBSET T -> V]
    <3>1. ASSUME NEW s \in SUBSET T PROVE it[s] \in V
      <4>1. CASE x \in s
        <5>1. g[s \ {x}] \in V /\ seq[x] \in E
          BY <2>1, <2>2
        <5>2. <<g[s \ {x}], seq[x]>> \in V \X E
          BY <5>1
        <5>3. QED
          BY <4>1, <5>2
      <4>2. CASE x \notin s
        BY <2>2, <4>2
      <4>3. QED
        BY <4>1, <4>2
    <3>2. QED
      BY <3>1
  <2>4. it[{}] = v
    BY <2>2 DEF Folds
  <2>5. ASSUME NEW s \in SUBSET T, s # {}
        PROVE  it[s] = step[<<it[s \ {Max(s)}], seq[Max(s)]>>]
    <3>1. Max(s) \in s /\ (\A y \in s : y <= Max(s)) /\ s \in SUBSET (1 .. n)
      BY <2>5, MaxOfSome
    <3>2. CASE x \in s
      <4> DEFINE m == Max(s)
      <4>1. m \in 1 .. n /\ m <= x /\ x <= m
        BY <2>1, <3>1, <3>2
      <4> HIDE DEF m
      <4>2. m = x
        BY <2>1, <4>1
      <4>3. Max(s) = x
        BY <4>2 DEF m
      <4>4. it[s \ {x}] = g[s \ {x}]
        OBVIOUS
      <4>5. QED
        BY <3>2, <4>3, <4>4
    <3>3. CASE x \notin s
      <4>1. s \in SUBSET (T \ {x}) /\ s \ {Max(s)} \in SUBSET T /\ x \notin s \ {Max(s)}
        BY <3>3
      <4>2. g[s] = step[<<g[s \ {Max(s)}], seq[Max(s)]>>]
        BY <2>2, <2>5, <4>1 DEF Folds
      <4>3. QED
        BY <3>3, <4>1, <4>2
    <3>4. QED
      BY <3>2, <3>3
  <2>6. Folds(it, step, v, seq, T)
    BY <2>4, <2>5 DEF Folds
  <2>7. QED
    BY <2>3, <2>6
<1> HIDE DEF F
<1>3. \A T \in SUBSET (1 .. n) : T \in F
  <2>1. IsFiniteSet(1 .. n)
    BY FS_Interval
  <2>2. \A T \in SUBSET (1 .. n) : T # {} /\ (\A x \in T : T \ {x} \in F) => T \in F
    BY <1>2
  <2>3. QED
    BY <1>1, <2>1, <2>2, SubsetInduction
<1>4. QED
  BY <1>3 DEF F

\* h does as long as what it has folded is in V.
FoldsIn(V, E, h, step, v, seq, n) ==
  /\ v \in V /\ step \in [V \X E -> V] /\ n \in Nat /\ seq \in [1 .. n -> E]
  /\ h[{}] = v
  /\ \A s \in SUBSET (1 .. n) :
       s # {} /\ h[s \ {Max(s)}] \in V
       => h[s] = step[<<h[s \ {Max(s)}], seq[Max(s)]>>]

\* g takes one element of seq after the other.
Walks(g, step, v, seq, n) ==
  g[0] = v /\ \A k \in 1 .. n : g[k] = step[<<g[k - 1], seq[k]>>]

\* The values at 1 .. k of what folds seq are those of a function on the
\* numbers.
LEMMA FoldSegments ==
  ASSUME NEW V, NEW E, NEW v, NEW step, NEW n, NEW seq, NEW h,
         FoldsIn(V, E, h, step, v, seq, n)
  PROVE  \E g \in [0 .. n -> V] : Walks(g, step, v, seq, n) /\ g[n] = h[1 .. n]
<1> USE DEF FoldsIn
<1> DEFINE g == [k \in 0 .. n |-> h[1 .. k]]
           F == {k \in Nat : k <= n => h[1 .. k] \in V}
<1>1. 0 \in F /\ g[0] = v
  <2>1. 1 .. 0 = {}
    OBVIOUS
  <2>2. QED
    BY <2>1
<1>2. ASSUME NEW k \in 1 .. n, h[1 .. k - 1] \in V
      PROVE  h[1 .. k] = step[<<h[1 .. k - 1], seq[k]>>] /\ h[1 .. k] \in V
  <2>1. Max(1 .. k) = k /\ (1 .. k) \ {k} = 1 .. k - 1 /\ 1 .. k # {}
    <3>1. n \in Nat
      OBVIOUS
    <3>2. k \in Nat /\ k > 0 /\ 1 .. k # {}
      BY <3>1, FirstOfSome
    <3>3. QED
      BY <3>2, MaxOfFirst
  <2>2. 1 .. k \in SUBSET (1 .. n)
    BY FirstOfSome
  <2>3. h[1 .. k] = step[<<h[1 .. k - 1], seq[k]>>]
    BY <1>2, <2>1, <2>2
  <2>4. <<h[1 .. k - 1], seq[k]>> \in V \X E
    BY <1>2
  <2>5. QED
    BY <2>3, <2>4
<1>3. \A k \in Nat : k \in F => k + 1 \in F
  <2> SUFFICES ASSUME NEW k \in Nat, k \in F, k + 1 <= n PROVE h[1 .. k + 1] \in V
    OBVIOUS
  <2>1. h[1 .. k] \in V /\ k + 1 \in 1 .. n /\ (k + 1) - 1 = k
    OBVIOUS
  <2>2. QED
    BY <1>2, <2>1
<1> HIDE DEF F
<1>4. \A k \in Nat : k \in F
  BY <1>1, <1>3, SetInduction
<1>5. \A k \in 0 .. n : h[1 .. k] \in V
  BY <1>4 DEF F
<1>6. g \in [0 .. n -> V] /\ g[n] = h[1 .. n]
  BY <1>5
<1>7. ASSUME NEW k \in 1 .. n PROVE g[k] = step[<<g[k - 1], seq[k]>>]
  <2>1. k - 1 \in 0 .. n /\ k \in 0 .. n
    OBVIOUS
  <2>2. QED
    BY <1>2, <1>5, <2>1
<1> HIDE DEF g
<1>8. QED
  BY <1>1, <1>6, <1>7 DEF Walks

\* Listed returns a list: the old one, with the element behind it if it was
\* not there.
LEMMA ListedIs ==
  ASSUME NEW T, NEW s \in Seq(T), NEW x \in T
  PROVE  /\ Listed(s, x) \in Seq(T)
         /\ Unique(s) => Unique(Listed(s, x))
         /\ ToSet(Listed(s, x)) = ToSet(s) \cup {x}
         /\ Len(s) <= Len(Listed(s, x))
         /\ \A i \in 1 .. Len(s) : Listed(s, x)[i] = s[i]
<1>1. Len(s) \in Nat /\ DOMAIN s = 1 .. Len(s) /\ \A i \in 1 .. Len(s) : s[i] \in T
  BY LenProperties
<1>2. CASE Contains(s, x)
  <2>1. Listed(s, x) = s /\ x \in ToSet(s)
    BY <1>1, <1>2 DEF Listed, Contains, ToSet
  <2>2. QED
    BY <1>1, <2>1
<1>3. CASE ~ Contains(s, x)
  <2> DEFINE t == Append(s, x)
  <2>1. /\ t \in Seq(T) /\ Len(t) = Len(s) + 1 /\ DOMAIN t = 1 .. Len(s) + 1
        /\ t[Len(s) + 1] = x /\ \A i \in 1 .. Len(s) : t[i] = s[i]
    BY AppendProperties
  <2>2. Listed(s, x) = t /\ \A i \in 1 .. Len(s) : s[i] # x
    BY <1>3 DEF Listed, Contains
  <2> HIDE DEF t
  <2>3. Unique(s) => Unique(t)
    BY <1>1, <2>1, <2>2 DEF Unique
  <2>4. ToSet(t) = ToSet(s) \cup {x}
    BY <1>1, <2>1 DEF ToSet
  <2>5. QED
    BY <1>1, <2>1, <2>2, <2>3, <2>4
<1>4. QED
  BY <1>2, <1>3

\* A fold of Listed takes one element after the other.
LEMMA FoldListed ==
  ASSUME NEW T, NEW v \in Seq(T), NEW seq \in Seq(T)
  PROVE  \E g \in [0 .. Len(seq) -> Seq(T)] :
           /\ g[0] = v /\ g[Len(seq)] = AllListed(v, seq)
           /\ \A k \in 1 .. Len(seq) : g[k] = Listed(g[k - 1], seq[k])
<1> DEFINE n == Len(seq)
           step == [p \in Seq(T) \X T |-> Listed(p[1], p[2])]
           Body(f, s) == IF s = {} THEN v ELSE Listed(f[s \ {Max(s)}], seq[Max(s)])
           iter == CHOOSE f : f = [s \in SUBSET DOMAIN seq |-> Body(f, s)]
<1>1. n \in Nat /\ DOMAIN seq = 1 .. n /\ seq \in [1 .. n -> T]
  BY LenProperties
<1>2. AllListed(v, seq) = iter[DOMAIN seq]
  BY DEF AllListed, FoldLeft, MapThenFoldSet
<1>3. step \in [Seq(T) \X T -> Seq(T)]
  BY ListedIs
<1>4. \A w \in Seq(T), x \in T : step[<<w, x>>] = Listed(w, x)
  OBVIOUS
<1> HIDE DEF n, step
<1>5. PICK it \in [SUBSET (1 .. n) -> Seq(T)] : Folds(it, step, v, seq, 1 .. n)
  BY <1>1, <1>3, FoldExists
<1>6. it = [s \in SUBSET DOMAIN seq |-> Body(it, s)]
  <2> SUFFICES ASSUME NEW s \in SUBSET (1 .. n) PROVE it[s] = Body(it, s)
    BY <1>1
  <2>1. CASE s = {}
    BY <1>5, <2>1 DEF Folds
  <2>2. CASE s # {}
    <3>1. Max(s) \in 1 .. n /\ s \ {Max(s)} \in SUBSET (1 .. n)
      BY <1>1, <2>2, MaxOfSome
    <3>2. it[s \ {Max(s)}] \in Seq(T) /\ seq[Max(s)] \in T
      BY <1>1, <3>1
    <3>3. it[s] = step[<<it[s \ {Max(s)}], seq[Max(s)]>>]
      BY <1>5, <2>2 DEF Folds
    <3>4. QED
      BY <1>4, <2>2, <3>2, <3>3
  <2>3. QED
    BY <2>1, <2>2
<1> HIDE DEF Body
<1>7. iter = [s \in SUBSET DOMAIN seq |-> Body(iter, s)]
  BY <1>6
<1> HIDE DEF iter
<1>8. iter[{}] = v
  BY <1>7 DEF Body
<1>9. ASSUME NEW s \in SUBSET (1 .. n), s # {}, iter[s \ {Max(s)}] \in Seq(T)
      PROVE  iter[s] = step[<<iter[s \ {Max(s)}], seq[Max(s)]>>]
  <2>1. Max(s) \in 1 .. n
    BY <1>1, <1>9, MaxOfSome
  <2>2. iter[s] = Listed(iter[s \ {Max(s)}], seq[Max(s)])
    BY <1>1, <1>7, <1>9 DEF Body
  <2>3. QED
    BY <1>1, <1>4, <1>9, <2>1, <2>2
<1>10. PICK g \in [0 .. n -> Seq(T)] : Walks(g, step, v, seq, n) /\ g[n] = iter[1 .. n]
  <2>1. FoldsIn(Seq(T), T, iter, step, v, seq, n)
    BY <1>1, <1>3, <1>8, <1>9 DEF FoldsIn
  <2>2. QED
    BY <2>1, FoldSegments
<1>11. ASSUME NEW k \in 1 .. n PROVE g[k] = Listed(g[k - 1], seq[k])
  <2>1. k - 1 \in 0 .. n
    BY <1>1
  <2>2. g[k - 1] \in Seq(T) /\ seq[k] \in T
    BY <1>1, <2>1
  <2>3. QED
    BY <1>4, <1>10, <2>2 DEF Walks
<1>12. QED
  BY <1>1, <1>2, <1>10, <1>11 DEF n, Walks
-----------------------------------------------------------------------------
(***************************************************************************)
(* The rows of users.                                                      *)
(***************************************************************************)
RowFields == ToSet(Fields) \cup {"uid"}
Rows(W) == Seq([RowFields -> W])

\* The users of P have their values, made safer, in W.
Valued(P, W) == \A u \in P : \A f \in RowFields : safer(u[f]) \in W

\* A value that counts as known stays as it is.
LEMMA SaferKnown ==
  ASSUME NEW x
  PROVE  /\ safer(x) # None => safer(x) = x /\ x # None
         /\ safer(safer(x)) = safer(x)
BY DEF safer

\* What is known once u is met: what was known, or else what u has.
LEMMA FirstGrows ==
  ASSUME NEW P, NEW met \in Seq(P), NEW u \in P, NEW uid, NEW f
  PROVE  FirstKnown(Append(met, u), uid, f) =
           IF FirstKnown(met, uid, f) # None THEN FirstKnown(met, uid, f)
           ELSE IF safer(u.uid) = uid THEN safer(u[f]) ELSE None
<1> DEFINE n == Len(met)
           m2 == Append(met, u)
           Is(m, i) == safer(m[i].uid) = uid /\ safer(m[i][f]) # None
           old == {i \in DOMAIN met : Is(met, i)}
           new == {i \in DOMAIN m2 : Is(m2, i)}
<1>1. /\ n \in Nat /\ DOMAIN met = 1 .. n /\ DOMAIN m2 = 1 .. n + 1
      /\ m2[n + 1] = u /\ \A i \in 1 .. n : m2[i] = met[i]
  BY AppendProperties, LenProperties
<1>2. /\ FirstKnown(met, uid, f) = IF old = {} THEN None ELSE met[Min(old)][f]
      /\ FirstKnown(m2, uid, f) = IF new = {} THEN None ELSE m2[Min(new)][f]
  BY DEF FirstKnown
<1>3. /\ old \in SUBSET (1 .. n) /\ new \in SUBSET (1 .. n + 1)
      /\ \A i \in old : Is(met, i)
      /\ \A i \in 1 .. n : i \in new <=> i \in old
      /\ n + 1 \in new <=> safer(u.uid) = uid /\ safer(u[f]) # None
  BY <1>1
<1> HIDE DEF n, m2, old, new
<1>4. \A s \in SUBSET (1 .. n + 1) :
        s # {} => Min(s) \in s /\ \A i \in s : Min(s) <= i
  <2> SUFFICES ASSUME NEW s \in SUBSET (1 .. n + 1), s # {}
               PROVE  Min(s) \in s /\ \A i \in s : Min(s) <= i
    OBVIOUS
  <2>1. IsFiniteSet(1 .. n + 1)
    BY <1>1, FS_Interval
  <2>2. IsFiniteSet(s)
    BY <2>1, FS_Subset
  <2>3. s \in SUBSET Int
    BY <1>1
  <2>4. QED
    BY <2>2, <2>3, MinIs
<1>5. CASE old # {}
  <2> DEFINE a == Min(old)
             b == Min(new)
  <2>1. a \in old /\ a \in 1 .. n /\ \A i \in old : a <= i
    BY <1>1, <1>3, <1>4, <1>5
  <2>2. new # {} /\ a \in new
    BY <1>3, <2>1
  <2>3. b \in new /\ b \in 1 .. n + 1 /\ b <= a
    BY <1>3, <1>4, <2>2
  <2> HIDE DEF a, b
  <2>4. b \in 1 .. n
    BY <1>1, <2>1, <2>3
  <2>5. b \in old
    BY <1>3, <2>3, <2>4
  <2>6. b = a
    BY <2>1, <2>3, <2>4, <2>5
  <2>7. /\ FirstKnown(met, uid, f) = met[a][f]
        /\ FirstKnown(m2, uid, f) = met[a][f]
    BY <1>1, <1>2, <1>5, <2>2, <2>4, <2>6 DEF a, b
  <2>8. met[a][f] # None
    BY <1>3, <2>1, SaferKnown
  <2>9. QED
    BY <2>7, <2>8 DEF m2
<1>6. CASE old = {}
  <2>1. FirstKnown(met, uid, f) = None
    BY <1>2, <1>6
  <2>2. CASE n + 1 \in new
    <3>1. \A i \in new : i = n + 1
      BY <1>1, <1>3, <1>6
    <3>2. Min(new) = n + 1
      BY <1>3, <1>4, <2>2, <3>1
    <3>3. FirstKnown(m2, uid, f) = u[f]
      BY <1>1, <1>2, <2>2, <3>2
    <3>4. safer(u.uid) = uid /\ safer(u[f]) = u[f]
      BY <1>3, <2>2, SaferKnown
    <3>5. QED
      BY <2>1, <3>3, <3>4 DEF m2
  <2>3. CASE n + 1 \notin new
    <3>1. new = {}
      BY <1>1, <1>3, <1>6, <2>3
    <3>2. safer(u.uid) = uid => safer(u[f]) = None
      BY <1>3, <2>3
    <3>3. QED
      BY <1>2, <2>1, <3>1, <3>2 DEF m2
  <2>4. QED
    BY <2>2, <2>3
<1>7. QED
  BY <1>5, <1>6

\* smart_add keeps a row for each user met, and what was first known of each.
LEMMA SmartAddIs ==
  ASSUME NEW P, NEW W, Valued(P, W), NEW rows \in Rows(W), NEW met \in Seq(P),
         NEW u \in P
  PROVE  /\ smart_add(rows, u) \in Rows(W)
         /\ Merged(rows, met) => Merged(smart_add(rows, u), Append(met, u))
<1> DEFINE n == Len(rows)
           m == Len(met)
           met2 == Append(met, u)
           rows2 == smart_add(rows, u)
           id == safer(u.uid)
           In == \E i \in DOMAIN rows : rows[i].uid = id
<1>1. /\ n \in Nat /\ DOMAIN rows = 1 .. n /\ "uid" \in RowFields
      /\ \A i \in 1 .. n : rows[i] \in [RowFields -> W]
  BY LenProperties DEF Rows, RowFields
<1>2. /\ m \in Nat /\ DOMAIN met = 1 .. m /\ DOMAIN met2 = 1 .. m + 1
      /\ met2[m + 1] = u /\ \A i \in 1 .. m : met2[i] = met[i]
  BY AppendProperties, LenProperties
<1>3. \A f \in RowFields : safer(u[f]) \in W
  BY DEF Valued
<1>4. ToSet(Fields) \subseteq RowFields
  BY DEF RowFields
<1>5. ASSUME NEW i \in 1 .. n
      PROVE  /\ Filled(rows[i], u) \in [RowFields -> W]
             /\ \A f \in RowFields :
                  Filled(rows[i], u)[f] = IF rows[i][f] = None THEN safer(u[f]) ELSE rows[i][f]
  <2>1. DOMAIN rows[i] = RowFields
    BY <1>1
  <2>2. Filled(rows[i], u) = [f \in RowFields |-> IF rows[i][f] = None THEN safer(u[f]) ELSE rows[i][f]]
    BY <2>1 DEF Filled
  <2>3. QED
    BY <1>1, <1>3, <2>2
<1>6. /\ Row(u) \in [RowFields -> W]
      /\ \A f \in RowFields : Row(u)[f] = safer(u[f])
  BY <1>3 DEF Row, RowFields
<1>7. {safer(met2[i].uid) : i \in DOMAIN met2} = {safer(met[i].uid) : i \in DOMAIN met} \cup {id}
  BY <1>2
<1>8. \A uid, f : FirstKnown(met2, uid, f) =
                    IF FirstKnown(met, uid, f) # None THEN FirstKnown(met, uid, f)
                    ELSE IF id = uid THEN safer(u[f]) ELSE None
  BY FirstGrows
<1> HIDE DEF met2
<1>9. CASE In
  <2> DEFINE At2(i) == IF rows[i].uid = id THEN Filled(rows[i], u) ELSE rows[i]
  <2>1. rows2 = [i \in 1 .. n |-> At2(i)]
    BY <1>1, <1>9 DEF smart_add
  <2>2. \A i \in 1 .. n : At2(i) \in [RowFields -> W]
    BY <1>1, <1>5
  <2> HIDE DEF At2
  <2>3. rows2 \in Rows(W) /\ DOMAIN rows2 = 1 .. n
    BY <1>1, <2>1, <2>2 DEF Rows
  <2>4. \A i \in 1 .. n : rows2[i].uid = rows[i].uid
    BY <1>1, <1>5, <2>1 DEF At2
  <2>5. ASSUME Merged(rows, met) PROVE Merged(rows2, met2)
    <3>1. /\ {rows[i].uid : i \in DOMAIN rows} = {safer(met[i].uid) : i \in DOMAIN met}
          /\ \A i, j \in DOMAIN rows : rows[i].uid = rows[j].uid => i = j
          /\ \A i \in DOMAIN rows, f \in ToSet(Fields) :
               rows[i][f] = FirstKnown(met, rows[i].uid, f)
      BY <2>5 DEF Merged
    <3>2. {rows2[i].uid : i \in DOMAIN rows2} = {rows[i].uid : i \in DOMAIN rows}
      BY <1>1, <2>3, <2>4
    <3>3. id \in {rows[i].uid : i \in DOMAIN rows}
      BY <1>9
    <3>4. {rows2[i].uid : i \in DOMAIN rows2} = {safer(met2[i].uid) : i \in DOMAIN met2}
      BY <1>7, <3>1, <3>2, <3>3
    <3>5. \A i, j \in DOMAIN rows2 : rows2[i].uid = rows2[j].uid => i = j
      BY <1>1, <2>3, <2>4, <3>1
    <3>6. ASSUME NEW i \in 1 .. n, NEW f \in ToSet(Fields)
          PROVE  rows2[i][f] = FirstKnown(met2, rows2[i].uid, f)
      <4>1. rows[i][f] = FirstKnown(met, rows[i].uid, f) /\ f \in RowFields
        BY <1>1, <1>4, <3>1
      <4>2. CASE rows[i].uid = id
        <5>1. rows2[i][f] = IF rows[i][f] = None THEN safer(u[f]) ELSE rows[i][f]
          BY <1>5, <2>1, <4>1, <4>2 DEF At2
        <5>2. QED
          BY <1>8, <2>4, <4>1, <4>2, <5>1
      <4>3. CASE rows[i].uid # id
        <5>1. rows2[i][f] = rows[i][f]
          BY <2>1, <4>3 DEF At2
        <5>2. QED
          BY <1>8, <2>4, <4>1, <4>3, <5>1
      <4>4. QED
        BY <4>2, <4>3
    <3>7. QED
      BY <2>3, <3>4, <3>5, <3>6 DEF Merged
  <2>6. QED
    BY <2>3, <2>5 DEF met2
<1>10. CASE ~ In
  <2>1. rows2 = Append(rows, Row(u))
    BY <1>10 DEF smart_add
  <2>2. /\ rows2 \in Rows(W) /\ DOMAIN rows2 = 1 .. n + 1
        /\ rows2[n + 1] = Row(u) /\ \A i \in 1 .. n : rows2[i] = rows[i]
    <3>1. rows \in Seq([RowFields -> W])
      BY DEF Rows
    <3>2. QED
      BY <1>6, <2>1, <3>1, AppendProperties, LenProperties DEF Rows
  <2> HIDE DEF rows2
  <2>3. rows2[n + 1].uid = id /\ \A i \in 1 .. n : rows2[i].uid = rows[i].uid /\ rows[i].uid # id
    BY <1>1, <1>6, <1>10, <2>2
  <2>4. ASSUME Merged(rows, met) PROVE Merged(rows2, met2)
    <3>1. /\ {rows[i].uid : i \in DOMAIN rows} = {safer(met[i].uid) : i \in DOMAIN met}
          /\ \A i, j \in DOMAIN rows : rows[i].uid = rows[j].uid => i = j
          /\ \A i \in DOMAIN rows, f \in ToSet(Fields) :
               rows[i][f] = FirstKnown(met, rows[i].uid, f)
      BY <2>4 DEF Merged
    <3>2. {rows2[i].uid : i \in DOMAIN rows2} = {rows[i].uid : i \in DOMAIN rows} \cup {id}
      BY <1>1, <2>2, <2>3
    <3>3. {rows2[i].uid : i \in DOMAIN rows2} = {safer(met2[i].uid) : i \in DOMAIN met2}
      BY <1>7, <3>1, <3>2
    <3>4. \A i, j \in DOMAIN rows2 : rows2[i].uid = rows2[j].uid => i = j
      BY <1>1, <2>2, <2>3, <3>1
    <3>5. ASSUME NEW f PROVE FirstKnown(met, id, f) = None
      <4>1. id \notin {rows[i].uid : i \in DOMAIN rows}
        BY <1>10
      <4>2. \A i \in DOMAIN met : safer(met[i].uid) # id
        BY <3>1, <4>1
      <4>3. {i \in DOMAIN met : safer(met[i].uid) = id /\ safer(met[i][f]) # None} = {}
        BY <4>2
      <4>4. QED
        BY <4>3 DEF FirstKnown
    <3>6. ASSUME NEW i \in 1 .. n + 1, NEW f \in ToSet(Fields)
          PROVE  rows2[i][f] = FirstKnown(met2, rows2[i].uid, f)
      <4>1. CASE i = n + 1
        BY <1>4, <1>6, <1>8, <2>2, <2>3, <3>5, <4>1
      <4>2. CASE i # n + 1
        <5>1. i \in 1 .. n
          BY <1>1, <4>2
        <5>2. rows[i][f] = FirstKnown(met, rows[i].uid, f) /\ rows[i].uid # id
          BY <1>1, <2>3, <3>1, <5>1
        <5>3. QED
          BY <1>8, <2>2, <5>1, <5>2
      <4>3. QED
        BY <4>1, <4>2
    <3>7. QED
      BY <2>2, <3>3, <3>4, <3>6 DEF Merged
  <2>5. QED
    BY <2>2, <2>4 DEF met2, rows2
<1>11. QED
  BY <1>9, <1>10

\* A fold of smart_add takes one user after the other.
LEMMA FoldSmartAdd ==
  ASSUME NEW P, NEW W, Valued(P, W), NEW v \in Rows(W), NEW seq \in Seq(P)
  PROVE  \E g \in [0 .. Len(seq) -> Rows(W)] :
           /\ g[0] = v /\ g[Len(seq)] = AllAdded(v, seq)
           /\ \A k \in 1 .. Len(seq) : g[k] = smart_add(g[k - 1], seq[k])
<1> DEFINE n == Len(seq)
           step == [p \in Rows(W) \X P |-> smart_add(p[1], p[2])]
           Body(f, s) == IF s = {} THEN v ELSE smart_add(f[s \ {Max(s)}], seq[Max(s)])
           iter == CHOOSE f : f = [s \in SUBSET DOMAIN seq |-> Body(f, s)]
<1>1. n \in Nat /\ DOMAIN seq = 1 .. n /\ seq \in [1 .. n -> P]
  BY LenProperties
<1>2. AllAdded(v, seq) = iter[DOMAIN seq]
  BY DEF AllAdded, FoldLeft, MapThenFoldSet
<1>3. step \in [Rows(W) \X P -> Rows(W)]
  <2>1. \A rows \in Rows(W), u \in P : smart_add(rows, u) \in Rows(W)
    <3>1. SUFFICES ASSUME NEW rows \in Rows(W), NEW u \in P
                   PROVE  smart_add(rows, u) \in Rows(W)
      OBVIOUS
    <3>2. <<>> \in Seq(P)
      OBVIOUS
    <3>3. QED
      BY <3>2, SmartAddIs
  <2>2. QED
    BY <2>1
<1>4. \A w \in Rows(W), x \in P : step[<<w, x>>] = smart_add(w, x)
  OBVIOUS
<1> HIDE DEF n, step
<1>5. PICK it \in [SUBSET (1 .. n) -> Rows(W)] : Folds(it, step, v, seq, 1 .. n)
  BY <1>1, <1>3, FoldExists
<1>6. it = [s \in SUBSET DOMAIN seq |-> Body(it, s)]
  <2> SUFFICES ASSUME NEW s \in SUBSET (1 .. n) PROVE it[s] = Body(it, s)
    BY <1>1
  <2>1. CASE s = {}
    BY <1>5, <2>1 DEF Folds
  <2>2. CASE s # {}
    <3>1. Max(s) \in 1 .. n /\ s \ {Max(s)} \in SUBSET (1 .. n)
      BY <1>1, <2>2, MaxOfSome
    <3>2. it[s \ {Max(s)}] \in Rows(W) /\ seq[Max(s)] \in P
      BY <1>1, <3>1
    <3>3. it[s] = step[<<it[s \ {Max(s)}], seq[Max(s)]>>]
      BY <1>5, <2>2 DEF Folds
    <3>4. QED
      BY <1>4, <2>2, <3>2, <3>3
  <2>3. QED
    BY <2>1, <2>2
<1> HIDE DEF Body
<1>7. iter = [s \in SUBSET DOMAIN seq |-> Body(iter, s)]
  BY <1>6
<1> HIDE DEF iter
<1>8. iter[{}] = v
  BY <1>7 DEF Body
<1>9. ASSUME NEW s \in SUBSET (1 .. n), s # {}, iter[s \ {Max(s)}] \in Rows(W)
      PROVE  iter[s] = step[<<iter[s \ {Max(s)}], seq[Max(s)]>>]
  <2>1. Max(s) \in 1 .. n
    BY <1>1, <1>9, MaxOfSome
  <2>2. iter[s] = smart_add(iter[s \ {Max(s)}], seq[Max(s)])
    BY <1>1, <1>7, <1>9 DEF Body
  <2>3. QED
    BY <1>1, <1>4, <1>9, <2>1, <2>2
<1>10. PICK g \in [0 .. n -> Rows(W)] : Walks(g, step, v, seq, n) /\ g[n] = iter[1 .. n]
  <2>1. FoldsIn(Rows(W), P, iter, step, v, seq, n)
    BY <1>1, <1>3, <1>8, <1>9 DEF FoldsIn
  <2>2. QED
    BY <2>1, FoldSegments
<1>11. ASSUME NEW k \in 1 .. n PROVE g[k] = smart_add(g[k - 1], seq[k])
  <2>1. k - 1 \in 0 .. n
    BY <1>1
  <2>2. g[k - 1] \in Rows(W) /\ seq[k] \in P
    BY <1>1, <2>1
  <2>3. QED
    BY <1>4, <1>10, <2>2 DEF Walks
<1>12. QED
  BY <1>1, <1>2, <1>10, <1>11 DEF n, Walks

\* The first k of t appended to s, and one more.
LEMMA ConcatStep ==
  ASSUME NEW T, NEW s \in Seq(T), NEW t \in Seq(T), NEW k \in 1 .. Len(t)
  PROVE  /\ s \o SubSeq(t, 1, k) = Append(s \o SubSeq(t, 1, k - 1), t[k])
         /\ s \o SubSeq(t, 1, k - 1) \in Seq(T) /\ t[k] \in T
<1> DEFINE a == SubSeq(t, 1, k - 1)
           b == SubSeq(t, 1, k)
<1>1. Len(t) \in Nat /\ k \in Nat /\ \A i \in 1 .. Len(t) : t[i] \in T
  BY LenProperties
<1>2. a \in Seq(T) /\ Len(a) = k - 1 /\ \A i \in 1 .. k - 1 : a[i] = t[i]
  BY <1>1, SubSeqProperties
<1>3. b \in Seq(T) /\ Len(b) = k /\ \A i \in 1 .. k : b[i] = t[i]
  BY <1>1, SubSeqProperties
<1> HIDE DEF a, b
<1> DEFINE c == s \o a
           d == s \o b
           e == Append(c, t[k])
<1>4. Len(s) \in Nat /\ Len(s) + (k - 1) = Len(s) + k - 1
  BY <1>1, LenProperties
<1>5. /\ c \in Seq(T) /\ Len(c) = Len(s) + Len(a)
       /\ \A i \in 1 .. Len(s) + Len(a) : c[i] = IF i <= Len(s) THEN s[i] ELSE a[i - Len(s)]
  BY <1>2, ConcatProperties
<1>6. /\ c \in Seq(T) /\ Len(c) = Len(s) + k - 1
      /\ \A i \in 1 .. Len(s) + k - 1 : c[i] = IF i <= Len(s) THEN s[i] ELSE a[i - Len(s)]
  BY <1>4, <1>2, <1>5
<1>7. /\ d \in Seq(T) /\ Len(d) = Len(s) + k
      /\ \A i \in 1 .. Len(s) + k : d[i] = IF i <= Len(s) THEN s[i] ELSE b[i - Len(s)]
  BY <1>3, ConcatProperties
<1> HIDE DEF c, d
<1>8. /\ e \in Seq(T) /\ Len(e) = Len(s) + k /\ e[Len(s) + k] = t[k]
      /\ \A i \in 1 .. Len(s) + k - 1 : e[i] = c[i]
  BY <1>1, <1>6, AppendProperties
<1> HIDE DEF e
<1>9. Len(s) \in Nat
  BY LenProperties
<1>10. \A i \in 1 .. Len(s) + k : d[i] = e[i]
  <2> SUFFICES ASSUME NEW i \in 1 .. Len(s) + k PROVE d[i] = e[i]
    OBVIOUS
  <2>1. CASE i <= Len(s)
    <3>1. i \in 1 .. Len(s) + k - 1
      BY <1>1, <1>9, <2>1
    <3>2. QED
      BY <1>6, <1>7, <1>8, <2>1, <3>1
  <2>2. CASE i > Len(s) /\ i < Len(s) + k
    <3>1. i - Len(s) \in 1 .. k - 1 /\ i \in 1 .. Len(s) + k - 1 /\ i - Len(s) \in 1 .. k
      BY <1>1, <1>9, <2>2
    <3>2. d[i] = b[i - Len(s)] /\ e[i] = a[i - Len(s)]
      BY <1>6, <1>7, <1>8, <1>9, <2>2, <3>1
    <3>3. QED
      BY <1>2, <1>3, <3>1, <3>2
  <2>3. CASE i = Len(s) + k
    <3>1. i - Len(s) = k /\ k \in 1 .. k
      BY <1>1, <1>9, <2>3
    <3>2. QED
      BY <1>1, <1>3, <1>7, <1>8, <1>9, <2>3, <3>1
  <2>4. QED
    BY <1>1, <1>9, <2>1, <2>2, <2>3
<1>11. d = e
  BY <1>1, <1>7, <1>8, <1>9, <1>10, SeqEqual
<1>12. QED
  BY <1>1, <1>6, <1>11 DEF c, d, e, a, b

\* Many users after one another.
LEMMA MergedFold ==
  ASSUME NEW P, NEW W, Valued(P, W), NEW v \in Rows(W), NEW seq \in Seq(P),
         NEW met \in Seq(P), Merged(v, met)
  PROVE  /\ AllAdded(v, seq) \in Rows(W)
         /\ Merged(AllAdded(v, seq), met \o seq)
<1> DEFINE n == Len(seq)
           So(k) == met \o SubSeq(seq, 1, k)
<1>1. PICK g \in [0 .. n -> Rows(W)] :
        /\ g[0] = v /\ g[n] = AllAdded(v, seq)
        /\ \A k \in 1 .. n : g[k] = smart_add(g[k - 1], seq[k])
  BY FoldSmartAdd
<1>2. n \in Nat
  BY LenProperties
<1>3. \A k \in 1 .. n : So(k) = Append(So(k - 1), seq[k]) /\ So(k - 1) \in Seq(P) /\ seq[k] \in P
  BY ConcatStep
<1>4. So(0) = met /\ So(n) = met \o seq
  <2>1. SubSeq(seq, 1, 0) = <<>> /\ SubSeq(seq, 1, n) = seq
    BY <1>2, SubSeqProperties, LenProperties
  <2>2. met \o <<>> = met
    OBVIOUS
  <2>3. QED
    BY <2>1, <2>2
<1> HIDE DEF So, n
<1> DEFINE F == {k \in Nat : k <= n => Merged(g[k], So(k))}
<1>5. 0 \in F
  BY <1>1, <1>4
<1>6. \A k \in Nat : k \in F => k + 1 \in F
  <2> SUFFICES ASSUME NEW k \in Nat, k \in F, k + 1 <= n
               PROVE  Merged(g[k + 1], So(k + 1))
    OBVIOUS
  <2>1. k + 1 \in 1 .. n /\ (k + 1) - 1 = k /\ k \in 0 .. n
    BY <1>2
  <2>2. Merged(g[k], So(k)) /\ g[k] \in Rows(W)
    BY <2>1
  <2>3. g[k + 1] = smart_add(g[k], seq[k + 1])
    BY <1>1, <2>1
  <2>4. So(k + 1) = Append(So(k), seq[k + 1]) /\ So(k) \in Seq(P) /\ seq[k + 1] \in P
    BY <1>3, <2>1
  <2>5. Merged(smart_add(g[k], seq[k + 1]), Append(So(k), seq[k + 1]))
    BY <2>2, <2>4, SmartAddIs
  <2>6. QED
    BY <2>3, <2>4, <2>5
<1> HIDE DEF F
<1>7. n \in F
  BY <1>2, <1>5, <1>6, SetInduction
<1>8. n \in 0 .. n /\ n <= n
  BY <1>2
<1>9. Merged(g[n], So(n)) /\ g[n] \in Rows(W)
  BY <1>7, <1>8 DEF F
<1>10. QED
  BY <1>1, <1>4, <1>9

\* Many elements listed after one another.
LEMMA ListedFold ==
  ASSUME NEW T, NEW v \in Seq(T), NEW seq \in Seq(T)
  PROVE  /\ AllListed(v, seq) \in Seq(T)
         /\ Unique(v) => Unique(AllListed(v, seq))
         /\ ToSet(AllListed(v, seq)) = ToSet(v) \cup ToSet(seq)
         /\ Len(v) <= Len(AllListed(v, seq))
<1> DEFINE n == Len(seq)
           r == AllListed(v, seq)
<1>1. PICK g \in [0 .. n -> Seq(T)] :
        /\ g[0] = v /\ g[n] = r
        /\ \A k \in 1 .. n : g[k] = Listed(g[k - 1], seq[k])
  BY FoldListed
<1>2. n \in Nat /\ DOMAIN seq = 1 .. n /\ \A k \in 1 .. n : seq[k] \in T
  BY LenProperties
<1> DEFINE Is(k) == /\ Unique(v) => Unique(g[k])
                    /\ ToSet(g[k]) = ToSet(v) \cup {seq[i] : i \in 1 .. k}
                    /\ Len(v) <= Len(g[k])
           F == {k \in Nat : k <= n => Is(k)}
<1> HIDE DEF n, r, Is
<1>3. 0 \in F
  <2>1. Len(v) <= Len(v) /\ {seq[i] : i \in 1 .. 0} = {}
    BY LenProperties
  <2>2. QED
    BY <1>1, <2>1 DEF Is
<1>4. \A k \in Nat : k \in F => k + 1 \in F
  <2> SUFFICES ASSUME NEW k \in Nat, k \in F, k + 1 <= n PROVE Is(k + 1)
    OBVIOUS
  <2>1. k + 1 \in 1 .. n /\ (k + 1) - 1 = k /\ k \in 0 .. n /\ k + 1 \in 0 .. n
    BY <1>2
  <2>2. Is(k) /\ g[k] \in Seq(T) /\ g[k + 1] \in Seq(T) /\ seq[k + 1] \in T
    BY <1>2, <2>1
  <2>3. g[k + 1] = Listed(g[k], seq[k + 1])
    BY <1>1, <2>1
  <2>4. PICK s \in Seq(T), x \in T, l \in Seq(T) : s = g[k] /\ x = seq[k + 1] /\ l = Listed(s, x)
    BY <2>2, <2>3
  <2>5. /\ Unique(s) => Unique(l)
        /\ ToSet(l) = ToSet(s) \cup {x}
        /\ Len(s) <= Len(l)
    <3>1. /\ Unique(s) => Unique(Listed(s, x))
          /\ ToSet(Listed(s, x)) = ToSet(s) \cup {x}
          /\ Len(s) <= Len(Listed(s, x))
      BY ListedIs
    <3>2. QED
      BY <2>4, <3>1
  <2>6. l = g[k + 1] /\ Len(v) \in Nat /\ Len(s) \in Nat /\ Len(l) \in Nat
    BY <2>3, <2>4, LenProperties
  <2>7. Len(v) <= Len(l)
    BY <2>2, <2>4, <2>5, <2>6 DEF Is
  <2>8. {seq[i] : i \in 1 .. k + 1} = {seq[i] : i \in 1 .. k} \cup {seq[k + 1]}
    <3>1. 1 .. k + 1 = (1 .. k) \cup {k + 1}
      OBVIOUS
    <3>2. QED
      BY <3>1
  <2>9. ToSet(l) = ToSet(v) \cup {seq[i] : i \in 1 .. k + 1}
    BY <2>2, <2>4, <2>5, <2>8 DEF Is
  <2>10. Unique(v) => Unique(l)
    BY <2>2, <2>4, <2>5 DEF Is
  <2>11. QED
    BY <2>6, <2>7, <2>9, <2>10 DEF Is
<1> HIDE DEF F
<1>5. n \in F
  BY <1>2, <1>3, <1>4, SetInduction
<1>6. Is(n) /\ n \in 0 .. n
  BY <1>2, <1>5 DEF F
<1>7. ToSet(seq) = {seq[i] : i \in 1 .. n}
  BY <1>2 DEF ToSet
<1>8. r \in Seq(T)
  BY <1>1, <1>6
<1>9. QED
  BY <1>1, <1>6, <1>7, <1>8 DEF r, Is

-----------------------------------------------------------------------------
(***************************************************************************)
(* What the files hold.                                                    *)
(***************************************************************************)
Items == UNION {ToSet(file) : file \in UNION {ToSet(input) : input \in Inputs}}
Persons == UNION {ToSet(UsersOf(item)) : item \in Items}
Names == UNION {ToSet(Named(item)) : item \in Items}
Ids == {item.id : item \in Items}
Uids == {safer(u.uid) : u \in Persons}
Values == {safer(u[f]) : u \in Persons, f \in RowFields}

\* The values of the users met are all there are.
LEMMA ValuesAre == Valued(Persons, Values)
BY DEF Valued, Values

\* A file is a list of items.
LEMMA InputIs ==
  ASSUME NEW input \in Inputs
  PROVE  /\ input \in Seq(ToSet(input)) /\ Len(input) \in Nat
         /\ DOMAIN input = 1 .. Len(input)
         /\ \A n \in 1 .. Len(input) :
              /\ input[n] \in Seq(Items) /\ Len(input[n]) \in Nat
              /\ DOMAIN input[n] = 1 .. Len(input[n])
              /\ \A k \in 1 .. Len(input[n]) : input[n][k] \in Items
<1>1. /\ input \in Seq(ToSet(input)) /\ Len(input) \in Nat
      /\ DOMAIN input = 1 .. Len(input)
  BY InputsAssumption, LenProperties DEF IsSeq
<1>2. ASSUME NEW n \in 1 .. Len(input)
      PROVE  /\ input[n] \in Seq(Items) /\ Len(input[n]) \in Nat
             /\ DOMAIN input[n] = 1 .. Len(input[n])
             /\ \A k \in 1 .. Len(input[n]) : input[n][k] \in Items
  <2>1. n \in DOMAIN input
    BY <1>1
  <2>2. input[n] \in Seq(ToSet(input[n]))
    BY <2>1, InputsAssumption DEF IsSeq
  <2>3. Len(input[n]) \in Nat /\ DOMAIN input[n] = 1 .. Len(input[n])
    BY <2>2, LenProperties
  <2>4. input[n] \in UNION {ToSet(i) : i \in Inputs}
    BY <2>1 DEF ToSet
  <2>5. ToSet(input[n]) \subseteq Items
    BY <2>4 DEF Items
  <2>6. \A k \in 1 .. Len(input[n]) : input[n][k] \in Items
    BY <2>3, <2>5 DEF ToSet
  <2>7. QED
    BY <2>2, <2>3, <2>6
<1>3. QED
  BY <1>1, <1>2

\* The lists of an item.
LEMMA ItemIs ==
  ASSUME NEW item \in Items
  PROVE  /\ Named(item) \in Seq(Names)
         /\ Made(item) \in Seq(Persons)
         /\ item.seller \in Persons
         /\ UsersOf(item) \in Seq(Persons)
         /\ item.id \in Ids
<1>1. \E input \in Inputs : \E n \in DOMAIN input : \E k \in DOMAIN input[n] : item = input[n][k]
  BY DEF Items, ToSet
<1>2. /\ item.categories = None \/ IsSeq(item.categories)
      /\ item.bids = None \/ IsSeq(item.bids)
  BY <1>1, InputsAssumption
<1>3. IsSeq(Named(item)) /\ IsSeq(Made(item))
  <2>1. IsSeq(<<>>)
    BY DEF IsSeq
  <2>2. QED
    BY <1>2, <2>1 DEF Named, Made
<1>4. \A S, T, s : s \in Seq(S) /\ S \subseteq T => s \in Seq(T)
  OBVIOUS
<1>5. Named(item) \in Seq(Names)
  <2>1. ToSet(Named(item)) \subseteq Names
    BY DEF Names
  <2>2. QED
    BY <1>3, <1>4, <2>1 DEF IsSeq
<1> DEFINE S == ToSet(Made(item)) \cup {item.seller}
<1>6. Made(item) \in Seq(S) /\ <<item.seller>> \in Seq(S)
  BY <1>3 DEF IsSeq
<1>7. ToSet(UsersOf(item)) = S /\ UsersOf(item) \in Seq(S)
  <2> DEFINE a == Made(item)
             b == <<item.seller>>
             c == a \o b
  <2>1. /\ Len(a) \in Nat /\ DOMAIN a = 1 .. Len(a)
        /\ Len(b) = 1 /\ b[1] = item.seller
    BY <1>6, LenProperties
  <2>2. /\ c \in Seq(S) /\ Len(c) = Len(a) + Len(b)
        /\ \A i \in 1 .. Len(a) + Len(b) : c[i] = IF i <= Len(a) THEN a[i] ELSE b[i - Len(a)]
    BY <1>6, ConcatProperties
  <2> HIDE DEF a, b, c
  <2>3. DOMAIN c = 1 .. Len(a) + 1
    BY <2>1, <2>2, LenProperties
  <2>4. \A i \in 1 .. Len(a) : c[i] = a[i]
    BY <2>1, <2>2
  <2>5. c[Len(a) + 1] = item.seller
    <3>1. (Len(a) + 1) - Len(a) = 1 /\ Len(a) + 1 \in 1 .. Len(a) + Len(b) /\ ~ (Len(a) + 1 <= Len(a))
      BY <2>1
    <3>2. QED
      BY <2>1, <2>2, <3>1
  <2>6. {c[i] : i \in DOMAIN c} = {a[i] : i \in DOMAIN a} \cup {item.seller}
    BY <2>1, <2>3, <2>4, <2>5
  <2>7. QED
    BY <2>2, <2>6 DEF UsersOf, ToSet, a, b, c
<1>8. S \subseteq Persons
  BY <1>7 DEF Persons
<1>9. QED
  BY <1>4, <1>5, <1>6, <1>7, <1>8 DEF Ids

-----------------------------------------------------------------------------
(***************************************************************************)
(* The tables, of which some are in memory and some written: categories,   *)
(* users, bids, items and categorizations.  met are the users met so far,  *)
(* open has the item that is being parsed.                                 *)
(***************************************************************************)
Keyed(c, u, b, i, ci, met, open) ==
  /\ c \in Seq(Names) /\ Unique(c)
  /\ u \in Rows(Values) /\ Merged(u, met)
  /\ b \in Seq([user : Uids, item : Ids])
  /\ i \in Seq([id : Ids, seller : Uids])
  /\ \A k, l \in DOMAIN i : i[k].id = i[l].id => k = l
  /\ ci \in Seq([item : Ids, cate : Nat]) /\ Unique(ci)
  /\ Column(b, "user") \cup Column(i, "seller") \subseteq Column(u, "uid")
  /\ Column(b, "item") \cup Column(ci, "item") \subseteq Column(i, "id") \cup open
  /\ Column(ci, "cate") \subseteq DOMAIN c

\* The users with a row are those met.
LEMMA UidsAre ==
  ASSUME NEW P, NEW u, NEW met \in Seq(P), Merged(u, met)
  PROVE  Column(u, "uid") = {safer(met[k].uid) : k \in 1 .. Len(met)}
<1>1. DOMAIN met = 1 .. Len(met)
  BY LenProperties
<1>2. QED
  BY <1>1 DEF Merged, Column

\* Columns of a table with rows behind it.
LEMMA ColumnConcat ==
  ASSUME NEW T, NEW s \in Seq(T), NEW t \in Seq(T), NEW f
  PROVE  Column(s \o t, f) = Column(s, f) \cup Column(t, f)
<1> DEFINE c == s \o t
<1>1. /\ Len(s) \in Nat /\ DOMAIN s = 1 .. Len(s) /\ Len(t) \in Nat /\ DOMAIN t = 1 .. Len(t)
  BY LenProperties
<1>2. /\ c \in Seq(T) /\ Len(c) = Len(s) + Len(t)
      /\ \A i \in 1 .. Len(s) + Len(t) : c[i] = IF i <= Len(s) THEN s[i] ELSE t[i - Len(s)]
  BY ConcatProperties
<1> HIDE DEF c
<1>3. DOMAIN c = 1 .. Len(s) + Len(t)
  BY <1>2, LenProperties
<1>4. \A i \in 1 .. Len(s) : i \in DOMAIN c /\ c[i] = s[i]
  BY <1>1, <1>2, <1>3
<1>5. ASSUME NEW i \in 1 .. Len(t) PROVE Len(s) + i \in DOMAIN c /\ c[Len(s) + i] = t[i]
  <2>1. (Len(s) + i) - Len(s) = i /\ ~ (Len(s) + i <= Len(s)) /\ Len(s) + i \in 1 .. Len(s) + Len(t)
    BY <1>1
  <2>2. QED
    BY <1>2, <1>3, <2>1
<1>6. ASSUME NEW i \in DOMAIN c
      PROVE  (\E k \in 1 .. Len(s) : c[i] = s[k]) \/ (\E k \in 1 .. Len(t) : c[i] = t[k])
  <2>1. CASE i <= Len(s)
    BY <1>1, <1>2, <1>3, <2>1
  <2>2. CASE ~ (i <= Len(s))
    <3>1. i - Len(s) \in 1 .. Len(t)
      BY <1>1, <1>3, <2>2
    <3>2. c[i] = t[i - Len(s)]
      BY <1>2, <1>3, <2>2
    <3>3. QED
      BY <3>1, <3>2
  <2>3. QED
    BY <2>1, <2>2
<1>7. QED
  <2>1. \A i \in DOMAIN c : c[i][f] \in Column(s, f) \cup Column(t, f)
    <3>1. SUFFICES ASSUME NEW i \in DOMAIN c PROVE c[i][f] \in Column(s, f) \cup Column(t, f)
      OBVIOUS
    <3>2. QED
      BY <1>1, <1>6 DEF Column
  <2>2. \A i \in DOMAIN s : s[i][f] \in Column(c, f)
    BY <1>1, <1>4 DEF Column
  <2>3. \A i \in DOMAIN t : t[i][f] \in Column(c, f)
    <3>1. SUFFICES ASSUME NEW i \in DOMAIN t PROVE t[i][f] \in Column(c, f)
      OBVIOUS
    <3>2. Len(s) + i \in DOMAIN c /\ c[Len(s) + i] = t[i]
      BY <1>1, <1>5
    <3>3. QED
      BY <3>2 DEF Column
  <2>4. Column(c, f) = Column(s, f) \cup Column(t, f)
    BY <2>1, <2>2, <2>3 DEF Column
  <2>5. QED
    BY <2>4 DEF c

\* The same, with the concatenation under its name.
LEMMA ColumnCat ==
  ASSUME NEW T, NEW s \in Seq(T), NEW t \in Seq(T), NEW f
  PROVE  Column(Cat(s, t), f) = Column(s, f) \cup Column(t, f)
BY ColumnConcat DEF Cat

\* Columns of a table with a row behind it.
LEMMA ColumnAppend ==
  ASSUME NEW T, NEW s \in Seq(T), NEW x \in T, NEW f
  PROVE  Column(Append(s, x), f) = Column(s, f) \cup {x[f]}
<1>1. /\ Append(s, x) \in Seq(T) /\ Len(Append(s, x)) = Len(s) + 1
      /\ \A k \in 1 .. Len(s) : Append(s, x)[k] = s[k]
      /\ Append(s, x)[Len(s) + 1] = x
  BY AppendProperties
<1>2. Len(s) \in Nat /\ DOMAIN s = 1 .. Len(s) /\ DOMAIN Append(s, x) = 1 .. Len(s) + 1
  BY <1>1, LenProperties
<1>3. DOMAIN Append(s, x) = DOMAIN s \cup {Len(s) + 1}
  BY <1>2
<1>4. QED
  BY <1>1, <1>2, <1>3 DEF Column

\* _parse_category keeps the tables: its categorizations are of the item and
\* of categories listed.
LEMMA KeyedCategory ==
  ASSUME NEW c, NEW u, NEW b, NEW i, NEW ci, NEW met, NEW item \in Items,
         Keyed(c, u, b, i, ci, met, {})
  PROVE  LET all == AllListed(c, Named(item))
         IN  Keyed(all, u, b, i,
                   AllListed(ci, [k \in DOMAIN Named(item) |->
                                    [item |-> item.id, cate |-> PlaceOf(all, Named(item)[k])]]),
                   met, {item.id})
<1> DEFINE named == Named(item)
           n == Len(named)
           all == AllListed(c, named)
           pairs == [k \in DOMAIN named |->
                       [item |-> item.id, cate |-> PlaceOf(all, named[k])]]
           ci2 == AllListed(ci, pairs)
           T == [item : Ids, cate : Nat]
<1>1. /\ named \in Seq(Names) /\ n \in Nat /\ DOMAIN named = 1 .. n /\ item.id \in Ids
      /\ \A k \in 1 .. n : named[k] \in ToSet(named)
  BY ItemIs, LenProperties DEF ToSet
<1>2. /\ c \in Seq(Names) /\ Unique(c) /\ ci \in Seq(T) /\ Unique(ci)
      /\ Column(b, "item") \cup Column(ci, "item") \subseteq Column(i, "id")
      /\ Column(ci, "cate") \subseteq DOMAIN c
  BY DEF Keyed
<1>3. all \in Seq(Names) /\ Unique(all) /\ ToSet(named) \subseteq ToSet(all) /\ Len(c) <= Len(all)
  BY <1>1, <1>2, ListedFold
<1>4. /\ Len(c) \in Nat /\ DOMAIN c = 1 .. Len(c)
      /\ Len(all) \in Nat /\ DOMAIN all = 1 .. Len(all)
  BY <1>2, <1>3, LenProperties
<1>5. \A x \in ToSet(all) : PlaceOf(all, x) \in DOMAIN all
  <2> SUFFICES ASSUME NEW x \in ToSet(all) PROVE PlaceOf(all, x) \in DOMAIN all
    OBVIOUS
  <2> DEFINE I == {k \in 1 .. Len(all) : all[k] = x}
  <2>1. PlaceOf(all, x) = IF I # {} THEN Min(I) ELSE 0
    BY DEF PlaceOf, SelectInSeq
  <2>2. I # {}
    BY <1>4 DEF ToSet
  <2>3. IsFiniteSet(1 .. Len(all))
    BY <1>4, FS_Interval
  <2>4. IsFiniteSet(I)
    BY <2>3, FS_Subset
  <2>5. I \in SUBSET Int /\ I \subseteq 1 .. Len(all)
    BY <1>4
  <2> HIDE DEF I, all
  <2>6. Min(I) \in I
    BY <2>2, <2>4, <2>5, MinIs
  <2>7. QED
    BY <1>4, <2>1, <2>2, <2>5, <2>6
<1> HIDE DEF all, n
<1>6. \A k \in 1 .. n : PlaceOf(all, named[k]) \in DOMAIN all
  BY <1>1, <1>3, <1>5
<1>7. \A k \in 1 .. n : [item |-> item.id, cate |-> PlaceOf(all, named[k])] \in T
  BY <1>1, <1>4, <1>6
<1>8. pairs \in Seq(T) /\ DOMAIN pairs = 1 .. n
  BY <1>1, <1>7
<1>9. \A x \in ToSet(pairs) : x.item = item.id /\ x.cate \in DOMAIN all
  BY <1>6, <1>8 DEF ToSet
<1> HIDE DEF pairs, T
<1>10. ci2 \in Seq(T) /\ Unique(ci2) /\ ToSet(ci2) = ToSet(ci) \cup ToSet(pairs)
  BY <1>2, <1>8, ListedFold
<1> HIDE DEF ci2
<1>11. \A s, f : Column(s, f) = {x[f] : x \in ToSet(s)}
  BY DEF Column, ToSet
<1>12. Column(ci2, "item") \subseteq Column(ci, "item") \cup {item.id}
  BY <1>9, <1>10, <1>11
<1>13. Column(ci2, "cate") \subseteq DOMAIN all
  <2>1. DOMAIN c \subseteq DOMAIN all
    BY <1>3, <1>4
  <2>2. Column(ci2, "cate") \subseteq Column(ci, "cate") \cup DOMAIN all
    BY <1>9, <1>10, <1>11
  <2>3. QED
    BY <1>2, <2>1, <2>2
<1>14. Column(b, "item") \cup Column(ci2, "item") \subseteq Column(i, "id") \cup {item.id}
  BY <1>2, <1>12
<1>15. Keyed(all, u, b, i, ci2, met, {item.id})
  BY <1>3, <1>10, <1>13, <1>14 DEF Keyed, T
<1>16. QED
  BY <1>15 DEF all, ci2, pairs

\* _parse_bid keeps the tables: a row for each bidder, and of each bid.
LEMMA KeyedBid ==
  ASSUME NEW c, NEW u, NEW b, NEW i, NEW ci, NEW met \in Seq(Persons), NEW item \in Items,
         Keyed(c, u, b, i, ci, met, {item.id})
  PROVE  Keyed(c, AllAdded(u, Made(item)),
               b \o [k \in DOMAIN Made(item) |->
                       [user |-> safer(Made(item)[k].uid), item |-> item.id]],
               i, ci, met \o Made(item), {item.id})
<1> DEFINE made == Made(item)
           n == Len(made)
           u2 == AllAdded(u, made)
           new == [k \in DOMAIN made |-> [user |-> safer(made[k].uid), item |-> item.id]]
           b2 == b \o new
           met2 == met \o made
           T == [user : Uids, item : Ids]
<1>1. /\ made \in Seq(Persons) /\ n \in Nat /\ DOMAIN made = 1 .. n /\ item.id \in Ids
      /\ \A k \in 1 .. n : made[k] \in Persons
  BY ItemIs, LenProperties
<1>2. /\ u \in Rows(Values) /\ Merged(u, met) /\ b \in Seq(T)
      /\ Column(b, "user") \cup Column(i, "seller") \subseteq Column(u, "uid")
      /\ Column(b, "item") \cup Column(ci, "item") \subseteq Column(i, "id") \cup {item.id}
  BY DEF Keyed
<1>3. u2 \in Rows(Values) /\ Merged(u2, met2)
  BY <1>1, <1>2, ValuesAre, MergedFold
<1>4. Column(u2, "uid") = Column(u, "uid") \cup {safer(made[k].uid) : k \in 1 .. n}
  <2>1. /\ met2 \in Seq(Persons) /\ Len(met) \in Nat /\ DOMAIN met = 1 .. Len(met)
        /\ Len(met2) \in Nat /\ DOMAIN met2 = 1 .. Len(met2)
    BY <1>1, ConcatProperties, LenProperties
  <2> DEFINE Id(s) == {safer(s[k].uid) : k \in DOMAIN s}
  <2>2. Column(u2, "uid") = Id(met2)
    <3> HIDE DEF u2, met2
    <3>1. Column(u2, "uid") = {safer(met2[k].uid) : k \in 1 .. Len(met2)}
      BY <1>3, <2>1, UidsAre
    <3>2. QED
      BY <2>1, <3>1
  <2>3. Column(u, "uid") = Id(met)
    <3>1. Column(u, "uid") = {safer(met[k].uid) : k \in 1 .. Len(met)}
      BY <1>2, UidsAre
    <3>2. QED
      BY <2>1, <3>1
  <2>4. Id(met2) = Id(met) \cup Id(made)
    <3>1. Column(met2, "uid") = Column(met, "uid") \cup Column(made, "uid")
      <4>1. Column(Cat(met, made), "uid") = Column(met, "uid") \cup Column(made, "uid")
        BY <1>1, ColumnCat
      <4>2. QED
        BY <4>1 DEF Cat
    <3>2. ASSUME NEW s PROVE Id(s) = {safer(x) : x \in Column(s, "uid")}
      BY DEF Column
    <3> HIDE DEF Id
    <3>3. QED
      BY <3>1, <3>2
  <2>5. QED
    BY <1>1, <2>2, <2>3, <2>4
<1> HIDE DEF n, u2, met2, made
<1>5. \A k \in 1 .. n : [user |-> safer(made[k].uid), item |-> item.id] \in T
  BY <1>1 DEF Uids
<1>6. new \in Seq(T) /\ DOMAIN new = 1 .. n
  BY <1>1, <1>5
<1>7. Column(new, "user") = {safer(made[k].uid) : k \in 1 .. n} /\ Column(new, "item") \subseteq {item.id}
  BY <1>6 DEF Column
<1> HIDE DEF new, T
<1>8. b2 \in Seq(T) /\ \A f : Column(b2, f) = Column(b, f) \cup Column(new, f)
  BY <1>2, <1>6, ColumnConcat, ConcatProperties
<1> HIDE DEF b2
<1>9. Column(b2, "user") \cup Column(i, "seller") \subseteq Column(u2, "uid")
  BY <1>2, <1>4, <1>7, <1>8
<1>10. Column(b2, "item") \cup Column(ci, "item") \subseteq Column(i, "id") \cup {item.id}
  BY <1>2, <1>7, <1>8
<1>11. Keyed(c, u2, b2, i, ci, met2, {item.id})
  BY <1>3, <1>8, <1>9, <1>10 DEF Keyed, T
<1>12. QED
  BY <1>11 DEF u2, b2, met2, new, made

\* _parse_item: the seller gets a row, and the item too if it is new.
LEMMA KeyedItem ==
  ASSUME NEW c, NEW u, NEW b, NEW i, NEW ci, NEW met \in Seq(Persons), NEW item \in Items,
         Keyed(c, u, b, i, ci, met, {item.id})
  PROVE  /\ Keyed(c, smart_add(u, item.seller), b, i, ci, Append(met, item.seller), {item.id})
         /\ (\A k \in DOMAIN i : i[k].id # item.id)
            => Keyed(c, smart_add(u, item.seller), b,
                     Append(i, [id |-> item.id, seller |-> safer(item.seller.uid)]), ci,
                     Append(met, item.seller), {})
<1> DEFINE s == item.seller
           u2 == smart_add(u, s)
           met2 == Append(met, s)
           new == [id |-> item.id, seller |-> safer(s.uid)]
           i2 == Append(i, new)
           T == [id : Ids, seller : Uids]
<1>1. s \in Persons /\ item.id \in Ids
  BY ItemIs
<1>2. /\ u \in Rows(Values) /\ Merged(u, met) /\ i \in Seq(T)
      /\ \A k, l \in DOMAIN i : i[k].id = i[l].id => k = l
      /\ Column(b, "user") \cup Column(i, "seller") \subseteq Column(u, "uid")
      /\ Column(b, "item") \cup Column(ci, "item") \subseteq Column(i, "id") \cup {item.id}
  BY DEF Keyed
<1>3. u2 \in Rows(Values) /\ Merged(u2, met2)
  BY <1>1, <1>2, ValuesAre, SmartAddIs
<1>4. Column(u2, "uid") = Column(u, "uid") \cup {safer(s.uid)}
  <2>1. /\ met2 \in Seq(Persons) /\ Len(met) \in Nat /\ DOMAIN met = 1 .. Len(met)
        /\ Len(met2) \in Nat /\ DOMAIN met2 = 1 .. Len(met2)
    BY <1>1, AppendProperties, LenProperties
  <2> DEFINE Id(x) == {safer(x[k].uid) : k \in DOMAIN x}
  <2> HIDE DEF u2, met2
  <2>2. Merged(u2, met2) /\ Merged(u, met) /\ met2 \in Seq(Persons)
    BY <1>2, <1>3, <2>1
  <2>3. /\ Column(u2, "uid") = {safer(met2[k].uid) : k \in 1 .. Len(met2)}
        /\ Column(u, "uid") = {safer(met[k].uid) : k \in 1 .. Len(met)}
    BY <2>2, UidsAre
  <2>4. Column(u2, "uid") = Id(met2) /\ Column(u, "uid") = Id(met)
    BY <2>1, <2>3
  <2>5. Id(met2) = Id(met) \cup {safer(s.uid)}
    <3>1. Column(met2, "uid") = Column(met, "uid") \cup {s.uid}
      BY <1>1, ColumnAppend DEF met2
    <3>2. \A x : Id(x) = {safer(y) : y \in Column(x, "uid")}
      BY DEF Column
    <3> HIDE DEF Id
    <3>3. QED
      BY <3>1, <3>2
  <2>6. QED
    BY <2>4, <2>5
<1> HIDE DEF u2, met2, s
<1>5. Keyed(c, u2, b, i, ci, met2, {item.id})
  <2>1. Column(b, "user") \cup Column(i, "seller") \subseteq Column(u2, "uid")
    BY <1>2, <1>4
  <2>2. QED
    BY <1>3, <2>1 DEF Keyed
<1>6. ASSUME \A k \in DOMAIN i : i[k].id # item.id PROVE Keyed(c, u2, b, i2, ci, met2, {})
  <2>1. new \in T /\ new.id = item.id /\ new.seller = safer(s.uid)
    BY <1>1 DEF Uids
  <2> HIDE DEF new, T
  <2>2. /\ i2 \in Seq(T) /\ DOMAIN i2 = 1 .. Len(i) + 1 /\ i2[Len(i) + 1] = new
        /\ \A k \in 1 .. Len(i) : i2[k] = i[k]
    BY <1>2, <2>1, AppendProperties, LenProperties
  <2>3. Len(i) \in Nat /\ DOMAIN i = 1 .. Len(i)
    BY <1>2, LenProperties
  <2>4. Column(i2, "id") = Column(i, "id") \cup {item.id}
    BY <1>2, <2>1, ColumnAppend
  <2>5. Column(i2, "seller") = Column(i, "seller") \cup {safer(s.uid)}
    BY <1>2, <2>1, ColumnAppend
  <2> HIDE DEF i2
  <2>6. \A k, l \in DOMAIN i2 : i2[k].id = i2[l].id => k = l
    <3> SUFFICES ASSUME NEW k \in 1 .. Len(i) + 1, NEW l \in 1 .. Len(i) + 1,
                        i2[k].id = i2[l].id
                 PROVE  k = l
      BY <2>2
    <3>1. CASE k \in 1 .. Len(i) /\ l \in 1 .. Len(i)
      BY <1>2, <2>2, <2>3, <3>1
    <3>2. CASE k = Len(i) + 1 /\ l \in 1 .. Len(i)
      BY <1>6, <2>1, <2>2, <2>3, <3>2
    <3>3. CASE l = Len(i) + 1 /\ k \in 1 .. Len(i)
      BY <1>6, <2>1, <2>2, <2>3, <3>3
    <3>4. QED
      BY <2>3, <3>1, <3>2, <3>3
  <2>7. Column(b, "user") \cup Column(i2, "seller") \subseteq Column(u2, "uid")
    BY <1>2, <1>4, <2>5
  <2>8. Column(b, "item") \cup Column(ci, "item") \subseteq Column(i2, "id") \cup {}
    BY <1>2, <2>4
  <2>9. QED
    BY <1>5, <2>2, <2>6, <2>7, <2>8 DEF Keyed, T
<1>7. QED
  BY <1>5, <1>6 DEF u2, met2, i2, new, s

-----------------------------------------------------------------------------
(***************************************************************************)
(* The users met: MetIn and Met of any list of files fs and place in it.   *)
(***************************************************************************)
MetInOf(fs, n, m) == FlattenSeq([k \in 1 .. m |-> UsersOf(fs[n][k])])

MetOf(fs, n, m) ==
  FlattenSeq([i \in 1 .. n - 1 |-> MetInOf(fs, i, Len(fs[i]))])
  \o (IF n <= Len(fs) THEN MetInOf(fs, n, m - 1) ELSE <<>>)

\* Those of one more item.
LEMMA MetInGrows ==
  ASSUME NEW fs \in Inputs, NEW n \in 1 .. Len(fs), NEW m \in 0 .. Len(fs[n])
  PROVE  /\ MetInOf(fs, n, m) \in Seq(Persons)
         /\ m < Len(fs[n]) => MetInOf(fs, n, m + 1) = MetInOf(fs, n, m) \o UsersOf(fs[n][m + 1])
         /\ MetInOf(fs, n, 0) = <<>>
<1> DEFINE s(j) == [k \in 1 .. j |-> UsersOf(fs[n][k])]
           l == Len(fs[n])
<1>1. l \in Nat /\ \A k \in 1 .. l : fs[n][k] \in Items
  BY InputIs
<1>2. \A k \in 1 .. l : UsersOf(fs[n][k]) \in Seq(Persons)
  BY <1>1, ItemIs
<1> HIDE DEF l
<1>3. \A j \in 0 .. l : s(j) \in Seq(Seq(Persons)) /\ Len(s(j)) = j
  BY <1>1, <1>2
<1>4. <<>> \in Seq(Persons)
  OBVIOUS
<1>5. MetInOf(fs, n, m) \in Seq(Persons)
  <2>1. s(m) \in Seq(Seq(Persons))
    BY <1>3 DEF l
  <2> HIDE DEF s
  <2>2. FlattenSeq(s(m)) \in Seq(Persons)
    BY <2>1, FlattenIn
  <2>3. QED
    BY <2>2 DEF MetInOf, s
<1>6. ASSUME m < l PROVE MetInOf(fs, n, m + 1) = MetInOf(fs, n, m) \o UsersOf(fs[n][m + 1])
  <2> DEFINE t == UsersOf(fs[n][m + 1])
  <2>1. t \in Seq(Persons) /\ m \in Nat /\ m \in 0 .. l /\ m + 1 \in 0 .. l
    BY <1>1, <1>2, <1>6 DEF l
  <2>2. s(m) \in Seq(Seq(Persons)) /\ Len(s(m)) = m /\ s(m + 1) \in Seq(Seq(Persons)) /\ Len(s(m + 1)) = m + 1
    BY <1>3, <2>1
  <2>3. Append(s(m), t) = s(m + 1)
    <3>1. \A k \in 1 .. m : s(m)[k] = UsersOf(fs[n][k])
      OBVIOUS
    <3>2. \A k \in 1 .. m + 1 : s(m + 1)[k] = UsersOf(fs[n][k])
      OBVIOUS
    <3> DEFINE a == Append(s(m), t)
               b == s(m + 1)
               V == Seq(Persons)
               sm == s(m)
    <3>3. sm \in Seq(V) /\ Len(sm) = m /\ t \in V /\ b \in Seq(V) /\ Len(b) = m + 1
      BY <2>1, <2>2
    <3>4. \A k \in 1 .. m : sm[k] = b[k]
      BY <2>1, <3>1, <3>2
    <3>5. b[m + 1] = t
      BY <2>1, <3>2
    <3> HIDE DEF sm, b, t, V
    <3>6. a \in Seq(V) /\ Len(a) = m + 1 /\ a[m + 1] = t /\ \A k \in 1 .. m : a[k] = sm[k]
      BY <3>3, AppendProperties DEF sm
    <3> HIDE DEF a
    <3>7. \A k \in 1 .. m + 1 : a[k] = b[k]
      <4> SUFFICES ASSUME NEW k \in 1 .. m + 1 PROVE a[k] = b[k]
        OBVIOUS
      <4>1. k \in 1 .. m \/ k = m + 1
        BY <2>1
      <4>2. QED
        BY <3>4, <3>5, <3>6, <4>1
    <3>8. a = b
      BY <3>3, <3>6, <3>7, SeqEqual
    <3>9. QED
      BY <3>8 DEF a, b, t
  <2> HIDE DEF s, t
  <2>4. FlattenSeq(Append(s(m), t)) = FlattenSeq(s(m)) \o t
    BY <2>1, <2>2, FlattenGrows
  <2>5. QED
    BY <2>3, <2>4 DEF MetInOf, s, t
<1>7. MetInOf(fs, n, 0) = <<>>
  <2>1. s(0) = <<>>
    OBVIOUS
  <2>2. FlattenSeq(<<>>) = <<>>
    BY DEF FlattenSeq
  <2>3. QED
    BY <2>1, <2>2 DEF MetInOf
<1>8. QED
  BY <1>5, <1>6, <1>7 DEF l

\* The next item of a file, and the next file.
LEMMA MetGrows ==
  ASSUME NEW fs \in Inputs, NEW n \in 1 .. Len(fs) + 1, NEW m \in Nat \ {0},
         n <= Len(fs) => m <= Len(fs[n]) + 1
  PROVE  /\ MetOf(fs, n, m) \in Seq(Persons)
         /\ n <= Len(fs) /\ m <= Len(fs[n])
            => MetOf(fs, n, m + 1) = MetOf(fs, n, m) \o UsersOf(fs[n][m])
         /\ n <= Len(fs) /\ m = Len(fs[n]) + 1
            => MetOf(fs, n + 1, 1) = MetOf(fs, n, m)
         /\ MetOf(fs, 1, 1) = <<>>
<1> DEFINE In(i) == MetInOf(fs, i, Len(fs[i]))
           s(j) == [i \in 1 .. j |-> In(i)]
           l == Len(fs)
<1>1. l \in Nat /\ \A i \in 1 .. l : Len(fs[i]) \in Nat
  BY InputIs
<1>2. \A i \in 1 .. l : In(i) \in Seq(Persons)
  <2> SUFFICES ASSUME NEW i \in 1 .. l PROVE In(i) \in Seq(Persons)
    OBVIOUS
  <2>1. Len(fs[i]) \in 0 .. Len(fs[i])
    BY <1>1
  <2>2. QED
    BY <2>1, MetInGrows
<1> HIDE DEF In, l
<1>3. \A j \in 0 .. l : s(j) \in Seq(Seq(Persons)) /\ Len(s(j)) = j
  BY <1>1, <1>2
<1>4. <<>> \in Seq(Persons)
  OBVIOUS
<1>5. \A j \in 0 .. l : FlattenSeq(s(j)) \in Seq(Persons)
  <2> SUFFICES ASSUME NEW j \in 0 .. l PROVE FlattenSeq(s(j)) \in Seq(Persons)
    OBVIOUS
  <2>1. s(j) \in Seq(Seq(Persons))
    BY <1>3
  <2> HIDE DEF s
  <2>2. QED
    BY <2>1, FlattenIn
<1>6. ASSUME NEW j \in 0 .. l - 1
      PROVE  FlattenSeq(s(j + 1)) = FlattenSeq(s(j)) \o In(j + 1)
  <2>1. j \in Nat /\ j \in 0 .. l /\ j + 1 \in 0 .. l /\ j + 1 \in 1 .. l
    BY <1>1
  <2> DEFINE a == s(j)
             b == s(j + 1)
             t == In(j + 1)
             V == Seq(Persons)
  <2>2. a \in Seq(V) /\ Len(a) = j /\ t \in V /\ b \in Seq(V) /\ Len(b) = j + 1
    BY <1>2, <1>3, <2>1
  <2>3. (\A k \in 1 .. j : a[k] = b[k]) /\ b[j + 1] = t
    BY <2>1
  <2> HIDE DEF a, b, t, V
  <2> DEFINE c == Append(a, t)
  <2>4. c \in Seq(V) /\ Len(c) = j + 1 /\ c[j + 1] = t /\ \A k \in 1 .. j : c[k] = a[k]
    BY <2>2, AppendProperties
  <2> HIDE DEF c
  <2>5. \A k \in 1 .. j + 1 : c[k] = b[k]
    <3> SUFFICES ASSUME NEW k \in 1 .. j + 1 PROVE c[k] = b[k]
      OBVIOUS
    <3>1. k \in 1 .. j \/ k = j + 1
      BY <2>1
    <3>2. QED
      BY <2>3, <2>4, <3>1
  <2>6. c = b
    BY <2>2, <2>4, <2>5, SeqEqual
  <2>7. FlattenSeq(c) = FlattenSeq(a) \o t
    BY <2>2, FlattenGrows DEF V, c
  <2>8. QED
    BY <2>6, <2>7 DEF a, b, t
<1>7. FlattenSeq(s(0)) = <<>>
  <2>1. s(0) = <<>>
    OBVIOUS
  <2>2. QED
    BY <2>1 DEF FlattenSeq
<1>8. \A i, j : MetOf(fs, i, j) = FlattenSeq(s(i - 1)) \o (IF i <= l THEN MetInOf(fs, i, j - 1) ELSE <<>>)
  BY DEF MetOf, In, l
<1> HIDE DEF s
<1>9. n \in 1 .. l + 1 /\ n - 1 \in 0 .. l
  BY <1>1 DEF l
<1>10. n <= l => m - 1 \in 0 .. Len(fs[n]) /\ Len(fs[n]) \in Nat /\ n \in 1 .. Len(fs)
  BY <1>1, <1>9 DEF l
<1>11. n <= l => MetInOf(fs, n, m - 1) \in Seq(Persons)
  BY <1>10, MetInGrows
<1>12. FlattenSeq(s(n - 1)) \in Seq(Persons)
  BY <1>5, <1>9
<1>13. MetOf(fs, n, m) \in Seq(Persons)
  <2>1. PICK a \in Seq(Persons), b \in Seq(Persons) : MetOf(fs, n, m) = a \o b
    BY <1>4, <1>8, <1>11, <1>12
  <2>2. a \o b \in Seq(Persons)
    BY ConcatProperties
  <2>3. QED
    BY <2>1, <2>2
<1>14. ASSUME n <= l, m <= Len(fs[n])
       PROVE  MetOf(fs, n, m + 1) = MetOf(fs, n, m) \o UsersOf(fs[n][m])
  <2>1. m - 1 < Len(fs[n]) /\ (m - 1) + 1 = m /\ (m + 1) - 1 = m
    BY <1>10, <1>14
  <2>2. MetInOf(fs, n, m) = MetInOf(fs, n, m - 1) \o UsersOf(fs[n][m])
    BY <1>10, <1>14, <2>1, MetInGrows
  <2>3. m \in 1 .. Len(fs[n])
    BY <1>10, <1>14
  <2>4. UsersOf(fs[n][m]) \in Seq(Persons)
    BY <1>10, <1>14, <2>3, InputIs, ItemIs
  <2>5. /\ MetOf(fs, n, m + 1) = FlattenSeq(s(n - 1)) \o MetInOf(fs, n, m)
        /\ MetOf(fs, n, m) = FlattenSeq(s(n - 1)) \o MetInOf(fs, n, m - 1)
    BY <1>8, <1>14, <2>1
  <2>6. PICK a \in Seq(Persons), b \in Seq(Persons), c \in Seq(Persons) :
          /\ a = FlattenSeq(s(n - 1)) /\ b = MetInOf(fs, n, m - 1)
          /\ c = UsersOf(fs[n][m])
    BY <1>11, <1>12, <1>14, <2>4
  <2>7. Cat(Cat(a, b), c) = Cat(a, Cat(b, c))
    BY CatAssociative
  <2>8. (a \o b) \o c = a \o (b \o c)
    BY <2>7 DEF Cat
  <2>9. QED
    BY <2>2, <2>5, <2>6, <2>8
<1>15. ASSUME n <= l, m = Len(fs[n]) + 1
       PROVE  MetOf(fs, n + 1, 1) = MetOf(fs, n, m)
  <2>1. m - 1 = Len(fs[n]) /\ n - 1 \in 0 .. l - 1 /\ (n - 1) + 1 = n /\ (n + 1) - 1 = n /\ 1 - 1 = 0
    BY <1>1, <1>9, <1>10, <1>15
  <2>2. FlattenSeq(s(n)) = FlattenSeq(s(n - 1)) \o In(n)
    BY <1>6, <2>1
  <2>3. MetOf(fs, n, m) = FlattenSeq(s(n))
    BY <1>8, <1>15, <2>1, <2>2 DEF In
  <2>4. n + 1 <= l => MetInOf(fs, n + 1, 0) = <<>>
    <3> SUFFICES ASSUME n + 1 <= l PROVE MetInOf(fs, n + 1, 0) = <<>>
      OBVIOUS
    <3>1. n + 1 \in 1 .. Len(fs) /\ 0 \in 0 .. Len(fs[n + 1])
      BY <1>1, <1>9 DEF l
    <3>2. QED
      BY <3>1, MetInGrows
  <2>5. FlattenSeq(s(n)) \in Seq(Persons)
    <3>1. n \in 0 .. l
      BY <1>9, <1>15
    <3>2. QED
      BY <1>5, <3>1
  <2>6. FlattenSeq(s(n)) \o <<>> = FlattenSeq(s(n))
    BY <2>5, ConcatEmptySeq
  <2>7. MetOf(fs, n + 1, 1) = FlattenSeq(s(n)) \o <<>>
    BY <1>8, <2>1, <2>4
  <2>8. QED
    BY <2>3, <2>6, <2>7
<1>16. MetOf(fs, 1, 1) = <<>>
  <2>1. 1 - 1 = 0 /\ <<>> \o <<>> = <<>>
    OBVIOUS
  <2>2. 1 <= l => MetInOf(fs, 1, 0) = <<>>
    <3> SUFFICES ASSUME 1 <= l PROVE MetInOf(fs, 1, 0) = <<>>
      OBVIOUS
    <3>1. 1 \in 1 .. Len(fs) /\ 0 \in 0 .. Len(fs[1])
      BY <1>1 DEF l
    <3>2. QED
      BY <3>1, MetInGrows
  <2>3. MetOf(fs, 1, 1) = FlattenSeq(s(0)) \o (IF 1 <= l THEN MetInOf(fs, 1, 0) ELSE <<>>)
    BY <1>8, <2>1
  <2>4. QED
    BY <1>7, <2>1, <2>2, <2>3
<1>17. QED
  BY <1>13, <1>14, <1>15, <1>16 DEF l

-----------------------------------------------------------------------------
(***************************************************************************)
(* The invariant.                                                          *)
(***************************************************************************)
PosInv ==
  /\ files \in Inputs
  /\ stage \in {"category", "bid", "item", "died"}
  /\ fileNo \in 1 .. Len(files) + 1
  /\ itemNo \in Nat \ {0}
  /\ fileNo <= Len(files) => itemNo <= Len(files[fileNo]) + 1
  /\ stage # "category" => fileNo <= Len(files) /\ itemNo <= Len(files[fileNo])
  /\ IsSeq(dat) /\ Len(dat) \in 0 .. 6
  /\ fileNo <= Len(files) => Len(dat) = 0

\* The table that is or will be the i-th written.
Written(i, table) == IF Len(dat) >= i THEN dat[i] ELSE table

\* The users met, with those of the item being parsed.
MetNow ==
  MetOf(files, fileNo, itemNo)
  \o (CASE stage = "item" -> Made(Item)
        [] stage = "died" -> UsersOf(Item)
        [] OTHER -> <<>>)

Open == IF stage = "category" THEN {} ELSE {Item.id}

RowsInv ==
  Keyed(Written(1, categories), Written(2, users), Written(3, bids),
        Written(4, items), Written(5, categorizations), MetNow, Open)

RInv == PosInv /\ RowsInv

\* The item being parsed is one of the files.
LEMMA ItemIn ==
  ASSUME PosInv, fileNo <= Len(files), itemNo <= Len(files[fileNo])
  PROVE  Item \in Items
<1>1. fileNo \in 1 .. Len(files) /\ itemNo \in 1 .. Len(files[fileNo])
  BY InputIs DEF PosInv
<1>2. QED
  BY <1>1, InputIs DEF PosInv, Item

\* At first there are no rows.
LEMMA InitRows == Init => RInv
<1> SUFFICES ASSUME Init PROVE RInv
  OBVIOUS
<1>1. PosInv
  <2>1. files \in Inputs /\ fileNo = 1 /\ itemNo = 1 /\ stage = "category" /\ dat = <<>>
    BY DEF Init
  <2>2. Len(files) \in Nat
    BY <2>1, InputIs
  <2>3. 1 <= Len(files) => Len(files[1]) \in Nat
    BY <2>1, <2>2, InputIs
  <2>4. IsSeq(<<>>) /\ Len(<<>>) = 0
    BY DEF IsSeq
  <2>5. QED
    BY <2>1, <2>2, <2>3, <2>4 DEF PosInv
<1>2. MetNow = <<>>
  <2>1. fileNo = 1 /\ itemNo = 1 /\ stage = "category" /\ files \in Inputs
    BY DEF Init
  <2>2. MetOf(files, 1, 1) = <<>>
    <3>1. Len(files) \in Nat
      BY <2>1, InputIs
    <3>2. 1 <= Len(files) => Len(files[1]) \in Nat
      BY <2>1, <3>1, InputIs
    <3>3. 1 \in 1 .. Len(files) + 1 /\ 1 \in Nat \ {0} /\ (1 <= Len(files) => 1 <= Len(files[1]) + 1)
      BY <3>1, <3>2
    <3>4. QED
      BY <2>1, <3>3, MetGrows
  <2>3. <<>> \o <<>> = <<>>
    OBVIOUS
  <2>4. QED
    BY <2>1, <2>2, <2>3 DEF MetNow
<1>3. /\ Written(1, categories) = <<>> /\ Written(2, users) = <<>>
      /\ Written(3, bids) = <<>> /\ Written(4, items) = <<>>
      /\ Written(5, categorizations) = <<>> /\ Open = {}
  BY DEF Init, Written, Open
<1>4. Keyed(<<>>, <<>>, <<>>, <<>>, <<>>, <<>>, {})
  <2>1. \A T : <<>> \in Seq(T)
    OBVIOUS
  <2>2. \A f : Column(<<>>, f) = {}
    BY DEF Column
  <2>3. Unique(<<>>) /\ Merged(<<>>, <<>>)
    BY DEF Unique, Merged
  <2>4. \A k, l \in DOMAIN <<>> : <<>>[k].id = <<>>[l].id => k = l
    OBVIOUS
  <2>5. QED
    BY <2>1, <2>2, <2>3, <2>4 DEF Keyed, Rows
<1>5. QED
  BY <1>1, <1>2, <1>3, <1>4 DEF RInv, RowsInv

\* Each step stays within the files.
LEMMA NextPos == PosInv /\ [Next]_vars => PosInv'
<1> SUFFICES ASSUME PosInv, [Next]_vars PROVE PosInv'
  OBVIOUS
<1>1. /\ Len(files) \in Nat
      /\ \A n \in 1 .. Len(files) : Len(files[n]) \in Nat
  BY InputIs DEF PosInv
<1>2. CASE ParseCategory \/ ParseBid \/ ParseItemAgain
  BY <1>1, <1>2 DEF PosInv, ParseCategory, ParseBid, ParseItemAgain, At
<1>3. CASE ParseItem
  BY <1>1, <1>3 DEF PosInv, ParseItem, At
<1>4. CASE NextFile
  BY <1>1, <1>4 DEF PosInv, NextFile, tables
<1>5. CASE Flush
  <2>1. PICK x : dat' = Append(dat, x)
    BY <1>5 DEF Flush
  <2>2. Len(dat) < 6 /\ fileNo > Len(files)
    BY <1>5 DEF Flush, DatFiles
  <2>3. Len(dat') = Len(dat) + 1 /\ IsSeq(dat')
    <3> DEFINE S == ToSet(dat) \cup {x}
               d == Append(dat, x)
    <3>1. dat \in Seq(S) /\ x \in S
      BY DEF PosInv, IsSeq
    <3> HIDE DEF S
    <3>2. d \in Seq(S) /\ Len(d) = Len(dat) + 1
      BY <3>1, AppendProperties
    <3> HIDE DEF d
    <3>3. d \in Seq(ToSet(d))
      BY <3>2 DEF ToSet
    <3>4. QED
      BY <2>1, <3>2, <3>3 DEF IsSeq, d
  <2>4. QED
    BY <1>1, <1>5, <2>2, <2>3 DEF PosInv, Flush
<1>6. CASE UNCHANGED vars
  BY <1>6 DEF PosInv, vars
<1>7. QED
  BY <1>2, <1>3, <1>4, <1>5, <1>6 DEF Next

\* While an item is being parsed all tables are in memory.
LEMMA InMemory ==
  ASSUME Len(dat) = 0
  PROVE  RowsInv <=> Keyed(categories, users, bids, items, categorizations, MetNow, Open)
BY DEF RowsInv, Written

\* What MetNow is at each stage.
LEMMA MetNowIs ==
  ASSUME PosInv
  PROVE  /\ MetOf(files, fileNo, itemNo) \in Seq(Persons)
         /\ stage = "category" => MetNow = MetOf(files, fileNo, itemNo)
         /\ stage = "item" => MetNow = MetOf(files, fileNo, itemNo) \o Made(Item)
         /\ stage = "died" => MetNow = MetOf(files, fileNo, itemNo) \o UsersOf(Item)
         /\ stage = "bid" => MetNow = MetOf(files, fileNo, itemNo)
<1>1. MetOf(files, fileNo, itemNo) \in Seq(Persons)
  BY MetGrows DEF PosInv
<1>2. MetOf(files, fileNo, itemNo) \o <<>> = MetOf(files, fileNo, itemNo)
  BY <1>1, ConcatEmptySeq
<1>3. QED
  BY <1>1, <1>2 DEF MetNow

\* _parse_category keeps the invariant.
LEMMA CategoryRows == RInv /\ PosInv' /\ ParseCategory => RowsInv'
<1> SUFFICES ASSUME RInv, PosInv', ParseCategory PROVE RowsInv'
  OBVIOUS
<1>1. /\ stage = "category" /\ stage' = "bid" /\ Len(dat) = 0 /\ dat' = dat
      /\ files' = files /\ fileNo' = fileNo /\ itemNo' = itemNo
      /\ users' = users /\ bids' = bids /\ items' = items
      /\ fileNo <= Len(files) /\ itemNo <= Len(files[fileNo]) /\ PosInv
  BY DEF RInv, PosInv, ParseCategory, At
<1>2. Item \in Items /\ Item' = Item
  BY <1>1, ItemIn DEF Item
<1>3. Keyed(categories, users, bids, items, categorizations, MetNow, {})
  BY <1>1, InMemory DEF RInv, Open
<1>4. Keyed(categories', users, bids, items, categorizations', MetNow, {Item.id})
  BY <1>2, <1>3, KeyedCategory DEF ParseCategory
<1>5. MetNow' = MetNow /\ Open' = {Item.id}
  <2>1. MetNow = MetOf(files, fileNo, itemNo)
    BY <1>1, MetNowIs
  <2>2. MetNow' = MetOf(files', fileNo', itemNo') \o <<>>
    BY <1>1 DEF MetNow
  <2>3. MetOf(files, fileNo, itemNo) \o <<>> = MetOf(files, fileNo, itemNo)
    BY <1>1, MetNowIs, ConcatEmptySeq
  <2>4. QED
    BY <1>1, <1>2, <2>1, <2>2, <2>3 DEF Open
<1>6. QED
  BY <1>1, <1>4, <1>5 DEF RowsInv, Written

\* _parse_bid keeps it: each bidder has a row.
LEMMA BidRows == RInv /\ PosInv' /\ ParseBid => RowsInv'
<1> SUFFICES ASSUME RInv, PosInv', ParseBid PROVE RowsInv'
  OBVIOUS
<1>1. /\ stage = "bid" /\ stage' = "item" /\ Len(dat) = 0 /\ dat' = dat
      /\ files' = files /\ fileNo' = fileNo /\ itemNo' = itemNo
      /\ categories' = categories /\ items' = items /\ categorizations' = categorizations
      /\ fileNo <= Len(files) /\ itemNo <= Len(files[fileNo]) /\ PosInv
  BY DEF RInv, PosInv, ParseBid, At
<1>2. Item \in Items /\ Item' = Item
  BY <1>1, ItemIn DEF Item
<1>3. Keyed(categories, users, bids, items, categorizations, MetNow, {Item.id})
  BY <1>1, InMemory DEF RInv, Open
<1>4. MetNow \in Seq(Persons) /\ MetNow = MetOf(files, fileNo, itemNo)
  BY <1>1, MetNowIs
<1>5. /\ users' = AllAdded(users, Made(Item))
      /\ bids' = bids \o [k \in DOMAIN Made(Item) |->
                            [user |-> safer(Made(Item)[k].uid), item |-> Item.id]]
  BY DEF ParseBid
<1>6. Keyed(categories, users', bids', items, categorizations, MetNow \o Made(Item), {Item.id})
  BY <1>2, <1>3, <1>4, <1>5, KeyedBid
<1>7. MetNow' = MetNow \o Made(Item) /\ Open' = {Item.id}
  BY <1>1, <1>2, <1>4 DEF MetNow, Open
<1>8. QED
  BY <1>1, <1>6, <1>7 DEF RowsInv, Written

\* The seller is the last user of an item.
LEMMA SellerLast ==
  ASSUME NEW item \in Items, NEW met \in Seq(Persons)
  PROVE  /\ met \o Made(item) \in Seq(Persons)
         /\ Append(met \o Made(item), item.seller) = met \o UsersOf(item)
<1>1. /\ Made(item) \in Seq(Persons) /\ item.seller \in Persons
      /\ <<item.seller>> \in Seq(Persons)
  BY ItemIs
<1>2. PICK a \in Seq(Persons), b \in Seq(Persons) : a = Made(item) /\ b = <<item.seller>>
  BY <1>1
<1>3. (met \o a) \o b = met \o (a \o b) /\ met \o a \in Seq(Persons)
  BY ConcatAssociative, ConcatProperties
<1>4. PICK c \in Seq(Persons), s \in Persons : c = met \o a /\ s = item.seller
  BY <1>1, <1>3
<1>5. Append(c, s) = c \o <<s>>
  OBVIOUS
<1>6. QED
  BY <1>2, <1>3, <1>4, <1>5 DEF UsersOf

\* _parse_item keeps it, whether the item is new or not.
LEMMA ItemRows == RInv /\ PosInv' /\ (ParseItem \/ ParseItemAgain) => RowsInv'
<1> SUFFICES ASSUME RInv, PosInv', ParseItem \/ ParseItemAgain PROVE RowsInv'
  OBVIOUS
<1>1. /\ stage = "item" /\ Len(dat) = 0 /\ dat' = dat
      /\ files' = files /\ fileNo' = fileNo
      /\ categories' = categories /\ bids' = bids /\ categorizations' = categorizations
      /\ users' = smart_add(users, Item.seller)
      /\ fileNo <= Len(files) /\ itemNo <= Len(files[fileNo]) /\ PosInv
  BY DEF RInv, PosInv, ParseItem, ParseItemAgain, At
<1>2. Item \in Items
  BY <1>1, ItemIn DEF Item
<1>3. Keyed(categories, users, bids, items, categorizations, MetNow, {Item.id})
  BY <1>1, InMemory DEF RInv, Open
<1> DEFINE met == MetOf(files, fileNo, itemNo)
<1>4. met \in Seq(Persons) /\ MetNow = met \o Made(Item)
  BY <1>1, MetNowIs
<1>5. MetNow \in Seq(Persons) /\ Append(MetNow, Item.seller) = met \o UsersOf(Item)
  BY <1>2, <1>4, SellerLast
<1>6. /\ Keyed(categories, users', bids, items, categorizations, met \o UsersOf(Item), {Item.id})
      /\ (\A k \in DOMAIN items : items[k].id # Item.id)
         => Keyed(categories, users', bids,
                  Append(items, [id |-> Item.id, seller |-> safer(Item.seller.uid)]),
                  categorizations, met \o UsersOf(Item), {})
  <2> DEFINE new == [id |-> Item.id, seller |-> safer(Item.seller.uid)]
  <2>1. /\ Keyed(categories, smart_add(users, Item.seller), bids, items, categorizations,
                 Append(MetNow, Item.seller), {Item.id})
        /\ (\A k \in DOMAIN items : items[k].id # Item.id)
           => Keyed(categories, smart_add(users, Item.seller), bids, Append(items, new),
                    categorizations, Append(MetNow, Item.seller), {})
    <3>1. MetNow \in Seq(Persons)
      BY <1>5
    <3>2. QED
      BY <1>2, <1>3, <3>1, KeyedItem
  <2> HIDE DEF new, met
  <2>2. QED
    BY <1>1, <1>5, <2>1 DEF new
<1>7. CASE ParseItemAgain
  <2>1. itemNo' = itemNo /\ items' = items /\ stage' = "died" /\ Item' = Item
    BY <1>1, <1>7 DEF ParseItemAgain, Item
  <2>2. MetNow' = met \o UsersOf(Item) /\ Open' = {Item.id}
    BY <1>1, <2>1 DEF MetNow, Open
  <2>3. QED
    BY <1>1, <1>6, <2>1, <2>2 DEF RowsInv, Written
<1>8. CASE ParseItem
  <2>1. /\ itemNo' = itemNo + 1 /\ stage' = "category"
        /\ items' = Append(items, [id |-> Item.id, seller |-> safer(Item.seller.uid)])
        /\ \A k \in DOMAIN items : items[k].id # Item.id
    BY <1>8 DEF ParseItem
  <2>2. MetNow' = met \o UsersOf(Item) /\ Open' = {}
    <3>1. MetOf(files, fileNo, itemNo + 1) = met \o UsersOf(Item)
      <4>1. files \in Inputs /\ fileNo \in 1 .. Len(files) + 1 /\ itemNo \in Nat \ {0}
        BY <1>1 DEF PosInv
      <4>2. fileNo <= Len(files) => itemNo <= Len(files[fileNo]) + 1
        BY <1>1 DEF PosInv
      <4>3. QED
        BY <1>1, <4>1, <4>2, MetGrows DEF Item
    <3>2. met \o UsersOf(Item) \in Seq(Persons)
      <4>1. UsersOf(Item) \in Seq(Persons)
        BY <1>2, ItemIs
      <4>2. QED
        BY <1>4, <4>1, ConcatProperties
    <3>3. MetNow' = MetOf(files, fileNo, itemNo + 1) \o <<>>
      BY <1>1, <2>1 DEF MetNow
    <3>4. QED
      BY <2>1, <3>1, <3>2, <3>3, ConcatEmptySeq DEF Open
  <2>3. QED
    BY <1>1, <1>6, <2>1, <2>2 DEF RowsInv, Written
<1>9. QED
  BY <1>7, <1>8

\* The next file has no users met yet.
LEMMA NextFileRows == RInv /\ PosInv' /\ NextFile => RowsInv'
<1> SUFFICES ASSUME RInv, PosInv', NextFile PROVE RowsInv'
  OBVIOUS
<1>1. /\ stage = "category" /\ stage' = "category" /\ dat' = dat
      /\ files' = files /\ fileNo' = fileNo + 1 /\ itemNo' = 1
      /\ categories' = categories /\ users' = users /\ bids' = bids
      /\ items' = items /\ categorizations' = categorizations
      /\ fileNo <= Len(files) /\ itemNo > Len(files[fileNo]) /\ PosInv
  BY DEF RInv, NextFile, tables
<1>2. itemNo = Len(files[fileNo]) + 1
  <2>1. fileNo \in 1 .. Len(files) /\ itemNo \in Nat /\ itemNo <= Len(files[fileNo]) + 1
    BY <1>1, InputIs DEF PosInv
  <2>2. Len(files[fileNo]) \in Nat
    BY <2>1, InputIs DEF PosInv
  <2>3. QED
    BY <1>1, <2>1, <2>2
<1>3. MetOf(files, fileNo + 1, 1) = MetOf(files, fileNo, itemNo)
  BY <1>1, <1>2, MetGrows DEF PosInv
<1>4. MetNow' = MetNow /\ Open' = {} /\ Open = {}
  <2>1. MetNow' = MetOf(files, fileNo + 1, 1) \o <<>> /\ MetNow = MetOf(files, fileNo, itemNo) \o <<>>
    BY <1>1 DEF MetNow
  <2>2. QED
    BY <1>1, <1>3, <2>1 DEF Open
<1>5. QED
  BY <1>1, <1>4 DEF RInv, RowsInv, Written

\* A table that is written is the one that was in memory.
LEMMA FlushRows == RInv /\ PosInv' /\ Flush => RowsInv'
<1> SUFFICES ASSUME RInv, PosInv', Flush PROVE RowsInv'
  OBVIOUS
<1> DEFINE n == Len(dat) + 1
           name == DatFiles[n]
<1>1. /\ files' = files /\ fileNo' = fileNo /\ itemNo' = itemNo /\ stage' = stage
      /\ dat' = Append(dat, Table(name)) /\ n \in 1 .. 6 /\ IsSeq(dat)
  BY DEF RInv, PosInv, Flush, DatFiles
<1>2. MetNow' = MetNow /\ Open' = Open
  BY <1>1 DEF MetNow, Open, Item
<1>3. /\ Len(dat') = n /\ dat'[n] = Table(name)
      /\ \A i \in 1 .. n - 1 : dat'[i] = dat[i]
  <2>1. PICK x : x = Table(name)
    OBVIOUS
  <2> DEFINE S == ToSet(dat) \cup {x}
             d == Append(dat, x)
  <2>2. dat \in Seq(S) /\ x \in S
    BY <1>1 DEF IsSeq
  <2> HIDE DEF S
  <2>3. /\ Len(d) = Len(dat) + 1 /\ d[Len(dat) + 1] = x
        /\ \A i \in 1 .. Len(dat) : d[i] = dat[i]
    BY <2>2, AppendProperties
  <2>4. Len(dat) \in Nat /\ n - 1 = Len(dat)
    BY <2>2, LenProperties
  <2>5. QED
    BY <1>1, <2>1, <2>3, <2>4
<1>4. Len(dat) = n - 1 /\ Len(dat) \in Nat
  BY DEF RInv, PosInv
<1>5. /\ categories' = IF name = "category" THEN <<>> ELSE categories
      /\ users' = IF name = "user" THEN <<>> ELSE users
      /\ bids' = IF name = "bid" THEN <<>> ELSE bids
      /\ items' = IF name = "item" THEN <<>> ELSE items
      /\ categorizations' = IF name = "categorization" THEN <<>> ELSE categorizations
  BY DEF Flush
<1>6. /\ n = 1 <=> name = "category"
      /\ n = 2 <=> name = "user"
      /\ n = 3 <=> name = "bid"
      /\ n = 4 <=> name = "item"
      /\ n = 5 <=> name = "categorization"
  BY <1>1 DEF DatFiles
<1>7. /\ name = "category" => Table(name) = categories
      /\ name = "user" => Table(name) = users
      /\ name = "bid" => Table(name) = bids
      /\ name = "item" => Table(name) = items
      /\ name = "categorization" => Table(name) = categorizations
  BY DEF Table
<1> HIDE DEF n, name
<1>8. Written(1, categories)' = Written(1, categories)
  BY <1>1, <1>3, <1>4, <1>5, <1>6, <1>7 DEF Written
<1>9. Written(2, users)' = Written(2, users)
  BY <1>1, <1>3, <1>4, <1>5, <1>6, <1>7 DEF Written
<1>10. Written(3, bids)' = Written(3, bids)
  BY <1>1, <1>3, <1>4, <1>5, <1>6, <1>7 DEF Written
<1>11. Written(4, items)' = Written(4, items)
  BY <1>1, <1>3, <1>4, <1>5, <1>6, <1>7 DEF Written
<1>12. Written(5, categorizations)' = Written(5, categorizations)
  BY <1>1, <1>3, <1>4, <1>5, <1>6, <1>7 DEF Written
<1>13. QED
  BY <1>2, <1>8, <1>9, <1>10, <1>11, <1>12 DEF RInv, RowsInv

\* Each step keeps the invariant.
LEMMA NextRows == RInv /\ [Next]_vars => RInv'
<1> SUFFICES ASSUME RInv, [Next]_vars PROVE RInv'
  OBVIOUS
<1>1. PosInv'
  BY NextPos DEF RInv
<1>2. RowsInv'
  <2>1. CASE UNCHANGED vars
    <3>1. RowsInv' <=> RowsInv
      BY <2>1 DEF vars, tables, RowsInv, Written, MetNow, Open, Item
    <3>2. QED
      BY <3>1 DEF RInv
  <2>2. QED
    BY <1>1, <2>1, CategoryRows, BidRows, ItemRows, NextFileRows, FlushRows DEF Next
<1>3. QED
  BY <1>1, <1>2 DEF RInv

\* The tables, in memory or written, have a row per key and every reference
\* met at each step of every run over any files (Parser of src/p5/parser.py).
THEOREM RowsInvariant == Spec => []RInv
<1>1. QED
  BY InitRows, NextRows, PTL DEF Spec

\* The files written load (KeysHold): what flush of src/p5/data_models.py
\* writes are the tables of the invariant.
THEOREM KeysHoldAlways == Spec => []KeysHold
<1>1. RInv => KeysHold
  <2> SUFFICES ASSUME RInv, Len(dat) = Len(DatFiles) PROVE KeysHold
    BY DEF KeysHold
  <2>1. Len(dat) = 6
    BY DEF DatFiles
  <2>2. Open = {}
    BY <2>1 DEF RInv, PosInv, Open
  <2>3. Keyed(dat[1], dat[2], dat[3], dat[4], dat[5], MetNow, {})
    BY <2>1, <2>2 DEF RInv, RowsInv, Written
  <2>4. ASSUME NEW s, NEW f, NEW T, s \in Seq(T), \A k, l \in DOMAIN s : s[k][f] = s[l][f] => k = l
        PROVE  Cardinality(Column(s, f)) = Len(s)
    <3> DEFINE n == Len(s)
               at == [k \in 1 .. n |-> s[k][f]]
               C == Column(s, f)
    <3>1. n \in Nat /\ DOMAIN s = 1 .. n
      BY <2>4, LenProperties
    <3>2. \A k \in 1 .. n : at[k] \in C
      BY <3>1 DEF Column
    <3>3. \A x \in C : \E k \in 1 .. n : at[k] = x
      BY <3>1 DEF Column
    <3>4. \A k, l \in 1 .. n : at[k] = at[l] => k = l
      BY <2>4, <3>1
    <3>5. DOMAIN at = 1 .. n
      OBVIOUS
    <3>6. at = [k \in 1 .. n |-> at[k]]
      OBVIOUS
    <3> HIDE DEF at, C, n
    <3>7. at \in Bijection(1 .. n, C)
      BY <3>2, <3>3, <3>4, <3>5, <3>6 DEF Bijection, Injection, Surjection, IsInjective
    <3>8. IsFiniteSet(1 .. n) /\ Cardinality(1 .. n) = n
      BY <3>1, FS_Interval
    <3>9. QED
      BY <3>7, <3>8, FS_Bijection DEF ExistsBijection, C, n
  <2>5. Cardinality(Column(dat[2], "uid")) = Len(dat[2])
    <3>1. dat[2] \in Rows(Values) /\ \A k, l \in DOMAIN dat[2] : dat[2][k].uid = dat[2][l].uid => k = l
      BY <2>3 DEF Keyed, Merged
    <3>2. QED
      BY <2>4, <3>1 DEF Rows
  <2>6. Cardinality(Column(dat[4], "id")) = Len(dat[4])
    <3>1. /\ dat[4] \in Seq([id : Ids, seller : Uids])
          /\ \A k, l \in DOMAIN dat[4] : dat[4][k].id = dat[4][l].id => k = l
      BY <2>3 DEF Keyed
    <3>2. QED
      BY <2>4, <3>1
  <2>7. QED
    BY <2>3, <2>5, <2>6 DEF KeysHold, Keyed
<1>2. QED
  BY <1>1, RowsInvariant, PTL

\* A user has one row with what was first known (UsersMerged), however often
\* and as what they were met (UserData.smart_add).
THEOREM UsersMergedAlways == Spec => []UsersMerged
<1>1. RInv => UsersMerged
  <2> SUFFICES ASSUME RInv, stage = "category", Len(dat) < 2 PROVE Merged(users, Met)
    BY DEF UsersMerged
  <2>1. Merged(users, MetNow)
    BY DEF RInv, RowsInv, Written, Keyed, PosInv
  <2>2. MetNow = MetOf(files, fileNo, itemNo)
    BY MetNowIs DEF RInv
  <2>3. Met = MetOf(files, fileNo, itemNo)
    BY DEF Met, MetIn, MetOf, MetInOf
  <2>4. QED
    BY <2>1, <2>2, <2>3
<1>2. QED
  BY <1>1, RowsInvariant, PTL

-----------------------------------------------------------------------------
(***************************************************************************)
(* The null map.  S[n] are the keys that were null in file n so far, cur   *)
(* is the file being parsed.                                               *)
(***************************************************************************)
Maps(K) == UNION {[D -> Seq(Nat)] : D \in SUBSET K}
Logs(K) == [map : Maps(K), logged : BOOLEAN]

Known(log, cur, S) ==
  /\ DOMAIN log.map = UNION {S[n] : n \in 1 .. cur}
  /\ \A key \in DOMAIN log.map :
       /\ Len(log.map[key]) > 0
       /\ \A i \in 1 .. Len(log.map[key]) :
            log.map[key][i] \in 1 .. cur /\ key \in S[log.map[key][i]]
       /\ \A n \in 1 .. cur : n < log.map[key][1] => key \notin S[n]
  /\ \A n \in 1 .. cur : S[n] # {} => \E key \in S[n] : Contains(log.map[key], n)
  /\ log.logged <=> S[cur] # {}

\* S with keys that were null in the file being parsed.
With(S, cur, keys) == [S EXCEPT ![cur] = @ \cup keys]

\* The three ways _log_if_none can go.
LEMMA LogIs ==
  ASSUME NEW K, fileNo \in Nat, NEW log \in Logs(K), NEW key \in K
  PROVE  /\ LogIfNone(log, key) \in Logs(K)
         /\ key \notin DOMAIN log.map =>
              /\ LogIfNone(log, key).logged
              /\ DOMAIN LogIfNone(log, key).map = DOMAIN log.map \cup {key}
              /\ LogIfNone(log, key).map[key] = <<fileNo>>
              /\ \A x \in DOMAIN log.map : LogIfNone(log, key).map[x] = log.map[x]
         /\ key \in DOMAIN log.map /\ ~ log.logged =>
              /\ LogIfNone(log, key).logged
              /\ DOMAIN LogIfNone(log, key).map = DOMAIN log.map
              /\ LogIfNone(log, key).map[key] = Append(log.map[key], fileNo)
              /\ \A x \in DOMAIN log.map : x # key => LogIfNone(log, key).map[x] = log.map[x]
         /\ key \in DOMAIN log.map /\ log.logged => LogIfNone(log, key) = log
<1> DEFINE D == DOMAIN log.map
           m == log.map
           new == LogIfNone(log, key)
<1>1. D \in SUBSET K /\ m \in [D -> Seq(Nat)] /\ log.logged \in BOOLEAN
  BY DEF Logs, Maps
<1>2. <<fileNo>> \in Seq(Nat)
  OBVIOUS
<1>3. CASE key \notin D
  <2> DEFINE m2 == [x \in D \cup {key} |-> IF x \in D THEN m[x] ELSE <<fileNo>>]
  <2>1. Begun(m, key) = m2
    BY DEF Begun
  <2>2. new = [map |-> m2, logged |-> TRUE]
    BY <1>3, <2>1 DEF LogIfNone
  <2>3. m2 \in [D \cup {key} -> Seq(Nat)] /\ D \cup {key} \in SUBSET K
    BY <1>1, <1>2
  <2>4. m2 \in Maps(K)
    BY <2>3 DEF Maps
  <2>5. new \in Logs(K)
    BY <2>2, <2>4 DEF Logs
  <2>6. new.map = m2 /\ new.logged
    BY <2>2
  <2>7. DOMAIN m2 = D \cup {key} /\ m2[key] = <<fileNo>> /\ \A x \in D : m2[x] = m[x]
    BY <1>3
  <2> HIDE DEF m2, new
  <2>8. QED
    BY <1>3, <2>5, <2>6, <2>7 DEF new
<1>4. CASE key \in D /\ ~ log.logged
  <2> DEFINE l2 == Append(m[key], fileNo)
             m2 == [m EXCEPT ![key] = l2]
  <2>1. new = [map |-> m2, logged |-> TRUE]
    BY <1>4 DEF LogIfNone
  <2>2. l2 \in Seq(Nat)
    BY <1>1, <1>4
  <2> HIDE DEF l2
  <2>3. m2 \in [D -> Seq(Nat)]
    BY <1>1, <2>2
  <2>4. m2 \in Maps(K)
    BY <1>1, <2>3 DEF Maps
  <2>5. new \in Logs(K)
    BY <2>1, <2>4 DEF Logs
  <2>6. new.map = m2 /\ new.logged
    BY <2>1
  <2>7. DOMAIN m2 = D /\ m2[key] = l2 /\ \A x \in D : x # key => m2[x] = m[x]
    BY <1>1, <1>4
  <2> HIDE DEF m2, new
  <2>8. QED
    BY <1>4, <2>5, <2>6, <2>7 DEF new, l2
<1>5. CASE key \in D /\ log.logged
  BY <1>5 DEF LogIfNone
<1>6. QED
  BY <1>3, <1>4, <1>5

\* One key that is null.
LEMMA KnownStep ==
  ASSUME NEW K, fileNo \in Nat \ {0}, NEW log \in Logs(K), NEW key \in K,
         NEW S \in [1 .. fileNo -> SUBSET K], Known(log, fileNo, S)
  PROVE  Known(LogIfNone(log, key), fileNo, With(S, fileNo, {key}))
<1> DEFINE m == log.map
           new == LogIfNone(log, key)
           m2 == new.map
           S2 == With(S, fileNo, {key})
           D == DOMAIN m
<1>1. D \in SUBSET K /\ m \in [D -> Seq(Nat)] /\ log.logged \in BOOLEAN
  BY DEF Logs, Maps
<1>2. fileNo \in 1 .. fileNo
  OBVIOUS
<1>3. /\ S2 \in [1 .. fileNo -> SUBSET K] /\ S2[fileNo] = S[fileNo] \cup {key}
      /\ \A n \in 1 .. fileNo : n # fileNo => S2[n] = S[n]
  BY <1>2 DEF With
<1> HIDE DEF S2
<1>4. /\ D = UNION {S[n] : n \in 1 .. fileNo}
      /\ \A x \in D :
           /\ Len(m[x]) > 0
           /\ \A i \in 1 .. Len(m[x]) : m[x][i] \in 1 .. fileNo /\ x \in S[m[x][i]]
           /\ \A n \in 1 .. fileNo : n < m[x][1] => x \notin S[n]
      /\ \A n \in 1 .. fileNo : S[n] # {} => \E x \in S[n] : Contains(m[x], n)
      /\ log.logged <=> S[fileNo] # {}
  BY DEF Known
<1>5. D \cup {key} = UNION {S2[n] : n \in 1 .. fileNo}
  <2>1. \A n \in 1 .. fileNo : S[n] \subseteq S2[n] /\ S2[n] \subseteq S[n] \cup {key}
    BY <1>3
  <2>2. key \in S2[fileNo]
    BY <1>3
  <2>3. QED
    BY <1>2, <1>4, <2>1, <2>2
<1>6. \A x \in D : Len(m[x]) \in Nat /\ 1 \in 1 .. Len(m[x]) /\ m[x][1] \in 1 .. fileNo
  <2> SUFFICES ASSUME NEW x \in D
               PROVE  Len(m[x]) \in Nat /\ 1 \in 1 .. Len(m[x]) /\ m[x][1] \in 1 .. fileNo
    OBVIOUS
  <2>1. m[x] \in Seq(Nat) /\ Len(m[x]) > 0
    BY <1>1, <1>4
  <2>2. Len(m[x]) \in Nat /\ 1 \in 1 .. Len(m[x])
    BY <2>1, LenProperties
  <2>3. QED
    BY <1>4, <2>2
<1> DEFINE Sound(l, x) ==
             /\ Len(l) > 0
             /\ \A i \in 1 .. Len(l) : l[i] \in 1 .. fileNo /\ x \in S2[l[i]]
             /\ \A n \in 1 .. fileNo : n < l[1] => x \notin S2[n]
<1>7. \A x \in D : Sound(m[x], x)
  <2> SUFFICES ASSUME NEW x \in D PROVE Sound(m[x], x)
    OBVIOUS
  <2>1. \A i \in 1 .. Len(m[x]) : m[x][i] \in 1 .. fileNo /\ x \in S2[m[x][i]]
    <3>1. \A i \in 1 .. Len(m[x]) : m[x][i] \in 1 .. fileNo /\ x \in S[m[x][i]]
      BY <1>4
    <3>2. \A n \in 1 .. fileNo : S[n] \subseteq S2[n]
      BY <1>3
    <3>3. QED
      BY <3>1, <3>2
  <2>2. ASSUME NEW n \in 1 .. fileNo, n < m[x][1] PROVE x \notin S2[n]
    <3>1. n # fileNo
      BY <1>6, <2>2
    <3>2. QED
      BY <1>3, <1>4, <2>2, <3>1
  <2>3. QED
    BY <1>4, <2>1, <2>2
<1>8. ASSUME NEW n \in 1 .. fileNo, n # fileNo, S2[n] # {} PROVE \E x \in S2[n] : x \in D /\ Contains(m[x], n)
  BY <1>3, <1>4, <1>8
<1>9. CASE key \notin D
  <2>1. /\ new.logged /\ DOMAIN m2 = D \cup {key} /\ m2[key] = <<fileNo>>
        /\ \A x \in D : m2[x] = m[x]
    BY <1>9, LogIs
  <2> HIDE DEF new, m2
  <2>2. Sound(<<fileNo>>, key)
    <3>1. \A n \in 1 .. fileNo : n < fileNo => key \notin S2[n]
      <4> SUFFICES ASSUME NEW n \in 1 .. fileNo, n < fileNo PROVE key \notin S2[n]
        OBVIOUS
      <4>1. S2[n] = S[n] /\ key \notin S[n]
        BY <1>3, <1>4, <1>9
      <4>2. QED
        BY <4>1
    <3>2. Len(<<fileNo>>) = 1 /\ <<fileNo>>[1] = fileNo
      OBVIOUS
    <3>3. QED
      BY <1>2, <1>3, <3>1, <3>2
  <2> HIDE DEF Sound
  <2>3. \A x \in DOMAIN m2 : Sound(m2[x], x)
    BY <1>7, <2>1, <2>2
  <2>4. Contains(m2[key], fileNo)
    BY <2>1 DEF Contains
  <2>5. \A n \in 1 .. fileNo : S2[n] # {} => \E x \in S2[n] : Contains(m2[x], n)
    BY <1>3, <1>8, <2>1, <2>4
  <2>6. QED
    BY <1>3, <1>5, <2>1, <2>3, <2>5 DEF Known, Sound, S2, new, m2
<1>10. CASE key \in D /\ ~ log.logged
  <2>1. /\ new.logged /\ DOMAIN m2 = D /\ m2[key] = Append(m[key], fileNo)
        /\ \A x \in D : x # key => m2[x] = m[x]
    BY <1>10, LogIs
  <2> HIDE DEF new, m2
  <2> DEFINE l == m[key]
             l2 == Append(l, fileNo)
  <2>2. l \in Seq(Nat) /\ Len(l) \in Nat /\ 1 \in 1 .. Len(l)
    BY <1>1, <1>6, <1>10
  <2>3. /\ Len(l2) = Len(l) + 1 /\ l2[Len(l) + 1] = fileNo
        /\ \A i \in 1 .. Len(l) : l2[i] = l[i]
    BY <2>2, AppendProperties
  <2>4. Sound(l, key)
    BY <1>7, <1>10
  <2> HIDE DEF l, l2
  <2>5. Sound(l2, key)
    <3>1. Len(l2) > 0 /\ l2[1] = l[1]
      BY <2>2, <2>3
    <3>2. ASSUME NEW i \in 1 .. Len(l2) PROVE l2[i] \in 1 .. fileNo /\ key \in S2[l2[i]]
      <4>1. i \in 1 .. Len(l) \/ i = Len(l) + 1
        BY <2>2, <2>3
      <4>2. QED
        BY <1>2, <1>3, <2>3, <2>4, <4>1
    <3>3. QED
      BY <2>4, <3>1, <3>2
  <2> HIDE DEF Sound
  <2>6. \A x \in DOMAIN m2 : Sound(m2[x], x)
    BY <1>7, <2>1, <2>5 DEF l, l2
  <2>7. Contains(m2[key], fileNo)
    <3>1. Len(l) + 1 \in 1 .. Len(l2)
      BY <2>2, <2>3
    <3>2. Contains(l2, fileNo)
      BY <2>3, <3>1 DEF Contains
    <3>3. QED
      BY <2>1, <3>2 DEF l, l2
  <2>8. \A n \in 1 .. fileNo : S2[n] # {} => \E x \in S2[n] : Contains(m2[x], n)
    <3> SUFFICES ASSUME NEW n \in 1 .. fileNo, S2[n] # {} PROVE \E x \in S2[n] : Contains(m2[x], n)
      OBVIOUS
    <3>1. CASE n = fileNo
      BY <1>3, <2>7, <3>1
    <3>2. CASE n # fileNo
      <4>1. PICK x \in S2[n] : x \in D /\ Contains(m[x], n)
        BY <1>8, <3>2
      <4>2. CASE x = key
        <5>1. PICK i \in 1 .. Len(l) : l[i] = n
          BY <4>1, <4>2 DEF Contains, l
        <5>2. i \in 1 .. Len(l2) /\ l2[i] = n
          BY <2>2, <2>3, <5>1
        <5>3. Contains(m2[x], n)
          BY <2>1, <4>2, <5>2 DEF Contains, l, l2
        <5>4. QED
          BY <5>3
      <4>3. CASE x # key
        BY <2>1, <4>1, <4>3
      <4>4. QED
        BY <4>2, <4>3
    <3>3. QED
      BY <3>1, <3>2
  <2>9. D \cup {key} = D
    BY <1>10
  <2>10. QED
    BY <1>3, <1>5, <2>1, <2>6, <2>8, <2>9 DEF Known, Sound, S2, new, m2
<1>11. CASE key \in D /\ log.logged
  <2>1. new = log /\ D \cup {key} = D
    BY <1>11, LogIs
  <2>2. \A n \in 1 .. fileNo : S2[n] # {} => \E x \in S2[n] : Contains(m[x], n)
    <3> SUFFICES ASSUME NEW n \in 1 .. fileNo, S2[n] # {} PROVE \E x \in S2[n] : Contains(m[x], n)
      OBVIOUS
    <3>1. CASE n = fileNo
      <4>1. \E x \in S[fileNo] : Contains(m[x], fileNo)
        BY <1>2, <1>4, <1>11
      <4>2. QED
        BY <1>3, <3>1, <4>1
    <3>2. CASE n # fileNo
      BY <1>8, <3>2
    <3>3. QED
      BY <3>1, <3>2
  <2> HIDE DEF new, Sound
  <2>3. QED
    BY <1>3, <1>5, <1>7, <1>11, <2>1, <2>2 DEF Known, Sound, S2, new, m2
<1>12. QED
  BY <1>9, <1>10, <1>11, <1>1


\* A fold of LogIfNone takes one key after the other.
LEMMA FoldLogged ==
  ASSUME NEW K, fileNo \in Nat, NEW v \in Logs(K), NEW seq \in Seq(K)
  PROVE  \E g \in [0 .. Len(seq) -> Logs(K)] :
           /\ g[0] = v /\ g[Len(seq)] = AllLogged(v, seq)
           /\ \A k \in 1 .. Len(seq) : g[k] = LogIfNone(g[k - 1], seq[k])
<1> DEFINE n == Len(seq)
           step == [p \in Logs(K) \X K |-> LogIfNone(p[1], p[2])]
           Body(f, s) == IF s = {} THEN v ELSE LogIfNone(f[s \ {Max(s)}], seq[Max(s)])
           iter == CHOOSE f : f = [s \in SUBSET DOMAIN seq |-> Body(f, s)]
<1>1. n \in Nat /\ DOMAIN seq = 1 .. n /\ seq \in [1 .. n -> K]
  BY LenProperties
<1>2. AllLogged(v, seq) = iter[DOMAIN seq]
  BY DEF AllLogged, FoldLeft, MapThenFoldSet
<1>3. step \in [Logs(K) \X K -> Logs(K)]
  BY LogIs
<1>4. \A w \in Logs(K), x \in K : step[<<w, x>>] = LogIfNone(w, x)
  OBVIOUS
<1> HIDE DEF n, step
<1>5. PICK it \in [SUBSET (1 .. n) -> Logs(K)] : Folds(it, step, v, seq, 1 .. n)
  BY <1>1, <1>3, FoldExists
<1>6. it = [s \in SUBSET DOMAIN seq |-> Body(it, s)]
  <2> SUFFICES ASSUME NEW s \in SUBSET (1 .. n) PROVE it[s] = Body(it, s)
    BY <1>1
  <2>1. CASE s = {}
    BY <1>5, <2>1 DEF Folds
  <2>2. CASE s # {}
    <3>1. Max(s) \in 1 .. n /\ s \ {Max(s)} \in SUBSET (1 .. n)
      BY <1>1, <2>2, MaxOfSome
    <3>2. it[s \ {Max(s)}] \in Logs(K) /\ seq[Max(s)] \in K
      BY <1>1, <3>1
    <3>3. it[s] = step[<<it[s \ {Max(s)}], seq[Max(s)]>>]
      BY <1>5, <2>2 DEF Folds
    <3>4. QED
      BY <1>4, <2>2, <3>2, <3>3
  <2>3. QED
    BY <2>1, <2>2
<1> HIDE DEF Body
<1>7. iter = [s \in SUBSET DOMAIN seq |-> Body(iter, s)]
  BY <1>6
<1> HIDE DEF iter
<1>8. iter[{}] = v
  BY <1>7 DEF Body
<1>9. ASSUME NEW s \in SUBSET (1 .. n), s # {}, iter[s \ {Max(s)}] \in Logs(K)
      PROVE  iter[s] = step[<<iter[s \ {Max(s)}], seq[Max(s)]>>]
  <2>1. Max(s) \in 1 .. n
    BY <1>1, <1>9, MaxOfSome
  <2>2. iter[s] = LogIfNone(iter[s \ {Max(s)}], seq[Max(s)])
    BY <1>1, <1>7, <1>9 DEF Body
  <2>3. QED
    BY <1>1, <1>4, <1>9, <2>1, <2>2
<1>10. PICK g \in [0 .. n -> Logs(K)] : Walks(g, step, v, seq, n) /\ g[n] = iter[1 .. n]
  <2>1. FoldsIn(Logs(K), K, iter, step, v, seq, n)
    BY <1>1, <1>3, <1>8, <1>9 DEF FoldsIn
  <2>2. QED
    BY <2>1, FoldSegments
<1>11. ASSUME NEW k \in 1 .. n PROVE g[k] = LogIfNone(g[k - 1], seq[k])
  <2>1. k - 1 \in 0 .. n
    BY <1>1
  <2>2. g[k - 1] \in Logs(K) /\ seq[k] \in K
    BY <1>1, <2>1
  <2>3. QED
    BY <1>4, <1>10, <2>2 DEF Walks
<1>12. QED
  BY <1>1, <1>2, <1>10, <1>11 DEF n, Walks

\* All keys that are null in a part of an item.
LEMMA KnownFold ==
  ASSUME NEW K, fileNo \in Nat \ {0}, NEW log \in Logs(K), NEW keys \in Seq(K),
         NEW S \in [1 .. fileNo -> SUBSET K], Known(log, fileNo, S)
  PROVE  /\ AllLogged(log, keys) \in Logs(K)
         /\ Known(AllLogged(log, keys), fileNo, With(S, fileNo, ToSet(keys)))
<1> DEFINE n == Len(keys)
           First(k) == {keys[i] : i \in 1 .. k}
           So(k) == With(S, fileNo, First(k))
<1>1. n \in Nat /\ DOMAIN keys = 1 .. n /\ \A i \in 1 .. n : keys[i] \in K
  BY LenProperties
<1>2. PICK g \in [0 .. n -> Logs(K)] :
        /\ g[0] = log /\ g[n] = AllLogged(log, keys)
        /\ \A k \in 1 .. n : g[k] = LogIfNone(g[k - 1], keys[k])
  BY FoldLogged
<1>3. fileNo \in 1 .. fileNo
  OBVIOUS
<1>4. So(0) = S
  <2>1. First(0) = {}
    OBVIOUS
  <2>2. QED
    BY <1>3, <2>1 DEF With
<1>5. So(n) = With(S, fileNo, ToSet(keys))
  BY <1>1 DEF ToSet
<1>6. ASSUME NEW k \in 1 .. n
      PROVE  /\ So(k - 1) \in [1 .. fileNo -> SUBSET K]
             /\ So(k) = With(So(k - 1), fileNo, {keys[k]})
  <2>1. First(k - 1) \in SUBSET K
    BY <1>1
  <2>2. First(k) = First(k - 1) \cup {keys[k]}
    <3>1. \A i \in 1 .. k : i \in 1 .. k - 1 \/ i = k
      OBVIOUS
    <3>2. QED
      BY <3>1
  <2> HIDE DEF First
  <2>3. QED
    BY <1>3, <2>1, <2>2 DEF With
<1> DEFINE F == {k \in Nat : k <= n => Known(g[k], fileNo, So(k))}
<1> HIDE DEF n, So
<1>7. 0 \in F
  BY <1>2, <1>4
<1>8. \A k \in Nat : k \in F => k + 1 \in F
  <2> SUFFICES ASSUME NEW k \in Nat, k \in F, k + 1 <= n
               PROVE  Known(g[k + 1], fileNo, So(k + 1))
    OBVIOUS
  <2>1. k + 1 \in 1 .. n /\ (k + 1) - 1 = k /\ k \in 0 .. n
    BY <1>1
  <2>2. /\ So(k) \in [1 .. fileNo -> SUBSET K]
        /\ So(k + 1) = With(So(k), fileNo, {keys[k + 1]})
        /\ g[k + 1] = LogIfNone(g[k], keys[k + 1])
    BY <1>2, <1>6, <2>1
  <2>3. g[k] \in Logs(K) /\ keys[k + 1] \in K /\ Known(g[k], fileNo, So(k))
    BY <1>1, <1>2, <2>1
  <2>4. Known(LogIfNone(g[k], keys[k + 1]), fileNo, With(So(k), fileNo, {keys[k + 1]}))
    BY <2>2, <2>3, KnownStep
  <2>5. QED
    BY <2>2, <2>4
<1> HIDE DEF F
<1>9. \A k \in Nat : k \in F
  BY <1>7, <1>8, SetInduction
<1>10. Known(g[n], fileNo, So(n)) /\ g[n] \in Logs(K)
  <2>1. n \in F /\ n \in 0 .. n
    BY <1>1, <1>9
  <2>2. QED
    BY <2>1, <1>1 DEF F
<1>11. QED
  BY <1>2, <1>5, <1>10

\* The keys there are.
KeySet ==
  ({"Bidder", "Seller"} \X ToSet(Fields))
  \cup {<<"Category">>, <<"Bids">>, <<"Buy_Price">>}

\* The fields of a user that are null are keys.
LEMMA NullFieldsAre ==
  ASSUME NEW role \in {"Bidder", "Seller"}, NEW user
  PROVE  NullFields(role, user) \in Seq(KeySet)
<1> DEFINE V == Seq(KeySet)
           E == ToSet(Fields)
           n == Len(Fields)
           Op(keys, f) == IF user[f] = None THEN Append(keys, <<role, f>>) ELSE keys
           step == [p \in V \X E |-> Op(p[1], p[2])]
           Body(g, s) == IF s = {} THEN <<>> ELSE Op(g[s \ {Max(s)}], Fields[Max(s)])
           iter == CHOOSE g : g = [s \in SUBSET DOMAIN Fields |-> Body(g, s)]
<1>1. n \in Nat /\ DOMAIN Fields = 1 .. n /\ Fields \in [1 .. n -> E]
  BY FieldsAssumption, LenProperties DEF IsSeq
<1>2. NullFields(role, user) = iter[DOMAIN Fields]
  BY DEF NullFields, FoldLeft, MapThenFoldSet
<1>3. \A keys \in V, f \in E : Op(keys, f) \in V
  <2> SUFFICES ASSUME NEW keys \in V, NEW f \in E PROVE Op(keys, f) \in V
    OBVIOUS
  <2>1. <<role, f>> \in KeySet
    BY DEF KeySet
  <2>2. Append(keys, <<role, f>>) \in V
    BY <2>1, AppendProperties
  <2>3. QED
    BY <2>2
<1>4. <<>> \in V
  OBVIOUS
<1> HIDE DEF n, V, E, Op
<1>5. step \in [V \X E -> V] /\ \A keys \in V, f \in E : step[<<keys, f>>] = Op(keys, f)
  BY <1>3
<1> HIDE DEF step
<1>6. PICK it \in [SUBSET (1 .. n) -> V] : Folds(it, step, <<>>, Fields, 1 .. n)
  BY <1>1, <1>4, <1>5, FoldExists
<1>7. it = [s \in SUBSET DOMAIN Fields |-> Body(it, s)]
  <2> SUFFICES ASSUME NEW s \in SUBSET (1 .. n) PROVE it[s] = Body(it, s)
    BY <1>1
  <2>1. CASE s = {}
    BY <1>6, <2>1 DEF Folds
  <2>2. CASE s # {}
    <3>1. Max(s) \in 1 .. n /\ s \ {Max(s)} \in SUBSET (1 .. n)
      BY <1>1, <2>2, MaxOfSome
    <3>2. it[s \ {Max(s)}] \in V /\ Fields[Max(s)] \in E
      BY <1>1, <3>1
    <3>3. it[s] = step[<<it[s \ {Max(s)}], Fields[Max(s)]>>]
      BY <1>6, <2>2 DEF Folds
    <3>4. QED
      BY <1>5, <2>2, <3>2, <3>3
  <2>3. QED
    BY <2>1, <2>2
<1> HIDE DEF Body
<1>8. iter = [s \in SUBSET DOMAIN Fields |-> Body(iter, s)]
  BY <1>7
<1> HIDE DEF iter
<1>9. iter[{}] = <<>>
  BY <1>8 DEF Body
<1>10. ASSUME NEW s \in SUBSET (1 .. n), s # {}, iter[s \ {Max(s)}] \in V
       PROVE  iter[s] = step[<<iter[s \ {Max(s)}], Fields[Max(s)]>>]
  <2>1. Max(s) \in 1 .. n
    BY <1>1, <1>10, MaxOfSome
  <2>2. iter[s] = Op(iter[s \ {Max(s)}], Fields[Max(s)])
    BY <1>1, <1>8, <1>10 DEF Body
  <2>3. QED
    BY <1>1, <1>5, <1>10, <2>1, <2>2
<1>11. PICK g \in [0 .. n -> V] : g[n] = iter[1 .. n]
  <2>1. FoldsIn(V, E, iter, step, <<>>, Fields, n)
    BY <1>1, <1>4, <1>5, <1>9, <1>10 DEF FoldsIn
  <2>2. QED
    BY <2>1, FoldSegments
<1>12. n \in 0 .. n
  BY <1>1
<1>13. QED
  BY <1>1, <1>2, <1>11, <1>12 DEF V

\* The keys that are null in an item, in its three parts.
NullsOf(item) == ToSet(CategoryNulls(item) \o BidNulls(item) \o ItemNulls(item))

\* They are keys.
LEMMA NullsAre ==
  ASSUME NEW item \in Items
  PROVE  /\ CategoryNulls(item) \in Seq(KeySet)
         /\ BidNulls(item) \in Seq(KeySet)
         /\ ItemNulls(item) \in Seq(KeySet)
         /\ NullsOf(item) = (ToSet(CategoryNulls(item)) \cup ToSet(BidNulls(item)))
                            \cup ToSet(ItemNulls(item))
         /\ NullsOf(item) \in SUBSET KeySet
<1>1. /\ <<"Category">> \in KeySet /\ <<"Bids">> \in KeySet /\ <<"Buy_Price">> \in KeySet
  BY DEF KeySet
<1>2. <<>> \in Seq(KeySet) /\ \A key \in KeySet : <<key>> \in Seq(KeySet)
  OBVIOUS
<1>3. CategoryNulls(item) \in Seq(KeySet)
  BY <1>1, <1>2 DEF CategoryNulls
<1>4. BidNulls(item) \in Seq(KeySet)
  <2>1. CASE item.bids = None
    BY <1>1, <1>2, <2>1 DEF BidNulls
  <2>2. CASE item.bids # None
    <3> DEFINE n == Len(item.bids)
               s == [i \in DOMAIN item.bids |-> NullFields("Bidder", item.bids[i])]
    <3>1. n \in Nat /\ DOMAIN item.bids = 1 .. n
      BY <2>2, ItemIs, LenProperties DEF Made
    <3>2. \A u : NullFields("Bidder", u) \in Seq(KeySet)
      BY NullFieldsAre
    <3> HIDE DEF n
    <3>3. s \in Seq(Seq(KeySet))
      BY <3>1, <3>2
    <3> HIDE DEF s
    <3>4. FlattenSeq(s) \in Seq(KeySet)
      BY <3>3, FlattenIn
    <3>5. QED
      BY <2>2, <3>4 DEF BidNulls, s
  <2>3. QED
    BY <2>1, <2>2
<1>5. ItemNulls(item) \in Seq(KeySet)
  <2>1. PICK a \in Seq(KeySet) : a = NullFields("Seller", item.seller)
    BY NullFieldsAre
  <2>2. PICK b \in Seq(KeySet) : b = IF item.buy_price = None THEN <<<<"Buy_Price">>>> ELSE <<>>
    BY <1>1, <1>2
  <2>3. a \o b \in Seq(KeySet)
    BY ConcatToSet
  <2>4. QED
    BY <2>1, <2>2, <2>3 DEF ItemNulls
<1>6. PICK a \in Seq(KeySet), b \in Seq(KeySet), c \in Seq(KeySet) :
        a = CategoryNulls(item) /\ b = BidNulls(item) /\ c = ItemNulls(item)
  BY <1>3, <1>4, <1>5
<1>7. PICK ab \in Seq(KeySet) : ab = a \o b /\ ToSet(ab) = ToSet(a) \cup ToSet(b)
  BY ConcatToSet
<1>8. ab \o c \in Seq(KeySet) /\ ToSet(ab \o c) = ToSet(ab) \cup ToSet(c)
  BY ConcatToSet
<1>9. \A s \in Seq(KeySet) : ToSet(s) \in SUBSET KeySet
  BY LenProperties DEF ToSet
<1>10. NullsOf(item) = ToSet(ab \o c)
  BY <1>6, <1>7 DEF NullsOf
<1>11. QED
  BY <1>3, <1>4, <1>5, <1>6, <1>7, <1>8, <1>9, <1>10

-----------------------------------------------------------------------------
(***************************************************************************)
(* The invariant of the null map.                                          *)
(***************************************************************************)
\* The keys that are null in the first m items of file n, NullKeys of any
\* list of files.
NullKeysOf(fs, n, m) == UNION {NullsOf(fs[n][k]) : k \in 1 .. m}

\* Those of the parts of the item that have been parsed.
PartNulls ==
  CASE stage = "bid" -> ToSet(CategoryNulls(Item))
    [] stage = "item" -> ToSet(CategoryNulls(Item)) \cup ToSet(BidNulls(Item))
    [] stage = "died" -> NullsOf(Item)
    [] OTHER -> {}

SeenIn(n) ==
  IF n > Len(files) THEN {}
  ELSE IF n < fileNo THEN NullKeysOf(files, n, Len(files[n]))
  ELSE NullKeysOf(files, n, itemNo - 1) \cup PartNulls

Seen == [n \in 1 .. fileNo |-> SeenIn(n)]

LogNow == [map |-> Written(6, gnullmap), logged |-> logged]

NullInv == LogNow \in Logs(KeySet) /\ Known(LogNow, fileNo, Seen)

\* The keys of one more item.
LEMMA NullKeysGrow ==
  ASSUME NEW fs \in Inputs, NEW n \in 1 .. Len(fs)
  PROVE  /\ NullKeysOf(fs, n, 0) = {}
         /\ \A m \in 0 .. Len(fs[n]) : NullKeysOf(fs, n, m) \in SUBSET KeySet
         /\ \A m \in 1 .. Len(fs[n]) :
              NullKeysOf(fs, n, m) = NullKeysOf(fs, n, m - 1) \cup NullsOf(fs[n][m])
<1>1. Len(fs[n]) \in Nat /\ \A k \in 1 .. Len(fs[n]) : fs[n][k] \in Items
  BY InputIs
<1>2. \A k \in 1 .. Len(fs[n]) : NullsOf(fs[n][k]) \in SUBSET KeySet
  BY <1>1, NullsAre
<1>3. NullKeysOf(fs, n, 0) = {}
  BY DEF NullKeysOf
<1>4. \A m \in 0 .. Len(fs[n]) : NullKeysOf(fs, n, m) \in SUBSET KeySet
  BY <1>1, <1>2 DEF NullKeysOf
<1>5. ASSUME NEW m \in 1 .. Len(fs[n])
      PROVE  NullKeysOf(fs, n, m) = NullKeysOf(fs, n, m - 1) \cup NullsOf(fs[n][m])
  <2>1. 1 .. m = (1 .. m - 1) \cup {m}
    BY <1>1
  <2>2. QED
    BY <2>1 DEF NullKeysOf
<1>6. QED
  BY <1>3, <1>4, <1>5

\* The keys of each file are keys.
LEMMA SeenIsKeys ==
  ASSUME PosInv
  PROVE  Seen \in [1 .. fileNo -> SUBSET KeySet]
<1> SUFFICES ASSUME NEW n \in 1 .. fileNo PROVE SeenIn(n) \in SUBSET KeySet
  BY DEF Seen
<1>1. files \in Inputs /\ Len(files) \in Nat /\ fileNo \in 1 .. Len(files) + 1
  BY InputIs DEF PosInv
<1>2. CASE n > Len(files)
  BY <1>2 DEF SeenIn
<1>3. CASE n <= Len(files)
  <2>1. n \in 1 .. Len(files) /\ Len(files[n]) \in Nat
    BY <1>1, <1>3, InputIs
  <2>2. CASE n < fileNo
    <3>1. Len(files[n]) \in 0 .. Len(files[n])
      BY <2>1
    <3>2. NullKeysOf(files, n, Len(files[n])) \in SUBSET KeySet
      BY <1>1, <2>1, <3>1, NullKeysGrow
    <3>3. QED
      BY <1>1, <1>3, <2>1, <2>2, <3>2 DEF SeenIn
  <2>3. CASE ~ (n < fileNo)
    <3>1. n = fileNo /\ itemNo - 1 \in 0 .. Len(files[n])
      BY <1>1, <1>3, <2>1, <2>3 DEF PosInv
    <3>2. NullKeysOf(files, n, itemNo - 1) \in SUBSET KeySet
      BY <1>1, <2>1, <3>1, NullKeysGrow
    <3>3. PartNulls \in SUBSET KeySet
      <4>1. CASE stage = "category"
        BY <4>1 DEF PartNulls
      <4>2. CASE stage # "category"
        <5>1. Item \in Items
          BY <4>2, ItemIn DEF PosInv
        <5>2. /\ NullsOf(Item) = (ToSet(CategoryNulls(Item)) \cup ToSet(BidNulls(Item)))
                                 \cup ToSet(ItemNulls(Item))
              /\ NullsOf(Item) \in SUBSET KeySet
          BY <5>1, NullsAre
        <5>3. QED
          BY <5>2 DEF PartNulls
      <4>3. QED
        BY <4>1, <4>2
    <3>4. QED
      BY <1>1, <1>3, <2>1, <2>3, <3>1, <3>2, <3>3 DEF SeenIn
  <2>4. QED
    BY <2>2, <2>3
<1>4. QED
  BY <1>1, <1>2, <1>3

\* A part of an item that is parsed: its keys are logged, and are those that
\* have come to the keys of the file.
LEMMA LogKeeps ==
  ASSUME PosInv, NullInv, NEW keys \in Seq(KeySet), Log(keys),
         fileNo' = fileNo, dat' = dat, fileNo <= Len(files),
         Seen' = With(Seen, fileNo, ToSet(keys))
  PROVE  NullInv'
<1>1. Len(dat) = 0 /\ fileNo \in Nat \ {0} /\ Len(files) \in Nat
  BY InputIs DEF PosInv
<1>2. LogNow = [map |-> gnullmap, logged |-> logged]
  BY <1>1 DEF LogNow, Written
<1>3. LogNow' = [map |-> gnullmap', logged |-> logged']
  BY <1>1 DEF LogNow, Written
<1>4. PICK log \in Logs(KeySet) : log = LogNow /\ Known(log, fileNo, Seen)
  BY DEF NullInv
<1>5. PICK S \in [1 .. fileNo -> SUBSET KeySet] : S = Seen
  BY SeenIsKeys
<1>6. Known(log, fileNo, S)
  BY <1>4, <1>5
<1>7. /\ AllLogged(log, keys) \in Logs(KeySet)
      /\ Known(AllLogged(log, keys), fileNo, With(S, fileNo, ToSet(keys)))
  BY <1>1, <1>6, KnownFold
<1>8. PICK new \in Logs(KeySet) : new = AllLogged(log, keys)
  BY <1>7
<1>9. gnullmap' = new.map /\ logged' = new.logged
  BY <1>2, <1>4, <1>8 DEF Log
<1>10. LogNow' = new
  BY <1>3, <1>9 DEF Logs
<1>11. QED
  BY <1>4, <1>5, <1>7, <1>8, <1>10 DEF NullInv

\* What is seen in the file being parsed changes with the stage, in the
\* others it does not.
LEMMA SeenOfStage ==
  ASSUME PosInv, fileNo <= Len(files), files' = files, fileNo' = fileNo,
         NEW keys \in SUBSET KeySet,
         SeenIn(fileNo)' = SeenIn(fileNo) \cup keys
  PROVE  Seen' = With(Seen, fileNo, keys)
<1>1. fileNo \in 1 .. fileNo /\ fileNo \in Nat /\ Len(files) \in Nat
  BY InputIs DEF PosInv
<1>2. \A n \in 1 .. fileNo : n # fileNo => SeenIn(n)' = SeenIn(n)
  BY <1>1 DEF SeenIn
<1>3. QED
  BY <1>1, <1>2 DEF Seen, With

\* The null map is empty at first.
LEMMA InitNulls == Init => NullInv
<1> SUFFICES ASSUME Init PROVE NullInv
  OBVIOUS
<1>1. /\ files \in Inputs /\ fileNo = 1 /\ itemNo = 1 /\ stage = "category"
      /\ dat = <<>> /\ gnullmap = <<>> /\ logged = FALSE
  BY DEF Init
<1>2. LogNow = [map |-> <<>>, logged |-> FALSE]
  <2>1. Len(dat) = 0
    BY <1>1
  <2>2. ~ (Len(dat) >= 6)
    BY <2>1
  <2>3. Written(6, gnullmap) = <<>>
    BY <1>1, <2>2 DEF Written
  <2>4. QED
    BY <1>1, <2>3 DEF LogNow
<1>3. <<>> \in Maps(KeySet)
  <2>1. <<>> \in [{} -> Seq(Nat)]
    OBVIOUS
  <2>2. {} \in SUBSET KeySet
    OBVIOUS
  <2>3. QED
    BY <2>1, <2>2 DEF Maps
<1>4. LogNow \in Logs(KeySet)
  BY <1>2, <1>3 DEF Logs
<1>5. SeenIn(1) = {}
  <2>1. Len(files) \in Nat
    BY <1>1, InputIs
  <2>2. PartNulls = {}
    BY <1>1 DEF PartNulls
  <2>3. 1 <= Len(files) => NullKeysOf(files, 1, 0) = {}
    <3> SUFFICES ASSUME 1 <= Len(files) PROVE NullKeysOf(files, 1, 0) = {}
      OBVIOUS
    <3>1. 1 \in 1 .. Len(files)
      BY <2>1
    <3>2. QED
      BY <1>1, <3>1, NullKeysGrow
  <2>4. QED
    BY <1>1, <2>1, <2>2, <2>3 DEF SeenIn
<1>6. Seen[1] = {} /\ \A n \in 1 .. 1 : n = 1
  BY <1>1, <1>5 DEF Seen
<1>7. DOMAIN LogNow.map = {} /\ ~ LogNow.logged
  BY <1>2
<1>8. Known(LogNow, 1, Seen)
  BY <1>6, <1>7 DEF Known
<1>9. QED
  BY <1>1, <1>4, <1>8 DEF NullInv

\* The three parts of an item.
LEMMA ParseNulls ==
  ASSUME PosInv, PosInv', NullInv,
         ParseCategory \/ ParseBid \/ ParseItem \/ ParseItemAgain
  PROVE  NullInv'
<1>1. /\ files' = files /\ fileNo' = fileNo /\ dat' = dat /\ files \in Inputs
      /\ fileNo <= Len(files) /\ itemNo <= Len(files[fileNo])
  BY DEF ParseCategory, ParseBid, ParseItem, ParseItemAgain, At, PosInv
<1>2. fileNo \in 1 .. Len(files) /\ Len(files) \in Nat /\ Len(files[fileNo]) \in Nat
      /\ itemNo \in 1 .. Len(files[fileNo])
  BY <1>1, InputIs DEF PosInv
<1>3. Item \in Items
  BY <1>1, ItemIn
<1>4. PICK a \in Seq(KeySet), b \in Seq(KeySet), c \in Seq(KeySet) :
        a = CategoryNulls(Item) /\ b = BidNulls(Item) /\ c = ItemNulls(Item)
  BY <1>3, NullsAre
<1>5. NullsOf(Item) = (ToSet(a) \cup ToSet(b)) \cup ToSet(c)
  BY <1>3, <1>4, NullsAre
<1>6. \A s \in Seq(KeySet) : ToSet(s) \in SUBSET KeySet
  BY LenProperties DEF ToSet
<1> DEFINE old == NullKeysOf(files, fileNo, itemNo - 1)
<1>7. SeenIn(fileNo) = old \cup PartNulls
  BY <1>1, <1>2 DEF SeenIn
<1>8. SeenIn(fileNo)' = NullKeysOf(files, fileNo, itemNo' - 1) \cup PartNulls'
  BY <1>1, <1>2 DEF SeenIn
<1>9. ASSUME NEW keys \in Seq(KeySet), Log(keys),
             SeenIn(fileNo)' = SeenIn(fileNo) \cup ToSet(keys)
      PROVE  NullInv'
  <2>1. ToSet(keys) \in SUBSET KeySet
    BY <1>6
  <2>2. PICK S \in SUBSET KeySet : S = ToSet(keys)
    BY <2>1
  <2>3. Seen' = With(Seen, fileNo, S)
    BY <1>1, <1>9, <2>2, SeenOfStage
  <2>4. QED
    BY <1>1, <1>9, <2>2, <2>3, LogKeeps
<1> HIDE DEF old
<1>10. CASE ParseCategory
  <2>1. /\ stage = "category" /\ stage' = "bid" /\ itemNo' = itemNo /\ Log(a)
        /\ Item' = Item
    BY <1>1, <1>4, <1>10 DEF ParseCategory, At, Item
  <2>2. PartNulls = {} /\ PartNulls' = ToSet(a)
    BY <1>4, <2>1 DEF PartNulls
  <2>3. QED
    BY <1>7, <1>8, <1>9, <2>1, <2>2 DEF old
<1>11. CASE ParseBid
  <2>1. /\ stage = "bid" /\ stage' = "item" /\ itemNo' = itemNo /\ Log(b)
        /\ Item' = Item
    BY <1>1, <1>4, <1>11 DEF ParseBid, At, Item
  <2>2. PartNulls = ToSet(a) /\ PartNulls' = ToSet(a) \cup ToSet(b)
    BY <1>4, <2>1 DEF PartNulls
  <2>3. QED
    BY <1>7, <1>8, <1>9, <2>1, <2>2 DEF old
<1>12. CASE ParseItem
  <2>1. stage = "item" /\ stage' = "category" /\ itemNo' = itemNo + 1 /\ Log(c)
    BY <1>4, <1>12 DEF ParseItem, At
  <2>2. PartNulls = ToSet(a) \cup ToSet(b) /\ PartNulls' = {}
    BY <1>4, <2>1 DEF PartNulls
  <2>3. NullKeysOf(files, fileNo, itemNo) = old \cup NullsOf(Item)
    <3>1. \A m \in 1 .. Len(files[fileNo]) :
            NullKeysOf(files, fileNo, m)
              = NullKeysOf(files, fileNo, m - 1) \cup NullsOf(files[fileNo][m])
      BY <1>1, <1>2, NullKeysGrow
    <3>2. QED
      BY <1>2, <3>1 DEF old, Item
  <2>4. itemNo' - 1 = itemNo
    BY <1>2, <2>1
  <2>5. SeenIn(fileNo)' = old \cup NullsOf(Item)
    BY <1>8, <2>2, <2>3, <2>4
  <2>6. QED
    BY <1>5, <1>7, <1>9, <2>1, <2>2, <2>5
<1>13. CASE ParseItemAgain
  <2>1. /\ stage = "item" /\ stage' = "died" /\ itemNo' = itemNo /\ Log(c)
        /\ Item' = Item
    BY <1>1, <1>4, <1>13 DEF ParseItemAgain, At, Item
  <2>2. PartNulls = ToSet(a) \cup ToSet(b) /\ PartNulls' = NullsOf(Item)
    BY <1>4, <2>1, <1>5 DEF PartNulls
  <2>3. QED
    BY <1>5, <1>7, <1>8, <1>9, <2>1, <2>2 DEF old
<1>14. QED
  BY <1>10, <1>11, <1>12, <1>13

\* No key of the next file has been seen.
LEMMA NextFileNulls ==
  ASSUME PosInv, PosInv', NullInv, NextFile
  PROVE  NullInv'
<1>1. PICK cur : cur = fileNo
  OBVIOUS
<1> DEFINE m == LogNow.map
<1>2. /\ files' = files /\ fileNo' = cur + 1 /\ itemNo' = 1 /\ stage = "category"
      /\ stage' = "category" /\ dat' = dat /\ gnullmap' = gnullmap /\ logged' = FALSE
      /\ cur <= Len(files) /\ itemNo > Len(files[cur])
  BY <1>1 DEF NextFile
<1>3. /\ files \in Inputs /\ Len(files) \in Nat /\ cur \in 1 .. Len(files)
      /\ Len(files[cur]) \in Nat /\ itemNo \in Nat /\ itemNo <= Len(files[cur]) + 1
  BY <1>1, <1>2, InputIs DEF PosInv
<1>4. itemNo - 1 = Len(files[cur])
  BY <1>2, <1>3
<1>5. \A n \in 1 .. cur : SeenIn(n)' = SeenIn(n)
  <2> SUFFICES ASSUME NEW n \in 1 .. cur PROVE SeenIn(n)' = SeenIn(n)
    OBVIOUS
  <2>1. SeenIn(n)' = NullKeysOf(files, n, Len(files[n]))
    BY <1>2, <1>3 DEF SeenIn
  <2>2. CASE n = cur
    <3>1. ~ (n > Len(files)) /\ ~ (n < fileNo) /\ PartNulls = {}
      BY <1>1, <1>2, <1>3, <2>2 DEF PartNulls
    <3>2. QED
      BY <1>4, <2>1, <2>2, <3>1 DEF SeenIn
  <2>3. CASE n # cur
    BY <1>1, <1>3, <2>1, <2>3 DEF SeenIn
  <2>4. QED
    BY <2>2, <2>3
<1>6. SeenIn(cur + 1)' = {}
  <2>1. PartNulls' = {}
    BY <1>2 DEF PartNulls
  <2>2. CASE cur + 1 > Len(files)
    BY <1>2, <2>2 DEF SeenIn
  <2>3. CASE cur + 1 <= Len(files)
    <3>1. cur + 1 \in 1 .. Len(files)
      BY <1>3, <2>3
    <3>2. NullKeysOf(files, cur + 1, 0) = {}
      BY <1>3, <3>1, NullKeysGrow
    <3>3. SeenIn(cur + 1)' = NullKeysOf(files, cur + 1, itemNo' - 1) \cup PartNulls'
      BY <1>2, <1>3, <2>3 DEF SeenIn
    <3>4. QED
      BY <1>2, <2>1, <3>2, <3>3
  <2>4. QED
    BY <1>3, <2>2, <2>3
<1>7. PICK S \in [1 .. cur -> SUBSET KeySet] : S = Seen
  BY <1>1, SeenIsKeys
<1>8. /\ \A n \in 1 .. cur : Seen'[n] = S[n]
      /\ Seen'[cur + 1] = {}
  <2>1. \A n \in 1 .. cur + 1 : Seen'[n] = SeenIn(n)'
    BY <1>2 DEF Seen
  <2>2. \A n \in 1 .. cur : S[n] = SeenIn(n)
    BY <1>1, <1>7 DEF Seen
  <2>3. \A n \in 1 .. cur : n \in 1 .. cur + 1
    BY <1>3
  <2>4. cur + 1 \in 1 .. cur + 1
    BY <1>3
  <2>5. \A n \in 1 .. cur : Seen'[n] = S[n]
    BY <1>5, <2>1, <2>2, <2>3
  <2>6. Seen'[cur + 1] = SeenIn(cur + 1)'
    BY <2>1, <2>4
  <2>7. QED
    BY <1>6, <2>5, <2>6
<1>9. LogNow' = [map |-> m, logged |-> FALSE]
  BY <1>2 DEF LogNow, Written
<1>10. m \in Maps(KeySet) /\ Known(LogNow, cur, S)
  BY <1>1, <1>7 DEF NullInv, Logs
<1>11. LogNow' \in Logs(KeySet)
  BY <1>9, <1>10 DEF Logs
<1>12. /\ DOMAIN m = UNION {S[n] : n \in 1 .. cur}
       /\ \A x \in DOMAIN m :
            /\ Len(m[x]) > 0
            /\ \A i \in 1 .. Len(m[x]) : m[x][i] \in 1 .. cur /\ x \in S[m[x][i]]
            /\ \A n \in 1 .. cur : n < m[x][1] => x \notin S[n]
       /\ \A n \in 1 .. cur : S[n] # {} => \E x \in S[n] : Contains(m[x], n)
  BY <1>10 DEF Known
<1> HIDE DEF m
<1> DEFINE T == Seen'
<1>13. \A n \in 1 .. cur : T[n] = S[n]
  BY <1>8
<1>14. T[cur + 1] = {}
  BY <1>8
<1>15. \A n \in 1 .. cur + 1 : n \in 1 .. cur \/ n = cur + 1
  BY <1>3
<1>16. \A n \in 1 .. cur : n \in 1 .. cur + 1
  BY <1>3
<1> HIDE DEF T
<1>17. Known(LogNow', cur + 1, T)
  <2>1. LogNow'.map = m /\ ~ LogNow'.logged
    BY <1>9
  <2>2. DOMAIN m = UNION {T[n] : n \in 1 .. cur + 1}
    BY <1>12, <1>13, <1>14, <1>15, <1>16
  <2>3. \A x \in DOMAIN m :
          /\ Len(m[x]) > 0
          /\ \A i \in 1 .. Len(m[x]) : m[x][i] \in 1 .. cur + 1 /\ x \in T[m[x][i]]
          /\ \A n \in 1 .. cur + 1 : n < m[x][1] => x \notin T[n]
    BY <1>12, <1>13, <1>14, <1>15, <1>16
  <2>4. \A n \in 1 .. cur + 1 : T[n] # {} => \E x \in T[n] : Contains(m[x], n)
    BY <1>12, <1>13, <1>14, <1>15
  <2>5. QED
    BY <1>14, <2>1, <2>2, <2>3, <2>4 DEF Known
<1>18. QED
  BY <1>2, <1>11, <1>17 DEF NullInv, T

\* The map that is written is the one that was in memory.
LEMMA FlushNulls ==
  ASSUME PosInv, PosInv', NullInv, Flush
  PROVE  NullInv'
<1> DEFINE n == Len(dat) + 1
           name == DatFiles[n]
<1>1. /\ files' = files /\ fileNo' = fileNo /\ itemNo' = itemNo /\ stage' = stage
      /\ logged' = logged /\ dat' = Append(dat, Table(name)) /\ n \in 1 .. 6 /\ IsSeq(dat)
      /\ gnullmap' = IF name = "nullmap" THEN <<>> ELSE gnullmap
  BY DEF PosInv, Flush, DatFiles
<1>2. Seen' = Seen
  BY <1>1 DEF Seen, SeenIn, PartNulls, Item
<1>3. /\ Len(dat') = n /\ dat'[n] = Table(name)
      /\ \A i \in 1 .. n - 1 : dat'[i] = dat[i]
  <2>1. PICK x : x = Table(name)
    OBVIOUS
  <2> DEFINE S == ToSet(dat) \cup {x}
             d == Append(dat, x)
  <2>2. dat \in Seq(S) /\ x \in S
    BY <1>1 DEF IsSeq
  <2> HIDE DEF S
  <2>3. /\ Len(d) = Len(dat) + 1 /\ d[Len(dat) + 1] = x
        /\ \A i \in 1 .. Len(dat) : d[i] = dat[i]
    BY <2>2, AppendProperties
  <2>4. Len(dat) \in Nat /\ n - 1 = Len(dat)
    BY <2>2, LenProperties
  <2>5. QED
    BY <1>1, <2>1, <2>3, <2>4
<1>4. Len(dat) = n - 1 /\ Len(dat) \in Nat
  BY DEF PosInv
<1>5. n = 6 <=> name = "nullmap"
  BY <1>1 DEF DatFiles
<1>6. name = "nullmap" => Table(name) = gnullmap
  BY DEF Table
<1> HIDE DEF n, name
<1>7. Written(6, gnullmap)' = Written(6, gnullmap)
  BY <1>1, <1>3, <1>4, <1>5, <1>6 DEF Written
<1>8. LogNow' = LogNow
  BY <1>1, <1>7 DEF LogNow
<1>9. QED
  BY <1>1, <1>2, <1>8 DEF NullInv

\* Each step keeps the invariant.
LEMMA NextNulls == (PosInv /\ NullInv) /\ [Next]_vars => (PosInv /\ NullInv)'
<1> SUFFICES ASSUME PosInv, NullInv, [Next]_vars PROVE PosInv' /\ NullInv'
  OBVIOUS
<1>1. PosInv'
  BY NextPos
<1>2. CASE UNCHANGED vars
  <2>1. Seen' = Seen /\ LogNow' = LogNow /\ fileNo' = fileNo
    BY <1>2 DEF vars, nulls, Seen, SeenIn, PartNulls, Item, LogNow, Written
  <2>2. QED
    BY <1>1, <2>1 DEF NullInv
<1>3. QED
  BY <1>1, <1>2, ParseNulls, NextFileNulls, FlushNulls DEF Next

\* The null map, in memory or written, has the keys that were null in the
\* files so far, each under the files it was null in, from the first
\* (_log_if_none of src/p5/debug_parser.py, over any files).
THEOREM NullsInvariant == Spec => []NullInv
<1>1. Init => PosInv
  BY InitRows DEF RInv
<1>2. QED
  BY <1>1, InitNulls, NextNulls, PTL DEF Spec

\* Every key that was null is in the global null map from its first file on
\* and each file is listed (NullKeysKnown).
THEOREM NullKeysKnownAlways == Spec => []NullKeysKnown
<1>1. PosInv /\ NullInv => NullKeysKnown
  <2> SUFFICES ASSUME PosInv, NullInv, stage = "category"
               PROVE  LET map == IF Len(dat) = Len(DatFiles) THEN Last(dat) ELSE gnullmap
                          parsed == IF fileNo <= Len(files) THEN itemNo - 1 ELSE 0
                          Keys(n) == NullKeys(n, IF n < fileNo THEN Len(files[n]) ELSE parsed)
                          begun == {n \in 1 .. Len(files) : n <= fileNo}
                      IN  /\ DOMAIN map = UNION {Keys(n) : n \in begun}
                          /\ \A key \in DOMAIN map :
                               /\ key \in Keys(map[key][1])
                               /\ \A n \in begun : n < map[key][1] => key \notin Keys(n)
                               /\ \A i \in DOMAIN map[key] : key \in Keys(map[key][i])
                          /\ \A n \in begun : Keys(n) # {} =>
                               \E key \in Keys(n) : Contains(map[key], n)
    BY DEF NullKeysKnown
  <2> DEFINE map == IF Len(dat) = Len(DatFiles) THEN Last(dat) ELSE gnullmap
             parsed == IF fileNo <= Len(files) THEN itemNo - 1 ELSE 0
             Keys(n) == NullKeys(n, IF n < fileNo THEN Len(files[n]) ELSE parsed)
             begun == {n \in 1 .. Len(files) : n <= fileNo}
  <2>1. map = Written(6, gnullmap)
    <3>1. Len(DatFiles) = 6
      BY DEF DatFiles
    <3>2. Len(dat) \in 0 .. 6
      BY DEF PosInv
    <3>3. Len(dat) >= 6 <=> Len(dat) = 6
      <4>1. \A k \in 0 .. 6 : k >= 6 <=> k = 6
        OBVIOUS
      <4>2. QED
        BY <3>2, <4>1
    <3>4. CASE Len(dat) = 6
      <4>1. Last(dat) = dat[6]
        BY <3>4 DEF Last
      <4>2. QED
        BY <3>1, <3>3, <3>4, <4>1 DEF Written
    <3>5. CASE Len(dat) # 6
      BY <3>1, <3>3, <3>5 DEF Written
    <3>6. QED
      BY <3>4, <3>5
  <2>2. /\ files \in Inputs /\ Len(files) \in Nat /\ fileNo \in 1 .. Len(files) + 1
        /\ fileNo \in 1 .. fileNo
    BY InputIs DEF PosInv
  <2>3. \A n \in begun : n \in 1 .. fileNo /\ Seen[n] = Keys(n)
    <3> SUFFICES ASSUME NEW n \in begun PROVE n \in 1 .. fileNo /\ SeenIn(n) = Keys(n)
      BY DEF Seen
    <3>1. n \in 1 .. fileNo /\ n <= Len(files)
      BY <2>2
    <3>2. PartNulls = {}
      BY DEF PartNulls
    <3>3. CASE n < fileNo
      BY <2>2, <3>1, <3>3 DEF SeenIn, NullKeysOf, NullKeys, NullsOf
    <3>4. CASE ~ (n < fileNo)
      <4>1. n = fileNo
        BY <2>2, <3>1, <3>4
      <4>2. QED
        BY <2>2, <3>1, <3>2, <4>1 DEF SeenIn, NullKeysOf, NullKeys, NullsOf
    <3>5. QED
      BY <3>1, <3>3, <3>4
  <2>4. \A n \in 1 .. fileNo : n \in begun \/ Seen[n] = {}
    BY <2>2 DEF Seen, SeenIn
  <2> HIDE DEF Keys, begun, map
  <2>5. LogNow \in Logs(KeySet) /\ LogNow.map = map /\ Known(LogNow, fileNo, Seen)
    BY <2>1 DEF NullInv, LogNow
  <2>6. map \in Maps(KeySet)
    BY <2>5 DEF Logs
  <2>7. PICK D \in SUBSET KeySet : map \in [D -> Seq(Nat)]
    BY <2>6 DEF Maps
  <2>8. \A key \in DOMAIN map : map[key] \in Seq(Nat) /\ DOMAIN map[key] = 1 .. Len(map[key])
                                /\ Len(map[key]) \in Nat
    BY <2>7, LenProperties
  <2>9. /\ DOMAIN map = UNION {Seen[n] : n \in 1 .. fileNo}
        /\ \A key \in DOMAIN map :
             /\ Len(map[key]) > 0
             /\ \A i \in 1 .. Len(map[key]) :
                  map[key][i] \in 1 .. fileNo /\ key \in Seen[map[key][i]]
             /\ \A n \in 1 .. fileNo : n < map[key][1] => key \notin Seen[n]
        /\ \A n \in 1 .. fileNo : Seen[n] # {} => \E key \in Seen[n] : Contains(map[key], n)
    BY <2>5 DEF Known
  <2>10. DOMAIN map = UNION {Keys(n) : n \in begun}
    BY <2>3, <2>4, <2>9
  <2>11. ASSUME NEW key \in DOMAIN map, NEW i \in DOMAIN map[key]
         PROVE  key \in Keys(map[key][i])
    <3>1. map[key][i] \in 1 .. fileNo /\ key \in Seen[map[key][i]]
      <4>1. i \in 1 .. Len(map[key])
        BY <2>8
      <4>2. \A j \in 1 .. Len(map[key]) :
              map[key][j] \in 1 .. fileNo /\ key \in Seen[map[key][j]]
        BY <2>9, Zenon
      <4>3. QED
        BY <4>1, <4>2
    <3>2. map[key][i] \in begun
      BY <2>4, <3>1
    <3>3. QED
      BY <2>3, <3>1, <3>2
  <2>12. ASSUME NEW key \in DOMAIN map
         PROVE  /\ key \in Keys(map[key][1])
                /\ \A n \in begun : n < map[key][1] => key \notin Keys(n)
    <3>1. 1 \in DOMAIN map[key]
      BY <2>8, <2>9
    <3>2. key \in Keys(map[key][1])
      BY <2>11, <3>1
    <3>3. \A n \in 1 .. fileNo : n < map[key][1] => key \notin Seen[n]
      BY <2>9
    <3>4. QED
      BY <2>3, <3>2, <3>3
  <2>13. \A n \in begun : Keys(n) # {} => \E key \in Keys(n) : Contains(map[key], n)
    BY <2>3, <2>9
  <2>14. QED
    BY <2>10, <2>11, <2>12, <2>13 DEF map, begun, Keys
<1>2. Spec => []PosInv
  BY RowsInvariant, PTL DEF RInv
<1>3. QED
  BY <1>1, <1>2, NullsInvariant, PTL

==============================================================================
