-------------------------- MODULE SlottedPageProofs --------------------------
(***************************************************************************)
(* The slotted page, for any size, any contents and any lengths of records *)
(* but 0: its space is accounted for, no record is lost or changed by the  *)
(* calls about another, and an iterator comes to every record.             *)
(***************************************************************************)
EXTENDS SlottedPage, Iteration, SequenceTheorems

-----------------------------------------------------------------------------
(***************************************************************************)
(* The lengths of records.                                                 *)
(***************************************************************************)
\* The lengths of the records of the slots S.
Total(d, S) == MapThenSumSet(LAMBDA i : getSlot(d, i).item_length, S)

Size(d, i) == getSlot(d, i).item_length

\* MapThenSumSet, which takes the elements in an order of its own, adds up.
LEMMA TotalIs ==
  ASSUME NEW d, NEW A, IsFiniteSet(A), NEW g,
         Adds(g, [i \in A |-> Size(d, i)], A)
  PROVE  \A T \in SUBSET A : Total(d, T) = g[T]
<1> SUFFICES ASSUME NEW T \in SUBSET A PROVE Total(d, T) = g[T]
  OBVIOUS
<1> DEFINE one(s) == CHOOSE x \in s : TRUE
           Body(f, s) == IF s = {} THEN 0 ELSE getSlot(d, one(s)).item_length + f[s \ {one(s)}]
           iter == CHOOSE f : f = [s \in SUBSET T |-> Body(f, s)]
<1>1. Total(d, T) = iter[T]
  BY DEF Total, MapThenSumSet, MapThenFoldSet
<1>2. \A s \in SUBSET T : s # {} => one(s) \in s /\ s \ {one(s)} \in SUBSET T
  OBVIOUS
<1>3. \A s \in SUBSET T : s # {} => g[s] = getSlot(d, one(s)).item_length + g[s \ {one(s)}]
  <2> SUFFICES ASSUME NEW s \in SUBSET T, s # {}
               PROVE  g[s] = getSlot(d, one(s)).item_length + g[s \ {one(s)}]
    OBVIOUS
  <2>1. one(s) \in s
    BY <1>2
  <2>2. s \in SUBSET A /\ one(s) \in A
    BY <2>1
  <2> HIDE DEF one
  <2>3. QED
    BY <2>1, <2>2 DEF Adds, Size
<1>4. g[{}] = 0
  BY DEF Adds
<1> DEFINE h == [s \in SUBSET T |-> g[s]]
<1>5. h = [s \in SUBSET T |-> Body(h, s)]
  <2> SUFFICES ASSUME NEW s \in SUBSET T PROVE h[s] = Body(h, s)
    OBVIOUS
  <2>1. CASE s = {}
    BY <1>4, <2>1
  <2>2. CASE s # {}
    <3> HIDE DEF one
    <3>1. QED
      BY <1>2, <1>3, <2>2
  <2>3. QED
    BY <2>1, <2>2
<1> HIDE DEF one, h
<1>6. iter = [s \in SUBSET T |-> Body(iter, s)]
  BY <1>5
<1> HIDE DEF iter
<1> DEFINE F == {s \in SUBSET T : iter[s] = g[s]}
<1>7. {} \in F
  <2>1. {} \in SUBSET T
    OBVIOUS
  <2>2. iter[{}] = 0
    BY <1>6, <2>1
  <2>3. QED
    BY <1>4, <2>1, <2>2
<1>8. ASSUME NEW s \in SUBSET T, s # {}, \A x \in s : s \ {x} \in F PROVE s \in F
  <2>1. iter[s] = getSlot(d, one(s)).item_length + iter[s \ {one(s)}]
    BY <1>6, <1>8
  <2>2. iter[s \ {one(s)}] = g[s \ {one(s)}]
    BY <1>2, <1>8
  <2>3. QED
    BY <1>3, <1>8, <2>1, <2>2
<1>9. IsFiniteSet(T)
  BY FS_Subset
<1> HIDE DEF F
<1>10. T \in F
  BY <1>7, <1>8, <1>9, SubsetInduction
<1>11. QED
  BY <1>1, <1>10 DEF F

\* What that says of Total.
LEMMA TotalAdds ==
  ASSUME NEW d, NEW A, IsFiniteSet(A), \A i \in A : Size(d, i) \in Nat
  PROVE  /\ Total(d, {}) = 0
         /\ \A T \in SUBSET A : Total(d, T) \in Nat
         /\ \A T \in SUBSET A : \A x \in T : Total(d, T) = Size(d, x) + Total(d, T \ {x})
<1> DEFINE w == [i \in A |-> Size(d, i)]
<1>1. w \in [A -> Nat]
  OBVIOUS
<1> HIDE DEF w
<1>2. PICK g : Adds(g, w, A)
  BY <1>1, AddsExists
<1>3. \A T \in SUBSET A : Total(d, T) = g[T]
  BY <1>2, TotalIs DEF w
<1>4. {} \in SUBSET A /\ \A T \in SUBSET A : \A x \in T : T \ {x} \in SUBSET A /\ w[x] = Size(d, x)
  BY DEF w
<1>5. Total(d, {}) = 0
  BY <1>2, <1>3, <1>4 DEF Adds
<1>6. \A T \in SUBSET A : Total(d, T) \in Nat
  BY <1>2, <1>3 DEF Adds
<1>7. ASSUME NEW T \in SUBSET A, NEW x \in T
      PROVE  Total(d, T) = Size(d, x) + Total(d, T \ {x})
  BY <1>2, <1>3, <1>4 DEF Adds
<1>8. QED
  BY <1>5, <1>6, <1>7

\* Slots of the same lengths have the same total.
LEMMA TotalSame ==
  ASSUME NEW d, NEW e, NEW A, IsFiniteSet(A),
         \A i \in A : Size(d, i) \in Nat /\ Size(e, i) = Size(d, i)
  PROVE  Total(e, A) = Total(d, A)
<1>1. \A i \in A : Size(d, i) \in Nat
  OBVIOUS
<1>2. /\ Total(d, {}) = 0
      /\ \A T \in SUBSET A : Total(d, T) \in Nat
      /\ \A T \in SUBSET A : \A x \in T : Total(d, T) = Size(d, x) + Total(d, T \ {x})
  BY <1>1, TotalAdds, ZenonT(30)
<1>3. \A i \in A : Size(e, i) \in Nat
  OBVIOUS
<1>4. /\ Total(e, {}) = 0
      /\ \A T \in SUBSET A : Total(e, T) \in Nat
      /\ \A T \in SUBSET A : \A x \in T : Total(e, T) = Size(e, x) + Total(e, T \ {x})
  BY <1>3, TotalAdds, ZenonT(30)
<1> DEFINE F == {T \in SUBSET A : Total(e, T) = Total(d, T)}
<1>5. {} \in F
  BY <1>2, <1>4
<1>6. ASSUME NEW T \in SUBSET A, T # {}, \A x \in T : T \ {x} \in F PROVE T \in F
  <2>1. PICK x \in T : TRUE
    BY <1>6
  <2>2. Total(d, T) = Size(d, x) + Total(d, T \ {x})
    BY <1>2
  <2>3. Total(e, T) = Size(e, x) + Total(e, T \ {x})
    BY <1>4
  <2>4. QED
    BY <1>6, <2>1, <2>2, <2>3
<1> HIDE DEF F
<1>7. \A T \in SUBSET A : T \in F
  BY <1>5, <1>6, SubsetInduction
<1>8. QED
  BY <1>7 DEF F

\* A part of the slots has no more than all of them.
LEMMA TotalPart ==
  ASSUME NEW d, NEW A, IsFiniteSet(A), \A i \in A : Size(d, i) \in Nat,
         NEW B \in SUBSET A
  PROVE  Total(d, B) <= Total(d, A)
<1>1. /\ Total(d, {}) = 0
      /\ \A T \in SUBSET A : Total(d, T) \in Nat
      /\ \A T \in SUBSET A : \A x \in T : Total(d, T) = Size(d, x) + Total(d, T \ {x})
  BY TotalAdds, ZenonT(30)
<1> DEFINE F == {T \in SUBSET A : Total(d, T \cap B) <= Total(d, T)}
<1>2. {} \in F
  <2>1. {} \cap B = {} /\ {} \in SUBSET A
    OBVIOUS
  <2>2. Total(d, {}) = 0
    BY <1>1
  <2>3. QED
    BY <2>1, <2>2
<1>3. ASSUME NEW T \in SUBSET A, T # {}, \A x \in T : T \ {x} \in F PROVE T \in F
  <2>1. PICK x \in T : TRUE
    BY <1>3
  <2>2. Total(d, T) = Size(d, x) + Total(d, T \ {x})
    BY <1>1
  <2>3. T \ {x} \in SUBSET A /\ T \cap B \in SUBSET A /\ (T \ {x}) \cap B \in SUBSET A /\ x \in A
    OBVIOUS
  <2>4. /\ Total(d, T \ {x}) \in Nat /\ Total(d, T \cap B) \in Nat
        /\ Total(d, (T \ {x}) \cap B) \in Nat /\ Size(d, x) \in Nat
    BY <2>3, <1>1
  <2>5. Total(d, (T \ {x}) \cap B) <= Total(d, T \ {x})
    BY <1>3, <2>1
  <2>6. CASE x \in B
    <3>1. (T \cap B) \ {x} = (T \ {x}) \cap B /\ x \in T \cap B
      BY <2>6
    <3>2. Total(d, T \cap B) = Size(d, x) + Total(d, (T \cap B) \ {x})
      BY <2>3, <3>1, <1>1
    <3>3. QED
      BY <2>2, <2>4, <2>5, <3>1, <3>2
  <2>7. CASE x \notin B
    <3>1. T \cap B = (T \ {x}) \cap B
      BY <2>7
    <3>2. QED
      BY <2>2, <2>4, <2>5, <3>1
  <2>8. QED
    BY <2>6, <2>7
<1> HIDE DEF F
<1>4. \A T \in SUBSET A : T \in F
  BY <1>2, <1>3, SubsetInduction
<1>5. A \cap B = B
  OBVIOUS
<1>6. QED
  BY <1>4, <1>5 DEF F
-----------------------------------------------------------------------------
(***************************************************************************)
(* The records are packed: between the start up of the records and a       *)
(* record are those with smaller offsets, and all of them reach the end of *)
(* the data area.                                                          *)
(***************************************************************************)
Off(d, i) == getSlot(d, i).item_offset

Lower(U, d, i) == {j \in U : Off(d, j) < Off(d, i)}

Packed(U, d, up) ==
  /\ IsFiniteSet(U)
  /\ up \in Int
  /\ \A i \in U : Size(d, i) \in Nat \ {0} /\ Off(d, i) \in Int
  /\ \A i \in U : Off(d, i) = up + Total(d, Lower(U, d, i))
  /\ \A i, j \in U : Off(d, i) = Off(d, j) => i = j
  /\ DATA_SIZE = up + Total(d, U)

\* The facts about sums, for the slots of a packed page.
LEMMA PackedTotal ==
  ASSUME NEW U, NEW d, NEW up, Packed(U, d, up)
  PROVE  /\ Total(d, {}) = 0
         /\ \A T \in SUBSET U : Total(d, T) \in Nat
         /\ \A T \in SUBSET U : \A x \in T : Total(d, T) = Size(d, x) + Total(d, T \ {x})
<1>1. IsFiniteSet(U) /\ \A i \in U : Size(d, i) \in Nat
  BY DEF Packed
<1>2. QED
  BY <1>1, TotalAdds

\* Records that are packed do not overlap.
LEMMA PackedApart ==
  ASSUME NEW U, NEW d, NEW up, Packed(U, d, up)
  PROVE  /\ \A i \in U : up <= Off(d, i) /\ Off(d, i) + Size(d, i) <= DATA_SIZE
         /\ \A i, j \in U : Off(d, j) < Off(d, i) => Off(d, j) + Size(d, j) <= Off(d, i)
<1>1. /\ IsFiniteSet(U) /\ up \in Int /\ DATA_SIZE = up + Total(d, U)
      /\ \A i \in U : Size(d, i) \in Nat /\ Off(d, i) \in Int
      /\ \A i \in U : Off(d, i) = up + Total(d, Lower(U, d, i))
  BY DEF Packed
<1>2. /\ \A T \in SUBSET U : Total(d, T) \in Nat
      /\ \A T \in SUBSET U : \A x \in T : Total(d, T) = Size(d, x) + Total(d, T \ {x})
  BY PackedTotal
<1>3. \A i \in U : Lower(U, d, i) \in SUBSET U
  BY DEF Lower
<1>4. ASSUME NEW i \in U, NEW A \in SUBSET U, Lower(U, d, i) \subseteq A, i \in A
      PROVE  Off(d, i) + Size(d, i) <= up + Total(d, A)
  <2> DEFINE B == Lower(U, d, i)
  <2>1. B \in SUBSET (A \ {i})
    BY <1>1, <1>4 DEF Lower
  <2>2. IsFiniteSet(A \ {i}) /\ \A j \in A \ {i} : Size(d, j) \in Nat
    BY <1>1, FS_Subset
  <2> HIDE DEF B
  <2>3. Total(d, B) <= Total(d, A \ {i})
    BY <2>1, <2>2, TotalPart
  <2>4. Total(d, A) = Size(d, i) + Total(d, A \ {i})
    BY <1>2, <1>4
  <2>5. Off(d, i) = up + Total(d, B)
    BY <1>1 DEF B
  <2>6. Total(d, B) \in Nat /\ Total(d, A \ {i}) \in Nat /\ Size(d, i) \in Nat
    <3>1. A \ {i} \in SUBSET U /\ B \in SUBSET U
      BY <2>1
    <3>2. QED
      BY <1>1, <1>2, <3>1
  <2>7. QED
    BY <1>1, <2>3, <2>4, <2>5, <2>6
<1>5. ASSUME NEW i \in U
      PROVE  up <= Off(d, i) /\ Off(d, i) + Size(d, i) <= DATA_SIZE
  <2>1. Total(d, Lower(U, d, i)) \in Nat
    BY <1>2, <1>3
  <2>2. Off(d, i) + Size(d, i) <= up + Total(d, U)
    BY <1>3, <1>4
  <2>3. QED
    BY <1>1, <2>1, <2>2
<1>6. ASSUME NEW i \in U, NEW j \in U, Off(d, j) < Off(d, i)
      PROVE  Off(d, j) + Size(d, j) <= Off(d, i)
  <2>1. Lower(U, d, j) \subseteq Lower(U, d, i) /\ j \in Lower(U, d, i)
    BY <1>1, <1>6 DEF Lower
  <2>2. Off(d, j) + Size(d, j) <= up + Total(d, Lower(U, d, i))
    BY <1>3, <1>4, <2>1
  <2>3. QED
    BY <1>1, <2>2
<1>7. QED
  BY <1>5, <1>6

\* A record put in front of the others.
LEMMA PutIn ==
  ASSUME NEW U, NEW d, NEW up, Packed(U, d, up), NEW e, NEW n, n \notin U,
         NEW size \in Nat \ {0}, Off(e, n) = up - size, Size(e, n) = size,
         \A i \in U : Off(e, i) = Off(d, i) /\ Size(e, i) = Size(d, i)
  PROVE  Packed(U \cup {n}, e, up - size)
<1> DEFINE V == U \cup {n}
<1>1. /\ IsFiniteSet(U) /\ up \in Int /\ DATA_SIZE = up + Total(d, U)
      /\ \A i \in U : Size(d, i) \in Nat \ {0} /\ Off(d, i) \in Int
      /\ \A i \in U : Off(d, i) = up + Total(d, Lower(U, d, i))
      /\ \A i, j \in U : Off(d, i) = Off(d, j) => i = j
  BY DEF Packed
<1>2. \A T \in SUBSET U : Total(d, T) \in Nat
  BY PackedTotal
<1>3. \A i \in U : Off(d, i) >= up
  BY PackedApart
<1>4. IsFiniteSet(V) /\ up - size \in Int /\ up - size < up
  BY <1>1, FS_AddElement
<1>5. \A i \in V : Size(e, i) \in Nat \ {0} /\ Off(e, i) \in Int
  BY <1>1
<1>6. /\ Total(e, {}) = 0
      /\ \A T \in SUBSET V : \A x \in T : Total(e, T) = Size(e, x) + Total(e, T \ {x})
  <2>1. \A i \in V : Size(e, i) \in Nat
    BY <1>5
  <2>2. IsFiniteSet(V)
    BY <1>4
  <2> HIDE DEF V
  <2>3. QED
    BY <2>1, <2>2, TotalAdds
<1>7. ASSUME NEW T \in SUBSET U PROVE Total(e, T \cup {n}) = size + Total(d, T)
  <2>1. T \cup {n} \in SUBSET V /\ n \in T \cup {n} /\ (T \cup {n}) \ {n} = T
    OBVIOUS
  <2>2. IsFiniteSet(T) /\ \A i \in T : Size(d, i) \in Nat /\ Size(e, i) = Size(d, i)
    BY <1>1, FS_Subset
  <2>3. Total(e, T) = Total(d, T)
    BY <2>2, TotalSame
  <2>4. QED
    BY <1>6, <2>1, <2>3
<1>8. ASSUME NEW i \in V PROVE Off(e, i) = (up - size) + Total(e, Lower(V, e, i))
  <2>1. CASE i = n
    <3>1. \A j \in V : ~(Off(e, j) < Off(e, n))
      BY <1>1, <1>3
    <3>2. Lower(V, e, n) = {}
      BY <3>1 DEF Lower
    <3>3. Total(e, Lower(V, e, n)) = 0
      BY <1>6, <3>2
    <3>4. (up - size) + 0 = up - size
      BY <1>4
    <3>5. QED
      BY <2>1, <3>3, <3>4
  <2>2. CASE i \in U
    <3>1. Off(e, n) < Off(e, i) /\ Off(e, i) = Off(d, i)
      BY <1>1, <1>3, <1>4, <2>2
    <3>2. Lower(V, e, i) = Lower(U, d, i) \cup {n}
      BY <3>1 DEF Lower
    <3>3. Lower(U, d, i) \in SUBSET U
      BY DEF Lower
    <3>4. Total(e, Lower(V, e, i)) = size + Total(d, Lower(U, d, i))
      BY <1>7, <3>2, <3>3
    <3>5. Total(d, Lower(U, d, i)) \in Nat
      BY <1>2, <3>3
    <3>6. QED
      BY <1>1, <2>2, <3>1, <3>4, <3>5
  <2>3. QED
    BY <2>1, <2>2
<1>9. ASSUME NEW i \in V, NEW j \in V, Off(e, i) = Off(e, j) PROVE i = j
  BY <1>1, <1>3, <1>4, <1>9
<1>10. DATA_SIZE = (up - size) + Total(e, V)
  <2>1. Total(e, V) = size + Total(d, U)
    BY <1>7
  <2>2. Total(d, U) \in Nat
    BY <1>2
  <2>3. QED
    BY <1>1, <2>1, <2>2
<1> HIDE DEF V
<1>11. Packed(V, e, up - size)
  BY <1>4, <1>5, <1>8, <1>9, <1>10 DEF Packed
<1>12. QED
  BY <1>11 DEF V

\* A record taken out, and those below it moved up over its place.
LEMMA TakeOut ==
  ASSUME NEW U, NEW d, NEW up, Packed(U, d, up), NEW e, NEW n \in U,
         \A i \in U \ {n} :
           /\ Size(e, i) = Size(d, i)
           /\ Off(e, i) = IF Off(d, i) < Off(d, n) THEN Off(d, i) + Size(d, n)
                                                   ELSE Off(d, i)
  PROVE  Packed(U \ {n}, e, up + Size(d, n))
<1> DEFINE V == U \ {n}
           len == Size(d, n)
<1>1. /\ IsFiniteSet(U) /\ up \in Int /\ DATA_SIZE = up + Total(d, U)
      /\ \A i \in U : Size(d, i) \in Nat \ {0} /\ Off(d, i) \in Int
      /\ \A i \in U : Off(d, i) = up + Total(d, Lower(U, d, i))
      /\ \A i, j \in U : Off(d, i) = Off(d, j) => i = j
  BY DEF Packed
<1>2. /\ \A T \in SUBSET U : Total(d, T) \in Nat
      /\ \A T \in SUBSET U : \A x \in T : Total(d, T) = Size(d, x) + Total(d, T \ {x})
  BY PackedTotal
<1>3. /\ IsFiniteSet(V) /\ up + len \in Int /\ len \in Nat
      /\ \A i \in V : Size(e, i) \in Nat \ {0} /\ Off(e, i) \in Int
  BY <1>1, FS_RemoveElement
<1>4. ASSUME NEW i \in V, NEW j \in V
      PROVE  Off(e, j) < Off(e, i) <=> Off(d, j) < Off(d, i)
  <2>1. /\ Off(d, i) \in Int /\ Off(d, j) \in Int /\ Off(d, n) \in Int
        /\ Off(d, i) # Off(d, n) /\ Off(d, j) # Off(d, n)
    BY <1>1
  <2>2. /\ Off(d, n) < Off(d, i) => Off(d, n) + len <= Off(d, i)
        /\ Off(d, n) < Off(d, j) => Off(d, n) + len <= Off(d, j)
    BY PackedApart
  <2>3. /\ Off(e, i) = IF Off(d, i) < Off(d, n) THEN Off(d, i) + len ELSE Off(d, i)
        /\ Off(e, j) = IF Off(d, j) < Off(d, n) THEN Off(d, j) + len ELSE Off(d, j)
    OBVIOUS
  <2> HIDE DEF V, len
  <2>4. QED
    BY <1>3, <2>1, <2>2, <2>3
<1>5. ASSUME NEW T \in SUBSET V PROVE Total(e, T) = Total(d, T)
  <2>1. IsFiniteSet(T) /\ \A i \in T : Size(d, i) \in Nat /\ Size(e, i) = Size(d, i)
    BY <1>1, <1>3, FS_Subset
  <2>2. QED
    BY <2>1, TotalSame
<1>6. ASSUME NEW i \in V PROVE Off(e, i) = (up + len) + Total(e, Lower(V, e, i))
  <2>1. Lower(V, e, i) = Lower(U, d, i) \ {n}
    BY <1>4 DEF Lower
  <2>2. Lower(V, e, i) \in SUBSET V /\ Lower(U, d, i) \in SUBSET U
    BY DEF Lower
  <2>3. Total(e, Lower(V, e, i)) = Total(d, Lower(U, d, i) \ {n})
    BY <1>5, <2>1, <2>2
  <2>4. Off(d, i) = up + Total(d, Lower(U, d, i)) /\ Total(d, Lower(U, d, i)) \in Nat
    BY <1>1, <1>2, <2>2
  <2>5. CASE Off(d, i) < Off(d, n)
    <3>1. n \notin Lower(U, d, i)
      BY <1>1, <2>5 DEF Lower
    <3>2. Lower(U, d, i) \ {n} = Lower(U, d, i)
      BY <3>1
    <3>3. Off(e, i) = Off(d, i) + len
      BY <2>5
    <3> HIDE DEF V, len
    <3>4. QED
      BY <1>1, <1>3, <2>3, <2>4, <3>2, <3>3
  <2>6. CASE ~(Off(d, i) < Off(d, n))
    <3>1. n \in Lower(U, d, i)
      BY <1>1, <2>6 DEF Lower
    <3>2. Total(d, Lower(U, d, i)) = len + Total(d, Lower(U, d, i) \ {n})
      BY <1>2, <2>2, <3>1
    <3>3. Off(e, i) = Off(d, i)
      BY <2>6
    <3>4. Total(d, Lower(U, d, i) \ {n}) \in Nat
      BY <1>2, <2>2
    <3> HIDE DEF V, len
    <3>5. QED
      BY <1>1, <1>3, <2>3, <2>4, <3>2, <3>3, <3>4
  <2>7. QED
    BY <2>5, <2>6
<1>7. ASSUME NEW i \in V, NEW j \in V, Off(e, i) = Off(e, j) PROVE i = j
  <2>1. ~(Off(d, i) < Off(d, j)) /\ ~(Off(d, j) < Off(d, i))
    BY <1>3, <1>4, <1>7
  <2>2. QED
    BY <1>1, <2>1
<1>8. DATA_SIZE = (up + len) + Total(e, V)
  <2>1. Total(d, U) = len + Total(d, V) /\ Total(d, V) \in Nat
    BY <1>2
  <2>2. Total(e, V) = Total(d, V)
    BY <1>5
  <2> HIDE DEF V, len
  <2>3. QED
    BY <1>1, <1>3, <2>1, <2>2
<1> HIDE DEF V, len
<1>9. Packed(V, e, up + len)
  BY <1>3, <1>6, <1>7, <1>8 DEF Packed
<1>10. QED
  BY <1>9 DEF V, len
-----------------------------------------------------------------------------
(***************************************************************************)
(* The operators of SlottedPage.                                           *)
(***************************************************************************)
\* What a header and the data of a page are, its slots in use being U.
Page(h, d, U) ==
  /\ h \in [free_space_lower_bound : Nat, free_space_upper_bound : Nat,
            num_slots : Nat, num_free_slots : Int]
  /\ DOMAIN d = 0 .. DATA_SIZE - 1
  /\ h.free_space_lower_bound = h.num_slots
  /\ h.num_slots <= h.free_space_upper_bound
  /\ U = UsedSlots(h, d)
  /\ h.num_free_slots = h.num_slots - Cardinality(U)
  /\ Packed(U, d, h.free_space_upper_bound)

\* deleteRecord moves the records between the start of the records and the
\* one deleted.
LEMMA MoveIs ==
  ASSUME NEW h, NEW d, NEW U, Page(h, d, U), NEW n \in U
  PROVE  /\ ToMove(h, d, getSlot(d, n)) = Lower(U, d, n)
         /\ move_offset(h, d, getSlot(d, n)) = h.free_space_upper_bound
         /\ move_bytes(h, d, getSlot(d, n)) = Off(d, n) - h.free_space_upper_bound
<1> DEFINE up == h.free_space_upper_bound
<1>1. /\ U = UsedSlots(h, d) /\ up \in Int /\ Packed(U, d, up)
      /\ \A i \in U : Off(d, i) \in Int /\ Off(d, i) = up + Total(d, Lower(U, d, i))
  BY DEF Page, Packed
<1>2. ToMove(h, d, getSlot(d, n)) = Lower(U, d, n)
  BY <1>1 DEF ToMove, Lower, Off
<1> HIDE DEF up
<1>3. Total(d, {}) = 0 /\ Total(d, Lower(U, d, n)) \in Nat
  <2>1. Lower(U, d, n) \in SUBSET U
    BY DEF Lower
  <2>2. QED
    BY <1>1, <2>1, PackedTotal
<1>4. move_bytes(h, d, getSlot(d, n)) = Off(d, n) - up
  <2>1. move_bytes(h, d, getSlot(d, n)) = Total(d, Lower(U, d, n))
    BY <1>2 DEF move_bytes, Total
  <2>2. QED
    BY <1>1, <1>3, <2>1
<1> DEFINE S == {Off(d, n)} \cup {Off(d, i) : i \in Lower(U, d, n)}
<1>5. \A i \in U : up <= Off(d, i)
  BY <1>1, PackedApart
<1>6. /\ S \in SUBSET Int /\ S # {} /\ \A x \in S : up <= x
      /\ \A x \in S : x <= Off(d, n) /\ \E i \in U : x = Off(d, i)
  <2>1. ASSUME NEW x \in S PROVE x <= Off(d, n) /\ \E i \in U : x = Off(d, i)
    <3>1. CASE x = Off(d, n)
      BY <1>1, <3>1
    <3>2. CASE \E i \in Lower(U, d, n) : x = Off(d, i)
      <4>1. PICK i \in Lower(U, d, n) : x = Off(d, i)
        BY <3>2
      <4>2. i \in U /\ Off(d, i) < Off(d, n)
        BY DEF Lower
      <4>3. QED
        BY <1>1, <4>1, <4>2
    <3>3. QED
      BY <3>1, <3>2
  <2>2. \A x \in S : x \in Int /\ up <= x
    BY <1>1, <1>5, <2>1
  <2>3. S # {}
    OBVIOUS
  <2> HIDE DEF S
  <2>4. QED
    BY <2>1, <2>2, <2>3
<1>7. IsFiniteSet(S)
  <2>1. S \in SUBSET (up .. Off(d, n))
    BY <1>1, <1>6
  <2>2. IsFiniteSet(up .. Off(d, n))
    BY <1>1, FS_Interval
  <2> HIDE DEF S
  <2>3. QED
    BY <2>1, <2>2, FS_Subset
<1>8. \A i \in Lower(U, d, n) : Off(d, i) \in S
  OBVIOUS
<1> HIDE DEF S
<1>9. Min(S) \in S /\ \A y \in S : Min(S) <= y
  BY <1>6, <1>7, MinIs
<1>10. PICK i \in U : Min(S) = Off(d, i)
  BY <1>6, <1>9
<1>11. Lower(U, d, i) = {}
  <2> SUFFICES ASSUME NEW j \in U, Off(d, j) < Off(d, i) PROVE FALSE
    BY DEF Lower
  <2>1. Off(d, j) < Off(d, n)
    BY <1>1, <1>6, <1>9, <1>10
  <2>2. Off(d, j) \in S
    BY <1>8, <2>1 DEF Lower
  <2>3. QED
    BY <1>1, <1>9, <1>10, <2>2
<1>12. Off(d, i) = up
  <2>1. Total(d, Lower(U, d, i)) = 0
    BY <1>3, <1>11
  <2>2. QED
    BY <1>1, <2>1
<1>13. move_offset(h, d, getSlot(d, n)) = Min(S)
  BY <1>2 DEF move_offset, S, Off
<1>14. QED
  BY <1>2, <1>4, <1>10, <1>12, <1>13 DEF up

\* What deleteRecord leaves: the other records are under their numbers and
\* as they were, the slot is unused, and the free space is as it was but for
\* the place of the record if none was moved.
CompactedTo(e, h, d, U, n) ==
  /\ DOMAIN e = DOMAIN d
  /\ getSlot(e, n) = PageSlot(FALSE, 0, 0)
  /\ \A i \in Slots(h) \ {n} : getSlot(e, i).used <=> getSlot(d, i).used
  /\ \A i \in U \ {n} :
       /\ Size(e, i) = Size(d, i)
       /\ Off(e, i) = IF Off(d, i) < Off(d, n) THEN Off(d, i) + Size(d, n)
                                               ELSE Off(d, i)
  /\ \A i \in U \ {n} : \A k \in 1 .. Size(d, i) :
       e[Off(e, i) + k - 1] = d[Off(d, i) + k - 1]
  /\ Off(d, n) = h.free_space_upper_bound =>
       \A c \in h.num_slots .. h.free_space_upper_bound + Size(d, n) - 1 :
         e[c] = IF c < h.free_space_upper_bound THEN d[c] ELSE Zero

\* Compacted (page.cpp:75, closing the gap of a record) does what CompactedTo says.
LEMMA CompactedIs ==
  ASSUME NEW h, NEW d, NEW U, Page(h, d, U), NEW n \in U
  PROVE  CompactedTo(Compacted(h, d, n), h, d, U, n)
<1> DEFINE e == Compacted(h, d, n)
           slot == getSlot(d, n)
           up == h.free_space_upper_bound
           off == Off(d, n)
           len == Size(d, n)
           z == Zeroed(d, slot)
           L == Lower(U, d, n)
           Moved(i) == PageSlot(TRUE, Off(d, i) + len, Size(d, i))
<1>1. /\ U = UsedSlots(h, d) /\ DOMAIN d = 0 .. DATA_SIZE - 1
      /\ up \in Nat /\ h.num_slots \in Nat /\ h.num_slots <= up
  BY DEF Page
<1>2. /\ \A i \in U : Off(d, i) \in Int /\ Size(d, i) \in Nat \ {0}
      /\ \A i, j \in U : Off(d, i) = Off(d, j) => i = j
  BY DEF Page, Packed
<1>3. /\ \A i \in U : up <= Off(d, i) /\ Off(d, i) + Size(d, i) <= DATA_SIZE
      /\ \A i, j \in U : Off(d, j) < Off(d, i) => Off(d, j) + Size(d, j) <= Off(d, i)
  BY PackedApart DEF Page
<1>4. DATA_SIZE \in Nat /\ off \in Int /\ len \in Nat \ {0} /\ up <= off /\ off + len <= DATA_SIZE
  BY <1>2, <1>3, SizeAssumption
<1>5. /\ DOMAIN z = DOMAIN d
      /\ \A c \in DOMAIN d : z[c] = IF c \in off .. off + len - 1 THEN Zero ELSE d[c]
  BY DEF Zeroed, Off, Size
<1>6. \A c \in DOMAIN d :
        e[c] = CASE c + 1 = n -> PageSlot(FALSE, 0, 0)
                 [] c + 1 \in L -> Moved(c + 1)
                 [] c \in up + len .. (up + len) + (off - up) - 1 -> z[c - len]
                 [] OTHER -> z[c]
  <2>1. /\ ToMove(h, d, slot) = L
        /\ move_offset(h, d, slot) = up
        /\ move_bytes(h, d, slot) = off - up
    BY MoveIs
  <2>2. slot.item_length = len
    BY DEF Size
  <2>3. e = [c \in DOMAIN d |->
               CASE c + 1 = n -> PageSlot(FALSE, 0, 0)
                 [] c + 1 \in ToMove(h, d, slot) ->
                      PageSlot(TRUE, getSlot(d, c + 1).item_offset + slot.item_length,
                               getSlot(d, c + 1).item_length)
                 [] c \in move_offset(h, d, slot) + slot.item_length
                          .. (move_offset(h, d, slot) + slot.item_length)
                             + move_bytes(h, d, slot) - 1 -> z[c - slot.item_length]
                 [] OTHER -> z[c]]
    BY DEF Compacted
  <2> HIDE DEF e, slot, up, off, len, z, L
  <2>4. QED
    BY <2>1, <2>2, <2>3 DEF Off, Size
<1>7. DOMAIN e = DOMAIN d
  BY DEF Compacted
<1>8. U \subseteq 1 .. h.num_slots /\ L \subseteq U /\ n \notin L
  BY <1>1, <1>2 DEF UsedSlots, Slots, Lower
<1> HIDE DEF e, slot, up, off, len, z, L
<1>9. ASSUME NEW c \in DOMAIN d, c >= up
      PROVE  e[c] = IF c \in up + len .. (up + len) + (off - up) - 1 THEN z[c - len] ELSE z[c]
  <2>1. c + 1 # n /\ c + 1 \notin L
    BY <1>1, <1>8, <1>9
  <2>2. QED
    BY <1>6, <2>1
<1>10. ASSUME NEW i \in 1 .. up
       PROVE  /\ i - 1 \in DOMAIN d
              /\ e[i - 1] = IF i = n THEN PageSlot(FALSE, 0, 0)
                            ELSE IF i \in L THEN Moved(i) ELSE d[i - 1]
  <2>1. i - 1 \in DOMAIN d /\ (i - 1) + 1 = i
    BY <1>1, <1>4
  <2>2. i - 1 < up /\ i - 1 \in Int
    BY <1>1
  <2>3. i - 1 \notin up + len .. (up + len) + (off - up) - 1
    BY <1>1, <1>4, <2>2
  <2>4. z[i - 1] = d[i - 1]
    BY <1>1, <1>4, <1>5, <2>1, <2>2
  <2>5. e[i - 1] = CASE i = n -> PageSlot(FALSE, 0, 0)
                     [] i \in L -> Moved(i)
                     [] i - 1 \in up + len .. (up + len) + (off - up) - 1 -> z[(i - 1) - len]
                     [] OTHER -> z[i - 1]
    BY <1>6, <2>1
  <2> HIDE DEF Moved
  <2>6. QED
    BY <1>8, <2>1, <2>3, <2>4, <2>5
<1>11. ASSUME NEW i \in Slots(h)
       PROVE  i \in 1 .. up /\ getSlot(e, i) = IF i = n THEN PageSlot(FALSE, 0, 0)
                               ELSE IF i \in L THEN Moved(i) ELSE getSlot(d, i)
  <2>1. i \in 1 .. up
    BY <1>1 DEF Slots
  <2>2. e[i - 1] = IF i = n THEN PageSlot(FALSE, 0, 0)
                   ELSE IF i \in L THEN Moved(i) ELSE d[i - 1]
    BY <1>10, <2>1
  <2>3. PageSlot(FALSE, 0, 0).kind = "slot" /\ Moved(i).kind = "slot"
    BY DEF PageSlot
  <2>4. QED
    BY <2>1, <2>2, <2>3 DEF getSlot
<1>12. n \in Slots(h) /\ \A i \in U : i \in Slots(h)
  BY <1>8 DEF Slots
<1>13. getSlot(e, n) = PageSlot(FALSE, 0, 0)
  BY <1>11, <1>12
<1>14. ASSUME NEW i \in Slots(h) \ {n} PROVE getSlot(e, i).used <=> getSlot(d, i).used
  <2>1. CASE i \in L
    <3>1. getSlot(e, i).used = TRUE
      BY <1>11, <2>1 DEF PageSlot
    <3>2. getSlot(d, i).used
      BY <1>1, <1>8, <2>1 DEF UsedSlots
    <3>3. QED
      BY <3>1, <3>2
  <2>2. CASE i \notin L
    BY <1>11, <2>2
  <2>3. QED
    BY <2>1, <2>2
<1>15. ASSUME NEW i \in U \ {n}
       PROVE  /\ Size(e, i) = Size(d, i)
              /\ Off(e, i) = IF Off(d, i) < off THEN Off(d, i) + len ELSE Off(d, i)
  <2>1. CASE Off(d, i) < off
    <3>1. i \in L
      BY <2>1 DEF L, Lower, off
    <3>2. getSlot(e, i) = Moved(i)
      BY <1>11, <1>12, <3>1
    <3>3. QED
      BY <2>1, <3>2 DEF Size, Off, PageSlot
  <2>2. CASE ~(Off(d, i) < off)
    <3>1. i \notin L
      BY <2>2 DEF L, Lower, off
    <3>2. getSlot(e, i) = getSlot(d, i)
      BY <1>11, <1>12, <3>1
    <3>3. QED
      BY <2>2, <3>2 DEF Size, Off
  <2>3. QED
    BY <2>1, <2>2
<1>16. ASSUME NEW i \in U \ {n}, NEW k \in 1 .. Size(d, i)
       PROVE  e[Off(e, i) + k - 1] = d[Off(d, i) + k - 1]
  <2> DEFINE o == Off(d, i)
             c == o + k - 1
  <2>1. /\ o \in Int /\ k \in Int /\ 1 <= k /\ k <= Size(d, i) /\ Size(d, i) \in Int
        /\ up <= o /\ o + Size(d, i) <= DATA_SIZE
    BY <1>2, <1>3
  <2>2. /\ o < off => o + Size(d, i) <= off
        /\ off < o => off + len <= o
        /\ o # off
    BY <1>2, <1>3 DEF off, len
  <2> HIDE DEF o
  <2>3. c \in Int /\ up <= c /\ c < o + Size(d, i) /\ c \in DOMAIN d
    <3>1. c \in Int /\ o <= c /\ c < o + Size(d, i)
      BY <2>1
    <3> HIDE DEF c
    <3>2. up <= c /\ 0 <= c /\ c <= DATA_SIZE - 1
      BY <1>1, <1>4, <2>1, <3>1
    <3>3. QED
      BY <1>1, <1>4, <3>1, <3>2
  <2>4. CASE o < off
    <3>1. Off(e, i) + k - 1 = c + len
      BY <1>4, <1>15, <2>1, <2>4 DEF o
    <3> HIDE DEF c
    <3>2. c < off /\ c + len \in DOMAIN d /\ c + len >= up /\ (c + len) - len = c
      BY <1>1, <1>4, <2>1, <2>2, <2>3, <2>4
    <3>3. c + len \in up + len .. (up + len) + (off - up) - 1
      BY <1>1, <1>4, <2>3, <3>2
    <3>4. e[c + len] = z[c]
      BY <1>9, <3>2, <3>3
    <3>5. z[c] = d[c]
      BY <1>4, <1>5, <2>3, <3>2
    <3>6. QED
      BY <3>1, <3>4, <3>5 DEF c, o
  <2>5. CASE off < o
    <3>1. Off(e, i) + k - 1 = c
      BY <1>4, <1>15, <2>1, <2>5 DEF o
    <3>2. off + len <= c
      BY <1>4, <2>1, <2>2, <2>5
    <3> HIDE DEF c
    <3>3. c \notin up + len .. (up + len) + (off - up) - 1 /\ c \notin off .. off + len - 1
      BY <1>1, <1>4, <2>3, <3>2
    <3>4. e[c] = z[c] /\ z[c] = d[c]
      BY <1>5, <1>9, <2>3, <3>3
    <3>5. QED
      BY <3>1, <3>4 DEF c, o
  <2>6. QED
    BY <1>4, <2>1, <2>2, <2>4, <2>5
<1>17. ASSUME off = up, NEW c \in h.num_slots .. up + len - 1
       PROVE  e[c] = IF c < up THEN d[c] ELSE Zero
  <2>1. c \in DOMAIN d /\ c \in Int /\ h.num_slots <= c
    BY <1>1, <1>4, <1>17
  <2>2. c + 1 # n /\ c + 1 \notin L
    BY <1>1, <1>8, <2>1
  <2>3. c \notin up + len .. (up + len) + (off - up) - 1
    BY <1>1, <1>4, <1>17
  <2>4. e[c] = z[c]
    BY <1>6, <2>1, <2>2, <2>3
  <2>5. c \in off .. off + len - 1 <=> ~(c < up)
    BY <1>1, <1>4, <1>17
  <2>6. QED
    BY <1>5, <2>1, <2>4, <2>5
<1>18. CompactedTo(e, h, d, U, n)
  BY <1>7, <1>13, <1>14, <1>15, <1>16, <1>17 DEF CompactedTo, up, off, len
<1>19. QED
  BY <1>18 DEF e

\* What insertRecordInSlot does to the slots and the cells of a page.
WrittenTo(e, d, up, n, record, size) ==
  /\ DOMAIN e = DOMAIN d
  /\ getSlot(e, n) = PageSlot(TRUE, up - size, size)
  /\ \A i \in 1 .. up - size : i # n => getSlot(e, i) = getSlot(d, i)
  /\ \A k \in 1 .. size : e[(up - size) + k - 1] = record[k]
  /\ \A c \in up .. DATA_SIZE - 1 : e[c] = d[c]

\* DataWith (page.cpp:178, insertRecordInSlot) does what WrittenTo says.
LEMMA DataWithIs ==
  ASSUME NEW h, NEW d, NEW up \in Int, h.free_space_upper_bound = up,
         DOMAIN d = 0 .. DATA_SIZE - 1, up <= DATA_SIZE,
         NEW record, NEW size \in Nat \ {0}, Len(record) = size,
         NEW n \in 1 .. up - size
  PROVE  WrittenTo(DataWith(h, d, n, record), d, up, n, record, size)
<1> DEFINE e == DataWith(h, d, n, record)
           off == up - size
<1>1. DOMAIN e = DOMAIN d
  BY DEF DataWith
<1>2. \A c \in DOMAIN d :
        e[c] = IF c = n - 1 THEN PageSlot(TRUE, off, size)
               ELSE IF c \in off .. off + size - 1 THEN record[c - off + 1]
               ELSE d[c]
  BY DEF DataWith
<1>3. DATA_SIZE \in Nat /\ off \in Int /\ off + size = up /\ 1 <= n /\ n <= off /\ n \in Int
  BY SizeAssumption
<1> HIDE DEF e, off
<1>4. ASSUME NEW i \in 1 .. off
      PROVE  e[i - 1] = IF i = n THEN PageSlot(TRUE, off, size) ELSE d[i - 1]
  <2>1. i - 1 \in DOMAIN d /\ i - 1 < off /\ (i - 1 = n - 1 <=> i = n)
    BY <1>3
  <2>2. i - 1 \notin off .. off + size - 1
    BY <1>3, <2>1
  <2>3. QED
    BY <1>2, <2>1, <2>2
<1>5. getSlot(e, n) = PageSlot(TRUE, off, size)
  <2>1. n \in 1 .. off
    BY <1>3
  <2>2. e[n - 1] = PageSlot(TRUE, off, size)
    BY <1>4, <2>1
  <2>3. PageSlot(TRUE, off, size).kind = "slot"
    BY DEF PageSlot
  <2>4. QED
    BY <2>2, <2>3 DEF getSlot
<1>6. ASSUME NEW i \in 1 .. off, i # n PROVE getSlot(e, i) = getSlot(d, i)
  BY <1>4, <1>6 DEF getSlot
<1>7. ASSUME NEW k \in 1 .. size PROVE e[off + k - 1] = record[k]
  <2>1. /\ off + k - 1 \in DOMAIN d /\ off + k - 1 # n - 1
        /\ off + k - 1 \in off .. off + size - 1 /\ (off + k - 1) - off + 1 = k
    BY <1>3
  <2>2. QED
    BY <1>2, <2>1
<1>8. ASSUME NEW c \in up .. DATA_SIZE - 1 PROVE e[c] = d[c]
  <2>1. c \in DOMAIN d /\ c # n - 1 /\ c \notin off .. off + size - 1
    BY <1>3
  <2>2. QED
    BY <1>2, <2>1
<1>9. WrittenTo(e, d, up, n, record, size)
  BY <1>1, <1>5, <1>6, <1>7, <1>8 DEF WrittenTo, off
<1>10. QED
  BY <1>9 DEF e
-----------------------------------------------------------------------------
(***************************************************************************)
(* What the calls make of a page.                                          *)
(***************************************************************************)
Rec(d, n) == [k \in 1 .. Size(d, n) |-> d[Off(d, n) + k - 1]]

\* The cells between the slots and the records do not look like slots in use.
FreeClean(h, d) ==
  \A i \in h.num_slots + 1 .. h.free_space_upper_bound : ~ getSlot(d, i).used

\* The slots in use are no more than the slots, and the records end within
\* the data area.
LEMMA PageBounds ==
  ASSUME NEW h, NEW d, NEW U, Page(h, d, U)
  PROVE  /\ U \subseteq 1 .. h.num_slots /\ IsFiniteSet(U)
         /\ Cardinality(U) \in Nat /\ Cardinality(U) <= h.num_slots
         /\ h.num_slots = Cardinality(U) => U = 1 .. h.num_slots
         /\ h.free_space_upper_bound <= DATA_SIZE
<1>1. h.num_slots \in Nat /\ h.free_space_upper_bound \in Nat
  BY DEF Page
<1>2. U \in SUBSET (1 .. h.num_slots)
  BY DEF Page, UsedSlots, Slots
<1>3. IsFiniteSet(1 .. h.num_slots) /\ Cardinality(1 .. h.num_slots) = h.num_slots
  <2>1. 1 \in Int /\ h.num_slots \in Int
    BY <1>1
  <2>2. /\ IsFiniteSet(1 .. h.num_slots)
        /\ Cardinality(1 .. h.num_slots) = IF 1 > h.num_slots THEN 0 ELSE h.num_slots - 1 + 1
    BY <2>1, FS_Interval
  <2>3. QED
    BY <1>1, <2>2
<1>4. /\ IsFiniteSet(U) /\ Cardinality(U) <= Cardinality(1 .. h.num_slots)
      /\ Cardinality(1 .. h.num_slots) = Cardinality(U) => 1 .. h.num_slots = U
  BY <1>2, <1>3, FS_Subset
<1>5. Cardinality(U) \in Nat
  BY <1>4, FS_CardinalityType
<1>6. Total(d, U) \in Nat
  BY PackedTotal DEF Page
<1>7. h.free_space_upper_bound <= DATA_SIZE
  BY <1>1, <1>6 DEF Page, Packed
<1>8. QED
  BY <1>2, <1>3, <1>4, <1>5, <1>7

\* A slot read from a cell that was cleared is not in use.
LEMMA ZeroUnused ==
  ASSUME NEW d, NEW i, d[i - 1] = Zero
  PROVE  ~ getSlot(d, i).used
<1>1. Zero.kind # "slot" /\ Zero.kind # "data"
  BY DEF Zero
<1>2. getSlot(d, i) = PageSlot(d[i - 1].kind = "data" /\ d[i - 1].byte \in LooksUsed, 0, 0)
  BY <1>1 DEF getSlot
<1>3. (d[i - 1].kind = "data" /\ d[i - 1].byte \in LooksUsed) = FALSE
  BY <1>1
<1>4. getSlot(d, i) = PageSlot(FALSE, 0, 0)
  BY <1>2, <1>3
<1>5. getSlot(d, i).used = FALSE
  BY <1>4 DEF PageSlot
<1>6. QED
  BY <1>5

\* A record deleted, before slots are given up.
LEMMA DeletedIs ==
  ASSUME NEW h, NEW d, NEW U, Page(h, d, U), NEW n \in U
  PROVE  LET g == Freed(h, getSlot(d, n))
             e == Compacted(h, d, n)
         IN  /\ Page(g, e, U \ {n})
             /\ \A i \in U \ {n} : Rec(e, i) = Rec(d, i)
             /\ g.num_slots = h.num_slots
             /\ FreeClean(h, d) /\ Off(d, n) = h.free_space_upper_bound => FreeClean(g, e)
             /\ ~ getSlot(e, n).used
<1> DEFINE g == Freed(h, getSlot(d, n))
           e == Compacted(h, d, n)
           up == h.free_space_upper_bound
           len == Size(d, n)
<1>1. /\ h \in [free_space_lower_bound : Nat, free_space_upper_bound : Nat,
                num_slots : Nat, num_free_slots : Int]
      /\ DOMAIN d = 0 .. DATA_SIZE - 1
      /\ h.free_space_lower_bound = h.num_slots
      /\ h.num_slots <= up /\ up \in Nat /\ h.num_slots \in Nat
      /\ U = UsedSlots(h, d)
      /\ h.num_free_slots = h.num_slots - Cardinality(U)
      /\ Packed(U, d, up)
  BY DEF Page
<1>2. len \in Nat \ {0}
  BY <1>1 DEF Packed
<1>3. /\ g \in [free_space_lower_bound : Nat, free_space_upper_bound : Nat,
                num_slots : Nat, num_free_slots : Int]
      /\ g.free_space_lower_bound = h.free_space_lower_bound
      /\ g.num_slots = h.num_slots
      /\ g.free_space_upper_bound = up + len
      /\ g.num_free_slots = h.num_free_slots + 1
  <2>1. g = [h EXCEPT !.free_space_upper_bound = up + len,
                      !.num_free_slots = h.num_free_slots + 1]
    BY DEF Freed, Size
  <2>2. up + len \in Nat /\ h.num_free_slots + 1 \in Int
    BY <1>1, <1>2
  <2> HIDE DEF g, up, len
  <2>3. QED
    BY <1>1, <2>1, <2>2
<1>4. CompactedTo(e, h, d, U, n)
  BY CompactedIs
<1>5. /\ DOMAIN e = DOMAIN d
      /\ getSlot(e, n) = PageSlot(FALSE, 0, 0)
      /\ \A i \in Slots(h) \ {n} : getSlot(e, i).used <=> getSlot(d, i).used
  BY <1>4 DEF CompactedTo
<1>6. \A i \in U \ {n} :
        /\ Size(e, i) = Size(d, i)
        /\ Off(e, i) = IF Off(d, i) < Off(d, n) THEN Off(d, i) + Size(d, n)
                                                ELSE Off(d, i)
  BY <1>4 DEF CompactedTo
<1>7. \A i \in U \ {n} : \A k \in 1 .. Size(d, i) : e[Off(e, i) + k - 1] = d[Off(d, i) + k - 1]
  BY <1>4 DEF CompactedTo
<1>8. Off(d, n) = up =>
        \A c \in h.num_slots .. up + len - 1 : e[c] = IF c < up THEN d[c] ELSE Zero
  BY <1>4 DEF CompactedTo
<1>9. getSlot(e, n).used = FALSE
  BY <1>5 DEF PageSlot
<1> HIDE DEF g, e, up, len
<1>10. UsedSlots(g, e) = U \ {n}
  <2>1. Slots(g) = Slots(h) /\ n \in Slots(h)
    BY <1>1, <1>3 DEF Slots, UsedSlots
  <2>2. \A i \in Slots(h) : i \in U <=> getSlot(d, i).used
    BY <1>1 DEF UsedSlots
  <2>3. \A i \in Slots(h) : getSlot(e, i).used <=> i \in U \ {n}
    BY <1>5, <1>9, <2>2
  <2>4. U \subseteq Slots(h)
    BY <1>1 DEF UsedSlots
  <2>5. QED
    BY <2>1, <2>3, <2>4 DEF UsedSlots
<1>11. Packed(U \ {n}, e, up + len)
  BY <1>1, <1>6, TakeOut DEF len
<1>12. Cardinality(U \ {n}) = Cardinality(U) - 1 /\ Cardinality(U) \in Nat
  BY PageBounds, FS_RemoveElement
<1>13. Page(g, e, U \ {n})
  <2>1. h.num_slots <= up + len
    BY <1>1, <1>2
  <2>2. h.num_free_slots + 1 = h.num_slots - Cardinality(U \ {n})
    BY <1>1, <1>12
  <2>3. QED
    BY <1>1, <1>3, <1>5, <1>10, <1>11, <2>1, <2>2 DEF Page
<1>14. ASSUME NEW i \in U \ {n} PROVE Rec(e, i) = Rec(d, i)
  BY <1>6, <1>7 DEF Rec
<1>15. ASSUME FreeClean(h, d), Off(d, n) = up PROVE FreeClean(g, e)
  <2> SUFFICES ASSUME NEW i \in h.num_slots + 1 .. up + len PROVE ~ getSlot(e, i).used
    BY <1>3 DEF FreeClean
  <2>1. i - 1 \in h.num_slots .. up + len - 1 /\ i \in Int
    BY <1>1, <1>2
  <2>2. e[i - 1] = IF i - 1 < up THEN d[i - 1] ELSE Zero
    BY <1>8, <1>15, <2>1
  <2>3. CASE i - 1 < up
    <3>1. i \in h.num_slots + 1 .. up
      BY <1>1, <2>1, <2>3
    <3>2. ~ getSlot(d, i).used
      BY <1>15, <3>1 DEF FreeClean, up
    <3>3. getSlot(e, i) = getSlot(d, i)
      BY <2>2, <2>3 DEF getSlot
    <3>4. QED
      BY <3>2, <3>3
  <2>4. CASE ~(i - 1 < up)
    <3>1. e[i - 1] = Zero
      BY <2>2, <2>4
    <3>2. QED
      BY <3>1, ZeroUnused
  <2>5. QED
    BY <2>3, <2>4
<1>16. QED
  BY <1>3, <1>9, <1>13, <1>14, <1>15 DEF g, e, up

\* A record put in a slot that is not in use.
LEMMA InsertedIs ==
  ASSUME NEW h, NEW d, NEW U, Page(h, d, U),
         NEW n \in 1 .. h.num_slots, n \notin U,
         NEW T, NEW record \in Seq(T), Len(record) > 0,
         h.num_slots + Len(record) <= h.free_space_upper_bound
  PROVE  LET g == HeaderWith(h, record)
             e == DataWith(h, d, n, record)
         IN  /\ Page(g, e, U \cup {n})
             /\ Rec(e, n) = record
             /\ \A i \in U : Rec(e, i) = Rec(d, i)
             /\ g.num_slots = h.num_slots
             /\ FreeClean(h, d) => FreeClean(g, e)
<1> DEFINE g == HeaderWith(h, record)
           e == DataWith(h, d, n, record)
           up == h.free_space_upper_bound
           size == Len(record)
<1>1. /\ h \in [free_space_lower_bound : Nat, free_space_upper_bound : Nat,
                num_slots : Nat, num_free_slots : Int]
      /\ DOMAIN d = 0 .. DATA_SIZE - 1
      /\ h.free_space_lower_bound = h.num_slots
      /\ h.num_slots <= up /\ up \in Nat /\ h.num_slots \in Nat
      /\ U = UsedSlots(h, d)
      /\ h.num_free_slots = h.num_slots - Cardinality(U)
      /\ Packed(U, d, up)
  BY DEF Page
<1>2. size \in Nat \ {0} /\ h.num_slots <= up - size /\ n \in 1 .. up - size /\ up - size \in Nat
  <2>1. size \in Nat
    OBVIOUS
  <2> HIDE DEF size
  <2>2. size > 0 /\ h.num_slots + size <= up
    BY DEF size
  <2>3. QED
    BY <1>1, <2>1, <2>2
<1>3. up <= DATA_SIZE /\ U \subseteq 1 .. h.num_slots /\ Cardinality(U) \in Nat /\ IsFiniteSet(U)
  BY PageBounds
<1>4. /\ g \in [free_space_lower_bound : Nat, free_space_upper_bound : Nat,
                num_slots : Nat, num_free_slots : Int]
      /\ g.free_space_lower_bound = h.free_space_lower_bound
      /\ g.num_slots = h.num_slots
      /\ g.free_space_upper_bound = up - size
      /\ g.num_free_slots = h.num_free_slots - 1
  <2>1. g = [h EXCEPT !.free_space_upper_bound = up - size,
                      !.num_free_slots = h.num_free_slots - 1]
    BY DEF HeaderWith
  <2>2. up - size \in Nat /\ h.num_free_slots - 1 \in Int
    BY <1>1, <1>2
  <2> HIDE DEF g, up, size
  <2>3. QED
    BY <1>1, <2>1, <2>2
<1>5. /\ DOMAIN e = DOMAIN d
      /\ getSlot(e, n) = PageSlot(TRUE, up - size, size)
      /\ \A i \in 1 .. up - size : i # n => getSlot(e, i) = getSlot(d, i)
      /\ \A k \in 1 .. size : e[(up - size) + k - 1] = record[k]
      /\ \A c \in up .. DATA_SIZE - 1 : e[c] = d[c]
  <2>1. up \in Int /\ size \in Nat \ {0} /\ n \in 1 .. up - size /\ DOMAIN d = 0 .. DATA_SIZE - 1
    BY <1>1, <1>2
  <2> HIDE DEF e, up, size
  <2>2. h.free_space_upper_bound = up /\ Len(record) = size /\ up <= DATA_SIZE
    BY <1>3 DEF up, size
  <2>3. WrittenTo(DataWith(h, d, n, record), d, up, n, record, size)
    BY <2>1, <2>2, DataWithIs
  <2>4. WrittenTo(e, d, up, n, record, size)
    BY <2>3 DEF e
  <2>5. QED
    BY <2>4 DEF WrittenTo
<1>6. Off(e, n) = up - size /\ Size(e, n) = size /\ getSlot(e, n).used = TRUE
  BY <1>5 DEF Off, Size, PageSlot
<1>7. record = [k \in 1 .. size |-> record[k]]
  OBVIOUS
<1> HIDE DEF g, e, up, size
<1>8. \A i \in 1 .. h.num_slots : i \in 1 .. up - size
  BY <1>1, <1>2
<1>9. \A i \in U : getSlot(e, i) = getSlot(d, i) /\ Off(e, i) = Off(d, i) /\ Size(e, i) = Size(d, i)
  BY <1>3, <1>5, <1>8 DEF Off, Size
<1>10. UsedSlots(g, e) = U \cup {n}
  <2>1. \A i \in 1 .. h.num_slots : i \in U <=> getSlot(d, i).used
    BY <1>1 DEF UsedSlots, Slots
  <2>2. \A i \in 1 .. h.num_slots : getSlot(e, i).used <=> i \in U \cup {n}
    BY <1>5, <1>6, <1>8, <2>1
  <2>3. QED
    BY <1>3, <1>4, <2>2 DEF UsedSlots, Slots
<1>11. Packed(U \cup {n}, e, up - size)
  BY <1>1, <1>2, <1>6, <1>9, PutIn
<1>12. Cardinality(U \cup {n}) = Cardinality(U) + 1
  BY <1>3, FS_AddElement
<1>13. Page(g, e, U \cup {n})
  <2>1. h.num_free_slots - 1 = h.num_slots - Cardinality(U \cup {n})
    BY <1>1, <1>3, <1>12
  <2>2. QED
    BY <1>1, <1>2, <1>4, <1>5, <1>10, <1>11, <2>1 DEF Page
<1>14. Rec(e, n) = record
  BY <1>5, <1>6, <1>7 DEF Rec
<1>15. ASSUME NEW i \in U PROVE Rec(e, i) = Rec(d, i)
  <2>1. up <= Off(d, i) /\ Off(d, i) + Size(d, i) <= DATA_SIZE
    BY <1>1, PackedApart
  <2>2. Off(d, i) \in Int /\ Size(d, i) \in Nat
    BY <1>1 DEF Packed
  <2>3. ASSUME NEW k \in 1 .. Size(d, i) PROVE e[Off(d, i) + k - 1] = d[Off(d, i) + k - 1]
    <3>1. Off(d, i) + k - 1 \in up .. DATA_SIZE - 1
      BY <1>1, <2>1, <2>2, SizeAssumption
    <3>2. QED
      BY <1>5, <3>1
  <2>4. QED
    BY <1>9, <2>3 DEF Rec
<1>16. ASSUME FreeClean(h, d) PROVE FreeClean(g, e)
  <2> SUFFICES ASSUME NEW i \in h.num_slots + 1 .. up - size PROVE ~ getSlot(e, i).used
    BY <1>4 DEF FreeClean
  <2>1. i \in 1 .. up - size /\ i # n /\ i \in h.num_slots + 1 .. up
    BY <1>1, <1>2
  <2>2. ~ getSlot(d, i).used
    BY <1>16, <2>1 DEF FreeClean, up
  <2>3. QED
    BY <1>5, <2>1, <2>2
<1>17. QED
  BY <1>4, <1>13, <1>14, <1>15, <1>16 DEF g, e

\* Unused slots at the end given up.
LEMMA TrimmedIs ==
  ASSUME NEW h, NEW d, NEW U, Page(h, d, U),
         NEW m \in 0 .. h.num_slots, \A i \in U : i <= m
  PROVE  Page(Trimmed(h, m), d, U) /\ Trimmed(h, m).num_slots = m
         /\ Trimmed(h, m).free_space_upper_bound = h.free_space_upper_bound
<1> DEFINE g == Trimmed(h, m)
           f == h.num_free_slots - (h.num_slots - m)
<1>1. /\ h \in [free_space_lower_bound : Nat, free_space_upper_bound : Nat,
                num_slots : Nat, num_free_slots : Int]
      /\ DOMAIN d = 0 .. DATA_SIZE - 1
      /\ h.num_slots <= h.free_space_upper_bound
      /\ h.free_space_upper_bound \in Nat /\ h.num_slots \in Nat
      /\ U = UsedSlots(h, d)
      /\ h.num_free_slots = h.num_slots - Cardinality(U)
      /\ Packed(U, d, h.free_space_upper_bound)
  BY DEF Page
<1>2. m \in Nat /\ m <= h.num_slots /\ f \in Int
  BY <1>1
<1>3. /\ g \in [free_space_lower_bound : Nat, free_space_upper_bound : Nat,
                num_slots : Nat, num_free_slots : Int]
      /\ g.free_space_lower_bound = m /\ g.num_slots = m
      /\ g.free_space_upper_bound = h.free_space_upper_bound
      /\ g.num_free_slots = f
  <2>1. g = [h EXCEPT !.num_slots = m, !.num_free_slots = f, !.free_space_lower_bound = m]
    BY DEF Trimmed
  <2> HIDE DEF g, f
  <2>2. QED
    BY <1>1, <1>2, <2>1
<1>4. UsedSlots(g, d) = U
  <2>1. \A i \in U : i \in 1 .. m /\ getSlot(d, i).used
    BY <1>1, <1>2 DEF UsedSlots, Slots
  <2>2. \A i \in 1 .. m : i \in 1 .. h.num_slots
    BY <1>1, <1>2
  <2> HIDE DEF g
  <2>3. \A i \in 1 .. m : getSlot(d, i).used => i \in U
    BY <1>1, <2>2 DEF UsedSlots, Slots
  <2>4. QED
    BY <1>3, <2>1, <2>3 DEF UsedSlots, Slots
<1>5. f = m - Cardinality(U) /\ m <= h.free_space_upper_bound
  <2>1. Cardinality(U) \in Nat
    BY PageBounds
  <2>2. QED
    BY <1>1, <1>2, <2>1
<1> HIDE DEF g, f
<1>6. Page(g, d, U)
  BY <1>1, <1>3, <1>4, <1>5 DEF Page
<1>7. QED
  BY <1>3, <1>6 DEF g

\* A new slot behind the last, not in use.
LEMMA AllocatedIs ==
  ASSUME NEW h, NEW d, NEW U, Page(h, d, U), h.num_free_slots <= 0,
         h.num_slots + 1 <= h.free_space_upper_bound,
         ~ getSlot(d, h.num_slots + 1).used
  PROVE  /\ Page(Allocated(h), d, U)
         /\ Allocated(h).num_slots = h.num_slots + 1
         /\ Allocated(h).free_space_upper_bound = h.free_space_upper_bound
<1> DEFINE g == Allocated(h)
           m == h.num_slots + 1
           f == h.num_free_slots + 1
<1>1. /\ h \in [free_space_lower_bound : Nat, free_space_upper_bound : Nat,
                num_slots : Nat, num_free_slots : Int]
      /\ DOMAIN d = 0 .. DATA_SIZE - 1
      /\ h.free_space_upper_bound \in Nat /\ h.num_slots \in Nat
      /\ h.num_free_slots \in Int
      /\ U = UsedSlots(h, d)
      /\ h.num_free_slots = h.num_slots - Cardinality(U)
      /\ Packed(U, d, h.free_space_upper_bound)
  BY DEF Page
<1>2. m \in Nat /\ f \in Int /\ ~(h.num_free_slots > 0)
  BY <1>1
<1>3. /\ g \in [free_space_lower_bound : Nat, free_space_upper_bound : Nat,
                num_slots : Nat, num_free_slots : Int]
      /\ g.free_space_lower_bound = m /\ g.num_slots = m
      /\ g.free_space_upper_bound = h.free_space_upper_bound
      /\ g.num_free_slots = f
  <2>1. g = [h EXCEPT !.num_slots = m, !.num_free_slots = f, !.free_space_lower_bound = m]
    BY <1>2 DEF Allocated
  <2> HIDE DEF g, f, m
  <2>2. QED
    BY <1>1, <1>2, <2>1
<1>4. UsedSlots(g, d) = U
  <2>1. \A i \in 1 .. m : i \in 1 .. h.num_slots \/ i = m
    BY <1>1
  <2>2. \A i \in 1 .. h.num_slots : i \in 1 .. m
    BY <1>1
  <2>3. ~ getSlot(d, m).used
    OBVIOUS
  <2> HIDE DEF g, m
  <2>4. QED
    BY <1>1, <1>3, <2>1, <2>2, <2>3 DEF UsedSlots, Slots
<1>5. f = m - Cardinality(U) /\ m <= h.free_space_upper_bound
  <2>1. Cardinality(U) \in Nat
    BY PageBounds
  <2>2. QED
    BY <1>1, <1>2, <2>1
<1>6. QED
  <2>1. m = h.num_slots + 1
    OBVIOUS
  <2> HIDE DEF g, f, m
  <2>2. Page(g, d, U)
    BY <1>1, <1>3, <1>4, <1>5 DEF Page
  <2>3. QED
    BY <1>3, <2>1, <2>2 DEF g

\* With an unused slot counted there is one, and the first is taken.
LEMMA AvailableIs ==
  ASSUME NEW h, NEW d, NEW U, Page(h, d, U)
  PROVE  /\ h.num_free_slots \in Nat
         /\ h.num_free_slots > 0 =>
              /\ getAvailableSlot(h, d) \in Slots(h) \ U
              /\ Allocated(h) = h
         /\ h.num_free_slots = 0 => getAvailableSlot(h, d) = h.num_slots + 1
<1>1. /\ h.num_slots \in Nat /\ h.num_free_slots = h.num_slots - Cardinality(U)
      /\ U = UsedSlots(h, d)
  BY DEF Page
<1>2. U \subseteq 1 .. h.num_slots /\ Cardinality(U) \in Nat /\ Cardinality(U) <= h.num_slots
      /\ IsFiniteSet(U)
  BY PageBounds
<1>3. h.num_free_slots \in Nat
  BY <1>1, <1>2
<1>4. ASSUME h.num_free_slots > 0
      PROVE  getAvailableSlot(h, d) \in Slots(h) \ U
  <2> DEFINE S == Slots(h) \ U
  <2>1. S \in SUBSET Int
    BY DEF Slots
  <2>2. IsFiniteSet(Slots(h)) /\ Cardinality(Slots(h)) = h.num_slots
    <3>1. 1 \in Int /\ h.num_slots \in Int
      BY <1>1
    <3>2. /\ IsFiniteSet(1 .. h.num_slots)
          /\ Cardinality(1 .. h.num_slots) = IF 1 > h.num_slots THEN 0 ELSE h.num_slots - 1 + 1
      BY <3>1, FS_Interval
    <3>3. QED
      BY <1>1, <3>2 DEF Slots
  <2>3. IsFiniteSet(S)
    <3>1. S \in SUBSET Slots(h)
      OBVIOUS
    <3> HIDE DEF S
    <3>2. QED
      BY <2>2, <3>1, FS_Subset
  <2>4. S # {}
    <3> SUFFICES ASSUME S = {} PROVE FALSE
      OBVIOUS
    <3>1. U = Slots(h)
      BY <1>2 DEF Slots
    <3>2. QED
      BY <1>1, <1>4, <2>2, <3>1
  <2> HIDE DEF S
  <2>5. Min(S) \in S
    BY <2>1, <2>3, <2>4, MinIs
  <2>6. getAvailableSlot(h, d) = Min(S)
    BY <1>1, <1>4 DEF getAvailableSlot, S
  <2>7. QED
    BY <2>5, <2>6 DEF S
<1>5. h.num_free_slots > 0 => Allocated(h) = h
  BY DEF Allocated
<1>6. h.num_free_slots = 0 => getAvailableSlot(h, d) = h.num_slots + 1
  <2>1. h.num_free_slots = 0 => ~(h.num_free_slots > 0)
    BY <1>3
  <2>2. QED
    BY <2>1 DEF getAvailableSlot
<1>7. QED
  BY <1>3, <1>4, <1>5, <1>6

\* Deleting the last record leaves the last of the others in the last slot.
LEMMA SlotsLeftIs ==
  ASSUME NEW h, NEW d, NEW U, Page(h, d, U), NEW n \in U,
         h.num_slots > 0 => h.num_slots \in U
  PROVE  LET m == SlotsLeft(h, d, n) IN
           /\ m \in 0 .. h.num_slots
           /\ \A i \in U \ {n} : i <= m
           /\ m > 0 => m \in U \ {n}
<1>1. h.num_slots \in Nat /\ U = UsedSlots(h, d)
  BY DEF Page
<1>2. U \subseteq 1 .. h.num_slots /\ IsFiniteSet(U)
  BY PageBounds
<1> DEFINE m == SlotsLeft(h, d, n)
<1>3. CASE n < h.num_slots
  <2>1. m = h.num_slots
    BY <1>3 DEF SlotsLeft
  <2>2. n \in Int /\ n >= 1
    BY <1>1, <1>2
  <2> HIDE DEF m
  <2>3. h.num_slots \in U \ {n} /\ m \in 0 .. h.num_slots
    BY <1>1, <1>3, <2>1, <2>2
  <2>4. \A i \in U \ {n} : i <= m
    BY <1>1, <1>2, <2>1
  <2>5. QED
    BY <2>1, <2>3, <2>4 DEF m
<1>4. CASE ~(n < h.num_slots)
  <2> DEFINE S == {0} \cup (U \ {n})
  <2>1. m = Max(S)
    BY <1>1, <1>4 DEF SlotsLeft
  <2>2. S \in SUBSET Int /\ S # {} /\ \A x \in S : x \in 0 .. h.num_slots
    BY <1>1, <1>2
  <2>3. IsFiniteSet(S)
    <3>1. IsFiniteSet(U \ {n})
      BY <1>2, FS_RemoveElement
    <3>2. IsFiniteSet((U \ {n}) \cup {0})
      BY <3>1, FS_AddElement
    <3>3. S = (U \ {n}) \cup {0}
      OBVIOUS
    <3> HIDE DEF S
    <3>4. QED
      BY <3>2, <3>3
  <2>4. \A x \in U \ {n} : x \in S
    OBVIOUS
  <2>5. \A x \in S : x = 0 \/ x \in U \ {n}
    OBVIOUS
  <2> HIDE DEF S, m
  <2>6. m \in S /\ \A y \in S : y <= m
    BY <2>1, <2>2, <2>3, MaxIs
  <2>7. m > 0 => m \in U \ {n}
    <3>1. m = 0 => ~(m > 0)
      OBVIOUS
    <3>2. QED
      BY <2>5, <2>6, <3>1
  <2>8. QED
    BY <2>2, <2>4, <2>6, <2>7 DEF m
<1>5. QED
  BY <1>3, <1>4
-----------------------------------------------------------------------------
(***************************************************************************)
(* The inductive invariant.  It is about a page that records of no bytes   *)
(* are never put in: one of those may lie below the records that are       *)
(* packed, and the next move then starts at it.                            *)
(***************************************************************************)
HasBytes == 0 \notin Lengths

Used == UsedSlots(header_, data_)

\* The page between two calls.
Ready ==
  /\ Page(header_, data_, Used)
  /\ header_.num_slots > 0 => header_.num_slots \in Used
  /\ ~ moved => FreeClean(header_, data_)

\* The slots an iterator has still to come to are in use and behind it.
Coming ==
  /\ cursor \in Int /\ cursor >= NotBegun
  /\ cursor \in {NotBegun, INVALID_SLOT} => ahead = {}
  /\ \A i \in ahead : i \in Used /\ cursor < i

IInv ==
  /\ failed \in BOOLEAN /\ moved \in BOOLEAN
  /\ InUseOnlyAfterMove
  /\ IteratorMissesNone
  /\ ~ failed => Ready /\ Coming

\* A record is a sequence of at least one cell.
LEMMA RecordIs ==
  ASSUME HasBytes, NEW record \in Records
  PROVE  record \in Seq({Byte(c) : c \in Contents}) /\ Len(record) \in Nat /\ Len(record) > 0
<1>1. PICK n \in Lengths, c \in Contents : record = [i \in 1 .. n |-> Byte(c)]
  BY DEF Records
<1>2. n \in Nat /\ n > 0
  BY SizeAssumption DEF HasBytes
<1>3. record \in [1 .. n -> {Byte(b) : b \in Contents}]
  BY <1>1
<1>4. record \in Seq({Byte(b) : b \in Contents}) /\ Len(record) = n
  BY <1>2, <1>3, SeqDef, LenProperties
<1>5. QED
  BY <1>2, <1>4

\* What a call that puts a record in leaves.
Puts(n, record) ==
  /\ n \in 1 .. DATA_SIZE
  /\ Used' = Used \cup {n}
  /\ Rec(data_', n) = record
  /\ \A i \in Used \ {n} : Rec(data_', i) = Rec(data_, i)

\* insertRecord puts the record in a slot that was not in use.
LEMMA InsertStep ==
  ASSUME HasBytes, IInv, NEW record \in Records, insertRecord(record)
  PROVE  /\ getAvailableSlot(header_, data_) \notin Used
         /\ Puts(getAvailableSlot(header_, data_), record)
         /\ Ready'
<1> DEFINE n == getAvailableSlot(header_, data_)
           h == Allocated(header_)
           T == {Byte(c) : c \in Contents}
           size == Len(record)
           g == HeaderWith(h, record)
           e == DataWith(h, data_, n, record)
<1>1. /\ ~ failed /\ hasSpaceForRecord(header_, size) /\ ~ getSlot(data_, n).used
      /\ header_' = g /\ data_' = e /\ moved' = moved
  BY DEF insertRecord, Running
<1>2. /\ Page(header_, data_, Used)
      /\ header_.num_slots > 0 => header_.num_slots \in Used
      /\ ~ moved => FreeClean(header_, data_)
  BY <1>1 DEF IInv, Ready
<1>3. record \in Seq(T) /\ size \in Nat /\ size > 0
  BY RecordIs
<1>4. /\ header_.num_slots \in Nat /\ header_.free_space_upper_bound \in Nat
      /\ header_.free_space_lower_bound = header_.num_slots
      /\ header_.num_slots <= header_.free_space_upper_bound
      /\ Used \subseteq 1 .. header_.num_slots
      /\ header_.free_space_upper_bound <= DATA_SIZE
  BY <1>2, PageBounds DEF Page
<1>5. size + (IF header_.num_free_slots = 0 THEN 1 ELSE 0)
        <= header_.free_space_upper_bound - header_.num_slots
  BY <1>1, <1>4 DEF hasSpaceForRecord, getFreeSpace
<1>6. /\ header_.num_free_slots \in Nat
      /\ header_.num_free_slots > 0 => n \in Slots(header_) \ Used /\ h = header_
      /\ header_.num_free_slots = 0 => n = header_.num_slots + 1
  BY <1>2, AvailableIs
<1> HIDE DEF n, h, T, size, g, e
<1>7. /\ Page(h, data_, Used) /\ n \in 1 .. h.num_slots /\ n \notin Used
      /\ h.num_slots + size <= h.free_space_upper_bound
      /\ h.free_space_upper_bound = header_.free_space_upper_bound
      /\ h.num_slots > 0 => h.num_slots \in Used \cup {n}
      /\ ~ moved => FreeClean(h, data_)
  <2>1. CASE header_.num_free_slots > 0
    <3>1. h = header_ /\ n \in Slots(header_) /\ n \notin Used
      BY <1>6, <2>1
    <3>2. header_.num_slots + size <= header_.free_space_upper_bound
      BY <1>3, <1>4, <1>5, <1>6, <2>1
    <3>3. QED
      BY <1>2, <3>1, <3>2 DEF Slots
  <2>2. CASE header_.num_free_slots = 0
    <3>1. n = header_.num_slots + 1 /\ ~ getSlot(data_, header_.num_slots + 1).used
      BY <1>1, <1>6, <2>2
    <3>2. (header_.num_slots + 1) + size <= header_.free_space_upper_bound
      BY <1>3, <1>4, <1>5, <2>2
    <3>3. header_.num_slots + 1 <= header_.free_space_upper_bound
      BY <1>3, <1>4, <3>2
    <3>4. header_.num_free_slots <= 0
      BY <2>2
    <3>5. /\ Page(h, data_, Used) /\ h.num_slots = header_.num_slots + 1
          /\ h.free_space_upper_bound = header_.free_space_upper_bound
      BY <1>2, <3>1, <3>3, <3>4, AllocatedIs DEF h
    <3>6. n \in 1 .. h.num_slots /\ n \notin Used
      BY <1>4, <3>1, <3>5
    <3>7. ~ moved => FreeClean(h, data_)
      <4> SUFFICES ASSUME ~ moved, NEW i \in h.num_slots + 1 .. h.free_space_upper_bound
                   PROVE  ~ getSlot(data_, i).used
        BY DEF FreeClean
      <4>1. i \in header_.num_slots + 1 .. header_.free_space_upper_bound
        BY <1>4, <3>5
      <4>2. QED
        BY <1>2, <4>1 DEF FreeClean
    <3>8. QED
      BY <3>1, <3>2, <3>5, <3>6, <3>7
  <2>3. QED
    BY <1>6, <2>1, <2>2
<1>8. /\ Page(g, e, Used \cup {n})
      /\ Rec(e, n) = record
      /\ \A i \in Used : Rec(e, i) = Rec(data_, i)
      /\ g.num_slots = h.num_slots
      /\ FreeClean(h, data_) => FreeClean(g, e)
  BY <1>3, <1>7, InsertedIs DEF size, g, e
<1>9. Used' = Used \cup {n}
  BY <1>1, <1>8 DEF Page, Used
<1>10. n \in 1 .. DATA_SIZE
  <2>1. h.num_slots <= h.free_space_upper_bound /\ h.num_slots \in Nat
    BY <1>7 DEF Page
  <2>2. QED
    BY <1>4, <1>7, <2>1, SizeAssumption
<1>11. Ready'
  BY <1>1, <1>7, <1>8, <1>9 DEF Ready
<1>12. QED
  BY <1>1, <1>7, <1>8, <1>9, <1>10, <1>11 DEF Puts, n

\* The page finds its new slot in use only when nothing clears what is in
\* the free space; its records stay.
LEMMA InsertInUseStep ==
  ASSUME HasBytes, IInv, NEW record \in Records, insertInUse(record)
  PROVE  /\ moved
         /\ Used' = Used \cup {header_.num_slots + 1}
         /\ header_'.num_slots = header_.num_slots + 1
         /\ header_.num_slots + 1 \notin Used
<1> DEFINE n == getAvailableSlot(header_, data_)
           size == Len(record)
<1>1. /\ ~ failed /\ hasSpaceForRecord(header_, size) /\ getSlot(data_, n).used
      /\ header_' = Allocated(header_) /\ data_' = data_ /\ moved' = moved
  BY DEF insertInUse, Running
<1>2. /\ Page(header_, data_, Used)
      /\ ~ moved => FreeClean(header_, data_)
  BY <1>1 DEF IInv, Ready
<1>3. size \in Nat /\ size > 0
  BY RecordIs
<1>4. /\ header_.num_slots \in Nat /\ header_.free_space_upper_bound \in Nat
      /\ header_.free_space_lower_bound = header_.num_slots
      /\ Used \subseteq 1 .. header_.num_slots
      /\ header_ \in [free_space_lower_bound : Nat, free_space_upper_bound : Nat,
                      num_slots : Nat, num_free_slots : Int]
  BY <1>2, PageBounds DEF Page
<1>5. size + (IF header_.num_free_slots = 0 THEN 1 ELSE 0)
        <= header_.free_space_upper_bound - header_.num_slots
  BY <1>1, <1>4 DEF hasSpaceForRecord, getFreeSpace
<1>6. /\ header_.num_free_slots \in Nat
      /\ header_.num_free_slots > 0 => n \in Slots(header_) \ Used
      /\ header_.num_free_slots = 0 => n = header_.num_slots + 1
  BY <1>2, AvailableIs
<1> HIDE DEF n, size
<1>7. header_.num_free_slots = 0
  <2> SUFFICES ASSUME header_.num_free_slots > 0 PROVE FALSE
    BY <1>6
  <2>1. n \in Slots(header_) /\ n \notin Used
    BY <1>6
  <2>2. QED
    BY <1>1, <2>1 DEF Used, UsedSlots
<1>8. n = header_.num_slots + 1 /\ header_.num_slots + 1 <= header_.free_space_upper_bound
  BY <1>3, <1>4, <1>5, <1>6, <1>7
<1>9. moved
  <2> SUFFICES ASSUME ~ moved PROVE FALSE
    OBVIOUS
  <2>1. n \in header_.num_slots + 1 .. header_.free_space_upper_bound
    BY <1>4, <1>8
  <2>2. QED
    BY <1>1, <1>2, <2>1 DEF FreeClean
<1>10. header_'.num_slots = header_.num_slots + 1
  BY <1>1, <1>4, <1>7 DEF Allocated
<1>11. Slots(header_') = Slots(header_) \cup {n}
  BY <1>4, <1>8, <1>10 DEF Slots
<1>12. Used' = Used \cup {n}
  BY <1>1, <1>11 DEF Used, UsedSlots
<1>13. QED
  BY <1>4, <1>8, <1>9, <1>10, <1>12

\* While nothing has moved, the record deleted is the lowest.
LEMMA LowestIs ==
  ASSUME Ready, NEW n \in Used, NEW b \in BOOLEAN,
         b = (moved \/ move_bytes(header_, data_, getSlot(data_, n)) > 0), ~ b
  PROVE  ~ moved /\ Off(data_, n) = header_.free_space_upper_bound
<1>1. Page(header_, data_, Used)
  BY DEF Ready
<1>2. move_bytes(header_, data_, getSlot(data_, n))
        = Off(data_, n) - header_.free_space_upper_bound
  BY <1>1, MoveIs
<1>3. header_.free_space_upper_bound <= Off(data_, n)
  BY <1>1, PackedApart DEF Page
<1>4. Off(data_, n) \in Int /\ header_.free_space_upper_bound \in Int
  BY <1>1 DEF Page, Packed
<1>5. ~ moved /\ ~(Off(data_, n) - header_.free_space_upper_bound > 0)
  BY <1>2
<1>6. QED
  BY <1>3, <1>4, <1>5

\* updateRecord moves the record it names and spares the others.
LEMMA UpdateStep ==
  ASSUME HasBytes, IInv, NEW record \in Records, NEW n \in Used, updateRecord(n, record)
  PROVE  Puts(n, record) /\ Ready' /\ moved' \in BOOLEAN /\ (moved => moved')
<1> DEFINE slot == getSlot(data_, n)
           h == Freed(header_, slot)
           d == Compacted(header_, data_, n)
           T == {Byte(c) : c \in Contents}
           size == Len(record)
           g == HeaderWith(h, record)
           e == DataWith(h, d, n, record)
<1>1. /\ ~ failed
      /\ size <= getFreeSpace(header_) + slot.item_length
      /\ header_' = g /\ data_' = e
      /\ moved' = (moved \/ move_bytes(header_, data_, slot) > 0)
  BY DEF updateRecord, Running
<1>2. /\ Ready
      /\ Page(header_, data_, Used)
      /\ header_.num_slots > 0 => header_.num_slots \in Used
      /\ ~ moved => FreeClean(header_, data_)
  BY <1>1 DEF IInv, Ready
<1>3. record \in Seq(T) /\ size \in Nat /\ size > 0
  BY RecordIs
<1>4. /\ header_ \in [free_space_lower_bound : Nat, free_space_upper_bound : Nat,
                      num_slots : Nat, num_free_slots : Int]
      /\ header_.free_space_lower_bound = header_.num_slots
      /\ header_.num_slots <= header_.free_space_upper_bound
      /\ Used \subseteq 1 .. header_.num_slots
      /\ header_.free_space_upper_bound <= DATA_SIZE
  BY <1>2, PageBounds DEF Page
<1>5. /\ Page(h, d, Used \ {n})
      /\ \A i \in Used \ {n} : Rec(d, i) = Rec(data_, i)
      /\ h.num_slots = header_.num_slots
      /\ FreeClean(header_, data_) /\ Off(data_, n) = header_.free_space_upper_bound
           => FreeClean(h, d)
  BY <1>2, DeletedIs
<1>6. h.free_space_upper_bound = header_.free_space_upper_bound + slot.item_length
  BY <1>4 DEF Freed
<1>7. slot.item_length \in Nat
  BY <1>2 DEF Page, Packed, Size
<1>8. h.num_slots + size <= h.free_space_upper_bound
  <2>1. size <= (header_.free_space_upper_bound - header_.num_slots) + slot.item_length
    BY <1>1, <1>4 DEF getFreeSpace
  <2> HIDE DEF h, slot, size
  <2>2. QED
    BY <1>3, <1>4, <1>5, <1>6, <1>7, <2>1
<1>9. n \in 1 .. h.num_slots /\ n \notin Used \ {n} /\ n \in 1 .. DATA_SIZE
  <2>1. header_.num_slots <= DATA_SIZE /\ header_.num_slots \in Nat
    <3> HIDE DEF slot, h, d, T, size, g, e
    <3>1. /\ header_.num_slots \in Nat /\ header_.free_space_upper_bound \in Nat
          /\ DATA_SIZE \in Nat
      BY <1>4, SizeAssumption
    <3>2. QED
      BY <1>4, <3>1
  <2> HIDE DEF h
  <2>2. QED
    BY <1>4, <1>5, <2>1, SizeAssumption
<1> HIDE DEF slot, h, d, T, size, g, e
<1>10. /\ Page(g, e, (Used \ {n}) \cup {n})
       /\ Rec(e, n) = record
       /\ \A i \in Used \ {n} : Rec(e, i) = Rec(d, i)
       /\ g.num_slots = h.num_slots
       /\ FreeClean(h, d) => FreeClean(g, e)
  BY <1>3, <1>5, <1>8, <1>9, InsertedIs DEF size, g, e
<1>11. (Used \ {n}) \cup {n} = Used
  OBVIOUS
<1>12. Used' = Used
  BY <1>1, <1>10, <1>11 DEF Page, Used
<1>13. moved' \in BOOLEAN /\ (moved => moved')
  BY <1>1
<1>14. ~ moved' => FreeClean(g, e)
  BY <1>1, <1>2, <1>5, <1>10, <1>13, LowestIs DEF slot
<1>15. Ready'
  BY <1>1, <1>2, <1>5, <1>10, <1>11, <1>12, <1>14 DEF Ready
<1>16. Puts(n, record)
  BY <1>1, <1>5, <1>9, <1>10, <1>11, <1>12 DEF Puts
<1>17. QED
  BY <1>13, <1>15, <1>16

\* deleteRecord takes out the record it names and spares the others.
LEMMA DeleteStep ==
  ASSUME HasBytes, IInv, NEW n \in Used, deleteRecord(n)
  PROVE  /\ Used' = Used \ {n}
         /\ \A i \in Used \ {n} : Rec(data_', i) = Rec(data_, i)
         /\ Ready' /\ moved' \in BOOLEAN /\ (moved => moved')
<1> DEFINE slot == getSlot(data_, n)
           h == Freed(header_, slot)
           d == Compacted(header_, data_, n)
           m == SlotsLeft(header_, data_, n)
           g == Trimmed(h, m)
<1>1. /\ ~ failed /\ header_' = g /\ data_' = d
      /\ moved' = (moved \/ move_bytes(header_, data_, slot) > 0)
  BY DEF deleteRecord, Running
<1>2. /\ Ready
      /\ Page(header_, data_, Used)
      /\ header_.num_slots > 0 => header_.num_slots \in Used
      /\ ~ moved => FreeClean(header_, data_)
  BY <1>1 DEF IInv, Ready
<1>3. /\ Page(h, d, Used \ {n})
      /\ \A i \in Used \ {n} : Rec(d, i) = Rec(data_, i)
      /\ h.num_slots = header_.num_slots
      /\ FreeClean(header_, data_) /\ Off(data_, n) = header_.free_space_upper_bound
           => FreeClean(h, d)
  BY <1>2, DeletedIs
<1>4. /\ m \in 0 .. header_.num_slots
      /\ \A i \in Used \ {n} : i <= m
      /\ m > 0 => m \in Used \ {n}
  BY <1>2, SlotsLeftIs
<1> HIDE DEF slot, h, d, m, g
<1>5. /\ Page(g, d, Used \ {n}) /\ g.num_slots = m
      /\ g.free_space_upper_bound = h.free_space_upper_bound
  BY <1>3, <1>4, TrimmedIs DEF g
<1>6. Used' = Used \ {n}
  BY <1>1, <1>5 DEF Page, Used
<1>7. moved' \in BOOLEAN /\ (moved => moved')
  BY <1>1
<1>8. ASSUME FreeClean(h, d) PROVE FreeClean(g, d)
  <2> SUFFICES ASSUME NEW i \in m + 1 .. h.free_space_upper_bound PROVE ~ getSlot(d, i).used
    BY <1>5 DEF FreeClean
  <2>1. h.num_slots \in Nat /\ h.free_space_upper_bound \in Nat /\ Used \ {n} = UsedSlots(h, d)
    BY <1>3 DEF Page
  <2>2. CASE i <= h.num_slots
    <3>1. i \in Slots(h) /\ ~(i <= m)
      BY <1>3, <1>4, <2>1, <2>2 DEF Slots
    <3>2. i \notin Used \ {n}
      BY <1>4, <3>1
    <3>3. QED
      BY <2>1, <3>1, <3>2 DEF UsedSlots
  <2>3. CASE ~(i <= h.num_slots)
    <3>1. i \in h.num_slots + 1 .. h.free_space_upper_bound
      BY <1>3, <1>4, <2>1, <2>3
    <3>2. QED
      BY <1>8, <3>1 DEF FreeClean
  <2>4. QED
    BY <2>2, <2>3
<1>9. ~ moved' => FreeClean(g, d)
  BY <1>1, <1>2, <1>3, <1>7, <1>8, LowestIs DEF slot
<1>10. Ready'
  BY <1>1, <1>4, <1>5, <1>6, <1>9 DEF Ready
<1>11. QED
  BY <1>1, <1>3, <1>6, <1>7, <1>10

\* An initialized page satisfies the invariant.
LEMMA InitInv == Init => IInv
<1> SUFFICES ASSUME Init PROVE IInv
  OBVIOUS
<1>1. /\ header_ = [free_space_lower_bound |-> 0, free_space_upper_bound |-> DATA_SIZE,
                    num_slots |-> 0, num_free_slots |-> 0]
      /\ data_ = [i \in 0 .. DATA_SIZE - 1 |-> Zero]
      /\ cursor = NotBegun /\ failed = FALSE /\ ahead = {} /\ moved = FALSE
  BY DEF Init, initialize
<1>2. DATA_SIZE \in Nat
  BY SizeAssumption
<1>3. Used = {}
  BY <1>1 DEF Used, UsedSlots, Slots
<1>4. Total(data_, {}) = 0 /\ IsFiniteSet({}) /\ Cardinality({}) = 0
  BY TotalAdds, FS_EmptySet
<1>5. Packed({}, data_, DATA_SIZE)
  BY <1>2, <1>4 DEF Packed
<1>6. Page(header_, data_, Used)
  <2>1. /\ header_ \in [free_space_lower_bound : Nat, free_space_upper_bound : Nat,
                        num_slots : Nat, num_free_slots : Int]
        /\ header_.free_space_lower_bound = 0 /\ header_.num_slots = 0
        /\ header_.free_space_upper_bound = DATA_SIZE /\ header_.num_free_slots = 0
    BY <1>1, <1>2
  <2>2. DOMAIN data_ = 0 .. DATA_SIZE - 1
    BY <1>1
  <2>3. 0 <= DATA_SIZE /\ 0 = 0 - 0
    BY <1>2
  <2>4. {} = UsedSlots(header_, data_)
    BY <1>3 DEF Used
  <2>5. QED
    BY <1>3, <1>4, <1>5, <2>1, <2>2, <2>3, <2>4 DEF Page
<1>7. FreeClean(header_, data_)
  <2> SUFFICES ASSUME NEW i \in 1 .. DATA_SIZE PROVE ~ getSlot(data_, i).used
    <3>1. header_.num_slots + 1 = 1 /\ header_.free_space_upper_bound = DATA_SIZE
      BY <1>1
    <3>2. QED
      BY <3>1 DEF FreeClean
  <2>1. i - 1 \in 0 .. DATA_SIZE - 1
    BY <1>2
  <2>2. data_[i - 1] = Zero
    BY <1>1, <2>1
  <2>3. QED
    BY <2>2, ZeroUnused
<1>8. Ready
  BY <1>1, <1>6, <1>7 DEF Ready
<1>9. Coming
  BY <1>1 DEF Coming, NotBegun
<1>10. QED
  BY <1>1, <1>8, <1>9 DEF IInv, InUseOnlyAfterMove, IteratorMissesNone

\* The iterator goes on to the first slot in use behind it.
LEMMA NextUsedIs ==
  ASSUME Ready, NEW start \in Int
  PROVE  LET c == getNextUsedSlot(start) IN
           \/ c = INVALID_SLOT /\ \A i \in Used : ~(i > start)
           \/ c \in Used /\ c > start /\ \A i \in Used : i > start => c <= i
<1> DEFINE c == getNextUsedSlot(start)
           after == {i \in Used : i > start}
<1>1. IsFiniteSet(Used) /\ Used \in SUBSET Int
  <2>1. Page(header_, data_, Used)
    BY DEF Ready
  <2>2. IsFiniteSet(Used) /\ Used \subseteq 1 .. header_.num_slots
    BY <2>1, PageBounds
  <2>3. QED
    BY <2>2
<1>2. c = IF after = {} THEN INVALID_SLOT ELSE Min(after)
  BY DEF getNextUsedSlot, Used
<1>3. IsFiniteSet(after) /\ after \in SUBSET Int
  <2>1. after \in SUBSET Used
    OBVIOUS
  <2> HIDE DEF after
  <2>2. QED
    BY <1>1, <2>1, FS_Subset
<1>4. \A i : i \in after <=> (i \in Used /\ i > start)
  OBVIOUS
<1> HIDE DEF after, c
<1>5. after # {} => Min(after) \in after /\ \A y \in after : Min(after) <= y
  BY <1>3, MinIs
<1>6. CASE after = {}
  BY <1>2, <1>4, <1>6 DEF c
<1>7. CASE after # {}
  BY <1>2, <1>4, <1>5, <1>7 DEF c
<1>8. QED
  BY <1>6, <1>7

\* Slots are numbered from 1.
LEMMA UsedPositive ==
  ASSUME Ready
  PROVE  \A i \in Used : i \in Int /\ i > 0
<1>1. Page(header_, data_, Used)
  BY DEF Ready
<1>2. Used \subseteq 1 .. header_.num_slots
  BY <1>1, PageBounds
<1>3. QED
  BY <1>2

\* A new iterator has every slot in use but its own still to come to.
LEMMA BeginComing ==
  ASSUME IInv, begin
  PROVE  Coming' /\ IteratorMissesNone'
<1>1. /\ ~ failed /\ cursor' = getNextUsedSlot(INVALID_SLOT)
      /\ ahead' = Used \ {cursor'} /\ header_' = header_ /\ data_' = data_
  BY DEF begin, Running, Used
<1>2. Ready
  BY <1>1 DEF IInv
<1>3. Used' = Used
  BY <1>1 DEF Used
<1>4. \A i \in Used : i \in Int /\ i > INVALID_SLOT
  BY <1>2, UsedPositive DEF INVALID_SLOT
<1>5. \/ cursor' = INVALID_SLOT /\ \A i \in Used : ~(i > INVALID_SLOT)
      \/ cursor' \in Used /\ cursor' > INVALID_SLOT
         /\ \A i \in Used : i > INVALID_SLOT => cursor' <= i
  <2>1. INVALID_SLOT \in Int
    BY DEF INVALID_SLOT
  <2>2. QED
    BY <1>1, <1>2, <2>1, NextUsedIs
<1>6. CASE cursor' = INVALID_SLOT /\ \A i \in Used : ~(i > INVALID_SLOT)
  <2>1. Used = {}
    BY <1>4, <1>6
  <2>2. ahead' = {}
    BY <1>1, <2>1
  <2>3. QED
    BY <1>6, <2>2 DEF Coming, IteratorMissesNone, INVALID_SLOT, NotBegun
<1>7. CASE cursor' \in Used /\ cursor' > INVALID_SLOT
           /\ \A i \in Used : i > INVALID_SLOT => cursor' <= i
  <2>1. cursor' \in Int /\ cursor' > 0
    BY <1>4, <1>7 DEF INVALID_SLOT
  <2>2. \A i \in ahead' : i \in Used' /\ cursor' < i
    BY <1>1, <1>3, <1>4, <1>7, <2>1
  <2>3. cursor' # INVALID_SLOT /\ cursor' # NotBegun /\ cursor' >= NotBegun
    BY <2>1 DEF INVALID_SLOT, NotBegun
  <2>4. QED
    BY <2>1, <2>2, <2>3 DEF Coming, IteratorMissesNone
<1>8. QED
  BY <1>5, <1>6, <1>7

\* An iterator that goes on passes no slot it has still to come to.
LEMMA AdvanceComing ==
  ASSUME IInv, advance
  PROVE  Coming' /\ IteratorMissesNone'
<1>1. /\ ~ failed /\ cursor # INVALID_SLOT /\ cursor # NotBegun
      /\ cursor' = getNextUsedSlot(cursor)
      /\ ahead' = ahead \ {cursor'} /\ header_' = header_ /\ data_' = data_
  BY DEF advance, Running
<1>2. Ready /\ Coming
  BY <1>1 DEF IInv
<1>3. Used' = Used
  BY <1>1 DEF Used
<1>4. cursor \in Int /\ cursor > 0 /\ \A i \in ahead : i \in Used /\ cursor < i
  BY <1>1, <1>2 DEF Coming, INVALID_SLOT, NotBegun
<1>5. \A i \in Used : i \in Int
  BY <1>2, UsedPositive
<1>6. \/ cursor' = INVALID_SLOT /\ \A i \in Used : ~(i > cursor)
      \/ cursor' \in Used /\ cursor' > cursor /\ \A i \in Used : i > cursor => cursor' <= i
  BY <1>1, <1>2, <1>4, NextUsedIs
<1>7. CASE cursor' = INVALID_SLOT /\ \A i \in Used : ~(i > cursor)
  <2>1. ahead = {}
    BY <1>4, <1>5, <1>7
  <2>2. ahead' = {}
    BY <1>1, <2>1
  <2>3. QED
    BY <1>7, <2>2 DEF Coming, IteratorMissesNone, INVALID_SLOT, NotBegun
<1>8. CASE cursor' \in Used /\ cursor' > cursor /\ \A i \in Used : i > cursor => cursor' <= i
  <2>1. cursor' \in Int /\ cursor' > 0
    BY <1>4, <1>5, <1>8
  <2>2. \A i \in ahead' : i \in Used' /\ cursor' < i
    BY <1>1, <1>3, <1>4, <1>5, <1>8
  <2>3. cursor' # INVALID_SLOT /\ cursor' # NotBegun /\ cursor' >= NotBegun
    BY <2>1 DEF INVALID_SLOT, NotBegun
  <2>4. QED
    BY <2>1, <2>2, <2>3 DEF Coming, IteratorMissesNone
<1>9. QED
  BY <1>6, <1>7, <1>8

\* Every step keeps the invariant: the page by the lemmas of the calls, the
\* iterator because no call takes away a slot but the one it deletes.
LEMMA NextInv ==
  ASSUME HasBytes, IInv, [Next]_vars
  PROVE  IInv'
<1>1. ASSUME NEW record \in Records, insertRecord(record) PROVE IInv'
  <2>1. Ready' /\ Used \subseteq Used'
    BY <1>1, InsertStep DEF Puts
  <2>2. ~ failed /\ cursor' = cursor /\ failed' = failed /\ ahead' = ahead /\ moved' = moved
    BY <1>1 DEF insertRecord, Running
  <2>3. Coming'
    BY <2>1, <2>2 DEF IInv, Coming
  <2>4. QED
    BY <2>1, <2>2, <2>3 DEF IInv, InUseOnlyAfterMove, IteratorMissesNone
<1>2. ASSUME NEW record \in Records, insertInUse(record) PROVE IInv'
  <2>1. moved
    BY <1>2, InsertInUseStep
  <2>2. cursor' = cursor /\ failed' = TRUE /\ ahead' = ahead /\ moved' = moved
    BY <1>2 DEF insertInUse
  <2>3. QED
    BY <2>1, <2>2 DEF IInv, InUseOnlyAfterMove, IteratorMissesNone
<1>3. ASSUME NEW record \in Records, NEW n \in Used, updateRecord(n, record) PROVE IInv'
  <2>1. Ready' /\ Used' = Used /\ moved' \in BOOLEAN
    BY <1>3, UpdateStep DEF Puts
  <2>2. ~ failed /\ cursor' = cursor /\ failed' = failed /\ ahead' = ahead
    BY <1>3 DEF updateRecord, Running
  <2>3. Coming'
    BY <2>1, <2>2 DEF IInv, Coming
  <2>4. QED
    BY <2>1, <2>2, <2>3 DEF IInv, InUseOnlyAfterMove, IteratorMissesNone
<1>4. ASSUME NEW n \in Used, deleteRecord(n) PROVE IInv'
  <2>1. Ready' /\ Used' = Used \ {n} /\ moved' \in BOOLEAN
    BY <1>4, DeleteStep
  <2>2. ~ failed /\ cursor' = cursor /\ failed' = failed /\ ahead' = ahead \ {n}
    BY <1>4 DEF deleteRecord, Running
  <2>3. Coming'
    BY <2>1, <2>2 DEF IInv, Coming
  <2>4. IteratorMissesNone'
    BY <2>2 DEF IInv, IteratorMissesNone
  <2>5. QED
    BY <2>1, <2>2, <2>3, <2>4 DEF IInv, InUseOnlyAfterMove
<1>5. CASE begin \/ advance
  <2>1. Coming' /\ IteratorMissesNone'
    BY <1>5, BeginComing, AdvanceComing
  <2>2. /\ ~ failed /\ failed' = failed /\ moved' = moved
        /\ header_' = header_ /\ data_' = data_
    BY <1>5 DEF begin, advance, Running
  <2>3. Ready'
    BY <2>2 DEF IInv, Ready, Used
  <2>4. QED
    BY <2>1, <2>2, <2>3 DEF IInv, InUseOnlyAfterMove
<1>6. CASE UNCHANGED vars
  <2>1. /\ header_' = header_ /\ data_' = data_ /\ cursor' = cursor
        /\ failed' = failed /\ ahead' = ahead /\ moved' = moved
    BY <1>6 DEF vars
  <2>2. QED
    BY <2>1 DEF IInv, Ready, Coming, Used, InUseOnlyAfterMove, IteratorMissesNone
<1>7. QED
  BY <1>1, <1>2, <1>3, <1>4, <1>5, <1>6 DEF Next, Used

\* The invariant holds of every page that inserting, updating and deleting
\* records that have bytes can make.
THEOREM PageInvariant ==
  ASSUME HasBytes
  PROVE  Spec => []IInv
<1>1. Init => IInv
  BY InitInv
<1>2. IInv /\ [Next]_vars => IInv'
  BY NextInv
<1>3. QED
  BY <1>1, <1>2, PTL DEF Spec

\* Between two calls the header accounts for every cell of the page: the
\* records fill the space above the upper bound and the slots that below the
\* lower bound, and the last slot is in use (page.cpp:75).
THEOREM SpaceAccountedAlways ==
  ASSUME HasBytes
  PROVE  Spec => []SpaceAccounted
<1>1. IInv => SpaceAccounted
  <2> SUFFICES ASSUME IInv, ~ failed PROVE SpaceAccounted
    BY DEF SpaceAccounted, Running
  <2>1. /\ Page(header_, data_, Used)
        /\ header_.num_slots > 0 => header_.num_slots \in Used
    BY DEF IInv, Ready
  <2>2. /\ header_.free_space_lower_bound = header_.num_slots
        /\ header_.num_slots <= header_.free_space_upper_bound
        /\ header_.num_free_slots = header_.num_slots - Cardinality(Used)
        /\ header_.free_space_upper_bound \in Nat
        /\ DATA_SIZE = header_.free_space_upper_bound + Total(data_, Used)
    BY <2>1 DEF Page, Packed
  <2>3. Total(data_, Used) \in Nat
    BY <2>1, PackedTotal DEF Page
  <2>4. DATA_SIZE - header_.free_space_upper_bound = Total(data_, Used)
    BY <2>2, <2>3
  <2>5. QED
    BY <2>1, <2>2, <2>4 DEF SpaceAccounted, Total, Used
<1>2. QED
  BY <1>1, PageInvariant, PTL

\* insertRecord finds its new slot in use (page.cpp:185) only after a
\* deletion or an update that moved other records.
THEOREM InUseOnlyAfterMoveAlways ==
  ASSUME HasBytes
  PROVE  Spec => []InUseOnlyAfterMove
<1>1. IInv => InUseOnlyAfterMove
  BY DEF IInv
<1>2. QED
  BY <1>1, PageInvariant, PTL

\* An iterator (page_iterator.h:61) used while the page changes comes to
\* every record that was there when it began and still is.
THEOREM IteratorMissesNoneAlways ==
  ASSUME HasBytes
  PROVE  Spec => []IteratorMissesNone
<1>1. IInv => IteratorMissesNone
  BY DEF IInv
<1>2. QED
  BY <1>1, PageInvariant, PTL

-----------------------------------------------------------------------------
(***************************************************************************)
(* The page is the store of records that RecordStore promises.             *)
(***************************************************************************)
records == [n \in Stored |-> getRecord(n)]

\* getRecord is Rec of the slot.
LEMMA RecordsAre == records = [n \in Stored |-> Rec(data_, n)]
BY DEF records, getRecord, Rec, Size, Off

\* Every slot in use holds a record unless insertRecord has thrown.
LEMMA StoredIs == ~ failed => Stored = Used
BY DEF Stored, Used

\* A step of the page is one of the store, or none.
LEMMA StepIs ==
  ASSUME HasBytes, IInv, [Next]_vars
  PROVE  [Store!Next]_records
<1>1. /\ records' = [n \in Stored' |-> Rec(data_', n)]
      /\ ~ failed' => Stored' = Used'
  <2>1. records' = [n \in Stored' |-> Rec(data_', n)]
    BY DEF records, getRecord, Rec, Size, Off
  <2>2. ~ failed' => Stored' = Used'
    BY DEF Stored, Used
  <2>3. QED
    BY <2>1, <2>2
<1>2. ASSUME NEW record \in Records, insertRecord(record) PROVE Store!Next
  <2> DEFINE n == getAvailableSlot(header_, data_)
  <2>1. n \notin Used /\ Puts(n, record)
    BY <1>2, InsertStep
  <2>2. ~ failed /\ ~ failed'
    BY <1>2 DEF insertRecord, Running
  <2> HIDE DEF n
  <2>3. /\ records = [m \in Used |-> Rec(data_, m)]
        /\ records' = [m \in Used' |-> Rec(data_', m)]
    BY <1>1, <2>2, RecordsAre, StoredIs
  <2>4. n \in 1 .. DATA_SIZE /\ Used' = Used \cup {n} /\ Rec(data_', n) = record
        /\ \A i \in Used : Rec(data_', i) = Rec(data_, i)
    BY <2>1 DEF Puts
  <2>5. DOMAIN records = Used
    BY <2>3
  <2>6. records' = [m \in Used \cup {n} |-> IF m = n THEN record ELSE records[m]]
    BY <2>1, <2>3, <2>4
  <2>7. Store!Insert(n, record)
    BY <2>1, <2>5, <2>6 DEF Store!Insert, records
  <2>8. QED
    BY <2>4, <2>7 DEF Store!Next
<1>3. ASSUME NEW record \in Records, insertInUse(record) PROVE records' = records
  <2>1. /\ Used' = Used \cup {header_.num_slots + 1}
        /\ header_'.num_slots = header_.num_slots + 1
        /\ header_.num_slots + 1 \notin Used
    BY <1>3, InsertInUseStep
  <2>2. ~ failed /\ failed' /\ data_' = data_
    BY <1>3 DEF insertInUse, Running
  <2>3. Stored = Used /\ Stored' = Used
    BY <2>1, <2>2 DEF Stored, Used
  <2>4. QED
    BY <1>1, <2>2, <2>3, RecordsAre
<1>4. ASSUME NEW record \in Records, NEW n \in Used, updateRecord(n, record)
      PROVE  Store!Next
  <2>1. Puts(n, record)
    BY <1>4, UpdateStep
  <2>2. ~ failed /\ ~ failed'
    BY <1>4 DEF updateRecord, Running
  <2>3. /\ records = [m \in Used |-> Rec(data_, m)]
        /\ records' = [m \in Used' |-> Rec(data_', m)]
    BY <1>1, <2>2, RecordsAre, StoredIs
  <2>4. n \in 1 .. DATA_SIZE /\ Used' = Used /\ Rec(data_', n) = record
        /\ \A i \in Used \ {n} : Rec(data_', i) = Rec(data_, i)
    BY <2>1 DEF Puts
  <2>5. DOMAIN records = Used
    BY <2>3
  <2>6. records' = [records EXCEPT ![n] = record]
    BY <2>3, <2>4
  <2>7. Store!Update(n, record)
    BY <2>5, <2>6 DEF Store!Update, records
  <2>8. QED
    BY <2>4, <2>7 DEF Store!Next
<1>5. ASSUME NEW n \in Used, deleteRecord(n) PROVE Store!Next
  <2>1. Used' = Used \ {n} /\ \A i \in Used \ {n} : Rec(data_', i) = Rec(data_, i)
    BY <1>5, DeleteStep
  <2>2. ~ failed /\ ~ failed'
    BY <1>5 DEF deleteRecord, Running
  <2>3. /\ records = [m \in Used |-> Rec(data_, m)]
        /\ records' = [m \in Used' |-> Rec(data_', m)]
    BY <1>1, <2>2, RecordsAre, StoredIs
  <2>4. DOMAIN records = Used
    BY <2>3
  <2>5. records' = [m \in Used \ {n} |-> records[m]]
    BY <2>1, <2>3
  <2>6. Store!Delete(n)
    BY <2>4, <2>5 DEF Store!Delete, records
  <2>7. n \in 1 .. DATA_SIZE
    <3>1. Page(header_, data_, Used)
      BY <2>2 DEF IInv, Ready
    <3>2. /\ Used \subseteq 1 .. header_.num_slots
          /\ header_.free_space_upper_bound <= DATA_SIZE
      BY <3>1, PageBounds
    <3>3. /\ header_.num_slots \in Nat /\ header_.free_space_upper_bound \in Nat
          /\ header_.num_slots <= header_.free_space_upper_bound /\ DATA_SIZE \in Nat
      BY <3>1, SizeAssumption DEF Page
    <3>4. QED
      BY <3>2, <3>3
  <2>8. QED
    BY <2>6, <2>7 DEF Store!Next
<1>6. CASE begin \/ advance \/ UNCHANGED vars
  <2>1. header_' = header_ /\ data_' = data_ /\ failed' = failed
    BY <1>6 DEF begin, advance, vars
  <2>2. QED
    BY <2>1 DEF records, Stored, getRecord
<1>7. QED
  BY <1>2, <1>3, <1>4, <1>5, <1>6 DEF Next, Used

\* The page implements RecordStore: a call changes the record it names and
\* no other, wherever deleteRecord (page.cpp:75) and updateRecord
\* (page.cpp:54) move the bytes.
THEOREM ImplementsStore ==
  ASSUME HasBytes
  PROVE  Spec => StoreSpec
<1>1. Init => Store!Init
  <2> SUFFICES ASSUME Init PROVE records = [n \in {} |-> {}]
    BY DEF Store!Init, records
  <2>1. header_.num_slots = 0 /\ ~ failed
    BY DEF Init, initialize
  <2>2. Used = {}
    BY <2>1 DEF Used, UsedSlots, Slots
  <2>3. QED
    BY <2>1, <2>2, RecordsAre, StoredIs
<1>2. IInv /\ [Next]_vars => [Store!Next]_records
  BY StepIs
<1>3. QED
  BY <1>1, <1>2, PageInvariant, PTL DEF Spec, StoreSpec, Store!Spec, records
==============================================================================
