------------------------------ MODULE WordTree ------------------------------
(***************************************************************************)
(* Dictionary::Node of the word locator: a radix tree whose edges carry    *)
(* prefixes and whose nodes carry the positions of the word that ends      *)
(* there.  A node is named by its path, the prefixes from the root to it   *)
(* joined; no two children of a node begin with the same character, as     *)
(* Insert makes a child only where Next finds none, so a path names one    *)
(* node and the tree is a function from paths to `counts'.                 *)
(***************************************************************************)
EXTENDS Integers, Sequences, SequencesExt

Root == <<>>
EmptyTree == [path \in {Root} |-> <<>>]

\* The child of `at' whose prefix begins with ch: the nearest node below.
Below(tree, at, ch) ==
  {p \in DOMAIN tree : IsStrictPrefix(at, p) /\ p[Len(at) + 1] = ch}
HasNext(tree, at, ch) == Below(tree, at, ch) # {}
NextNode(tree, at, ch) ==
  CHOOSE p \in Below(tree, at, ch) :
    \A q \in Below(tree, at, ch) : Len(p) <= Len(q)

Prefix(at, next) == SubSeq(next, Len(at) + 1, Len(next))

\* The index, from 0, at which two strings first differ; the first
\* characters are equal and not compared.  -1 if one is a prefix of the other.
Diff(str1, str2) ==
  LET unequal == {j \in 1 .. Min({Len(str1), Len(str2)}) - 1 :
                    str1[j + 1] # str2[j + 1]}
  IN  IF unequal = {} THEN -1 ELSE Min(unequal)

\* Split as it would be if the counts were not swapped and stayed with the
\* node that keeps the shorter prefix.
SplitUnswapped(tree, retained) ==
  LET below == {p \in DOMAIN tree : IsStrictPrefix(retained, p)}
      node  == CHOOSE p \in below : \A q \in below : Len(p) <= Len(q)
  IN  [p \in DOMAIN tree \cup {retained} |->
         CASE p = retained -> tree[node]
           [] p = node     -> <<>>
           [] OTHER        -> tree[p]]

\* Splitting a node leaves a node with no counts at the shorter path and
\* the counts and children where they were.
Split(tree, retained) ==
  [p \in DOMAIN tree \cup {retained} |->
     IF p = retained THEN <<>> ELSE tree[p]]

Filed(tree, path, count) ==
  [p \in DOMAIN tree \cup {path} |->
     IF p # path THEN tree[p]
     ELSE IF p \in DOMAIN tree THEN Append(tree[p], count) ELSE <<count>>]
-----------------------------------------------------------------------------
(***************************************************************************)
(* Insert: each turn of the loop has the node reached, `curr', the index   *)
(* of the turn to come, `i', and whether the loop has been left.  `deep'   *)
(* is history: a node was split behind its second character or later.      *)
(***************************************************************************)
\* Where the loop goes on after a node was split: one character further.
AfterSplit(i, i_diff) == i + 1

InsertTurn(word, count, a, i) ==
  LET sub    == SubSeq(word, i, Len(word))
      next   == NextNode(a.tree, a.curr, Head(sub))
      prefix == Prefix(a.curr, next)
      i_diff == Diff(prefix, sub)
      kept   == a.curr \o SubSeq(prefix, 1, i_diff)
  IN  CASE a.done \/ i # a.i -> a
        [] ~ HasNext(a.tree, a.curr, Head(sub)) ->
             [a EXCEPT !.tree = Filed(@, a.curr \o sub, count), !.done = TRUE]
        [] i_diff = -1 /\ Len(sub) > Len(prefix) ->
             [a EXCEPT !.curr = next, !.i = i + Len(prefix)]
        [] i_diff = -1 /\ Len(sub) <= Len(prefix) ->
             [a EXCEPT !.tree =
                Filed(IF sub = prefix THEN @ ELSE Split(@, a.curr \o sub),
                      a.curr \o sub, count),
                       !.done = TRUE]
        [] OTHER ->
             [a EXCEPT !.tree = Split(@, kept), !.curr = kept,
                       !.i = AfterSplit(i, i_diff),
                       !.deep = @ \/ i_diff > 1]

Insert(tree, word, count) ==
  FoldLeftDomain(LAMBDA a, i : InsertTurn(word, count, a, i),
                 [tree |-> tree, curr |-> Root, i |-> 1,
                  done |-> FALSE, deep |-> FALSE],
                 word)
-----------------------------------------------------------------------------
SearchTurn(tree, word, a, i) ==
  LET sub  == SubSeq(word, i, Len(word))
      next == NextNode(tree, a.curr, Head(sub))
  IN  CASE a.failed \/ i # a.i -> a
        [] /\ HasNext(tree, a.curr, Head(sub))
           /\ IsPrefix(Prefix(a.curr, next), sub) ->
             [a EXCEPT !.curr = next, !.i = i + Len(Prefix(a.curr, next))]
        [] OTHER -> [a EXCEPT !.failed = TRUE]

\* The position of the given occurrence of the word, 0 if there is none.
Search(tree, word, occurrence) ==
  LET end == FoldLeftDomain(LAMBDA a, i : SearchTurn(tree, word, a, i),
                            [curr |-> Root, i |-> 1, failed |-> FALSE], word)
  IN  IF end.failed \/ occurrence > Len(tree[end.curr]) THEN 0
      ELSE tree[end.curr][occurrence]
=============================================================================
