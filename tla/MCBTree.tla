------------------------------ MODULE MCBTree ------------------------------
(***************************************************************************)
(* Bounds for model-checking the B+ tree.                                  *)
(***************************************************************************)
EXTENDS BTree, FiniteSetsExt

CONSTANTS
  AnyOrder,  \* bound: keys inserted in any order
  MaxGaps    \* bound: keys skipped, and perhaps inserted later, beyond that

KeySet == 1 .. 12

(***************************************************************************)
(* The first keys are inserted in every order; more of them only nearly in *)
(* ascending order, which is enough to split a node that is neither a leaf *)
(* nor the root.                                                           *)
(***************************************************************************)
Bound ==
  \/ Contents \subseteq 1 .. AnyOrder
  \/ Max(Contents) - Cardinality(Contents) <= MaxGaps
=============================================================================
