---------------------------- MODULE MCBTreeScan ----------------------------
(***************************************************************************)
(* Bounds for model-checking the scans of the B+ tree: keys and bounds on  *)
(* both sides of the zeros of an unused slot.                              *)
(***************************************************************************)
EXTENDS BTreeScan

KeySet == -1 .. 2
BoundSet == {-1, 1, 3}
=============================================================================
