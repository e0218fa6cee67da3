----------------------------- MODULE FileStore -----------------------------
(***************************************************************************)
(* What a page file promises to the layer above: a set of numbered pages   *)
(* in use, each with contents.  This is the variable disk of BufMgr for    *)
(* one file.                                                               *)
(***************************************************************************)
CONSTANTS Pages, Data, Empty, Free

VARIABLES
  disk,  \* the contents of each page in use, Free for the others
  given  \* the page allocatePage has just given out, 0 after any other call

storeVars == <<disk, given>>

Init ==
  /\ disk = [p \in Pages |-> Free]
  /\ given = 0

\* The page given out was not in use, comes empty, and no other changes.
Alloc(p) ==
  /\ disk[p] = Free
  /\ disk' = [disk EXCEPT ![p] = Empty]
  /\ given' = p

Write(p, d) ==
  /\ disk[p] # Free
  /\ disk' = [disk EXCEPT ![p] = d]
  /\ given' = 0

Delete(p) ==
  /\ disk[p] # Free
  /\ disk' = [disk EXCEPT ![p] = Free]
  /\ given' = 0

\* A read, or a call that throws.
Other ==
  /\ given' = 0
  /\ UNCHANGED disk

Next ==
  \/ \E p \in Pages : Alloc(p) \/ Delete(p) \/ \E d \in Data : Write(p, d)
  \/ Other

Spec == Init /\ [][Next]_storeVars
=============================================================================
