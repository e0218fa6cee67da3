------------------------------ MODULE IndexSet ------------------------------
(***************************************************************************)
(* What an index over a relation promises: the set of the keys inserted.   *)
(* An insertion adds its key or, when it throws, perhaps nothing; it never *)
(* loses another.                                                          *)
(***************************************************************************)
CONSTANTS Keys

VARIABLES entries

Init == entries = {}

Put(k) ==
  /\ k \notin entries
  /\ entries' = entries \cup {k}

Next == \E k \in Keys : Put(k)

Spec == Init /\ [][Next]_entries
=============================================================================
