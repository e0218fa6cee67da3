---------------------------- MODULE RecordStore ----------------------------
(***************************************************************************)
(* What a page promises its callers (page.h:99): records under numbers     *)
(* that stay theirs.  An insertion gives a number not in use, a deletion   *)
(* takes one back, and neither touches another record.                     *)
(***************************************************************************)
CONSTANTS Numbers, Records

VARIABLE records   \* the record under each number in use

Init == records = [n \in {} |-> {}]

Insert(n, r) ==
  /\ n \notin DOMAIN records
  /\ records' = [m \in DOMAIN records \cup {n} |->
                   IF m = n THEN r ELSE records[m]]

Update(n, r) == n \in DOMAIN records /\ records' = [records EXCEPT ![n] = r]

Delete(n) ==
  /\ n \in DOMAIN records
  /\ records' = [m \in DOMAIN records \ {n} |-> records[m]]

Next == \E n \in Numbers :
          Delete(n) \/ \E r \in Records : Insert(n, r) \/ Update(n, r)

Spec == Init /\ [][Next]_records
=============================================================================
