------------------------------ MODULE MCBufMgr ------------------------------
(* The constants of BufMgr for model checking.                             *)
EXTENDS BufMgr

CONSTANTS c1, c2, f1, f2, name1, name2, Full

\* One File object on each file.
OneEach == [f \in Files |-> IF f = f1 THEN name1 ELSE name2]

\* Two File objects on one file, as FileScan and its caller have.
Aliased == [f \in Files |-> name1]
=============================================================================
