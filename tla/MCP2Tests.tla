----------------------------- MODULE MCP2Tests -----------------------------
(* The constants of P2Tests for model checking.                            *)
EXTENDS P2Tests

CONSTANTS anyF, anyG

AllNames == {anyF, anyG, test1, test2, test3, test4, test5, algo_test, page_test, page_test2}

\* Pages of anyF and anyG meet in one chain.
SomeHash == [n \in AllNames, p \in 0 .. MaxPages |-> p + (IF n = anyF THEN 0 ELSE 3)]
=============================================================================
