-------------------------- MODULE MCRelationTests --------------------------
(* The constants of RelationTests for model checking: the client's         *)
(* relation has empty pages at both ends and between.                      *)
EXTENDS RelationTests

SomePages == <<<<>>, <<0, 1>>, <<>>, <<2>>, <<>>>>
=============================================================================
