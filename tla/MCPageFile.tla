----------------------------- MODULE MCPageFile -----------------------------
(* The constants of PageFile for model checking.                           *)
EXTENDS PageFile

CONSTANTS Full
=============================================================================
