--------------------------- MODULE MCWordLocator ---------------------------
(* Texts of two lines: every line of up to four characters, and one of    *)
(* a few lines behind it.                                                  *)
EXTENDS WordLocator

CONSTANT f1

Letters == {"s", "o", "S"}
ToLower == [ch \in Letters |-> IF ch = "S" THEN "s" ELSE ch]
TextSet == {<<a, b>> : a \in BoundedSeq({"s", "o", "-"}, 4),
                       b \in {<<"S", "o", "-", "o">>, <<"s", "s", "s">>}}
           \cup {Missing}
AskedSet == {<<"s">>, <<"o">>, <<"s", "o">>, <<"s", "s", "s">>, <<"s", "s", "s", "s">>}
=============================================================================
