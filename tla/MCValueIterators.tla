-------------------------- MODULE MCValueIterators --------------------------
(* A Map can have three keys, an Array two equal elements; and there is a      *)
(* label that is not a String and has the text of one.                       *)
EXTENDS ValueIterators

MCElems    == 1..4
MCTexts    == {"a", "b", "c"}
MCLabels   == MCTexts \cup {"number"}
MCasString == [l \in MCLabels |-> IF l = "number" THEN "a" ELSE l]
MCLabel    == <<"a", "b", "c", "a">>
=============================================================================
