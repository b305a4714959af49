--------------------------- MODULE MCStreamReader ---------------------------
EXTENDS StreamReader
MCKeySize == [k \in Keys |-> IF k = "" THEN 0 ELSE 1]
MCRoots == {Null, WithItem(Null, "a", Leaf("Bool")), Leaf("Char")}
NullRoot == {Null}
=============================================================================
