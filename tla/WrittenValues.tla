---------------------------- MODULE WrittenValues ----------------------------
(* What a Value is to those who write and read it: the parts it has, which  *)
(* Values the format can hold, and what the writer's flag says of them.     *)
EXTENDS StreamWriter

Members(v) == IF Container(v) THEN {v.items[k] : k \in DOMAIN v.items} ELSE {}

Parts[v \in Tree] == {v} \cup UNION {Parts[m] : m \in Members(v)}

\* The activations of extract_nextValue that reading v takes: none for an
\* empty array, which is written without a size.
Depth[v \in Tree] ==
  CASE ~Container(v) -> 0
    [] v.kind = "Array" /\ v.items = <<>> -> 0
    [] OTHER -> LET below == {0} \cup {Depth[m] : m \in Members(v)}
                IN  1 + CHOOSE d \in below : \A e \in below : e <= d

\* A Value owns its members: the nesting comes to an end.
ASSUME NestingAssumption ==
  \A v \in Tree : Depth[v] \in Nat /\ \A m \in Members(v) : Depth[m] < Depth[v]

\* The format has a form for v: a finite number, a size of at most four bytes.
Representable(v) ==
  CASE v.kind = "Float" -> v.n # 0
    [] v.kind \in {"String", "Binary"} -> UintWidth(v.n) # 8
    [] Container(v) -> UintWidth(Cardinality(DOMAIN v.items)) # 8
    [] OTHER -> TRUE

Encodable(v) == \A p \in Parts[v] : Representable(p)

\* "if(result.second) Successfully wrote" (README.md:119): success is reported
\* only of a Value of which every part is in the stream.  update() keeps the
\* flag of the last part and forgets those before it.
SuccessMeansEncoded == status = "returned" /\ returned.second => Encodable(value)

\* A Map that the format can hold is written with success, through any nesting
\* of containers, unless it has an empty array: that one returns false.
CleanSucceeds ==
  status = "returned" /\ value.kind = "Map" /\ Encodable(value)
    /\ (\A p \in Parts[value] : p.kind = "Array" => p.items # <<>>)
      => returned.second
=============================================================================
