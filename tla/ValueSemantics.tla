--------------------------- MODULE ValueSemantics ---------------------------
(***************************************************************************)
(* What timl::Value promises its users: variables that hold trees.  An     *)
(* assignment, a push_back, an index or a remove changes the place it      *)
(* names and nothing else; a move leaves Null behind.  No nodes, owners or *)
(* addresses appear here.  A place is a variable and a path into its tree. *)
(***************************************************************************)
EXTENDS Integers, Sequences, TLC

CONSTANTS Named, Keys, Payloads, NoData

VARIABLE val

Leaf(k, d)   == [kind |-> k, data |-> d, items |-> <<>>]
Null         == Leaf("Null", NoData)
ArrayOf(seq) == [kind |-> "Array", data |-> NoData, items |-> seq]
MapOf(f)     == [kind |-> "Map", data |-> NoData, items |-> f]
Literals     == {Null} \cup {Leaf(k, d) : k \in {"Scalar", "String"}, d \in Payloads}

RECURSIVE Paths(_), At(_, _), Put(_, _, _)

Paths(t) ==
  {<<>>} \cup UNION {{<<k>> \o p : p \in Paths(t.items[k])} : k \in DOMAIN t.items}

At(t, p) == IF p = <<>> THEN t ELSE At(t.items[Head(p)], Tail(p))

Put(t, p, u) ==
  IF p = <<>> THEN u
  ELSE [t EXCEPT !.items = (Head(p) :> Put(@[Head(p)], Tail(p), u)) @@ @]

Places(w) == UNION {{<<x, p>> : p \in Paths(w[x])} : x \in Named}

Get(w, pl)    == At(w[pl[1]], pl[2])
Set(w, pl, u) == [w EXCEPT ![pl[1]] = Put(@, pl[2], u)]

\* The place q lies at p or inside it.
Within(q, p) ==
  /\ q[1] = p[1]
  /\ Len(p[2]) <= Len(q[2])
  /\ SubSeq(q[2], 1, Len(p[2])) = p[2]

Pushed(t, u) ==
  CASE t.kind = "Null"  -> ArrayOf(<<u>>)
    [] t.kind = "Array" -> ArrayOf(Append(t.items, u))
    [] OTHER            -> ArrayOf(<<t, u>>)

Dropped(seq, i) == SubSeq(seq, 1, i - 1) \o SubSeq(seq, i + 1, Len(seq))

-----------------------------------------------------------------------------
(* What the operations make of the values w of the variables: the values   *)
(* after each call, by the places p, q and r it names.                     *)

Assign(w, p, q) == {Set(w, p, Get(w, q))}

New(w, p) == {Set(w, p, u) : u \in Literals}

Move(w, p, q) ==
  IF Within(p, q) \/ Within(q, p) THEN {}
  ELSE {Set(Set(w, p, Get(w, q)), q, Null)}

SwapValues(w, p, q) ==
  IF Within(p, q) \/ Within(q, p) THEN {}
  ELSE {Set(Set(w, p, Get(w, q)), q, Get(w, p))}

List(w, p, q, r) == {Set(w, p, ArrayOf(<<Get(w, q), Get(w, r)>>))}

Pair(w, p, k, q) == {Set(w, p, MapOf(k :> Get(w, q)))}

PushCopy(w, p, q) == {Set(w, p, Pushed(Get(w, p), Get(w, q)))}

PushNew(w, p) == {Set(w, p, Pushed(Get(w, p), u)) : u \in Literals}

\* An element of p may be moved to the end of p.
PushMove(w, p, q) ==
  IF Within(p, q) THEN {}
  ELSE LET v == Set(w, q, Null) IN {Set(v, p, Pushed(Get(v, p), Get(w, q)))}

Index(w, p, k) ==
  LET t == Get(w, p) IN
  IF t.kind \in {"Null", "Map"} /\ k \notin DOMAIN t.items
  THEN {Set(w, p, MapOf(k :> Null @@ t.items))} ELSE {}

\* The first element equal to the argument is removed.
RemoveEqual(w, p, q) ==
  LET t == Get(w, p)
      u == Get(w, q)
      first(i) == t.items[i] = u /\ \A j \in 1..(i - 1) : t.items[j] # u
  IN  IF t.kind # "Array" THEN {}
      ELSE {Set(w, p, ArrayOf(Dropped(t.items, i))) :
              i \in {j \in DOMAIN t.items : first(j)}}

RemoveEntry(w, p, k) ==
  LET t == Get(w, p)
      f == [x \in DOMAIN t.items \ {k} |-> t.items[x]]
  IN  IF t.kind = "Map" /\ k \in DOMAIN t.items
      THEN {Set(w, p, MapOf(<<>> @@ f))} ELSE {}

\* Through a reference to the leaf, or by moving the string out of it.
Write(w, p) ==
  LET t  == Get(w, p)
      ds == CASE t.kind = "Scalar" -> Payloads
              [] t.kind = "String" -> Payloads \cup {NoData}
              [] OTHER             -> {}
  IN  {Set(w, p, Leaf(t.kind, d)) : d \in ds}

\* The constructors that take Values build a variable.
Step(w, u) ==
  \/ \E p \in Places(w) :
       \/ u \in New(w, p) \/ u \in PushNew(w, p) \/ u \in Write(w, p)
       \/ \E k \in Keys : u \in Index(w, p, k) \/ u \in RemoveEntry(w, p, k)
  \/ \E p, q \in Places(w) :
       \/ u \in Assign(w, p, q)     \/ u \in Move(w, p, q)
       \/ u \in SwapValues(w, p, q) \/ u \in RemoveEqual(w, p, q)
       \/ u \in PushCopy(w, p, q)   \/ u \in PushMove(w, p, q)
  \/ \E x \in Named, q \in Places(w) :
       \/ \E k \in Keys : u \in Pair(w, <<x, <<>>>>, k, q)
       \/ \E r \in Places(w) : u \in List(w, <<x, <<>>>>, q, r)

-----------------------------------------------------------------------------
Init == val = [x \in Named |-> Null]
\* The values before and after are named once, for the whole disjunction.
Next == \E w \in {val}, u \in {val'} : Step(w, u)
Spec == Init /\ [][Next]_val
=============================================================================
