---------------------------- MODULE RoundTripProofs ----------------------------
(***************************************************************************)
(* What a StreamWriter has written of a Value a StreamReader reads back.   *)
(*                                                                         *)
(* The writer has two stacks of its own to tell of, the activations and    *)
(* the fields sent; a history of both, its story (Told), is kept in an     *)
(* invariant without a history variable, by an existential quantifier.     *)
(* The reader then walks through the story: at every read() it stands at   *)
(* one of its stacks (StandsAt) or between one and the next (Within), its  *)
(* own activations being those of the writer, and what is left in the      *)
(* stream is what the story says was sent from there on.                   *)
(***************************************************************************)
EXTENDS RoundTrip, StreamWriterProofs, SequenceTheorems, WellFoundedInduction

-----------------------------------------------------------------------------
(* What Parts, Depth and Canon are: a Value is nested to a finite depth, so *)
(* each of the three recursive functions satisfies the equation that        *)
(* defines it.                                                              *)

LEMMA MembersIn ==
  ASSUME NEW v \in Tree
  PROVE  /\ Members(v) \subseteq Tree
         /\ \A m \in Members(v) : Depth[m] \in Nat /\ Depth[m] < Depth[v]
         /\ Depth[v] \in Nat
  BY TreeAssumption, NestingAssumption DEF Members

\* A set of numbers that is not empty has a least one.
LEMMA Least ==
  ASSUME NEW S \in SUBSET Nat, S # {}
  PROVE  \E n \in S : \A m \in S : n <= m
<1> DEFINE O == OpToRel(<, Nat)
<1>1. IsWellFoundedOn(O, Nat)
  BY NatLessThanWellFounded, Zenon
<1> HIDE DEF O
<1>2. PICK n \in S : \A m \in S : <<m, n>> \notin O
  BY <1>1, WFMin, Zenon
<1>3. \A m \in S : ~(m < n)
  BY <1>2 DEF O, OpToRel
<1> QED
  BY <1>3

\* A set of Values that is not empty has one of which no member is in it.
LEMMA Lowest ==
  ASSUME NEW S \in SUBSET Tree, S # {}
  PROVE  \E v \in S : \A m \in Members(v) : m \notin S
<1> DEFINE N == {Depth[v] : v \in S}
<1>1. N \in SUBSET Nat /\ N # {}
  BY MembersIn
<1>2. PICK n \in N : \A m \in N : n <= m
  BY <1>1, Least
<1>3. PICK v \in S : n = Depth[v]
  BY <1>2
<1>4. ASSUME NEW m \in Members(v), m \in S  PROVE FALSE
  <2>1. Depth[m] \in N /\ Depth[m] < n /\ Depth[m] \in Nat /\ n \in Nat
    BY <1>3, <1>4, MembersIn
  <2> QED
    BY <1>2, <2>1
<1> QED
  BY <1>4

LEMMA PartsAre ==
  ASSUME NEW v \in Tree
  PROVE  /\ Parts[v] \subseteq Tree
         /\ Parts[v] = {v} \cup UNION {Parts[m] : m \in Members(v)}
<1> DEFINE Closed(S) == S \subseteq Tree /\ \A u \in S : Members(u) \subseteq S
           g == [u \in Tree |-> {p \in Tree : \A S \in SUBSET Tree : u \in S /\ Closed(S) => p \in S}]
           B(u) == {u} \cup UNION {g[m] : m \in Members(u)}
<1>1. \A u \in Tree : Closed(g[u]) /\ u \in g[u]
  BY MembersIn
<1>2. ASSUME NEW u \in Tree  PROVE g[u] = B(u)
  <2>1. \A m \in Members(u) : m \in Tree /\ Closed(g[m]) /\ m \in g[m]
    BY <1>1, MembersIn
  <2>2. B(u) \subseteq g[u]
    <3>1. u \in g[u]
      BY <1>1
    <3>2. ASSUME NEW m \in Members(u), NEW p \in g[m]  PROVE p \in g[u]
      <4>1. p \in Tree
        BY <2>1
      <4>2. ASSUME NEW S \in SUBSET Tree, u \in S, Closed(S)  PROVE p \in S
        <5>1. m \in S
          BY <4>2
        <5> QED
          BY <2>1, <4>2, <5>1
      <4> QED
        BY <4>1, <4>2
    <3> HIDE DEF g
    <3> QED
      BY <3>1, <3>2
  <2>3. Closed(B(u)) /\ u \in B(u)
    <3> HIDE DEF g
    <3>1. ASSUME NEW p \in B(u)  PROVE p \in Tree /\ Members(p) \subseteq B(u)
      <4>1. CASE p = u
        BY <2>1, <4>1, MembersIn
      <4>2. CASE \E m \in Members(u) : p \in g[m]
        BY <2>1, <4>2, MembersIn
      <4> QED
        BY <3>1, <4>1, <4>2
    <3> QED
      BY <3>1
  <2>4. g[u] \subseteq B(u)
    <3> DEFINE C == B(u)
    <3>1. C \in SUBSET Tree /\ Closed(C) /\ u \in C
      BY <2>3
    <3> HIDE DEF C
    <3>2. \A p \in g[u] : p \in C
      BY <3>1
    <3> QED
      BY <3>2 DEF C
  <2> QED
    BY <2>2, <2>4
<1>3. g = [u \in Tree |-> {u} \cup UNION {g[m] : m \in Members(u)}]
  <2>1. g = [u \in Tree |-> g[u]]
    OBVIOUS
  <2> HIDE DEF g
  <2> QED
    BY <1>2, <2>1
<1>4. \E f : f = [u \in Tree |-> {u} \cup UNION {f[m] : m \in Members(u)}]
  <2> HIDE DEF g
  <2> QED
    BY <1>3, Zenon
<1>5. Parts = [u \in Tree |-> {u} \cup UNION {Parts[m] : m \in Members(u)}]
  BY <1>4 DEF Parts
<1>6. \A u \in Tree : Parts[u] = {u} \cup UNION {Parts[m] : m \in Members(u)}
  BY <1>5, Zenon
<1>7. \A u \in Tree : Parts[u] \subseteq Tree
  <2> SUFFICES ASSUME {u \in Tree : ~(Parts[u] \subseteq Tree)} # {}  PROVE FALSE
    OBVIOUS
  <2>1. PICK u \in Tree : ~(Parts[u] \subseteq Tree) /\ \A m \in Members(u) : Parts[m] \subseteq Tree
    <3> DEFINE S == {u \in Tree : ~(Parts[u] \subseteq Tree)}
    <3>1. PICK u \in S : \A m \in Members(u) : m \notin S
      BY Lowest
    <3> QED
      BY <3>1, MembersIn
  <2> QED
    BY <1>6, <2>1
<1> QED
  BY <1>6, <1>7

\* The Values of less than n nestings.
Low(n) == {v \in Tree : Depth[v] < n}

LEMMA LowMembers ==
  ASSUME NEW n \in Nat, NEW v \in Low(n), NEW m \in Members(v)
  PROVE  m \in Low(n) /\ m \in Low(n - 1)
  <1>1. v \in Tree /\ m \in Tree /\ Depth[v] \in Nat /\ Depth[m] \in Nat
        /\ Depth[m] < Depth[v] /\ Depth[v] < n
    BY MembersIn DEF Low
  <1> QED
    BY <1>1 DEF Low

DepthBody(f, v) ==
  CASE ~Container(v) -> 0
    [] v.kind = "Array" /\ v.items = <<>> -> 0
    [] OTHER -> LET below == {0} \cup {f[m] : m \in Members(v)}
                IN  1 + CHOOSE d \in below : \A e \in below : e <= d

CanonBody(f, v) ==
  CASE Members(v) # {} ->
         [kind |-> v.kind, items |-> [k \in DOMAIN v.items |-> f[v.items[k]]]]
    [] Members(v) = {} /\ Container(v) -> Empty
    [] v.kind = "SignedInt" /\ v.n >= 0 -> R!Leaf("UnsignedInt")
    [] OTHER -> R!Leaf(v.kind)

LEMMA DepthLocal ==
  ASSUME NEW f, NEW g, NEW v \in Tree, \A m \in Members(v) : f[m] = g[m]
  PROVE  DepthBody(f, v) = DepthBody(g, v)
<1>1. {f[m] : m \in Members(v)} = {g[m] : m \in Members(v)}
  OBVIOUS
<1> QED
  BY <1>1, Zenon DEF DepthBody

\* Below every depth the equation of Depth has a solution, and only one.
LEMMA DepthStages ==
  /\ \A a, b \in Nat : \A f, g :
       f = [v \in Low(a) |-> DepthBody(f, v)] /\ g = [v \in Low(b) |-> DepthBody(g, v)]
         => \A v \in Low(a) \cap Low(b) : f[v] = g[v]
  /\ \A n \in Nat : \E f : f = [v \in Low(n) |-> DepthBody(f, v)]
<1> DEFINE Solves(f, n) == f = [v \in Low(n) |-> DepthBody(f, v)]
<1>1. ASSUME NEW f, NEW n, Solves(f, n)  PROVE \A v \in Low(n) : f[v] = DepthBody(f, v)
  <2>1. f = [v \in Low(n) |-> DepthBody(f, v)]
    BY <1>1
  <2> QED
    BY <2>1, Zenon
<1>2. ASSUME NEW a \in Nat, NEW b \in Nat, NEW f, NEW g, Solves(f, a), Solves(g, b)
      PROVE  \A v \in Low(a) \cap Low(b) : f[v] = g[v]
  <2> DEFINE S == {v \in Low(a) \cap Low(b) : f[v] # g[v]}
  <2>1. SUFFICES ASSUME S # {}  PROVE FALSE
    OBVIOUS
  <2>2. S \in SUBSET Tree
    BY DEF Low
  <2>3. PICK v \in S : \A m \in Members(v) : m \notin S
    BY <2>1, <2>2, Lowest
  <2>4. v \in Low(a) /\ v \in Low(b) /\ v \in Tree
    BY <2>2
  <2>5. \A m \in Members(v) : m \in Low(a) /\ m \in Low(b)
    BY <2>4, LowMembers
  <2>6. \A m \in Members(v) : f[m] = g[m]
    BY <2>3, <2>5
  <2>7. f[v] = DepthBody(f, v) /\ g[v] = DepthBody(g, v)
    BY <1>1, <1>2, <2>4
  <2>8. DepthBody(f, v) = DepthBody(g, v)
    BY <2>4, <2>6, DepthLocal
  <2> QED
    BY <2>3, <2>7, <2>8
<1>3. ASSUME NEW n \in Nat  PROVE \E f : Solves(f, n)
  <2> DEFINE S == {k \in Nat : ~\E f : Solves(f, k)}
  <2>1. SUFFICES ASSUME S # {}  PROVE FALSE
    BY <1>3
  <2> HIDE DEF Solves
  <2>2. PICK k \in S : \A m \in S : k <= m
    BY <2>1, Least
  <2>3. CASE k = 0
    <3>1. Low(0) = {}
      BY MembersIn DEF Low
    <3> DEFINE f == [v \in Low(0) |-> DepthBody(<<>>, v)]
    <3>2. f = [v \in Low(0) |-> DepthBody(f, v)]
      BY <3>1
    <3> HIDE DEF f
    <3>3. Solves(f, 0)
      BY <3>2 DEF Solves
    <3> QED
      BY <2>2, <2>3, <3>3
  <2>4. CASE k # 0
    <3>1. k - 1 \in Nat /\ k - 1 < k
      BY <2>4
    <3>2. k - 1 \notin S
      BY <2>2, <3>1
    <3>3. PICK f : Solves(f, k - 1)
      BY <3>1, <3>2
    <3> DEFINE g == [v \in Low(k) |-> DepthBody(f, v)]
    <3>4. ASSUME NEW v \in Low(k)  PROVE DepthBody(f, v) = DepthBody(g, v)
      <4>1. v \in Tree
        BY DEF Low
      <4>2. ASSUME NEW m \in Members(v)  PROVE g[m] = f[m]
        <5>1. m \in Low(k) /\ m \in Low(k - 1)
          BY <2>2, LowMembers
        <5>2. f[m] = DepthBody(f, m)
          BY <1>1, <3>1, <3>3, <5>1
        <5> QED
          BY <5>1, <5>2
      <4> HIDE DEF g
      <4> QED
        BY <4>1, <4>2, DepthLocal
    <3>5. g = [v \in Low(k) |-> DepthBody(g, v)]
      <4>1. g = [v \in Low(k) |-> DepthBody(f, v)]
        OBVIOUS
      <4> HIDE DEF g
      <4>2. [v \in Low(k) |-> DepthBody(f, v)] = [v \in Low(k) |-> DepthBody(g, v)]
        BY <3>4
      <4> QED
        BY <4>1, <4>2
    <3> HIDE DEF g
    <3>6. Solves(g, k)
      BY <3>5 DEF Solves
    <3> QED
      BY <2>2, <3>6
  <2> QED
    BY <2>3, <2>4
<1>4. \A a, b \in Nat : \A f, g : Solves(f, a) /\ Solves(g, b)
        => \A v \in Low(a) \cap Low(b) : f[v] = g[v]
  BY <1>2
<1>5. \A n \in Nat : \E f : Solves(f, n)
  BY <1>3
<1> QED
  BY <1>4, <1>5

LEMMA DepthIs ==
  \A v \in Tree : Depth[v] = DepthBody(Depth, v)
<1> DEFINE Solves(f, n) == f = [v \in Low(n) |-> DepthBody(f, v)]
           At(n) == CHOOSE f : Solves(f, n)
           g == [v \in Tree |-> At(Depth[v] + 1)[v]]
<1>1. ASSUME NEW n \in Nat  PROVE Solves(At(n), n)
  <2>1. \E f : Solves(f, n)
    BY DepthStages
  <2> HIDE DEF Solves
  <2> QED
    BY <2>1
<1>2. ASSUME NEW n \in Nat, NEW v \in Low(n)  PROVE g[v] = At(n)[v]
  <2>1. v \in Tree /\ Depth[v] + 1 \in Nat /\ v \in Low(Depth[v] + 1)
    BY MembersIn DEF Low
  <2>2. Solves(At(Depth[v] + 1), Depth[v] + 1) /\ Solves(At(n), n)
    BY <1>1, <2>1
  <2>3. g[v] = At(Depth[v] + 1)[v]
    BY <2>1
  <2> HIDE DEF At, g
  <2>4. At(Depth[v] + 1)[v] = At(n)[v]
    BY <2>1, <2>2, DepthStages
  <2> QED
    BY <2>3, <2>4
<1>3. ASSUME NEW v \in Tree  PROVE g[v] = DepthBody(g, v)
  <2> DEFINE n == Depth[v] + 1
  <2>1. n \in Nat /\ v \in Low(n)
    BY MembersIn DEF Low
  <2>2. Solves(At(n), n)
    BY <1>1, <2>1
  <2>3. At(n)[v] = DepthBody(At(n), v)
    <3> HIDE DEF At, n
    <3>1. At(n) = [u \in Low(n) |-> DepthBody(At(n), u)]
      BY <2>2
    <3> QED
      BY <2>1, <3>1, Zenon
  <2>4. \A m \in Members(v) : m \in Low(n)
    <3>1. \A m \in Members(v) : m \in Tree /\ Depth[m] \in Nat /\ Depth[m] < Depth[v] /\ Depth[v] \in Nat
      BY MembersIn
    <3> QED
      BY <3>1 DEF Low
  <2> HIDE DEF n, At, g
  <2>5. \A m \in Members(v) : g[m] = At(n)[m]
    BY <1>2, <2>1, <2>4
  <2>6. DepthBody(g, v) = DepthBody(At(n), v)
    BY <2>5, DepthLocal
  <2> QED
    BY <1>2, <2>1, <2>3, <2>6
<1>4. g = [v \in Tree |-> DepthBody(g, v)]
  <2>1. g = [v \in Tree |-> g[v]]
    OBVIOUS
  <2> HIDE DEF g
  <2> QED
    BY <1>3, <2>1
<1>5. \E f : f = [v \in Tree |-> DepthBody(f, v)]
  <2> HIDE DEF g
  <2> QED
    BY <1>4, Zenon
<1>6. Depth = [v \in Tree |-> DepthBody(Depth, v)]
  BY <1>5 DEF Depth, DepthBody
<1> QED
  BY <1>6, Zenon

LEMMA CanonLocal ==
  ASSUME NEW f, NEW g, NEW v \in Tree, \A m \in Members(v) : f[m] = g[m]
  PROVE  CanonBody(f, v) = CanonBody(g, v)
<1>1. CASE Members(v) # {}
  <2>1. \A k \in DOMAIN v.items : v.items[k] \in Members(v)
    BY <1>1 DEF Members
  <2>2. [k \in DOMAIN v.items |-> f[v.items[k]]] = [k \in DOMAIN v.items |-> g[v.items[k]]]
    BY <2>1
  <2> QED
    BY <1>1, <2>2 DEF CanonBody
<1>2. CASE Members(v) = {}
  BY <1>2 DEF CanonBody
<1> QED
  BY <1>1, <1>2

\* Below every depth the equation of Canon has a solution, and only one.
LEMMA CanonStages ==
  /\ \A a, b \in Nat : \A f, g :
       f = [v \in Low(a) |-> CanonBody(f, v)] /\ g = [v \in Low(b) |-> CanonBody(g, v)]
         => \A v \in Low(a) \cap Low(b) : f[v] = g[v]
  /\ \A n \in Nat : \E f : f = [v \in Low(n) |-> CanonBody(f, v)]
<1> DEFINE Solves(f, n) == f = [v \in Low(n) |-> CanonBody(f, v)]
<1>1. ASSUME NEW f, NEW n, Solves(f, n)  PROVE \A v \in Low(n) : f[v] = CanonBody(f, v)
  <2>1. f = [v \in Low(n) |-> CanonBody(f, v)]
    BY <1>1
  <2> QED
    BY <2>1, Zenon
<1>2. ASSUME NEW a \in Nat, NEW b \in Nat, NEW f, NEW g, Solves(f, a), Solves(g, b)
      PROVE  \A v \in Low(a) \cap Low(b) : f[v] = g[v]
  <2> DEFINE S == {v \in Low(a) \cap Low(b) : f[v] # g[v]}
  <2>1. SUFFICES ASSUME S # {}  PROVE FALSE
    OBVIOUS
  <2>2. S \in SUBSET Tree
    BY DEF Low
  <2>3. PICK v \in S : \A m \in Members(v) : m \notin S
    BY <2>1, <2>2, Lowest
  <2>4. v \in Low(a) /\ v \in Low(b) /\ v \in Tree
    BY <2>2
  <2>5. \A m \in Members(v) : m \in Low(a) /\ m \in Low(b)
    BY <2>4, LowMembers
  <2>6. \A m \in Members(v) : f[m] = g[m]
    BY <2>3, <2>5
  <2>7. f[v] = CanonBody(f, v) /\ g[v] = CanonBody(g, v)
    BY <1>1, <1>2, <2>4
  <2>8. CanonBody(f, v) = CanonBody(g, v)
    BY <2>4, <2>6, CanonLocal
  <2> QED
    BY <2>3, <2>7, <2>8
<1>3. ASSUME NEW n \in Nat  PROVE \E f : Solves(f, n)
  <2> DEFINE S == {k \in Nat : ~\E f : Solves(f, k)}
  <2>1. SUFFICES ASSUME S # {}  PROVE FALSE
    BY <1>3
  <2> HIDE DEF Solves
  <2>2. PICK k \in S : \A m \in S : k <= m
    BY <2>1, Least
  <2>3. CASE k = 0
    <3>1. Low(0) = {}
      BY MembersIn DEF Low
    <3> DEFINE f == [v \in Low(0) |-> CanonBody(<<>>, v)]
    <3>2. f = [v \in Low(0) |-> CanonBody(f, v)]
      BY <3>1
    <3> HIDE DEF f
    <3>3. Solves(f, 0)
      BY <3>2 DEF Solves
    <3> QED
      BY <2>2, <2>3, <3>3
  <2>4. CASE k # 0
    <3>1. k - 1 \in Nat /\ k - 1 < k
      BY <2>4
    <3>2. k - 1 \notin S
      BY <2>2, <3>1
    <3>3. PICK f : Solves(f, k - 1)
      BY <3>1, <3>2
    <3> DEFINE g == [v \in Low(k) |-> CanonBody(f, v)]
    <3>4. ASSUME NEW v \in Low(k)  PROVE CanonBody(f, v) = CanonBody(g, v)
      <4>1. v \in Tree
        BY DEF Low
      <4>2. ASSUME NEW m \in Members(v)  PROVE g[m] = f[m]
        <5>1. m \in Low(k) /\ m \in Low(k - 1)
          BY <2>2, LowMembers
        <5>2. f[m] = CanonBody(f, m)
          BY <1>1, <3>1, <3>3, <5>1
        <5> QED
          BY <5>1, <5>2
      <4> HIDE DEF g
      <4> QED
        BY <4>1, <4>2, CanonLocal
    <3>5. g = [v \in Low(k) |-> CanonBody(g, v)]
      <4>1. g = [v \in Low(k) |-> CanonBody(f, v)]
        OBVIOUS
      <4> HIDE DEF g
      <4>2. [v \in Low(k) |-> CanonBody(f, v)] = [v \in Low(k) |-> CanonBody(g, v)]
        BY <3>4
      <4> QED
        BY <4>1, <4>2
    <3> HIDE DEF g
    <3>6. Solves(g, k)
      BY <3>5 DEF Solves
    <3> QED
      BY <2>2, <3>6
  <2> QED
    BY <2>3, <2>4
<1>4. \A a, b \in Nat : \A f, g : Solves(f, a) /\ Solves(g, b)
        => \A v \in Low(a) \cap Low(b) : f[v] = g[v]
  BY <1>2
<1>5. \A n \in Nat : \E f : Solves(f, n)
  BY <1>3
<1> QED
  BY <1>4, <1>5

LEMMA CanonIs ==
  \A v \in Tree : Canon[v] = CanonBody(Canon, v)
<1> DEFINE Solves(f, n) == f = [v \in Low(n) |-> CanonBody(f, v)]
           At(n) == CHOOSE f : Solves(f, n)
           g == [v \in Tree |-> At(Depth[v] + 1)[v]]
<1>1. ASSUME NEW n \in Nat  PROVE Solves(At(n), n)
  <2>1. \E f : Solves(f, n)
    BY CanonStages
  <2> HIDE DEF Solves
  <2> QED
    BY <2>1
<1>2. ASSUME NEW n \in Nat, NEW v \in Low(n)  PROVE g[v] = At(n)[v]
  <2>1. v \in Tree /\ Depth[v] + 1 \in Nat /\ v \in Low(Depth[v] + 1)
    BY MembersIn DEF Low
  <2>2. Solves(At(Depth[v] + 1), Depth[v] + 1) /\ Solves(At(n), n)
    BY <1>1, <2>1
  <2>3. g[v] = At(Depth[v] + 1)[v]
    BY <2>1
  <2> HIDE DEF At, g
  <2>4. At(Depth[v] + 1)[v] = At(n)[v]
    BY <2>1, <2>2, CanonStages
  <2> QED
    BY <2>3, <2>4
<1>3. ASSUME NEW v \in Tree  PROVE g[v] = CanonBody(g, v)
  <2> DEFINE n == Depth[v] + 1
  <2>1. n \in Nat /\ v \in Low(n)
    BY MembersIn DEF Low
  <2>2. Solves(At(n), n)
    BY <1>1, <2>1
  <2>3. At(n)[v] = CanonBody(At(n), v)
    <3> HIDE DEF At, n
    <3>1. At(n) = [u \in Low(n) |-> CanonBody(At(n), u)]
      BY <2>2
    <3> QED
      BY <2>1, <3>1, Zenon
  <2>4. \A m \in Members(v) : m \in Low(n)
    <3>1. \A m \in Members(v) : m \in Tree /\ Depth[m] \in Nat /\ Depth[m] < Depth[v] /\ Depth[v] \in Nat
      BY MembersIn
    <3> QED
      BY <3>1 DEF Low
  <2> HIDE DEF n, At, g
  <2>5. \A m \in Members(v) : g[m] = At(n)[m]
    BY <1>2, <2>1, <2>4
  <2>6. CanonBody(g, v) = CanonBody(At(n), v)
    BY <2>5, CanonLocal
  <2> QED
    BY <1>2, <2>1, <2>3, <2>6
<1>4. g = [v \in Tree |-> CanonBody(g, v)]
  <2>1. g = [v \in Tree |-> g[v]]
    OBVIOUS
  <2> HIDE DEF g
  <2> QED
    BY <1>3, <2>1
<1>5. \E f : f = [v \in Tree |-> CanonBody(f, v)]
  <2> HIDE DEF g
  <2> QED
    BY <1>4, Zenon
<1>6. Canon = [v \in Tree |-> CanonBody(Canon, v)]
  BY <1>5 DEF Canon, CanonBody
<1> QED
  BY <1>6, Zenon

-----------------------------------------------------------------------------
(* Outputs: fields in a row, beside their size.                            *)

IsSequence(s) == \E S : s \in Seq(S)

Output(o) ==
  /\ o = [fields |-> o.fields, size |-> o.size]
  /\ IsSequence(o.fields) /\ o.size \in Nat

LEMMA CommonSet ==
  ASSUME NEW a, NEW b, NEW c, IsSequence(a), IsSequence(b), IsSequence(c)
  PROVE  \E S : a \in Seq(S) /\ b \in Seq(S) /\ c \in Seq(S)
  <1>1. PICK A, B, C : a \in Seq(A) /\ b \in Seq(B) /\ c \in Seq(C)
    BY DEF IsSequence
  <1> DEFINE S == A \cup B \cup C
  <1>2. A \subseteq S /\ B \subseteq S /\ C \subseteq S
    OBVIOUS
  <1> HIDE DEF S
  <1>3. a \in Seq(S) /\ b \in Seq(S) /\ c \in Seq(S)
    BY <1>1, <1>2, SeqMonotonic
  <1> QED
    BY <1>3

LEMMA ThenOutput ==
  ASSUME NEW a, NEW b, Output(a), Output(b)
  PROVE  Output(Then(a, b))
  <1>1. PICK S : a.fields \in Seq(S) /\ b.fields \in Seq(S)
    BY CommonSet DEF Output
  <1>2. a.fields \o b.fields \in Seq(S)
    BY <1>1, ConcatProperties
  <1>3. a.size + b.size \in Nat
    BY DEF Output
  <1> QED
    BY <1>2, <1>3 DEF Output, IsSequence, Then

LEMMA ThenAssociative ==
  ASSUME NEW a, NEW b, NEW c, Output(a), Output(b), Output(c)
  PROVE  Then(Then(a, b), c) = Then(a, Then(b, c))
  <1>1. PICK S : a.fields \in Seq(S) /\ b.fields \in Seq(S) /\ c.fields \in Seq(S)
    BY CommonSet DEF Output
  <1>2. (a.fields \o b.fields) \o c.fields = a.fields \o (b.fields \o c.fields)
    <2> DEFINE p == a.fields  q == b.fields  r == c.fields
    <2>1. p \in Seq(S) /\ q \in Seq(S) /\ r \in Seq(S)
      BY <1>1
    <2> HIDE DEF p, q, r
    <2>2. (p \o q) \o r = p \o (q \o r)
      BY <2>1, ConcatAssociative
    <2> QED
      BY <2>2 DEF p, q, r
  <1>3. (a.size + b.size) + c.size = a.size + (b.size + c.size)
    BY DEF Output
  <1> QED
    BY <1>2, <1>3 DEF Then

LEMMA ThenNothing ==
  /\ Output(Nothing)
  /\ \A a : Output(a) => Then(a, Nothing) = a /\ Then(Nothing, a) = a
  <1>1. Output(Nothing)
    <2>1. <<>> \in Seq({})
      OBVIOUS
    <2> QED
      BY <2>1 DEF Output, Nothing, IsSequence
  <1>2. ASSUME NEW a, Output(a)  PROVE Then(a, Nothing) = a /\ Then(Nothing, a) = a
    <2>1. PICK S : a.fields \in Seq(S)
      BY <1>2 DEF Output, IsSequence
    <2>2. a.fields \o <<>> = a.fields /\ <<>> \o a.fields = a.fields
      BY <2>1, ConcatEmptySeq
    <2>3. a.size + 0 = a.size /\ 0 + a.size = a.size /\ a = [fields |-> a.fields, size |-> a.size]
      BY <1>2 DEF Output
    <2> QED
      BY <2>2, <2>3 DEF Then, Nothing
  <1> QED
    BY <1>1, <1>2

\* One field, and what follows it.
LEMMA FieldOutput ==
  ASSUME NEW what, NEW of, NEW size \in Nat
  PROVE  Output(Field(what, of, size))
  <1> DEFINE f == [what |-> what, of |-> of, size |-> size]
  <1>1. <<f>> \in Seq({f})
    OBVIOUS
  <1> HIDE DEF f
  <1>2. Field(what, of, size) = [fields |-> <<f>>, size |-> size]
    BY DEF Field, f
  <1> DEFINE o == Field(what, of, size)
  <1>3. o.fields = <<f>> /\ o.size = size /\ o = [fields |-> o.fields, size |-> o.size]
    BY <1>2
  <1> HIDE DEF o
  <1>4. IsSequence(o.fields)
    BY <1>1, <1>3 DEF IsSequence
  <1>5. Output(o)
    BY <1>3, <1>4 DEF Output
  <1> QED
    BY <1>5 DEF o

LEMMA FieldThen ==
  ASSUME NEW what, NEW of, NEW size \in Nat, NEW t, Output(t),
         NEW o, o = Then(Field(what, of, size), t)
  PROVE  /\ o.fields # <<>> /\ Head(o.fields) = [what |-> what, of |-> of, size |-> size]
         /\ Tail(o.fields) = t.fields /\ o.size = size + t.size
  <1> DEFINE f == [what |-> what, of |-> of, size |-> size]
  <1>1. PICK T : t.fields \in Seq(T)
    BY DEF Output, IsSequence
  <1> DEFINE S == T \cup {f}
  <1>2. t.fields \in Seq(S)
    BY <1>1, SeqMonotonic
  <1>3. o.fields = <<f>> \o t.fields /\ o.size = size + t.size
    BY DEF Then, Field
  <1>4. f \in S
    OBVIOUS
  <1> HIDE DEF f, S
  <1> DEFINE s == <<f>> \o t.fields
  <1>5. /\ s \in Seq(S) /\ Len(s) = 1 + Len(t.fields) /\ Len(t.fields) \in Nat
        /\ s[1] = f /\ \A i \in 1..Len(t.fields) : s[i + 1] = t.fields[i]
    BY <1>2, <1>4
  <1> HIDE DEF s
  <1>6. s # <<>> /\ Head(s) = f
    BY <1>5
  <1>7. /\ Tail(s) \in Seq(S) /\ Len(Tail(s)) = Len(t.fields)
        /\ \A i \in 1..Len(Tail(s)) : Tail(s)[i] = s[i + 1]
    BY <1>5, <1>6, HeadTailProperties
  <1>8. Tail(s) = t.fields
    BY <1>2, <1>5, <1>7, SeqEqual
  <1> QED
    BY <1>3, <1>6, <1>8 DEF f, s

LEMMA MarkOutput ==
  ASSUME NEW m  PROVE Output(Mark(m)) /\ Mark(m) = Field("mark", m, 1)
  BY FieldOutput DEF Mark

-----------------------------------------------------------------------------
(* What the writer sends of each part, and what the reader makes of it.    *)

LEMMA ScalarTable ==
  /\ \A m \in {"t", "f"} : R!ScalarOf(m) = <<"Bool", 0>>
  /\ R!ScalarOf("n") = <<"Null", 0>> /\ R!ScalarOf("c") = <<"Char", 1>>
  /\ \A w \in {1, 2, 4, 8} : /\ R!ScalarOf(UintMark(w)) = <<"UnsignedInt", w>>
                             /\ R!ScalarOf(SintMark(w)) = <<"SignedInt", w>>
  /\ R!ScalarOf("d") = <<"Float", 4>> /\ R!ScalarOf("D") = <<"Float", 8>>
  BY DEF R!ScalarOf, R!Scalars, UintMark, SintMark

LEMMA CountTable ==
  ASSUME NEW w \in Widths
  PROVE  /\ UintMark(w) \in DOMAIN R!CountWidth /\ R!CountWidth[UintMark(w)] = w
  BY DEF R!CountWidth, UintMark, Widths

\* The markers that announce a container, a text or nothing the writer sends.
Structural == {"{", "[", "(", "s", "b"}

LEMMA NumberMarks ==
  /\ "c" \notin Structural /\ "d" \notin Structural /\ "D" \notin Structural
  /\ \A w \in {1, 2, 4, 8} : UintMark(w) \notin Structural /\ SintMark(w) \notin Structural
  BY DEF Structural, UintMark, SintMark

NumberOf(mark, n, w) == Then(Mark(mark), Field("number", n, w))

LEMMA NumberOutput ==
  ASSUME NEW mark, NEW n, NEW w \in {1, 2, 4, 8}
  PROVE  Output(NumberOf(mark, n, w)) /\ Number(mark, n, w).out = NumberOf(mark, n, w)
  BY MarkOutput, FieldOutput, ThenOutput DEF NumberOf, Number, Appended

\* A count is sent at a width of at most four bytes.
LEMMA SizeShape ==
  ASSUME NEW n \in Nat, UintWidth(n) # 8
  PROVE  /\ UintWidth(n) \in Widths /\ n \in 0..MaxCount
         /\ append_size(n).out = NumberOf(UintMark(UintWidth(n)), n, UintWidth(n))
         /\ Output(append_size(n).out)
  <1> DEFINE w == UintWidth(n)
             S == {x \in Widths : n <= Umax[x]} \cup {8}
  <1>1. w \in {1, 2, 4, 8}
    BY WidthsIn
  <1>2. w \in Widths
    BY <1>1 DEF Widths
  <1>3. n <= Umax[w]
    <2>1. w = CHOOSE y \in S : \A x \in S : y <= x
      BY DEF UintWidth, Narrowest
    <2>2. \E y \in S : \A x \in S : y <= x
      <3>1. S \subseteq {1, 2, 4, 8} /\ 8 \in S
        BY DEF Widths
      <3> HIDE DEF S
      <3>2. CASE 1 \in S
        BY <3>1, <3>2
      <3>3. CASE 1 \notin S /\ 2 \in S
        BY <3>1, <3>3
      <3>4. CASE 1 \notin S /\ 2 \notin S /\ 4 \in S
        BY <3>1, <3>4
      <3>5. CASE 1 \notin S /\ 2 \notin S /\ 4 \notin S
        BY <3>1, <3>5
      <3> QED
        BY <3>2, <3>3, <3>4, <3>5
    <2>3. w \in S
      <3> HIDE DEF S, w
      <3> QED
        BY <2>1, <2>2
    <2> QED
      BY <2>3
  <1>4. n \in 0..MaxCount
    BY <1>2, <1>3, StreamAssumption, LimitAssumption
  <1>5. append_size(n) = Number(UintMark(w), n, w)
    BY DEF append_size, append_unsignedInt
  <1> QED
    BY <1>1, <1>2, <1>4, <1>5, NumberOutput

\* What is left of a leaf after it has been written and read.
LEMMA CanonOfLeaf ==
  ASSUME NEW v \in Tree, ~Container(v)
  PROVE  Canon[v] = IF v.kind = "SignedInt" /\ v.n >= 0 THEN R!Leaf("UnsignedInt")
                                                        ELSE R!Leaf(v.kind)
  <1>1. Members(v) = {}
    BY DEF Members
  <1>2. Canon[v] = CanonBody(Canon, v)
    BY CanonIs
  <1>3. CanonBody(Canon, v) = IF v.kind = "SignedInt" /\ v.n >= 0 THEN R!Leaf("UnsignedInt")
                                                                ELSE R!Leaf(v.kind)
    BY <1>1 DEF CanonBody
  <1> QED
    BY <1>2, <1>3

Bare(v) ==
  \E mark : /\ append_value(v).out = Mark(mark)
            /\ mark \notin Structural /\ R!ScalarOf(mark)[2] = 0
            /\ Canon[v] = R!Leaf(R!ScalarOf(mark)[1])

Numeric(v) ==
  \E mark, n : \E w \in {1, 2, 4, 8} :
    /\ append_value(v).out = NumberOf(mark, n, w)
    /\ mark \notin Structural /\ R!ScalarOf(mark)[2] = w
    /\ Canon[v] = R!Leaf(R!ScalarOf(mark)[1])

Textual(v) ==
  \E mark \in {"s", "b"} : \E n \in 0..MaxCount : \E w \in Widths :
    /\ append_value(v).out
         = Then(Mark(mark), Then(NumberOf(UintMark(w), n, w), Field("data", 0, n)))
    /\ Canon[v] = R!Leaf(IF mark = "s" THEN "String" ELSE "Binary")

LEMMA LeafShape ==
  ASSUME NEW v \in Tree, ~Container(v), Representable(v)
  PROVE  Bare(v) \/ Numeric(v) \/ Textual(v)
  <1>1. v.kind \in {"Null", "Bool", "Char", "SignedInt", "UnsignedInt", "Float", "String", "Binary"}
    BY TreeAssumption DEF Container
  <1>2. CASE v.kind = "Null"
    <2>1. append_value(v).out = Mark("n")
      BY <1>2 DEF append_value, Appended
    <2>2. "n" \notin Structural /\ R!ScalarOf("n") = <<"Null", 0>>
      BY ScalarTable DEF Structural
    <2>3. Canon[v] = R!Leaf("Null")
      BY <1>2, CanonOfLeaf
    <2> QED
      BY <2>1, <2>2, <2>3 DEF Bare
  <1>3. CASE v.kind = "Bool"
    <2> DEFINE mark == IF v.n = 0 THEN "f" ELSE "t"
    <2>1. append_value(v).out = Mark(mark)
      BY <1>3 DEF append_value, Appended
    <2>2. mark \notin Structural /\ R!ScalarOf(mark) = <<"Bool", 0>>
      BY ScalarTable DEF Structural
    <2>3. Canon[v] = R!Leaf("Bool")
      BY <1>3, CanonOfLeaf
    <2> HIDE DEF mark
    <2> QED
      BY <2>1, <2>2, <2>3 DEF Bare
  <1>4. CASE v.kind = "Char"
    <2>1. append_value(v).out = NumberOf("c", 0, 1)
      BY <1>4, NumberOutput DEF append_value
    <2>2. "c" \notin Structural /\ R!ScalarOf("c") = <<"Char", 1>>
      BY ScalarTable, NumberMarks
    <2>3. Canon[v] = R!Leaf("Char")
      BY <1>4, CanonOfLeaf
    <2> QED
      BY <2>1, <2>2, <2>3 DEF Numeric
  <1>5. ASSUME append_value(v) = append_unsignedInt(v.n), Canon[v] = R!Leaf("UnsignedInt")
        PROVE  Numeric(v)
    <2> DEFINE w == UintWidth(v.n)
    <2>1. w \in {1, 2, 4, 8}
      BY WidthsIn
    <2>2. append_value(v).out = NumberOf(UintMark(w), v.n, w)
      BY <1>5, <2>1, NumberOutput DEF append_unsignedInt
    <2>3. UintMark(w) \notin Structural /\ R!ScalarOf(UintMark(w)) = <<"UnsignedInt", w>>
      BY <2>1, ScalarTable, NumberMarks
    <2> HIDE DEF w
    <2> QED
      BY <1>5, <2>1, <2>2, <2>3 DEF Numeric
  <1>6. CASE v.kind = "SignedInt" /\ ~(v.n >= 0)
    <2> DEFINE w == SintWidth(v.n)
    <2>1. w \in {1, 2, 4, 8}
      BY WidthsIn
    <2>2. append_value(v) = Number(SintMark(w), v.n, w)
      BY <1>6 DEF append_value, append_signedInt
    <2>3. append_value(v).out = NumberOf(SintMark(w), v.n, w)
      BY <2>1, <2>2, NumberOutput
    <2>4. SintMark(w) \notin Structural /\ R!ScalarOf(SintMark(w)) = <<"SignedInt", w>>
      BY <2>1, ScalarTable, NumberMarks
    <2>5. Canon[v] = R!Leaf("SignedInt")
      BY <1>6, CanonOfLeaf
    <2> HIDE DEF w
    <2> QED
      BY <2>1, <2>3, <2>4, <2>5 DEF Numeric
  <1>7. CASE v.kind = "Float"
    <2>1. v.n \in {4, 8}
      BY <1>7, TreeAssumption DEF Representable
    <2> DEFINE mark == IF v.n = 4 THEN "d" ELSE "D"
    <2>2. append_value(v) = Number(mark, 0, v.n)
      <3>1. append_value(v) = append_float(v.n)
        BY <1>7 DEF append_value
      <3>2. append_float(4) = Number("d", 0, 4) /\ append_float(8) = Number("D", 0, 8)
        BY DEF append_float
      <3> QED
        BY <2>1, <3>1, <3>2
    <2>3. append_value(v).out = NumberOf(mark, 0, v.n)
      BY <2>1, <2>2, NumberOutput
    <2>4. mark \notin Structural /\ R!ScalarOf(mark) = <<"Float", v.n>>
      BY <2>1, ScalarTable, NumberMarks
    <2>5. Canon[v] = R!Leaf("Float")
      BY <1>7, CanonOfLeaf
    <2> HIDE DEF mark
    <2> QED
      BY <2>1, <2>3, <2>4, <2>5 DEF Numeric
  <1>8. CASE v.kind \in {"String", "Binary"}
    <2> DEFINE mark == IF v.kind = "String" THEN "s" ELSE "b"
               w == UintWidth(v.n)  s == append_size(v.n)
    <2>1. v.n \in Nat /\ w # 8
      BY <1>8, TreeAssumption DEF Representable
    <2>2. w \in Widths /\ v.n \in 0..MaxCount /\ s.out = NumberOf(UintMark(w), v.n, w)
          /\ Output(s.out)
      BY <2>1, SizeShape
    <2>3. append_value(v) = append_text(mark, v.n)
      BY <1>8 DEF append_value
    <2> HIDE DEF mark, w, s
    <2>4. append_value(v).out = Then(Then(Mark(mark), s.out), Field("data", 0, v.n))
      BY <2>3 DEF append_text, Appended, s
    <2>5. Output(Mark(mark)) /\ Output(Field("data", 0, v.n))
      BY <2>1, MarkOutput, FieldOutput
    <2>6. append_value(v).out = Then(Mark(mark), Then(s.out, Field("data", 0, v.n)))
      BY <2>2, <2>4, <2>5, ThenAssociative
    <2>7. Canon[v] = R!Leaf(IF mark = "s" THEN "String" ELSE "Binary") /\ mark \in {"s", "b"}
      BY <1>8, CanonOfLeaf DEF mark
    <2> QED
      BY <2>2, <2>6, <2>7 DEF Textual
  <1>9. CASE v.kind = "SignedInt"
    <2>1. CASE v.n >= 0
      <3>1. append_value(v) = append_unsignedInt(v.n)
        BY <1>9, <2>1 DEF append_value, append_signedInt
      <3>2. Canon[v] = R!Leaf("UnsignedInt")
        BY <1>9, <2>1, CanonOfLeaf
      <3> QED
        BY <1>5, <3>1, <3>2
    <2>2. CASE ~(v.n >= 0)
      BY <1>6, <1>9, <2>2, Zenon
    <2> QED
      BY <2>1, <2>2
  <1>10. CASE v.kind = "UnsignedInt"
    <2>1. append_value(v) = append_unsignedInt(v.n)
      BY <1>10 DEF append_value
    <2>2. Canon[v] = R!Leaf("UnsignedInt")
      BY <1>10, CanonOfLeaf
    <2> QED
      BY <1>5, <2>1, <2>2
  <1> QED
    BY <1>1, <1>2, <1>3, <1>4, <1>7, <1>8, <1>9, <1>10

\* An array without members is written without a size.
EmptyArray(v) == v.kind = "Array" /\ v.items = <<>>

Bracket(v) == IF v.kind = "Map" THEN "{" ELSE "["
EndOf(v)   == IF v.kind = "Map" THEN "}" ELSE "]"

SizeOf(v) == Cardinality(DOMAIN v.items)

LEMMA OpeningShape ==
  ASSUME NEW v \in Tree, Container(v)
  PROVE  /\ EmptyArray(v) => Opening(v).out = Mark("[")
         /\ ~EmptyArray(v) => Opening(v).out = Then(Mark(Bracket(v)), append_size(SizeOf(v)).out)
  <1>1. CASE v.kind = "Map"
    <2>1. Opening(v).out = Then(Mark("{"), append_size(SizeOf(v)).out)
      BY <1>1 DEF Opening, SizeOf
    <2> QED
      BY <1>1, <2>1 DEF EmptyArray, Bracket
  <1>2. CASE v.kind = "Array" /\ v.items # <<>>
    <2>1. Opening(v).out = Then(Mark("["), append_size(SizeOf(v)).out)
      BY <1>2 DEF Opening, SizeOf
    <2> QED
      BY <1>2, <2>1 DEF EmptyArray, Bracket
  <1>3. CASE v.kind = "Array" /\ v.items = <<>>
    <2>1. Opening(v).out = Mark("[")
      BY <1>3 DEF Opening, Appended
    <2> QED
      BY <1>3, <2>1 DEF EmptyArray
  <1> QED
    BY <1>1, <1>2, <1>3 DEF Container

LEMMA RepresentableSize ==
  ASSUME NEW v \in Tree, Container(v), Representable(v)
  PROVE  UintWidth(SizeOf(v)) # 8 /\ SizeOf(v) \in Nat
  <1>1. SizeOf(v) \in Nat
    BY TreeAssumption, FS_CardinalityType DEF SizeOf
  <1>2. v.kind # "Float" /\ v.kind \notin {"String", "Binary"}
    BY DEF Container
  <1>3. UintWidth(SizeOf(v)) # 8
    BY <1>2 DEF Representable, SizeOf
  <1> QED
    BY <1>1, <1>3

LEMMA SizeOutput ==
  ASSUME NEW n  PROVE Output(append_size(n).out)
  <1>1. UintWidth(n) \in {1, 2, 4, 8}
    BY WidthsIn
  <1>2. Output(append_unsignedInt(n).out)
    BY <1>1, NumberOutput DEF append_unsignedInt
  <1> QED
    BY <1>2, ThenNothing DEF append_size, Appended

LEMMA OpeningOutput ==
  ASSUME NEW v \in Tree, Container(v)  PROVE Output(Opening(v).out)
  BY OpeningShape, SizeOutput, MarkOutput, ThenOutput

LEMMA LeafOutput ==
  ASSUME NEW v \in Tree, ~Container(v)  PROVE Output(append_value(v).out)
  <1>1. v.kind \in {"Null", "Bool", "Char", "SignedInt", "UnsignedInt", "Float", "String", "Binary"}
    BY TreeAssumption DEF Container
  <1>2. \A m, n : \A w \in {1, 2, 4, 8} : Output(Number(m, n, w).out)
    BY NumberOutput
  <1>3. \A n : Output(append_unsignedInt(n).out) /\ Output(append_signedInt(n).out)
    BY <1>2, WidthsIn DEF append_unsignedInt, append_signedInt
  <1>4. \A w : Output(append_float(w).out)
    BY <1>2, ThenNothing DEF append_float, Appended
  <1>5. ASSUME NEW m, v.n \in Nat  PROVE Output(append_text(m, v.n).out)
    <2> DEFINE s == append_size(v.n)
    <2>1. Output(s.out) /\ Output(Mark(m)) /\ Output(Field("data", 0, v.n))
      BY <1>5, SizeOutput, MarkOutput, FieldOutput
    <2>2. append_text(m, v.n).out = Then(Then(Mark(m), s.out), Field("data", 0, v.n))
      BY DEF append_text, Appended
    <2> HIDE DEF s
    <2> QED
      BY <2>1, <2>2, ThenOutput
  <1>6. CASE v.kind \in {"Null", "Bool"}
    BY <1>6, MarkOutput DEF append_value, Appended
  <1>7. CASE v.kind \in {"Char", "SignedInt", "UnsignedInt", "Float"}
    BY <1>2, <1>3, <1>4, <1>7 DEF append_value
  <1>8. CASE v.kind \in {"String", "Binary"}
    <2>1. v.n \in Nat
      BY <1>8, TreeAssumption
    <2> QED
      BY <1>5, <1>8, <2>1 DEF append_value
  <1> QED
    BY <1>1, <1>6, <1>7, <1>8

-----------------------------------------------------------------------------
(* Containers: how deep they are, and what is left of them.                *)

LEMMA DepthZero ==
  ASSUME NEW v \in Tree, ~Container(v) \/ EmptyArray(v)  PROVE Depth[v] = 0
  <1>1. Depth[v] = DepthBody(Depth, v)
    BY DepthIs
  <1>2. DepthBody(Depth, v) = 0
    BY DEF DepthBody, EmptyArray, Container
  <1> QED
    BY <1>1, <1>2

\* A container is one deeper than the deepest of its members.
LEMMA DepthBound ==
  ASSUME NEW v \in Tree, Container(v), ~EmptyArray(v)
  PROVE  /\ Depth[v] >= 1
         /\ \A n \in Nat : (\A m \in Members(v) : Depth[m] <= n) => Depth[v] <= n + 1
  <1> DEFINE below == {0} \cup {Depth[m] : m \in Members(v)}
             bounds == {n \in Nat : \A e \in below : e <= n}
             d == CHOOSE x \in below : \A e \in below : e <= x
  <1>1. Depth[v] = DepthBody(Depth, v)
    BY DepthIs
  <1>2. DepthBody(Depth, v) = 1 + d
    BY Zenon DEF DepthBody, EmptyArray
  <1>3. below \subseteq Nat /\ Depth[v] \in Nat /\ \A e \in below : e <= Depth[v]
    BY MembersIn
  <1>4. Depth[v] \in bounds
    BY <1>3
  <1>5. PICK n \in bounds : \A m \in bounds : n <= m
    <2>1. bounds \in SUBSET Nat /\ bounds # {}
      BY <1>4
    <2> HIDE DEF bounds
    <2> QED
      BY <2>1, Least
  <1>6. n \in below
    <2> SUFFICES ASSUME n \notin below  PROVE FALSE
      OBVIOUS
    <2> HIDE DEF below
    <2>1. \A e \in below : e \in Nat /\ e <= n /\ e # n
      BY <1>3
    <2>2. 0 \in below
      BY DEF below
    <2>3. n - 1 \in Nat
      BY <2>1, <2>2
    <2>4. \A e \in below : e <= n - 1
      BY <2>1, <2>3
    <2>5. n - 1 \in bounds
      BY <2>3, <2>4
    <2> QED
      BY <1>5, <2>3, <2>5
  <1>7. d \in below
    <2>1. \E x \in below : \A e \in below : e <= x
      BY <1>5, <1>6
    <2> HIDE DEF below
    <2> QED
      BY <2>1
  <1>8. ASSUME NEW k \in Nat, \A m \in Members(v) : Depth[m] <= k  PROVE d <= k
    <2> HIDE DEF d
    <2>1. d = 0 \/ \E m \in Members(v) : d = Depth[m]
      BY <1>7
    <2> QED
      BY <1>8, <2>1
  <1> HIDE DEF d
  <1>9. d \in Nat /\ Depth[v] = 1 + d
    BY <1>1, <1>2, <1>3, <1>7
  <1> QED
    BY <1>8, <1>9

\* What the reader makes of the members under the keys in D.
Filled(v, D) ==
  IF D = {} THEN Empty
  ELSE [kind |-> v.kind, items |-> [k \in D |-> Canon[v.items[k]]]]

LEMMA CanonOfContainer ==
  ASSUME NEW v \in Tree, Container(v)  PROVE Canon[v] = Filled(v, DOMAIN v.items)
  <1>1. Canon[v] = CanonBody(Canon, v)
    BY CanonIs
  <1>2. Members(v) = {} <=> DOMAIN v.items = {}
    BY DEF Members
  <1>5. v.kind # "SignedInt"
    BY DEF Container
  <1>3. CASE DOMAIN v.items = {}
    BY <1>1, <1>2, <1>3, <1>5 DEF CanonBody, Filled
  <1>4. CASE DOMAIN v.items # {}
    BY <1>1, <1>2, <1>4, <1>5 DEF CanonBody, Filled
  <1> QED
    BY <1>3, <1>4

LEMMA OrderOnto ==
  ASSUME NEW v \in Tree, Container(v), NEW order \in Orders(v)
  PROVE  /\ Len(order) = SizeOf(v)
         /\ {order[t] : t \in 1..Len(order)} = DOMAIN v.items
         /\ v.kind = "Array" => \A t \in 1..Len(order) : order[t] = t
  <1> DEFINE D == DOMAIN v.items
  <1>1. CASE v.kind = "Array"
    <2>1. D = 1..Len(v.items) /\ Len(v.items) \in Nat
      BY <1>1, TreeAssumption
    <2>2. order = [i \in D |-> i]
      BY <1>1 DEF Orders
    <2>3. Cardinality(1..Len(v.items)) = Len(v.items)
      BY <2>1, FS_Interval
    <2>4. Len(order) = Len(v.items) /\ \A t \in 1..Len(order) : order[t] = t
      BY <2>1, <2>2
    <2>5. {order[t] : t \in 1..Len(order)} = 1..Len(v.items)
      BY <2>4
    <2> QED
      BY <2>1, <2>3, <2>4, <2>5 DEF SizeOf
  <1>2. CASE v.kind = "Map"
    <2>1. /\ order \in [1..Cardinality(D) -> D]
          /\ \A k \in D : \E i \in DOMAIN order : order[i] = k
      BY <1>2 DEF Orders
    <2>2. Cardinality(D) \in Nat
      BY TreeAssumption, FS_CardinalityType
    <2> HIDE DEF D
    <2>3. Len(order) = Cardinality(D) /\ DOMAIN order = 1..Len(order)
      BY <2>1, <2>2
    <2>4. {order[t] : t \in 1..Len(order)} = D
      BY <2>1, <2>3
    <2> QED
      BY <1>2, <2>3, <2>4 DEF D, SizeOf
  <1> QED
    BY <1>1, <1>2 DEF Container

-----------------------------------------------------------------------------
(* The writer's activations, and its moves from one stack of them to the   *)
(* next; the pair an activation will return is left out of it.             *)

NextOf(a) == a.val.items[a.order[a.next]]
Child(a)  == a.val.items[a.order[a.next - 1]]
Taken(a)  == a.next > Len(a.order)

\* Each activation is of the member that the one below it has last taken.
Chain(cs, v) ==
  /\ GoodCalls(cs)
  /\ \A i \in 1..Len(cs) :
       /\ cs[i].order \in Orders(cs[i].val)
       /\ Parts[cs[i].val] \subseteq Parts[v]
       /\ Depth[cs[i].val] + i <= Depth[v] + 1
  /\ \A i \in 1..Len(cs) : i < Len(cs) => cs[i].next >= 2 /\ cs[i + 1].val = Child(cs[i])
  /\ cs # <<>> => cs[1].val = v

Same(a, b) == b.val = a.val /\ b.order = a.order /\ b.next = a.next
Goes(a, b) == b.val = a.val /\ b.order = a.order /\ b.next = a.next + 1

LabelOut(a)  == IF a.val.kind = "Map" THEN append_key(a.order[a.next]).out ELSE Nothing
MemberOut(m) == IF Container(m) THEN Opening(m).out ELSE append_value(m).out

\* A member is taken, or the last activation ends; o is what is sent.
Takes(W, o, X) ==
  LET n == Len(W)  a == W[n]  IN
  /\ ~Taken(a)
  /\ a.val.kind = "Map" => KeyLen[a.order[a.next]] <= 255
  /\ o = Then(LabelOut(a), MemberOut(NextOf(a)))
  /\ Goes(a, X[n])
  /\ ~Container(NextOf(a)) => Len(X) = n
  /\ Container(NextOf(a)) => /\ Len(X) = n + 1 /\ X[n + 1].next = 1
                             /\ X[n + 1].val = NextOf(a)
                             /\ X[n + 1].order \in Orders(NextOf(a))

Ends(W, o, X) ==
  LET n == Len(W)  a == W[n]  IN
  Taken(a) /\ o = Mark(EndOf(a.val)) /\ Len(X) = n - 1

Moves(W, o, X) ==
  /\ W # <<>> /\ \A i \in 1..(Len(W) - 1) : Same(W[i], X[i])
  /\ Takes(W, o, X) \/ Ends(W, o, X)

LEMMA ChainLen ==
  ASSUME NEW cs, NEW v, Chain(cs, v)
  PROVE  /\ Len(cs) \in Nat /\ (cs # <<>> <=> Len(cs) >= 1)
         /\ \A i \in 1..Len(cs) : GoodCall(cs[i]) /\ cs[i].val \in Tree /\ Container(cs[i].val)
  <1>1. cs \in Seq(CallType) /\ \A i \in 1..Len(cs) : GoodCall(cs[i])
    BY DEF Chain, GoodCalls
  <1>2. \A i \in 1..Len(cs) : cs[i].val \in Tree /\ Container(cs[i].val)
    BY <1>1, CallFields
  <1> QED
    BY <1>1, <1>2

\* The members an activation takes are members of its container.
LEMMA NextMember ==
  ASSUME NEW a, GoodCall(a)
  PROVE  /\ ~Taken(a) => NextOf(a) \in Members(a.val) /\ a.order[a.next] \in DOMAIN a.val.items
         /\ a.next >= 2 => Child(a) \in Members(a.val) /\ a.order[a.next - 1] \in DOMAIN a.val.items
  <1>1. /\ Container(a.val) /\ a.next \in Nat /\ Len(a.order) \in Nat
        /\ a.next >= 1 /\ a.next <= Len(a.order) + 1
        /\ \A i \in 1..Len(a.order) : a.order[i] \in DOMAIN a.val.items
    BY CallFields DEF GoodCall
  <1>2. ASSUME ~Taken(a)  PROVE a.next \in 1..Len(a.order)
    BY <1>1, <1>2 DEF Taken
  <1>3. ASSUME a.next >= 2  PROVE a.next - 1 \in 1..Len(a.order)
    BY <1>1, <1>3
  <1> QED
    BY <1>1, <1>2, <1>3 DEF NextOf, Child, Members

LEMMA PartOfMember ==
  ASSUME NEW v \in Tree, NEW m \in Members(v)
  PROVE  m \in Parts[v] /\ Parts[m] \subseteq Parts[v] /\ m \in Parts[m]
  <1>1. m \in Tree
    BY MembersIn
  <1>2. m \in Parts[m]
    BY <1>1, PartsAre
  <1>3. Parts[m] \subseteq Parts[v]
    BY PartsAre
  <1> QED
    BY <1>2, <1>3

LEMMA ChainStep ==
  ASSUME NEW W, NEW v \in Tree, NEW o, NEW X, Chain(W, v), GoodCalls(X), Moves(W, o, X)
  PROVE  Chain(X, v)
  <1> DEFINE n == Len(W)  a == W[n]
  <1>1. n \in Nat /\ n >= 1 /\ GoodCall(a) /\ a.val \in Tree /\ n \in 1..n
    BY ChainLen DEF Moves
  <1>2. X \in Seq(CallType) /\ Len(X) \in Nat
    BY DEF GoodCalls
  <1>3. \A i \in 1..(n - 1) : Same(W[i], X[i])
    BY DEF Moves
  <1>4. /\ \A i \in 1..n : /\ W[i].order \in Orders(W[i].val) /\ Parts[W[i].val] \subseteq Parts[v]
                           /\ Depth[W[i].val] + i <= Depth[v] + 1
        /\ \A i \in 1..n : i < n => W[i].next >= 2 /\ W[i + 1].val = Child(W[i])
        /\ W[1].val = v
    BY DEF Chain, Moves
  <1>5. CASE Ends(W, o, X)
    <2>1. Len(X) = n - 1
      BY <1>5 DEF Ends
    <2>2. \A i \in 1..Len(X) : /\ X[i].order \in Orders(X[i].val) /\ Parts[X[i].val] \subseteq Parts[v]
                               /\ Depth[X[i].val] + i <= Depth[v] + 1
      BY <1>1, <1>3, <1>4, <2>1 DEF Same
    <2>3. ASSUME NEW i \in 1..Len(X), i < Len(X)
          PROVE  X[i].next >= 2 /\ X[i + 1].val = Child(X[i])
      <3>1. Same(W[i], X[i]) /\ Same(W[i + 1], X[i + 1]) /\ i \in 1..n /\ i < n
        BY <1>1, <1>3, <2>1, <2>3
      <3> QED
        BY <1>4, <3>1 DEF Same, Child
    <2>4. X # <<>> => X[1].val = v
      BY <1>1, <1>2, <1>3, <1>4, <2>1 DEF Same
    <2> QED
      BY <2>2, <2>3, <2>4 DEF Chain
  <1>6. CASE Takes(W, o, X)
    <2> DEFINE m == NextOf(a)
    <2>1. ~Taken(a) /\ Goes(a, X[n])
      BY <1>6 DEF Takes
    <2>2. m \in Members(a.val) /\ a.next \in Nat /\ a.next >= 1
      BY <1>1, <2>1, NextMember, CallFields
    <2>3. m = Child(X[n]) /\ X[n].next >= 2
      BY <1>1, <2>1, <2>2 DEF Goes, Child, NextOf
    <2>4. \A i \in 1..n : /\ X[i].order \in Orders(X[i].val) /\ Parts[X[i].val] \subseteq Parts[v]
                          /\ Depth[X[i].val] + i <= Depth[v] + 1
      <3>1. ASSUME NEW i \in 1..n  PROVE X[i].order = W[i].order /\ X[i].val = W[i].val
        BY <1>1, <1>3, <2>1 DEF Same, Goes
      <3> QED
        BY <1>4, <3>1
    <2>5. ASSUME NEW i \in 1..n, i < n
          PROVE  X[i].next >= 2 /\ X[i + 1].val = Child(X[i])
      <3>1. Same(W[i], X[i]) /\ X[i + 1].val = W[i + 1].val
        BY <1>1, <1>3, <2>1, <2>5 DEF Same, Goes
      <3> QED
        BY <1>4, <2>5, <3>1 DEF Same, Child
    <2>6. X[1].val = v
      BY <1>1, <1>3, <1>4, <2>1 DEF Same, Goes
    <2>7. CASE ~Container(m)
      <3>1. Len(X) = n
        BY <1>6, <2>7 DEF Takes
      <3> QED
        BY <2>4, <2>5, <2>6, <3>1 DEF Chain
    <2>8. CASE Container(m)
      <3>1. Len(X) = n + 1 /\ X[n + 1].val = m /\ X[n + 1].order \in Orders(m)
        BY <1>6, <2>8 DEF Takes
      <3>2. Parts[m] \subseteq Parts[v]
        BY <1>1, <1>4, <2>2, PartOfMember
      <3>3. Depth[m] + (n + 1) <= Depth[v] + 1
        <4>1. Depth[m] \in Nat /\ Depth[m] < Depth[a.val] /\ Depth[a.val] \in Nat /\ Depth[v] \in Nat
          BY <1>1, <2>2, MembersIn
        <4>2. Depth[a.val] + n <= Depth[v] + 1
          BY <1>1, <1>4
        <4> QED
          BY <1>1, <4>1, <4>2
      <3> HIDE DEF m, n, a
      <3>4. \A i \in 1..Len(X) : i \in 1..n \/ i = n + 1
        BY <1>1, <3>1
      <3>5. \A i \in 1..Len(X) : /\ X[i].order \in Orders(X[i].val) /\ Parts[X[i].val] \subseteq Parts[v]
                                 /\ Depth[X[i].val] + i <= Depth[v] + 1
        BY <2>4, <3>1, <3>2, <3>3, <3>4
      <3>6. \A i \in 1..Len(X) : i < Len(X) => X[i].next >= 2 /\ X[i + 1].val = Child(X[i])
        <4>1. \A i \in 1..Len(X) : i < Len(X) => i \in 1..n /\ (i < n \/ i = n)
          BY <1>1, <3>1
        <4> QED
          BY <2>3, <2>5, <3>1, <4>1
      <3> QED
        BY <2>6, <3>5, <3>6 DEF Chain
    <2> QED
      BY <2>7, <2>8
  <1> QED
    BY <1>5, <1>6 DEF Moves

LEMMA KeyShape ==
  ASSUME NEW k \in DOMAIN KeyLen
  PROVE  LET len == Field("keyLen", KeyLen[k] % 256, 1)
             key == Field("keyBytes", k, KeyLen[k])
         IN  /\ append_key(k).out = Then(len, key) /\ Output(len) /\ Output(key)
             /\ KeyLen[k] \in Nat
  BY LengthAssumption, FieldOutput DEF append_key, Appended

LEMMA MemberOutput ==
  ASSUME NEW m \in Tree  PROVE Output(MemberOut(m))
  BY OpeningOutput, LeafOutput DEF MemberOut

\* A key of a Map is one of the keys.
LEMMA NextKey ==
  ASSUME NEW a, GoodCall(a), a.val.kind = "Map"
  PROVE  /\ ~Taken(a) => a.order[a.next] \in DOMAIN KeyLen
         /\ a.next >= 2 => a.order[a.next - 1] \in DOMAIN KeyLen
  <1>1. a.val \in Tree
    BY CallFields
  <1>2. DOMAIN a.val.items \subseteq DOMAIN KeyLen
    BY <1>1, TreeAssumption
  <1> QED
    BY <1>2, NextMember

LEMMA LabelOutput ==
  ASSUME NEW a, GoodCall(a), ~Taken(a)  PROVE Output(LabelOut(a))
  <1>1. CASE a.val.kind = "Map"
    <2> DEFINE k == a.order[a.next]
    <2>1. k \in DOMAIN KeyLen
      BY <1>1, NextKey
    <2> HIDE DEF k
    <2>2. Output(append_key(k).out)
      BY <2>1, KeyShape, ThenOutput
    <2>3. LabelOut(a) = append_key(k).out
      BY <1>1 DEF LabelOut, k
    <2> QED
      BY <2>2, <2>3
  <1>2. CASE a.val.kind # "Map"
    BY <1>2, ThenNothing DEF LabelOut
  <1> QED
    BY <1>1, <1>2

LEMMA MovesOutput ==
  ASSUME NEW W, NEW v, NEW o, NEW X, Chain(W, v), Moves(W, o, X)
  PROVE  Output(o)
  <1> DEFINE a == W[Len(W)]
  <1>1. GoodCall(a) /\ a.val \in Tree
    BY ChainLen DEF Moves
  <1>2. CASE Ends(W, o, X)
    BY <1>2, MarkOutput DEF Ends
  <1>3. CASE Takes(W, o, X)
    <2>1. ~Taken(a) /\ o = Then(LabelOut(a), MemberOut(NextOf(a)))
      BY <1>3 DEF Takes
    <2>2. NextOf(a) \in Tree
      BY <1>1, <2>1, NextMember, MembersIn
    <2> HIDE DEF a
    <2> QED
      BY <1>1, <2>1, <2>2, LabelOutput, MemberOutput, ThenOutput
  <1> QED
    BY <1>2, <1>3 DEF Moves

\* The activation that goes on.
LEMMA AdvancedIs ==
  ASSUME IInv, status = "writing", NEW r, NEW X, X = Advanced(r)
  PROVE  /\ DOMAIN X = 1..Deepest
         /\ \A i \in 1..(Deepest - 1) : X[i] = calls[i]
         /\ Goes(Current, X[Deepest])
         /\ X[Deepest].rtn = r
  <1>1. /\ calls \in Seq(CallType) /\ Deepest \in Nat /\ Deepest >= 1
        /\ Current \in CallType
    BY CurrentGood DEF IInv, GoodCall
  <1>2. DOMAIN calls = 1..Deepest
    BY <1>1 DEF Deepest
  <1> DEFINE f == Current
             g == [f EXCEPT !.next = f.next + 1, !.rtn = r]
  <1>3. g.val = f.val /\ g.order = f.order /\ g.next = f.next + 1 /\ g.rtn = r
    <2> HIDE DEF f
    <2>1. f \in CallType
      BY <1>1 DEF f
    <2> QED
      BY <2>1 DEF CallType
  <1>4. X = [calls EXCEPT ![Deepest] = g]
    BY DEF Advanced
  <1> HIDE DEF g
  <1>5. /\ DOMAIN X = 1..Deepest /\ X[Deepest] = g
        /\ \A i \in 1..(Deepest - 1) : X[i] = calls[i]
    BY <1>1, <1>2, <1>4
  <1> QED
    BY <1>3, <1>5 DEF Goes, f

LEMMA StepMoves ==
  ASSUME IInv, IInv', Chain(calls, value), AppendLeaf \/ AppendContainer \/ Close
  PROVE  \E o : Moves(calls, o, calls') /\ sent' = Then(sent, o)
  <1>1. status = "writing"
    BY DEF AppendLeaf, AppendContainer, Close
  <1>2. /\ calls # <<>> /\ calls \in Seq(CallType) /\ Deepest \in Nat /\ Deepest >= 1
        /\ GoodCall(Current) /\ Current = calls[Len(calls)] /\ Deepest = Len(calls)
    BY <1>1, CurrentGood DEF IInv, Current, Deepest
  <1>3. calls' \in Seq(CallType)
    BY DEF IInv, Counted, GoodCalls
  <1>4. \A i \in 1..(Deepest - 1) : Same(calls[i], calls[i])
    BY DEF Same
  <1>5. More <=> ~Taken(Current)
    BY <1>2, CallFields DEF More, Taken
  <1>6. Member = NextOf(Current) /\ Key = Current.order[Current.next]
    BY DEF Member, Key, NextOf
  <1>7. Label.out = LabelOut(Current)
    BY DEF Label, LabelOut, Key, Appended
  <1>8. ASSUME ~KeyTooLong, More
        PROVE  Current.val.kind = "Map" => KeyLen[Current.order[Current.next]] <= 255
    <2> SUFFICES ASSUME Current.val.kind = "Map"  PROVE KeyLen[Current.order[Current.next]] <= 255
      OBVIOUS
    <2> DEFINE k == Current.order[Current.next]
    <2>1. k \in DOMAIN KeyLen
      BY <1>2, <1>5, <1>8, NextKey
    <2>2. ~(KeyLen[k] > 255)
      BY <1>8 DEF KeyTooLong, Key
    <2> HIDE DEF k
    <2>3. KeyLen[k] \in Nat
      BY <2>1, LengthAssumption
    <2>4. KeyLen[k] <= 255
      BY <2>2, <2>3
    <2> QED
      BY <2>4 DEF k
  <1>9. CASE AppendLeaf
    <2> DEFINE o == Then(Label.out, append_value(Member).out)
    <2>1. sent' = Then(sent, o) /\ More /\ ~KeyTooLong /\ ~Container(Member)
      BY <1>9 DEF AppendLeaf, Write
    <2>2. PICK r : calls' = Advanced(r)
      BY <1>9 DEF AppendLeaf
    <2>3. /\ DOMAIN calls' = 1..Deepest /\ \A i \in 1..(Deepest - 1) : calls'[i] = calls[i]
          /\ Goes(Current, calls'[Deepest])
      BY <1>1, <2>2, AdvancedIs
    <2>4. Len(calls') = Deepest
      BY <1>2, <1>3, <2>3
    <2>5. o = Then(LabelOut(Current), MemberOut(NextOf(Current)))
      BY <1>6, <1>7, <2>1 DEF MemberOut
    <2> HIDE DEF o
    <2>6. Takes(calls, o, calls')
      BY <1>2, <1>5, <1>6, <1>8, <2>1, <2>3, <2>4, <2>5 DEF Takes
    <2>7. \A i \in 1..(Len(calls) - 1) : Same(calls[i], calls'[i])
      BY <1>2, <1>4, <2>3
    <2> QED
      BY <1>2, <2>1, <2>6, <2>7 DEF Moves
  <1>10. CASE AppendContainer
    <2> DEFINE o == Then(Label.out, Opening(Member).out)
    <2>1. sent' = Then(sent, o) /\ More /\ ~KeyTooLong /\ Container(Member)
      BY <1>10 DEF AppendContainer, Write
    <2> DEFINE r == update(Label.rtn, Current.rtn)
    <2>2. PICK order \in Orders(Member) : calls' = Append(Advanced(r), Activation(Member, order))
      BY <1>10 DEF AppendContainer
    <2> HIDE DEF r
    <2> DEFINE X == Advanced(r)  g == Activation(Member, order)
    <2>3. /\ DOMAIN X = 1..Deepest /\ \A i \in 1..(Deepest - 1) : X[i] = calls[i]
          /\ Goes(Current, X[Deepest])
      BY <1>1, AdvancedIs
    <2>4. g.next = 1 /\ g.val = Member /\ g.order = order
      BY DEF Activation
    <2>5. calls' = Append(X, g)
      BY <2>2
    <2> HIDE DEF X, g
    <2>6. /\ Len(calls') = Deepest + 1 /\ calls'[Deepest + 1] = g
          /\ \A i \in 1..Deepest : calls'[i] = X[i]
      <3>1. X \in Seq({X[i] : i \in 1..Deepest})
        <4>1. X = [i \in 1..Deepest |-> X[i]]
          <5>1. Len(X) = Deepest \/ Len(X) # Deepest
            OBVIOUS
          <5>2. X = [i \in DOMAIN X |-> X[i]]
            BY DEF X, Advanced
          <5> QED
            BY <2>3, <5>2
        <4> DEFINE S == {X[i] : i \in 1..Deepest}
        <4>2. \A i \in 1..Deepest : X[i] \in S
          OBVIOUS
        <4> HIDE DEF S
        <4>3. [i \in 1..Deepest |-> X[i]] \in Seq(S)
          BY <1>2, <4>2
        <4> QED
          BY <4>1, <4>3 DEF S
      <3> DEFINE S == {X[i] : i \in 1..Deepest} \cup {g}
      <3>2. X \in Seq(S) /\ g \in S
        BY <3>1, SeqMonotonic
      <3> HIDE DEF S
      <3>3. Len(X) = Deepest
        BY <1>2, <2>3, <3>2
      <3> QED
        BY <2>5, <3>2, <3>3, AppendProperties
    <2>7. o = Then(LabelOut(Current), MemberOut(NextOf(Current)))
      BY <1>6, <1>7, <2>1 DEF MemberOut
    <2> HIDE DEF o
    <2>8. Takes(calls, o, calls')
      <3>1. Goes(Current, calls'[Deepest])
        BY <1>2, <2>3, <2>6
      <3> QED
        BY <1>2, <1>5, <1>6, <1>8, <2>1, <2>2, <2>4, <2>6, <2>7, <3>1 DEF Takes
    <2>9. \A i \in 1..(Len(calls) - 1) : Same(calls[i], calls'[i])
      BY <1>2, <1>4, <2>3, <2>6
    <2> QED
      BY <1>2, <2>1, <2>8, <2>9 DEF Moves
  <1>11. CASE Close
    <2> DEFINE o == Closing(Current.val, Current.rtn).out
    <2>1. sent' = Then(sent, o) /\ Taken(Current)
      BY <1>2, <1>5, <1>11 DEF Close, Write
    <2>2. o = Mark(EndOf(Current.val))
      BY DEF Closing, EndOf
    <2> HIDE DEF o
    <2>3. Len(calls') = Deepest - 1 /\ \A i \in 1..(Deepest - 1) : Same(calls[i], calls'[i])
      <3>1. CASE Deepest = 1
        <4>1. calls' = <<>>
          BY <1>11, <3>1 DEF Close
        <4> QED
          BY <3>1, <4>1
      <3>2. CASE Deepest > 1
        <4> DEFINE c == Closing(Current.val, Current.rtn)
        <4>1. calls' = [i \in 1..(Deepest - 1) |->
                         IF i < Deepest - 1 THEN calls[i]
                         ELSE [calls[i] EXCEPT !.rtn = update(c.rtn, @)]]
          BY <1>2, <1>11, <3>2 DEF Close
        <4>2. Len(calls') = Deepest - 1
          BY <1>2, <1>3, <4>1
        <4>3. ASSUME NEW i \in 1..(Deepest - 1)  PROVE Same(calls[i], calls'[i])
          <5>1. calls[i] \in CallType
            BY <1>2
          <5>2. calls'[i] = calls[i] \/ calls'[i] = [calls[i] EXCEPT !.rtn = update(c.rtn, @)]
            BY <4>1
          <5> HIDE DEF c
          <5> QED
            BY <5>1, <5>2 DEF Same, CallType
        <4> QED
          BY <4>2, <4>3
      <3> QED
        BY <1>2, <3>1, <3>2
    <2>4. Ends(calls, o, calls')
      BY <1>2, <2>1, <2>2, <2>3 DEF Ends
    <2> QED
      BY <1>2, <2>1, <2>3, <2>4 DEF Moves
  <1> QED
    BY <1>9, <1>10, <1>11

-----------------------------------------------------------------------------
(* The story of a writeValue: the stacks of activations it has gone        *)
(* through, C[1] to C[m], and what was sent after each, T[1] to T[m].      *)

Told(C, T, m, v) ==
  /\ m \in Nat /\ m >= 1
  /\ \A j \in 1..m : Chain(C[j], v) /\ Output(T[j])
  /\ Len(C[1]) = 1 /\ C[1][1].next = 1
  /\ \A j \in 1..m : j < m => \E o : Moves(C[j], o, C[j + 1]) /\ T[j] = Then(o, T[j + 1])
  /\ T[m] = Nothing

StoryOf(cs, s, v) ==
  \E m, C, T : Told(C, T, m, v) /\ C[m] = cs /\ s = Then(Opening(v).out, T[1])

LEMMA ChainStart ==
  ASSUME NEW v \in Tree, Container(v), NEW order \in Orders(v)
  PROVE  LET cs == <<Activation(v, order)>>
         IN  Chain(cs, v) /\ Len(cs) = 1 /\ cs[1].next = 1
  <1> DEFINE g == Activation(v, order)  cs == <<g>>
  <1>1. GoodCall(g) /\ g.val = v /\ g \in CallType
    BY ActivationGood DEF GoodCall
  <1>2. g.next = 1 /\ g.order = order
    BY DEF Activation
  <1> HIDE DEF g
  <1>3. cs \in Seq(CallType) /\ Len(cs) = 1 /\ cs[1] = g
    BY <1>1
  <1> HIDE DEF cs
  <1>4. GoodCalls(cs)
    BY <1>1, <1>3 DEF GoodCalls
  <1>5. Depth[v] + 1 <= Depth[v] + 1
    BY MembersIn
  <1>6. Chain(cs, v)
    BY <1>1, <1>2, <1>3, <1>4, <1>5 DEF Chain
  <1> QED
    BY <1>2, <1>3, <1>6 DEF cs, g

LEMMA StoryStart ==
  ASSUME NEW v \in Tree, Container(v), NEW order \in Orders(v)
  PROVE  StoryOf(<<Activation(v, order)>>, Opening(v).out, v)
  <1> DEFINE cs == <<Activation(v, order)>>
             C == [j \in 1..1 |-> cs]
             T == [j \in 1..1 |-> Nothing]
  <1>1. Chain(cs, v) /\ Len(cs) = 1 /\ cs[1].next = 1
    BY ChainStart
  <1> HIDE DEF cs
  <1>2. C[1] = cs /\ T[1] = Nothing
    OBVIOUS
  <1>3. \A j \in 1..1 : j = 1
    OBVIOUS
  <1> HIDE DEF C, T
  <1>4. Told(C, T, 1, v)
    BY <1>1, <1>2, <1>3, ThenNothing DEF Told
  <1>5. Opening(v).out = Then(Opening(v).out, T[1])
    BY <1>2, OpeningOutput, ThenNothing
  <1>6. StoryOf(cs, Opening(v).out, v)
    BY <1>2, <1>4, <1>5 DEF StoryOf
  <1> QED
    BY <1>6 DEF cs

LEMMA StoryStep ==
  ASSUME NEW cs, NEW s, NEW v \in Tree, Container(v), NEW o, NEW X,
         StoryOf(cs, s, v), Moves(cs, o, X), GoodCalls(X)
  PROVE  StoryOf(X, Then(s, o), v)
  <1>1. PICK m, C, T : Told(C, T, m, v) /\ C[m] = cs /\ s = Then(Opening(v).out, T[1])
    BY DEF StoryOf
  <1>2. /\ m \in Nat /\ m >= 1 /\ m \in 1..m /\ 1 \in 1..m
        /\ \A j \in 1..m : Chain(C[j], v) /\ Output(T[j])
        /\ Len(C[1]) = 1 /\ C[1][1].next = 1
        /\ \A j \in 1..m : j < m => \E p : Moves(C[j], p, C[j + 1]) /\ T[j] = Then(p, T[j + 1])
        /\ T[m] = Nothing
    BY <1>1 DEF Told
  <1>3. Output(o) /\ Chain(X, v)
    BY <1>1, <1>2, MovesOutput, ChainStep
  <1> DEFINE D == [j \in 1..(m + 1) |-> IF j = m + 1 THEN X ELSE C[j]]
             U == [j \in 1..(m + 1) |-> IF j = m + 1 THEN Nothing ELSE Then(T[j], o)]
  <1>4. /\ \A j \in 1..m : j # m + 1 /\ j \in 1..(m + 1)
        /\ \A j \in 1..(m + 1) : j \in 1..m \/ j = m + 1
        /\ \A j \in 1..(m + 1) : j < m + 1 => j \in 1..m /\ (j < m \/ j = m)
        /\ m + 1 \in 1..(m + 1) /\ m + 1 \in Nat /\ m + 1 >= 1
    BY <1>2
  <1>5. /\ D[m + 1] = X /\ U[m + 1] = Nothing
        /\ \A j \in 1..m : D[j] = C[j] /\ U[j] = Then(T[j], o)
    BY <1>4
  <1> HIDE DEF D, U
  <1>6. \A j \in 1..(m + 1) : Chain(D[j], v) /\ Output(U[j])
    BY <1>2, <1>3, <1>4, <1>5, ThenOutput, ThenNothing
  <1>7. ASSUME NEW j \in 1..(m + 1), j < m + 1
        PROVE  \E p : Moves(D[j], p, D[j + 1]) /\ U[j] = Then(p, U[j + 1])
    <2>1. CASE j = m
      <3>1. Moves(D[j], o, D[j + 1])
        BY <1>1, <1>2, <1>5, <2>1
      <3>2. U[j] = Then(o, U[j + 1])
        <4>1. U[j] = Then(Nothing, o) /\ U[j + 1] = Nothing
          BY <1>2, <1>5, <2>1
        <4> QED
          BY <1>3, <4>1, ThenNothing
      <3> QED
        BY <3>1, <3>2
    <2>2. CASE j < m
      <3>1. j \in 1..m /\ j + 1 \in 1..m
        BY <1>2, <2>2
      <3>2. PICK p : Moves(C[j], p, C[j + 1]) /\ T[j] = Then(p, T[j + 1])
        BY <1>2, <2>2, <3>1
      <3>3. Output(p) /\ Output(T[j + 1])
        BY <1>2, <3>1, <3>2, MovesOutput
      <3>4. U[j] = Then(p, U[j + 1])
        BY <1>3, <1>5, <3>1, <3>2, <3>3, ThenAssociative
      <3> QED
        BY <1>5, <3>1, <3>2, <3>4
    <2> QED
      BY <1>4, <1>7, <2>1, <2>2
  <1>8. Told(D, U, m + 1, v)
    BY <1>2, <1>4, <1>5, <1>6, <1>7 DEF Told
  <1>9. Then(s, o) = Then(Opening(v).out, U[1])
    <2>1. U[1] = Then(T[1], o) /\ Output(T[1])
      BY <1>2, <1>5
    <2> QED
      BY <1>1, <1>3, <2>1, OpeningOutput, ThenAssociative
  <1> QED
    BY <1>5, <1>8, <1>9 DEF StoryOf

Story ==
  value.kind = "Map" /\ status \in {"writing", "returned"} => StoryOf(calls, sent, value)

\* While it is written, a Value is a Map.
Held == value \in Values /\ (status = "writing" => value.kind = "Map")

LEMMA StoryChain ==
  ASSUME NEW cs, NEW s, NEW v, StoryOf(cs, s, v)  PROVE Chain(cs, v)
  BY DEF StoryOf, Told

LEMMA StoryInit == Init => Story /\ Held
  BY DEF Init, Story, Held

LEMMA StoryNext == IInv /\ Story /\ Held /\ [Next]_wvars => Story' /\ Held'
  <1> SUFFICES ASSUME IInv, Story, Held, [Next]_wvars  PROVE Story' /\ Held'
    OBVIOUS
  <1>1. IInv'
    BY StepInv
  <1>2. ASSUME NEW v \in Values, WriteValue(v)  PROVE Story' /\ Held'
    <2>1. value' = v /\ v \in Tree
      BY <1>2, TreeAssumption DEF WriteValue
    <2>2. CASE v.kind # "Map"
      <3>1. status' = "returned"
        BY <1>2, <2>2 DEF WriteValue
      <3> QED
        BY <2>1, <2>2, <3>1 DEF Story, Held
    <2>3. CASE v.kind = "Map"
      <3>1. Container(v)
        BY <2>3 DEF Container
      <3>2. PICK order \in Orders(v) : calls' = <<Activation(v, order)>>
        BY <1>2, <2>3 DEF WriteValue
      <3>3. sent' = Opening(v).out
        BY <1>2, <2>3 DEF WriteValue
      <3>4. StoryOf(calls', sent', value')
        BY <2>1, <3>1, <3>2, <3>3, StoryStart
      <3> QED
        BY <2>1, <2>3, <3>4 DEF Story, Held
    <2> QED
      BY <2>2, <2>3
  <1>3. ASSUME AppendLeaf \/ AppendContainer \/ Close  PROVE Story' /\ Held'
    <2>1. status = "writing" /\ value' = value /\ status' \in {"writing", "returned"}
      BY <1>3 DEF AppendLeaf, AppendContainer, Close
    <2>2. value.kind = "Map" /\ value \in Tree /\ Container(value) /\ value \in Values
      BY <2>1, TreeAssumption DEF Held, Container
    <2>3. StoryOf(calls, sent, value) /\ Chain(calls, value)
      BY <2>1, <2>2, StoryChain DEF Story
    <2>4. PICK o : Moves(calls, o, calls') /\ sent' = Then(sent, o)
      BY <1>1, <1>3, <2>3, StepMoves
    <2>5. GoodCalls(calls')
      BY <1>1 DEF IInv, Counted
    <2>6. StoryOf(calls', sent', value')
      BY <2>1, <2>2, <2>3, <2>4, <2>5, StoryStep
    <2> QED
      BY <2>1, <2>2, <2>6 DEF Story, Held
  <1>4. CASE ThrowKey
    BY <1>4 DEF ThrowKey, Story, Held
  <1>5. CASE UNCHANGED wvars
    BY <1>5 DEF wvars, Story, Held
  <1> QED
    BY <1>2, <1>3, <1>4, <1>5 DEF Next, Step

-----------------------------------------------------------------------------
(* The flag that writeValue returns.  update() forgets the flags of all    *)
(* parts but the last, so it is shown of every part that it is TRUE.       *)

LEMMA NumberFlag ==
  /\ \A m, n, w : Number(m, n, w).rtn.second = TRUE
  /\ \A n : append_unsignedInt(n).rtn.second = TRUE /\ append_signedInt(n).rtn.second = TRUE
  /\ \A n : UintWidth(n) # 8 => append_size(n).rtn.second = TRUE
  /\ \A k : append_key(k).rtn.second = TRUE
  <1>1. \A o, n, ok : Appended(o, n, ok).rtn.second = ok
    BY DEF Appended, Pair
  <1>2. \A m, n, w : Number(m, n, w).rtn.second = TRUE
    BY <1>1, Zenon DEF Number
  <1>3. \A n : append_unsignedInt(n).rtn.second = TRUE
    BY <1>2, Zenon DEF append_unsignedInt
  <1>4. \A n : append_signedInt(n).rtn.second = TRUE
    <2> SUFFICES ASSUME NEW n  PROVE append_signedInt(n).rtn.second = TRUE
      OBVIOUS
    <2>1. \/ append_signedInt(n) = append_unsignedInt(n)
          \/ append_signedInt(n) = Number(SintMark(SintWidth(n)), n, SintWidth(n))
      BY Zenon DEF append_signedInt
    <2> QED
      BY <1>2, <1>3, <2>1
  <1>5. \A n : UintWidth(n) # 8 => append_size(n) = append_unsignedInt(n)
    BY Zenon DEF append_size
  <1>6. \A k : append_key(k).rtn.second = TRUE
    <2> SUFFICES ASSUME NEW k  PROVE append_key(k).rtn.second = TRUE
      OBVIOUS
    <2> DEFINE o == Then(Field("keyLen", KeyLen[k] % 256, 1), Field("keyBytes", k, KeyLen[k]))
               n == 1 + KeyLen[k]
    <2>1. append_key(k) = Appended(o, n, TRUE)
      BY DEF append_key
    <2> HIDE DEF o, n
    <2> QED
      BY <1>1, <2>1
  <1> QED
    BY <1>2, <1>3, <1>4, <1>5, <1>6

LEMMA LeafFlag ==
  ASSUME NEW v \in Tree, ~Container(v), Representable(v)
  PROVE  append_value(v).rtn.second = TRUE
  <1>1. v.kind \in {"Null", "Bool", "Char", "SignedInt", "UnsignedInt", "Float", "String", "Binary"}
    BY TreeAssumption DEF Container
  <1>2. \A o, n, ok : Appended(o, n, ok).rtn.second = ok
    BY DEF Appended, Pair
  <1>3. CASE v.kind = "Null"
    BY <1>2, <1>3 DEF append_value
  <1>4. CASE v.kind = "Bool"
    BY <1>2, <1>4 DEF append_value
  <1>5. CASE v.kind \in {"Char", "SignedInt", "UnsignedInt"}
    BY <1>5, NumberFlag DEF append_value
  <1>6. CASE v.kind = "Float"
    <2>1. v.n \in {4, 8}
      BY <1>6, TreeAssumption DEF Representable
    <2>2. append_value(v) = append_float(v.n)
      BY <1>6 DEF append_value
    <2>3. append_float(4) = Number("d", 0, 4) /\ append_float(8) = Number("D", 0, 8)
      BY DEF append_float
    <2> QED
      BY <2>1, <2>2, <2>3, NumberFlag
  <1>7. CASE v.kind \in {"String", "Binary"}
    <2>1. UintWidth(v.n) # 8
      BY <1>7 DEF Representable
    <2>2. PICK m : append_value(v) = append_text(m, v.n)
      BY <1>7 DEF append_value
    <2>3. append_text(m, v.n).rtn.second = append_size(v.n).rtn.second
      BY <1>2 DEF append_text
    <2> QED
      BY <2>1, <2>2, <2>3, NumberFlag
  <1> QED
    BY <1>1, <1>3, <1>4, <1>5, <1>6, <1>7

LEMMA UpdateFlag == \A p, q : update(p, q).second = p.second
  BY DEF update, Pair

LEMMA OpeningFlag ==
  ASSUME NEW v \in Tree, Container(v), Representable(v), ~EmptyArray(v)
  PROVE  Opening(v).rtn.second = TRUE
  <1> DEFINE size == append_size(SizeOf(v))
  <1>1. size.rtn.second = TRUE
    BY RepresentableSize, NumberFlag
  <1>2. CASE v.kind = "Map"
    <2>1. Opening(v).rtn = update(size.rtn, Pair(1, FALSE))
      BY <1>2 DEF Opening, SizeOf
    <2> HIDE DEF size
    <2> QED
      BY <1>1, <2>1, UpdateFlag
  <1>3. CASE v.kind = "Array" /\ v.items # <<>>
    <2>1. Opening(v).rtn = update(size.rtn, Pair(2, FALSE))
      BY <1>3 DEF Opening, SizeOf
    <2> HIDE DEF size
    <2> QED
      BY <1>1, <2>1, UpdateFlag
  <1> QED
    BY <1>2, <1>3 DEF Container, EmptyArray

LEMMA ClosingFlag ==
  ASSUME NEW v, NEW p  PROVE Closing(v, p).rtn.second = p.second
  BY DEF Closing, Pair

\* A Map without an empty array that the format can hold.
Clean(v) ==
  v.kind = "Map" /\ Encodable(v) /\ \A p \in Parts[v] : ~EmptyArray(p)

\* Every activation has so far only parts that were written with success.
Unbroken(cs) == \A i \in 1..Len(cs) : cs[i].rtn.second = TRUE

CleanInv ==
  Clean(value) => /\ status = "writing" => Unbroken(calls)
                  /\ status = "returned" => returned.second = TRUE

\* The next member of the last activation is a part of the Value.
LEMMA MemberClean ==
  ASSUME NEW cs, NEW v \in Tree, Chain(cs, v), cs # <<>>, ~Taken(cs[Len(cs)])
  PROVE  NextOf(cs[Len(cs)]) \in Tree /\ NextOf(cs[Len(cs)]) \in Parts[v]
  <1> DEFINE n == Len(cs)  a == cs[n]
  <1>1. n \in 1..n /\ GoodCall(a) /\ a.val \in Tree
    BY ChainLen
  <1>2. Parts[a.val] \subseteq Parts[v]
    BY <1>1 DEF Chain
  <1>3. NextOf(a) \in Members(a.val)
    BY <1>1, NextMember
  <1> HIDE DEF a
  <1> QED
    BY <1>1, <1>2, <1>3, PartOfMember, MembersIn DEF a

LEMMA CleanNext ==
  ASSUME IInv, Story, Held, CleanInv, [Next]_wvars  PROVE CleanInv'
<1>0. IInv'
  BY StepInv
<1>1. ASSUME NEW v \in Values, WriteValue(v)  PROVE CleanInv'
  <2>1. CASE v.kind # "Map"
    <3>1. value' = v
      BY <1>1 DEF WriteValue
    <3> QED
      BY <2>1, <3>1 DEF CleanInv, Clean
  <2>2. CASE v.kind = "Map"
    <3>1. Container(v) /\ v \in Tree /\ ~EmptyArray(v)
      BY <2>2, TreeAssumption DEF Container, EmptyArray
    <3>2. PICK order \in Orders(v) : calls' = <<Activation(v, order)>>
      BY <1>1, <2>2 DEF WriteValue
    <3>3. status' = "writing" /\ value' = v
      BY <1>1, <2>2 DEF WriteValue
    <3>4. ASSUME Clean(v)  PROVE Unbroken(calls')
      <4>1. Representable(v)
        BY <3>1, <3>4, PartsAre DEF Clean, Encodable
      <4>2. Activation(v, order).rtn = Opening(v).rtn
        BY <3>1, ActivationGood
      <4>3. Opening(v).rtn.second = TRUE
        BY <3>1, <4>1, OpeningFlag
      <4> DEFINE g == Activation(v, order)
      <4>4. g.rtn.second = TRUE
        BY <4>2, <4>3
      <4> HIDE DEF g
      <4>5. calls' = <<g>>
        BY <3>2 DEF g
      <4> QED
        BY <4>4, <4>5 DEF Unbroken
    <3> QED
      BY <3>3, <3>4 DEF CleanInv
  <2> QED
    BY <2>1, <2>2
<1>2. ASSUME AppendLeaf \/ AppendContainer \/ Close, Clean(value)
      PROVE  /\ status' = "writing" => Unbroken(calls')
             /\ status' = "returned" => returned'.second = TRUE
  <2>1. status = "writing" /\ Unbroken(calls)
    BY <1>2 DEF CleanInv, AppendLeaf, AppendContainer, Close
  <2>2. /\ calls # <<>> /\ calls \in Seq(CallType) /\ Deepest \in Nat /\ Deepest >= 1
        /\ GoodCall(Current) /\ Current = calls[Len(calls)] /\ Deepest = Len(calls)
    BY <2>1, CurrentGood DEF IInv, Current, Deepest
  <2>3. Chain(calls, value) /\ value \in Tree
    BY <2>1, StoryChain, TreeAssumption DEF Story, Held
  <2>4. Current.rtn.second = TRUE
    BY <2>1, <2>2 DEF Unbroken
  <2>5. calls' \in Seq(CallType)
    BY <1>0 DEF IInv, Counted, GoodCalls
  <2>6. ASSUME More
        PROVE  /\ Member \in Tree /\ Representable(Member) /\ ~EmptyArray(Member)
               /\ Label.rtn.second = TRUE
    <3>1. Member = NextOf(Current) /\ ~Taken(Current)
      BY <2>2, <2>6, CallFields DEF Member, Key, NextOf, More, Taken
    <3>2. Member \in Tree /\ Member \in Parts[value]
      BY <2>2, <2>3, <3>1, MemberClean
    <3>3. Representable(Member) /\ ~EmptyArray(Member)
      BY <1>2, <3>2 DEF Clean, Encodable
    <3>4. Label.rtn.second = TRUE
      <4>1. CASE Current.val.kind = "Map"
        BY <4>1, NumberFlag DEF Label
      <4>2. CASE Current.val.kind # "Map"
        BY <2>4, <4>2 DEF Label, Appended, Pair
      <4> QED
        BY <4>1, <4>2
    <3> QED
      BY <3>2, <3>3, <3>4
  <2>7. CASE AppendLeaf
    <3> DEFINE a == append_value(Member)  r == update(a.rtn, update(Label.rtn, Current.rtn))
    <3>1. More /\ ~Container(Member) /\ calls' = Advanced(r) /\ status' = status
      BY <2>7 DEF AppendLeaf
    <3>2. r.second = TRUE
      <4>1. a.rtn.second = TRUE
        BY <2>6, <3>1, LeafFlag
      <4> QED
        BY <4>1, UpdateFlag
    <3> HIDE DEF r
    <3>3. /\ DOMAIN calls' = 1..Deepest /\ calls'[Deepest].rtn = r
          /\ \A i \in 1..(Deepest - 1) : calls'[i] = calls[i]
      BY <2>1, <3>1, AdvancedIs
    <3>4. Len(calls') = Deepest /\ \A i \in 1..Deepest : i = Deepest \/ i \in 1..(Deepest - 1)
      BY <2>2, <2>5, <3>3
    <3>5. Unbroken(calls')
      BY <2>1, <2>2, <3>2, <3>3, <3>4 DEF Unbroken
    <3> QED
      BY <2>1, <3>1, <3>5
  <2>8. CASE AppendContainer
    <3>1. More /\ Container(Member) /\ status' = status
      BY <2>8 DEF AppendContainer
    <3> DEFINE r == update(Label.rtn, Current.rtn)
    <3>2. PICK order \in Orders(Member) :
            calls' = Append(Advanced(r), Activation(Member, order))
      BY <2>8 DEF AppendContainer
    <3>3. r.second = TRUE
      BY <2>6, <3>1, UpdateFlag
    <3> DEFINE X == Advanced(r)  g == Activation(Member, order)
    <3> HIDE DEF r
    <3>4. g.rtn.second = TRUE
      <4>1. g.rtn = Opening(Member).rtn
        BY <2>6, <3>1, ActivationGood
      <4>2. Opening(Member).rtn.second = TRUE
        BY <2>6, <3>1, OpeningFlag
      <4> QED
        BY <4>1, <4>2
    <3>5. /\ DOMAIN X = 1..Deepest /\ X[Deepest].rtn = r
          /\ \A i \in 1..(Deepest - 1) : X[i] = calls[i]
      BY <2>1, AdvancedIs
    <3>6. X = [i \in DOMAIN X |-> X[i]]
      BY DEF Advanced
    <3>7. calls' = Append(X, g)
      BY <3>2
    <3> HIDE DEF X, g
    <3>8. Len(calls') = Deepest + 1 /\ calls'[Deepest + 1] = g
          /\ \A i \in 1..Deepest : calls'[i] = X[i]
      <4> DEFINE S == {X[i] : i \in 1..Deepest} \cup {g}
      <4>1. \A i \in 1..Deepest : X[i] \in S
        OBVIOUS
      <4>2. g \in S
        OBVIOUS
      <4> HIDE DEF S
      <4>3. [i \in 1..Deepest |-> X[i]] \in Seq(S)
        BY <2>2, <4>1
      <4>4. X \in Seq(S) /\ Len(X) = Deepest
        BY <2>2, <3>5, <3>6, <4>3
      <4> QED
        BY <3>7, <4>2, <4>4, AppendProperties
    <3>9. \A i \in 1..(Deepest + 1) : i = Deepest + 1 \/ i = Deepest \/ i \in 1..(Deepest - 1)
      BY <2>2
    <3>10. \A i \in 1..(Deepest - 1) : i \in 1..Deepest /\ i \in 1..Len(calls)
      BY <2>2
    <3>11. Unbroken(calls')
      BY <2>1, <2>2, <3>3, <3>4, <3>5, <3>8, <3>9, <3>10 DEF Unbroken
    <3> QED
      BY <2>1, <3>1, <3>11
  <2>9. CASE Close
    <3> DEFINE c == Closing(Current.val, Current.rtn)
    <3>1. c.rtn.second = TRUE
      BY <2>4, ClosingFlag
    <3>2. CASE Deepest = 1
      <4>1. status' = "returned" /\ returned' = c.rtn
        BY <2>9, <3>2 DEF Close
      <4> QED
        BY <3>1, <4>1
    <3>3. CASE Deepest > 1
      <4>1. /\ status' = status
            /\ calls' = [i \in 1..(Deepest - 1) |->
                 IF i < Deepest - 1 THEN calls[i]
                 ELSE [calls[i] EXCEPT !.rtn = update(c.rtn, @)]]
        BY <2>2, <2>9, <3>3 DEF Close
      <4>2. Len(calls') = Deepest - 1
        BY <2>2, <2>5, <4>1
      <4>3. ASSUME NEW i \in 1..(Deepest - 1)  PROVE calls'[i].rtn.second = TRUE
        <5>1. calls[i] \in CallType /\ calls[i].rtn.second = TRUE
          BY <2>1, <2>2 DEF Unbroken
        <5>2. calls'[i] = calls[i] \/ calls'[i] = [calls[i] EXCEPT !.rtn = update(c.rtn, @)]
          BY <4>1
        <5> HIDE DEF c
        <5>3. \A p : [calls[i] EXCEPT !.rtn = p].rtn = p
          BY <5>1 DEF CallType
        <5>4. calls'[i].rtn = calls[i].rtn \/ calls'[i].rtn = update(c.rtn, calls[i].rtn)
          BY <5>2, <5>3
        <5> QED
          BY <3>1, <5>1, <5>4, UpdateFlag
      <4>4. Unbroken(calls')
        BY <4>2, <4>3 DEF Unbroken
      <4> QED
        BY <2>1, <4>1, <4>4
    <3>4. Deepest = 1 \/ Deepest > 1
      BY <2>2
    <3> QED
      BY <3>2, <3>3, <3>4, Zenon
  <2> QED
    BY <1>2, <2>7, <2>8, <2>9
<1>3. CASE AppendLeaf \/ AppendContainer \/ Close
  <2>1. value' = value
    BY <1>3 DEF AppendLeaf, AppendContainer, Close
  <2> QED
    BY <1>2, <1>3, <2>1 DEF CleanInv
<1>4. CASE ThrowKey
  BY <1>4 DEF ThrowKey, CleanInv
<1>5. CASE UNCHANGED wvars
  BY <1>5 DEF wvars, CleanInv, Unbroken
<1> QED
  BY <1>1, <1>3, <1>4, <1>5 DEF Next, Step

\* The writer is not disturbed by the reader.
LEMMA SystemWriter == SystemNext => [Next]_wvars
  BY DEF SystemNext, Writing, StartReading, Reading, Deciding, LoseTrack

WriterInv == IInv /\ Story /\ Held

LEMMA WriterInit == SystemInit => Init /\ WriterInv
  <1>1. SystemInit => Init
    BY Zenon DEF SystemInit, Init
  <1> QED
    BY <1>1, InitInv, StoryInit DEF WriterInv

LEMMA WriterNext == WriterInv /\ [Next]_wvars => WriterInv'
  BY StepInv, StoryNext DEF WriterInv

LEMMA SystemStep == [SystemNext]_<<wvars, rvars, rest, lost>> => [Next]_wvars
  BY SystemWriter DEF wvars

\* A Map that the format can hold, in which no array is empty, is reported as
\* written, through any nesting and for every order of its members
\* (append_object and append_array, stream_writer.hpp:75-94 and 348-362).
THEOREM CleanIsReported == SystemSpec => []CleanSucceeds
  <1>1. SystemInit => WriterInv /\ CleanInv
    <2>1. SystemInit => CleanInv
      BY DEF SystemInit, CleanInv
    <2> QED
      BY <2>1, WriterInit
  <1>2. WriterInv /\ CleanInv /\ [SystemNext]_<<wvars, rvars, rest, lost>>
          => (WriterInv /\ CleanInv)'
    BY SystemStep, WriterNext, CleanNext DEF WriterInv
  <1>3. WriterInv /\ CleanInv => CleanSucceeds
    <2> SUFFICES ASSUME CleanInv, status = "returned", value.kind = "Map", Encodable(value),
                        \A p \in Parts[value] : p.kind = "Array" => p.items # <<>>
                 PROVE  returned.second
      BY DEF CleanSucceeds
    <2>1. Clean(value)
      BY DEF Clean, EmptyArray
    <2> QED
      BY <2>1 DEF CleanInv
  <1> QED
    BY <1>1, <1>2, <1>3, PTL DEF SystemSpec

-----------------------------------------------------------------------------
(* The reader's activations beside the writer's.                           *)

Frame(f) ==
  f = [kind |-> f.kind, count |-> f.count, left |-> f.left, mark |-> f.mark,
       key |-> f.key, val |-> f.val]

\* f fills what the writer's activation a writes, and has d of its members;
\* it is the i-th activation.
FrameOf(f, a, d, i) ==
  /\ Frame(f)
  /\ f.kind = IF a.val.kind = "Map" THEN "Object" ELSE "HetroArray"
  /\ f.left = Len(a.order) - d
  /\ f.val = Filled(a.val, {a.order[t] : t \in 1..d})
  /\ \A t \in 1..d : Depth[a.val.items[a.order[t]]] + i <= max_value_depth

\* f waits for the member that a has last taken.
Mid(f, a, i) ==
  /\ a.next >= 2
  /\ FrameOf(f, a, a.next - 2, i)
  /\ a.val.kind = "Map" => f.key = a.order[a.next - 1]

Mids(fs, W, n) == \A i \in 1..n : Mid(fs[i], W[i], i)

\* All wait; all but the last; and all, the last activation of W not yet there.
Under(W, fs)   == Len(fs) = Len(W) /\ Mids(fs, W, Len(W))
Between(W, fs) ==
  /\ W # <<>> /\ Len(fs) = Len(W) /\ Mids(fs, W, Len(W) - 1)
  /\ LET n == Len(W) IN FrameOf(fs[n], W[n], W[n].next - 1, n)
Fresh(W, fs) ==
  W # <<>> /\ W[Len(W)].next = 1 /\ Len(fs) = Len(W) - 1 /\ Mids(fs, W, Len(W) - 1)

LEMMA FilledNone == ASSUME NEW v  PROVE Filled(v, {}) = Empty
  BY DEF Filled

\* One more member of a Map is stored.
LEMMA WithItemFilled ==
  ASSUME NEW v, v.kind = "Map", NEW D, NEW k
  PROVE  R!WithItem(Filled(v, D), k, Canon[v.items[k]]) = Filled(v, D \cup {k})
  <1> DEFINE F == Filled(v, D)
  <1>1. DOMAIN F.items = D /\ \A j \in D : F.items[j] = Canon[v.items[j]]
    <2>1. CASE D = {}
      <3>1. F.items = <<>>
        BY <2>1 DEF Filled, Empty
      <3>2. DOMAIN <<>> = {}
        OBVIOUS
      <3> QED
        BY <2>1, <3>1, <3>2
    <2>2. CASE D # {}
      BY <2>2 DEF Filled
    <2> QED
      BY <2>1, <2>2
  <1>2. Filled(v, D \cup {k}) = [kind |-> "Map", items |-> [j \in D \cup {k} |-> Canon[v.items[j]]]]
    BY DEF Filled
  <1> HIDE DEF F
  <1>3. [j \in DOMAIN F.items \cup {k} |-> IF j = k THEN Canon[v.items[k]] ELSE F.items[j]]
          = [j \in D \cup {k} |-> Canon[v.items[j]]]
    BY <1>1
  <1> QED
    BY <1>2, <1>3 DEF R!WithItem, F

\* One more member of an Array.
LEMMA PushedFilled ==
  ASSUME NEW v, v.kind = "Array", NEW d \in Nat
  PROVE  R!Pushed(Filled(v, 1..d), Canon[v.items[d + 1]]) = Filled(v, 1..(d + 1))
  <1> DEFINE F == Filled(v, 1..d)
             x == Canon[v.items[d + 1]]
             C == {Canon[v.items[t]] : t \in 1..(d + 1)}
  <1>1. F.items = [t \in 1..d |-> Canon[v.items[t]]]
    <2>1. CASE 1..d = {}
      <3>1. F.items = <<>>
        BY <2>1 DEF Filled, Empty
      <3>2. <<>> = [t \in 1..d |-> Canon[v.items[t]]]
        BY <2>1
      <3> QED
        BY <3>1, <3>2
    <2>2. CASE 1..d # {}
      BY <2>2 DEF Filled
    <2> QED
      BY <2>1, <2>2
  <1>2. \A t \in 1..(d + 1) : Canon[v.items[t]] \in C
    OBVIOUS
  <1>3. x \in C /\ \A t \in 1..d : Canon[v.items[t]] \in C
    <2>1. d + 1 \in 1..(d + 1) /\ \A t \in 1..d : t \in 1..(d + 1)
      OBVIOUS
    <2> HIDE DEF C
    <2> QED
      BY <1>2, <2>1
  <1> HIDE DEF C, F
  <1> DEFINE s == F.items
  <1>4. s \in Seq(C) /\ Len(s) = d /\ \A t \in 1..d : s[t] = Canon[v.items[t]]
    BY <1>1, <1>3
  <1> HIDE DEF s
  <1>5. /\ Append(s, x) \in Seq(C) /\ Len(Append(s, x)) = d + 1
        /\ \A t \in 1..d : Append(s, x)[t] = s[t]
        /\ Append(s, x)[d + 1] = x
    BY <1>3, <1>4, AppendProperties
  <1> DEFINE r == [t \in 1..(d + 1) |-> Canon[v.items[t]]]
  <1>6. r \in Seq(C) /\ Len(r) = d + 1
    BY <1>2
  <1>7. \A t \in 1..(d + 1) : Append(s, x)[t] = r[t]
    <2>1. \A t \in 1..(d + 1) : r[t] = Canon[v.items[t]] /\ (t \in 1..d \/ t = d + 1)
      OBVIOUS
    <2> HIDE DEF r
    <2> QED
      BY <1>4, <1>5, <2>1
  <1>8. Append(s, x) = r
    <2> HIDE DEF r, x
    <2> QED
      BY <1>5, <1>6, <1>7, SeqEqual
  <1>9. Filled(v, 1..(d + 1)) = [kind |-> "Array", items |-> r]
    BY DEF Filled
  <1>10. R!Pushed(F, x) = [kind |-> "Array", items |-> Append(s, x)]
    BY DEF R!Pushed, s
  <1> QED
    BY <1>8, <1>9, <1>10 DEF F

\* The members taken by an activation.
LEMMA OrderTo ==
  ASSUME NEW a, GoodCall(a), a.order \in Orders(a.val), NEW d \in 0..Len(a.order)
  PROVE  /\ a.val.kind = "Array" => {a.order[t] : t \in 1..d} = 1..d
         /\ d < Len(a.order) =>
              {a.order[t] : t \in 1..(d + 1)} = {a.order[t] : t \in 1..d} \cup {a.order[d + 1]}
  <1>1. Len(a.order) \in Nat /\ a.val \in Tree /\ Container(a.val)
    BY CallFields
  <1>2. ASSUME a.val.kind = "Array"  PROVE {a.order[t] : t \in 1..d} = 1..d
    <2>1. \A t \in 1..Len(a.order) : a.order[t] = t
      BY <1>1, <1>2, OrderOnto
    <2>2. \A t \in 1..d : a.order[t] = t
      BY <1>1, <2>1
    <2> QED
      BY <2>2
  <1>3. \A t \in 1..(d + 1) : t \in 1..d \/ t = d + 1
    OBVIOUS
  <1>4. d + 1 \in 1..(d + 1) /\ \A t \in 1..d : t \in 1..(d + 1)
    OBVIOUS
  <1> QED
    BY <1>2, <1>3, <1>4

\* The frame f when the member it waits for has been stored.
Stored(f, x) ==
  [f EXCEPT !.val  = IF f.kind = "Object" THEN R!WithItem(f.val, f.key, x) ELSE R!Pushed(f.val, x),
            !.left = f.left - 1]

LEMMA StoreFrame ==
  ASSUME NEW a, GoodCall(a), a.order \in Orders(a.val), NEW i, NEW f, Mid(f, a, i),
         Depth[Child(a)] + i <= max_value_depth
  PROVE  FrameOf(Stored(f, Canon[Child(a)]), a, a.next - 1, i) /\ R!CanStore(f)
  <1> DEFINE x == Canon[Child(a)]  d == a.next - 2  k == a.order[a.next - 1]
             D == {a.order[t] : t \in 1..d}  g == Stored(f, x)
  <1>1. /\ a.next >= 2 /\ FrameOf(f, a, d, i)
        /\ a.val.kind = "Map" => f.key = k
    BY DEF Mid
  <1>2. /\ Len(a.order) \in Nat /\ a.next \in Nat /\ a.next <= Len(a.order) + 1
        /\ a.val \in Tree /\ Container(a.val)
    BY CallFields
  <1>3. d \in 0..Len(a.order) /\ d < Len(a.order) /\ d + 1 = a.next - 1 /\ d \in Nat
    BY <1>1, <1>2
  <1> HIDE DEF d
  <1>4. {a.order[t] : t \in 1..(a.next - 1)} = D \cup {k}
    BY <1>3, OrderTo
  <1>5. /\ Frame(f) /\ f.kind = IF a.val.kind = "Map" THEN "Object" ELSE "HetroArray"
        /\ f.left = Len(a.order) - d /\ f.val = Filled(a.val, D)
        /\ \A t \in 1..d : Depth[a.val.items[a.order[t]]] + i <= max_value_depth
    BY <1>1 DEF FrameOf
  <1>6. /\ Frame(g) /\ g.kind = f.kind /\ g.left = f.left - 1
        /\ g.val = IF f.kind = "Object" THEN R!WithItem(f.val, f.key, x) ELSE R!Pushed(f.val, x)
    <2> HIDE DEF x
    <2> DEFINE y == IF f.kind = "Object" THEN R!WithItem(f.val, f.key, x) ELSE R!Pushed(f.val, x)
               l == f.left - 1
    <2>1. f = [kind |-> f.kind, count |-> f.count, left |-> f.left, mark |-> f.mark,
               key |-> f.key, val |-> f.val]
      BY <1>5 DEF Frame
    <2>2. g = [f EXCEPT !.val = y, !.left = l]
      BY DEF Stored
    <2> HIDE DEF y, l
    <2>3. g = [kind |-> f.kind, count |-> f.count, left |-> l, mark |-> f.mark,
               key |-> f.key, val |-> y]
      BY <2>1, <2>2
    <2> HIDE DEF g
    <2> QED
      BY <2>3 DEF Frame, l, y
  <1>7. Child(a) = a.val.items[k]
    BY DEF Child
  <1>8. g.val = Filled(a.val, D \cup {k})
    <2>1. CASE a.val.kind = "Map"
      <3>1. f.kind = "Object" /\ f.key = k
        BY <1>1, <1>5, <2>1
      <3>2. g.val = R!WithItem(Filled(a.val, D), k, Canon[a.val.items[k]])
        BY <1>5, <1>6, <1>7, <3>1
      <3> HIDE DEF D, k, g
      <3> QED
        BY <2>1, <3>2, WithItemFilled
    <2>2. CASE a.val.kind = "Array"
      <3>1. f.kind # "Object"
        BY <1>5, <2>2
      <3>2. D = 1..d /\ D \cup {k} = 1..(d + 1)
        <4>1. d + 1 \in 0..Len(a.order)
          BY <1>2, <1>3
        <4> QED
          BY <1>3, <1>4, <2>2, <4>1, OrderTo
      <3>3. k = d + 1
        BY <1>2, <1>3, <2>2, OrderOnto
      <3>4. g.val = R!Pushed(Filled(a.val, 1..d), Canon[a.val.items[d + 1]])
        BY <1>5, <1>6, <1>7, <3>1, <3>2, <3>3
      <3> HIDE DEF D, k, g
      <3> QED
        BY <1>3, <2>2, <3>2, <3>4, PushedFilled
    <2> QED
      BY <1>2, <2>1, <2>2 DEF Container
  <1>9. \A t \in 1..(a.next - 1) : Depth[a.val.items[a.order[t]]] + i <= max_value_depth
    <2>1. \A t \in 1..(a.next - 1) : t \in 1..d \/ t = a.next - 1
      BY <1>3
    <2> QED
      BY <1>5, <1>7, <2>1
  <1>10. g.left = Len(a.order) - (a.next - 1)
    BY <1>2, <1>3, <1>5, <1>6
  <1>11. FrameOf(g, a, a.next - 1, i)
    <2> HIDE DEF g
    <2> QED
      BY <1>4, <1>5, <1>6, <1>8, <1>9, <1>10 DEF FrameOf
  <1>12. R!CanStore(f)
    <2>1. Filled(a.val, D).kind \in {"Null", a.val.kind}
      BY DEF Filled, Empty
    <2> QED
      BY <1>5, <2>1 DEF R!CanStore
  <1> QED
    BY <1>11, <1>12

LEMMA SameFrame ==
  ASSUME NEW f, NEW a, NEW b, NEW d, NEW i, FrameOf(f, a, d, i), b.val = a.val, b.order = a.order
  PROVE  FrameOf(f, b, d, i)
  BY DEF FrameOf

LEMMA SameMid ==
  ASSUME NEW f, NEW a, NEW b, NEW i, Mid(f, a, i), Same(a, b)
  PROVE  Mid(f, b, i)
  BY SameFrame DEF Mid, Same

\* Frames and activations of one length.
LEMMA FramesLen ==
  ASSUME NEW fs, IsSequence(fs)
  PROVE  /\ Len(fs) \in Nat /\ (fs = <<>> <=> Len(fs) = 0)
         /\ fs # <<>> => Len(fs) \in 1..Len(fs)
  BY DEF IsSequence

LEMMA LastOf ==
  ASSUME NEW cs, NEW v, Chain(cs, v), cs # <<>>
  PROVE  LET n == Len(cs)  a == cs[n]
         IN  /\ n \in Nat /\ n >= 1 /\ n \in 1..n /\ GoodCall(a) /\ a.order \in Orders(a.val)
             /\ a.val \in Tree /\ Container(a.val)
             /\ Len(a.order) \in Nat /\ a.next \in Nat /\ a.next >= 1
             /\ a.next <= Len(a.order) + 1
             /\ Depth[a.val] + n <= Depth[v] + 1 /\ Parts[a.val] \subseteq Parts[v]
  <1> DEFINE n == Len(cs)  a == cs[n]
  <1>1. n \in Nat /\ n >= 1 /\ GoodCall(a)
    BY ChainLen
  <1>2. n \in 1..n
    BY <1>1
  <1>3. /\ a.order \in Orders(a.val) /\ Depth[a.val] + n <= Depth[v] + 1
        /\ Parts[a.val] \subseteq Parts[v]
    BY <1>2 DEF Chain
  <1> HIDE DEF a, n
  <1>4. /\ a.val \in Tree /\ Container(a.val)
        /\ Len(a.order) \in Nat /\ a.next \in Nat /\ a.next >= 1 /\ a.next <= Len(a.order) + 1
    BY <1>1, CallFields
  <1> QED
    BY <1>1, <1>2, <1>3, <1>4 DEF a, n

\* The last of the frames gives way to another.
LEMMA FramesReplace ==
  ASSUME NEW fs, IsSequence(fs), fs # <<>>, NEW f
  PROVE  /\ IsSequence([fs EXCEPT ![Len(fs)] = f])
         /\ Len([fs EXCEPT ![Len(fs)] = f]) = Len(fs)
         /\ [fs EXCEPT ![Len(fs)] = f] # <<>>
         /\ [fs EXCEPT ![Len(fs)] = f][Len(fs)] = f
         /\ \A i \in 1..(Len(fs) - 1) : [fs EXCEPT ![Len(fs)] = f][i] = fs[i]
  <1> DEFINE g == [fs EXCEPT ![Len(fs)] = f]
  <1>1. PICK S : fs \in Seq(S)
    BY DEF IsSequence
  <1>2. Len(fs) \in 1..Len(fs) /\ Len(fs) \in Nat
    BY <1>1
  <1>3. fs \in Seq(S \cup {f})
    BY <1>1, SeqMonotonic
  <1>4. /\ g \in Seq(S \cup {f}) /\ Len(g) = Len(fs)
        /\ \A j \in 1..Len(fs) : g[j] = IF j = Len(fs) THEN f ELSE fs[j]
    BY <1>2, <1>3, ExceptSeq
  <1> HIDE DEF g
  <1>5. \A i \in 1..(Len(fs) - 1) : i \in 1..Len(fs) /\ i # Len(fs)
    BY <1>2
  <1>6. g # <<>>
    BY <1>2, <1>4
  <1>7. /\ IsSequence(g) /\ Len(g) = Len(fs) /\ g # <<>> /\ g[Len(fs)] = f
        /\ \A i \in 1..(Len(fs) - 1) : g[i] = fs[i]
    BY <1>2, <1>4, <1>5, <1>6 DEF IsSequence
  <1> QED
    BY <1>7 DEF g

LEMMA FramesPush ==
  ASSUME NEW fs, IsSequence(fs), NEW f
  PROVE  /\ IsSequence(Append(fs, f)) /\ Len(Append(fs, f)) = Len(fs) + 1
         /\ Append(fs, f) # <<>> /\ Append(fs, f)[Len(fs) + 1] = f
         /\ \A i \in 1..Len(fs) : Append(fs, f)[i] = fs[i]
  <1> DEFINE g == Append(fs, f)
  <1>1. PICK S : fs \in Seq(S)
    BY DEF IsSequence
  <1> DEFINE C == S \cup {f}
  <1>2. fs \in Seq(C) /\ f \in C
    BY <1>1, SeqMonotonic
  <1> HIDE DEF C
  <1>3. /\ g \in Seq(C) /\ Len(g) = Len(fs) + 1 /\ g[Len(fs) + 1] = f
        /\ \A i \in 1..Len(fs) : g[i] = fs[i]
    BY <1>2, AppendProperties
  <1> HIDE DEF g
  <1>4. g # <<>>
    BY <1>2, <1>3
  <1>5. IsSequence(g)
    BY <1>3 DEF IsSequence
  <1> QED
    BY <1>3, <1>4, <1>5 DEF g

Front(fs) == SubSeq(fs, 1, Len(fs) - 1)

LEMMA FramesPop ==
  ASSUME NEW fs, IsSequence(fs), fs # <<>>
  PROVE  /\ IsSequence(Front(fs)) /\ Len(Front(fs)) = Len(fs) - 1
         /\ \A i \in 1..(Len(fs) - 1) : Front(fs)[i] = fs[i]
  <1>1. PICK S : fs \in Seq(S)
    BY DEF IsSequence
  <1> DEFINE n == Len(fs) - 1  g == Front(fs)
  <1>2. n \in Nat /\ 1 \in Int /\ \A i \in 1..n : fs[i] \in S
    BY <1>1
  <1>3. g = SubSeq(fs, 1, n)
    BY DEF Front
  <1> HIDE DEF n, g
  <1>4. /\ SubSeq(fs, 1, n) \in Seq(S)
        /\ Len(SubSeq(fs, 1, n)) = IF 1 <= n THEN n - 1 + 1 ELSE 0
        /\ \A i \in 1..n - 1 + 1 : SubSeq(fs, 1, n)[i] = fs[1 + i - 1]
    BY <1>2, SubSeqProperties
  <1>5. Len(g) = n
    BY <1>2, <1>3, <1>4
  <1>6. \A i \in 1..n : i \in 1..n - 1 + 1 /\ fs[1 + i - 1] = fs[i]
    BY <1>2
  <1>7. \A i \in 1..n : g[i] = fs[i]
    BY <1>3, <1>4, <1>6
  <1> QED
    BY <1>3, <1>4, <1>5, <1>7 DEF IsSequence, n, g

\* The member that all wait for is stored.
LEMMA StoreBetween ==
  ASSUME NEW W, NEW v, Chain(W, v), W # <<>>, NEW fs, IsSequence(fs), Under(W, fs),
         NEW c, c = Child(W[Len(W)]), Depth[c] + Len(W) <= max_value_depth
  PROVE  /\ fs # <<>> /\ R!CanStore(fs[Len(fs)])
         /\ LET gs == R!Store(fs, Canon[c])
            IN  IsSequence(gs) /\ Len(gs) = Len(fs) /\ Between(W, gs)
  <1> DEFINE n == Len(W)  f == fs[n]  g == Stored(f, Canon[c])  gs == R!Store(fs, Canon[c])
  <1>1. n \in Nat /\ n >= 1 /\ n \in 1..n /\ GoodCall(W[n]) /\ W[n].order \in Orders(W[n].val)
    BY LastOf
  <1>2. Len(fs) = n /\ \A i \in 1..n : Mid(fs[i], W[i], i)
    BY DEF Under, Mids
  <1>3. fs # <<>>
    BY <1>1, <1>2, FramesLen
  <1>4. Mid(f, W[n], n)
    BY <1>1, <1>2
  <1>5. FrameOf(g, W[n], W[n].next - 1, n) /\ R!CanStore(f)
    BY <1>1, <1>4, StoreFrame
  <1>6. gs = [fs EXCEPT ![Len(fs)] = g]
    BY <1>2 DEF R!Store, Stored
  <1> HIDE DEF g, gs
  <1>7. /\ IsSequence(gs) /\ Len(gs) = Len(fs) /\ gs[Len(fs)] = g
        /\ \A i \in 1..(Len(fs) - 1) : gs[i] = fs[i]
    <2>1. /\ IsSequence([fs EXCEPT ![Len(fs)] = g])
          /\ Len([fs EXCEPT ![Len(fs)] = g]) = Len(fs)
          /\ [fs EXCEPT ![Len(fs)] = g][Len(fs)] = g
          /\ \A i \in 1..(Len(fs) - 1) : [fs EXCEPT ![Len(fs)] = g][i] = fs[i]
      BY <1>3, FramesReplace
    <2> QED
      BY <1>6, <2>1
  <1>8. \A i \in 1..(n - 1) : i \in 1..n
    BY <1>1
  <1>9. Between(W, gs)
    BY <1>1, <1>2, <1>5, <1>7, <1>8 DEF Between, Mids
  <1> QED
    BY <1>2, <1>3, <1>5, <1>7, <1>9 DEF gs

\* The writer takes a member: all frames wait for it, and those below a
\* container that is entered.
LEMMA TakeFrames ==
  ASSUME NEW W, NEW v, Chain(W, v), NEW o, NEW X, Moves(W, o, X), Takes(W, o, X),
         NEW fs, IsSequence(fs), Between(W, fs),
         W[Len(W)].val.kind = "Map" => fs[Len(W)].key = W[Len(W)].order[W[Len(W)].next]
  PROVE  /\ ~Container(NextOf(W[Len(W)])) => Under(X, fs)
         /\ Container(NextOf(W[Len(W)])) => Len(X) = Len(W) + 1 /\ (X # <<>> => Fresh(X, fs))
         /\ Child(X[Len(W)]) = NextOf(W[Len(W)])
  <1> DEFINE n == Len(W)  a == W[n]
  <1>1. n \in Nat /\ n >= 1 /\ n \in 1..n /\ GoodCall(a)
    BY ChainLen DEF Moves
  <1>2. a.next \in Nat /\ a.next >= 1
    BY <1>1, CallFields
  <1>3. Goes(a, X[n])
    BY DEF Takes
  <1>4. Len(fs) = n /\ FrameOf(fs[n], a, a.next - 1, n) /\ \A i \in 1..(n - 1) : Mid(fs[i], W[i], i)
    BY DEF Between, Mids
  <1>5. Mid(fs[n], X[n], n)
    <2>1. /\ X[n].val = a.val /\ X[n].order = a.order /\ X[n].next = a.next + 1
          /\ X[n].next >= 2 /\ X[n].next - 2 = a.next - 1 /\ X[n].next - 1 = a.next
      BY <1>2, <1>3 DEF Goes
    <2>2. FrameOf(fs[n], X[n], a.next - 1, n)
      BY <1>4, <2>1, SameFrame
    <2>3. a.val.kind = "Map" => fs[n].key = a.order[a.next]
      OBVIOUS
    <2> HIDE DEF a
    <2> QED
      BY <2>1, <2>2, <2>3 DEF Mid
  <1>6. \A i \in 1..(n - 1) : Mid(fs[i], X[i], i)
    BY <1>4, SameMid DEF Moves
  <1>7. Mids(fs, X, n)
    <2>1. \A i \in 1..n : i = n \/ i \in 1..(n - 1)
      BY <1>1
    <2> QED
      BY <1>5, <1>6, <2>1 DEF Mids
  <1>8. Child(X[n]) = NextOf(a)
    <2>1. /\ X[n].val = a.val /\ X[n].order = a.order /\ X[n].next - 1 = a.next
      BY <1>2, <1>3 DEF Goes
    <2> QED
      BY <2>1 DEF Child, NextOf
  <1>9. ASSUME ~Container(NextOf(a))  PROVE Under(X, fs)
    <2>1. Len(X) = n
      BY <1>9 DEF Takes
    <2> QED
      BY <1>4, <1>7, <2>1 DEF Under
  <1>10. ASSUME Container(NextOf(a))  PROVE Len(X) = n + 1 /\ (X # <<>> => Fresh(X, fs))
    <2>1. Len(X) = n + 1 /\ X[n + 1].next = 1
      BY <1>10 DEF Takes
    <2>2. Len(X) - 1 = n
      BY <1>1, <2>1
    <2> QED
      BY <1>4, <1>7, <2>1, <2>2 DEF Fresh
  <1> QED
    BY <1>8, <1>9, <1>10

\* A container ends: the frames below wait for it, and what its own frame has
\* filled is what is left of it.
LEMMA EndFrames ==
  ASSUME NEW W, NEW v, Chain(W, v), NEW o, NEW X, Moves(W, o, X), Ends(W, o, X),
         NEW fs, IsSequence(fs), Between(W, fs), Len(fs) <= max_value_depth
  PROVE  /\ IsSequence(Front(fs)) /\ Under(X, Front(fs))
         /\ fs[Len(W)].val = Canon[W[Len(W)].val]
         /\ Depth[W[Len(W)].val] + Len(W) <= max_value_depth + 1
         /\ Len(W) > 1 => Child(X[Len(W) - 1]) = W[Len(W)].val
  <1> DEFINE n == Len(W)  a == W[n]  f == fs[n]  gs == Front(fs)
  <1> HIDE DEF gs
  <1>1. n \in Nat /\ n >= 1 /\ n \in 1..n /\ GoodCall(a) /\ a.order \in Orders(a.val)
    BY LastOf DEF Moves
  <1>2. /\ a.next \in Nat /\ a.next >= 1 /\ Len(a.order) \in Nat /\ a.next <= Len(a.order) + 1
        /\ a.val \in Tree /\ Container(a.val)
    BY LastOf DEF Moves
  <1>3. a.next - 1 = Len(a.order)
    <2>1. a.next > Len(a.order)
      BY DEF Ends, Taken
    <2> HIDE DEF a
    <2> QED
      BY <1>2, <2>1
  <1>4. Len(fs) = n /\ FrameOf(f, a, a.next - 1, n) /\ \A i \in 1..(n - 1) : Mid(fs[i], W[i], i)
    BY DEF Between, Mids
  <1>5. fs # <<>>
    BY <1>1, <1>4, FramesLen
  <1>6. IsSequence(gs) /\ Len(gs) = n - 1 /\ \A i \in 1..(n - 1) : gs[i] = fs[i]
    BY <1>4, <1>5, FramesPop DEF gs
  <1>7. Len(X) = n - 1 /\ \A i \in 1..(n - 1) : Same(W[i], X[i])
    BY DEF Ends, Moves
  <1>8. Under(X, gs)
    BY <1>4, <1>6, <1>7, SameMid DEF Under, Mids
  <1>9. {a.order[t] : t \in 1..Len(a.order)} = DOMAIN a.val.items
    BY <1>1, <1>2, OrderOnto
  <1>10. f.val = Canon[a.val]
    <2>1. f.val = Filled(a.val, DOMAIN a.val.items)
      BY <1>3, <1>4, <1>9 DEF FrameOf
    <2> HIDE DEF f, a
    <2> QED
      BY <1>2, <2>1, CanonOfContainer
  <1>11. Depth[a.val] + n <= max_value_depth + 1
    <2>1. \A m \in Members(a.val) : Depth[m] + n <= max_value_depth
      <3>1. \A t \in 1..Len(a.order) : Depth[a.val.items[a.order[t]]] + n <= max_value_depth
        BY <1>3, <1>4 DEF FrameOf
      <3>2. \A k \in DOMAIN a.val.items : \E t \in 1..Len(a.order) : a.order[t] = k
        BY <1>9
      <3>3. \A m \in Members(a.val) : \E k \in DOMAIN a.val.items : m = a.val.items[k]
        BY <1>2 DEF Members
      <3> QED
        BY <3>1, <3>2, <3>3
    <2> DEFINE l == max_value_depth - n
    <2>2. max_value_depth \in Nat /\ l \in Nat
      BY <1>1, <1>4, StreamAssumption
    <2>3. \A m \in Members(a.val) : Depth[m] \in Nat /\ Depth[m] <= l
      BY <1>1, <1>2, <2>1, <2>2, MembersIn
    <2>4. Depth[a.val] \in Nat
      BY <1>2, MembersIn
    <2> HIDE DEF a
    <2>5. CASE EmptyArray(a.val)
      <3>1. Depth[a.val] = 0
        BY <1>2, <2>5, DepthZero
      <3> QED
        BY <1>1, <2>2, <3>1
    <2>6. CASE ~EmptyArray(a.val)
      <3> HIDE DEF l
      <3>1. Depth[a.val] <= l + 1
        BY <1>2, <2>2, <2>3, <2>6, DepthBound
      <3> QED
        BY <1>1, <2>2, <2>4, <3>1 DEF l
    <2> QED
      BY <2>5, <2>6
  <1>12. ASSUME n > 1  PROVE Child(X[n - 1]) = a.val
    <2>1. n - 1 \in 1..n /\ n - 1 < n /\ n - 1 \in 1..(n - 1) /\ (n - 1) + 1 = n
      BY <1>1, <1>12
    <2>2. W[(n - 1) + 1].val = Child(W[n - 1])
      BY <2>1 DEF Chain
    <2>3. Child(X[n - 1]) = Child(W[n - 1])
      BY <1>7, <2>1 DEF Same, Child
    <2> QED
      BY <2>1, <2>2, <2>3
  <1> QED
    BY <1>6, <1>8, <1>10, <1>11, <1>12 DEF gs

\* A container is entered.
LEMMA EnterFrames ==
  ASSUME NEW W, NEW v, Chain(W, v), NEW fs, IsSequence(fs), Fresh(W, fs),
         NEW f, Frame(f), f.kind = (IF W[Len(W)].val.kind = "Map" THEN "Object" ELSE "HetroArray"),
         f.left = SizeOf(W[Len(W)].val), f.val = Empty
  PROVE  IsSequence(Append(fs, f)) /\ Between(W, Append(fs, f)) /\ Len(Append(fs, f)) = Len(W)
  <1> DEFINE n == Len(W)  a == W[n]  gs == Append(fs, f)
  <1>1. W # <<>> /\ a.next = 1 /\ Len(fs) = n - 1 /\ \A i \in 1..(n - 1) : Mid(fs[i], W[i], i)
    BY DEF Fresh, Mids
  <1>2. n \in Nat /\ n >= 1 /\ n \in 1..n /\ GoodCall(a) /\ a.order \in Orders(a.val)
        /\ a.val \in Tree /\ Container(a.val)
    BY <1>1, LastOf
  <1>3. /\ IsSequence(gs) /\ Len(gs) = n /\ gs[n] = f
        /\ \A i \in 1..(n - 1) : gs[i] = fs[i]
    <2>1. n = Len(fs) + 1 /\ Len(fs) = n - 1
      BY <1>1, <1>2
    <2>2. /\ IsSequence(Append(fs, f)) /\ Len(Append(fs, f)) = Len(fs) + 1
          /\ Append(fs, f)[Len(fs) + 1] = f
          /\ \A i \in 1..Len(fs) : Append(fs, f)[i] = fs[i]
      BY FramesPush
    <2> QED
      BY <2>1, <2>2
  <1> HIDE DEF gs
  <1>4. Len(a.order) = SizeOf(a.val) /\ Len(a.order) \in Nat
    BY <1>2, OrderOnto, CallFields
  <1>5. FrameOf(f, a, 0, n)
    <2>1. 1..0 = {} /\ {a.order[t] : t \in 1..0} = {}
      OBVIOUS
    <2>2. f.val = Filled(a.val, {a.order[t] : t \in 1..0})
      BY <2>1, FilledNone
    <2>3. f.left = Len(a.order) - 0
      BY <1>4
    <2> QED
      BY <2>1, <2>2, <2>3 DEF FrameOf
  <1>6. Between(W, gs)
    BY <1>1, <1>3, <1>5 DEF Between, Mids
  <1> QED
    BY <1>3, <1>6 DEF gs

\* The last frame gets its key.
Keyed(fs, k) == [fs EXCEPT ![Len(fs)] = [fs[Len(fs)] EXCEPT !.key = k]]

LEMMA KeyFrames ==
  ASSUME NEW W, NEW v, Chain(W, v), NEW fs, IsSequence(fs), Between(W, fs), NEW k
  PROVE  LET gs == Keyed(fs, k)
         IN  IsSequence(gs) /\ Between(W, gs) /\ gs[Len(W)].key = k /\ Len(gs) = Len(fs)
  <1> DEFINE n == Len(W)  a == W[n]  f == fs[n]  g == [f EXCEPT !.key = k]  gs == Keyed(fs, k)
  <1>1. /\ W # <<>> /\ Len(fs) = n /\ FrameOf(f, a, a.next - 1, n)
        /\ \A i \in 1..(n - 1) : Mid(fs[i], W[i], i)
    BY DEF Between, Mids
  <1>2. n \in Nat /\ n >= 1 /\ fs # <<>>
    BY <1>1, ChainLen, FramesLen
  <1>3. g = [kind |-> f.kind, count |-> f.count, left |-> f.left, mark |-> f.mark,
             key |-> k, val |-> f.val]
    <2>1. f = [kind |-> f.kind, count |-> f.count, left |-> f.left, mark |-> f.mark,
               key |-> f.key, val |-> f.val]
      BY <1>1 DEF FrameOf, Frame
    <2> HIDE DEF f
    <2> QED
      BY <2>1
  <1> HIDE DEF g
  <1>4. /\ Frame(g) /\ g.key = k /\ g.kind = f.kind /\ g.left = f.left /\ g.val = f.val
    BY <1>3 DEF Frame
  <1>5. FrameOf(g, a, a.next - 1, n)
    BY <1>1, <1>4 DEF FrameOf
  <1>6. gs = [fs EXCEPT ![Len(fs)] = g]
    BY <1>1 DEF g, Keyed
  <1> HIDE DEF gs
  <1>7. /\ IsSequence(gs) /\ Len(gs) = Len(fs) /\ gs[Len(fs)] = g
        /\ \A i \in 1..(Len(fs) - 1) : gs[i] = fs[i]
    <2>1. /\ IsSequence([fs EXCEPT ![Len(fs)] = g])
          /\ Len([fs EXCEPT ![Len(fs)] = g]) = Len(fs)
          /\ [fs EXCEPT ![Len(fs)] = g][Len(fs)] = g
          /\ \A i \in 1..(Len(fs) - 1) : [fs EXCEPT ![Len(fs)] = g][i] = fs[i]
      BY <1>2, FramesReplace
    <2> QED
      BY <1>6, <2>1
  <1>8. Between(W, gs)
    BY <1>1, <1>5, <1>7 DEF Between, Mids
  <1> QED
    BY <1>1, <1>4, <1>7, <1>8 DEF gs

-----------------------------------------------------------------------------
(* Where the reader stands in the story of the writer: at the stack W of   *)
(* activations, with t still in the stream, or within the move from W to   *)
(* the next stack, with u still to come after it.                          *)

Left == [fields |-> rest, size |-> sent.size - bytes_so_far]

Last(W) == W[Len(W)]
KindOf(v) == IF v.kind = "Map" THEN "Object" ELSE "HetroArray"

AtStart(W, t) ==
  pc = "start" /\ frames = <<>> /\ Len(W) = 1 /\ W[1].next = 1
    /\ Left = Then(Opening(W[1].val).out, t)

AtLoop(W, t) == pc = "loop" /\ Between(W, frames) /\ Left = t
AtEnd(W, t)  == pc = "end" /\ Between(W, frames) /\ Left = t /\ Taken(Last(W))

AtKeyLen(W, t) ==
  pc = "keyLen" /\ Between(W, frames) /\ Left = t
    /\ ~Taken(Last(W)) /\ Last(W).val.kind = "Map"

AtItem(W, t) ==
  pc = "itemMarker" /\ Between(W, frames) /\ Left = t
    /\ ~Taken(Last(W)) /\ Last(W).val.kind # "Map"

AtKeyBytes(W, u) ==
  LET a == Last(W)  k == a.order[a.next] IN
  /\ pc = "keyBytes" /\ Between(W, frames) /\ ~Taken(a) /\ a.val.kind = "Map"
  /\ width = KeyLen[k]
  /\ Left = Then(Field("keyBytes", k, width), Then(MemberOut(NextOf(a)), u))

AtMember(W, u) ==
  LET a == Last(W) IN
  /\ pc \in {"keyMarker", "itemMarker"} /\ Between(W, frames) /\ ~Taken(a)
  /\ a.val.kind = "Map" => frames[Len(W)].key = a.order[a.next]
  /\ Left = Then(MemberOut(NextOf(a)), u)

\* The leaf that is due is left as x.
Due(W, x) ==
  W # <<>> /\ Under(W, frames) /\ ~Container(Child(Last(W))) /\ x = Canon[Child(Last(W))]

TextOf(m) == R!Leaf(IF m = "s" THEN "String" ELSE "Binary")

AtNumber(W, t) ==
  pc = "number" /\ Due(W, R!Leaf(R!ScalarOf(marker)[1])) /\ width \in Nat
    /\ \E n : Left = Then(Field("number", n, width), t)

AtTextCount(W, t) ==
  pc = "count" /\ asked = "Text" /\ Due(W, TextOf(marker))
    /\ \E n \in 0..MaxCount : \E w \in Widths :
         Left = Then(NumberOf(UintMark(w), n, w), Then(Field("data", 0, n), t))

AtTextBytes(W, t) ==
  pc = "countBytes" /\ asked = "Text" /\ Due(W, TextOf(marker)) /\ width \in Widths
    /\ \E n \in 0..MaxCount :
         Left = Then(Field("number", n, width), Then(Field("data", 0, n), t))

AtText(W, t) ==
  pc = "text" /\ Due(W, TextOf(marker)) /\ width \in Nat
    /\ Left = Then(Field("data", 0, width), t)

AtEmpty(W, t) ==
  pc = "count" /\ asked = "HetroArray" /\ Fresh(W, frames) /\ Len(W) > 1
    /\ EmptyArray(Last(W).val) /\ Left = t

AtCount(W, t) ==
  pc = "count" /\ asked = KindOf(Last(W).val) /\ Fresh(W, frames)
    /\ ~EmptyArray(Last(W).val) /\ Left = Then(append_size(SizeOf(Last(W).val)).out, t)

AtCountBytes(W, t) ==
  pc = "countBytes" /\ asked = KindOf(Last(W).val) /\ Fresh(W, frames)
    /\ ~EmptyArray(Last(W).val) /\ width = UintWidth(SizeOf(Last(W).val))
    /\ Left = Then(Field("number", SizeOf(Last(W).val), width), t)

StandsAt(W, t) ==
  \/ AtStart(W, t) \/ AtLoop(W, t) \/ AtEnd(W, t) \/ AtKeyLen(W, t) \/ AtItem(W, t)
  \/ AtNumber(W, t) \/ AtTextCount(W, t) \/ AtTextBytes(W, t) \/ AtText(W, t)
  \/ AtEmpty(W, t) \/ AtCount(W, t) \/ AtCountBytes(W, t)

Within(W, u) == AtKeyBytes(W, u) \/ AtMember(W, u)

Depths ==
  IsSequence(frames) /\ Len(frames) <= max_value_depth /\ recursive_depth = Len(frames)
    /\ out = Empty /\ result = "none"

Meter ==
  Output(Left) /\ sent.size \in Nat /\ bytes_so_far \in Nat /\ bytes_so_far <= max_object_size

\* What ReadsBack asks of the end of a call.
Verdict ==
  /\ (result = "true") <=> Admitted
  /\ result = "true" => out = Canon[value] /\ rest = <<>>

\* From the stack W the writer has moved to X, and t is what it sent from then on.
Scene(W, t, X, u) ==
  /\ value \in Tree /\ value.kind = "Map" /\ Encodable(value)
  /\ Chain(W, value) /\ Chain(X, value) /\ Output(t) /\ Output(u)
  /\ \E o : Moves(W, o, X) /\ t = Then(o, u)
  /\ X = <<>> => u = Nothing

-----------------------------------------------------------------------------
(* What a read() finds.                                                    *)

LEMMA MeantIs ==
  /\ pc \in {"start", "count", "keyMarker", "itemMarker", "end"} =>
       pc \in R!Reads /\ Meant = "mark" /\ R!ReadSize = 1
  /\ pc \in {"countBytes", "number"} =>
       pc \in R!Reads /\ Meant = "number" /\ R!ReadSize = width
  /\ pc = "keyLen" => pc \in R!Reads /\ Meant = "keyLen" /\ R!ReadSize = 1
  /\ pc = "keyBytes" => pc \in R!Reads /\ Meant = "keyBytes" /\ R!ReadSize = width
  /\ pc = "text" => pc \in R!Reads /\ Meant = "data" /\ R!ReadSize = width
  BY DEF Meant, R!ReadSize, R!Reads, R!ByteReads, R!WidthReads

\* The field that is due has the content of, and s comes after it.
Awaits(of, s) ==
  /\ pc \in R!Reads /\ R!ReadSize \in Nat /\ Output(s)
  /\ Left = Then(Field(Meant, of, R!ReadSize), s)

LEMMA AwaitsFound ==
  ASSUME NEW of, NEW s, Awaits(of, s)
  PROVE  /\ Found /\ Head(rest) = [what |-> Meant, of |-> of, size |-> R!ReadSize]
         /\ Tail(rest) = s.fields
         /\ sent.size - bytes_so_far = R!ReadSize + s.size /\ s.size \in Nat
  <1>1. /\ R!ReadSize \in Nat /\ Output(s)
        /\ Left = Then(Field(Meant, of, R!ReadSize), s)
    BY DEF Awaits
  <1>2. Left.fields = rest /\ Left.size = sent.size - bytes_so_far
    BY DEF Left
  <1> DEFINE n == R!ReadSize  what == Meant  o == Left
  <1> HIDE DEF n, what, o
  <1>3. /\ o.fields # <<>> /\ Head(o.fields) = [what |-> what, of |-> of, size |-> n]
        /\ Tail(o.fields) = s.fields /\ o.size = n + s.size
    <2>1. n \in Nat /\ Output(s) /\ o = Then(Field(what, of, n), s)
      BY <1>1 DEF n, what, o
    <2> QED
      BY <2>1, FieldThen
  <1>4. s.size \in Nat
    BY <1>1 DEF Output
  <1>5. Found
    BY <1>2, <1>3 DEF Found, n, what, o
  <1> QED
    BY <1>2, <1>3, <1>4, <1>5 DEF n, what, o

\* A read() that finds it leaves s.
LEMMA AwaitsRead ==
  ASSUME NEW of, NEW s, Awaits(of, s), Meter, Reading, R!Read
  PROVE  Left' = s /\ Meter'
  <1>1. /\ Tail(rest) = s.fields
        /\ sent.size - bytes_so_far = R!ReadSize + s.size /\ s.size \in Nat
    BY AwaitsFound
  <1>2. rest' = Tail(rest) /\ sent' = sent
    BY DEF Reading, wvars
  <1>3. /\ bytes_so_far + R!ReadSize <= max_object_size
        /\ bytes_so_far' = bytes_so_far + R!ReadSize
    BY DEF R!Read
  <1> DEFINE n == R!ReadSize
  <1>4. n \in Nat /\ Output(s) /\ bytes_so_far \in Nat
    BY DEF Awaits, Meter
  <1> HIDE DEF n
  <1>5. sent.size \in Nat
    BY DEF Meter
  <1>6. sent'.size - bytes_so_far' = s.size
    BY <1>1, <1>2, <1>3, <1>4, <1>5 DEF n
  <1>7. s = [fields |-> s.fields, size |-> s.size]
    BY <1>4 DEF Output
  <1>8. Left' = s
    BY <1>1, <1>2, <1>6, <1>7 DEF Left
  <1>9. bytes_so_far' \in Nat /\ bytes_so_far' <= max_object_size
    BY <1>3, <1>4 DEF n
  <1> QED
    BY <1>2, <1>4, <1>5, <1>8, <1>9 DEF Meter

\* Which read() it is.
LEMMA Dispatch ==
  ASSUME NEW of, NEW s, Awaits(of, s), Reading
  PROVE  /\ R!Read
         /\ pc = "start" => R!ReadStart(of)
         /\ pc = "count" => R!ReadCount(of)
         /\ pc \in {"keyMarker", "itemMarker"} => R!ReadMarker(of)
         /\ pc = "end" => R!ReadEnd(of)
         /\ pc = "countBytes" => R!ReadCountBytes(of)
         /\ pc = "number" => R!ReadNumber
         /\ pc = "text" => R!ReadText
         /\ pc = "keyLen" => \E k \in Keys : KeyLen[k] = of /\ R!ReadKeyLen(k)
         /\ pc = "keyBytes" => R!ReadKeyBytes(of)
  <1> DEFINE f == Head(rest)
  <1>1. f.what = Meant /\ f.of = of
    BY AwaitsFound
  <1>2. Take(f)
    BY DEF Reading
  <1> HIDE DEF f
  <1>3. pc \in R!Reads
    BY DEF Awaits
  <1>4. CASE pc \in {"start", "count", "keyMarker", "itemMarker", "end"}
    <2>1. f.what = "mark"
      BY <1>1, <1>4, MeantIs
    <2>2. R!ReadStart(of) \/ R!ReadCount(of) \/ R!ReadMarker(of) \/ R!ReadEnd(of)
      BY <1>1, <1>2, <2>1 DEF Take
    <2> QED
      BY <1>4, <2>2 DEF R!ReadStart, R!ReadCount, R!ReadMarker, R!ReadEnd
  <1>5. CASE pc \in {"countBytes", "number"}
    <2>1. f.what = "number"
      BY <1>1, <1>5, MeantIs
    <2>2. R!ReadCountBytes(of) \/ R!ReadNumber
      BY <1>1, <1>2, <2>1 DEF Take
    <2> QED
      BY <1>5, <2>2 DEF R!ReadCountBytes, R!ReadNumber
  <1>6. CASE pc = "keyLen"
    <2>1. f.what = "keyLen"
      BY <1>1, <1>6, MeantIs
    <2>2. \E k \in Keys : KeyLen[k] = of /\ R!ReadKeyLen(k)
      BY <1>1, <1>2, <2>1 DEF Take
    <2> QED
      BY <1>6, <2>2 DEF R!ReadKeyLen
  <1>7. CASE pc = "keyBytes"
    <2>1. f.what = "keyBytes"
      BY <1>1, <1>7, MeantIs
    <2>2. R!ReadKeyBytes(of)
      BY <1>1, <1>2, <2>1 DEF Take
    <2> QED
      BY <1>7, <2>2 DEF R!ReadKeyBytes
  <1>8. CASE pc = "text"
    <2>1. f.what = "data"
      BY <1>1, <1>8, MeantIs
    <2>2. R!ReadText
      BY <1>1, <1>2, <2>1 DEF Take
    <2> QED
      BY <1>8, <2>2 DEF R!ReadText
  <1>9. CASE pc = "typeMark"
    <2>1. f.what = "mark"
      BY <1>1, <1>9 DEF Meant
    <2>2. R!ReadStart(of) \/ R!ReadCount(of) \/ R!ReadMarker(of) \/ R!ReadEnd(of)
      BY <1>1, <1>2, <2>1 DEF Take
    <2> QED
      BY <1>9, <2>2 DEF R!ReadStart, R!ReadCount, R!ReadMarker, R!ReadEnd
  <1> QED
    BY <1>3, <1>4, <1>5, <1>6, <1>7, <1>8, <1>9 DEF R!Reads, R!ByteReads, R!WidthReads

\* When the policy forbids it, the Value is too large for the policy.
LEMMA AwaitsPolicy ==
  ASSUME NEW of, NEW s, Awaits(of, s), Meter, R!PolicyViolation,
         sent' = sent, value' = value
  PROVE  pc' = "idle" /\ Verdict'
  <1>1. sent.size - bytes_so_far = R!ReadSize + s.size /\ s.size \in Nat
    BY AwaitsFound
  <1>2. bytes_so_far + R!ReadSize > max_object_size /\ R!Fail("Maximum Object size read")
    BY DEF R!PolicyViolation
  <1>3. pc' = "idle" /\ result' = "false"
    BY <1>2 DEF R!Fail, R!Unwind
  <1> DEFINE n == R!ReadSize
  <1>4. n \in Nat /\ bytes_so_far \in Nat /\ sent.size \in Nat
    BY DEF Awaits, Meter
  <1>8. sent.size - bytes_so_far = n + s.size /\ bytes_so_far + n > max_object_size
    BY <1>1, <1>2
  <1>9. max_object_size \in Nat
    BY StreamAssumption
  <1> HIDE DEF n
  <1>5. sent.size > max_object_size
    BY <1>1, <1>4, <1>8, <1>9
  <1>6. ~Admitted'
    <2>1. ~(sent'.size <= max_object_size)
      BY <1>4, <1>5, StreamAssumption
    <2> QED
      BY <2>1 DEF Admitted
  <1>7. Verdict'
    BY <1>3, <1>6 DEF Verdict
  <1> QED
    BY <1>3, <1>7

LEMMA AwaitsMark ==
  ASSUME NEW m, NEW s, Output(s), Left = Then(Mark(m), s),
         pc \in {"start", "count", "keyMarker", "itemMarker", "end"}
  PROVE  Awaits(m, s)
  <1>1. pc \in R!Reads /\ Meant = "mark" /\ R!ReadSize = 1
    BY MeantIs
  <1>2. Mark(m) = Field(Meant, m, R!ReadSize)
    BY <1>1, MarkOutput
  <1> QED
    BY <1>1, <1>2 DEF Awaits

LEMMA AwaitsNumber ==
  ASSUME NEW n, NEW s, Output(s), Left = Then(Field("number", n, width), s),
         pc \in {"countBytes", "number"}, width \in Nat
  PROVE  Awaits(n, s)
  BY MeantIs DEF Awaits

LEMMA SceneIs ==
  ASSUME NEW W, NEW t, NEW X, NEW u, Scene(W, t, X, u)
  PROVE  /\ W # <<>> /\ Len(W) \in Nat /\ Len(W) >= 1
         /\ GoodCall(Last(W)) /\ Last(W).order \in Orders(Last(W).val)
         /\ Last(W).val \in Tree /\ Container(Last(W).val) /\ Representable(Last(W).val)
         /\ ~Taken(Last(W)) => NextOf(Last(W)) \in Tree /\ Representable(NextOf(Last(W)))
         /\ Depth[Last(W).val] + Len(W) <= Depth[value] + 1
         /\ Len(W) = 1 => Last(W).val = value
  <1>1. W # <<>> /\ Chain(W, value) /\ value \in Tree /\ Encodable(value)
    BY DEF Scene, Moves
  <1>2. /\ Len(W) \in Nat /\ Len(W) >= 1
        /\ GoodCall(Last(W)) /\ Last(W).order \in Orders(Last(W).val)
        /\ Last(W).val \in Tree /\ Container(Last(W).val)
        /\ Depth[Last(W).val] + Len(W) <= Depth[value] + 1
        /\ Parts[Last(W).val] \subseteq Parts[value]
    BY <1>1, LastOf DEF Last
  <1>3. Representable(Last(W).val)
    BY <1>1, <1>2, PartsAre DEF Encodable
  <1>4. ASSUME ~Taken(Last(W))  PROVE NextOf(Last(W)) \in Tree /\ Representable(NextOf(Last(W)))
    BY <1>1, <1>4, MemberClean DEF Last, Encodable
  <1>5. Len(W) = 1 => Last(W).val = value
    BY <1>1 DEF Chain, Last
  <1> QED
    BY <1>1, <1>2, <1>3, <1>4, <1>5

LEMMA StartAwaits ==
  ASSUME NEW W, NEW t, NEW X, NEW u, Scene(W, t, X, u), AtStart(W, t)
  PROVE  Awaits("{", Then(append_size(SizeOf(Last(W).val)).out, t))
  <1> DEFINE S == append_size(SizeOf(value)).out
  <1>1. pc = "start" /\ Len(W) = 1 /\ Left = Then(Opening(W[1].val).out, t)
    BY DEF AtStart
  <1>2. Last(W).val = value /\ W[1].val = value
    BY <1>1, SceneIs DEF Last
  <1>3. value \in Tree /\ Container(value) /\ ~EmptyArray(value) /\ Bracket(value) = "{"
        /\ Output(t)
    BY DEF Scene, Container, EmptyArray, Bracket
  <1>4. Opening(value).out = Then(Mark("{"), S)
    BY <1>3, OpeningShape
  <1>5. Output(S) /\ Output(Mark("{"))
    BY SizeOutput, MarkOutput
  <1>8. Left = Then(Then(Mark("{"), S), t)
    BY <1>1, <1>2, <1>4
  <1> HIDE DEF S
  <1>6. Left = Then(Mark("{"), Then(S, t)) /\ Output(Then(S, t))
    <2> DEFINE M == Mark("{")
    <2>1. Output(M) /\ Output(S) /\ Output(t) /\ Left = Then(Then(M, S), t)
      BY <1>3, <1>5, <1>8
    <2> HIDE DEF M
    <2>2. Left = Then(M, Then(S, t)) /\ Output(Then(S, t))
      BY <2>1, ThenAssociative, ThenOutput
    <2> QED
      BY <2>2 DEF M
  <1>7. Awaits("{", Then(S, t))
    BY <1>1, <1>6, AwaitsMark
  <1> QED
    BY <1>2, <1>7 DEF S

LEMMA StartStep ==
  ASSUME NEW W, NEW t, NEW X, NEW u, Scene(W, t, X, u), AtStart(W, t), Depths, Meter, Reading
  PROVE  Depths' /\ Meter' /\ AtCount(W, t)'
  <1> DEFINE s == Then(append_size(SizeOf(Last(W).val)).out, t)
  <1>1. Awaits("{", s)
    BY StartAwaits
  <1> HIDE DEF s
  <1>2. pc = "start" /\ frames = <<>> /\ Len(W) = 1 /\ W[1].next = 1
    BY DEF AtStart
  <1>3. R!ReadStart("{") /\ R!Read
    BY <1>1, <1>2, Dispatch
  <1>4. Left' = s /\ Meter'
    BY <1>1, <1>3, AwaitsRead
  <1>5. R!AskCount("Object")
    BY <1>3 DEF R!ReadStart
  <1>6. Depths'
    BY <1>5 DEF Depths, R!AskCount
  <1>7. Last(W).val = value /\ ~EmptyArray(Last(W).val) /\ KindOf(Last(W).val) = "Object"
    BY <1>2, SceneIs DEF Scene, EmptyArray, KindOf
  <1>8. Fresh(W, <<>>)
    <2>1. Len(<<>>) = Len(W) - 1 /\ W # <<>> /\ W[Len(W)].next = 1 /\ 1..(Len(W) - 1) = {}
      BY <1>2, SceneIs
    <2> QED
      BY <2>1 DEF Fresh, Mids
  <1>9. pc' = "count" /\ asked' = "Object" /\ frames' = <<>>
    BY <1>2, <1>5 DEF R!AskCount
  <1> QED
    BY <1>4, <1>6, <1>7, <1>8, <1>9 DEF AtCount, s

LEMMA CountAwaits ==
  ASSUME NEW W, NEW t, NEW X, NEW u, Scene(W, t, X, u), AtCount(W, t)
  PROVE  LET n == SizeOf(Last(W).val)  w == UintWidth(n)
         IN  Awaits(UintMark(w), Then(Field("number", n, w), t)) /\ w \in Widths
  <1> DEFINE n == SizeOf(Last(W).val)  w == UintWidth(n)
  <1>1. pc = "count" /\ Left = Then(append_size(n).out, t)
    BY DEF AtCount
  <1>2. n \in Nat /\ w # 8
    BY SceneIs, RepresentableSize
  <1>3. w \in Widths /\ append_size(n).out = NumberOf(UintMark(w), n, w)
    BY <1>2, SizeShape
  <1>4. Output(t)
    BY DEF Scene
  <1>5. w \in Nat
    BY <1>3 DEF Widths
  <1> HIDE DEF n, w
  <1>6. Output(Mark(UintMark(w))) /\ Output(Field("number", n, w))
    BY <1>5, MarkOutput, FieldOutput
  <1>7. /\ Left = Then(Mark(UintMark(w)), Then(Field("number", n, w), t))
        /\ Output(Then(Field("number", n, w), t))
    BY <1>1, <1>3, <1>4, <1>6, ThenAssociative, ThenOutput DEF NumberOf
  <1>8. Awaits(UintMark(w), Then(Field("number", n, w), t))
    BY <1>1, <1>7, AwaitsMark
  <1> QED
    BY <1>3, <1>8 DEF n, w

LEMMA CountStep ==
  ASSUME NEW W, NEW t, NEW X, NEW u, Scene(W, t, X, u), AtCount(W, t), Depths, Meter, Reading
  PROVE  Depths' /\ Meter' /\ AtCountBytes(W, t)'
  <1> DEFINE n == SizeOf(Last(W).val)  w == UintWidth(n)
             m == UintMark(w)  s == Then(Field("number", n, w), t)
  <1>1. Awaits(m, s) /\ w \in Widths
    BY CountAwaits
  <1>2. m \in DOMAIN R!CountWidth /\ R!CountWidth[m] = w
    BY <1>1, CountTable
  <1> HIDE DEF m, s, n
  <1>3. pc = "count" /\ asked = KindOf(Last(W).val) /\ Fresh(W, frames) /\ ~EmptyArray(Last(W).val)
    BY DEF AtCount
  <1>4. R!ReadCount(m) /\ R!Read
    BY <1>1, <1>3, Dispatch
  <1>5. Left' = s /\ Meter'
    BY <1>1, <1>4, AwaitsRead
  <1>6. R!ReadNext("countBytes", w)
    BY <1>2, <1>4 DEF R!ReadCount
  <1>7. Depths'
    BY <1>6 DEF Depths, R!ReadNext
  <1> QED
    BY <1>3, <1>5, <1>6, <1>7 DEF AtCountBytes, R!ReadNext, s, n

LEMMA CountBytesAwaits ==
  ASSUME NEW W, NEW t, NEW X, NEW u, Scene(W, t, X, u), AtCountBytes(W, t)
  PROVE  Awaits(SizeOf(Last(W).val), t)
  <1>1. UintWidth(SizeOf(Last(W).val)) \in Nat
    <2>1. UintWidth(SizeOf(Last(W).val)) \in {1, 2, 4, 8}
      BY WidthsIn
    <2> QED
      BY <2>1
  <1>2. Output(t)
    BY DEF Scene
  <1> QED
    BY <1>1, <1>2, AwaitsNumber DEF AtCountBytes

LEMMA CountBytesStep ==
  ASSUME NEW W, NEW t, NEW X, NEW u, Scene(W, t, X, u), AtCountBytes(W, t), Depths, Meter, Reading
  PROVE  \/ Depths' /\ Meter' /\ AtLoop(W, t)'
         \/ pc' = "idle" /\ Verdict'
  <1> DEFINE a == Last(W)  n == SizeOf(a.val)  kind == KindOf(a.val)
             f == [kind |-> kind, count |-> n, left |-> n, mark |-> marker, key |-> "none",
                   val |-> IF frames = <<>> THEN out ELSE R!Null]
  <1>1. Awaits(n, t)
    BY CountBytesAwaits
  <1>2. pc = "countBytes" /\ asked = kind /\ Fresh(W, frames) /\ ~EmptyArray(a.val)
    BY DEF AtCountBytes
  <1>3. R!ReadCountBytes(n) /\ R!Read
    BY <1>1, <1>2, Dispatch
  <1>4. Left' = t /\ Meter'
    BY <1>1, <1>3, AwaitsRead
  <1>5. kind \in {"Object", "HetroArray"}
    BY DEF KindOf
  <1>6. R!Enter(kind, n)
    <2> HIDE DEF kind, n
    <2>1. R!Counted(n)
      BY <1>3 DEF R!ReadCountBytes
    <2> QED
      BY <1>2, <1>5, <2>1 DEF R!Counted
  <1>7. /\ IsSequence(frames) /\ Len(frames) = Len(W) - 1 /\ recursive_depth = Len(frames)
        /\ out = Empty /\ result = "none" /\ Len(W) \in Nat /\ Len(frames) \in Nat
    BY <1>2, SceneIs, FramesLen DEF Depths, Fresh
  <1>8. CASE recursive_depth + 1 > max_value_depth
    <2>1. R!Fail("Maximum Parsing depth Exceeded!")
      <3>1. ~(recursive_depth + 1 <= max_value_depth)
        BY <1>7, <1>8, StreamAssumption
      <3> HIDE DEF kind, n
      <3> QED
        BY <1>6, <3>1 DEF R!Enter
    <2>2. pc' = "idle" /\ result' = "false"
      BY <2>1 DEF R!Fail, R!Unwind
    <2>3. Depth[a.val] >= 1 /\ Depth[a.val] + Len(W) <= Depth[value] + 1
          /\ a.val \in Tree /\ value \in Tree
      BY <1>2, SceneIs, DepthBound DEF Scene
    <2>4. Depth[a.val] \in Nat /\ Depth[value] \in Nat
      BY <2>3, MembersIn
    <2> HIDE DEF a
    <2>5. ~(Depth[value] <= max_value_depth)
      BY <1>7, <1>8, <2>3, <2>4, StreamAssumption
    <2>6. value' = value
      BY DEF Reading, wvars
    <2>7. ~Admitted'
      BY <2>5, <2>6 DEF Admitted
    <2> QED
      BY <2>2, <2>7 DEF Verdict
  <1>9. CASE recursive_depth + 1 <= max_value_depth
    <2>1. /\ frames' = Append(frames, f) /\ pc' = "loop" /\ out' = out /\ result' = result
          /\ recursive_depth' = recursive_depth + 1
      <3>1. ~(recursive_depth + 1 > max_value_depth)
        BY <1>7, <1>9, StreamAssumption
      <3> HIDE DEF kind, n
      <3> QED
        BY <1>6, <3>1 DEF R!Enter
    <2>2. /\ Frame(f) /\ f.left = n /\ f.val = Empty
          /\ f.kind = IF a.val.kind = "Map" THEN "Object" ELSE "HetroArray"
      <3>1. (IF frames = <<>> THEN out ELSE R!Null) = Empty
        BY <1>7 DEF Empty, R!Null, R!Leaf
      <3> HIDE DEF n
      <3> QED
        BY <3>1 DEF Frame, KindOf
    <2> HIDE DEF f
    <2>3. Chain(W, value)
      BY DEF Scene
    <2>4. IsSequence(frames') /\ Between(W, frames') /\ Len(frames') = Len(W)
      <3>1. /\ Frame(f) /\ f.left = SizeOf(W[Len(W)].val) /\ f.val = Empty
            /\ f.kind = IF W[Len(W)].val.kind = "Map" THEN "Object" ELSE "HetroArray"
        BY <2>2 DEF Last
      <3> HIDE DEF a
      <3>2. /\ IsSequence(Append(frames, f)) /\ Between(W, Append(frames, f))
            /\ Len(Append(frames, f)) = Len(W)
        BY <1>2, <1>7, <2>3, <3>1, EnterFrames
      <3> QED
        BY <2>1, <3>2
    <2>5. Depths'
      BY <1>7, <1>9, <2>1, <2>4 DEF Depths
    <2> QED
      BY <1>4, <2>1, <2>4, <2>5 DEF AtLoop
  <1> QED
    BY <1>7, <1>8, <1>9, StreamAssumption

\* A member that has been read goes to the frame that waits for it.
LEMMA Delivered ==
  ASSUME NEW W, NEW v, Chain(W, v), W # <<>>, NEW fs, IsSequence(fs), Under(W, fs),
         Depth[Child(Last(W))] + Len(W) <= max_value_depth,
         R!Deliver(fs, Canon[Child(Last(W))])
  PROVE  /\ pc' = "loop" /\ out' = out /\ result' = result
         /\ IsSequence(frames') /\ Len(frames') = Len(fs) /\ Between(W, frames')
  <1> DEFINE c == Child(Last(W))  gs == R!Store(fs, Canon[c])
  <1>1. c = Child(W[Len(W)])
    BY DEF Last
  <1> HIDE DEF c, gs
  <1>2. /\ fs # <<>> /\ R!CanStore(fs[Len(fs)])
        /\ IsSequence(gs) /\ Len(gs) = Len(fs) /\ Between(W, gs)
    BY <1>1, StoreBetween DEF gs, c
  <1>3. R!Deliver(fs, Canon[c])
    BY DEF c
  <1>4. frames' = gs /\ pc' = "loop" /\ out' = out /\ result' = result
    <2> HIDE DEF gs
    <2>1. frames' = R!Store(fs, Canon[c]) /\ pc' = "loop" /\ out' = out /\ result' = result
      BY <1>2, <1>3 DEF R!Deliver
    <2> QED
      BY <2>1 DEF gs
  <1> QED
    BY <1>2, <1>4

\* So does a leaf.
LEMMA LeafDelivered ==
  ASSUME NEW W, NEW v, Chain(W, v), NEW x, Due(W, x), Depths, R!Deliver(frames, x), R!Still
  PROVE  pc' = "loop" /\ Between(W, frames)' /\ Depths'
  <1> DEFINE n == Len(W)  c == Child(Last(W))
  <1>1. W # <<>> /\ Under(W, frames) /\ ~Container(c) /\ x = Canon[c]
    BY DEF Due
  <1>2. n \in Nat /\ n >= 1 /\ n \in 1..n /\ GoodCall(W[n]) /\ W[n].val \in Tree
    BY <1>1, LastOf
  <1>3. Len(frames) = n /\ Mid(frames[n], W[n], n)
    BY <1>1, <1>2 DEF Under, Mids
  <1>4. c \in Tree
    BY <1>2, <1>3, NextMember, MembersIn DEF Mid, Last
  <1> HIDE DEF c
  <1>5. Depth[c] = 0
    BY <1>1, <1>4, DepthZero
  <1>6. Depth[c] + n <= max_value_depth
    BY <1>2, <1>3, <1>5 DEF Depths
  <1>7. /\ pc' = "loop" /\ out' = out /\ result' = result
        /\ IsSequence(frames') /\ Len(frames') = Len(frames) /\ Between(W, frames')
    BY <1>1, <1>6, Delivered DEF Depths, c
  <1> QED
    BY <1>7 DEF Depths, R!Still

LEMMA NumberAwaits ==
  ASSUME NEW W, NEW t, NEW X, NEW u, Scene(W, t, X, u), AtNumber(W, t)
  PROVE  \E n : Awaits(n, t)
  <1>1. PICK n : Left = Then(Field("number", n, width), t)
    BY DEF AtNumber
  <1>2. pc = "number" /\ width \in Nat
    BY DEF AtNumber
  <1> QED
    BY <1>1, <1>2, AwaitsNumber DEF Scene

LEMMA NumberStep ==
  ASSUME NEW W, NEW t, NEW X, NEW u, Scene(W, t, X, u), AtNumber(W, t), Depths, Meter, Reading
  PROVE  Depths' /\ Meter' /\ AtLoop(W, t)'
  <1>1. PICK n : Awaits(n, t)
    BY NumberAwaits
  <1>2. pc = "number" /\ Due(W, R!Leaf(R!ScalarOf(marker)[1]))
    BY DEF AtNumber
  <1>3. R!ReadNumber /\ R!Read
    BY <1>1, <1>2, Dispatch
  <1>4. Left' = t /\ Meter'
    BY <1>1, <1>3, AwaitsRead
  <1>5. pc' = "loop" /\ Between(W, frames)' /\ Depths'
    <2>1. R!Deliver(frames, R!Leaf(R!ScalarOf(marker)[1])) /\ R!Still
      BY <1>3 DEF R!ReadNumber
    <2> QED
      BY <1>2, <2>1, LeafDelivered DEF Scene
  <1> QED
    BY <1>4, <1>5 DEF AtLoop

LEMMA TextCountAwaits ==
  ASSUME NEW W, NEW t, NEW X, NEW u, Scene(W, t, X, u), AtTextCount(W, t)
  PROVE  \E n \in 0..MaxCount : \E w \in Widths :
           Awaits(UintMark(w), Then(Field("number", n, w), Then(Field("data", 0, n), t)))
  <1>1. PICK n \in 0..MaxCount, w \in Widths :
          Left = Then(NumberOf(UintMark(w), n, w), Then(Field("data", 0, n), t))
    BY DEF AtTextCount
  <1>2. w \in Nat /\ n \in Nat /\ Output(t) /\ pc = "count"
    BY StreamAssumption DEF Widths, Scene, AtTextCount
  <1>3. Output(Mark(UintMark(w))) /\ Output(Field("number", n, w)) /\ Output(Field("data", 0, n))
    BY <1>2, MarkOutput, FieldOutput
  <1> DEFINE m == UintMark(w)  F == Field("number", n, w)  s == Then(Field("data", 0, n), t)
  <1>4. Output(s)
    BY <1>2, <1>3, ThenOutput
  <1>5. Left = Then(Then(Mark(m), F), s)
    BY <1>1 DEF NumberOf
  <1>8. Output(Mark(m)) /\ Output(F)
    BY <1>3
  <1> HIDE DEF m, F, s
  <1>6. Left = Then(Mark(m), Then(F, s)) /\ Output(Then(F, s))
    <2> DEFINE M == Mark(m)
    <2>1. Output(M) /\ Left = Then(Then(M, F), s)
      BY <1>5, <1>8
    <2> HIDE DEF M
    <2>2. Left = Then(M, Then(F, s)) /\ Output(Then(F, s))
      BY <1>4, <1>8, <2>1, ThenAssociative, ThenOutput
    <2> QED
      BY <2>2 DEF M
  <1>7. Awaits(m, Then(F, s))
    BY <1>2, <1>6, AwaitsMark
  <1> QED
    BY <1>7 DEF m, F, s

LEMMA TextCountStep ==
  ASSUME NEW W, NEW t, NEW X, NEW u, Scene(W, t, X, u), AtTextCount(W, t), Depths, Meter, Reading
  PROVE  Depths' /\ Meter' /\ AtTextBytes(W, t)'
  <1>1. PICK n \in 0..MaxCount, w \in Widths :
          Awaits(UintMark(w), Then(Field("number", n, w), Then(Field("data", 0, n), t)))
    BY TextCountAwaits
  <1> DEFINE m == UintMark(w)  s == Then(Field("number", n, w), Then(Field("data", 0, n), t))
  <1>2. m \in DOMAIN R!CountWidth /\ R!CountWidth[m] = w /\ Awaits(m, s)
    BY <1>1, CountTable
  <1> HIDE DEF m, s
  <1>3. pc = "count" /\ asked = "Text" /\ Due(W, TextOf(marker))
    BY DEF AtTextCount
  <1>4. R!ReadCount(m) /\ R!Read
    BY <1>2, <1>3, Dispatch
  <1>5. Left' = s /\ Meter'
    BY <1>2, <1>4, AwaitsRead
  <1>6. R!ReadNext("countBytes", w)
    BY <1>2, <1>4 DEF R!ReadCount
  <1>7. Depths'
    BY <1>6 DEF Depths, R!ReadNext
  <1>8. /\ pc' = "countBytes" /\ asked' = "Text" /\ width' = w
        /\ frames' = frames /\ marker' = marker
    BY <1>3, <1>6 DEF R!ReadNext
  <1>9. Due(W, TextOf(marker))'
    BY <1>3, <1>8 DEF Due, TextOf
  <1>10. Left' = Then(Field("number", n, width'), Then(Field("data", 0, n), t))
    BY <1>5, <1>8 DEF s
  <1>11. AtTextBytes(W, t)'
    BY <1>8, <1>9, <1>10 DEF AtTextBytes
  <1> QED
    BY <1>5, <1>7, <1>11

LEMMA TextBytesAwaits ==
  ASSUME NEW W, NEW t, NEW X, NEW u, Scene(W, t, X, u), AtTextBytes(W, t)
  PROVE  \E n \in 0..MaxCount : Awaits(n, Then(Field("data", 0, n), t))
  <1>1. PICK n \in 0..MaxCount :
          Left = Then(Field("number", n, width), Then(Field("data", 0, n), t))
    BY DEF AtTextBytes
  <1>2. width \in Nat /\ n \in Nat /\ Output(t) /\ pc = "countBytes"
    BY StreamAssumption DEF Widths, Scene, AtTextBytes
  <1>3. Output(Then(Field("data", 0, n), t))
    BY <1>2, FieldOutput, ThenOutput
  <1> QED
    BY <1>1, <1>2, <1>3, AwaitsNumber

LEMMA TextBytesStep ==
  ASSUME NEW W, NEW t, NEW X, NEW u, Scene(W, t, X, u), AtTextBytes(W, t), Depths, Meter, Reading
  PROVE  Depths' /\ Meter' /\ AtText(W, t)'
  <1>1. PICK n \in 0..MaxCount : Awaits(n, Then(Field("data", 0, n), t))
    BY TextBytesAwaits
  <1> DEFINE s == Then(Field("data", 0, n), t)
  <1>2. Awaits(n, s) /\ n \in Nat
    BY <1>1, StreamAssumption
  <1> HIDE DEF s
  <1>3. pc = "countBytes" /\ asked = "Text" /\ Due(W, TextOf(marker))
    BY DEF AtTextBytes
  <1>4. R!ReadCountBytes(n) /\ R!Read
    BY <1>2, <1>3, Dispatch
  <1>5. Left' = s /\ Meter'
    BY <1>2, <1>4, AwaitsRead
  <1>6. R!ReadNext("text", n)
    BY <1>3, <1>4 DEF R!ReadCountBytes, R!Counted
  <1>7. Depths'
    BY <1>6 DEF Depths, R!ReadNext
  <1>8. pc' = "text" /\ width' = n /\ frames' = frames /\ marker' = marker
    BY <1>6 DEF R!ReadNext
  <1>9. Due(W, TextOf(marker))'
    BY <1>3, <1>8 DEF Due, TextOf
  <1>10. Left' = Then(Field("data", 0, width'), t)
    BY <1>5, <1>8 DEF s
  <1>11. AtText(W, t)'
    BY <1>2, <1>8, <1>9, <1>10 DEF AtText
  <1> QED
    BY <1>5, <1>7, <1>11

LEMMA TextAwaits ==
  ASSUME NEW W, NEW t, NEW X, NEW u, Scene(W, t, X, u), AtText(W, t)
  PROVE  Awaits(0, t)
  BY MeantIs DEF AtText, Scene, Awaits

LEMMA TextStep ==
  ASSUME NEW W, NEW t, NEW X, NEW u, Scene(W, t, X, u), AtText(W, t), Depths, Meter, Reading
  PROVE  Depths' /\ Meter' /\ AtLoop(W, t)'
  <1>1. Awaits(0, t)
    BY TextAwaits
  <1>2. pc = "text" /\ Due(W, TextOf(marker))
    BY DEF AtText
  <1>3. R!ReadText /\ R!Read
    BY <1>1, <1>2, Dispatch
  <1>4. Left' = t /\ Meter'
    BY <1>1, <1>3, AwaitsRead
  <1>5. pc' = "loop" /\ Between(W, frames)' /\ Depths'
    <2>1. R!Deliver(frames, TextOf(marker)) /\ R!Still
      BY <1>3 DEF R!ReadText, TextOf
    <2> QED
      BY <1>2, <2>1, LeafDelivered DEF Scene
  <1> QED
    BY <1>4, <1>5 DEF AtLoop

\* An empty array is taken and ends at once.
LEMMA EmptyIs ==
  ASSUME NEW W, NEW t, NEW X, NEW u, Scene(W, t, X, u), AtEmpty(W, t)
  PROVE  /\ Left = Then(Mark("]"), u) /\ Output(u)
         /\ Len(X) = Len(W) - 1 /\ X # <<>> /\ Len(W) > 1 /\ Len(W) \in Nat
         /\ \A i \in 1..(Len(W) - 1) : Same(W[i], X[i])
  <1> DEFINE n == Len(W)  a == W[n]
  <1>1. PICK o : Moves(W, o, X) /\ t = Then(o, u)
    BY DEF Scene
  <1>2. Fresh(W, frames) /\ n > 1 /\ EmptyArray(a.val) /\ Left = t
    BY DEF AtEmpty, Last
  <1>3. /\ n \in Nat /\ GoodCall(a) /\ a.order \in Orders(a.val) /\ a.val \in Tree
        /\ Container(a.val)
    BY SceneIs DEF Last
  <1>4. a.next = 1
    BY <1>2 DEF Fresh
  <1> HIDE DEF a
  <1>5. Len(a.order) = 0
    <2>1. Len(a.order) = SizeOf(a.val)
      BY <1>3, OrderOnto
    <2>2. DOMAIN a.val.items = {}
      BY <1>2 DEF EmptyArray
    <2>3. SizeOf(a.val) = 0
      BY <2>2, FS_EmptySet DEF SizeOf
    <2> QED
      BY <2>1, <2>3
  <1>6. Taken(a)
    BY <1>4, <1>5 DEF Taken
  <1>7. Ends(W, o, X)
    BY <1>1, <1>6 DEF Moves, Takes, a
  <1>8. o = Mark("]") /\ Len(X) = n - 1
    BY <1>2, <1>7 DEF Ends, EndOf, EmptyArray, a
  <1>9. X # <<>>
    <2>1. Len(X) # 0
      BY <1>2, <1>3, <1>8
    <2> QED
      BY <2>1
  <1> QED
    BY <1>1, <1>2, <1>3, <1>8, <1>9 DEF Moves, Scene

LEMMA EmptyAwaits ==
  ASSUME NEW W, NEW t, NEW X, NEW u, Scene(W, t, X, u), AtEmpty(W, t)
  PROVE  Awaits("]", u)
  BY EmptyIs, AwaitsMark DEF AtEmpty

LEMMA EmptyStep ==
  ASSUME NEW W, NEW t, NEW X, NEW u, Scene(W, t, X, u), AtEmpty(W, t), Depths, Meter, Reading
  PROVE  Depths' /\ Meter' /\ AtLoop(X, u)'
  <1> DEFINE n == Len(W)
  <1>1. Awaits("]", u)
    BY EmptyAwaits
  <1>2. pc = "count" /\ asked = "HetroArray" /\ Fresh(W, frames) /\ EmptyArray(Last(W).val)
    BY DEF AtEmpty
  <1>3. R!ReadCount("]") /\ R!Read
    BY <1>1, <1>2, Dispatch
  <1>4. Left' = u /\ Meter'
    BY <1>1, <1>3, AwaitsRead
  <1>5. /\ n \in Nat /\ n > 1 /\ Len(X) = n - 1 /\ X # <<>>
        /\ \A i \in 1..(n - 1) : Same(W[i], X[i])
    BY EmptyIs
  <1>6. Len(frames) = n - 1 /\ \A i \in 1..(n - 1) : Mid(frames[i], W[i], i)
    BY <1>2 DEF Fresh, Mids
  <1>7. Under(X, frames)
    BY <1>5, <1>6, SameMid DEF Under, Mids
  <1>8. Child(Last(X)) = Last(W).val
    <2>1. n - 1 \in 1..n /\ n - 1 < n /\ n - 1 \in 1..(n - 1) /\ (n - 1) + 1 = n
      BY <1>5
    <2>2. W[(n - 1) + 1].val = Child(W[n - 1])
      BY <2>1 DEF Chain, Scene
    <2>3. Child(X[n - 1]) = Child(W[n - 1])
      BY <1>5, <2>1 DEF Same, Child
    <2> QED
      BY <1>5, <2>1, <2>2, <2>3 DEF Last
  <1>9. Last(W).val \in Tree /\ Container(Last(W).val)
    BY SceneIs
  <1>10. Depth[Last(W).val] = 0
    BY <1>2, <1>9, DepthZero
  <1>11. Canon[Last(W).val] = R!Null
    <2>1. DOMAIN Last(W).val.items = {}
      BY <1>2 DEF EmptyArray
    <2> QED
      BY <1>9, <2>1, CanonOfContainer DEF Filled, Empty, R!Null, R!Leaf
  <1>12. frames # <<>>
    <2>1. Len(frames) # 0
      BY <1>5, <1>6
    <2> QED
      BY <2>1
  <1>13. R!Still /\ R!Deliver(frames, R!Null)
    <2>1. R!NotCounted("]")
      BY <1>3 DEF R!ReadCount, R!CountWidth
    <2>2. R!EndMarker["HetroArray"] = "]"
      BY DEF R!EndMarker
    <2>3. R!Still /\ R!DeliverEmpty
      BY <1>2, <2>1, <2>2 DEF R!NotCounted
    <2> QED
      BY <1>12, <2>3 DEF R!DeliverEmpty
  <1>14. Depth[Child(Last(X))] + Len(X) <= max_value_depth
    BY <1>5, <1>6, <1>8, <1>10 DEF Depths
  <1>15. /\ pc' = "loop" /\ out' = out /\ result' = result
         /\ IsSequence(frames') /\ Len(frames') = Len(frames) /\ Between(X, frames')
    <2>1. R!Deliver(frames, Canon[Child(Last(X))])
      BY <1>8, <1>11, <1>13
    <2> QED
      BY <1>5, <1>7, <1>14, <2>1, Delivered DEF Scene, Depths
  <1>16. Depths'
    BY <1>13, <1>15 DEF Depths, R!Still
  <1> QED
    BY <1>4, <1>15, <1>16 DEF AtLoop

\* What is sent when a member is taken.
LEMMA TakenIs ==
  ASSUME NEW W, NEW t, NEW X, NEW u, Scene(W, t, X, u), ~Taken(Last(W))
  PROVE  \E o : /\ Moves(W, o, X) /\ Takes(W, o, X) /\ t = Then(o, u)
                /\ t = Then(LabelOut(Last(W)), Then(MemberOut(NextOf(Last(W))), u))
                /\ Output(Then(MemberOut(NextOf(Last(W))), u))
  <1> DEFINE a == Last(W)  L == LabelOut(a)  M == MemberOut(NextOf(a))
  <1>1. PICK o : Moves(W, o, X) /\ t = Then(o, u)
    BY DEF Scene
  <1>2. Takes(W, o, X)
    BY <1>1 DEF Moves, Ends, Last
  <1>3. GoodCall(a) /\ NextOf(a) \in Tree /\ Output(u)
    BY SceneIs DEF Scene
  <1>4. Output(L) /\ Output(M)
    BY <1>3, LabelOutput, MemberOutput
  <1>5. o = Then(L, M)
    BY <1>2 DEF Takes, Last
  <1> HIDE DEF L, M
  <1>6. t = Then(L, Then(M, u)) /\ Output(Then(M, u))
    BY <1>1, <1>3, <1>4, <1>5, ThenAssociative, ThenOutput
  <1> QED
    BY <1>1, <1>2, <1>6 DEF L, M

LEMMA KeyLenAwaits ==
  ASSUME NEW W, NEW t, NEW X, NEW u, Scene(W, t, X, u), AtKeyLen(W, t)
  PROVE  LET k == Last(W).order[Last(W).next]
         IN  /\ Awaits(KeyLen[k], Then(Field("keyBytes", k, KeyLen[k]),
                                       Then(MemberOut(NextOf(Last(W))), u)))
             /\ KeyLen[k] \in Nat
  <1> DEFINE a == Last(W)  k == a.order[a.next]  M == MemberOut(NextOf(a))
             len == Field("keyLen", KeyLen[k], 1)  key == Field("keyBytes", k, KeyLen[k])
  <1>1. pc = "keyLen" /\ Left = t /\ ~Taken(a) /\ a.val.kind = "Map"
    BY DEF AtKeyLen
  <1>2. PICK o : Takes(W, o, X) /\ t = Then(LabelOut(a), Then(M, u)) /\ Output(Then(M, u))
    BY <1>1, TakenIs
  <1>3. KeyLen[k] <= 255
    BY <1>1, <1>2 DEF Takes, Last
  <1>4. k \in DOMAIN KeyLen
    BY <1>1, SceneIs, NextKey
  <1>5. KeyLen[k] \in Nat /\ KeyLen[k] % 256 = KeyLen[k]
    <2>1. KeyLen[k] \in Nat
      BY <1>4, LengthAssumption
    <2> DEFINE n == KeyLen[k]
    <2>2. n \in Nat /\ n <= 255
      BY <1>3, <2>1
    <2> HIDE DEF n
    <2>3. n % 256 = n
      BY <2>2
    <2> QED
      BY <2>2, <2>3 DEF n
  <1>6. LabelOut(a) = Then(len, key) /\ Output(len) /\ Output(key)
    <2> HIDE DEF k
    <2>1. /\ append_key(k).out = Then(Field("keyLen", KeyLen[k] % 256, 1), key)
          /\ Output(Field("keyLen", KeyLen[k] % 256, 1)) /\ Output(key)
      BY <1>4, KeyShape
    <2>2. LabelOut(a) = append_key(k).out
      BY <1>1 DEF LabelOut, k
    <2> QED
      BY <1>5, <2>1, <2>2
  <1> DEFINE s == Then(M, u)
  <1>7. Left = Then(Then(len, key), s) /\ Output(s)
    BY <1>1, <1>2, <1>6
  <1> HIDE DEF s, key, len
  <1>8. Left = Then(len, Then(key, s)) /\ Output(Then(key, s))
    BY <1>6, <1>7, ThenAssociative, ThenOutput
  <1>9. Awaits(KeyLen[k], Then(key, s))
    <2> HIDE DEF k
    <2>1. pc \in R!Reads /\ Meant = "keyLen" /\ R!ReadSize = 1
      BY <1>1, MeantIs
    <2> QED
      BY <1>8, <2>1 DEF Awaits, len
  <1> QED
    BY <1>5, <1>9 DEF s, key

LEMMA KeyLenStep ==
  ASSUME NEW W, NEW t, NEW X, NEW u, Scene(W, t, X, u), AtKeyLen(W, t), Depths, Meter, Reading
  PROVE  Depths' /\ Meter' /\ AtKeyBytes(W, u)'
  <1> DEFINE a == Last(W)  k == a.order[a.next]  M == MemberOut(NextOf(a))
             s == Then(Field("keyBytes", k, KeyLen[k]), Then(M, u))
  <1>1. Awaits(KeyLen[k], s)
    BY KeyLenAwaits
  <1> HIDE DEF s
  <1>2. pc = "keyLen" /\ Between(W, frames) /\ ~Taken(a) /\ a.val.kind = "Map"
    BY DEF AtKeyLen
  <1>3. (\E j \in Keys : KeyLen[j] = KeyLen[k] /\ R!ReadKeyLen(j)) /\ R!Read
    BY <1>1, <1>2, Dispatch
  <1>4. Left' = s /\ Meter'
    BY <1>1, <1>3, AwaitsRead
  <1>5. R!ReadNext("keyBytes", KeyLen[k])
    <2>1. PICK j \in Keys : KeyLen[j] = KeyLen[k] /\ R!ReadKeyLen(j)
      BY <1>3
    <2> HIDE DEF k
    <2> QED
      BY <2>1 DEF R!ReadKeyLen
  <1>6. Depths'
    BY <1>5 DEF Depths, R!ReadNext
  <1>7. pc' = "keyBytes" /\ width' = KeyLen[k] /\ frames' = frames
    BY <1>5 DEF R!ReadNext
  <1>8. AtKeyBytes(W, u)'
    BY <1>2, <1>4, <1>7 DEF AtKeyBytes, s
  <1> QED
    BY <1>4, <1>6, <1>8

LEMMA KeyBytesAwaits ==
  ASSUME NEW W, NEW t, NEW X, NEW u, Scene(W, t, X, u), AtKeyBytes(W, u)
  PROVE  Awaits(Last(W).order[Last(W).next], Then(MemberOut(NextOf(Last(W))), u))
  <1> DEFINE a == Last(W)  k == a.order[a.next]  s == Then(MemberOut(NextOf(a)), u)
  <1>1. pc = "keyBytes" /\ ~Taken(a) /\ a.val.kind = "Map" /\ width = KeyLen[k]
        /\ Left = Then(Field("keyBytes", k, width), s)
    BY DEF AtKeyBytes
  <1>2. Output(s)
    BY <1>1, TakenIs
  <1>3. KeyLen[k] \in Nat
    BY <1>1, SceneIs, NextKey, LengthAssumption
  <1>4. pc \in R!Reads /\ Meant = "keyBytes" /\ R!ReadSize = width
    BY <1>1, MeantIs
  <1> HIDE DEF s, k
  <1>5. Awaits(k, s)
    BY <1>1, <1>2, <1>3, <1>4 DEF Awaits
  <1> QED
    BY <1>5 DEF s, k

LEMMA KeyBytesStep ==
  ASSUME NEW W, NEW t, NEW X, NEW u, Scene(W, t, X, u), AtKeyBytes(W, u), Depths, Meter, Reading
  PROVE  Depths' /\ Meter' /\ AtMember(W, u)'
  <1> DEFINE a == Last(W)  k == a.order[a.next]  s == Then(MemberOut(NextOf(a)), u)
  <1>1. Awaits(k, s)
    BY KeyBytesAwaits
  <1> HIDE DEF s, k
  <1>2. pc = "keyBytes" /\ Between(W, frames) /\ ~Taken(a) /\ a.val.kind = "Map"
    BY DEF AtKeyBytes
  <1>3. R!ReadKeyBytes(k) /\ R!Read
    BY <1>1, <1>2, Dispatch
  <1>4. Left' = s /\ Meter'
    BY <1>1, <1>3, AwaitsRead
  <1>5. /\ frames' = Keyed(frames, k) /\ pc' = "keyMarker"
        /\ out' = out /\ recursive_depth' = recursive_depth /\ result' = result
    BY <1>3 DEF R!ReadKeyBytes, R!Top, Keyed
  <1>6. /\ IsSequence(frames') /\ Between(W, frames') /\ frames'[Len(W)].key = k
        /\ Len(frames') = Len(frames)
    <2>1. /\ IsSequence(Keyed(frames, k)) /\ Between(W, Keyed(frames, k))
          /\ Keyed(frames, k)[Len(W)].key = k /\ Len(Keyed(frames, k)) = Len(frames)
      BY <1>2, KeyFrames DEF Scene, Depths
    <2> QED
      BY <1>5, <2>1
  <1>7. Depths'
    BY <1>5, <1>6 DEF Depths
  <1>8. AtMember(W, u)'
    BY <1>2, <1>4, <1>5, <1>6 DEF AtMember, s, k
  <1> QED
    BY <1>4, <1>7, <1>8

\* An array's member has no key.
LEMMA ItemIsMember ==
  ASSUME NEW W, NEW t, NEW X, NEW u, Scene(W, t, X, u), AtItem(W, t)
  PROVE  AtMember(W, u)
  <1> DEFINE a == Last(W)  s == Then(MemberOut(NextOf(a)), u)
  <1>1. /\ pc = "itemMarker" /\ Between(W, frames) /\ Left = t
        /\ ~Taken(a) /\ a.val.kind # "Map"
    BY DEF AtItem
  <1>2. t = Then(LabelOut(a), s) /\ Output(s)
    BY <1>1, TakenIs
  <1>3. LabelOut(a) = Nothing
    BY <1>1 DEF LabelOut
  <1> HIDE DEF s
  <1>4. t = s
    BY <1>2, <1>3, ThenNothing
  <1> QED
    BY <1>1, <1>4 DEF AtMember, s

\* What the marker of the member m announces, with s after it.
Announces(m, mark, s, u) ==
  \/ /\ ~Container(m) /\ mark \notin Structural /\ R!ScalarOf(mark)[2] = 0
     /\ Canon[m] = R!Leaf(R!ScalarOf(mark)[1]) /\ s = u
  \/ /\ ~Container(m) /\ mark \notin Structural /\ R!ScalarOf(mark)[2] \in {1, 2, 4, 8}
     /\ Canon[m] = R!Leaf(R!ScalarOf(mark)[1])
     /\ \E n : s = Then(Field("number", n, R!ScalarOf(mark)[2]), u)
  \/ /\ ~Container(m) /\ mark \in {"s", "b"} /\ Canon[m] = TextOf(mark)
     /\ \E n \in 0..MaxCount : \E w \in Widths :
          s = Then(NumberOf(UintMark(w), n, w), Then(Field("data", 0, n), u))
  \/ Container(m) /\ EmptyArray(m) /\ mark = "[" /\ s = u
  \/ /\ Container(m) /\ ~EmptyArray(m) /\ mark = Bracket(m)
     /\ s = Then(append_size(SizeOf(m)).out, u)

LEMMA MemberShape ==
  ASSUME NEW m \in Tree, Representable(m), NEW u, Output(u)
  PROVE  \E mark, s : /\ Output(s) /\ Then(MemberOut(m), u) = Then(Mark(mark), s)
                      /\ Announces(m, mark, s, u)
  <1>1. ASSUME ~Container(m), Bare(m)
        PROVE  \E mark, s : /\ Output(s) /\ Then(MemberOut(m), u) = Then(Mark(mark), s)
                            /\ Announces(m, mark, s, u)
    <2>1. PICK mark : /\ append_value(m).out = Mark(mark)
                      /\ mark \notin Structural /\ R!ScalarOf(mark)[2] = 0
                      /\ Canon[m] = R!Leaf(R!ScalarOf(mark)[1])
      BY <1>1 DEF Bare
    <2>2. Then(MemberOut(m), u) = Then(Mark(mark), u)
      BY <1>1, <2>1 DEF MemberOut
    <2>3. Announces(m, mark, u, u)
      BY <1>1, <2>1 DEF Announces
    <2> QED
      BY <2>2, <2>3
  <1>2. ASSUME ~Container(m), Numeric(m)
        PROVE  \E mark, s : /\ Output(s) /\ Then(MemberOut(m), u) = Then(Mark(mark), s)
                            /\ Announces(m, mark, s, u)
    <2>1. PICK mark, n : \E w \in {1, 2, 4, 8} :
            /\ append_value(m).out = NumberOf(mark, n, w)
            /\ mark \notin Structural /\ R!ScalarOf(mark)[2] = w
            /\ Canon[m] = R!Leaf(R!ScalarOf(mark)[1])
      BY <1>2 DEF Numeric
    <2> DEFINE w == R!ScalarOf(mark)[2]  M == Mark(mark)  F == Field("number", n, w)
    <2>2. w \in {1, 2, 4, 8} /\ append_value(m).out = Then(M, F)
      BY <2>1 DEF NumberOf
    <2>3. Output(M) /\ Output(F)
      BY <2>2, MarkOutput, FieldOutput
    <2>4. Announces(m, mark, Then(F, u), u)
      BY <1>2, <2>1, <2>2 DEF Announces
    <2>5. Then(MemberOut(m), u) = Then(Then(M, F), u)
      BY <1>2, <2>2 DEF MemberOut
    <2> HIDE DEF M, F
    <2>6. Then(MemberOut(m), u) = Then(M, Then(F, u)) /\ Output(Then(F, u))
      BY <2>3, <2>5, ThenAssociative, ThenOutput
    <2> QED
      BY <2>4, <2>6 DEF M
  <1>3. ASSUME ~Container(m), Textual(m)
        PROVE  \E mark, s : /\ Output(s) /\ Then(MemberOut(m), u) = Then(Mark(mark), s)
                            /\ Announces(m, mark, s, u)
    <2>1. PICK mark \in {"s", "b"}, n \in 0..MaxCount, w \in Widths :
            /\ append_value(m).out
                 = Then(Mark(mark), Then(NumberOf(UintMark(w), n, w), Field("data", 0, n)))
            /\ Canon[m] = R!Leaf(IF mark = "s" THEN "String" ELSE "Binary")
      BY <1>3 DEF Textual
    <2> DEFINE M == Mark(mark)  N == NumberOf(UintMark(w), n, w)  D == Field("data", 0, n)
    <2>2. n \in Nat /\ w \in {1, 2, 4, 8}
      BY StreamAssumption DEF Widths
    <2>3. Output(M) /\ Output(N) /\ Output(D)
      BY <2>2, MarkOutput, NumberOutput, FieldOutput
    <2>4. Announces(m, mark, Then(N, Then(D, u)), u)
      BY <1>3, <2>1 DEF Announces, TextOf
    <2>5. Then(MemberOut(m), u) = Then(Then(M, Then(N, D)), u)
      BY <1>3, <2>1 DEF MemberOut
    <2> HIDE DEF M, N, D
    <2>6. Output(Then(N, D)) /\ Output(Then(D, u)) /\ Output(Then(N, Then(D, u)))
      BY <2>3, ThenOutput
    <2>7. Then(MemberOut(m), u) = Then(M, Then(Then(N, D), u))
      BY <2>3, <2>5, <2>6, ThenAssociative
    <2>8. Then(Then(N, D), u) = Then(N, Then(D, u))
      BY <2>3, ThenAssociative
    <2> QED
      BY <2>4, <2>6, <2>7, <2>8 DEF M
  <1>4. ASSUME Container(m), EmptyArray(m)
        PROVE  \E mark, s : /\ Output(s) /\ Then(MemberOut(m), u) = Then(Mark(mark), s)
                            /\ Announces(m, mark, s, u)
    <2>1. Then(MemberOut(m), u) = Then(Mark("["), u)
      BY <1>4, OpeningShape DEF MemberOut
    <2>2. Announces(m, "[", u, u)
      BY <1>4 DEF Announces
    <2> QED
      BY <2>1, <2>2
  <1>5. ASSUME Container(m), ~EmptyArray(m)
        PROVE  \E mark, s : /\ Output(s) /\ Then(MemberOut(m), u) = Then(Mark(mark), s)
                            /\ Announces(m, mark, s, u)
    <2> DEFINE M == Mark(Bracket(m))  S == append_size(SizeOf(m)).out
    <2>1. Then(MemberOut(m), u) = Then(Then(M, S), u)
      BY <1>5, OpeningShape DEF MemberOut
    <2>2. Output(M) /\ Output(S)
      BY MarkOutput, SizeOutput
    <2>3. Announces(m, Bracket(m), Then(S, u), u)
      BY <1>5 DEF Announces
    <2> HIDE DEF M, S
    <2>4. Then(MemberOut(m), u) = Then(M, Then(S, u)) /\ Output(Then(S, u))
      BY <2>1, <2>2, ThenAssociative, ThenOutput
    <2> QED
      BY <2>3, <2>4 DEF M
  <1> QED
    BY <1>1, <1>2, <1>3, <1>4, <1>5, LeafShape

LEMMA MemberAnnounced ==
  ASSUME NEW W, NEW t, NEW X, NEW u, Scene(W, t, X, u), AtMember(W, u)
  PROVE  \E mark, s : /\ Awaits(mark, s) /\ Left = Then(Mark(mark), s)
                      /\ Announces(NextOf(Last(W)), mark, s, u)
  <1> DEFINE m == NextOf(Last(W))
  <1>1. pc \in {"keyMarker", "itemMarker"} /\ ~Taken(Last(W)) /\ Left = Then(MemberOut(m), u)
    BY DEF AtMember
  <1>2. m \in Tree /\ Representable(m) /\ Output(u)
    BY <1>1, SceneIs DEF Scene
  <1> HIDE DEF m
  <1>3. PICK mark, s : /\ Output(s) /\ Then(MemberOut(m), u) = Then(Mark(mark), s)
                       /\ Announces(m, mark, s, u)
    BY <1>2, MemberShape
  <1>4. Awaits(mark, s)
    BY <1>1, <1>3, AwaitsMark
  <1> QED
    BY <1>1, <1>3, <1>4 DEF m

\* The arm of extract_singleValueTo or extract_containerValueTo for a marker.
LEMMA ItemIs ==
  ASSUME NEW mark, R!Item(mark)
  PROVE  /\ mark \notin Structural /\ R!ScalarOf(mark)[2] = 0 =>
              R!Still /\ R!Deliver(frames, R!Leaf(R!ScalarOf(mark)[1]))
         /\ mark \in {"{", "[", "s", "b"} =>
              /\ marker' = mark /\ pc' = "count"
              /\ UNCHANGED <<frames, out, recursive_depth, result>>
         /\ mark = "{" => asked' = "Object"
         /\ mark = "[" => asked' = "HetroArray"
         /\ mark \in {"s", "b"} => asked' = "Text"
  <1> DEFINE w == R!ScalarOf(mark)[2]
             L == mark \in {"{", "[", "s", "b"}
             D == R!Still /\ R!Deliver(frames, R!Leaf(R!ScalarOf(mark)[1]))
             P == /\ marker' = mark /\ pc' = "count"
                  /\ asked' = (CASE mark = "{" -> "Object" [] mark = "[" -> "HetroArray"
                                  [] OTHER -> "Text")
                  /\ UNCHANGED <<width, frames, out, recursive_depth, last_error, result>>
  <1>1. \/ L /\ P
        \/ mark = "("
        \/ w > 0
        \/ mark \notin {"{", "[", "(", "s", "b"} /\ w = 0 /\ D
    BY Zenon DEF R!Item
  <1>2. L => w = 0 /\ mark \in Structural /\ mark # "("
    BY DEF R!ScalarOf, R!Scalars, Structural
  <1>3. P => UNCHANGED <<frames, out, recursive_depth, result>>
    OBVIOUS
  <1>4. mark = "(" => mark \in Structural
    BY DEF Structural
  <1>9. /\ P /\ mark = "{" => asked' = "Object"
        /\ P /\ mark = "[" => asked' = "HetroArray"
        /\ P /\ mark \in {"s", "b"} => asked' = "Text"
    OBVIOUS
  <1> HIDE DEF w, D, P
  <1>5. w = 0 => ~(w > 0)
    OBVIOUS
  <1>6. L => mark \in {"{", "[", "(", "s", "b"}
    OBVIOUS
  <1> HIDE DEF L
  <1>7. mark \notin Structural /\ w = 0 => D
    BY <1>1, <1>2, <1>4, <1>5
  <1>8. L => P
    BY <1>1, <1>2, <1>5, <1>6
  <1>10. P => marker' = mark /\ pc' = "count"
    BY DEF P
  <1>11. mark \in {"s", "b"} \/ mark = "{" \/ mark = "[" => L
    BY DEF L
  <1> QED
    BY <1>3, <1>7, <1>8, <1>9, <1>10, <1>11 DEF w, D, L

\* Where the reader gets by the marker of a member.
Onto(X, u) ==
  AtLoop(X, u) \/ AtNumber(X, u) \/ AtTextCount(X, u) \/ AtEmpty(X, u) \/ AtCount(X, u)

LEMMA MemberStep ==
  ASSUME NEW W, NEW t, NEW X, NEW u, Scene(W, t, X, u), AtMember(W, u), Depths, Meter, Reading
  PROVE  Depths' /\ Meter' /\ Onto(X, u)'
  <1> DEFINE n == Len(W)  a == Last(W)  m == NextOf(a)
  <1>1. PICK mark, s : Awaits(mark, s) /\ Announces(m, mark, s, u)
    BY MemberAnnounced
  <1>2. /\ pc \in {"keyMarker", "itemMarker"} /\ Between(W, frames) /\ ~Taken(a)
        /\ a.val.kind = "Map" => frames[n].key = a.order[a.next]
    BY DEF AtMember
  <1>3. R!ReadMarker(mark) /\ R!Read
    BY <1>1, <1>2, Dispatch
  <1>4. Left' = s /\ Meter'
    BY <1>1, <1>3, AwaitsRead
  <1>5. R!Item(mark)
    BY <1>3 DEF R!ReadMarker
  <1>6. PICK o : Moves(W, o, X) /\ Takes(W, o, X)
    BY <1>2, TakenIs
  <1>7. n \in Nat /\ n >= 1 /\ m \in Tree
    BY <1>2, SceneIs
  <1>8. /\ ~Container(m) => Under(X, frames)
        /\ Container(m) => Len(X) = n + 1 /\ (X # <<>> => Fresh(X, frames))
        /\ Child(X[n]) = m
    BY <1>2, <1>6, TakeFrames DEF Scene, Depths, Last
  <1>9. ~Container(m) => X # <<>> /\ Len(X) = n /\ Child(Last(X)) = m
    <2> SUFFICES ASSUME ~Container(m)  PROVE X # <<>> /\ Len(X) = n /\ Child(Last(X)) = m
      OBVIOUS
    <2>1. Len(X) = n
      BY <1>6 DEF Takes, Last
    <2>2. Len(X) # 0
      BY <1>7, <2>1
    <2> QED
      BY <1>8, <2>1, <2>2 DEF Last
  <1>10. Container(m) => /\ X # <<>> /\ Len(X) > 1 /\ Last(X).val = m /\ Fresh(X, frames)
    <2> SUFFICES ASSUME Container(m)
                 PROVE  X # <<>> /\ Len(X) > 1 /\ Last(X).val = m /\ Fresh(X, frames)
      OBVIOUS
    <2>1. Len(X) = n + 1 /\ X[n + 1].val = m
      BY <1>6 DEF Takes, Last
    <2>2. Len(X) # 0 /\ Len(X) > 1
      BY <1>7, <2>1
    <2> QED
      BY <1>8, <2>1, <2>2 DEF Last
  <1> HIDE DEF m
  <1>11. CASE /\ ~Container(m) /\ mark \notin Structural /\ R!ScalarOf(mark)[2] = 0
              /\ Canon[m] = R!Leaf(R!ScalarOf(mark)[1]) /\ s = u
    <2>1. R!Still /\ R!Deliver(frames, R!Leaf(R!ScalarOf(mark)[1]))
      BY <1>5, <1>11, ItemIs
    <2>2. Due(X, R!Leaf(R!ScalarOf(mark)[1]))
      BY <1>8, <1>9, <1>11 DEF Due
    <2>3. pc' = "loop" /\ Between(X, frames)' /\ Depths'
      BY <2>1, <2>2, LeafDelivered DEF Scene
    <2> QED
      BY <1>4, <1>11, <2>3 DEF AtLoop, Onto
  <1>12. CASE /\ ~Container(m) /\ mark \notin Structural
              /\ R!ScalarOf(mark)[2] \in {1, 2, 4, 8}
              /\ Canon[m] = R!Leaf(R!ScalarOf(mark)[1])
              /\ \E i : s = Then(Field("number", i, R!ScalarOf(mark)[2]), u)
    <2> DEFINE w == R!ScalarOf(mark)[2]
    <2>1. w \in Nat /\ w # 0
      BY <1>12
    <2>2. /\ marker' = mark /\ pc' = "number" /\ width' = w
          /\ UNCHANGED <<frames, out, recursive_depth, result>>
      BY <1>5, <1>12, <2>1 DEF R!Item, Structural
    <2>3. Due(X, R!Leaf(R!ScalarOf(marker)[1]))'
      BY <1>8, <1>9, <1>12, <2>2 DEF Due
    <2>4. Depths'
      BY <2>2 DEF Depths
    <2>5. \E i : Left' = Then(Field("number", i, width'), u)
      BY <1>4, <1>12, <2>2
    <2>6. AtNumber(X, u)'
      BY <2>1, <2>2, <2>3, <2>5 DEF AtNumber
    <2> QED
      BY <1>4, <2>4, <2>6 DEF Onto
  <1>13. CASE /\ ~Container(m) /\ mark \in {"s", "b"} /\ Canon[m] = TextOf(mark)
              /\ \E i \in 0..MaxCount : \E w \in Widths :
                   s = Then(NumberOf(UintMark(w), i, w), Then(Field("data", 0, i), u))
    <2>2. /\ marker' = mark /\ pc' = "count" /\ asked' = "Text"
          /\ UNCHANGED <<frames, out, recursive_depth, result>>
      BY <1>5, <1>13, ItemIs
    <2>3. Due(X, TextOf(marker))'
      BY <1>8, <1>9, <1>13, <2>2 DEF Due, TextOf
    <2>4. Depths'
      BY <2>2 DEF Depths
    <2>5. AtTextCount(X, u)'
      BY <1>4, <1>13, <2>2, <2>3 DEF AtTextCount
    <2> QED
      BY <1>4, <2>4, <2>5 DEF Onto
  <1>14. CASE Container(m) /\ EmptyArray(m) /\ mark = "[" /\ s = u
    <2>2. /\ pc' = "count" /\ asked' = "HetroArray"
          /\ UNCHANGED <<frames, out, recursive_depth, result>>
      BY <1>5, <1>14, ItemIs
    <2>3. Depths'
      BY <2>2 DEF Depths
    <2>4. AtEmpty(X, u)'
      BY <1>4, <1>10, <1>14, <2>2 DEF AtEmpty
    <2> QED
      BY <1>4, <2>3, <2>4 DEF Onto
  <1>15. CASE /\ Container(m) /\ ~EmptyArray(m) /\ mark = Bracket(m)
              /\ s = Then(append_size(SizeOf(m)).out, u)
    <2>2. /\ pc' = "count" /\ asked' = KindOf(m)
          /\ UNCHANGED <<frames, out, recursive_depth, result>>
      BY <1>5, <1>15, ItemIs DEF Bracket, KindOf
    <2>3. Depths'
      BY <2>2 DEF Depths
    <2>4. AtCount(X, u)'
      BY <1>4, <1>10, <1>15, <2>2 DEF AtCount
    <2> QED
      BY <1>4, <2>3, <2>4 DEF Onto
  <1> QED
    BY <1>1, <1>11, <1>12, <1>13, <1>14, <1>15 DEF Announces

\* A container ends.
LEMMA EndIs ==
  ASSUME NEW W, NEW t, NEW X, NEW u, Scene(W, t, X, u), AtEnd(W, t)
  PROVE  \E o : Moves(W, o, X) /\ Ends(W, o, X) /\ Left = Then(Mark(EndOf(Last(W).val)), u)
  <1>1. PICK o : Moves(W, o, X) /\ t = Then(o, u)
    BY DEF Scene
  <1>2. Ends(W, o, X)
    BY <1>1 DEF Moves, Takes, AtEnd, Last
  <1> QED
    BY <1>1, <1>2 DEF Ends, AtEnd, Last

LEMMA EndAwaits ==
  ASSUME NEW W, NEW t, NEW X, NEW u, Scene(W, t, X, u), AtEnd(W, t)
  PROVE  Awaits(EndOf(Last(W).val), u)
  BY EndIs, AwaitsMark DEF AtEnd, Scene

LEMMA EndStep ==
  ASSUME NEW W, NEW t, NEW X, NEW u, Scene(W, t, X, u), AtEnd(W, t), Depths, Meter, Reading
  PROVE  \/ Depths' /\ Meter' /\ AtLoop(X, u)'
         \/ pc' = "idle" /\ Verdict'
  <1> DEFINE n == Len(W)  a == Last(W)  f == frames[n]
  <1>1. Awaits(EndOf(a.val), u)
    BY EndAwaits
  <1>2. pc = "end" /\ Between(W, frames)
    BY DEF AtEnd
  <1>3. R!ReadEnd(EndOf(a.val)) /\ R!Read
    BY <1>1, <1>2, Dispatch
  <1>4. Left' = u /\ Meter'
    BY <1>1, <1>3, AwaitsRead
  <1>5. PICK o : Moves(W, o, X) /\ Ends(W, o, X)
    BY EndIs
  <1>6. /\ n \in Nat /\ n >= 1 /\ a.val \in Tree /\ Container(a.val)
        /\ n = 1 => a.val = value
    BY SceneIs
  <1>7. /\ IsSequence(Front(frames)) /\ Under(X, Front(frames))
        /\ f.val = Canon[a.val]
        /\ Depth[a.val] + n <= max_value_depth + 1
        /\ n > 1 => Child(X[n - 1]) = a.val
    BY <1>2, <1>5, EndFrames DEF Scene, Depths, Last
  <1>8. Len(X) = n - 1
    BY <1>5 DEF Ends
  <1>9. Len(frames) = n /\ f.kind = KindOf(a.val) /\ FrameOf(f, a, a.next - 1, n)
    BY <1>2 DEF Between, FrameOf, KindOf, Last
  <1>10. R!Top = f /\ R!Callers = Front(frames)
    BY <1>9 DEF R!Top, R!Callers, Front
  <1>11. R!EndMarker[f.kind] = EndOf(a.val) /\ f.kind # "HomoArray"
    <2>1. R!EndMarker["Object"] = "}" /\ R!EndMarker["HetroArray"] = "]"
      BY DEF R!EndMarker
    <2> HIDE DEF f, a
    <2>2. CASE a.val.kind = "Map"
      BY <1>9, <2>1, <2>2 DEF EndOf, KindOf
    <2>3. CASE a.val.kind # "Map"
      BY <1>9, <2>1, <2>3 DEF EndOf, KindOf
    <2> QED
      BY <2>2, <2>3
  <1>12. recursive_depth' = recursive_depth - 1 /\ R!Deliver(Front(frames), Canon[a.val])
    <2> HIDE DEF f
    <2> QED
      BY <1>3, <1>7, <1>10, <1>11 DEF R!ReadEnd
  <1>13. value' = value /\ sent' = sent
    BY DEF Reading, wvars
  <1>14. /\ Len(frames) \in Nat /\ recursive_depth = n /\ n <= max_value_depth
         /\ max_value_depth \in Nat /\ out = Empty /\ result = "none" /\ frames # <<>>
    BY <1>6, <1>9, StreamAssumption DEF Depths
  <1>15. Len(Front(frames)) = n - 1
    BY <1>9, <1>14, FramesPop DEF Depths
  <1>16. CASE n > 1
    <2>1. X # <<>>
      <3>1. Len(X) # 0
        BY <1>6, <1>8, <1>16
      <3> QED
        BY <3>1
    <2>2. Child(Last(X)) = a.val
      BY <1>7, <1>8, <1>16 DEF Last
    <2>3. Depth[a.val] \in Nat
      BY <1>6, MembersIn
    <2>4. Depth[a.val] + Len(X) <= max_value_depth
      <3> DEFINE d == Depth[a.val]
      <3>1. d \in Nat /\ d + n <= max_value_depth + 1
        BY <1>7, <2>3
      <3> HIDE DEF d
      <3>2. d + (n - 1) <= max_value_depth
        BY <1>6, <1>14, <3>1
      <3> QED
        BY <1>8, <3>2 DEF d
    <2>5. /\ pc' = "loop" /\ out' = out /\ result' = result
          /\ IsSequence(frames') /\ Len(frames') = n - 1 /\ Between(X, frames')
      <3> HIDE DEF a
      <3>1. Depth[Child(Last(X))] + Len(X) <= max_value_depth
        BY <2>2, <2>4
      <3>2. R!Deliver(Front(frames), Canon[Child(Last(X))])
        BY <1>12, <2>2
      <3> QED
        BY <1>7, <1>15, <2>1, <3>1, <3>2, Delivered DEF Scene
    <2>6. Depths'
      BY <1>6, <1>12, <1>14, <2>5 DEF Depths
    <2> QED
      BY <1>4, <2>5, <2>6 DEF AtLoop
  <1>17. CASE n = 1
    <2>1. X = <<>> /\ u = Nothing
      <3>1. Len(X) = 0
        BY <1>8, <1>17
      <3>2. Chain(X, value) /\ (X = <<>> => u = Nothing)
        BY DEF Scene
      <3>3. X = <<>>
        BY <3>1, <3>2, ChainLen
      <3> QED
        BY <3>2, <3>3
    <2>2. Front(frames) = <<>>
      <3>1. IsSequence(Front(frames)) /\ Len(Front(frames)) = 0
        BY <1>7, <1>15, <1>17
      <3> QED
        BY <3>1 DEF IsSequence
    <2>3. pc' = "idle" /\ out' = Canon[value] /\ result' = "true"
      <3>1. pc' = "idle" /\ out' = Canon[a.val] /\ result' = "true"
        BY <1>12, <2>2 DEF R!Deliver
      <3> QED
        BY <1>6, <1>17, <3>1
    <2>4. rest' = <<>> /\ sent'.size - bytes_so_far' = 0
      <3>1. Left' = Nothing
        BY <1>4, <2>1
      <3> QED
        BY <3>1 DEF Left, Nothing
    <2>5. sent'.size <= max_object_size
      BY <1>4, <2>4, StreamAssumption DEF Meter
    <2>6. Depth[value] <= max_value_depth
      <3>1. Depth[value] + 1 <= max_value_depth + 1 /\ Depth[value] \in Nat
        BY <1>6, <1>7, <1>17, MembersIn
      <3> QED
        BY <1>14, <3>1
    <2>7. Admitted'
      BY <1>13, <2>5, <2>6 DEF Admitted
    <2>8. Verdict'
      BY <1>13, <2>3, <2>4, <2>7 DEF Verdict
    <2> QED
      BY <2>3, <2>8
  <1>18. n > 1 \/ n = 1
    <2> HIDE DEF n
    <2> QED
      BY <1>6
  <1> QED
    BY <1>16, <1>17, <1>18

-----------------------------------------------------------------------------
(* The reader keeps step with the story.                                   *)

\* The loop decides as the writer did.
LEMMA LoopStep ==
  ASSUME NEW W, NEW t, NEW X, NEW u, Scene(W, t, X, u), AtLoop(W, t), Depths, Meter,
         R!Loop, rest' = rest, sent' = sent
  PROVE  Depths' /\ Meter' /\ (AtEnd(W, t) \/ AtKeyLen(W, t) \/ AtItem(W, t))'
  <1> DEFINE n == Len(W)  a == Last(W)  f == frames[n]
  <1>1. Between(W, frames) /\ Left = t
    BY DEF AtLoop
  <1>2. Len(frames) = n /\ FrameOf(f, a, a.next - 1, n)
    BY <1>1 DEF Between, Last
  <1>3. f.kind = KindOf(a.val) /\ f.left = Len(a.order) - (a.next - 1)
    BY <1>2 DEF FrameOf, KindOf
  <1>4. a.next \in Nat /\ Len(a.order) \in Nat /\ a.next >= 1 /\ a.next <= Len(a.order) + 1
    BY SceneIs, LastOf DEF Last, Scene
  <1>5. f.left = 0 => Taken(a)
    BY <1>3, <1>4 DEF Taken
  <1>6. f.left > 0 => ~Taken(a)
    BY <1>3, <1>4 DEF Taken
  <1>7. R!Top = f
    BY <1>2 DEF R!Top
  <1>8. /\ bytes_so_far' = bytes_so_far
        /\ \/ Taken(a) /\ R!Goto("end")
           \/ ~Taken(a) /\ a.val.kind = "Map" /\ R!Goto("keyLen")
           \/ ~Taken(a) /\ a.val.kind # "Map" /\ R!Goto("itemMarker")
    <2>1. /\ bytes_so_far' = bytes_so_far
          /\ \/ f.left = 0 /\ R!Goto("end")
             \/ f.left > 0 /\ f.kind = "Object" /\ R!Goto("keyLen")
             \/ f.left > 0 /\ f.kind = "HetroArray" /\ R!Goto("itemMarker")
             \/ f.kind = "HomoArray"
      BY <1>7 DEF R!Loop
    <2>2. /\ f.kind # "HomoArray" /\ (f.kind = "Object" => a.val.kind = "Map")
          /\ f.kind = "HetroArray" => a.val.kind # "Map"
      <3> HIDE DEF f, a
      <3> QED
        BY <1>3 DEF KindOf
    <2> HIDE DEF f, a
    <2> QED
      BY <1>5, <1>6, <2>1, <2>2
  <1>9. Left' = t /\ Meter'
    <2>1. Left' = Left
      BY <1>8 DEF Left
    <2> QED
      BY <1>1, <1>8, <2>1 DEF Meter
  <1>10. ASSUME NEW l, R!Goto(l)  PROVE pc' = l /\ Between(W, frames)' /\ Depths'
    BY <1>1, <1>10 DEF R!Goto, Depths
  <1> HIDE DEF a
  <1>11. CASE Taken(a) /\ R!Goto("end")
    BY <1>9, <1>10, <1>11 DEF AtEnd, a
  <1>12. CASE ~Taken(a) /\ a.val.kind = "Map" /\ R!Goto("keyLen")
    BY <1>9, <1>10, <1>12 DEF AtKeyLen, a
  <1>13. CASE ~Taken(a) /\ a.val.kind # "Map" /\ R!Goto("itemMarker")
    BY <1>9, <1>10, <1>13 DEF AtItem, a
  <1> QED
    BY <1>8, <1>11, <1>12, <1>13

\* Wherever a read() is due, the field it is meant to find is the next one.
LEMMA SceneAwaits ==
  ASSUME NEW W, NEW t, NEW X, NEW u, Scene(W, t, X, u), StandsAt(W, t) \/ Within(W, u)
  PROVE  AtLoop(W, t) \/ \E of, s : Awaits(of, s)
  <1>1. AtStart(W, t) => \E of, s : Awaits(of, s)
    BY StartAwaits
  <1>2. AtEnd(W, t) => \E of, s : Awaits(of, s)
    BY EndAwaits
  <1>3. AtKeyLen(W, t) => \E of, s : Awaits(of, s)
    BY KeyLenAwaits
  <1>4. AtItem(W, t) \/ AtMember(W, u) => \E of, s : Awaits(of, s)
    BY ItemIsMember, MemberAnnounced
  <1>5. AtKeyBytes(W, u) => \E of, s : Awaits(of, s)
    BY KeyBytesAwaits
  <1>6. AtNumber(W, t) => \E of, s : Awaits(of, s)
    BY NumberAwaits
  <1>7. AtTextCount(W, t) => \E of, s : Awaits(of, s)
    BY TextCountAwaits
  <1>8. AtTextBytes(W, t) => \E of, s : Awaits(of, s)
    BY TextBytesAwaits
  <1>9. AtText(W, t) => \E of, s : Awaits(of, s)
    BY TextAwaits
  <1>10. AtEmpty(W, t) => \E of, s : Awaits(of, s)
    BY EmptyAwaits
  <1>11. AtCount(W, t) => \E of, s : Awaits(of, s)
    BY CountAwaits
  <1>12. AtCountBytes(W, t) => \E of, s : Awaits(of, s)
    BY CountBytesAwaits
  <1> QED
    BY <1>1, <1>2, <1>3, <1>4, <1>5, <1>6, <1>7, <1>8, <1>9, <1>10, <1>11, <1>12
       DEF StandsAt, Within

\* Where the step of the reader ends.
Arrives(W, t, X, u) ==
  \/ Depths /\ Meter /\ (StandsAt(W, t) \/ Within(W, u) \/ StandsAt(X, u))
  \/ pc = "idle" /\ Verdict

LEMMA ReadStep ==
  ASSUME NEW W, NEW t, NEW X, NEW u, Scene(W, t, X, u), StandsAt(W, t) \/ Within(W, u),
         Depths, Meter, Reading
  PROVE  Arrives(W, t, X, u)'
  <1>1. AtStart(W, t) => Arrives(W, t, X, u)'
    BY StartStep DEF Arrives, StandsAt
  <1>2. AtEnd(W, t) => Arrives(W, t, X, u)'
    BY EndStep DEF Arrives, StandsAt
  <1>3. AtKeyLen(W, t) => Arrives(W, t, X, u)'
    BY KeyLenStep DEF Arrives, Within
  <1>4. AtItem(W, t) \/ AtMember(W, u) => Arrives(W, t, X, u)'
    <2>1. AtItem(W, t) \/ AtMember(W, u) => Depths' /\ Meter' /\ Onto(X, u)'
      BY ItemIsMember, MemberStep
    <2> QED
      BY <2>1 DEF Arrives, Onto, StandsAt
  <1>5. AtKeyBytes(W, u) => Arrives(W, t, X, u)'
    BY KeyBytesStep DEF Arrives, Within
  <1>6. AtNumber(W, t) => Arrives(W, t, X, u)'
    BY NumberStep DEF Arrives, StandsAt
  <1>7. AtTextCount(W, t) => Arrives(W, t, X, u)'
    BY TextCountStep DEF Arrives, StandsAt
  <1>8. AtTextBytes(W, t) => Arrives(W, t, X, u)'
    BY TextBytesStep DEF Arrives, StandsAt
  <1>9. AtText(W, t) => Arrives(W, t, X, u)'
    BY TextStep DEF Arrives, StandsAt
  <1>10. AtEmpty(W, t) => Arrives(W, t, X, u)'
    BY EmptyStep DEF Arrives, StandsAt
  <1>11. AtCount(W, t) => Arrives(W, t, X, u)'
    BY CountStep DEF Arrives, StandsAt
  <1>12. AtCountBytes(W, t) => Arrives(W, t, X, u)'
    BY CountBytesStep DEF Arrives, StandsAt
  <1>13. ~AtLoop(W, t)
    BY DEF AtLoop, Reading, R!Reads, R!ByteReads, R!WidthReads
  <1> QED
    BY <1>1, <1>2, <1>3, <1>4, <1>5, <1>6, <1>7, <1>8, <1>9, <1>10, <1>11, <1>12, <1>13
       DEF StandsAt, Within

LEMMA DecideStep ==
  ASSUME NEW W, NEW t, NEW X, NEW u, Scene(W, t, X, u), StandsAt(W, t) \/ Within(W, u),
         Depths, Meter, Deciding
  PROVE  Arrives(W, t, X, u)'
  <1>1. rest' = rest /\ sent' = sent /\ value' = value
    BY DEF Deciding, wvars
  <1>2. CASE R!Loop
    <2>1. AtLoop(W, t)
      <3>1. pc = "loop" /\ "loop" \notin R!Reads
        BY <1>2 DEF R!Loop, R!Reads, R!ByteReads, R!WidthReads
      <3>2. \A of, s : ~Awaits(of, s)
        BY <3>1 DEF Awaits
      <3> QED
        BY <3>2, SceneAwaits
    <2> QED
      BY <1>1, <1>2, <2>1, LoopStep DEF Arrives, StandsAt
  <1>3. CASE R!PolicyViolation
    <2>1. ~AtLoop(W, t)
      BY <1>3 DEF AtLoop, R!PolicyViolation, R!Reads, R!ByteReads, R!WidthReads
    <2>2. PICK of, s : Awaits(of, s)
      BY <2>1, SceneAwaits
    <2> QED
      BY <1>1, <1>3, <2>2, AwaitsPolicy DEF Arrives
  <1> QED
    BY <1>2, <1>3 DEF Deciding

-----------------------------------------------------------------------------
(* The system.                                                             *)

\* The reader stands somewhere in a story that has come to its end.
InStep ==
  /\ Depths /\ Meter
  /\ \E m, C, T : /\ Told(C, T, m, value) /\ C[m] = <<>>
                  /\ \E j \in 1..m : /\ StandsAt(C[j], T[j]) \/ Within(C[j], T[j + 1])
                                     /\ C[j] # <<>>

ReaderInv ==
  /\ lost => pc # "idle" /\ ~Encodable(value)
  /\ pc # "idle" => status = "returned" /\ value.kind = "Map" /\ result = "none"
  /\ pc = "idle" /\ result = "none" => frames = <<>>
  /\ pc # "idle" /\ Encodable(value) => InStep
  /\ pc = "idle" /\ result # "none" /\ Encodable(value) => Verdict

LEMMA StandsOn ==
  ASSUME NEW W, NEW t, StandsAt(W, t)'
  PROVE  W # <<>>
  <1>1. Len(W) = 1 => W # <<>>
    OBVIOUS
  <1>2. AtStart(W, t)' => W # <<>>
    BY <1>1 DEF AtStart
  <1>3. /\ \A x : Due(W, x)' => W # <<>>
        /\ Between(W, frames)' => W # <<>>
        /\ Fresh(W, frames)' => W # <<>>
    BY DEF Due, Between, Fresh
  <1>4. AtNumber(W, t)' => W # <<>>
    BY <1>3 DEF AtNumber, Due
  <1>5. AtTextCount(W, t)' \/ AtTextBytes(W, t)' \/ AtText(W, t)' => W # <<>>
    BY <1>3 DEF AtTextCount, AtTextBytes, AtText, Due
  <1>6. AtLoop(W, t)' \/ AtEnd(W, t)' \/ AtKeyLen(W, t)' \/ AtItem(W, t)' => W # <<>>
    BY <1>3 DEF AtLoop, AtEnd, AtKeyLen, AtItem
  <1>7. AtEmpty(W, t)' \/ AtCount(W, t)' \/ AtCountBytes(W, t)' => W # <<>>
    BY <1>3 DEF AtEmpty, AtCount, AtCountBytes
  <1> QED
    BY <1>2, <1>4, <1>5, <1>6, <1>7 DEF StandsAt

\* A place in the story is one with a move before it.
LEMMA StoryScene ==
  ASSUME value \in Tree, value.kind = "Map", Encodable(value),
         NEW m, NEW C, NEW T, Told(C, T, m, value), C[m] = <<>>,
         NEW j \in 1..m, C[j] # <<>>
  PROVE  j + 1 \in 1..m /\ Scene(C[j], T[j], C[j + 1], T[j + 1])
  <1>1. /\ m \in Nat /\ \A i \in 1..m : Chain(C[i], value) /\ Output(T[i])
        /\ \A i \in 1..m : i < m => \E o : Moves(C[i], o, C[i + 1]) /\ T[i] = Then(o, T[i + 1])
        /\ T[m] = Nothing
    BY DEF Told
  <1>2. j # m /\ j \in Nat
    BY <1>1
  <1>3. j < m /\ j + 1 \in 1..m
    BY <1>1, <1>2
  <1>4. C[j + 1] = <<>> => T[j + 1] = Nothing
    <2> SUFFICES ASSUME C[j + 1] = <<>>  PROVE T[j + 1] = Nothing
      OBVIOUS
    <2>1. ~(j + 1 < m)
      BY <1>1, <1>3 DEF Moves
    <2>2. j + 1 = m
      BY <1>1, <1>3, <2>1
    <2> QED
      BY <1>1, <2>2
  <1> QED
    BY <1>1, <1>3, <1>4 DEF Scene

\* A call that has begun goes on, or comes to its result.
Outcome ==
  \/ pc' = "idle" /\ result' # "none"
  \/ pc' # "idle" /\ result' = result

LEMMA PartOutcomes ==
  /\ \A msg : R!Fail(msg) => Outcome
  /\ \A l : R!Goto(l) /\ l # "idle" => Outcome
  /\ \A who : R!AskCount(who) => Outcome
  /\ \A l, w : R!ReadNext(l, w) /\ l # "idle" => Outcome
  /\ \A fs, x : R!Deliver(fs, x) => Outcome
  BY DEF Outcome, R!Fail, R!Escape, R!Unwind, R!Goto, R!AskCount, R!ReadNext, R!Deliver

LEMMA CountOutcomes ==
  /\ R!DeliverEmpty => Outcome
  /\ \A kind, n : R!Enter(kind, n) => Outcome
  /\ \A n : R!Counted(n) => Outcome
  /\ \A b : R!NotCounted(b) => Outcome
  /\ \A m : R!Item(m) => Outcome
  <1>1. R!DeliverEmpty => Outcome
    BY PartOutcomes DEF R!DeliverEmpty
  <1>2. ASSUME NEW kind, NEW n, R!Enter(kind, n)  PROVE Outcome
    <2>1. R!Fail("Maximum Parsing depth Exceeded!") \/ (pc' = "loop" /\ result' = result)
      BY <1>2 DEF R!Enter
    <2> QED
      BY <2>1, PartOutcomes DEF Outcome
  <1>3. ASSUME NEW n, R!Counted(n)  PROVE Outcome
    <2>1. \/ \E kind : R!Enter(kind, n)
          \/ R!AskCount("Recount")
          \/ R!ReadNext("text", n)
      BY <1>3, Zenon DEF R!Counted
    <2> QED
      BY <1>2, <2>1, PartOutcomes
  <1>4. ASSUME NEW b, R!NotCounted(b)  PROVE Outcome
    <2>1. \/ R!AskCount("Width") \/ R!DeliverEmpty \/ R!Enter("Object", 0)
          \/ \E msg : R!Fail(msg)
      BY <1>4, Zenon DEF R!NotCounted
    <2> QED
      BY <1>1, <1>2, <2>1, PartOutcomes
  <1>5. ASSUME NEW m, R!Item(m)  PROVE Outcome
    <2>1. \/ pc' \in {"count", "typeMark", "number"} /\ result' = result
          \/ \E x : R!Deliver(frames, x)
      BY <1>5 DEF R!Item
    <2>2. pc' \in {"count", "typeMark", "number"} => pc' # "idle"
      OBVIOUS
    <2> QED
      BY <2>1, <2>2, PartOutcomes DEF Outcome
  <1> QED
    BY <1>1, <1>2, <1>3, <1>4, <1>5

LEMMA Outcomes ==
  ASSUME Reading \/ Deciding  PROVE Outcome
  <1>1. ASSUME NEW b, R!ReadStart(b)  PROVE Outcome
    <2>1. R!AskCount("Object") \/ \E msg : R!Fail(msg)
      BY <1>1, Zenon DEF R!ReadStart
    <2> QED
      BY <2>1, PartOutcomes
  <1>2. ASSUME NEW b, R!ReadCount(b)  PROVE Outcome
    <2>1. (\E w : R!ReadNext("countBytes", w)) \/ R!NotCounted(b)
      BY <1>2, Zenon DEF R!ReadCount
    <2> QED
      BY <2>1, PartOutcomes, CountOutcomes
  <1>3. ASSUME NEW b, R!ReadMarker(b)  PROVE Outcome
    BY <1>3, CountOutcomes DEF R!ReadMarker
  <1>4. ASSUME NEW b, R!ReadEnd(b)  PROVE Outcome
    <2>1. \/ \E msg : R!Fail(msg)
          \/ \E fs, x : R!Deliver(fs, x)
          \/ pc' = "homoTail" /\ result' = result
      BY <1>4 DEF R!ReadEnd
    <2> QED
      BY <2>1, PartOutcomes DEF Outcome
  <1>5. ASSUME NEW n, R!ReadCountBytes(n)  PROVE Outcome
    BY <1>5, CountOutcomes DEF R!ReadCountBytes
  <1>6. R!ReadNumber \/ R!ReadText => Outcome
    BY PartOutcomes DEF R!ReadNumber, R!ReadText
  <1>7. ASSUME NEW k, R!ReadKeyLen(k)  PROVE Outcome
    <2>1. \E w : R!ReadNext("keyBytes", w)
      BY <1>7, Zenon DEF R!ReadKeyLen
    <2> QED
      BY <2>1, PartOutcomes
  <1>8. ASSUME NEW k, R!ReadKeyBytes(k)  PROVE Outcome
    <2>1. pc' = "keyMarker" /\ result' = result
      BY <1>8 DEF R!ReadKeyBytes
    <2> QED
      BY <2>1 DEF Outcome
  <1>9. R!Loop => Outcome
    <2> SUFFICES ASSUME R!Loop  PROVE Outcome
      OBVIOUS
    <2>1. \/ R!Goto("end") \/ R!Goto("keyLen") \/ R!Goto("itemMarker")
          \/ \E m : R!Item(m)
      BY Zenon DEF R!Loop
    <2> QED
      BY <2>1, PartOutcomes, CountOutcomes
  <1>10. R!PolicyViolation => Outcome
    BY PartOutcomes DEF R!PolicyViolation
  <1>11. Deciding => Outcome
    BY <1>9, <1>10 DEF Deciding
  <1>12. Reading => Outcome
    <2>1. Reading => \E f : Take(f)
      BY DEF Reading
    <2>2. ASSUME NEW f, Take(f)  PROVE Outcome
      BY <2>2, <1>1, <1>2, <1>3, <1>4, <1>5, <1>6, <1>7, <1>8 DEF Take
    <2> QED
      BY <2>1, <2>2
  <1> QED
    BY <1>11, <1>12

SystemInv == WriterInv /\ ReaderInv

LEMMA ReaderInit == SystemInit => ReaderInv
  BY DEF SystemInit, R!Init, ReaderInv

\* getNextValue is called when the story is over.
LEMMA StartInStep ==
  ASSUME SystemInv, StartReading, Encodable(value)  PROVE InStep'
  <1>1. /\ status = "returned" /\ value.kind = "Map" /\ result = "none" /\ pc = "idle"
        /\ R!GetNextValue(Empty) /\ rest' = sent.fields /\ sent' = sent /\ value' = value
    BY DEF StartReading, R!GetNextValue, wvars
  <1>2. /\ pc' = "start" /\ out' = Empty /\ result' = "none" /\ bytes_so_far' = 0
        /\ recursive_depth' = 0 /\ frames' = <<>>
    BY <1>1 DEF SystemInv, ReaderInv, R!GetNextValue
  <1>3. calls = <<>> /\ StoryOf(calls, sent, value)
    BY <1>1 DEF SystemInv, WriterInv, IInv, Fields, Story
  <1>4. PICK m, C, T : Told(C, T, m, value) /\ C[m] = <<>> /\ sent = Then(Opening(value).out, T[1])
    BY <1>3 DEF StoryOf
  <1>5. /\ m \in Nat /\ 1 \in 1..m /\ Chain(C[1], value) /\ Output(T[1])
        /\ Len(C[1]) = 1 /\ C[1][1].next = 1
    BY <1>4 DEF Told
  <1>6. C[1] # <<>> /\ C[1][1].val = value
    BY <1>5, ChainLen DEF Chain
  <1>7. value \in Tree /\ Container(value)
    BY <1>1, TreeAssumption DEF SystemInv, WriterInv, Held, Container
  <1>8. Output(sent)
    BY <1>4, <1>5, <1>7, OpeningOutput, ThenOutput
  <1>9. sent = [fields |-> sent.fields, size |-> sent.size] /\ sent.size \in Nat
    BY <1>8 DEF Output
  <1>10. Left' = sent
    <2>1. sent'.size - bytes_so_far' = sent.size
      BY <1>1, <1>2, <1>9
    <2> QED
      BY <1>1, <1>9, <2>1 DEF Left
  <1>11. AtStart(C[1], T[1])'
    BY <1>2, <1>4, <1>5, <1>6, <1>10 DEF AtStart
  <1>12. Depths'
    <2>1. <<>> \in Seq({}) /\ Len(<<>>) = 0
      OBVIOUS
    <2> QED
      BY <1>2, <2>1, StreamAssumption DEF Depths, IsSequence
  <1>13. Meter'
    BY <1>1, <1>2, <1>8, <1>9, <1>10, StreamAssumption DEF Meter
  <1>14. StandsAt(C[1], T[1])'
    BY <1>11 DEF StandsAt
  <1> QED
    BY <1>1, <1>4, <1>5, <1>6, <1>12, <1>13, <1>14 DEF InStep

\* A step of the reader leaves it in the story, or brings the result.
LEMMA StepInStep ==
  ASSUME value \in Tree, value.kind = "Map", Encodable(value), InStep, Reading \/ Deciding
  PROVE  InStep' \/ (pc' = "idle" /\ Verdict')
  <1>1. PICK m, C, T : /\ Told(C, T, m, value) /\ C[m] = <<>>
                       /\ \E j \in 1..m : /\ StandsAt(C[j], T[j]) \/ Within(C[j], T[j + 1])
                                          /\ C[j] # <<>>
    BY DEF InStep
  <1>2. PICK j \in 1..m : /\ StandsAt(C[j], T[j]) \/ Within(C[j], T[j + 1])
                          /\ C[j] # <<>>
    BY <1>1
  <1> DEFINE W == C[j]  t == T[j]  X == C[j + 1]  u == T[j + 1]
  <1>3. j + 1 \in 1..m /\ Scene(W, t, X, u)
    BY <1>1, <1>2, StoryScene
  <1>4. Depths /\ Meter
    BY DEF InStep
  <1>5. Arrives(W, t, X, u)'
    BY <1>2, <1>3, <1>4, ReadStep, DecideStep
  <1>6. value' = value
    BY DEF Reading, Deciding, wvars
  <1>7. Told(C, T, m, value')
    BY <1>1, <1>6
  <1>8. CASE pc' = "idle" /\ Verdict'
    BY <1>8
  <1>9. ASSUME Depths', Meter', StandsAt(W, t)' \/ Within(W, u)'  PROVE InStep'
    BY <1>1, <1>2, <1>7, <1>9 DEF InStep
  <1>10. ASSUME Depths', Meter', StandsAt(X, u)'  PROVE InStep'
    <2>1. Chain(X, value) /\ IsSequence(frames')
      BY <1>3, <1>10 DEF Scene, Depths
    <2>2. X # <<>>
      BY <1>10, <2>1, StandsOn
    <2> QED
      BY <1>1, <1>3, <1>7, <1>10, <2>2 DEF InStep
  <1> QED
    BY <1>5, <1>8, <1>9, <1>10 DEF Arrives

\* Where a read() is due.
LEMMA InStepAwaits ==
  ASSUME value \in Tree, value.kind = "Map", Encodable(value), InStep, pc \in R!Reads
  PROVE  \E of, s : Awaits(of, s)
  <1>1. PICK m, C, T : /\ Told(C, T, m, value) /\ C[m] = <<>>
                       /\ \E j \in 1..m : /\ StandsAt(C[j], T[j]) \/ Within(C[j], T[j + 1])
                                          /\ C[j] # <<>>
    BY DEF InStep
  <1>2. PICK j \in 1..m : /\ StandsAt(C[j], T[j]) \/ Within(C[j], T[j + 1])
                          /\ C[j] # <<>>
    BY <1>1
  <1>3. Scene(C[j], T[j], C[j + 1], T[j + 1])
    BY <1>1, <1>2, StoryScene
  <1>4. ~AtLoop(C[j], T[j])
    BY DEF AtLoop, R!Reads, R!ByteReads, R!WidthReads
  <1> QED
    BY <1>2, <1>3, <1>4, SceneAwaits

LEMMA ReaderNext ==
  ASSUME SystemInv, [SystemNext]_<<wvars, rvars, rest, lost>>  PROVE ReaderInv'
  <1>1. value \in Tree
    BY TreeAssumption DEF SystemInv, WriterInv, Held
  <1>2. CASE UNCHANGED <<wvars, rvars, rest, lost>>
    <2>1. /\ UNCHANGED <<value, sent, status>> /\ UNCHANGED <<rest, lost>>
          /\ UNCHANGED <<pc, asked, width, marker, frames, out, bytes_so_far, recursive_depth,
                         result>>
      BY <1>2 DEF wvars, rvars
    <2>2. InStep' <=> InStep
      BY <2>1 DEF InStep, Depths, Meter, StandsAt, Within, AtStart, AtLoop, AtEnd, AtKeyLen, AtItem,
         AtKeyBytes, AtMember, AtNumber, AtTextCount, AtTextBytes, AtText, AtEmpty, AtCount,
         AtCountBytes, Due, Left
    <2>3. Verdict' <=> Verdict
      BY <2>1 DEF Verdict, Admitted
    <2> QED
      BY <2>1, <2>2, <2>3 DEF SystemInv, ReaderInv
  <1>3. CASE Writing
    <2>1. pc' = "idle" /\ result' = "none" /\ frames' = frames /\ lost' = lost
          /\ pc = "idle" /\ result = "none"
      BY <1>3 DEF Writing, rvars
    <2> QED
      BY <2>1 DEF SystemInv, ReaderInv
  <1>4. CASE StartReading
    <2>1. /\ pc' = "start" /\ result' = "none" /\ lost' = lost /\ pc = "idle"
          /\ status' = "returned" /\ value' = value /\ value.kind = "Map"
      BY <1>4 DEF StartReading, R!GetNextValue, wvars
    <2>2. Encodable(value) => InStep'
      BY <1>4, StartInStep
    <2> QED
      BY <2>1, <2>2 DEF SystemInv, ReaderInv
  <1>5. CASE Reading \/ Deciding
    <2>1. pc # "idle" /\ ~lost /\ lost' = lost /\ value' = value /\ status' = status
      BY <1>5 DEF Reading, Deciding, wvars, R!Loop, R!PolicyViolation, R!Reads, R!ByteReads,
         R!WidthReads
    <2>2. status = "returned" /\ value.kind = "Map" /\ result = "none"
      BY <2>1 DEF SystemInv, ReaderInv
    <2>3. \/ pc' = "idle" /\ result' # "none"
          \/ pc' # "idle" /\ result' = "none"
      BY <1>5, <2>2, Outcomes DEF Outcome
    <2>4. Encodable(value) => InStep' \/ (pc' = "idle" /\ Verdict')
      BY <1>1, <1>5, <2>1, <2>2, StepInStep DEF SystemInv, ReaderInv
    <2>5. InStep' => result' = "none"
      BY DEF InStep, Depths
    <2> QED
      BY <2>1, <2>2, <2>3, <2>4, <2>5 DEF ReaderInv
  <1>6. CASE LoseTrack
    <2>1. /\ pc \in R!Reads /\ ~Found /\ value' = value /\ status' = status
          /\ pc' = pc /\ result' = result
      BY <1>6 DEF LoseTrack, wvars, rvars
    <2>2. pc # "idle"
      BY <2>1 DEF R!Reads, R!ByteReads, R!WidthReads
    <2>3. status = "returned" /\ value.kind = "Map" /\ result = "none"
      BY <2>2 DEF SystemInv, ReaderInv
    <2>4. ASSUME Encodable(value)  PROVE FALSE
      <3>1. InStep
        BY <2>2, <2>4 DEF SystemInv, ReaderInv
      <3>2. \E of, s : Awaits(of, s)
        BY <1>1, <2>1, <2>3, <2>4, <3>1, InStepAwaits
      <3> QED
        BY <2>1, <3>2, AwaitsFound
    <2> QED
      BY <2>1, <2>2, <2>3, <2>4 DEF ReaderInv
  <1> QED
    BY <1>2, <1>3, <1>4, <1>5, <1>6 DEF SystemNext

LEMMA SystemNextInv ==
  SystemInv /\ [SystemNext]_<<wvars, rvars, rest, lost>> => SystemInv'
  BY SystemStep, WriterNext, ReaderNext DEF SystemInv

\* Whatever a program writes of a Value the format can hold, the reader reads
\* back to the last byte, for every nesting and order of the members, or
\* refuses because of the policy alone: append_object and append_array against
\* extract_nextValue (stream_writer.hpp:75-94, 348-362; stream_reader.hpp:222-321).
THEOREM WrittenIsReadBack == SystemSpec => []ReadsBack
  <1>1. SystemInit => SystemInv
    BY WriterInit, ReaderInit DEF SystemInv
  <1>2. SystemInv => ReadsBack
    BY DEF SystemInv, ReaderInv, ReadsBack, Verdict
  <1> QED
    BY <1>1, <1>2, SystemNextInv, PTL DEF SystemSpec

\* The reader takes no byte for something else than the writer meant: each of
\* its calls of read() finds the field that write() sent for it.
THEOREM ReaderInSync == SystemSpec => []InSync
  <1>1. SystemInit => SystemInv
    BY WriterInit, ReaderInit DEF SystemInv
  <1>2. SystemInv => InSync
    BY DEF SystemInv, ReaderInv, InSync
  <1> QED
    BY <1>1, <1>2, SystemNextInv, PTL DEF SystemSpec
=============================================================================
