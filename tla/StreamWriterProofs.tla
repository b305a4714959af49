------------------------- MODULE StreamWriterProofs -------------------------
(***************************************************************************)
(* The size that writeValue returns is the number of bytes it has handed   *)
(* to the stream, for every Value and every order of its members.  Each    *)
(* part is counted in the activation that writes it, and an array counts   *)
(* its end marker before it is written: the invariant says that the parts  *)
(* of all activations together, less the end markers still to come, are    *)
(* what has been sent.                                                     *)
(***************************************************************************)
EXTENDS StreamWriter, FiniteSetTheorems, TLAPS

PairType == [first : Nat, second : BOOLEAN]

\* What an append has written has the size it returns.
Fair(a) == a.rtn \in PairType /\ a.out.size = a.rtn.first

\* The bytes an activation has counted and not yet written.
Pending(v) == IF v.kind = "Array" THEN 1 ELSE 0

-----------------------------------------------------------------------------
(* The appends.                                                            *)

LEMMA SizeOfThen ==
  ASSUME NEW a, NEW b  PROVE Then(a, b).size = a.size + b.size
  BY DEF Then

LEMMA SizeOfField ==
  ASSUME NEW what, NEW of, NEW size  PROVE Field(what, of, size).size = size
  BY DEF Field

LEMMA AppendedFair ==
  ASSUME NEW o, NEW n \in Nat, NEW ok \in BOOLEAN, o.size = n
  PROVE  Fair(Appended(o, n, ok))
  BY DEF Fair, Appended, Pair, PairType

LEMMA UpdateType ==
  ASSUME NEW p \in PairType, NEW q \in PairType
  PROVE  update(p, q) \in PairType /\ update(p, q).first = q.first + p.first
  BY DEF update, Pair, PairType

\* The narrowest width is one of those that were asked for.
LEMMA NarrowestIn ==
  ASSUME NEW S, S \subseteq {1, 2, 4, 8}, 8 \in S
  PROVE  Narrowest(S) \in {1, 2, 4, 8}
  <1>1. \E w \in S : \A x \in S : w <= x
    <2>1. CASE 1 \in S
      BY <2>1
    <2>2. CASE 1 \notin S /\ 2 \in S
      BY <2>2
    <2>3. CASE 1 \notin S /\ 2 \notin S /\ 4 \in S
      BY <2>3
    <2>4. CASE 1 \notin S /\ 2 \notin S /\ 4 \notin S
      BY <2>4
    <2> QED
      BY <2>1, <2>2, <2>3, <2>4
  <1>2. Narrowest(S) \in S
    BY <1>1 DEF Narrowest
  <1> QED
    BY <1>2

LEMMA WidthsIn ==
  ASSUME NEW n  PROVE UintWidth(n) \in {1, 2, 4, 8} /\ SintWidth(n) \in {1, 2, 4, 8}
  BY NarrowestIn DEF UintWidth, SintWidth, Widths

LEMMA NumberFair ==
  ASSUME NEW m, NEW n, NEW w \in {1, 2, 4, 8}  PROVE Fair(Number(m, n, w))
  <1>1. Then(Mark(m), Field("number", n, w)).size = w + 1
    BY SizeOfThen, SizeOfField DEF Mark
  <1>2. w + 1 \in Nat
    OBVIOUS
  <1>3. Fair(Appended(Then(Mark(m), Field("number", n, w)), w + 1, TRUE))
    BY <1>1, <1>2, AppendedFair
  <1> QED
    BY <1>3 DEF Number

LEMMA NothingSize == Nothing.size = 0
  BY DEF Nothing

LEMMA NothingFair == Fair(Appended(Nothing, 0, FALSE))
  BY AppendedFair DEF Nothing

LEMMA IntegersFair ==
  ASSUME NEW n
  PROVE  Fair(append_unsignedInt(n)) /\ Fair(append_size(n)) /\ Fair(append_signedInt(n))
  <1>1. Fair(append_unsignedInt(n))
    BY NumberFair, WidthsIn DEF append_unsignedInt
  <1>2. Fair(append_size(n))
    BY <1>1, NothingFair DEF append_size
  <1>3. Fair(append_signedInt(n))
    BY <1>1, NumberFair, WidthsIn DEF append_signedInt
  <1> QED
    BY <1>1, <1>2, <1>3

LEMMA FloatFair ==
  ASSUME NEW w  PROVE Fair(append_float(w))
  BY NumberFair, NothingFair DEF append_float

LEMMA TextFair ==
  ASSUME NEW m, NEW n \in Nat  PROVE Fair(append_text(m, n))
  <1> DEFINE s == append_size(n)
  <1>1. s.rtn \in PairType /\ s.out.size = s.rtn.first
    BY IntegersFair DEF Fair
  <1> HIDE DEF s
  <1>2. Then(Then(Mark(m), s.out), Field("data", 0, n)).size = s.rtn.first + n + 1
    BY <1>1, SizeOfThen, SizeOfField DEF Mark, PairType
  <1>3. s.rtn.first + n + 1 \in Nat /\ s.rtn.second \in BOOLEAN
    BY <1>1 DEF PairType
  <1>4. Fair(Appended(Then(Then(Mark(m), s.out), Field("data", 0, n)),
                      s.rtn.first + n + 1, s.rtn.second))
    BY <1>2, <1>3, AppendedFair
  <1> QED
    BY <1>4 DEF append_text, s

\* A Value that is not a container has the size its append returns.
LEMMA LeafFair ==
  ASSUME NEW v \in Tree, ~Container(v)  PROVE Fair(append_value(v))
  <1>1. v.kind \in {"Null", "Bool", "Char", "SignedInt", "UnsignedInt", "Float", "String", "Binary"}
    BY TreeAssumption DEF Container
  <1>2. v.kind \in {"String", "Binary"} => v.n \in Nat
    BY TreeAssumption
  <1>3. \A m : Fair(Appended(Mark(m), 1, TRUE))
    BY AppendedFair, SizeOfField DEF Mark
  <1>4. CASE v.kind = "Null"
    BY <1>4, <1>3 DEF append_value
  <1>5. CASE v.kind = "Bool"
    BY <1>5, <1>3 DEF append_value
  <1>6. CASE v.kind \in {"Char", "SignedInt", "UnsignedInt", "Float"}
    BY <1>6, NumberFair, IntegersFair, FloatFair DEF append_value
  <1>7. CASE v.kind \in {"String", "Binary"}
    BY <1>7, <1>2, TextFair DEF append_value
  <1> QED
    BY <1>1, <1>4, <1>5, <1>6, <1>7

LEMMA KeyFair ==
  ASSUME NEW k \in DOMAIN KeyLen  PROVE Fair(append_key(k))
  <1>1. KeyLen[k] \in Nat
    BY LengthAssumption
  <1>2. Then(Field("keyLen", KeyLen[k] % 256, 1), Field("keyBytes", k, KeyLen[k])).size
          = 1 + KeyLen[k]
    BY <1>1, SizeOfThen, SizeOfField
  <1>3. 1 + KeyLen[k] \in Nat
    BY <1>1
  <1>4. Fair(Appended(Then(Field("keyLen", KeyLen[k] % 256, 1), Field("keyBytes", k, KeyLen[k])),
                      1 + KeyLen[k], TRUE))
    BY <1>2, <1>3, AppendedFair
  <1> QED
    BY <1>4 DEF append_key

\* What a marker and a size make, when the bytes of p are counted with them.
LEMMA HeadFair ==
  ASSUME NEW m, NEW s, Fair(s), NEW p \in PairType, NEW o, NEW r,
         o = Then(Mark(m), s.out), r = update(s.rtn, p)
  PROVE  r \in PairType /\ o.size = r.first - p.first + 1
  <1>1. s.rtn \in PairType /\ s.out.size = s.rtn.first
    BY DEF Fair
  <1>2. s.rtn.first \in Nat /\ p.first \in Nat
    BY <1>1 DEF PairType
  <1>3. o.size = 1 + s.rtn.first
    BY <1>1, SizeOfThen, SizeOfField DEF Mark
  <1>4. r \in PairType /\ r.first = p.first + s.rtn.first
    BY <1>1, UpdateType
  <1> QED
    BY <1>2, <1>3, <1>4

\* A container is opened with the bytes it counts, less its end marker.
LEMMA OpeningFair ==
  ASSUME NEW v \in Tree, Container(v)
  PROVE  /\ Opening(v).rtn \in PairType
         /\ Opening(v).out.size = Opening(v).rtn.first - Pending(v)
  <1> DEFINE s == append_size(Cardinality(DOMAIN v.items))
  <1>1. Fair(s)
    BY IntegersFair
  <1>6. /\ Pair(1, FALSE) \in PairType /\ Pair(1, FALSE).first = 1
        /\ Pair(2, FALSE) \in PairType /\ Pair(2, FALSE).first = 2
    BY DEF Pair, PairType
  <1>2. CASE v.kind = "Map"
    <2> DEFINE m == "{"  p == Pair(1, FALSE)
    <2>1. Opening(v) = [out |-> Then(Mark(m), s.out), rtn |-> update(s.rtn, p)]
      BY <1>2 DEF Opening
    <2>2. Pending(v) = 0 /\ p \in PairType /\ p.first = 1
      BY <1>2, <1>6 DEF Pending
    <2> HIDE DEF s, m, p
    <2>3. Opening(v).out = Then(Mark(m), s.out) /\ Opening(v).rtn = update(s.rtn, p)
      BY <2>1
    <2>4. Opening(v).rtn \in PairType /\ Opening(v).out.size = Opening(v).rtn.first - p.first + 1
      BY <1>1, <2>2, <2>3, HeadFair
    <2>5. Opening(v).rtn.first \in Nat
      BY <2>4 DEF PairType
    <2> QED
      BY <2>2, <2>4, <2>5
  <1>4. CASE v.kind = "Array" /\ v.items # <<>>
    <2> DEFINE m == "["  p == Pair(2, FALSE)
    <2>1. Opening(v) = [out |-> Then(Mark(m), s.out), rtn |-> update(s.rtn, p)]
      BY <1>4 DEF Opening
    <2>2. Pending(v) = 1 /\ p \in PairType /\ p.first = 2
      BY <1>4, <1>6 DEF Pending
    <2> HIDE DEF s, m, p
    <2>3. Opening(v).out = Then(Mark(m), s.out) /\ Opening(v).rtn = update(s.rtn, p)
      BY <2>1
    <2>4. Opening(v).rtn \in PairType /\ Opening(v).out.size = Opening(v).rtn.first - p.first + 1
      BY <1>1, <2>2, <2>3, HeadFair
    <2>5. Opening(v).rtn.first \in Nat
      BY <2>4 DEF PairType
    <2> QED
      BY <2>2, <2>4, <2>5
  <1>3. CASE v.kind = "Array" /\ v.items = <<>>
    <2>1. PICK m : Opening(v) = Appended(Mark(m), 2, FALSE)
      BY <1>3 DEF Opening
    <2>2. Opening(v).out = Mark(m) /\ Opening(v).rtn = Pair(2, FALSE)
      BY <2>1 DEF Appended
    <2>3. Opening(v).out.size = 1
      BY <2>2, SizeOfField DEF Mark
    <2>4. Pending(v) = 1
      BY <1>3 DEF Pending
    <2>5. Opening(v).rtn \in PairType /\ Opening(v).rtn.first = 2
      BY <2>2 DEF Pair, PairType
    <2> QED
      BY <2>3, <2>4, <2>5
  <1> QED
    BY <1>2, <1>3, <1>4 DEF Container

LEMMA OpeningSize ==
  ASSUME NEW v \in Tree, Container(v)  PROVE Opening(v).out.size \in Nat
  <1> DEFINE s == append_size(Cardinality(DOMAIN v.items))
  <1>1. Fair(s)
    BY IntegersFair
  <1>2. s.out.size \in Nat
    BY <1>1 DEF Fair, PairType
  <1> HIDE DEF s
  <1>3. \A m : Mark(m).size = 1 /\ Then(Mark(m), s.out).size = 1 + s.out.size
    BY SizeOfThen, SizeOfField DEF Mark
  <1>4. \E m : Opening(v).out = Mark(m) \/ Opening(v).out = Then(Mark(m), s.out)
    BY Zenon DEF Opening, Container, Appended, s
  <1> QED
    BY <1>2, <1>3, <1>4

\* Its end marker is counted when it is written, or has been already.
LEMMA ClosingFair ==
  ASSUME NEW v, Container(v), NEW rtn \in PairType
  PROVE  /\ Closing(v, rtn).rtn \in PairType
         /\ Closing(v, rtn).out.size = 1
         /\ Closing(v, rtn).rtn.first = rtn.first - Pending(v) + 1
  <1>1. \A m : Mark(m).size = 1
    BY SizeOfField DEF Mark
  <1>2. rtn.first \in Nat /\ rtn.second \in BOOLEAN
    BY DEF PairType
  <1>3. CASE v.kind = "Map"
    <2>1. PICK m : Closing(v, rtn) = [out |-> Mark(m), rtn |-> Pair(rtn.first + 1, rtn.second)]
      BY <1>3 DEF Closing
    <2>2. Closing(v, rtn).out = Mark(m) /\ Closing(v, rtn).rtn = Pair(rtn.first + 1, rtn.second)
      BY <2>1
    <2>3. Pending(v) = 0
      BY <1>3 DEF Pending
    <2>4. Closing(v, rtn).rtn \in PairType /\ Closing(v, rtn).rtn.first = rtn.first + 1
      BY <1>2, <2>2 DEF Pair, PairType
    <2>5. Closing(v, rtn).out.size = 1
      BY <1>1, <2>2
    <2> QED
      BY <1>2, <2>3, <2>4, <2>5
  <1>4. CASE v.kind = "Array"
    <2>1. PICK m : Closing(v, rtn) = [out |-> Mark(m), rtn |-> rtn]
      BY <1>4 DEF Closing
    <2>2. Closing(v, rtn).out = Mark(m) /\ Closing(v, rtn).rtn = rtn
      BY <2>1
    <2>3. Pending(v) = 1
      BY <1>4 DEF Pending
    <2>4. Closing(v, rtn).out.size = 1
      BY <1>1, <2>2
    <2> QED
      BY <1>2, <2>2, <2>3, <2>4
  <1> QED
    BY <1>3, <1>4 DEF Container
-----------------------------------------------------------------------------
(* The activations.                                                        *)

MemberKey == UNION {DOMAIN v.items : v \in Tree}

CallType == [val : Tree, order : Seq(MemberKey), next : Nat, rtn : PairType]

\* An activation goes through the members of a container, from the first on.
GoodCall(f) ==
  /\ f \in CallType
  /\ Container(f.val)
  /\ \A i \in 1..Len(f.order) : f.order[i] \in DOMAIN f.val.items
  /\ f.next \in 1..(Len(f.order) + 1)

GoodCalls(cs) == cs \in Seq(CallType) /\ \A i \in 1..Len(cs) : GoodCall(cs[i])

\* The bytes that the activations have counted and written add up to size;
\* sum[i] are those of the first i.
Balanced(cs, size) ==
  \E sum \in [0..Len(cs) -> Int] :
    /\ sum[0] = 0
    /\ \A i \in 1..Len(cs) : sum[i] = sum[i - 1] + cs[i].rtn.first - Pending(cs[i].val)
    /\ size = sum[Len(cs)]

LEMMA PendingType ==
  ASSUME NEW v  PROVE Pending(v) \in Int
  BY DEF Pending

LEMMA CallFields ==
  ASSUME NEW f, GoodCall(f)
  PROVE  /\ f.val \in Tree /\ Container(f.val)
         /\ f.order \in Seq(MemberKey) /\ Len(f.order) \in Nat
         /\ f.next \in Nat /\ f.next >= 1 /\ f.next <= Len(f.order) + 1
         /\ f.rtn \in PairType /\ f.rtn.first \in Nat
  BY DEF GoodCall, CallType, PairType

LEMMA OrderGood ==
  ASSUME NEW v \in Tree, Container(v), NEW order \in Orders(v)
  PROVE  /\ order \in Seq(MemberKey)
         /\ \A i \in 1..Len(order) : order[i] \in DOMAIN v.items
  <1> DEFINE D == DOMAIN v.items
  <1>1. IsFiniteSet(D) /\ D \subseteq MemberKey
    BY TreeAssumption DEF MemberKey
  <1>2. CASE v.kind = "Array"
    <2>1. v.items \in Seq(Tree)
      BY <1>2, TreeAssumption
    <2>2. D = 1..Len(v.items) /\ Len(v.items) \in Nat
      BY <2>1
    <2>3. order = [i \in D |-> i]
      BY <1>2 DEF Orders
    <2> HIDE DEF D
    <2>4. order \in Seq(D) /\ Len(order) = Len(v.items)
      BY <2>2, <2>3
    <2>5. \A i \in 1..Len(order) : order[i] \in D
      BY <2>4
    <2>6. order \in Seq(MemberKey)
      BY <1>1, <2>4, <2>5
    <2> QED
      BY <2>5, <2>6 DEF D
  <1>3. CASE v.kind = "Map"
    <2>1. order \in [1..Cardinality(D) -> D]
      BY <1>3 DEF Orders
    <2>2. Cardinality(D) \in Nat
      BY <1>1, FS_CardinalityType
    <2> HIDE DEF D
    <2>3. order \in Seq(D) /\ Len(order) = Cardinality(D)
      BY <2>1, <2>2
    <2>4. \A i \in 1..Len(order) : order[i] \in D
      BY <2>3
    <2>5. order \in Seq(MemberKey)
      BY <1>1, <2>3, <2>4
    <2> QED
      BY <2>4, <2>5 DEF D
  <1> QED
    BY <1>2, <1>3 DEF Container

LEMMA ActivationGood ==
  ASSUME NEW v \in Tree, Container(v), NEW order \in Orders(v)
  PROVE  /\ GoodCall(Activation(v, order))
         /\ Activation(v, order).val = v
         /\ Activation(v, order).rtn = Opening(v).rtn
  <1>1. Opening(v).rtn \in PairType
    BY OpeningFair
  <1> DEFINE f == [val |-> v, order |-> order, next |-> 1, rtn |-> Opening(v).rtn]
  <1>2. f \in CallType
    BY <1>1, OrderGood DEF CallType
  <1>3. Len(order) \in Nat
    BY OrderGood
  <1>4. GoodCall(f)
    BY <1>2, <1>3, OrderGood DEF GoodCall
  <1> QED
    BY <1>4 DEF Activation

\* The deepest activation is replaced by one on the same container that has
\* counted d bytes more.
LEMMA ReplaceGood ==
  ASSUME NEW cs, GoodCalls(cs), cs # <<>>, NEW g, GoodCall(g)
  PROVE  /\ GoodCalls([cs EXCEPT ![Len(cs)] = g])
         /\ [cs EXCEPT ![Len(cs)] = g] # <<>>
  <1>1. cs \in Seq(CallType) /\ Len(cs) \in Nat /\ Len(cs) > 0
    BY DEF GoodCalls
  <1>2. g \in CallType
    BY DEF GoodCall
  <1> DEFINE ds == [cs EXCEPT ![Len(cs)] = g]
  <1>3. /\ ds \in Seq(CallType) /\ Len(ds) = Len(cs)
        /\ \A i \in 1..Len(cs) : ds[i] = IF i = Len(cs) THEN g ELSE cs[i]
    BY <1>1, <1>2
  <1> HIDE DEF ds
  <1>4. GoodCalls(ds)
    BY <1>3 DEF GoodCalls
  <1>5. ds # <<>>
    BY <1>1, <1>3
  <1> QED
    BY <1>4, <1>5 DEF ds

LEMMA ReplaceBalanced ==
  ASSUME NEW cs, GoodCalls(cs), cs # <<>>, NEW g, GoodCall(g),
         NEW size \in Int, NEW d \in Int, Balanced(cs, size),
         g.val = cs[Len(cs)].val, g.rtn.first = cs[Len(cs)].rtn.first + d
  PROVE  Balanced([cs EXCEPT ![Len(cs)] = g], size + d)
  <1>1. cs \in Seq(CallType) /\ Len(cs) \in Nat /\ Len(cs) > 0
    BY DEF GoodCalls
  <1>2. g \in CallType
    BY DEF GoodCall
  <1> DEFINE n == Len(cs)  ds == [cs EXCEPT ![n] = g]
  <1>3. /\ ds \in Seq(CallType) /\ Len(ds) = n
        /\ \A i \in 1..n : ds[i] = IF i = n THEN g ELSE cs[i]
    BY <1>1, <1>2
  <1>4. PICK sum \in [0..n -> Int] :
          /\ sum[0] = 0
          /\ \A i \in 1..n : sum[i] = sum[i - 1] + cs[i].rtn.first - Pending(cs[i].val)
          /\ size = sum[n]
    BY DEF Balanced
  <1> DEFINE new == [sum EXCEPT ![n] = sum[n] + d]
  <1>5. /\ new \in [0..n -> Int] /\ new[0] = 0 /\ new[n] = size + d
        /\ \A i \in 0..(n - 1) : new[i] = sum[i]
    BY <1>1, <1>4
  <1>6. cs[n].rtn.first \in Int /\ Pending(cs[n].val) \in Int /\ sum[n - 1] \in Int
    <2>1. GoodCall(cs[n])
      BY <1>1 DEF GoodCalls
    <2>2. cs[n].rtn.first \in Nat
      BY <2>1, CallFields
    <2>3. sum[n - 1] \in Int
      BY <1>1, <1>4
    <2> QED
      BY <2>2, <2>3, PendingType
  <1> HIDE DEF new, ds
  <1>7. ASSUME NEW i \in 1..n
        PROVE  new[i] = new[i - 1] + ds[i].rtn.first - Pending(ds[i].val)
    <2>1. CASE i = n
      <3>1. sum[n] = sum[n - 1] + cs[n].rtn.first - Pending(cs[n].val)
        BY <1>1, <1>4
      <3>2. new[n - 1] = sum[n - 1] /\ new[n] = sum[n] + d
        BY <1>1, <1>4, <1>5
      <3>3. ds[n] = g
        BY <1>1, <1>3
      <3>4. ds[n].rtn.first = cs[n].rtn.first + d /\ Pending(ds[n].val) = Pending(cs[n].val)
        BY <3>3
      <3>5. new[n] = new[n - 1] + ds[n].rtn.first - Pending(ds[n].val)
        BY <1>6, <3>1, <3>2, <3>4
      <3> QED
        BY <2>1, <3>5
    <2>2. CASE i < n
      <3>1. new[i] = sum[i] /\ new[i - 1] = sum[i - 1] /\ ds[i] = cs[i]
        BY <1>1, <1>3, <1>5, <2>2
      <3> QED
        BY <1>4, <3>1
    <2> QED
      BY <1>1, <2>1, <2>2
  <1>8. Balanced(ds, size + d)
    BY <1>3, <1>5, <1>7 DEF Balanced
  <1> QED
    BY <1>8 DEF ds

\* One activation alone.
LEMMA FirstBalanced ==
  ASSUME NEW g, GoodCall(g)
  PROVE  /\ GoodCalls(<<g>>) /\ <<g>> # <<>>
         /\ Balanced(<<g>>, g.rtn.first - Pending(g.val))
  <1>1. g \in CallType
    BY DEF GoodCall
  <1> DEFINE cs == <<g>>
  <1>2. cs \in Seq(CallType) /\ Len(cs) = 1 /\ cs[1] = g /\ cs # <<>>
    BY <1>1
  <1> HIDE DEF cs
  <1>3. GoodCalls(cs)
    BY <1>2 DEF GoodCalls
  <1> DEFINE b == g.rtn.first - Pending(g.val)
             sum == [i \in 0..1 |-> IF i = 0 THEN 0 ELSE b]
  <1>4. g.rtn.first \in Nat /\ Pending(g.val) \in Int
    BY CallFields, PendingType
  <1>5. b \in Int /\ b = 0 + g.rtn.first - Pending(g.val)
    BY <1>4
  <1> HIDE DEF b
  <1>6. sum \in [0..1 -> Int] /\ sum[0] = 0 /\ sum[1] = b
    BY <1>5
  <1> HIDE DEF sum
  <1>7. \A i \in 1..1 : sum[i] = sum[i - 1] + cs[i].rtn.first - Pending(cs[i].val)
    BY <1>2, <1>5, <1>6
  <1>8. Balanced(cs, b)
    BY <1>2, <1>6, <1>7 DEF Balanced
  <1> QED
    BY <1>2, <1>3, <1>8 DEF cs, b

LEMMA LastBalanced ==
  ASSUME NEW cs, GoodCalls(cs), Len(cs) = 1, NEW size, Balanced(cs, size)
  PROVE  size = cs[1].rtn.first - Pending(cs[1].val)
  <1>1. GoodCall(cs[1])
    BY DEF GoodCalls
  <1>2. cs[1].rtn.first \in Nat /\ Pending(cs[1].val) \in Int
    BY <1>1, CallFields, PendingType
  <1>3. PICK sum \in [0..1 -> Int] :
          /\ sum[0] = 0
          /\ \A i \in 1..1 : sum[i] = sum[i - 1] + cs[i].rtn.first - Pending(cs[i].val)
          /\ size = sum[1]
    BY DEF Balanced
  <1>4. sum[1] = sum[0] + cs[1].rtn.first - Pending(cs[1].val)
    BY <1>3
  <1> QED
    BY <1>2, <1>3, <1>4

\* An activation is entered with the bytes of its opening.
LEMMA PushBalanced ==
  ASSUME NEW cs, GoodCalls(cs), NEW g, GoodCall(g), NEW size \in Int, Balanced(cs, size)
  PROVE  /\ GoodCalls(Append(cs, g)) /\ Append(cs, g) # <<>>
         /\ Balanced(Append(cs, g), size + (g.rtn.first - Pending(g.val)))
  <1>1. cs \in Seq(CallType) /\ Len(cs) \in Nat
    BY DEF GoodCalls
  <1>2. g \in CallType
    BY DEF GoodCall
  <1> DEFINE n == Len(cs)  ds == Append(cs, g)
  <1>3. /\ ds \in Seq(CallType) /\ Len(ds) = n + 1 /\ ds[n + 1] = g
        /\ \A i \in 1..n : ds[i] = cs[i]
    BY <1>1, <1>2
  <1> HIDE DEF ds
  <1>4. GoodCalls(ds) /\ ds # <<>>
    BY <1>1, <1>3 DEF GoodCalls
  <1>5. PICK sum \in [0..n -> Int] :
          /\ sum[0] = 0
          /\ \A i \in 1..n : sum[i] = sum[i - 1] + cs[i].rtn.first - Pending(cs[i].val)
          /\ size = sum[n]
    BY DEF Balanced
  <1> DEFINE b == size + (g.rtn.first - Pending(g.val))
             new == [i \in 0..(n + 1) |-> IF i = n + 1 THEN b ELSE sum[i]]
  <1>6. g.rtn.first \in Nat /\ Pending(g.val) \in Int
    BY CallFields, PendingType
  <1>7. b \in Int /\ b = size + g.rtn.first - Pending(g.val)
    BY <1>6
  <1> HIDE DEF b
  <1>8. /\ new \in [0..(n + 1) -> Int] /\ new[0] = 0 /\ new[n + 1] = b
        /\ \A i \in 0..n : new[i] = sum[i]
    BY <1>1, <1>5, <1>7
  <1> HIDE DEF new
  <1>9. ASSUME NEW i \in 1..(n + 1)
        PROVE  new[i] = new[i - 1] + ds[i].rtn.first - Pending(ds[i].val)
    <2>1. CASE i = n + 1
      <3>1. new[n] = size
        BY <1>1, <1>5, <1>8
      <3>2. i - 1 = n
        BY <1>1, <2>1
      <3>3. new[i] = b /\ ds[i] = g
        BY <1>3, <1>8, <2>1
      <3>4. new[i] = size + g.rtn.first - Pending(g.val)
        BY <1>7, <3>3
      <3>5. new[i - 1] = size
        BY <3>1, <3>2
      <3>6. ds[i].rtn.first = g.rtn.first /\ Pending(ds[i].val) = Pending(g.val)
        BY <3>3
      <3> QED
        BY <3>4, <3>5, <3>6
    <2>2. CASE i \in 1..n
      <3>1. i \in 0..n /\ i - 1 \in 0..n
        BY <1>1, <2>2
      <3>2. new[i] = sum[i] /\ new[i - 1] = sum[i - 1]
        BY <1>8, <3>1
      <3>3. ds[i] = cs[i]
        BY <1>3, <2>2
      <3> QED
        BY <1>5, <2>2, <3>2, <3>3
    <2> QED
      BY <1>1, <2>1, <2>2
  <1>10. Balanced(ds, b)
    BY <1>3, <1>8, <1>9 DEF Balanced
  <1> QED
    BY <1>4, <1>10 DEF ds, b

\* The activations below the deepest.
Below(cs) == [i \in 1..(Len(cs) - 1) |-> cs[i]]

LEMMA PopBalanced ==
  ASSUME NEW cs, GoodCalls(cs), Len(cs) > 1, NEW size \in Int, Balanced(cs, size)
  PROVE  /\ GoodCalls(Below(cs)) /\ Below(cs) # <<>> /\ Len(Below(cs)) = Len(cs) - 1
         /\ Balanced(Below(cs), size - (cs[Len(cs)].rtn.first - Pending(cs[Len(cs)].val)))
  <1> DEFINE n == Len(cs)  ds == Below(cs)
  <1>1. cs \in Seq(CallType) /\ n \in Nat /\ n > 1
    BY DEF GoodCalls
  <1>2. \A i \in 1..(n - 1) : cs[i] \in CallType
    BY <1>1
  <1>3. ds \in Seq(CallType) /\ Len(ds) = n - 1 /\ \A i \in 1..(n - 1) : ds[i] = cs[i]
    BY <1>1, <1>2 DEF Below
  <1> HIDE DEF ds
  <1>4. GoodCalls(ds) /\ ds # <<>>
    <2>1. \A i \in 1..(n - 1) : GoodCall(cs[i])
      BY <1>1 DEF GoodCalls
    <2> QED
      BY <1>1, <1>3, <2>1 DEF GoodCalls
  <1>5. PICK sum \in [0..n -> Int] :
          /\ sum[0] = 0
          /\ \A i \in 1..n : sum[i] = sum[i - 1] + cs[i].rtn.first - Pending(cs[i].val)
          /\ size = sum[n]
    BY DEF Balanced
  <1>6. cs[n].rtn.first \in Nat /\ Pending(cs[n].val) \in Int
    <2>1. GoodCall(cs[n])
      BY <1>1 DEF GoodCalls
    <2> QED
      BY <2>1, CallFields, PendingType
  <1> DEFINE new == [i \in 0..(n - 1) |-> sum[i]]
  <1>7. /\ new \in [0..(n - 1) -> Int] /\ new[0] = 0
        /\ \A i \in 0..(n - 1) : new[i] = sum[i]
    BY <1>1, <1>5
  <1> HIDE DEF new
  <1>8. new[n - 1] = size - (cs[n].rtn.first - Pending(cs[n].val))
    <2>1. sum[n] = sum[n - 1] + cs[n].rtn.first - Pending(cs[n].val) /\ sum[n - 1] \in Int
      BY <1>1, <1>5
    <2>2. new[n - 1] = sum[n - 1]
      BY <1>1, <1>7
    <2> QED
      BY <1>5, <1>6, <2>1, <2>2
  <1>9. ASSUME NEW i \in 1..(n - 1)
        PROVE  new[i] = new[i - 1] + ds[i].rtn.first - Pending(ds[i].val)
    <2>1. new[i] = sum[i] /\ new[i - 1] = sum[i - 1] /\ ds[i] = cs[i] /\ i \in 1..n
      BY <1>1, <1>3, <1>7
    <2> QED
      BY <1>5, <2>1
  <1>10. Balanced(ds, new[n - 1])
    BY <1>3, <1>7, <1>9 DEF Balanced
  <1> QED
    BY <1>3, <1>4, <1>8, <1>10 DEF ds
-----------------------------------------------------------------------------
(* The inductive invariant.                                                *)

\* What has been sent is what the activations have counted and written.
Counted ==
  /\ GoodCalls(calls)
  /\ calls # <<>> => Balanced(calls, sent.size)
  /\ BytesCounted

Fields ==
  /\ status \in {"ready", "writing", "returned", "thrown"}
  /\ status = "writing" <=> calls # <<>>
  /\ broken \in BOOLEAN /\ returned \in PairType
  /\ sent.size \in Nat

IInv == Fields /\ Counted

LEMMA EmptyCalls == GoodCalls(<<>>)
  BY DEF GoodCalls

\* The pair returned before writeValue has anything to count.
LEMMA ZeroPair == Pair(0, FALSE) \in PairType /\ Pair(0, FALSE).first = 0
  BY DEF Pair, PairType

LEMMA InitInv == Init => IInv
  <1> SUFFICES ASSUME Init PROVE IInv
    OBVIOUS
  <1>1. sent.size = 0
    BY NothingSize DEF Init
  <1>2. Fields
    <2>1. status = "ready" /\ broken = FALSE /\ returned \in PairType
      BY ZeroPair DEF Init
    <2>2. status = "writing" <=> calls # <<>>
      BY Zenon DEF Init
    <2>3. sent.size \in Nat
      BY <1>1
    <2> QED
      BY <2>1, <2>2, <2>3 DEF Fields
  <1>3. Counted
    BY EmptyCalls DEF Init, Counted, BytesCounted
  <1> QED
    BY <1>2, <1>3 DEF IInv

\* The deepest activation.
LEMMA CurrentGood ==
  ASSUME Fields, Counted, status = "writing"
  PROVE  /\ calls # <<>> /\ GoodCalls(calls) /\ calls \in Seq(CallType)
         /\ Deepest \in Nat /\ Deepest >= 1
         /\ GoodCall(Current) /\ Balanced(calls, sent.size)
  <1>1. calls # <<>> /\ GoodCalls(calls) /\ Balanced(calls, sent.size)
    BY DEF Fields, Counted
  <1>2. calls \in Seq(CallType) /\ Len(calls) \in Nat /\ Len(calls) >= 1
    BY <1>1 DEF GoodCalls
  <1> QED
    BY <1>1, <1>2 DEF GoodCalls, Current, Deepest

\* Its next member.
LEMMA MemberGood ==
  ASSUME Fields, Counted, status = "writing", More
  PROVE  /\ Member \in Tree
         /\ Current.val.kind = "Map" => Key \in DOMAIN KeyLen
  <1>1. GoodCall(Current)
    BY CurrentGood
  <1>2. Current.val \in Tree /\ Container(Current.val)
    BY <1>1, CallFields
  <1>3. Current.next \in 1..Len(Current.order)
    BY <1>1, CallFields DEF More
  <1>4. Key \in DOMAIN Current.val.items
    BY <1>1, <1>3 DEF GoodCall, Key
  <1>5. Current.val.items[Key] \in Tree
    BY <1>2, <1>4, TreeAssumption
  <1>6. Current.val.kind = "Map" => DOMAIN Current.val.items \subseteq DOMAIN KeyLen
    BY <1>2, TreeAssumption
  <1> QED
    BY <1>4, <1>5, <1>6 DEF Member

LEMMA LabelFair ==
  ASSUME Fields, Counted, status = "writing", More
  PROVE  Fair(Label)
  <1>1. Current.rtn.second \in BOOLEAN
    BY CurrentGood, CallFields DEF PairType
  <1>2. CASE Current.val.kind = "Map"
    BY <1>2, MemberGood, KeyFair DEF Label
  <1>3. CASE Current.val.kind # "Map"
    <2>1. Fair(Appended(Nothing, 0, Current.rtn.second))
      BY <1>1, AppendedFair DEF Nothing
    <2> QED
      BY <1>3, <2>1 DEF Label
  <1> QED
    BY <1>2, <1>3

\* The deepest activation goes on, with d bytes more.
LEMMA AdvancedBalanced ==
  ASSUME Fields, Counted, status = "writing", More,
         NEW rtn \in PairType, NEW d \in Int, rtn.first = Current.rtn.first + d
  PROVE  /\ GoodCalls(Advanced(rtn)) /\ Advanced(rtn) # <<>>
         /\ Balanced(Advanced(rtn), sent.size + d)
  <1> DEFINE g == [Current EXCEPT !.next = Current.next + 1, !.rtn = rtn]
  <1>1. GoodCall(Current)
    BY CurrentGood
  <1>2. /\ Current.next \in Nat /\ Current.next + 1 \in 1..(Len(Current.order) + 1)
    BY <1>1, CallFields DEF More
  <1>3. /\ g \in CallType /\ g.val = Current.val /\ g.order = Current.order
        /\ g.next = Current.next + 1 /\ g.rtn = rtn
    <2>1. Current \in CallType
      BY <1>1 DEF GoodCall
    <2> DEFINE f == Current  n == Current.next + 1
    <2>2. n \in Nat
      BY <1>2
    <2> HIDE DEF f, n
    <2>3. f \in CallType
      BY <2>1 DEF f
    <2>4. g = [f EXCEPT !.next = n, !.rtn = rtn]
      BY DEF f, n
    <2> HIDE DEF g
    <2>5. /\ g \in CallType /\ g.val = f.val /\ g.order = f.order
          /\ g.next = n /\ g.rtn = rtn
      BY <2>2, <2>3, <2>4 DEF CallType
    <2> QED
      BY <2>5 DEF f, n
  <1> HIDE DEF g
  <1>4. GoodCall(g)
    BY <1>1, <1>2, <1>3 DEF GoodCall
  <1>5. calls # <<>> /\ GoodCalls(calls) /\ Balanced(calls, sent.size)
    BY CurrentGood
  <1>6. sent.size \in Int
    BY DEF Fields
  <1>7. g.val = calls[Len(calls)].val /\ g.rtn.first = calls[Len(calls)].rtn.first + d
    BY <1>3 DEF Current, Deepest
  <1>8. GoodCalls([calls EXCEPT ![Len(calls)] = g]) /\ [calls EXCEPT ![Len(calls)] = g] # <<>>
    BY <1>4, <1>5, ReplaceGood
  <1>9. Balanced([calls EXCEPT ![Len(calls)] = g], sent.size + d)
    BY <1>4, <1>5, <1>6, <1>7, ReplaceBalanced
  <1>10. Advanced(rtn) = [calls EXCEPT ![Len(calls)] = g]
    BY DEF Advanced, g, Deepest
  <1> QED
    BY <1>8, <1>9, <1>10

\* writeValue starts with the opening of its Map.
LEMMA WriteValueInv ==
  ASSUME IInv, NEW v \in Values, WriteValue(v)  PROVE IInv'
  <1>1. CASE v.kind # "Map"
    <2>1. /\ sent' = Nothing /\ status' = "returned" /\ returned' = Pair(0, FALSE)
          /\ calls' = calls /\ broken' = broken /\ status # "writing"
      BY <1>1 DEF WriteValue
    <2>2. sent'.size = 0
      BY <2>1, NothingSize
    <2>3. calls = <<>>
      BY <2>1 DEF IInv, Fields
    <2>4. Fields'
      <3>1. status' = "returned" /\ broken' \in BOOLEAN /\ returned' \in PairType
        BY <2>1, ZeroPair DEF IInv, Fields
      <3>2. status' = "writing" <=> calls' # <<>>
        BY <2>1, <2>3
      <3>3. sent'.size \in Nat
        BY <2>2
      <3> QED
        BY <3>1, <3>2, <3>3 DEF Fields
    <2>5. Counted'
      BY <2>1, <2>2, <2>3, EmptyCalls, ZeroPair DEF Counted, BytesCounted
    <2> QED
      BY <2>4, <2>5 DEF IInv
  <1>2. CASE v.kind = "Map"
    <2>1. v \in Tree /\ Container(v)
      BY <1>2, TreeAssumption DEF Container
    <2>2. PICK order \in Orders(v) : calls' = <<Activation(v, order)>>
      BY <1>2 DEF WriteValue
    <2>3. /\ sent' = Opening(v).out /\ broken' \in {broken, TRUE}
          /\ status' = "writing" /\ returned' = Pair(0, FALSE)
      BY <1>2 DEF WriteValue
    <2> DEFINE g == Activation(v, order)
    <2>4. GoodCall(g) /\ g.val = v /\ g.rtn = Opening(v).rtn
      BY <2>1, ActivationGood
    <2>5. Opening(v).out.size = Opening(v).rtn.first - Pending(v)
      BY <2>1, OpeningFair
    <2> HIDE DEF g
    <2>6. GoodCalls(<<g>>) /\ <<g>> # <<>> /\ Balanced(<<g>>, g.rtn.first - Pending(g.val))
      BY <2>4, FirstBalanced
    <2>7. calls' = <<g>>
      BY <2>2 DEF g
    <2>8. sent'.size = g.rtn.first - Pending(g.val)
      BY <2>3, <2>4, <2>5
    <2>9. Counted'
      BY <2>3, <2>6, <2>7, <2>8 DEF Counted, BytesCounted
    <2>10. sent'.size \in Nat
      BY <2>1, <2>3, OpeningSize
    <2>11. Fields'
      BY <2>3, <2>6, <2>7, <2>10, ZeroPair DEF IInv, Fields
    <2> QED
      BY <2>9, <2>11 DEF IInv
  <1> QED
    BY <1>1, <1>2

LEMMA ThrowKeyInv ==
  ASSUME IInv, ThrowKey  PROVE IInv'
  <1>1. Fields'
    BY DEF IInv, Fields, ThrowKey
  <1>2. Counted'
    BY EmptyCalls DEF Counted, BytesCounted, ThrowKey
  <1> QED
    BY <1>1, <1>2 DEF IInv

\* A key and a leaf are counted in the activation that writes them.
LEMMA AppendLeafInv ==
  ASSUME IInv, AppendLeaf  PROVE IInv'
  <1>1. Fields /\ Counted /\ status = "writing" /\ More /\ ~Container(Member)
    BY DEF IInv, AppendLeaf
  <1> DEFINE a == append_value(Member)  l == Label
             q == update(l.rtn, Current.rtn)  r == update(a.rtn, q)
             d == l.rtn.first + a.rtn.first
  <1>2. Fair(a) /\ Fair(l) /\ Current.rtn \in PairType
    BY <1>1, MemberGood, LeafFair, LabelFair, CurrentGood, CallFields
  <1>3. /\ sent' = Then(sent, Then(l.out, a.out)) /\ broken' \in {broken, TRUE}
        /\ calls' = Advanced(r) /\ status' = status /\ returned' = returned
    BY DEF AppendLeaf, Write
  <1> HIDE DEF a, l
  <1>4. /\ a.rtn.first \in Nat /\ l.rtn.first \in Nat /\ Current.rtn.first \in Nat
        /\ a.rtn \in PairType /\ l.rtn \in PairType
        /\ a.out.size = a.rtn.first /\ l.out.size = l.rtn.first
    BY <1>2 DEF Fair, PairType
  <1>5. q \in PairType /\ q.first = Current.rtn.first + l.rtn.first
    BY <1>2, <1>4, UpdateType
  <1> HIDE DEF q
  <1>6. r \in PairType /\ r.first = q.first + a.rtn.first
    BY <1>4, <1>5, UpdateType
  <1> HIDE DEF r
  <1>7. r.first = Current.rtn.first + d /\ d \in Nat
    BY <1>4, <1>5, <1>6
  <1>8. sent'.size = sent.size + d
    BY <1>3, <1>4, SizeOfThen
  <1> HIDE DEF d
  <1>9. GoodCalls(calls') /\ calls' # <<>> /\ Balanced(calls', sent'.size)
    BY <1>1, <1>3, <1>6, <1>7, <1>8, AdvancedBalanced
  <1>10. sent'.size \in Nat
    BY <1>1, <1>7, <1>8 DEF Fields
  <1>11. Fields'
    BY <1>1, <1>3, <1>9, <1>10 DEF Fields
  <1>12. Counted'
    BY <1>1, <1>3, <1>9 DEF Counted, BytesCounted
  <1> QED
    BY <1>11, <1>12 DEF IInv

\* A key is counted in the activation that writes it, the opening of a
\* container in the one that is entered.
LEMMA AppendContainerInv ==
  ASSUME IInv, AppendContainer  PROVE IInv'
  <1>1. Fields /\ Counted /\ status = "writing" /\ More /\ Container(Member)
    BY DEF IInv, AppendContainer
  <1> DEFINE l == Label  o == Opening(Member)  r == update(l.rtn, Current.rtn)
             d == l.rtn.first
  <1>2. Fair(l) /\ Current.rtn \in PairType /\ Member \in Tree
    BY <1>1, MemberGood, LabelFair, CurrentGood, CallFields
  <1>3. PICK order \in Orders(Member) :
          calls' = Append(Advanced(r), Activation(Member, order))
    BY DEF AppendContainer
  <1>4. /\ sent' = Then(sent, Then(l.out, o.out)) /\ broken' \in {broken, TRUE}
        /\ status' = status /\ returned' = returned
    BY DEF AppendContainer, Write
  <1> DEFINE g == Activation(Member, order)
  <1>5. GoodCall(g) /\ g.val = Member /\ g.rtn = o.rtn
    BY <1>1, <1>2, ActivationGood
  <1>6. o.out.size = o.rtn.first - Pending(Member) /\ o.out.size \in Nat
    BY <1>1, <1>2, OpeningFair, OpeningSize
  <1> HIDE DEF l, o, g
  <1>7. d \in Nat /\ l.rtn \in PairType /\ l.out.size = d
    BY <1>2 DEF Fair, PairType
  <1>8. r \in PairType /\ r.first = Current.rtn.first + d
    BY <1>2, <1>7, UpdateType
  <1> HIDE DEF d, r
  <1> DEFINE cs == Advanced(r)
  <1>9. GoodCalls(cs) /\ Balanced(cs, sent.size + d)
    BY <1>1, <1>7, <1>8, AdvancedBalanced
  <1> HIDE DEF cs
  <1>10. sent.size \in Nat
    BY <1>1 DEF Fields
  <1>11. /\ GoodCalls(Append(cs, g)) /\ Append(cs, g) # <<>>
         /\ Balanced(Append(cs, g), (sent.size + d) + (g.rtn.first - Pending(g.val)))
    BY <1>5, <1>7, <1>9, <1>10, PushBalanced
  <1>12. calls' = Append(cs, g)
    BY <1>3 DEF cs, g
  <1>13. sent'.size = (sent.size + d) + o.out.size
    BY <1>4, <1>6, <1>7, <1>10, SizeOfThen
  <1>14. sent'.size \in Nat
    BY <1>6, <1>7, <1>10, <1>13
  <1>15. o.out.size = g.rtn.first - Pending(g.val)
    BY <1>5, <1>6
  <1>16. Balanced(calls', sent'.size)
    BY <1>11, <1>12, <1>13, <1>15
  <1>17. Fields'
    BY <1>1, <1>4, <1>11, <1>12, <1>14 DEF Fields
  <1>18. Counted'
    BY <1>1, <1>4, <1>11, <1>12, <1>16 DEF Counted, BytesCounted
  <1> QED
    BY <1>17, <1>18 DEF IInv

\* What a container has counted goes to the activation that asked for it.
LEMMA CloseInv ==
  ASSUME IInv, Close  PROVE IInv'
  <1>1. Fields /\ Counted /\ status = "writing"
    BY DEF IInv, Close
  <1> DEFINE c == Closing(Current.val, Current.rtn)  n == Deepest
             was == Current.rtn.first - Pending(Current.val)
  <1>2. GoodCall(Current) /\ n \in Nat /\ n >= 1
    BY <1>1, CurrentGood
  <1>3. /\ c.rtn \in PairType /\ c.out.size = 1
        /\ c.rtn.first = was + 1
    BY <1>2, CallFields, ClosingFair
  <1>4. sent' = Then(sent, c.out) /\ broken' \in {broken, TRUE}
    BY DEF Close, Write
  <1>5. Current.rtn.first \in Nat /\ Pending(Current.val) \in Int
    BY <1>2, CallFields, PendingType
  <1>6. was \in Int /\ sent.size \in Nat
    BY <1>1, <1>5 DEF Fields
  <1>7. sent'.size = sent.size + 1
    BY <1>3, <1>4, SizeOfThen
  <1>8. /\ calls # <<>> /\ GoodCalls(calls) /\ Balanced(calls, sent.size)
    BY <1>1, CurrentGood
  <1>9. CASE Deepest = 1
    <2>1. calls' = <<>> /\ status' = "returned" /\ returned' = c.rtn
      BY <1>9 DEF Close
    <2>2. sent.size = was
      BY <1>8, <1>9, LastBalanced DEF Deepest, Current
    <2> HIDE DEF c, was
    <2>3. returned'.first = sent'.size
      <3>1. returned'.first = was + 1
        BY <1>3, <2>1
      <3> QED
        BY <1>7, <2>2, <3>1
    <2>4. Fields'
      <3>1. status' = "returned" /\ broken' \in BOOLEAN /\ returned' \in PairType
        BY <1>1, <1>3, <1>4, <2>1 DEF Fields
      <3>2. status' = "writing" <=> calls' # <<>>
        BY <2>1
      <3>3. sent'.size \in Nat
        BY <1>6, <1>7
      <3> QED
        BY <3>1, <3>2, <3>3 DEF Fields
    <2>5. Counted'
      BY <2>1, <2>3, EmptyCalls DEF Counted, BytesCounted
    <2> QED
      BY <2>4, <2>5 DEF IInv
  <1>10. CASE Deepest > 1
    <2> DEFINE cs == Below(calls)  m == Len(cs)
               g == [cs[m] EXCEPT !.rtn = update(c.rtn, @)]
    <2>1. status' = status /\ returned' = returned
      BY <1>10, <1>2 DEF Close
    <2>2. calls' = [i \in 1..(n - 1) |->
                     IF i < n - 1 THEN calls[i]
                     ELSE [calls[i] EXCEPT !.rtn = update(c.rtn, @)]]
      BY <1>10, <1>2 DEF Close
    <2>3. GoodCalls(cs) /\ cs # <<>> /\ m = n - 1 /\ Balanced(cs, sent.size - was)
      BY <1>6, <1>8, <1>10, PopBalanced DEF Deepest, Current
    <2>4. cs = [i \in 1..(n - 1) |-> calls[i]]
      BY DEF Below, Deepest
    <2> HIDE DEF cs, c, was
    <2>5. m \in 1..m /\ GoodCall(cs[m])
      BY <1>2, <1>10, <2>3 DEF GoodCalls
    <2> DEFINE p == update(c.rtn, cs[m].rtn)
    <2>6. p \in PairType /\ p.first = cs[m].rtn.first + c.rtn.first /\ cs[m].rtn.first \in Nat
      BY <1>3, <2>5, CallFields, UpdateType
    <2>7. /\ g \in CallType /\ g.val = cs[m].val /\ g.order = cs[m].order
          /\ g.next = cs[m].next /\ g.rtn = p
      BY <2>5, <2>6 DEF GoodCall, CallType
    <2>8. calls' = [cs EXCEPT ![m] = g]
      <3>1. \A i \in 1..(n - 1) : cs[i] = calls[i]
        BY <2>4
      <3>2. \A i \in 1..(n - 1) : i < n - 1 \/ i = m
        BY <1>2, <2>3
      <3>3. g = [calls[m] EXCEPT !.rtn = update(c.rtn, @)]
        BY <1>2, <2>3, <2>5, <3>1
      <3> HIDE DEF g
      <3>4. calls' = [i \in 1..(n - 1) |-> IF i < n - 1 THEN calls[i] ELSE g]
        BY <2>2, <3>2, <3>3
      <3>5. \A i \in 1..(n - 1) : (i < n - 1) <=> (i # m)
        BY <1>2, <2>3
      <3> QED
        BY <2>4, <3>4, <3>5
    <2> HIDE DEF p, g
    <2>9. GoodCall(g)
      BY <2>5, <2>7 DEF GoodCall
    <2>10. c.rtn.first \in Int /\ g.rtn.first = cs[m].rtn.first + c.rtn.first
      BY <1>3, <1>6, <2>6, <2>7
    <2>11. sent.size - was \in Int
      BY <1>6
    <2>12. GoodCalls(calls') /\ calls' # <<>>
      BY <2>3, <2>8, <2>9, ReplaceGood
    <2>13. Balanced(calls', (sent.size - was) + c.rtn.first)
      BY <2>3, <2>7, <2>8, <2>9, <2>10, <2>11, ReplaceBalanced
    <2>14. (sent.size - was) + c.rtn.first = sent'.size
      <3>1. c.rtn.first = was + 1
        BY <1>3
      <3>2. (sent.size - was) + (was + 1) = sent.size + 1
        BY <1>6
      <3> QED
        BY <1>7, <3>1, <3>2
    <2>15. Fields'
      <3>1. /\ status' = "writing" /\ broken' \in BOOLEAN /\ returned' \in PairType
            /\ calls' # <<>>
        BY <1>1, <1>4, <2>1, <2>12 DEF Fields
      <3>2. sent'.size \in Nat
        BY <1>6, <1>7
      <3> QED
        BY <3>1, <3>2 DEF Fields
    <2>16. Counted'
      BY <1>1, <2>1, <2>12, <2>13, <2>14 DEF Counted, BytesCounted
    <2> QED
      BY <2>15, <2>16 DEF IInv
  <1> QED
    BY <1>2, <1>9, <1>10

LEMMA StepInv == IInv /\ [Next]_wvars => IInv'
  <1> SUFFICES ASSUME IInv, [Next]_wvars PROVE IInv'
    OBVIOUS
  <1>1. CASE \E v \in Values : WriteValue(v)
    BY <1>1, WriteValueInv
  <1>2. CASE ThrowKey
    BY <1>2, ThrowKeyInv
  <1>3. CASE AppendLeaf
    BY <1>3, AppendLeafInv
  <1>4. CASE AppendContainer
    BY <1>4, AppendContainerInv
  <1>5. CASE Close
    BY <1>5, CloseInv
  <1>6. CASE UNCHANGED wvars
    BY <1>6 DEF wvars, IInv, Fields, Counted, BytesCounted
  <1> QED
    BY <1>1, <1>2, <1>3, <1>4, <1>5, <1>6 DEF Next, Step

LEMMA AlwaysIInv == Spec => []IInv
  BY InitInv, StepInv, PTL DEF Spec

-----------------------------------------------------------------------------
\* The activations are well formed at every step: each is of a container, its
\* next member is one of the members or the end, and what it returns is a pair
\* (append_object and append_array, stream_writer.hpp:75-94 and 348-362).
THEOREM WriterTypeCorrect == Spec => []TypeOK
  <1>1. IInv => TypeOK
    <2> SUFFICES ASSUME IInv PROVE TypeOK
      OBVIOUS
    <2>1. Fields /\ GoodCalls(calls)
      BY DEF IInv, Counted
    <2>2. ASSUME NEW i \in 1..Len(calls)
          PROVE  /\ Container(calls[i].val)
                 /\ calls[i].next \in 1..(Len(calls[i].order) + 1)
                 /\ calls[i].rtn \in PairType
      <3>1. GoodCall(calls[i])
        BY <2>1 DEF GoodCalls
      <3> QED
        BY <3>1 DEF GoodCall, CallType
    <2> QED
      BY <2>1, <2>2 DEF TypeOK, Fields, PairType, Deepest
  <1> QED
    BY <1>1, AlwaysIInv, PTL

\* "Successfully wrote: result.first bytes" (README.md:120): for all Values, all
\* orders of the members of a Map and all widths of a size, the size writeValue
\* returns is the number of bytes it has handed to the stream.
THEOREM BytesAreCounted == Spec => []BytesCounted
  <1>1. IInv => BytesCounted
    BY DEF IInv, Counted
  <1> QED
    BY <1>1, AlwaysIInv, PTL
=============================================================================
