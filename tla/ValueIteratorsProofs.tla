------------------------ MODULE ValueIteratorsProofs ------------------------
(* Proofs about iterators, for any number of Values, elements and labels.      *)
EXTENDS ValueIterators, SequenceTheorems, FiniteSetTheorems, WellFoundedInduction, TLAPS

Stored == tag \in [Vals -> Tags] /\ elems \in [Vals -> Seq(Elems)]

\* What the rest of the invariant speaks of has its type.
Basics ==
  /\ tag \in [Vals -> Tags] /\ elems \in [Vals -> Seq(Elems)]
  /\ it \in Iterators \cup {NoIterator}
  /\ last \in Iterators \cup {NoIterator}
  /\ pc \in {"idle", "found", "test", "body"}
  /\ IF pc = "idle" THEN it = NoIterator ELSE it \in Iterators
  /\ pc \in {"test", "body"} => last \in Iterators /\ last.parent = it.parent

\* While a loop runs, or a result of find is kept: if its Value is a container
\* still, it is the one the iterators were made for, and they are in it.
Safe ==
  pc # "idle" =>
    /\ tag[it.parent] # "Dead"
    /\ Iterates(it) =>
         /\ Selected(it) \in PlacesIn(it.parent)
         /\ Selected(it).at \in Members(elems[it.parent]) \cup {End}
         /\ pc = "body" => Selected(it).at # End
         /\ pc \in {"test", "body"} => Selected(last) = Place(it.parent, End)

\* After a rough call, an iterator may be anywhere, and it is compared once more at
\* the most: nothing is said until the program is out of the loop.
IInv ==
  /\ Stored
  /\ pc = "idle" => tame
  /\ tame => Basics /\ Safe /\ ~ub

\* A set of positions that is not empty has a first one.
LEMMA First ==
  ASSUME NEW S \in SUBSET Nat, S # {}
  PROVE  \E n \in S : \A m \in S : n <= m
<1> DEFINE R == OpToRel(<, Nat)
<1>1. IsWellFoundedOn(R, Nat)
  BY NatLessThanWellFounded, Zenon
<1> HIDE DEF R
<1>2. PICK n \in S : \A m \in S : <<m, n>> \notin R
  BY <1>1, WFMin, Zenon
<1>3. \A m \in S : ~(m < n)
  BY <1>2 DEF R, OpToRel
<1> QED
  BY <1>3

-----------------------------------------------------------------------------
(* Iterators.                                                              *)

LEMMA MadeIterator ==
  ASSUME NEW c \in Vals, NEW x \in Elems \cup {End}
  PROVE  /\ Iterator(c, x) \in Iterators
         /\ Iterator(c, x).parent = c
         /\ Iterates(Iterator(c, x)) => Selected(Iterator(c, x)) = Place(c, x)
         /\ Place(c, x) \in PlacesIn(c)
         /\ Place(c, x).at = x
BY DEF Iterator, Iterators, Places, Place, PlacesIn, Iterates, Selected, Containers

LEMMA FoundIsMember ==
  ASSUME Stored, NEW c \in Vals, NEW l
  PROVE  Lookup(c, l) \in Members(elems[c]) \cup {End}
<1>1. ASSUME NEW k PROVE FirstWith(c, k) \in Members(elems[c]) \cup {End}
  <2> DEFINE hits == {n \in DOMAIN elems[c] : Label[elems[c][n]] = k}
  <2>1. hits \in SUBSET Nat /\ \A n \in hits : elems[c][n] \in Members(elems[c])
    BY DEF Stored, Members
  <2>2. hits # {} => (CHOOSE n \in hits : \A m \in hits : n <= m) \in hits
    <3> HIDE DEF hits
    <3>1. hits # {} => \E n \in hits : \A m \in hits : n <= m
      BY <2>1, First
    <3> QED
      BY <3>1
  <2>3. FirstWith(c, k) = IF hits = {} THEN End
                          ELSE elems[c][CHOOSE n \in hits : \A m \in hits : n <= m]
    BY DEF FirstWith
  <2> HIDE DEF hits
  <2> QED
    BY <2>1, <2>2, <2>3
<1> QED
  BY <1>1 DEF Lookup

LEMMA MembersAreElems ==
  ASSUME Stored, NEW c \in Vals
  PROVE  Members(elems[c]) \subseteq Elems
BY DEF Stored, Members

LEMMA AfterIsMember ==
  ASSUME Stored, NEW c \in Vals, NEW e \in Members(elems[c])
  PROVE  After(c, e) \in Members(elems[c]) \cup {End}
<1> DEFINE s == elems[c]
           n == CHOOSE n \in DOMAIN s : s[n] = e
<1>1. s \in Seq(Elems) /\ DOMAIN s = 1..Len(s) /\ Len(s) \in Nat
  BY DEF Stored
<1>2. n \in DOMAIN s
  BY DEF Members
<1>3. After(c, e) = IF n = Len(s) THEN End ELSE s[n + 1]
  BY DEF After
<1> HIDE DEF n
<1>4. n # Len(s) => n + 1 \in DOMAIN s
  BY <1>1, <1>2
<1> QED
  BY <1>3, <1>4 DEF Members

-----------------------------------------------------------------------------
(* Calls that change Values.                                               *)

LEMMA CarriedType ==
  ASSUME NEW i \in Iterators \cup {NoIterator}, NEW home \in [Vals -> Vals \cup {Lost}], NEW gone
  PROVE  /\ CarriedIterator(i, home, gone).parent = i.parent
         /\ CarriedIterator(i, home, gone).arr = Carried(i.arr, home, gone)
         /\ CarriedIterator(i, home, gone).map = Carried(i.map, home, gone)
         /\ i \in Iterators => CarriedIterator(i, home, gone) \in Iterators
         /\ i = NoIterator => CarriedIterator(i, home, gone) = NoIterator
<1>1. ASSUME NEW p \in Places \cup {Lost}
      PROVE  Carried(p, home, gone) \in Places \cup {Lost}
  BY DEF Carried, Places, Place
<1>2. Carried(Lost, home, gone) = Lost
  BY DEF Carried
<1>4. CarriedIterator(i, home, gone) =
        [parent |-> i.parent, arr |-> Carried(i.arr, home, gone), map |-> Carried(i.map, home, gone)]
  BY DEF CarriedIterator
<1>5. i \in Iterators => CarriedIterator(i, home, gone) \in Iterators
  BY <1>1, <1>4 DEF Iterators
<1>6. i = NoIterator => CarriedIterator(i, home, gone) = NoIterator
  BY <1>2, <1>4 DEF NoIterator
<1> QED
  BY <1>4, <1>5, <1>6

LEMMA SubSequences ==
  ASSUME NEW s \in Seq(Elems), NEW n \in 0..Len(s), NEW m \in 1..(Len(s) + 1)
  PROVE  SubSeq(s, 1, n) \in Seq(Elems) /\ SubSeq(s, m, Len(s)) \in Seq(Elems)
<1>1. \A i \in 1..Len(s) : s[i] \in Elems
  BY ElementOfSeq
<1> QED
  BY <1>1, SubSeqProperties

\* What is left when the nth element has gone.
LEMMA WithoutOne ==
  ASSUME NEW s \in Seq(Elems), NEW n \in DOMAIN s
  PROVE  /\ Without(s, n) \in Seq(Elems)
         /\ DOMAIN Without(s, n) = 1..(Len(s) - 1)
         /\ \A m \in 1..(Len(s) - 1) : Without(s, n)[m] = IF m < n THEN s[m] ELSE s[m + 1]
<1> DEFINE a == SubSeq(s, 1, n - 1)
           b == SubSeq(s, n + 1, Len(s))
<1>1. n \in 1..Len(s) /\ Len(s) \in Nat /\ DOMAIN s = 1..Len(s)
  BY LenProperties
<1>2. a \in Seq(Elems) /\ b \in Seq(Elems)
  <2> DEFINE i == n - 1
             j == n + 1
  <2>1. i \in 0..Len(s) /\ j \in 1..(Len(s) + 1)
    BY <1>1
  <2> HIDE DEF i, j
  <2>2. SubSeq(s, 1, i) \in Seq(Elems) /\ SubSeq(s, j, Len(s)) \in Seq(Elems)
    BY <2>1, SubSequences
  <2> QED
    BY <2>2 DEF i, j
<1>3. Len(a) = n - 1 /\ \A m \in 1..(n - 1) : a[m] = s[m]
  BY <1>1
<1>4. Len(b) = Len(s) - n /\ \A m \in 1..(Len(s) - n) : b[m] = s[m + n]
  BY <1>1
<1>5. Without(s, n) = a \o b
  BY DEF Without
<1> HIDE DEF a, b
<1>6. /\ a \o b \in Seq(Elems) /\ Len(a \o b) = Len(a) + Len(b)
      /\ \A m \in 1..Len(a) + Len(b) :
           (a \o b)[m] = IF m <= Len(a) THEN a[m] ELSE b[m - Len(a)]
  BY <1>2, ConcatProperties
<1>7. Len(a \o b) = Len(s) - 1
  BY <1>1, <1>3, <1>4, <1>6
<1>8. DOMAIN (a \o b) = 1..(Len(s) - 1)
  BY <1>6, <1>7, LenProperties
<1>9. ASSUME NEW m \in 1..(Len(s) - 1)
      PROVE  (a \o b)[m] = IF m < n THEN s[m] ELSE s[m + 1]
  <2>1. CASE m < n
    <3>1. m \in 1..(n - 1) /\ m <= Len(a) /\ m \in 1..Len(a) + Len(b)
      BY <1>1, <1>3, <1>4, <2>1
    <3> QED
      BY <1>3, <1>6, <2>1, <3>1
  <2>2. CASE ~(m < n)
    <3> DEFINE k == m - Len(a)
    <3>1. ~(m <= Len(a)) /\ m \in 1..Len(a) + Len(b)
          /\ k \in 1..(Len(s) - n) /\ k + n = m + 1
      BY <1>1, <1>3, <1>4, <2>2
    <3> HIDE DEF k
    <3>2. (a \o b)[m] = b[k]
      BY <1>6, <3>1 DEF k
    <3>3. b[k] = s[m + 1]
      BY <1>4, <3>1
    <3> QED
      BY <2>2, <3>2, <3>3
  <2> QED
    BY <2>1, <2>2
<1> QED
  BY <1>5, <1>6, <1>8, <1>9

\* The others are there still.
LEMMA WithoutKeeps ==
  ASSUME NEW s \in Seq(Elems), NEW n \in DOMAIN s, NEW m \in DOMAIN s, m # n
  PROVE  s[m] \in Members(Without(s, n))
<1>1. n \in 1..Len(s) /\ m \in 1..Len(s) /\ Len(s) \in Nat
  BY LenProperties
<1>2. CASE m < n
  <2>1. m \in 1..(Len(s) - 1)
    BY <1>1, <1>2
  <2> QED
    BY <1>2, <2>1, WithoutOne DEF Members
<1>3. CASE n < m
  <2> DEFINE k == m - 1
  <2>1. k \in 1..(Len(s) - 1) /\ ~(k < n) /\ k + 1 = m
    BY <1>1, <1>3
  <2> HIDE DEF k
  <2> QED
    BY <2>1, WithoutOne DEF Members
<1> QED
  BY <1>1, <1>2, <1>3

\* The Value of the loop has its elements still, but for one that the iterator is
\* not at.
Fewer ==
  \/ elems'[it.parent] = elems[it.parent]
  \/ \E n \in DOMAIN elems[it.parent] :
       /\ elems[it.parent][n] # Selected(it).at
       /\ elems'[it.parent] = Without(elems[it.parent], n)

\* The Value of the loop keeps its content, and the iterators theirs.
Kept(home, gone) ==
  /\ tag'[it.parent] = tag[it.parent] /\ home[it.parent] = it.parent
  /\ Place(it.parent, End) \notin gone /\ Selected(it) \notin gone
  /\ Fewer

\* What a call in the body of a tame loop does to the loop, unless it takes the
\* container away.
Undisturbed ==
  tame' /\ pc # "idle" /\ Iterates(it)' =>
    /\ Iterates(it) /\ it'.parent = it.parent
    /\ tag'[it.parent] = tag[it.parent] /\ Selected(it)' = Selected(it)
    /\ Fewer

LEMMA FewerKeeps ==
  ASSUME Stored, it.parent \in Vals, Fewer,
         Selected(it).at \in Members(elems[it.parent])
  PROVE  Selected(it).at \in Members(elems'[it.parent])
<1>1. elems[it.parent] \in Seq(Elems)
  BY DEF Stored
<1>2. PICK m \in DOMAIN elems[it.parent] : elems[it.parent][m] = Selected(it).at
  BY DEF Members
<1>3. ASSUME NEW n \in DOMAIN elems[it.parent],
             elems[it.parent][n] # Selected(it).at,
             elems'[it.parent] = Without(elems[it.parent], n)
      PROVE  Selected(it).at \in Members(elems'[it.parent])
  BY <1>1, <1>2, <1>3, WithoutKeeps
<1> QED
  BY <1>3 DEF Fewer

LEMMA CallKeeps ==
  ASSUME IInv, Calls, NEW home \in [Vals -> Vals \cup {Lost}], NEW gone, Carry(home, gone),
         tag' \in [Vals -> Tags], elems' \in [Vals -> Seq(Elems)],
         pc = "idle" => tame',
         tame' /\ pc # "idle" =>
           \/ tag'[it.parent] \notin Containers \cup {"Dead"}
           \/ Iterates(it) /\ Kept(home, gone)
           \/ ~Iterates(it) /\ tag'[it.parent] = tag[it.parent]
  PROVE  IInv' /\ Undisturbed
<1>0. Stored /\ Basics /\ tame /\ pc' = pc /\ ub' = ub /\ ~ub /\ pc # "test"
  BY DEF IInv, Calls, Calling
<1>1. /\ it' = CarriedIterator(it, home, gone)
      /\ last' = CarriedIterator(last, home, gone)
      /\ it \in Iterators \cup {NoIterator} /\ last \in Iterators \cup {NoIterator}
  BY <1>0 DEF Carry, Basics
<1>2. /\ it'.parent = it.parent /\ last'.parent = last.parent
      /\ it'.arr = Carried(it.arr, home, gone) /\ it'.map = Carried(it.map, home, gone)
      /\ last'.arr = Carried(last.arr, home, gone) /\ last'.map = Carried(last.map, home, gone)
  BY <1>1, CarriedType
<1>3. /\ it \in Iterators => it' \in Iterators
      /\ it = NoIterator => it' = NoIterator
      /\ last \in Iterators => last' \in Iterators
      /\ last = NoIterator => last' = NoIterator
  BY <1>1, CarriedType
<1>4. Basics'
  BY <1>0, <1>1, <1>2, <1>3 DEF Basics
<1>6. ASSUME tame', pc # "idle"
      PROVE  Safe' /\ (Iterates(it)' => Iterates(it) /\ Selected(it)' = Selected(it)
                         /\ tag'[it.parent] = tag[it.parent] /\ Fewer)
  <2>0. Safe /\ it \in Iterators /\ it.parent \in Vals
    BY <1>0, <1>6 DEF IInv, Basics, Iterators
  <2>1. CASE tag'[it.parent] \notin Containers \cup {"Dead"}
    BY <1>2, <2>1 DEF Safe, Iterates
  <2>2. CASE ~Iterates(it) /\ tag'[it.parent] = tag[it.parent]
    BY <1>0, <1>2, <1>6, <2>0, <2>2 DEF Safe, Iterates
  <2>3. CASE Iterates(it) /\ Kept(home, gone)
    <3>1. /\ Selected(it) \in PlacesIn(it.parent)
          /\ Selected(it).at \in Members(elems[it.parent]) \cup {End}
          /\ pc = "body" => Selected(it).at # End
          /\ pc = "body" => Selected(last) = Place(it.parent, End) /\ last.parent = it.parent
      BY <1>0, <1>6, <2>0, <2>3 DEF Safe, Basics
    <3>2. ASSUME NEW p \in PlacesIn(it.parent), p \notin gone
          PROVE  Carried(p, home, gone) = p
      <4>1. p.home = it.parent /\ p # Lost
        BY <2>0, NameAssumption DEF PlacesIn, Place
      <4> QED
        BY <2>3, <3>2, <4>1 DEF Carried, Kept
    <3>3. Selected(it)' = Carried(Selected(it), home, gone)
      BY <1>2, <2>3 DEF Selected, Kept
    <3>4. Selected(it)' = Selected(it)
      BY <2>3, <3>1, <3>2, <3>3 DEF Kept
    <3>5. pc = "body" => Selected(last)' = Carried(Selected(last), home, gone)
      BY <1>2, <2>3, <3>1 DEF Selected, Kept
    <3>6. Place(it.parent, End) \in PlacesIn(it.parent)
      BY DEF PlacesIn
    <3>7. pc = "body" => Selected(last)' = Place(it.parent, End)
      BY <2>3, <3>1, <3>2, <3>5, <3>6 DEF Kept
    <3>8. Selected(it)'.at \in Members(elems'[it.parent]) \cup {End}
      BY <1>0, <2>0, <2>3, <3>1, <3>4, FewerKeeps DEF Kept
    <3>9. tag'[it.parent] # "Dead"
      BY <2>0, <2>3, <1>6 DEF Safe, Kept
    <3> QED
      BY <1>0, <1>2, <2>3, <3>1, <3>4, <3>7, <3>8, <3>9 DEF Safe, Kept
  <2> QED
    BY <1>6, <2>1, <2>2, <2>3
<1>7. pc = "idle" => Safe'
  BY <1>0 DEF Safe
<1>8. Undisturbed
  BY <1>2, <1>6 DEF Undisturbed
<1> QED
  BY <1>0, <1>4, <1>6, <1>7, <1>8 DEF IInv, Stored

LEMMA StayType == Stay \in [Vals -> Vals \cup {Lost}] /\ \A c \in Vals : Stay[c] = c
BY DEF Stay

\* A call on one Value, which is the loop's or is not.
LEMMA BecomeKeeps ==
  ASSUME IInv, Calls, NEW c \in Vals, NEW t \in Tags, NEW s \in Seq(Elems),
         NEW gone \in SUBSET PlacesIn(c), Become(c, t, s), Invalidate(gone), Judge({c})
  PROVE  IInv' /\ Undisturbed
<1>1. Basics /\ tame /\ Carry(Stay, gone)
  BY DEF IInv, Invalidate, Calls, Calling
<1>2. tag' \in [Vals -> Tags] /\ elems' \in [Vals -> Seq(Elems)]
      /\ \A d \in Vals \ {c} : tag'[d] = tag[d] /\ elems'[d] = elems[d]
  BY <1>1 DEF Become, Basics
<1>3. tame' => tame /\ ~(it.parent = c /\ tag'[it.parent] \in Containers \cup {"Dead"})
  BY DEF Judge
<1>4. ASSUME tame', pc # "idle", it.parent # c, Iterates(it)
      PROVE  Kept(Stay, gone)
  <2>1. it.parent \in Vals /\ Selected(it) \in PlacesIn(it.parent)
    BY <1>1, <1>3, <1>4 DEF IInv, Safe, Basics, Iterators
  <2>2. \A p \in gone : p.home = c
    BY DEF PlacesIn, Place
  <2>3. Selected(it).home = it.parent /\ Place(it.parent, End).home = it.parent
    BY <2>1 DEF PlacesIn, Place
  <2> QED
    BY <1>2, <1>4, <2>1, <2>2, <2>3, StayType DEF Kept, Fewer
<1>5. pc # "idle" => it.parent \in Vals
  BY <1>1 DEF Basics, Iterators
<1>6. pc = "idle" => tame'
  <2>1. pc = "idle" => it.parent # c
    BY <1>1, NameAssumption DEF Basics, NoIterator
  <2> QED
    BY <1>1, <2>1 DEF Judge
<1> QED
  BY <1>1, <1>2, <1>3, <1>4, <1>5, <1>6, StayType, CallKeeps

LEMMA OrdersAreSequences ==
  ASSUME NEW S \in SUBSET Elems, NEW s \in Orders(S)
  PROVE  s \in Seq(Elems)
<1>1. IsFiniteSet(S)
  BY SizeAssumption, FS_Subset
<1>2. Cardinality(S) \in Nat
  BY <1>1, FS_CardinalityType
<1>3. s \in [1..Cardinality(S) -> Elems]
  BY DEF Orders
<1> QED
  BY <1>2, <1>3, SeqDef

LEMMA IndexIsThere ==
  ASSUME Stored, NEW c \in Vals, NEW e \in Members(elems[c])
  PROVE  IndexOf(c, e) \in DOMAIN elems[c] /\ elems[c][IndexOf(c, e)] = e
<1>1. \E n \in DOMAIN elems[c] : elems[c][n] = e
  BY DEF Members
<1> QED
  BY <1>1 DEF IndexOf

LEMMA RemoveKeeps ==
  ASSUME IInv, NEW c \in Vals, NEW l \in Labels, Remove(c, l)
  PROVE  IInv' /\ Undisturbed
<1> DEFINE e == Lookup(c, l)
           s == Without(elems[c], IndexOf(c, e))
<1>0. Basics /\ Stored /\ tag[c] \in Containers /\ Calls /\ elems[c] \in Seq(Elems)
      /\ tag[c] \in Tags
  BY DEF IInv, Remove, Basics, Calls, Calling
<1>1. e \in Members(elems[c])
  BY <1>0, FoundIsMember DEF Remove
<1>2. IndexOf(c, e) \in DOMAIN elems[c] /\ elems[c][IndexOf(c, e)] = e
  BY <1>0, <1>1, IndexIsThere
<1>3. s \in Seq(Elems) /\ \A x \in Members(elems[c]) \ {e} : x \in Members(s)
  BY <1>0, <1>2, WithoutOne, WithoutKeeps DEF Members
<1>4. Become(c, tag[c], s) /\ Invalidate(Erased(c, e))
      /\ Judge(IF tag[c] = "Map" /\ it.map # Place(c, e) THEN {} ELSE {c})
  BY DEF Remove
<1>5. e \in Elems
  BY <1>0, <1>1, MembersAreElems
<1>6. Erased(c, e) \in SUBSET PlacesIn(c)
  <2>1. \A n \in IndexOf(c, e)..Len(elems[c]) : elems[c][n] \in Elems
    BY <1>0, <1>2
  <2>2. Place(c, End) \in PlacesIn(c) /\ \A x \in Elems : Place(c, x) \in PlacesIn(c)
    BY DEF PlacesIn
  <2> HIDE DEF e
  <2> QED
    BY <1>5, <2>1, <2>2 DEF Erased
<1> HIDE DEF e, s
<1>7. CASE ~(tag[c] = "Map" /\ it.map # Place(c, e))
  <2>1. Judge({c})
    BY <1>4, <1>7
  <2> QED
    BY <1>0, <1>3, <1>4, <1>6, <2>1, BecomeKeeps
<1>8. CASE tag[c] = "Map" /\ it.map # Place(c, e)
  <2>1. tame /\ tame'
    BY <1>0, <1>4, <1>8 DEF Judge, Calls, Calling
  <2>2. Erased(c, e) = {Place(c, e)}
    BY <1>8 DEF Erased
  <2>3. tag' = tag /\ tag' \in [Vals -> Tags]
    BY <1>0, <1>4 DEF Become, Basics
  <2>4. elems' \in [Vals -> Seq(Elems)] /\ elems'[c] = s
        /\ \A d \in Vals \ {c} : elems'[d] = elems[d]
    BY <1>0, <1>3, <1>4 DEF Become, Basics
  <2>5. ASSUME tame', pc # "idle", Iterates(it) PROVE Kept(Stay, Erased(c, e))
    <3>1. it.parent \in Vals /\ Selected(it) \in PlacesIn(it.parent)
      BY <1>0, <2>1, <2>5 DEF IInv, Safe, Basics, Iterators
    <3>2. Selected(it).home = it.parent
      BY <3>1 DEF PlacesIn, Place
    <3>3. Selected(it) # Place(c, e)
      BY <1>8, <3>2 DEF Selected, Place
    <3>4. Place(it.parent, End) # Place(c, e)
      BY <1>5, NameAssumption DEF Place
    <3>5. Fewer
      <4>1. CASE it.parent # c
        BY <2>4, <3>1, <4>1 DEF Fewer
      <4>2. CASE it.parent = c
        <5>1. Selected(it).at # e
          BY <3>1, <3>3, <4>2 DEF PlacesIn, Place
        <5>2. elems[c][IndexOf(c, e)] # Selected(it).at
          BY <1>2, <5>1
        <5> QED
          BY <1>2, <2>4, <4>2, <5>2 DEF Fewer, s
      <4> QED
        BY <4>1, <4>2
    <3> QED
      BY <2>2, <2>3, <3>1, <3>3, <3>4, <3>5, StayType DEF Kept
  <2>6. Carry(Stay, Erased(c, e))
    BY <1>4 DEF Invalidate
  <2>7. tame' /\ pc # "idle" =>
           \/ tag'[it.parent] \notin Containers \cup {"Dead"}
           \/ Iterates(it) /\ Kept(Stay, Erased(c, e))
           \/ ~Iterates(it) /\ tag'[it.parent] = tag[it.parent]
    BY <2>3, <2>5
  <2> QED
    BY <1>0, <2>1, <2>3, <2>4, <2>6, <2>7, StayType, CallKeeps
<1> QED
  BY <1>7, <1>8

LEMMA AssignKeeps ==
  ASSUME IInv, NEW c \in Vals,
         AssignLeaf(c) \/ AssignContainer(c) \/ Destroy(c) \/ Construct(c)
  PROVE  IInv' /\ Undisturbed
<1>0. Calls /\ Judge({c}) /\ <<>> \in Seq(Elems)
      /\ PlacesIn(c) \in SUBSET PlacesIn(c) /\ {} \in SUBSET PlacesIn(c)
  BY DEF AssignLeaf, AssignContainer, Destroy, Construct
<1>1. CASE AssignLeaf(c)
  <2>1. PICK t \in {"Null", "Leaf"} : Become(c, t, <<>>) /\ Invalidate(PlacesIn(c))
    BY <1>1 DEF AssignLeaf
  <2>2. t \in Tags
    BY DEF Tags
  <2> QED
    BY <1>0, <2>1, <2>2, BecomeKeeps
<1>2. CASE AssignContainer(c)
  <2>1. PICK t \in Containers, S \in SUBSET Unused({c}) :
          (\E s \in Orders(S) : Become(c, t, s)) /\ Invalidate(PlacesIn(c))
    BY <1>2 DEF AssignContainer
  <2>2. PICK s \in Orders(S) : Become(c, t, s)
    BY <2>1
  <2>3. t \in Tags /\ S \in SUBSET Elems
    BY DEF Tags, Unused
  <2>4. s \in Seq(Elems)
    BY <2>3, OrdersAreSequences
  <2> QED
    BY <1>0, <2>1, <2>2, <2>3, <2>4, BecomeKeeps
<1>3. CASE Destroy(c)
  <2>1. Become(c, "Dead", <<>>) /\ Invalidate(PlacesIn(c))
    BY <1>3 DEF Destroy
  <2>2. "Dead" \in Tags
    BY DEF Tags
  <2> QED
    BY <1>0, <2>1, <2>2, BecomeKeeps
<1>4. CASE Construct(c)
  <2>1. Become(c, "Null", <<>>) /\ Invalidate({})
    BY <1>4 DEF Construct
  <2>2. "Null" \in Tags
    BY DEF Tags
  <2> QED
    BY <1>0, <2>1, <2>2, BecomeKeeps
<1> QED
  BY <1>1, <1>2, <1>3, <1>4

LEMMA GrowKeeps ==
  ASSUME IInv, NEW c \in Vals, PushBack(c) \/ PushBackWraps(c) \/ IndexKey(c)
  PROVE  IInv' /\ Undisturbed
<1>0. /\ Calls /\ Judge({c}) /\ elems[c] \in Seq(Elems)
      /\ "Array" \in Tags /\ "Map" \in Tags
      /\ PlacesIn(c) \in SUBSET PlacesIn(c) /\ {} \in SUBSET PlacesIn(c)
      /\ {Place(c, End)} \in SUBSET PlacesIn(c)
  BY DEF PushBack, PushBackWraps, IndexKey, IInv, Stored, Tags, Containers, PlacesIn
<1>1. CASE PushBack(c)
  <2>1. PICK e \in Unused({}), gone \in {PlacesIn(c), {Place(c, End)}} :
          Become(c, "Array", Append(elems[c], e)) /\ Invalidate(gone)
    BY <1>1 DEF PushBack
  <2>2. e \in Elems
    BY DEF Unused
  <2>3. Append(elems[c], e) \in Seq(Elems)
    BY <1>0, <2>2, AppendProperties
  <2> QED
    BY <1>0, <2>1, <2>3, BecomeKeeps
<1>2. CASE PushBackWraps(c)
  <2>1. PICK e \in Unused({c}), f \in Unused({c}) :
          Become(c, "Array", <<f, e>>)
    BY <1>2 DEF PushBackWraps
  <2>2. Invalidate(PlacesIn(c))
    BY <1>2 DEF PushBackWraps
  <2>3. <<f, e>> \in Seq(Elems)
    BY DEF Unused
  <2> QED
    BY <1>0, <2>1, <2>2, <2>3, BecomeKeeps
<1>3. CASE IndexKey(c)
  <2>1. PICK e \in Unused({}) :
       \/ \E n \in 0..Len(elems[c]) :
               /\ Become(c, "Map",
                    SubSeq(elems[c], 1, n) \o <<e>> \o SubSeq(elems[c], n + 1, Len(elems[c])))
               /\ Invalidate({})
       \/ \E s \in Orders(Members(elems[c]) \cup {e}) :
               Become(c, "Map", s) /\ Invalidate(PlacesIn(c))
    BY <1>3 DEF IndexKey
  <2>2. e \in Elems /\ Members(elems[c]) \subseteq Elems
    BY <1>0, MembersAreElems DEF Unused, IInv, Calls, Calling
  <2>3. ASSUME NEW n \in 0..Len(elems[c]),
               Become(c, "Map",
                 SubSeq(elems[c], 1, n) \o <<e>> \o SubSeq(elems[c], n + 1, Len(elems[c]))),
               Invalidate({})
        PROVE  IInv' /\ Undisturbed
    <3> DEFINE j == n + 1
               front == SubSeq(elems[c], 1, n)
               back == SubSeq(elems[c], j, Len(elems[c]))
    <3>1. j \in 1..(Len(elems[c]) + 1)
      BY <1>0, <2>3
    <3> HIDE DEF j
    <3>2. front \in Seq(Elems) /\ back \in Seq(Elems)
      BY <1>0, <3>1, SubSequences
    <3> HIDE DEF front, back
    <3>3. front \o <<e>> \o back \in Seq(Elems)
      BY <2>2, <3>2, ConcatProperties
    <3>4. Become(c, "Map", front \o <<e>> \o back)
      BY <2>3 DEF front, back, j
    <3> QED
      BY <1>0, <2>3, <3>3, <3>4, BecomeKeeps
  <2>4. ASSUME NEW s \in Orders(Members(elems[c]) \cup {e}),
               Become(c, "Map", s), Invalidate(PlacesIn(c))
        PROVE  IInv' /\ Undisturbed
    <3>1. s \in Seq(Elems)
      BY <2>2, OrdersAreSequences
    <3> QED
      BY <1>0, <2>4, <3>1, BecomeKeeps
  <2> QED
    BY <2>1, <2>3, <2>4
<1> QED
  BY <1>1, <1>2, <1>3

\* Two Values change places, or one takes the other's content.
LEMMA TransferKeeps ==
  ASSUME IInv, NEW c \in Vals, NEW d \in Vals, Move(c, d) \/ Swap(c, d)
  PROVE  IInv' /\ Undisturbed
<1>0. Calls /\ tame /\ Basics /\ Judge({c, d}) /\ tag \in [Vals -> Tags] /\ elems \in [Vals -> Seq(Elems)]
      /\ "Null" \in Tags /\ <<>> \in Seq(Elems)
  BY DEF Move, Swap, IInv, Basics, Tags, Calls, Calling
<1>1. tag' \in [Vals -> Tags]
  BY <1>0 DEF Move, Swap
<1>2. elems' \in [Vals -> Seq(Elems)]
  BY <1>0 DEF Move, Swap
<1>3. \A x \in Vals \ {c, d} : tag'[x] = tag[x] /\ elems'[x] = elems[x]
  BY <1>0 DEF Move, Swap
<1>4. PICK home \in [Vals -> Vals \cup {Lost}] :
        Carry(home, {}) /\ \A x \in Vals \ {c, d} : home[x] = x
  <2>1. CASE Move(c, d)
    <3> DEFINE home == [Stay EXCEPT ![c] = Lost, ![d] = c]
    <3>1. home \in [Vals -> Vals \cup {Lost}] /\ \A x \in Vals \ {c, d} : home[x] = x
      BY StayType
    <3>2. Carry(home, {})
      BY <2>1 DEF Move
    <3> HIDE DEF home
    <3> QED
      BY <3>1, <3>2
  <2>2. CASE Swap(c, d)
    <3> DEFINE home == [Stay EXCEPT ![c] = d, ![d] = c]
    <3>1. home \in [Vals -> Vals \cup {Lost}] /\ \A x \in Vals \ {c, d} : home[x] = x
      BY StayType
    <3>2. Carry(home, {})
      BY <2>2 DEF Swap
    <3> HIDE DEF home
    <3> QED
      BY <3>1, <3>2
  <2> QED
    BY <2>1, <2>2
<1>5. tame' => tame /\ ~(it.parent \in {c, d} /\ tag'[it.parent] \in Containers \cup {"Dead"})
  BY <1>0 DEF Judge
<1>6. pc # "idle" => it.parent \in Vals
  BY <1>0 DEF Basics, Iterators
<1>7. ASSUME pc # "idle", it.parent \notin {c, d} PROVE Kept(home, {})
  BY <1>3, <1>4, <1>6, <1>7 DEF Kept, Fewer
<1>8. tame' /\ pc # "idle" =>
           \/ tag'[it.parent] \notin Containers \cup {"Dead"}
           \/ Iterates(it) /\ Kept(home, {})
           \/ ~Iterates(it) /\ tag'[it.parent] = tag[it.parent]
  BY <1>5, <1>7 DEF Kept
<1>9. pc = "idle" => tame'
  <2>1. pc = "idle" => it.parent \notin {c, d}
    BY <1>0, NameAssumption DEF Basics, NoIterator
  <2> QED
    BY <1>0, <2>1 DEF Judge
<1> QED
  BY <1>0, <1>1, <1>2, <1>4, <1>8, <1>9, CallKeeps

-----------------------------------------------------------------------------
(* The loop.                                                               *)

LEMMA BeginKeeps ==
  ASSUME IInv, NEW c \in Vals, ForEach(c) \/ \E l \in Labels : Find(c, l)
  PROVE  IInv'
<1>0. Basics /\ Stored /\ tame /\ ~ub /\ tag[c] # "Dead" /\ tag' = tag /\ elems' = elems /\ ub' = ub
      /\ tame' = tame /\ elems[c] \in Seq(Elems)
  BY DEF IInv, Stored, ForEach, Find, store
<1>1. PICK x \in Members(elems[c]) \cup {End} : it' = Iterator(c, x)
  <2>1. CASE ForEach(c)
    <3>1. elems[c] # <<>> => elems[c][1] \in Members(elems[c])
      BY <1>0 DEF Members
    <3> QED
      BY <2>1, <3>1 DEF ForEach, begin
  <2>2. CASE \E l \in Labels : Find(c, l)
    <3>1. PICK l \in Labels : Find(c, l)
      BY <2>2
    <3>2. Lookup(c, l) \in Members(elems[c]) \cup {End}
      BY <1>0, FoundIsMember
    <3> QED
      BY <3>1, <3>2 DEF Find, find, At, end
  <2> QED
    BY <2>1, <2>2
<1>2. x \in Elems \cup {End}
  BY <1>0, MembersAreElems
<1>3. last' = Iterator(c, End) /\ pc' \in {"test", "found"}
  BY DEF ForEach, Find, end
<1>4. /\ it' \in Iterators /\ it'.parent = c
      /\ Iterates(it') => Selected(it') = Place(c, x)
      /\ Place(c, x) \in PlacesIn(c) /\ Place(c, x).at = x
      /\ last' \in Iterators /\ last'.parent = c
      /\ Iterates(last') => Selected(last') = Place(c, End)
  BY <1>0, <1>1, <1>2, <1>3, MadeIterator
<1>5. Basics'
  BY <1>0, <1>3, <1>4 DEF Basics
<1>6. Safe'
  BY <1>0, <1>3, <1>4 DEF Safe, Iterates, Selected
<1> QED
  BY <1>0, <1>3, <1>5, <1>6 DEF IInv, Stored

\* After a rough call.
LEMMA RoughLoopKeeps ==
  ASSUME IInv, LoopStep, ~tame
  PROVE  IInv'
<1>0. Stored' /\ pc # "idle"
  BY DEF IInv, Stored, LoopStep, UseFound, Enter, Finish, Advance, Leave, Crash, store
<1>1. CASE Finish \/ Leave
  <2>1. Idle /\ ub' = ub /\ ~ub
    BY <1>1 DEF Finish, Leave
  <2> QED
    BY <1>0, <2>1 DEF IInv, Stored, Basics, Safe, Idle
<1>2. CASE UseFound \/ Enter \/ Advance \/ Crash
  <2>1. tame' = tame /\ pc' # "idle"
    BY <1>0, <1>2 DEF UseFound, Enter, Advance, Crash
  <2> QED
    BY <1>0, <2>1 DEF IInv
<1> QED
  BY <1>1, <1>2 DEF LoopStep

LEMMA LoopKeeps ==
  ASSUME IInv, LoopStep, tame
  PROVE  IInv'
<1>0. Basics /\ Stored /\ ~ub /\ Safe
  BY DEF IInv
<1>1. CASE UseFound
  <2>0. it \in Iterators /\ it.parent \in Vals /\ pc = "found"
        /\ tag' = tag /\ elems' = elems /\ it' = it /\ tame' = tame
    BY <1>0, <1>1 DEF UseFound, Basics, Iterators, store
  <2>1. tag[it.parent] # "Dead"
    BY <1>0, <2>0 DEF Safe
  <2>2. last' = Iterator(it.parent, End) /\ pc' = "test" /\ ub' = ub
    BY <1>1, <2>1 DEF UseFound, end
  <2>3. /\ last' \in Iterators /\ last'.parent = it.parent
        /\ Iterates(last') => Selected(last') = Place(it.parent, End)
    BY <1>0, <2>0, <2>2, MadeIterator
  <2>4. Basics'
    BY <1>0, <2>0, <2>2, <2>3 DEF Basics
  <2>5. Safe'
    BY <1>0, <2>0, <2>1, <2>2, <2>3 DEF Safe, Iterates, Selected
  <2> QED
    BY <1>0, <2>0, <2>2, <2>4, <2>5 DEF IInv, Stored
<1>2. CASE Enter
  <2>0. /\ pc = "test" /\ pc' = "body" /\ ~Equal(it, last)
        /\ tag' = tag /\ elems' = elems /\ it' = it /\ last' = last /\ tame' = tame /\ ub' = ub
    BY <1>2 DEF Enter, store
  <2>1. Basics'
    BY <1>0, <2>0 DEF Basics
  <2>2. Safe'
    <3>1. SUFFICES ASSUME Iterates(it) PROVE Selected(it).at # End
      BY <1>0, <2>0 DEF Safe, Iterates, Selected
    <3>2. last.parent = it.parent /\ Selected(last) = Place(it.parent, End)
          /\ Selected(it) \in PlacesIn(it.parent)
      BY <1>0, <2>0, <3>1 DEF Safe, Basics
    <3>3. Selected(it) # Selected(last)
      BY <2>0, <3>2 DEF Equal
    <3> QED
      BY <3>2, <3>3 DEF PlacesIn, Place
  <2> QED
    BY <1>0, <2>0, <2>1, <2>2 DEF IInv, Stored
<1>3. CASE Finish \/ Leave
  <2>1. Idle /\ tag' = tag /\ elems' = elems /\ ub' = ub /\ ~ub
    BY <1>3 DEF Finish, Leave, store
  <2> QED
    BY <1>0, <2>1 DEF IInv, Stored, Basics, Safe, Idle
<1>4. CASE Advance
  <2>0. /\ pc = "body" /\ pc' = "test" /\ it' = Increment(it) /\ Dereferenceable(it)
        /\ tag' = tag /\ elems' = elems /\ last' = last /\ tame' = tame /\ ub' = ub /\ ~ub
        /\ it \in Iterators /\ it.parent \in Vals /\ last \in Iterators
        /\ last.parent = it.parent
    BY <1>0, <1>4 DEF Advance, store, Basics, Iterators
  <2>1. CASE ~Iterates(it)
    <3>1. it' = it
      BY <2>0, <2>1 DEF Increment
    <3>2. Basics'
      BY <1>0, <2>0, <3>1 DEF Basics
    <3>3. Safe'
      BY <1>0, <2>0, <2>1, <3>1 DEF Safe, Iterates
    <3> QED
      BY <1>0, <2>0, <3>2, <3>3 DEF IInv, Stored
  <2>2. CASE Iterates(it)
    <3> DEFINE p == Selected(it)
               q == Place(it.parent, After(it.parent, p.at))
    <3>1. p \in PlacesIn(it.parent) /\ p.at \in Members(elems[it.parent])
          /\ Selected(last) = Place(it.parent, End)
      BY <1>0, <2>0, <2>2 DEF Safe
    <3>2. p.home = it.parent
      BY <3>1 DEF PlacesIn, Place
    <3>3. Increment(it) = IF tag[it.parent] = "Array" THEN [it EXCEPT !.arr = q]
                          ELSE [it EXCEPT !.map = q]
      BY <2>2, <3>2 DEF Increment, Selected, Step
    <3>4. q.at \in Members(elems[it.parent]) \cup {End} /\ q.home = it.parent
          /\ q = Place(it.parent, q.at)
      BY <1>0, <2>0, <3>1, AfterIsMember DEF Place
    <3>5. q.at \in Elems \cup {End}
      BY <1>0, <2>0, <3>4, MembersAreElems
    <3>6. q \in Places /\ q \in PlacesIn(it.parent)
      BY <2>0, <3>4, <3>5 DEF Places, Place, PlacesIn
    <3> HIDE DEF p, q
    <3>7. /\ it' \in Iterators /\ it'.parent = it.parent
          /\ tag[it.parent] = "Array" => it'.arr = q
          /\ tag[it.parent] # "Array" => it'.map = q
      BY <2>0, <3>3, <3>6 DEF Iterators
    <3>8. Basics'
      BY <1>0, <2>0, <3>7 DEF Basics
    <3>9. Selected(it') = q /\ it'.parent = it.parent
      BY <3>7 DEF Selected
    <3>10. Safe'
      <4>1. Selected(it)' = q /\ Selected(last)' = Place(it.parent, End)
        BY <2>0, <3>1, <3>7 DEF Selected
      <4>2. tag'[it'.parent] # "Dead"
        BY <1>0, <2>0, <3>7 DEF Safe
      <4> QED
        BY <2>0, <3>4, <3>6, <3>7, <4>1, <4>2 DEF Safe
    <3> QED
      BY <1>0, <2>0, <3>8, <3>10 DEF IInv, Stored
  <2> QED
    BY <2>1, <2>2
<1>5. CASE Crash
  <2>1. Undefined
    BY <1>5 DEF Crash
  <2>2. pc \in {"test", "body"} => it.parent \in Vals /\ last.parent = it.parent
    BY <1>0 DEF Basics, Iterators
  <2>3. CASE pc = "test"
    <3>1. Iterates(it) => Selected(it) \in PlacesIn(it.parent)
                          /\ Selected(last) = Place(it.parent, End)
      BY <1>0, <2>3 DEF Safe
    <3>2. ASSUME NEW p \in PlacesIn(it.parent) PROVE p # Lost /\ p.home = it.parent
      BY <2>2, <2>3, NameAssumption DEF PlacesIn, Place
    <3>3. Place(it.parent, End) \in PlacesIn(it.parent)
      BY DEF PlacesIn
    <3>4. Comparable(it, last)
      BY <1>0, <2>2, <2>3, <3>1, <3>2, <3>3 DEF Comparable, Safe
    <3>5. ~Equal(it, last) => Dereferenceable(it)
      <4>1. SUFFICES ASSUME ~Equal(it, last) PROVE Dereferenceable(it)
        OBVIOUS
      <4>2. Iterates(it) => Selected(it) # Selected(last)
        BY <2>2, <2>3, <4>1 DEF Equal
      <4>3. Iterates(it) => Selected(it).at # End
        BY <3>1, <4>2 DEF PlacesIn, Place
      <4> QED
        BY <1>0, <2>3, <3>1, <3>2, <4>3 DEF Dereferenceable, Safe
    <3> QED
      BY <2>1, <2>3, <3>4, <3>5 DEF Undefined
  <2>4. CASE pc = "body"
    <3>1. Iterates(it) => Selected(it) \in PlacesIn(it.parent) /\ Selected(it).at # End
      BY <1>0, <2>4 DEF Safe
    <3>2. ASSUME NEW p \in PlacesIn(it.parent) PROVE p # Lost
      BY <2>2, <2>4, NameAssumption DEF PlacesIn, Place
    <3>3. Dereferenceable(it)
      BY <1>0, <2>4, <3>1, <3>2 DEF Dereferenceable, Safe
    <3> QED
      BY <2>1, <2>4, <3>3 DEF Undefined
  <2> QED
    BY <2>1, <2>3, <2>4 DEF Undefined
<1> QED
  BY <1>1, <1>2, <1>3, <1>4, <1>5 DEF LoopStep

-----------------------------------------------------------------------------
LEMMA InitSafe == Init => IInv
BY DEF Init, IInv, Stored, Basics, Safe, Tags

LEMMA NextSafe == IInv /\ [Next]_vars => IInv'
<1> SUFFICES ASSUME IInv, [Next]_vars PROVE IInv'
  OBVIOUS
<1>1. CASE LoopStep
  BY <1>1, LoopKeeps, RoughLoopKeeps
<1>2. ASSUME NEW c \in Vals,
             \/ AssignLeaf(c) \/ AssignContainer(c) \/ Destroy(c) \/ Construct(c)
             \/ PushBack(c) \/ PushBackWraps(c) \/ IndexKey(c) \/ ForEach(c)
      PROVE  IInv'
  BY <1>2, AssignKeeps, GrowKeeps, BeginKeeps
<1>3. ASSUME NEW c \in Vals, NEW l \in Labels, Remove(c, l) \/ Find(c, l)
      PROVE  IInv'
  BY <1>3, RemoveKeeps, BeginKeeps
<1>4. ASSUME NEW c \in Vals, NEW d \in Vals, Move(c, d) \/ Swap(c, d)
      PROVE  IInv'
  BY <1>4, TransferKeeps
<1>5. CASE UNCHANGED vars
  BY <1>5 DEF vars, IInv, Stored, Basics, Safe, Iterates, Selected, Members
<1> QED
  BY <1>1, <1>2, <1>3, <1>4, <1>5 DEF Next

\* A loop over a Value, or the use of what find has returned, never meets undefined
\* behaviour if the calls in between leave that Value in peace or take its container
\* away: the operations of value_iterator go by the tag that the parent has then.
THEOREM IteratorsAreSafe == Spec => []NoUB
<1>1. IInv => NoUB
  BY DEF IInv, NoUB
<1> QED
  BY <1>1, InitSafe, NextSafe, PTL DEF Spec

-----------------------------------------------------------------------------
(* Type correctness.                                                       *)

\* Each element of s is there once.
Distinct(s) == \A m, n \in DOMAIN s : s[m] = s[n] => m = n

\* What a Value with the tag t can have.
Fits(t, s) ==
  /\ s \in Seq(Elems) /\ Distinct(s)
  /\ t \notin Containers => s = <<>>
  /\ t = "Map" => MapLike(Members(s))

\* The Values are well formed, and have no element in common.
Content(t, e) ==
  /\ t \in [Vals -> Tags] /\ e \in [Vals -> Seq(Elems)]
  /\ \A c \in Vals : Fits(t[c], e[c])
  /\ \A c, d \in Vals : c # d => Members(e[c]) \cap Members(e[d]) = {}

\* A valid place is one of a container of the kind k, and is in it.
Valid(p, k, t, e) ==
  p # Lost => p \in Places /\ t[p.home] = k /\ p.at \in Members(e[p.home]) \cup {End}

Lodged(i, t, e) ==
  /\ i \in Iterators \cup {NoIterator}
  /\ Valid(i.arr, "Array", t, e) /\ Valid(i.map, "Map", t, e)

\* TypeOK, with the places of the iterators in their containers: without that, an
\* increment could lead anywhere.
TInv ==
  /\ Content(tag, elems)
  /\ Lodged(it, tag, elems) /\ Lodged(last, tag, elems)
  /\ pc \in {"idle", "found", "test", "body"}
  /\ (it = NoIterator) = (pc = "idle")
  /\ goal \in Labels \cup {None}
  /\ tame \in BOOLEAN /\ ub \in BOOLEAN

LEMMA TInvIsType == TInv => TypeOK
<1> SUFFICES ASSUME TInv PROVE TypeOK
  OBVIOUS
<1>1. \A c \in Vals : Sequence(c)
  BY DEF TInv, Content, Fits, Distinct, Sequence
<1>2. \A i \in {it, last} :
       /\ i \in Iterators \cup {NoIterator}
       /\ i.arr # Lost => tag[i.arr.home] = "Array"
       /\ i.map # Lost => tag[i.map.home] = "Map"
  BY DEF TInv, Lodged, Valid
<1>3. /\ tag \in [Vals -> Tags] /\ DOMAIN elems = Vals
      /\ \A c \in Vals : /\ tag[c] \notin Containers => elems[c] = <<>>
                         /\ tag[c] = "Map" => MapLike(Members(elems[c]))
      /\ \A c, d \in Vals : c # d => Members(elems[c]) \cap Members(elems[d]) = {}
  BY DEF TInv, Content, Fits
<1> QED
  BY <1>1, <1>2, <1>3 DEF TypeOK, TInv

LEMMA TheOther ==
  ASSUME TInv
  PROVE  /\ pc = "idle" => it = NoIterator
         /\ pc # "idle" => it \in Iterators
         /\ NoIterator \notin Iterators
BY NameAssumption DEF TInv, Lodged, NoIterator, Iterators

\* Carried to home, an iterator's places are valid if the content has gone there.
LEMMA CarriedValid ==
  ASSUME NEW p, NEW k \in Containers, Valid(p, k, tag, elems),
         NEW home \in [Vals -> Vals \cup {Lost}], NEW gone,
         \A c \in Vals, x \in Elems \cup {End} :
           tag[c] = k /\ x \in Members(elems[c]) \cup {End} /\ Place(c, x) \notin gone /\ home[c] # Lost =>
             tag'[home[c]] = k /\ x \in Members(elems'[home[c]]) \cup {End}
  PROVE  Valid(Carried(p, home, gone), k, tag', elems')
<1>1. CASE p = Lost \/ p \in gone \/ home[p.home] = Lost
  <2>1. Carried(p, home, gone) = Lost
    <3>1. CASE p = Lost \/ p \in gone
      BY <3>1 DEF Carried
    <3>2. CASE p # Lost /\ home[p.home] = Lost
      <4>1. p.home \in Vals
        BY <3>2 DEF Valid, Places
      <4> QED
        BY <3>2, <4>1, NameAssumption DEF Carried
    <3> QED
      BY <1>1, <3>1, <3>2
  <2> QED
    BY <2>1 DEF Valid
<1>2. CASE p # Lost /\ p \notin gone /\ home[p.home] # Lost
  <2>1. p \in Places /\ p.home \in Vals /\ p.at \in Elems \cup {End} /\ p = Place(p.home, p.at)
        /\ tag[p.home] = k /\ p.at \in Members(elems[p.home]) \cup {End}
    BY <1>2 DEF Valid, Places, Place
  <2>2. tag'[home[p.home]] = k /\ p.at \in Members(elems'[home[p.home]]) \cup {End}
    BY <1>2, <2>1
  <2>3. home[p.home] \in Vals
    BY <1>2, <2>1
  <2>4. Place(home[p.home], p.at) \in Places /\ Place(home[p.home], p.at).home = home[p.home]
        /\ Place(home[p.home], p.at).at = p.at
    BY <2>1, <2>3 DEF Places, Place
  <2> QED
    BY <1>2, <2>1, <2>2, <2>4 DEF Carried, Valid
<1> QED
  BY <1>1, <1>2

LEMMA CarriedLodged ==
  ASSUME NEW i, Lodged(i, tag, elems),
         NEW home \in [Vals -> Vals \cup {Lost}], NEW gone,
         \A c \in Vals, x \in Elems \cup {End} :
           tag[c] \in Containers /\ x \in Members(elems[c]) \cup {End}
             /\ Place(c, x) \notin gone /\ home[c] # Lost =>
             tag'[home[c]] = tag[c] /\ x \in Members(elems'[home[c]]) \cup {End}
  PROVE  Lodged(CarriedIterator(i, home, gone), tag', elems')
<1>1. "Array" \in Containers /\ "Map" \in Containers
  BY DEF Containers
<1>2. i \in Iterators \cup {NoIterator} /\ Valid(i.arr, "Array", tag, elems) /\ Valid(i.map, "Map", tag, elems)
  BY DEF Lodged
<1>3. Valid(Carried(i.arr, home, gone), "Array", tag', elems')
  BY <1>1, <1>2, CarriedValid
<1>4. Valid(Carried(i.map, home, gone), "Map", tag', elems')
  BY <1>1, <1>2, CarriedValid
<1> QED
  BY <1>2, <1>3, <1>4, CarriedType DEF Lodged

LEMMA CallTyped ==
  ASSUME TInv, Calls, NEW home \in [Vals -> Vals \cup {Lost}], NEW gone, Carry(home, gone),
         tame' \in BOOLEAN, Content(tag', elems'),
         \A c \in Vals, x \in Elems \cup {End} :
           tag[c] \in Containers /\ x \in Members(elems[c]) \cup {End}
             /\ Place(c, x) \notin gone /\ home[c] # Lost =>
             tag'[home[c]] = tag[c] /\ x \in Members(elems'[home[c]]) \cup {End}
  PROVE  TInv'
<1>1. pc' = pc /\ goal' = goal /\ ub' = ub
  BY DEF Calls
<1>2. it' = CarriedIterator(it, home, gone) /\ last' = CarriedIterator(last, home, gone)
      /\ Lodged(it, tag, elems) /\ Lodged(last, tag, elems)
  BY DEF Carry, TInv
<1>3. Lodged(it', tag', elems') /\ Lodged(last', tag', elems')
  BY <1>2, CarriedLodged
<1>4. /\ it \in Iterators => it' \in Iterators
      /\ it = NoIterator => it' = NoIterator
  BY <1>2, CarriedType DEF Lodged
<1>5. (it' = NoIterator) = (pc' = "idle")
  BY <1>1, <1>4, TheOther
<1> QED
  BY <1>1, <1>3, <1>5 DEF TInv

LEMMA UnusedIsApart ==
  ASSUME NEW c \in Vals, NEW d \in Vals, c # d, NEW S \in SUBSET Unused({c})
  PROVE  S \cap Members(elems[d]) = {} /\ S \subseteq Elems
BY DEF Unused

LEMMA BecomeTyped ==
  ASSUME TInv, Calls, NEW c \in Vals, NEW t \in Tags, NEW s, Fits(t, s),
         Members(s) \subseteq Unused({c}),
         NEW gone \in SUBSET PlacesIn(c),
         tag[c] \in Containers =>
           \A x \in Members(elems[c]) \cup {End} :
             Place(c, x) \in gone \/ (t = tag[c] /\ x \in Members(s) \cup {End}),
         Become(c, t, s), Invalidate(gone), tame' \in BOOLEAN
  PROVE  TInv'
<1>1. /\ tag' \in [Vals -> Tags] /\ elems' \in [Vals -> Seq(Elems)]
      /\ tag'[c] = t /\ elems'[c] = s
      /\ \A d \in Vals \ {c} : tag'[d] = tag[d] /\ elems'[d] = elems[d]
  BY DEF TInv, Content, Become, Fits
<1>2. \A d \in Vals : Fits(tag'[d], elems'[d])
  BY <1>1 DEF TInv, Content
<1>3. ASSUME NEW a \in Vals, NEW b \in Vals, a # b
      PROVE  Members(elems'[a]) \cap Members(elems'[b]) = {}
  BY <1>1, <1>3, UnusedIsApart DEF TInv, Content
<1>4. Content(tag', elems')
  BY <1>1, <1>2, <1>3 DEF Content
<1>5. ASSUME NEW d \in Vals, NEW x \in Elems \cup {End},
             tag[d] \in Containers, x \in Members(elems[d]) \cup {End}, Place(d, x) \notin gone
      PROVE  tag'[d] = tag[d] /\ x \in Members(elems'[d]) \cup {End}
  BY <1>1, <1>5
<1>6. Carry(Stay, gone)
  BY DEF Invalidate
<1> QED
  BY <1>4, <1>5, <1>6, StayType, CallTyped

\* What another Value does not have.
LEMMA OwnAreUnused ==
  ASSUME TInv, NEW c \in Vals
  PROVE  Members(elems[c]) \subseteq Unused({c}) /\ Unused({}) \subseteq Unused({c})
<1>1. Members(elems[c]) \subseteq Elems
  BY DEF TInv, Content, Members
<1>2. \A d \in Vals \ {c} : Members(elems[c]) \cap Members(elems[d]) = {}
  BY DEF TInv, Content
<1> QED
  BY <1>1, <1>2 DEF Unused

LEMMA OrdersFit ==
  ASSUME NEW S \in SUBSET Elems, NEW s \in Orders(S)
  PROVE  s \in Seq(Elems) /\ Distinct(s) /\ Members(s) \subseteq S
<1>1. s \in Seq(Elems)
  BY OrdersAreSequences
<1>2. Distinct(s) /\ s \in [1..Cardinality(S) -> S]
  BY DEF Orders, Distinct
<1>3. Members(s) \subseteq S
  BY <1>2 DEF Members
<1> QED
  BY <1>1, <1>2, <1>3

LEMMA PlacesOf ==
  ASSUME TInv, NEW c \in Vals, NEW x \in Members(elems[c]) \cup {End}
  PROVE  Place(c, x) \in PlacesIn(c)
BY DEF TInv, Content, Members, PlacesIn

LEMMA EmptyFits ==
  ASSUME NEW t \in Tags \ {"Array"}
  PROVE  Fits(t, <<>>) /\ Members(<<>>) = {}
BY DEF Fits, Distinct, Members, MapLike, Containers, Tags

LEMMA JudgeTyped ==
  ASSUME TInv, NEW S, Judge(S)
  PROVE  tame' \in BOOLEAN
BY DEF Judge, TInv

\* A sequence of elements stays one when the nth of them goes.
LEMMA WithoutFits ==
  ASSUME NEW t \in Containers, NEW s, Fits(t, s), NEW n \in DOMAIN s
  PROVE  Fits(t, Without(s, n)) /\ Members(Without(s, n)) \subseteq Members(s)
<1> DEFINE w == Without(s, n)
<1>1. s \in Seq(Elems) /\ DOMAIN s = 1..Len(s) /\ Len(s) \in Nat /\ n \in 1..Len(s)
  BY DEF Fits
<1>2. w \in Seq(Elems) /\ DOMAIN w = 1..(Len(s) - 1)
      /\ \A m \in 1..(Len(s) - 1) : w[m] = IF m < n THEN s[m] ELSE s[m + 1]
  BY <1>1, WithoutOne
<1> HIDE DEF w
<1>3. Members(w) \subseteq Members(s)
  <2>1. \A m \in 1..(Len(s) - 1) : m \in DOMAIN s /\ m + 1 \in DOMAIN s
    BY <1>1
  <2> QED
    BY <1>2, <2>1 DEF Members
<1>4. Distinct(w)
  <2> SUFFICES ASSUME NEW i \in DOMAIN w, NEW j \in DOMAIN w, w[i] = w[j] PROVE i = j
    BY DEF Distinct
  <2> DEFINE a == IF i < n THEN i ELSE i + 1
             b == IF j < n THEN j ELSE j + 1
  <2>1. w[i] = s[a] /\ w[j] = s[b] /\ a \in DOMAIN s /\ b \in DOMAIN s
    BY <1>1, <1>2
  <2>2. a = b
    BY <2>1 DEF Fits, Distinct
  <2> QED
    BY <1>1, <1>2, <2>2
<1>5. t = "Map" => MapLike(Members(w))
  BY <1>3 DEF Fits, MapLike
<1> QED
  BY <1>2, <1>3, <1>4, <1>5 DEF Fits, w

\* s with e after its first n elements.
With(s, n, e) == SubSeq(s, 1, n) \o <<e>> \o SubSeq(s, n + 1, Len(s))

LEMMA WithOneMore ==
  ASSUME NEW s \in Seq(Elems), NEW e \in Elems, NEW n \in 0..Len(s)
  PROVE  /\ With(s, n, e) \in Seq(Elems) /\ DOMAIN With(s, n, e) = 1..(Len(s) + 1)
         /\ \A m \in 1..(Len(s) + 1) :
              With(s, n, e)[m] = IF m <= n THEN s[m] ELSE IF m = n + 1 THEN e ELSE s[m - 1]
<1> DEFINE w == With(s, n, e)
           j == n + 1
           a == SubSeq(s, 1, n)
           b == SubSeq(s, j, Len(s))
<1>1. j \in 1..(Len(s) + 1) /\ Len(s) \in Nat
  BY LenProperties
<1>2. a \in Seq(Elems) /\ b \in Seq(Elems)
  <2> HIDE DEF j
  <2> QED
    BY <1>1, SubSequences
<1>3. Len(a) = n /\ \A m \in 1..n : a[m] = s[m]
  BY <1>1
<1>4. Len(b) = Len(s) - n /\ \A m \in 1..(Len(s) - n) : b[m] = s[m + n]
  BY <1>1
<1> HIDE DEF a, b
<1>5. a \o <<e>> \in Seq(Elems) /\ Len(a \o <<e>>) = n + 1
      /\ \A m \in 1..(n + 1) : (a \o <<e>>)[m] = IF m <= n THEN s[m] ELSE e
  BY <1>1, <1>2, <1>3
<1> DEFINE c == a \o <<e>>
<1>6. w = c \o b
  BY DEF a, b, With
<1>7. c \in Seq(Elems) /\ Len(c) = n + 1
      /\ \A m \in 1..(n + 1) : c[m] = IF m <= n THEN s[m] ELSE e
  BY <1>5
<1> HIDE DEF c
<1>8. /\ c \o b \in Seq(Elems) /\ Len(c \o b) = Len(c) + Len(b)
      /\ \A m \in 1..Len(c) + Len(b) :
           (c \o b)[m] = IF m <= Len(c) THEN c[m] ELSE b[m - Len(c)]
  BY <1>2, <1>7, ConcatProperties
<1>9. Len(c \o b) = Len(s) + 1
  BY <1>1, <1>4, <1>7, <1>8
<1>10. DOMAIN w = 1..(Len(s) + 1)
  BY <1>6, <1>8, <1>9, LenProperties
<1>11. ASSUME NEW m \in 1..(Len(s) + 1)
       PROVE  w[m] = IF m <= n THEN s[m] ELSE IF m = n + 1 THEN e ELSE s[m - 1]
  <2>1. m \in 1..Len(c) + Len(b)
    BY <1>1, <1>4, <1>7
  <2>2. CASE m <= n + 1
    BY <1>6, <1>7, <1>8, <2>1, <2>2
  <2>3. CASE ~(m <= n + 1)
    <3> DEFINE k == m - (n + 1)
    <3>1. k \in 1..(Len(s) - n) /\ k + n = m - 1 /\ ~(m <= Len(c)) /\ ~(m <= n)
      BY <1>1, <1>7, <2>3
    <3>2. w[m] = b[k]
      BY <1>6, <1>7, <1>8, <2>1, <3>1
    <3> HIDE DEF k
    <3>3. b[k] = s[m - 1]
      BY <1>4, <3>1
    <3>4. ~(m <= n) /\ m # n + 1
      BY <1>1, <2>3
    <3> QED
      BY <3>2, <3>3, <3>4
  <2> QED
    BY <2>2, <2>3
<1> QED
  BY <1>6, <1>8, <1>10, <1>11

LEMMA OneMoreFits ==
  ASSUME NEW s \in Seq(Elems), Distinct(s), NEW e \in Elems, e \notin Members(s),
         NEW n \in 0..Len(s)
  PROVE  /\ With(s, n, e) \in Seq(Elems) /\ Distinct(With(s, n, e))
         /\ Members(With(s, n, e)) = Members(s) \cup {e}
<1> DEFINE w == With(s, n, e)
<1>1. /\ w \in Seq(Elems) /\ DOMAIN w = 1..(Len(s) + 1)
      /\ \A m \in 1..(Len(s) + 1) :
           w[m] = IF m <= n THEN s[m] ELSE IF m = n + 1 THEN e ELSE s[m - 1]
  BY WithOneMore
<1> HIDE DEF w
<1>2. Len(s) \in Nat /\ DOMAIN s = 1..Len(s)
  BY LenProperties
<1>3. Distinct(w)
  <2> SUFFICES ASSUME NEW i \in DOMAIN w, NEW j \in DOMAIN w, w[i] = w[j] PROVE i = j
    BY DEF Distinct
  <2> DEFINE a == IF i <= n THEN i ELSE i - 1
             b == IF j <= n THEN j ELSE j - 1
  <2>1. i # n + 1 => w[i] = s[a] /\ a \in DOMAIN s
    BY <1>1, <1>2
  <2>2. j # n + 1 => w[j] = s[b] /\ b \in DOMAIN s
    BY <1>1, <1>2
  <2>3. i = n + 1 => w[i] = e
    BY <1>1, <1>2
  <2>4. j = n + 1 => w[j] = e
    BY <1>1, <1>2
  <2>5. i # n + 1 /\ j # n + 1 => a = b
    BY <2>1, <2>2 DEF Distinct
  <2>6. (i = n + 1) <=> (j = n + 1)
    BY <2>1, <2>2, <2>3, <2>4 DEF Members
  <2> QED
    BY <1>1, <1>2, <2>5, <2>6
<1>4. Members(w) \subseteq Members(s) \cup {e}
  <2> SUFFICES ASSUME NEW i \in DOMAIN w PROVE w[i] \in Members(s) \cup {e}
    BY DEF Members
  <2>1. i <= n => i \in DOMAIN s
    BY <1>1, <1>2
  <2>2. ~(i <= n) /\ i # n + 1 => i - 1 \in DOMAIN s
    BY <1>1, <1>2
  <2> QED
    BY <1>1, <2>1, <2>2 DEF Members
<1>5. e \in Members(w)
  <2>1. n + 1 \in 1..(Len(s) + 1) /\ ~(n + 1 <= n)
    BY <1>2
  <2>2. w[n + 1] = e
    BY <1>1, <2>1
  <2> QED
    BY <1>1, <2>1, <2>2 DEF Members
<1>6. ASSUME NEW i \in DOMAIN s PROVE s[i] \in Members(w)
  <2>1. CASE i <= n
    BY <1>1, <1>2, <2>1 DEF Members
  <2>2. CASE ~(i <= n)
    <3> DEFINE k == i + 1
    <3>1. k \in 1..(Len(s) + 1) /\ ~(k <= n) /\ k # n + 1 /\ k - 1 = i
      BY <1>2, <2>2
    <3> HIDE DEF k
    <3>2. w[k] = s[i]
      BY <1>1, <3>1
    <3> QED
      BY <1>1, <3>1, <3>2 DEF Members
  <2> QED
    BY <2>1, <2>2
<1>7. Members(w) = Members(s) \cup {e}
  BY <1>4, <1>5, <1>6 DEF Members
<1> QED
  BY <1>1, <1>3, <1>7 DEF w

\* A call that invalidates every iterator of c.
LEMMA AfreshTyped ==
  ASSUME TInv, Calls, NEW c \in Vals, NEW t \in Tags, NEW s, Fits(t, s),
         Members(s) \subseteq Unused({c}),
         Become(c, t, s), Invalidate(PlacesIn(c)), tame' \in BOOLEAN
  PROVE  TInv'
<1> DEFINE gone == PlacesIn(c)
<1>1. gone \in SUBSET PlacesIn(c) /\ Invalidate(gone)
  OBVIOUS
<1>2. \A x \in Members(elems[c]) \cup {End} : Place(c, x) \in gone
  BY PlacesOf
<1> HIDE DEF gone
<1>3. tag[c] \in Containers =>
        \A x \in Members(elems[c]) \cup {End} :
          Place(c, x) \in gone \/ (t = tag[c] /\ x \in Members(s) \cup {End})
  BY <1>2
<1> QED
  BY <1>1, <1>3, BecomeTyped

LEMMA AssignTyped ==
  ASSUME TInv, NEW c \in Vals,
         AssignLeaf(c) \/ AssignContainer(c) \/ Destroy(c) \/ Construct(c)
  PROVE  TInv'
<1>0. Calls /\ tame' \in BOOLEAN
  BY JudgeTyped DEF AssignLeaf, AssignContainer, Destroy, Construct
<1>2. ASSUME NEW t \in Tags \ {"Array"}, Become(c, t, <<>>), Invalidate(PlacesIn(c))
      PROVE  TInv'
  <2>1. Fits(t, <<>>) /\ Members(<<>>) \subseteq Unused({c})
    BY EmptyFits
  <2> QED
    BY <1>0, <1>2, <2>1, AfreshTyped
<1>3. CASE AssignLeaf(c)
  <2>1. PICK t \in {"Null", "Leaf"} : Become(c, t, <<>>) /\ Invalidate(PlacesIn(c))
    BY <1>3 DEF AssignLeaf
  <2>2. t \in Tags \ {"Array"}
    BY DEF Tags
  <2> QED
    BY <1>2, <2>1, <2>2
<1>4. CASE AssignContainer(c)
  <2>1. PICK t \in Containers, S \in SUBSET Unused({c}) :
          /\ t = "Map" => MapLike(S)
          /\ \E s \in Orders(S) : Become(c, t, s)
    BY <1>4 DEF AssignContainer
  <2>2. PICK s \in Orders(S) : Become(c, t, s)
    BY <2>1
  <2>3. t \in Tags /\ S \in SUBSET Elems /\ Invalidate(PlacesIn(c))
    BY <1>4 DEF Tags, Unused, AssignContainer
  <2>4. s \in Seq(Elems) /\ Distinct(s) /\ Members(s) \subseteq S
    BY <2>3, OrdersFit
  <2>5. Fits(t, s)
    BY <2>1, <2>4 DEF Fits, MapLike
  <2> QED
    BY <1>0, <2>2, <2>3, <2>4, <2>5, AfreshTyped
<1>5. CASE Destroy(c)
  <2>1. "Dead" \in Tags \ {"Array"}
    BY DEF Tags
  <2> QED
    BY <1>2, <1>5, <2>1 DEF Destroy
<1>6. CASE Construct(c)
  <2>1. "Null" \in Tags /\ "Null" \in Tags \ {"Array"} /\ tag[c] \notin Containers
    BY <1>6 DEF Tags, Containers, Construct
  <2>2. Fits("Null", <<>>) /\ Members(<<>>) \subseteq Unused({c})
    BY <2>1, EmptyFits
  <2>3. Become(c, "Null", <<>>) /\ Invalidate({}) /\ {} \in SUBSET PlacesIn(c)
    BY <1>6 DEF Construct
  <2> QED
    BY <1>0, <2>1, <2>2, <2>3, BecomeTyped
<1> QED
  BY <1>3, <1>4, <1>5, <1>6

LEMMA AppendFits ==
  ASSUME NEW t, NEW s, Fits(t, s), NEW e \in Elems, e \notin Members(s)
  PROVE  Fits("Array", Append(s, e)) /\ Members(Append(s, e)) = Members(s) \cup {e}
<1>1. s \in Seq(Elems) /\ Len(s) \in Nat /\ DOMAIN s = 1..Len(s)
  BY DEF Fits
<1> DEFINE w == Append(s, e)
           k == Len(s) + 1
<1>2. w \in Seq(Elems) /\ DOMAIN w = 1..(Len(s) + 1)
      /\ \A m \in 1..Len(s) : w[m] = s[m]
      /\ w[k] = e
  BY <1>1
<1>3. k \notin DOMAIN s /\ 1..(Len(s) + 1) = DOMAIN s \cup {k}
  BY <1>1
<1>4. DOMAIN w = DOMAIN s \cup {k} /\ w[k] = e /\ \A m \in DOMAIN s : w[m] = s[m]
  BY <1>1, <1>2, <1>3
<1> HIDE DEF w, k
<1>5. Members(w) = Members(s) \cup {e}
  BY <1>4, Zenon DEF Members
<1>6. Distinct(w)
  <2> SUFFICES ASSUME NEW i \in DOMAIN w, NEW j \in DOMAIN w, w[i] = w[j] PROVE i = j
    BY DEF Distinct
  <2> QED
    BY <1>4 DEF Fits, Distinct, Members
<1>7. "Array" \in Containers /\ "Array" # "Map"
  BY DEF Containers
<1> QED
  BY <1>2, <1>5, <1>6, <1>7 DEF Fits, w

LEMMA GrowTyped ==
  ASSUME TInv, NEW c \in Vals, PushBack(c) \/ PushBackWraps(c) \/ IndexKey(c)
  PROVE  TInv'
<1>0. Calls /\ tame' \in BOOLEAN /\ Fits(tag[c], elems[c]) /\ elems[c] \in Seq(Elems)
      /\ Distinct(elems[c])
  BY JudgeTyped DEF PushBack, PushBackWraps, IndexKey, TInv, Content, Fits
<1>1. /\ "Array" \in Tags /\ "Map" \in Tags /\ "Map" \in Containers /\ "Null" \notin Containers
      /\ PlacesIn(c) \in SUBSET PlacesIn(c) /\ {} \in SUBSET PlacesIn(c)
      /\ {Place(c, End)} \in SUBSET PlacesIn(c)
      /\ \A x \in Members(elems[c]) \cup {End} : Place(c, x) \in PlacesIn(c)
      /\ Members(elems[c]) \subseteq Unused({c}) /\ Unused({}) \subseteq Unused({c})
      /\ \A e \in Unused({}) : e \in Elems /\ e \notin Members(elems[c])
  BY PlacesOf, OwnAreUnused DEF Tags, Containers, PlacesIn, Unused
<1>2. CASE PushBack(c)
  <2>1. PICK e \in Unused({}), reallocated \in BOOLEAN :
          /\ Become(c, "Array", Append(elems[c], e))
          /\ Invalidate(IF reallocated THEN PlacesIn(c) ELSE {Place(c, End)})
    BY <1>2 DEF PushBack
  <2> DEFINE gone == IF reallocated THEN PlacesIn(c) ELSE {Place(c, End)}
             s == Append(elems[c], e)
  <2>2. tag[c] \in Containers => tag[c] = "Array"
    BY <1>1, <1>2 DEF PushBack
  <2>3. Fits("Array", s) /\ Members(s) = Members(elems[c]) \cup {e}
    BY <1>0, <1>1, AppendFits
  <2>4. Members(s) \subseteq Unused({c})
    BY <1>1, <2>3
  <2>5. gone \in SUBSET PlacesIn(c) /\ Invalidate(gone) /\ Become(c, "Array", s)
    BY <1>1, <2>1
  <2> HIDE DEF gone, s
  <2>6. tag[c] \in Containers =>
           \A x \in Members(elems[c]) \cup {End} :
             Place(c, x) \in gone \/ ("Array" = tag[c] /\ x \in Members(s) \cup {End})
    BY <2>2, <2>3
  <2> QED
    BY <1>0, <1>1, <2>3, <2>4, <2>5, <2>6, BecomeTyped
<1>3. CASE PushBackWraps(c)
  <2>1. PICK e \in Unused({c}), f \in Unused({c}) : e # f /\ Become(c, "Array", <<f, e>>)
    BY <1>3 DEF PushBackWraps
  <2>2. e \in Elems /\ f \in Elems /\ Invalidate(PlacesIn(c))
    BY <1>3 DEF Unused, PushBackWraps
  <2> DEFINE s == <<f, e>>
  <2>3. s \in Seq(Elems) /\ DOMAIN s = {1, 2} /\ s[1] = f /\ s[2] = e
    BY <2>2
  <2>4. Become(c, "Array", s)
    BY <2>1
  <2> HIDE DEF s
  <2>5. Distinct(s) /\ Members(s) = {e, f}
    BY <2>1, <2>3 DEF Distinct, Members
  <2>6. Fits("Array", s) /\ Members(s) \subseteq Unused({c})
    BY <2>3, <2>5 DEF Fits, Containers
  <2> QED
    BY <1>0, <1>1, <2>2, <2>4, <2>6, AfreshTyped
<1>4. CASE IndexKey(c)
  <2>1. PICK e \in Unused({}) :
       /\ MapLike(Members(elems[c]) \cup {e})
       /\ \/ \E n \in 0..Len(elems[c]) :
               /\ Become(c, "Map", With(elems[c], n, e))
               /\ Invalidate({})
          \/ \E s \in Orders(Members(elems[c]) \cup {e}) :
               Become(c, "Map", s) /\ Invalidate(PlacesIn(c))
    BY <1>4 DEF IndexKey, With
  <2>2. tag[c] \in Containers => tag[c] = "Map"
    BY <1>1, <1>4 DEF IndexKey
  <2>3. e \in Elems /\ e \notin Members(elems[c])
        /\ Members(elems[c]) \cup {e} \subseteq Unused({c})
        /\ Members(elems[c]) \cup {e} \subseteq Elems
    BY <1>1 DEF Unused
  <2>4. ASSUME NEW n \in 0..Len(elems[c]),
               Become(c, "Map", With(elems[c], n, e)), Invalidate({})
        PROVE  TInv'
    <3> DEFINE s == With(elems[c], n, e)
    <3>1. s \in Seq(Elems) /\ Distinct(s) /\ Members(s) = Members(elems[c]) \cup {e}
      BY <1>0, <2>3, OneMoreFits
    <3>2. Become(c, "Map", s)
      BY <2>4
    <3> HIDE DEF s
    <3>3. Fits("Map", s) /\ Members(s) \subseteq Unused({c})
      BY <1>1, <2>1, <2>3, <3>1 DEF Fits
    <3>4. tag[c] \in Containers =>
           \A x \in Members(elems[c]) \cup {End} : "Map" = tag[c] /\ x \in Members(s) \cup {End}
      BY <2>2, <3>1
    <3> QED
      BY <1>0, <1>1, <2>4, <3>2, <3>3, <3>4, BecomeTyped
  <2>5. ASSUME NEW s \in Orders(Members(elems[c]) \cup {e}),
               Become(c, "Map", s), Invalidate(PlacesIn(c))
        PROVE  TInv'
    <3>1. s \in Seq(Elems) /\ Distinct(s) /\ Members(s) \subseteq Members(elems[c]) \cup {e}
      BY <2>3, OrdersFit
    <3>2. Fits("Map", s) /\ Members(s) \subseteq Unused({c})
      BY <1>1, <2>1, <2>3, <3>1 DEF Fits, MapLike
    <3> QED
      BY <1>0, <1>1, <2>5, <3>2, AfreshTyped
  <2> QED
    BY <2>1, <2>4, <2>5
<1> QED
  BY <1>2, <1>3, <1>4

LEMMA TInvStored == TInv => Stored
BY DEF TInv, Content, Stored

LEMMA RemoveTyped ==
  ASSUME TInv, NEW c \in Vals, NEW l \in Labels, Remove(c, l)
  PROVE  TInv'
<1> DEFINE e == Lookup(c, l)
           k == IndexOf(c, e)
           s == Without(elems[c], k)
<1>0. /\ Calls /\ tag[c] \in Containers /\ tag[c] \in Tags /\ Fits(tag[c], elems[c])
      /\ elems[c] \in Seq(Elems) /\ DOMAIN elems[c] = 1..Len(elems[c])
  BY DEF Remove, TInv, Content, Fits
<1>1. e \in Members(elems[c]) /\ e # End
  BY TInvStored, FoundIsMember DEF Remove
<1>2. k \in DOMAIN elems[c] /\ elems[c][k] = e
  BY <1>1, TInvStored, IndexIsThere
<1>3. Become(c, tag[c], s) /\ Invalidate(Erased(c, e))
      /\ Judge(IF tag[c] = "Map" /\ it.map # Place(c, e) THEN {} ELSE {c})
  BY DEF Remove
<1> DEFINE gone == Erased(c, e)
<1>4. gone = IF tag[c] = "Map" THEN {Place(c, e)}
             ELSE {Place(c, End)} \cup {Place(c, elems[c][n]) : n \in k..Len(elems[c])}
  BY DEF Erased
<1> HIDE DEF e, k
<1>5. Fits(tag[c], s) /\ Members(s) \subseteq Members(elems[c])
  BY <1>0, <1>2, WithoutFits
<1>6. \A m \in DOMAIN elems[c] : m # k => elems[c][m] \in Members(s)
  BY <1>0, <1>2, WithoutKeeps
<1>7. tame' \in BOOLEAN
  BY <1>3, JudgeTyped
<1> HIDE DEF s, gone
<1>8. Place(c, e) \in gone
  BY <1>0, <1>2, <1>4
<1>9. gone \in SUBSET PlacesIn(c)
  <2>1. \A n \in k..Len(elems[c]) : elems[c][n] \in Elems
    BY <1>0, <1>2
  <2>2. Place(c, End) \in PlacesIn(c) /\ \A x \in Elems : Place(c, x) \in PlacesIn(c)
    BY DEF PlacesIn
  <2>3. e \in Elems
    BY <1>0, <1>2
  <2> QED
    BY <1>4, <2>1, <2>2, <2>3
<1>10. \A x \in Members(elems[c]) \cup {End} :
         Place(c, x) \in gone \/ x \in Members(s) \cup {End}
  <2>1. \A x \in Members(elems[c]) : x = e \/ x \in Members(s)
    BY <1>2, <1>6 DEF Members
  <2> QED
    BY <1>8, <2>1
<1>11. Members(s) \subseteq Unused({c})
  BY <1>5, OwnAreUnused
<1>12. Become(c, tag[c], s) /\ Invalidate(gone)
  BY <1>3 DEF s, k, e, gone
<1> QED
  BY <1>0, <1>5, <1>7, <1>9, <1>10, <1>11, <1>12, BecomeTyped

\* The Values have changed places as home says.
LEMMA TransferTyped ==
  ASSUME TInv, NEW c \in Vals, NEW d \in Vals, Move(c, d) \/ Swap(c, d)
  PROVE  TInv'
<1>0. /\ Calls /\ c # d /\ tame' \in BOOLEAN
      /\ tag \in [Vals -> Tags] /\ elems \in [Vals -> Seq(Elems)]
      /\ \A x \in Vals : Fits(tag[x], elems[x])
      /\ \A x, y \in Vals : x # y => Members(elems[x]) \cap Members(elems[y]) = {}
  BY JudgeTyped DEF Move, Swap, TInv, Content
<1>1. Fits("Null", <<>>) /\ Members(<<>>) = {} /\ "Null" \in Tags
  BY EmptyFits DEF Tags
<1>2. CASE Move(c, d)
  <2> DEFINE home == [Stay EXCEPT ![c] = Lost, ![d] = c]
  <2>1. /\ home \in [Vals -> Vals \cup {Lost}] /\ home[c] = Lost /\ home[d] = c
        /\ \A x \in Vals \ {c, d} : home[x] = x
    BY <1>0, StayType
  <2>2. Carry(home, {})
    BY <1>2 DEF Move
  <2>3. /\ tag' \in [Vals -> Tags] /\ tag'[c] = tag[d] /\ tag'[d] = "Null"
        /\ elems' \in [Vals -> Seq(Elems)] /\ elems'[c] = elems[d] /\ elems'[d] = <<>>
        /\ \A x \in Vals \ {c, d} : tag'[x] = tag[x] /\ elems'[x] = elems[x]
    BY <1>0, <1>1, <1>2 DEF Move, Fits
  <2>4. \A x \in Vals : Fits(tag'[x], elems'[x])
    BY <1>0, <1>1, <2>3
  <2>5. \A x, y \in Vals : x # y => Members(elems'[x]) \cap Members(elems'[y]) = {}
    BY <1>0, <1>1, <2>3
  <2>6. Content(tag', elems')
    BY <2>3, <2>4, <2>5 DEF Content
  <2> HIDE DEF home
  <2>7. ASSUME NEW x \in Vals, NEW y \in Elems \cup {End},
               tag[x] \in Containers, y \in Members(elems[x]) \cup {End}, home[x] # Lost
        PROVE  tag'[home[x]] = tag[x] /\ y \in Members(elems'[home[x]]) \cup {End}
    BY <2>1, <2>3, <2>7
  <2>8. home \in [Vals -> Vals \cup {Lost}]
    BY <2>1
  <2> QED
    BY <1>0, <2>2, <2>6, <2>7, <2>8, CallTyped
<1>3. CASE Swap(c, d)
  <2> DEFINE home == [Stay EXCEPT ![c] = d, ![d] = c]
  <2>1. /\ home \in [Vals -> Vals \cup {Lost}] /\ home[c] = d /\ home[d] = c
        /\ \A x \in Vals \ {c, d} : home[x] = x
    BY <1>0, StayType
  <2>2. Carry(home, {})
    BY <1>3 DEF Swap
  <2>3. /\ tag' \in [Vals -> Tags] /\ tag'[c] = tag[d] /\ tag'[d] = tag[c]
        /\ elems' \in [Vals -> Seq(Elems)] /\ elems'[c] = elems[d] /\ elems'[d] = elems[c]
        /\ \A x \in Vals \ {c, d} : tag'[x] = tag[x] /\ elems'[x] = elems[x]
    BY <1>0, <1>3 DEF Swap
  <2>4. \A x \in Vals : Fits(tag'[x], elems'[x])
    BY <1>0, <2>3
  <2>5. \A x, y \in Vals : x # y => Members(elems'[x]) \cap Members(elems'[y]) = {}
    BY <1>0, <2>3
  <2>6. Content(tag', elems')
    BY <2>3, <2>4, <2>5 DEF Content
  <2> HIDE DEF home
  <2>7. ASSUME NEW x \in Vals, NEW y \in Elems \cup {End},
               tag[x] \in Containers, y \in Members(elems[x]) \cup {End}, home[x] # Lost
        PROVE  tag'[home[x]] = tag[x] /\ y \in Members(elems'[home[x]]) \cup {End}
    BY <2>1, <2>3, <2>7
  <2>8. home \in [Vals -> Vals \cup {Lost}]
    BY <2>1
  <2> QED
    BY <1>0, <2>2, <2>6, <2>7, <2>8, CallTyped
<1> QED
  BY <1>2, <1>3

LEMMA MadeLodged ==
  ASSUME TInv, NEW c \in Vals, NEW x \in Members(elems[c]) \cup {End}
  PROVE  Lodged(Iterator(c, x), tag, elems) /\ Iterator(c, x) \in Iterators
<1>1. Place(c, x) \in Places /\ Place(c, x).home = c /\ Place(c, x).at = x
  BY DEF TInv, Content, Members, Places, Place
<1> DEFINE i == Iterator(c, x)
<1>2. i = [parent |-> c,
           arr |-> IF tag[c] = "Array" THEN Place(c, x) ELSE Lost,
           map |-> IF tag[c] = "Map" THEN Place(c, x) ELSE Lost]
  BY DEF Iterator
<1>3. i \in Iterators
  BY <1>1, <1>2 DEF Iterators
<1>4. i.arr = IF tag[c] = "Array" THEN Place(c, x) ELSE Lost
  BY <1>2
<1>5. i.map = IF tag[c] = "Map" THEN Place(c, x) ELSE Lost
  BY <1>2
<1> HIDE DEF i
<1>6. Valid(i.arr, "Array", tag, elems) /\ Valid(i.map, "Map", tag, elems)
  BY <1>1, <1>4, <1>5 DEF Valid
<1> QED
  BY <1>3, <1>6 DEF Lodged, i

LEMMA BeginTyped ==
  ASSUME TInv, NEW c \in Vals, ForEach(c) \/ \E l \in Labels : Find(c, l)
  PROVE  TInv'
<1>0. tag' = tag /\ elems' = elems /\ ub' = ub /\ tame' = tame
      /\ goal' \in Labels \cup {None} /\ pc' \in {"test", "found"} /\ last' = Iterator(c, End)
  BY DEF TInv, ForEach, Find, store, end
<1>1. PICK x \in Members(elems[c]) \cup {End} : it' = Iterator(c, x)
  <2>1. CASE ForEach(c)
    <3>1. elems[c] # <<>> => elems[c][1] \in Members(elems[c])
      BY DEF Members, TInv, Content
    <3> QED
      BY <2>1, <3>1 DEF ForEach, begin
  <2>2. CASE \E l \in Labels : Find(c, l)
    <3>1. PICK l \in Labels : Find(c, l)
      BY <2>2
    <3>2. Lookup(c, l) \in Members(elems[c]) \cup {End}
      BY TInvStored, FoundIsMember
    <3> QED
      BY <3>1, <3>2 DEF Find, find, At, end
  <2> QED
    BY <2>1, <2>2
<1>2. Lodged(it', tag', elems') /\ it' \in Iterators /\ Lodged(last', tag', elems')
  BY <1>0, <1>1, MadeLodged
<1>3. it' # NoIterator /\ pc' # "idle"
  BY <1>0, <1>2, TheOther
<1> QED
  BY <1>0, <1>2, <1>3 DEF TInv

\* The place after that of an element.
LEMMA StepValid ==
  ASSUME TInv, NEW p, p # Lost, p.at # End, NEW k, Valid(p, k, tag, elems)
  PROVE  Step(p) \in Places /\ Valid(Step(p), k, tag, elems)
<1>1. p \in Places /\ p.home \in Vals /\ p.at \in Members(elems[p.home]) /\ tag[p.home] = k
  BY DEF Valid, Places
<1>2. After(p.home, p.at) \in Members(elems[p.home]) \cup {End}
  BY <1>1, TInvStored, AfterIsMember
<1>3. Members(elems[p.home]) \subseteq Elems
  BY <1>1, TInvStored, MembersAreElems
<1>4. Step(p) = Place(p.home, After(p.home, p.at))
  BY DEF Step
<1> QED
  BY <1>1, <1>2, <1>3, <1>4 DEF Valid, Places, Place

LEMMA LoopTyped ==
  ASSUME TInv, LoopStep
  PROVE  TInv'
<1>1. CASE UseFound
  <2>0. pc = "found" /\ tag' = tag /\ elems' = elems /\ it' = it /\ goal' = goal /\ tame' = tame
    BY <1>1 DEF UseFound, store
  <2>1. it.parent \in Vals
    BY <2>0, TheOther DEF Iterators
  <2>2. CASE tag[it.parent] = "Dead"
    BY <1>1, <2>0, <2>2 DEF UseFound, TInv
  <2>3. CASE tag[it.parent] # "Dead"
    <3>1. last' = Iterator(it.parent, End) /\ pc' = "test" /\ ub' = ub
      BY <1>1, <2>3 DEF UseFound, end
    <3>2. Lodged(last', tag', elems')
      BY <2>0, <2>1, <3>1, MadeLodged
    <3> QED
      BY <2>0, <3>1, <3>2 DEF TInv
  <2> QED
    BY <2>2, <2>3
<1>2. CASE Enter \/ Crash
  BY <1>2 DEF Enter, Crash, store, TInv
<1>3. CASE Finish \/ Leave
  <2>1. Idle /\ tag' = tag /\ elems' = elems /\ ub' = ub
    BY <1>3 DEF Finish, Leave, store
  <2>2. Lodged(NoIterator, tag, elems)
    BY DEF Lodged, NoIterator, Valid
  <2> QED
    BY <2>1, <2>2 DEF TInv, Idle
<1>4. CASE Advance
  <2>0. /\ pc = "body" /\ pc' = "test" /\ it' = Increment(it) /\ Dereferenceable(it)
        /\ tag' = tag /\ elems' = elems /\ last' = last /\ goal' = goal /\ tame' = tame /\ ub' = ub
        /\ it \in Iterators
    BY <1>4, TheOther DEF Advance, store
  <2>1. Valid(it.arr, "Array", tag, elems) /\ Valid(it.map, "Map", tag, elems)
    BY DEF TInv, Lodged
  <2>2. it' \in Iterators /\ Lodged(it', tag, elems)
    <3>1. CASE ~Iterates(it)
      BY <2>0, <3>1 DEF Increment, TInv
    <3>2. CASE Iterates(it) /\ tag[it.parent] = "Array"
      <4>1. it.arr # Lost /\ it.arr.at # End
        BY <2>0, <3>2 DEF Dereferenceable, Selected
      <4>2. Step(it.arr) \in Places /\ Valid(Step(it.arr), "Array", tag, elems)
        BY <2>1, <4>1, StepValid
      <4>3. it' = [it EXCEPT !.arr = Step(it.arr)]
        BY <2>0, <3>2 DEF Increment
      <4>4. it' \in Iterators /\ it'.arr = Step(it.arr) /\ it'.map = it.map
        BY <2>0, <4>2, <4>3 DEF Iterators
      <4> QED
        BY <2>1, <4>2, <4>4 DEF Lodged
    <3>3. CASE Iterates(it) /\ tag[it.parent] # "Array"
      <4>1. it.map # Lost /\ it.map.at # End
        BY <2>0, <3>3 DEF Dereferenceable, Selected
      <4>2. Step(it.map) \in Places /\ Valid(Step(it.map), "Map", tag, elems)
        BY <2>1, <4>1, StepValid
      <4>3. it' = [it EXCEPT !.map = Step(it.map)]
        BY <2>0, <3>3 DEF Increment
      <4>4. it' \in Iterators /\ it'.map = Step(it.map) /\ it'.arr = it.arr
        BY <2>0, <4>2, <4>3 DEF Iterators
      <4> QED
        BY <2>1, <4>2, <4>4 DEF Lodged
    <3> QED
      BY <3>1, <3>2, <3>3
  <2>3. it' # NoIterator
    BY <2>2, TheOther
  <2> QED
    BY <2>0, <2>2, <2>3 DEF TInv
<1> QED
  BY <1>1, <1>2, <1>3, <1>4 DEF LoopStep

LEMMA InitTyped == Init => TInv
<1> SUFFICES ASSUME Init PROVE TInv
  OBVIOUS
<1>1. "Null" \in Tags \ {"Array"}
  BY DEF Tags
<1>2. Fits("Null", <<>>) /\ Members(<<>>) = {}
  BY <1>1, EmptyFits
<1>3. Content(tag, elems)
  BY <1>1, <1>2 DEF Init, Content, Fits
<1>4. Lodged(NoIterator, tag, elems)
  BY DEF Lodged, NoIterator, Valid
<1> QED
  BY <1>3, <1>4 DEF Init, TInv

LEMMA NextTyped == TInv /\ [Next]_vars => TInv'
<1> SUFFICES ASSUME TInv, [Next]_vars PROVE TInv'
  OBVIOUS
<1>1. CASE LoopStep
  BY <1>1, LoopTyped
<1>2. ASSUME NEW c \in Vals,
             \/ AssignLeaf(c) \/ AssignContainer(c) \/ Destroy(c) \/ Construct(c)
             \/ PushBack(c) \/ PushBackWraps(c) \/ IndexKey(c) \/ ForEach(c)
      PROVE  TInv'
  BY <1>2, AssignTyped, GrowTyped, BeginTyped
<1>3. ASSUME NEW c \in Vals, NEW l \in Labels, Remove(c, l) \/ Find(c, l)
      PROVE  TInv'
  BY <1>3, RemoveTyped, BeginTyped
<1>4. ASSUME NEW c \in Vals, NEW d \in Vals, Move(c, d) \/ Swap(c, d)
      PROVE  TInv'
  BY <1>4, TransferTyped
<1>5. CASE UNCHANGED vars
  BY <1>5 DEF vars, TInv
<1> QED
  BY <1>1, <1>2, <1>3, <1>4, <1>5 DEF Next

\* No element is ever in two Values or twice in one, a scalar has none, and an
\* iterator that is not lost is in a container of its kind, also in a program that
\* has left the loop's Value another container.
THEOREM IteratorsTypeCorrect == Spec => []TypeOK
<1> QED
  BY InitTyped, NextTyped, TInvIsType, PTL DEF Spec

-----------------------------------------------------------------------------
(* What find has found.                                                    *)

\* One call of a program on its Values.
ACall ==
  \E c \in Vals :
    \/ AssignLeaf(c) \/ AssignContainer(c) \/ Destroy(c) \/ Construct(c)
    \/ PushBack(c) \/ PushBackWraps(c) \/ IndexKey(c)
    \/ \E l \in Labels : Remove(c, l)
    \/ \E d \in Vals : Move(c, d) \/ Swap(c, d)

LEMMA NextIs ==
  Next => ACall \/ LoopStep \/ \E c \in Vals : ForEach(c) \/ \E l \in Labels : Find(c, l)
BY DEF Next, ACall

LEMMA ACallDoes ==
  ASSUME IInv, ACall
  PROVE  /\ Calls /\ Undisturbed
         /\ pc' = pc /\ goal' = goal /\ start' = start /\ seen' = seen
         /\ tame' => tame
<1>1. Calls /\ Undisturbed
  <2>1. PICK c \in Vals :
          \/ AssignLeaf(c) \/ AssignContainer(c) \/ Destroy(c) \/ Construct(c)
          \/ PushBack(c) \/ PushBackWraps(c) \/ IndexKey(c)
          \/ \E l \in Labels : Remove(c, l)
          \/ \E d \in Vals : Move(c, d) \/ Swap(c, d)
    BY DEF ACall
  <2>2. Calls
    BY <2>1 DEF AssignLeaf, AssignContainer, Destroy, Construct, PushBack, PushBackWraps,
                IndexKey, Remove, Move, Swap
  <2>3. Undisturbed
    BY <2>1, AssignKeeps, GrowKeeps, RemoveKeeps, TransferKeeps
  <2> QED
    BY <2>2, <2>3
<1> QED
  BY <1>1 DEF Calls, Calling

LEMMA FoundHasLabel ==
  ASSUME Stored, NEW c \in Vals, NEW k, FirstWith(c, k) # End
  PROVE  Label[FirstWith(c, k)] = k
<1> DEFINE hits == {n \in DOMAIN elems[c] : Label[elems[c][n]] = k}
<1>1. hits \in SUBSET Nat /\ \A n \in hits : Label[elems[c][n]] = k
  BY DEF Stored
<1>2. hits # {} => (CHOOSE n \in hits : \A m \in hits : n <= m) \in hits
  <2> HIDE DEF hits
  <2>1. hits # {} => \E n \in hits : \A m \in hits : n <= m
    BY <1>1, First
  <2> QED
    BY <2>1
<1>3. FirstWith(c, k) = IF hits = {} THEN End
                        ELSE elems[c][CHOOSE n \in hits : \A m \in hits : n <= m]
  BY DEF FirstWith
<1> HIDE DEF hits
<1> QED
  BY <1>1, <1>2, <1>3

\* What find looks for in a Value with the tag t.
Wanted(t) == IF t = "Map" THEN asString[goal] ELSE goal

\* The iterator is where find has put it, or the Value has lost the container.
FindInv ==
  /\ pc = "idle" => goal = None
  /\ pc = "found" => goal # None
  /\ tame /\ pc # "idle" /\ goal # None /\ Iterates(it) /\ Selected(it).at # End =>
       Label[Selected(it).at] = Wanted(tag[it.parent])

LEMMA CallFinds ==
  ASSUME IInv, FindInv, ACall
  PROVE  FindInv'
<1>1. Undisturbed /\ pc' = pc /\ goal' = goal /\ (tame' => tame)
  BY ACallDoes
<1>2. tame' /\ pc # "idle" /\ Iterates(it)' =>
        /\ Iterates(it) /\ it'.parent = it.parent
        /\ tag'[it.parent] = tag[it.parent] /\ Selected(it)' = Selected(it)
  BY <1>1 DEF Undisturbed
<1> QED
  BY <1>1, <1>2 DEF FindInv, Wanted

LEMMA BeginFinds ==
  ASSUME IInv, FindInv, NEW c \in Vals, ForEach(c) \/ \E l \in Labels : Find(c, l)
  PROVE  FindInv'
<1>0. pc = "idle" /\ goal = None /\ Stored /\ tag' = tag /\ elems' = elems
      /\ pc' \in {"test", "found"}
  BY DEF ForEach, Find, FindInv, IInv, store
<1>1. CASE ForEach(c)
  BY <1>0, <1>1 DEF ForEach, FindInv
<1>2. CASE \E l \in Labels : Find(c, l)
  <2>1. PICK l \in Labels : Find(c, l)
    BY <1>2
  <2>2. goal' = l /\ it' = At(c, Lookup(c, l)) /\ l # None
    BY <2>1, NameAssumption DEF Find, find
  <2>3. Lookup(c, l) # End =>
          Label[Lookup(c, l)] = IF tag[c] = "Map" THEN asString[l] ELSE l
    BY <1>0, FoundHasLabel DEF Lookup
  <2>4. CASE Lookup(c, l) = End
    <3>1. it' = Iterator(c, End)
      BY <2>2, <2>4 DEF At, end
    <3>2. Iterates(it') => Selected(it').at = End
      BY <3>1, MadeIterator
    <3> QED
      BY <1>0, <2>2, <3>2 DEF FindInv, Iterates, Selected
  <2>5. CASE Lookup(c, l) # End
    <3>1. it' = Iterator(c, Lookup(c, l)) /\ Lookup(c, l) \in Elems
      BY <1>0, <2>2, <2>5, FoundIsMember, MembersAreElems DEF At
    <3>2. it'.parent = c /\ (Iterates(it') => Selected(it').at = Lookup(c, l))
      BY <3>1, MadeIterator
    <3> QED
      BY <1>0, <2>2, <2>3, <2>5, <3>2 DEF FindInv, Iterates, Selected, Wanted
  <2> QED
    BY <2>4, <2>5
<1> QED
  BY <1>1, <1>2

LEMMA LoopFinds ==
  ASSUME FindInv, LoopStep
  PROVE  FindInv'
<1>1. CASE UseFound \/ Enter \/ Crash
  <2>1. tag' = tag /\ it' = it /\ goal' = goal /\ tame' = tame
        /\ (pc' = pc \/ pc' \notin {"idle", "found"}) /\ pc # "idle"
    BY <1>1 DEF UseFound, Enter, Crash, Undefined, store
  <2> QED
    BY <2>1 DEF FindInv, Iterates, Selected, Wanted
<1>2. CASE Advance
  BY <1>2 DEF Advance, FindInv
<1>3. CASE Finish \/ Leave
  BY <1>3 DEF Finish, Leave, Idle, FindInv
<1> QED
  BY <1>1, <1>2, <1>3 DEF LoopStep

LEMMA NextFinds == IInv /\ FindInv /\ [Next]_vars => FindInv'
<1> SUFFICES ASSUME IInv, FindInv, [Next]_vars PROVE FindInv'
  OBVIOUS
<1>1. CASE UNCHANGED vars
  BY <1>1 DEF vars, FindInv, Iterates, Selected, Wanted
<1>2. CASE Next
  BY <1>2, NextIs, CallFinds, BeginFinds, LoopFinds
<1> QED
  BY <1>1, <1>2

\* A loop's body runs only if the Value is a container.
LEMMA EnterAt ==
  ASSUME IInv, tame, Enter
  PROVE  Iterates(it) /\ Item(it) = Selected(it).at /\ Selected(it).at # End
         /\ Selected(it).at \in Members(elems[it.parent])
<1>1. Basics /\ Safe /\ pc = "test" /\ ~Equal(it, last) /\ Dereferenceable(it)
  BY DEF IInv, Enter
<1>2. Iterates(it)
  BY <1>1 DEF Basics, Equal
<1> QED
  BY <1>1, <1>2 DEF Item, Dereferenceable, Safe

\* What find has found is what was looked for when it is used, although the Value
\* may have been changed in between: what takes the element away takes the
\* container away, which the iterator sees.
THEOREM FindsWhatItFound == Spec => FindsIt
<1>1. Init => FindInv
  BY DEF Init, FindInv
<1>2. IInv /\ FindInv /\ [Next]_vars =>
        [tame /\ Enter /\ goal # None =>
          Label[Item(it)] = IF tag[it.parent] = "Map" THEN asString[goal] ELSE goal]_vars
  <2> SUFFICES ASSUME IInv, FindInv, tame, Enter, goal # None
               PROVE  Label[Item(it)] = Wanted(tag[it.parent])
    BY DEF Wanted
  <2>1. pc # "idle"
    BY DEF Enter
  <2> QED
    BY <2>1, EnterAt DEF FindInv
<1> QED
  BY <1>1, <1>2, InitSafe, NextSafe, NextFinds, PTL DEF Spec, FindsIt

-----------------------------------------------------------------------------
(* The elements a loop visits.                                             *)

\* a is earlier than b in t.
Before(t, a, b) == \E m, n \in DOMAIN t : m < n /\ t[m] = a /\ t[n] = b

LEMMA DomainOf ==
  ASSUME NEW s \in Seq(Elems)
  PROVE  DOMAIN s = 1..Len(s) /\ Len(s) \in Nat /\ DOMAIN s \subseteq Nat
         /\ \A n \in DOMAIN s : s[n] \in Elems /\ s[n] \in Members(s)
BY LenProperties DEF Members

LEMMA PartOfItself ==
  ASSUME NEW s \in Seq(Elems)
  PROVE  PartOf(s, s)
<1> DEFINE f == [n \in DOMAIN s |-> n]
<1>1. f \in [DOMAIN s -> DOMAIN s] /\ \A n \in DOMAIN s : f[n] = n
  OBVIOUS
<1> HIDE DEF f
<1> QED
  BY <1>1 DEF PartOf

LEMMA EmptyIsPart ==
  ASSUME NEW t \in Seq(Elems)
  PROVE  PartOf(<<>>, t)
<1> DEFINE f == [n \in DOMAIN <<>> |-> n]
<1>1. f \in [DOMAIN <<>> -> DOMAIN t] /\ DOMAIN <<>> = {}
  OBVIOUS
<1> HIDE DEF f
<1> QED
  BY <1>1 DEF PartOf

LEMMA PartOfPart ==
  ASSUME NEW s, NEW t, NEW u, PartOf(s, t), PartOf(t, u)
  PROVE  PartOf(s, u)
<1>1. PICK f \in [DOMAIN s -> DOMAIN t] :
        /\ \A m, n \in DOMAIN s : m < n => f[m] < f[n]
        /\ \A n \in DOMAIN s : s[n] = t[f[n]]
  BY DEF PartOf
<1>2. PICK g \in [DOMAIN t -> DOMAIN u] :
        /\ \A m, n \in DOMAIN t : m < n => g[m] < g[n]
        /\ \A n \in DOMAIN t : t[n] = u[g[n]]
  BY DEF PartOf
<1> DEFINE h == [n \in DOMAIN s |-> g[f[n]]]
<1>3. h \in [DOMAIN s -> DOMAIN u] /\ \A n \in DOMAIN s : h[n] = g[f[n]]
  BY <1>1, <1>2
<1> HIDE DEF h
<1>4. \A m, n \in DOMAIN s : m < n => h[m] < h[n]
  BY <1>1, <1>2, <1>3
<1>5. \A n \in DOMAIN s : s[n] = u[h[n]]
  BY <1>1, <1>2, <1>3
<1> QED
  BY <1>3, <1>4, <1>5 DEF PartOf

LEMMA WithoutIsPart ==
  ASSUME NEW s \in Seq(Elems), NEW n \in DOMAIN s
  PROVE  PartOf(Without(s, n), s)
<1> DEFINE w == Without(s, n)
           f == [m \in DOMAIN w |-> IF m < n THEN m ELSE m + 1]
<1>1. DOMAIN w = 1..(Len(s) - 1)
      /\ \A m \in 1..(Len(s) - 1) : w[m] = IF m < n THEN s[m] ELSE s[m + 1]
  BY WithoutOne
<1>2. DOMAIN s = 1..Len(s) /\ Len(s) \in Nat /\ n \in 1..Len(s)
  BY DomainOf
<1> HIDE DEF w
<1>3. f \in [DOMAIN w -> DOMAIN s]
  BY <1>1, <1>2
<1>4. \A m \in DOMAIN w : f[m] = IF m < n THEN m ELSE m + 1
  OBVIOUS
<1> HIDE DEF f
<1>5. \A i, j \in DOMAIN w : i < j => f[i] < f[j]
  BY <1>1, <1>2, <1>4
<1>6. \A m \in DOMAIN w : w[m] = s[f[m]]
  BY <1>1, <1>4
<1> QED
  BY <1>3, <1>5, <1>6 DEF PartOf, w

LEMMA PartIsIn ==
  ASSUME NEW s, NEW t, PartOf(s, t)
  PROVE  Members(s) \subseteq Members(t)
BY DEF PartOf, Members

\* A part keeps the order.
LEMMA PartKeepsOrder ==
  ASSUME NEW s \in Seq(Elems), NEW t \in Seq(Elems), Distinct(t), PartOf(s, t),
         NEW i \in DOMAIN s, NEW j \in DOMAIN s
  PROVE  i < j <=> Before(t, s[i], s[j])
<1>1. PICK f \in [DOMAIN s -> DOMAIN t] :
        /\ \A m, n \in DOMAIN s : m < n => f[m] < f[n]
        /\ \A n \in DOMAIN s : s[n] = t[f[n]]
  BY DEF PartOf
<1>2. i < j => Before(t, s[i], s[j])
  BY <1>1 DEF Before
<1>3. ASSUME Before(t, s[i], s[j]) PROVE i < j
  <2>1. PICK m \in DOMAIN t, n \in DOMAIN t : m < n /\ t[m] = s[i] /\ t[n] = s[j]
    BY <1>3 DEF Before
  <2>2. m = f[i] /\ n = f[j]
    BY <1>1, <2>1 DEF Distinct
  <2>3. f[i] < f[j] /\ f[i] \in Nat /\ f[j] \in Nat /\ i \in Nat /\ j \in Nat
    BY <1>1, <2>1, <2>2, DomainOf
  <2>4. j < i => f[j] < f[i]
    BY <1>1
  <2> QED
    BY <2>3, <2>4
<1> QED
  BY <1>2, <1>3

LEMMA BeforeIsOrder ==
  ASSUME NEW t \in Seq(Elems), Distinct(t), NEW a, NEW b, Before(t, a, b), NEW c, Before(t, b, c)
  PROVE  Before(t, a, c)
<1>1. PICK m \in DOMAIN t, n \in DOMAIN t : m < n /\ t[m] = a /\ t[n] = b
  BY DEF Before
<1>2. PICK k \in DOMAIN t, l \in DOMAIN t : k < l /\ t[k] = b /\ t[l] = c
  BY DEF Before
<1>3. n = k
  BY <1>1, <1>2 DEF Distinct
<1>4. m \in Nat /\ n \in Nat /\ l \in Nat
  BY DomainOf
<1>5. m < l
  BY <1>1, <1>2, <1>3, <1>4
<1> QED
  BY <1>1, <1>2, <1>5 DEF Before

\* A part has no more elements than the whole.
LEMMA PartIsShorter ==
  ASSUME NEW s \in Seq(Elems), NEW t \in Seq(Elems), PartOf(s, t)
  PROVE  Len(s) <= Len(t)
<1>1. PICK f \in [DOMAIN s -> DOMAIN t] : \A m, n \in DOMAIN s : m < n => f[m] < f[n]
  BY DEF PartOf
<1>2. Len(s) \in Nat /\ Len(t) \in Nat /\ DOMAIN s = 1..Len(s) /\ DOMAIN t = 1..Len(t)
  BY DomainOf
<1>3. f \in Injection(DOMAIN s, DOMAIN t)
  <2>1. \A m, n \in DOMAIN s : f[m] = f[n] => m = n
    BY <1>1, <1>2
  <2>2. DOMAIN f = DOMAIN s
    OBVIOUS
  <2>3. IsInjective(f)
    BY <2>1, <2>2, Zenon DEF IsInjective
  <2> QED
    BY <2>3 DEF Injection
<1>4. IsFiniteSet(DOMAIN t) /\ Cardinality(DOMAIN t) = Len(t) /\ Cardinality(DOMAIN s) = Len(s)
  <2>1. ASSUME NEW n \in Nat PROVE IsFiniteSet(1..n) /\ Cardinality(1..n) = n
    <3>1. Cardinality(1..n) = IF 1 > n THEN 0 ELSE n - 1 + 1
      BY FS_Interval
    <3>2. IsFiniteSet(1..n)
      BY FS_Interval
    <3> QED
      BY <3>1, <3>2
  <2> QED
    BY <1>2, <2>1
<1>5. Cardinality(DOMAIN s) <= Cardinality(DOMAIN t)
  BY <1>3, <1>4, FS_Injection
<1> QED
  BY <1>4, <1>5

\* One more element, later in the whole than those before.
LEMMA PartGrows ==
  ASSUME NEW s \in Seq(Elems), NEW t \in Seq(Elems), Distinct(t), PartOf(s, t),
         NEW e \in Members(t), \A x \in Members(s) : Before(t, x, e)
  PROVE  /\ Append(s, e) \in Seq(Elems) /\ PartOf(Append(s, e), t)
         /\ Members(Append(s, e)) = Members(s) \cup {e}
<1> DEFINE w == Append(s, e)
           k == Len(s) + 1
<1>1. e \in Elems
  BY DomainOf DEF Members
<1>2. s \in Seq(Elems) /\ Len(s) \in Nat /\ DOMAIN s = 1..Len(s)
  BY DomainOf
<1>3. w \in Seq(Elems) /\ DOMAIN w = 1..(Len(s) + 1)
      /\ \A m \in 1..Len(s) : w[m] = s[m]
      /\ w[k] = e
  BY <1>1, <1>2
<1>4. k \notin DOMAIN s /\ 1..(Len(s) + 1) = DOMAIN s \cup {k}
      /\ \A m \in DOMAIN s : m < k
  BY <1>2
<1>5. DOMAIN w = DOMAIN s \cup {k} /\ w[k] = e /\ \A m \in DOMAIN s : w[m] = s[m]
  BY <1>2, <1>3, <1>4
<1> HIDE DEF w, k
<1>6. Members(w) = Members(s) \cup {e}
  BY <1>5, Zenon DEF Members
<1>7. PICK f \in [DOMAIN s -> DOMAIN t] :
        /\ \A m, n \in DOMAIN s : m < n => f[m] < f[n]
        /\ \A n \in DOMAIN s : s[n] = t[f[n]]
  BY DEF PartOf
<1>8. PICK p \in DOMAIN t : t[p] = e
  BY DEF Members
<1>9. ASSUME NEW m \in DOMAIN s PROVE f[m] < p
  <2>1. Before(t, s[m], e)
    BY <1>2, DomainOf
  <2>2. PICK i \in DOMAIN t, j \in DOMAIN t : i < j /\ t[i] = s[m] /\ t[j] = e
    BY <2>1 DEF Before
  <2> QED
    BY <1>7, <1>8, <2>2 DEF Distinct
<1> DEFINE g == [m \in DOMAIN w |-> IF m = k THEN p ELSE f[m]]
<1>10. g \in [DOMAIN w -> DOMAIN t] /\ g[k] = p /\ \A m \in DOMAIN s : g[m] = f[m]
  BY <1>4, <1>5, <1>7
<1> HIDE DEF g
<1>11. \A m \in DOMAIN w : w[m] = t[g[m]]
  BY <1>5, <1>7, <1>8, <1>10
<1>12. ASSUME NEW i \in DOMAIN w, NEW j \in DOMAIN w, i < j PROVE g[i] < g[j]
  <2>1. i # k
    <3>1. i = k => j = k \/ j < k
      BY <1>4, <1>5
    <3>2. k \in Nat
      BY <1>2 DEF k
    <3>3. j \in Nat
      BY <1>3, DomainOf
    <3> QED
      BY <1>12, <3>1, <3>2, <3>3
  <2>2. i \in DOMAIN s
    BY <1>5, <2>1
  <2> QED
    BY <1>5, <1>7, <1>9, <1>10, <1>12, <2>2
<1> QED
  BY <1>3, <1>6, <1>10, <1>11, <1>12 DEF PartOf, w

\* Of a container with the elements s, a loop that began with the elements b has
\* visited those of w and is about to look at e.
Facing(s, b, w, e) ==
  /\ s \in Seq(Elems) /\ b \in Seq(Elems) /\ w \in Seq(Elems) /\ Distinct(b)
  /\ PartOf(s, b) /\ PartOf(w, b)
  /\ e # End => \A x \in Members(w) : Before(b, x, e)
  /\ \A x \in Members(s) : x \in Members(w) \/ (e # End /\ (x = e \/ Before(b, e, x)))

\* It has visited e, and is in the body.
Inside(s, b, w, e) ==
  /\ s \in Seq(Elems) /\ b \in Seq(Elems) /\ w \in Seq(Elems) /\ Distinct(b)
  /\ PartOf(s, b) /\ PartOf(w, b)
  /\ \A x \in Members(w) : x = e \/ Before(b, x, e)
  /\ \A x \in Members(s) : x \in Members(w) \/ Before(b, e, x)

\* For as long as the loop's Value has a container.
LoopInv ==
  /\ pc = "idle" => goal = None /\ start = <<>> /\ seen = <<>>
  /\ tame /\ goal = None /\ Iterates(it) =>
       /\ pc = "test" => Facing(elems[it.parent], start, seen, Selected(it).at)
       /\ pc = "body" => Inside(elems[it.parent], start, seen, Selected(it).at)

LEMMA BeginsFacing ==
  ASSUME NEW s \in Seq(Elems), Distinct(s)
  PROVE  Facing(s, s, <<>>, IF s = <<>> THEN End ELSE s[1])
<1>1. DOMAIN s = 1..Len(s) /\ Len(s) \in Nat /\ \A n \in DOMAIN s : s[n] \in Elems
  BY DomainOf
<1>2. PartOf(s, s) /\ PartOf(<<>>, s) /\ Members(<<>>) = {} /\ <<>> \in Seq(Elems)
  BY PartOfItself, EmptyIsPart DEF Members
<1>3. ASSUME NEW n \in DOMAIN s
      PROVE  s # <<>> /\ s[1] # End /\ (s[n] = s[1] \/ Before(s, s[1], s[n]))
  <2>1. 1 \in DOMAIN s /\ (n = 1 \/ 1 < n)
    BY <1>1
  <2> QED
    BY <1>1, <2>1, NameAssumption DEF Before
<1>4. \A x \in Members(s) : s # <<>> /\ s[1] # End /\ (x = s[1] \/ Before(s, s[1], x))
  BY <1>3 DEF Members
<1> QED
  BY <1>2, <1>4 DEF Facing

LEMMA FacingEnters ==
  ASSUME NEW s, NEW b, NEW w, NEW e \in Members(s), e # End, Facing(s, b, w, e)
  PROVE  Inside(s, b, IF Len(w) > Len(b) THEN w ELSE Append(w, e), e)
<1>1. e \in Members(b)
  BY PartIsIn DEF Facing
<1>2. /\ Append(w, e) \in Seq(Elems) /\ PartOf(Append(w, e), b)
      /\ Members(Append(w, e)) = Members(w) \cup {e}
  BY <1>1, PartGrows DEF Facing
<1>3. Len(w) <= Len(b) /\ Len(w) \in Nat /\ Len(b) \in Nat
  BY PartIsShorter, DomainOf DEF Facing
<1>4. ~(Len(w) > Len(b))
  BY <1>3
<1> DEFINE v == Append(w, e)
<1>5. v \in Seq(Elems) /\ PartOf(v, b) /\ Members(v) = Members(w) \cup {e}
  BY <1>2
<1> HIDE DEF v
<1>6. Inside(s, b, v, e)
  BY <1>5 DEF Facing, Inside
<1> QED
  BY <1>4, <1>6 DEF v

LEMMA InsideAdvances ==
  ASSUME Stored, NEW c \in Vals, NEW e \in Members(elems[c]), NEW b, NEW w,
         Inside(elems[c], b, w, e)
  PROVE  Facing(elems[c], b, w, After(c, e))
<1> DEFINE s == elems[c]
           n == CHOOSE n \in DOMAIN s : s[n] = e
           f == After(c, e)
<1>1. s \in Seq(Elems) /\ DOMAIN s = 1..Len(s) /\ Len(s) \in Nat
      /\ \A m \in DOMAIN s : s[m] \in Elems
  BY DomainOf DEF Inside
<1>2. n \in DOMAIN s /\ s[n] = e
  BY DEF Members
<1>3. f = IF n = Len(s) THEN End ELSE s[n + 1]
  BY DEF After
<1> HIDE DEF n, f
<1>4. n # Len(s) => n + 1 \in DOMAIN s /\ n < n + 1
  BY <1>1, <1>2
<1>5. Inside(s, b, w, e)
  OBVIOUS
<1> HIDE DEF s
<1>6. ASSUME NEW i \in DOMAIN s, NEW j \in DOMAIN s
      PROVE  i < j <=> Before(b, s[i], s[j])
  BY <1>5, PartKeepsOrder DEF Inside
<1>7. f # End => Before(b, e, f)
  BY <1>2, <1>3, <1>4, <1>6
<1>8. f # End => \A x \in Members(w) : Before(b, x, f)
  BY <1>5, <1>7, BeforeIsOrder DEF Inside
<1>9. ASSUME NEW j \in DOMAIN s, Before(b, e, s[j])
      PROVE  f # End /\ (s[j] = f \/ Before(b, f, s[j]))
  <2>1. n < j
    BY <1>2, <1>6, <1>9
  <2>2. n # Len(s) /\ (j = n + 1 \/ n + 1 < j)
    BY <1>1, <1>2, <2>1
  <2>3. f = s[n + 1] /\ n + 1 \in DOMAIN s
    BY <1>3, <1>4, <2>2
  <2>4. f # End
    BY <1>1, <2>3, NameAssumption
  <2> QED
    BY <1>6, <2>2, <2>3, <2>4
<1>10. \A x \in Members(s) : x \in Members(w) \/ (f # End /\ (x = f \/ Before(b, f, x)))
  <2>1. ASSUME NEW j \in DOMAIN s, s[j] \notin Members(w)
        PROVE  Before(b, e, s[j])
    BY <1>5, <2>1, DomainOf DEF Inside
  <2> QED
    BY <1>9, <2>1 DEF Members
<1>11. Facing(s, b, w, f)
  BY <1>5, <1>8, <1>10 DEF Inside, Facing
<1> QED
  BY <1>11 DEF s, f

LEMMA InsideStays ==
  ASSUME NEW s, NEW r \in Seq(Elems), PartOf(r, s), NEW b, NEW w, NEW e, Inside(s, b, w, e)
  PROVE  Inside(r, b, w, e)
<1>1. PartOf(r, b)
  BY PartOfPart DEF Inside
<1>2. Members(r) \subseteq Members(s)
  BY PartIsIn
<1> QED
  BY <1>1, <1>2 DEF Inside

LEMMA CallVisits ==
  ASSUME IInv, TInv, LoopInv, ACall
  PROVE  LoopInv'
<1>1. Undisturbed /\ pc' = pc /\ goal' = goal /\ start' = start /\ seen' = seen /\ (tame' => tame)
      /\ Calls /\ Stored /\ Stored'
  <2>1. Stored'
    BY AssignKeeps, GrowKeeps, RemoveKeeps, TransferKeeps DEF ACall, IInv
  <2> QED
    BY <2>1, ACallDoes DEF IInv
<1>2. SUFFICES ASSUME tame', goal = None, pc = "body", Iterates(it)'
               PROVE  Inside(elems[it.parent], start, seen, Selected(it).at)'
  BY <1>1 DEF LoopInv, Calls, Calling
<1>3. /\ Iterates(it) /\ it'.parent = it.parent
      /\ Selected(it)' = Selected(it) /\ Fewer
  BY <1>1, <1>2 DEF Undisturbed
<1>4. it.parent \in Vals
  BY <1>1, <1>2 DEF IInv, Basics, Iterators
<1> DEFINE s == elems[it.parent]
           r == elems'[it.parent]
<1>5. s \in Seq(Elems) /\ r \in Seq(Elems)
  BY <1>1, <1>4 DEF Stored
<1>6. r = s \/ \E n \in DOMAIN s : r = Without(s, n)
  BY <1>3 DEF Fewer
<1> HIDE DEF s, r
<1>7. PartOf(r, s)
  BY <1>5, <1>6, PartOfItself, WithoutIsPart
<1>8. Inside(s, start, seen, Selected(it).at)
  BY <1>1, <1>2, <1>3 DEF LoopInv, s
<1>9. Inside(r, start, seen, Selected(it).at)
  BY <1>5, <1>7, <1>8, InsideStays
<1> QED
  BY <1>1, <1>3, <1>9 DEF r

LEMMA BeginVisits ==
  ASSUME TInv, LoopInv, NEW c \in Vals, ForEach(c) \/ \E l \in Labels : Find(c, l)
  PROVE  LoopInv'
<1>1. CASE ForEach(c)
  <2> DEFINE s == elems[c]
             e == IF s = <<>> THEN End ELSE s[1]
  <2>1. /\ pc = "idle" /\ pc' = "test" /\ it' = Iterator(c, e)
        /\ start' = s /\ seen' = <<>> /\ tag' = tag /\ elems' = elems
    BY <1>1 DEF ForEach, begin, store, LoopInv
  <2>2. s \in Seq(Elems) /\ Distinct(s)
    BY DEF TInv, Content, Fits
  <2>3. Facing(s, s, <<>>, e)
    BY <2>2, BeginsFacing
  <2>4. e \in Elems \cup {End}
    BY <2>2
  <2> HIDE DEF e
  <2>5. it'.parent = c /\ (Iterates(it') => Selected(it').at = e)
    BY <2>1, <2>4, MadeIterator
  <2>6. Iterates(it)' => Selected(it)'.at = e
    BY <2>1, <2>5 DEF Iterates, Selected
  <2> QED
    BY <2>1, <2>3, <2>5, <2>6 DEF LoopInv
<1>2. CASE \E l \in Labels : Find(c, l)
  BY <1>2, NameAssumption DEF Find, LoopInv
<1> QED
  BY <1>1, <1>2

LEMMA LoopVisits ==
  ASSUME IInv, TInv, LoopInv, FindInv, LoopStep
  PROVE  LoopInv'
<1>0. Stored
  BY DEF IInv
<1>1. CASE UseFound
  <2>1. pc = "found" /\ goal' = goal /\ pc' \in {"found", "test"}
        /\ tag' = tag /\ elems' = elems /\ it' = it /\ tame' = tame
    BY <1>1 DEF UseFound, store
  <2> QED
    BY <2>1 DEF LoopInv, FindInv
<1>2. CASE Enter
  <2>0. /\ pc = "test" /\ pc' = "body" /\ goal' = goal /\ tame' = tame /\ start' = start
        /\ tag' = tag /\ elems' = elems /\ it' = it
        /\ seen' = IF Len(seen) > Len(start) THEN seen ELSE Append(seen, Item(it))
    BY <1>2 DEF Enter, store
  <2>1. SUFFICES ASSUME tame, goal = None
                 PROVE  Inside(elems[it.parent], start, seen', Selected(it).at)
    BY <2>0 DEF LoopInv, Iterates, Selected
  <2>2. Iterates(it) /\ Item(it) = Selected(it).at /\ Selected(it).at # End
        /\ Selected(it).at \in Members(elems[it.parent])
    BY <1>2, <2>1, EnterAt
  <2>3. Facing(elems[it.parent], start, seen, Selected(it).at)
    BY <2>0, <2>1, <2>2 DEF LoopInv
  <2> QED
    BY <2>0, <2>2, <2>3, FacingEnters
<1>3. CASE Finish \/ Leave
  BY <1>3 DEF Finish, Leave, Idle, LoopInv
<1>4. CASE Advance
  <2>0. /\ pc = "body" /\ pc' = "test" /\ it' = Increment(it) /\ tame' = tame /\ goal' = goal
        /\ tag' = tag /\ elems' = elems /\ start' = start /\ seen' = seen
    BY <1>4 DEF Advance, store
  <2>1. SUFFICES ASSUME tame, goal = None, Iterates(it)'
                 PROVE  Facing(elems[it.parent], start, seen, Selected(it).at)'
    BY <2>0 DEF LoopInv
  <2>2. it \in Iterators /\ it.parent \in Vals /\ Safe
    BY <2>0, <2>1 DEF IInv, Basics, Iterators
  <2>3. it'.parent = it.parent
    BY <2>0, <2>2 DEF Increment, Iterators
  <2>4. Iterates(it)
    BY <2>0, <2>1, <2>3 DEF Iterates
  <2> DEFINE e == Selected(it).at
             f == After(it.parent, e)
  <2>5. e \in Members(elems[it.parent]) /\ Selected(it).home = it.parent
    BY <2>0, <2>2, <2>4 DEF Safe, PlacesIn, Place
  <2>6. Facing(elems[it.parent], start, seen, f)
    BY <1>0, <2>0, <2>1, <2>2, <2>4, <2>5, InsideAdvances DEF LoopInv
  <2>7. it' = IF tag[it.parent] = "Array" THEN [it EXCEPT !.arr = Place(it.parent, f)]
              ELSE [it EXCEPT !.map = Place(it.parent, f)]
    BY <2>0, <2>4, <2>5 DEF Increment, Step, Selected
  <2> HIDE DEF e, f
  <2>8. Selected(it)' = Place(it.parent, f)
    BY <2>0, <2>2, <2>3, <2>7 DEF Selected, Iterators
  <2>9. Selected(it)'.at = f
    BY <2>8 DEF Place
  <2> QED
    BY <2>0, <2>3, <2>6, <2>9
<1>5. CASE Crash
  BY <1>5 DEF Crash, store, LoopInv, Iterates, Selected
<1> QED
  BY <1>1, <1>2, <1>3, <1>4, <1>5 DEF LoopStep

LEMMA NextVisits == IInv /\ TInv /\ FindInv /\ LoopInv /\ [Next]_vars => LoopInv'
<1> SUFFICES ASSUME IInv, TInv, FindInv, LoopInv, [Next]_vars PROVE LoopInv'
  OBVIOUS
<1>1. CASE UNCHANGED vars
  BY <1>1 DEF vars, LoopInv, Iterates, Selected
<1>2. CASE Next
  BY <1>2, NextIs, CallVisits, BeginVisits, LoopVisits
<1> QED
  BY <1>1, <1>2

\* A loop visits only elements that are there, and whatever its body does to other
\* Values, and removes from a Map, it comes to its end with every element that is
\* there still visited, and none out of the order in which it began.
THEOREM LoopsVisitEach == Spec => VisitsEach
<1>1. Init => FindInv /\ LoopInv
  BY DEF Init, FindInv, LoopInv, Iterates
<1> DEFINE Visiting ==
      tame =>
       /\ Enter => Item(it) \in Members(elems[it.parent])
       /\ Finish /\ goal = None /\ Iterates(it) =>
            Members(elems[it.parent]) \subseteq Members(seen) /\ PartOf(seen, start)
<1>2. IInv /\ LoopInv => Visiting
  <2>1. SUFFICES ASSUME IInv, LoopInv, tame PROVE Visiting
    OBVIOUS
  <2>2. ASSUME Enter PROVE Item(it) \in Members(elems[it.parent])
    BY <2>1, <2>2, EnterAt
  <2>3. ASSUME Finish, goal = None, Iterates(it)
        PROVE  Members(elems[it.parent]) \subseteq Members(seen) /\ PartOf(seen, start)
    <3>1. pc = "test" /\ Equal(it, last)
      BY <2>3 DEF Finish
    <3>2. Selected(it).at = End
      BY <2>1, <2>3, <3>1 DEF IInv, Safe, Equal, Place
    <3>3. Facing(elems[it.parent], start, seen, End)
      BY <2>1, <2>3, <3>1, <3>2 DEF LoopInv
    <3> QED
      BY <3>3 DEF Facing
  <2> QED
    BY <2>2, <2>3
<1>3. IInv /\ LoopInv => [Visiting]_vars
  BY <1>2
<1>4. Spec => [][Visiting]_vars
  <2> HIDE DEF Visiting
  <2> QED
    BY <1>1, <1>3, InitSafe, NextSafe, InitTyped, NextTyped, NextFinds, NextVisits, PTL DEF Spec
<1> QED
  BY <1>4 DEF VisitsEach

-----------------------------------------------------------------------------
(* What NoUB leaves out.                                                   *)

\* The end that a loop compares with is that of its own Value, or lost.
EndInv ==
  /\ last.arr \in {Lost, Place(last.parent, End)}
  /\ last.map \in {Lost, Place(last.parent, End)}

\* The end of a container does not move with its content.
LEMMA EndIsCarried ==
  ASSUME NEW home \in [Vals -> Vals \cup {Lost}], NEW gone, Carry(home, gone), EndInv
  PROVE  /\ last'.parent = last.parent
         /\ last'.arr \in {Lost, last.arr} /\ last'.map \in {Lost, last.map}
         /\ Place(last.parent, End) \in gone \/ home[last.parent] # last.parent =>
              last'.arr = Lost /\ last'.map = Lost
<1>1. /\ last'.parent = last.parent
      /\ last'.arr = Carried(last.arr, home, gone) /\ last'.map = Carried(last.map, home, gone)
  BY DEF Carry, CarriedIterator
<1>2. ASSUME NEW p \in {Lost, Place(last.parent, End)}
      PROVE  /\ Carried(p, home, gone) \in {Lost, p}
             /\ Place(last.parent, End) \in gone \/ home[last.parent] # last.parent =>
                  Carried(p, home, gone) = Lost
  BY DEF Carried, Place
<1> QED
  BY <1>1, <1>2 DEF EndInv

LEMMA CallCarries ==
  ASSUME ACall
  PROVE  \E home \in [Vals -> Vals \cup {Lost}] : \E gone : Carry(home, gone)
<1>1. ASSUME NEW gone, Invalidate(gone)
      PROVE  \E home \in [Vals -> Vals \cup {Lost}] : \E g : Carry(home, g)
  BY <1>1, StayType DEF Invalidate
<1>2. PICK c \in Vals :
          \/ AssignLeaf(c) \/ AssignContainer(c) \/ Destroy(c) \/ Construct(c)
          \/ PushBack(c) \/ PushBackWraps(c) \/ IndexKey(c)
          \/ \E l \in Labels : Remove(c, l)
          \/ \E d \in Vals : Move(c, d) \/ Swap(c, d)
  BY DEF ACall
<1>3. CASE AssignLeaf(c) \/ AssignContainer(c) \/ Destroy(c) \/ Construct(c) \/ PushBack(c)
           \/ PushBackWraps(c) \/ \E l \in Labels : Remove(c, l)
  <2>1. \E gone : Invalidate(gone)
    BY <1>3 DEF AssignLeaf, AssignContainer, Destroy, Construct, PushBack, PushBackWraps, Remove
  <2> QED
    BY <1>1, <2>1
<1>4. CASE IndexKey(c)
  <2>1. \E gone : Invalidate(gone)
    BY <1>4 DEF IndexKey
  <2> QED
    BY <1>1, <2>1
<1>5. CASE \E d \in Vals : Move(c, d) \/ Swap(c, d)
  <2>1. PICK d \in Vals : Move(c, d) \/ Swap(c, d)
    BY <1>5
  <2>2. CASE Move(c, d)
    <3> DEFINE home == [Stay EXCEPT ![c] = Lost, ![d] = c]
    <3>1. home \in [Vals -> Vals \cup {Lost}]
      BY StayType
    <3>2. Carry(home, {})
      BY <2>2 DEF Move
    <3> HIDE DEF home
    <3> QED
      BY <3>1, <3>2
  <2>3. CASE Swap(c, d)
    <3> DEFINE home == [Stay EXCEPT ![c] = d, ![d] = c]
    <3>1. home \in [Vals -> Vals \cup {Lost}]
      BY StayType
    <3>2. Carry(home, {})
      BY <2>3 DEF Swap
    <3> HIDE DEF home
    <3> QED
      BY <3>1, <3>2
  <2> QED
    BY <2>1, <2>2, <2>3
<1> QED
  BY <1>2, <1>3, <1>4, <1>5

LEMMA NextEnds == EndInv /\ [Next]_vars => EndInv'
<1> SUFFICES ASSUME EndInv, [Next]_vars PROVE EndInv'
  OBVIOUS
<1>1. CASE ACall
  <2>1. PICK home \in [Vals -> Vals \cup {Lost}] : \E gone : Carry(home, gone)
    BY <1>1, CallCarries
  <2>2. PICK gone : Carry(home, gone)
    BY <2>1
  <2> QED
    BY <2>2, EndIsCarried DEF EndInv
<1>2. ASSUME NEW c, last' = end(c) PROVE EndInv'
  BY <1>2 DEF EndInv, end, Iterator
<1>3. CASE \E c \in Vals : ForEach(c) \/ \E l \in Labels : Find(c, l)
  BY <1>2, <1>3 DEF ForEach, Find
<1>4. CASE LoopStep
  <2>1. last' = last \/ last' = NoIterator \/ last' = end(it.parent)
    BY <1>4 DEF LoopStep, UseFound, Enter, Finish, Advance, Leave, Crash, Idle
  <2> QED
    BY <1>2, <2>1 DEF EndInv, NoIterator
<1>5. CASE UNCHANGED vars
  BY <1>5 DEF vars, EndInv
<1> QED
  BY <1>1, <1>3, <1>4, <1>5, NextIs

\* What a loop survives: its Value is a Map, and has all it had.
Survived ==
  /\ tag[it.parent] = "Map" /\ tag'[it.parent] = "Map"
  /\ Members(elems[it.parent]) \subseteq Members(elems'[it.parent])

\* After a rough call, the element or the end is lost.
Ruined ==
  \/ tag'[it.parent] = "Dead"
  \/ Selected(it)' = Lost
  \/ last'.arr = Lost /\ last'.map = Lost
  \/ tag'[it.parent] = "Array" /\ last'.arr = Lost
  \/ tag'[it.parent] = "Map" /\ last'.map = Lost

\* That is fatal to the loop.
LEMMA RuinedIsFatal ==
  ASSUME it' \in Iterators, it'.parent = it.parent, last'.parent = it.parent,
         tag'[it.parent] \in Containers \cup {"Dead"}, Ruined
  PROVE  ~Dereferenceable(it)' \/ ~Comparable(Increment(it), last)'
<1>1. CASE tag'[it.parent] = "Dead"
  BY <1>1 DEF Dereferenceable
<1>2. CASE tag'[it.parent] \in Containers
  <2>1. CASE Selected(it)' = Lost
    BY <1>2, <2>1 DEF Dereferenceable, Iterates
  <2>2. CASE Selected(it)' # Lost
    <3>1. Selected(last)' = Lost
      BY <1>2, <2>2 DEF Ruined, Selected, Containers
    <3>2. Increment(it)'.parent = it.parent
      BY DEF Increment, Iterators
    <3> QED
      BY <1>2, <3>1, <3>2 DEF Comparable, Iterates
  <2> QED
    BY <2>1, <2>2
<1> QED
  BY <1>1, <1>2

\* When every iterator of the loop's Value is invalidated.
LEMMA EndIsInvalidated ==
  ASSUME EndInv, NEW gone, Invalidate(gone), Place(last.parent, End) \in gone
  PROVE  last'.arr = Lost /\ last'.map = Lost
BY EndIsCarried, StayType DEF Invalidate

LEMMA RoughIsRuin ==
  ASSUME IInv, TInv, EndInv, ACall, tame, ~tame', pc = "body"
  PROVE  Ruined \/ Survived
<1>0. /\ it \in Iterators /\ last \in Iterators /\ last.parent = it.parent /\ it.parent \in Vals
      /\ tag \in [Vals -> Tags] /\ elems \in [Vals -> Seq(Elems)]
  BY DEF IInv, Basics, Iterators
<1>1. ASSUME NEW S, Judge(S) PROVE it.parent \in S /\ tag'[it.parent] \in Containers \cup {"Dead"}
  BY <1>1 DEF Judge
<1>2. Place(last.parent, End) \in PlacesIn(it.parent)
  BY <1>0 DEF PlacesIn
<1>3. PICK c \in Vals :
          \/ AssignLeaf(c) \/ AssignContainer(c) \/ Destroy(c) \/ Construct(c)
          \/ PushBack(c) \/ PushBackWraps(c) \/ IndexKey(c)
          \/ \E l \in Labels : Remove(c, l)
          \/ \E d \in Vals : Move(c, d) \/ Swap(c, d)
  BY DEF ACall
<1>4. CASE AssignLeaf(c) \/ AssignContainer(c) \/ Destroy(c) \/ PushBackWraps(c)
  <2>1. Judge({c}) /\ Invalidate(PlacesIn(c))
    BY <1>4 DEF AssignLeaf, AssignContainer, Destroy, PushBackWraps
  <2>2. it.parent = c
    BY <1>1, <2>1
  <2> QED
    BY <1>2, <2>1, <2>2, EndIsInvalidated DEF Ruined
<1>5. CASE Construct(c)
  <2>1. it.parent = c /\ tag'[c] \in Containers \cup {"Dead"} /\ Become(c, "Null", <<>>)
    BY <1>1, <1>5 DEF Construct
  <2> QED
    BY <1>0, <2>1 DEF Become, Containers
<1>6. CASE PushBack(c)
  <2>1. it.parent = c
    BY <1>1, <1>6 DEF PushBack
  <2>2. PICK gone \in {PlacesIn(c), {Place(c, End)}} : Invalidate(gone)
    BY <1>6 DEF PushBack
  <2> QED
    BY <1>0, <1>2, <2>1, <2>2, EndIsInvalidated DEF Ruined
<1>7. CASE IndexKey(c)
  <2>1. it.parent = c
    BY <1>1, <1>7 DEF IndexKey
  <2>2. PICK e \in Unused({}) :
       \/ \E n \in 0..Len(elems[c]) : Become(c, "Map", With(elems[c], n, e)) /\ Invalidate({})
       \/ \E s \in Orders(Members(elems[c]) \cup {e}) :
               Become(c, "Map", s) /\ Invalidate(PlacesIn(c))
    BY <1>7 DEF IndexKey, With
  <2>3. CASE Invalidate(PlacesIn(c))
    BY <1>2, <2>1, <2>3, EndIsInvalidated DEF Ruined
  <2>4. ASSUME NEW n \in 0..Len(elems[c]), Become(c, "Map", With(elems[c], n, e)), Invalidate({})
        PROVE  Ruined \/ Survived
    <3>1. tag' = [tag EXCEPT ![c] = "Map"] /\ elems' = [elems EXCEPT ![c] = With(elems[c], n, e)]
      BY <2>4 DEF Become
    <3>2. tag'[c] = "Map" /\ elems'[c] = With(elems[c], n, e)
      BY <1>0, <3>1
    <3>3. CASE tag[c] = "Map"
      <4>1. Distinct(elems[c]) /\ elems[c] \in Seq(Elems)
        BY DEF TInv, Content, Fits
      <4>2. e \in Elems /\ e \notin Members(elems[c])
        BY DEF Unused
      <4>3. Members(With(elems[c], n, e)) = Members(elems[c]) \cup {e}
        BY <4>1, <4>2, OneMoreFits
      <4> QED
        BY <2>1, <3>2, <3>3, <4>3 DEF Survived
    <3>4. CASE tag[c] # "Map"
      <4>1. last.map = Lost
        BY <1>0, <2>1, <3>4 DEF EndInv, TInv, Lodged, Valid, Place
      <4>2. Carry(Stay, {})
        BY <2>4 DEF Invalidate
      <4>3. last'.map = Lost
        BY <4>1, <4>2, EndIsCarried, StayType
      <4> QED
        BY <2>1, <3>2, <4>3 DEF Ruined
    <3> QED
      BY <3>3, <3>4
  <2> QED
    BY <2>2, <2>3, <2>4
<1>8. CASE \E l \in Labels : Remove(c, l)
  <2>1. PICK l \in Labels : Remove(c, l)
    BY <1>8
  <2> DEFINE e == Lookup(c, l)
  <2>2. /\ Become(c, tag[c], Without(elems[c], IndexOf(c, e))) /\ Invalidate(Erased(c, e))
        /\ Judge(IF tag[c] = "Map" /\ it.map # Place(c, e) THEN {} ELSE {c})
        /\ tag[c] \in Containers
    BY <2>1 DEF Remove
  <2> HIDE DEF e
  <2>3. it.parent = c /\ ~(tag[c] = "Map" /\ it.map # Place(c, e))
    BY <1>1, <2>2
  <2>4. tag' = tag
    BY <1>0, <2>2 DEF Become
  <2>5. CASE tag[c] = "Map"
    <3>1. Place(c, e) \in Erased(c, e) /\ it.map = Place(c, e)
      BY <2>3, <2>5 DEF Erased
    <3>2. it'.map = Lost
      BY <2>2, <3>1 DEF Invalidate, Carry, CarriedIterator, Carried
    <3>3. it'.parent = it.parent
      BY <2>2 DEF Invalidate, Carry, CarriedIterator
    <3> QED
      BY <2>3, <2>4, <2>5, <3>2, <3>3 DEF Ruined, Selected
  <2>6. CASE tag[c] # "Map"
    <3>1. Place(last.parent, End) \in Erased(c, e)
      BY <1>0, <2>3, <2>6 DEF Erased
    <3> QED
      BY <2>2, <3>1, EndIsInvalidated DEF Ruined
  <2> QED
    BY <2>5, <2>6
<1>9. CASE \E d \in Vals : Move(c, d) \/ Swap(c, d)
  <2>1. PICK d \in Vals : Move(c, d) \/ Swap(c, d)
    BY <1>9
  <2>2. it.parent \in {c, d} /\ tag'[it.parent] \in Containers \cup {"Dead"} /\ c # d
    BY <1>1, <2>1 DEF Move, Swap
  <2>3. CASE Move(c, d)
    <3> DEFINE home == [Stay EXCEPT ![c] = Lost, ![d] = c]
    <3>1. Carry(home, {}) /\ tag'[d] = "Null"
      BY <1>0, <2>3 DEF Move
    <3>2. home \in [Vals -> Vals \cup {Lost}] /\ home[c] = Lost
      BY <2>2, StayType
    <3> HIDE DEF home
    <3>3. it.parent = c
      BY <2>2, <3>1 DEF Containers
    <3>4. home[last.parent] # last.parent
      BY <1>0, <3>2, <3>3, NameAssumption
    <3> QED
      BY <3>1, <3>2, <3>4, EndIsCarried DEF Ruined
  <2>4. CASE Swap(c, d)
    <3> DEFINE home == [Stay EXCEPT ![c] = d, ![d] = c]
    <3>1. Carry(home, {})
      BY <2>4 DEF Swap
    <3>2. home \in [Vals -> Vals \cup {Lost}] /\ home[c] = d /\ home[d] = c
      BY <2>2, StayType
    <3> HIDE DEF home
    <3>4. home[last.parent] # last.parent
      BY <1>0, <2>2, <3>2
    <3> QED
      BY <3>1, <3>2, <3>4, EndIsCarried DEF Ruined
  <2> QED
    BY <2>1, <2>3, <2>4
<1> QED
  BY <1>3, <1>4, <1>5, <1>6, <1>7, <1>8, <1>9

LEMMA RoughCall ==
  ASSUME IInv, TInv, TInv', EndInv, Next, tame, ~tame', pc = "body"
  PROVE  \/ ~Dereferenceable(it)'
         \/ ~Comparable(Increment(it), last)'
         \/ Survived
<1>1. ACall
  <2>1. ~LoopStep
    BY DEF LoopStep, UseFound, Enter, Finish, Advance, Leave, Crash, Idle
  <2>2. ~\E c \in Vals : ForEach(c) \/ \E l \in Labels : Find(c, l)
    BY DEF ForEach, Find
  <2> QED
    BY <2>1, <2>2, NextIs
<1>2. Ruined \/ Survived
  BY <1>1, RoughIsRuin
<1>3. pc' = pc
  BY <1>1, ACallDoes
<1>4. it' \in Iterators
  BY <1>3, TheOther DEF TInv, Lodged
<1>5. it'.parent = it.parent /\ last'.parent = it.parent
  <2>1. PICK home \in [Vals -> Vals \cup {Lost}] : \E gone : Carry(home, gone)
    BY <1>1, CallCarries
  <2>2. last.parent = it.parent
    BY DEF IInv, Basics
  <2> QED
    BY <2>1, <2>2 DEF Carry, CarriedIterator
<1>6. tag'[it.parent] \in Containers \cup {"Dead"}
  <2>1. \E S : Judge(S)
    BY <1>1 DEF ACall, AssignLeaf, AssignContainer, Destroy, Construct, PushBack, PushBackWraps,
                IndexKey, Remove, Move, Swap
  <2> QED
    BY <2>1 DEF Judge
<1> QED
  BY <1>2, <1>4, <1>5, <1>6, RuinedIsFatal

\* No loop survives what NoUB excludes, but a Map that gets a new key and keeps all
\* the others: the discipline is as weak as it can be.
THEOREM RoughIsAlwaysFatal == Spec => RoughIsFatal
<1>1. Init => EndInv
  BY DEF Init, EndInv, NoIterator
<1> DEFINE Fatal ==
      tame /\ ~tame' /\ pc = "body" /\ goal = None =>
       \/ ~Dereferenceable(it)'
       \/ ~Comparable(Increment(it), last)'
       \/ tag[it.parent] = "Map" /\ tag'[it.parent] = "Map"
          /\ Members(elems[it.parent]) \subseteq Members(elems'[it.parent])
<1>2. IInv /\ TInv /\ TInv' /\ EndInv /\ [Next]_vars => [Fatal]_vars
  <2> SUFFICES ASSUME IInv, TInv, TInv', EndInv, Next PROVE Fatal
    OBVIOUS
  <2> QED
    BY RoughCall DEF Survived
<1>3. Spec => [][Fatal]_vars
  <2> HIDE DEF Fatal
  <2> QED
    BY <1>1, <1>2, InitSafe, NextSafe, InitTyped, NextTyped, NextEnds, PTL DEF Spec
<1> QED
  BY <1>3 DEF RoughIsFatal
=============================================================================
