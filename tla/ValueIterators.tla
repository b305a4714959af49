--------------------------- MODULE ValueIterators ---------------------------
(***************************************************************************)
(* value_iterator (src/include/iterator.hpp), find and remove of           *)
(* timl::Value (src/src/value.cpp), and what the calls that change a Value *)
(* do to the iterators a program holds.                                    *)
(*                                                                         *)
(* An iterator is a parent, an iterator of a vector and an iterator of an  *)
(* unordered_map.  Each operation looks at the tag that the parent has at  *)
(* that moment to decide which of the two it uses, if any.  The program    *)
(* runs range-for loops and uses the results of find; in a loop's body and *)
(* between find and the use of its result it makes any calls, on any of    *)
(* its Values.  Undefined behaviour (ub) stops it.                         *)
(*                                                                         *)
(* An element is a name for a node of a container; elems[c] has them in    *)
(* the order of iteration.  Label is an element's content in an Array, its *)
(* key in a Map.                                                           *)
(***************************************************************************)
EXTENDS Integers, Sequences, FiniteSets

CONSTANTS
  Vals,       \* the Value variables of the program
  Elems,      \* the nodes that elements can be
  Labels,     \* contents and keys
  Texts,      \* those labels that are Strings, which a key must be
  asString,   \* Value::asString: the text of a label
  Label,      \* the label of each element
  MaxSize,    \* bound: the elements of a container
  End,        \* the end of a container
  Lost,       \* an iterator of a container that is invalid or was never set
  None        \* no Value, no label

ASSUME LabelAssumption ==
  /\ Texts \subseteq Labels /\ asString \in [Labels -> Texts]
  /\ \A l \in Texts : asString[l] = l
  /\ Label \in [Elems -> Labels]
ASSUME NameAssumption ==
  /\ End \notin Elems /\ None \notin Vals \cup Labels
  /\ Lost \notin Vals \cup [home : Vals, at : Elems \cup {End}]
ASSUME SizeAssumption == MaxSize \in Nat \ {0} /\ IsFiniteSet(Elems)

VARIABLES
  tag,     \* Value::vtype, or "Dead" when the Value is destroyed
  elems,   \* the elements of each container, in the order of iteration
  it,      \* the iterator of the loop, or what find has returned
  last,    \* the end that it is compared with
  pc,      \* "idle", "found", "test" (about to compare) or "body"
  goal,    \* what find looked for; None in a range-for loop
  start,   \* history: the elements when the loop began
  seen,    \* history: the elements the loop has visited
  tame,    \* history: the loop's body has left the loop's Value in peace
  ub       \* an invalid iterator or a destroyed Value has been used

store == <<tag, elems>>
vars  == <<tag, elems, it, last, pc, goal, start, seen, tame, ub>>

Containers == {"Array", "Map"}
Tags       == {"Null", "Leaf", "Dead"} \cup Containers

Place(c, x) == [home |-> c, at |-> x]
Places      == [home : Vals, at : Elems \cup {End}]
PlacesIn(c) == {Place(c, x) : x \in Elems \cup {End}}
Iterators   == [parent : Vals, arr : Places \cup {Lost}, map : Places \cup {Lost}]
NoIterator  == [parent |-> None, arr |-> Lost, map |-> Lost]

Members(s) == {s[i] : i \in DOMAIN s}

\* The sequences that have each element of S once.
Orders(S) ==
  {s \in [1..Cardinality(S) -> S] : \A i, j \in DOMAIN s : s[i] = s[j] => i = j}

\* An unordered_map has each key once.
MapLike(S) == \A e, f \in S : Label[e] \in Texts /\ (Label[e] = Label[f] => e = f)

\* The nodes that are in no Value but those of S.
Unused(S) == Elems \ UNION {Members(elems[c]) : c \in Vals \ S}

-----------------------------------------------------------------------------
(* Iterators.                                                              *)

\* The constructors: the member for the parent's tag is set.
Iterator(c, x) ==
  [parent |-> c,
   arr |-> IF tag[c] = "Array" THEN Place(c, x) ELSE Lost,
   map |-> IF tag[c] = "Map" THEN Place(c, x) ELSE Lost]

begin(c) == Iterator(c, IF elems[c] = <<>> THEN End ELSE elems[c][1])
end(c)   == Iterator(c, End)

\* The member that the tag of the parent selects now.
Selected(i) == IF tag[i.parent] = "Array" THEN i.arr ELSE i.map

\* Mutant of Iterates: an iterator goes by what it was made for.
Iterates_AsMade(i) == i.arr # Lost \/ i.map # Lost

Iterates(i) == tag[i.parent] \in Containers

\* Mutant of Equal: iterators of a scalar are never equal.
Equal_ScalarDiffers(i, j) ==
  i.parent = j.parent /\ Iterates(i) /\ Selected(i) = Selected(j)

\* operator==, and when it is defined.
Equal(i, j) ==
  i.parent = j.parent /\ (Iterates(i) => Selected(i) = Selected(j))

Comparable(i, j) ==
  /\ tag[i.parent] # "Dead"
  /\ i.parent = j.parent /\ Iterates(i) =>
       Lost \notin {Selected(i), Selected(j)} /\ Selected(i).home = Selected(j).home

\* operator-> and ++ need an element there.
Dereferenceable(i) ==
  /\ tag[i.parent] # "Dead"
  /\ Iterates(i) => Selected(i) # Lost /\ Selected(i).at # End

Item(i) == IF Iterates(i) THEN Selected(i).at ELSE i.parent

\* Mutant of After: the last element is taken for the end.
After_ShortOfLast(c, e) ==
  LET n == CHOOSE n \in DOMAIN elems[c] : elems[c][n] = e
  IN  IF n + 1 >= Len(elems[c]) THEN End ELSE elems[c][n + 1]

\* The element that follows e in the container of c.
After(c, e) ==
  LET n == CHOOSE n \in DOMAIN elems[c] : elems[c][n] = e
  IN  IF n = Len(elems[c]) THEN End ELSE elems[c][n + 1]

\* operator++.
Step(p) == Place(p.home, After(p.home, p.at))
Increment(i) ==
  IF ~Iterates(i) THEN i
  ELSE IF tag[i.parent] = "Array" THEN [i EXCEPT !.arr = Step(i.arr)]
  ELSE [i EXCEPT !.map = Step(i.map)]

\* The first element with the label l.
FirstWith(c, l) ==
  LET hits == {n \in DOMAIN elems[c] : Label[elems[c][n]] = l}
  IN  IF hits = {} THEN End
      ELSE elems[c][CHOOSE n \in hits : \A m \in hits : n <= m]

\* What find and remove look for: in a Map, the text of their argument.
Lookup(c, l) == FirstWith(c, IF tag[c] = "Map" THEN asString[l] ELSE l)

At(c, e) == IF e = End THEN end(c) ELSE Iterator(c, e)

\* Mutant of find: begin() for what is not there.
find_Begin(c, l) == IF Lookup(c, l) = End THEN begin(c) ELSE Iterator(c, Lookup(c, l))

\* Value::find.
find(c, l) == At(c, Lookup(c, l))

-----------------------------------------------------------------------------
(* What happens to the iterators when Values change.                       *)

\* Mutant of Carried: a moved iterator stays with the Value it was made from.
Carried_Stays(p, home, gone) == IF p \in gone THEN Lost ELSE p

\* The content of c goes to home[c] (Lost when it is destroyed); the places of
\* gone are invalidated.  An iterator follows its element, but for the end.
Carried(p, home, gone) ==
  IF p = Lost \/ p \in gone THEN Lost
  ELSE IF home[p.home] = p.home THEN p
  ELSE IF home[p.home] = Lost \/ p.at = End THEN Lost
  ELSE Place(home[p.home], p.at)

CarriedIterator(i, home, gone) ==
  [parent |-> i.parent,
   arr |-> Carried(i.arr, home, gone),
   map |-> Carried(i.map, home, gone)]

Carry(home, gone) ==
  /\ it' = CarriedIterator(it, home, gone)
  /\ last' = CarriedIterator(last, home, gone)

Stay == [c \in Vals |-> c]
Invalidate(gone) == Carry(Stay, gone)

\* A call is rough if it changes the Value a loop runs on (one of S) and leaves
\* it a container or destroyed.
Judge(S) ==
  tame' = (tame /\ ~(it.parent \in S /\ tag'[it.parent] \in Containers \cup {"Dead"}))

\* The program may call something else.  Bound: after a rough call it goes on
\* with the loop.
Calling == pc \in {"idle", "found", "body"} /\ tame /\ ~ub
Calls   == Calling /\ UNCHANGED <<pc, goal, start, seen, ub>>

Init ==
  /\ tag = [c \in Vals |-> "Null"] /\ elems = [c \in Vals |-> <<>>]
  /\ it = NoIterator /\ last = NoIterator
  /\ pc = "idle" /\ goal = None /\ start = <<>> /\ seen = <<>>
  /\ tame = TRUE /\ ub = FALSE

\* c gets the tag t and the elements s; what it had is destroyed.
Become(c, t, s) ==
  /\ tag' = [tag EXCEPT ![c] = t]
  /\ elems' = [elems EXCEPT ![c] = s]

\* c = Null or a scalar; c = a new container, such as a copy.
AssignLeaf(c) ==
  /\ Calls /\ tag[c] # "Dead"
  /\ \E t \in {"Null", "Leaf"} : Become(c, t, <<>>)
  /\ Invalidate(PlacesIn(c)) /\ Judge({c})

AssignContainer(c) ==
  /\ Calls /\ tag[c] # "Dead"
  /\ \E t \in Containers, S \in SUBSET Unused({c}) :
       /\ Cardinality(S) <= MaxSize
       /\ t = "Map" => MapLike(S)
       /\ \E s \in Orders(S) : Become(c, t, s)
  /\ Invalidate(PlacesIn(c)) /\ Judge({c})

\* ~Value, and a new Null in the same place.
Destroy(c) ==
  /\ Calls /\ tag[c] # "Dead" /\ Become(c, "Dead", <<>>)
  /\ Invalidate(PlacesIn(c)) /\ Judge({c})

Construct(c) ==
  /\ Calls /\ tag[c] = "Dead" /\ Become(c, "Null", <<>>)
  /\ Invalidate({}) /\ Judge({c})

\* c = std::move(d), which leaves d Null.
Move(c, d) ==
  /\ Calls /\ c # d /\ "Dead" \notin {tag[c], tag[d]}
  /\ tag' = [tag EXCEPT ![c] = tag[d], ![d] = "Null"]
  /\ elems' = [elems EXCEPT ![c] = elems[d], ![d] = <<>>]
  /\ Carry([Stay EXCEPT ![c] = Lost, ![d] = c], {}) /\ Judge({c, d})

\* Value::swap.
Swap(c, d) ==
  /\ Calls /\ c # d /\ "Dead" \notin {tag[c], tag[d]}
  /\ tag' = [tag EXCEPT ![c] = tag[d], ![d] = tag[c]]
  /\ elems' = [elems EXCEPT ![c] = elems[d], ![d] = elems[c]]
  /\ Carry([Stay EXCEPT ![c] = d, ![d] = c], {}) /\ Judge({c, d})

\* c.push_back(e).  The vector may have room or be reallocated.
PushBack(c) ==
  /\ Calls /\ tag[c] \in {"Null", "Array"} /\ Len(elems[c]) < MaxSize
  /\ \E e \in Unused({}), reallocated \in BOOLEAN :
       /\ Become(c, "Array", Append(elems[c], e))
       /\ Invalidate(IF reallocated THEN PlacesIn(c) ELSE {Place(c, End)})
  /\ Judge({c})

\* c.push_back(e) on anything else makes it the first of the two elements.
PushBackWraps(c) ==
  /\ Calls /\ tag[c] \in {"Leaf", "Map"} /\ MaxSize >= 2
  /\ \E e, f \in Unused({c}) : e # f /\ Become(c, "Array", <<f, e>>)
  /\ Invalidate(PlacesIn(c)) /\ Judge({c})

\* c[key], where the key is new.  The table may be rehashed.
IndexKey(c) ==
  /\ Calls /\ tag[c] \in {"Null", "Map"} /\ Len(elems[c]) < MaxSize
  /\ \E e \in Unused({}) :
       /\ MapLike(Members(elems[c]) \cup {e})
       /\ \/ \E n \in 0..Len(elems[c]) :
               /\ Become(c, "Map",
                    SubSeq(elems[c], 1, n) \o <<e>> \o SubSeq(elems[c], n + 1, Len(elems[c])))
               /\ Invalidate({})
          \/ \E s \in Orders(Members(elems[c]) \cup {e}) :
               Become(c, "Map", s) /\ Invalidate(PlacesIn(c))
  /\ Judge({c})

IndexOf(c, e) == CHOOSE n \in DOMAIN elems[c] : elems[c][n] = e

Without(s, n) == SubSeq(s, 1, n - 1) \o SubSeq(s, n + 1, Len(s))

\* Mutant of Erased: erase of a vector invalidates only what it has erased.
Erased_OnlyThat(c, e) == {Place(c, e)}

\* vector::erase invalidates from the element to the end; unordered_map::erase
\* the element's iterators.
Erased(c, e) ==
  IF tag[c] = "Map" THEN {Place(c, e)}
  ELSE {Place(c, End)} \cup
       {Place(c, elems[c][n]) : n \in IndexOf(c, e)..Len(elems[c])}

\* Value::remove.  In a Map it leaves other elements' iterators in peace.
Remove(c, l) ==
  /\ Calls /\ tag[c] \in Containers /\ Lookup(c, l) # End
  /\ LET e == Lookup(c, l) IN
     /\ Become(c, tag[c], Without(elems[c], IndexOf(c, e)))
     /\ Invalidate(Erased(c, e))
     /\ Judge(IF tag[c] = "Map" /\ it.map # Place(c, e) THEN {} ELSE {c})

-----------------------------------------------------------------------------
(* The loop.                                                               *)

\* for (auto& x : c)
ForEach(c) ==
  /\ pc = "idle" /\ ~ub /\ tag[c] # "Dead"
  /\ it' = begin(c) /\ last' = end(c) /\ pc' = "test"
  /\ start' = elems[c] /\ UNCHANGED <<store, goal, seen, tame, ub>>

\* auto it = c.find(l)
Find(c, l) ==
  /\ pc = "idle" /\ ~ub /\ tag[c] # "Dead"
  /\ it' = find(c, l) /\ last' = end(c) /\ pc' = "found" /\ goal' = l
  /\ UNCHANGED <<store, start, seen, tame, ub>>

\* if (it != c.end())
UseFound ==
  /\ pc = "found" /\ ~ub
  /\ IF tag[it.parent] = "Dead" THEN ub' = TRUE /\ UNCHANGED <<last, pc>>
     ELSE last' = end(it.parent) /\ pc' = "test" /\ UNCHANGED ub
  /\ UNCHANGED <<store, it, goal, start, seen, tame>>

Idle ==
  /\ pc' = "idle" /\ it' = NoIterator /\ last' = NoIterator /\ goal' = None
  /\ start' = <<>> /\ seen' = <<>> /\ tame' = TRUE

\* The comparison, and *it if there is an element.  Bound: once the loop has
\* visited more than there was, seen is left as it is.
Enter ==
  /\ pc = "test" /\ ~ub /\ Comparable(it, last) /\ ~Equal(it, last)
  /\ Dereferenceable(it)
  /\ seen' = IF Len(seen) > Len(start) THEN seen ELSE Append(seen, Item(it))
  /\ pc' = "body"
  /\ UNCHANGED <<store, it, last, goal, start, tame, ub>>

Finish ==
  /\ pc = "test" /\ ~ub /\ Comparable(it, last) /\ Equal(it, last)
  /\ Idle /\ UNCHANGED <<store, ub>>

\* The body has ended: ++it, or the use of what was found is over.
Advance ==
  /\ pc = "body" /\ ~ub /\ goal = None /\ Dereferenceable(it)
  /\ it' = Increment(it) /\ pc' = "test"
  /\ UNCHANGED <<store, last, goal, start, seen, tame, ub>>

Leave == pc = "body" /\ ~ub /\ goal # None /\ Idle /\ UNCHANGED <<store, ub>>

\* An operation on the iterator that is not defined.
Undefined ==
  \/ pc = "test" /\ (Comparable(it, last) => ~Equal(it, last) /\ ~Dereferenceable(it))
  \/ pc = "body" /\ goal = None /\ ~Dereferenceable(it)

Crash ==
  /\ ~ub /\ Undefined /\ ub' = TRUE
  /\ UNCHANGED <<store, it, last, pc, goal, start, seen, tame>>

LoopStep == UseFound \/ Enter \/ Finish \/ Advance \/ Leave \/ Crash

Next ==
  \/ \E c \in Vals :
       \/ AssignLeaf(c) \/ AssignContainer(c) \/ Destroy(c) \/ Construct(c)
       \/ PushBack(c) \/ PushBackWraps(c) \/ IndexKey(c) \/ ForEach(c)
       \/ \E l \in Labels : Remove(c, l) \/ Find(c, l)
       \/ \E d \in Vals : Move(c, d) \/ Swap(c, d)
  \/ LoopStep

\* A loop is sequential code: nothing keeps it from its next step for ever.
Spec == Init /\ [][Next]_vars /\ WF_vars(LoopStep)

-----------------------------------------------------------------------------
Sequence(c) ==
  /\ elems[c] \in Seq(Elems)
  /\ \A m, n \in DOMAIN elems[c] : elems[c][m] = elems[c][n] => m = n

\* Only containers have elements, none is in two places, and iterators of a
\* vector are in Arrays, those of an unordered_map in Maps.
TypeOK ==
  /\ tag \in [Vals -> Tags]
  /\ DOMAIN elems = Vals
  /\ \A c \in Vals :
       /\ Sequence(c)
       /\ tag[c] \notin Containers => elems[c] = <<>>
       /\ tag[c] = "Map" => MapLike(Members(elems[c]))
  /\ \A c, d \in Vals : c # d => Members(elems[c]) \cap Members(elems[d]) = {}
  /\ \A i \in {it, last} :
       /\ i \in Iterators \cup {NoIterator}
       /\ i.arr # Lost => tag[i.arr.home] = "Array"
       /\ i.map # Lost => tag[i.map.home] = "Map"
  /\ pc \in {"idle", "found", "test", "body"}
  /\ (it = NoIterator) = (pc = "idle")
  /\ goal \in Labels \cup {None}
  /\ tame \in BOOLEAN /\ ub \in BOOLEAN

\* A loop, or a use of what find has returned, is safe whatever the program
\* does to its other Values, and although its own Value may lose the container,
\* by assignment, move or swap, and a Map other elements.
NoUB == tame => ~ub

\* s is what is left of t when some of its elements are left out.
PartOf(s, t) ==
  \E f \in [DOMAIN s -> DOMAIN t] :
    /\ \A m, n \in DOMAIN s : m < n => f[m] < f[n]
    /\ \A n \in DOMAIN s : s[n] = t[f[n]]

\* A loop visits only elements that its Value has.  If the Value is a container
\* to the end, the elements that have stayed are visited, once and in order.
VisitsEach ==
  [][tame =>
       /\ Enter => Item(it) \in Members(elems[it.parent])
       /\ Finish /\ goal = None /\ Iterates(it) =>
            Members(elems[it.parent]) \subseteq Members(seen) /\ PartOf(seen, start)]_vars

\* What find has found is still what was looked for when it is used.
FindsIt ==
  [][tame /\ Enter /\ goal # None =>
       Label[Item(it)] = IF tag[it.parent] = "Map" THEN asString[goal] ELSE goal]_vars

\* The only rough call that a loop can survive is a new key in a Map that is
\* not rehashed: nothing that NoUB rules out is harmless.
RoughIsFatal ==
  [][tame /\ ~tame' /\ pc = "body" /\ goal = None =>
       \/ ~Dereferenceable(it)'
       \/ ~Comparable(Increment(it), last)'
       \/ tag[it.parent] = "Map" /\ tag'[it.parent] = "Map"
          /\ Members(elems[it.parent]) \subseteq Members(elems'[it.parent])]_vars

\* A loop comes to its end.
LoopEnds == (pc = "test") ~> (pc = "idle" \/ ~tame)
=============================================================================
