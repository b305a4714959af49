----------------------------- MODULE ValueStore -----------------------------
(***************************************************************************)
(* Lifetime and ownership of timl::Value (src/src/value.cpp).              *)
(*                                                                         *)
(* A Value is a tag (vtype) beside a union.  A container's union holds     *)
(* unique_ptrs, so every Value that is not a variable of the program lives *)
(* in a heap node owned by one container.  The state is a record st:       *)
(*   vtype[c]  the tag of the Value at address c                           *)
(*   held[c]   the union member with a destructor alive at c, or "none"    *)
(*   data[c]   the leaf of a scalar or of a string                         *)
(*   owner[h]  the Value whose container has the unique_ptr to node h      *)
(*   slot[h]   h's position in an Array, or its key in a Map               *)
(*   ub        the program has touched a destroyed object                  *)
(* "Scalar" stands for the tags with no destructor, "String" for String    *)
(* and Binary.  Each operation is a function from record to record, with   *)
(* the steps of the C++ in their order: what two aliased arguments do to   *)
(* each other follows from the composition.                                *)
(***************************************************************************)
EXTENDS Integers, FiniteSets

CONSTANTS
  Named,         \* the Value variables of the program
  Heap,          \* the addresses make_unique<Value> can return
  Keys,          \* the keys of Maps, coded as negative integers
  Payloads,      \* the contents of scalars and strings
  Tmp,           \* the local Value of swap and push_back
  Arg,           \* a temporary Value built by a constructor
  Uptr,          \* owner of a node held by a unique_ptr on the stack
  Free,          \* owner of an address that is not allocated
  Stray,         \* owner of a node to which no unique_ptr is left: leaked
  NoData,        \* no leaf; the empty string
  Client,        \* "any", "safe" or "exact": which aliased calls are made
  AllocMayFail   \* whether operator new may throw std::bad_alloc

ASSUME CellAssumption ==
  /\ Named \cap Heap = {}
  /\ Tmp \notin Named \cup Heap
  /\ Arg \notin Named \cup Heap \cup {Tmp}
  /\ {Uptr, Free, Stray} \cap (Named \cup Heap \cup {Tmp, Arg}) = {}
ASSUME OwnerAssumption == Uptr # Free /\ Uptr # Stray /\ Free # Stray
ASSUME FiniteAssumption == IsFiniteSet(Heap)
ASSUME DataAssumption == NoData \notin Payloads /\ Keys \subseteq Int \ Nat
ASSUME ModeAssumption ==
  Client \in {"any", "safe", "exact"} /\ AllocMayFail \in BOOLEAN

VARIABLE st

Cell       == Named \cup Heap \cup {Tmp, Arg}
Types      == {"Null", "Scalar", "String", "Array", "Map"}
Containers == {"Array", "Map"}
Members    == {"none", "String", "Array", "Map"}

State ==
  [ vtype : [Cell -> Types],
    held  : [Cell -> Members],
    data  : [Cell -> Payloads \cup {NoData}],
    owner : [Heap -> Cell \cup {Uptr, Free, Stray}],
    slot  : [Heap -> Int],
    ub    : BOOLEAN ]

-----------------------------------------------------------------------------
(* What a Value holds.                                                     *)

\* The union member whose lifetime a tag announces.
HeldBy(t) == IF t \in {"String", "Array", "Map"} THEN t ELSE "none"

Allocated(s) == {h \in Heap : s.owner[h] # Free}
FreeNodes(s) == {h \in Heap : s.owner[h] = Free}
Alive(s, c)  == c \in Heap => s.owner[c] # Free

\* The nodes in the container at c, as the tag lets the code see them.
Kids(s, c) ==
  IF s.vtype[c] \in Containers THEN {h \in Heap : s.owner[h] = c} ELSE {}

\* No node outside S is in a container of c or of S.
Closed(s, c, S) ==
  \A h \in Heap \ S :
    s.owner[h] \in S \cup {c} => s.vtype[s.owner[h]] \notin Containers

\* The nodes reached from c through containers, which ~Value destroys: those
\* that no closed set leaves out.
Below(s, c) == {h \in Heap : \A S \in SUBSET (Heap \ {h}) : ~Closed(s, c, S)}

\* The Values an expression can name: a variable, then operator[] and at().
Addressable(s) == Named \cup UNION {Below(s, x) : x \in Named}

\* Neither Value contains the other.
Separate(s, c, v) == c # v /\ c \notin Below(s, v) /\ v \notin Below(s, c)

\* operator==, for the tags modelled here: is_equal goes node by node.
Equal(s, x, y) ==
  LET eq[p \in Cell \X Cell] ==
        LET a == p[1]  b == p[2] IN
        /\ s.vtype[a] = s.vtype[b]
        /\ s.data[a] = s.data[b]
        /\ Cardinality(Kids(s, a)) = Cardinality(Kids(s, b))
        /\ \A h \in Kids(s, a) :
             \E k \in Kids(s, b) : s.slot[h] = s.slot[k] /\ eq[<<h, k>>]
  IN  eq[<<x, y>>]

-----------------------------------------------------------------------------
(* The private helpers of Value.                                           *)

Crash(s) == [s EXCEPT !.ub = TRUE]

SetTag(s, c, t) == [s EXCEPT !.vtype[c] = t]

\* The unique_ptrs to the nodes of S pass to o.
Reown(s, S, o) ==
  IF S = {} THEN s
  ELSE [s EXCEPT !.owner = [h \in Heap |-> IF h \in S THEN o ELSE s.owner[h]]]

\* The nodes of F are destroyed and freed.  A node still owned by one of
\* them is out of reach of any destructor from here on.
Release(s, F) ==
  IF F = {} THEN s
  ELSE [s EXCEPT
    !.vtype = [c \in Cell |-> IF c \in F THEN "Null" ELSE s.vtype[c]],
    !.held  = [c \in Cell |-> IF c \in F THEN "none" ELSE s.held[c]],
    !.data  = [c \in Cell |-> IF c \in F THEN NoData ELSE s.data[c]],
    !.slot  = [h \in Heap |-> IF h \in F THEN 0 ELSE s.slot[h]],
    !.owner = [h \in Heap |-> IF h \in F THEN Free
                              ELSE IF s.owner[h] \in F THEN Stray
                              ELSE s.owner[h]]]

\* Mutant of destruct: the elements are freed, the vector itself is not destroyed.
destruct_KeepsMember(s, c) ==
  IF s.vtype[c] = "Null" THEN s
  ELSE [Release(s, Below(s, c)) EXCEPT !.vtype[c] = "Null", !.data[c] = NoData]

\* Value::destruct trusts the tag: a Null returns at once.
destruct(s, c) ==
  IF s.vtype[c] = "Null" THEN s
  ELSE [Release(s, Below(s, c)) EXCEPT !.vtype[c] = "Null",
                                       !.held[c]  = "none",
                                       !.data[c]  = NoData]

\* Mutant of construct: a tag with no destructor is taken for a live member.
construct_AnyTag(s, c, t, d) ==
  [Reown(s, {h \in Heap : s.owner[h] = c}, Stray) EXCEPT !.held[c] = t, !.data[c] = d]

\* Placement new of a member into the union at c, or an assignment to a
\* scalar member: a container still alive there is overwritten.
construct(s, c, t, d) ==
  [Reown(s, {h \in Heap : s.owner[h] = c}, Stray) EXCEPT !.held[c] = HeldBy(t),
                                                         !.data[c] = d]

\* Move construction of a container: the unique_ptrs change hands.
Adopt(s, c, v) == Reown(s, Kids(s, v), c)

\* Mutants of move_from: what c held is not destroyed first; no placement new.
move_from_NoDestruct(s, c, v) ==
  LET t == s.vtype[v]
      b == IF t = "Null" THEN s
           ELSE Adopt(construct(s, c, t, s.data[v]), c, v)
  IN  destruct(SetTag(b, c, t), v)

move_from_NoConstruct(s, c, v) ==
  LET a == destruct(s, c)
      t == a.vtype[v]
  IN  IF ~Alive(a, v) THEN Crash(a)
      ELSE destruct(SetTag(Adopt(a, c, v), c, t), v)

\* Value::move_from.  The tag of v is read after destruct has run on c.
move_from(s, c, v) ==
  LET a == destruct(s, c)
      t == a.vtype[v]
      b == IF t = "Null" THEN a
           ELSE Adopt(construct(a, c, t, a.data[v]), c, v)
  IN  IF ~Alive(a, v) THEN Crash(a)
      ELSE destruct(SetTag(b, c, t), v)

\* Where make_unique places the copies that copy_from(s, c, v) makes of the
\* nodes below v.
CopyMaps(s, c, v) ==
  LET a == destruct(s, c) IN
  {f \in [Below(a, v) -> FreeNodes(a)] :
     \A x, y \in Below(a, v) : f[x] = f[y] => x = y}

\* unique_ptr_copy: a node f[x] for every node x below v, owned as x is; the
\* top ones are owned by c.
unique_ptr_copy(s, c, v, f) ==
  LET B      == Below(s, v)
      New    == {f[x] : x \in B}
      Src(n) == CHOOSE x \in B : f[x] = n
  IN  IF B = {} THEN s ELSE
      [s EXCEPT
        !.vtype = [e \in Cell |-> IF e \in New THEN s.vtype[Src(e)] ELSE s.vtype[e]],
        !.held  = [e \in Cell |-> IF e \in New THEN HeldBy(s.vtype[Src(e)]) ELSE s.held[e]],
        !.data  = [e \in Cell |-> IF e \notin New THEN s.data[e]
                                  ELSE IF s.vtype[Src(e)] = "Null" THEN NoData
                                  ELSE s.data[Src(e)]],
        !.slot  = [h \in Heap |-> IF h \in New THEN s.slot[Src(h)] ELSE s.slot[h]],
        !.owner = [h \in Heap |-> IF h \notin New THEN s.owner[h]
                                  ELSE IF Src(h) \in Kids(s, v) THEN c
                                  ELSE f[s.owner[Src(h)]]]]

\* Value::copy_from.  c has been destructed before v is read.
copy_from(s, c, v, f) ==
  LET a == destruct(s, c)
      t == a.vtype[v]
      b == IF t = "Null" THEN a
           ELSE unique_ptr_copy(construct(a, c, t, a.data[v]), c, v, f)
  IN  IF ~Alive(a, v) THEN Crash(a) ELSE SetTag(b, c, t)

\* A node holding a Null Value, owned by a unique_ptr on the stack.
make_unique(s, n) == [s EXCEPT !.owner[n] = Uptr]

\* Array.emplace_back of the node the stack holds.
emplace_back(s, c, n) ==
  IF s.held[c] # "Array" THEN Crash(s)
  ELSE [s EXCEPT !.slot[n]  = Cardinality({h \in Heap : s.owner[h] = c}) + 1,
                 !.owner[n] = c]

\* Map.emplace of the node the stack holds.
emplace(s, c, k, n) ==
  IF s.held[c] # "Map" THEN Crash(s)
  ELSE [s EXCEPT !.slot[n] = k, !.owner[n] = c]

\* The unique_ptr of node n is destroyed.
FreeNode(s, n) == Release(destruct(s, n), {n})

-----------------------------------------------------------------------------
(* The bodies of the public operations.                                    *)

\* Value::push_back up to the first emplace_back of the argument: a Null
\* becomes an Array; a value that is not an Array is wrapped, its tag still
\* Null until the end.
OpenArray(s, c) == SetTag(construct(s, c, "Array", NoData), c, "Array")

\* Mutant of WrapInArray: the old content is dropped.
WrapInArray_LosesOld(s, c, m) == OpenArray(destruct(s, c), c)

\* The local tmp is Null when it is destroyed.
WrapInArray(s, c, m) ==
  LET a == construct(move_from(s, Tmp, c), c, "Array", NoData)
      b == move_from(make_unique(a, m), m, Tmp)
  IN  emplace_back(b, c, m)

\* The array is ready to take the argument; m is used only if c is wrapped.
PushReady(s, c, m) ==
  IF s.vtype[c] = "Null" THEN OpenArray(s, c)
  ELSE IF s.vtype[c] = "Array" THEN s
  ELSE WrapInArray(s, c, m)

PushMoved(s, c, v, m, n) ==
  LET a == PushReady(s, c, m)
      b == move_from(make_unique(a, n), n, v)
  IN  SetTag(emplace_back(b, c, n), c, "Array")

PushMaps(s, c, v, m, n) == CopyMaps(make_unique(PushReady(s, c, m), n), n, v)

PushCopied(s, c, v, m, n, f) ==
  LET a == PushReady(s, c, m)
      b == copy_from(make_unique(a, n), n, v, f)
  IN  SetTag(emplace_back(b, c, n), c, "Array")

\* Mutant of InsertKey: the tag says Map, no map has been constructed.
InsertKey_NoConstruct(s, c, k, n) ==
  emplace(make_unique(SetTag(s, c, "Map"), n), c, k, n)

\* Value::operator[](const std::string&) with a key that is absent.
InsertKey(s, c, k, n) ==
  LET a == IF s.vtype[c] = "Null"
           THEN SetTag(construct(s, c, "Map", NoData), c, "Map")
           ELSE s
  IN  emplace(make_unique(a, n), c, k, n)

\* Mutants of Erase: the node is released, not freed; the rest does not move up.
Erase_ReleasesNode(s, c, x) ==
  [s EXCEPT !.owner[x] = Stray,
            !.slot = [h \in Heap |->
              IF s.vtype[c] = "Array" /\ s.owner[h] = c /\ s.slot[h] > s.slot[x]
              THEN s.slot[h] - 1 ELSE s.slot[h]]]

Erase_NoShift(s, c, x) == FreeNode(s, x)

\* vector::erase and unordered_map::erase of node x of c.
Erase(s, c, x) ==
  LET a == FreeNode(s, x)
  IN  IF s.vtype[c] = "Map" THEN a
      ELSE [a EXCEPT !.slot = [h \in Heap |->
              IF a.owner[h] = c /\ a.slot[h] > s.slot[x] THEN a.slot[h] - 1
              ELSE a.slot[h]]]

\* swap(Value&, Value&), with the destructor of its local.
swapped(s, v1, v2) ==
  destruct(move_from(move_from(move_from(s, Tmp, v2), v2, v1), v1, Tmp), Tmp)

\* A push_back that ends in std::bad_alloc, by the point it reached.  Before
\* the old content is in its own node: the local that holds it is unwound.
WrapFailed(s, c) ==
  destruct(construct(move_from(s, Tmp, c), c, "Array", NoData), Tmp)

\* Mutant of PushFailed: the node is made by a plain new.
PushFailed_RawNew(s, c, v, m, n) ==
  [move_from(make_unique(PushReady(s, c, m), n), n, v) EXCEPT !.owner[n] = Stray]

\* The argument has been moved into a node, and the vector cannot grow.
PushFailed(s, c, v, m, n) ==
  FreeNode(move_from(make_unique(PushReady(s, c, m), n), n, v), n)

\* The tags and leaves of Value(), of Value(7) and of Value("text").
Literals == {<<"Null", NoData>>} \cup ({"Scalar", "String"} \X Payloads)

\* The temporary such a constructor builds.
Literal(s, t, d) == SetTag(construct(s, Arg, t, d), Arg, t)

-----------------------------------------------------------------------------
(* The calls a program makes on the Values it can name.                    *)

\* Arguments with which a call touches no destroyed object.
SafeCopy(c, v) == Client = "any" \/ v \notin Below(st, c)
SafeMove(c, v) == Client = "any" \/ c = v \/ Separate(st, c, v)
SafePush(c, v) ==
  Client = "any" \/ ( /\ c \notin Below(st, v)
                      /\ c = v => st.vtype[c] \notin {"Null", "Array"} )

\* Arguments with which a call does to its operands what it would do to
\* values that share nothing.
ExactCopy(c, v) == Client = "exact" => c = v \/ Separate(st, c, v)
ExactMove(c, v) == Client = "exact" => c # v
ExactPush(c, v) == Client = "exact" =>
                     st.vtype[c] = "Array" \/ (c # v /\ c \notin Below(st, v))

Init ==
  st = [ vtype |-> [c \in Cell |-> "Null"],
         held  |-> [c \in Cell |-> "none"],
         data  |-> [c \in Cell |-> NoData],
         owner |-> [h \in Heap |-> Free],
         slot  |-> [h \in Heap |-> 0],
         ub    |-> FALSE ]

\* Value& operator=(const Value&); also the copy constructor, on a Null.
CopyAssign(c, v) ==
  /\ c # v
  /\ SafeCopy(c, v) /\ ExactCopy(c, v)
  /\ \E f \in CopyMaps(st, c, v) : st' = copy_from(st, c, v, f)

\* Value& operator=(Value&&); also the move constructor, on a Null.
MoveAssign(c, v) ==
  /\ SafeMove(c, v) /\ ExactMove(c, v)
  /\ st' = move_from(st, c, v)

\* v = Value(), v = 7, v = "text": a temporary is built and moved from.
AssignNew(c, t, d) == st' = move_from(Literal(st, t, d), c, Arg)

\* v = Value{x}: the list of one element is a copy of the element.
AssignListOfOne(c, x) ==
  \E f \in CopyMaps(st, Arg, x) :
    st' = move_from(copy_from(st, Arg, x, f), c, Arg)

\* v = {x, y}: the constructor pushes a copy of each.
AssignListOfTwo(c, x, y) ==
  \E m, n \in FreeNodes(st) :
    /\ m # n
    /\ \E f \in PushMaps(make_unique(st, n), Arg, x, m, m) :
       LET a == PushCopied(make_unique(st, n), Arg, x, m, m, f) IN
       \E g \in PushMaps(a, Arg, y, n, n) :
         st' = move_from(PushCopied(a, Arg, y, n, n, g), c, Arg)

\* v = Value(k, x): a Map with one entry, a copy of x.
AssignPair(c, k, x) ==
  \E n \in FreeNodes(st) :
    LET a == InsertKey(st, Arg, k, n) IN
    \E f \in CopyMaps(a, n, x) :
      st' = move_from(copy_from(a, n, x, f), c, Arg)

\* Value::push_back(Value&&).  The nodes m and n are the allocator's choice.
PushBackMove(c, v) ==
  /\ SafePush(c, v) /\ ExactMove(c, v)
  /\ \E m, n \in FreeNodes(st) :
       /\ (m = n) <=> st.vtype[c] \in {"Null", "Array"}
       /\ st' = PushMoved(st, c, v, m, n)

\* Value::push_back(const Value&).
PushBackCopy(c, v) ==
  /\ ExactPush(c, v)
  /\ \E m, n \in FreeNodes(st) :
       /\ (m = n) <=> st.vtype[c] \in {"Null", "Array"}
       /\ \E f \in PushMaps(st, c, v, m, n) :
            st' = PushCopied(st, c, v, m, n, f)

\* v.push_back(7): the argument is a temporary.
PushBackNew(c, t, d) ==
  \E m, n \in FreeNodes(st) :
    /\ (m = n) <=> st.vtype[c] \in {"Null", "Array"}
    /\ st' = PushMoved(Literal(st, t, d), c, Arg, m, n)

\* v[k], when it makes an entry.
IndexKey(c, k) ==
  /\ st.vtype[c] \in {"Null", "Map"}
  /\ \A h \in Kids(st, c) : st.slot[h] # k
  /\ \E n \in FreeNodes(st) : st' = InsertKey(st, c, k, n)

\* Value::remove on an Array: the first element equal to v goes.
RemoveElement(c, v) ==
  /\ st.vtype[c] = "Array"
  /\ \E x \in Kids(st, c) :
       /\ Equal(st, v, x)
       /\ \A y \in Kids(st, c) : Equal(st, v, y) => st.slot[x] <= st.slot[y]
       /\ st' = Erase(st, c, x)

\* Value::remove on a Map.
RemoveKey(c, k) ==
  /\ st.vtype[c] = "Map"
  /\ \E x \in Kids(st, c) : st.slot[x] = k /\ st' = Erase(st, c, x)

\* swap(v1, v2).
Swap(c, v) ==
  /\ SafeMove(c, v)
  /\ st' = swapped(st, c, v)

\* std::string(std::move(v)): the characters leave, the tag stays.
StealString(c) ==
  /\ st.vtype[c] = "String"
  /\ st' = [st EXCEPT !.data[c] = NoData]

\* Assignment through the reference a conversion operator returns.
WriteThrough(c, d) ==
  /\ st.vtype[c] \in {"Scalar", "String"}
  /\ st' = [st EXCEPT !.data[c] = d]

\* The variable goes out of scope; the next one in its storage is Null.
LeaveScope(x) == st' = construct(destruct(st, x), x, "Null", NoData)

-----------------------------------------------------------------------------
(* The same calls when an allocation throws std::bad_alloc.                *)

CopyAssignFails(c, v) ==
  /\ AllocMayFail /\ c # v
  /\ SafeCopy(c, v) /\ ExactCopy(c, v)
  /\ LET a == destruct(st, c) IN
     /\ a.vtype[v] \in {"String", "Array", "Map"}
     /\ st' = a

\* What precedes the first allocation that throws has been done.  An Array is
\* left as it was.
PushBackFails(c) ==
  /\ AllocMayFail
  /\ \/ /\ st.vtype[c] = "Null"
        /\ st' = OpenArray(st, c)
     \/ /\ st.vtype[c] \notin {"Null", "Array"}
        /\ \/ st' = WrapFailed(st, c)
           \/ \E m \in FreeNodes(st) : st' = WrapInArray(st, c, m)

PushBackMoveFails(c, v) ==
  /\ AllocMayFail
  /\ SafePush(c, v) /\ ExactMove(c, v)
  /\ \E m, n \in FreeNodes(st) :
       /\ (m = n) <=> st.vtype[c] \in {"Null", "Array"}
       /\ st' = PushFailed(st, c, v, m, n)

IndexKeyFails(c) ==
  /\ AllocMayFail
  /\ st.vtype[c] = "Null"
  /\ st' = SetTag(construct(st, c, "Map", NoData), c, "Map")

-----------------------------------------------------------------------------
Call(c) ==
  \/ \E v \in Addressable(st) :
       \/ CopyAssign(c, v)   \/ MoveAssign(c, v)
       \/ PushBackMove(c, v) \/ PushBackCopy(c, v)
       \/ RemoveElement(c, v) \/ Swap(c, v)
       \/ CopyAssignFails(c, v) \/ PushBackMoveFails(c, v)
  \/ \E l \in Literals : AssignNew(c, l[1], l[2]) \/ PushBackNew(c, l[1], l[2])
  \/ \E k \in Keys : IndexKey(c, k) \/ RemoveKey(c, k)
  \/ \E d \in Payloads : WriteThrough(c, d)
  \/ StealString(c)
  \/ PushBackFails(c) \/ IndexKeyFails(c)

\* The constructors that copy Values; what they build is moved to a variable.
Construct(x) ==
  \E v \in Addressable(st) :
    \/ AssignListOfOne(x, v)
    \/ \E y \in Addressable(st) : AssignListOfTwo(x, v, y)
    \/ \E k \in Keys : AssignPair(x, k, v)

Next ==
  /\ ~st.ub
  /\ \/ \E c \in Addressable(st) : Call(c)
     \/ \E x \in Named : Construct(x) \/ LeaveScope(x)

Spec == Init /\ [][Next]_st

-----------------------------------------------------------------------------
TypeOK == st \in State

\* No call touches a Value that is no longer alive, nor a container that has
\* been destroyed, as long as its arguments keep to the discipline of Client.
NoUB == ~st.ub

\* A tag other than Null announces the member that is alive in the union, so
\* destruct never runs the destructor of a member that is not there; vtype is
\* assigned apart from the placement new, in every operation.
TagTruthful ==
  ~st.ub => \A c \in Cell : st.vtype[c] # "Null" => st.held[c] = HeldBy(st.vtype[c])

\* A Null has nothing alive in its union: what the tag hides from destruct
\* is never destroyed.
NullIsEmpty == \A c \in Cell : st.vtype[c] = "Null" => st.held[c] = "none"

\* Node h is in a container of a Value that is alive.
Kept(s, h) ==
  /\ s.owner[h] \in Named \cup Allocated(s)
  /\ s.held[s.owner[h]] \in Containers

\* No unique_ptr to node h is left, or it is in a container under the tag Null,
\* where no destructor looks.
Forgotten(s, h) ==
  \/ s.owner[h] = Stray
  \/ s.owner[h] \in Cell /\ s.vtype[s.owner[h]] = "Null"

\* After each call, also one that ran out of memory half way, every node is in
\* a container of a Value that is alive: none is left with a local of the call
\* and none has outlived its owner.  The nodes a call does lose are those that
\* an earlier push_back had left under the tag Null (value.cpp:244-247).
OnlyHiddenIsLost ==
  [][~st'.ub => \A h \in Allocated(st') :
                  Kept(st', h) \/ (st'.owner[h] = Stray /\ Forgotten(st, h))]_st

\* Every allocated node can be reached from a variable: "recursively
\* destroys all contained objects" (value.hpp:259) leaves none behind.
NoLeak == Allocated(st) \subseteq UNION {Below(st, x) : x \in Named}

\* The elements of an Array are at the positions 1..n, and the entries of a
\* Map have a key each, all different.
SlotsOK ==
  \A c \in Addressable(st) :
    LET kids == Kids(st, c) IN
    CASE st.vtype[c] = "Array" -> {st.slot[h] : h \in kids} = 1..Cardinality(kids)
      [] st.vtype[c] = "Map"   -> /\ {st.slot[h] : h \in kids} \subseteq Keys
                                  /\ \A h, k \in kids : st.slot[h] = st.slot[k] => h = k
      [] OTHER                 -> kids = {}

\* No variable leads to node h any more.
Lost(s, h) == h \in Allocated(s) /\ h \notin Addressable(s)

\* What a "safe" client does not do is fatal whenever its allocations succeed: the
\* call reads a destroyed Value or an absent member, or it leaves the inner of its
\* operands in a cycle of Values that own each other, out of every variable's reach.
MisuseIsFatal ==
  \A c, v \in Addressable(st) :
    /\ ~SafeCopy(c, v) => \A f \in CopyMaps(st, c, v) : copy_from(st, c, v, f).ub
    /\ ~SafeMove(c, v) =>
         /\ LET r == move_from(st, c, v) IN r.ub \/ Lost(r, c)
         /\ LET r == swapped(st, c, v) IN Lost(r, c) \/ Lost(r, v)
    /\ ~SafePush(c, v) =>
         \A m, n \in FreeNodes(st) :
           ((m = n) <=> st.vtype[c] \in {"Null", "Array"}) =>
             LET r == PushMoved(st, c, v, m, n) IN r.ub \/ Lost(r, c)
=============================================================================
