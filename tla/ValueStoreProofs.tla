-------------------------- MODULE ValueStoreProofs --------------------------
(***************************************************************************)
(* Theorems about ValueStore, for every set of variables, nodes, keys and  *)
(* payloads.                                                               *)
(***************************************************************************)
EXTENDS ValueStore, FiniteSetTheorems, TLAPS

-----------------------------------------------------------------------------
(* Below is the least closed set of nodes.                                 *)

LEMMA BelowType ==
  ASSUME NEW s, NEW c PROVE Below(s, c) \subseteq Heap
  BY DEF Below

\* Every closed set contains it.
LEMMA BelowLeast ==
  ASSUME NEW s, NEW c, NEW S \in SUBSET Heap, Closed(s, c, S)
  PROVE  Below(s, c) \subseteq S
  <1> SUFFICES ASSUME NEW h \in Below(s, c), h \notin S PROVE FALSE
    OBVIOUS
  <1>1. S \in SUBSET (Heap \ {h})
    OBVIOUS
  <1> QED
    BY <1>1 DEF Below

\* It is closed: what a node of it owns is in it.
LEMMA BelowClosed ==
  ASSUME NEW s, NEW c PROVE Closed(s, c, Below(s, c))
  <1> SUFFICES ASSUME NEW h \in Heap \ Below(s, c),
                      s.owner[h] \in Below(s, c) \cup {c}
               PROVE  s.vtype[s.owner[h]] \notin Containers
    BY DEF Closed
  <1>1. PICK S \in SUBSET (Heap \ {h}) : Closed(s, c, S)
    BY DEF Below
  <1>2. Below(s, c) \subseteq S
    BY <1>1, BelowLeast
  <1>3. h \in Heap \ S /\ s.owner[h] \in S \cup {c}
    BY <1>1, <1>2
  <1> QED
    BY <1>1, <1>3 DEF Closed

\* A node of it is in a container of another node of it, or of c.
LEMMA BelowOwner ==
  ASSUME NEW s, NEW c, NEW h \in Below(s, c)
  PROVE  /\ s.owner[h] \in Below(s, c) \cup {c}
         /\ s.vtype[s.owner[h]] \in Containers
  <1> DEFINE S == Below(s, c) \ {h}
  <1> SUFFICES ASSUME ~(/\ s.owner[h] \in Below(s, c) \cup {c}
                        /\ s.vtype[s.owner[h]] \in Containers)
               PROVE  FALSE
    OBVIOUS
  <1>1. S \in SUBSET Heap
    BY BelowType
  <1>2. Closed(s, c, S)
    BY BelowClosed, BelowType DEF Closed
  <1> QED
    BY <1>1, <1>2, BelowLeast

\* The nodes a container owns are below it, and what is below those.
LEMMA KidsBelow ==
  ASSUME NEW s, NEW c PROVE Kids(s, c) \subseteq Below(s, c)
  BY BelowClosed DEF Kids, Closed

-----------------------------------------------------------------------------
(* Every operation maps a State to a State.                                *)

LEMMA HeldByType == ASSUME NEW t \in Types PROVE HeldBy(t) \in Members
  BY DEF HeldBy, Types, Members

LEMMA CrashType == ASSUME NEW s \in State PROVE Crash(s) \in State
  BY DEF Crash, State

LEMMA SetTagType ==
  ASSUME NEW s \in State, NEW c \in Cell, NEW t \in Types
  PROVE  SetTag(s, c, t) \in State
  BY DEF SetTag, State

LEMMA ReownType ==
  ASSUME NEW s \in State, NEW S, NEW o \in Cell \cup {Uptr, Free, Stray}
  PROVE  Reown(s, S, o) \in State
  BY DEF Reown, State

LEMMA ReleaseType ==
  ASSUME NEW s \in State, NEW F PROVE Release(s, F) \in State
  <1>1. [c \in Cell |-> IF c \in F THEN "Null" ELSE s.vtype[c]] \in [Cell -> Types]
    BY DEF State, Types
  <1>2. [c \in Cell |-> IF c \in F THEN "none" ELSE s.held[c]] \in [Cell -> Members]
    BY DEF State, Members
  <1>3. [c \in Cell |-> IF c \in F THEN NoData ELSE s.data[c]]
          \in [Cell -> Payloads \cup {NoData}]
    BY DEF State
  <1>4. [h \in Heap |-> IF h \in F THEN 0 ELSE s.slot[h]] \in [Heap -> Int]
    BY DEF State
  <1>5. [h \in Heap |-> IF h \in F THEN Free
                        ELSE IF s.owner[h] \in F THEN Stray ELSE s.owner[h]]
          \in [Heap -> Cell \cup {Uptr, Free, Stray}]
    BY DEF State
  <1> QED
    BY <1>1, <1>2, <1>3, <1>4, <1>5 DEF Release, State

LEMMA destructType ==
  ASSUME NEW s \in State, NEW c \in Cell PROVE destruct(s, c) \in State
  <1>1. Release(s, Below(s, c)) \in State
    BY ReleaseType
  <1> QED
    BY <1>1 DEF destruct, State, Types, Members

LEMMA constructType ==
  ASSUME NEW s \in State, NEW c \in Cell, NEW t \in Types,
         NEW d \in Payloads \cup {NoData}
  PROVE  construct(s, c, t, d) \in State
  <1>1. Reown(s, {h \in Heap : s.owner[h] = c}, Stray) \in State
    BY ReownType
  <1> QED
    BY <1>1, HeldByType DEF construct, State

LEMMA AdoptType ==
  ASSUME NEW s \in State, NEW c \in Cell, NEW v \in Cell
  PROVE  Adopt(s, c, v) \in State
  BY ReownType DEF Adopt

LEMMA move_fromType ==
  ASSUME NEW s \in State, NEW c \in Cell, NEW v \in Cell
  PROVE  move_from(s, c, v) \in State
  <1> DEFINE a == destruct(s, c)
             t == a.vtype[v]
             b == IF t = "Null" THEN a ELSE Adopt(construct(a, c, t, a.data[v]), c, v)
  <1>1. a \in State
    BY destructType
  <1>2. t \in Types /\ a.data[v] \in Payloads \cup {NoData}
    BY <1>1 DEF State
  <1>3. b \in State
    BY <1>1, <1>2, constructType, AdoptType
  <1>4. destruct(SetTag(b, c, t), v) \in State
    BY <1>2, <1>3, SetTagType, destructType
  <1> QED
    BY <1>1, <1>4, CrashType DEF move_from

LEMMA unique_ptr_copyType ==
  ASSUME NEW s \in State, NEW c \in Cell, NEW v \in Cell,
         NEW f \in [Below(s, v) -> Heap]
  PROVE  unique_ptr_copy(s, c, v, f) \in State
  <1> DEFINE B      == Below(s, v)
             New    == {f[x] : x \in B}
             Src(n) == CHOOSE x \in B : f[x] = n
  <1>1. \A n \in New : Src(n) \in B /\ Src(n) \in Heap /\ Src(n) \in Cell
    BY BelowType DEF Cell
  <1>2. \A n \in New : Src(n) \notin Kids(s, v) => f[s.owner[Src(n)]] \in Cell
    <2> SUFFICES ASSUME NEW n \in New, Src(n) \notin Kids(s, v)
                 PROVE  f[s.owner[Src(n)]] \in Cell
      OBVIOUS
    <2> DEFINE x == Src(n)
    <2>1. x \in B /\ x \in Heap
      BY <1>1
    <2> HIDE DEF x
    <2>2. s.owner[x] \in B \cup {v} /\ s.vtype[s.owner[x]] \in Containers
      BY <2>1, BelowOwner
    <2>3. s.owner[x] # v
      BY <2>1, <2>2 DEF Kids, x
    <2> QED
      BY <2>2, <2>3 DEF Cell, x
  <1>3. \A n \in New : HeldBy(s.vtype[Src(n)]) \in Members
    BY <1>1, HeldByType DEF State
  <1> HIDE DEF Src
  <1>4. [e \in Cell |-> IF e \in New THEN s.vtype[Src(e)] ELSE s.vtype[e]] \in [Cell -> Types]
    BY <1>1 DEF State
  <1>5. [e \in Cell |-> IF e \in New THEN HeldBy(s.vtype[Src(e)]) ELSE s.held[e]]
          \in [Cell -> Members]
    BY <1>3 DEF State
  <1>6. [e \in Cell |-> IF e \notin New THEN s.data[e]
                        ELSE IF s.vtype[Src(e)] = "Null" THEN NoData
                        ELSE s.data[Src(e)]] \in [Cell -> Payloads \cup {NoData}]
    BY <1>1 DEF State
  <1>7. [h \in Heap |-> IF h \in New THEN s.slot[Src(h)] ELSE s.slot[h]]
          \in [Heap -> Int]
    BY <1>1 DEF State
  <1>8. [h \in Heap |-> IF h \notin New THEN s.owner[h]
                        ELSE IF Src(h) \in Kids(s, v) THEN c
                        ELSE f[s.owner[Src(h)]]] \in [Heap -> Cell \cup {Uptr, Free, Stray}]
    BY <1>1, <1>2 DEF State
  <1> QED
    BY <1>4, <1>5, <1>6, <1>7, <1>8 DEF unique_ptr_copy, State, Src

\* Placement new over a Value with no container changes nothing below others.
LEMMA BelowConstruct ==
  ASSUME NEW s \in State, NEW c \in Cell, NEW t, NEW d, NEW v \in Cell,
         s.vtype[c] \notin Containers
  PROVE  Below(construct(s, c, t, d), v) = Below(s, v)
  <1> DEFINE a == construct(s, c, t, d)
  <1>1. a.vtype = s.vtype
    BY DEF construct, Reown, State
  <1>2. \A h \in Heap : a.owner[h] = IF s.owner[h] = c THEN Stray ELSE s.owner[h]
    BY DEF construct, Reown, State
  <1> HIDE DEF a
  <1>3. Stray \notin Heap \cup {v}
    BY CellAssumption DEF Cell
  <1>4. \A S \in SUBSET Heap : Closed(a, v, S) <=> Closed(s, v, S)
    BY <1>1, <1>2, <1>3 DEF Closed
  <1>5. Below(a, v) = Below(s, v)
    BY <1>4 DEF Below
  <1> QED
    BY <1>5 DEF a

LEMMA destructNull ==
  ASSUME NEW s \in State, NEW c \in Cell PROVE destruct(s, c).vtype[c] = "Null"
  BY ReleaseType DEF destruct, State

LEMMA CopyMapsType ==
  ASSUME NEW s \in State, NEW c \in Cell, NEW v \in Cell, NEW f \in CopyMaps(s, c, v)
  PROVE  f \in [Below(destruct(s, c), v) -> Heap]
  BY DEF CopyMaps, FreeNodes

LEMMA copy_fromType ==
  ASSUME NEW s \in State, NEW c \in Cell, NEW v \in Cell, NEW f \in CopyMaps(s, c, v)
  PROVE  copy_from(s, c, v, f) \in State
  <1> DEFINE a == destruct(s, c)
             t == a.vtype[v]
             k == construct(a, c, t, a.data[v])
             b == IF t = "Null" THEN a ELSE unique_ptr_copy(k, c, v, f)
  <1>1. a \in State
    BY destructType
  <1>2. t \in Types /\ a.data[v] \in Payloads \cup {NoData}
    BY <1>1 DEF State
  <1>3. k \in State
    BY <1>1, <1>2, constructType
  <1>4. Below(k, v) = Below(a, v)
    BY <1>1, destructNull, BelowConstruct DEF Containers
  <1>5. b \in State
    BY <1>1, <1>3, <1>4, CopyMapsType, unique_ptr_copyType
  <1> QED
    BY <1>1, <1>2, <1>5, CrashType, SetTagType DEF copy_from

LEMMA make_uniqueType ==
  ASSUME NEW s \in State, NEW n \in Heap PROVE make_unique(s, n) \in State
  BY DEF make_unique, State

LEMMA emplaceType ==
  ASSUME NEW s \in State, NEW c \in Cell, NEW k \in Keys, NEW n \in Heap
  PROVE  emplace(s, c, k, n) \in State
  BY CrashType, DataAssumption DEF emplace, State

LEMMA emplace_backType ==
  ASSUME NEW s \in State, NEW c \in Cell, NEW n \in Heap
  PROVE  emplace_back(s, c, n) \in State
  <1>1. IsFiniteSet({h \in Heap : s.owner[h] = c})
    BY FiniteAssumption, FS_Subset
  <1>2. Cardinality({h \in Heap : s.owner[h] = c}) + 1 \in Int
    BY <1>1, FS_CardinalityType
  <1> QED
    BY <1>2, CrashType DEF emplace_back, State

LEMMA FreeNodeType ==
  ASSUME NEW s \in State, NEW n \in Heap PROVE FreeNode(s, n) \in State
  BY destructType, ReleaseType DEF FreeNode, Cell

LEMMA ArgTmpCell == Arg \in Cell /\ Tmp \in Cell /\ Heap \subseteq Cell /\ Named \subseteq Cell
  BY DEF Cell

LEMMA TagsType ==
  /\ {"Null", "Array", "Map"} \subseteq Types
  /\ NoData \in Payloads \cup {NoData}
  BY DEF Types

LEMMA WrapInArrayType ==
  ASSUME NEW s \in State, NEW c \in Cell, NEW m \in Heap
  PROVE  WrapInArray(s, c, m) \in State
  <1> DEFINE a == construct(move_from(s, Tmp, c), c, "Array", NoData)
             b == move_from(make_unique(a, m), m, Tmp)
  <1>1. a \in State
    BY move_fromType, constructType, ArgTmpCell, TagsType
  <1>2. b \in State
    BY <1>1, make_uniqueType, move_fromType, ArgTmpCell
  <1> QED
    BY <1>2, emplace_backType DEF WrapInArray

LEMMA OpenArrayType ==
  ASSUME NEW s \in State, NEW c \in Cell PROVE OpenArray(s, c) \in State
  BY constructType, SetTagType, TagsType DEF OpenArray

LEMMA PushReadyType ==
  ASSUME NEW s \in State, NEW c \in Cell, NEW m \in Heap
  PROVE  PushReady(s, c, m) \in State
  BY OpenArrayType, WrapInArrayType DEF PushReady

LEMMA PushMovedType ==
  ASSUME NEW s \in State, NEW c \in Cell, NEW v \in Cell, NEW m \in Heap, NEW n \in Heap
  PROVE  PushMoved(s, c, v, m, n) \in State
  <1> DEFINE a == PushReady(s, c, m)
             b == move_from(make_unique(a, n), n, v)
  <1>1. a \in State
    BY PushReadyType
  <1>2. b \in State
    BY <1>1, make_uniqueType, move_fromType, ArgTmpCell
  <1> QED
    BY <1>2, emplace_backType, SetTagType, TagsType DEF PushMoved

LEMMA PushCopiedType ==
  ASSUME NEW s \in State, NEW c \in Cell, NEW v \in Cell, NEW m \in Heap, NEW n \in Heap,
         NEW f \in PushMaps(s, c, v, m, n)
  PROVE  PushCopied(s, c, v, m, n, f) \in State
  <1> DEFINE a == PushReady(s, c, m)
             b == copy_from(make_unique(a, n), n, v, f)
  <1>1. a \in State
    BY PushReadyType
  <1>2. b \in State
    BY <1>1, make_uniqueType, copy_fromType, ArgTmpCell DEF PushMaps
  <1> QED
    BY <1>2, emplace_backType, SetTagType, TagsType DEF PushCopied

LEMMA InsertKeyType ==
  ASSUME NEW s \in State, NEW c \in Cell, NEW k \in Keys, NEW n \in Heap
  PROVE  InsertKey(s, c, k, n) \in State
  <1> DEFINE a == IF s.vtype[c] = "Null"
                  THEN SetTag(construct(s, c, "Map", NoData), c, "Map") ELSE s
  <1>1. a \in State
    BY constructType, SetTagType, TagsType
  <1> QED
    BY <1>1, make_uniqueType, emplaceType DEF InsertKey

LEMMA EraseType ==
  ASSUME NEW s \in State, NEW c \in Cell, NEW x \in Heap
  PROVE  Erase(s, c, x) \in State
  <1> DEFINE a == FreeNode(s, x)
  <1>1. a \in State
    BY FreeNodeType
  <1> HIDE DEF a
  <1>2. [h \in Heap |-> IF a.owner[h] = c /\ a.slot[h] > s.slot[x] THEN a.slot[h] - 1
                        ELSE a.slot[h]] \in [Heap -> Int]
    BY <1>1 DEF State
  <1>3. [a EXCEPT !.slot = [h \in Heap |->
           IF a.owner[h] = c /\ a.slot[h] > s.slot[x] THEN a.slot[h] - 1
           ELSE a.slot[h]]] \in State
    BY <1>1, <1>2 DEF State
  <1> QED
    BY <1>1, <1>3 DEF Erase, a

LEMMA swappedType ==
  ASSUME NEW s \in State, NEW c \in Cell, NEW v \in Cell
  PROVE  swapped(s, c, v) \in State
  BY move_fromType, destructType, ArgTmpCell DEF swapped

LEMMA LiteralType ==
  ASSUME NEW s \in State, NEW l \in Literals PROVE Literal(s, l[1], l[2]) \in State
  <1>1. l[1] \in Types /\ l[2] \in Payloads \cup {NoData}
    BY DEF Literals, Types
  <1> QED
    BY <1>1, constructType, SetTagType, ArgTmpCell DEF Literal

LEMMA PushFailedType ==
  ASSUME NEW s \in State, NEW c \in Cell, NEW v \in Cell, NEW m \in Heap, NEW n \in Heap
  PROVE  PushFailed(s, c, v, m, n) \in State
  BY PushReadyType, make_uniqueType, move_fromType, FreeNodeType, ArgTmpCell DEF PushFailed

LEMMA WrapFailedType ==
  ASSUME NEW s \in State, NEW c \in Cell PROVE WrapFailed(s, c) \in State
  BY move_fromType, constructType, destructType, ArgTmpCell, TagsType DEF WrapFailed

LEMMA AddressableType ==
  ASSUME NEW s, NEW c \in Addressable(s) PROVE c \in Cell
  BY BelowType DEF Addressable, Cell

LEMMA InitType == Init => TypeOK
  BY DEF Init, TypeOK, State, Types, Members

\* Every call of the program leaves a State.
LEMMA NextType == TypeOK /\ [Next]_st => TypeOK'
  <1> SUFFICES ASSUME st \in State, [Next]_st PROVE st' \in State
    BY DEF TypeOK
  <1>1. CASE UNCHANGED st
    BY <1>1
  <1>2. ASSUME NEW c \in Addressable(st), Call(c) PROVE st' \in State
    <2> c \in Cell
      BY AddressableType
    <2> FreeNodes(st) \subseteq Heap
      BY DEF FreeNodes
    <2>1. ASSUME NEW v \in Addressable(st), CopyAssign(c, v) PROVE st' \in State
      BY <2>1, AddressableType, copy_fromType DEF CopyAssign
    <2>2. ASSUME NEW v \in Addressable(st), MoveAssign(c, v) PROVE st' \in State
      BY <2>2, AddressableType, move_fromType DEF MoveAssign
    <2>3. ASSUME NEW v \in Addressable(st), PushBackMove(c, v) PROVE st' \in State
      BY <2>3, AddressableType, PushMovedType DEF PushBackMove
    <2>4. ASSUME NEW v \in Addressable(st), PushBackCopy(c, v) PROVE st' \in State
      BY <2>4, AddressableType, PushCopiedType DEF PushBackCopy
    <2>5. ASSUME NEW v \in Addressable(st), RemoveElement(c, v) PROVE st' \in State
      BY <2>5, EraseType DEF RemoveElement, Kids
    <2>6. ASSUME NEW v \in Addressable(st), Swap(c, v) PROVE st' \in State
      BY <2>6, AddressableType, swappedType DEF Swap
    <2>7. ASSUME NEW v \in Addressable(st), CopyAssignFails(c, v) PROVE st' \in State
      BY <2>7, destructType DEF CopyAssignFails
    <2>8. ASSUME NEW v \in Addressable(st), PushBackMoveFails(c, v) PROVE st' \in State
      BY <2>8, AddressableType, PushFailedType DEF PushBackMoveFails
    <2>9. ASSUME NEW l \in Literals, AssignNew(c, l[1], l[2]) PROVE st' \in State
      BY <2>9, LiteralType, move_fromType, ArgTmpCell DEF AssignNew
    <2>10. ASSUME NEW l \in Literals, PushBackNew(c, l[1], l[2]) PROVE st' \in State
      BY <2>10, LiteralType, PushMovedType, ArgTmpCell DEF PushBackNew
    <2>11. ASSUME NEW k \in Keys, IndexKey(c, k) PROVE st' \in State
      BY <2>11, InsertKeyType DEF IndexKey
    <2>12. ASSUME NEW k \in Keys, RemoveKey(c, k) PROVE st' \in State
      BY <2>12, EraseType DEF RemoveKey, Kids
    <2>13. ASSUME NEW d \in Payloads, WriteThrough(c, d) PROVE st' \in State
      BY <2>13 DEF WriteThrough, State
    <2>14. CASE StealString(c)
      BY <2>14 DEF StealString, State
    <2>15. CASE PushBackFails(c)
      BY <2>15, OpenArrayType, WrapInArrayType, WrapFailedType DEF PushBackFails, FreeNodes
    <2>16. CASE IndexKeyFails(c)
      BY <2>16, constructType, SetTagType, TagsType DEF IndexKeyFails
    <2> QED
      BY <1>2, <2>1, <2>2, <2>3, <2>4, <2>5, <2>6, <2>7, <2>8, <2>9, <2>10,
         <2>11, <2>12, <2>13, <2>14, <2>15, <2>16 DEF Call
  <1>3. ASSUME NEW x \in Named, Construct(x) PROVE st' \in State
    <2> x \in Cell
      BY ArgTmpCell
    <2> FreeNodes(st) \subseteq Heap
      BY DEF FreeNodes
    <2>1. ASSUME NEW v \in Addressable(st), AssignListOfOne(x, v) PROVE st' \in State
      BY <2>1, AddressableType, copy_fromType, move_fromType, ArgTmpCell
         DEF AssignListOfOne
    <2>2. ASSUME NEW v \in Addressable(st), NEW y \in Addressable(st), AssignListOfTwo(x, v, y)
          PROVE  st' \in State
      <3>1. PICK m \in FreeNodes(st), n \in FreeNodes(st) :
              \E f \in PushMaps(make_unique(st, n), Arg, v, m, m) :
              \E g \in PushMaps(PushCopied(make_unique(st, n), Arg, v, m, m, f), Arg, y, n, n) :
                st' = move_from(PushCopied(PushCopied(make_unique(st, n), Arg, v, m, m, f),
                                           Arg, y, n, n, g), x, Arg)
        BY <2>2 DEF AssignListOfTwo
      <3>a. PICK f \in PushMaps(make_unique(st, n), Arg, v, m, m) :
              \E g \in PushMaps(PushCopied(make_unique(st, n), Arg, v, m, m, f), Arg, y, n, n) :
                st' = move_from(PushCopied(PushCopied(make_unique(st, n), Arg, v, m, m, f),
                                           Arg, y, n, n, g), x, Arg)
        BY <3>1
      <3>2. PICK g \in PushMaps(PushCopied(make_unique(st, n), Arg, v, m, m, f), Arg, y, n, n) :
              st' = move_from(PushCopied(PushCopied(make_unique(st, n), Arg, v, m, m, f),
                                         Arg, y, n, n, g), x, Arg)
        BY <3>a
      <3>3. PushCopied(make_unique(st, n), Arg, v, m, m, f) \in State
        BY AddressableType, make_uniqueType, PushCopiedType, ArgTmpCell
      <3>4. PushCopied(PushCopied(make_unique(st, n), Arg, v, m, m, f), Arg, y, n, n, g) \in State
        BY <3>3, AddressableType, PushCopiedType, ArgTmpCell
      <3> QED
        BY <3>2, <3>4, move_fromType, ArgTmpCell
    <2>3. ASSUME NEW v \in Addressable(st), NEW k \in Keys, AssignPair(x, k, v)
          PROVE  st' \in State
      <3>1. PICK n \in FreeNodes(st) : \E f \in CopyMaps(InsertKey(st, Arg, k, n), n, v) :
              st' = move_from(copy_from(InsertKey(st, Arg, k, n), n, v, f), x, Arg)
        BY <2>3 DEF AssignPair
      <3>2. InsertKey(st, Arg, k, n) \in State
        BY InsertKeyType, ArgTmpCell
      <3> QED
        BY <3>1, <3>2, AddressableType, copy_fromType, move_fromType, ArgTmpCell
    <2> QED
      BY <1>3, <2>1, <2>2, <2>3 DEF Construct
  <1>4. ASSUME NEW x \in Named, LeaveScope(x) PROVE st' \in State
    BY <1>4, destructType, constructType, ArgTmpCell, TagsType DEF LeaveScope
  <1> QED
    BY <1>1, <1>2, <1>3, <1>4 DEF Next

\* Type correctness, for every instance.
THEOREM TypeCorrect == Spec => []TypeOK
  BY InitType, NextType, PTL DEF Spec

-----------------------------------------------------------------------------
(* The tags tell the truth.  Each operation keeps Truthful by itself, but  *)
(* copy_from needs its target not to be among the free nodes it fills.     *)

Truthful(s) ==
  s.ub \/ \A c \in Cell : s.vtype[c] # "Null" => s.held[c] = HeldBy(s.vtype[c])

\* Only the tags, the members and ub matter.
LEMMA TruthfulSame ==
  ASSUME NEW s, NEW a, Truthful(s), a.vtype = s.vtype, a.held = s.held, a.ub = s.ub
  PROVE  Truthful(a)
  BY DEF Truthful

LEMMA TruthfulCrash == ASSUME NEW s \in State PROVE Truthful(Crash(s))
  BY DEF Truthful, Crash, State

LEMMA ReleaseTruthful ==
  ASSUME NEW s \in State, Truthful(s), NEW F PROVE Truthful(Release(s, F))
  BY DEF Truthful, Release, State

LEMMA destructTruthful ==
  ASSUME NEW s \in State, Truthful(s), NEW c \in Cell PROVE Truthful(destruct(s, c))
  <1> DEFINE r == Release(s, Below(s, c))
  <1>1. r \in State /\ Truthful(r)
    BY ReleaseType, ReleaseTruthful
  <1> HIDE DEF r
  <1>2. Truthful([r EXCEPT !.vtype[c] = "Null", !.held[c] = "none", !.data[c] = NoData])
    BY <1>1 DEF Truthful, State
  <1> QED
    BY <1>2 DEF destruct, r

LEMMA AdoptSame ==
  ASSUME NEW s \in State, NEW c, NEW v
  PROVE  Adopt(s, c, v).vtype = s.vtype /\ Adopt(s, c, v).held = s.held /\ Adopt(s, c, v).ub = s.ub
  BY DEF Adopt, Reown, State

LEMMA constructSame ==
  ASSUME NEW s \in State, NEW c \in Cell, NEW t, NEW d
  PROVE  /\ construct(s, c, t, d).vtype = s.vtype
         /\ construct(s, c, t, d).ub = s.ub
         /\ construct(s, c, t, d).held = [s.held EXCEPT ![c] = HeldBy(t)]
  BY DEF construct, Reown, State

LEMMA constructHeld ==
  ASSUME NEW s \in State, NEW c \in Cell, NEW t, NEW d
  PROVE  construct(s, c, t, d).held[c] = HeldBy(t)
  BY DEF construct, Reown, State

\* A member of the type t, then the tag t.
LEMMA TaggedTruthful ==
  ASSUME NEW s \in State, Truthful(s), NEW c \in Cell, NEW t \in Types,
         s.ub \/ t = "Null" \/ s.held[c] = HeldBy(t)
  PROVE  Truthful(SetTag(s, c, t))
  BY DEF Truthful, SetTag, State

\* Placement new where the tag is still Null.
LEMMA constructTruthful ==
  ASSUME NEW s \in State, Truthful(s), NEW c \in Cell, NEW t, NEW d,
         s.ub \/ s.vtype[c] = "Null"
  PROVE  Truthful(construct(s, c, t, d))
  <1> DEFINE a == construct(s, c, t, d)
  <1>1. a.vtype = s.vtype /\ a.ub = s.ub /\ a.held = [s.held EXCEPT ![c] = HeldBy(t)]
    BY constructSame
  <1> HIDE DEF a
  <1>2. \A e \in Cell : s.vtype[e] # "Null" /\ ~s.ub => a.held[e] = s.held[e]
    BY <1>1 DEF State
  <1>3. Truthful(a)
    BY <1>1, <1>2 DEF Truthful
  <1> QED
    BY <1>3 DEF a

LEMMA constructTagTruthful ==
  ASSUME NEW s \in State, Truthful(s), NEW c \in Cell, NEW t \in Types,
         NEW d \in Payloads \cup {NoData}
  PROVE  Truthful(SetTag(construct(s, c, t, d), c, t))
  <1> DEFINE a == construct(s, c, t, d)
  <1>0. a \in State
    BY constructType
  <1>1. a.vtype = s.vtype /\ a.ub = s.ub /\ a.held = [s.held EXCEPT ![c] = HeldBy(t)]
    BY constructSame
  <1> HIDE DEF a
  <1>2. Truthful(SetTag(a, c, t))
    BY <1>0, <1>1 DEF Truthful, SetTag, State
  <1> QED
    BY <1>2 DEF a

LEMMA move_fromTruthful ==
  ASSUME NEW s \in State, Truthful(s), NEW c \in Cell, NEW v \in Cell
  PROVE  Truthful(move_from(s, c, v))
  <1> DEFINE a == destruct(s, c)
             t == a.vtype[v]
             k == construct(a, c, t, a.data[v])
             b == IF t = "Null" THEN a ELSE Adopt(k, c, v)
             e == SetTag(b, c, t)
  <1>1. a \in State /\ Truthful(a) /\ a.vtype[c] = "Null"
    BY destructType, destructTruthful, destructNull
  <1>2. t \in Types /\ a.data[v] \in Payloads \cup {NoData}
    BY <1>1 DEF State
  <1>a. k \in State
    BY <1>1, <1>2, constructType
  <1>b. Truthful(k)
    BY <1>1, constructTruthful
  <1>c. k.held[c] = HeldBy(t)
    BY <1>1, constructHeld
  <1>3. k \in State /\ Truthful(k) /\ k.held[c] = HeldBy(t)
    BY <1>a, <1>b, <1>c
  <1>4. Adopt(k, c, v) \in State /\ Truthful(Adopt(k, c, v))
        /\ Adopt(k, c, v).held[c] = HeldBy(t)
    BY <1>3, AdoptType, AdoptSame, TruthfulSame
  <1>5. b \in State /\ Truthful(b) /\ (t = "Null" \/ b.held[c] = HeldBy(t))
    BY <1>1, <1>4
  <1>6. e \in State /\ Truthful(e)
    BY <1>2, <1>5, SetTagType, TaggedTruthful
  <1> QED
    BY <1>1, <1>6, destructTruthful, TruthfulCrash DEF move_from

\* The source of a move is Null afterwards ("val.isNull() == true", value.hpp:248).
LEMMA move_fromNull ==
  ASSUME NEW s \in State, NEW c \in Cell, NEW v \in Cell, ~move_from(s, c, v).ub
  PROVE  move_from(s, c, v).vtype[v] = "Null"
  <1> DEFINE a == destruct(s, c)
             t == a.vtype[v]
             b == IF t = "Null" THEN a ELSE Adopt(construct(a, c, t, a.data[v]), c, v)
             e == SetTag(b, c, t)
  <1>1. a \in State
    BY destructType
  <1>2. t \in Types /\ a.data[v] \in Payloads \cup {NoData}
    BY <1>1 DEF State
  <1>3. e \in State
    BY <1>1, <1>2, constructType, AdoptType, SetTagType
  <1>4. Crash(a).ub
    BY <1>1 DEF Crash, State
  <1> QED
    BY <1>3, <1>4, destructNull DEF move_from

LEMMA copyTruthful ==
  ASSUME NEW s \in State, Truthful(s), NEW c \in Cell, NEW v \in Cell,
         NEW f \in [Below(s, v) -> Heap]
  PROVE  /\ Truthful(unique_ptr_copy(s, c, v, f))
         /\ unique_ptr_copy(s, c, v, f).ub = s.ub
         /\ \A e \in Cell : (\A x \in Below(s, v) : f[x] # e) =>
               unique_ptr_copy(s, c, v, f).held[e] = s.held[e]
  BY DEF unique_ptr_copy, Truthful, State

LEMMA copy_fromTruthful ==
  ASSUME NEW s \in State, Truthful(s), NEW c \in Cell, NEW v \in Cell,
         NEW f \in CopyMaps(s, c, v), Alive(destruct(s, c), c)
  PROVE  Truthful(copy_from(s, c, v, f))
  <1> DEFINE a == destruct(s, c)
             t == a.vtype[v]
             k == construct(a, c, t, a.data[v])
             u == unique_ptr_copy(k, c, v, f)
             b == IF t = "Null" THEN a ELSE u
  <1>1. a \in State /\ Truthful(a) /\ a.vtype[c] = "Null"
    BY destructType, destructTruthful, destructNull
  <1>2. t \in Types /\ a.data[v] \in Payloads \cup {NoData}
    BY <1>1 DEF State
  <1>a. k \in State
    BY <1>1, <1>2, constructType
  <1>b. Truthful(k)
    BY <1>1, constructTruthful
  <1>c. k.held[c] = HeldBy(t)
    BY <1>1, constructHeld
  <1>3. k \in State /\ Truthful(k) /\ k.held[c] = HeldBy(t)
    BY <1>a, <1>b, <1>c
  <1>4. Below(k, v) = Below(a, v)
    BY <1>1, BelowConstruct DEF Containers
  <1>5. f \in [Below(k, v) -> Heap] /\ \A x \in Below(k, v) : f[x] # c
    BY <1>4 DEF CopyMaps, FreeNodes, Alive
  <1>6. u \in State /\ Truthful(u) /\ u.held[c] = HeldBy(t)
    BY <1>3, <1>5, unique_ptr_copyType, copyTruthful
  <1>7. b \in State /\ Truthful(b) /\ (t = "Null" \/ b.held[c] = HeldBy(t))
    BY <1>1, <1>6
  <1>8. Truthful(SetTag(b, c, t))
    BY <1>2, <1>7, TaggedTruthful
  <1> QED
    BY <1>1, <1>8, TruthfulCrash DEF copy_from

\* A Value in a container of a variable is not below itself: a cycle of
\* containers cannot be reached from the outside.
LEMMA NoSelfBelow ==
  ASSUME NEW s, NEW c \in Addressable(s) PROVE c \notin Below(s, c)
  <1> SUFFICES ASSUME c \in Below(s, c) PROVE FALSE
    OBVIOUS
  <1>1. PICK x \in Named : c \in Below(s, x)
    BY BelowType, CellAssumption DEF Addressable
  <1> DEFINE S == Below(s, x) \ Below(s, c)
  <1>2. S \in SUBSET Heap /\ x \notin Heap
    BY BelowType, CellAssumption
  <1>3. ASSUME NEW h \in Heap \ S, s.owner[h] \in S \cup {x}
        PROVE  s.vtype[s.owner[h]] \notin Containers
    <2>1. CASE h \notin Below(s, x)
      BY <1>3, <2>1, BelowClosed DEF Closed
    <2>2. CASE h \in Below(s, c)
      <3>1. s.owner[h] \in Below(s, c)
        BY <2>2, BelowOwner
      <3> QED
        BY <1>2, <1>3, <3>1, BelowType
    <2> QED
      BY <2>1, <2>2
  <1>4. Closed(s, x, S)
    BY <1>3 DEF Closed
  <1> QED
    BY <1>1, <1>2, <1>4, BelowLeast

\* destruct frees what is below its target, never the target itself, if that
\* is a variable, a Value in one, or a node the stack holds.
LEMMA destructAlive ==
  ASSUME NEW s \in State, NEW c \in Cell, Alive(s, c), c \notin Below(s, c)
  PROVE  Alive(destruct(s, c), c)
  BY BelowType, OwnerAssumption, CellAssumption DEF destruct, Release, Alive, State, Cell

LEMMA AddressableAlive ==
  ASSUME NEW s \in State, NEW c \in Addressable(s) PROVE Alive(destruct(s, c), c)
  <1>1. c \in Cell /\ c \notin Below(s, c)
    BY AddressableType, NoSelfBelow
  <1>2. Alive(s, c)
    <2> SUFFICES ASSUME c \in Heap PROVE s.owner[c] # Free
      BY DEF Alive
    <2>1. PICK x \in Named : c \in Below(s, x)
      BY CellAssumption DEF Addressable
    <2>2. s.owner[c] \in Below(s, x) \cup {x}
      BY <2>1, BelowOwner
    <2> QED
      BY <2>2, BelowType, CellAssumption
  <1> QED
    BY <1>1, <1>2, destructAlive

LEMMA StackNodeAlive ==
  ASSUME NEW s \in State, NEW n \in Heap, s.owner[n] \notin Heap \cup {Free}
  PROVE  Alive(destruct(s, n), n)
  <1>1. n \notin Below(s, n)
    BY BelowOwner, BelowType
  <1> QED
    BY <1>1, destructAlive DEF Alive, Cell

-----------------------------------------------------------------------------
(* Nothing resets ub, so a call that crashes on its way stays crashed.     *)

LEMMA destructUb ==
  ASSUME NEW s \in State, NEW c PROVE destruct(s, c).ub = s.ub
  BY DEF destruct, Release, State

LEMMA copy_fromUb ==
  ASSUME NEW s \in State, NEW c \in Cell, NEW v \in Cell, NEW f \in CopyMaps(s, c, v), s.ub
  PROVE  copy_from(s, c, v, f).ub
  <1> DEFINE a == destruct(s, c)
             t == a.vtype[v]
             k == construct(a, c, t, a.data[v])
             u == unique_ptr_copy(k, c, v, f)
             b == IF t = "Null" THEN a ELSE u
  <1>1. a \in State /\ a.ub
    BY destructType, destructUb
  <1>2. k.ub
    BY <1>1, constructSame
  <1>3. u.ub
    BY <1>2 DEF unique_ptr_copy
  <1>4. b.ub
    BY <1>1, <1>3
  <1>5. SetTag(b, c, t).ub
    BY <1>4 DEF SetTag
  <1>6. Crash(a).ub
    BY <1>1 DEF Crash, State
  <1> QED
    BY <1>5, <1>6 DEF copy_from

-----------------------------------------------------------------------------
(* The operations that build on the helpers.                               *)

LEMMA make_uniqueSame ==
  ASSUME NEW s \in State, NEW n \in Heap
  PROVE  /\ make_unique(s, n).vtype = s.vtype
         /\ make_unique(s, n).held = s.held
         /\ make_unique(s, n).ub = s.ub
         /\ make_unique(s, n).owner[n] = Uptr
  BY DEF make_unique, State

LEMMA make_uniqueTruthful ==
  ASSUME NEW s \in State, Truthful(s), NEW n \in Heap PROVE Truthful(make_unique(s, n))
  BY make_uniqueSame, TruthfulSame

\* An emplace_back that does not crash has found a live vector.
LEMMA emplace_backTruthful ==
  ASSUME NEW s \in State, Truthful(s), NEW c \in Cell, NEW n \in Heap
  PROVE  /\ Truthful(emplace_back(s, c, n))
         /\ emplace_back(s, c, n).ub \/ emplace_back(s, c, n).held[c] = "Array"
  <1>1. CASE s.held[c] # "Array"
    BY <1>1, TruthfulCrash DEF emplace_back, Crash, State
  <1>2. CASE s.held[c] = "Array"
    <2> DEFINE a == emplace_back(s, c, n)
    <2>1. a.vtype = s.vtype /\ a.held = s.held /\ a.ub = s.ub
      BY <1>2 DEF emplace_back, State
    <2> HIDE DEF a
    <2>2. Truthful(a) /\ a.held[c] = "Array"
      BY <1>2, <2>1, TruthfulSame
    <2> QED
      BY <2>2 DEF a
  <1> QED
    BY <1>1, <1>2

LEMMA emplaceTruthful ==
  ASSUME NEW s \in State, Truthful(s), NEW c \in Cell, NEW k, NEW n \in Heap
  PROVE  Truthful(emplace(s, c, k, n))
  <1>1. CASE s.held[c] # "Map"
    BY <1>1, TruthfulCrash DEF emplace
  <1>2. CASE s.held[c] = "Map"
    <2> DEFINE a == emplace(s, c, k, n)
    <2>1. a.vtype = s.vtype /\ a.held = s.held /\ a.ub = s.ub
      BY <1>2 DEF emplace, State
    <2> HIDE DEF a
    <2>2. Truthful(a)
      BY <2>1, TruthfulSame
    <2> QED
      BY <2>2 DEF a
  <1> QED
    BY <1>1, <1>2

LEMMA FreeNodeTruthful ==
  ASSUME NEW s \in State, Truthful(s), NEW n \in Heap PROVE Truthful(FreeNode(s, n))
  BY destructType, destructTruthful, ReleaseTruthful, ArgTmpCell DEF FreeNode

\* The array that wraps the old content of c is built while c is tagged Null.
LEMMA OldContentMoved ==
  ASSUME NEW s \in State, Truthful(s), NEW c \in Cell
  PROVE  Truthful(construct(move_from(s, Tmp, c), c, "Array", NoData))
  <1>1. move_from(s, Tmp, c) \in State /\ Truthful(move_from(s, Tmp, c))
    BY move_fromType, move_fromTruthful, ArgTmpCell
  <1>2. move_from(s, Tmp, c).ub \/ move_from(s, Tmp, c).vtype[c] = "Null"
    BY move_fromNull, ArgTmpCell
  <1> QED
    BY <1>1, <1>2, constructTruthful

LEMMA WrapInArrayTruthful ==
  ASSUME NEW s \in State, Truthful(s), NEW c \in Cell, NEW m \in Heap
  PROVE  Truthful(WrapInArray(s, c, m))
  <1> DEFINE a == construct(move_from(s, Tmp, c), c, "Array", NoData)
             b == move_from(make_unique(a, m), m, Tmp)
  <1>1. a \in State /\ Truthful(a)
    BY OldContentMoved, move_fromType, constructType, ArgTmpCell, TagsType
  <1>2. make_unique(a, m) \in State /\ Truthful(make_unique(a, m))
    BY <1>1, make_uniqueType, make_uniqueTruthful
  <1>3. b \in State /\ Truthful(b)
    BY <1>2, move_fromType, move_fromTruthful, ArgTmpCell
  <1> QED
    BY <1>3, emplace_backTruthful DEF WrapInArray

LEMMA OpenArrayTruthful ==
  ASSUME NEW s \in State, Truthful(s), NEW c \in Cell PROVE Truthful(OpenArray(s, c))
  BY constructTagTruthful, TagsType DEF OpenArray

LEMMA PushReadyTruthful ==
  ASSUME NEW s \in State, Truthful(s), NEW c \in Cell, NEW m \in Heap
  PROVE  Truthful(PushReady(s, c, m))
  BY OpenArrayTruthful, WrapInArrayTruthful DEF PushReady

\* The tag is set to Array last, after the emplace_back.
LEMMA PushEndTruthful ==
  ASSUME NEW s \in State, Truthful(s), NEW c \in Cell, NEW n \in Heap
  PROVE  Truthful(SetTag(emplace_back(s, c, n), c, "Array"))
  <1>1. emplace_back(s, c, n) \in State /\ Truthful(emplace_back(s, c, n))
    BY emplace_backType, emplace_backTruthful
  <1>2. emplace_back(s, c, n).ub \/ emplace_back(s, c, n).held[c] = HeldBy("Array")
    BY emplace_backTruthful DEF HeldBy
  <1> QED
    BY <1>1, <1>2, TaggedTruthful, TagsType

LEMMA PushMovedTruthful ==
  ASSUME NEW s \in State, Truthful(s), NEW c \in Cell, NEW v \in Cell,
         NEW m \in Heap, NEW n \in Heap
  PROVE  Truthful(PushMoved(s, c, v, m, n))
  <1> DEFINE a == PushReady(s, c, m)
             b == move_from(make_unique(a, n), n, v)
  <1>1. a \in State /\ Truthful(a)
    BY PushReadyType, PushReadyTruthful
  <1>2. make_unique(a, n) \in State /\ Truthful(make_unique(a, n))
    BY <1>1, make_uniqueType, make_uniqueTruthful
  <1>3. b \in State /\ Truthful(b)
    BY <1>2, move_fromType, move_fromTruthful, ArgTmpCell
  <1> QED
    BY <1>3, PushEndTruthful DEF PushMoved

LEMMA PushCopiedTruthful ==
  ASSUME NEW s \in State, Truthful(s), NEW c \in Cell, NEW v \in Cell,
         NEW m \in Heap, NEW n \in Heap, NEW f \in PushMaps(s, c, v, m, n)
  PROVE  Truthful(PushCopied(s, c, v, m, n, f))
  <1> DEFINE a == make_unique(PushReady(s, c, m), n)
             b == copy_from(a, n, v, f)
  <1>1. a \in State /\ Truthful(a)
    BY PushReadyType, PushReadyTruthful, make_uniqueType, make_uniqueTruthful
  <1>2. a.owner[n] = Uptr
    BY PushReadyType, make_uniqueSame
  <1>3. Alive(destruct(a, n), n)
    BY <1>1, <1>2, StackNodeAlive, OwnerAssumption, CellAssumption
  <1>4. f \in CopyMaps(a, n, v)
    BY DEF PushMaps
  <1>5. b \in State /\ Truthful(b)
    BY <1>1, <1>3, <1>4, copy_fromType, copy_fromTruthful, ArgTmpCell
  <1> QED
    BY <1>5, PushEndTruthful DEF PushCopied

LEMMA InsertKeyTruthful ==
  ASSUME NEW s \in State, Truthful(s), NEW c \in Cell, NEW k \in Keys, NEW n \in Heap
  PROVE  Truthful(InsertKey(s, c, k, n))
  <1> DEFINE a == IF s.vtype[c] = "Null"
                  THEN SetTag(construct(s, c, "Map", NoData), c, "Map") ELSE s
  <1>1. a \in State /\ Truthful(a)
    BY constructType, SetTagType, constructTagTruthful, TagsType
  <1>2. make_unique(a, n) \in State /\ Truthful(make_unique(a, n))
    BY <1>1, make_uniqueType, make_uniqueTruthful
  <1> QED
    BY <1>2, emplaceTruthful DEF InsertKey

LEMMA EraseTruthful ==
  ASSUME NEW s \in State, Truthful(s), NEW c \in Cell, NEW x \in Heap
  PROVE  Truthful(Erase(s, c, x))
  <1> DEFINE a == FreeNode(s, x)
  <1>1. a \in State /\ Truthful(a)
    BY FreeNodeType, FreeNodeTruthful
  <1> HIDE DEF a
  <1>2. ASSUME NEW f PROVE Truthful([a EXCEPT !.slot = f])
    BY <1>1 DEF Truthful, State
  <1> QED
    BY <1>1, <1>2 DEF Erase, a

LEMMA swappedTruthful ==
  ASSUME NEW s \in State, Truthful(s), NEW c \in Cell, NEW v \in Cell
  PROVE  Truthful(swapped(s, c, v))
  <1>1. /\ move_from(move_from(move_from(s, Tmp, v), v, c), c, Tmp) \in State
        /\ Truthful(move_from(move_from(move_from(s, Tmp, v), v, c), c, Tmp))
    BY move_fromType, move_fromTruthful, ArgTmpCell
  <1> QED
    BY <1>1, destructTruthful, ArgTmpCell DEF swapped

LEMMA LiteralTruthful ==
  ASSUME NEW s \in State, Truthful(s), NEW l \in Literals
  PROVE  Truthful(Literal(s, l[1], l[2]))
  <1>1. l[1] \in Types /\ l[2] \in Payloads \cup {NoData}
    BY DEF Literals, Types
  <1> QED
    BY <1>1, constructTagTruthful, ArgTmpCell DEF Literal

LEMMA PushFailedTruthful ==
  ASSUME NEW s \in State, Truthful(s), NEW c \in Cell, NEW v \in Cell,
         NEW m \in Heap, NEW n \in Heap
  PROVE  Truthful(PushFailed(s, c, v, m, n))
  <1>1. make_unique(PushReady(s, c, m), n) \in State /\ Truthful(make_unique(PushReady(s, c, m), n))
    BY PushReadyType, PushReadyTruthful, make_uniqueType, make_uniqueTruthful
  <1> QED
    BY <1>1, move_fromType, move_fromTruthful, FreeNodeTruthful, ArgTmpCell DEF PushFailed

LEMMA WrapFailedTruthful ==
  ASSUME NEW s \in State, Truthful(s), NEW c \in Cell PROVE Truthful(WrapFailed(s, c))
  <1>1. construct(move_from(s, Tmp, c), c, "Array", NoData) \in State
    BY move_fromType, constructType, ArgTmpCell, TagsType
  <1> QED
    BY <1>1, OldContentMoved, destructTruthful, ArgTmpCell DEF WrapFailed

LEMMA InsertKeyOwner ==
  ASSUME NEW s \in State, NEW c \in Cell, NEW k \in Keys, NEW n \in Heap
  PROVE  InsertKey(s, c, k, n).ub \/ InsertKey(s, c, k, n).owner[n] = c
  <1> DEFINE a == IF s.vtype[c] = "Null"
                  THEN SetTag(construct(s, c, "Map", NoData), c, "Map") ELSE s
             b == make_unique(a, n)
  <1>1. a \in State
    BY constructType, SetTagType, TagsType
  <1>2. b \in State
    BY <1>1, make_uniqueType
  <1> HIDE DEF a, b
  <1>3. emplace(b, c, k, n).ub \/ emplace(b, c, k, n).owner[n] = c
    BY <1>2 DEF emplace, Crash, State
  <1> QED
    BY <1>3 DEF InsertKey, a, b

LEMMA InitTruthful == Init => Truthful(st)
  BY DEF Init, Truthful

\* Every call keeps the tags truthful, whatever its arguments alias.
LEMMA NextTruthful == TypeOK /\ Truthful(st) /\ [Next]_st => Truthful(st')
  <1> SUFFICES ASSUME st \in State, Truthful(st), [Next]_st PROVE Truthful(st')
    BY DEF TypeOK
  <1>1. CASE UNCHANGED st
    BY <1>1
  <1>2. ASSUME NEW c \in Addressable(st), Call(c) PROVE Truthful(st')
    <2> c \in Cell
      BY AddressableType
    <2> FreeNodes(st) \subseteq Heap
      BY DEF FreeNodes
    <2>1. ASSUME NEW v \in Addressable(st), CopyAssign(c, v) PROVE Truthful(st')
      BY <2>1, AddressableType, AddressableAlive, copy_fromTruthful DEF CopyAssign
    <2>2. ASSUME NEW v \in Addressable(st), MoveAssign(c, v) PROVE Truthful(st')
      BY <2>2, AddressableType, move_fromTruthful DEF MoveAssign
    <2>3. ASSUME NEW v \in Addressable(st), PushBackMove(c, v) PROVE Truthful(st')
      BY <2>3, AddressableType, PushMovedTruthful DEF PushBackMove
    <2>4. ASSUME NEW v \in Addressable(st), PushBackCopy(c, v) PROVE Truthful(st')
      BY <2>4, AddressableType, PushCopiedTruthful DEF PushBackCopy
    <2>5. ASSUME NEW v \in Addressable(st), RemoveElement(c, v) PROVE Truthful(st')
      BY <2>5, EraseTruthful DEF RemoveElement, Kids
    <2>6. ASSUME NEW v \in Addressable(st), Swap(c, v) PROVE Truthful(st')
      BY <2>6, AddressableType, swappedTruthful DEF Swap
    <2>7. ASSUME NEW v \in Addressable(st), CopyAssignFails(c, v) PROVE Truthful(st')
      BY <2>7, destructTruthful DEF CopyAssignFails
    <2>8. ASSUME NEW v \in Addressable(st), PushBackMoveFails(c, v) PROVE Truthful(st')
      BY <2>8, AddressableType, PushFailedTruthful DEF PushBackMoveFails
    <2>9. ASSUME NEW l \in Literals, AssignNew(c, l[1], l[2]) PROVE Truthful(st')
      BY <2>9, LiteralType, LiteralTruthful, move_fromTruthful, ArgTmpCell DEF AssignNew
    <2>10. ASSUME NEW l \in Literals, PushBackNew(c, l[1], l[2]) PROVE Truthful(st')
      BY <2>10, LiteralType, LiteralTruthful, PushMovedTruthful, ArgTmpCell DEF PushBackNew
    <2>11. ASSUME NEW k \in Keys, IndexKey(c, k) PROVE Truthful(st')
      BY <2>11, InsertKeyTruthful DEF IndexKey
    <2>12. ASSUME NEW k \in Keys, RemoveKey(c, k) PROVE Truthful(st')
      BY <2>12, EraseTruthful DEF RemoveKey, Kids
    <2>13. ASSUME NEW d \in Payloads, WriteThrough(c, d) PROVE Truthful(st')
      BY <2>13 DEF WriteThrough, Truthful, State
    <2>14. CASE StealString(c)
      BY <2>14 DEF StealString, Truthful, State
    <2>15. CASE PushBackFails(c)
      BY <2>15, OpenArrayTruthful, WrapInArrayTruthful, WrapFailedTruthful
         DEF PushBackFails, FreeNodes
    <2>16. CASE IndexKeyFails(c)
      BY <2>16, constructTagTruthful, TagsType DEF IndexKeyFails
    <2> QED
      BY <1>2, <2>1, <2>2, <2>3, <2>4, <2>5, <2>6, <2>7, <2>8, <2>9, <2>10,
         <2>11, <2>12, <2>13, <2>14, <2>15, <2>16 DEF Call
  <1>3. ASSUME NEW x \in Named, Construct(x) PROVE Truthful(st')
    <2> x \in Cell
      BY ArgTmpCell
    <2> FreeNodes(st) \subseteq Heap
      BY DEF FreeNodes
    <2>1. ASSUME NEW v \in Addressable(st), AssignListOfOne(x, v) PROVE Truthful(st')
      <3>1. PICK f \in CopyMaps(st, Arg, v) : st' = move_from(copy_from(st, Arg, v, f), x, Arg)
        BY <2>1 DEF AssignListOfOne
      <3>2. Alive(destruct(st, Arg), Arg)
        BY CellAssumption DEF Alive
      <3>3. Truthful(copy_from(st, Arg, v, f)) /\ copy_from(st, Arg, v, f) \in State
        BY <3>2, AddressableType, copy_fromType, copy_fromTruthful, ArgTmpCell
      <3> QED
        BY <3>1, <3>3, move_fromTruthful, ArgTmpCell
    <2>2. ASSUME NEW v \in Addressable(st), NEW y \in Addressable(st), AssignListOfTwo(x, v, y)
          PROVE  Truthful(st')
      <3>1. PICK m \in FreeNodes(st), n \in FreeNodes(st) :
              \E f \in PushMaps(make_unique(st, n), Arg, v, m, m) :
              \E g \in PushMaps(PushCopied(make_unique(st, n), Arg, v, m, m, f), Arg, y, n, n) :
                st' = move_from(PushCopied(PushCopied(make_unique(st, n), Arg, v, m, m, f),
                                           Arg, y, n, n, g), x, Arg)
        BY <2>2 DEF AssignListOfTwo
      <3>2. PICK f \in PushMaps(make_unique(st, n), Arg, v, m, m) :
              \E g \in PushMaps(PushCopied(make_unique(st, n), Arg, v, m, m, f), Arg, y, n, n) :
                st' = move_from(PushCopied(PushCopied(make_unique(st, n), Arg, v, m, m, f),
                                           Arg, y, n, n, g), x, Arg)
        BY <3>1
      <3>3. PICK g \in PushMaps(PushCopied(make_unique(st, n), Arg, v, m, m, f), Arg, y, n, n) :
              st' = move_from(PushCopied(PushCopied(make_unique(st, n), Arg, v, m, m, f),
                                         Arg, y, n, n, g), x, Arg)
        BY <3>2
      <3> DEFINE a == PushCopied(make_unique(st, n), Arg, v, m, m, f)
      <3>4. a \in State /\ Truthful(a)
        BY AddressableType, make_uniqueType, make_uniqueTruthful, PushCopiedType,
           PushCopiedTruthful, ArgTmpCell
      <3> HIDE DEF a
      <3>5. g \in PushMaps(a, Arg, y, n, n)
        BY DEF a
      <3>6. PushCopied(a, Arg, y, n, n, g) \in State /\ Truthful(PushCopied(a, Arg, y, n, n, g))
        BY <3>4, <3>5, AddressableType, PushCopiedType, PushCopiedTruthful, ArgTmpCell
      <3>7. st' = move_from(PushCopied(a, Arg, y, n, n, g), x, Arg)
        BY <3>3 DEF a
      <3> QED
        BY <3>6, <3>7, move_fromTruthful, ArgTmpCell
    <2>3. ASSUME NEW v \in Addressable(st), NEW k \in Keys, AssignPair(x, k, v)
          PROVE  Truthful(st')
      <3>1. PICK n \in FreeNodes(st) : \E f \in CopyMaps(InsertKey(st, Arg, k, n), n, v) :
              st' = move_from(copy_from(InsertKey(st, Arg, k, n), n, v, f), x, Arg)
        BY <2>3 DEF AssignPair
      <3> DEFINE a == InsertKey(st, Arg, k, n)
      <3>2. a \in State /\ Truthful(a) /\ (a.ub \/ a.owner[n] = Arg)
        BY InsertKeyType, InsertKeyTruthful, InsertKeyOwner, ArgTmpCell
      <3> HIDE DEF a
      <3>3. PICK f \in CopyMaps(a, n, v) : st' = move_from(copy_from(a, n, v, f), x, Arg)
        BY <3>1 DEF a
      <3>4. n \in Cell /\ v \in Cell
        BY AddressableType, ArgTmpCell
      <3>5. copy_from(a, n, v, f) \in State
        BY <3>2, <3>4, copy_fromType
      <3>6. ASSUME a.ub PROVE Truthful(copy_from(a, n, v, f))
        BY <3>2, <3>4, <3>6, copy_fromUb DEF Truthful
      <3>7. ASSUME a.owner[n] = Arg PROVE Truthful(copy_from(a, n, v, f))
        <4>1. Arg \notin Heap \cup {Free}
          BY CellAssumption
        <4>2. Alive(destruct(a, n), n)
          BY <3>2, <3>7, <4>1, StackNodeAlive
        <4> QED
          BY <3>2, <3>4, <4>2, copy_fromTruthful
      <3>8. Truthful(copy_from(a, n, v, f))
        BY <3>2, <3>6, <3>7
      <3> QED
        BY <3>3, <3>5, <3>8, move_fromTruthful, ArgTmpCell
    <2> QED
      BY <1>3, <2>1, <2>2, <2>3 DEF Construct
  <1>4. ASSUME NEW x \in Named, LeaveScope(x) PROVE Truthful(st')
    <2>1. destruct(st, x) \in State /\ Truthful(destruct(st, x)) /\ destruct(st, x).vtype[x] = "Null"
      BY destructType, destructTruthful, destructNull, ArgTmpCell
    <2> QED
      BY <1>4, <2>1, constructTruthful, ArgTmpCell DEF LeaveScope
  <1> QED
    BY <1>1, <1>2, <1>3, <1>4 DEF Next

\* No call leaves a tag that announces a member that is not alive in the
\* union, with any arguments and with allocations that fail.
THEOREM TagsTruthful == Spec => []TagTruthful
  <1> DEFINE Inv == TypeOK /\ Truthful(st)
  <1>1. Init => Inv
    BY InitType, InitTruthful
  <1>2. Inv /\ [Next]_st => Inv'
    BY NextType, NextTruthful
  <1>3. Inv => TagTruthful
    BY DEF TagTruthful, Truthful
  <1> QED
    BY <1>1, <1>2, <1>3, PTL DEF Spec
=============================================================================
