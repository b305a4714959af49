------------------------ MODULE ValueOwnershipProofs ------------------------
(***************************************************************************)
(* Theorems about who owns what in ValueStore: a Null holds nothing, no    *)
(* destroyed Value is touched, the discipline forbids nothing harmless, no *)
(* call loses a node.                                                      *)
(***************************************************************************)
EXTENDS ValueStoreProofs

-----------------------------------------------------------------------------
(* What the private helpers do to each field.                              *)

\* A Value that is no container has nothing below it.
LEMMA BelowLeaf ==
  ASSUME NEW s, NEW c, s.vtype[c] \notin Containers PROVE Below(s, c) = {}
  <1>1. Closed(s, c, {})
    BY DEF Closed
  <1> QED
    BY <1>1, BelowLeast

\* Nor has one whose nodes all have other owners.
LEMMA BelowChildless ==
  ASSUME NEW s, NEW c, \A h \in Heap : s.owner[h] # c PROVE Below(s, c) = {}
  <1>1. Closed(s, c, {})
    BY DEF Closed
  <1> QED
    BY <1>1, BelowLeast

Destructed(s, c, a) ==
  /\ a \in State /\ a.ub = s.ub
  /\ \A e \in Cell :
       /\ a.vtype[e] = IF e = c \/ e \in Below(s, c) THEN "Null" ELSE s.vtype[e]
       /\ a.held[e]  = IF e \in Below(s, c) \/ (e = c /\ s.vtype[c] # "Null") THEN "none"
                       ELSE s.held[e]
  /\ \A h \in Heap :
       /\ a.owner[h] = IF h \in Below(s, c) THEN Free
                       ELSE IF s.owner[h] \in Below(s, c) THEN Stray
                       ELSE s.owner[h]
       /\ a.slot[h] = IF h \in Below(s, c) THEN 0 ELSE s.slot[h]

LEMMA ReleaseEffect ==
  ASSUME NEW s \in State, NEW F
  PROVE  /\ Release(s, F).ub = s.ub
         /\ \A e \in Cell :
              /\ Release(s, F).vtype[e] = IF e \in F THEN "Null" ELSE s.vtype[e]
              /\ Release(s, F).held[e]  = IF e \in F THEN "none" ELSE s.held[e]
         /\ \A h \in Heap :
              /\ Release(s, F).owner[h] = IF h \in F THEN Free
                                          ELSE IF s.owner[h] \in F THEN Stray
                                          ELSE s.owner[h]
              /\ Release(s, F).slot[h] = IF h \in F THEN 0 ELSE s.slot[h]
  BY DEF Release, State

LEMMA destructEffect ==
  ASSUME NEW s \in State, NEW c \in Cell PROVE Destructed(s, c, destruct(s, c))
  <1>1. CASE s.vtype[c] = "Null"
    <2>1. Below(s, c) = {}
      BY <1>1, BelowLeaf DEF Containers
    <2> QED
      BY <1>1, <2>1 DEF destruct, Destructed
  <1>2. CASE s.vtype[c] # "Null"
    <2> DEFINE r == Release(s, Below(s, c))
               a == [r EXCEPT !.vtype[c] = "Null", !.held[c] = "none", !.data[c] = NoData]
    <2>1. r \in State
      BY ReleaseType
    <2>2. a \in State /\ a = destruct(s, c)
      BY <1>2, destructType DEF destruct
    <2>3. /\ r.ub = s.ub
          /\ \A e \in Cell :
               /\ r.vtype[e] = IF e \in Below(s, c) THEN "Null" ELSE s.vtype[e]
               /\ r.held[e]  = IF e \in Below(s, c) THEN "none" ELSE s.held[e]
          /\ \A h \in Heap :
               /\ r.owner[h] = IF h \in Below(s, c) THEN Free
                               ELSE IF s.owner[h] \in Below(s, c) THEN Stray
                               ELSE s.owner[h]
               /\ r.slot[h] = IF h \in Below(s, c) THEN 0 ELSE s.slot[h]
      BY ReleaseEffect
    <2> HIDE DEF r
    <2>4. /\ a.ub = r.ub /\ a.owner = r.owner /\ a.slot = r.slot
          /\ \A e \in Cell :
               /\ a.vtype[e] = IF e = c THEN "Null" ELSE r.vtype[e]
               /\ a.held[e] = IF e = c THEN "none" ELSE r.held[e]
      BY <2>1 DEF State
    <2> HIDE DEF a
    <2>5. Destructed(s, c, a)
      BY <1>2, <2>2, <2>3, <2>4 DEF Destructed
    <2> QED
      BY <2>2, <2>5
  <1> QED
    BY <1>1, <1>2

\* Moved(a, c, v, r): what move_from does once it has destructed c into a.
Moved(a, c, v, r) ==
  /\ r \in State /\ r.ub = a.ub
  /\ \A e \in Cell :
       /\ r.vtype[e] = IF e = v THEN "Null" ELSE IF e = c THEN a.vtype[v] ELSE a.vtype[e]
       /\ r.held[e]  = IF a.vtype[v] = "Null" THEN a.held[e]
                       ELSE IF e = v THEN "none"
                       ELSE IF e = c THEN HeldBy(a.vtype[v]) ELSE a.held[e]
  /\ \A h \in Heap :
       /\ r.owner[h] = IF h \in Kids(a, v) THEN c
                       ELSE IF a.owner[h] = c /\ a.vtype[v] # "Null" THEN Stray
                       ELSE a.owner[h]
       /\ r.slot[h] = a.slot[h]

LEMMA constructEffect ==
  ASSUME NEW s \in State, NEW c \in Cell, NEW t \in Types, NEW d \in Payloads \cup {NoData}
  PROVE  /\ construct(s, c, t, d) \in State
         /\ construct(s, c, t, d).ub = s.ub
         /\ construct(s, c, t, d).vtype = s.vtype
         /\ construct(s, c, t, d).slot = s.slot
         /\ \A e \in Cell : construct(s, c, t, d).held[e] = IF e = c THEN HeldBy(t) ELSE s.held[e]
         /\ \A h \in Heap : construct(s, c, t, d).owner[h] =
                              IF s.owner[h] = c THEN Stray ELSE s.owner[h]
  <1>1. construct(s, c, t, d) \in State
    BY constructType
  <1> QED
    BY <1>1 DEF construct, Reown, State

LEMMA AdoptEffect ==
  ASSUME NEW s \in State, NEW c \in Cell, NEW v \in Cell
  PROVE  /\ Adopt(s, c, v) \in State
         /\ Adopt(s, c, v).ub = s.ub
         /\ Adopt(s, c, v).vtype = s.vtype
         /\ Adopt(s, c, v).held = s.held
         /\ Adopt(s, c, v).slot = s.slot
         /\ \A h \in Heap : Adopt(s, c, v).owner[h] =
                              IF h \in Kids(s, v) THEN c ELSE s.owner[h]
  <1>1. Adopt(s, c, v) \in State
    BY AdoptType
  <1> QED
    BY <1>1 DEF Adopt, Reown, State

LEMMA SetTagEffect ==
  ASSUME NEW s \in State, NEW c \in Cell, NEW t \in Types
  PROVE  /\ SetTag(s, c, t) \in State
         /\ SetTag(s, c, t).ub = s.ub
         /\ SetTag(s, c, t).held = s.held
         /\ SetTag(s, c, t).owner = s.owner
         /\ SetTag(s, c, t).slot = s.slot
         /\ \A e \in Cell : SetTag(s, c, t).vtype[e] = IF e = c THEN t ELSE s.vtype[e]
  <1>1. SetTag(s, c, t) \in State
    BY SetTagType
  <1> QED
    BY <1>1 DEF SetTag, State

\* A state that has not crashed differs from its Crash.
LEMMA CrashUb == ASSUME NEW s \in State PROVE Crash(s).ub
  BY DEF Crash, State

\* The end of move_from: the container of v, if it had one, has changed hands,
\* and destruct finds nothing to free in v.
LEMMA MovedEnd ==
  ASSUME NEW a \in State, NEW c \in Cell, NEW v \in Cell, c # v, a.vtype[c] = "Null",
         NEW b, b = IF a.vtype[v] = "Null" THEN a
                    ELSE Adopt(construct(a, c, a.vtype[v], a.data[v]), c, v)
  PROVE  Moved(a, c, v, destruct(SetTag(b, c, a.vtype[v]), v))
  <1> DEFINE t == a.vtype[v]
             k == construct(a, c, t, a.data[v])
             e == SetTag(b, c, t)
             r == destruct(e, v)
  <1>1. t \in Types /\ a.data[v] \in Payloads \cup {NoData}
    BY DEF State
  <1>2. CASE t = "Null"
    <2>1. b = a /\ e = a
      BY <1>2 DEF SetTag, State
    <2>2. r = a
      BY <1>2, <2>1 DEF destruct
    <2>3. Kids(a, v) = {}
      BY <1>2 DEF Kids, Containers
    <2> QED
      BY <1>2, <2>2, <2>3 DEF Moved
  <1>3. CASE t # "Null"
    <2> DEFINE w == Adopt(k, c, v)
    <2>1. /\ k \in State /\ k.ub = a.ub /\ k.vtype = a.vtype /\ k.slot = a.slot
          /\ \A x \in Cell : k.held[x] = IF x = c THEN HeldBy(t) ELSE a.held[x]
          /\ \A h \in Heap : k.owner[h] = IF a.owner[h] = c THEN Stray ELSE a.owner[h]
      BY <1>1, constructEffect
    <2> HIDE DEF k
    <2>2. /\ w \in State /\ w.ub = k.ub /\ w.vtype = k.vtype /\ w.held = k.held
          /\ w.slot = k.slot
          /\ \A h \in Heap : w.owner[h] = IF h \in Kids(k, v) THEN c ELSE k.owner[h]
      BY <2>1, AdoptEffect
    <2>3. b = w
      BY <1>3 DEF k
    <2> HIDE DEF w
    <2>4. v \notin {Free, Stray, Uptr}
      BY CellAssumption DEF Cell
    <2>5. Kids(k, v) = Kids(a, v)
      BY <2>1, <2>4 DEF Kids
    <2>6. /\ e \in State /\ e.ub = w.ub /\ e.held = w.held /\ e.owner = w.owner
          /\ e.slot = w.slot
          /\ \A x \in Cell : e.vtype[x] = IF x = c THEN t ELSE w.vtype[x]
      BY <1>1, <2>2, <2>3, SetTagEffect
    <2> HIDE DEF e
    <2>7. Below(e, v) = {}
      <3>1. CASE t \in Containers
        <4>1. \A h \in Heap : e.owner[h] # v
          BY <2>1, <2>2, <2>4, <2>5, <2>6, <3>1 DEF Kids
        <4> QED
          BY <4>1, BelowChildless
      <3>2. CASE t \notin Containers
        <4>1. e.vtype[v] \notin Containers
          BY <2>1, <2>2, <2>6, <3>2
        <4> QED
          BY <4>1, BelowLeaf
      <3> QED
        BY <3>1, <3>2
    <2>8. Destructed(e, v, r)
      BY <2>6, destructEffect
    <2>9. e.vtype[v] = t
      BY <2>1, <2>2, <2>6
    <2> HIDE DEF r
    <2>10. /\ r \in State /\ r.ub = a.ub
           /\ \A x \in Cell :
                /\ r.vtype[x] = IF x = v THEN "Null" ELSE e.vtype[x]
                /\ r.held[x] = IF x = v THEN "none" ELSE e.held[x]
           /\ \A h \in Heap : r.owner[h] = e.owner[h] /\ r.slot[h] = e.slot[h]
      BY <1>3, <2>1, <2>2, <2>6, <2>7, <2>8, <2>9 DEF Destructed
    <2>11. /\ \A x \in Cell :
                /\ r.vtype[x] = IF x = v THEN "Null" ELSE IF x = c THEN t ELSE a.vtype[x]
                /\ r.held[x] = IF x = v THEN "none" ELSE IF x = c THEN HeldBy(t) ELSE a.held[x]
      BY <2>1, <2>2, <2>6, <2>10
    <2>12. \A h \in Heap :
             /\ r.owner[h] = IF h \in Kids(a, v) THEN c
                             ELSE IF a.owner[h] = c THEN Stray ELSE a.owner[h]
             /\ r.slot[h] = a.slot[h]
      BY <2>1, <2>2, <2>5, <2>6, <2>10
    <2>13. Moved(a, c, v, r)
      BY <1>3, <2>10, <2>11, <2>12 DEF Moved
    <2> QED
      BY <2>13 DEF r, e
  <1> QED
    BY <1>2, <1>3

LEMMA move_fromEffect ==
  ASSUME NEW s \in State, NEW c \in Cell, NEW v \in Cell, c # v, Alive(destruct(s, c), v)
  PROVE  Moved(destruct(s, c), c, v, move_from(s, c, v))
  <1> DEFINE a == destruct(s, c)
             b == IF a.vtype[v] = "Null" THEN a
                  ELSE Adopt(construct(a, c, a.vtype[v], a.data[v]), c, v)
             r == destruct(SetTag(b, c, a.vtype[v]), v)
  <1>1. a \in State /\ a.vtype[c] = "Null"
    BY destructType, destructNull
  <1>2. move_from(s, c, v) = r
    BY DEF move_from
  <1> HIDE DEF a
  <1>3. Moved(a, c, v, r)
    BY <1>1, MovedEnd
  <1> QED
    BY <1>2, <1>3 DEF a

\* A move that does not crash has found its source alive.
LEMMA move_fromAlive ==
  ASSUME NEW s \in State, NEW c \in Cell, NEW v \in Cell, ~move_from(s, c, v).ub
  PROVE  Alive(destruct(s, c), v)
  BY destructType, CrashUb DEF move_from

LEMMA copy_fromAlive ==
  ASSUME NEW s \in State, NEW c \in Cell, NEW v \in Cell, NEW f, ~copy_from(s, c, v, f).ub
  PROVE  Alive(destruct(s, c), v)
  BY destructType, CrashUb DEF copy_from

\* A move of a Value to itself destroys it.
LEMMA SelfMove ==
  ASSUME NEW s \in State, NEW c \in Cell, Alive(destruct(s, c), c)
  PROVE  move_from(s, c, c) = destruct(s, c)
  <1> DEFINE a == destruct(s, c)
  <1>1. a \in State /\ a.vtype[c] = "Null"
    BY destructType, destructNull
  <1>2. SetTag(a, c, "Null") = a
    BY <1>1 DEF SetTag, State
  <1>3. destruct(a, c) = a
    BY <1>1 DEF destruct
  <1> QED
    BY <1>1, <1>2, <1>3 DEF move_from

\* Where v is alive after the destruct of c, nothing crashes.
LEMMA move_fromUb ==
  ASSUME NEW s \in State, NEW c \in Cell, NEW v \in Cell, Alive(destruct(s, c), v)
  PROVE  move_from(s, c, v).ub = s.ub
  <1>1. CASE c = v
    BY <1>1, SelfMove, destructUb
  <1>2. CASE c # v
    BY <1>2, move_fromEffect, destructUb DEF Moved
  <1> QED
    BY <1>1, <1>2

\* Copied(a, c, v, f, r): what copy_from does once it has destructed c into a.
Copied(a, c, v, f, r) ==
  /\ r \in State /\ r.ub = a.ub
  /\ r.vtype[c] = a.vtype[v]
  /\ r.held[c] = IF a.vtype[v] = "Null" THEN a.held[c] ELSE HeldBy(a.vtype[v])
  /\ \A e \in Cell : e # c /\ (\A x \in Below(a, v) : f[x] # e) =>
       r.vtype[e] = a.vtype[e] /\ r.held[e] = a.held[e]
  /\ \A h \in Heap : (\A x \in Below(a, v) : f[x] # h) =>
       /\ r.owner[h] = IF a.owner[h] = c /\ a.vtype[v] # "Null" THEN Stray ELSE a.owner[h]
       /\ r.slot[h] = a.slot[h]
  /\ \A x \in Below(a, v) :
       /\ r.vtype[f[x]] = a.vtype[x]
       /\ r.held[f[x]] = HeldBy(a.vtype[x])
       /\ r.slot[f[x]] = a.slot[x]
       /\ r.owner[f[x]] = IF x \in Kids(a, v) THEN c ELSE f[a.owner[x]]

\* The copies are made in free nodes, a node for each.
LEMMA CopyMapsFree ==
  ASSUME NEW s \in State, NEW c \in Cell, NEW v \in Cell, NEW f \in CopyMaps(s, c, v)
  PROVE  /\ \A x \in Below(destruct(s, c), v) : f[x] \in Heap /\ destruct(s, c).owner[f[x]] = Free
         /\ \A x, y \in Below(destruct(s, c), v) : f[x] = f[y] => x = y
  BY DEF CopyMaps, FreeNodes

LEMMA unique_ptr_copyEffect ==
  ASSUME NEW s \in State, NEW c \in Cell, NEW v \in Cell,
         NEW f \in [Below(s, v) -> Heap],
         \A x, y \in Below(s, v) : f[x] = f[y] => x = y,
         NEW r, r = unique_ptr_copy(s, c, v, f)
  PROVE  /\ r \in State /\ r.ub = s.ub
         /\ \A e \in Cell : (\A x \in Below(s, v) : f[x] # e) =>
              r.vtype[e] = s.vtype[e] /\ r.held[e] = s.held[e]
         /\ \A h \in Heap : (\A x \in Below(s, v) : f[x] # h) =>
              r.owner[h] = s.owner[h] /\ r.slot[h] = s.slot[h]
         /\ \A x \in Below(s, v) :
              /\ r.vtype[f[x]] = s.vtype[x]
              /\ r.held[f[x]] = HeldBy(s.vtype[x])
              /\ r.slot[f[x]] = s.slot[x]
              /\ r.owner[f[x]] = IF x \in Kids(s, v) THEN c ELSE f[s.owner[x]]
  <1> DEFINE B      == Below(s, v)
             New    == {f[x] : x \in B}
             Src(n) == CHOOSE x \in B : f[x] = n
  <1>1. r \in State
    BY unique_ptr_copyType
  <1>2. \A x \in B : Src(f[x]) = x /\ f[x] \in New /\ f[x] \in Heap /\ f[x] \in Cell
    BY DEF Cell
  <1>3. CASE B = {}
    BY <1>1, <1>3 DEF unique_ptr_copy
  <1>4. CASE B # {}
    <2> HIDE DEF Src
    <2>1. /\ r.ub = s.ub
          /\ r.vtype = [e \in Cell |-> IF e \in New THEN s.vtype[Src(e)] ELSE s.vtype[e]]
          /\ r.held = [e \in Cell |-> IF e \in New THEN HeldBy(s.vtype[Src(e)]) ELSE s.held[e]]
          /\ r.slot = [h \in Heap |-> IF h \in New THEN s.slot[Src(h)] ELSE s.slot[h]]
          /\ r.owner = [h \in Heap |-> IF h \notin New THEN s.owner[h]
                                       ELSE IF Src(h) \in Kids(s, v) THEN c
                                       ELSE f[s.owner[Src(h)]]]
      BY <1>4 DEF unique_ptr_copy, Src, State
    <2>2. \A x \in B : /\ r.vtype[f[x]] = s.vtype[x]
                       /\ r.held[f[x]] = HeldBy(s.vtype[x])
                       /\ r.slot[f[x]] = s.slot[x]
                       /\ r.owner[f[x]] = IF x \in Kids(s, v) THEN c ELSE f[s.owner[x]]
      BY <1>2, <2>1
    <2>3. \A e \in Cell : e \notin New => r.vtype[e] = s.vtype[e] /\ r.held[e] = s.held[e]
      BY <2>1
    <2>4. \A h \in Heap : h \notin New => r.owner[h] = s.owner[h] /\ r.slot[h] = s.slot[h]
      BY <2>1
    <2>5. \A e : (\A x \in B : f[x] # e) => e \notin New
      OBVIOUS
    <2>6. r.ub = s.ub
      BY <2>1
    <2> HIDE DEF New
    <2> QED
      BY <1>1, <2>2, <2>3, <2>4, <2>5, <2>6
  <1> QED
    BY <1>3, <1>4

LEMMA copy_fromEffect ==
  ASSUME NEW s \in State, NEW c \in Cell, NEW v \in Cell, NEW f \in CopyMaps(s, c, v),
         Alive(destruct(s, c), c), Alive(destruct(s, c), v)
  PROVE  Copied(destruct(s, c), c, v, f, copy_from(s, c, v, f))
  <1> DEFINE a == destruct(s, c)
             t == a.vtype[v]
             k == construct(a, c, t, a.data[v])
             u == unique_ptr_copy(k, c, v, f)
             b == IF t = "Null" THEN a ELSE u
             r == SetTag(b, c, t)
  <1>1. a \in State /\ a.vtype[c] = "Null"
    BY destructType, destructNull
  <1>2. f \in [Below(a, v) -> Heap] /\ (\A x \in Below(a, v) : f[x] # c)
        /\ (\A x, y \in Below(a, v) : f[x] = f[y] => x = y)
    BY CopyMapsType, CopyMapsFree DEF Alive
  <1>3. copy_from(s, c, v, f) = r
    BY DEF copy_from
  <1> HIDE DEF a
  <1>4. t \in Types /\ a.data[v] \in Payloads \cup {NoData}
    BY <1>1 DEF State
  <1>5. CASE t = "Null"
    <2>1. r = a
      BY <1>1, <1>5 DEF SetTag, State
    <2>2. Below(a, v) = {}
      BY <1>5, BelowLeaf DEF Containers
    <2> QED
      BY <1>1, <1>3, <1>5, <2>1, <2>2 DEF Copied, a
  <1>6. CASE t # "Null"
    <2>1. /\ k \in State /\ k.ub = a.ub /\ k.vtype = a.vtype /\ k.slot = a.slot
          /\ \A x \in Cell : k.held[x] = IF x = c THEN HeldBy(t) ELSE a.held[x]
          /\ \A h \in Heap : k.owner[h] = IF a.owner[h] = c THEN Stray ELSE a.owner[h]
      BY <1>1, <1>4, constructEffect
    <2>2. Below(k, v) = Below(a, v)
      BY <1>1, BelowConstruct DEF Containers
    <2> HIDE DEF k
    <2>3. c # v /\ v \notin {Free, Stray, Uptr}
      BY <1>1, <1>6, CellAssumption DEF Cell
    <2>4. Kids(k, v) = Kids(a, v)
      BY <2>1, <2>3 DEF Kids
    <2>5. /\ u \in State /\ u.ub = k.ub
          /\ \A e \in Cell : (\A x \in Below(a, v) : f[x] # e) =>
               u.vtype[e] = k.vtype[e] /\ u.held[e] = k.held[e]
          /\ \A h \in Heap : (\A x \in Below(a, v) : f[x] # h) =>
               u.owner[h] = k.owner[h] /\ u.slot[h] = k.slot[h]
          /\ \A x \in Below(a, v) :
               /\ u.vtype[f[x]] = k.vtype[x]
               /\ u.held[f[x]] = HeldBy(k.vtype[x])
               /\ u.slot[f[x]] = k.slot[x]
               /\ u.owner[f[x]] = IF x \in Kids(a, v) THEN c ELSE f[k.owner[x]]
      BY <1>2, <2>1, <2>2, <2>4, unique_ptr_copyEffect
    <2> HIDE DEF u
    <2>6. \A x \in Below(a, v) : k.owner[x] = a.owner[x]
      <3> SUFFICES ASSUME NEW x \in Below(a, v) PROVE k.owner[x] = a.owner[x]
        OBVIOUS
      <3>1. x \in Heap /\ a.owner[x] # c
        BY <1>1, BelowOwner, BelowType DEF Containers
      <3> QED
        BY <2>1, <3>1
    <2>7. /\ r \in State /\ r.ub = u.ub /\ r.held = u.held /\ r.owner = u.owner
          /\ r.slot = u.slot
          /\ \A x \in Cell : r.vtype[x] = IF x = c THEN t ELSE u.vtype[x]
      BY <1>4, <1>6, <2>5, SetTagEffect
    <2> HIDE DEF r
    <2>8. \A x \in Below(a, v) : f[x] \in Cell /\ f[x] # c
      BY <1>2 DEF Cell
    <2>9. \A x \in Below(a, v) :
            /\ r.vtype[f[x]] = a.vtype[x]
            /\ r.held[f[x]] = HeldBy(a.vtype[x])
            /\ r.slot[f[x]] = a.slot[x]
            /\ r.owner[f[x]] = IF x \in Kids(a, v) THEN c ELSE f[a.owner[x]]
      BY <2>1, <2>5, <2>6, <2>7, <2>8
    <2>10. /\ r.vtype[c] = t /\ r.held[c] = HeldBy(t)
           /\ \A e \in Cell : e # c /\ (\A x \in Below(a, v) : f[x] # e) =>
                r.vtype[e] = a.vtype[e] /\ r.held[e] = a.held[e]
      BY <1>2, <2>1, <2>5, <2>7
    <2>11. \A h \in Heap : (\A x \in Below(a, v) : f[x] # h) =>
             /\ r.owner[h] = IF a.owner[h] = c THEN Stray ELSE a.owner[h]
             /\ r.slot[h] = a.slot[h]
      BY <2>1, <2>5, <2>7
    <2>12. Copied(a, c, v, f, r)
      BY <1>6, <2>1, <2>5, <2>7, <2>9, <2>10, <2>11 DEF Copied
    <2> QED
      BY <1>3, <2>12 DEF a
  <1> QED
    BY <1>5, <1>6

-----------------------------------------------------------------------------
(* A Null is empty.  push_back wraps what is no array in a vector built    *)
(* while the tag says Null, so within a call there is an exception X.      *)

BlankBut(s, X) == \A e \in Cell \ X : s.vtype[e] = "Null" => s.held[e] = "none"

LEMMA BlankSame ==
  ASSUME NEW s, NEW a, NEW X, BlankBut(s, X), a.vtype = s.vtype, a.held = s.held
  PROVE  BlankBut(a, X)
  BY DEF BlankBut

LEMMA CrashBlank ==
  ASSUME NEW s \in State, NEW X, BlankBut(s, X) PROVE BlankBut(Crash(s), X)
  BY DEF BlankBut, Crash, State

LEMMA destructBlank ==
  ASSUME NEW s \in State, NEW X, BlankBut(s, X), NEW c \in Cell
  PROVE  BlankBut(destruct(s, c), X)
  <1> DEFINE a == destruct(s, c)
  <1>1. Destructed(s, c, a)
    BY destructEffect
  <1> HIDE DEF a
  <1>2. BlankBut(a, X)
    BY <1>1 DEF Destructed, BlankBut
  <1> QED
    BY <1>2 DEF a

LEMMA ReleaseBlank ==
  ASSUME NEW s \in State, NEW X, BlankBut(s, X), NEW F
  PROVE  BlankBut(Release(s, F), X)
  BY ReleaseEffect DEF BlankBut

\* After a placement new the target is the exception.
LEMMA constructBlank ==
  ASSUME NEW s \in State, NEW X, BlankBut(s, X), NEW c \in Cell,
         NEW t \in Types, NEW d \in Payloads \cup {NoData}
  PROVE  BlankBut(construct(s, c, t, d), X \cup {c})
  BY constructEffect DEF BlankBut

\* A tag other than Null ends it.
LEMMA SetTagBlank ==
  ASSUME NEW s \in State, NEW X, NEW c \in Cell, BlankBut(s, X \cup {c}),
         NEW t \in Types, t # "Null" \/ s.held[c] = "none"
  PROVE  BlankBut(SetTag(s, c, t), X)
  BY SetTagEffect DEF BlankBut

LEMMA move_fromBlank ==
  ASSUME NEW s \in State, NEW X, BlankBut(s, X), NEW c \in Cell, NEW v \in Cell
  PROVE  BlankBut(move_from(s, c, v), X)
  <1> DEFINE a == destruct(s, c)
             r == move_from(s, c, v)
  <1>1. a \in State /\ a.vtype[c] = "Null" /\ BlankBut(a, X)
    BY destructType, destructNull, destructBlank
  <1>2. CASE ~Alive(a, v)
    BY <1>1, <1>2, CrashBlank DEF move_from
  <1>3. CASE Alive(a, v) /\ c = v
    BY <1>1, <1>3, SelfMove
  <1>4. CASE Alive(a, v) /\ c # v
    <2>1. Moved(a, c, v, r)
      BY <1>4, move_fromEffect
    <2> HIDE DEF a, r
    <2>2. BlankBut(r, X)
      BY <1>1, <2>1 DEF Moved, BlankBut
    <2> QED
      BY <2>2 DEF r
  <1> QED
    BY <1>2, <1>3, <1>4

LEMMA copy_fromBlank ==
  ASSUME NEW s \in State, NEW X, BlankBut(s, X), NEW c \in Cell, NEW v \in Cell,
         NEW f \in CopyMaps(s, c, v), Alive(destruct(s, c), c)
  PROVE  BlankBut(copy_from(s, c, v, f), X)
  <1> DEFINE a == destruct(s, c)
             r == copy_from(s, c, v, f)
  <1>1. a \in State /\ a.vtype[c] = "Null" /\ BlankBut(a, X)
    BY destructType, destructNull, destructBlank
  <1>2. CASE ~Alive(a, v)
    BY <1>1, <1>2, CrashBlank DEF copy_from
  <1>3. CASE Alive(a, v)
    <2>1. Copied(a, c, v, f, r)
      BY <1>3, copy_fromEffect
    <2> HIDE DEF a, r
    <2> SUFFICES ASSUME NEW e \in Cell \ X, r.vtype[e] = "Null" PROVE r.held[e] = "none"
      BY DEF BlankBut, r
    <2>2. CASE e = c
      BY <1>1, <2>1, <2>2 DEF Copied, BlankBut
    <2>3. ASSUME NEW x \in Below(a, v), e = f[x] PROVE r.held[e] = "none"
      <3>1. r.vtype[e] = a.vtype[x] /\ r.held[e] = HeldBy(a.vtype[x])
        BY <2>1, <2>3 DEF Copied
      <3> QED
        BY <3>1 DEF HeldBy
    <2>4. CASE e # c /\ \A x \in Below(a, v) : f[x] # e
      BY <1>1, <2>1, <2>4 DEF Copied, BlankBut
    <2> QED
      BY <2>2, <2>3, <2>4
  <1> QED
    BY <1>2, <1>3

LEMMA make_uniqueBlank ==
  ASSUME NEW s \in State, NEW X, BlankBut(s, X), NEW n \in Heap
  PROVE  BlankBut(make_unique(s, n), X)
  BY make_uniqueSame, BlankSame

LEMMA emplace_backBlank ==
  ASSUME NEW s \in State, NEW X, BlankBut(s, X), NEW c \in Cell, NEW n \in Heap
  PROVE  BlankBut(emplace_back(s, c, n), X)
  <1>1. CASE s.held[c] # "Array"
    BY <1>1, CrashBlank DEF emplace_back
  <1>2. CASE s.held[c] = "Array"
    BY <1>2 DEF emplace_back, BlankBut, State
  <1> QED
    BY <1>1, <1>2

LEMMA emplaceBlank ==
  ASSUME NEW s \in State, NEW X, BlankBut(s, X), NEW c \in Cell, NEW k, NEW n \in Heap
  PROVE  BlankBut(emplace(s, c, k, n), X)
  <1>1. CASE s.held[c] # "Map"
    BY <1>1, CrashBlank DEF emplace
  <1>2. CASE s.held[c] = "Map"
    BY <1>2 DEF emplace, BlankBut, State
  <1> QED
    BY <1>1, <1>2

LEMMA FreeNodeBlank ==
  ASSUME NEW s \in State, NEW X, BlankBut(s, X), NEW n \in Heap
  PROVE  BlankBut(FreeNode(s, n), X)
  BY destructType, destructBlank, ReleaseBlank, ArgTmpCell DEF FreeNode

LEMMA ConstructedBlank ==
  ASSUME NEW s \in State, NEW X, BlankBut(s, X), NEW c \in Cell,
         NEW t \in Types, NEW d \in Payloads \cup {NoData}
  PROVE  BlankBut(SetTag(construct(s, c, t, d), c, t), X)
  <1> DEFINE k == construct(s, c, t, d)
  <1>1. k \in State /\ BlankBut(k, X \cup {c}) /\ k.held[c] = HeldBy(t)
    BY constructType, constructBlank, constructHeld
  <1>2. t # "Null" \/ k.held[c] = "none"
    BY <1>1 DEF HeldBy
  <1> HIDE DEF k
  <1>3. BlankBut(SetTag(k, c, t), X)
    BY <1>1, <1>2, SetTagBlank
  <1> QED
    BY <1>3 DEF k

LEMMA WrapInArrayBlank ==
  ASSUME NEW s \in State, BlankBut(s, {}), NEW c \in Cell, NEW m \in Heap
  PROVE  BlankBut(WrapInArray(s, c, m), {c})
  <1> DEFINE a == construct(move_from(s, Tmp, c), c, "Array", NoData)
             b == move_from(make_unique(a, m), m, Tmp)
  <1>1. a \in State /\ BlankBut(a, {c})
    <2>1. move_from(s, Tmp, c) \in State /\ BlankBut(move_from(s, Tmp, c), {})
      BY move_fromType, move_fromBlank, ArgTmpCell
    <2>2. {} \cup {c} = {c}
      OBVIOUS
    <2> QED
      BY <2>1, <2>2, constructType, constructBlank, TagsType
  <1>2. make_unique(a, m) \in State /\ BlankBut(make_unique(a, m), {c})
    BY <1>1, make_uniqueType, make_uniqueBlank
  <1>3. b \in State /\ BlankBut(b, {c})
    BY <1>2, move_fromType, move_fromBlank, ArgTmpCell
  <1> QED
    BY <1>3, emplace_backBlank DEF WrapInArray

LEMMA PushReadyBlank ==
  ASSUME NEW s \in State, BlankBut(s, {}), NEW c \in Cell, NEW m \in Heap
  PROVE  BlankBut(PushReady(s, c, m), {c})
  <1>1. BlankBut(OpenArray(s, c), {})
    BY ConstructedBlank, TagsType DEF OpenArray
  <1>2. BlankBut(WrapInArray(s, c, m), {c})
    BY WrapInArrayBlank
  <1> QED
    BY <1>1, <1>2 DEF PushReady, BlankBut

\* Where nothing is wrapped there is no exception.
LEMMA PushOpenBlank ==
  ASSUME NEW s \in State, BlankBut(s, {}), NEW c \in Cell, NEW m \in Heap,
         s.vtype[c] \in {"Null", "Array"}
  PROVE  BlankBut(PushReady(s, c, m), {})
  BY ConstructedBlank, TagsType DEF OpenArray, PushReady

LEMMA PushEndBlank ==
  ASSUME NEW s \in State, NEW c \in Cell, BlankBut(s, {c}), NEW n \in Heap
  PROVE  BlankBut(SetTag(emplace_back(s, c, n), c, "Array"), {})
  <1>1. emplace_back(s, c, n) \in State /\ BlankBut(emplace_back(s, c, n), {} \cup {c})
    <2>1. {} \cup {c} = {c}
      OBVIOUS
    <2> QED
      BY <2>1, emplace_backType, emplace_backBlank
  <1> QED
    BY <1>1, SetTagBlank, TagsType

LEMMA PushMovedBlank ==
  ASSUME NEW s \in State, BlankBut(s, {}), NEW c \in Cell, NEW v \in Cell,
         NEW m \in Heap, NEW n \in Heap
  PROVE  BlankBut(PushMoved(s, c, v, m, n), {})
  <1> DEFINE a == make_unique(PushReady(s, c, m), n)
  <1>1. a \in State /\ BlankBut(a, {c})
    BY PushReadyType, PushReadyBlank, make_uniqueType, make_uniqueBlank
  <1>2. move_from(a, n, v) \in State /\ BlankBut(move_from(a, n, v), {c})
    BY <1>1, move_fromType, move_fromBlank, ArgTmpCell
  <1> QED
    BY <1>2, PushEndBlank DEF PushMoved

LEMMA PushCopiedBlank ==
  ASSUME NEW s \in State, BlankBut(s, {}), NEW c \in Cell, NEW v \in Cell,
         NEW m \in Heap, NEW n \in Heap, NEW f \in PushMaps(s, c, v, m, n)
  PROVE  BlankBut(PushCopied(s, c, v, m, n, f), {})
  <1> DEFINE a == make_unique(PushReady(s, c, m), n)
  <1>1. a \in State /\ BlankBut(a, {c}) /\ a.owner[n] = Uptr
    BY PushReadyType, PushReadyBlank, make_uniqueType, make_uniqueBlank, make_uniqueSame
  <1>2. Alive(destruct(a, n), n)
    BY <1>1, StackNodeAlive, OwnerAssumption, CellAssumption
  <1>3. f \in CopyMaps(a, n, v)
    BY DEF PushMaps
  <1> HIDE DEF a
  <1>4. copy_from(a, n, v, f) \in State /\ BlankBut(copy_from(a, n, v, f), {c})
    BY <1>1, <1>2, <1>3, copy_fromType, copy_fromBlank, ArgTmpCell
  <1> QED
    BY <1>4, PushEndBlank DEF PushCopied, a

LEMMA InsertKeyBlank ==
  ASSUME NEW s \in State, BlankBut(s, {}), NEW c \in Cell, NEW k \in Keys, NEW n \in Heap
  PROVE  BlankBut(InsertKey(s, c, k, n), {})
  <1> DEFINE a == IF s.vtype[c] = "Null"
                  THEN SetTag(construct(s, c, "Map", NoData), c, "Map") ELSE s
  <1>1. a \in State /\ BlankBut(a, {})
    BY constructType, SetTagType, ConstructedBlank, TagsType
  <1> QED
    BY <1>1, make_uniqueType, make_uniqueBlank, emplaceBlank DEF InsertKey

LEMMA EraseBlank ==
  ASSUME NEW s \in State, BlankBut(s, {}), NEW c \in Cell, NEW x \in Heap
  PROVE  BlankBut(Erase(s, c, x), {})
  <1> DEFINE a == FreeNode(s, x)
  <1>1. a \in State /\ BlankBut(a, {})
    BY FreeNodeType, FreeNodeBlank
  <1> HIDE DEF a
  <1>2. ASSUME NEW g PROVE BlankBut([a EXCEPT !.slot = g], {})
    BY <1>1 DEF BlankBut, State
  <1> QED
    BY <1>1, <1>2 DEF Erase, a

LEMMA swappedBlank ==
  ASSUME NEW s \in State, BlankBut(s, {}), NEW c \in Cell, NEW v \in Cell
  PROVE  BlankBut(swapped(s, c, v), {})
  <1>1. /\ move_from(move_from(move_from(s, Tmp, v), v, c), c, Tmp) \in State
        /\ BlankBut(move_from(move_from(move_from(s, Tmp, v), v, c), c, Tmp), {})
    BY move_fromType, move_fromBlank, ArgTmpCell
  <1> QED
    BY <1>1, destructBlank, ArgTmpCell DEF swapped

LEMMA LiteralBlank ==
  ASSUME NEW s \in State, BlankBut(s, {}), NEW l \in Literals
  PROVE  BlankBut(Literal(s, l[1], l[2]), {})
  <1>1. l[1] \in Types /\ l[2] \in Payloads \cup {NoData}
    BY DEF Literals, Types
  <1> QED
    BY <1>1, ConstructedBlank, ArgTmpCell DEF Literal

\* The node that InsertKey makes is not reachable from a node.
LEMMA InsertKeyNode ==
  ASSUME NEW s \in State, NEW c \in Cell, NEW k \in Keys, NEW n \in Heap
  PROVE  InsertKey(s, c, k, n).owner[n] \in {Uptr, c}
  <1> DEFINE a == IF s.vtype[c] = "Null"
                  THEN SetTag(construct(s, c, "Map", NoData), c, "Map") ELSE s
             b == make_unique(a, n)
  <1>1. a \in State
    BY constructType, SetTagType, TagsType
  <1>2. b \in State /\ b.owner[n] = Uptr
    BY <1>1, make_uniqueType, make_uniqueSame
  <1> HIDE DEF a, b
  <1>3. emplace(b, c, k, n).owner[n] \in {Uptr, c}
    BY <1>2 DEF emplace, Crash, State
  <1> QED
    BY <1>3 DEF InsertKey, a, b

LEMMA AssignListOfTwoBlank ==
  ASSUME st \in State, BlankBut(st, {}), NEW c \in Cell, NEW x \in Cell, NEW y \in Cell,
         AssignListOfTwo(c, x, y)
  PROVE  BlankBut(st', {})
  <1>1. PICK m \in FreeNodes(st), n \in FreeNodes(st) :
          \E f \in PushMaps(make_unique(st, n), Arg, x, m, m) :
          \E g \in PushMaps(PushCopied(make_unique(st, n), Arg, x, m, m, f), Arg, y, n, n) :
            st' = move_from(PushCopied(PushCopied(make_unique(st, n), Arg, x, m, m, f),
                                       Arg, y, n, n, g), c, Arg)
    BY DEF AssignListOfTwo
  <1>2. m \in Heap /\ n \in Heap
    BY DEF FreeNodes
  <1> DEFINE p == make_unique(st, n)
  <1>3. p \in State /\ BlankBut(p, {})
    BY <1>2, make_uniqueType, make_uniqueBlank
  <1> HIDE DEF p
  <1>4. PICK f \in PushMaps(p, Arg, x, m, m) :
          \E g \in PushMaps(PushCopied(p, Arg, x, m, m, f), Arg, y, n, n) :
            st' = move_from(PushCopied(PushCopied(p, Arg, x, m, m, f), Arg, y, n, n, g), c, Arg)
    BY <1>1 DEF p
  <1> DEFINE a == PushCopied(p, Arg, x, m, m, f)
  <1>5. a \in State /\ BlankBut(a, {})
    BY <1>2, <1>3, PushCopiedType, PushCopiedBlank, ArgTmpCell
  <1> HIDE DEF a
  <1>6. PICK g \in PushMaps(a, Arg, y, n, n) :
          st' = move_from(PushCopied(a, Arg, y, n, n, g), c, Arg)
    BY <1>4 DEF a
  <1> DEFINE b == PushCopied(a, Arg, y, n, n, g)
  <1>7. b \in State /\ BlankBut(b, {})
    BY <1>2, <1>5, PushCopiedType, PushCopiedBlank, ArgTmpCell
  <1> QED
    BY <1>6, <1>7, move_fromBlank, ArgTmpCell

LEMMA AssignPairBlank ==
  ASSUME st \in State, BlankBut(st, {}), NEW c \in Cell, NEW x \in Cell, NEW k \in Keys,
         AssignPair(c, k, x)
  PROVE  BlankBut(st', {})
  <1>1. PICK n \in FreeNodes(st) : \E f \in CopyMaps(InsertKey(st, Arg, k, n), n, x) :
          st' = move_from(copy_from(InsertKey(st, Arg, k, n), n, x, f), c, Arg)
    BY DEF AssignPair
  <1>2. n \in Heap /\ n \in Cell
    BY ArgTmpCell DEF FreeNodes
  <1> DEFINE a == InsertKey(st, Arg, k, n)
  <1>3. a \in State /\ BlankBut(a, {}) /\ a.owner[n] \in {Uptr, Arg}
    BY <1>2, InsertKeyType, InsertKeyBlank, InsertKeyNode, ArgTmpCell
  <1> HIDE DEF a
  <1>4. PICK f \in CopyMaps(a, n, x) : st' = move_from(copy_from(a, n, x, f), c, Arg)
    BY <1>1 DEF a
  <1>5. Alive(destruct(a, n), n)
    BY <1>2, <1>3, StackNodeAlive, CellAssumption, OwnerAssumption
  <1>6. copy_from(a, n, x, f) \in State /\ BlankBut(copy_from(a, n, x, f), {})
    BY <1>2, <1>3, <1>5, copy_fromType, copy_fromBlank
  <1> QED
    BY <1>4, <1>6, move_fromBlank, ArgTmpCell

LEMMA InitBlank == Init => BlankBut(st, {})
  BY DEF Init, BlankBut

LEMMA NextBlank ==
  ASSUME ~AllocMayFail, TypeOK, BlankBut(st, {}), [Next]_st PROVE BlankBut(st', {})
  <1> st \in State
    BY DEF TypeOK
  <1> FreeNodes(st) \subseteq Heap
    BY DEF FreeNodes
  <1>1. CASE UNCHANGED st
    BY <1>1
  <1>2. ASSUME NEW c \in Addressable(st), Call(c) PROVE BlankBut(st', {})
    <2> c \in Cell
      BY AddressableType
    <2>1. ASSUME NEW v \in Addressable(st), CopyAssign(c, v) PROVE BlankBut(st', {})
      BY <2>1, AddressableType, AddressableAlive, copy_fromBlank DEF CopyAssign
    <2>2. ASSUME NEW v \in Addressable(st), MoveAssign(c, v) PROVE BlankBut(st', {})
      BY <2>2, AddressableType, move_fromBlank DEF MoveAssign
    <2>3. ASSUME NEW v \in Addressable(st), PushBackMove(c, v) PROVE BlankBut(st', {})
      BY <2>3, AddressableType, PushMovedBlank DEF PushBackMove
    <2>4. ASSUME NEW v \in Addressable(st), PushBackCopy(c, v) PROVE BlankBut(st', {})
      BY <2>4, AddressableType, PushCopiedBlank DEF PushBackCopy
    <2>5. ASSUME NEW v \in Addressable(st), RemoveElement(c, v) PROVE BlankBut(st', {})
      BY <2>5, EraseBlank DEF RemoveElement, Kids
    <2>6. ASSUME NEW v \in Addressable(st), Swap(c, v) PROVE BlankBut(st', {})
      BY <2>6, AddressableType, swappedBlank DEF Swap
    <2>7. ASSUME NEW l \in Literals, AssignNew(c, l[1], l[2]) PROVE BlankBut(st', {})
      BY <2>7, LiteralType, LiteralBlank, move_fromBlank, ArgTmpCell DEF AssignNew
    <2>8. ASSUME NEW l \in Literals, PushBackNew(c, l[1], l[2]) PROVE BlankBut(st', {})
      BY <2>8, LiteralType, LiteralBlank, PushMovedBlank, ArgTmpCell DEF PushBackNew
    <2>9. ASSUME NEW k \in Keys, IndexKey(c, k) PROVE BlankBut(st', {})
      BY <2>9, InsertKeyBlank DEF IndexKey
    <2>10. ASSUME NEW k \in Keys, RemoveKey(c, k) PROVE BlankBut(st', {})
      BY <2>10, EraseBlank DEF RemoveKey, Kids
    <2>11. ASSUME NEW d \in Payloads, WriteThrough(c, d) PROVE BlankBut(st', {})
      BY <2>11 DEF WriteThrough, BlankBut, State
    <2>12. CASE StealString(c)
      BY <2>12 DEF StealString, BlankBut, State
    <2> QED
      BY <1>2, <2>1, <2>2, <2>3, <2>4, <2>5, <2>6, <2>7, <2>8, <2>9, <2>10, <2>11, <2>12
         DEF Call, CopyAssignFails, PushBackMoveFails, PushBackFails, IndexKeyFails
  <1>3. ASSUME NEW x \in Named, Construct(x) PROVE BlankBut(st', {})
    <2> x \in Cell
      BY ArgTmpCell
    <2>1. ASSUME NEW v \in Addressable(st), AssignListOfOne(x, v) PROVE BlankBut(st', {})
      <3>1. PICK f \in CopyMaps(st, Arg, v) : st' = move_from(copy_from(st, Arg, v, f), x, Arg)
        BY <2>1 DEF AssignListOfOne
      <3>2. Alive(destruct(st, Arg), Arg)
        BY CellAssumption DEF Alive
      <3>3. /\ copy_from(st, Arg, v, f) \in State
            /\ BlankBut(copy_from(st, Arg, v, f), {})
        BY <3>2, AddressableType, copy_fromType, copy_fromBlank, ArgTmpCell
      <3> QED
        BY <3>1, <3>3, move_fromBlank, ArgTmpCell
    <2> QED
      BY <1>3, <2>1, AddressableType, AssignListOfTwoBlank, AssignPairBlank DEF Construct
  <1>4. ASSUME NEW x \in Named, LeaveScope(x) PROVE BlankBut(st', {})
    <2>1. destruct(st, x) \in State /\ BlankBut(destruct(st, x), {})
      BY destructType, destructBlank, ArgTmpCell
    <2>2. x \in Cell /\ HeldBy("Null") = "none"
      BY ArgTmpCell DEF HeldBy
    <2>3. LeaveScope(x) => st' = construct(destruct(st, x), x, "Null", NoData)
      BY DEF LeaveScope
    <2> QED
      BY <1>4, <2>1, <2>2, <2>3, constructEffect, TagsType DEF BlankBut
  <1> QED
    BY <1>1, <1>2, <1>3, <1>4 DEF Next

\* As long as no allocation fails, a tag of Null never hides a live string or
\* container from destruct, whatever the arguments of the calls alias.
THEOREM NullsAreEmpty ==
  ASSUME ~AllocMayFail PROVE Spec => []NullIsEmpty
  <1>1. Init => TypeOK /\ BlankBut(st, {})
    BY InitType, InitBlank
  <1>2. (TypeOK /\ BlankBut(st, {})) /\ [Next]_st => (TypeOK /\ BlankBut(st, {}))'
    BY NextType, NextBlank DEF BlankBut
  <1>3. BlankBut(st, {}) => NullIsEmpty
    BY DEF BlankBut, NullIsEmpty
  <1> QED
    BY <1>1, <1>2, <1>3, PTL DEF Spec

-----------------------------------------------------------------------------
(* Owners are alive.  Tidy holds at every step of a call that does not     *)
(* crash, whatever its arguments alias.                                    *)

\* What has a node in its container is alive and has that container.
Owned(s) ==
  \A h \in Heap : s.owner[h] \in Cell =>
    Alive(s, s.owner[h]) /\ s.held[s.owner[h]] \in Containers

\* make_unique<Value> gives a Null.
FreeIsBlank(s) ==
  \A h \in Heap : s.owner[h] = Free => s.vtype[h] = "Null" /\ s.held[h] = "none"

Tidy(s) == s \in State /\ ~s.ub /\ Truthful(s) /\ Owned(s) /\ FreeIsBlank(s)

\* Nodes that a unique_ptr on the stack holds, or that it can get.
Fresh(s, n) ==
  n \in Heap /\ s.owner[n] \in {Free, Uptr} /\ s.vtype[n] = "Null" /\ s.held[n] = "none"

Empty(s, c) == s.vtype[c] = "Null" /\ s.held[c] = "none"

LEMMA CellNoMark == Uptr \notin Cell /\ Free \notin Cell /\ Stray \notin Cell
  BY CellAssumption DEF Cell

LEMMA OwnedNone ==
  ASSUME NEW s, Owned(s), NEW c \in Cell, s.held[c] \notin Containers
  PROVE  \A h \in Heap : s.owner[h] # c
  BY DEF Owned

LEMMA destructTidy ==
  ASSUME NEW s, Tidy(s), NEW c \in Cell PROVE Tidy(destruct(s, c))
  <1> DEFINE a == destruct(s, c)
  <1>1. s \in State /\ ~s.ub /\ Truthful(s) /\ Owned(s) /\ FreeIsBlank(s)
    BY DEF Tidy
  <1>2. Destructed(s, c, a) /\ Truthful(a)
    BY <1>1, destructEffect, destructTruthful
  <1> HIDE DEF a
  <1>3. Owned(a)
    <2> SUFFICES ASSUME NEW h \in Heap, a.owner[h] \in Cell
                 PROVE  Alive(a, a.owner[h]) /\ a.held[a.owner[h]] \in Containers
      BY DEF Owned
    <2> DEFINE o == a.owner[h]
    <2>1. o = s.owner[h] /\ h \notin Below(s, c) /\ o \notin Below(s, c) /\ o \in Cell
      BY <1>2, CellNoMark DEF Destructed
    <2>2. Alive(s, o) /\ s.held[o] \in Containers
      BY <1>1, <2>1 DEF Owned
    <2> HIDE DEF o
    <2>3. Alive(a, o)
      BY <1>2, <2>1, <2>2, OwnerAssumption DEF Destructed, Alive
    <2>4. CASE o # c \/ s.vtype[c] = "Null"
      BY <1>2, <2>1, <2>2, <2>3, <2>4 DEF Destructed, o
    <2>5. CASE o = c /\ s.vtype[c] # "Null"
      <3>1. s.held[c] = HeldBy(s.vtype[c])
        BY <1>1, <2>5 DEF Truthful
      <3>2. s.vtype[c] \in Containers
        BY <2>2, <2>5, <3>1 DEF HeldBy, Containers
      <3>3. h \in Kids(s, c)
        BY <2>1, <2>5, <3>2 DEF Kids
      <3> QED
        BY <2>1, <3>3, KidsBelow
    <2> QED
      BY <2>4, <2>5
  <1>4. FreeIsBlank(a)
    <2> SUFFICES ASSUME NEW h \in Heap, a.owner[h] = Free
                 PROVE  a.vtype[h] = "Null" /\ a.held[h] = "none"
      BY DEF FreeIsBlank
    <2>1. h \in Below(s, c) \/ s.owner[h] = Free
      BY <1>2, OwnerAssumption DEF Destructed
    <2> QED
      BY <1>1, <1>2, <2>1, ArgTmpCell DEF Destructed, FreeIsBlank
  <1>5. a \in State /\ ~a.ub
    BY <1>1, <1>2 DEF Destructed
  <1> QED
    BY <1>2, <1>3, <1>4, <1>5 DEF Tidy, a

LEMMA move_fromTidy ==
  ASSUME NEW s, Tidy(s), NEW c \in Cell, NEW v \in Cell,
         Alive(destruct(s, c), c), Alive(destruct(s, c), v)
  PROVE  Tidy(move_from(s, c, v))
  <1> DEFINE a == destruct(s, c)
             r == move_from(s, c, v)
             t == a.vtype[v]
  <1>0. s \in State /\ Truthful(s) /\ ~s.ub
    BY DEF Tidy
  <1>1. a \in State /\ Truthful(a) /\ Owned(a) /\ FreeIsBlank(a) /\ ~a.ub /\ a.vtype[c] = "Null"
    BY <1>0, destructTidy, destructNull DEF Tidy
  <1>2. Alive(a, c) /\ Alive(a, v)
    OBVIOUS
  <1>3. CASE c = v
    BY <1>0, <1>2, <1>3, SelfMove, destructTidy
  <1>4. CASE c # v
    <2>1. Moved(a, c, v, r) /\ Truthful(r)
      BY <1>0, <1>4, move_fromEffect, move_fromTruthful
    <2> HIDE DEF a, r
    <2>2. ASSUME NEW h \in Cell, Alive(a, h) PROVE Alive(r, h)
      BY <2>1, <2>2, OwnerAssumption, CellNoMark DEF Moved, Alive
    <2>3. Owned(r)
      <3> SUFFICES ASSUME NEW h \in Heap, r.owner[h] \in Cell
                   PROVE  Alive(r, r.owner[h]) /\ r.held[r.owner[h]] \in Containers
        BY DEF Owned
      <3>1. CASE h \in Kids(a, v)
        <4>1. t \in Containers /\ r.owner[h] = c
          BY <2>1, <3>1 DEF Moved, Kids
        <4>2. r.held[c] = HeldBy(t)
          BY <1>4, <2>1, <4>1 DEF Moved, Containers
        <4> QED
          BY <1>2, <2>2, <4>1, <4>2 DEF HeldBy, Containers
      <3>2. CASE h \notin Kids(a, v)
        <4> DEFINE o == a.owner[h]
        <4>1. r.owner[h] = o /\ o \in Cell /\ (o # c \/ t = "Null")
          BY <2>1, <3>2, CellNoMark DEF Moved
        <4>2. Alive(a, o) /\ a.held[o] \in Containers
          BY <1>1, <4>1 DEF Owned
        <4> HIDE DEF o
        <4>3. Alive(r, o)
          BY <2>2, <4>1, <4>2
        <4>4. CASE t = "Null"
          BY <2>1, <4>1, <4>2, <4>3, <4>4 DEF Moved
        <4>5. CASE t # "Null"
          <5>1. a.held[v] = HeldBy(t)
            BY <1>1, <4>5 DEF Truthful
          <5>2. ASSUME o = v PROVE FALSE
            <6>1. t \in Containers
              BY <4>2, <5>1, <5>2 DEF HeldBy, Containers
            <6> QED
              BY <3>2, <5>2, <6>1 DEF Kids, o
          <5>3. r.held[o] = a.held[o]
            BY <2>1, <4>1, <4>5, <5>2 DEF Moved
          <5> QED
            BY <4>1, <4>2, <4>3, <5>3
        <4> QED
          BY <4>4, <4>5
      <3> QED
        BY <3>1, <3>2
    <2>4. FreeIsBlank(r)
      <3> SUFFICES ASSUME NEW h \in Heap, r.owner[h] = Free
                   PROVE  r.vtype[h] = "Null" /\ r.held[h] = "none"
        BY DEF FreeIsBlank
      <3>1. a.owner[h] = Free /\ h \in Cell
        BY <2>1, OwnerAssumption, CellNoMark, ArgTmpCell DEF Moved
      <3>2. h # c /\ h # v
        BY <1>2, <3>1 DEF Alive
      <3> QED
        BY <1>1, <2>1, <3>1, <3>2 DEF Moved, FreeIsBlank
    <2>5. r \in State /\ ~r.ub
      BY <1>1, <2>1 DEF Moved
    <2>6. Tidy(r)
      BY <2>1, <2>3, <2>4, <2>5 DEF Tidy
    <2> QED
      BY <2>6 DEF r
  <1> QED
    BY <1>3, <1>4

LEMMA copy_fromTidy ==
  ASSUME NEW s, Tidy(s), NEW c \in Cell, NEW v \in Cell, NEW f \in CopyMaps(s, c, v),
         Alive(destruct(s, c), c), Alive(destruct(s, c), v)
  PROVE  Tidy(copy_from(s, c, v, f))
  <1> DEFINE a == destruct(s, c)
             r == copy_from(s, c, v, f)
             t == a.vtype[v]
  <1>0. s \in State /\ Truthful(s) /\ ~s.ub
    BY DEF Tidy
  <1>1. a \in State /\ Truthful(a) /\ Owned(a) /\ FreeIsBlank(a) /\ ~a.ub /\ a.vtype[c] = "Null"
    BY <1>0, destructTidy, destructNull DEF Tidy
  <1>2. Copied(a, c, v, f, r) /\ Truthful(r)
    BY <1>0, copy_fromEffect, copy_fromTruthful
  <1>3. \A x \in Below(a, v) : f[x] \in Heap /\ f[x] \in Cell /\ a.owner[f[x]] = Free
    BY <1>0, CopyMapsFree, ArgTmpCell
  <1>4. Alive(a, c)
    OBVIOUS
  <1> HIDE DEF a, r
  <1>5. \A x \in Below(a, v) : f[x] # c
    BY <1>3, <1>4 DEF Alive
  <1>6. \A x \in Below(a, v) : r.owner[f[x]] \in Cell
    <2> SUFFICES ASSUME NEW x \in Below(a, v) PROVE r.owner[f[x]] \in Cell
      OBVIOUS
    <2>1. CASE x \in Kids(a, v)
      BY <1>2, <2>1 DEF Copied
    <2>2. CASE x \notin Kids(a, v)
      <3>1. a.owner[x] \in Below(a, v) \cup {v} /\ a.vtype[a.owner[x]] \in Containers
        BY BelowOwner
      <3>2. a.owner[x] \in Below(a, v)
        BY <2>2, <3>1, BelowType DEF Kids
      <3> QED
        BY <1>2, <1>3, <2>2, <3>2 DEF Copied
    <2> QED
      BY <2>1, <2>2
  <1>7. ASSUME NEW h \in Cell, Alive(a, h) PROVE Alive(r, h)
    <2> SUFFICES ASSUME h \in Heap PROVE r.owner[h] # Free
      BY DEF Alive
    <2>1. a.owner[h] # Free
      BY <1>7 DEF Alive
    <2>2. \A x \in Below(a, v) : f[x] # h
      BY <1>3, <2>1
    <2> QED
      BY <1>2, <2>1, <2>2, OwnerAssumption DEF Copied
  <1>8. Owned(r)
    <2> SUFFICES ASSUME NEW h \in Heap, r.owner[h] \in Cell
                 PROVE  Alive(r, r.owner[h]) /\ r.held[r.owner[h]] \in Containers
      BY DEF Owned
    <2>1. ASSUME NEW x \in Below(a, v), h = f[x], x \in Kids(a, v)
          PROVE  Alive(r, r.owner[h]) /\ r.held[r.owner[h]] \in Containers
      <3>1. r.owner[h] = c /\ t \in Containers
        BY <1>2, <2>1 DEF Copied, Kids
      <3>2. r.held[c] = HeldBy(t)
        BY <1>2, <3>1 DEF Copied, Containers
      <3> QED
        BY <1>4, <1>7, <3>1, <3>2 DEF HeldBy, Containers
    <2>2. ASSUME NEW x \in Below(a, v), h = f[x], x \notin Kids(a, v)
          PROVE  Alive(r, r.owner[h]) /\ r.held[r.owner[h]] \in Containers
      <3> DEFINE y == a.owner[x]
      <3>1. y \in Below(a, v) \cup {v} /\ a.vtype[y] \in Containers
        BY BelowOwner
      <3>2. y \in Below(a, v)
        BY <2>2, <3>1, BelowType DEF Kids
      <3>3. r.owner[h] = f[y]
        BY <1>2, <2>2 DEF Copied
      <3>4. r.held[f[y]] = HeldBy(a.vtype[y])
        BY <1>2, <3>2 DEF Copied
      <3>5. Alive(r, f[y])
        BY <1>6, <3>2, CellNoMark DEF Alive
      <3> HIDE DEF y
      <3> QED
        BY <3>1, <3>3, <3>4, <3>5 DEF HeldBy, Containers
    <2>3. ASSUME \A x \in Below(a, v) : f[x] # h
          PROVE  Alive(r, r.owner[h]) /\ r.held[r.owner[h]] \in Containers
      <3> DEFINE o == a.owner[h]
      <3>1. r.owner[h] = o /\ o \in Cell /\ (o # c \/ t = "Null")
        BY <1>2, <2>3, CellNoMark DEF Copied
      <3>2. Alive(a, o) /\ a.held[o] \in Containers
        BY <1>1, <3>1 DEF Owned
      <3> HIDE DEF o
      <3>3. \A x \in Below(a, v) : f[x] # o
        BY <1>3, <3>2 DEF Alive
      <3>4. r.held[o] = a.held[o]
        BY <1>2, <3>1, <3>3 DEF Copied
      <3> QED
        BY <1>7, <3>1, <3>2, <3>4
    <2> QED
      BY <2>1, <2>2, <2>3
  <1>9. FreeIsBlank(r)
    <2> SUFFICES ASSUME NEW h \in Heap, r.owner[h] = Free
                 PROVE  r.vtype[h] = "Null" /\ r.held[h] = "none"
      BY DEF FreeIsBlank
    <2>1. \A x \in Below(a, v) : f[x] # h
      BY <1>6, CellNoMark
    <2>2. a.owner[h] = Free /\ h \in Cell
      BY <1>2, <2>1, OwnerAssumption, ArgTmpCell DEF Copied
    <2>3. h # c
      BY <1>4, <2>2 DEF Alive
    <2> QED
      BY <1>1, <1>2, <2>1, <2>2, <2>3 DEF Copied, FreeIsBlank
  <1>10. r \in State /\ ~r.ub
    BY <1>1, <1>2 DEF Copied
  <1>11. Tidy(r)
    BY <1>2, <1>8, <1>9, <1>10 DEF Tidy
  <1> QED
    BY <1>11 DEF r

LEMMA make_uniqueEffect ==
  ASSUME NEW s \in State, NEW n \in Heap
  PROVE  /\ make_unique(s, n) \in State
         /\ make_unique(s, n).vtype = s.vtype
         /\ make_unique(s, n).held = s.held
         /\ make_unique(s, n).slot = s.slot
         /\ make_unique(s, n).ub = s.ub
         /\ \A h \in Heap : make_unique(s, n).owner[h] = IF h = n THEN Uptr ELSE s.owner[h]
  <1>1. make_unique(s, n) \in State
    BY make_uniqueType
  <1> QED
    BY <1>1 DEF make_unique, State

LEMMA make_uniqueTidy ==
  ASSUME NEW s, Tidy(s), NEW n \in Heap PROVE Tidy(make_unique(s, n))
  <1> DEFINE a == make_unique(s, n)
  <1>1. s \in State /\ ~s.ub /\ Truthful(s) /\ Owned(s) /\ FreeIsBlank(s)
    BY DEF Tidy
  <1>2. /\ a \in State /\ a.vtype = s.vtype /\ a.held = s.held /\ a.ub = s.ub /\ Truthful(a)
        /\ \A h \in Heap : a.owner[h] = IF h = n THEN Uptr ELSE s.owner[h]
    BY <1>1, make_uniqueEffect, make_uniqueTruthful
  <1> HIDE DEF a
  <1>3. Owned(a)
    BY <1>1, <1>2, CellNoMark, OwnerAssumption DEF Owned, Alive
  <1>4. FreeIsBlank(a)
    BY <1>1, <1>2, OwnerAssumption DEF FreeIsBlank
  <1>5. Tidy(a)
    BY <1>1, <1>2, <1>3, <1>4 DEF Tidy
  <1> QED
    BY <1>5 DEF a

\* A placement new, in a Value that is alive and tagged Null.
LEMMA constructTidy ==
  ASSUME NEW s, Tidy(s), NEW c \in Cell, NEW t \in Types, NEW d \in Payloads \cup {NoData},
         s.vtype[c] = "Null", Alive(s, c)
  PROVE  Tidy(construct(s, c, t, d))
  <1> DEFINE a == construct(s, c, t, d)
  <1>1. s \in State /\ ~s.ub /\ Truthful(s) /\ Owned(s) /\ FreeIsBlank(s)
    BY DEF Tidy
  <1>2. /\ a \in State /\ a.ub = s.ub /\ a.vtype = s.vtype
        /\ \A e \in Cell : a.held[e] = IF e = c THEN HeldBy(t) ELSE s.held[e]
        /\ \A h \in Heap : a.owner[h] = IF s.owner[h] = c THEN Stray ELSE s.owner[h]
    BY <1>1, constructEffect
  <1>3. Truthful(a)
    BY <1>1, constructTruthful
  <1> HIDE DEF a
  <1>4. Owned(a)
    BY <1>1, <1>2, CellNoMark, OwnerAssumption DEF Owned, Alive
  <1>5. FreeIsBlank(a)
    BY <1>1, <1>2, OwnerAssumption, ArgTmpCell DEF FreeIsBlank, Alive
  <1>6. Tidy(a)
    BY <1>1, <1>2, <1>3, <1>4, <1>5 DEF Tidy
  <1> QED
    BY <1>6 DEF a

LEMMA SetTagTidy ==
  ASSUME NEW s, Tidy(s), NEW c \in Cell, NEW t \in Types, t = "Null" \/ s.held[c] = HeldBy(t),
         Alive(s, c)
  PROVE  Tidy(SetTag(s, c, t))
  <1> DEFINE a == SetTag(s, c, t)
  <1>1. s \in State /\ ~s.ub /\ Truthful(s) /\ Owned(s) /\ FreeIsBlank(s)
    BY DEF Tidy
  <1>2. /\ a \in State /\ a.ub = s.ub /\ a.held = s.held /\ a.owner = s.owner
        /\ \A e \in Cell : a.vtype[e] = IF e = c THEN t ELSE s.vtype[e]
    BY <1>1, SetTagEffect
  <1>3. Truthful(a)
    BY <1>1, TaggedTruthful
  <1> HIDE DEF a
  <1>4. Owned(a)
    BY <1>1, <1>2 DEF Owned, Alive
  <1>5. FreeIsBlank(a)
    BY <1>1, <1>2, ArgTmpCell DEF FreeIsBlank, Alive
  <1>6. Tidy(a)
    BY <1>1, <1>2, <1>3, <1>4, <1>5 DEF Tidy
  <1> QED
    BY <1>6 DEF a

LEMMA emplace_backEffect ==
  ASSUME NEW s \in State, NEW c \in Cell, NEW n \in Heap, s.held[c] = "Array"
  PROVE  /\ emplace_back(s, c, n) \in State
         /\ emplace_back(s, c, n).vtype = s.vtype
         /\ emplace_back(s, c, n).held = s.held
         /\ emplace_back(s, c, n).ub = s.ub
         /\ \A h \in Heap :
              /\ emplace_back(s, c, n).owner[h] = IF h = n THEN c ELSE s.owner[h]
              /\ emplace_back(s, c, n).slot[h] =
                   IF h = n THEN Cardinality({k \in Heap : s.owner[k] = c}) + 1 ELSE s.slot[h]
  <1>1. emplace_back(s, c, n) \in State
    BY emplace_backType
  <1> QED
    BY <1>1 DEF emplace_back, State

LEMMA emplaceEffect ==
  ASSUME NEW s \in State, NEW c \in Cell, NEW k \in Keys, NEW n \in Heap, s.held[c] = "Map"
  PROVE  /\ emplace(s, c, k, n) \in State
         /\ emplace(s, c, k, n).vtype = s.vtype
         /\ emplace(s, c, k, n).held = s.held
         /\ emplace(s, c, k, n).ub = s.ub
         /\ \A h \in Heap :
              /\ emplace(s, c, k, n).owner[h] = IF h = n THEN c ELSE s.owner[h]
              /\ emplace(s, c, k, n).slot[h] = IF h = n THEN k ELSE s.slot[h]
  <1>1. emplace(s, c, k, n) \in State
    BY emplaceType
  <1> QED
    BY <1>1 DEF emplace, State

\* A node goes into a container that is there.
LEMMA AttachTidy ==
  ASSUME NEW s, Tidy(s), NEW a \in State, NEW c \in Cell, NEW n \in Heap,
         Alive(s, c), s.held[c] \in Containers,
         a.vtype = s.vtype, a.held = s.held, a.ub = s.ub,
         \A h \in Heap : a.owner[h] = IF h = n THEN c ELSE s.owner[h]
  PROVE  Tidy(a)
  <1>1. s \in State /\ ~s.ub /\ Truthful(s) /\ Owned(s) /\ FreeIsBlank(s)
    BY DEF Tidy
  <1>2. Truthful(a)
    BY <1>1, TruthfulSame
  <1>3. Owned(a)
    BY <1>1, CellNoMark DEF Owned, Alive
  <1>4. FreeIsBlank(a)
    BY <1>1, CellNoMark DEF FreeIsBlank
  <1> QED
    BY <1>1, <1>2, <1>3, <1>4 DEF Tidy

LEMMA FreeNodeTidy ==
  ASSUME NEW s, Tidy(s), NEW n \in Heap PROVE Tidy(FreeNode(s, n))
  <1> DEFINE a == destruct(s, n)
             r == Release(a, {n})
  <1>1. a \in State /\ ~a.ub /\ Truthful(a) /\ Owned(a) /\ FreeIsBlank(a)
    BY destructTidy, ArgTmpCell DEF Tidy
  <1>2. /\ r \in State /\ Truthful(r) /\ r.ub = a.ub
        /\ \A e \in Cell :
             /\ r.vtype[e] = IF e \in {n} THEN "Null" ELSE a.vtype[e]
             /\ r.held[e]  = IF e \in {n} THEN "none" ELSE a.held[e]
        /\ \A h \in Heap :
              r.owner[h] = IF h \in {n} THEN Free
                           ELSE IF a.owner[h] \in {n} THEN Stray ELSE a.owner[h]
    BY <1>1, ReleaseType, ReleaseTruthful, ReleaseEffect
  <1> HIDE DEF a, r
  <1>3. Owned(r)
    BY <1>1, <1>2, CellNoMark, OwnerAssumption DEF Owned, Alive
  <1>4. FreeIsBlank(r)
    BY <1>1, <1>2, OwnerAssumption, ArgTmpCell DEF FreeIsBlank
  <1>5. Tidy(r)
    BY <1>1, <1>2, <1>3, <1>4 DEF Tidy
  <1> QED
    BY <1>5 DEF FreeNode, r, a

\* A move into a Null has nothing to destroy first.
LEMMA MoveToNull ==
  ASSUME NEW s, Tidy(s), NEW c \in Cell, NEW v \in Cell, c # v,
         s.vtype[c] = "Null", Alive(s, c), Alive(s, v)
  PROVE  Moved(s, c, v, move_from(s, c, v)) /\ Tidy(move_from(s, c, v))
  <1>1. s \in State /\ destruct(s, c) = s
    BY DEF Tidy, destruct
  <1> QED
    BY <1>1, move_fromEffect, move_fromTidy

\* Wrapped(s, c, m, r): WrapInArray, from its start to its end.
Wrapped(s, c, m, r) ==
  /\ \A e \in Cell :
       /\ r.vtype[e] = IF e = c THEN "Null" ELSE IF e = m THEN s.vtype[c] ELSE s.vtype[e]
       /\ r.held[e] = IF e = c THEN "Array" ELSE IF e = m THEN HeldBy(s.vtype[c]) ELSE s.held[e]
  /\ \A h \in Heap :
       /\ r.owner[h] = IF h = m THEN c ELSE IF h \in Kids(s, c) THEN m ELSE s.owner[h]
       /\ r.slot[h] = IF h = m THEN 1 ELSE s.slot[h]

LEMMA WrapInArrayEffect ==
  ASSUME NEW s, Tidy(s), NEW c \in Cell, c # Tmp, Alive(s, c), s.vtype[c] # "Null",
         NEW m, Fresh(s, m), m # c, Empty(s, Tmp)
  PROVE  /\ Wrapped(s, c, m, WrapInArray(s, c, m))
         /\ Tidy(WrapInArray(s, c, m))
  <1> DEFINE t == s.vtype[c]
             s1 == move_from(s, Tmp, c)
             k == construct(s1, c, "Array", NoData)
             p == make_unique(k, m)
             b == move_from(p, m, Tmp)
             r == emplace_back(b, c, m)
  <1>0. /\ Tmp \in Cell /\ Tmp \notin Heap /\ m \in Heap /\ m \in Cell /\ m # Tmp
        /\ s \in State /\ Owned(s) /\ t \in Types
    BY ArgTmpCell, CellAssumption DEF Fresh, Tidy, State
  <1>1. Moved(s, Tmp, c, s1) /\ Tidy(s1)
    BY <1>0, MoveToNull DEF Empty, Alive
  <1>2. /\ \A e \in Cell :
             /\ s1.vtype[e] = IF e = c THEN "Null" ELSE IF e = Tmp THEN t ELSE s.vtype[e]
             /\ s1.held[e] = IF e = c THEN "none" ELSE IF e = Tmp THEN HeldBy(t) ELSE s.held[e]
        /\ \A h \in Heap :
             /\ s1.owner[h] = IF h \in Kids(s, c) THEN Tmp ELSE s.owner[h]
             /\ s1.slot[h] = s.slot[h]
    <2>1. \A h \in Heap : s.owner[h] # Tmp
      BY <1>0, OwnedNone DEF Empty, Containers
    <2> QED
      BY <1>1, <2>1 DEF Moved
  <1> HIDE DEF s1
  <1>3. \A h \in Heap : s1.owner[h] # c
    BY <1>1, <1>2, OwnedNone DEF Tidy, Containers
  <1>4. Alive(s1, c) /\ s1 \in State /\ s1.vtype[c] = "Null"
    BY <1>0, <1>1, <1>2, CellNoMark DEF Alive, Tidy
  <1>5. /\ k.vtype = s1.vtype /\ k.slot = s1.slot /\ Tidy(k)
        /\ \A e \in Cell : k.held[e] = IF e = c THEN "Array" ELSE s1.held[e]
        /\ \A h \in Heap : k.owner[h] = s1.owner[h]
    BY <1>1, <1>3, <1>4, constructEffect, constructTidy, TagsType DEF HeldBy
  <1> HIDE DEF k
  <1>6. /\ p.vtype = k.vtype /\ p.held = k.held /\ p.slot = k.slot /\ Tidy(p)
        /\ \A h \in Heap : p.owner[h] = IF h = m THEN Uptr ELSE k.owner[h]
    <2>1. k \in State
      BY <1>5 DEF Tidy
    <2> QED
      BY <1>0, <1>5, <2>1, make_uniqueEffect, make_uniqueTidy
  <1> HIDE DEF p
  <1>7. /\ p.vtype[m] = "Null" /\ p.held[m] = "none" /\ p.vtype[Tmp] = t /\ p.held[Tmp] = HeldBy(t)
        /\ p.held[c] = "Array" /\ p.vtype[c] = "Null"
    BY <1>0, <1>2, <1>5, <1>6 DEF Fresh
  <1>8. Moved(p, m, Tmp, b) /\ Tidy(b)
    BY <1>0, <1>6, <1>7, OwnerAssumption, MoveToNull DEF Alive
  <1>9. \A h \in Heap : p.owner[h] # m
    BY <1>0, <1>6, <1>7, OwnedNone DEF Tidy, Containers
  <1>10. Kids(p, Tmp) = Kids(s, c)
    <2>1. m \notin Kids(s, c) /\ c \notin {Uptr, Free}
      BY <1>0, CellNoMark DEF Fresh, Kids
    <2>2. \A h \in Heap : s.owner[h] # Tmp
      BY <1>0, OwnedNone DEF Empty, Containers
    <2>3. \A h \in Heap : p.owner[h] = Tmp <=> h \in Kids(s, c)
      BY <1>0, <1>2, <1>5, <1>6, <2>1, <2>2, CellNoMark
    <2> QED
      BY <1>7, <2>3 DEF Kids
  <1>11. /\ \A e \in Cell :
              /\ b.vtype[e] = IF e = c THEN "Null" ELSE IF e = m THEN t
                              ELSE IF e = Tmp THEN "Null" ELSE s.vtype[e]
              /\ b.held[e] = IF e = c THEN "Array" ELSE IF e = m THEN HeldBy(t)
                             ELSE IF e = Tmp THEN "none" ELSE s.held[e]
         /\ \A h \in Heap :
              /\ b.owner[h] = IF h \in Kids(s, c) THEN m ELSE IF h = m THEN Uptr ELSE s.owner[h]
              /\ b.slot[h] = s.slot[h]
    BY <1>0, <1>2, <1>5, <1>6, <1>7, <1>8, <1>9, <1>10 DEF Moved
  <1> HIDE DEF b
  <1>12. \A h \in Heap : b.owner[h] # c
    <2>1. \A h \in Heap : s.owner[h] = c => h \in Kids(s, c)
      <3> SUFFICES ASSUME NEW h \in Heap, s.owner[h] = c PROVE h \in Kids(s, c)
        OBVIOUS
      <3>1. s.held[c] \in Containers
        BY <1>0 DEF Owned
      <3>2. s.held[c] = HeldBy(t)
        BY DEF Tidy, Truthful
      <3> QED
        BY <3>1, <3>2 DEF Kids, HeldBy, Containers
    <2> QED
      BY <1>0, <1>11, <2>1, CellNoMark
  <1>13. Alive(b, c) /\ b \in State /\ b.held[c] = "Array"
    BY <1>0, <1>8, <1>11, CellNoMark DEF Alive, Tidy
  <1>14. Cardinality({h \in Heap : b.owner[h] = c}) + 1 = 1
    <2>1. {h \in Heap : b.owner[h] = c} = {}
      BY <1>12
    <2> QED
      BY <2>1, FS_EmptySet
  <1>15. /\ r.vtype = b.vtype /\ r.held = b.held /\ r.ub = b.ub /\ r \in State
         /\ \A h \in Heap :
              /\ r.owner[h] = IF h = m THEN c ELSE b.owner[h]
              /\ r.slot[h] = IF h = m THEN 1 ELSE b.slot[h]
    BY <1>0, <1>13, <1>14, emplace_backEffect
  <1> HIDE DEF r
  <1>16. Tidy(r)
    BY <1>0, <1>8, <1>13, <1>15, AttachTidy DEF Containers
  <1>17. Wrapped(s, c, m, r)
    <2>1. m \notin Kids(s, c)
      BY CellNoMark DEF Fresh, Kids
    <2> QED
      BY <1>0, <1>11, <1>15, <2>1 DEF Wrapped, Empty
  <1>18. r = WrapInArray(s, c, m)
    BY DEF WrapInArray, r, b, p, k, s1
  <1> QED
    BY <1>16, <1>17, <1>18

LEMMA OpenArrayEffect ==
  ASSUME NEW s, Tidy(s), NEW c \in Cell, Alive(s, c), s.vtype[c] = "Null"
  PROVE  /\ Tidy(OpenArray(s, c))
         /\ \A e \in Cell :
              /\ OpenArray(s, c).vtype[e] = IF e = c THEN "Array" ELSE s.vtype[e]
              /\ OpenArray(s, c).held[e] = IF e = c THEN "Array" ELSE s.held[e]
         /\ \A h \in Heap :
              /\ OpenArray(s, c).owner[h] = IF s.owner[h] = c THEN Stray ELSE s.owner[h]
              /\ OpenArray(s, c).slot[h] = s.slot[h]
  <1> DEFINE k == construct(s, c, "Array", NoData)
             r == SetTag(k, c, "Array")
  <1>1. /\ k.vtype = s.vtype /\ k.slot = s.slot /\ Tidy(k) /\ k \in State
        /\ \A e \in Cell : k.held[e] = IF e = c THEN "Array" ELSE s.held[e]
        /\ \A h \in Heap : k.owner[h] = IF s.owner[h] = c THEN Stray ELSE s.owner[h]
    BY constructEffect, constructTidy, TagsType DEF HeldBy, Tidy
  <1>2. Alive(k, c)
    BY <1>1, OwnerAssumption DEF Alive
  <1> HIDE DEF k
  <1>3. /\ Tidy(r) /\ r.held = k.held /\ r.owner = k.owner /\ r.slot = k.slot
        /\ \A e \in Cell : r.vtype[e] = IF e = c THEN "Array" ELSE k.vtype[e]
    BY <1>1, <1>2, SetTagEffect, SetTagTidy, TagsType DEF HeldBy
  <1>4. r = OpenArray(s, c)
    BY DEF OpenArray, k
  <1> HIDE DEF r
  <1> QED
    BY <1>1, <1>3, <1>4

\* push_back is about to wrap c.
Wraps(s, c) == s.vtype[c] \notin {"Null", "Array"}

\* Readied(s, c, m, a): a vector is alive at c, and the rest is as it was, up
\* to the node m if c was wrapped.
Readied(s, c, m, a) ==
  /\ Tidy(a) /\ a.held[c] = "Array" /\ a.vtype[c] \in {"Null", "Array"}
  /\ \A e \in Cell : e # c /\ ~(Wraps(s, c) /\ e = m) =>
       a.vtype[e] = s.vtype[e] /\ a.held[e] = s.held[e]
  /\ \A h \in Heap :
       /\ a.owner[h] = Free <=> s.owner[h] = Free /\ ~(Wraps(s, c) /\ h = m)
       /\ a.owner[h] = Uptr <=> s.owner[h] = Uptr /\ ~(Wraps(s, c) /\ h = m)

LEMMA PushReadyEffect ==
  ASSUME NEW s, Tidy(s), NEW c \in Cell, c # Tmp, Alive(s, c), Empty(s, Tmp),
         NEW m, Wraps(s, c) => Fresh(s, m) /\ m # c
  PROVE  Readied(s, c, m, PushReady(s, c, m))
  <1>0. s \in State /\ Uptr # Free /\ Uptr # Stray /\ Free # Stray
    BY OwnerAssumption DEF Tidy
  <1>1. CASE s.vtype[c] = "Null"
    <2> DEFINE r == OpenArray(s, c)
    <2>1. /\ Tidy(r)
          /\ \A e \in Cell :
               /\ r.vtype[e] = IF e = c THEN "Array" ELSE s.vtype[e]
               /\ r.held[e] = IF e = c THEN "Array" ELSE s.held[e]
          /\ \A h \in Heap : r.owner[h] = IF s.owner[h] = c THEN Stray ELSE s.owner[h]
      BY <1>1, OpenArrayEffect
    <2> HIDE DEF r
    <2>2. ~Wraps(s, c) /\ PushReady(s, c, m) = r
      BY <1>1 DEF Wraps, PushReady, r
    <2> QED
      BY <1>0, <2>1, <2>2, CellNoMark DEF Readied
  <1>2. CASE s.vtype[c] = "Array"
    <2>1. ~Wraps(s, c) /\ PushReady(s, c, m) = s
      BY <1>2 DEF Wraps, PushReady
    <2>2. s.held[c] = "Array"
      BY <1>2 DEF Tidy, Truthful, HeldBy
    <2> QED
      BY <1>2, <2>1, <2>2 DEF Readied
  <1>3. CASE Wraps(s, c)
    <2> DEFINE r == WrapInArray(s, c, m)
    <2>1. Wrapped(s, c, m, r) /\ Tidy(r)
      BY <1>3, WrapInArrayEffect DEF Wraps
    <2>2. PushReady(s, c, m) = r
      BY <1>3 DEF Wraps, PushReady
    <2> HIDE DEF r
    <2>3. \A h \in Kids(s, c) : s.owner[h] = c
      BY DEF Kids
    <2>4. m \in Heap /\ m # c
      BY <1>3 DEF Fresh
    <2> QED
      BY <1>0, <1>3, <2>1, <2>2, <2>3, <2>4, CellNoMark, ArgTmpCell DEF Readied, Wrapped
  <1> QED
    BY <1>1, <1>2, <1>3 DEF Wraps

\* Pushed(s, c, m, n, r): a push_back into c that did not crash.
Pushed(s, c, m, n, r) ==
  /\ Tidy(r) /\ r.vtype[c] = "Array"
  /\ \A h \in Heap :
       /\ r.owner[h] = Free => s.owner[h] = Free
       /\ r.owner[h] = Uptr <=> s.owner[h] = Uptr /\ h # n /\ ~(Wraps(s, c) /\ h = m)

\* What push_back may be called with: c is alive, m and n are nodes of its own.
PushArgs(s, c, m, n) ==
  /\ Tidy(s) /\ Empty(s, Tmp)
  /\ c \in Cell /\ c # Tmp /\ Alive(s, c)
  /\ Fresh(s, n) /\ n # c
  /\ Wraps(s, c) => Fresh(s, m) /\ m # c /\ m # n

\* The node for the argument, before the argument goes there.
LEMMA PushNode ==
  ASSUME NEW s, NEW c, NEW m, NEW n, PushArgs(s, c, m, n),
         NEW p, p = make_unique(PushReady(s, c, m), n)
  PROVE  /\ Tidy(p) /\ p.held[c] = "Array" /\ p.vtype[c] \in {"Null", "Array"}
         /\ p.vtype[n] = "Null" /\ p.held[n] = "none" /\ p.owner[n] = Uptr
         /\ \A e \in Cell : e # c /\ ~(Wraps(s, c) /\ e = m) =>
              p.vtype[e] = s.vtype[e] /\ p.held[e] = s.held[e]
         /\ \A h \in Heap :
              /\ p.owner[h] = Free <=> s.owner[h] = Free /\ h # n /\ ~(Wraps(s, c) /\ h = m)
              /\ p.owner[h] = Uptr <=> h = n \/ (s.owner[h] = Uptr /\ ~(Wraps(s, c) /\ h = m))
  <1> DEFINE a == PushReady(s, c, m)
  <1>1. /\ Tidy(s) /\ Empty(s, Tmp) /\ c \in Cell /\ c # Tmp /\ Alive(s, c)
        /\ n \in Heap /\ n # c /\ s.vtype[n] = "Null" /\ s.held[n] = "none"
        /\ Wraps(s, c) => Fresh(s, m) /\ m # c /\ m # n
    BY DEF PushArgs, Fresh
  <1>2. Readied(s, c, m, a)
    BY <1>1, PushReadyEffect
  <1>3. /\ Tidy(p) /\ p.vtype = a.vtype /\ p.held = a.held
        /\ \A h \in Heap : p.owner[h] = IF h = n THEN Uptr ELSE a.owner[h]
    <2>1. Tidy(a) /\ a \in State
      BY <1>2 DEF Readied, Tidy
    <2> QED
      BY <1>1, <2>1, make_uniqueEffect, make_uniqueTidy
  <1> HIDE DEF a
  <1> QED
    BY <1>1, <1>2, <1>3, OwnerAssumption, ArgTmpCell DEF Readied

\* The vector at c is there, and the node n holds the argument.
Loaded(s, c, m, n, b) ==
  /\ Tidy(b) /\ b.held[c] = "Array" /\ Alive(b, c)
  /\ \A h \in Heap :
       /\ b.owner[h] = Free => s.owner[h] = Free
       /\ b.owner[h] = Uptr <=> h = n \/ (s.owner[h] = Uptr /\ ~(Wraps(s, c) /\ h = m))

\* What the emplace_back and the assignment of the tag do to the fields.
Appended(b, c, n, r) ==
  /\ r.held = b.held
  /\ \A e \in Cell : r.vtype[e] = IF e = c THEN "Array" ELSE b.vtype[e]
  /\ \A h \in Heap :
       /\ r.owner[h] = IF h = n THEN c ELSE b.owner[h]
       /\ r.slot[h] = IF h = n THEN Cardinality({k \in Heap : b.owner[k] = c}) + 1
                      ELSE b.slot[h]

\* The end of push_back.
LEMMA PushEnd ==
  ASSUME NEW s, NEW c, NEW m, NEW n, PushArgs(s, c, m, n), NEW b, Loaded(s, c, m, n, b),
         NEW r, r = SetTag(emplace_back(b, c, n), c, "Array")
  PROVE  Pushed(s, c, m, n, r) /\ Appended(b, c, n, r)
  <1> DEFINE q == emplace_back(b, c, n)
  <1>1. /\ c \in Cell /\ n \in Heap /\ b \in State /\ Tidy(b) /\ b.held[c] = "Array" /\ Alive(b, c)
        /\ \A h \in Heap :
             /\ b.owner[h] = Free => s.owner[h] = Free
             /\ b.owner[h] = Uptr <=> h = n \/ (s.owner[h] = Uptr /\ ~(Wraps(s, c) /\ h = m))
    BY DEF PushArgs, Fresh, Loaded, Tidy
  <1>2. /\ q \in State /\ q.vtype = b.vtype /\ q.held = b.held /\ q.ub = b.ub
        /\ \A h \in Heap :
             /\ q.owner[h] = IF h = n THEN c ELSE b.owner[h]
             /\ q.slot[h] = IF h = n THEN Cardinality({k \in Heap : b.owner[k] = c}) + 1
                            ELSE b.slot[h]
    BY <1>1, emplace_backEffect
  <1> HIDE DEF q
  <1>3. Tidy(q) /\ Alive(q, c)
    BY <1>1, <1>2, AttachTidy, CellNoMark DEF Containers, Alive
  <1>4. /\ Tidy(r) /\ r.held = q.held /\ r.owner = q.owner /\ r.slot = q.slot
        /\ \A e \in Cell : r.vtype[e] = IF e = c THEN "Array" ELSE q.vtype[e]
    <2>1. r = SetTag(q, c, "Array")
      BY DEF q
    <2>2. HeldBy("Array") = "Array" /\ "Array" \in Types
      BY DEF HeldBy, Types
    <2>3. q.held[c] = HeldBy("Array")
      BY <1>1, <1>2, <2>2
    <2>4. Tidy(r)
      BY <1>1, <1>3, <2>1, <2>2, <2>3, SetTagTidy
    <2> QED
      BY <1>1, <1>2, <2>1, <2>2, <2>4, SetTagEffect
  <1>5. Pushed(s, c, m, n, r)
    <2>1. \A h \in Heap : r.owner[h] = IF h = n THEN c ELSE b.owner[h]
      BY <1>2, <1>4
    <2>2. c # Free /\ c # Uptr /\ r.vtype[c] = "Array"
      BY <1>1, <1>4, CellNoMark
    <2> QED
      BY <1>1, <1>4, <2>1, <2>2 DEF Pushed
  <1>6. Appended(b, c, n, r)
    BY <1>2, <1>4 DEF Appended
  <1> QED
    BY <1>5, <1>6

LEMMA PushMovedEffect ==
  ASSUME NEW s, NEW c, NEW m, NEW n, PushArgs(s, c, m, n),
         NEW v \in Cell, v # n, v # Tmp, Alive(s, v), ~(Wraps(s, c) /\ v = m),
         NEW r, r = PushMoved(s, c, v, m, n), c = v => ~r.ub
  PROVE  /\ Pushed(s, c, m, n, r)
         /\ Loaded(s, c, m, n, move_from(make_unique(PushReady(s, c, m), n), n, v))
         /\ r.vtype[v] = "Null" \/ c = v
         /\ \A e \in Cell \ Heap : e # c /\ e # v => r.vtype[e] = s.vtype[e] /\ r.held[e] = s.held[e]
         /\ (s.vtype[v] = "Null" => s.held[v] = "none") /\ c # v => r.held[v] = "none"
         /\ \A h \in Heap : h # c /\ h # v /\ r.owner[h] = Uptr =>
              r.vtype[h] = s.vtype[h] /\ r.held[h] = s.held[h]
  <1> DEFINE p == make_unique(PushReady(s, c, m), n)
             b == move_from(p, n, v)
  <1>1. /\ Tidy(p) /\ p.held[c] = "Array" /\ p.vtype[c] \in {"Null", "Array"}
        /\ p.vtype[n] = "Null" /\ p.held[n] = "none" /\ p.owner[n] = Uptr
        /\ \A e \in Cell : e # c /\ ~(Wraps(s, c) /\ e = m) =>
             p.vtype[e] = s.vtype[e] /\ p.held[e] = s.held[e]
        /\ \A h \in Heap :
             /\ p.owner[h] = Free <=> s.owner[h] = Free /\ h # n /\ ~(Wraps(s, c) /\ h = m)
             /\ p.owner[h] = Uptr <=> h = n \/ (s.owner[h] = Uptr /\ ~(Wraps(s, c) /\ h = m))
    BY PushNode
  <1>2. r = SetTag(emplace_back(b, c, n), c, "Array")
    BY DEF PushMoved
  <1> HIDE DEF p
  <1>3. c \in Cell /\ Alive(s, c) /\ n \in Heap /\ n \in Cell /\ n # c
    BY ArgTmpCell DEF PushArgs, Fresh
  <1>4. Alive(p, v) /\ Alive(p, n) /\ Alive(p, c) /\ p.vtype[v] \in Types
    BY <1>1, <1>3, OwnerAssumption DEF Alive, Tidy, State
  <1>5. Moved(p, n, v, b) /\ Tidy(b)
    BY <1>1, <1>3, <1>4, MoveToNull
  <1> HIDE DEF b
  <1>6. \A h \in Heap : p.owner[h] # n
    BY <1>1, <1>3, OwnedNone DEF Tidy, Containers
  <1>7. \A h \in Heap : b.owner[h] = IF h \in Kids(p, v) THEN n ELSE p.owner[h]
    BY <1>5, <1>6 DEF Moved
  <1>8. /\ b.vtype[v] = "Null"
        /\ \A e \in Cell : e # v /\ e # n => b.vtype[e] = p.vtype[e] /\ b.held[e] = p.held[e]
        /\ p.vtype[v] = "Null" => b.held[v] = p.held[v]
        /\ p.vtype[v] # "Null" => b.held[v] = "none"
    BY <1>3, <1>5 DEF Moved
  <1>9. b.held[c] = "Array"
    <2>1. CASE c # v
      BY <1>1, <1>3, <1>8, <2>1
    <2>2. CASE c = v
      <3>1. SUFFICES ASSUME b.held[c] # "Array" PROVE FALSE
        OBVIOUS
      <3>2. b \in State
        BY <1>5 DEF Tidy
      <3>3. emplace_back(b, c, n) = Crash(b)
        BY <3>1 DEF emplace_back
      <3>4. Crash(b) \in State /\ Crash(b).ub /\ "Array" \in Types
        BY <3>2, CrashType, CrashUb DEF Types
      <3>5. r.ub
        BY <1>2, <1>3, <3>3, <3>4, SetTagEffect
      <3> QED
        BY <2>2, <3>5
    <2> QED
      BY <2>1, <2>2
  <1>10. Alive(b, c)
    BY <1>3, <1>4, <1>7, CellNoMark DEF Alive
  <1>a. \A h \in Kids(p, v) : p.owner[h] = v
    BY DEF Kids
  <1>11. \A h \in Heap :
           /\ b.owner[h] = Free => s.owner[h] = Free
           /\ b.owner[h] = Uptr <=> h = n \/ (s.owner[h] = Uptr /\ ~(Wraps(s, c) /\ h = m))
    BY <1>1, <1>3, <1>7, <1>a, CellNoMark
  <1>b. Loaded(s, c, m, n, b)
    BY <1>5, <1>9, <1>10, <1>11 DEF Loaded
  <1>c. Pushed(s, c, m, n, r) /\ Appended(b, c, n, r)
    BY <1>2, <1>b, PushEnd
  <1>12. /\ Pushed(s, c, m, n, r)
         /\ r.held = b.held
         /\ \A e \in Cell : r.vtype[e] = IF e = c THEN "Array" ELSE b.vtype[e]
         /\ \A h \in Heap : r.owner[h] = IF h = n THEN c ELSE b.owner[h]
    BY <1>c DEF Appended
  <1>13. r.vtype[v] = "Null" \/ c = v
    BY <1>8, <1>12
  <1>14. Wraps(s, c) => m \in Heap
    BY DEF PushArgs, Fresh
  <1>15. \A e \in Cell : e # c /\ e # v /\ e # n /\ ~(Wraps(s, c) /\ e = m) =>
           r.vtype[e] = s.vtype[e] /\ r.held[e] = s.held[e]
    BY <1>1, <1>8, <1>12
  <1>16. (s.vtype[v] = "Null" => s.held[v] = "none") /\ c # v => r.held[v] = "none"
    BY <1>1, <1>8, <1>12
  <1>17. ASSUME NEW h \in Heap, h # c, h # v, r.owner[h] = Uptr
         PROVE  r.vtype[h] = s.vtype[h] /\ r.held[h] = s.held[h]
    BY <1>12, <1>15, <1>17, ArgTmpCell DEF Pushed
  <1>18. \A e \in Cell \ Heap : e # c /\ e # v => r.vtype[e] = s.vtype[e] /\ r.held[e] = s.held[e]
    BY <1>3, <1>14, <1>15
  <1>19. Loaded(s, c, m, n, move_from(make_unique(PushReady(s, c, m), n), n, v))
    BY <1>b DEF b, p
  <1> QED
    BY <1>12, <1>13, <1>16, <1>17, <1>18, <1>19

\* A copy into a Null has nothing to destroy first.
LEMMA CopyToNull ==
  ASSUME NEW s, Tidy(s), NEW c \in Cell, NEW v \in Cell, NEW f \in CopyMaps(s, c, v),
         s.vtype[c] = "Null", Alive(s, c), Alive(s, v)
  PROVE  /\ Copied(s, c, v, f, copy_from(s, c, v, f))
         /\ Tidy(copy_from(s, c, v, f))
         /\ \A x \in Below(s, v) : f[x] \in Heap /\ s.owner[f[x]] = Free /\ f[x] # c
         /\ \A x \in Below(s, v) : copy_from(s, c, v, f).owner[f[x]] \in Cell
  <1> DEFINE r == copy_from(s, c, v, f)
  <1>1. s \in State /\ destruct(s, c) = s
    BY DEF Tidy, destruct
  <1>2. Copied(s, c, v, f, r) /\ Tidy(r)
    BY <1>1, copy_fromEffect, copy_fromTidy
  <1>3. \A x \in Below(s, v) : f[x] \in Heap /\ s.owner[f[x]] = Free
    BY <1>1, CopyMapsFree
  <1>4. \A x \in Below(s, v) : f[x] # c
    BY <1>3 DEF Alive
  <1> HIDE DEF r
  <1>5. ASSUME NEW x \in Below(s, v) PROVE r.owner[f[x]] \in Cell
    <2>1. CASE x \in Kids(s, v)
      BY <1>2, <2>1 DEF Copied
    <2>2. CASE x \notin Kids(s, v)
      <3>1. s.owner[x] \in Below(s, v) \cup {v} /\ s.vtype[s.owner[x]] \in Containers
        BY BelowOwner
      <3>2. s.owner[x] \in Below(s, v)
        BY <2>2, <3>1, BelowType DEF Kids
      <3> QED
        BY <1>2, <1>3, <2>2, <3>2, ArgTmpCell DEF Copied
    <2> QED
      BY <2>1, <2>2
  <1> QED
    BY <1>2, <1>3, <1>4, <1>5 DEF r

LEMMA PushCopiedEffect ==
  ASSUME NEW s, NEW c, NEW m, NEW n, PushArgs(s, c, m, n),
         NEW v \in Cell, Alive(s, v), NEW f \in PushMaps(s, c, v, m, n),
         NEW r, r = PushCopied(s, c, v, m, n, f)
  PROVE  /\ Pushed(s, c, m, n, r)
         /\ Loaded(s, c, m, n, copy_from(make_unique(PushReady(s, c, m), n), n, v, f))
         /\ \A e \in Cell \ Heap : e # c => r.vtype[e] = s.vtype[e] /\ r.held[e] = s.held[e]
         /\ \A h \in Heap : h # c /\ r.owner[h] = Uptr =>
              r.vtype[h] = s.vtype[h] /\ r.held[h] = s.held[h]
  <1> DEFINE p == make_unique(PushReady(s, c, m), n)
             b == copy_from(p, n, v, f)
  <1>1. /\ Tidy(p) /\ p.held[c] = "Array" /\ p.vtype[c] \in {"Null", "Array"}
        /\ p.vtype[n] = "Null" /\ p.held[n] = "none" /\ p.owner[n] = Uptr
        /\ \A e \in Cell : e # c /\ ~(Wraps(s, c) /\ e = m) =>
             p.vtype[e] = s.vtype[e] /\ p.held[e] = s.held[e]
        /\ \A h \in Heap :
             /\ p.owner[h] = Free <=> s.owner[h] = Free /\ h # n /\ ~(Wraps(s, c) /\ h = m)
             /\ p.owner[h] = Uptr <=> h = n \/ (s.owner[h] = Uptr /\ ~(Wraps(s, c) /\ h = m))
    BY PushNode
  <1>2. r = SetTag(emplace_back(b, c, n), c, "Array")
    BY DEF PushCopied
  <1>3. f \in CopyMaps(p, n, v)
    BY DEF PushMaps
  <1> HIDE DEF p
  <1>4. c \in Cell /\ Alive(s, c) /\ n \in Heap /\ n \in Cell /\ n # c
    BY ArgTmpCell DEF PushArgs, Fresh
  <1>5. Alive(p, v) /\ Alive(p, n) /\ Alive(p, c)
    BY <1>1, <1>4, OwnerAssumption DEF Alive
  <1>6. /\ Copied(p, n, v, f, b) /\ Tidy(b)
        /\ \A x \in Below(p, v) : f[x] \in Heap /\ p.owner[f[x]] = Free /\ f[x] # n
        /\ \A x \in Below(p, v) : b.owner[f[x]] \in Cell
    BY <1>1, <1>3, <1>4, <1>5, CopyToNull
  <1> HIDE DEF b
  <1>7. \A h \in Heap : p.owner[h] # n
    BY <1>1, <1>4, OwnedNone DEF Tidy, Containers
  <1>8. \A h \in Heap : (\A x \in Below(p, v) : f[x] # h) => b.owner[h] = p.owner[h]
    BY <1>6, <1>7 DEF Copied
  <1>9. \A e \in Cell : e # n /\ (\A x \in Below(p, v) : f[x] # e) =>
          b.vtype[e] = p.vtype[e] /\ b.held[e] = p.held[e]
    BY <1>6 DEF Copied
  <1>10. b.held[c] = "Array" /\ Alive(b, c)
    <2>1. \A x \in Below(p, v) : f[x] # c
      BY <1>5, <1>6 DEF Alive
    <2> QED
      BY <1>1, <1>4, <1>5, <1>8, <1>9, <2>1 DEF Alive
  <1>11. ASSUME NEW h \in Heap
         PROVE  /\ b.owner[h] = Free => s.owner[h] = Free
                /\ b.owner[h] = Uptr <=> h = n \/ (s.owner[h] = Uptr /\ ~(Wraps(s, c) /\ h = m))
    <2>1. CASE \A x \in Below(p, v) : f[x] # h
      BY <1>1, <1>8, <2>1
    <2>2. ASSUME NEW x \in Below(p, v), f[x] = h
          PROVE  /\ b.owner[h] = Free => s.owner[h] = Free
                 /\ b.owner[h] = Uptr <=> h = n \/ (s.owner[h] = Uptr /\ ~(Wraps(s, c) /\ h = m))
      <3>1. b.owner[h] # Uptr /\ b.owner[h] # Free /\ p.owner[h] = Free
        BY <1>6, <2>2, CellNoMark
      <3> QED
        BY <1>1, <3>1, OwnerAssumption
    <2> QED
      BY <2>1, <2>2
  <1>12. Loaded(s, c, m, n, b)
    BY <1>6, <1>10, <1>11 DEF Loaded
  <1>13. Pushed(s, c, m, n, r) /\ Appended(b, c, n, r)
    BY <1>2, <1>12, PushEnd
  <1>14. \A e \in Cell : e # c /\ e # n /\ ~(Wraps(s, c) /\ e = m) /\ (\A x \in Below(p, v) : f[x] # e) =>
           r.vtype[e] = s.vtype[e] /\ r.held[e] = s.held[e]
    BY <1>1, <1>9, <1>13 DEF Appended
  <1>15. Wraps(s, c) => m \in Heap
    BY DEF PushArgs, Fresh
  <1>16. \A e \in Cell \ Heap : e # c => r.vtype[e] = s.vtype[e] /\ r.held[e] = s.held[e]
    BY <1>4, <1>6, <1>14, <1>15
  <1>17. ASSUME NEW h \in Heap, h # c, r.owner[h] = Uptr
         PROVE  r.vtype[h] = s.vtype[h] /\ r.held[h] = s.held[h]
    <2>1. s.owner[h] = Uptr /\ h # n /\ ~(Wraps(s, c) /\ h = m)
      BY <1>13, <1>17 DEF Pushed
    <2>2. \A x \in Below(p, v) : f[x] # h
      BY <1>1, <1>6, <2>1, OwnerAssumption
    <2> QED
      BY <1>14, <1>17, <2>1, <2>2, ArgTmpCell
  <1>18. Loaded(s, c, m, n, copy_from(make_unique(PushReady(s, c, m), n), n, v, f))
    BY <1>12 DEF b, p
  <1> QED
    BY <1>13, <1>16, <1>17, <1>18

-----------------------------------------------------------------------------
(* Between calls no local is left over.                                    *)

Quiet(s) ==
  Tidy(s) /\ (\A h \in Heap : s.owner[h] # Uptr) /\ Empty(s, Tmp) /\ Empty(s, Arg)

\* Below looks at the owners and at the tags of the owners.
LEMMA BelowSame ==
  ASSUME NEW s, NEW a, NEW v, \A h \in Heap : a.owner[h] = s.owner[h],
         \A e \in Heap \cup {v} : a.vtype[e] = s.vtype[e]
  PROVE  Below(a, v) = Below(s, v)
  <1>1. \A S \in SUBSET Heap : Closed(a, v, S) <=> Closed(s, v, S)
    BY DEF Closed
  <1> QED
    BY <1>1 DEF Below

\* What the program can name is alive, and no node of its own choosing.
LEMMA AddressableFacts ==
  ASSUME NEW s, s \in State, NEW c \in Addressable(s)
  PROVE  /\ c \in Cell /\ c # Tmp /\ c # Arg
         /\ Alive(s, c) /\ c \notin Below(s, c) /\ Alive(destruct(s, c), c)
         /\ c \in Heap => s.owner[c] \in Cell
  <1>1. c \in Cell /\ c \notin Below(s, c) /\ Alive(destruct(s, c), c)
    BY AddressableType, NoSelfBelow, AddressableAlive
  <1>2. c # Tmp /\ c # Arg
    BY BelowType, CellAssumption DEF Addressable
  <1>3. ASSUME c \in Heap PROVE s.owner[c] \in Cell
    <2>1. PICK x \in Named : c \in Below(s, x)
      BY <1>3, CellAssumption DEF Addressable
    <2> QED
      BY <2>1, BelowOwner, BelowType, ArgTmpCell
  <1> QED
    BY <1>1, <1>2, <1>3, CellNoMark DEF Alive

\* destruct leaves alive what is not below its target.
LEMMA destructKeeps ==
  ASSUME NEW s \in State, NEW c \in Cell, NEW v \in Cell, Alive(s, v), v \notin Below(s, c)
  PROVE  Alive(destruct(s, c), v)
  BY destructEffect, OwnerAssumption DEF Destructed, Alive

\* A call that destroys its target makes no stack node and touches no other local.
LEMMA destructFrame ==
  ASSUME NEW s \in State, NEW c \in Cell
  PROVE  /\ \A h \in Heap : destruct(s, c).owner[h] = Uptr => s.owner[h] = Uptr
         /\ \A e \in Cell \ Heap : e # c =>
              destruct(s, c).vtype[e] = s.vtype[e] /\ destruct(s, c).held[e] = s.held[e]
  <1>1. Destructed(s, c, destruct(s, c)) /\ Below(s, c) \subseteq Heap
    BY destructEffect, BelowType
  <1> QED
    BY <1>1, OwnerAssumption DEF Destructed

LEMMA move_fromFrame ==
  ASSUME NEW s, Tidy(s), NEW c \in Cell, NEW v \in Cell, Alive(destruct(s, c), v)
  PROVE  /\ \A h \in Heap : move_from(s, c, v).owner[h] = Uptr => s.owner[h] = Uptr
         /\ \A e \in Cell \ Heap : e # c /\ e # v =>
              /\ move_from(s, c, v).vtype[e] = s.vtype[e]
              /\ move_from(s, c, v).held[e] = s.held[e]
         /\ v \notin Heap /\ c # v /\ (s.vtype[v] = "Null" => s.held[v] = "none") =>
              Empty(move_from(s, c, v), v)
  <1> DEFINE a == destruct(s, c)
             r == move_from(s, c, v)
  <1>1. /\ \A h \in Heap : a.owner[h] = Uptr => s.owner[h] = Uptr
        /\ \A e \in Cell \ Heap : e # c => a.vtype[e] = s.vtype[e] /\ a.held[e] = s.held[e]
    BY destructFrame DEF Tidy
  <1>2. CASE c = v
    BY <1>1, <1>2, SelfMove DEF Tidy
  <1>3. CASE c # v
    <2>1. Moved(a, c, v, r)
      BY <1>3, move_fromEffect DEF Tidy
    <2> HIDE DEF a, r
    <2>2. \A h \in Heap : r.owner[h] = Uptr => s.owner[h] = Uptr
      BY <1>1, <2>1, OwnerAssumption, CellNoMark DEF Moved
    <2>3. \A e \in Cell \ Heap : e # c /\ e # v =>
            r.vtype[e] = s.vtype[e] /\ r.held[e] = s.held[e]
      BY <1>1, <2>1 DEF Moved
    <2>4. v \notin Heap /\ (s.vtype[v] = "Null" => s.held[v] = "none") => Empty(r, v)
      BY <1>1, <1>3, <2>1 DEF Moved, Empty
    <2> QED
      BY <2>2, <2>3, <2>4 DEF r
  <1> QED
    BY <1>2, <1>3

\* The move that ends an assignment of a temporary.
LEMMA MoveOfTemporary ==
  ASSUME NEW s, Tidy(s), \A h \in Heap : s.owner[h] # Uptr, Empty(s, Tmp),
         s.vtype[Arg] = "Null" => s.held[Arg] = "none",
         NEW c \in Cell, c # Tmp, c # Arg, Alive(destruct(s, c), c)
  PROVE  Quiet(move_from(s, c, Arg))
  <1>1. Arg \in Cell /\ Arg \notin Heap /\ Tmp \in Cell \ Heap /\ Tmp # Arg
    BY CellAssumption, ArgTmpCell
  <1>2. Alive(destruct(s, c), Arg)
    BY <1>1 DEF Alive
  <1>3. Tidy(move_from(s, c, Arg))
    BY <1>1, <1>2, move_fromTidy
  <1>4. /\ \A h \in Heap : move_from(s, c, Arg).owner[h] # Uptr
        /\ Empty(move_from(s, c, Arg), Tmp) /\ Empty(move_from(s, c, Arg), Arg)
    BY <1>1, <1>2, move_fromFrame DEF Empty
  <1> QED
    BY <1>3, <1>4 DEF Quiet

LEMMA LiteralEffect ==
  ASSUME NEW s, Tidy(s), Empty(s, Arg), NEW l \in Literals
  PROVE  /\ Tidy(Literal(s, l[1], l[2]))
         /\ \A h \in Heap :
              /\ Literal(s, l[1], l[2]).owner[h] = s.owner[h]
              /\ Literal(s, l[1], l[2]).slot[h] = s.slot[h]
         /\ \A e \in Cell : e # Arg =>
              /\ Literal(s, l[1], l[2]).vtype[e] = s.vtype[e]
              /\ Literal(s, l[1], l[2]).held[e] = s.held[e]
         /\ Literal(s, l[1], l[2]).vtype[Arg] = l[1]
         /\ Literal(s, l[1], l[2]).held[Arg] = HeldBy(l[1])
         /\ l[1] \notin Containers
  <1> DEFINE t == l[1]
             k == construct(s, Arg, t, l[2])
             r == SetTag(k, Arg, t)
  <1>1. t \in Types /\ l[2] \in Payloads \cup {NoData} /\ t \notin Containers
    BY DEF Literals, Types, Containers
  <1>2. Arg \in Cell /\ Arg \notin Heap /\ s \in State
    BY CellAssumption, ArgTmpCell DEF Tidy
  <1>3. \A h \in Heap : s.owner[h] # Arg
    BY <1>2, OwnedNone DEF Tidy, Empty, Containers
  <1>4. /\ k.vtype = s.vtype /\ k.slot = s.slot /\ Tidy(k) /\ k \in State
        /\ \A e \in Cell : k.held[e] = IF e = Arg THEN HeldBy(t) ELSE s.held[e]
        /\ \A h \in Heap : k.owner[h] = s.owner[h]
    BY <1>1, <1>2, <1>3, constructEffect, constructTidy DEF Empty, Alive
  <1> HIDE DEF k
  <1>5. Tidy(r)
    BY <1>1, <1>2, <1>4, SetTagTidy DEF Alive
  <1>6. /\ r.held = k.held /\ r.owner = k.owner /\ r.slot = k.slot
        /\ \A e \in Cell : r.vtype[e] = IF e = Arg THEN t ELSE k.vtype[e]
    BY <1>1, <1>2, <1>4, SetTagEffect
  <1>7. r = Literal(s, l[1], l[2])
    BY DEF Literal, k
  <1> HIDE DEF r
  <1> QED
    BY <1>1, <1>2, <1>4, <1>5, <1>6, <1>7

LEMMA InsertKeyEffect ==
  ASSUME NEW s, Tidy(s), NEW c \in Cell, Alive(s, c), s.vtype[c] \in {"Null", "Map"},
         NEW k \in Keys, NEW n, Fresh(s, n), n # c
  PROVE  /\ Tidy(InsertKey(s, c, k, n))
         /\ \A e \in Cell :
              /\ InsertKey(s, c, k, n).vtype[e] = IF e = c THEN "Map" ELSE s.vtype[e]
              /\ InsertKey(s, c, k, n).held[e] = IF e = c THEN "Map" ELSE s.held[e]
         /\ \A h \in Heap :
              /\ InsertKey(s, c, k, n).owner[h] =
                   IF h = n THEN c
                   ELSE IF s.vtype[c] = "Null" /\ s.owner[h] = c THEN Stray ELSE s.owner[h]
              /\ InsertKey(s, c, k, n).slot[h] = IF h = n THEN k ELSE s.slot[h]
  <1> DEFINE q == construct(s, c, "Map", NoData)
             a == IF s.vtype[c] = "Null" THEN SetTag(q, c, "Map") ELSE s
             p == make_unique(a, n)
             r == emplace(p, c, k, n)
  <1>0. n \in Heap /\ s \in State /\ "Map" \in Types /\ HeldBy("Map") = "Map"
    BY DEF Fresh, Tidy, Types, HeldBy
  <1>1. /\ Tidy(a) /\ a \in State /\ Alive(a, c)
        /\ \A e \in Cell :
              /\ a.vtype[e] = IF e = c THEN "Map" ELSE s.vtype[e]
              /\ a.held[e] = IF e = c THEN "Map" ELSE s.held[e]
        /\ \A h \in Heap :
              /\ a.owner[h] = IF s.vtype[c] = "Null" /\ s.owner[h] = c THEN Stray ELSE s.owner[h]
              /\ a.slot[h] = s.slot[h]
    <2>1. CASE s.vtype[c] = "Null"
      <3>1. /\ q.vtype = s.vtype /\ q.slot = s.slot /\ Tidy(q) /\ q \in State
            /\ \A e \in Cell : q.held[e] = IF e = c THEN "Map" ELSE s.held[e]
            /\ \A h \in Heap : q.owner[h] = IF s.owner[h] = c THEN Stray ELSE s.owner[h]
        BY <1>0, <2>1, constructEffect, constructTidy
      <3>2. Alive(q, c)
        BY <3>1, OwnerAssumption DEF Alive
      <3> HIDE DEF q
      <3>3. /\ a.held = q.held /\ a.owner = q.owner /\ a.slot = q.slot /\ Tidy(a)
            /\ \A e \in Cell : a.vtype[e] = IF e = c THEN "Map" ELSE q.vtype[e]
        BY <1>0, <2>1, <3>1, <3>2, SetTagEffect, SetTagTidy
      <3> QED
        BY <2>1, <3>1, <3>2, <3>3 DEF Tidy, Alive
    <2>2. CASE s.vtype[c] = "Map"
      <3>1. s.held[c] = "Map"
        BY <1>0, <2>2 DEF Tidy, Truthful
      <3> QED
        BY <1>0, <2>2, <3>1
    <2> QED
      BY <2>1, <2>2
  <1> HIDE DEF a
  <1>2. /\ Tidy(p) /\ p.vtype = a.vtype /\ p.held = a.held /\ p.slot = a.slot /\ p \in State
        /\ \A h \in Heap : p.owner[h] = IF h = n THEN Uptr ELSE a.owner[h]
    BY <1>0, <1>1, make_uniqueEffect, make_uniqueTidy DEF Tidy
  <1>3. Alive(p, c) /\ p.held[c] = "Map"
    BY <1>0, <1>1, <1>2, OwnerAssumption DEF Alive
  <1> HIDE DEF p
  <1>4. /\ r \in State /\ r.vtype = p.vtype /\ r.held = p.held /\ r.ub = p.ub
        /\ \A h \in Heap :
             /\ r.owner[h] = IF h = n THEN c ELSE p.owner[h]
             /\ r.slot[h] = IF h = n THEN k ELSE p.slot[h]
    BY <1>0, <1>2, <1>3, emplaceEffect
  <1>5. r = InsertKey(s, c, k, n)
    BY DEF InsertKey, p, a
  <1> HIDE DEF r
  <1>6. Tidy(r)
    BY <1>0, <1>2, <1>3, <1>4, AttachTidy DEF Containers
  <1> QED
    BY <1>0, <1>1, <1>2, <1>4, <1>5, <1>6

LEMMA LocalsApart ==
  /\ Tmp \in Cell \ Heap /\ Arg \in Cell \ Heap /\ Tmp # Arg
  BY CellAssumption, ArgTmpCell

LEMMA QuietFacts ==
  ASSUME NEW s, Quiet(s)
  PROVE  /\ Tidy(s) /\ s \in State /\ ~s.ub /\ Empty(s, Tmp) /\ Empty(s, Arg)
         /\ \A h \in Heap : s.owner[h] # Uptr
         /\ \A h \in FreeNodes(s) : Fresh(s, h)
  BY DEF Quiet, Tidy, FreeIsBlank, FreeNodes, Fresh

LEMMA MoveQuiet ==
  ASSUME NEW s, Quiet(s), NEW c \in Addressable(s), NEW v \in Addressable(s),
         Alive(destruct(s, c), v)
  PROVE  Quiet(move_from(s, c, v))
  <1>1. Tidy(move_from(s, c, v))
    BY QuietFacts, AddressableFacts, move_fromTidy
  <1>2. /\ \A h \in Heap : move_from(s, c, v).owner[h] # Uptr
        /\ Empty(move_from(s, c, v), Tmp) /\ Empty(move_from(s, c, v), Arg)
    BY QuietFacts, AddressableFacts, LocalsApart, move_fromFrame DEF Empty
  <1> QED
    BY <1>1, <1>2 DEF Quiet

LEMMA CopyQuiet ==
  ASSUME NEW s, Quiet(s), NEW c \in Addressable(s), NEW v \in Addressable(s),
         NEW f \in CopyMaps(s, c, v), Alive(destruct(s, c), v)
  PROVE  Quiet(copy_from(s, c, v, f))
  <1> DEFINE a == destruct(s, c)
             r == copy_from(s, c, v, f)
  <1>1. c \in Cell /\ v \in Cell /\ c # Tmp /\ c # Arg /\ Alive(a, c) /\ s \in State
    BY QuietFacts, AddressableFacts
  <1>2. Tidy(r) /\ Copied(a, c, v, f, r)
    BY <1>1, QuietFacts, copy_fromTidy, copy_fromEffect
  <1>3. \A x \in Below(a, v) : f[x] \in Heap /\ r.owner[f[x]] # Uptr
    <2> SUFFICES ASSUME NEW x \in Below(a, v) PROVE f[x] \in Heap /\ r.owner[f[x]] # Uptr
      OBVIOUS
    <2>1. f[x] \in Heap
      BY <1>1, CopyMapsFree
    <2>2. CASE x \in Kids(a, v)
      BY <1>1, <1>2, <2>1, <2>2, CellNoMark DEF Copied
    <2>3. CASE x \notin Kids(a, v)
      <3>1. a.owner[x] \in Below(a, v) \cup {v} /\ a.vtype[a.owner[x]] \in Containers
        BY BelowOwner
      <3>2. a.owner[x] \in Below(a, v)
        BY <2>3, <3>1, BelowType DEF Kids
      <3>3. f[a.owner[x]] \in Cell
        BY <1>1, <3>2, CopyMapsFree, ArgTmpCell
      <3> QED
        BY <1>2, <2>1, <2>3, <3>3, CellNoMark DEF Copied
    <2> QED
      BY <2>2, <2>3
  <1>4. /\ \A h \in Heap : a.owner[h] # Uptr
        /\ Empty(a, Tmp) /\ Empty(a, Arg)
    BY <1>1, QuietFacts, destructFrame, LocalsApart DEF Empty
  <1> HIDE DEF a, r
  <1>5. ASSUME NEW h \in Heap PROVE r.owner[h] # Uptr
    <2>1. CASE \A x \in Below(a, v) : f[x] # h
      BY <1>2, <1>4, <2>1, OwnerAssumption DEF Copied
    <2> QED
      BY <1>3, <2>1
  <1>6. Empty(r, Tmp) /\ Empty(r, Arg)
    BY <1>1, <1>2, <1>3, <1>4, LocalsApart DEF Copied, Empty
  <1>7. Quiet(r)
    BY <1>2, <1>5, <1>6 DEF Quiet
  <1> QED
    BY <1>7 DEF r

\* The nodes an operation picks will do for a push_back.
LEMMA PushArgsHold ==
  ASSUME NEW s, Quiet(s), NEW c \in Addressable(s),
         NEW m \in FreeNodes(s), NEW n \in FreeNodes(s),
         (m = n) <=> s.vtype[c] \in {"Null", "Array"}
  PROVE  PushArgs(s, c, m, n)
  <1>1. m # c /\ n # c
    BY QuietFacts, AddressableFacts, CellNoMark DEF FreeNodes
  <1> QED
    BY <1>1, QuietFacts, AddressableFacts DEF PushArgs, Wraps

\* A free node is no operand of a call.
LEMMA OperandNotFree ==
  ASSUME NEW s, Quiet(s), NEW v \in Addressable(s), NEW n \in FreeNodes(s) PROVE v # n
  BY QuietFacts, AddressableFacts, CellNoMark DEF FreeNodes

LEMMA PushedQuiet ==
  ASSUME NEW s, Quiet(s), NEW c, NEW m, NEW n, NEW r, Pushed(s, c, m, n, r),
         Empty(r, Tmp), Empty(r, Arg)
  PROVE  Quiet(r)
  BY QuietFacts DEF Pushed, Quiet

LEMMA PushMovedQuiet ==
  ASSUME NEW s, Quiet(s), NEW c \in Addressable(s), NEW v \in Addressable(s),
         NEW m \in FreeNodes(s), NEW n \in FreeNodes(s),
         (m = n) <=> s.vtype[c] \in {"Null", "Array"},
         c = v => ~PushMoved(s, c, v, m, n).ub
  PROVE  Quiet(PushMoved(s, c, v, m, n))
  <1> DEFINE r == PushMoved(s, c, v, m, n)
  <1>1. PushArgs(s, c, m, n)
    BY PushArgsHold
  <1>2. v # n /\ v # m /\ v \in Cell /\ v # Tmp /\ v # Arg /\ Alive(s, v) /\ c # Tmp /\ c # Arg
    BY QuietFacts, AddressableFacts, OperandNotFree
  <1>3. /\ Pushed(s, c, m, n, r)
        /\ \A e \in Cell \ Heap : e # c /\ e # v => r.vtype[e] = s.vtype[e] /\ r.held[e] = s.held[e]
    BY <1>1, <1>2, PushMovedEffect
  <1> HIDE DEF r
  <1>4. Empty(r, Tmp) /\ Empty(r, Arg)
    BY <1>2, <1>3, QuietFacts, LocalsApart DEF Empty
  <1> QED
    BY <1>3, <1>4, PushedQuiet DEF r

LEMMA PushCopiedQuiet ==
  ASSUME NEW s, Quiet(s), NEW c \in Addressable(s), NEW v \in Addressable(s),
         NEW m \in FreeNodes(s), NEW n \in FreeNodes(s),
         (m = n) <=> s.vtype[c] \in {"Null", "Array"},
         NEW f \in PushMaps(s, c, v, m, n)
  PROVE  Quiet(PushCopied(s, c, v, m, n, f))
  <1> DEFINE r == PushCopied(s, c, v, m, n, f)
  <1>1. PushArgs(s, c, m, n)
    BY PushArgsHold
  <1>2. v \in Cell /\ Alive(s, v) /\ c # Tmp /\ c # Arg
    BY QuietFacts, AddressableFacts
  <1>3. /\ Pushed(s, c, m, n, r)
        /\ \A e \in Cell \ Heap : e # c => r.vtype[e] = s.vtype[e] /\ r.held[e] = s.held[e]
    BY <1>1, <1>2, PushCopiedEffect
  <1> HIDE DEF r
  <1>4. Empty(r, Tmp) /\ Empty(r, Arg)
    BY <1>2, <1>3, QuietFacts, LocalsApart DEF Empty
  <1> QED
    BY <1>3, <1>4, PushedQuiet DEF r

\* swap never crashes: each of its moves goes to a Null.
LEMMA SwapQuiet ==
  ASSUME NEW s, Quiet(s), NEW c \in Addressable(s), NEW v \in Addressable(s)
  PROVE  Quiet(swapped(s, c, v))
  <1> DEFINE s1 == move_from(s, Tmp, v)
             s2 == move_from(s1, v, c)
             s3 == move_from(s2, c, Tmp)
  <1>0. /\ c \in Cell /\ v \in Cell /\ c # Tmp /\ v # Tmp /\ c # Arg /\ v # Arg
        /\ Alive(s, c) /\ Alive(s, v) /\ Tmp \in Cell \ Heap
    BY QuietFacts, AddressableFacts, LocalsApart
  <1>1. Moved(s, Tmp, v, s1) /\ Tidy(s1)
    BY <1>0, QuietFacts, MoveToNull DEF Empty, Alive
  <1> HIDE DEF s1
  <1>2. /\ s1.vtype[v] = "Null" /\ Alive(s1, c) /\ Alive(s1, v)
        /\ \A h \in Heap : s1.owner[h] # Uptr
        /\ Empty(s1, Arg) /\ (s1.vtype[Tmp] = "Null" => s1.held[Tmp] = "none")
    <2>1. s1.vtype[Tmp] = s.vtype[v] /\ s1.vtype[v] = "Null"
      BY <1>0, <1>1 DEF Moved
    <2>2. s1.vtype[Tmp] = "Null" => s1.held[Tmp] = "none"
      BY <1>0, <1>1, <2>1, QuietFacts DEF Moved, Empty
    <2>3. Empty(s1, Arg)
      BY <1>0, <1>1, QuietFacts, LocalsApart DEF Moved, Empty
    <2>4. \A h \in Heap : s1.owner[h] # Uptr /\ (s.owner[h] # Free => s1.owner[h] # Free)
      BY <1>0, <1>1, QuietFacts, CellNoMark, OwnerAssumption DEF Moved
    <2> QED
      BY <1>0, <2>1, <2>2, <2>3, <2>4 DEF Alive
  <1>3. /\ Tidy(s2) /\ Alive(s2, c) /\ s2.vtype[c] = "Null"
        /\ \A h \in Heap : s2.owner[h] # Uptr
        /\ Empty(s2, Arg) /\ (s2.vtype[Tmp] = "Null" => s2.held[Tmp] = "none")
    <2>1. CASE c = v
      <3>1. destruct(s1, c) = s1
        BY <1>2, <2>1 DEF destruct
      <3>2. s2 = s1
        BY <1>0, <1>1, <1>2, <2>1, <3>1, SelfMove DEF Tidy
      <3> QED
        BY <1>1, <1>2, <2>1, <3>2
    <2>2. CASE c # v
      <3>1. Moved(s1, v, c, s2) /\ Tidy(s2)
        BY <1>0, <1>1, <1>2, <2>2, MoveToNull
      <3> HIDE DEF s2
      <3>2. s2.vtype[c] = "Null" /\ Empty(s2, Arg) /\ (s2.vtype[Tmp] = "Null" => s2.held[Tmp] = "none")
        BY <1>0, <1>2, <3>1, LocalsApart DEF Moved, Empty
      <3>3. \A h \in Heap : s2.owner[h] # Uptr /\ (s1.owner[h] # Free => s2.owner[h] # Free)
        BY <1>0, <1>2, <3>1, CellNoMark, OwnerAssumption DEF Moved
      <3> QED
        BY <1>0, <1>2, <3>1, <3>2, <3>3 DEF Alive
    <2> QED
      BY <2>1, <2>2
  <1> HIDE DEF s2
  <1>4. Moved(s2, c, Tmp, s3) /\ Tidy(s3)
    BY <1>0, <1>3, MoveToNull DEF Alive
  <1> HIDE DEF s3
  <1>5. Empty(s3, Tmp) /\ Empty(s3, Arg)
    BY <1>0, <1>3, <1>4, LocalsApart DEF Moved, Empty
  <1>6. \A h \in Heap : s3.owner[h] # Uptr
    BY <1>0, <1>3, <1>4, CellNoMark, OwnerAssumption DEF Moved
  <1>7. s3 = swapped(s, c, v)
    BY <1>5 DEF swapped, destruct, Empty, s3, s2, s1
  <1> QED
    BY <1>4, <1>5, <1>6, <1>7 DEF Quiet

\* The literal touches the local Arg alone.
LEMMA LiteralQuiet ==
  ASSUME NEW s, Quiet(s), NEW l \in Literals, NEW c \in Addressable(s),
         NEW a, a = Literal(s, l[1], l[2])
  PROVE  /\ Tidy(a) /\ Empty(a, Tmp) /\ (\A h \in Heap : a.owner[h] = s.owner[h])
         /\ a.vtype[Arg] = "Null" => a.held[Arg] = "none"
         /\ \A e \in Cell : e # Arg => a.vtype[e] = s.vtype[e] /\ a.held[e] = s.held[e]
         /\ Alive(a, c) /\ Alive(destruct(a, c), c)
         /\ a.owner = s.owner
  <1>1. /\ Tidy(a) /\ (\A h \in Heap : a.owner[h] = s.owner[h])
        /\ \A e \in Cell : e # Arg => a.vtype[e] = s.vtype[e] /\ a.held[e] = s.held[e]
        /\ a.vtype[Arg] = l[1] /\ a.held[Arg] = HeldBy(l[1])
    BY QuietFacts, LiteralEffect
  <1>2. a.vtype[Arg] = "Null" => a.held[Arg] = "none"
    BY <1>1 DEF HeldBy
  <1>3. Empty(a, Tmp)
    BY <1>1, QuietFacts, LocalsApart DEF Empty
  <1>4. c \in Cell /\ c # Arg /\ Alive(s, c) /\ c \notin Below(s, c)
    BY QuietFacts, AddressableFacts
  <1>5. Below(a, c) = Below(s, c)
    <2>1. \A e \in Heap \cup {c} : a.vtype[e] = s.vtype[e]
      BY <1>1, <1>4, LocalsApart, ArgTmpCell
    <2> QED
      BY <1>1, <2>1, BelowSame
  <1>6. Alive(a, c) /\ Alive(destruct(a, c), c)
    BY <1>1, <1>4, <1>5, destructAlive DEF Alive, Tidy
  <1>7. a.owner = s.owner
    BY <1>1, QuietFacts DEF Tidy, State
  <1> QED
    BY <1>1, <1>2, <1>3, <1>6, <1>7

LEMMA AssignNewQuiet ==
  ASSUME NEW s, Quiet(s), NEW c \in Addressable(s), NEW l \in Literals
  PROVE  Quiet(move_from(Literal(s, l[1], l[2]), c, Arg))
  <1> DEFINE a == Literal(s, l[1], l[2])
  <1>1. /\ Tidy(a) /\ Empty(a, Tmp) /\ (\A h \in Heap : a.owner[h] = s.owner[h])
        /\ a.vtype[Arg] = "Null" => a.held[Arg] = "none"
        /\ Alive(destruct(a, c), c)
    BY LiteralQuiet
  <1> HIDE DEF a
  <1>2. c \in Cell /\ c # Tmp /\ c # Arg
    BY QuietFacts, AddressableFacts
  <1>3. \A h \in Heap : a.owner[h] # Uptr
    BY <1>1, QuietFacts
  <1> QED
    BY <1>1, <1>2, <1>3, MoveOfTemporary DEF a

LEMMA PushBackNewQuiet ==
  ASSUME NEW s, Quiet(s), NEW c \in Addressable(s), NEW l \in Literals,
         NEW m \in FreeNodes(s), NEW n \in FreeNodes(s),
         (m = n) <=> s.vtype[c] \in {"Null", "Array"}
  PROVE  Quiet(PushMoved(Literal(s, l[1], l[2]), c, Arg, m, n))
  <1> DEFINE a == Literal(s, l[1], l[2])
             r == PushMoved(a, c, Arg, m, n)
  <1>1. /\ Tidy(a) /\ Empty(a, Tmp) /\ (\A h \in Heap : a.owner[h] = s.owner[h])
        /\ a.vtype[Arg] = "Null" => a.held[Arg] = "none"
        /\ \A e \in Cell : e # Arg => a.vtype[e] = s.vtype[e] /\ a.held[e] = s.held[e]
        /\ Alive(a, c)
    BY LiteralQuiet
  <1> HIDE DEF a
  <1>2. c \in Cell /\ c # Tmp /\ c # Arg /\ PushArgs(s, c, m, n)
    BY QuietFacts, AddressableFacts, PushArgsHold
  <1>3. \A h \in Heap : Fresh(s, h) => Fresh(a, h)
    BY <1>1, LocalsApart, ArgTmpCell DEF Fresh
  <1>4. Wraps(a, c) <=> Wraps(s, c)
    BY <1>1, <1>2 DEF Wraps
  <1>5. PushArgs(a, c, m, n)
    BY <1>1, <1>2, <1>3, <1>4 DEF PushArgs, Fresh
  <1>6. Arg # n /\ ~(Wraps(a, c) /\ Arg = m) /\ Alive(a, Arg)
    BY <1>2, <1>4, LocalsApart DEF PushArgs, Fresh, Alive
  <1>7. /\ Pushed(a, c, m, n, r)
        /\ r.vtype[Arg] = "Null" /\ r.held[Arg] = "none"
        /\ r.vtype[Tmp] = a.vtype[Tmp] /\ r.held[Tmp] = a.held[Tmp]
    BY <1>1, <1>2, <1>5, <1>6, LocalsApart, PushMovedEffect
  <1> HIDE DEF r
  <1>8. Tidy(r) /\ \A h \in Heap : r.owner[h] # Uptr
    BY <1>1, <1>7, QuietFacts DEF Pushed
  <1>9. Quiet(r)
    BY <1>1, <1>7, <1>8 DEF Quiet, Empty
  <1> QED
    BY <1>9 DEF r, a

LEMMA IndexKeyQuiet ==
  ASSUME NEW s, Quiet(s), NEW c \in Addressable(s), NEW k \in Keys, NEW n \in FreeNodes(s),
         s.vtype[c] \in {"Null", "Map"}
  PROVE  Quiet(InsertKey(s, c, k, n))
  <1> DEFINE r == InsertKey(s, c, k, n)
  <1>1. c \in Cell /\ c # Tmp /\ c # Arg /\ Alive(s, c) /\ n # c /\ Fresh(s, n)
    BY QuietFacts, AddressableFacts, OperandNotFree
  <1>2. /\ Tidy(r)
        /\ \A e \in Cell : e # c => r.vtype[e] = s.vtype[e] /\ r.held[e] = s.held[e]
        /\ \A h \in Heap : r.owner[h] \in {c, Stray, s.owner[h]}
    BY <1>1, QuietFacts, InsertKeyEffect
  <1> HIDE DEF r
  <1>3. \A h \in Heap : r.owner[h] # Uptr
    BY <1>1, <1>2, QuietFacts, CellNoMark, OwnerAssumption
  <1>4. Empty(r, Tmp) /\ Empty(r, Arg)
    BY <1>1, <1>2, QuietFacts, LocalsApart DEF Empty
  <1>5. Quiet(r)
    BY <1>2, <1>3, <1>4 DEF Quiet
  <1> QED
    BY <1>5 DEF r

\* A change of leaves or of positions only.
LEMMA DataQuiet ==
  ASSUME NEW s, Quiet(s), NEW a \in State, a.vtype = s.vtype, a.held = s.held,
         a.owner = s.owner, a.ub = s.ub
  PROVE  Quiet(a)
  BY TruthfulSame DEF Quiet, Tidy, Owned, FreeIsBlank, Alive, Empty

LEMMA FreeNodeFrame ==
  ASSUME NEW s \in State, NEW n \in Heap
  PROVE  /\ \A h \in Heap : FreeNode(s, n).owner[h] = Uptr => s.owner[h] = Uptr /\ h # n
         /\ \A e \in Cell \ Heap :
              /\ FreeNode(s, n).vtype[e] = s.vtype[e]
              /\ FreeNode(s, n).held[e] = s.held[e]
  <1> DEFINE a == destruct(s, n)
             r == Release(a, {n})
  <1>1. /\ a \in State
        /\ \A h \in Heap : a.owner[h] = Uptr => s.owner[h] = Uptr
        /\ \A e \in Cell \ Heap : a.vtype[e] = s.vtype[e] /\ a.held[e] = s.held[e]
    BY destructFrame, destructType, ArgTmpCell
  <1>2. /\ \A e \in Cell :
             /\ r.vtype[e] = IF e \in {n} THEN "Null" ELSE a.vtype[e]
             /\ r.held[e]  = IF e \in {n} THEN "none" ELSE a.held[e]
        /\ \A h \in Heap : r.owner[h] = IF h \in {n} THEN Free
                                        ELSE IF a.owner[h] \in {n} THEN Stray ELSE a.owner[h]
    BY <1>1, ReleaseEffect
  <1> HIDE DEF r, a
  <1>3. r = FreeNode(s, n)
    BY DEF FreeNode, r, a
  <1>4. \A h \in Heap : r.owner[h] = Uptr => s.owner[h] = Uptr /\ h # n
    BY <1>1, <1>2, OwnerAssumption
  <1>5. \A e \in Cell \ Heap : r.vtype[e] = s.vtype[e] /\ r.held[e] = s.held[e]
    BY <1>1, <1>2
  <1> QED
    BY <1>3, <1>4, <1>5

LEMMA EraseQuiet ==
  ASSUME NEW s, Quiet(s), NEW c \in Cell, NEW x \in Heap PROVE Quiet(Erase(s, c, x))
  <1> DEFINE a == FreeNode(s, x)
             r == Erase(s, c, x)
  <1>1. Tidy(a) /\ a \in State
    BY QuietFacts, FreeNodeTidy DEF Tidy
  <1>2. /\ \A h \in Heap : a.owner[h] # Uptr
        /\ Empty(a, Tmp) /\ Empty(a, Arg)
    BY QuietFacts, FreeNodeFrame, LocalsApart DEF Empty
  <1>3. Quiet(a)
    BY <1>1, <1>2 DEF Quiet
  <1>4. r \in State
    BY QuietFacts, EraseType
  <1>5. /\ r.vtype = a.vtype /\ r.held = a.held /\ r.owner = a.owner /\ r.ub = a.ub
    <2>1. CASE s.vtype[c] = "Map"
      BY <2>1 DEF Erase
    <2>2. CASE s.vtype[c] # "Map"
      <3> HIDE DEF a
      <3>1. r = [a EXCEPT !.slot = [h \in Heap |->
                   IF a.owner[h] = c /\ a.slot[h] > s.slot[x] THEN a.slot[h] - 1 ELSE a.slot[h]]]
        BY <2>2 DEF Erase, a
      <3> HIDE DEF r
      <3> QED
        BY <1>1, <3>1 DEF State
    <2> QED
      BY <2>1, <2>2
  <1> HIDE DEF r, a
  <1>6. Quiet(r)
    BY <1>3, <1>4, <1>5, DataQuiet
  <1> QED
    BY <1>6 DEF r

LEMMA destructQuiet ==
  ASSUME NEW s, Quiet(s), NEW c \in Addressable(s) PROVE Quiet(destruct(s, c))
  <1>1. Tidy(destruct(s, c))
    BY QuietFacts, AddressableFacts, destructTidy
  <1>2. /\ \A h \in Heap : destruct(s, c).owner[h] # Uptr
        /\ Empty(destruct(s, c), Tmp) /\ Empty(destruct(s, c), Arg)
    BY QuietFacts, AddressableFacts, destructFrame, LocalsApart DEF Empty
  <1> QED
    BY <1>1, <1>2 DEF Quiet

LEMMA LeaveScopeQuiet ==
  ASSUME NEW s, Quiet(s), NEW x \in Named PROVE Quiet(construct(destruct(s, x), x, "Null", NoData))
  <1> DEFINE a == destruct(s, x)
             r == construct(a, x, "Null", NoData)
  <1>1. x \in Addressable(s)
    BY DEF Addressable
  <1>2. Quiet(a) /\ Alive(a, x) /\ a.vtype[x] = "Null" /\ x \in Cell /\ x # Tmp /\ x # Arg
    BY <1>1, QuietFacts, destructQuiet, destructNull, AddressableFacts
  <1> HIDE DEF a
  <1>3. /\ Tidy(r) /\ r.vtype = a.vtype
        /\ \A e \in Cell : e # x => r.held[e] = a.held[e]
        /\ \A h \in Heap : r.owner[h] = IF a.owner[h] = x THEN Stray ELSE a.owner[h]
    BY <1>2, QuietFacts, constructEffect, constructTidy, TagsType DEF Types
  <1> HIDE DEF r
  <1>4. Quiet(r)
    BY <1>2, <1>3, QuietFacts, LocalsApart, OwnerAssumption DEF Quiet, Empty
  <1> QED
    BY <1>4 DEF r, a

LEMMA IndexKeyFailsQuiet ==
  ASSUME NEW s, Quiet(s), NEW c \in Addressable(s), s.vtype[c] = "Null"
  PROVE  Quiet(SetTag(construct(s, c, "Map", NoData), c, "Map"))
  <1> DEFINE k == construct(s, c, "Map", NoData)
             r == SetTag(k, c, "Map")
  <1>1. c \in Cell /\ c # Tmp /\ c # Arg /\ Alive(s, c) /\ "Map" \in Types /\ HeldBy("Map") = "Map"
    BY QuietFacts, AddressableFacts, TagsType DEF HeldBy
  <1>2. /\ Tidy(k) /\ k.vtype = s.vtype /\ k \in State
        /\ \A e \in Cell : k.held[e] = IF e = c THEN "Map" ELSE s.held[e]
        /\ \A h \in Heap : k.owner[h] = IF s.owner[h] = c THEN Stray ELSE s.owner[h]
    BY <1>1, QuietFacts, constructEffect, constructTidy, TagsType
  <1>3. Alive(k, c)
    BY <1>1, <1>2, OwnerAssumption DEF Alive
  <1> HIDE DEF k
  <1>4. /\ Tidy(r) /\ r.held = k.held /\ r.owner = k.owner
        /\ \A e \in Cell : r.vtype[e] = IF e = c THEN "Map" ELSE k.vtype[e]
    BY <1>1, <1>2, <1>3, SetTagEffect, SetTagTidy
  <1> HIDE DEF r
  <1>5. Quiet(r)
    BY <1>1, <1>2, <1>4, QuietFacts, LocalsApart, OwnerAssumption DEF Quiet, Empty
  <1> QED
    BY <1>5 DEF r, k

LEMMA PushReadyQuiet ==
  ASSUME NEW s, Quiet(s), NEW c \in Addressable(s), NEW m, Wraps(s, c) => m \in FreeNodes(s)
  PROVE  Quiet(PushReady(s, c, m))
  <1> DEFINE r == PushReady(s, c, m)
  <1>1. /\ c \in Cell /\ c # Tmp /\ c # Arg /\ Alive(s, c)
        /\ Wraps(s, c) => m # c /\ m \in Heap /\ Fresh(s, m)
    BY QuietFacts, AddressableFacts, OperandNotFree DEF FreeNodes
  <1>2. Readied(s, c, m, r)
    BY <1>1, QuietFacts, PushReadyEffect
  <1> HIDE DEF r
  <1>3. Tidy(r) /\ \A h \in Heap : r.owner[h] # Uptr
    BY <1>2, QuietFacts DEF Readied
  <1>4. Empty(r, Tmp) /\ Empty(r, Arg)
    BY <1>1, <1>2, QuietFacts, LocalsApart DEF Readied, Empty
  <1>5. Quiet(r)
    BY <1>3, <1>4 DEF Quiet
  <1> QED
    BY <1>5 DEF r

LEMMA PushBackFailsQuiet ==
  ASSUME Quiet(st), NEW c \in Addressable(st), PushBackFails(c)
  PROVE  (st' = WrapFailed(st, c) /\ Wraps(st, c)) \/ Quiet(st')
  <1>1. CASE st.vtype[c] = "Null" /\ st' = OpenArray(st, c)
    <2>1. st' = PushReady(st, c, c) /\ ~Wraps(st, c)
      BY <1>1 DEF PushReady, Wraps
    <2> QED
      BY <2>1, PushReadyQuiet
  <1>2. ASSUME Wraps(st, c), NEW m \in FreeNodes(st), st' = WrapInArray(st, c, m)
        PROVE  Quiet(st')
    <2>1. st' = PushReady(st, c, m)
      BY <1>2 DEF PushReady, Wraps
    <2> QED
      BY <2>1, PushReadyQuiet
  <1> QED
    BY <1>1, <1>2 DEF PushBackFails, Wraps

LEMMA WrapFailedQuiet ==
  ASSUME NEW s, Quiet(s), NEW c \in Addressable(s), s.vtype[c] # "Null"
  PROVE  Quiet(WrapFailed(s, c))
  <1> DEFINE s1 == move_from(s, Tmp, c)
             k == construct(s1, c, "Array", NoData)
             r == destruct(k, Tmp)
  <1>1. c \in Cell /\ c # Tmp /\ c # Arg /\ Alive(s, c) /\ Tmp \in Cell
    BY QuietFacts, AddressableFacts, LocalsApart
  <1>2. Moved(s, Tmp, c, s1) /\ Tidy(s1)
    BY <1>1, QuietFacts, LocalsApart, MoveToNull DEF Empty, Alive
  <1> HIDE DEF s1
  <1>3. /\ s1.vtype[c] = "Null" /\ Alive(s1, c) /\ s1.vtype[Tmp] # "Null"
        /\ Empty(s1, Arg) /\ s1 \in State
        /\ \A h \in Heap : s1.owner[h] # Uptr
    BY <1>1, <1>2, QuietFacts, LocalsApart, OwnerAssumption, CellNoMark DEF Moved, Empty, Alive
  <1>4. /\ Tidy(k) /\ k.vtype = s1.vtype /\ k \in State
        /\ \A e \in Cell : e # c => k.held[e] = s1.held[e]
        /\ \A h \in Heap : k.owner[h] = IF s1.owner[h] = c THEN Stray ELSE s1.owner[h]
    BY <1>1, <1>2, <1>3, constructEffect, constructTidy, TagsType
  <1> HIDE DEF k
  <1>5. k.vtype[Tmp] # "Null" /\ Empty(k, Arg) /\ \A h \in Heap : k.owner[h] # Uptr
    BY <1>1, <1>3, <1>4, LocalsApart, OwnerAssumption DEF Empty
  <1>6. Tidy(r) /\ Destructed(k, Tmp, r)
    BY <1>1, <1>4, destructTidy, destructEffect
  <1>7. Empty(r, Arg) /\ \A h \in Heap : r.owner[h] # Uptr
    BY <1>1, <1>4, <1>5, destructFrame, LocalsApart DEF Empty
  <1> HIDE DEF r
  <1>8. Empty(r, Tmp)
    BY <1>1, <1>5, <1>6 DEF Destructed, Empty
  <1>9. r = WrapFailed(s, c)
    BY DEF WrapFailed, r, k, s1
  <1> QED
    BY <1>6, <1>7, <1>8, <1>9 DEF Quiet

LEMMA PushFailedQuiet ==
  ASSUME NEW s, Quiet(s), NEW c \in Addressable(s), NEW v \in Addressable(s),
         NEW m \in FreeNodes(s), NEW n \in FreeNodes(s),
         (m = n) <=> s.vtype[c] \in {"Null", "Array"}
  PROVE  Quiet(PushFailed(s, c, v, m, n))
  <1> DEFINE p == make_unique(PushReady(s, c, m), n)
             b == move_from(p, n, v)
             r == FreeNode(b, n)
  <1>1. PushArgs(s, c, m, n) /\ n \in Heap /\ n \in Cell /\ m \in Heap
    BY PushArgsHold, ArgTmpCell DEF FreeNodes
  <1>2. /\ v # n /\ v \in Cell /\ v # Tmp /\ v # Arg /\ Alive(s, v)
        /\ c \in Cell /\ c # Tmp /\ c # Arg
    BY QuietFacts, AddressableFacts, OperandNotFree
  <1>3. /\ Tidy(p) /\ p.vtype[n] = "Null" /\ p.held[n] = "none" /\ p.owner[n] = Uptr
        /\ \A e \in Cell : e # c /\ ~(Wraps(s, c) /\ e = m) =>
             p.vtype[e] = s.vtype[e] /\ p.held[e] = s.held[e]
        /\ \A h \in Heap :
             /\ p.owner[h] = Free <=> s.owner[h] = Free /\ h # n /\ ~(Wraps(s, c) /\ h = m)
             /\ p.owner[h] = Uptr <=> h = n \/ (s.owner[h] = Uptr /\ ~(Wraps(s, c) /\ h = m))
    BY <1>1, PushNode
  <1> HIDE DEF p
  <1>4. Alive(p, v) /\ Alive(p, n)
    BY <1>2, <1>3, OwnerAssumption DEF Alive
  <1>5. Moved(p, n, v, b) /\ Tidy(b) /\ b \in State
    BY <1>1, <1>2, <1>3, <1>4, MoveToNull DEF Tidy
  <1> HIDE DEF b
  <1>6. \A h \in Heap : b.owner[h] = Uptr => h = n
    BY <1>1, <1>3, <1>5, QuietFacts, OwnerAssumption, CellNoMark DEF Moved
  <1>7. Empty(b, Tmp) /\ Empty(b, Arg)
    <2>1. Empty(p, Tmp) /\ Empty(p, Arg)
      BY <1>1, <1>2, <1>3, QuietFacts, LocalsApart DEF Empty
    <2> QED
      BY <1>1, <1>2, <1>5, <2>1, LocalsApart DEF Moved, Empty
  <1>8. Tidy(r)
    BY <1>1, <1>5, FreeNodeTidy
  <1>9. \A h \in Heap : r.owner[h] # Uptr
    BY <1>1, <1>5, <1>6, FreeNodeFrame
  <1>10. Empty(r, Tmp) /\ Empty(r, Arg)
    BY <1>1, <1>5, <1>7, FreeNodeFrame, LocalsApart DEF Empty
  <1> HIDE DEF r
  <1>11. r = PushFailed(s, c, v, m, n)
    BY DEF PushFailed, r, b, p
  <1> QED
    BY <1>8, <1>9, <1>10, <1>11 DEF Quiet

\* A copy into a Null leaves the stack alone.
LEMMA CopyFrame ==
  ASSUME NEW s, Tidy(s), NEW c \in Cell, NEW v \in Cell, NEW f \in CopyMaps(s, c, v),
         s.vtype[c] = "Null", Alive(s, c), Alive(s, v), NEW r, r = copy_from(s, c, v, f)
  PROVE  /\ \A h \in Heap : r.owner[h] = Uptr => s.owner[h] = Uptr
         /\ \A e \in Cell \ Heap : e # c => r.vtype[e] = s.vtype[e] /\ r.held[e] = s.held[e]
  <1>1. /\ Copied(s, c, v, f, r)
        /\ \A x \in Below(s, v) : f[x] \in Heap /\ r.owner[f[x]] \in Cell
    BY CopyToNull
  <1>2. ASSUME NEW h \in Heap, r.owner[h] = Uptr PROVE s.owner[h] = Uptr
    <2>1. \A x \in Below(s, v) : f[x] # h
      BY <1>1, <1>2, CellNoMark
    <2> QED
      BY <1>1, <1>2, <2>1, OwnerAssumption DEF Copied
  <1>3. \A e \in Cell \ Heap : e # c => r.vtype[e] = s.vtype[e] /\ r.held[e] = s.held[e]
    BY <1>1 DEF Copied
  <1> QED
    BY <1>2, <1>3

LEMMA ListOfOneQuiet ==
  ASSUME NEW s, Quiet(s), NEW c \in Named, NEW x \in Addressable(s), NEW f \in CopyMaps(s, Arg, x)
  PROVE  Quiet(move_from(copy_from(s, Arg, x, f), c, Arg))
  <1> DEFINE q == copy_from(s, Arg, x, f)
  <1>1. x \in Cell /\ Alive(s, x) /\ Arg \in Cell /\ Alive(s, Arg)
    BY QuietFacts, AddressableFacts, LocalsApart DEF Alive
  <1>2. /\ Copied(s, Arg, x, f, q) /\ Tidy(q)
        /\ \A h \in Heap : q.owner[h] = Uptr => s.owner[h] = Uptr
        /\ Empty(q, Tmp)
    BY <1>1, QuietFacts, LocalsApart, CopyToNull, CopyFrame DEF Empty
  <1> HIDE DEF q
  <1>3. q.vtype[Arg] = "Null" => q.held[Arg] = "none"
    BY <1>2, QuietFacts DEF Copied, Empty
  <1>4. c \in Cell /\ c # Tmp /\ c # Arg /\ Alive(destruct(q, c), c)
    BY CellAssumption, ArgTmpCell DEF Alive
  <1>5. \A h \in Heap : q.owner[h] # Uptr
    BY <1>2, QuietFacts
  <1> QED
    BY <1>2, <1>3, <1>4, <1>5, MoveOfTemporary DEF q

LEMMA ListOfTwoQuiet ==
  ASSUME NEW s, Quiet(s), NEW c \in Named, NEW x \in Addressable(s), NEW y \in Addressable(s),
         NEW m \in FreeNodes(s), NEW n \in FreeNodes(s), m # n,
         NEW f \in PushMaps(make_unique(s, n), Arg, x, m, m),
         NEW a, a = PushCopied(make_unique(s, n), Arg, x, m, m, f),
         NEW g \in PushMaps(a, Arg, y, n, n)
  PROVE  Quiet(move_from(PushCopied(a, Arg, y, n, n, g), c, Arg))
  <1> DEFINE p == make_unique(s, n)
             b == PushCopied(a, Arg, y, n, n, g)
  <1>1. /\ m \in Heap /\ n \in Heap /\ Fresh(s, m) /\ Fresh(s, n) /\ Arg \in Cell /\ Arg \notin Heap
        /\ x \in Cell /\ y \in Cell /\ x # n /\ y # n /\ Alive(s, x) /\ Alive(s, y)
    BY QuietFacts, AddressableFacts, OperandNotFree, LocalsApart DEF FreeNodes
  <1>2. /\ Tidy(p) /\ p.vtype = s.vtype /\ p.held = s.held
        /\ \A h \in Heap : p.owner[h] = IF h = n THEN Uptr ELSE s.owner[h]
    BY <1>1, QuietFacts, make_uniqueEffect, make_uniqueTidy
  <1>3. f \in PushMaps(p, Arg, x, m, m) /\ a = PushCopied(p, Arg, x, m, m, f)
    OBVIOUS
  <1> HIDE DEF p
  <1>4. p.vtype[Arg] = "Null" /\ Empty(p, Tmp)
    BY <1>2, QuietFacts DEF Empty
  <1>5. PushArgs(p, Arg, m, m)
    BY <1>1, <1>2, <1>4, LocalsApart DEF PushArgs, Wraps, Fresh, Alive
  <1>6. Alive(p, x) /\ Alive(p, y)
    BY <1>1, <1>2 DEF Alive
  <1>7. /\ Pushed(p, Arg, m, m, a)
        /\ \A e \in Cell \ Heap : e # Arg => a.vtype[e] = p.vtype[e] /\ a.held[e] = p.held[e]
        /\ \A h \in Heap : h # Arg /\ a.owner[h] = Uptr =>
             a.vtype[h] = p.vtype[h] /\ a.held[h] = p.held[h]
    BY <1>1, <1>3, <1>5, <1>6, PushCopiedEffect
  <1>8. /\ Tidy(a) /\ a.vtype[Arg] = "Array" /\ Empty(a, Tmp) /\ Alive(a, y)
        /\ \A h \in Heap : a.owner[h] = Uptr <=> h = n
    BY <1>2, <1>4, <1>6, <1>7, QuietFacts, LocalsApart DEF Pushed, Empty, Alive, Wraps
  <1>9. Fresh(a, n)
    BY <1>1, <1>2, <1>7, <1>8 DEF Fresh
  <1>10. PushArgs(a, Arg, n, n)
    BY <1>1, <1>8, <1>9, LocalsApart DEF PushArgs, Wraps, Alive
  <1>11. /\ Pushed(a, Arg, n, n, b)
         /\ \A e \in Cell \ Heap : e # Arg => b.vtype[e] = a.vtype[e] /\ b.held[e] = a.held[e]
    BY <1>1, <1>8, <1>10, PushCopiedEffect
  <1> HIDE DEF b
  <1>12. /\ Tidy(b) /\ b.vtype[Arg] # "Null" /\ Empty(b, Tmp)
         /\ \A h \in Heap : b.owner[h] # Uptr
    BY <1>8, <1>11, LocalsApart DEF Pushed, Empty
  <1>13. c \in Cell /\ c # Tmp /\ c # Arg /\ Alive(destruct(b, c), c)
    BY CellAssumption, ArgTmpCell DEF Alive
  <1> QED
    BY <1>12, <1>13, MoveOfTemporary DEF b

LEMMA PairQuiet ==
  ASSUME NEW s, Quiet(s), NEW c \in Named, NEW k \in Keys, NEW x \in Addressable(s),
         NEW n \in FreeNodes(s), NEW a, a = InsertKey(s, Arg, k, n),
         NEW f \in CopyMaps(a, n, x)
  PROVE  Quiet(move_from(copy_from(a, n, x, f), c, Arg))
  <1> DEFINE q == copy_from(a, n, x, f)
  <1>1. /\ n \in Heap /\ n \in Cell /\ Fresh(s, n) /\ Arg \in Cell /\ Arg \notin Heap
        /\ x \in Cell /\ x # n /\ Alive(s, x) /\ Alive(s, Arg)
    BY QuietFacts, AddressableFacts, OperandNotFree, LocalsApart, ArgTmpCell DEF FreeNodes, Alive
  <1>2. /\ Tidy(a)
        /\ \A e \in Cell : a.vtype[e] = IF e = Arg THEN "Map" ELSE s.vtype[e]
        /\ \A e \in Cell : e # Arg => a.held[e] = s.held[e]
        /\ \A h \in Heap : a.owner[h] \in {IF h = n THEN Arg ELSE s.owner[h], Stray}
        /\ a.owner[n] = Arg
    BY <1>1, QuietFacts, InsertKeyEffect DEF Empty
  <1>3. a.vtype[n] = "Null" /\ Alive(a, n) /\ Alive(a, x)
    BY <1>1, <1>2, CellNoMark, OwnerAssumption DEF Fresh, Alive
  <1>4. Empty(a, Tmp) /\ \A h \in Heap : a.owner[h] # Uptr
    BY <1>1, <1>2, QuietFacts, LocalsApart, CellNoMark, OwnerAssumption DEF Empty
  <1>5. /\ Tidy(q)
        /\ \A h \in Heap : q.owner[h] = Uptr => a.owner[h] = Uptr
        /\ Empty(q, Tmp) /\ q.vtype[Arg] = a.vtype[Arg]
    BY <1>1, <1>2, <1>3, <1>4, LocalsApart, CopyToNull, CopyFrame DEF Empty
  <1> HIDE DEF q
  <1>6. q.vtype[Arg] # "Null" /\ \A h \in Heap : q.owner[h] # Uptr
    BY <1>1, <1>2, <1>4, <1>5
  <1>7. c \in Cell /\ c # Tmp /\ c # Arg /\ Alive(destruct(q, c), c)
    BY CellAssumption, ArgTmpCell DEF Alive
  <1> QED
    BY <1>5, <1>6, <1>7, MoveOfTemporary DEF q

\* What a call leaves: everything in order, unless an aliased argument made it
\* touch a destroyed Value; a client that keeps the discipline makes no such call.
Fine(r) == (r.ub \/ Quiet(r)) /\ (Client # "any" => Quiet(r))

LEMMA MoveFine ==
  ASSUME NEW s, Quiet(s), NEW c \in Addressable(s), NEW v \in Addressable(s),
         Client # "any" => c = v \/ Separate(s, c, v)
  PROVE  Fine(move_from(s, c, v))
  <1>1. c \in Cell /\ v \in Cell /\ s \in State /\ Alive(s, v) /\ Alive(destruct(s, c), c)
    BY QuietFacts, AddressableFacts
  <1>2. Client # "any" => Alive(destruct(s, c), v)
    BY <1>1, destructKeeps DEF Separate
  <1>3. ASSUME ~move_from(s, c, v).ub PROVE Quiet(move_from(s, c, v))
    BY <1>1, <1>3, move_fromAlive, MoveQuiet
  <1> QED
    BY <1>2, <1>3, MoveQuiet DEF Fine

LEMMA CopyFine ==
  ASSUME NEW s, Quiet(s), NEW c \in Addressable(s), NEW v \in Addressable(s),
         NEW f \in CopyMaps(s, c, v), Client # "any" => v \notin Below(s, c)
  PROVE  Fine(copy_from(s, c, v, f))
  <1>1. c \in Cell /\ v \in Cell /\ s \in State /\ Alive(s, v)
    BY QuietFacts, AddressableFacts
  <1>2. Client # "any" => Alive(destruct(s, c), v)
    BY <1>1, destructKeeps
  <1>3. ASSUME ~copy_from(s, c, v, f).ub PROVE Quiet(copy_from(s, c, v, f))
    BY <1>1, <1>3, copy_fromAlive, CopyQuiet
  <1> QED
    BY <1>2, <1>3, CopyQuiet DEF Fine

\* v.push_back(std::move(v)) of what is wrapped: the argument is a Null by then,
\* and nothing but the tag of its node changes.
LEMMA SelfPush ==
  ASSUME NEW s, NEW c, NEW m, NEW n, PushArgs(s, c, m, n), Wraps(s, c),
         NEW p, p = make_unique(PushReady(s, c, m), n), NEW b, b = move_from(p, n, c)
  PROVE  /\ Moved(p, n, c, b) /\ Tidy(b) /\ p.vtype[c] = "Null" /\ b.held[c] = "Array"
         /\ \A h \in Heap : b.owner[h] = p.owner[h] /\ p.owner[h] # n
         /\ ~PushMoved(s, c, c, m, n).ub
  <1> DEFINE a == PushReady(s, c, m)
             q == emplace_back(b, c, n)
  <1>1. /\ Tidy(s) /\ s \in State /\ Empty(s, Tmp) /\ c \in Cell /\ c # Tmp /\ Alive(s, c)
        /\ n \in Heap /\ n \in Cell /\ n # c /\ Fresh(s, m) /\ m # c
    BY ArgTmpCell DEF PushArgs, Fresh, Tidy
  <1>2. Wrapped(s, c, m, a) /\ Tidy(a) /\ a \in State
    <2>1. a = WrapInArray(s, c, m)
      BY DEF PushReady, Wraps
    <2> QED
      BY <1>1, <2>1, WrapInArrayEffect DEF Wraps, Tidy
  <1>3. /\ Tidy(p) /\ p.held[c] = "Array" /\ p.vtype[n] = "Null" /\ p.held[n] = "none"
        /\ p.owner[n] = Uptr
        /\ \A h \in Heap :
              p.owner[h] = Free <=> s.owner[h] = Free /\ h # n /\ ~(Wraps(s, c) /\ h = m)
    BY PushNode
  <1>4. p.vtype[c] = "Null"
    BY <1>1, <1>2, make_uniqueEffect DEF Wrapped
  <1>5. Alive(p, c) /\ Alive(p, n)
    <2>1. c \in Heap => s.owner[c] # Free
      BY <1>1 DEF Alive
    <2> QED
      BY <1>1, <1>3, <2>1, OwnerAssumption DEF Alive, Fresh
  <1>6. Moved(p, n, c, b) /\ Tidy(b) /\ b \in State
    BY <1>1, <1>3, <1>5, MoveToNull DEF Tidy
  <1>7. Kids(p, c) = {}
    BY <1>4 DEF Kids, Containers
  <1>8. \A h \in Heap : b.owner[h] = p.owner[h] /\ p.owner[h] # n
    BY <1>1, <1>3, <1>4, <1>6, <1>7, OwnedNone DEF Moved, Tidy, Containers
  <1>9. b.held[c] = "Array"
    BY <1>1, <1>3, <1>4, <1>6 DEF Moved
  <1>10. q \in State /\ ~q.ub
    BY <1>1, <1>6, <1>9, emplace_backEffect DEF Tidy
  <1>11. PushMoved(s, c, c, m, n) = SetTag(q, c, "Array")
    BY DEF PushMoved
  <1> HIDE DEF q
  <1>12. SetTag(q, c, "Array").ub = q.ub
    BY <1>1, <1>10, SetTagEffect, TagsType
  <1>13. ~PushMoved(s, c, c, m, n).ub
    BY <1>10, <1>11, <1>12
  <1> QED
    BY <1>4, <1>6, <1>8, <1>9, <1>13

LEMMA PushMovedFine ==
  ASSUME NEW s, Quiet(s), NEW c \in Addressable(s), NEW v \in Addressable(s),
         NEW m \in FreeNodes(s), NEW n \in FreeNodes(s),
         (m = n) <=> s.vtype[c] \in {"Null", "Array"}, Client # "any" => c # v \/ Wraps(s, c)
  PROVE  Fine(PushMoved(s, c, v, m, n))
  <1>1. ASSUME ~PushMoved(s, c, v, m, n).ub PROVE Quiet(PushMoved(s, c, v, m, n))
    BY <1>1, PushMovedQuiet
  <1>2. ASSUME c # v \/ Wraps(s, c) PROVE Quiet(PushMoved(s, c, v, m, n))
    <2>1. CASE c # v
      BY <2>1, PushMovedQuiet
    <2>2. CASE c = v /\ Wraps(s, c)
      <3>1. PushArgs(s, c, m, n)
        BY PushArgsHold
      <3>2. ~PushMoved(s, c, v, m, n).ub
        BY <2>2, <3>1, SelfPush
      <3> QED
        BY <3>2, PushMovedQuiet
    <2> QED
      BY <1>2, <2>1, <2>2
  <1> QED
    BY <1>1, <1>2 DEF Fine

LEMMA InitQuiet == Init => Quiet(st)
  <1> SUFFICES ASSUME Init PROVE Quiet(st)
    OBVIOUS
  <1>1. st \in State /\ Truthful(st)
    BY InitType, InitTruthful DEF TypeOK
  <1>2. /\ \A e \in Cell : st.vtype[e] = "Null" /\ st.held[e] = "none"
        /\ \A h \in Heap : st.owner[h] = Free
        /\ ~st.ub
    BY DEF Init
  <1>3. Tidy(st)
    BY <1>1, <1>2, CellNoMark, ArgTmpCell DEF Tidy, Owned, FreeIsBlank
  <1> QED
    BY <1>2, <1>3, OwnerAssumption, ArgTmpCell DEF Quiet, Empty

LEMMA NextFine == Quiet(st) /\ Next => Fine(st')
  <1> SUFFICES ASSUME Quiet(st), Next PROVE Fine(st')
    OBVIOUS
  <1> USE DEF Fine
  <1>1. ASSUME NEW c \in Addressable(st), Call(c) PROVE Fine(st')
    <2>0. c \in Cell /\ \A v \in Addressable(st) : v \in Cell
      BY AddressableType
    <2>1. ASSUME NEW v \in Addressable(st), CopyAssign(c, v) PROVE Fine(st')
      BY <2>1, CopyFine DEF CopyAssign, SafeCopy
    <2>2. ASSUME NEW v \in Addressable(st), MoveAssign(c, v) PROVE Fine(st')
      BY <2>2, MoveFine DEF MoveAssign, SafeMove
    <2>3. ASSUME NEW v \in Addressable(st), PushBackMove(c, v) PROVE Fine(st')
      BY <2>3, PushMovedFine DEF PushBackMove, SafePush, Wraps
    <2>4. ASSUME NEW v \in Addressable(st), PushBackCopy(c, v) PROVE Fine(st')
      BY <2>4, PushCopiedQuiet DEF PushBackCopy
    <2>5. ASSUME NEW v \in Addressable(st), RemoveElement(c, v) PROVE Fine(st')
      BY <2>0, <2>5, EraseQuiet DEF RemoveElement, Kids
    <2>6. ASSUME NEW v \in Addressable(st), Swap(c, v) PROVE Fine(st')
      BY <2>6, SwapQuiet DEF Swap
    <2>7. ASSUME NEW v \in Addressable(st), CopyAssignFails(c, v) PROVE Fine(st')
      BY <2>7, destructQuiet DEF CopyAssignFails
    <2>8. ASSUME NEW v \in Addressable(st), PushBackMoveFails(c, v) PROVE Fine(st')
      BY <2>8, PushFailedQuiet DEF PushBackMoveFails
    <2>9. ASSUME NEW l \in Literals, AssignNew(c, l[1], l[2]) PROVE Fine(st')
      BY <2>9, AssignNewQuiet DEF AssignNew
    <2>10. ASSUME NEW l \in Literals, PushBackNew(c, l[1], l[2]) PROVE Fine(st')
      BY <2>10, PushBackNewQuiet DEF PushBackNew
    <2>11. ASSUME NEW k \in Keys, IndexKey(c, k) PROVE Fine(st')
      BY <2>11, IndexKeyQuiet DEF IndexKey
    <2>12. ASSUME NEW k \in Keys, RemoveKey(c, k) PROVE Fine(st')
      BY <2>0, <2>12, EraseQuiet DEF RemoveKey, Kids
    <2>13. ASSUME NEW d \in Payloads, WriteThrough(c, d) PROVE Fine(st')
      <3>1. st' = [st EXCEPT !.data[c] = d] /\ st \in State
        BY <2>13, QuietFacts DEF WriteThrough
      <3>2. /\ st' \in State /\ st'.vtype = st.vtype /\ st'.held = st.held
            /\ st'.owner = st.owner /\ st'.ub = st.ub
        BY <3>1 DEF State
      <3> QED
        BY <3>2, DataQuiet
    <2>14. CASE StealString(c)
      <3>1. st' = [st EXCEPT !.data[c] = NoData] /\ st \in State
        BY <2>14, QuietFacts DEF StealString
      <3>2. /\ st' \in State /\ st'.vtype = st.vtype /\ st'.held = st.held
            /\ st'.owner = st.owner /\ st'.ub = st.ub
        BY <3>1 DEF State
      <3> QED
        BY <3>2, DataQuiet
    <2>15. CASE PushBackFails(c)
      BY <2>15, PushBackFailsQuiet, WrapFailedQuiet DEF Wraps
    <2>16. CASE IndexKeyFails(c)
      BY <2>16, IndexKeyFailsQuiet DEF IndexKeyFails
    <2> QED
      BY <1>1, <2>1, <2>2, <2>3, <2>4, <2>5, <2>6, <2>7, <2>8, <2>9, <2>10,
         <2>11, <2>12, <2>13, <2>14, <2>15, <2>16 DEF Call
  <1>2. ASSUME NEW x \in Named, Construct(x) PROVE Fine(st')
    <2>1. ASSUME NEW v \in Addressable(st), AssignListOfOne(x, v) PROVE Fine(st')
      BY <2>1, ListOfOneQuiet DEF AssignListOfOne
    <2>2. ASSUME NEW v \in Addressable(st), NEW y \in Addressable(st), AssignListOfTwo(x, v, y)
          PROVE  Fine(st')
      BY <2>2, ListOfTwoQuiet DEF AssignListOfTwo
    <2>3. ASSUME NEW v \in Addressable(st), NEW k \in Keys, AssignPair(x, k, v)
          PROVE  Fine(st')
      BY <2>3, PairQuiet DEF AssignPair
    <2> QED
      BY <1>2, <2>1, <2>2, <2>3 DEF Construct
  <1>3. ASSUME NEW x \in Named, LeaveScope(x) PROVE Fine(st')
    BY <1>3, LeaveScopeQuiet DEF LeaveScope
  <1> QED
    BY <1>1, <1>2, <1>3 DEF Next

\* A client whose arguments share nothing in the ways SafeCopy, SafeMove and
\* SafePush rule out never makes the code touch a destroyed Value or
\* container, also when allocations fail.
THEOREM NeverCrashes == ASSUME Client # "any" PROVE Spec => []NoUB
  <1>1. Init => Quiet(st)
    BY InitQuiet
  <1>2. Quiet(st) /\ [Next]_st => Quiet(st)'
    <2>1. CASE UNCHANGED st
      BY <2>1
    <2>2. CASE Next
      BY <2>2, NextFine DEF Fine
    <2> QED
      BY <2>1, <2>2
  <1>3. Quiet(st) => NoUB
    BY DEF Quiet, Tidy, NoUB
  <1> QED
    BY <1>1, <1>2, <1>3, PTL DEF Spec

-----------------------------------------------------------------------------
(* What the discipline of a safe client rules out is fatal.                *)

\* What is below a Value of a container is below that container.
LEMMA BelowTrans ==
  ASSUME NEW s, NEW c, NEW v \in Below(s, c) PROVE Below(s, v) \subseteq Below(s, c)
  <1>1. Below(s, c) \in SUBSET Heap /\ Closed(s, c, Below(s, c))
    BY BelowType, BelowClosed
  <1>2. Closed(s, v, Below(s, c))
    BY <1>1 DEF Closed
  <1> QED
    BY <1>1, <1>2, BelowLeast

\* The two assignments that read a Value of the target's own container read
\* it after destruct has freed it.
LEMMA ReadsTheFreed ==
  ASSUME NEW s \in State, NEW c \in Cell, NEW v \in Below(s, c)
  PROVE  /\ move_from(s, c, v).ub
         /\ \A f \in CopyMaps(s, c, v) : copy_from(s, c, v, f).ub
  <1>1. v \in Heap /\ destruct(s, c) \in State
    BY BelowType, destructType
  <1>2. destruct(s, c).owner[v] = Free
    BY <1>1, destructEffect DEF Destructed
  <1>3. ~Alive(destruct(s, c), v)
    BY <1>1, <1>2 DEF Alive
  <1> QED
    BY <1>1, <1>3, CrashUb DEF move_from, copy_from

\* Nodes that own each other are out of every variable's reach, and no
\* destructor will run on them.
LEMMA CycleIsLost ==
  ASSUME NEW r, NEW C \in SUBSET Heap, \A h \in C : r.owner[h] \in C, NEW h \in C
  PROVE  Lost(r, h)
  <1>1. h \in Allocated(r)
    BY CellNoMark, ArgTmpCell DEF Allocated
  <1>2. ASSUME NEW x \in Named PROVE h \notin Below(r, x)
    <2> DEFINE S == Heap \ C
    <2>1. x \notin C
      BY CellAssumption
    <2>2. Closed(r, x, S)
      BY <2>1 DEF Closed
    <2>3. Below(r, x) \subseteq S
      BY <2>2, BelowLeast
    <2> QED
      BY <2>3
  <1>3. h \notin Named
    BY CellAssumption
  <1> QED
    BY <1>1, <1>2, <1>3 DEF Lost, Addressable

\* What is below o but not below i, where i is below o: the nodes on the way
\* from o to i, and their other branches.
LEMMA Between ==
  ASSUME NEW s, NEW o, NEW i \in Below(s, o), NEW h \in Below(s, o) \ Below(s, i)
  PROVE  /\ h \in Heap
         /\ s.owner[h] = o \/ s.owner[h] \in Below(s, o) \ Below(s, i)
         /\ s.owner[h] # i /\ s.vtype[s.owner[h]] \in Containers
  <1>1. h \in Heap
    BY BelowType
  <1>2. s.owner[h] \in Below(s, o) \cup {o} /\ s.vtype[s.owner[h]] \in Containers
    BY BelowOwner
  <1>3. s.owner[h] \notin Below(s, i) \cup {i}
    BY <1>1, <1>2, BelowClosed DEF Closed
  <1> QED
    BY <1>1, <1>2, <1>3

\* A container that receives a Value from inside which it is owned owns itself.
LEMMA MovedInside ==
  ASSUME NEW s, Quiet(s), NEW c \in Addressable(s), NEW v \in Addressable(s), v \in Below(s, c)
  PROVE  Lost(move_from(s, v, c), v)
  <1> DEFINE a == destruct(s, v)
             r == move_from(s, v, c)
             C == Below(s, c) \ Below(s, v)
  <1>1. s \in State /\ c \in Cell /\ v \in Cell /\ v \in Heap /\ Below(s, c) \subseteq Heap
    BY BelowType, AddressableType DEF Quiet, Tidy
  <1>2. c \notin Below(s, v) /\ c # v /\ v \notin Below(s, v)
    BY BelowTrans, NoSelfBelow
  <1>3. Destructed(s, v, a)
    BY <1>1, destructEffect
  <1>4. Alive(a, c)
    BY <1>1, <1>2, <1>3, AddressableFacts, OwnerAssumption DEF Destructed, Alive
  <1>5. Moved(a, v, c, r)
    BY <1>1, <1>2, <1>4, move_fromEffect
  <1>6. v \in C
    BY <1>2
  <1>7. ASSUME NEW h \in C PROVE r.owner[h] \in C
    <2>1. /\ h \in Heap /\ h \notin Below(s, v)
          /\ s.owner[h] = c \/ s.owner[h] \in C
          /\ s.owner[h] # v /\ s.vtype[s.owner[h]] \in Containers
      BY Between
    <2>2. a.owner[h] = s.owner[h]
      BY <1>2, <1>3, <2>1 DEF Destructed
    <2>3. CASE s.owner[h] = c
      <3>1. a.vtype[c] = s.vtype[c]
        BY <1>1, <1>2, <1>3 DEF Destructed
      <3>2. h \in Kids(a, c)
        BY <2>1, <2>2, <2>3, <3>1 DEF Kids
      <3> QED
        BY <1>5, <1>6, <2>1, <3>2 DEF Moved
    <2>4. CASE s.owner[h] # c
      <3>1. h \notin Kids(a, c) /\ a.owner[h] # v
        BY <2>1, <2>2, <2>4 DEF Kids
      <3>2. r.owner[h] = s.owner[h]
        BY <1>5, <2>1, <2>2, <3>1 DEF Moved
      <3> QED
        BY <2>1, <2>4, <3>2
    <2> QED
      BY <2>3, <2>4
  <1>8. C \in SUBSET Heap
    BY <1>1
  <1> QED
    BY <1>6, <1>7, <1>8, CycleIsLost

\* swap: the two containers change hands, the nodes of the others stay.
LEMMA SwappedOwners ==
  ASSUME NEW s, Quiet(s), NEW c \in Addressable(s), NEW v \in Addressable(s), c # v,
         NEW h \in Heap, s.owner[h] \in Cell, s.vtype[s.owner[h]] \in Containers
  PROVE  swapped(s, c, v).owner[h] = IF s.owner[h] = v THEN c
                                     ELSE IF s.owner[h] = c THEN v ELSE s.owner[h]
  <1> DEFINE s1 == move_from(s, Tmp, v)
             s2 == move_from(s1, v, c)
             s3 == move_from(s2, c, Tmp)
  <1>0. /\ c \in Cell /\ v \in Cell /\ c # Tmp /\ v # Tmp /\ Alive(s, c) /\ Alive(s, v)
        /\ Tmp \in Cell \ Heap /\ Tidy(s) /\ Empty(s, Tmp)
    BY QuietFacts, AddressableFacts, LocalsApart
  <1>1. Moved(s, Tmp, v, s1) /\ Tidy(s1)
    BY <1>0, MoveToNull DEF Empty, Alive
  <1> HIDE DEF s1
  <1>2. Alive(s1, c) /\ Alive(s1, v) /\ s1.vtype[v] = "Null"
    BY <1>0, <1>1, OwnerAssumption, CellNoMark DEF Moved, Alive
  <1>3. Moved(s1, v, c, s2) /\ Tidy(s2)
    BY <1>0, <1>1, <1>2, MoveToNull
  <1> HIDE DEF s2
  <1>4. Alive(s2, c) /\ s2.vtype[c] = "Null"
    BY <1>0, <1>2, <1>3, OwnerAssumption, CellNoMark DEF Moved, Alive
  <1>5. Moved(s2, c, Tmp, s3)
    BY <1>0, <1>3, <1>4, MoveToNull DEF Alive
  <1> HIDE DEF s3
  <1>6. s3.vtype[Tmp] = "Null"
    BY <1>0, <1>5 DEF Moved
  <1>7. swapped(s, c, v) = s3
    BY <1>6 DEF swapped, destruct, s3, s2, s1
  <1>8. s.owner[h] # Tmp
    BY <1>0 DEF Empty, Containers
  <1>9. s1.owner[h] = IF s.owner[h] = v THEN Tmp ELSE s.owner[h]
    BY <1>1, <1>8 DEF Moved, Kids
  <1>10. /\ s1.vtype[c] = s.vtype[c] /\ s1.vtype[Tmp] = s.vtype[v]
         /\ s2.vtype[Tmp] = s.vtype[v]
    BY <1>0, <1>1, <1>3 DEF Moved
  <1>11. s2.owner[h] = IF s.owner[h] = v THEN Tmp ELSE IF s.owner[h] = c THEN v ELSE s.owner[h]
    BY <1>0, <1>3, <1>9, <1>10 DEF Moved, Kids
  <1>12. s3.owner[h] = IF s.owner[h] = v THEN c ELSE IF s.owner[h] = c THEN v ELSE s.owner[h]
    BY <1>0, <1>5, <1>8, <1>10, <1>11 DEF Moved, Kids
  <1> QED
    BY <1>7, <1>12

\* A swap of a Value with one below it closes the way between them to a cycle.
LEMMA SwappedInside ==
  ASSUME NEW s, Quiet(s), NEW c \in Addressable(s), NEW v \in Addressable(s), c # v
  PROVE  /\ v \in Below(s, c) => Lost(swapped(s, c, v), v)
         /\ c \in Below(s, v) => Lost(swapped(s, c, v), c)
  <1> DEFINE r == swapped(s, c, v)
  <1>0. Below(s, c) \subseteq Heap /\ Below(s, v) \subseteq Heap /\ c \in Cell /\ v \in Cell
    BY BelowType, AddressableType
  <1>1. ASSUME NEW o \in {c, v}, NEW i \in {c, v}, i \in Below(s, o) PROVE Lost(r, i)
    <2> DEFINE C == Below(s, o) \ Below(s, i)
    <2>1. i \in C /\ i # o
      BY <1>1, NoSelfBelow
    <2>2. ASSUME NEW h \in C PROVE r.owner[h] \in C
      <3>1. /\ h \in Heap
            /\ s.owner[h] = o \/ s.owner[h] \in C
            /\ s.owner[h] # i /\ s.vtype[s.owner[h]] \in Containers
        BY <1>1, Between
      <3>2. s.owner[h] \in Cell /\ h \in Heap
        BY <1>0, <3>1, ArgTmpCell, BelowType
      <3>3. r.owner[h] = IF s.owner[h] = v THEN c ELSE IF s.owner[h] = c THEN v ELSE s.owner[h]
        BY <3>1, <3>2, SwappedOwners
      <3> QED
        BY <1>1, <2>1, <3>1, <3>3
    <2>3. C \in SUBSET Heap
      BY BelowType
    <2> QED
      BY <2>1, <2>2, <2>3, CycleIsLost
  <1> QED
    BY <1>1

\* Up to the node m, making the array ready changes only who owns what c held.
LEMMA PushReadyOwners ==
  ASSUME NEW s, Tidy(s), NEW c \in Cell, c # Tmp, Alive(s, c), Empty(s, Tmp),
         NEW m, Wraps(s, c) => Fresh(s, m) /\ m # c,
         NEW h \in Heap, ~(Wraps(s, c) /\ h = m)
  PROVE  PushReady(s, c, m).owner[h] =
           IF s.owner[h] # c \/ s.vtype[c] = "Array" THEN s.owner[h]
           ELSE IF s.vtype[c] = "Null" THEN Stray ELSE m
  <1>1. CASE s.vtype[c] = "Null"
    BY <1>1, OpenArrayEffect DEF PushReady
  <1>2. CASE s.vtype[c] = "Array"
    BY <1>2 DEF PushReady
  <1>3. CASE Wraps(s, c)
    <2>1. Wrapped(s, c, m, PushReady(s, c, m))
      <3>1. PushReady(s, c, m) = WrapInArray(s, c, m)
        BY <1>3 DEF PushReady, Wraps
      <3> QED
        BY <1>3, <3>1, WrapInArrayEffect DEF Wraps
    <2>2. s.owner[h] = c => h \in Kids(s, c)
      BY <1>3, OwnedNone DEF Kids, Tidy, Truthful, HeldBy, Wraps, Containers
    <2>3. h \in Kids(s, c) => s.owner[h] = c
      BY DEF Kids
    <2> QED
      BY <1>3, <2>1, <2>2, <2>3 DEF Wrapped, Wraps
  <1> QED
    BY <1>1, <1>2, <1>3 DEF Wraps

\* push_back(std::move(v)) into a Value c below v: the new node takes the
\* container of v, and c takes the new node.
LEMMA PushedInside ==
  ASSUME NEW s, Quiet(s), NEW c \in Addressable(s), NEW v \in Addressable(s), c \in Below(s, v),
         NEW m \in FreeNodes(s), NEW n \in FreeNodes(s),
         (m = n) <=> s.vtype[c] \in {"Null", "Array"}
  PROVE  Lost(PushMoved(s, c, v, m, n), c)
  <1> DEFINE a == PushReady(s, c, m)
             p == make_unique(a, n)
             b == move_from(p, n, v)
             r == PushMoved(s, c, v, m, n)
             B == Below(s, v) \ Below(s, c)
             C == B \cup {n}
  <1>1. /\ c # v /\ c \in B /\ Below(s, v) \subseteq Heap /\ c \in Heap
    BY BelowType, NoSelfBelow
  <1>2. PushArgs(s, c, m, n)
    BY PushArgsHold
  <1>3. /\ s \in State /\ c \in Cell /\ v \in Cell /\ Alive(s, v) /\ v # n /\ v # m /\ v # Tmp
        /\ n \in Heap /\ n \in Cell /\ s.owner[n] = Free /\ s.owner[m] = Free /\ m \in Heap
    BY QuietFacts, AddressableFacts, OperandNotFree, ArgTmpCell DEF FreeNodes
  <1>4. /\ Tidy(p) /\ p.vtype[n] = "Null" /\ p.held[n] = "none" /\ p.owner[n] = Uptr
        /\ \A e \in Cell : e # c /\ ~(Wraps(s, c) /\ e = m) => p.vtype[e] = s.vtype[e]
        /\ \A h \in Heap : p.owner[h] = Free <=> s.owner[h] = Free /\ h # n /\ ~(Wraps(s, c) /\ h = m)
    BY <1>2, PushNode
  <1>5. \A h \in Heap : h # n => p.owner[h] = a.owner[h]
    <2>1. a \in State
      <3>1. Readied(s, c, m, a)
        BY <1>2, PushReadyEffect DEF PushArgs
      <3> QED
        BY <3>1 DEF Readied, Tidy
    <2> HIDE DEF a
    <2> QED
      BY <1>3, <2>1, make_uniqueEffect
  <1>6. Loaded(s, c, m, n, b)
    BY <1>1, <1>2, <1>3, PushMovedEffect
  <1>7. r = SetTag(emplace_back(b, c, n), c, "Array")
    BY DEF PushMoved
  <1>8. Appended(b, c, n, r)
    BY <1>2, <1>6, <1>7, PushEnd
  <1> HIDE DEF r
  <1>9. ASSUME NEW h \in B
        PROVE  /\ h \in Heap /\ h # n /\ h # m /\ s.owner[h] # c /\ s.owner[h] \in Cell
               /\ s.owner[h] = v \/ s.owner[h] \in B
               /\ s.vtype[s.owner[h]] \in Containers
    <2>1. /\ h \in Heap
          /\ s.owner[h] = v \/ s.owner[h] \in B
          /\ s.owner[h] # c /\ s.vtype[s.owner[h]] \in Containers
      BY Between
    <2>2. s.owner[h] \in Cell /\ h \in Heap
      BY <1>1, <1>3, <2>1, ArgTmpCell
    <2> QED
      BY <1>3, <2>1, <2>2, CellNoMark
  <1>10. ASSUME NEW h \in B PROVE p.owner[h] = s.owner[h] /\ p.vtype[s.owner[h]] \in Containers
    <2>1. a.owner[h] = s.owner[h]
      <3>1. ~(Wraps(s, c) /\ h = m) /\ h \in Heap /\ s.owner[h] # c
        BY <1>9
      <3> QED
        BY <1>2, <3>1, PushReadyOwners DEF PushArgs
    <2>2. s.owner[h] # m
      BY <1>3, <1>9, CellNoMark
    <2> QED
      BY <1>4, <1>5, <1>9, <2>1, <2>2
  <1> HIDE DEF a, p
  <1>11. Alive(p, v) /\ Alive(p, n)
    BY <1>3, <1>4, OwnerAssumption DEF Alive
  <1>12. Moved(p, n, v, b)
    BY <1>3, <1>4, <1>11, MoveToNull
  <1>13. \A h \in Heap : p.owner[h] # n
    BY <1>3, <1>4, OwnedNone DEF Tidy, Containers
  <1>14. ASSUME NEW h \in B PROVE b.owner[h] = IF s.owner[h] = v THEN n ELSE s.owner[h]
    BY <1>9, <1>10, <1>12, <1>13 DEF Moved, Kids
  <1> HIDE DEF b
  <1>15. ASSUME NEW h \in C PROVE r.owner[h] \in C
    <2>1. CASE h = n
      BY <1>1, <1>3, <1>8, <2>1 DEF Appended
    <2>2. CASE h \in B
      <3>1. r.owner[h] = b.owner[h]
        BY <1>8, <1>9, <2>2 DEF Appended
      <3> QED
        BY <1>9, <1>14, <2>2, <3>1
    <2> QED
      BY <2>1, <2>2
  <1>16. C \in SUBSET Heap /\ c \in C
    BY <1>1, <1>3
  <1> QED
    BY <1>15, <1>16, CycleIsLost DEF r

\* v.push_back(std::move(v)) of a Null or an Array: the vector has left v by
\* the time emplace_back is called on it.
LEMMA PushedSelf ==
  ASSUME NEW s, Quiet(s), NEW c \in Addressable(s), s.vtype[c] \in {"Null", "Array"},
         NEW n \in FreeNodes(s)
  PROVE  PushMoved(s, c, c, n, n).ub
  <1> DEFINE p == make_unique(PushReady(s, c, n), n)
             b == move_from(p, n, c)
  <1>1. PushArgs(s, c, n, n) /\ ~Wraps(s, c)
    BY PushArgsHold DEF Wraps
  <1>2. /\ c \in Cell /\ Alive(s, c) /\ c # n /\ c # Tmp /\ n \in Heap /\ n \in Cell
        /\ Tidy(s) /\ s.owner[n] = Free
    BY QuietFacts, AddressableFacts, OperandNotFree, ArgTmpCell DEF FreeNodes
  <1>3. /\ Tidy(p) /\ p.vtype[n] = "Null" /\ p.owner[n] = Uptr
        /\ \A h \in Heap : p.owner[h] = Free <=> s.owner[h] = Free /\ h # n
    BY <1>1, PushNode
  <1>4. p.vtype[c] = "Array"
    <2>1. PushReady(s, c, n).vtype[c] = "Array" /\ PushReady(s, c, n) \in State
      <3>1. CASE s.vtype[c] = "Null"
        BY <1>2, <3>1, OpenArrayEffect DEF PushReady, Tidy
      <3>2. CASE s.vtype[c] = "Array"
        BY <1>2, <3>2 DEF PushReady, Tidy
      <3> QED
        BY <3>1, <3>2
    <2> QED
      BY <1>2, <2>1, make_uniqueEffect
  <1>5. PushMoved(s, c, c, n, n) = SetTag(emplace_back(b, c, n), c, "Array")
    BY DEF PushMoved
  <1> HIDE DEF p
  <1>6. Alive(p, c) /\ Alive(p, n)
    BY <1>2, <1>3, OwnerAssumption DEF Alive
  <1>7. Moved(p, n, c, b)
    BY <1>2, <1>3, <1>6, MoveToNull
  <1>8. b.held[c] = "none" /\ b \in State
    BY <1>2, <1>4, <1>7 DEF Moved
  <1> HIDE DEF b
  <1>9. emplace_back(b, c, n) = Crash(b)
    BY <1>8 DEF emplace_back
  <1>10. Crash(b) \in State /\ Crash(b).ub
    BY <1>8, CrashType, CrashUb
  <1>11. SetTag(Crash(b), c, "Array").ub
    BY <1>2, <1>10, SetTagEffect, TagsType
  <1> QED
    BY <1>5, <1>9, <1>11

\* The discipline forbids no call that does what it was written for: the call
\* reads a destroyed Value or a container that has been moved away, or it
\* leaves the inner of its operands out of every variable's reach for good.
THEOREM MisuseAlwaysFatal == ASSUME Client # "any" PROVE Spec => []MisuseIsFatal
  <1>1. Init => Quiet(st)
    BY InitQuiet
  <1>2. Quiet(st) /\ [Next]_st => Quiet(st)'
    <2>1. CASE UNCHANGED st
      BY <2>1
    <2>2. CASE Next
      BY <2>2, NextFine DEF Fine
    <2> QED
      BY <2>1, <2>2
  <1>3. Quiet(st) => MisuseIsFatal
    <2> SUFFICES ASSUME Quiet(st), NEW c \in Addressable(st), NEW v \in Addressable(st)
                 PROVE  /\ ~SafeCopy(c, v) => \A f \in CopyMaps(st, c, v) : copy_from(st, c, v, f).ub
                        /\ ~SafeMove(c, v) =>
                             /\ LET r == move_from(st, c, v) IN r.ub \/ Lost(r, c)
                             /\ LET r == swapped(st, c, v) IN Lost(r, c) \/ Lost(r, v)
                        /\ ~SafePush(c, v) =>
                             \A m, n \in FreeNodes(st) :
                               ((m = n) <=> st.vtype[c] \in {"Null", "Array"}) =>
                                 LET r == PushMoved(st, c, v, m, n) IN r.ub \/ Lost(r, c)
      BY DEF MisuseIsFatal
    <2>1. st \in State /\ c \in Cell /\ v \in Cell
      BY QuietFacts, AddressableType
    <2>2. ~SafeCopy(c, v) => \A f \in CopyMaps(st, c, v) : copy_from(st, c, v, f).ub
      BY <2>1, ReadsTheFreed DEF SafeCopy
    <2>3. ASSUME ~SafeMove(c, v)
          PROVE  /\ move_from(st, c, v).ub \/ Lost(move_from(st, c, v), c)
                 /\ Lost(swapped(st, c, v), c) \/ Lost(swapped(st, c, v), v)
      <3>1. c # v /\ (v \in Below(st, c) \/ c \in Below(st, v))
        BY <2>3 DEF SafeMove, Separate
      <3> QED
        BY <2>1, <3>1, ReadsTheFreed, MovedInside, SwappedInside
    <2>4. ASSUME ~SafePush(c, v), NEW m \in FreeNodes(st), NEW n \in FreeNodes(st),
                 (m = n) <=> st.vtype[c] \in {"Null", "Array"}
          PROVE  PushMoved(st, c, v, m, n).ub \/ Lost(PushMoved(st, c, v, m, n), c)
      <3>1. CASE c \in Below(st, v)
        BY <2>4, <3>1, PushedInside
      <3>2. CASE c = v /\ st.vtype[c] \in {"Null", "Array"}
        <4>1. m = n
          BY <2>4, <3>2
        <4> QED
          BY <3>2, <4>1, PushedSelf
      <3> QED
        BY <2>4, <3>1, <3>2 DEF SafePush
    <2> QED
      BY <2>2, <2>3, <2>4
  <1> QED
    BY <1>1, <1>2, <1>3, PTL DEF Spec

-----------------------------------------------------------------------------
(* No call loses a node, but for those an earlier push_back had hidden.    *)

\* Guarded(s, L, X): in the middle of a call every node outside L has a
\* unique_ptr to it, which the tag of its owner does not hide from destruct;
\* the owners of X are excepted.
Guarded(s, L, X) ==
  \A h \in Heap \ L :
    /\ s.owner[h] # Stray
    /\ s.owner[h] \in Cell \ X => s.vtype[s.owner[h]] \in Containers

Hidden(s) == {h \in Heap : Forgotten(s, h)}

LEMMA QuietGuarded == ASSUME NEW s, Quiet(s) PROVE Guarded(s, Hidden(s), {})
  <1> SUFFICES ASSUME NEW h \in Heap \ Hidden(s)
               PROVE  /\ s.owner[h] # Stray
                      /\ s.owner[h] \in Cell => s.vtype[s.owner[h]] \in Containers
    BY DEF Guarded
  <1>1. s.owner[h] # Stray /\ (s.owner[h] \in Cell => s.vtype[s.owner[h]] # "Null")
    BY DEF Hidden, Forgotten
  <1>2. s.owner[h] \in Cell =>
          s.held[s.owner[h]] = HeldBy(s.vtype[s.owner[h]]) /\ s.held[s.owner[h]] \in Containers
    BY <1>1, QuietFacts DEF Tidy, Truthful, Owned
  <1> QED
    BY <1>1, <1>2 DEF HeldBy, Containers

\* Fewer exceptions are more.
LEMMA GuardedMore ==
  ASSUME NEW s, NEW L, NEW X, NEW Y, X \subseteq Y, Guarded(s, L, X) PROVE Guarded(s, L, Y)
  BY DEF Guarded

\* Nothing outside L is in a Value that is tagged Null.
LEMMA GuardedNull ==
  ASSUME NEW s, NEW L, NEW X, Guarded(s, L, X), NEW c \in Cell \ X, s.vtype[c] = "Null",
         NEW h \in Heap \ L
  PROVE  s.owner[h] # c
  BY DEF Guarded, Containers

LEMMA destructGuarded ==
  ASSUME NEW s \in State, NEW c \in Cell, NEW L, NEW X, X \cap Below(s, c) = {}, Guarded(s, L, X)
  PROVE  Guarded(destruct(s, c), L, X)
  <1> DEFINE a == destruct(s, c)
  <1>1. Destructed(s, c, a) /\ Below(s, c) \subseteq Heap
    BY destructEffect, BelowType
  <1> HIDE DEF a
  <1>2. ASSUME NEW h \in Heap \ L
        PROVE  /\ a.owner[h] # Stray
               /\ a.owner[h] \in Cell \ X => a.vtype[a.owner[h]] \in Containers
    <2>1. s.owner[h] # Stray /\ (s.owner[h] \in Cell \ X => s.vtype[s.owner[h]] \in Containers)
      BY DEF Guarded
    <2>2. CASE h \in Below(s, c)
      <3>1. a.owner[h] = Free
        BY <1>1, <2>2 DEF Destructed
      <3> QED
        BY <3>1, OwnerAssumption, CellNoMark
    <2>3. CASE h \notin Below(s, c)
      <3>1. s.owner[h] \in Below(s, c) \cup {c} => s.vtype[s.owner[h]] \notin Containers
        BY <2>3, BelowClosed DEF Closed
      <3>2. s.owner[h] \notin Below(s, c)
        BY <1>1, <2>1, <3>1, ArgTmpCell
      <3>3. a.owner[h] = s.owner[h]
        BY <1>1, <2>3, <3>2 DEF Destructed
      <3>4. s.owner[h] \in Cell \ X => s.owner[h] # c
        BY <2>1, <3>1
      <3> QED
        BY <1>1, <2>1, <3>2, <3>3, <3>4 DEF Destructed
    <2> QED
      BY <2>2, <2>3
  <1> QED
    BY <1>2 DEF Guarded, a

LEMMA MovedGuarded ==
  ASSUME NEW a, NEW r, NEW c \in Cell, NEW v \in Cell, c # v, Moved(a, c, v, r),
         NEW L, NEW X, Guarded(a, L, X), a.vtype[c] = "Null", c \notin X
  PROVE  Guarded(r, L, X)
  <1> SUFFICES ASSUME NEW h \in Heap \ L
               PROVE  /\ r.owner[h] # Stray
                      /\ r.owner[h] \in Cell \ X => r.vtype[r.owner[h]] \in Containers
    BY DEF Guarded
  <1>1. a.owner[h] # Stray /\ (a.owner[h] \in Cell \ X => a.vtype[a.owner[h]] \in Containers)
    BY DEF Guarded
  <1>2. a.owner[h] # c
    BY GuardedNull
  <1>3. CASE h \in Kids(a, v)
    <2>1. r.owner[h] = c /\ r.vtype[c] = a.vtype[v] /\ a.vtype[v] \in Containers
      BY <1>3 DEF Moved, Kids
    <2> QED
      BY <2>1, CellNoMark
  <1>4. CASE h \notin Kids(a, v)
    <2>1. r.owner[h] = a.owner[h]
      BY <1>2, <1>4 DEF Moved
    <2>2. a.owner[h] \in Cell \ X => a.owner[h] # v
      BY <1>1, <1>4 DEF Kids
    <2> QED
      BY <1>1, <1>2, <2>1, <2>2 DEF Moved
  <1> QED
    BY <1>3, <1>4

\* A move into a Null, and any other move.
LEMMA MoveToNullGuarded ==
  ASSUME NEW s, Tidy(s), NEW c \in Cell, NEW v \in Cell, s.vtype[c] = "Null",
         Alive(s, c), Alive(s, v), NEW L, NEW X, Guarded(s, L, X), c \notin X
  PROVE  Guarded(move_from(s, c, v), L, X)
  <1>1. CASE c = v
    <2>1. destruct(s, c) = s
      BY DEF destruct
    <2> QED
      BY <1>1, <2>1, SelfMove DEF Tidy
  <1>2. CASE c # v
    BY <1>2, MoveToNull, MovedGuarded
  <1> QED
    BY <1>1, <1>2

LEMMA move_fromGuarded ==
  ASSUME NEW s, Tidy(s), NEW c \in Cell, NEW v \in Cell,
         Alive(destruct(s, c), c), Alive(destruct(s, c), v), NEW L, Guarded(s, L, {})
  PROVE  Guarded(move_from(s, c, v), L, {})
  <1>1. Guarded(destruct(s, c), L, {}) /\ s \in State /\ destruct(s, c).vtype[c] = "Null"
    BY destructGuarded, destructNull DEF Tidy
  <1>2. CASE c = v
    BY <1>1, <1>2, SelfMove
  <1>3. CASE c # v
    <2>1. Moved(destruct(s, c), c, v, move_from(s, c, v))
      BY <1>1, <1>3, move_fromEffect
    <2> QED
      BY <1>1, <1>3, <2>1, MovedGuarded
  <1> QED
    BY <1>2, <1>3

LEMMA CopiedGuarded ==
  ASSUME NEW a, FreeIsBlank(a), NEW r, NEW c \in Cell, NEW v \in Cell, NEW f, Copied(a, c, v, f, r),
         \A x \in Below(a, v) : f[x] \in Heap /\ a.owner[f[x]] = Free,
         NEW L, NEW X, Guarded(a, L, X), a.vtype[c] = "Null", c \notin X
  PROVE  Guarded(r, L, X)
  <1> SUFFICES ASSUME NEW h \in Heap \ L
               PROVE  /\ r.owner[h] # Stray
                      /\ r.owner[h] \in Cell \ X => r.vtype[r.owner[h]] \in Containers
    BY DEF Guarded
  <1>1. CASE \A x \in Below(a, v) : f[x] # h
    <2>1. a.owner[h] # Stray /\ (a.owner[h] \in Cell \ X => a.vtype[a.owner[h]] \in Containers)
      BY DEF Guarded
    <2>2. a.owner[h] # c
      BY GuardedNull
    <2>3. r.owner[h] = a.owner[h]
      BY <1>1, <2>2 DEF Copied
    <2>4. ASSUME a.owner[h] \in Cell \ X PROVE r.vtype[a.owner[h]] = a.vtype[a.owner[h]]
      <3>1. \A x \in Below(a, v) : a.vtype[f[x]] \notin Containers
        BY DEF FreeIsBlank, Containers
      <3>2. \A x \in Below(a, v) : f[x] # a.owner[h]
        BY <2>1, <2>4, <3>1
      <3> QED
        BY <2>2, <2>4, <3>2 DEF Copied
    <2> QED
      BY <2>1, <2>3, <2>4
  <1>2. ASSUME NEW x \in Below(a, v), f[x] = h
        PROVE  r.owner[h] \in Cell /\ r.vtype[r.owner[h]] \in Containers
    <2>1. CASE x \in Kids(a, v)
      <3>1. r.owner[h] = c /\ r.vtype[c] = a.vtype[v] /\ a.vtype[v] \in Containers
        BY <1>2, <2>1 DEF Copied, Kids
      <3> QED
        BY <3>1
    <2>2. CASE x \notin Kids(a, v)
      <3>1. a.owner[x] \in Below(a, v) \cup {v} /\ a.vtype[a.owner[x]] \in Containers
        BY BelowOwner
      <3>2. a.owner[x] \in Below(a, v)
        BY <2>2, <3>1, BelowType DEF Kids
      <3>3. r.owner[h] = f[a.owner[x]] /\ r.vtype[f[a.owner[x]]] = a.vtype[a.owner[x]]
        BY <1>2, <2>2, <3>2 DEF Copied
      <3> QED
        BY <3>1, <3>2, <3>3, ArgTmpCell
    <2> QED
      BY <2>1, <2>2
  <1> QED
    BY <1>1, <1>2, CellNoMark

LEMMA copy_fromGuarded ==
  ASSUME NEW s, Tidy(s), NEW c \in Cell, NEW v \in Cell, NEW f \in CopyMaps(s, c, v),
         Alive(destruct(s, c), c), Alive(destruct(s, c), v), NEW L, Guarded(s, L, {})
  PROVE  Guarded(copy_from(s, c, v, f), L, {})
  <1> DEFINE a == destruct(s, c)
  <1>1. Guarded(a, L, {}) /\ s \in State /\ a.vtype[c] = "Null" /\ FreeIsBlank(a)
    BY destructGuarded, destructNull, destructTidy DEF Tidy
  <1>2. Copied(a, c, v, f, copy_from(s, c, v, f))
    BY <1>1, copy_fromEffect
  <1>3. \A x \in Below(a, v) : f[x] \in Heap /\ a.owner[f[x]] = Free
    BY <1>1, CopyMapsFree
  <1> HIDE DEF a
  <1> QED
    BY <1>1, <1>2, <1>3, CopiedGuarded

LEMMA CopyToNullGuarded ==
  ASSUME NEW s, Tidy(s), NEW c \in Cell, NEW v \in Cell, NEW f \in CopyMaps(s, c, v),
         s.vtype[c] = "Null", Alive(s, c), Alive(s, v), NEW L, NEW X, Guarded(s, L, X), c \notin X
  PROVE  Guarded(copy_from(s, c, v, f), L, X)
  <1>1. /\ Copied(s, c, v, f, copy_from(s, c, v, f))
        /\ \A x \in Below(s, v) : f[x] \in Heap /\ s.owner[f[x]] = Free
    BY CopyToNull
  <1> QED
    BY <1>1, CopiedGuarded DEF Tidy

\* Until its tag says Array, the container at c may hide what push_back keeps.
LEMMA PushReadyGuarded ==
  ASSUME NEW s, Tidy(s), NEW c \in Cell, c # Tmp, Alive(s, c), Empty(s, Tmp),
         NEW m, Wraps(s, c) => Fresh(s, m) /\ m # c, NEW L, Guarded(s, L, {})
  PROVE  Guarded(PushReady(s, c, m), L, {c})
  <1> DEFINE a == PushReady(s, c, m)
  <1>1. Wraps(s, c) => Fresh(s, m) /\ m # c
    OBVIOUS
  <1>2. Readied(s, c, m, a)
    BY <1>1, PushReadyEffect
  <1> HIDE DEF a
  <1>3. ASSUME NEW h \in Heap \ L
        PROVE  /\ a.owner[h] # Stray
               /\ a.owner[h] \in Cell \ {c} => a.vtype[a.owner[h]] \in Containers
    <2>1. s.owner[h] # Stray /\ (s.owner[h] \in Cell => s.vtype[s.owner[h]] \in Containers)
      BY DEF Guarded
    <2>2. CASE Wraps(s, c) /\ h = m
      <3>1. PushReady(s, c, m) = WrapInArray(s, c, m)
        BY <2>2 DEF PushReady, Wraps
      <3>2. a.owner[h] = c
        BY <1>1, <2>2, <3>1, WrapInArrayEffect DEF Wrapped, Wraps, a
      <3> QED
        BY <1>1, <3>2, CellNoMark
    <2>3. CASE ~(Wraps(s, c) /\ h = m)
      <3>1. a.owner[h] = IF s.owner[h] # c \/ s.vtype[c] = "Array" THEN s.owner[h]
                         ELSE IF s.vtype[c] = "Null" THEN Stray ELSE m
        BY <1>1, <2>3, PushReadyOwners DEF a
      <3>2. CASE a.owner[h] = s.owner[h]
        <4>1. Wraps(s, c) => s.vtype[m] = "Null" /\ m \in Cell
          BY <1>1, ArgTmpCell DEF Fresh
        <4>2. s.owner[h] \in Cell => ~(Wraps(s, c) /\ s.owner[h] = m)
          BY <2>1, <4>1 DEF Containers
        <4> QED
          BY <1>2, <2>1, <3>2, <4>2 DEF Readied
      <3>3. CASE a.owner[h] # s.owner[h]
        <4>1. s.owner[h] = c /\ s.vtype[c] \in Containers /\ s.vtype[c] # "Array"
          BY <1>1, <2>1, <3>1, <3>3
        <4>2. Wraps(s, c) /\ a.owner[h] = m
          BY <3>1, <4>1 DEF Wraps, Containers
        <4>3. a = WrapInArray(s, c, m) /\ s.vtype[c] # "Null"
          BY <4>2 DEF PushReady, Wraps, a
        <4>4. Wrapped(s, c, m, a)
          BY <1>1, <4>2, <4>3, WrapInArrayEffect
        <4>5. m \in Cell /\ a.vtype[m] = s.vtype[c]
          BY <1>1, <4>2, <4>4, ArgTmpCell DEF Wrapped, Fresh
        <4> QED
          BY <4>1, <4>2, <4>5, CellNoMark
      <3> QED
        BY <3>2, <3>3
    <2> QED
      BY <2>2, <2>3
  <1> QED
    BY <1>3 DEF Guarded, a

LEMMA make_uniqueGuarded ==
  ASSUME NEW s \in State, NEW n \in Heap, NEW L, NEW X, Guarded(s, L, X)
  PROVE  Guarded(make_unique(s, n), L, X)
  <1> DEFINE p == make_unique(s, n)
  <1>1. p.vtype = s.vtype /\ \A h \in Heap : p.owner[h] = IF h = n THEN Uptr ELSE s.owner[h]
    BY make_uniqueEffect
  <1> HIDE DEF p
  <1>2. Guarded(p, L, X)
    BY <1>1, CellNoMark, OwnerAssumption DEF Guarded
  <1> QED
    BY <1>2 DEF p

LEMMA AppendedGuarded ==
  ASSUME NEW b, NEW c \in Cell, NEW n \in Heap, NEW r, Appended(b, c, n, r),
         NEW L, Guarded(b, L, {c})
  PROVE  Guarded(r, L, {})
  <1> SUFFICES ASSUME NEW h \in Heap \ L
               PROVE  /\ r.owner[h] # Stray
                      /\ r.owner[h] \in Cell => r.vtype[r.owner[h]] \in Containers
    BY DEF Guarded
  <1>1. b.owner[h] # Stray /\ (b.owner[h] \in Cell \ {c} => b.vtype[b.owner[h]] \in Containers)
    BY DEF Guarded
  <1>2. /\ r.owner[h] = IF h = n THEN c ELSE b.owner[h]
        /\ \A e \in Cell : r.vtype[e] = IF e = c THEN "Array" ELSE b.vtype[e]
    BY DEF Appended
  <1>3. "Array" \in Containers
    BY DEF Containers
  <1> QED
    BY <1>1, <1>2, <1>3, CellNoMark

\* The node that push_back has made, just before its argument comes.
LEMMA PushNodeGuarded ==
  ASSUME NEW s, NEW c, NEW m, NEW n, PushArgs(s, c, m, n), NEW L, Guarded(s, L, {})
  PROVE  Guarded(make_unique(PushReady(s, c, m), n), L, {c})
  <1>1. Readied(s, c, m, PushReady(s, c, m)) /\ n \in Heap
    BY PushReadyEffect DEF PushArgs, Fresh
  <1>2. PushReady(s, c, m) \in State
    BY <1>1 DEF Readied, Tidy
  <1>3. Guarded(PushReady(s, c, m), L, {c})
    BY PushReadyGuarded DEF PushArgs
  <1> QED
    BY <1>1, <1>2, <1>3, make_uniqueGuarded

\* The argument may be c itself.
LEMMA PushLoadedGuarded ==
  ASSUME NEW s, NEW c, NEW m, NEW n, PushArgs(s, c, m, n),
         NEW v \in Cell, v # n, Alive(s, v), NEW L, Guarded(s, L, {})
  PROVE  /\ Guarded(move_from(make_unique(PushReady(s, c, m), n), n, v), L, {c})
         /\ \A f \in PushMaps(s, c, v, m, n) :
              Guarded(copy_from(make_unique(PushReady(s, c, m), n), n, v, f), L, {c})
  <1> DEFINE p == make_unique(PushReady(s, c, m), n)
  <1>1. /\ Tidy(p) /\ p.vtype[n] = "Null" /\ p.owner[n] = Uptr
        /\ \A h \in Heap : p.owner[h] = Free <=> s.owner[h] = Free /\ h # n /\ ~(Wraps(s, c) /\ h = m)
    BY PushNode
  <1>2. Guarded(p, L, {c})
    BY PushNodeGuarded
  <1>3. PushMaps(s, c, v, m, n) = CopyMaps(p, n, v)
    BY DEF PushMaps
  <1> HIDE DEF p
  <1>4. n \in Cell /\ n # c /\ Alive(p, n) /\ Alive(p, v)
    BY <1>1, OwnerAssumption, ArgTmpCell DEF PushArgs, Fresh, Alive
  <1>5. Guarded(move_from(p, n, v), L, {c})
    BY <1>1, <1>2, <1>4, MoveToNullGuarded
  <1>6. \A f \in CopyMaps(p, n, v) : Guarded(copy_from(p, n, v, f), L, {c})
    BY <1>1, <1>2, <1>4, CopyToNullGuarded
  <1> QED
    BY <1>3, <1>5, <1>6 DEF p

LEMMA PushMovedGuarded ==
  ASSUME NEW s, NEW c, NEW m, NEW n, PushArgs(s, c, m, n),
         NEW v \in Cell, v # n, v # Tmp, Alive(s, v), ~(Wraps(s, c) /\ v = m),
         c = v => ~PushMoved(s, c, v, m, n).ub, NEW L, Guarded(s, L, {})
  PROVE  Guarded(PushMoved(s, c, v, m, n), L, {})
  <1> DEFINE b == move_from(make_unique(PushReady(s, c, m), n), n, v)
  <1>1. Loaded(s, c, m, n, b)
    BY PushMovedEffect
  <1>2. Guarded(b, L, {c})
    BY PushLoadedGuarded
  <1>3. PushMoved(s, c, v, m, n) = SetTag(emplace_back(b, c, n), c, "Array")
    BY DEF PushMoved
  <1>4. c \in Cell /\ n \in Heap
    BY DEF PushArgs, Fresh
  <1> HIDE DEF b
  <1>5. Appended(b, c, n, PushMoved(s, c, v, m, n))
    BY <1>1, <1>3, PushEnd
  <1> QED
    BY <1>2, <1>4, <1>5, AppendedGuarded

LEMMA PushCopiedGuarded ==
  ASSUME NEW s, NEW c, NEW m, NEW n, PushArgs(s, c, m, n),
         NEW v \in Cell, v # n, Alive(s, v), NEW f \in PushMaps(s, c, v, m, n),
         NEW L, Guarded(s, L, {})
  PROVE  Guarded(PushCopied(s, c, v, m, n, f), L, {})
  <1> DEFINE b == copy_from(make_unique(PushReady(s, c, m), n), n, v, f)
  <1>1. Loaded(s, c, m, n, b)
    BY PushCopiedEffect
  <1>2. Guarded(b, L, {c})
    BY PushLoadedGuarded
  <1>3. PushCopied(s, c, v, m, n, f) = SetTag(emplace_back(b, c, n), c, "Array")
    BY DEF PushCopied
  <1>4. c \in Cell /\ n \in Heap
    BY DEF PushArgs, Fresh
  <1> HIDE DEF b
  <1>5. Appended(b, c, n, PushCopied(s, c, v, m, n, f))
    BY <1>1, <1>3, PushEnd
  <1> QED
    BY <1>2, <1>4, <1>5, AppendedGuarded

LEMMA InsertKeyGuarded ==
  ASSUME NEW s, Tidy(s), NEW c \in Cell, Alive(s, c), s.vtype[c] \in {"Null", "Map"},
         NEW k \in Keys, NEW n, Fresh(s, n), n # c, NEW L, Guarded(s, L, {})
  PROVE  Guarded(InsertKey(s, c, k, n), L, {})
  <1> DEFINE r == InsertKey(s, c, k, n)
  <1>1. /\ \A e \in Cell : r.vtype[e] = IF e = c THEN "Map" ELSE s.vtype[e]
        /\ \A h \in Heap : r.owner[h] = IF h = n THEN c
                                        ELSE IF s.vtype[c] = "Null" /\ s.owner[h] = c THEN Stray
                                        ELSE s.owner[h]
    BY InsertKeyEffect
  <1> HIDE DEF r
  <1>2. Guarded(r, L, {})
    BY <1>1, CellNoMark DEF Guarded, Containers
  <1> QED
    BY <1>2 DEF r

\* A container is constructed in a Null, or nothing is.
LEMMA constructGuarded ==
  ASSUME NEW s \in State, NEW c \in Cell, NEW t \in Types, NEW d \in Payloads \cup {NoData},
         s.vtype[c] = "Null", NEW L, Guarded(s, L, {})
  PROVE  Guarded(construct(s, c, t, d), L, {})
  <1> DEFINE k == construct(s, c, t, d)
  <1>1. /\ k.vtype = s.vtype
        /\ \A h \in Heap : k.owner[h] = IF s.owner[h] = c THEN Stray ELSE s.owner[h]
    BY constructEffect
  <1> HIDE DEF k
  <1>2. Guarded(k, L, {})
    BY <1>1 DEF Guarded, Containers
  <1> QED
    BY <1>2 DEF k

LEMMA SetTagGuarded ==
  ASSUME NEW s \in State, NEW c \in Cell, NEW t \in Types, s.vtype[c] = "Null",
         NEW L, Guarded(s, L, {})
  PROVE  Guarded(SetTag(s, c, t), L, {})
  <1> DEFINE k == SetTag(s, c, t)
  <1>1. k.owner = s.owner /\ \A e \in Cell : k.vtype[e] = IF e = c THEN t ELSE s.vtype[e]
    BY SetTagEffect
  <1> HIDE DEF k
  <1>2. Guarded(k, L, {})
    BY <1>1 DEF Guarded, Containers
  <1> QED
    BY <1>2 DEF k

LEMMA FreeNodeGuarded ==
  ASSUME NEW s \in State, NEW n \in Heap, NEW L, NEW X, X \cap Below(s, n) = {}, n \notin X,
         Guarded(s, L, X)
  PROVE  Guarded(FreeNode(s, n), L, X)
  <1> DEFINE a == destruct(s, n)
             r == Release(a, {n})
  <1>1. Guarded(a, L, X) /\ a \in State /\ a.vtype[n] = "Null" /\ n \in Cell
    BY destructGuarded, destructType, destructNull, ArgTmpCell
  <1> HIDE DEF a
  <1>2. /\ \A e \in Cell : r.vtype[e] = IF e \in {n} THEN "Null" ELSE a.vtype[e]
        /\ \A h \in Heap : r.owner[h] = IF h \in {n} THEN Free
                                        ELSE IF a.owner[h] \in {n} THEN Stray ELSE a.owner[h]
    BY <1>1, ReleaseEffect
  <1>3. r = FreeNode(s, n)
    BY DEF FreeNode, r, a
  <1> HIDE DEF r
  <1>4. \A h \in Heap \ L : a.owner[h] # n
    BY <1>1, GuardedNull
  <1>5. Guarded(r, L, X)
    BY <1>1, <1>2, <1>4, OwnerAssumption, CellNoMark DEF Guarded
  <1> QED
    BY <1>3, <1>5

\* The node of a push_back that fails takes with it what came from v, and
\* that is not c.
LEMMA PushFailedBelow ==
  ASSUME NEW s, Quiet(s), NEW c \in Addressable(s), NEW v \in Addressable(s),
         NEW m \in FreeNodes(s), NEW n \in FreeNodes(s),
         (m = n) <=> s.vtype[c] \in {"Null", "Array"},
         c \notin Below(s, v), c = v => Wraps(s, c),
         NEW b, b = move_from(make_unique(PushReady(s, c, m), n), n, v)
  PROVE  b \in State /\ c \notin Below(b, n)
  <1> DEFINE a == PushReady(s, c, m)
             p == make_unique(a, n)
             B == Below(s, v)
  <1>1. PushArgs(s, c, m, n)
    BY PushArgsHold
  <1>2. /\ s \in State /\ c \in Cell /\ v \in Cell /\ Alive(s, v) /\ v # n /\ v # m /\ v # Tmp
        /\ n \in Heap /\ n \in Cell /\ s.owner[n] = Free /\ s.owner[m] = Free /\ m \in Heap
        /\ c # n /\ B \subseteq Heap
    BY QuietFacts, AddressableFacts, OperandNotFree, ArgTmpCell, BelowType DEF FreeNodes
  <1>3. /\ Tidy(p) /\ p.vtype[n] = "Null" /\ p.held[n] = "none" /\ p.owner[n] = Uptr
        /\ \A e \in Cell : e # c /\ ~(Wraps(s, c) /\ e = m) => p.vtype[e] = s.vtype[e]
        /\ \A h \in Heap : p.owner[h] = Free <=> s.owner[h] = Free /\ h # n /\ ~(Wraps(s, c) /\ h = m)
    BY <1>1, PushNode
  <1>4. \A h \in Heap : h # n => p.owner[h] = a.owner[h]
    <2>1. a \in State
      <3>1. Readied(s, c, m, a)
        BY <1>1, PushReadyEffect DEF PushArgs
      <3> QED
        BY <3>1 DEF Readied, Tidy
    <2> HIDE DEF a
    <2> QED
      BY <1>2, <2>1, make_uniqueEffect
  <1>5. CASE c = v
    <2>1. Moved(p, n, c, b) /\ Tidy(b) /\ \A h \in Heap : b.owner[h] = p.owner[h] /\ p.owner[h] # n
      BY <1>1, <1>5, SelfPush
    <2>2. Below(b, n) = {}
      BY <2>1, BelowChildless
    <2> QED
      BY <2>1, <2>2 DEF Tidy
  <1>6. CASE c # v
    <2>1. \A h \in Heap : ~(Wraps(s, c) /\ h = m) =>
            a.owner[h] = IF s.owner[h] # c \/ s.vtype[c] = "Array" THEN s.owner[h]
                         ELSE IF s.vtype[c] = "Null" THEN Stray ELSE m
      BY <1>1, PushReadyOwners DEF PushArgs
    <2>2. Wraps(s, c) => a.owner[m] = c
      <3> SUFFICES ASSUME Wraps(s, c) PROVE a.owner[m] = c
        OBVIOUS
      <3>1. a = WrapInArray(s, c, m)
        BY DEF PushReady, Wraps
      <3> QED
        BY <1>1, <1>2, <3>1, WrapInArrayEffect DEF PushArgs, Wrapped, Wraps
    <2> HIDE DEF a
    <2>3. \A h \in Heap : p.owner[h] \in B \cup {v} => h # n /\ s.owner[h] = p.owner[h]
      <3>1. c \notin B \cup {v} /\ m \notin B \cup {v} /\ Stray \notin B \cup {v} /\ Uptr \notin B \cup {v}
        <4>1. m \notin B
          <5>1. \A h \in B : s.owner[h] \in B \cup {v}
            BY BelowOwner
          <5> QED
            BY <1>2, <5>1, CellNoMark, ArgTmpCell
        <4> QED
          BY <1>2, <1>6, <4>1, CellNoMark, ArgTmpCell
      <3> QED
        BY <1>3, <1>4, <2>1, <2>2, <3>1
    <2>4. n \notin B
      <3>1. \A h \in B : s.owner[h] \in B \cup {v}
        BY BelowOwner
      <3> QED
        BY <1>2, <3>1, CellNoMark, ArgTmpCell
    <2> HIDE DEF p
    <2>5. Alive(p, v) /\ Alive(p, n)
      BY <1>2, <1>3, OwnerAssumption DEF Alive
    <2>6. b = move_from(p, n, v)
      BY DEF p, a
    <2>7. Moved(p, n, v, b) /\ Tidy(b)
      BY <1>2, <1>3, <2>5, <2>6, MoveToNull
    <2>8. \A h \in Heap : p.owner[h] # n
      BY <1>2, <1>3, OwnedNone DEF Tidy, Containers
    <2>9. ASSUME NEW h \in Heap \ B, b.owner[h] \in B \cup {n}, b.vtype[b.owner[h]] \in Containers
          PROVE  FALSE
      <3>1. s.owner[h] \in B \cup {v} => s.vtype[s.owner[h]] \notin Containers
        BY <2>9, BelowClosed DEF Closed
      <3>2. CASE h \in Kids(p, v)
        <4>1. p.owner[h] = v /\ p.vtype[v] \in Containers
          BY <3>2 DEF Kids
        <4>2. p.vtype[v] = s.vtype[v]
          BY <1>2, <1>3, <1>6
        <4> QED
          BY <2>3, <3>1, <4>1, <4>2
      <3>3. CASE h \notin Kids(p, v)
        <4>1. b.owner[h] = p.owner[h] /\ p.owner[h] \in B
          BY <2>4, <2>7, <2>8, <2>9, <3>3, CellNoMark, ArgTmpCell, <1>2 DEF Moved
        <4>2. s.owner[h] = p.owner[h] /\ p.owner[h] \in Cell /\ p.owner[h] # n
          BY <1>2, <2>3, <2>4, <4>1, ArgTmpCell
        <4>3. p.owner[h] # c /\ p.owner[h] # m
          <5>1. \A x \in B : s.owner[x] \in B \cup {v}
            BY BelowOwner
          <5> QED
            BY <1>2, <4>1, <5>1, CellNoMark, ArgTmpCell
        <4>4. b.vtype[p.owner[h]] \in {"Null", p.vtype[p.owner[h]]}
          BY <2>7, <4>2 DEF Moved
        <4>5. p.vtype[p.owner[h]] = s.vtype[p.owner[h]]
          BY <1>3, <4>2, <4>3
        <4> QED
          BY <2>9, <3>1, <4>1, <4>2, <4>4, <4>5 DEF Containers
      <3> QED
        BY <3>2, <3>3
    <2>10. Closed(b, n, B)
      BY <2>9 DEF Closed
    <2>11. Below(b, n) \subseteq B
      BY <1>2, <2>10, BelowLeast
    <2> QED
      BY <2>7, <2>11 DEF Tidy
  <1> QED
    BY <1>5, <1>6

LEMMA PushFailedGuarded ==
  ASSUME NEW s, Quiet(s), NEW c \in Addressable(s), NEW v \in Addressable(s),
         NEW m \in FreeNodes(s), NEW n \in FreeNodes(s),
         (m = n) <=> s.vtype[c] \in {"Null", "Array"},
         c \notin Below(s, v), c = v => Wraps(s, c), NEW L, Guarded(s, L, {})
  PROVE  Guarded(PushFailed(s, c, v, m, n), L, {c})
  <1> DEFINE b == move_from(make_unique(PushReady(s, c, m), n), n, v)
  <1>1. b \in State /\ c \notin Below(b, n)
    BY PushFailedBelow
  <1>2. PushArgs(s, c, m, n) /\ v \in Cell /\ v # n /\ Alive(s, v) /\ n \in Heap /\ c # n
    BY PushArgsHold, QuietFacts, AddressableFacts, OperandNotFree DEF FreeNodes
  <1>3. Guarded(b, L, {c})
    BY <1>2, PushLoadedGuarded
  <1>4. PushFailed(s, c, v, m, n) = FreeNode(b, n)
    BY DEF PushFailed
  <1> HIDE DEF b
  <1> QED
    BY <1>1, <1>2, <1>3, <1>4, FreeNodeGuarded

LEMMA WrapFailedGuarded ==
  ASSUME NEW s, Quiet(s), NEW c \in Addressable(s), NEW L, Guarded(s, L, {})
  PROVE  Guarded(WrapFailed(s, c), L, {})
  <1> DEFINE s1 == move_from(s, Tmp, c)
             k == construct(s1, c, "Array", NoData)
  <1>1. c \in Cell /\ c # Tmp /\ Alive(s, c) /\ Tmp \in Cell /\ Alive(s, Tmp) /\ Tidy(s) /\ s.vtype[Tmp] = "Null"
    BY QuietFacts, AddressableFacts, LocalsApart DEF Empty, Alive
  <1>2. Guarded(s1, L, {}) /\ Moved(s, Tmp, c, s1) /\ Tidy(s1)
    BY <1>1, MoveToNull, MoveToNullGuarded
  <1> HIDE DEF s1
  <1>3. s1.vtype[c] = "Null" /\ s1 \in State
    BY <1>1, <1>2 DEF Moved
  <1>4. Guarded(k, L, {}) /\ k \in State
    BY <1>1, <1>2, <1>3, constructGuarded, constructEffect, TagsType
  <1>5. WrapFailed(s, c) = destruct(k, Tmp)
    BY DEF WrapFailed, s1
  <1> HIDE DEF k
  <1> QED
    BY <1>1, <1>4, <1>5, destructGuarded

LEMMA SwapGuarded ==
  ASSUME NEW s, Quiet(s), NEW c \in Addressable(s), NEW v \in Addressable(s),
         NEW L, Guarded(s, L, {})
  PROVE  Guarded(swapped(s, c, v), L, {})
  <1> DEFINE s1 == move_from(s, Tmp, v)
             s2 == move_from(s1, v, c)
             s3 == move_from(s2, c, Tmp)
  <1>0. /\ c \in Cell /\ v \in Cell /\ c # Tmp /\ v # Tmp /\ Alive(s, c) /\ Alive(s, v)
        /\ Tmp \in Cell \ Heap /\ Tidy(s) /\ s.vtype[Tmp] = "Null" /\ Alive(s, Tmp)
    BY QuietFacts, AddressableFacts, LocalsApart DEF Empty, Alive
  <1>1. Moved(s, Tmp, v, s1) /\ Tidy(s1) /\ Guarded(s1, L, {})
    BY <1>0, MoveToNull, MoveToNullGuarded
  <1> HIDE DEF s1
  <1>2. Alive(s1, c) /\ Alive(s1, v) /\ s1.vtype[v] = "Null"
    BY <1>0, <1>1, OwnerAssumption, CellNoMark DEF Moved, Alive
  <1>3. Guarded(s2, L, {})
    BY <1>0, <1>1, <1>2, MoveToNullGuarded
  <1>4. Tidy(s2) /\ Alive(s2, c) /\ s2.vtype[c] = "Null"
    <2>1. CASE c = v
      <3>1. destruct(s1, c) = s1
        BY <1>2, <2>1 DEF destruct
      <3>2. s2 = s1
        BY <1>0, <1>1, <1>2, <2>1, <3>1, SelfMove DEF Tidy
      <3> QED
        BY <1>1, <1>2, <2>1, <3>2
    <2>2. CASE c # v
      <3>1. Moved(s1, v, c, s2) /\ Tidy(s2)
        BY <1>0, <1>1, <1>2, <2>2, MoveToNull
      <3> QED
        BY <1>0, <1>2, <3>1, OwnerAssumption, CellNoMark DEF Moved, Alive
    <2> QED
      BY <2>1, <2>2
  <1> HIDE DEF s2
  <1>5. Guarded(s3, L, {}) /\ s3 \in State
    BY <1>0, <1>3, <1>4, MoveToNull, MoveToNullGuarded DEF Alive, Tidy
  <1>6. swapped(s, c, v) = destruct(s3, Tmp)
    BY DEF swapped, s3, s2, s1
  <1> HIDE DEF s3
  <1> QED
    BY <1>0, <1>5, <1>6, destructGuarded

LEMMA LiteralGuarded ==
  ASSUME NEW s, Quiet(s), NEW l \in Literals, NEW c \in Addressable(s), NEW L, Guarded(s, L, {}),
         NEW a, a = Literal(s, l[1], l[2])
  PROVE  Guarded(a, L, {})
  <1>1. /\ \A h \in Heap : a.owner[h] = s.owner[h]
        /\ \A e \in Cell : e # Arg => a.vtype[e] = s.vtype[e]
    BY LiteralQuiet
  <1>2. \A h \in Heap : s.owner[h] # Arg
    BY QuietFacts, OwnedNone, LocalsApart DEF Tidy, Empty, Containers
  <1> QED
    BY <1>1, <1>2 DEF Guarded

LEMMA MoveOfTemporaryGuarded ==
  ASSUME NEW s, Tidy(s), NEW c \in Cell, Alive(destruct(s, c), c), NEW L, Guarded(s, L, {}),
         NEW r, r = move_from(s, c, Arg)
  PROVE  Guarded(r, L, {})
  <1>1. Arg \in Cell /\ Alive(destruct(s, c), Arg)
    BY LocalsApart DEF Alive
  <1> QED
    BY <1>1, move_fromGuarded

LEMMA AssignNewGuarded ==
  ASSUME NEW s, Quiet(s), NEW c \in Addressable(s), NEW l \in Literals, NEW L, Guarded(s, L, {})
  PROVE  Guarded(move_from(Literal(s, l[1], l[2]), c, Arg), L, {})
  <1> DEFINE a == Literal(s, l[1], l[2])
  <1>1. Tidy(a) /\ Alive(destruct(a, c), c) /\ Guarded(a, L, {})
    BY LiteralQuiet, LiteralGuarded
  <1>2. c \in Cell
    BY QuietFacts, AddressableFacts
  <1> HIDE DEF a
  <1>3. Guarded(move_from(a, c, Arg), L, {})
    BY <1>1, <1>2, MoveOfTemporaryGuarded
  <1> QED
    BY <1>3 DEF a

LEMMA PushBackNewGuarded ==
  ASSUME NEW s, Quiet(s), NEW c \in Addressable(s), NEW l \in Literals,
         NEW m \in FreeNodes(s), NEW n \in FreeNodes(s),
         (m = n) <=> s.vtype[c] \in {"Null", "Array"}, NEW L, Guarded(s, L, {})
  PROVE  Guarded(PushMoved(Literal(s, l[1], l[2]), c, Arg, m, n), L, {})
  <1> DEFINE a == Literal(s, l[1], l[2])
  <1>1. /\ Tidy(a) /\ Empty(a, Tmp) /\ (\A h \in Heap : a.owner[h] = s.owner[h])
        /\ \A e \in Cell : e # Arg => a.vtype[e] = s.vtype[e] /\ a.held[e] = s.held[e]
        /\ Alive(a, c)
    BY LiteralQuiet
  <1>2. Guarded(a, L, {})
    BY LiteralGuarded
  <1> HIDE DEF a
  <1>3. c \in Cell /\ c # Tmp /\ c # Arg /\ PushArgs(s, c, m, n)
    BY QuietFacts, AddressableFacts, PushArgsHold
  <1>4. \A h \in Heap : Fresh(s, h) => Fresh(a, h)
    BY <1>1, LocalsApart, ArgTmpCell DEF Fresh
  <1>5. Wraps(a, c) <=> Wraps(s, c)
    BY <1>1, <1>3 DEF Wraps
  <1>6. PushArgs(a, c, m, n)
    BY <1>1, <1>3, <1>4, <1>5 DEF PushArgs, Fresh
  <1>7. Arg # n /\ ~(Wraps(a, c) /\ Arg = m) /\ Alive(a, Arg)
    BY <1>3, <1>5, LocalsApart DEF PushArgs, Fresh, Alive
  <1>8. Guarded(PushMoved(a, c, Arg, m, n), L, {})
    BY <1>2, <1>3, <1>6, <1>7, LocalsApart, PushMovedGuarded
  <1> QED
    BY <1>8 DEF a

LEMMA EraseGuarded ==
  ASSUME NEW s, Quiet(s), NEW c \in Cell, NEW x \in Heap, NEW L, Guarded(s, L, {})
  PROVE  Guarded(Erase(s, c, x), L, {})
  <1> DEFINE a == FreeNode(s, x)
             r == Erase(s, c, x)
  <1>1. Guarded(a, L, {}) /\ a \in State
    BY QuietFacts, FreeNodeGuarded, FreeNodeTidy DEF Tidy
  <1>2. r.vtype = a.vtype /\ r.owner = a.owner
    <2>1. CASE s.vtype[c] = "Map"
      BY <2>1 DEF Erase
    <2>2. CASE s.vtype[c] # "Map"
      <3> HIDE DEF a
      <3>1. r = [a EXCEPT !.slot = [h \in Heap |->
                   IF a.owner[h] = c /\ a.slot[h] > s.slot[x] THEN a.slot[h] - 1 ELSE a.slot[h]]]
        BY <2>2 DEF Erase, a
      <3> HIDE DEF r
      <3> QED
        BY <1>1, <3>1 DEF State
    <2> QED
      BY <2>1, <2>2
  <1> HIDE DEF r, a
  <1>3. Guarded(r, L, {})
    BY <1>1, <1>2 DEF Guarded
  <1> QED
    BY <1>3 DEF r

LEMMA LeaveScopeGuarded ==
  ASSUME NEW s, Quiet(s), NEW x \in Named, NEW L, Guarded(s, L, {})
  PROVE  Guarded(construct(destruct(s, x), x, "Null", NoData), L, {})
  <1>1. s \in State /\ x \in Cell
    BY QuietFacts, ArgTmpCell
  <1>2. /\ Guarded(destruct(s, x), L, {})
        /\ destruct(s, x) \in State /\ destruct(s, x).vtype[x] = "Null"
    BY <1>1, destructGuarded, destructType, destructNull
  <1> QED
    BY <1>1, <1>2, constructGuarded, TagsType

LEMMA IndexKeyFailsGuarded ==
  ASSUME NEW s, Quiet(s), NEW c \in Addressable(s), s.vtype[c] = "Null", NEW L, Guarded(s, L, {})
  PROVE  Guarded(SetTag(construct(s, c, "Map", NoData), c, "Map"), L, {})
  <1> DEFINE k == construct(s, c, "Map", NoData)
  <1>1. c \in Cell /\ s \in State
    BY QuietFacts, AddressableFacts
  <1>2. Guarded(k, L, {}) /\ k \in State /\ k.vtype[c] = "Null"
    BY <1>1, constructGuarded, constructEffect, TagsType
  <1> HIDE DEF k
  <1>3. Guarded(SetTag(k, c, "Map"), L, {})
    BY <1>1, <1>2, SetTagGuarded, TagsType
  <1> QED
    BY <1>3 DEF k

LEMMA ListOfOneGuarded ==
  ASSUME NEW s, Quiet(s), NEW c \in Named, NEW x \in Addressable(s), NEW f \in CopyMaps(s, Arg, x),
         NEW L, Guarded(s, L, {})
  PROVE  Guarded(move_from(copy_from(s, Arg, x, f), c, Arg), L, {})
  <1> DEFINE q == copy_from(s, Arg, x, f)
  <1>1. /\ x \in Cell /\ Alive(s, x) /\ Arg \in Cell /\ Alive(s, Arg) /\ Tidy(s)
        /\ s.vtype[Arg] = "Null"
    BY QuietFacts, AddressableFacts, LocalsApart DEF Alive, Empty
  <1>2. Tidy(q) /\ Guarded(q, L, {})
    BY <1>1, CopyToNull, CopyToNullGuarded
  <1> HIDE DEF q
  <1>3. c \in Cell /\ Alive(destruct(q, c), c)
    BY CellAssumption, ArgTmpCell DEF Alive
  <1>4. Guarded(move_from(q, c, Arg), L, {})
    BY <1>2, <1>3, MoveOfTemporaryGuarded
  <1> QED
    BY <1>4 DEF q

LEMMA ListOfTwoGuarded ==
  ASSUME NEW s, Quiet(s), NEW c \in Named, NEW x \in Addressable(s), NEW y \in Addressable(s),
         NEW m \in FreeNodes(s), NEW n \in FreeNodes(s), m # n,
         NEW f \in PushMaps(make_unique(s, n), Arg, x, m, m),
         NEW a, a = PushCopied(make_unique(s, n), Arg, x, m, m, f),
         NEW g \in PushMaps(a, Arg, y, n, n), NEW L, Guarded(s, L, {})
  PROVE  Guarded(move_from(PushCopied(a, Arg, y, n, n, g), c, Arg), L, {})
  <1> DEFINE p == make_unique(s, n)
             b == PushCopied(a, Arg, y, n, n, g)
  <1>1. /\ m \in Heap /\ n \in Heap /\ Fresh(s, m) /\ Fresh(s, n) /\ Arg \in Cell /\ Arg \notin Heap
        /\ x \in Cell /\ y \in Cell /\ x # n /\ y # n /\ x # m /\ Alive(s, x) /\ Alive(s, y)
    BY QuietFacts, AddressableFacts, OperandNotFree, LocalsApart DEF FreeNodes
  <1>2. /\ Tidy(p) /\ p.vtype = s.vtype /\ p.held = s.held /\ Guarded(p, L, {})
        /\ \A h \in Heap : p.owner[h] = IF h = n THEN Uptr ELSE s.owner[h]
    BY <1>1, QuietFacts, make_uniqueEffect, make_uniqueTidy, make_uniqueGuarded
  <1>3. f \in PushMaps(p, Arg, x, m, m) /\ a = PushCopied(p, Arg, x, m, m, f)
    OBVIOUS
  <1> HIDE DEF p
  <1>4. p.vtype[Arg] = "Null" /\ Empty(p, Tmp)
    BY <1>2, QuietFacts DEF Empty
  <1>5. PushArgs(p, Arg, m, m)
    BY <1>1, <1>2, <1>4, LocalsApart DEF PushArgs, Wraps, Fresh, Alive
  <1>6. Alive(p, x) /\ Alive(p, y)
    BY <1>1, <1>2 DEF Alive
  <1>7. /\ Pushed(p, Arg, m, m, a) /\ Guarded(a, L, {})
        /\ \A e \in Cell \ Heap : e # Arg => a.vtype[e] = p.vtype[e] /\ a.held[e] = p.held[e]
        /\ \A h \in Heap : h # Arg /\ a.owner[h] = Uptr =>
             a.vtype[h] = p.vtype[h] /\ a.held[h] = p.held[h]
    BY <1>1, <1>2, <1>3, <1>5, <1>6, PushCopiedEffect, PushCopiedGuarded
  <1>8. /\ Tidy(a) /\ a.vtype[Arg] = "Array" /\ Empty(a, Tmp) /\ Alive(a, y)
        /\ \A h \in Heap : a.owner[h] = Uptr <=> h = n
    BY <1>2, <1>4, <1>6, <1>7, QuietFacts, LocalsApart DEF Pushed, Empty, Alive, Wraps
  <1>9. Fresh(a, n)
    BY <1>1, <1>2, <1>7, <1>8 DEF Fresh
  <1>10. PushArgs(a, Arg, n, n)
    BY <1>1, <1>8, <1>9, LocalsApart DEF PushArgs, Wraps, Alive
  <1>11. Pushed(a, Arg, n, n, b) /\ Guarded(b, L, {})
    BY <1>1, <1>7, <1>8, <1>10, PushCopiedEffect, PushCopiedGuarded
  <1> HIDE DEF b
  <1>12. c \in Cell /\ Alive(destruct(b, c), c) /\ Tidy(b)
    BY <1>11, CellAssumption, ArgTmpCell DEF Alive, Pushed
  <1>13. Guarded(move_from(b, c, Arg), L, {})
    BY <1>11, <1>12, MoveOfTemporaryGuarded
  <1> QED
    BY <1>13 DEF b

LEMMA PairGuarded ==
  ASSUME NEW s, Quiet(s), NEW c \in Named, NEW k \in Keys, NEW x \in Addressable(s),
         NEW n \in FreeNodes(s), NEW a, a = InsertKey(s, Arg, k, n),
         NEW f \in CopyMaps(a, n, x), NEW L, Guarded(s, L, {})
  PROVE  Guarded(move_from(copy_from(a, n, x, f), c, Arg), L, {})
  <1> DEFINE q == copy_from(a, n, x, f)
  <1>1. /\ n \in Heap /\ n \in Cell /\ Fresh(s, n) /\ Arg \in Cell /\ Arg \notin Heap
        /\ x \in Cell /\ x # n /\ Alive(s, x) /\ Alive(s, Arg) /\ Tidy(s) /\ s.vtype[Arg] = "Null"
    BY QuietFacts, AddressableFacts, OperandNotFree, LocalsApart, ArgTmpCell DEF FreeNodes, Alive, Empty
  <1>2. /\ Tidy(a) /\ Guarded(a, L, {})
        /\ \A e \in Cell : a.vtype[e] = IF e = Arg THEN "Map" ELSE s.vtype[e]
        /\ \A h \in Heap : a.owner[h] \in {IF h = n THEN Arg ELSE s.owner[h], Stray}
        /\ a.owner[n] = Arg
    BY <1>1, InsertKeyEffect, InsertKeyGuarded
  <1>3. a.vtype[n] = "Null" /\ Alive(a, n) /\ Alive(a, x)
    BY <1>1, <1>2, CellNoMark, OwnerAssumption DEF Fresh, Alive
  <1>4. Tidy(q) /\ Guarded(q, L, {})
    BY <1>1, <1>2, <1>3, CopyToNull, CopyToNullGuarded
  <1> HIDE DEF q
  <1>5. c \in Cell /\ Alive(destruct(q, c), c)
    BY CellAssumption, ArgTmpCell DEF Alive
  <1>6. Guarded(move_from(q, c, Arg), L, {})
    BY <1>4, <1>5, MoveOfTemporaryGuarded
  <1> QED
    BY <1>6 DEF q

\* No node is cut loose by a call but those of L.
NoneLost(r, L) == \A h \in Heap \ L : r.owner[h] # Stray

LEMMA GuardedNoneLost == ASSUME NEW r, NEW L, NEW X, Guarded(r, L, X) PROVE NoneLost(r, L)
  BY DEF Guarded, NoneLost

LEMMA PushBackFailsLoses ==
  ASSUME Quiet(st), NEW c \in Addressable(st), PushBackFails(c), NEW L, Guarded(st, L, {})
  PROVE  NoneLost(st', L)
  <1>1. c \in Cell /\ c # Tmp /\ Alive(st, c) /\ Tidy(st) /\ Empty(st, Tmp)
    BY QuietFacts, AddressableFacts
  <1>2. CASE st.vtype[c] = "Null" /\ st' = OpenArray(st, c)
    <2>1. st' = PushReady(st, c, c) /\ ~Wraps(st, c)
      BY <1>2 DEF PushReady, Wraps
    <2> QED
      BY <1>1, <2>1, PushReadyGuarded, GuardedNoneLost
  <1>3. ASSUME Wraps(st, c), NEW m \in FreeNodes(st), st' = WrapInArray(st, c, m)
        PROVE  NoneLost(st', L)
    <2>1. st' = PushReady(st, c, m)
      BY <1>3 DEF PushReady, Wraps
    <2>2. Fresh(st, m) /\ m # c
      BY QuietFacts, OperandNotFree
    <2> QED
      BY <1>1, <2>1, <2>2, PushReadyGuarded, GuardedNoneLost
  <1>4. CASE st' = WrapFailed(st, c)
    BY <1>4, WrapFailedGuarded, GuardedNoneLost
  <1> QED
    BY <1>2, <1>3, <1>4 DEF PushBackFails, Wraps

LEMMA NextLoses ==
  ASSUME Client # "any", Quiet(st), Next PROVE NoneLost(st', Hidden(st))
  <1> DEFINE L == Hidden(st)
  <1>0. Guarded(st, L, {})
    BY QuietGuarded
  <1> HIDE DEF L
  <1> SUFFICES NoneLost(st', L)
    BY DEF L
  <1> USE GuardedNoneLost
  <1>1. ASSUME NEW c \in Addressable(st), Call(c) PROVE NoneLost(st', L)
    <2>0. /\ c \in Cell /\ c # Tmp /\ Alive(destruct(st, c), c) /\ Tidy(st) /\ st \in State
          /\ \A v \in Addressable(st) : v \in Cell /\ v # Tmp /\ Alive(st, v)
      BY QuietFacts, AddressableFacts
    <2>a. ASSUME NEW v \in Addressable(st), v \notin Below(st, c) PROVE Alive(destruct(st, c), v)
      BY <2>0, <2>a, destructKeeps
    <2>b. ASSUME NEW m \in FreeNodes(st), NEW n \in FreeNodes(st),
                 (m = n) <=> st.vtype[c] \in {"Null", "Array"}
          PROVE  PushArgs(st, c, m, n) /\ \A v \in Addressable(st) : v # n /\ v # m
      BY <2>b, PushArgsHold, OperandNotFree
    <2>1. ASSUME NEW v \in Addressable(st), CopyAssign(c, v) PROVE NoneLost(st', L)
      BY <1>0, <2>0, <2>1, <2>a, copy_fromGuarded DEF CopyAssign, SafeCopy
    <2>2. ASSUME NEW v \in Addressable(st), MoveAssign(c, v) PROVE NoneLost(st', L)
      BY <1>0, <2>0, <2>2, <2>a, move_fromGuarded DEF MoveAssign, SafeMove, Separate
    <2>3. ASSUME NEW v \in Addressable(st), PushBackMove(c, v) PROVE NoneLost(st', L)
      <3>1. PICK m \in FreeNodes(st), n \in FreeNodes(st) :
              /\ (m = n) <=> st.vtype[c] \in {"Null", "Array"}
              /\ st' = PushMoved(st, c, v, m, n)
        BY <2>3 DEF PushBackMove
      <3>2. c = v => Wraps(st, c)
        BY <2>3 DEF PushBackMove, SafePush, Wraps
      <3>3. c = v => ~PushMoved(st, c, v, m, n).ub
        BY <2>b, <3>1, <3>2, SelfPush
      <3> QED
        BY <1>0, <2>0, <2>b, <3>1, <3>3, PushMovedGuarded
    <2>4. ASSUME NEW v \in Addressable(st), PushBackCopy(c, v) PROVE NoneLost(st', L)
      BY <1>0, <2>0, <2>b, <2>4, PushCopiedGuarded DEF PushBackCopy
    <2>5. ASSUME NEW v \in Addressable(st), RemoveElement(c, v) PROVE NoneLost(st', L)
      BY <1>0, <2>0, <2>5, EraseGuarded DEF RemoveElement, Kids
    <2>6. ASSUME NEW v \in Addressable(st), Swap(c, v) PROVE NoneLost(st', L)
      BY <1>0, <2>6, SwapGuarded DEF Swap
    <2>7. ASSUME NEW v \in Addressable(st), CopyAssignFails(c, v) PROVE NoneLost(st', L)
      BY <1>0, <2>0, <2>7, destructGuarded DEF CopyAssignFails
    <2>8. ASSUME NEW v \in Addressable(st), PushBackMoveFails(c, v) PROVE NoneLost(st', L)
      <3>1. c \notin Below(st, v) /\ (c = v => Wraps(st, c))
        BY <2>8 DEF PushBackMoveFails, SafePush, Wraps
      <3> QED
        BY <1>0, <2>8, <3>1, PushFailedGuarded DEF PushBackMoveFails
    <2>9. ASSUME NEW l \in Literals, AssignNew(c, l[1], l[2]) PROVE NoneLost(st', L)
      BY <1>0, <2>9, AssignNewGuarded DEF AssignNew
    <2>10. ASSUME NEW l \in Literals, PushBackNew(c, l[1], l[2]) PROVE NoneLost(st', L)
      BY <1>0, <2>10, PushBackNewGuarded DEF PushBackNew
    <2>11. ASSUME NEW k \in Keys, IndexKey(c, k) PROVE NoneLost(st', L)
      <3>1. PICK n \in FreeNodes(st) : st' = InsertKey(st, c, k, n)
        BY <2>11 DEF IndexKey
      <3>2. Fresh(st, n) /\ n # c /\ Alive(st, c)
        BY <2>0, QuietFacts, OperandNotFree
      <3> QED
        BY <1>0, <2>0, <2>11, <3>1, <3>2, InsertKeyGuarded DEF IndexKey
    <2>12. ASSUME NEW k \in Keys, RemoveKey(c, k) PROVE NoneLost(st', L)
      BY <1>0, <2>0, <2>12, EraseGuarded DEF RemoveKey, Kids
    <2>13. CASE StealString(c) \/ \E d \in Payloads : WriteThrough(c, d)
      <3>1. \E d : st' = [st EXCEPT !.data[c] = d]
        BY <2>13 DEF StealString, WriteThrough
      <3>2. st'.owner = st.owner
        BY <2>0, <3>1 DEF State
      <3> QED
        BY <1>0, <3>2 DEF Guarded, NoneLost
    <2>14. CASE PushBackFails(c)
      BY <1>0, <2>14, PushBackFailsLoses
    <2>15. CASE IndexKeyFails(c)
      BY <1>0, <2>15, IndexKeyFailsGuarded DEF IndexKeyFails
    <2> QED
      BY <1>1, <2>1, <2>2, <2>3, <2>4, <2>5, <2>6, <2>7, <2>8, <2>9, <2>10,
         <2>11, <2>12, <2>13, <2>14, <2>15 DEF Call
  <1>2. ASSUME NEW x \in Named, Construct(x) PROVE NoneLost(st', L)
    <2>1. ASSUME NEW v \in Addressable(st), AssignListOfOne(x, v) PROVE NoneLost(st', L)
      BY <1>0, <2>1, ListOfOneGuarded DEF AssignListOfOne
    <2>2. ASSUME NEW v \in Addressable(st), NEW y \in Addressable(st), AssignListOfTwo(x, v, y)
          PROVE  NoneLost(st', L)
      BY <1>0, <2>2, ListOfTwoGuarded DEF AssignListOfTwo
    <2>3. ASSUME NEW v \in Addressable(st), NEW k \in Keys, AssignPair(x, k, v)
          PROVE  NoneLost(st', L)
      BY <1>0, <2>3, PairGuarded DEF AssignPair
    <2> QED
      BY <1>2, <2>1, <2>2, <2>3 DEF Construct
  <1>3. ASSUME NEW x \in Named, LeaveScope(x) PROVE NoneLost(st', L)
    BY <1>0, <1>3, LeaveScopeGuarded DEF LeaveScope
  <1> QED
    BY <1>1, <1>2, <1>3 DEF Next

\* A client of the discipline loses no node, also when allocations fail: after
\* each call every node is in a container of a Value that is alive, but for
\* those that a push_back of an earlier call had left under the tag Null.
THEOREM NothingElseIsLost == ASSUME Client # "any" PROVE Spec => OnlyHiddenIsLost
  <1> DEFINE Safe == ~st'.ub => \A h \in Allocated(st') :
                       Kept(st', h) \/ (st'.owner[h] = Stray /\ Forgotten(st, h))
  <1>1. Init => Quiet(st)
    BY InitQuiet
  <1>2. Quiet(st) /\ [Next]_st => Quiet(st)'
    <2>1. CASE UNCHANGED st
      BY <2>1
    <2>2. CASE Next
      BY <2>2, NextFine DEF Fine
    <2> QED
      BY <2>1, <2>2
  <1>3. Quiet(st) /\ [Next]_st => [Safe]_st
    <2> SUFFICES ASSUME Quiet(st), Next, NEW h \in Allocated(st'), st'.owner[h] # Stray
                        \/ h \notin Hidden(st)
                 PROVE  Kept(st', h)
      BY DEF Hidden, Allocated
    <2>1. NoneLost(st', Hidden(st)) /\ Quiet(st')
      BY NextLoses, NextFine DEF Fine
    <2>2. /\ h \in Heap /\ st'.owner[h] \in Cell
          /\ st' \in State /\ Owned(st') /\ Empty(st', Tmp) /\ Empty(st', Arg)
      <3>1. h \in Heap /\ st'.owner[h] # Free
        BY DEF Allocated
      <3> QED
        BY <2>1, <3>1 DEF NoneLost, Quiet, Tidy, State
    <2>3. Alive(st', st'.owner[h]) /\ st'.held[st'.owner[h]] \in Containers
      BY <2>2 DEF Owned
    <2>4. st'.owner[h] # Tmp /\ st'.owner[h] # Arg
      BY <2>2, <2>3 DEF Empty, Containers
    <2>5. st'.owner[h] \in Named \cup Allocated(st')
      BY <2>2, <2>3, <2>4 DEF Cell, Alive, Allocated
    <2> QED
      BY <2>3, <2>5 DEF Kept
  <1> QED
    BY <1>1, <1>2, <1>3, PTL DEF Spec, OnlyHiddenIsLost
=============================================================================
