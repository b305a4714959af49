------------------------- MODULE ValueGraphProofs -------------------------
(***************************************************************************)
(* The owners of the nodes as a graph, after every call of ValueStore and  *)
(* at every Value, also while a call runs.  First: no call leaves a node   *)
(* behind that no variable reaches, as long as no allocation fails.  Then: *)
(* the positions of an Array are 1..n and the keys of a Map all different. *)
(***************************************************************************)
EXTENDS ValueOwnershipProofs

-----------------------------------------------------------------------------
(* Reachability by owners alone: the tags do not count, so that it makes   *)
(* sense in the middle of push_back, where an array is tagged Null.        *)

\* Whoever has a node in its container is tagged as a container.
Marked(s) ==
  \A h \in Heap : s.owner[h] \in Cell => s.vtype[s.owner[h]] \in Containers

\* S has every node that S or R owns.
Family(s, R, S) == \A h \in Heap : s.owner[h] \in S \cup R => h \in S

\* Every allocated node is reached from R: no family of R leaves one out.
Rooted(s, R) ==
  \A S \in SUBSET Heap :
    Family(s, R, S) => \A h \in Heap : s.owner[h] # Free => h \in S \cup R

\* What is reached from v does not have c in it.
Apart(s, c, v) == \E U \in SUBSET Heap : c \notin U /\ Family(s, {v}, U)

\* c is a root, or a node.
Placed(s, R, c) == c \in R \/ (c \in Heap /\ s.owner[c] # Free)

\* The variables of the program and the locals of the code.
Locals == Named \cup {Tmp, Arg}

LEMMA MarkedHolds ==
  ASSUME NEW s, Tidy(s), BlankBut(s, {}) PROVE Marked(s)
  BY DEF Tidy, Truthful, Owned, BlankBut, Marked, HeldBy, Containers

LEMMA RootedUse ==
  ASSUME NEW s, NEW R, Rooted(s, R), NEW S \in SUBSET Heap, Family(s, R, S)
  PROVE  \A h \in Heap : s.owner[h] # Free => h \in S \cup R
  BY DEF Rooted

\* More roots reach no less.
LEMMA RootedMore ==
  ASSUME NEW s, NEW R, NEW Q, Rooted(s, R), R \subseteq Q PROVE Rooted(s, Q)
  BY DEF Rooted, Family

LEMMA RootedSame ==
  ASSUME NEW s, NEW a, NEW R, Rooted(s, R), \A h \in Heap : a.owner[h] = s.owner[h]
  PROVE  Rooted(a, R)
  BY DEF Rooted, Family

\* In a marked state Below is a family.
LEMMA BelowFamily ==
  ASSUME NEW s, Marked(s), NEW c \in Cell PROVE Family(s, {c}, Below(s, c))
  <1> SUFFICES ASSUME NEW h \in Heap, s.owner[h] \in Below(s, c) \cup {c} PROVE h \in Below(s, c)
    BY DEF Family
  <1>1. s.owner[h] \in Cell
    BY BelowType, ArgTmpCell
  <1> QED
    BY <1>1, BelowClosed DEF Marked, Closed

LEMMA ApartBelow ==
  ASSUME NEW s, Marked(s), NEW c, NEW v \in Cell, c \notin Below(s, v) PROVE Apart(s, c, v)
  BY BelowFamily, BelowType DEF Apart

LEMMA ChildlessApart ==
  ASSUME NEW s, NEW c, NEW v, \A h \in Heap : s.owner[h] # v PROVE Apart(s, c, v)
  <1>1. Family(s, {v}, {})
    BY DEF Family
  <1> QED
    BY <1>1 DEF Apart

\* destruct frees all it puts out of reach.
LEMMA destructRooted ==
  ASSUME NEW s \in State, Marked(s), NEW R \in SUBSET Cell, Rooted(s, R), NEW c \in Cell
  PROVE  Rooted(destruct(s, c), R)
  <1> DEFINE a == destruct(s, c)
  <1>1. Destructed(s, c, a) /\ Family(s, {c}, Below(s, c)) /\ Below(s, c) \subseteq Heap
    BY destructEffect, BelowFamily, BelowType
  <1> HIDE DEF a
  <1>2. ASSUME NEW S \in SUBSET Heap, Family(a, R, S), NEW h \in Heap, a.owner[h] # Free
        PROVE  h \in S \cup R
    <2> DEFINE T == S \cup Below(s, c)
    <2>1. Family(s, R, T)
      <3> SUFFICES ASSUME NEW k \in Heap, s.owner[k] \in T \cup R, k \notin Below(s, c)
                   PROVE  k \in S
        BY DEF Family
      <3>1. s.owner[k] \notin Below(s, c)
        BY <1>1 DEF Family
      <3>2. a.owner[k] = s.owner[k]
        BY <1>1, <3>1 DEF Destructed
      <3> QED
        BY <1>2, <3>1, <3>2 DEF Family
    <2>2. s.owner[h] # Free /\ h \notin Below(s, c)
      BY <1>1, <1>2, CellNoMark, ArgTmpCell DEF Destructed
    <2>3. T \in SUBSET Heap
      BY <1>1
    <2>4. h \in T \cup R
      BY <2>1, <2>2, <2>3, RootedUse
    <2> QED
      BY <2>2, <2>4
  <1>3. Rooted(a, R)
    BY <1>2 DEF Rooted
  <1> QED
    BY <1>3 DEF a

\* A node that is made is held by a local of the call.
LEMMA make_uniqueRooted ==
  ASSUME NEW s \in State, NEW R \in SUBSET Cell, Rooted(s, R),
         NEW n \in Heap, s.owner[n] \in {Free, Uptr}
  PROVE  Rooted(make_unique(s, n), R \cup {n})
  <1> DEFINE a == make_unique(s, n)
  <1>1. \A h \in Heap : a.owner[h] = IF h = n THEN Uptr ELSE s.owner[h]
    BY make_uniqueEffect
  <1> HIDE DEF a
  <1>2. ASSUME NEW S \in SUBSET Heap, Family(a, R \cup {n}, S), NEW h \in Heap, a.owner[h] # Free
        PROVE  h \in S \cup (R \cup {n})
    <2>1. Family(s, R, S)
      BY <1>1, <1>2, CellNoMark, ArgTmpCell DEF Family
    <2> QED
      BY <1>1, <1>2, <2>1, RootedUse
  <1>3. Rooted(a, R \cup {n})
    BY <1>2 DEF Rooted
  <1> QED
    BY <1>3 DEF a

\* A move: what v had, c has now.
LEMMA MovedRooted ==
  ASSUME NEW a \in State, NEW R \in SUBSET Cell, Rooted(a, R),
         NEW c \in Cell, NEW v \in Cell, c # v, \A h \in Heap : a.owner[h] # c,
         \A h \in Heap : a.owner[h] = v => a.vtype[v] \in Containers,
         NEW r, Moved(a, c, v, r), Placed(a, R, c), c \in R \/ Apart(a, c, v)
  PROVE  Rooted(r, R)
  <1>1. \A h \in Heap : r.owner[h] = IF a.owner[h] = v THEN c ELSE a.owner[h]
    BY DEF Moved, Kids
  <1> SUFFICES ASSUME NEW S \in SUBSET Heap, Family(r, R, S), NEW h \in Heap, r.owner[h] # Free
               PROVE  h \in S \cup R
    BY DEF Rooted
  <1>2. a.owner[h] # Free
    BY <1>1, CellNoMark
  <1>3. c \in S \cup R
    <2>1. CASE c \notin R
      <3>1. PICK U \in SUBSET Heap : c \notin U /\ Family(a, {v}, U)
        BY <2>1 DEF Apart
      <3> DEFINE T == S \cup U
      <3>2. Family(a, R, T)
        <4> SUFFICES ASSUME NEW k \in Heap, a.owner[k] \in S \cup R, k \notin U PROVE k \in S
          BY <3>1 DEF Family
        <4>1. a.owner[k] # v
          BY <3>1 DEF Family
        <4> QED
          BY <1>1, <4>1 DEF Family
      <3>3. c \in Heap /\ a.owner[c] # Free /\ T \in SUBSET Heap
        BY <2>1 DEF Placed
      <3>4. c \in T \cup R
        BY <3>2, <3>3, RootedUse
      <3> QED
        BY <3>1, <3>4
    <2> QED
      BY <2>1
  <1>4. Family(a, R, S)
    BY <1>1, <1>3 DEF Family
  <1> QED
    BY <1>2, <1>4, RootedUse

\* A copy: c was reached, so what it has now is too.
LEMMA CopiedRooted ==
  ASSUME NEW a \in State, NEW R \in SUBSET Cell, Rooted(a, R),
         NEW c \in Cell, NEW v \in Cell, \A h \in Heap : a.owner[h] # c,
         NEW f, \A x \in Below(a, v) : f[x] \in Heap /\ a.owner[f[x]] = Free,
         NEW r, Copied(a, c, v, f, r), Placed(a, R, c)
  PROVE  Rooted(r, R)
  <1> DEFINE B == Below(a, v)
  <1>0. B \subseteq Heap
    BY BelowType
  <1>1. \A h \in Heap : (\A x \in B : f[x] # h) => r.owner[h] = a.owner[h]
    BY DEF Copied
  <1> SUFFICES ASSUME NEW S \in SUBSET Heap, Family(r, R, S), NEW h \in Heap, r.owner[h] # Free
               PROVE  h \in S \cup R
    BY DEF Rooted
  <1> DEFINE T == {k \in S : a.owner[k] # Free}
  <1>2. Family(a, R, T)
    <2> SUFFICES ASSUME NEW k \in Heap, a.owner[k] \in S \cup R PROVE k \in T
      BY DEF Family
    <2>1. a.owner[k] # Free
      BY CellNoMark, ArgTmpCell
    <2>2. r.owner[k] = a.owner[k]
      BY <1>1, <2>1
    <2> QED
      BY <2>1, <2>2 DEF Family
  <1>3. T \in SUBSET Heap
    OBVIOUS
  <1>4. \A k \in Heap : a.owner[k] # Free => k \in T \cup R
    BY <1>2, <1>3, RootedUse
  <1>5. c \in S \cup R
    BY <1>4 DEF Placed
  <1> DEFINE W == {x \in B : f[x] \in S}
  <1>6. Closed(a, v, W)
    <2> SUFFICES ASSUME NEW k \in Heap \ W, a.owner[k] \in W \cup {v},
                        a.vtype[a.owner[k]] \in Containers
                 PROVE  FALSE
      BY DEF Closed
    <2>1. k \in B
      BY BelowClosed DEF Closed
    <2>2. f[k] \in Heap /\ r.owner[f[k]] = IF k \in Kids(a, v) THEN c ELSE f[a.owner[k]]
      BY <2>1 DEF Copied
    <2>3. CASE k \in Kids(a, v)
      BY <1>5, <2>1, <2>2, <2>3 DEF Family
    <2>4. CASE k \notin Kids(a, v)
      <3>1. a.owner[k] \in W
        BY <2>4 DEF Kids
      <3> QED
        BY <2>1, <2>2, <2>4, <3>1 DEF Family
    <2> QED
      BY <2>3, <2>4
  <1>7. B \subseteq W
    BY <1>0, <1>6, BelowLeast
  <1>8. CASE \A x \in B : f[x] # h
    BY <1>1, <1>4, <1>8
  <1>9. ASSUME NEW x \in B, f[x] = h PROVE h \in S
    BY <1>7, <1>9
  <1> QED
    BY <1>8, <1>9

\* A node held by a local goes into the container of c.
LEMMA AttachRooted ==
  ASSUME NEW s \in State, NEW R \in SUBSET Cell, NEW n \in Heap, Rooted(s, R \cup {n}),
         NEW c \in Cell, c # n, s.owner[n] = Uptr, Placed(s, R, c), c \in R \/ Apart(s, c, n),
         NEW r, \A h \in Heap : r.owner[h] = IF h = n THEN c ELSE s.owner[h]
  PROVE  Rooted(r, R)
  <1> SUFFICES ASSUME NEW S \in SUBSET Heap, Family(r, R, S), NEW h \in Heap, r.owner[h] # Free
               PROVE  h \in S \cup R
    BY DEF Rooted
  <1>1. s.owner[h] # Free
    BY OwnerAssumption
  <1>2. c \in S \cup R
    <2>1. CASE c \notin R
      <3>1. PICK U \in SUBSET Heap : c \notin U /\ Family(s, {n}, U)
        BY <2>1 DEF Apart
      <3> DEFINE T == S \cup U
      <3>2. Family(s, R \cup {n}, T)
        <4> SUFFICES ASSUME NEW k \in Heap, s.owner[k] \in S \cup R, k \notin U PROVE k \in S
          BY <3>1 DEF Family
        <4>1. k # n
          BY CellNoMark, ArgTmpCell
        <4> QED
          BY <4>1 DEF Family
      <3>3. c \in Heap /\ s.owner[c] # Free /\ T \in SUBSET Heap
        BY <2>1 DEF Placed
      <3>4. c \in T \cup (R \cup {n})
        BY <3>2, <3>3, RootedUse
      <3> QED
        BY <3>1, <3>4
    <2> QED
      BY <2>1
  <1>3. n \in S
    BY <1>2 DEF Family
  <1>4. Family(s, R \cup {n}, S)
    <2> SUFFICES ASSUME NEW k \in Heap, s.owner[k] \in S \cup (R \cup {n}) PROVE k \in S
      BY DEF Family
    <2> QED
      BY <1>3 DEF Family
  <1> QED
    BY <1>1, <1>3, <1>4, RootedUse

\* A free node goes into the container of c.
LEMMA AttachNewRooted ==
  ASSUME NEW s \in State, NEW R \in SUBSET Cell, Rooted(s, R), NEW n \in Heap,
         s.owner[n] = Free, NEW c \in Cell, Placed(s, R, c),
         NEW r, \A h \in Heap : r.owner[h] = IF h = n THEN c ELSE s.owner[h]
  PROVE  Rooted(r, R)
  <1> SUFFICES ASSUME NEW S \in SUBSET Heap, Family(r, R, S), NEW h \in Heap, r.owner[h] # Free
               PROVE  h \in S \cup R
    BY DEF Rooted
  <1>1. Family(s, R, S)
    BY CellNoMark, ArgTmpCell DEF Family
  <1>2. c \in S \cup R
    BY <1>1, RootedUse DEF Placed
  <1>3. n \in S
    BY <1>2 DEF Family
  <1> QED
    BY <1>1, <1>3, RootedUse

\* A node is destroyed and freed with all that is below it.
LEMMA FreeNodeRooted ==
  ASSUME NEW s, Tidy(s), BlankBut(s, {}), NEW R \in SUBSET Cell, Rooted(s, R), NEW n \in Heap
  PROVE  Rooted(FreeNode(s, n), R)
  <1> DEFINE a == destruct(s, n)
             r == Release(a, {n})
  <1>1. n \in Cell /\ s \in State /\ Marked(s)
    BY ArgTmpCell, MarkedHolds DEF Tidy
  <1>2. Tidy(a) /\ BlankBut(a, {}) /\ Rooted(a, R) /\ a \in State /\ a.vtype[n] = "Null"
    BY <1>1, destructTidy, destructBlank, destructRooted, destructNull DEF Tidy
  <1> HIDE DEF a
  <1>3. \A h \in Heap : a.owner[h] # n
    BY <1>1, <1>2, MarkedHolds DEF Marked, Containers
  <1>4. \A h \in Heap : r.owner[h] = IF h = n THEN Free ELSE a.owner[h]
    BY <1>2, <1>3, ReleaseEffect
  <1> HIDE DEF r
  <1>5. ASSUME NEW S \in SUBSET Heap, Family(r, R, S), NEW h \in Heap, r.owner[h] # Free
        PROVE  h \in S \cup R
    <2> DEFINE T == S \cup {n}
    <2>1. Family(a, R, T)
      BY <1>3, <1>4, <1>5 DEF Family
    <2>2. a.owner[h] # Free /\ h # n /\ T \in SUBSET Heap
      BY <1>4, <1>5
    <2>3. h \in T \cup R
      BY <1>2, <2>1, <2>2, RootedUse
    <2> QED
      BY <2>2, <2>3
  <1>6. Rooted(r, R)
    BY <1>5 DEF Rooted
  <1> QED
    BY <1>6 DEF FreeNode, r, a

-----------------------------------------------------------------------------
(* The operations.                                                         *)

LEMMA AlivePlaced ==
  ASSUME NEW s, NEW R, Locals \subseteq R, NEW c \in Cell, Alive(s, c) PROVE Placed(s, R, c)
  BY DEF Locals, Cell, Alive, Placed

LEMMA destructApart ==
  ASSUME NEW s \in State, NEW c \in Cell, NEW x, NEW v \in Cell, Apart(s, x, v)
  PROVE  Apart(destruct(s, c), x, v)
  <1> DEFINE a == destruct(s, c)
  <1>1. \A h \in Heap : a.owner[h] \in Cell => a.owner[h] = s.owner[h]
    BY destructEffect, CellNoMark DEF Destructed
  <1> HIDE DEF a
  <1>2. PICK U \in SUBSET Heap : x \notin U /\ Family(s, {v}, U)
    BY DEF Apart
  <1>3. Family(a, {v}, U)
    BY <1>1, <1>2, ArgTmpCell DEF Family
  <1>4. Apart(a, x, v)
    BY <1>2, <1>3 DEF Apart
  <1> QED
    BY <1>4 DEF a

\* A Null has no nodes.
LEMMA NullChildless ==
  ASSUME NEW s, Marked(s), NEW c \in Cell, s.vtype[c] \notin Containers
  PROVE  \A h \in Heap : s.owner[h] # c
  BY DEF Marked

LEMMA move_fromRooted ==
  ASSUME NEW s, Tidy(s), BlankBut(s, {}), NEW R \in SUBSET Cell, Rooted(s, R), Locals \subseteq R,
         NEW c \in Cell, NEW v \in Cell, Alive(destruct(s, c), c), Alive(destruct(s, c), v),
         c = v \/ c \in R \/ Apart(s, c, v)
  PROVE  Rooted(move_from(s, c, v), R)
  <1> DEFINE a == destruct(s, c)
             r == move_from(s, c, v)
  <1>1. s \in State /\ Marked(s)
    BY MarkedHolds DEF Tidy
  <1>2. /\ a \in State /\ Tidy(a) /\ BlankBut(a, {}) /\ Marked(a) /\ Rooted(a, R)
        /\ a.vtype[c] \notin Containers
    BY <1>1, destructTidy, destructBlank, destructRooted, destructNull, MarkedHolds
       DEF Tidy, Containers
  <1>3. CASE c = v
    BY <1>1, <1>2, <1>3, SelfMove
  <1>4. CASE c # v
    <2>1. Moved(a, c, v, r) /\ Placed(a, R, c)
      BY <1>1, <1>4, move_fromEffect, AlivePlaced
    <2>2. c \in R \/ Apart(a, c, v)
      BY <1>1, <1>4, destructApart
    <2> HIDE DEF a, r
    <2>3. /\ \A h \in Heap : a.owner[h] # c
          /\ \A h \in Heap : a.owner[h] = v => a.vtype[v] \in Containers
      BY <1>2, NullChildless
    <2>4. Rooted(r, R)
      BY <1>2, <1>4, <2>1, <2>2, <2>3, MovedRooted
    <2> QED
      BY <2>4 DEF r
  <1> QED
    BY <1>3, <1>4

LEMMA copy_fromRooted ==
  ASSUME NEW s, Tidy(s), BlankBut(s, {}), NEW R \in SUBSET Cell, Rooted(s, R), Locals \subseteq R,
         NEW c \in Cell, NEW v \in Cell, Alive(destruct(s, c), c), Alive(destruct(s, c), v),
         NEW f \in CopyMaps(s, c, v)
  PROVE  Rooted(copy_from(s, c, v, f), R)
  <1> DEFINE a == destruct(s, c)
             r == copy_from(s, c, v, f)
  <1>1. s \in State /\ Marked(s)
    BY MarkedHolds DEF Tidy
  <1>2. /\ a \in State /\ Tidy(a) /\ BlankBut(a, {}) /\ Marked(a) /\ Rooted(a, R)
        /\ a.vtype[c] \notin Containers
    BY <1>1, destructTidy, destructBlank, destructRooted, destructNull, MarkedHolds
       DEF Tidy, Containers
  <1>3. Copied(a, c, v, f, r) /\ Placed(a, R, c)
    BY <1>1, copy_fromEffect, AlivePlaced
  <1>4. \A x \in Below(a, v) : f[x] \in Heap /\ a.owner[f[x]] = Free
    BY <1>1, CopyMapsFree
  <1> HIDE DEF a, r
  <1>5. \A h \in Heap : a.owner[h] # c
    BY <1>2, NullChildless
  <1>6. Rooted(r, R)
    BY <1>2, <1>3, <1>4, <1>5, CopiedRooted
  <1> QED
    BY <1>6 DEF r

\* Who owns what when push_back is ready for its argument.
LEMMA PushReadyOwner ==
  ASSUME NEW s, Tidy(s), BlankBut(s, {}), NEW c \in Cell, c # Tmp, Alive(s, c), Empty(s, Tmp),
         NEW m, Wraps(s, c) => Fresh(s, m) /\ m # c
  PROVE  \A h \in Heap : PushReady(s, c, m).owner[h] =
           IF Wraps(s, c) /\ h = m THEN c
           ELSE IF Wraps(s, c) /\ s.owner[h] = c THEN m ELSE s.owner[h]
  <1> DEFINE a == PushReady(s, c, m)
  <1>1. Marked(s)
    BY MarkedHolds
  <1>2. CASE s.vtype[c] = "Null"
    <2>1. \A h \in Heap : s.owner[h] # c
      BY <1>1, <1>2, NullChildless DEF Containers
    <2>2. ~Wraps(s, c) /\ a = OpenArray(s, c)
      BY <1>2 DEF PushReady, Wraps
    <2> HIDE DEF a
    <2>3. \A h \in Heap : a.owner[h] = s.owner[h]
      BY <1>2, <2>1, <2>2, OpenArrayEffect
    <2> QED
      BY <2>2, <2>3 DEF a
  <1>3. CASE s.vtype[c] = "Array"
    BY <1>3 DEF PushReady, Wraps
  <1>4. CASE Wraps(s, c)
    <2>1. a = WrapInArray(s, c, m)
      BY <1>4 DEF PushReady, Wraps
    <2>2. Wrapped(s, c, m, a)
      BY <1>4, <2>1, WrapInArrayEffect DEF Wraps
    <2> HIDE DEF a
    <2>3. \A h \in Heap : h \in Kids(s, c) <=> s.owner[h] = c
      BY <1>1 DEF Marked, Kids
    <2>4. \A h \in Heap : a.owner[h] = IF h = m THEN c ELSE IF s.owner[h] = c THEN m ELSE s.owner[h]
      BY <2>2, <2>3 DEF Wrapped
    <2> QED
      BY <1>4, <2>4 DEF a
  <1> QED
    BY <1>2, <1>3, <1>4 DEF Wraps

\* The node in between keeps the old content of c within reach.
LEMMA WrapRooted ==
  ASSUME NEW s \in State, Marked(s), NEW R \in SUBSET Cell, Rooted(s, R),
         NEW c \in Cell, Placed(s, R, c), c \notin Below(s, c),
         NEW m \in Heap, s.owner[m] \in {Free, Uptr},
         NEW r, \A h \in Heap : r.owner[h] =
                  IF h = m THEN c ELSE IF s.owner[h] = c THEN m ELSE s.owner[h]
  PROVE  Rooted(r, R)
  <1> SUFFICES ASSUME NEW S \in SUBSET Heap, Family(r, R, S), NEW h \in Heap, r.owner[h] # Free
               PROVE  h \in S \cup R
    BY DEF Rooted
  <1> DEFINE B == Below(s, c)
             T == S \cup B
  <1>1. B \in SUBSET Heap /\ Family(s, {c}, B)
    BY BelowType, BelowFamily
  <1> HIDE DEF B
  <1>2. Family(s, R, T)
    <2> SUFFICES ASSUME NEW k \in Heap, s.owner[k] \in S \cup R, k \notin B PROVE k \in S
      BY <1>1 DEF Family
    <2>1. s.owner[k] # c /\ k # m
      BY <1>1, CellNoMark, ArgTmpCell DEF Family
    <2> QED
      BY <2>1 DEF Family
  <1>3. T \in SUBSET Heap
    BY <1>1
  <1>4. \A k \in Heap : s.owner[k] # Free => k \in T \cup R
    BY <1>2, <1>3, RootedUse
  <1>5. c \in S \cup R
    BY <1>4 DEF Placed, B
  <1>6. m \in S
    BY <1>5 DEF Family
  <1>7. Family(s, R, S)
    <2> SUFFICES ASSUME NEW k \in Heap, s.owner[k] \in S \cup R PROVE k \in S
      BY DEF Family
    <2> QED
      BY <1>6 DEF Family
  <1>8. CASE s.owner[h] # Free
    BY <1>7, <1>8, RootedUse
  <1>9. CASE s.owner[h] = Free
    BY <1>6, <1>9, CellNoMark
  <1> QED
    BY <1>8, <1>9

LEMMA PushNodeRooted ==
  ASSUME NEW s, NEW c, NEW m, NEW n, PushArgs(s, c, m, n), BlankBut(s, {}),
         NEW R \in SUBSET Cell, Locals \subseteq R, Rooted(s, R \cup {n}), c \notin Below(s, c),
         NEW p, p = make_unique(PushReady(s, c, m), n)
  PROVE  /\ Rooted(p, R \cup {n})
         /\ \A h \in Heap : p.owner[h] =
              IF h = n THEN Uptr
              ELSE IF Wraps(s, c) /\ h = m THEN c
              ELSE IF Wraps(s, c) /\ s.owner[h] = c THEN m ELSE s.owner[h]
  <1> DEFINE a == PushReady(s, c, m)
  <1>1. /\ s \in State /\ Tidy(s) /\ Empty(s, Tmp) /\ c \in Cell /\ c # Tmp /\ Alive(s, c)
        /\ n \in Heap /\ n \in Cell /\ n # c /\ s.owner[n] \in {Free, Uptr}
        /\ Wraps(s, c) => Fresh(s, m) /\ m # c /\ m # n
    BY ArgTmpCell DEF PushArgs, Fresh, Tidy
  <1>2. Readied(s, c, m, a)
    BY <1>1, PushReadyEffect
  <1>3. \A h \in Heap : a.owner[h] = IF Wraps(s, c) /\ h = m THEN c
                                     ELSE IF Wraps(s, c) /\ s.owner[h] = c THEN m ELSE s.owner[h]
    BY <1>1, PushReadyOwner
  <1> HIDE DEF a
  <1>4. p = make_unique(a, n)
    BY DEF a
  <1>5. a \in State /\ a.owner[n] \in {Free, Uptr}
    BY <1>1, <1>2, <1>3, CellNoMark DEF Readied, Tidy
  <1>6. Placed(s, R \cup {n}, c)
    BY <1>1, AlivePlaced
  <1>7. Rooted(a, R \cup {n})
    <2>1. CASE Wraps(s, c)
      <3>1. m \in Heap /\ s.owner[m] \in {Free, Uptr}
        BY <1>1, <2>1 DEF Fresh
      <3>2. Marked(s)
        BY <1>1, MarkedHolds
      <3>3. \A h \in Heap : a.owner[h] = IF h = m THEN c ELSE IF s.owner[h] = c THEN m ELSE s.owner[h]
        BY <1>3, <2>1
      <3> QED
        BY <1>1, <1>6, <3>1, <3>2, <3>3, WrapRooted
    <2>2. CASE ~Wraps(s, c)
      BY <1>3, <2>2, RootedSame
    <2> QED
      BY <2>1, <2>2
  <1>8. Rooted(p, (R \cup {n}) \cup {n})
    BY <1>1, <1>4, <1>5, <1>7, make_uniqueRooted
  <1>9. (R \cup {n}) \cup {n} = R \cup {n}
    OBVIOUS
  <1>10. \A h \in Heap : p.owner[h] = IF h = n THEN Uptr ELSE a.owner[h]
    BY <1>1, <1>4, <1>5, make_uniqueEffect
  <1>11. Rooted(p, R \cup {n})
    BY <1>8, <1>9
  <1> QED
    BY <1>3, <1>10, <1>11

\* The end of push_back, when it has not crashed.
LEMMA PushEndOwner ==
  ASSUME NEW b \in State, NEW c \in Cell, NEW n \in Heap,
         NEW r, r = SetTag(emplace_back(b, c, n), c, "Array"), ~r.ub
  PROVE  \A h \in Heap : r.owner[h] = IF h = n THEN c ELSE b.owner[h]
  <1> DEFINE q == emplace_back(b, c, n)
  <1>1. q \in State
    BY emplace_backType
  <1>2. r.owner = q.owner /\ r.ub = q.ub
    BY <1>1, SetTagEffect, TagsType
  <1>3. b.held[c] = "Array"
    BY <1>2, CrashUb DEF emplace_back
  <1>4. \A h \in Heap : q.owner[h] = IF h = n THEN c ELSE b.owner[h]
    BY <1>1, <1>3 DEF emplace_back, State
  <1> HIDE DEF q
  <1> QED
    BY <1>2, <1>4

LEMMA PushMovedRooted ==
  ASSUME NEW s, NEW c, NEW m, NEW n, PushArgs(s, c, m, n), BlankBut(s, {}),
         NEW R \in SUBSET Cell, Locals \subseteq R, Rooted(s, R \cup {n}), c \notin Below(s, c),
         NEW v \in Cell, v # n, v # Tmp, Alive(s, v), ~(Wraps(s, c) /\ v = m), c # v,
         c \notin Below(s, v),
         NEW r, r = PushMoved(s, c, v, m, n)
  PROVE  Rooted(r, R)
  <1> DEFINE p == make_unique(PushReady(s, c, m), n)
             b == move_from(p, n, v)
  <1>1. /\ s \in State /\ Marked(s) /\ c \in Cell /\ Alive(s, c)
        /\ n \in Heap /\ n \in Cell /\ n # c /\ s.owner[n] \in {Free, Uptr}
        /\ Wraps(s, c) => m \in Heap /\ s.owner[m] \in {Free, Uptr} /\ m # c /\ m # n
    BY ArgTmpCell, MarkedHolds DEF PushArgs, Fresh, Tidy
  <1>2. /\ Tidy(p) /\ p \in State /\ p.vtype[n] = "Null" /\ p.held[n] = "none" /\ p.owner[n] = Uptr
        /\ \A e \in Cell : e # c /\ ~(Wraps(s, c) /\ e = m) => p.vtype[e] = s.vtype[e]
        /\ \A h \in Heap :
              p.owner[h] = Free <=> s.owner[h] = Free /\ h # n /\ ~(Wraps(s, c) /\ h = m)
    BY PushNode DEF Tidy
  <1>3. /\ Rooted(p, R \cup {n})
        /\ \A h \in Heap : p.owner[h] =
              IF h = n THEN Uptr
              ELSE IF Wraps(s, c) /\ h = m THEN c
              ELSE IF Wraps(s, c) /\ s.owner[h] = c THEN m ELSE s.owner[h]
    BY PushNodeRooted
  <1>4. r = SetTag(emplace_back(b, c, n), c, "Array") /\ Pushed(s, c, m, n, r)
    BY PushMovedEffect DEF PushMoved
  <1> HIDE DEF p
  <1>5. Alive(p, v) /\ Alive(p, n) /\ Alive(p, c)
    BY <1>1, <1>2, OwnerAssumption DEF Alive
  <1>6. Moved(p, n, v, b) /\ Tidy(b) /\ b \in State
    BY <1>1, <1>2, <1>5, MoveToNull DEF Tidy
  <1> HIDE DEF b
  <1>7. \A h \in Heap : p.owner[h] # n
    BY <1>1, <1>2, OwnedNone DEF Tidy, Containers
  <1>8. \A h \in Heap : p.owner[h] = v => s.owner[h] = v /\ p.vtype[v] \in Containers
    <2> SUFFICES ASSUME NEW h \in Heap, p.owner[h] = v
                 PROVE  s.owner[h] = v /\ p.vtype[v] \in Containers
      OBVIOUS
    <2>1. s.owner[h] = v
      BY <1>1, <1>3, CellNoMark
    <2> QED
      BY <1>1, <1>2, <2>1 DEF Marked
  <1>9. R \cup {n} \in SUBSET Cell
    BY <1>1
  <1>10. Placed(p, R \cup {n}, n) /\ n \in R \cup {n}
    BY DEF Placed
  <1>11. Rooted(b, R \cup {n})
    BY <1>1, <1>2, <1>3, <1>6, <1>7, <1>8, <1>9, <1>10, MovedRooted
  <1>12. \A h \in Heap : b.owner[h] = IF p.owner[h] = v THEN n ELSE p.owner[h]
    BY <1>6, <1>7, <1>8 DEF Moved, Kids
  <1>13. b.owner[n] = Uptr /\ Placed(b, R, c)
    <2>1. b.owner[n] = Uptr
      BY <1>1, <1>2, <1>12, CellNoMark
    <2>2. Alive(b, c)
      BY <1>1, <1>5, <1>12, CellNoMark DEF Alive
    <2> QED
      BY <1>1, <2>1, <2>2, AlivePlaced
  <1>14. Apart(b, c, n)
    <2> DEFINE U == Below(s, v)
    <2>1. Family(s, {v}, U) /\ U \in SUBSET Heap
      BY <1>1, BelowFamily, BelowType
    <2>2. Wraps(s, c) => m \notin U
      BY <1>1, BelowOwner, BelowType, CellNoMark, ArgTmpCell
    <2>3. n \notin U
      BY <1>1, BelowOwner, BelowType, CellNoMark, ArgTmpCell
    <2> HIDE DEF U
    <2>4. Family(b, {n}, U)
      <3> SUFFICES ASSUME NEW h \in Heap, b.owner[h] \in U \cup {n} PROVE h \in U
        BY DEF Family
      <3>1. CASE p.owner[h] = v
        BY <1>8, <2>1, <3>1 DEF Family
      <3>2. CASE p.owner[h] # v
        <4>1. p.owner[h] \in U
          BY <1>7, <1>12, <3>2
        <4>2. p.owner[h] # Uptr /\ p.owner[h] # c
          BY <1>1, <2>1, <4>1, CellNoMark, ArgTmpCell DEF U
        <4>3. s.owner[h] \in U
          BY <1>3, <2>2, <4>1, <4>2
        <4> QED
          BY <2>1, <4>3 DEF Family
      <3> QED
        BY <3>1, <3>2
    <2> QED
      BY <2>1, <2>4 DEF Apart, U
  <1>15. \A h \in Heap : r.owner[h] = IF h = n THEN c ELSE b.owner[h]
    BY <1>1, <1>4, <1>6, PushEndOwner DEF Pushed, Tidy
  <1> QED
    BY <1>1, <1>6, <1>11, <1>13, <1>14, <1>15, AttachRooted

LEMMA PushCopiedRooted ==
  ASSUME NEW s, NEW c, NEW m, NEW n, PushArgs(s, c, m, n), BlankBut(s, {}),
         NEW R \in SUBSET Cell, Locals \subseteq R, Rooted(s, R \cup {n}), c \notin Below(s, c),
         NEW v \in Cell, Alive(s, v), NEW f \in PushMaps(s, c, v, m, n),
         NEW r, r = PushCopied(s, c, v, m, n, f)
  PROVE  Rooted(r, R)
  <1> DEFINE p == make_unique(PushReady(s, c, m), n)
             b == copy_from(p, n, v, f)
  <1>1. /\ s \in State /\ c \in Cell /\ Alive(s, c) /\ n \in Heap /\ n \in Cell /\ n # c
    BY ArgTmpCell DEF PushArgs, Fresh, Tidy
  <1>2. /\ Tidy(p) /\ p \in State /\ p.vtype[n] = "Null" /\ p.held[n] = "none" /\ p.owner[n] = Uptr
        /\ \A h \in Heap :
              p.owner[h] = Free <=> s.owner[h] = Free /\ h # n /\ ~(Wraps(s, c) /\ h = m)
    BY PushNode DEF Tidy
  <1>3. Rooted(p, R \cup {n})
    BY PushNodeRooted
  <1>4. r = SetTag(emplace_back(b, c, n), c, "Array") /\ Pushed(s, c, m, n, r)
    BY PushCopiedEffect DEF PushCopied
  <1>5. f \in CopyMaps(p, n, v)
    BY DEF PushMaps
  <1> HIDE DEF p
  <1>6. Alive(p, v) /\ Alive(p, n) /\ Alive(p, c)
    BY <1>1, <1>2, OwnerAssumption DEF Alive
  <1>7. /\ Copied(p, n, v, f, b) /\ Tidy(b) /\ b \in State
        /\ \A x \in Below(p, v) : f[x] \in Heap /\ p.owner[f[x]] = Free /\ f[x] # n
    BY <1>1, <1>2, <1>5, <1>6, CopyToNull DEF Tidy
  <1> HIDE DEF b
  <1>8. \A h \in Heap : p.owner[h] # n
    BY <1>1, <1>2, OwnedNone DEF Tidy, Containers
  <1>9. R \cup {n} \in SUBSET Cell /\ Placed(p, R \cup {n}, n)
    BY <1>1 DEF Placed
  <1>10. Rooted(b, R \cup {n})
    BY <1>1, <1>2, <1>3, <1>7, <1>8, <1>9, CopiedRooted
  <1>11. \A h \in Heap : (\A x \in Below(p, v) : f[x] # h) => b.owner[h] = p.owner[h]
    BY <1>7, <1>8 DEF Copied
  <1>12. b.owner[n] = Uptr /\ Placed(b, R, c)
    <2>1. b.owner[n] = Uptr
      BY <1>1, <1>2, <1>7, <1>11
    <2>2. Alive(b, c)
      BY <1>6, <1>7, <1>11 DEF Alive
    <2> QED
      BY <1>1, <2>1, <2>2, AlivePlaced
  <1>13. Apart(b, c, n)
    <2> DEFINE U == {h \in Heap : \E x \in Below(p, v) : f[x] = h}
    <2>1. c \notin U
      BY <1>6, <1>7 DEF Alive
    <2>2. Family(b, {n}, U)
      <3> SUFFICES ASSUME NEW h \in Heap, b.owner[h] \in U \cup {n}, h \notin U PROVE FALSE
        BY DEF Family
      <3>1. p.owner[h] = b.owner[h]
        BY <1>11
      <3>2. p.owner[h] \in U
        BY <1>8, <3>1
      <3>3. p.owner[h] \in Heap /\ p.owner[p.owner[h]] = Free
        BY <1>7, <3>2
      <3> QED
        BY <1>2, <3>3, ArgTmpCell DEF Tidy, Owned, Alive
    <2> QED
      BY <2>1, <2>2 DEF Apart
  <1>14. \A h \in Heap : r.owner[h] = IF h = n THEN c ELSE b.owner[h]
    BY <1>1, <1>4, <1>7, PushEndOwner DEF Pushed, Tidy
  <1> QED
    BY <1>1, <1>7, <1>10, <1>12, <1>13, <1>14, AttachRooted

-----------------------------------------------------------------------------
(* The calls.                                                              *)

\* Between calls: nothing is left of a call, no Null hides a member, every
\* node is reached.
Whole(s) == Quiet(s) /\ BlankBut(s, {}) /\ Rooted(s, Locals)

LEMMA WholeFacts ==
  ASSUME NEW s, Whole(s)
  PROVE  /\ Quiet(s) /\ Tidy(s) /\ s \in State /\ Marked(s) /\ BlankBut(s, {})
         /\ Rooted(s, Locals) /\ Locals \subseteq Cell /\ Tmp \in Locals /\ Arg \in Locals
         /\ Named \subseteq Locals
  BY QuietFacts, MarkedHolds, ArgTmpCell DEF Whole, Locals

LEMMA MoveRooted ==
  ASSUME NEW s, Whole(s), NEW c \in Addressable(s), NEW v \in Addressable(s),
         c = v \/ Separate(s, c, v)
  PROVE  Rooted(move_from(s, c, v), Locals)
  <1>1. c \in Cell /\ v \in Cell /\ Alive(s, v) /\ Alive(destruct(s, c), c)
    BY WholeFacts, AddressableFacts
  <1>2. Alive(destruct(s, c), v) /\ (c = v \/ Apart(s, c, v))
    BY <1>1, WholeFacts, destructKeeps, ApartBelow DEF Separate
  <1> QED
    BY <1>1, <1>2, WholeFacts, move_fromRooted

LEMMA CopyRooted ==
  ASSUME NEW s, Whole(s), NEW c \in Addressable(s), NEW v \in Addressable(s),
         NEW f \in CopyMaps(s, c, v), v \notin Below(s, c)
  PROVE  Rooted(copy_from(s, c, v, f), Locals)
  <1>1. c \in Cell /\ v \in Cell /\ Alive(s, v) /\ Alive(destruct(s, c), c)
    BY WholeFacts, AddressableFacts
  <1>2. Alive(destruct(s, c), v)
    BY <1>1, WholeFacts, destructKeeps
  <1> QED
    BY <1>1, <1>2, WholeFacts, copy_fromRooted

\* v.push_back(std::move(v)) of what is wrapped: the new node takes a Null.
LEMMA SelfPushRooted ==
  ASSUME NEW s, Whole(s), NEW c \in Addressable(s), NEW m, NEW n, PushArgs(s, c, m, n),
         Wraps(s, c)
  PROVE  Rooted(PushMoved(s, c, c, m, n), Locals)
  <1> DEFINE p == make_unique(PushReady(s, c, m), n)
             b == move_from(p, n, c)
             r == PushMoved(s, c, c, m, n)
  <1>1. /\ Moved(p, n, c, b) /\ Tidy(b) /\ ~r.ub
        /\ \A h \in Heap : b.owner[h] = p.owner[h] /\ p.owner[h] # n
    BY SelfPush
  <1>2. /\ c \in Cell /\ c # Tmp /\ Alive(s, c) /\ c \notin Below(s, c)
        /\ c # n /\ c # m /\ n \in Heap
    BY WholeFacts, AddressableFacts DEF PushArgs, Fresh
  <1>3. Rooted(s, Locals \cup {n})
    BY WholeFacts, RootedMore
  <1>4. Rooted(p, Locals \cup {n}) /\ p.owner[n] = Uptr
    BY <1>2, <1>3, WholeFacts, PushNodeRooted
  <1>5. Loaded(s, c, m, n, b)
    BY <1>1, <1>2, PushMovedEffect
  <1>6. r = SetTag(emplace_back(b, c, n), c, "Array")
    BY DEF PushMoved
  <1> HIDE DEF r, b, p
  <1>7. Appended(b, c, n, r)
    BY <1>5, <1>6, PushEnd
  <1>8. Rooted(b, Locals \cup {n}) /\ b.owner[n] = Uptr /\ b \in State
    BY <1>1, <1>2, <1>4, RootedSame DEF Tidy
  <1>9. Alive(b, c) /\ Apart(b, c, n) /\ Placed(b, Locals, c)
    BY <1>1, <1>2, <1>5, ChildlessApart, AlivePlaced DEF Loaded
  <1>10. Locals \in SUBSET Cell
    BY WholeFacts
  <1>11. \A h \in Heap : r.owner[h] = IF h = n THEN c ELSE b.owner[h]
    BY <1>7 DEF Appended
  <1>12. Rooted(r, Locals)
    BY <1>2, <1>8, <1>9, <1>10, <1>11, AttachRooted
  <1> QED
    BY <1>12 DEF r

LEMMA PushMoveRooted ==
  ASSUME NEW s, Whole(s), NEW c \in Addressable(s), NEW v \in Addressable(s),
         NEW m \in FreeNodes(s), NEW n \in FreeNodes(s),
         (m = n) <=> s.vtype[c] \in {"Null", "Array"}, c = v => Wraps(s, c), c \notin Below(s, v)
  PROVE  Rooted(PushMoved(s, c, v, m, n), Locals)
  <1>1. PushArgs(s, c, m, n) /\ Rooted(s, Locals \cup {n})
    BY WholeFacts, PushArgsHold, RootedMore
  <1>2. v # n /\ v # m /\ v \in Cell /\ v # Tmp /\ Alive(s, v) /\ c \notin Below(s, c)
    BY WholeFacts, AddressableFacts, OperandNotFree
  <1>3. CASE c = v
    BY <1>1, <1>3, SelfPushRooted
  <1>4. CASE c # v
    BY <1>1, <1>2, <1>4, WholeFacts, PushMovedRooted
  <1> QED
    BY <1>3, <1>4

LEMMA PushCopyRooted ==
  ASSUME NEW s, Whole(s), NEW c \in Addressable(s), NEW v \in Addressable(s),
         NEW m \in FreeNodes(s), NEW n \in FreeNodes(s),
         (m = n) <=> s.vtype[c] \in {"Null", "Array"}, NEW f \in PushMaps(s, c, v, m, n)
  PROVE  Rooted(PushCopied(s, c, v, m, n, f), Locals)
  <1>1. PushArgs(s, c, m, n) /\ Rooted(s, Locals \cup {n})
    BY WholeFacts, PushArgsHold, RootedMore
  <1>2. v \in Cell /\ Alive(s, v) /\ c \notin Below(s, c)
    BY WholeFacts, AddressableFacts
  <1> QED
    BY <1>1, <1>2, WholeFacts, PushCopiedRooted

LEMMA EraseRooted ==
  ASSUME NEW s, Whole(s), NEW c \in Cell, NEW x \in Heap PROVE Rooted(Erase(s, c, x), Locals)
  <1> DEFINE a == FreeNode(s, x)
             r == Erase(s, c, x)
  <1>1. Rooted(a, Locals) /\ a \in State
    BY WholeFacts, FreeNodeRooted, FreeNodeType
  <1>2. r.owner = a.owner
    <2>1. CASE s.vtype[c] = "Map"
      BY <2>1 DEF Erase
    <2>2. CASE s.vtype[c] # "Map"
      <3> HIDE DEF a
      <3>1. r = [a EXCEPT !.slot = [h \in Heap |->
                   IF a.owner[h] = c /\ a.slot[h] > s.slot[x] THEN a.slot[h] - 1 ELSE a.slot[h]]]
        BY <2>2 DEF Erase, a
      <3> HIDE DEF r
      <3> QED
        BY <1>1, <3>1 DEF State
    <2> QED
      BY <2>1, <2>2
  <1> HIDE DEF a, r
  <1>3. Rooted(r, Locals)
    BY <1>1, <1>2, RootedSame
  <1> QED
    BY <1>3 DEF r

LEMMA SwapRooted ==
  ASSUME NEW s, Whole(s), NEW c \in Addressable(s), NEW v \in Addressable(s),
         c = v \/ Separate(s, c, v)
  PROVE  Rooted(swapped(s, c, v), Locals)
  <1> DEFINE s1 == move_from(s, Tmp, v)
             s2 == move_from(s1, v, c)
             s3 == move_from(s2, c, Tmp)
             C == Below(s, c)
             V == Below(s, v)
  <1>0. /\ c \in Cell /\ v \in Cell /\ c # Tmp /\ v # Tmp /\ Alive(s, c) /\ Alive(s, v)
        /\ Tmp \in Cell \ Heap /\ c \notin C /\ v \notin V
        /\ c \notin V /\ v \notin C
        /\ C \in SUBSET Heap /\ V \in SUBSET Heap /\ Family(s, {c}, C) /\ Family(s, {v}, V)
    BY WholeFacts, AddressableFacts, LocalsApart, BelowType, BelowFamily DEF Separate
  <1> HIDE DEF C, V
  <1>1. Moved(s, Tmp, v, s1) /\ Tidy(s1) /\ s1 \in State /\ BlankBut(s1, {}) /\ Marked(s1)
    BY <1>0, WholeFacts, QuietFacts, MoveToNull, move_fromBlank, MarkedHolds DEF Empty, Alive, Tidy
  <1>2. Rooted(s1, Locals)
    <2>1. Alive(destruct(s, Tmp), v) /\ Alive(destruct(s, Tmp), Tmp)
      BY <1>0, WholeFacts, QuietFacts DEF destruct, Empty, Alive
    <2> QED
      BY <1>0, <2>1, WholeFacts, move_fromRooted
  <1> HIDE DEF s1
  <1>3. s1.vtype[v] = "Null" /\ \A h \in Heap : s1.owner[h] = IF s.owner[h] = v THEN Tmp ELSE s.owner[h]
    <2>1. \A h \in Heap : s.owner[h] # Tmp /\ (s.owner[h] = v => h \in Kids(s, v))
      BY <1>0, WholeFacts, QuietFacts, NullChildless DEF Empty, Containers, Marked, Kids
    <2> QED
      BY <1>0, <1>1, <2>1 DEF Moved, Kids
  <1>4. Alive(s1, c) /\ Alive(s1, v)
    BY <1>0, <1>3, CellNoMark DEF Alive
  <1>5. /\ Tidy(s2) /\ s2 \in State /\ BlankBut(s2, {}) /\ Marked(s2) /\ Rooted(s2, Locals)
        /\ s2.vtype[c] = "Null"
        /\ \A h \in Heap : s2.owner[h] = IF s1.owner[h] = c THEN v ELSE s1.owner[h]
    <2>1. CASE c = v
      <3>1. destruct(s1, c) = s1
        BY <1>3, <2>1 DEF destruct
      <3>2. s2 = s1
        BY <1>0, <1>1, <1>4, <2>1, <3>1, SelfMove
      <3> QED
        BY <1>1, <1>2, <1>3, <2>1, <3>2
    <2>2. CASE c # v
      <3>1. Moved(s1, v, c, s2) /\ Tidy(s2) /\ BlankBut(s2, {})
        BY <1>0, <1>1, <1>3, <1>4, <2>2, MoveToNull, move_fromBlank
      <3>2. Family(s1, {c}, C)
        BY <1>0, <1>3 DEF Family
      <3>3. Apart(s1, v, c)
        BY <1>0, <3>2 DEF Apart
      <3>4. destruct(s1, v) = s1
        BY <1>3 DEF destruct
      <3>5. Rooted(s2, Locals)
        BY <1>0, <1>1, <1>2, <1>4, <3>3, <3>4, WholeFacts, move_fromRooted
      <3> HIDE DEF s2
      <3>6. s2.vtype[c] = "Null" /\ s2 \in State /\ Marked(s2)
        BY <1>0, <3>1, MarkedHolds DEF Moved
      <3>7. \A h \in Heap : s1.owner[h] # v /\ (s1.owner[h] = c => h \in Kids(s1, c))
        BY <1>0, <1>1, <1>3, NullChildless DEF Containers, Marked, Kids
      <3>8. \A h \in Heap : s2.owner[h] = IF s1.owner[h] = c THEN v ELSE s1.owner[h]
        BY <3>1, <3>7 DEF Moved, Kids
      <3> QED
        BY <3>1, <3>5, <3>6, <3>8
    <2> QED
      BY <2>1, <2>2
  <1> HIDE DEF s2
  <1>6. Alive(s2, c) /\ Alive(s2, Tmp)
    BY <1>0, <1>4, <1>5, CellNoMark DEF Alive
  <1>7. Family(s2, {Tmp}, V)
    <2> SUFFICES ASSUME NEW h \in Heap, s2.owner[h] \in V \cup {Tmp} PROVE h \in V
      BY DEF Family
    <2>1. s2.owner[h] = s1.owner[h]
      BY <1>0, <1>5
    <2>2. s.owner[h] \in V \cup {v}
      BY <1>0, <1>3, <2>1, WholeFacts, QuietFacts, NullChildless DEF Empty, Containers
    <2> QED
      BY <1>0, <2>2 DEF Family
  <1>8. Apart(s2, c, Tmp)
    BY <1>0, <1>7 DEF Apart
  <1>9. destruct(s2, c) = s2
    BY <1>5 DEF destruct
  <1>10. Rooted(s3, Locals)
    BY <1>0, <1>5, <1>6, <1>8, <1>9, WholeFacts, move_fromRooted
  <1>11. destruct(s3, Tmp) = s3
    <2>1. Moved(s2, c, Tmp, s3)
      BY <1>0, <1>5, <1>6, MoveToNull
    <2> HIDE DEF s3
    <2>2. s3.vtype[Tmp] = "Null"
      BY <1>0, <2>1 DEF Moved
    <2> QED
      BY <2>2 DEF destruct
  <1> QED
    BY <1>10, <1>11 DEF swapped, s3, s2, s1

LEMMA LiteralWhole ==
  ASSUME NEW s, Whole(s), NEW l \in Literals, NEW a, a = Literal(s, l[1], l[2])
  PROVE  /\ Tidy(a) /\ BlankBut(a, {}) /\ Rooted(a, Locals) /\ Below(a, Arg) = {}
         /\ \A h \in Heap : a.owner[h] # Arg
         /\ \A e \in Cell : e # Arg => Below(a, e) = Below(s, e)
  <1>1. /\ Tidy(a) /\ (\A h \in Heap : a.owner[h] = s.owner[h])
        /\ \A e \in Cell : e # Arg => a.vtype[e] = s.vtype[e]
        /\ a.vtype[Arg] \notin Containers
    BY WholeFacts, QuietFacts, LiteralEffect
  <1>2. BlankBut(a, {}) /\ Rooted(a, Locals)
    BY <1>1, WholeFacts, LiteralBlank, RootedSame
  <1>3. \A h \in Heap : a.owner[h] # Arg
    BY <1>1, WholeFacts, QuietFacts, LocalsApart, NullChildless DEF Empty, Containers
  <1>4. ASSUME NEW e \in Cell, e # Arg PROVE Below(a, e) = Below(s, e)
    <2>1. \A d \in Heap \cup {e} : a.vtype[d] = s.vtype[d]
      BY <1>1, <1>4, LocalsApart, ArgTmpCell
    <2> QED
      BY <1>1, <2>1, BelowSame
  <1> QED
    BY <1>1, <1>2, <1>3, <1>4, BelowLeaf

LEMMA AssignNewRooted ==
  ASSUME NEW s, Whole(s), NEW c \in Addressable(s), NEW l \in Literals
  PROVE  Rooted(move_from(Literal(s, l[1], l[2]), c, Arg), Locals)
  <1> DEFINE a == Literal(s, l[1], l[2])
  <1>1. /\ Tidy(a) /\ BlankBut(a, {}) /\ Rooted(a, Locals)
        /\ Alive(destruct(a, c), c)
        /\ \A h \in Heap : a.owner[h] # Arg
    BY WholeFacts, LiteralQuiet, LiteralWhole
  <1>2. c \in Cell /\ Arg \in Cell /\ Alive(destruct(a, c), Arg)
    BY WholeFacts, AddressableFacts, LocalsApart DEF Alive
  <1>3. Apart(a, c, Arg)
    BY <1>1, ChildlessApart
  <1> HIDE DEF a
  <1>4. Rooted(move_from(a, c, Arg), Locals)
    BY <1>1, <1>2, <1>3, WholeFacts, move_fromRooted
  <1> QED
    BY <1>4 DEF a

LEMMA PushBackNewRooted ==
  ASSUME NEW s, Whole(s), NEW c \in Addressable(s), NEW l \in Literals,
         NEW m \in FreeNodes(s), NEW n \in FreeNodes(s),
         (m = n) <=> s.vtype[c] \in {"Null", "Array"}
  PROVE  Rooted(PushMoved(Literal(s, l[1], l[2]), c, Arg, m, n), Locals)
  <1> DEFINE a == Literal(s, l[1], l[2])
             r == PushMoved(a, c, Arg, m, n)
  <1>1. /\ Empty(a, Tmp) /\ (\A h \in Heap : a.owner[h] = s.owner[h])
        /\ \A e \in Cell : e # Arg => a.vtype[e] = s.vtype[e] /\ a.held[e] = s.held[e]
        /\ Alive(a, c)
    BY WholeFacts, LiteralQuiet
  <1>2. /\ Tidy(a) /\ BlankBut(a, {}) /\ Rooted(a, Locals) /\ Below(a, Arg) = {}
        /\ \A e \in Cell : e # Arg => Below(a, e) = Below(s, e)
    BY LiteralWhole
  <1> HIDE DEF a
  <1>3. c \in Cell /\ c # Tmp /\ c # Arg /\ PushArgs(s, c, m, n) /\ c \notin Below(s, c)
    BY WholeFacts, AddressableFacts, PushArgsHold
  <1>4. \A h \in Heap : Fresh(s, h) => Fresh(a, h)
    BY <1>1, LocalsApart, ArgTmpCell DEF Fresh
  <1>5. Wraps(a, c) <=> Wraps(s, c)
    BY <1>1, <1>3 DEF Wraps
  <1>6. PushArgs(a, c, m, n)
    BY <1>1, <1>2, <1>3, <1>4, <1>5 DEF PushArgs, Fresh
  <1>7. Arg # n /\ ~(Wraps(a, c) /\ Arg = m) /\ Alive(a, Arg) /\ Arg \in Cell /\ Arg # Tmp
    BY <1>3, <1>5, LocalsApart DEF PushArgs, Fresh, Alive
  <1>8. Rooted(a, Locals \cup {n})
    BY <1>2, RootedMore
  <1>9. Rooted(r, Locals)
    BY <1>2, <1>3, <1>6, <1>7, <1>8, WholeFacts, PushMovedRooted
  <1> QED
    BY <1>9 DEF r, a

LEMMA InsertKeyRooted ==
  ASSUME NEW s, Tidy(s), BlankBut(s, {}), Rooted(s, Locals), NEW c \in Cell, Alive(s, c),
         s.vtype[c] \in {"Null", "Map"}, NEW k \in Keys, NEW n, Fresh(s, n), n # c,
         s.owner[n] = Free
  PROVE  Rooted(InsertKey(s, c, k, n), Locals)
  <1> DEFINE r == InsertKey(s, c, k, n)
  <1>1. s \in State /\ n \in Heap /\ Locals \in SUBSET Cell /\ Placed(s, Locals, c) /\ Marked(s)
    BY ArgTmpCell, AlivePlaced, MarkedHolds DEF Locals, Fresh, Tidy
  <1>2. s.vtype[c] = "Null" => \A h \in Heap : s.owner[h] # c
    BY <1>1, NullChildless DEF Containers
  <1>3. \A h \in Heap : r.owner[h] = IF h = n THEN c
             ELSE IF s.vtype[c] = "Null" /\ s.owner[h] = c THEN Stray ELSE s.owner[h]
    BY InsertKeyEffect
  <1>4. \A h \in Heap : r.owner[h] = IF h = n THEN c ELSE s.owner[h]
    BY <1>2, <1>3
  <1> HIDE DEF r
  <1>5. Rooted(r, Locals)
    BY <1>1, <1>4, AttachNewRooted
  <1> QED
    BY <1>5 DEF r

LEMMA IndexKeyRooted ==
  ASSUME NEW s, Whole(s), NEW c \in Addressable(s), NEW k \in Keys, NEW n \in FreeNodes(s),
         s.vtype[c] \in {"Null", "Map"}
  PROVE  Rooted(InsertKey(s, c, k, n), Locals)
  <1>1. c \in Cell /\ Alive(s, c) /\ n # c /\ Fresh(s, n) /\ s.owner[n] = Free
    BY WholeFacts, QuietFacts, AddressableFacts, OperandNotFree DEF FreeNodes
  <1> QED
    BY <1>1, WholeFacts, InsertKeyRooted

\* The move that ends an assignment of a temporary to a variable.
LEMMA ToVariableRooted ==
  ASSUME NEW s, Tidy(s), BlankBut(s, {}), Rooted(s, Locals), NEW c \in Named
  PROVE  Rooted(move_from(s, c, Arg), Locals)
  <1>1. c \in Cell /\ Arg \in Cell /\ Alive(destruct(s, c), c) /\ Alive(destruct(s, c), Arg)
    BY CellAssumption, ArgTmpCell DEF Alive
  <1>2. c \in Locals /\ Locals \in SUBSET Cell
    BY ArgTmpCell DEF Locals
  <1> QED
    BY <1>1, <1>2, move_fromRooted

LEMMA ListOfOneRooted ==
  ASSUME NEW s, Whole(s), NEW c \in Named, NEW x \in Addressable(s), NEW f \in CopyMaps(s, Arg, x)
  PROVE  Rooted(move_from(copy_from(s, Arg, x, f), c, Arg), Locals)
  <1> DEFINE q == copy_from(s, Arg, x, f)
  <1>1. x \in Cell /\ Alive(s, x) /\ Arg \in Cell /\ Alive(s, Arg) /\ s.vtype[Arg] = "Null"
    BY WholeFacts, QuietFacts, AddressableFacts, LocalsApart DEF Alive, Empty
  <1>2. Alive(destruct(s, Arg), Arg) /\ Alive(destruct(s, Arg), x)
    BY <1>1 DEF destruct
  <1>3. Tidy(q) /\ BlankBut(q, {}) /\ Rooted(q, Locals)
    BY <1>1, <1>2, WholeFacts, CopyToNull, copy_fromBlank, copy_fromRooted
  <1> HIDE DEF q
  <1>4. Rooted(move_from(q, c, Arg), Locals)
    BY <1>3, ToVariableRooted
  <1> QED
    BY <1>4 DEF q

LEMMA PairRooted ==
  ASSUME NEW s, Whole(s), NEW c \in Named, NEW k \in Keys, NEW x \in Addressable(s),
         NEW n \in FreeNodes(s), NEW a, a = InsertKey(s, Arg, k, n),
         NEW f \in CopyMaps(a, n, x)
  PROVE  Rooted(move_from(copy_from(a, n, x, f), c, Arg), Locals)
  <1> DEFINE q == copy_from(a, n, x, f)
  <1>1. /\ n \in Heap /\ n \in Cell /\ Fresh(s, n) /\ Arg \in Cell /\ Arg # n
        /\ x \in Cell /\ x # n /\ Alive(s, x) /\ Alive(s, Arg) /\ s.vtype[Arg] = "Null"
        /\ s.owner[n] = Free
    BY WholeFacts, QuietFacts, AddressableFacts, OperandNotFree, LocalsApart, ArgTmpCell
       DEF FreeNodes, Alive, Empty
  <1>2. /\ Tidy(a) /\ a \in State
        /\ \A e \in Cell : a.vtype[e] = IF e = Arg THEN "Map" ELSE s.vtype[e]
        /\ \A h \in Heap : a.owner[h] \in {IF h = n THEN Arg ELSE s.owner[h], Stray}
        /\ a.owner[n] = Arg
    BY <1>1, WholeFacts, InsertKeyEffect DEF Tidy
  <1>3. a.vtype[n] = "Null" /\ Alive(a, n) /\ Alive(a, x)
    BY <1>1, <1>2, CellNoMark, OwnerAssumption DEF Fresh, Alive
  <1>4. BlankBut(a, {}) /\ Rooted(a, Locals)
    BY <1>1, WholeFacts, InsertKeyBlank, InsertKeyRooted
  <1>5. Alive(destruct(a, n), n) /\ Alive(destruct(a, n), x)
    BY <1>3 DEF destruct
  <1>6. Tidy(q) /\ BlankBut(q, {}) /\ Rooted(q, Locals)
    BY <1>1, <1>2, <1>3, <1>4, <1>5, WholeFacts, CopyToNull, copy_fromBlank, copy_fromRooted
  <1> HIDE DEF q
  <1>7. Rooted(move_from(q, c, Arg), Locals)
    BY <1>6, ToVariableRooted
  <1> QED
    BY <1>7 DEF q

LEMMA LeaveScopeRooted ==
  ASSUME NEW s, Whole(s), NEW x \in Named
  PROVE  Rooted(construct(destruct(s, x), x, "Null", NoData), Locals)
  <1> DEFINE a == destruct(s, x)
             r == construct(a, x, "Null", NoData)
  <1>1. x \in Cell /\ s \in State
    BY WholeFacts, ArgTmpCell
  <1>2. Tidy(a) /\ BlankBut(a, {}) /\ Rooted(a, Locals) /\ a.vtype[x] = "Null" /\ a \in State
    BY <1>1, WholeFacts, destructTidy, destructBlank, destructRooted, destructNull DEF Tidy
  <1> HIDE DEF a
  <1>3. \A h \in Heap : a.owner[h] # x
    BY <1>1, <1>2, MarkedHolds, NullChildless DEF Containers
  <1>4. \A h \in Heap : r.owner[h] = a.owner[h]
    BY <1>1, <1>2, <1>3, constructEffect, TagsType
  <1> HIDE DEF r
  <1>5. Rooted(r, Locals)
    BY <1>2, <1>4, RootedSame
  <1> QED
    BY <1>5 DEF r, a

LEMMA ListOfTwoRooted ==
  ASSUME NEW s, Whole(s), NEW c \in Named, NEW x \in Addressable(s), NEW y \in Addressable(s),
         NEW m \in FreeNodes(s), NEW n \in FreeNodes(s), m # n,
         NEW f \in PushMaps(make_unique(s, n), Arg, x, m, m),
         NEW a, a = PushCopied(make_unique(s, n), Arg, x, m, m, f),
         NEW g \in PushMaps(a, Arg, y, n, n)
  PROVE  Rooted(move_from(PushCopied(a, Arg, y, n, n, g), c, Arg), Locals)
  <1> DEFINE p == make_unique(s, n)
             b == PushCopied(a, Arg, y, n, n, g)
             Q == Locals \cup {n}
  <1>1. /\ m \in Heap /\ n \in Heap /\ Fresh(s, m) /\ Fresh(s, n) /\ Arg \in Cell /\ Arg \notin Heap
        /\ x \in Cell /\ y \in Cell /\ x # n /\ y # n /\ Alive(s, x) /\ Alive(s, y)
    BY WholeFacts, QuietFacts, AddressableFacts, OperandNotFree, LocalsApart DEF FreeNodes
  <1>2. /\ Tidy(p) /\ p \in State /\ p.vtype = s.vtype /\ p.held = s.held
        /\ \A h \in Heap : p.owner[h] = IF h = n THEN Uptr ELSE s.owner[h]
        /\ BlankBut(p, {}) /\ Rooted(p, Q)
    BY <1>1, WholeFacts, make_uniqueEffect, make_uniqueTidy, make_uniqueBlank, make_uniqueRooted
       DEF Fresh
  <1>3. f \in PushMaps(p, Arg, x, m, m) /\ a = PushCopied(p, Arg, x, m, m, f)
    OBVIOUS
  <1> HIDE DEF p
  <1>4. p.vtype[Arg] = "Null" /\ Empty(p, Tmp)
    BY <1>2, WholeFacts, QuietFacts DEF Empty
  <1>5. PushArgs(p, Arg, m, m)
    BY <1>1, <1>2, <1>4, LocalsApart DEF PushArgs, Wraps, Fresh, Alive
  <1>6. Alive(p, x) /\ Alive(p, y)
    BY <1>1, <1>2 DEF Alive
  <1>7. /\ Pushed(p, Arg, m, m, a)
        /\ \A e \in Cell \ Heap : e # Arg => a.vtype[e] = p.vtype[e] /\ a.held[e] = p.held[e]
        /\ \A h \in Heap : h # Arg /\ a.owner[h] = Uptr =>
             a.vtype[h] = p.vtype[h] /\ a.held[h] = p.held[h]
    BY <1>1, <1>3, <1>5, <1>6, PushCopiedEffect
  <1>8. /\ Tidy(a) /\ a \in State /\ a.vtype[Arg] = "Array" /\ Empty(a, Tmp) /\ Alive(a, y)
        /\ \A h \in Heap : a.owner[h] = Uptr <=> h = n
    BY <1>2, <1>4, <1>6, <1>7, WholeFacts, QuietFacts, LocalsApart
       DEF Pushed, Empty, Alive, Wraps, Tidy
  <1>9. Fresh(a, n)
    BY <1>1, <1>2, <1>7, <1>8 DEF Fresh
  <1>10. PushArgs(a, Arg, n, n)
    BY <1>1, <1>8, <1>9, LocalsApart DEF PushArgs, Wraps, Alive
  <1>11. Arg \notin Below(p, Arg) /\ Arg \notin Below(a, Arg)
    BY <1>1, BelowType
  <1>12. Q \in SUBSET Cell /\ Locals \subseteq Q
    BY <1>1, WholeFacts, ArgTmpCell
  <1>13. Rooted(p, Q \cup {m})
    BY <1>2, RootedMore
  <1> HIDE DEF Q
  <1>14. Rooted(a, Q)
    BY <1>1, <1>2, <1>3, <1>5, <1>6, <1>11, <1>12, <1>13, PushCopiedRooted
  <1>15. BlankBut(a, {})
    BY <1>1, <1>2, <1>3, PushCopiedBlank
  <1>16. Rooted(b, Locals)
    BY <1>1, <1>8, <1>10, <1>11, <1>14, <1>15, WholeFacts, PushCopiedRooted DEF Q
  <1>17. Tidy(b) /\ BlankBut(b, {})
    BY <1>1, <1>8, <1>10, <1>15, PushCopiedEffect, PushCopiedBlank DEF Pushed
  <1> HIDE DEF b
  <1>18. Rooted(move_from(b, c, Arg), Locals)
    BY <1>16, <1>17, ToVariableRooted
  <1> QED
    BY <1>18 DEF b

LEMMA InitRooted == Init => Rooted(st, Locals)
  BY DEF Init, Rooted

LEMMA NextRooted ==
  ASSUME Client # "any", ~AllocMayFail, Whole(st), Next PROVE Rooted(st', Locals)
  <1>0. \A c \in Addressable(st) : c \in Cell
    BY AddressableType
  <1>1. ASSUME NEW c \in Addressable(st), Call(c) PROVE Rooted(st', Locals)
    <2>1. ASSUME NEW v \in Addressable(st), CopyAssign(c, v) PROVE Rooted(st', Locals)
      BY <2>1, CopyRooted DEF CopyAssign, SafeCopy
    <2>2. ASSUME NEW v \in Addressable(st), MoveAssign(c, v) PROVE Rooted(st', Locals)
      BY <2>2, MoveRooted DEF MoveAssign, SafeMove
    <2>3. ASSUME NEW v \in Addressable(st), PushBackMove(c, v) PROVE Rooted(st', Locals)
      BY <2>3, PushMoveRooted DEF PushBackMove, SafePush, Wraps
    <2>4. ASSUME NEW v \in Addressable(st), PushBackCopy(c, v) PROVE Rooted(st', Locals)
      BY <2>4, PushCopyRooted DEF PushBackCopy
    <2>5. ASSUME NEW v \in Addressable(st), RemoveElement(c, v) PROVE Rooted(st', Locals)
      BY <1>0, <2>5, EraseRooted DEF RemoveElement, Kids
    <2>6. ASSUME NEW v \in Addressable(st), Swap(c, v) PROVE Rooted(st', Locals)
      BY <2>6, SwapRooted DEF Swap, SafeMove
    <2>7. ASSUME NEW l \in Literals, AssignNew(c, l[1], l[2]) PROVE Rooted(st', Locals)
      BY <2>7, AssignNewRooted DEF AssignNew
    <2>8. ASSUME NEW l \in Literals, PushBackNew(c, l[1], l[2]) PROVE Rooted(st', Locals)
      BY <2>8, PushBackNewRooted DEF PushBackNew
    <2>9. ASSUME NEW k \in Keys, IndexKey(c, k) PROVE Rooted(st', Locals)
      BY <2>9, IndexKeyRooted DEF IndexKey
    <2>10. ASSUME NEW k \in Keys, RemoveKey(c, k) PROVE Rooted(st', Locals)
      BY <1>0, <2>10, EraseRooted DEF RemoveKey, Kids
    <2>11. ASSUME NEW d \in Payloads, WriteThrough(c, d) PROVE Rooted(st', Locals)
      <3>1. st'.owner = st.owner
        BY <2>11 DEF WriteThrough
      <3> QED
        BY <3>1, WholeFacts, RootedSame
    <2>12. CASE StealString(c)
      <3>1. st'.owner = st.owner
        BY <2>12 DEF StealString
      <3> QED
        BY <3>1, WholeFacts, RootedSame
    <2> QED
      BY <1>1, <2>1, <2>2, <2>3, <2>4, <2>5, <2>6, <2>7, <2>8, <2>9, <2>10, <2>11, <2>12
         DEF Call, CopyAssignFails, PushBackMoveFails, PushBackFails, IndexKeyFails
  <1>2. ASSUME NEW x \in Named, Construct(x) PROVE Rooted(st', Locals)
    <2>1. ASSUME NEW v \in Addressable(st), AssignListOfOne(x, v) PROVE Rooted(st', Locals)
      BY <2>1, ListOfOneRooted DEF AssignListOfOne
    <2>2. ASSUME NEW v \in Addressable(st), NEW y \in Addressable(st), AssignListOfTwo(x, v, y)
          PROVE  Rooted(st', Locals)
      BY <2>2, ListOfTwoRooted DEF AssignListOfTwo
    <2>3. ASSUME NEW v \in Addressable(st), NEW k \in Keys, AssignPair(x, k, v)
          PROVE  Rooted(st', Locals)
      BY <2>3, PairRooted DEF AssignPair
    <2> QED
      BY <1>2, <2>1, <2>2, <2>3 DEF Construct
  <1>3. ASSUME NEW x \in Named, LeaveScope(x) PROVE Rooted(st', Locals)
    BY <1>3, LeaveScopeRooted DEF LeaveScope
  <1> QED
    BY <1>1, <1>2, <1>3 DEF Next

\* What the locals reach when a call returns is what the variables reach.
LEMMA WholeLeaksNothing == Whole(st) => NoLeak
  <1> SUFFICES ASSUME Whole(st), NEW h \in Allocated(st)
               PROVE  h \in UNION {Below(st, x) : x \in Named}
    BY DEF NoLeak
  <1> DEFINE S == UNION {Below(st, x) : x \in Named}
  <1>1. S \in SUBSET Heap
    BY BelowType
  <1>2. Family(st, Locals, S)
    <2> SUFFICES ASSUME NEW k \in Heap, st.owner[k] \in S \cup Locals PROVE k \in S
      BY DEF Family
    <2>1. st.owner[k] \notin {Tmp, Arg}
      BY WholeFacts, QuietFacts, LocalsApart, NullChildless DEF Empty, Containers
    <2>2. PICK x \in Named : st.owner[k] \in Below(st, x) \cup {x}
      BY <2>1 DEF Locals
    <2>3. Family(st, {x}, Below(st, x))
      BY WholeFacts, BelowFamily, ArgTmpCell
    <2> QED
      BY <2>2, <2>3 DEF Family
  <1>3. h \in Heap /\ st.owner[h] # Free
    BY DEF Allocated
  <1>4. h \in S \cup Locals
    BY <1>1, <1>2, <1>3, WholeFacts, RootedUse
  <1> QED
    BY <1>3, <1>4, CellAssumption DEF Locals

\* Every node is reached from a variable, so ~Value frees it: no call of a
\* client that keeps the discipline leaves one behind.  An allocation that
\* fails can.
THEOREM NothingLeaks ==
  ASSUME Client # "any", ~AllocMayFail PROVE Spec => []NoLeak
  <1> DEFINE Inv == TypeOK /\ Whole(st)
  <1>1. Init => Inv
    BY InitType, InitQuiet, InitBlank, InitRooted DEF Whole
  <1>2. Inv /\ [Next]_st => Inv'
    <2> SUFFICES ASSUME Inv, [Next]_st PROVE Inv'
      OBVIOUS
    <2>1. CASE UNCHANGED st
      BY <2>1 DEF TypeOK, Whole
    <2>2. CASE Next
      <3>1. TypeOK' /\ BlankBut(st', {})
        BY <2>2, NextType, NextBlank DEF Whole
      <3>2. Quiet(st') /\ Rooted(st', Locals)
        BY <2>2, NextFine, NextRooted DEF Whole, Fine
      <3> QED
        BY <3>1, <3>2 DEF Whole
    <2> QED
      BY <2>1, <2>2
  <1>3. Inv => NoLeak
    BY WholeLeaksNothing
  <1> QED
    BY <1>1, <1>2, <1>3, PTL DEF Spec

-----------------------------------------------------------------------------
(* The nodes K of one container, f the position or key of each.            *)

Different(K, f) == \A h, k \in K : f[h] = f[k] => h = k

Numbered(K, f) == {f[h] : h \in K} = 1..Cardinality(K) /\ Different(K, f)

Keyed(K, f) == (\A h \in K : f[h] \in Keys) /\ Different(K, f)

\* What a container of the kind t asks of them.
Arranged(t, K, f) == (t = "Array" => Numbered(K, f)) /\ (t = "Map" => Keyed(K, f))

LEMMA ArrangedSame ==
  ASSUME NEW t, NEW K, NEW f, NEW g, Arranged(t, K, f), \A h \in K : g[h] = f[h]
  PROVE  Arranged(t, K, g)
  <1>1. {g[h] : h \in K} = {f[h] : h \in K}
    OBVIOUS
  <1> QED
    BY <1>1 DEF Arranged, Numbered, Keyed, Different

LEMMA ArrangedEmpty == ASSUME NEW t, NEW f PROVE Arranged(t, {}, f)
  <1>1. Cardinality({}) = 0 /\ 1..0 = {}
    BY FS_EmptySet
  <1> QED
    BY <1>1 DEF Arranged, Numbered, Keyed, Different

LEMMA ArrangedNone == ASSUME NEW t, t \notin Containers, NEW K, NEW f PROVE Arranged(t, K, f)
  BY DEF Arranged, Containers

\* A vector of one element.
LEMMA ArrangedFirst ==
  ASSUME NEW n, NEW f, f[n] = 1 PROVE Arranged("Array", {n}, f)
  <1>1. Cardinality({n}) = 1 /\ 1..1 = {1} /\ {f[h] : h \in {n}} = {1}
    BY FS_Singleton
  <1> QED
    BY <1>1 DEF Arranged, Numbered, Different

\* The copies of the elements, each with the position or key of the original.
LEMMA ArrangedCopy ==
  ASSUME NEW t, NEW K \in SUBSET Heap, NEW L, NEW f, NEW g, NEW F, Arranged(t, K, f),
         \A x \in K : F[x] \in L /\ g[F[x]] = f[x],
         \A h \in L : \E x \in K : F[x] = h,
         \A x, y \in K : F[x] = F[y] => x = y
  PROVE  Arranged(t, L, g)
  <1> DEFINE B == [x \in K |-> F[x]]
  <1>1. B \in Bijection(K, L)
    BY DEF Bijection, Injection, Surjection, IsInjective
  <1>2. ExistsBijection(K, L)
    BY <1>1 DEF ExistsBijection
  <1>3. IsFiniteSet(K)
    BY FiniteAssumption, FS_Subset
  <1>4. Cardinality(L) = Cardinality(K)
    BY <1>2, <1>3, FS_Bijection
  <1>5. {g[h] : h \in L} = {f[x] : x \in K}
    OBVIOUS
  <1>6. Different(K, f) => Different(L, g)
    <2> SUFFICES ASSUME Different(K, f), NEW h \in L, NEW k \in L, g[h] = g[k] PROVE h = k
      BY DEF Different
    <2>1. PICK x \in K : F[x] = h
      OBVIOUS
    <2>2. PICK y \in K : F[y] = k
      OBVIOUS
    <2>3. f[x] = f[y]
      BY <2>1, <2>2
    <2> QED
      BY <2>1, <2>2, <2>3 DEF Different
  <1>7. Numbered(K, f) => Numbered(L, g)
    BY <1>4, <1>5, <1>6 DEF Numbered
  <1>8. Keyed(K, f) => Keyed(L, g)
    <2> SUFFICES ASSUME Keyed(K, f) PROVE \A h \in L : g[h] \in Keys
      BY <1>6 DEF Keyed
    <2> QED
      BY DEF Keyed
  <1> QED
    BY <1>7, <1>8 DEF Arranged

\* emplace_back: one position more.
LEMMA ArrangedAppend ==
  ASSUME NEW K \in SUBSET Heap, NEW n, n \notin K, NEW f, NEW g, Arranged("Array", K, f),
         \A h \in K : g[h] = f[h], g[n] = Cardinality(K) + 1
  PROVE  Arranged("Array", K \cup {n}, g)
  <1> DEFINE c == Cardinality(K)
             L == K \cup {n}
  <1>1. IsFiniteSet(K)
    BY FiniteAssumption, FS_Subset
  <1>2. c \in Nat /\ Cardinality(L) = c + 1
    BY <1>1, FS_CardinalityType, FS_AddElement
  <1>3. Numbered(K, f)
    BY DEF Arranged
  <1>4. {f[h] : h \in K} = 1..c
    BY <1>3 DEF Numbered
  <1>5. g[n] = c + 1
    OBVIOUS
  <1> HIDE DEF c
  <1>6. \A h \in K : g[h] \in 1..c
    BY <1>4
  <1>7. {g[h] : h \in L} = {f[h] : h \in K} \cup {c + 1}
    BY <1>5
  <1>8. (1..c) \cup {c + 1} = 1..(c + 1)
    BY <1>2
  <1>9. Different(L, g)
    BY <1>2, <1>3, <1>5, <1>6 DEF Numbered, Different
  <1>10. Numbered(L, g)
    BY <1>2, <1>4, <1>7, <1>8, <1>9 DEF Numbered
  <1> QED
    BY <1>10 DEF Arranged

\* emplace of a key that is not there.
LEMMA ArrangedEmplace ==
  ASSUME NEW K, NEW n, NEW f, NEW g, Arranged("Map", K, f),
         \A h \in K : g[h] = f[h], g[n] \in Keys, \A h \in K : f[h] # g[n]
  PROVE  Arranged("Map", K \cup {n}, g)
  <1>1. Keyed(K, f)
    BY DEF Arranged
  <1>2. Keyed(K \cup {n}, g)
    BY <1>1 DEF Keyed, Different
  <1> QED
    BY <1>2 DEF Arranged

\* vector::erase: what stood behind x moves up.
LEMMA ArrangedErase ==
  ASSUME NEW K \in SUBSET Heap, NEW x \in K, NEW f, NEW g, Arranged("Array", K, f),
         \A h \in K \ {x} : g[h] = IF f[h] > f[x] THEN f[h] - 1 ELSE f[h]
  PROVE  Arranged("Array", K \ {x}, g)
  <1> DEFINE c == Cardinality(K)
             L == K \ {x}
             p == f[x]
  <1>1. IsFiniteSet(K)
    BY FiniteAssumption, FS_Subset
  <1>2. c \in Nat /\ Cardinality(L) = c - 1
    BY <1>1, FS_CardinalityType, FS_RemoveElement
  <1>3. Numbered(K, f)
    BY DEF Arranged
  <1>4. {f[h] : h \in K} = 1..c
    BY <1>3 DEF Numbered
  <1>5. \A h \in L : g[h] = IF f[h] > p THEN f[h] - 1 ELSE f[h]
    OBVIOUS
  <1> HIDE DEF c
  <1>6. p \in 1..c /\ \A h \in K : f[h] \in 1..c
    BY <1>4
  <1>7. \A h \in L : f[h] # p
    BY <1>3 DEF Numbered, Different
  <1> HIDE DEF p
  <1>8. \A h \in L : g[h] \in 1..(c - 1)
    BY <1>2, <1>5, <1>6, <1>7
  <1>9. ASSUME NEW i \in 1..(c - 1) PROVE \E h \in L : g[h] = i
    <2>1. CASE i < p
      <3>1. i \in 1..c
        BY <1>2
      <3>2. PICK h \in K : f[h] = i
        BY <1>4, <3>1
      <3>3. h \in L
        BY <2>1, <3>2, <1>6 DEF p
      <3> QED
        BY <1>5, <1>6, <2>1, <3>2, <3>3
    <2>2. CASE ~(i < p)
      <3>1. i + 1 \in 1..c
        BY <1>2
      <3>2. PICK h \in K : f[h] = i + 1
        BY <1>4, <3>1
      <3>3. h \in L
        BY <1>6, <2>2, <3>2 DEF p
      <3> QED
        BY <1>5, <1>6, <2>2, <3>2, <3>3
    <2> QED
      BY <2>1, <2>2
  <1>10. {g[h] : h \in L} = 1..(c - 1)
    BY <1>8, <1>9
  <1>11. Different(L, g)
    <2> SUFFICES ASSUME NEW h \in L, NEW k \in L, g[h] = g[k] PROVE h = k
      BY DEF Different
    <2>1. f[h] \in Int /\ f[k] \in Int /\ p \in Int /\ f[h] # p /\ f[k] # p
      BY <1>6, <1>7
    <2>2. f[h] = f[k]
      BY <1>5, <2>1
    <2> QED
      BY <1>3, <2>2 DEF Numbered, Different
  <1>12. Numbered(L, g)
    BY <1>2, <1>10, <1>11 DEF Numbered
  <1> QED
    BY <1>12 DEF Arranged

\* unordered_map::erase.
LEMMA ArrangedLess ==
  ASSUME NEW K, NEW x, NEW f, NEW g, Arranged("Map", K, f), \A h \in K \ {x} : g[h] = f[h]
  PROVE  Arranged("Map", K \ {x}, g)
  <1>1. Keyed(K, f)
    BY DEF Arranged
  <1>2. Keyed(K \ {x}, g)
    BY <1>1 DEF Keyed, Different
  <1> QED
    BY <1>2 DEF Arranged

-----------------------------------------------------------------------------
(* Every container, and what the helpers of Value do to it.                *)

Nodes(s, c) == {h \in Heap : s.owner[h] = c}

Slotted(s) == \A c \in Cell : Arranged(s.held[c], Nodes(s, c), s.slot)

\* The containers outside X are those of s, with the same nodes in the same places.
Unmoved(s, a, X) ==
  \A e \in Cell \ X : a.held[e] \in Containers =>
    /\ a.held[e] = s.held[e]
    /\ Nodes(a, e) = Nodes(s, e)
    /\ \A h \in Nodes(s, e) : a.slot[h] = s.slot[h]

LEMMA SlottedFrame ==
  ASSUME NEW s, Slotted(s), NEW a, NEW X, Unmoved(s, a, X),
         \A e \in X : Arranged(a.held[e], Nodes(a, e), a.slot)
  PROVE  Slotted(a)
  <1> SUFFICES ASSUME NEW e \in Cell, e \notin X, a.held[e] \in Containers
               PROVE  Arranged(a.held[e], Nodes(a, e), a.slot)
    BY ArrangedNone DEF Slotted
  <1>1. /\ a.held[e] = s.held[e] /\ Nodes(a, e) = Nodes(s, e)
        /\ \A h \in Nodes(s, e) : a.slot[h] = s.slot[h]
    BY DEF Unmoved
  <1>2. Arranged(s.held[e], Nodes(s, e), s.slot)
    BY DEF Slotted
  <1> QED
    BY <1>1, <1>2, ArrangedSame

LEMMA SlottedSame ==
  ASSUME NEW s, Slotted(s), NEW a, \A e \in Cell : a.held[e] = s.held[e],
         \A h \in Heap : a.owner[h] = s.owner[h] /\ a.slot[h] = s.slot[h]
  PROVE  Slotted(a)
  <1>1. Unmoved(s, a, {})
    BY DEF Unmoved, Nodes
  <1> QED
    BY <1>1, SlottedFrame

\* A container that is not destroyed keeps its nodes and their places.
LEMMA destructUnmoved ==
  ASSUME NEW s \in State, NEW c \in Cell PROVE Unmoved(s, destruct(s, c), {})
  <1> DEFINE a == destruct(s, c)
  <1>1. Destructed(s, c, a)
    BY destructEffect
  <1> HIDE DEF a
  <1>2. SUFFICES ASSUME NEW e \in Cell, a.held[e] \in Containers
                 PROVE  /\ a.held[e] = s.held[e]
                        /\ Nodes(a, e) = Nodes(s, e)
                        /\ \A h \in Nodes(s, e) : a.slot[h] = s.slot[h]
    BY DEF Unmoved, a
  <1>3. e \notin Below(s, c) /\ (e = c => s.vtype[c] = "Null") /\ a.held[e] = s.held[e]
    BY <1>1, <1>2 DEF Destructed, Containers
  <1>4. \A h \in Heap : s.owner[h] = e => h \notin Below(s, c)
    BY <1>3, BelowOwner DEF Containers
  <1>5. \A h \in Heap : a.owner[h] = e <=> s.owner[h] = e
    BY <1>1, <1>3, <1>4, CellNoMark DEF Destructed
  <1>6. \A h \in Heap : s.owner[h] = e => a.slot[h] = s.slot[h]
    BY <1>1, <1>4 DEF Destructed
  <1> QED
    BY <1>3, <1>5, <1>6 DEF Nodes

LEMMA destructSlotted ==
  ASSUME NEW s \in State, Slotted(s), NEW c \in Cell PROVE Slotted(destruct(s, c))
  BY destructUnmoved, SlottedFrame

\* The nodes of a container are what its tag lets the code see, unless it is Null.
LEMMA NodesAreKids ==
  ASSUME NEW s, Tidy(s), NEW c \in Cell, s.vtype[c] # "Null"
  PROVE  Nodes(s, c) = Kids(s, c) /\ s.held[c] = HeldBy(s.vtype[c])
  <1>1. s.held[c] = HeldBy(s.vtype[c])
    BY DEF Tidy, Truthful
  <1>2. CASE s.vtype[c] \in Containers
    BY <1>1, <1>2 DEF Nodes, Kids
  <1>3. CASE s.vtype[c] \notin Containers
    <2>1. s.held[c] \notin Containers
      BY <1>1, <1>3 DEF HeldBy, Containers
    <2>2. Nodes(s, c) = {}
      BY <2>1, OwnedNone DEF Tidy, Nodes
    <2> QED
      BY <1>1, <1>3, <2>2 DEF Kids
  <1> QED
    BY <1>2, <1>3

LEMMA MovedSlotted ==
  ASSUME NEW s, Tidy(s), Slotted(s), NEW c \in Cell, NEW v \in Cell, c # v,
         NEW r, Moved(s, c, v, r)
  PROVE  Slotted(r)
  <1>1. CASE s.vtype[v] = "Null"
    <2>1. Kids(s, v) = {}
      BY <1>1 DEF Kids, Containers
    <2>2. /\ \A e \in Cell : r.held[e] = s.held[e]
          /\ \A h \in Heap : r.owner[h] = s.owner[h] /\ r.slot[h] = s.slot[h]
      BY <1>1, <2>1 DEF Moved
    <2> QED
      BY <2>2, SlottedSame
  <1>2. CASE s.vtype[v] # "Null"
    <2>1. Nodes(s, v) = Kids(s, v) /\ s.held[v] = HeldBy(s.vtype[v])
      BY <1>2, NodesAreKids
    <2>2. /\ \A e \in Cell : r.held[e] = IF e = v THEN "none" ELSE IF e = c THEN s.held[v]
                                         ELSE s.held[e]
          /\ \A h \in Heap :
               /\ r.owner[h] = IF s.owner[h] = v THEN c
                               ELSE IF s.owner[h] = c THEN Stray ELSE s.owner[h]
               /\ r.slot[h] = s.slot[h]
      BY <1>2, <2>1 DEF Moved, Nodes
    <2>3. Unmoved(s, r, {c, v})
      BY <2>2, CellNoMark DEF Unmoved, Nodes
    <2>4. Arranged(r.held[v], Nodes(r, v), r.slot)
      BY <2>2, ArrangedNone DEF Containers
    <2>5. Arranged(r.held[c], Nodes(r, c), r.slot)
      <3>1. Nodes(r, c) = Nodes(s, v) /\ r.held[c] = s.held[v]
        BY <2>2, CellNoMark DEF Nodes
      <3>2. \A h \in Nodes(s, v) : r.slot[h] = s.slot[h]
        BY <2>2 DEF Nodes
      <3>3. Arranged(s.held[v], Nodes(s, v), s.slot)
        BY DEF Slotted
      <3> QED
        BY <3>1, <3>2, <3>3, ArrangedSame
    <2> QED
      BY <2>3, <2>4, <2>5, SlottedFrame
  <1> QED
    BY <1>1, <1>2

LEMMA CopiedSlotted ==
  ASSUME NEW s, Tidy(s), Slotted(s), NEW c \in Cell, Alive(s, c), NEW v \in Cell, NEW f,
         \A x \in Below(s, v) : f[x] \in Heap /\ s.owner[f[x]] = Free,
         \A x, y \in Below(s, v) : f[x] = f[y] => x = y,
         NEW r, Copied(s, c, v, f, r)
  PROVE  Slotted(r)
  <1> DEFINE B == Below(s, v)
             New == {f[x] : x \in B}
  <1>1. \A e \in New : e \in Heap /\ s.owner[e] = Free /\ e # c
    BY DEF Alive
  <1>2. B \subseteq Heap /\ \A x \in B : (s.owner[x] \in B \cup {v}) /\ (x \in Kids(s, v) <=> s.owner[x] = v)
    BY BelowType, BelowOwner DEF Kids
  <1>3. \A x \in B : r.owner[f[x]] = IF s.owner[x] = v THEN c ELSE f[s.owner[x]]
    BY <1>2 DEF Copied
  <1>4. \A h \in Heap \ New :
          /\ r.owner[h] = IF s.owner[h] = c /\ s.vtype[v] # "Null" THEN Stray ELSE s.owner[h]
          /\ r.slot[h] = s.slot[h]
    BY DEF Copied
  <1>5. \A h \in Heap : s.owner[h] \notin New
    BY <1>1, ArgTmpCell DEF Tidy, Owned, Alive
  <1>6. CASE s.vtype[v] = "Null"
    <2>1. B = {}
      BY <1>6, BelowLeaf DEF Containers
    <2>2. /\ \A e \in Cell : r.held[e] = s.held[e]
          /\ \A h \in Heap : r.owner[h] = s.owner[h] /\ r.slot[h] = s.slot[h]
      BY <1>6, <2>1 DEF Copied
    <2> QED
      BY <2>2, SlottedSame
  <1>7. CASE s.vtype[v] # "Null"
    <2>1. Unmoved(s, r, {c} \cup New)
      <3> SUFFICES ASSUME NEW e \in Cell, e # c, e \notin New
                   PROVE  /\ r.held[e] = s.held[e]
                          /\ Nodes(r, e) = Nodes(s, e)
                          /\ \A h \in Nodes(s, e) : r.slot[h] = s.slot[h]
        BY DEF Unmoved
      <3>1. r.held[e] = s.held[e]
        BY DEF Copied
      <3>2. \A h \in New : r.owner[h] # e /\ s.owner[h] # e
        BY <1>1, <1>2, <1>3, CellNoMark
      <3>3. \A h \in Heap : r.owner[h] = e <=> s.owner[h] = e
        BY <1>4, <3>2, CellNoMark
      <3>4. \A h \in Heap : s.owner[h] = e => r.slot[h] = s.slot[h]
        BY <1>4, <3>2
      <3> QED
        BY <3>1, <3>3, <3>4 DEF Nodes
    <2>2. Arranged(r.held[c], Nodes(r, c), r.slot)
      <3>1. r.held[c] = s.held[v] /\ Nodes(s, v) = Kids(s, v)
        BY <1>7, NodesAreKids DEF Copied
      <3>2. Nodes(s, v) \subseteq B
        BY <3>1, KidsBelow
      <3>3. \A x \in Nodes(s, v) : f[x] \in Nodes(r, c) /\ r.slot[f[x]] = s.slot[x]
        BY <1>3, <3>2 DEF Nodes, Copied
      <3>4. ASSUME NEW h \in Nodes(r, c) PROVE \E x \in Nodes(s, v) : f[x] = h
        <4>1. h \in Heap /\ r.owner[h] = c
          BY DEF Nodes
        <4>2. h \in New
          BY <1>4, <1>7, <4>1, CellNoMark
        <4>3. PICK x \in B : f[x] = h
          BY <4>2
        <4>4. s.owner[x] = v
          BY <1>1, <1>2, <1>3, <4>1, <4>3
        <4> QED
          BY <1>2, <4>3, <4>4 DEF Nodes
      <3>5. Arranged(s.held[v], Nodes(s, v), s.slot) /\ Nodes(s, v) \in SUBSET Heap
        BY DEF Slotted, Nodes
      <3>6. \A x, y \in Nodes(s, v) : f[x] = f[y] => x = y
        BY <3>2
      <3> HIDE DEF B, New
      <3> QED
        BY <3>1, <3>3, <3>4, <3>5, <3>6, ArrangedCopy
    <2>3. ASSUME NEW x \in B PROVE Arranged(r.held[f[x]], Nodes(r, f[x]), r.slot)
      <3> DEFINE e == f[x]
      <3>1. r.held[e] = HeldBy(s.vtype[x]) /\ e # c /\ x \in Cell
        BY <1>1, <1>2, ArgTmpCell DEF Copied
      <3>2. ASSUME NEW h \in Nodes(r, e) PROVE \E y \in B : f[y] = h /\ s.owner[y] = x /\ x # v
        <4>1. h \in Heap /\ r.owner[h] = e
          BY DEF Nodes
        <4>2. h \in New
          BY <1>1, <1>4, <1>5, <4>1, CellNoMark, ArgTmpCell
        <4>3. PICK y \in B : f[y] = h
          BY <4>2
        <4>4. s.owner[y] # v /\ f[s.owner[y]] = f[x] /\ s.owner[y] \in B
          BY <1>2, <1>3, <3>1, <4>1, <4>3
        <4> QED
          BY <4>3, <4>4
      <3>3. CASE s.vtype[x] \notin Containers
        <4>1. r.held[e] \notin Containers
          BY <3>1, <3>3 DEF HeldBy, Containers
        <4> QED
          BY <4>1, ArrangedNone
      <3>4. CASE x = v
        <4>1. Nodes(r, e) = {}
          BY <3>2, <3>4
        <4> QED
          BY <4>1, ArrangedEmpty
      <3>5. CASE s.vtype[x] \in Containers /\ x # v
        <4>1. r.held[e] = s.held[x] /\ Nodes(s, x) = Kids(s, x)
          BY <3>1, <3>5, NodesAreKids DEF Containers
        <4>2. Nodes(s, x) \subseteq B
          BY <3>5, BelowClosed DEF Nodes, Closed
        <4>3. \A y \in Nodes(s, x) : f[y] \in Nodes(r, e) /\ r.slot[f[y]] = s.slot[y]
          BY <1>3, <3>5, <4>2 DEF Nodes, Copied
        <4>4. \A h \in Nodes(r, e) : \E y \in Nodes(s, x) : f[y] = h
          BY <1>2, <3>2 DEF Nodes
        <4>5. Arranged(s.held[x], Nodes(s, x), s.slot) /\ Nodes(s, x) \in SUBSET Heap
          BY <3>1 DEF Slotted, Nodes
        <4>6. \A y, z \in Nodes(s, x) : f[y] = f[z] => y = z
          BY <4>2
        <4> HIDE DEF B, New, e
        <4>7. Arranged(s.held[x], Nodes(r, e), r.slot)
          BY <4>3, <4>4, <4>5, <4>6, ArrangedCopy
        <4> QED
          BY <4>1, <4>7 DEF e
      <3> QED
        BY <3>3, <3>4, <3>5
    <2>4. \A e \in {c} \cup New : Arranged(r.held[e], Nodes(r, e), r.slot)
      BY <2>2, <2>3
    <2> HIDE DEF New, B
    <2> QED
      BY <2>1, <2>4, SlottedFrame
  <1> QED
    BY <1>6, <1>7

LEMMA constructSlotted ==
  ASSUME NEW s \in State, Slotted(s), NEW c \in Cell, NEW t \in Types,
         NEW d \in Payloads \cup {NoData}
  PROVE  Slotted(construct(s, c, t, d))
  <1> DEFINE a == construct(s, c, t, d)
  <1>1. /\ \A e \in Cell : a.held[e] = IF e = c THEN HeldBy(t) ELSE s.held[e]
        /\ \A h \in Heap : a.owner[h] = IF s.owner[h] = c THEN Stray ELSE s.owner[h]
        /\ a.slot = s.slot
    BY constructEffect
  <1> HIDE DEF a
  <1>2. Unmoved(s, a, {c})
    BY <1>1, CellNoMark DEF Unmoved, Nodes
  <1>3. Nodes(a, c) = {}
    BY <1>1, CellNoMark DEF Nodes
  <1>4. Slotted(a)
    BY <1>2, <1>3, ArrangedEmpty, SlottedFrame
  <1> QED
    BY <1>4 DEF a

LEMMA SetTagSlotted ==
  ASSUME NEW s \in State, Slotted(s), NEW c \in Cell, NEW t \in Types PROVE Slotted(SetTag(s, c, t))
  BY SetTagEffect, SlottedSame

LEMMA make_uniqueSlotted ==
  ASSUME NEW s \in State, Slotted(s), NEW n \in Heap, s.owner[n] \notin Cell
  PROVE  Slotted(make_unique(s, n))
  <1> DEFINE a == make_unique(s, n)
  <1>1. /\ a.held = s.held /\ a.slot = s.slot
        /\ \A h \in Heap : a.owner[h] = IF h = n THEN Uptr ELSE s.owner[h]
    BY make_uniqueEffect
  <1> HIDE DEF a
  <1>2. Unmoved(s, a, {})
    BY <1>1, CellNoMark DEF Unmoved, Nodes
  <1>3. Slotted(a)
    BY <1>2, SlottedFrame
  <1> QED
    BY <1>3 DEF a

\* The emplace_back that ends a push_back.
LEMMA AppendedSlotted ==
  ASSUME NEW b, Slotted(b), NEW c \in Cell, NEW n \in Heap, b.held[c] = "Array",
         b.owner[n] \notin Cell, NEW r, Appended(b, c, n, r)
  PROVE  Slotted(r)
  <1> DEFINE K == Nodes(b, c)
  <1>1. /\ r.held = b.held
        /\ \A h \in Heap : r.owner[h] = IF h = n THEN c ELSE b.owner[h]
        /\ \A h \in Heap : h # n => r.slot[h] = b.slot[h]
        /\ r.slot[n] = Cardinality(K) + 1
    BY DEF Appended, Nodes
  <1>2. Unmoved(b, r, {c})
    BY <1>1 DEF Unmoved, Nodes
  <1>3. n \notin K /\ K \in SUBSET Heap /\ Nodes(r, c) = K \cup {n}
    BY <1>1 DEF Nodes
  <1>4. Arranged("Array", K, b.slot) /\ r.held[c] = "Array"
    BY <1>1 DEF Slotted
  <1>5. \A h \in K : r.slot[h] = b.slot[h]
    BY <1>1, <1>3
  <1> HIDE DEF K
  <1>6. Arranged("Array", K \cup {n}, r.slot)
    BY <1>1, <1>3, <1>4, <1>5, ArrangedAppend
  <1> QED
    BY <1>2, <1>3, <1>4, <1>6, SlottedFrame

LEMMA InsertKeySlotted ==
  ASSUME NEW s, Tidy(s), Slotted(s), NEW c \in Cell, Alive(s, c), s.vtype[c] \in {"Null", "Map"},
         NEW k \in Keys, \A h \in Kids(s, c) : s.slot[h] # k, NEW n, Fresh(s, n), n # c
  PROVE  Slotted(InsertKey(s, c, k, n))
  <1> DEFINE r == InsertKey(s, c, k, n)
             K == Kids(s, c)
  <1>1. /\ \A e \in Cell : r.held[e] = IF e = c THEN "Map" ELSE s.held[e]
        /\ \A h \in Heap :
              /\ r.owner[h] = IF h = n THEN c
                              ELSE IF s.vtype[c] = "Null" /\ s.owner[h] = c THEN Stray
                              ELSE s.owner[h]
              /\ r.slot[h] = IF h = n THEN k ELSE s.slot[h]
    BY InsertKeyEffect
  <1>2. n \in Heap /\ s.owner[n] \notin Cell
    BY CellNoMark DEF Fresh
  <1> HIDE DEF r
  <1>3. Unmoved(s, r, {c})
    BY <1>1, <1>2, CellNoMark DEF Unmoved, Nodes
  <1>4. Nodes(r, c) = K \cup {n}
    BY <1>1, <1>2, CellNoMark DEF Nodes, Kids, Containers
  <1>5. Arranged("Map", K, s.slot)
    <2>1. CASE s.vtype[c] = "Null"
      <3>1. K = {}
        BY <2>1 DEF Kids, Containers
      <3> QED
        BY <3>1, ArrangedEmpty
    <2>2. CASE s.vtype[c] = "Map"
      <3>1. K = Nodes(s, c) /\ s.held[c] = "Map"
        BY <2>2, NodesAreKids DEF HeldBy
      <3> QED
        BY <3>1 DEF Slotted
    <2> QED
      BY <2>1, <2>2
  <1>6. \A h \in K : r.slot[h] = s.slot[h]
    BY <1>1, <1>2 DEF Kids
  <1>7. r.slot[n] = k /\ r.held[c] = "Map"
    BY <1>1, <1>2
  <1>8. \A h \in K : s.slot[h] # k
    OBVIOUS
  <1> HIDE DEF K
  <1>9. Arranged("Map", K \cup {n}, r.slot)
    BY <1>5, <1>6, <1>7, <1>8, ArrangedEmplace
  <1>10. Slotted(r)
    BY <1>3, <1>4, <1>7, <1>9, SlottedFrame
  <1> QED
    BY <1>10 DEF r

\* A node that is freed is missing from its container, and that is all.
LEMMA FreeNodeNodes ==
  ASSUME NEW s \in State, NEW n \in Heap, NEW r, r = FreeNode(s, n),
         NEW e \in Cell, r.held[e] \in Containers
  PROVE  /\ r.held[e] = s.held[e]
         /\ Nodes(r, e) = Nodes(s, e) \ {n}
         /\ \A h \in Nodes(s, e) \ {n} : r.slot[h] = s.slot[h]
  <1> DEFINE a == destruct(s, n)
  <1>1. Unmoved(s, a, {}) /\ a \in State /\ r = Release(a, {n})
    BY destructUnmoved, destructType, ArgTmpCell DEF FreeNode
  <1> HIDE DEF a
  <1>2. /\ r.held[e] = IF e = n THEN "none" ELSE a.held[e]
        /\ \A h \in Heap :
             /\ r.owner[h] = IF h = n THEN Free ELSE IF a.owner[h] = n THEN Stray ELSE a.owner[h]
             /\ r.slot[h] = IF h = n THEN 0 ELSE a.slot[h]
    BY <1>1, ReleaseEffect
  <1>3. e # n /\ r.held[e] = a.held[e]
    BY <1>2 DEF Containers
  <1>4. /\ a.held[e] = s.held[e] /\ Nodes(a, e) = Nodes(s, e)
        /\ \A h \in Nodes(s, e) : a.slot[h] = s.slot[h]
    BY <1>1, <1>3 DEF Unmoved
  <1>5. Nodes(r, e) = Nodes(a, e) \ {n}
    BY <1>2, <1>3, CellNoMark DEF Nodes
  <1>6. \A h \in Nodes(s, e) \ {n} : r.slot[h] = s.slot[h]
    BY <1>2, <1>4 DEF Nodes
  <1> QED
    BY <1>3, <1>4, <1>5, <1>6

\* A node of the stack is missing from no container.
LEMMA FreeNodeSlotted ==
  ASSUME NEW s \in State, Slotted(s), NEW n \in Heap, s.owner[n] \notin Cell
  PROVE  Slotted(FreeNode(s, n))
  <1> DEFINE r == FreeNode(s, n)
  <1>1. ASSUME NEW e \in Cell, r.held[e] \in Containers
        PROVE  /\ r.held[e] = s.held[e]
               /\ Nodes(r, e) = Nodes(s, e) \ {n}
               /\ \A h \in Nodes(s, e) \ {n} : r.slot[h] = s.slot[h]
    BY <1>1, FreeNodeNodes
  <1> HIDE DEF r
  <1>2. \A e \in Cell : Nodes(s, e) \ {n} = Nodes(s, e)
    BY DEF Nodes
  <1>3. Unmoved(s, r, {})
    BY <1>1, <1>2 DEF Unmoved
  <1>4. Slotted(r)
    BY <1>3, SlottedFrame
  <1> QED
    BY <1>4 DEF r

\* vector::erase closes the gap it leaves, unordered_map::erase leaves none.
LEMMA EraseSlotted ==
  ASSUME NEW s, Tidy(s), Slotted(s), NEW c \in Cell, s.vtype[c] \in {"Array", "Map"}, NEW x \in Kids(s, c)
  PROVE  Slotted(Erase(s, c, x))
  <1> DEFINE a == FreeNode(s, x)
             r == Erase(s, c, x)
             K == Nodes(s, c)
             L == K \ {x}
  <1>1. /\ x \in K /\ K \in SUBSET Heap /\ x \in Heap /\ s \in State /\ s.held[c] = s.vtype[c]
        /\ a \in State
    BY NodesAreKids, FreeNodeType DEF Tidy, Kids, HeldBy, Nodes
  <1>2. r = IF s.vtype[c] = "Map" THEN a
            ELSE [a EXCEPT !.slot = [h \in Heap |->
                    IF a.owner[h] = c /\ a.slot[h] > s.slot[x] THEN a.slot[h] - 1 ELSE a.slot[h]]]
    BY DEF Erase
  <1>3. ASSUME NEW e \in Cell, a.held[e] \in Containers
        PROVE  /\ a.held[e] = s.held[e]
               /\ Nodes(a, e) = Nodes(s, e) \ {x}
               /\ \A h \in Nodes(s, e) \ {x} : a.slot[h] = s.slot[h]
    BY <1>1, <1>3, FreeNodeNodes
  <1> HIDE DEF a, r
  <1>4. /\ r.held = a.held /\ r.owner = a.owner
        /\ s.vtype[c] = "Map" => r.slot = a.slot
        /\ s.vtype[c] = "Array" => \A h \in Heap :
             r.slot[h] = IF a.owner[h] = c /\ a.slot[h] > s.slot[x] THEN a.slot[h] - 1 ELSE a.slot[h]
    BY <1>1, <1>2 DEF State
  <1>5. Unmoved(s, r, {c})
    <2> SUFFICES ASSUME NEW e \in Cell, e # c, r.held[e] \in Containers
                 PROVE  /\ r.held[e] = s.held[e]
                        /\ Nodes(r, e) = Nodes(s, e)
                        /\ \A h \in Nodes(s, e) : r.slot[h] = s.slot[h]
      BY DEF Unmoved
    <2>1. Nodes(s, e) \ {x} = Nodes(s, e)
      BY <1>1 DEF Nodes
    <2>2. /\ a.held[e] = s.held[e] /\ Nodes(a, e) = Nodes(s, e)
          /\ \A h \in Nodes(s, e) : a.slot[h] = s.slot[h]
      BY <1>3, <1>4, <2>1
    <2>3. \A h \in Nodes(s, e) : h \in Heap /\ a.owner[h] # c
      BY <2>2 DEF Nodes
    <2>4. Nodes(r, e) = Nodes(a, e)
      BY <1>4 DEF Nodes
    <2>5. \A h \in Nodes(s, e) : r.slot[h] = a.slot[h]
      BY <1>1, <1>2, <1>4, <2>3
    <2> QED
      BY <1>4, <2>2, <2>4, <2>5
  <1>6. Arranged(r.held[c], Nodes(r, c), r.slot)
    <2>1. CASE r.held[c] \notin Containers
      BY <2>1, ArrangedNone
    <2>2. CASE r.held[c] \in Containers
      <3>1. /\ r.held[c] = s.vtype[c] /\ Nodes(a, c) = L
            /\ \A h \in L : a.slot[h] = s.slot[h]
        BY <1>1, <1>3, <1>4, <2>2
      <3>2. Nodes(r, c) = L
        BY <1>4, <3>1 DEF Nodes
      <3>3. Arranged(s.vtype[c], K, s.slot)
        BY <1>1 DEF Slotted
      <3>4. \A h \in L : h \in Heap /\ a.owner[h] = c
        BY <3>1 DEF Nodes
      <3> HIDE DEF K
      <3>5. CASE s.vtype[c] = "Map"
        <4>1. Arranged("Map", K, s.slot) /\ \A h \in K \ {x} : r.slot[h] = s.slot[h]
          BY <1>4, <3>1, <3>3, <3>5
        <4>2. Arranged("Map", K \ {x}, r.slot)
          BY <4>1, ArrangedLess
        <4> QED
          BY <3>1, <3>2, <3>5, <4>2
      <3>6. CASE s.vtype[c] = "Array"
        <4>1. \A h \in K \ {x} : r.slot[h] = IF s.slot[h] > s.slot[x] THEN s.slot[h] - 1 ELSE s.slot[h]
          BY <1>4, <3>1, <3>4, <3>6
        <4>2. Arranged("Array", K, s.slot)
          BY <3>3, <3>6
        <4>3. Arranged("Array", K \ {x}, r.slot)
          BY <1>1, <4>1, <4>2, ArrangedErase
        <4> QED
          BY <3>1, <3>2, <3>6, <4>3
      <3> QED
        BY <3>5, <3>6
    <2> QED
      BY <2>1, <2>2
  <1>7. \A e \in {c} : Arranged(r.held[e], Nodes(r, e), r.slot)
    BY <1>6
  <1>8. Slotted(r)
    BY <1>5, <1>7, SlottedFrame
  <1> QED
    BY <1>8 DEF r

-----------------------------------------------------------------------------
(* The bodies of the operations.                                           *)

LEMMA move_fromSlotted ==
  ASSUME NEW s, Tidy(s), Slotted(s), NEW c \in Cell, NEW v \in Cell, Alive(destruct(s, c), v)
  PROVE  Slotted(move_from(s, c, v))
  <1>1. s \in State /\ Tidy(destruct(s, c)) /\ Slotted(destruct(s, c))
    BY destructTidy, destructSlotted DEF Tidy
  <1>2. CASE c = v
    BY <1>1, <1>2, SelfMove
  <1>3. CASE c # v
    BY <1>1, <1>3, move_fromEffect, MovedSlotted
  <1> QED
    BY <1>2, <1>3

LEMMA copy_fromSlotted ==
  ASSUME NEW s, Tidy(s), Slotted(s), NEW c \in Cell, NEW v \in Cell, NEW f \in CopyMaps(s, c, v),
         Alive(destruct(s, c), c), Alive(destruct(s, c), v)
  PROVE  Slotted(copy_from(s, c, v, f))
  <1> DEFINE a == destruct(s, c)
             r == copy_from(s, c, v, f)
  <1>1. s \in State /\ Tidy(a) /\ Slotted(a)
    BY destructTidy, destructSlotted DEF Tidy
  <1>2. Copied(a, c, v, f, r)
    BY <1>1, copy_fromEffect
  <1>3. /\ \A x \in Below(a, v) : f[x] \in Heap /\ a.owner[f[x]] = Free
        /\ \A x, y \in Below(a, v) : f[x] = f[y] => x = y
    BY <1>1, CopyMapsFree DEF CopyMaps
  <1> HIDE DEF a, r
  <1>4. Alive(a, c)
    BY DEF a
  <1>5. Slotted(r)
    BY <1>1, <1>2, <1>3, <1>4, CopiedSlotted
  <1> QED
    BY <1>5 DEF r

\* Nothing is destroyed at a Null.
LEMMA NullStays ==
  ASSUME NEW s, NEW c, s.vtype[c] = "Null" PROVE destruct(s, c) = s
  BY DEF destruct

LEMMA PushReadySlotted ==
  ASSUME NEW s, Tidy(s), Slotted(s), NEW c \in Cell, c # Tmp, Alive(s, c), Empty(s, Tmp),
         NEW m, Wraps(s, c) => Fresh(s, m) /\ m # c
  PROVE  Slotted(PushReady(s, c, m))
  <1>1. CASE s.vtype[c] = "Null"
    <2>1. Slotted(construct(s, c, "Array", NoData)) /\ construct(s, c, "Array", NoData) \in State
      BY <1>1, constructSlotted, constructTidy, TagsType DEF Tidy
    <2>2. Slotted(OpenArray(s, c))
      BY <2>1, SetTagSlotted, TagsType DEF OpenArray
    <2> QED
      BY <1>1, <2>2 DEF PushReady
  <1>2. CASE s.vtype[c] = "Array"
    BY <1>2 DEF PushReady
  <1>3. CASE Wraps(s, c)
    <2> DEFINE r == WrapInArray(s, c, m)
               K == Kids(s, c)
    <2>1. Wrapped(s, c, m, r) /\ m \in Heap /\ m \in Cell /\ m # c /\ s.owner[m] \notin Cell
      BY <1>3, WrapInArrayEffect, CellNoMark, ArgTmpCell DEF Wraps, Fresh
    <2>2. PushReady(s, c, m) = r
      BY <1>3 DEF PushReady, Wraps
    <2>3. Nodes(s, c) = K /\ s.held[c] = HeldBy(s.vtype[c]) /\ m \notin K /\ Nodes(s, m) = {}
      <3>1. Nodes(s, m) = {}
        BY <1>3, <2>1, OwnedNone DEF Nodes, Fresh, Tidy, Containers
      <3> QED
        BY <1>3, <2>1, <3>1, NodesAreKids DEF Wraps, Kids
    <2> HIDE DEF r
    <2>4. /\ \A e \in Cell : r.held[e] = IF e = c THEN "Array" ELSE IF e = m THEN s.held[c] ELSE s.held[e]
          /\ \A h \in Heap :
               /\ r.owner[h] = IF h = m THEN c ELSE IF s.owner[h] = c THEN m ELSE s.owner[h]
               /\ r.slot[h] = IF h = m THEN 1 ELSE s.slot[h]
      BY <2>1, <2>3 DEF Wrapped, Nodes
    <2>5. Unmoved(s, r, {c, m})
      <3>1. \A e \in Cell : e # c /\ e # m => Nodes(r, e) = Nodes(s, e)
        BY <2>1, <2>4 DEF Nodes
      <3>2. \A e \in Cell : m \notin Nodes(s, e)
        BY <2>1 DEF Nodes
      <3> QED
        BY <2>4, <3>1, <3>2 DEF Unmoved, Nodes
    <2>6. Arranged(r.held[c], Nodes(r, c), r.slot)
      <3>1. r.held[c] = "Array" /\ Nodes(r, c) = {m} /\ r.slot[m] = 1
        BY <2>1, <2>4 DEF Nodes
      <3> QED
        BY <3>1, ArrangedFirst
    <2>7. Arranged(r.held[m], Nodes(r, m), r.slot)
      <3>1. r.held[m] = s.held[c] /\ Nodes(r, m) = Nodes(s, c)
        BY <2>1, <2>3, <2>4 DEF Nodes
      <3>2. \A h \in Nodes(s, c) : r.slot[h] = s.slot[h]
        BY <2>1, <2>4 DEF Nodes
      <3>3. Arranged(s.held[c], Nodes(s, c), s.slot)
        BY DEF Slotted
      <3> QED
        BY <3>1, <3>2, <3>3, ArrangedSame
    <2>8. \A e \in {c, m} : Arranged(r.held[e], Nodes(r, e), r.slot)
      BY <2>6, <2>7
    <2> QED
      BY <2>2, <2>5, <2>8, SlottedFrame
  <1> QED
    BY <1>1, <1>2, <1>3 DEF Wraps

LEMMA PushNodeSlotted ==
  ASSUME NEW s, Slotted(s), NEW c, NEW m, NEW n, PushArgs(s, c, m, n)
  PROVE  Slotted(make_unique(PushReady(s, c, m), n))
  <1> DEFINE a == PushReady(s, c, m)
  <1>1. /\ Tidy(s) /\ Empty(s, Tmp) /\ c \in Cell /\ c # Tmp /\ Alive(s, c)
        /\ n \in Heap /\ s.owner[n] \in {Free, Uptr}
        /\ Wraps(s, c) => Fresh(s, m) /\ m # c /\ m # n
    BY DEF PushArgs, Fresh
  <1>2. Slotted(a) /\ Readied(s, c, m, a)
    BY <1>1, PushReadySlotted, PushReadyEffect
  <1> HIDE DEF a
  <1>3. a \in State /\ a.owner[n] \notin Cell
    BY <1>1, <1>2, CellNoMark DEF Readied, Tidy
  <1>4. Slotted(make_unique(a, n))
    BY <1>1, <1>2, <1>3, make_uniqueSlotted
  <1> QED
    BY <1>4 DEF a

\* The end of push_back, once the argument is in its node.
LEMMA PushEndSlotted ==
  ASSUME NEW s, NEW c, NEW m, NEW n, PushArgs(s, c, m, n), NEW b, Loaded(s, c, m, n, b), Slotted(b)
  PROVE  Slotted(SetTag(emplace_back(b, c, n), c, "Array"))
  <1> DEFINE r == SetTag(emplace_back(b, c, n), c, "Array")
  <1>1. Appended(b, c, n, r)
    BY PushEnd
  <1>2. c \in Cell /\ n \in Heap /\ b.held[c] = "Array" /\ b.owner[n] = Uptr
    BY DEF PushArgs, Fresh, Loaded
  <1> HIDE DEF r
  <1>3. Slotted(r)
    BY <1>1, <1>2, CellNoMark, AppendedSlotted
  <1> QED
    BY <1>3 DEF r

LEMMA PushMovedSlotted ==
  ASSUME NEW s, Slotted(s), NEW c, NEW m, NEW n, PushArgs(s, c, m, n),
         NEW v \in Cell, v # n, v # Tmp, Alive(s, v), ~(Wraps(s, c) /\ v = m),
         c = v => ~PushMoved(s, c, v, m, n).ub
  PROVE  Slotted(PushMoved(s, c, v, m, n))
  <1> DEFINE p == make_unique(PushReady(s, c, m), n)
             b == move_from(p, n, v)
  <1>1. Loaded(s, c, m, n, b) /\ Slotted(p)
    BY PushMovedEffect, PushNodeSlotted
  <1>2. /\ Tidy(p) /\ p.vtype[n] = "Null" /\ n \in Cell
        /\ \A h \in Heap : p.owner[h] = Free => s.owner[h] = Free
    BY PushNode, ArgTmpCell DEF PushArgs, Fresh
  <1>3. PushMoved(s, c, v, m, n) = SetTag(emplace_back(b, c, n), c, "Array")
    BY DEF PushMoved
  <1> HIDE DEF p
  <1>4. Alive(destruct(p, n), v)
    BY <1>2, NullStays DEF Alive
  <1>5. Slotted(b)
    BY <1>1, <1>2, <1>4, move_fromSlotted
  <1> HIDE DEF b
  <1> QED
    BY <1>1, <1>3, <1>5, PushEndSlotted

LEMMA PushCopiedSlotted ==
  ASSUME NEW s, Slotted(s), NEW c, NEW m, NEW n, PushArgs(s, c, m, n),
         NEW v \in Cell, Alive(s, v), NEW f \in PushMaps(s, c, v, m, n)
  PROVE  Slotted(PushCopied(s, c, v, m, n, f))
  <1> DEFINE p == make_unique(PushReady(s, c, m), n)
             b == copy_from(p, n, v, f)
  <1>1. Loaded(s, c, m, n, b) /\ Slotted(p)
    BY PushCopiedEffect, PushNodeSlotted
  <1>2. /\ Tidy(p) /\ p.vtype[n] = "Null" /\ n \in Cell /\ n \in Heap /\ p.owner[n] = Uptr
        /\ \A h \in Heap : p.owner[h] = Free => s.owner[h] = Free
    BY PushNode, ArgTmpCell DEF PushArgs, Fresh
  <1>3. /\ PushCopied(s, c, v, m, n, f) = SetTag(emplace_back(b, c, n), c, "Array")
        /\ f \in CopyMaps(p, n, v)
    BY DEF PushCopied, PushMaps
  <1> HIDE DEF p
  <1>4. Alive(destruct(p, n), v) /\ Alive(destruct(p, n), n)
    BY <1>2, NullStays, OwnerAssumption DEF Alive
  <1>5. Slotted(b)
    BY <1>1, <1>2, <1>3, <1>4, copy_fromSlotted
  <1> HIDE DEF b
  <1> QED
    BY <1>1, <1>3, <1>5, PushEndSlotted

-----------------------------------------------------------------------------
(* The calls.                                                              *)

LEMMA QuietOperands ==
  ASSUME NEW s, Quiet(s), NEW c \in Addressable(s)
  PROVE  /\ Tidy(s) /\ s \in State /\ Empty(s, Tmp) /\ Empty(s, Arg)
         /\ c \in Cell /\ c # Tmp /\ c # Arg /\ Alive(s, c) /\ Alive(destruct(s, c), c)
         /\ \A n \in FreeNodes(s) : n \in Heap /\ Fresh(s, n) /\ n # c /\ s.owner[n] \notin Cell
  BY QuietFacts, AddressableFacts, OperandNotFree, CellNoMark DEF FreeNodes

LEMMA PushMovedCall ==
  ASSUME NEW s, Quiet(s), Slotted(s), NEW c \in Addressable(s), NEW v \in Addressable(s),
         NEW m \in FreeNodes(s), NEW n \in FreeNodes(s),
         (m = n) <=> s.vtype[c] \in {"Null", "Array"},
         c = v => ~PushMoved(s, c, v, m, n).ub
  PROVE  Slotted(PushMoved(s, c, v, m, n))
  <1>1. PushArgs(s, c, m, n)
    BY PushArgsHold
  <1>2. v \in Cell /\ v # n /\ v # m /\ v # Tmp /\ Alive(s, v)
    BY QuietOperands
  <1> QED
    BY <1>1, <1>2, PushMovedSlotted

LEMMA PushCopiedCall ==
  ASSUME NEW s, Quiet(s), Slotted(s), NEW c \in Addressable(s), NEW v \in Addressable(s),
         NEW m \in FreeNodes(s), NEW n \in FreeNodes(s),
         (m = n) <=> s.vtype[c] \in {"Null", "Array"},
         NEW f \in PushMaps(s, c, v, m, n)
  PROVE  Slotted(PushCopied(s, c, v, m, n, f))
  <1>1. PushArgs(s, c, m, n)
    BY PushArgsHold
  <1>2. v \in Cell /\ Alive(s, v)
    BY QuietOperands
  <1> QED
    BY <1>1, <1>2, PushCopiedSlotted

LEMMA swappedSlotted ==
  ASSUME NEW s, Quiet(s), Slotted(s), NEW c \in Addressable(s), NEW v \in Addressable(s)
  PROVE  Slotted(swapped(s, c, v))
  <1> DEFINE s1 == move_from(s, Tmp, v)
             s2 == move_from(s1, v, c)
             s3 == move_from(s2, c, Tmp)
  <1>0. /\ c \in Cell /\ v \in Cell /\ c # Tmp /\ v # Tmp /\ Alive(s, c) /\ Alive(s, v)
        /\ Tmp \in Cell \ Heap /\ Tidy(s) /\ s \in State /\ s.vtype[Tmp] = "Null"
    BY QuietOperands, LocalsApart DEF Empty
  <1>1. Moved(s, Tmp, v, s1) /\ Tidy(s1) /\ Slotted(s1)
    BY <1>0, MoveToNull, MovedSlotted DEF Alive
  <1> HIDE DEF s1
  <1>2. s1.vtype[v] = "Null" /\ Alive(s1, c) /\ Alive(s1, v) /\ s1 \in State
    BY <1>0, <1>1, CellNoMark, OwnerAssumption DEF Moved, Alive
  <1>3. Alive(destruct(s1, v), c) /\ Alive(destruct(s1, v), v)
    BY <1>2, NullStays
  <1>4. Tidy(s2) /\ Slotted(s2)
    BY <1>0, <1>1, <1>3, move_fromTidy, move_fromSlotted
  <1> HIDE DEF s2
  <1>5. Alive(destruct(s2, c), Tmp)
    BY <1>0 DEF Alive
  <1>6. Slotted(s3)
    BY <1>0, <1>4, <1>5, move_fromSlotted
  <1>7. s3 \in State
    BY <1>0, <1>4, move_fromType DEF Tidy
  <1> HIDE DEF s3
  <1>8. Slotted(destruct(s3, Tmp))
    BY <1>0, <1>6, <1>7, destructSlotted
  <1> QED
    BY <1>8 DEF swapped, s3, s2, s1

LEMMA LiteralSlotted ==
  ASSUME NEW s, Quiet(s), Slotted(s), NEW l \in Literals PROVE Slotted(Literal(s, l[1], l[2]))
  <1> DEFINE k == construct(s, Arg, l[1], l[2])
  <1>1. l[1] \in Types /\ l[2] \in Payloads \cup {NoData} /\ Arg \in Cell /\ s \in State
    BY QuietFacts, LocalsApart DEF Literals, Types
  <1>2. k \in State /\ Slotted(k)
    BY <1>1, constructType, constructSlotted
  <1> HIDE DEF k
  <1>3. Slotted(SetTag(k, Arg, l[1]))
    BY <1>1, <1>2, SetTagSlotted
  <1> QED
    BY <1>3 DEF Literal, k

LEMMA AssignNewSlotted ==
  ASSUME NEW s, Quiet(s), Slotted(s), NEW c \in Addressable(s), NEW l \in Literals
  PROVE  Slotted(move_from(Literal(s, l[1], l[2]), c, Arg))
  <1> DEFINE a == Literal(s, l[1], l[2])
  <1>1. Slotted(a) /\ Tidy(a) /\ Arg \in Cell /\ Arg \notin Heap /\ c \in Cell
    BY LiteralSlotted, LiteralQuiet, QuietOperands, LocalsApart
  <1> HIDE DEF a
  <1>2. Alive(destruct(a, c), Arg)
    BY <1>1 DEF Alive
  <1>3. Slotted(move_from(a, c, Arg))
    BY <1>1, <1>2, move_fromSlotted
  <1> QED
    BY <1>3 DEF a

LEMMA PushBackNewSlotted ==
  ASSUME NEW s, Quiet(s), Slotted(s), NEW c \in Addressable(s), NEW l \in Literals,
         NEW m \in FreeNodes(s), NEW n \in FreeNodes(s),
         (m = n) <=> s.vtype[c] \in {"Null", "Array"}
  PROVE  Slotted(PushMoved(Literal(s, l[1], l[2]), c, Arg, m, n))
  <1> DEFINE a == Literal(s, l[1], l[2])
  <1>1. /\ Slotted(a) /\ Tidy(a) /\ Empty(a, Tmp) /\ (\A h \in Heap : a.owner[h] = s.owner[h])
        /\ \A e \in Cell : e # Arg => a.vtype[e] = s.vtype[e] /\ a.held[e] = s.held[e]
        /\ Alive(a, c)
    BY LiteralSlotted, LiteralQuiet
  <1> HIDE DEF a
  <1>2. c \in Cell /\ c # Tmp /\ c # Arg /\ PushArgs(s, c, m, n)
    BY QuietOperands, PushArgsHold
  <1>3. \A h \in Heap : Fresh(s, h) => Fresh(a, h)
    BY <1>1, LocalsApart, ArgTmpCell DEF Fresh
  <1>4. Wraps(a, c) <=> Wraps(s, c)
    BY <1>1, <1>2 DEF Wraps
  <1>5. PushArgs(a, c, m, n)
    BY <1>1, <1>2, <1>3, <1>4 DEF PushArgs, Fresh
  <1>6. Arg \in Cell /\ Arg # Tmp /\ Arg # c /\ Arg # n /\ ~(Wraps(a, c) /\ Arg = m) /\ Alive(a, Arg)
    BY <1>2, <1>4, LocalsApart DEF PushArgs, Fresh, Alive
  <1>7. Slotted(PushMoved(a, c, Arg, m, n))
    BY <1>1, <1>5, <1>6, PushMovedSlotted
  <1> QED
    BY <1>7 DEF a

LEMMA WrapFailedSlotted ==
  ASSUME NEW s, Quiet(s), Slotted(s), NEW c \in Addressable(s) PROVE Slotted(WrapFailed(s, c))
  <1> DEFINE s1 == move_from(s, Tmp, c)
             k == construct(s1, c, "Array", NoData)
  <1>1. c \in Cell /\ c # Tmp /\ Alive(s, c) /\ Tmp \in Cell \ Heap /\ Tidy(s) /\ s.vtype[Tmp] = "Null"
    BY QuietOperands, LocalsApart DEF Empty
  <1>2. Tidy(s1) /\ Slotted(s1) /\ s1 \in State
    BY <1>1, MoveToNull, MovedSlotted DEF Alive, Tidy
  <1> HIDE DEF s1
  <1>3. k \in State /\ Slotted(k)
    BY <1>1, <1>2, constructType, constructSlotted, TagsType
  <1> HIDE DEF k
  <1>4. Slotted(destruct(k, Tmp))
    BY <1>1, <1>3, destructSlotted
  <1> QED
    BY <1>4 DEF WrapFailed, k, s1

LEMMA PushFailedSlotted ==
  ASSUME NEW s, Quiet(s), Slotted(s), NEW c \in Addressable(s), NEW v \in Addressable(s),
         NEW m \in FreeNodes(s), NEW n \in FreeNodes(s),
         (m = n) <=> s.vtype[c] \in {"Null", "Array"}
  PROVE  Slotted(PushFailed(s, c, v, m, n))
  <1> DEFINE p == make_unique(PushReady(s, c, m), n)
             b == move_from(p, n, v)
  <1>1. PushArgs(s, c, m, n) /\ n \in Heap /\ n \in Cell /\ v \in Cell /\ v # n /\ Alive(s, v)
    BY PushArgsHold, QuietOperands, ArgTmpCell DEF FreeNodes
  <1>2. /\ Tidy(p) /\ p.vtype[n] = "Null" /\ p.owner[n] = Uptr /\ Slotted(p)
        /\ \A h \in Heap : p.owner[h] = Free => s.owner[h] = Free
    BY <1>1, PushNode, PushNodeSlotted
  <1> HIDE DEF p
  <1>3. Alive(p, v) /\ Alive(p, n)
    BY <1>1, <1>2, OwnerAssumption DEF Alive
  <1>4. Moved(p, n, v, b) /\ Tidy(b)
    BY <1>1, <1>2, <1>3, MoveToNull
  <1> HIDE DEF b
  <1>5. Slotted(b)
    BY <1>1, <1>2, <1>4, MovedSlotted
  <1>6. b.owner[n] \notin Cell
    <2>1. n \notin Kids(p, v)
      BY <1>1, <1>2, CellNoMark DEF Kids
    <2> QED
      BY <1>1, <1>2, <1>4, <2>1, CellNoMark DEF Moved
  <1>7. Slotted(FreeNode(b, n))
    BY <1>1, <1>4, <1>5, <1>6, FreeNodeSlotted DEF Tidy
  <1> QED
    BY <1>7 DEF PushFailed, b, p

LEMMA LeaveScopeSlotted ==
  ASSUME NEW s, Quiet(s), Slotted(s), NEW x \in Named
  PROVE  Slotted(construct(destruct(s, x), x, "Null", NoData))
  <1> DEFINE a == destruct(s, x)
  <1>1. x \in Cell /\ a \in State /\ Slotted(a)
    BY QuietFacts, destructType, destructSlotted DEF Cell
  <1> HIDE DEF a
  <1>2. Slotted(construct(a, x, "Null", NoData))
    BY <1>1, constructSlotted, TagsType
  <1> QED
    BY <1>2 DEF a

LEMMA IndexKeyFailsSlotted ==
  ASSUME NEW s, Quiet(s), Slotted(s), NEW c \in Addressable(s)
  PROVE  Slotted(SetTag(construct(s, c, "Map", NoData), c, "Map"))
  <1>1. c \in Cell /\ s \in State
    BY QuietOperands
  <1>2. construct(s, c, "Map", NoData) \in State /\ Slotted(construct(s, c, "Map", NoData))
    BY <1>1, constructType, constructSlotted, TagsType
  <1> QED
    BY <1>1, <1>2, SetTagSlotted, TagsType

\* What a constructor builds in its temporary is moved to a variable.
LEMMA TemporarySlotted ==
  ASSUME NEW q, Tidy(q), Slotted(q), NEW c \in Named PROVE Slotted(move_from(q, c, Arg))
  <1>1. c \in Cell /\ Arg \in Cell /\ Alive(destruct(q, c), Arg)
    BY LocalsApart DEF Cell, Alive
  <1> QED
    BY <1>1, move_fromSlotted

LEMMA ListOfOneSlotted ==
  ASSUME NEW s, Quiet(s), Slotted(s), NEW c \in Named, NEW x \in Addressable(s),
         NEW f \in CopyMaps(s, Arg, x)
  PROVE  Slotted(move_from(copy_from(s, Arg, x, f), c, Arg))
  <1> DEFINE q == copy_from(s, Arg, x, f)
  <1>1. /\ x \in Cell /\ Alive(s, x) /\ Arg \in Cell /\ Alive(s, Arg) /\ Tidy(s)
        /\ destruct(s, Arg) = s
    BY QuietOperands, LocalsApart, NullStays DEF Alive, Empty
  <1>2. Tidy(q) /\ Slotted(q)
    BY <1>1, copy_fromTidy, copy_fromSlotted
  <1> HIDE DEF q
  <1>3. Slotted(move_from(q, c, Arg))
    BY <1>2, TemporarySlotted
  <1> QED
    BY <1>3 DEF q

LEMMA ListOfTwoSlotted ==
  ASSUME NEW s, Quiet(s), Slotted(s), NEW c \in Named, NEW x \in Addressable(s), NEW y \in Addressable(s),
         NEW m \in FreeNodes(s), NEW n \in FreeNodes(s), m # n,
         NEW f \in PushMaps(make_unique(s, n), Arg, x, m, m),
         NEW a, a = PushCopied(make_unique(s, n), Arg, x, m, m, f),
         NEW g \in PushMaps(a, Arg, y, n, n)
  PROVE  Slotted(move_from(PushCopied(a, Arg, y, n, n, g), c, Arg))
  <1> DEFINE p == make_unique(s, n)
             b == PushCopied(a, Arg, y, n, n, g)
  <1>1. /\ m \in Heap /\ n \in Heap /\ Fresh(s, m) /\ Fresh(s, n) /\ s.owner[n] \notin Cell
        /\ Arg \in Cell /\ Arg \notin Heap /\ s \in State
        /\ x \in Cell /\ y \in Cell /\ x # n /\ y # n /\ Alive(s, x) /\ Alive(s, y)
    BY QuietOperands, LocalsApart
  <1>2. /\ Tidy(p) /\ p.vtype = s.vtype /\ p.held = s.held /\ Slotted(p)
        /\ \A h \in Heap : p.owner[h] = IF h = n THEN Uptr ELSE s.owner[h]
    BY <1>1, QuietFacts, make_uniqueEffect, make_uniqueTidy, make_uniqueSlotted
  <1>3. f \in PushMaps(p, Arg, x, m, m) /\ a = PushCopied(p, Arg, x, m, m, f)
    OBVIOUS
  <1> HIDE DEF p
  <1>4. p.vtype[Arg] = "Null" /\ Empty(p, Tmp)
    BY <1>2, QuietFacts DEF Empty
  <1>5. PushArgs(p, Arg, m, m)
    BY <1>1, <1>2, <1>4, LocalsApart DEF PushArgs, Wraps, Fresh, Alive
  <1>6. Alive(p, x) /\ Alive(p, y)
    BY <1>1, <1>2 DEF Alive
  <1>7. /\ Pushed(p, Arg, m, m, a) /\ Slotted(a)
        /\ \A e \in Cell \ Heap : e # Arg => a.vtype[e] = p.vtype[e] /\ a.held[e] = p.held[e]
        /\ \A h \in Heap : h # Arg /\ a.owner[h] = Uptr =>
             a.vtype[h] = p.vtype[h] /\ a.held[h] = p.held[h]
    BY <1>1, <1>2, <1>3, <1>5, <1>6, PushCopiedEffect, PushCopiedSlotted
  <1>8. /\ Tidy(a) /\ a.vtype[Arg] = "Array" /\ Empty(a, Tmp) /\ Alive(a, y)
        /\ \A h \in Heap : a.owner[h] = Uptr <=> h = n
    BY <1>2, <1>4, <1>6, <1>7, QuietFacts, LocalsApart DEF Pushed, Empty, Alive, Wraps
  <1>9. Fresh(a, n)
    BY <1>1, <1>2, <1>7, <1>8 DEF Fresh
  <1>10. PushArgs(a, Arg, n, n)
    BY <1>1, <1>8, <1>9, LocalsApart DEF PushArgs, Wraps, Alive
  <1>11. Pushed(a, Arg, n, n, b) /\ Slotted(b)
    BY <1>1, <1>7, <1>8, <1>10, PushCopiedEffect, PushCopiedSlotted
  <1> HIDE DEF b
  <1>12. Slotted(move_from(b, c, Arg))
    BY <1>11, TemporarySlotted DEF Pushed
  <1> QED
    BY <1>12 DEF b

LEMMA PairSlotted ==
  ASSUME NEW s, Quiet(s), Slotted(s), NEW c \in Named, NEW k \in Keys, NEW x \in Addressable(s),
         NEW n \in FreeNodes(s), NEW a, a = InsertKey(s, Arg, k, n),
         NEW f \in CopyMaps(a, n, x)
  PROVE  Slotted(move_from(copy_from(a, n, x, f), c, Arg))
  <1> DEFINE q == copy_from(a, n, x, f)
  <1>1. /\ n \in Heap /\ n \in Cell /\ Fresh(s, n) /\ Arg \in Cell /\ Arg \notin Heap /\ n # Arg
        /\ x \in Cell /\ x # n /\ Alive(s, x) /\ Alive(s, Arg) /\ Tidy(s)
        /\ s.vtype[Arg] = "Null" /\ s.vtype[n] = "Null"
    BY QuietOperands, LocalsApart, ArgTmpCell DEF Alive, Empty, Fresh
  <1>2. Kids(s, Arg) = {}
    BY <1>1 DEF Kids, Containers
  <1>3. Slotted(a)
    BY <1>1, <1>2, InsertKeySlotted
  <1>4. /\ Tidy(a)
        /\ a.vtype[n] = "Null"
        /\ \A h \in Heap : a.owner[h] \in {IF h = n THEN Arg ELSE s.owner[h], Stray}
    BY <1>1, InsertKeyEffect
  <1>5. Alive(a, n) /\ Alive(a, x) /\ destruct(a, n) = a
    BY <1>1, <1>4, CellNoMark, OwnerAssumption, NullStays DEF Alive
  <1>6. Tidy(q) /\ Slotted(q)
    BY <1>1, <1>3, <1>4, <1>5, copy_fromTidy, copy_fromSlotted
  <1> HIDE DEF q
  <1>7. Slotted(move_from(q, c, Arg))
    BY <1>6, TemporarySlotted
  <1> QED
    BY <1>7 DEF q

-----------------------------------------------------------------------------
LEMMA InitSlotted == Init => Slotted(st)
  <1> SUFFICES ASSUME Init, NEW c \in Cell PROVE Arranged(st.held[c], Nodes(st, c), st.slot)
    BY DEF Slotted
  <1>1. st.held[c] \notin Containers
    BY DEF Init, Containers
  <1> QED
    BY <1>1, ArrangedNone

LEMMA CallSlotted ==
  ASSUME Quiet(st), Slotted(st), ~st'.ub, NEW c \in Addressable(st), Call(c)
  PROVE  Slotted(st')
  <1>0. c \in Cell /\ Tidy(st) /\ st \in State /\ Alive(st, c) /\ Alive(destruct(st, c), c)
    BY QuietOperands
  <1>1. ASSUME NEW v \in Addressable(st), CopyAssign(c, v) PROVE Slotted(st')
    <2>1. PICK f \in CopyMaps(st, c, v) : st' = copy_from(st, c, v, f)
      BY <1>1 DEF CopyAssign
    <2>2. v \in Cell
      BY QuietOperands
    <2>3. Alive(destruct(st, c), v)
      BY <1>0, <2>1, <2>2, copy_fromAlive
    <2> QED
      BY <1>0, <2>1, <2>2, <2>3, copy_fromSlotted
  <1>2. ASSUME NEW v \in Addressable(st), MoveAssign(c, v) PROVE Slotted(st')
    <2>1. st' = move_from(st, c, v) /\ v \in Cell
      BY <1>2, QuietOperands DEF MoveAssign
    <2>2. Alive(destruct(st, c), v)
      BY <1>0, <2>1, move_fromAlive
    <2> QED
      BY <1>0, <2>1, <2>2, move_fromSlotted
  <1>3. ASSUME NEW v \in Addressable(st), PushBackMove(c, v) PROVE Slotted(st')
    BY <1>3, PushMovedCall DEF PushBackMove
  <1>4. ASSUME NEW v \in Addressable(st), PushBackCopy(c, v) PROVE Slotted(st')
    BY <1>4, PushCopiedCall DEF PushBackCopy
  <1>5. ASSUME NEW v \in Addressable(st), RemoveElement(c, v) PROVE Slotted(st')
    BY <1>0, <1>5, EraseSlotted DEF RemoveElement
  <1>6. ASSUME NEW v \in Addressable(st), Swap(c, v) PROVE Slotted(st')
    BY <1>6, swappedSlotted DEF Swap
  <1>7. ASSUME NEW v \in Addressable(st), CopyAssignFails(c, v) PROVE Slotted(st')
    BY <1>0, <1>7, destructSlotted DEF CopyAssignFails
  <1>8. ASSUME NEW v \in Addressable(st), PushBackMoveFails(c, v) PROVE Slotted(st')
    BY <1>8, PushFailedSlotted DEF PushBackMoveFails
  <1>9. ASSUME NEW l \in Literals, AssignNew(c, l[1], l[2]) PROVE Slotted(st')
    BY <1>9, AssignNewSlotted DEF AssignNew
  <1>10. ASSUME NEW l \in Literals, PushBackNew(c, l[1], l[2]) PROVE Slotted(st')
    BY <1>10, PushBackNewSlotted DEF PushBackNew
  <1>11. ASSUME NEW k \in Keys, IndexKey(c, k) PROVE Slotted(st')
    <2>1. \A n \in FreeNodes(st) : Fresh(st, n) /\ n # c
      BY QuietOperands
    <2> QED
      BY <1>0, <1>11, <2>1, InsertKeySlotted DEF IndexKey
  <1>12. ASSUME NEW k \in Keys, RemoveKey(c, k) PROVE Slotted(st')
    BY <1>0, <1>12, EraseSlotted DEF RemoveKey
  <1>13. ASSUME NEW d \in Payloads, WriteThrough(c, d) PROVE Slotted(st')
    <2>1. st'.held = st.held /\ st'.owner = st.owner /\ st'.slot = st.slot
      BY <1>0, <1>13 DEF WriteThrough, State
    <2> QED
      BY <2>1, SlottedSame
  <1>14. CASE StealString(c)
    <2>1. st'.held = st.held /\ st'.owner = st.owner /\ st'.slot = st.slot
      BY <1>0, <1>14 DEF StealString, State
    <2> QED
      BY <2>1, SlottedSame
  <1>15. CASE PushBackFails(c)
    <2>0. c # Tmp /\ Empty(st, Tmp)
      BY QuietOperands
    <2>1. CASE st.vtype[c] = "Null" /\ st' = OpenArray(st, c)
      <3>1. st' = PushReady(st, c, c) /\ ~Wraps(st, c)
        BY <2>1 DEF PushReady, Wraps
      <3> QED
        BY <1>0, <2>0, <3>1, PushReadySlotted
    <2>2. ASSUME Wraps(st, c), NEW m \in FreeNodes(st), st' = WrapInArray(st, c, m)
          PROVE  Slotted(st')
      <3>1. Fresh(st, m) /\ m # c
        BY QuietOperands
      <3>2. st' = PushReady(st, c, m)
        BY <2>2 DEF PushReady, Wraps
      <3> QED
        BY <1>0, <2>0, <3>1, <3>2, PushReadySlotted
    <2>3. CASE st' = WrapFailed(st, c) /\ Wraps(st, c)
      BY <2>3, WrapFailedSlotted DEF Wraps
    <2> QED
      BY <1>15, <2>1, <2>2, <2>3 DEF PushBackFails, Wraps
  <1>16. CASE IndexKeyFails(c)
    BY <1>16, IndexKeyFailsSlotted DEF IndexKeyFails
  <1> QED
    BY <1>1, <1>2, <1>3, <1>4, <1>5, <1>6, <1>7, <1>8, <1>9, <1>10,
       <1>11, <1>12, <1>13, <1>14, <1>15, <1>16 DEF Call

LEMMA NextSlotted == Quiet(st) /\ Slotted(st) /\ Next => st'.ub \/ Slotted(st')
  <1> SUFFICES ASSUME Quiet(st), Slotted(st), Next, ~st'.ub PROVE Slotted(st')
    OBVIOUS
  <1>1. ASSUME NEW c \in Addressable(st), Call(c) PROVE Slotted(st')
    BY <1>1, CallSlotted
  <1>2. ASSUME NEW x \in Named, Construct(x) PROVE Slotted(st')
    <2>1. ASSUME NEW v \in Addressable(st), AssignListOfOne(x, v) PROVE Slotted(st')
      BY <2>1, ListOfOneSlotted DEF AssignListOfOne
    <2>2. ASSUME NEW v \in Addressable(st), NEW y \in Addressable(st), AssignListOfTwo(x, v, y)
          PROVE  Slotted(st')
      BY <2>2, ListOfTwoSlotted DEF AssignListOfTwo
    <2>3. ASSUME NEW v \in Addressable(st), NEW k \in Keys, AssignPair(x, k, v)
          PROVE  Slotted(st')
      BY <2>3, PairSlotted DEF AssignPair
    <2> QED
      BY <1>2, <2>1, <2>2, <2>3 DEF Construct
  <1>3. ASSUME NEW x \in Named, LeaveScope(x) PROVE Slotted(st')
    BY <1>3, LeaveScopeSlotted DEF LeaveScope
  <1> QED
    BY <1>1, <1>2, <1>3 DEF Next

LEMMA SlottedGives == Quiet(st) /\ Slotted(st) => SlotsOK
  <1> SUFFICES ASSUME Quiet(st), Slotted(st), NEW c \in Addressable(st)
               PROVE  LET kids == Kids(st, c) IN
                      CASE st.vtype[c] = "Array" -> {st.slot[h] : h \in kids} = 1..Cardinality(kids)
                        [] st.vtype[c] = "Map"   -> /\ {st.slot[h] : h \in kids} \subseteq Keys
                                                    /\ \A h, k \in kids : st.slot[h] = st.slot[k] => h = k
                        [] OTHER                 -> kids = {}
    BY DEF SlotsOK
  <1> DEFINE K == Kids(st, c)
             t == st.vtype[c]
  <1>1. t \notin Containers => K = {}
    BY DEF Kids
  <1>2. t \in Containers => Arranged(t, K, st.slot)
    <2> SUFFICES ASSUME t \in Containers PROVE Arranged(t, K, st.slot)
      OBVIOUS
    <2>1. Nodes(st, c) = K /\ st.held[c] = t
      BY QuietOperands, NodesAreKids DEF Containers, HeldBy
    <2>2. Arranged(st.held[c], Nodes(st, c), st.slot)
      BY QuietOperands DEF Slotted
    <2> QED
      BY <2>1, <2>2
  <1> HIDE DEF K
  <1>3. t = "Array" => {st.slot[h] : h \in K} = 1..Cardinality(K)
    BY <1>2 DEF Arranged, Numbered, Containers
  <1>4. t = "Map" => /\ {st.slot[h] : h \in K} \subseteq Keys
                     /\ \A h, k \in K : st.slot[h] = st.slot[k] => h = k
    BY <1>2 DEF Arranged, Keyed, Different, Containers
  <1> QED
    BY <1>1, <1>3, <1>4 DEF K, Containers

\* The positions of every Array are 1..n and the keys of every Map are
\* different keys, whatever is pushed, moved, copied, removed or swapped, into
\* or out of itself too, and after allocations that fail, until a call has
\* touched a destroyed Value.
THEOREM SlotsHold == Spec => [](NoUB => SlotsOK)
  <1> DEFINE Inv == st.ub \/ (Quiet(st) /\ Slotted(st))
  <1>1. Init => Inv
    BY InitQuiet, InitSlotted
  <1>2. Inv /\ [Next]_st => Inv'
    <2>1. CASE UNCHANGED st
      BY <2>1
    <2>2. CASE Next
      BY <2>2, NextFine, NextSlotted DEF Next, Fine
    <2> QED
      BY <2>1, <2>2
  <1>3. Inv => (NoUB => SlotsOK)
    BY SlottedGives DEF NoUB
  <1> QED
    BY <1>1, <1>2, <1>3, PTL DEF Spec

\* With the arguments SafeCopy, SafeMove and SafePush allow, that is always.
THEOREM SlotsAlwaysHold == ASSUME Client # "any" PROVE Spec => []SlotsOK
  <1>1. Spec => [](NoUB => SlotsOK) /\ []NoUB
    BY SlotsHold, NeverCrashes
  <1> QED
    BY <1>1, PTL
=============================================================================
