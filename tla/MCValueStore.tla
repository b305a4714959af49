---------------------------- MODULE MCValueStore ----------------------------
(* Small instances of ValueStore, and the tree each variable stands for.   *)
EXTENDS ValueStore, TLC

Symmetry == Permutations(Heap)
MCKeys == {-1, -2}

RECURSIVE Tree(_)
Tree(c) ==
  LET kids == Kids(st, c) IN
  [ kind  |-> st.vtype[c],
    data  |-> st.data[c],
    items |-> <<>> @@ [i \in (IF st.vtype[c] = "Map" THEN {st.slot[h] : h \in kids}
                      ELSE 1..Cardinality(kids)) |->
                 Tree(CHOOSE h \in kids : st.slot[h] = i)] ]

Values == INSTANCE ValueSemantics WITH val <- <<>> @@ [x \in Named |-> Tree(x)]

\* Used as values, Values behave as trees that share nothing: the store of
\* nodes implements the abstract specification.
ImplementsValues == Values!Spec
=============================================================================
