--------------------------- MODULE MCStreamWriter ---------------------------
(* Values with every kind of leaf at every width, containers of every count *)
(* width, keys of the greatest length and one more, nested three deep.      *)
EXTENDS WrittenValues, TLC

CONSTANTS k1, k2, k3

MCKeyLen == k1 :> 0 @@ k2 :> 255 @@ k3 :> 256
MCUmax   == 1 :> 3 @@ 2 :> 7 @@ 4 :> 15
MCSmin   == 1 :> -2 @@ 2 :> -4 @@ 4 :> -8

Leaf(kind, n) == [kind |-> kind, n |-> n, items |-> <<>>]
ArrayOf(seq)  == [kind |-> "Array", n |-> 0, items |-> seq]
MapOf(f)      == [kind |-> "Map", n |-> 0, items |-> f]

Leaves ==
  {Leaf("Null", 0), Leaf("Bool", 0), Leaf("Bool", 1), Leaf("Char", 0)}
    \cup {Leaf("SignedInt", n) : n \in {-9, -8, -5, -4, -3, -2, -1, 0, 5}}
    \cup {Leaf("UnsignedInt", n) : n \in {0, 3, 4, 7, 8, 15, 16}}
    \cup {Leaf("Float", w) : w \in {0, 4, 8}}
    \cup {Leaf(t, n) : t \in {"String", "Binary"}, n \in {0, 3, 4, 8, 16}}

Few == {Leaf("Null", 0), Leaf("Float", 0), Leaf("String", 4), Leaf("SignedInt", 5)}

Small ==
  {ArrayOf(<<>>), MapOf(<<>>)}
    \cup {ArrayOf([i \in 1..n |-> Leaf("Null", 0)]) : n \in {1, 3, 4, 8, 16}}
    \cup {ArrayOf(<<x, y>>) : x, y \in Few}
    \cup {MapOf(k1 :> x) : x \in Few}
    \cup {MapOf(k1 :> x @@ k2 :> y) : x, y \in Few}
    \cup {MapOf(k3 :> x) : x \in Few}

Large ==
  Small \cup {MapOf(k2 :> x) : x \in Small} \cup {ArrayOf(<<x, y>>) : x \in Small, y \in Few}

MCValues ==
  {MapOf(<<>>), Leaf("Null", 0), ArrayOf(<<>>)}
    \cup {MapOf(k1 :> x) : x \in Leaves \cup Large}
    \cup {MapOf(k1 :> x @@ k2 :> y) : x \in Small, y \in Few}

MCTree == MCValues \cup Leaves \cup Large \cup Few
=============================================================================
