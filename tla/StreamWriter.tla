---------------------------- MODULE StreamWriter ----------------------------
(***************************************************************************)
(* timl::StreamWriter (src/include/stream_writer.hpp): one call of         *)
(* writeValue after another on the same stream.                            *)
(*                                                                         *)
(* calls is the stack of append_object and append_array activations: each  *)
(* has its container, the order in which it takes the members, the next    *)
(* one, and rtn, the pair of a size and a flag it will return.  A step     *)
(* appends one member, or closes a container.  What goes to the stream is  *)
(* a sequence of fields beside its true size in bytes, so that it can be   *)
(* compared with the size the code adds up.  The stream may fail at any    *)
(* write and nobody looks.                                                 *)
(*                                                                         *)
(* A Value is [kind, n, items].  n is what decides how a leaf is written:  *)
(* the number of an integer, the length of a text, and the width a Float   *)
(* needs (4, 8, or 0 when it is infinite or not a number).                 *)
(***************************************************************************)
EXTENDS Integers, Sequences, FiniteSets

CONSTANTS
  Values,   \* what writeValue is called with
  Tree,     \* those Values and all that is in them
  KeyLen,   \* the length of each key
  Umax,     \* bound: the greatest unsigned number of w bytes, w = 1, 2, 4
  Smin      \* bound: the least signed number of w bytes

Widths == {1, 2, 4}

ASSUME LimitAssumption ==
  /\ Umax \in [Widths -> Nat]
  /\ Smin \in [Widths -> Int]
ASSUME LengthAssumption == \A k \in DOMAIN KeyLen : KeyLen[k] \in Nat

Container(v) == v.kind \in {"Map", "Array"}

ASSUME TreeAssumption ==
  /\ Values \subseteq Tree
  /\ \A v \in Tree :
       /\ v.kind \in {"Null", "Bool", "Char", "SignedInt", "UnsignedInt", "Float",
                     "String", "Binary", "Map", "Array"}
       /\ v.kind \in {"String", "Binary"} => v.n \in Nat
       /\ v.kind = "Float" => v.n \in {0, 4, 8}
       /\ Container(v) => /\ IsFiniteSet(DOMAIN v.items)
                          /\ \A k \in DOMAIN v.items : v.items[k] \in Tree
       /\ v.kind = "Map" => DOMAIN v.items \subseteq DOMAIN KeyLen
       /\ v.kind = "Array" => v.items \in Seq(Tree)

VARIABLES
  value,     \* the argument of the last call
  calls,
  sent,      \* what the last call has handed to the stream
  broken,    \* a write to the stream has failed
  status,    \* "ready", "writing", "returned" or "thrown"
  returned   \* the pair the last call returned

wvars == <<value, calls, sent, broken, status, returned>>

-----------------------------------------------------------------------------
(* What is written.                                                        *)

Field(what, of, size) ==
  [fields |-> <<[what |-> what, of |-> of, size |-> size]>>, size |-> size]

Nothing     == [fields |-> <<>>, size |-> 0]
Then(a, b)  == [fields |-> a.fields \o b.fields, size |-> a.size + b.size]
Mark(m)     == Field("mark", m, 1)

\* The pair <size, flag> of the code.
Pair(n, ok) == [first |-> n, second |-> ok]

Appended(o, n, ok) == [out |-> o, rtn |-> Pair(n, ok)]

\* Mutant of update: the flags are combined.
update_And(src, dest) ==
  Pair(dest.first + src.first, dest.second /\ src.second)

update(src, dest) == Pair(dest.first + src.first, src.second)

Narrowest(S) == CHOOSE w \in S : \A x \in S : w <= x
UintWidth(n) == Narrowest({w \in Widths : n <= Umax[w]} \cup {8})
SintWidth(n) == Narrowest({w \in Widths : Smin[w] <= n} \cup {8})

UintMark(w) == CASE w = 1 -> "I" [] w = 2 -> "J" [] w = 4 -> "K" [] w = 8 -> "L"
SintMark(w) == CASE w = 1 -> "i" [] w = 2 -> "j" [] w = 4 -> "k" [] w = 8 -> "l"

Number(m, n, w) == Appended(Then(Mark(m), Field("number", n, w)), w + 1, TRUE)

append_unsignedInt(n) == LET w == UintWidth(n) IN Number(UintMark(w), n, w)

\* No marker announces a size of eight bytes: nothing is written.
append_size(n) ==
  IF UintWidth(n) = 8 THEN Appended(Nothing, 0, FALSE) ELSE append_unsignedInt(n)

append_signedInt(n) ==
  LET w == SintWidth(n) IN
  IF n >= 0 THEN append_unsignedInt(n) ELSE Number(SintMark(w), n, w)

append_float(w) ==
  CASE w = 4 -> Number("d", 0, 4)
    [] w = 8 -> Number("D", 0, 8)
    [] OTHER -> Appended(Nothing, 0, FALSE)

\* Mutant of append_text: the marker is not counted.
append_text_Short(m, n) ==
  LET s == append_size(n) IN
  Appended(Then(Then(Mark(m), s.out), Field("data", 0, n)), s.rtn.first + n, s.rtn.second)

\* Mutant of append_text: a Binary has the marker of a String.
append_text_OneMarker(m, n) ==
  LET s == append_size(n) IN
  Appended(Then(Then(Mark("s"), s.out), Field("data", 0, n)), s.rtn.first + n + 1, s.rtn.second)

\* append_string and append_binary.
append_text(m, n) ==
  LET s == append_size(n) IN
  Appended(Then(Then(Mark(m), s.out), Field("data", 0, n)), s.rtn.first + n + 1, s.rtn.second)

\* The length of the key is cast to a byte.
append_key(k) ==
  Appended(Then(Field("keyLen", KeyLen[k] % 256, 1), Field("keyBytes", k, KeyLen[k])),
           1 + KeyLen[k], TRUE)

\* append_value, for a Value that is not a container.
append_value(v) ==
  CASE v.kind = "Null"        -> Appended(Mark("n"), 1, TRUE)
    [] v.kind = "Bool"        -> Appended(Mark(IF v.n = 0 THEN "f" ELSE "t"), 1, TRUE)
    [] v.kind = "Char"        -> Number("c", 0, 1)
    [] v.kind = "SignedInt"   -> append_signedInt(v.n)
    [] v.kind = "UnsignedInt" -> append_unsignedInt(v.n)
    [] v.kind = "Float"       -> append_float(v.n)
    [] v.kind = "String"      -> append_text("s", v.n)
    [] v.kind = "Binary"      -> append_text("b", v.n)

\* The start of append_object and of append_array, up to the first member.
\* The size of an array counts its end marker from the start.
Opening(v) ==
  LET size == append_size(Cardinality(DOMAIN v.items)) IN
  CASE v.kind = "Map" ->
         [out |-> Then(Mark("{"), size.out), rtn |-> update(size.rtn, Pair(1, FALSE))]
    [] v.kind = "Array" /\ v.items # <<>> ->
         [out |-> Then(Mark("["), size.out), rtn |-> update(size.rtn, Pair(2, FALSE))]
    [] v.kind = "Array" /\ v.items = <<>> -> Appended(Mark("["), 2, FALSE)

\* Their end: the marker, and the pair that is returned.
Closing(v, rtn) ==
  IF v.kind = "Map"
  THEN [out |-> Mark("}"), rtn |-> Pair(rtn.first + 1, rtn.second)]
  ELSE [out |-> Mark("]"), rtn |-> rtn]

\* The orders in which the members may be taken: an unordered_map has any.
Orders(v) ==
  LET D == DOMAIN v.items IN
  IF v.kind = "Array" THEN {[i \in D |-> i]}
  ELSE {s \in [1..Cardinality(D) -> D] : \A k \in D : \E i \in DOMAIN s : s[i] = k}

Activation(v, order) ==
  [val |-> v, order |-> order, next |-> 1, rtn |-> Opening(v).rtn]

-----------------------------------------------------------------------------
(* The steps.                                                              *)

Deepest  == Len(calls)
Current  == calls[Deepest]
More     == Current.next <= Len(Current.order)
Key      == Current.order[Current.next]
Member   == Current.val.items[Key]

\* The key of the member, if it has one.
Label ==
  IF Current.val.kind = "Map" THEN append_key(Key)
  ELSE Appended(Nothing, 0, Current.rtn.second)

\* write(): the outcome of the stream is not looked at.
Write(o) ==
  /\ sent' = Then(sent, o)
  /\ broken' \in {broken, TRUE}

\* Mutant of Advanced: the index is moved twice.
Advanced_Twice(rtn) ==
  [calls EXCEPT ![Deepest] = [Current EXCEPT !.next = Current.next + 2, !.rtn = rtn]]

\* The activation goes on to its next member, with what one part returned.
Advanced(rtn) ==
  [calls EXCEPT ![Deepest] = [Current EXCEPT !.next = Current.next + 1, !.rtn = rtn]]

Init ==
  /\ value \in Values /\ calls = <<>> /\ sent = Nothing
  /\ broken = FALSE /\ status = "ready" /\ returned = Pair(0, FALSE)

\* writeValue(v) is called: only a Map is written.
WriteValue(v) ==
  /\ status # "writing"
  /\ value' = v
  /\ \/ /\ v.kind # "Map"
        /\ sent' = Nothing /\ status' = "returned" /\ returned' = Pair(0, FALSE)
        /\ UNCHANGED <<calls, broken>>
     \/ /\ v.kind = "Map"
        /\ \E order \in Orders(v) : calls' = <<Activation(v, order)>>
        /\ sent' = Opening(v).out /\ broken' \in {broken, TRUE}
        /\ status' = "writing" /\ returned' = Pair(0, FALSE)

\* Mutant of KeyTooLong: the limit is off by one.
KeyTooLong_OffByOne == Current.val.kind = "Map" /\ KeyLen[Key] > 256

KeyTooLong == Current.val.kind = "Map" /\ KeyLen[Key] > 255

\* append_key throws std::logic_error, through every activation.
ThrowKey ==
  /\ status = "writing" /\ More /\ KeyTooLong
  /\ calls' = <<>> /\ status' = "thrown"
  /\ UNCHANGED <<value, sent, broken, returned>>

\* One member that is not a container, with its key.
AppendLeaf ==
  /\ status = "writing" /\ More /\ ~KeyTooLong /\ ~Container(Member)
  /\ LET a == append_value(Member) IN
     /\ Write(Then(Label.out, a.out))
     /\ calls' = Advanced(update(a.rtn, update(Label.rtn, Current.rtn)))
  /\ UNCHANGED <<value, status, returned>>

\* A key, and the start of the container under it.
AppendContainer ==
  /\ status = "writing" /\ More /\ ~KeyTooLong /\ Container(Member)
  /\ Write(Then(Label.out, Opening(Member).out))
  /\ \E order \in Orders(Member) :
       calls' = Append(Advanced(update(Label.rtn, Current.rtn)), Activation(Member, order))
  /\ UNCHANGED <<value, status, returned>>

\* A container ends, and the activation that asked for it takes the pair.
Close ==
  /\ status = "writing" /\ ~More
  /\ LET c == Closing(Current.val, Current.rtn) IN
     /\ Write(c.out)
     /\ \/ /\ Deepest = 1
           /\ calls' = <<>> /\ status' = "returned" /\ returned' = c.rtn
        \/ /\ Deepest > 1
           /\ calls' = [i \in 1..(Deepest - 1) |->
                IF i < Deepest - 1 THEN calls[i]
                ELSE [calls[i] EXCEPT !.rtn = update(c.rtn, @)]]
           /\ UNCHANGED <<status, returned>>
  /\ UNCHANGED value

Step == ThrowKey \/ AppendLeaf \/ AppendContainer \/ Close

Next == (\E v \in Values : WriteValue(v)) \/ Step

Spec == Init /\ [][Next]_wvars

-----------------------------------------------------------------------------
\* The types of the variables; an activation takes each member once.
TypeOK ==
  /\ status \in {"ready", "writing", "returned", "thrown"}
  /\ status = "writing" <=> calls # <<>>
  /\ broken \in BOOLEAN /\ returned \in [first : Nat, second : BOOLEAN]
  /\ sent.size \in Nat
  /\ \A i \in 1..Deepest :
       /\ Container(calls[i].val)
       /\ calls[i].next \in 1..(Len(calls[i].order) + 1)
       /\ calls[i].rtn \in [first : Nat, second : BOOLEAN]

\* "Successfully wrote: result.first bytes" (README.md:120): the sizes that the
\* append functions return, added up on the way back through the activations,
\* are the bytes that were handed to the stream.
BytesCounted == status = "returned" => returned.first = sent.size

\* "if(result.second) Successfully wrote" (README.md:119): success is not
\* reported of a stream that has failed.  write() returns true without a look.
SuccessMeansDelivered == status = "returned" /\ returned.second => ~broken
=============================================================================
