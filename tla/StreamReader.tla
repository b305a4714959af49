---------------------------- MODULE StreamReader ----------------------------
(***************************************************************************)
(* timl::StreamReader (src/include/stream_reader.hpp): one call of         *)
(* getNextValue after another on the same stream.                          *)
(*                                                                         *)
(* The recursive descent is written as a machine that makes one call of    *)
(* read() per step.  frames is the stack of extract_nextValue activations: *)
(* each has the kind of its container, the count it was given, the items   *)
(* left, the type mark of a homogeneous array, the key just read, and the  *)
(* Value it fills.  frames[1] fills the caller's Value.  The bytes are     *)
(* chosen as they are read, so the stream may hold anything, and it may    *)
(* end at any read: read() looks at neither the state of the stream nor    *)
(* the number of bytes it got, and the caller goes on with whatever its    *)
(* buffer held.                                                            *)
(***************************************************************************)
EXTENDS Integers, FiniteSets, Sequences

CONSTANTS
  Bytes,            \* the marker bytes the stream may hold
  Keys,             \* the keys of objects
  KeySize,           \* the length of each key
  MaxCount,         \* bound: the largest item count in the stream
  Uint8Code,        \* the byte value of the marker 'I' (73 in types.hpp)
  HomoEndCode,      \* the byte value of the marker ')' (41 in types.hpp)
  Roots,            \* the Values a caller may pass
  max_value_depth, max_object_size   \* vsz: the policy

ASSUME PolicyAssumption ==
  /\ max_value_depth \in Nat /\ max_object_size \in Nat
ASSUME CodeAssumption ==
  /\ MaxCount \in Nat /\ Uint8Code \in 0..255 /\ HomoEndCode \in 0..255
ASSUME KeyAssumption == KeySize \in [Keys -> 0..255]
ASSUME MarkerAssumption == "{" \in Bytes

VARIABLES
  pc,               \* the read() about to be made, or what follows it
  asked,            \* who called extract_itemCount
  width,            \* bytes of the number or text about to be read
  marker,           \* the marker of the item being read
  frames,
  out,              \* the caller's Value, when no activation fills it
  bytes_so_far, recursive_depth, last_error,
  short,            \* the stream has ended or failed
  result            \* of the last call: "true", "false", "thrown", or "none"

vars == <<pc, asked, width, marker, frames, out, bytes_so_far,
          recursive_depth, last_error, short, result>>

-----------------------------------------------------------------------------
(* Values, as far as the reader builds them; the bytes of a leaf are left out. *)

Leaf(t) == [kind |-> t, items |-> <<>>]
Null    == Leaf("Null")

\* vref[key] = std::move(value), on a Null or a Map
WithItem(v, k, x) ==
  [ kind  |-> "Map",
    items |-> [j \in DOMAIN v.items \cup {k} |-> IF j = k THEN x ELSE v.items[j]] ]

\* vref.push_back(std::move(value)), on a Null or an Array
Pushed(v, x) == [kind |-> "Array", items |-> Append(v.items, x)]

\* The scalar a marker announces: its Type and the bytes that follow.  Any
\* other byte but s, b and the start of a container makes a Null of no bytes.
Scalars ==
  [ t |-> <<"Bool", 0>>, f |-> <<"Bool", 0>>,
    c |-> <<"Char", 1>>, I |-> <<"UnsignedInt", 1>>, i |-> <<"SignedInt", 1>>,
    j |-> <<"SignedInt", 2>>, k |-> <<"SignedInt", 4>>, l |-> <<"SignedInt", 8>>,
    J |-> <<"UnsignedInt", 2>>, K |-> <<"UnsignedInt", 4>>, L |-> <<"UnsignedInt", 8>>,
    d |-> <<"Float", 4>>, D |-> <<"Float", 8>> ]

ScalarOf(m) == IF m \in DOMAIN Scalars THEN Scalars[m] ELSE <<"Null", 0>>

\* The bytes of an item count, by its marker.
CountWidth == [I |-> 1, J |-> 2, K |-> 4]

EndMarker == [Object |-> "}", HetroArray |-> "]", HomoArray |-> ")"]

-----------------------------------------------------------------------------
(* What the steps are made of.                                             *)

Top     == frames[Len(frames)]
Callers == SubSeq(frames, 1, Len(frames) - 1)

\* The bytes the next read() asks for.
ByteReads  == {"start", "count", "typeMark", "keyLen", "keyMarker", "itemMarker", "end"}
WidthReads == {"number", "countBytes", "text", "keyBytes"}
Reads      == ByteReads \cup WidthReads

\* Mutant of ReadSize: read(byte&) goes to the stream, past the account.
ReadSize_Width == IF pc \in ByteReads THEN 0 ELSE width

ReadSize == IF pc \in ByteReads THEN 1 ELSE width

\* read(): the policy is checked first, the outcome of the stream never.
Read ==
  /\ bytes_so_far + ReadSize <= max_object_size
  /\ bytes_so_far' = bytes_so_far + ReadSize
  /\ short' \in (IF ReadSize = 0 THEN {short} ELSE {short, TRUE})

\* The activations are unwound; what frames[1] has filled stays.
Unwind(r) ==
  /\ pc' = "idle" /\ result' = r
  /\ out' = IF frames = <<>> THEN out ELSE frames[1].val
  /\ frames' = <<>>
  /\ UNCHANGED <<asked, width, marker>>

Still == UNCHANGED recursive_depth

\* A parsing_exception, caught by getNextValue.
Fail(msg) == Unwind("false") /\ last_error' = msg

\* A value_exception, which getNextValue does not catch.
Escape == Unwind("thrown") /\ UNCHANGED last_error

Goto(l) ==
  /\ pc' = l
  /\ UNCHANGED <<asked, width, marker, frames, out, recursive_depth, last_error, result>>

AskCount(who) ==
  /\ pc' = "count" /\ asked' = who
  /\ UNCHANGED <<width, marker, frames, out, recursive_depth, last_error, result>>

ReadNext(l, w) ==
  /\ pc' = l /\ width' = w
  /\ UNCHANGED <<asked, marker, frames, out, recursive_depth, last_error, result>>

\* Mutant of CanStore: a Map is refused as well.
CanStore_NullOnly(f) == f.kind = "Object" => f.val.kind = "Null"

\* vref[key] throws on a Value that is neither a Map nor Null.
CanStore(f) == f.kind = "Object" => f.val.kind \in {"Null", "Map"}

\* Mutant of Store: value_count is not decremented for an array.
Store_NoDecrement(fs, x) ==
  LET f == fs[Len(fs)] IN
  IF f.kind = "Object"
  THEN [fs EXCEPT ![Len(fs)].val = WithItem(f.val, f.key, x), ![Len(fs)].left = f.left - 1]
  ELSE [fs EXCEPT ![Len(fs)].val = Pushed(f.val, x)]

\* The activations fs with the item x in the container that the last one fills.
Store(fs, x) ==
  LET f == fs[Len(fs)] IN
  [fs EXCEPT ![Len(fs)] = [f EXCEPT !.val  = IF f.kind = "Object" THEN WithItem(f.val, f.key, x)
                                             ELSE Pushed(f.val, x),
                                    !.left = f.left - 1]]

\* A Value has been read: it goes to the last activation of fs, or the call
\* of getNextValue is over.
Deliver(fs, x) ==
  \/ /\ fs # <<>> /\ CanStore(fs[Len(fs)])
     /\ frames' = Store(fs, x) /\ pc' = "loop"
     /\ UNCHANGED <<asked, width, marker, out, last_error, result>>
  \/ /\ fs # <<>> /\ ~CanStore(fs[Len(fs)])
     /\ Escape
  \/ /\ fs = <<>>
     /\ frames' = <<>> /\ pc' = "idle" /\ out' = x /\ result' = "true"
     /\ UNCHANGED <<asked, width, marker, last_error>>

\* An empty container leaves the Value it was given as it is.
DeliverEmpty == Deliver(frames, IF frames = <<>> THEN out ELSE Null)

\* Mutant of Enter: the depth is compared before it is counted.
Enter_LateCheck(kind, n) ==
  /\ recursive_depth' = recursive_depth + 1
  /\ \/ recursive_depth > max_value_depth /\ Fail("Maximum Parsing depth Exceeded!")
     \/ /\ recursive_depth <= max_value_depth
        /\ frames' = Append(frames,
             [kind |-> kind, count |-> n, left |-> n, mark |-> marker, key |-> "none",
              val |-> IF frames = <<>> THEN out ELSE Null])
        /\ pc' = "loop"
        /\ UNCHANGED <<asked, width, marker, out, last_error, result>>

\* extract_nextValue is entered.
Enter(kind, n) ==
  /\ recursive_depth' = recursive_depth + 1
  /\ \/ /\ recursive_depth + 1 > max_value_depth
        /\ Fail("Maximum Parsing depth Exceeded!")
     \/ /\ recursive_depth + 1 <= max_value_depth
        /\ frames' = Append(frames,
             [kind |-> kind, count |-> n, left |-> n, mark |-> marker, key |-> "none",
              val |-> IF frames = <<>> THEN out ELSE Null])
        /\ pc' = "loop"
        /\ UNCHANGED <<asked, width, marker, out, last_error, result>>

\* extract_itemCount has returned (n, true) to the one who asked.
Counted(n) ==
  \/ asked \in {"Object", "Recount"} /\ Enter("Object", n)
  \/ asked = "Width" /\ AskCount("Recount")
  \/ asked = "HetroArray" /\ Enter("HetroArray", n)
  \/ asked = "HomoArray"  /\ Enter("HomoArray", n)
  \/ asked = "Text" /\ ReadNext("text", n)

\* It has returned (b, false).
NotCounted(b) ==
  \/ asked = "Object" /\ b = "W" /\ AskCount("Width")
  \/ asked = "Object" /\ b = "}" /\ Still /\ DeliverEmpty
  \/ asked = "Object" /\ b \notin {"W", "}"} /\ Still /\ Fail("empty Object is ill-formed")
  \/ asked = "Width" /\ Still /\ Fail("Ill formed object!")
  \/ asked = "Recount" /\ Enter("Object", 0)
  \/ /\ asked \in {"HetroArray", "HomoArray"} /\ b = EndMarker[asked]
     /\ Still /\ DeliverEmpty
  \/ /\ asked \in {"HetroArray", "HomoArray"} /\ b # EndMarker[asked]
     /\ Still /\ Fail("empty " \o asked \o " is ill-formed")
  \/ asked = "Text" /\ Still /\ Fail("Invalid count token encounted!")

\* extract_singleValueTo and extract_containerValueTo, for the marker m.
Item(m) ==
  LET w == ScalarOf(m)[2] IN
  \/ /\ m \in {"{", "[", "s", "b"}
     /\ marker' = m /\ pc' = "count"
     /\ asked' = CASE m = "{" -> "Object" [] m = "[" -> "HetroArray" [] OTHER -> "Text"
     /\ UNCHANGED <<width, frames, out, recursive_depth, last_error, result>>
  \/ /\ m = "("
     /\ marker' = m /\ pc' = "typeMark"
     /\ UNCHANGED <<asked, width, frames, out, recursive_depth, last_error, result>>
  \/ /\ w > 0
     /\ marker' = m /\ pc' = "number" /\ width' = w
     /\ UNCHANGED <<asked, frames, out, recursive_depth, last_error, result>>
  \/ /\ m \notin {"{", "[", "(", "s", "b"} /\ w = 0
     /\ Still /\ Deliver(frames, Leaf(ScalarOf(m)[1]))

-----------------------------------------------------------------------------
(* The steps.                                                              *)

Init ==
  /\ pc = "idle" /\ asked = "Object" /\ width = 0 /\ marker = "{"
  /\ frames = <<>> /\ out = Null
  /\ bytes_so_far = 0 /\ recursive_depth = 0
  /\ last_error = "" /\ short = FALSE /\ result = "none"

\* getNextValue(v) is called.
GetNextValue(v) ==
  /\ pc = "idle"
  /\ pc' = "start" /\ out' = v /\ result' = "none"
  /\ bytes_so_far' = 0 /\ recursive_depth' = 0
  /\ UNCHANGED <<asked, width, marker, frames, last_error, short>>

\* The first byte of a Value.
ReadStart(b) ==
  /\ pc = "start" /\ Read
  /\ \/ b = "{" /\ AskCount("Object")
     \/ b # "{" /\ Still /\ Fail("Stream does not contain a valid Object")

\* Mutant of PolicyViolation: read() reports false instead of throwing, and the
\* caller asks again.
PolicyViolation_Returns ==
  /\ pc \in Reads /\ bytes_so_far + ReadSize > max_object_size
  /\ UNCHANGED vars

\* Any read(): nothing is taken when the policy forbids it.
PolicyViolation ==
  /\ pc \in Reads /\ bytes_so_far + ReadSize > max_object_size
  /\ Still /\ Fail("Maximum Object size read")
  /\ UNCHANGED <<bytes_so_far, short>>

\* extract_itemCount, its marker.
ReadCount(b) ==
  /\ pc = "count" /\ Read
  /\ \/ b \in DOMAIN CountWidth /\ ReadNext("countBytes", CountWidth[b])
     \/ b \notin DOMAIN CountWidth /\ NotCounted(b)

\* extract_itemCount, the number.  It is read over the marker: if the stream
\* has no byte left, a one-byte count is the marker itself.
ReadCountBytes(n) ==
  /\ pc = "countBytes" /\ Read
  /\ n \in (IF short' /\ width = 1 THEN {Uint8Code} ELSE 0..MaxCount)
  /\ Counted(n)

\* Mutant of Loop: one item more than announced.
Loop_OneMore ==
  /\ pc = "loop" /\ UNCHANGED <<bytes_so_far, short>>
  /\ \/ Top.left < 0 /\ Goto("end")
     \/ Top.left >= 0 /\ Top.kind = "Object" /\ Goto("keyLen")
     \/ Top.left >= 0 /\ Top.kind = "HetroArray" /\ Goto("itemMarker")
     \/ Top.left >= 0 /\ Top.kind = "HomoArray" /\ Item(Top.mark)

\* The while of extract_nextValue.
Loop ==
  /\ pc = "loop" /\ UNCHANGED <<bytes_so_far, short>>
  /\ \/ Top.left = 0 /\ Goto("end")
     \/ Top.left > 0 /\ Top.kind = "Object" /\ Goto("keyLen")
     \/ Top.left > 0 /\ Top.kind = "HetroArray" /\ Goto("itemMarker")
     \/ Top.left > 0 /\ Top.kind = "HomoArray" /\ Item(Top.mark)

\* extract_nextKeyMarker: the length, the key, the marker of the item.
ReadKeyLen(k) ==
  /\ pc = "keyLen" /\ Read
  /\ ReadNext("keyBytes", KeySize[k])

ReadKeyBytes(k) ==
  /\ pc = "keyBytes" /\ Read
  /\ KeySize[k] = width
  /\ frames' = [frames EXCEPT ![Len(frames)] = [Top EXCEPT !.key = k]]
  /\ pc' = "keyMarker"
  /\ UNCHANGED <<asked, width, marker, out, recursive_depth, last_error, result>>

ReadMarker(b) == pc \in {"keyMarker", "itemMarker"} /\ Read /\ Item(b)

\* The payload of a scalar.
ReadNumber ==
  /\ pc = "number" /\ Read
  /\ Still /\ Deliver(frames, Leaf(ScalarOf(marker)[1]))

\* The payload of extract_String and extract_Binary.
ReadText ==
  /\ pc = "text" /\ Read
  /\ Still /\ Deliver(frames, Leaf(IF marker = "s" THEN "String" ELSE "Binary"))

\* extract_count_and_HomoArray, before its count.
ReadTypeMark(b) ==
  /\ pc = "typeMark" /\ Read
  /\ marker' = b /\ pc' = "count" /\ asked' = "HomoArray"
  /\ UNCHANGED <<width, frames, out, recursive_depth, last_error, result>>

\* validate_container_end, and the return of extract_nextValue.
ReadEnd(b) ==
  /\ pc = "end" /\ Read
  /\ \/ b # EndMarker[Top.kind] /\ Still
        /\ Fail("Object is incomplete otherwise corrupt")
     \/ /\ b = EndMarker[Top.kind] /\ recursive_depth' = recursive_depth - 1
        /\ \/ Top.kind # "HomoArray" /\ Deliver(Callers, Top.val)
           \/ /\ Top.kind = "HomoArray" /\ pc' = "homoTail"
              /\ UNCHANGED <<asked, width, marker, frames, out, last_error, result>>

\* extract_count_and_HomoArray goes on to compare the byte of the count.
HomoTail ==
  /\ pc = "homoTail" /\ Still /\ UNCHANGED <<bytes_so_far, short>>
  /\ \/ Top.count % 256 = HomoEndCode /\ Deliver(Callers, Top.val)
     \/ Top.count % 256 # HomoEndCode /\ Fail("empty HomoArray is ill-formed")

Parse ==
  \/ \E b \in Bytes : ReadStart(b) \/ ReadCount(b) \/ ReadTypeMark(b)
                         \/ ReadMarker(b) \/ ReadEnd(b)
  \/ \E n \in 0..MaxCount \cup {Uint8Code} : ReadCountBytes(n)
  \/ \E k \in Keys : ReadKeyLen(k) \/ ReadKeyBytes(k)
  \/ ReadNumber \/ ReadText \/ PolicyViolation \/ Loop \/ HomoTail

Next == (\E v \in Roots : GetNextValue(v)) \/ Parse

\* The reader is sequential code: a call that has begun is carried on.
Spec == Init /\ [][Next]_vars /\ WF_vars(Parse)

-----------------------------------------------------------------------------
\* An activation, whatever the Value it fills.
Activation(f) ==
  /\ f \in [kind : {"Object", "HetroArray", "HomoArray"}, count : Nat, left : Nat,
            mark : Bytes, key : Keys \cup {"none"}, val : {f.val}]
  /\ f.left <= f.count

\* The types of the variables; no activation reads more items than announced.
TypeOK ==
  /\ pc \in {"idle", "loop", "homoTail"} \cup Reads
  /\ asked \in {"Object", "Width", "Recount", "HetroArray", "HomoArray", "Text"}
  /\ width \in Nat /\ bytes_so_far \in Nat /\ recursive_depth \in Nat
  /\ marker \in Bytes /\ short \in BOOLEAN
  /\ result \in {"none", "true", "false", "thrown"}
  /\ \A i \in 1..Len(frames) : Activation(frames[i])

\* recursive_depth counts the activations of extract_nextValue on the native
\* stack through every nesting of containers, so max_value_depth bounds the
\* stack ("This prevents stack overflow", value.hpp:593).
DepthBounded ==
  /\ Len(frames) <= max_value_depth
  /\ pc # "idle" =>
       recursive_depth = Len(frames) - (IF pc = "homoTail" THEN 1 ELSE 0)

\* An item of this marker has no byte of its own in a homogeneous array.
Silent(m) == m \notin {"{", "[", "(", "s", "b"} /\ ScalarOf(m)[2] = 0

\* The fewest bytes that n items of the container of f take.
Cost(f, n) ==
  IF f.kind = "Object" THEN 2 * n ELSE IF f.kind = "HomoArray" /\ Silent(f.mark) THEN 0 ELSE n

\* However the counts in the stream are chosen and the containers nested, what
\* a call builds has been paid for in bytes, and those are no more than
\* max_object_size: a byte for each open container and, on top, the items each
\* one holds.  Only null, true and false in a homogeneous array are free.
ItemsPaidFor ==
  /\ bytes_so_far <= max_object_size
  /\ \A i \in 1..Len(frames) :
       Len(frames) + Cost(frames[i], frames[i].count - frames[i].left) <= bytes_so_far

\* An array being filled holds as many elements as its count announced, less
\* those to come; an object as many entries, less its repeated keys.
ItemsAsAnnounced ==
  \A i \in 1..Len(frames) :
    LET f == frames[i]  done == f.count - f.left IN
    /\ f.kind # "Object" => Len(f.val.items) = done
    /\ f.kind = "Object" /\ i > 1 =>
         /\ Cardinality(DOMAIN f.val.items) <= done
         /\ done > 0 => f.val.items # <<>>

\* A value_exception leaves getNextValue only if the caller passed a Value
\* that cannot take a key.
ThrowsOnlyForRoot == result = "thrown" => out.kind \notin {"Null", "Map"}

\* "Object is incomplete otherwise corrupt" (stream_reader.hpp:400): a stream
\* that ends too early is not accepted.  The code looks at the bytes of the end
\* marker only, and a read past the end leaves any byte there.
NoTruncatedSuccess == result = "true" => ~short

\* "empty HomogenousArray is ill-formed" (stream_reader.hpp:377) is said of an
\* array without a count; after a count and its items the code says it too.
HomoErrorMeansEmpty == [][pc = "homoTail" => result' # "false"]_vars

\* A call of getNextValue comes back whatever the stream holds, also when the
\* stream has ended and every read fails.
Termination == pc # "idle" ~> pc = "idle"
=============================================================================
