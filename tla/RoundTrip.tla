------------------------------ MODULE RoundTrip ------------------------------
(***************************************************************************)
(* A StreamWriter and a StreamReader on the two ends of one stream that    *)
(* loses nothing: writeValue, then getNextValue on what it wrote.  The two *)
(* modules are composed as they are; the reader's choices of bytes are     *)
(* fixed by the fields the writer has sent.                                *)
(***************************************************************************)
EXTENDS WrittenValues

CONSTANTS
  Bytes, Keys, MaxCount, Uint8Code, HomoEndCode,   \* of StreamReader
  max_value_depth, max_object_size

VARIABLES
  pc, asked, width, marker, frames, out, bytes_so_far, recursive_depth,
  last_error, short, result,
  rest,    \* the fields that are still in the stream
  lost     \* the reader takes a field for one of another kind or size

\* The Value that is read into.
Empty == [kind |-> "Null", items |-> <<>>]

R == INSTANCE StreamReader WITH KeySize <- [k \in Keys |-> KeyLen[k]], Roots <- {Empty}

\* The choices of the reader cover what a writer sends.
ASSUME StreamAssumption ==
  /\ max_value_depth \in Nat /\ max_object_size \in Nat /\ MaxCount \in Nat
  /\ \A w \in Widths : Umax[w] <= MaxCount
  /\ Keys = {k \in DOMAIN KeyLen : KeyLen[k] <= 255}

rvars == <<pc, asked, width, marker, frames, out, bytes_so_far,
           recursive_depth, last_error, short, result>>

-----------------------------------------------------------------------------
\* What each read() of the reader is meant to find.
Meant ==
  CASE pc \in {"countBytes", "number"} -> "number"
    [] pc = "keyLen"   -> "keyLen"
    [] pc = "keyBytes" -> "keyBytes"
    [] pc = "text"     -> "data"
    [] OTHER           -> "mark"

Found == rest # <<>> /\ Head(rest).what = Meant /\ Head(rest).size = R!ReadSize

\* The read() that is due takes the field f.  No "(" is ever written: the steps
\* of the reader for homogeneous arrays are left out.
Take(f) ==
  \/ f.what = "mark" /\ (\/ R!ReadStart(f.of) \/ R!ReadCount(f.of) \/ R!ReadMarker(f.of)
                         \/ R!ReadEnd(f.of))
  \/ f.what = "number" /\ (R!ReadCountBytes(f.of) \/ R!ReadNumber)
  \/ f.what = "data" /\ R!ReadText
  \/ f.what = "keyLen" /\ \E k \in Keys : KeyLen[k] = f.of /\ R!ReadKeyLen(k)
  \/ f.what = "keyBytes" /\ R!ReadKeyBytes(f.of)

SystemInit ==
  /\ status = "ready" /\ value \in Values /\ calls = <<>> /\ sent = Nothing
  /\ broken = FALSE /\ returned = Pair(0, FALSE)
  /\ R!Init /\ rest = <<>> /\ lost = FALSE

\* A program writes one Value after another; its stream may fail.
Writing ==
  /\ pc = "idle" /\ result = "none"
  /\ Next
  /\ UNCHANGED <<rvars, rest, lost>>

\* Another program reads what the last writeValue has sent.
StartReading ==
  /\ status = "returned" /\ ~broken /\ value.kind = "Map" /\ result = "none"
  /\ R!GetNextValue(Empty)
  /\ rest' = sent.fields
  /\ UNCHANGED <<wvars, lost>>

Reading ==
  /\ pc \in R!Reads /\ ~lost /\ Found
  /\ Take(Head(rest)) /\ short' = FALSE
  /\ rest' = Tail(rest)
  /\ UNCHANGED <<wvars, lost>>

Deciding ==
  /\ ~lost
  /\ R!Loop \/ R!PolicyViolation
  /\ UNCHANGED <<wvars, rest, lost>>

LoseTrack ==
  /\ pc \in R!Reads /\ ~lost /\ ~Found
  /\ bytes_so_far + R!ReadSize <= max_object_size
  /\ lost' = TRUE
  /\ UNCHANGED <<wvars, rvars, rest>>

SystemNext == Writing \/ StartReading \/ Reading \/ Deciding \/ LoseTrack

SystemSpec == SystemInit /\ [][SystemNext]_<<wvars, rvars, rest, lost>>

-----------------------------------------------------------------------------
\* What is left of v after it has been written and read: a signed number that
\* is not negative comes back unsigned, an empty container as Null.
Canon[v \in Tree] ==
  CASE Members(v) # {} ->
         [kind |-> v.kind, items |-> [k \in DOMAIN v.items |-> Canon[v.items[k]]]]
    [] Members(v) = {} /\ Container(v) -> Empty
    [] v.kind = "SignedInt" /\ v.n >= 0 -> R!Leaf("UnsignedInt")
    [] OTHER -> R!Leaf(v.kind)

\* The reader's policy admits what has been written.
Admitted == Depth[value] <= max_value_depth /\ sent.size <= max_object_size

\* What writeValue has written of a Value the format can hold, getNextValue
\* reads back to the last byte, whatever the nesting and the widths chosen for
\* numbers and sizes, or refuses because of the policy and for nothing else.
ReadsBack ==
  status = "returned" /\ Encodable(value) /\ pc = "idle" /\ result # "none" =>
    /\ (result = "true") <=> Admitted
    /\ result = "true" => out = Canon[value] /\ rest = <<>>

\* The reader never takes a byte for something else than the writer meant, but
\* for the Values of which writeValue leaves out a part.
InSync == lost => ~Encodable(value)
=============================================================================
