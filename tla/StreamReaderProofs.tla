------------------------- MODULE StreamReaderProofs -------------------------
(***************************************************************************)
(* Theorems about StreamReader, for every policy, every set of markers and *)
(* keys, and every stream.                                                 *)
(***************************************************************************)
EXTENDS StreamReader, SequenceTheorems, FiniteSetTheorems, TLAPS

-----------------------------------------------------------------------------
(* Every path to the stream goes through Read.                              *)

\* A step of the parser makes a read(), or takes nothing from the stream.
LEMMA ParseReads ==
  ASSUME Parse  PROVE Read \/ PolicyViolation \/ Loop \/ HomoTail
  <1>1. ASSUME NEW b \in Bytes,
               ReadStart(b) \/ ReadCount(b) \/ ReadTypeMark(b) \/ ReadMarker(b) \/ ReadEnd(b)
        PROVE  Read
    BY <1>1 DEF ReadStart, ReadCount, ReadTypeMark, ReadMarker, ReadEnd
  <1>2. ASSUME NEW n \in 0..MaxCount \cup {Uint8Code}, ReadCountBytes(n)  PROVE Read
    BY <1>2 DEF ReadCountBytes
  <1>3. ASSUME NEW k \in Keys, ReadKeyLen(k) \/ ReadKeyBytes(k)  PROVE Read
    BY <1>3 DEF ReadKeyLen, ReadKeyBytes
  <1>4. CASE ReadNumber \/ ReadText
    BY <1>4 DEF ReadNumber, ReadText
  <1> QED
    BY <1>1, <1>2, <1>3, <1>4 DEF Parse

-----------------------------------------------------------------------------
(* The invariant of the descent: the activations are well formed, each one *)
(* but the last is in the middle of an item, and so is the last one while  *)
(* an item is read.                                                        *)

Stack(fs) ==
  /\ \E S : fs \in Seq(S)
  /\ Len(fs) <= max_value_depth
  /\ \A i \in 1..Len(fs) : Activation(fs[i])
  /\ \A i \in 1..Len(fs) : i < Len(fs) => fs[i].left > 0

\* Another item may be stored in the last activation.
Open(fs) == fs # <<>> => fs[Len(fs)].left > 0

Registers ==
  /\ asked \in {"Object", "Width", "Recount", "HetroArray", "HomoArray", "Text"}
  /\ width \in Nat /\ marker \in Bytes /\ result \in {"none", "true", "false", "thrown"}

\* Where the code of extract_nextValue itself runs.
InDescent == {"loop", "end", "homoTail"}
InItem    == {"keyLen", "keyBytes", "keyMarker", "itemMarker"}

Placed ==
  /\ pc \in {"idle"} \cup InDescent \cup Reads
  /\ pc = "idle" => frames = <<>>
  /\ pc \in InDescent \cup InItem => frames # <<>>
  /\ pc \notin InDescent => Open(frames)
  /\ recursive_depth \in Nat
  /\ pc \notin {"idle", "homoTail"} => recursive_depth = Len(frames)
  /\ pc = "homoTail" => recursive_depth = Len(frames) - 1

IInv == Registers /\ Stack(frames) /\ Placed

LEMMA StackEmpty == Stack(<<>>) /\ Open(<<>>) /\ Len(<<>>) = 0
  <1>1. <<>> \in Seq({})
    OBVIOUS
  <1>2. Len(<<>>) = 0
    OBVIOUS
  <1> QED
    BY <1>1, <1>2, PolicyAssumption DEF Stack, Open

LEMMA StackLen ==
  ASSUME NEW fs, Stack(fs)
  PROVE  /\ Len(fs) \in Nat
         /\ fs # <<>> => Len(fs) \in 1..Len(fs) /\ Activation(fs[Len(fs)])
  <1>1. PICK S : fs \in Seq(S)
    BY DEF Stack
  <1>2. Len(fs) \in Nat /\ (fs # <<>> => Len(fs) > 0)
    BY <1>1
  <1> QED
    BY <1>2 DEF Stack

\* The last activation gives way to another, and the stack stays one.
LEMMA StackReplace ==
  ASSUME NEW fs, Stack(fs), fs # <<>>, NEW f, Activation(f)
  PROVE  /\ Stack([fs EXCEPT ![Len(fs)] = f])
         /\ Len([fs EXCEPT ![Len(fs)] = f]) = Len(fs)
         /\ [fs EXCEPT ![Len(fs)] = f] # <<>>
         /\ [fs EXCEPT ![Len(fs)] = f][Len(fs)] = f
  <1> DEFINE g == [fs EXCEPT ![Len(fs)] = f]
  <1>1. PICK S : fs \in Seq(S)
    BY DEF Stack
  <1>2. Len(fs) \in 1..Len(fs)
    BY StackLen
  <1>3. fs \in Seq(S \cup {f})
    BY <1>1, SeqMonotonic
  <1>4. /\ g \in Seq(S \cup {f}) /\ Len(g) = Len(fs)
        /\ \A j \in 1..Len(fs) : g[j] = IF j = Len(fs) THEN f ELSE fs[j]
    BY <1>2, <1>3, ExceptSeq
  <1> HIDE DEF g
  <1>5. g # <<>>
    BY <1>2, <1>4
  <1>6. g[Len(fs)] = f
    BY <1>2, <1>4
  <1>7. \A j \in 1..Len(g) : Activation(g[j]) /\ (j < Len(g) => g[j].left > 0)
    BY <1>4 DEF Stack
  <1>8. Stack(g)
    BY <1>4, <1>7 DEF Stack
  <1> QED
    BY <1>4, <1>5, <1>6, <1>8 DEF g

LEMMA FrontProperties ==
  ASSUME NEW S, NEW q \in Seq(S), Len(q) > 0
  PROVE  /\ SubSeq(q, 1, Len(q) - 1) \in Seq(S)
         /\ Len(SubSeq(q, 1, Len(q) - 1)) = Len(q) - 1
         /\ \A i \in 1..(Len(q) - 1) : SubSeq(q, 1, Len(q) - 1)[i] = q[i]
  <1> DEFINE n == Len(q) - 1
  <1>1. n \in Int /\ 1 \in Int /\ n >= 0 /\ \A i \in 1..n : q[i] \in S
    OBVIOUS
  <1> HIDE DEF n
  <1>2. SubSeq(q, 1, n) \in Seq(S)
    BY <1>1, SubSeqProperties
  <1>3. Len(SubSeq(q, 1, n)) = IF 1 <= n THEN n - 1 + 1 ELSE 0
    BY <1>1, SubSeqProperties
  <1>4. \A i \in 1..n - 1 + 1 : SubSeq(q, 1, n)[i] = q[1 + i - 1]
    BY <1>1, SubSeqProperties
  <1>5. Len(SubSeq(q, 1, n)) = n
    BY <1>1, <1>3
  <1>6. \A i \in 1..n : i \in 1..n - 1 + 1 /\ q[1 + i - 1] = q[i]
    BY <1>1
  <1>7. \A i \in 1..n : SubSeq(q, 1, n)[i] = q[i]
    BY <1>4, <1>6
  <1> QED
    BY <1>2, <1>5, <1>7 DEF n

\* extract_nextValue returns to its caller, which was in the middle of an item.
LEMMA StackPop ==
  ASSUME Stack(frames), frames # <<>>
  PROVE  Stack(Callers) /\ Len(Callers) = Len(frames) - 1 /\ Open(Callers)
  <1>1. PICK S : frames \in Seq(S)
    BY DEF Stack
  <1>2. Len(frames) \in Nat /\ Len(frames) > 0
    BY StackLen
  <1>3. \A i \in 1..(Len(frames) - 1) : frames[i] \in S
    BY <1>1, <1>2, ElementOfSeq
  <1>4. /\ Callers \in Seq(S) /\ Len(Callers) = Len(frames) - 1
        /\ \A i \in 1..(Len(frames) - 1) : Callers[i] = frames[i]
    BY <1>1, <1>2, FrontProperties DEF Callers
  <1>5. \A i \in 1..Len(Callers) : Activation(Callers[i]) /\ Callers[i].left > 0
    BY <1>2, <1>4 DEF Stack
  <1>6. Stack(Callers)
    <2>1. Len(Callers) <= max_value_depth
      BY <1>2, <1>4, PolicyAssumption DEF Stack
    <2>2. \E T : Callers \in Seq(T)
      BY <1>4
    <2> QED
      BY <1>5, <2>1, <2>2 DEF Stack
  <1>7. Callers # <<>> => Len(Callers) \in 1..Len(Callers)
    BY <1>6, StackLen
  <1> QED
    BY <1>4, <1>5, <1>6, <1>7 DEF Open

\* extract_nextValue is entered below max_value_depth.
LEMMA StackPush ==
  ASSUME Stack(frames), Open(frames), NEW f, Activation(f),
         Len(frames) + 1 <= max_value_depth
  PROVE  /\ Stack(Append(frames, f)) /\ Append(frames, f) # <<>>
         /\ Len(Append(frames, f)) = Len(frames) + 1
  <1> DEFINE g == Append(frames, f)
  <1>1. PICK S : frames \in Seq(S)
    BY DEF Stack
  <1>2. frames \in Seq(S \cup {f}) /\ Len(frames) \in Nat
    BY <1>1, SeqMonotonic, StackLen
  <1>3. /\ g \in Seq(S \cup {f}) /\ Len(g) = Len(frames) + 1
        /\ \A j \in 1..Len(g) : g[j] = IF j <= Len(frames) THEN frames[j] ELSE f
    BY <1>2
  <1> HIDE DEF g
  <1>4. \A j \in 1..Len(frames) : Activation(frames[j]) /\ frames[j].left > 0
    <2>1. frames # <<>> => frames[Len(frames)].left > 0
      BY DEF Open
    <2>2. ASSUME NEW j \in 1..Len(frames) PROVE frames # <<>>
      BY <1>1, <1>2
    <2> QED
      BY <1>2, <2>1, <2>2 DEF Stack
  <1>5. \A j \in 1..Len(g) : Activation(g[j]) /\ (j < Len(g) => g[j].left > 0)
    BY <1>2, <1>3, <1>4
  <1>6. Stack(g)
    BY <1>3, <1>5 DEF Stack
  <1>7. g # <<>>
    BY <1>2, <1>3
  <1> QED
    BY <1>3, <1>6, <1>7 DEF g

LEMMA ActivationStep ==
  ASSUME NEW f, Activation(f), NEW y, NEW l \in Nat, l <= f.count
  PROVE  Activation([f EXCEPT !.val = y, !.left = l])
  <1> DEFINE g == [f EXCEPT !.val = y, !.left = l]
  <1>1. /\ g \in [kind : {"Object", "HetroArray", "HomoArray"}, count : Nat, left : Nat,
                  mark : Bytes, key : Keys \cup {"none"}, val : {y}]
        /\ g.val = y /\ g.left = l /\ g.count = f.count
    BY DEF Activation
  <1> HIDE DEF g
  <1>2. Activation(g)
    BY <1>1 DEF Activation
  <1> QED
    BY <1>2 DEF g

\* An item goes into the last activation: one less is to come.
LEMMA StackStore ==
  ASSUME NEW fs, Stack(fs), fs # <<>>, Open(fs), NEW x
  PROVE  Stack(Store(fs, x)) /\ Len(Store(fs, x)) = Len(fs) /\ Store(fs, x) # <<>>
  <1> DEFINE f == fs[Len(fs)]
             y == IF f.kind = "Object" THEN WithItem(f.val, f.key, x) ELSE Pushed(f.val, x)
             g == [f EXCEPT !.val = y, !.left = f.left - 1]
  <1>1. Activation(f) /\ f.left > 0
    BY StackLen DEF Open
  <1>2. Store(fs, x) = [fs EXCEPT ![Len(fs)] = g]
    BY DEF Store
  <1> HIDE DEF f, y
  <1>3. Activation(g)
    <2> DEFINE l == f.left - 1
    <2>1. l \in Nat /\ l <= f.count
      BY <1>1 DEF Activation
    <2> HIDE DEF l
    <2>2. Activation([f EXCEPT !.val = y, !.left = l])
      BY <1>1, <2>1, ActivationStep
    <2> QED
      BY <2>2 DEF l
  <1> HIDE DEF g
  <1>4. /\ Stack([fs EXCEPT ![Len(fs)] = g]) /\ [fs EXCEPT ![Len(fs)] = g] # <<>>
        /\ Len([fs EXCEPT ![Len(fs)] = g]) = Len(fs)
    BY <1>3, StackReplace
  <1> QED
    BY <1>2, <1>4

-----------------------------------------------------------------------------
(* Between two items, or before the first: what a read() may rely on.      *)

Ready == Registers /\ Stack(frames) /\ Open(frames) /\ recursive_depth = Len(frames)

LEMMA ReadyWhen ==
  /\ IInv /\ pc \in Reads \ {"end"} => Ready
  /\ IInv /\ pc = "loop" /\ Top.left > 0 => Ready
  BY DEF IInv, Placed, Ready, InDescent, Reads, ByteReads, WidthReads, Top, Open

\* An exception ends the call.
LEMMA UnwindInv ==
  ASSUME Registers, recursive_depth' \in Nat, NEW r \in {"false", "thrown"}, Unwind(r)
  PROVE  IInv'
  <1>1. Registers'
    BY DEF Registers, Unwind
  <1>2. Stack(frames')
    BY StackEmpty DEF Unwind
  <1>3. Placed'
    BY StackEmpty DEF Unwind, Placed, InDescent, InItem, Reads, ByteReads, WidthReads
  <1> QED
    BY <1>1, <1>2, <1>3 DEF IInv

\* The next read() is prepared.
LEMMA StayInv ==
  ASSUME Ready, Registers', frames' = frames, recursive_depth' = recursive_depth,
         pc' \in Reads \ {"end"}, pc' \in InItem => frames # <<>>
  PROVE  IInv'
  <1>1. Stack(frames') /\ recursive_depth' \in Nat
    BY StackLen DEF Ready
  <1>2. Placed'
    BY <1>1 DEF Ready, Placed, InDescent, Reads, ByteReads, WidthReads
  <1> QED
    BY <1>1, <1>2 DEF IInv

LEMMA DeliverInv ==
  ASSUME Registers, NEW fs, Stack(fs), Open(fs), NEW x, Deliver(fs, x),
         recursive_depth' = Len(fs)
  PROVE  IInv'
  <1>1. recursive_depth' \in Nat
    BY StackLen
  <1>2. CASE Escape
    BY <1>1, <1>2, UnwindInv DEF Escape
  <1>3. CASE /\ fs # <<>> /\ frames' = Store(fs, x) /\ pc' = "loop"
             /\ UNCHANGED <<asked, width, marker, out, last_error, result>>
    <2>1. Registers'
      BY <1>3 DEF Registers
    <2>2. Stack(frames') /\ Len(frames') = Len(fs) /\ frames' # <<>>
      BY <1>3, StackStore
    <2>3. Placed'
      BY <1>1, <1>3, <2>2 DEF Placed, InDescent, InItem, Reads, ByteReads, WidthReads
    <2> QED
      BY <2>1, <2>2, <2>3 DEF IInv
  <1>4. CASE /\ fs = <<>> /\ frames' = <<>> /\ pc' = "idle" /\ result' = "true"
             /\ UNCHANGED <<asked, width, marker, last_error>>
    <2>1. Registers'
      BY <1>4 DEF Registers
    <2>2. Placed' /\ Stack(frames')
      BY <1>1, <1>4, StackEmpty DEF Placed, InDescent, InItem, Reads, ByteReads, WidthReads
    <2> QED
      BY <2>1, <2>2 DEF IInv
  <1> QED
    BY <1>2, <1>3, <1>4 DEF Deliver

\* The depth is checked before the activation is added.
LEMMA EnterInv ==
  ASSUME Ready, NEW kind \in {"Object", "HetroArray", "HomoArray"}, NEW n \in Nat,
         Enter(kind, n)
  PROVE  IInv'
  <1>1. Len(frames) \in Nat /\ recursive_depth = Len(frames) /\ recursive_depth' = Len(frames) + 1
    BY StackLen DEF Ready, Enter
  <1>2. CASE Fail("Maximum Parsing depth Exceeded!")
    <2>1. recursive_depth' \in Nat
      BY <1>1
    <2>2. Registers /\ Unwind("false")
      BY <1>2 DEF Fail, Ready
    <2> QED
      BY <2>1, <2>2, UnwindInv
  <1>3. CASE recursive_depth + 1 <= max_value_depth /\ ~Fail("Maximum Parsing depth Exceeded!")
    <2> DEFINE v == IF frames = <<>> THEN out ELSE Null
               f == [kind |-> kind, count |-> n, left |-> n, mark |-> marker,
                     key |-> "none", val |-> v]
    <2>1. /\ frames' = Append(frames, f) /\ pc' = "loop"
          /\ UNCHANGED <<asked, width, marker, out, last_error, result>>
      BY <1>3 DEF Enter
    <2>2. Activation(f)
      BY DEF Activation, Ready, Registers
    <2> HIDE DEF f
    <2>3. Stack(frames') /\ frames' # <<>> /\ Len(frames') = Len(frames) + 1
      BY <1>1, <1>3, <2>1, <2>2, StackPush DEF Ready
    <2>4. Registers'
      BY <2>1 DEF Registers, Ready
    <2>5. Placed'
      BY <1>1, <2>1, <2>3 DEF Placed, InDescent, InItem, Reads, ByteReads, WidthReads
    <2> QED
      BY <2>3, <2>4, <2>5 DEF IInv
  <1> QED
    BY <1>2, <1>3 DEF Enter

LEMMA FailInv ==
  ASSUME Ready, Still, NEW msg, Fail(msg) PROVE IInv'
  <1>1. Registers /\ recursive_depth' \in Nat /\ Unwind("false")
    BY StackLen DEF Fail, Still, Ready
  <1> QED
    BY <1>1, UnwindInv

LEMMA DeliverHere ==
  ASSUME Ready, Still, NEW x, Deliver(frames, x) PROVE IInv'
  <1>1. Registers /\ Stack(frames) /\ Open(frames) /\ recursive_depth' = Len(frames)
    BY DEF Ready, Still
  <1> QED
    BY <1>1, DeliverInv

LEMMA CountInv ==
  ASSUME Ready, NEW who \in {"Width", "Recount", "Object", "HetroArray", "HomoArray", "Text"},
         AskCount(who)
  PROVE  IInv'
  <1>1. Registers' /\ pc' = "count" /\ frames' = frames /\ recursive_depth' = recursive_depth
    BY DEF Ready, Registers, AskCount
  <1> QED
    BY <1>1, StayInv DEF Reads, ByteReads, WidthReads, InItem

LEMMA ReadNextInv ==
  ASSUME Ready, NEW l \in WidthReads, l = "keyBytes" => frames # <<>>, NEW w \in Nat,
         ReadNext(l, w)
  PROVE  IInv'
  <1>1. Registers' /\ pc' = l /\ frames' = frames /\ recursive_depth' = recursive_depth
    BY DEF Ready, Registers, ReadNext
  <1> QED
    BY <1>1, StayInv DEF Reads, ByteReads, WidthReads, InItem

\* The count goes to the one who asked.
LEMMA CountedInv ==
  ASSUME Ready, NEW n \in Nat, Counted(n) PROVE IInv'
  <1>1. CASE asked \in {"Object", "Recount"} /\ Enter("Object", n)
    BY <1>1, EnterInv
  <1>2. CASE asked = "Width" /\ AskCount("Recount")
    BY <1>2, CountInv
  <1>3. CASE asked = "HetroArray" /\ Enter("HetroArray", n)
    BY <1>3, EnterInv
  <1>4. CASE asked = "HomoArray" /\ Enter("HomoArray", n)
    BY <1>4, EnterInv
  <1>5. CASE asked = "Text" /\ ReadNext("text", n)
    BY <1>5, ReadNextInv DEF WidthReads
  <1> QED
    BY <1>1, <1>2, <1>3, <1>4, <1>5 DEF Counted

LEMMA NotCountedInv ==
  ASSUME Ready, NEW b, NotCounted(b) PROVE IInv'
  <1>1. CASE AskCount("Width")
    BY <1>1, CountInv
  <1>2. CASE Still /\ DeliverEmpty
    BY <1>2, DeliverHere DEF DeliverEmpty
  <1>3. CASE Enter("Object", 0)
    BY <1>3, EnterInv
  <1>4. ASSUME NEW msg, Still, Fail(msg) PROVE IInv'
    BY <1>4, FailInv
  <1> QED
    BY <1>1, <1>2, <1>3, <1>4 DEF NotCounted

LEMMA ScalarWidth == \A m : ScalarOf(m)[2] \in Nat
  <1> SUFFICES ASSUME NEW m PROVE ScalarOf(m)[2] \in Nat
    OBVIOUS
  <1>1. CASE m \notin DOMAIN Scalars
    BY <1>1 DEF ScalarOf
  <1>2. CASE m \in DOMAIN Scalars
    <2>1. m \in {"t", "f", "c", "I", "i", "j", "k", "l", "J", "K", "L", "d", "D"}
      BY <1>2 DEF Scalars
    <2>2. ScalarOf(m) = Scalars[m]
      BY <1>2 DEF ScalarOf
    <2>3. Scalars[m][2] \in Nat
      BY <2>1 DEF Scalars
    <2> QED
      BY <2>2, <2>3
  <1> QED
    BY <1>1, <1>2

\* An item begins, or is delivered if it has no bytes.
LEMMA ItemInv ==
  ASSUME Ready, NEW m \in Bytes, Item(m) PROVE IInv'
  <1> DEFINE w == ScalarOf(m)[2]
  <1>0. w \in Nat
    BY ScalarWidth
  <1> HIDE DEF w
  <1>1. CASE /\ m \in {"{", "[", "s", "b"}
             /\ marker' = m /\ pc' = "count"
             /\ asked' \in {"Object", "HetroArray", "Text"}
             /\ UNCHANGED <<width, frames, out, recursive_depth, last_error, result>>
    <2>1. Registers'
      BY <1>1 DEF Ready, Registers
    <2> QED
      BY <1>1, <2>1, StayInv DEF Reads, ByteReads, WidthReads, InItem
  <1>2. CASE /\ marker' = m /\ pc' = "typeMark"
             /\ UNCHANGED <<asked, width, frames, out, recursive_depth, last_error, result>>
    <2>1. Registers'
      BY <1>2 DEF Ready, Registers
    <2> QED
      BY <1>2, <2>1, StayInv DEF Reads, ByteReads, WidthReads, InItem
  <1>3. CASE /\ w > 0
             /\ marker' = m /\ pc' = "number" /\ width' = w
             /\ UNCHANGED <<asked, frames, out, recursive_depth, last_error, result>>
    <2>1. Registers'
      BY <1>0, <1>3 DEF Ready, Registers
    <2> QED
      BY <1>3, <2>1, StayInv DEF Reads, ByteReads, WidthReads, InItem
  <1>4. CASE Still /\ Deliver(frames, Leaf(ScalarOf(m)[1]))
    BY <1>4, DeliverHere
  <1> QED
    BY <1>1, <1>2, <1>3, <1>4 DEF Item, w

-----------------------------------------------------------------------------
(* The steps.                                                              *)

LEMMA CodeTypes ==
  /\ {Uint8Code} \cup 0..MaxCount \subseteq Nat
  /\ \A k \in Keys : KeySize[k] \in Nat
  <1>1. Uint8Code \in Nat /\ MaxCount \in Nat
    BY CodeAssumption
  <1>2. \A k \in Keys : KeySize[k] \in 0..255
    BY KeyAssumption
  <1> QED
    BY <1>1, <1>2

LEMMA InitInv == Init => IInv
  <1> SUFFICES ASSUME Init PROVE IInv
    OBVIOUS
  <1>1. Registers
    BY MarkerAssumption DEF Init, Registers
  <1>2. Placed /\ Stack(frames)
    BY StackEmpty DEF Init, Placed, InDescent, InItem, Reads, ByteReads, WidthReads
  <1> QED
    BY <1>1, <1>2 DEF IInv

\* One step for each read() and for each turn of the loop.
LEMMA NextInv == IInv /\ [Next]_vars => IInv'
  <1> SUFFICES ASSUME IInv, [Next]_vars PROVE IInv'
    OBVIOUS
  <1>a. pc \in Reads \ {"end"} => Ready
    BY ReadyWhen
  <1>b. "start" \in Reads /\ "count" \in Reads /\ "countBytes" \in Reads /\ "keyLen" \in Reads
        /\ "keyBytes" \in Reads /\ "keyMarker" \in Reads /\ "itemMarker" \in Reads
        /\ "number" \in Reads /\ "text" \in Reads /\ "typeMark" \in Reads
    BY DEF Reads, ByteReads, WidthReads
  <1>c. pc \in InDescent \cup InItem => frames # <<>>
    BY DEF IInv, Placed
  <1>1. CASE UNCHANGED vars
    BY <1>1 DEF vars, IInv, Registers, Placed, Open, Stack, InDescent, InItem, Reads,
       ByteReads, WidthReads
  <1>2. ASSUME NEW v \in Roots, GetNextValue(v) PROVE IInv'
    <2>1. Registers' /\ frames' = frames /\ frames = <<>>
      BY <1>2 DEF GetNextValue, IInv, Registers, Placed
    <2>2. Placed' /\ Stack(frames')
      BY <1>2, <2>1, StackEmpty
         DEF GetNextValue, Placed, InDescent, InItem, Reads, ByteReads, WidthReads
    <2> QED
      BY <2>1, <2>2 DEF IInv
  <1>3. ASSUME NEW b \in Bytes, ReadStart(b)  PROVE IInv'
    <2>1. Ready
      BY <1>3, <1>a, <1>b DEF ReadStart
    <2>2. AskCount("Object") \/ (Still /\ Fail("Stream does not contain a valid Object"))
      BY <1>3 DEF ReadStart
    <2> QED
      BY <2>1, <2>2, CountInv, FailInv
  <1>4. CASE PolicyViolation
    <2>1. Registers /\ Unwind("false") /\ recursive_depth' = recursive_depth
      BY <1>4 DEF PolicyViolation, Fail, Still, IInv
    <2>2. recursive_depth \in Nat
      BY DEF IInv, Placed
    <2> QED
      BY <2>1, <2>2, UnwindInv
  <1>5. ASSUME NEW b \in Bytes, ReadCount(b)  PROVE IInv'
    <2>1. Ready
      BY <1>5, <1>a, <1>b DEF ReadCount
    <2>2. \/ b \in DOMAIN CountWidth /\ ReadNext("countBytes", CountWidth[b])
          \/ b \notin DOMAIN CountWidth /\ NotCounted(b)
      BY <1>5 DEF ReadCount
    <2>3. b \in DOMAIN CountWidth => CountWidth[b] \in Nat
      BY DEF CountWidth
    <2> QED
      BY <2>1, <2>2, <2>3, ReadNextInv, NotCountedInv DEF WidthReads
  <1>6. ASSUME NEW n \in 0..MaxCount \cup {Uint8Code}, ReadCountBytes(n)  PROVE IInv'
    <2>1. Ready
      BY <1>6, <1>a, <1>b DEF ReadCountBytes
    <2>2. Counted(n)
      BY <1>6 DEF ReadCountBytes
    <2>3. n \in Nat
      BY CodeTypes
    <2> QED
      BY <2>1, <2>2, <2>3, CountedInv
  <1>7. CASE Loop
    <2>1. frames # <<>> /\ Registers /\ Stack(frames)
      BY <1>7, <1>c DEF Loop, InDescent, IInv
    <2>2. Activation(Top)
      BY <2>1, StackLen DEF Top
    <2>3. CASE Top.left = 0 /\ Goto("end")
      <3>1. Registers' /\ frames' = frames
        BY <2>1, <2>3 DEF Goto, Registers
      <3>2. Placed'
        BY <1>7, <2>1, <2>3, <3>1
           DEF Loop, Goto, IInv, Placed, InDescent, InItem, Reads, ByteReads, WidthReads
      <3> QED
        BY <2>1, <3>1, <3>2 DEF IInv
    <2>4. CASE Top.left > 0 /\ (Goto("keyLen") \/ Goto("itemMarker"))
      <3>1. Ready
        BY <1>7, <2>4, ReadyWhen DEF Loop
      <3>2. Registers' /\ frames' = frames /\ recursive_depth' = recursive_depth
            /\ pc' \in {"keyLen", "itemMarker"}
        BY <2>1, <2>4 DEF Goto, Registers
      <3> QED
        BY <2>1, <3>1, <3>2, StayInv DEF Reads, ByteReads, WidthReads
    <2>5. CASE Top.left > 0 /\ Item(Top.mark)
      <3>1. Ready
        BY <1>7, <2>5, ReadyWhen DEF Loop
      <3>2. Top.mark \in Bytes
        BY <2>2 DEF Activation
      <3> QED
        BY <2>5, <3>1, <3>2, ItemInv
    <2> QED
      BY <1>7, <2>3, <2>4, <2>5 DEF Loop
  <1>8. ASSUME NEW k \in Keys, ReadKeyLen(k)  PROVE IInv'
    <2>1. Ready /\ frames # <<>>
      BY <1>8, <1>a, <1>b, <1>c DEF ReadKeyLen, InItem
    <2>2. ReadNext("keyBytes", KeySize[k])
      BY <1>8 DEF ReadKeyLen
    <2>3. KeySize[k] \in Nat
      BY CodeTypes
    <2> QED
      BY <2>1, <2>2, <2>3, ReadNextInv DEF WidthReads
  <1>9. ASSUME NEW k \in Keys, ReadKeyBytes(k)  PROVE IInv'
    <2>1. Ready /\ frames # <<>>
      BY <1>9, <1>a, <1>b, <1>c DEF ReadKeyBytes, InItem
    <2>2. frames' = [frames EXCEPT ![Len(frames)] = [Top EXCEPT !.key = k]]
      BY <1>9 DEF ReadKeyBytes
    <2> DEFINE g == [Top EXCEPT !.key = k]
    <2>3. Activation(Top) /\ Top.left > 0
      BY <2>1, StackLen DEF Ready, Top, Open
    <2>4. /\ g \in [kind : {"Object", "HetroArray", "HomoArray"}, count : Nat, left : Nat,
                    mark : Bytes, key : Keys \cup {"none"}, val : {Top.val}]
          /\ g.val = Top.val /\ g.left = Top.left /\ g.count = Top.count
      BY <2>3 DEF Activation
    <2> HIDE DEF g
    <2>5. Activation(g) /\ g.left > 0
      BY <2>3, <2>4 DEF Activation
    <2>6. frames' = [frames EXCEPT ![Len(frames)] = g]
      BY <2>2 DEF g
    <2>7. Stack(frames') /\ Len(frames') = Len(frames) /\ frames' # <<>>
          /\ frames'[Len(frames)] = g
      BY <2>1, <2>5, <2>6, StackReplace DEF Ready
    <2>8. pc' = "keyMarker" /\ recursive_depth' = recursive_depth /\ Registers'
      BY <1>9, <2>1 DEF ReadKeyBytes, Ready, Registers
    <2>9. recursive_depth \in Nat /\ recursive_depth = Len(frames)
      BY <2>1, StackLen DEF Ready
    <2>10. Placed'
      BY <2>5, <2>7, <2>8, <2>9
         DEF Placed, Open, InDescent, InItem, Reads, ByteReads, WidthReads
    <2> QED
      BY <2>7, <2>8, <2>10 DEF IInv
  <1>10. ASSUME NEW b \in Bytes, ReadMarker(b)  PROVE IInv'
    <2>1. Ready
      BY <1>10, <1>a, <1>b DEF ReadMarker
    <2>2. Item(b)
      BY <1>10 DEF ReadMarker
    <2> QED
      BY <2>1, <2>2, ItemInv
  <1>11. CASE ReadNumber
    <2>1. Ready
      BY <1>11, <1>a, <1>b DEF ReadNumber
    <2> QED
      BY <1>11, <2>1, DeliverHere DEF ReadNumber
  <1>12. CASE ReadText
    <2>1. Ready
      BY <1>12, <1>a, <1>b DEF ReadText
    <2> QED
      BY <1>12, <2>1, DeliverHere DEF ReadText
  <1>13. ASSUME NEW b \in Bytes, ReadTypeMark(b)  PROVE IInv'
    <2>1. Ready
      BY <1>13, <1>a, <1>b DEF ReadTypeMark
    <2>2. Registers' /\ frames' = frames /\ recursive_depth' = recursive_depth /\ pc' = "count"
      BY <1>13, <2>1 DEF ReadTypeMark, Ready, Registers
    <2> QED
      BY <2>1, <2>2, StayInv DEF Reads, ByteReads, WidthReads, InItem
  <1>14. ASSUME NEW b \in Bytes, ReadEnd(b)  PROVE IInv'
    <2>1. frames # <<>> /\ Registers /\ Stack(frames)
      BY <1>14, <1>c DEF ReadEnd, InDescent, IInv
    <2>2. Len(frames) \in Nat /\ Len(frames) > 0 /\ recursive_depth = Len(frames)
      <3>1. pc = "end"
        BY <1>14 DEF ReadEnd
      <3>2. recursive_depth = Len(frames)
        BY <3>1 DEF IInv, Placed
      <3> QED
        BY <2>1, <3>2, StackLen
    <2>3. CASE Still /\ Fail("Object is incomplete otherwise corrupt")
      <3>1. recursive_depth' \in Nat
        BY <2>2, <2>3 DEF Still
      <3>2. Unwind("false")
        BY <2>3 DEF Fail
      <3> QED
        BY <2>1, <3>1, <3>2, UnwindInv
    <2>4. CASE recursive_depth' = recursive_depth - 1 /\ Deliver(Callers, Top.val)
      <3>1. Stack(Callers) /\ Open(Callers) /\ recursive_depth' = Len(Callers)
        BY <2>1, <2>2, <2>4, StackPop
      <3> QED
        BY <2>1, <2>4, <3>1, DeliverInv
    <2>5. CASE /\ recursive_depth' = recursive_depth - 1 /\ pc' = "homoTail"
               /\ UNCHANGED <<asked, width, marker, frames, out, last_error, result>>
      <3>1. Registers' /\ frames' = frames
        BY <2>1, <2>5 DEF Registers
      <3>2. Placed'
        BY <2>1, <2>2, <2>5 DEF Placed, InDescent, InItem, Reads, ByteReads, WidthReads
      <3> QED
        BY <2>1, <3>1, <3>2 DEF IInv
    <2> QED
      BY <1>14, <2>3, <2>4, <2>5 DEF ReadEnd
  <1>15. CASE HomoTail
    <2>1. frames # <<>> /\ Registers /\ Stack(frames)
      BY <1>15, <1>c DEF HomoTail, InDescent, IInv
    <2>2. recursive_depth' \in Nat /\ recursive_depth' = Len(frames) - 1
      BY <1>15, <2>1, StackLen DEF HomoTail, Still, IInv, Placed
    <2>3. CASE Deliver(Callers, Top.val)
      <3>1. Stack(Callers) /\ Open(Callers) /\ recursive_depth' = Len(Callers)
        BY <2>1, <2>2, StackPop
      <3> QED
        BY <2>1, <2>3, <3>1, DeliverInv
    <2>4. CASE Fail("empty HomoArray is ill-formed")
      <3>1. Unwind("false")
        BY <2>4 DEF Fail
      <3> QED
        BY <2>1, <2>2, <3>1, UnwindInv
    <2> QED
      BY <1>15, <2>3, <2>4 DEF HomoTail
  <1> QED
    BY <1>1, <1>2, <1>3, <1>4, <1>5, <1>6, <1>7, <1>8, <1>9, <1>10, <1>11, <1>12,
       <1>13, <1>14, <1>15 DEF Next, Parse

\* max_value_depth bounds the activations on the stack, for every stream.
THEOREM DepthNeverExceeds == Spec => []DepthBounded
  <1>1. IInv => DepthBounded
    <2> SUFFICES ASSUME IInv PROVE DepthBounded
      OBVIOUS
    <2>1. Len(frames) \in Nat /\ Len(frames) <= max_value_depth
      BY StackLen DEF IInv, Stack
    <2> QED
      BY <2>1 DEF IInv, Placed, DepthBounded
  <1> QED
    BY <1>1, InitInv, NextInv, PTL DEF Spec

\* Every read() leaves a natural number of bytes and a Boolean.
LEMMA NextBytes ==
  ASSUME IInv, bytes_so_far \in Nat, short \in BOOLEAN, [Next]_vars
  PROVE  bytes_so_far' \in Nat /\ short' \in BOOLEAN
  <1>1. ASSUME Read PROVE bytes_so_far' \in Nat /\ short' \in BOOLEAN
    <2>1. ReadSize \in Nat
      BY DEF ReadSize, IInv, Registers
    <2>2. bytes_so_far' \in Nat
      BY <1>1, <2>1 DEF Read
    <2>3. short' \in {short, TRUE}
      BY <1>1 DEF Read
    <2> QED
      BY <2>2, <2>3
  <1>2. CASE UNCHANGED vars
    BY <1>2 DEF vars
  <1>3. ASSUME NEW v \in Roots, GetNextValue(v) PROVE bytes_so_far' \in Nat /\ short' \in BOOLEAN
    BY <1>3 DEF GetNextValue
  <1>4. CASE PolicyViolation \/ Loop \/ HomoTail
    BY <1>4 DEF PolicyViolation, Loop, HomoTail
  <1> QED
    BY <1>1, <1>2, <1>3, <1>4, ParseReads DEF Next

\* Type correctness: no activation stores more items than it was announced.
THEOREM ReaderTypeCorrect == Spec => []TypeOK
  <1> DEFINE Inv == IInv /\ bytes_so_far \in Nat /\ short \in BOOLEAN
  <1>1. Init => Inv
    <2>1. Init => bytes_so_far = 0
      BY DEF Init
    <2>2. Init => short = FALSE
      BY DEF Init
    <2>3. Init => bytes_so_far \in Nat
      BY <2>1
    <2>4. Init => short \in BOOLEAN
      BY <2>2
    <2> QED
      BY <2>3, <2>4, InitInv
  <1>2. Inv /\ [Next]_vars => Inv'
    BY NextInv, NextBytes
  <1>3. Inv => TypeOK
    <2> SUFFICES ASSUME Inv PROVE TypeOK
      OBVIOUS
    <2>1. pc \in {"idle", "loop", "homoTail"} \cup Reads
      BY DEF IInv, Placed, InDescent, Reads, ByteReads, WidthReads
    <2> QED
      BY <2>1 DEF IInv, Registers, Placed, Stack, TypeOK
  <1> QED
    BY <1>1, <1>2, <1>3, PTL DEF Spec

-----------------------------------------------------------------------------
(* What the activations have filled.  Only the first one fills a Value the *)
(* caller chose; the others start from Null, so an object finds a Value    *)
(* that takes keys and an array one that has no elements yet.              *)

Filled(f) ==
  LET done == f.count - f.left IN
  /\ f.kind # "Object" =>
       (\E S : f.val.items \in Seq(S)) /\ Len(f.val.items) = done
  /\ f.kind = "Object" =>
       /\ f.val.kind \in {"Null", "Map"}
       /\ IsFiniteSet(DOMAIN f.val.items) /\ Cardinality(DOMAIN f.val.items) <= done
       /\ done > 0 => f.val.items # <<>>

\* The first activation is that of an object.
Contents(fs) ==
  /\ fs # <<>> => fs[1].kind = "Object"
  /\ \A i \in 2..Len(fs) : Filled(fs[i])

\* Before it is entered, only its count has been asked for.
AtRoot ==
  frames = <<>> =>
    \/ pc \in {"idle", "start"}
    \/ pc \in {"count", "countBytes"} /\ asked \in {"Object", "Width", "Recount"}

FillInv == Contents(frames) /\ AtRoot /\ ThrowsOnlyForRoot

LEMMA NullItems ==
  Null.kind = "Null" /\ Null.items = <<>> /\ Len(<<>>) = 0 /\ DOMAIN <<>> = {} /\ <<>> \in Seq({})
  BY DEF Null, Leaf

\* vref[key] adds a key or replaces a member.
LEMMA WithItemAdds ==
  ASSUME NEW v, NEW k, NEW x, IsFiniteSet(DOMAIN v.items)
  PROVE  /\ WithItem(v, k, x).kind = "Map" /\ WithItem(v, k, x).items # <<>>
         /\ IsFiniteSet(DOMAIN WithItem(v, k, x).items)
         /\ Cardinality(DOMAIN WithItem(v, k, x).items) <= Cardinality(DOMAIN v.items) + 1
  <1> DEFINE D == DOMAIN v.items
             g == WithItem(v, k, x).items
  <1>1. g = [j \in D \cup {k} |-> IF j = k THEN x ELSE v.items[j]]
    BY DEF WithItem
  <1>2. DOMAIN g = D \cup {k} /\ WithItem(v, k, x).kind = "Map"
    BY <1>1 DEF WithItem
  <1>3. IsFiniteSet(D) /\ Cardinality(D) \in Nat
    BY FS_CardinalityType
  <1> HIDE DEF g
  <1>4. g # <<>>
    BY <1>2, NullItems
  <1>5. IsFiniteSet(D \cup {k}) /\ Cardinality(D \cup {k}) <= Cardinality(D) + 1
    BY <1>3, FS_AddElement
  <1> QED
    BY <1>2, <1>4, <1>5 DEF g

\* An item goes into an activation that is not the caller's.
LEMMA FilledStep ==
  ASSUME NEW f, Activation(f), Filled(f), f.left > 0, NEW x
  PROVE  Filled([f EXCEPT !.val  = IF f.kind = "Object" THEN WithItem(f.val, f.key, x)
                                   ELSE Pushed(f.val, x),
                          !.left = f.left - 1])
  <1> DEFINE y == IF f.kind = "Object" THEN WithItem(f.val, f.key, x) ELSE Pushed(f.val, x)
             g == [f EXCEPT !.val = y, !.left = f.left - 1]
  <1>1. f.count \in Nat /\ f.left \in Nat /\ f.left <= f.count
    BY DEF Activation
  <1>2. g.val = y /\ g.left = f.left - 1 /\ g.count = f.count /\ g.kind = f.kind
    BY DEF Activation
  <1> HIDE DEF g
  <1>3. CASE f.kind = "Object"
    <2>1. y = WithItem(f.val, f.key, x)
      BY <1>3
    <2> HIDE DEF y
    <2>2. IsFiniteSet(DOMAIN f.val.items) /\ Cardinality(DOMAIN f.val.items) <= f.count - f.left
      BY <1>3 DEF Filled
    <2>3. Cardinality(DOMAIN f.val.items) \in Nat
      BY <2>2, FS_CardinalityType
    <2>4. /\ y.kind = "Map" /\ y.items # <<>> /\ IsFiniteSet(DOMAIN y.items)
          /\ Cardinality(DOMAIN y.items) <= Cardinality(DOMAIN f.val.items) + 1
      BY <2>1, <2>2, WithItemAdds
    <2>5. Cardinality(DOMAIN y.items) \in Nat
      BY <2>4, FS_CardinalityType
    <2>6. Cardinality(DOMAIN y.items) <= f.count - (f.left - 1)
      BY <1>1, <2>2, <2>3, <2>4, <2>5
    <2>7. Filled(g)
      BY <1>2, <1>3, <2>4, <2>6 DEF Filled
    <2> QED
      BY <2>7 DEF g, y
  <1>4. CASE f.kind # "Object"
    <2>1. y.items = Append(f.val.items, x)
      BY <1>4 DEF Pushed
    <2> HIDE DEF y
    <2>2. PICK S : f.val.items \in Seq(S)
      BY <1>4 DEF Filled
    <2>3. f.val.items \in Seq(S \cup {x})
      BY <2>2, SeqMonotonic
    <2>4. y.items \in Seq(S \cup {x}) /\ Len(y.items) = Len(f.val.items) + 1
      <3> DEFINE T == S \cup {x}
                 s == f.val.items
      <3>1. x \in T /\ s \in Seq(T)
        BY <2>3
      <3> HIDE DEF T, s
      <3>2. Append(s, x) \in Seq(T) /\ Len(Append(s, x)) = Len(s) + 1
        BY <3>1, AppendProperties
      <3> QED
        BY <2>1, <3>2 DEF s, T
    <2>5. Len(y.items) = f.count - (f.left - 1)
      <3>1. Len(f.val.items) = f.count - f.left
        BY <1>4 DEF Filled
      <3> DEFINE n == Len(f.val.items)
                 m == Len(y.items)
      <3>2. n = f.count - f.left /\ m = n + 1
        BY <2>4, <3>1
      <3> HIDE DEF n, m
      <3>3. m = f.count - (f.left - 1)
        BY <1>1, <3>2
      <3> QED
        BY <3>3 DEF m
    <2>6. Filled(g)
      BY <1>2, <1>4, <2>4, <2>5 DEF Filled
    <2> QED
      BY <2>6 DEF g, y
  <1> QED
    BY <1>3, <1>4

LEMMA ContentsStore ==
  ASSUME NEW fs, Stack(fs), fs # <<>>, Open(fs), Contents(fs), NEW x
  PROVE  Contents(Store(fs, x))
  <1> DEFINE f == fs[Len(fs)]
             y == IF f.kind = "Object" THEN WithItem(f.val, f.key, x) ELSE Pushed(f.val, x)
             g == [f EXCEPT !.val = y, !.left = f.left - 1]
             hs == [fs EXCEPT ![Len(fs)] = g]
  <1>1. Activation(f) /\ f.left > 0 /\ Len(fs) \in Nat /\ Len(fs) >= 1
    BY StackLen DEF Open
  <1>2. Store(fs, x) = hs
    BY DEF Store
  <1>3. g.kind = f.kind
    BY <1>1 DEF Activation
  <1>4. Filled(f) => Filled(g)
    BY <1>1, FilledStep
  <1>5. PICK S : fs \in Seq(S)
    BY DEF Stack
  <1>6. fs \in Seq(S \cup {g}) /\ g \in S \cup {g} /\ Len(fs) \in 1..Len(fs)
    BY <1>1, <1>5, SeqMonotonic
  <1> HIDE DEF f, g
  <1>7. /\ Len(hs) = Len(fs)
        /\ \A j \in 1..Len(fs) : hs[j] = IF j = Len(fs) THEN g ELSE fs[j]
    BY <1>6, ExceptSeq
  <1> HIDE DEF hs
  <1>8. hs[1].kind = "Object"
    BY <1>1, <1>3, <1>7 DEF Contents, f
  <1>9. ASSUME NEW i \in 2..Len(hs) PROVE Filled(hs[i])
    <2>1. i \in 1..Len(fs) /\ i \in 2..Len(fs)
      BY <1>1, <1>7
    <2>2. Filled(fs[i])
      BY <2>1 DEF Contents
    <2>3. CASE i = Len(fs)
      BY <1>4, <1>7, <2>1, <2>2, <2>3 DEF f
    <2>4. CASE i # Len(fs)
      BY <1>7, <2>1, <2>2, <2>4
    <2> QED
      BY <2>3, <2>4
  <1> QED
    BY <1>2, <1>8, <1>9 DEF Contents

LEMMA ContentsEmpty == Contents(<<>>)
  BY StackEmpty DEF Contents

LEMMA ContentsPop ==
  ASSUME Stack(frames), frames # <<>>, Contents(frames)
  PROVE  Contents(Callers) /\ (Callers # <<>> => Callers[1] = frames[1])
  <1>1. PICK S : frames \in Seq(S)
    BY DEF Stack
  <1>2. Len(frames) \in Nat /\ Len(frames) > 0
    BY StackLen
  <1>3. /\ Callers \in Seq(S) /\ Len(Callers) = Len(frames) - 1
        /\ \A i \in 1..(Len(frames) - 1) : Callers[i] = frames[i]
    BY <1>1, <1>2, FrontProperties DEF Callers
  <1>4. Callers # <<>> => Len(Callers) >= 1
    BY <1>3
  <1>5. Callers # <<>> => Callers[1] = frames[1]
    BY <1>2, <1>3, <1>4
  <1>6. ASSUME NEW i \in 2..Len(Callers) PROVE Filled(Callers[i])
    <2>1. i \in 1..(Len(frames) - 1) /\ i \in 2..Len(frames)
      BY <1>2, <1>3
    <2> QED
      BY <1>3, <2>1 DEF Contents
  <1> QED
    BY <1>5, <1>6 DEF Contents

\* A new activation has stored nothing.
LEMMA ContentsPush ==
  ASSUME Stack(frames), Contents(frames), NEW f,
         frames = <<>> => f.kind = "Object",
         frames # <<>> => f.val = Null /\ f.count = f.left /\ f.count \in Nat
  PROVE  Contents(Append(frames, f))
  <1> DEFINE g == Append(frames, f)
  <1>1. PICK S : frames \in Seq(S)
    BY DEF Stack
  <1>2. frames \in Seq(S \cup {f}) /\ Len(frames) \in Nat /\ (frames = <<>> <=> Len(frames) = 0)
    BY <1>1, SeqMonotonic, StackLen
  <1>3. /\ Len(g) = Len(frames) + 1
        /\ \A j \in 1..Len(g) : g[j] = IF j <= Len(frames) THEN frames[j] ELSE f
    BY <1>2
  <1> HIDE DEF g
  <1>4. frames # <<>> => Filled(f)
    <2> SUFFICES ASSUME frames # <<>> PROVE Filled(f)
      OBVIOUS
    <2>1. f.val.kind = "Null" /\ f.val.items = <<>>
      BY NullItems
    <2>2. f.count - f.left = 0
      OBVIOUS
    <2>3. IsFiniteSet(DOMAIN f.val.items) /\ Cardinality(DOMAIN f.val.items) = 0
      BY <2>1, NullItems, FS_EmptySet
    <2>4. (\E T : f.val.items \in Seq(T)) /\ Len(f.val.items) = 0
      BY <2>1, NullItems
    <2> QED
      BY <2>1, <2>2, <2>3, <2>4 DEF Filled
  <1>5. g[1].kind = "Object"
    BY <1>2, <1>3 DEF Contents
  <1>6. ASSUME NEW i \in 2..Len(g) PROVE Filled(g[i])
    <2>1. i \in 1..Len(g)
      BY <1>2, <1>3
    <2>2. CASE i <= Len(frames)
      <3>1. i \in 2..Len(frames) /\ g[i] = frames[i]
        BY <1>2, <1>3, <2>1, <2>2
      <3> QED
        BY <3>1 DEF Contents
    <2>3. CASE ~(i <= Len(frames))
      BY <1>2, <1>3, <1>4, <2>1, <2>3
    <2> QED
      BY <2>2, <2>3
  <1> QED
    BY <1>5, <1>6 DEF Contents, g

LEMMA UnwindFill ==
  ASSUME Unwind("false") PROVE FillInv'
  <1>1. pc' = "idle" /\ frames' = <<>> /\ result' = "false"
    BY DEF Unwind
  <1>2. Contents(frames')
    BY <1>1, ContentsEmpty
  <1> QED
    BY <1>1, <1>2 DEF FillInv, AtRoot, ThrowsOnlyForRoot

\* The activations stay; if there are none, only the count may be asked for.
LEMMA KeepFill ==
  ASSUME FillInv, frames' = frames, out' = out, result' = result,
         frames = <<>> => pc' \in {"count", "countBytes"} /\ asked' \in {"Object", "Width", "Recount"}
  PROVE  FillInv'
  <1>1. Contents(frames')
    BY DEF FillInv
  <1> QED
    BY <1>1 DEF FillInv, AtRoot, ThrowsOnlyForRoot

\* An exception of vref[key] meets the caller's Value: all others take keys.
LEMMA DeliverFill ==
  ASSUME FillInv, NEW fs, Stack(fs), Open(fs), Contents(fs),
         fs # <<>> => frames # <<>> /\ fs[1] = frames[1], NEW x, Deliver(fs, x)
  PROVE  FillInv'
  <1>1. CASE /\ fs # <<>>
             /\ frames' = Store(fs, x) /\ pc' = "loop"
             /\ UNCHANGED <<asked, width, marker, out, last_error, result>>
    <2>1. Contents(frames')
      BY <1>1, ContentsStore
    <2>2. frames' # <<>>
      BY <1>1, StackStore
    <2> QED
      BY <1>1, <2>1, <2>2 DEF FillInv, AtRoot, ThrowsOnlyForRoot
  <1>2. CASE fs # <<>> /\ ~CanStore(fs[Len(fs)]) /\ Escape
    <2>1. /\ pc' = "idle" /\ frames' = <<>> /\ result' = "thrown"
          /\ out' = IF frames = <<>> THEN out ELSE frames[1].val
      BY <1>2 DEF Escape, Unwind
    <2>2. out' = fs[1].val
      BY <1>2, <2>1
    <2>3. fs[Len(fs)].kind = "Object" /\ fs[Len(fs)].val.kind \notin {"Null", "Map"}
      BY <1>2 DEF CanStore
    <2>4. Len(fs) \in Nat /\ Len(fs) >= 1
      BY <1>2, StackLen
    <2> DEFINE n == Len(fs)
    <2>5. n = 1
      <3>1. Contents(fs) <=> (fs # <<>> => fs[1].kind = "Object") /\ \A i \in 2..n : Filled(fs[i])
        BY DEF Contents
      <3>2. ~Filled(fs[n])
        BY <2>3 DEF Filled
      <3>3. n \in Nat /\ n >= 1
        BY <2>4
      <3> HIDE DEF n
      <3>4. n # 1 => n \in 2..n
        BY <3>3
      <3> QED
        BY <3>1, <3>2, <3>4
    <2>6. out'.kind \notin {"Null", "Map"}
      BY <2>2, <2>3, <2>5
    <2>7. Contents(frames')
      BY <2>1, ContentsEmpty
    <2> QED
      BY <2>1, <2>6, <2>7 DEF FillInv, AtRoot, ThrowsOnlyForRoot
  <1>3. CASE frames' = <<>> /\ pc' = "idle" /\ result' = "true"
    <2>1. Contents(frames')
      BY <1>3, ContentsEmpty
    <2> QED
      BY <1>3, <2>1 DEF FillInv, AtRoot, ThrowsOnlyForRoot
  <1> QED
    BY <1>1, <1>2, <1>3 DEF Deliver

LEMMA DeliverHereFill ==
  ASSUME Ready, FillInv, NEW x, Deliver(frames, x) PROVE FillInv'
  BY DeliverFill DEF Ready, FillInv

\* The end of a container: its Value goes to the activation that called.
LEMMA DeliverBackFill ==
  ASSUME Stack(frames), frames # <<>>, FillInv, NEW x, Deliver(Callers, x) PROVE FillInv'
  <1>1. Stack(Callers) /\ Open(Callers)
    BY StackPop
  <1>2. Contents(Callers) /\ (Callers # <<>> => Callers[1] = frames[1])
    BY ContentsPop DEF FillInv
  <1> QED
    BY <1>1, <1>2, DeliverFill

LEMMA EnterFill ==
  ASSUME Ready, FillInv, NEW kind, NEW n \in Nat, Enter(kind, n), frames = <<>> => kind = "Object"
  PROVE  FillInv'
  <1>1. CASE Fail("Maximum Parsing depth Exceeded!")
    BY <1>1, UnwindFill DEF Fail
  <1>2. CASE ~Fail("Maximum Parsing depth Exceeded!")
    <2> DEFINE v == IF frames = <<>> THEN out ELSE Null
               f == [kind |-> kind, count |-> n, left |-> n, mark |-> marker,
                     key |-> "none", val |-> v]
    <2>1. /\ frames' = Append(frames, f) /\ pc' = "loop"
          /\ UNCHANGED <<asked, width, marker, out, last_error, result>>
          /\ recursive_depth + 1 <= max_value_depth
      BY <1>2 DEF Enter
    <2>2. f.kind = kind /\ f.count = n /\ f.left = n /\ (frames # <<>> => f.val = Null)
      OBVIOUS
    <2> HIDE DEF f
    <2>3. Contents(frames')
      BY <2>1, <2>2, ContentsPush DEF Ready, FillInv
    <2>4. frames' # <<>>
      <3>1. PICK S : frames \in Seq(S)
        BY DEF Ready, Stack
      <3>2. frames \in Seq(S \cup {f}) /\ f \in S \cup {f}
        BY <3>1, SeqMonotonic
      <3> QED
        BY <2>1, <3>2, AppendProperties
    <2> QED
      BY <2>1, <2>3, <2>4 DEF FillInv, AtRoot, ThrowsOnlyForRoot
  <1> QED
    BY <1>1, <1>2

LEMMA CountedFill ==
  ASSUME Ready, FillInv, NEW n \in Nat, Counted(n), pc = "countBytes" PROVE FillInv'
  <1>0. frames = <<>> => asked \in {"Object", "Width", "Recount"}
    BY DEF FillInv, AtRoot
  <1>1. CASE asked \in {"Object", "Recount"} /\ Enter("Object", n)
    BY <1>1, EnterFill
  <1>2. CASE asked = "Width" /\ AskCount("Recount")
    BY <1>2, KeepFill DEF AskCount
  <1>3. CASE asked = "HetroArray" /\ Enter("HetroArray", n)
    BY <1>0, <1>3, EnterFill
  <1>4. CASE asked = "HomoArray" /\ Enter("HomoArray", n)
    BY <1>0, <1>4, EnterFill
  <1>5. CASE asked = "Text" /\ ReadNext("text", n)
    BY <1>0, <1>5, KeepFill DEF ReadNext
  <1> QED
    BY <1>1, <1>2, <1>3, <1>4, <1>5 DEF Counted

LEMMA NotCountedFill ==
  ASSUME Ready, FillInv, NEW b, NotCounted(b) PROVE FillInv'
  <1>1. CASE AskCount("Width")
    BY <1>1, KeepFill DEF AskCount
  <1>2. CASE DeliverEmpty
    BY <1>2, DeliverHereFill DEF DeliverEmpty
  <1>3. CASE Enter("Object", 0)
    BY <1>3, EnterFill
  <1>4. ASSUME NEW msg, Fail(msg) PROVE FillInv'
    BY <1>4, UnwindFill DEF Fail
  <1> QED
    BY <1>1, <1>2, <1>3, <1>4 DEF NotCounted

LEMMA ItemFill ==
  ASSUME Ready, FillInv, frames # <<>>, NEW m, Item(m) PROVE FillInv'
  <1>1. CASE UNCHANGED <<frames, out, recursive_depth, last_error, result>>
    BY <1>1, KeepFill
  <1>2. CASE Deliver(frames, Leaf(ScalarOf(m)[1]))
    BY <1>2, DeliverHereFill
  <1> QED
    BY <1>1, <1>2 DEF Item

\* The key of the item to come changes nothing of what is filled.
LEMMA KeyFill ==
  ASSUME Ready, FillInv, frames # <<>>, NEW k \in Keys, ReadKeyBytes(k)  PROVE FillInv'
  <1> DEFINE n == Len(frames)
             g == [Top EXCEPT !.key = k]
             hs == [frames EXCEPT ![n] = g]
  <1>1. /\ frames' = hs /\ UNCHANGED <<asked, width, marker, out, recursive_depth, last_error, result>>
        /\ pc' = "keyMarker"
    BY DEF ReadKeyBytes
  <1>2. Activation(Top) /\ n \in Nat /\ n >= 1
    BY StackLen DEF Ready, Top
  <1>3. /\ g.val = Top.val /\ g.left = Top.left /\ g.count = Top.count /\ g.kind = Top.kind
    BY <1>2 DEF Activation
  <1>4. PICK S : frames \in Seq(S)
    BY DEF Ready, Stack
  <1>5. frames \in Seq(S \cup {g}) /\ g \in S \cup {g} /\ n \in 1..Len(frames)
    BY <1>2, <1>4, SeqMonotonic
  <1>6. Top = frames[n]
    BY DEF Top
  <1> HIDE DEF g
  <1>7. /\ Len(hs) = n
        /\ \A j \in 1..n : hs[j] = IF j = n THEN g ELSE frames[j]
    BY <1>5, ExceptSeq
  <1>8. Filled(Top) => Filled(g)
    BY <1>3 DEF Filled
  <1>9. Contents(frames) <=> (frames[1].kind = "Object" /\ \A i \in 2..n : Filled(frames[i]))
    BY DEF Contents
  <1> HIDE DEF hs, n
  <1>10. hs[1].kind = "Object"
    BY <1>2, <1>3, <1>6, <1>7, <1>9 DEF FillInv
  <1>11. ASSUME NEW i \in 2..n PROVE Filled(hs[i])
    <2>1. Filled(frames[i]) /\ i \in 1..n
      BY <1>2, <1>9 DEF FillInv
    <2> QED
      BY <1>6, <1>7, <1>8, <2>1
  <1>12. Contents(hs)
    BY <1>7, <1>10, <1>11 DEF Contents
  <1>13. hs # <<>>
    BY <1>2, <1>7, StackEmpty
  <1> QED
    BY <1>1, <1>12, <1>13 DEF FillInv, AtRoot, ThrowsOnlyForRoot

LEMMA InitFill == Init => FillInv
  BY ContentsEmpty DEF Init, FillInv, AtRoot, ThrowsOnlyForRoot

\* One step for each read() and for each turn of the loop.
LEMMA NextFill == IInv /\ FillInv /\ [Next]_vars => FillInv'
  <1> SUFFICES ASSUME IInv, FillInv, [Next]_vars PROVE FillInv'
    OBVIOUS
  <1>a. pc \in Reads \ {"end"} => Ready
    BY ReadyWhen
  <1>b. "start" \in Reads /\ "count" \in Reads /\ "countBytes" \in Reads /\ "keyLen" \in Reads
        /\ "keyBytes" \in Reads /\ "keyMarker" \in Reads /\ "itemMarker" \in Reads
        /\ "number" \in Reads /\ "text" \in Reads /\ "typeMark" \in Reads
    BY DEF Reads, ByteReads, WidthReads
  <1>c. pc \in InDescent \cup InItem => frames # <<>>
    BY DEF IInv, Placed
  <1>d. pc \in {"number", "text", "typeMark"} => frames # <<>>
    BY DEF FillInv, AtRoot
  <1>e. Stack(frames)
    BY DEF IInv
  <1>1. CASE UNCHANGED vars
    BY <1>1 DEF vars, FillInv, AtRoot, ThrowsOnlyForRoot
  <1>2. ASSUME NEW v \in Roots, GetNextValue(v) PROVE FillInv'
    <2>1. frames' = frames /\ pc' = "start" /\ result' = "none"
      BY <1>2 DEF GetNextValue
    <2>2. Contents(frames')
      BY <2>1 DEF FillInv
    <2> QED
      BY <2>1, <2>2 DEF FillInv, AtRoot, ThrowsOnlyForRoot
  <1>3. ASSUME NEW b \in Bytes, ReadStart(b)  PROVE FillInv'
    <2>1. AskCount("Object") \/ Fail("Stream does not contain a valid Object")
      BY <1>3 DEF ReadStart
    <2>2. CASE AskCount("Object")
      BY <2>2, KeepFill DEF AskCount
    <2>3. CASE Fail("Stream does not contain a valid Object")
      BY <2>3, UnwindFill DEF Fail
    <2> QED
      BY <2>1, <2>2, <2>3
  <1>4. CASE PolicyViolation
    BY <1>4, UnwindFill DEF PolicyViolation, Fail
  <1>5. ASSUME NEW b \in Bytes, ReadCount(b)  PROVE FillInv'
    <2>1. Ready /\ pc = "count"
      BY <1>5, <1>a, <1>b DEF ReadCount
    <2>2. CASE ReadNext("countBytes", CountWidth[b])
      BY <2>1, <2>2, KeepFill DEF ReadNext, FillInv, AtRoot
    <2>3. CASE NotCounted(b)
      BY <2>1, <2>3, NotCountedFill
    <2> QED
      BY <1>5, <2>2, <2>3 DEF ReadCount
  <1>6. ASSUME NEW n \in 0..MaxCount \cup {Uint8Code}, ReadCountBytes(n)  PROVE FillInv'
    <2>1. Ready /\ pc = "countBytes"
      BY <1>6, <1>a, <1>b DEF ReadCountBytes
    <2>2. Counted(n) /\ n \in Nat
      BY <1>6, CodeTypes DEF ReadCountBytes
    <2> QED
      BY <2>1, <2>2, CountedFill
  <1>7. CASE Loop
    <2>1. frames # <<>>
      BY <1>7, <1>c DEF Loop, InDescent
    <2>2. CASE \E l : Goto(l)
      BY <2>1, <2>2, KeepFill DEF Goto
    <2>3. CASE Top.left > 0 /\ Item(Top.mark)
      <3>1. Ready
        BY <1>7, <2>3, ReadyWhen DEF Loop
      <3> QED
        BY <2>1, <2>3, <3>1, ItemFill
    <2> QED
      BY <1>7, <2>2, <2>3 DEF Loop
  <1>8. ASSUME NEW k \in Keys, ReadKeyLen(k)  PROVE FillInv'
    <2>1. frames # <<>>
      BY <1>8, <1>c DEF ReadKeyLen, InItem
    <2> QED
      BY <1>8, <2>1, KeepFill DEF ReadKeyLen, ReadNext
  <1>9. ASSUME NEW k \in Keys, ReadKeyBytes(k)  PROVE FillInv'
    <2>1. Ready /\ frames # <<>>
      BY <1>9, <1>a, <1>b, <1>c DEF ReadKeyBytes, InItem
    <2> QED
      BY <1>9, <2>1, KeyFill
  <1>10. ASSUME NEW b \in Bytes, ReadMarker(b)  PROVE FillInv'
    <2>1. Ready /\ frames # <<>>
      BY <1>10, <1>a, <1>b, <1>c DEF ReadMarker, InItem
    <2> QED
      BY <1>10, <2>1, ItemFill DEF ReadMarker
  <1>11. CASE ReadNumber
    <2>1. Ready
      BY <1>11, <1>a, <1>b DEF ReadNumber
    <2> QED
      BY <1>11, <2>1, DeliverHereFill DEF ReadNumber
  <1>12. CASE ReadText
    <2>1. Ready
      BY <1>12, <1>a, <1>b DEF ReadText
    <2> QED
      BY <1>12, <2>1, DeliverHereFill DEF ReadText
  <1>13. ASSUME NEW b \in Bytes, ReadTypeMark(b)  PROVE FillInv'
    <2>1. frames # <<>>
      BY <1>13, <1>d DEF ReadTypeMark
    <2> QED
      BY <1>13, <2>1, KeepFill DEF ReadTypeMark
  <1>14. ASSUME NEW b \in Bytes, ReadEnd(b)  PROVE FillInv'
    <2>1. frames # <<>>
      BY <1>14, <1>c DEF ReadEnd, InDescent
    <2>2. CASE Fail("Object is incomplete otherwise corrupt")
      BY <2>2, UnwindFill DEF Fail
    <2>3. CASE Deliver(Callers, Top.val)
      BY <1>e, <2>1, <2>3, DeliverBackFill
    <2>4. CASE UNCHANGED <<asked, width, marker, frames, out, last_error, result>>
      BY <2>1, <2>4, KeepFill
    <2> QED
      BY <1>14, <2>2, <2>3, <2>4 DEF ReadEnd
  <1>15. CASE HomoTail
    <2>1. frames # <<>>
      BY <1>15, <1>c DEF HomoTail, InDescent
    <2>2. CASE Deliver(Callers, Top.val)
      BY <1>e, <2>1, <2>2, DeliverBackFill
    <2>3. CASE Fail("empty HomoArray is ill-formed")
      BY <2>3, UnwindFill DEF Fail
    <2> QED
      BY <1>15, <2>2, <2>3 DEF HomoTail
  <1> QED
    BY <1>1, <1>2, <1>3, <1>4, <1>5, <1>6, <1>7, <1>8, <1>9, <1>10, <1>11, <1>12,
       <1>13, <1>14, <1>15 DEF Next, Parse

\* An exception that getNextValue does not catch is the caller's own: it
\* passed a Value that takes no key, however the containers are nested.
THEOREM ThrowsForRootOnly == Spec => []ThrowsOnlyForRoot
  <1>1. FillInv => ThrowsOnlyForRoot
    BY DEF FillInv
  <1> QED
    BY <1>1, InitInv, NextInv, InitFill, NextFill, PTL DEF Spec

\* An array holds as many elements as its count announced, less those to come,
\* and an object no more, at every step and at every depth.
THEOREM CountsAreKept == Spec => []ItemsAsAnnounced
  <1>1. IInv /\ FillInv => ItemsAsAnnounced
    <2> SUFFICES ASSUME Stack(frames), Contents(frames), NEW i \in 1..Len(frames)
                 PROVE  LET f == frames[i]  done == f.count - f.left IN
                        /\ f.kind # "Object" => Len(f.val.items) = done
                        /\ f.kind = "Object" /\ i > 1 =>
                             /\ Cardinality(DOMAIN f.val.items) <= done
                             /\ done > 0 => f.val.items # <<>>
      BY DEF IInv, FillInv, ItemsAsAnnounced
    <2>1. CASE i = 1
      <3>1. frames # <<>>
        BY <2>1, StackEmpty
      <3> QED
        BY <2>1, <3>1 DEF Contents
    <2>2. CASE i # 1
      <3>1. Filled(frames[i])
        BY <2>2, StackLen DEF Contents
      <3> QED
        BY <3>1 DEF Filled
    <2> QED
      BY <2>1, <2>2
  <1> QED
    BY <1>1, InitInv, NextInv, InitFill, NextFill, PTL DEF Spec

-----------------------------------------------------------------------------
(* What is built has been paid for.  An activation that called another is  *)
(* in the middle of an item, whose marker has been read: it has paid for   *)
(* one item more than it holds, and the last activation for the part of    *)
(* its item that has been read.                                            *)

Done(f) == f.count - f.left

\* The bytes of an item of f that come before its payload.
Markers(f) == IF f.kind = "Object" THEN 2 ELSE IF f.kind = "HetroArray" THEN 1 ELSE 0

\* b bytes pay for the activations fs and for e bytes of the item being read,
\* which all of them have seen.
Paid(fs, b, e) ==
  /\ fs = <<>> => e <= b
  /\ fs # <<>> => Len(fs) + Cost(fs[Len(fs)], Done(fs[Len(fs)])) + e <= b
  /\ \A i \in 1..Len(fs) : i < Len(fs) => Len(fs) + Cost(fs[i], Done(fs[i]) + 1) + e <= b

\* Of the item being read: its markers, and the least of its payload.
Marks == IF frames = <<>> THEN 0 ELSE Markers(Top)
Since == IF pc \in {"countBytes", "text"} \/ (pc = "count" /\ asked = "Recount") THEN 1 ELSE 0
InPayload == {"count", "countBytes", "typeMark", "number", "text"}

Partial ==
  IF pc \in InPayload THEN Marks + Since ELSE IF pc \in {"keyBytes", "keyMarker"} THEN 1 ELSE 0

Budget == bytes_so_far \in Nat /\ bytes_so_far <= max_object_size

PaidInv ==
  /\ Budget
  /\ pc \in {"number", "countBytes"} => width > 0
  /\ pc = "itemMarker" => Top.kind # "Object"
  /\ pc = "start" => frames = <<>>
  /\ pc # "idle" => Paid(frames, bytes_so_far, Partial)

LEMMA CostFacts ==
  ASSUME NEW f, Activation(f)
  PROVE  /\ Done(f) \in Nat /\ Markers(f) \in 0..2 /\ Cost(f, 0) = 0
         /\ \A n \in Nat : Cost(f, n) \in Nat
         /\ Cost(f, Done(f)) <= Cost(f, Done(f) + 1)
         /\ Cost(f, Done(f) + 1) <= Cost(f, Done(f)) + 2
         /\ f.kind # "Object" => Cost(f, Done(f) + 1) <= Cost(f, Done(f)) + 1
         /\ Cost(f, Done(f) + 1) <= Cost(f, Done(f)) + Markers(f) + 1
         /\ f.kind = "HomoArray" /\ Silent(f.mark) => Cost(f, Done(f) + 1) = Cost(f, Done(f))
  <1>1. f.kind \in {"Object", "HetroArray", "HomoArray"} /\ Done(f) \in Nat
    BY DEF Activation, Done
  <1> DEFINE n == Done(f)
  <1> HIDE DEF n
  <1>2. n \in Nat /\ 2 * (n + 1) = 2 * n + 2
    BY <1>1 DEF n
  <1>3. \A k \in Nat : Cost(f, k) \in Nat
    BY DEF Cost
  <1>4. /\ Cost(f, 0) = 0 /\ Cost(f, n) <= Cost(f, n + 1) /\ Cost(f, n + 1) <= Cost(f, n) + 2
        /\ f.kind # "Object" => Cost(f, n + 1) <= Cost(f, n) + 1
        /\ Cost(f, n + 1) <= Cost(f, n) + Markers(f) + 1
        /\ f.kind = "HomoArray" /\ Silent(f.mark) => Cost(f, n + 1) = Cost(f, n)
    BY <1>1, <1>2 DEF Cost, Markers
  <1>5. Markers(f) \in 0..2
    BY DEF Markers
  <1> QED
    BY <1>1, <1>3, <1>4, <1>5 DEF n

LEMMA DoneNat == ASSUME NEW f, Activation(f) PROVE Done(f) \in Nat /\ Done(f) + 1 \in Nat
  BY DEF Activation, Done

\* The account of the activations fs: what their items cost is a number.
LEMMA StackCosts ==
  ASSUME NEW fs, Stack(fs)
  PROVE  /\ Len(fs) \in Nat
         /\ fs # <<>> => /\ Len(fs) \in 1..Len(fs) /\ Activation(fs[Len(fs)])
                         /\ Cost(fs[Len(fs)], Done(fs[Len(fs)])) \in Nat
         /\ \A i \in 1..Len(fs) : Cost(fs[i], Done(fs[i]) + 1) \in Nat
  <1>1. Len(fs) \in Nat /\ (fs # <<>> => Len(fs) \in 1..Len(fs))
    BY StackLen
  <1>2. ASSUME NEW i \in 1..Len(fs)
        PROVE  Cost(fs[i], Done(fs[i])) \in Nat /\ Cost(fs[i], Done(fs[i]) + 1) \in Nat
    <2>1. Activation(fs[i])
      BY DEF Stack
    <2>2. Done(fs[i]) \in Nat /\ Done(fs[i]) + 1 \in Nat
      BY <2>1, DoneNat
    <2> QED
      BY <2>1, <2>2, CostFacts
  <1> QED
    BY <1>1, <1>2, StackLen

LEMMA MarksFacts ==
  ASSUME Stack(frames)
  PROVE  Marks \in 0..2 /\ Since \in 0..1 /\ Partial \in Nat
  <1>1. Marks \in 0..2
    <2>1. frames # <<>> => Activation(Top)
      BY StackLen DEF Top
    <2> QED
      BY <2>1, CostFacts DEF Marks
  <1> QED
    BY <1>1 DEF Since, Partial

\* More bytes pay for as much and for what they are.
LEMMA PaidMore ==
  ASSUME NEW fs, Stack(fs), NEW b \in Nat, NEW e \in Nat, Paid(fs, b, e),
         NEW c \in Nat, NEW d \in Nat, d <= e + c
  PROVE  Paid(fs, b + c, d)
  <1>1. fs # <<>> => Len(fs) + Cost(fs[Len(fs)], Done(fs[Len(fs)])) + d <= b + c
    BY StackCosts DEF Paid
  <1>2. \A i \in 1..Len(fs) : i < Len(fs) => Len(fs) + Cost(fs[i], Done(fs[i]) + 1) + d <= b + c
    BY StackCosts DEF Paid
  <1>3. fs = <<>> => d <= b + c
    BY DEF Paid
  <1> QED
    BY <1>1, <1>2, <1>3 DEF Paid

LEMMA PaidEmpty == \A b \in Nat : Paid(<<>>, b, 0)
  BY StackEmpty DEF Paid

\* Another activation: the one that calls it has paid for the item.
LEMMA PaidPush ==
  ASSUME Stack(frames), Open(frames), NEW b \in Nat, NEW e \in Nat, Paid(frames, b, e),
         e >= Marks + 2,
         NEW f, Activation(f), Done(f) = 0
  PROVE  Paid(Append(frames, f), b, 0)
  <1> DEFINE g == Append(frames, f)  n == Len(frames)
  <1>1. PICK S : frames \in Seq(S)
    BY DEF Stack
  <1>2. /\ g # <<>> /\ Len(g) = n + 1 /\ g[n + 1] = f
        /\ \A j \in 1..n : g[j] = frames[j]
    <2>1. frames \in Seq(S \cup {f})
      BY <1>1, SeqMonotonic
    <2> QED
      BY <2>1
  <1>3. Cost(f, Done(f)) = 0
    BY CostFacts
  <1>4. n \in Nat /\ (frames = <<>> => n = 0) /\ Marks \in 0..2
    BY StackCosts, StackEmpty, MarksFacts
  <1> HIDE DEF g
  <1>5. n + 1 <= b
    BY <1>4, StackCosts DEF Paid
  <1>6. ASSUME NEW i \in 1..n
        PROVE  Cost(g[i], Done(g[i]) + 1) \in Nat /\ n + 1 + Cost(g[i], Done(g[i]) + 1) <= b
    <2>1. g[i] = frames[i] /\ Cost(frames[i], Done(frames[i]) + 1) \in Nat /\ frames # <<>>
      BY <1>2, <1>4, StackCosts
    <2> DEFINE t == frames[n]
    <2>2. /\ n + Cost(t, Done(t)) + e <= b /\ Marks = Markers(t) /\ Activation(t)
      BY <2>1, StackCosts DEF Paid, Marks, Top
    <2>3. CASE i = n
      <3>1. Cost(t, Done(t) + 1) <= Cost(t, Done(t)) + Markers(t) + 1
        BY <2>2, CostFacts
      <3>2. Cost(t, Done(t)) \in Nat /\ Cost(t, Done(t) + 1) \in Nat
        BY <2>1, <2>3, StackCosts
      <3> QED
        BY <1>4, <2>1, <2>2, <2>3, <3>1, <3>2
    <2>4. CASE i < n
      BY <1>4, <2>1, <2>4 DEF Paid
    <2> QED
      BY <1>4, <2>3, <2>4
  <1>7. Len(g) + Cost(g[Len(g)], Done(g[Len(g)])) + 0 <= b
    BY <1>2, <1>3, <1>4, <1>5
  <1>8. \A i \in 1..Len(g) : i < Len(g) => Len(g) + Cost(g[i], Done(g[i]) + 1) + 0 <= b
    BY <1>2, <1>4, <1>6
  <1> QED
    BY <1>2, <1>7, <1>8 DEF g, Paid

\* An item is stored that has been paid for.
LEMMA PaidStore ==
  ASSUME NEW fs, Stack(fs), fs # <<>>, Open(fs), NEW x, NEW b \in Nat,
         Len(fs) + Cost(fs[Len(fs)], Done(fs[Len(fs)]) + 1) <= b,
         \A i \in 1..Len(fs) : i < Len(fs) => Len(fs) + Cost(fs[i], Done(fs[i]) + 1) <= b
  PROVE  Paid(Store(fs, x), b, 0)
  <1> DEFINE f == fs[Len(fs)]  n == Len(fs)
             y == IF f.kind = "Object" THEN WithItem(f.val, f.key, x) ELSE Pushed(f.val, x)
             g == [f EXCEPT !.val = y, !.left = f.left - 1]
             gs == Store(fs, x)
  <1>1. Activation(f) /\ f.left > 0 /\ n \in 1..n
    BY StackLen DEF Open
  <1>2. gs = [fs EXCEPT ![n] = g]
    BY DEF Store
  <1> HIDE DEF y
  <1>3. g.kind = f.kind /\ g.mark = f.mark /\ g.count = f.count /\ g.left = f.left - 1
    BY <1>1 DEF Activation
  <1>4. PICK S : fs \in Seq(S)
    BY DEF Stack
  <1> HIDE DEF g
  <1>5. fs \in Seq(S \cup {g}) /\ g \in S \cup {g}
    BY <1>4, SeqMonotonic
  <1>6. Len(gs) = n /\ \A j \in 1..n : gs[j] = IF j = n THEN g ELSE fs[j]
    BY <1>1, <1>2, <1>5, ExceptSeq
  <1>7. Done(g) = Done(f) + 1
    BY <1>1, <1>3 DEF Done, Activation
  <1>8. \A k \in Nat : Cost(g, k) = Cost(f, k)
    BY <1>3 DEF Cost
  <1>9. Done(f) + 1 \in Nat /\ n \in Nat /\ Cost(f, Done(f) + 1) \in Nat
    BY <1>1, DoneNat, StackCosts
  <1> HIDE DEF gs
  <1>10. Len(gs) + Cost(gs[Len(gs)], Done(gs[Len(gs)])) + 0 <= b
    BY <1>1, <1>6, <1>7, <1>8, <1>9
  <1>11. \A i \in 1..Len(gs) : i < Len(gs) => Len(gs) + Cost(gs[i], Done(gs[i]) + 1) + 0 <= b
    BY <1>6, <1>9, StackCosts
  <1> QED
    BY <1>10, <1>11 DEF Paid, gs

\* The end of a container: its bytes, and its caller's item, are paid for.
LEMMA PaidPop ==
  ASSUME Stack(frames), frames # <<>>, NEW b \in Nat, NEW e \in Nat, Paid(frames, b, e)
  PROVE  /\ Callers # <<>> =>
              Len(Callers) + Cost(Callers[Len(Callers)], Done(Callers[Len(Callers)]) + 1) <= b
         /\ \A i \in 1..Len(Callers) :
              i < Len(Callers) => Len(Callers) + Cost(Callers[i], Done(Callers[i]) + 1) <= b
  <1>1. PICK S : frames \in Seq(S)
    BY DEF Stack
  <1>2. Len(frames) \in Nat /\ Len(frames) > 0 /\ Stack(Callers)
    BY StackLen, StackPop
  <1>3. /\ Len(Callers) = Len(frames) - 1
        /\ \A i \in 1..(Len(frames) - 1) : Callers[i] = frames[i]
    BY <1>1, <1>2, FrontProperties DEF Callers
  <1>4. ASSUME NEW i \in 1..Len(Callers)
        PROVE  Len(Callers) + Cost(Callers[i], Done(Callers[i]) + 1) <= b
    <2>1. i \in 1..(Len(frames) - 1)
      BY <1>3
    <2>2. i \in 1..Len(frames) /\ i < Len(frames) /\ Callers[i] = frames[i]
      BY <1>2, <1>3, <2>1
    <2>3. Cost(frames[i], Done(frames[i]) + 1) \in Nat
      BY <2>2, StackCosts
    <2>4. Len(frames) + Cost(frames[i], Done(frames[i]) + 1) + e <= b
      BY <2>2 DEF Paid
    <2> QED
      BY <1>2, <1>3, <2>2, <2>3, <2>4
  <1>5. Callers # <<>> => Len(Callers) \in 1..Len(Callers)
    BY <1>2, StackLen
  <1> QED
    BY <1>4, <1>5

-----------------------------------------------------------------------------
(* How the steps keep the account.                                         *)

LEMMA NextBudget == IInv /\ Budget /\ [Next]_vars => Budget'
  <1> SUFFICES ASSUME IInv, Budget, [Next]_vars PROVE Budget'
    OBVIOUS
  <1>1. CASE UNCHANGED vars
    BY <1>1 DEF vars, Budget
  <1>2. ASSUME NEW v \in Roots, GetNextValue(v) PROVE Budget'
    BY <1>2, PolicyAssumption DEF GetNextValue, Budget
  <1>3. ASSUME Read PROVE Budget'
    BY <1>3 DEF Read, Budget, ReadSize, IInv, Registers
  <1>4. CASE PolicyViolation \/ Loop \/ HomoTail
    BY <1>4 DEF PolicyViolation, Loop, HomoTail, Budget
  <1> QED
    BY <1>1, <1>2, <1>3, <1>4, ParseReads DEF Next

LEMMA UnwindPaid == ASSUME Budget', NEW r, Unwind(r) PROVE PaidInv'
  BY DEF Unwind, PaidInv

\* Bytes that pay for e pay for less.
LEMMA PaidLess ==
  ASSUME Stack(frames), Budget', NEW e \in Nat, Paid(frames, bytes_so_far', e),
         NEW d \in Nat, d <= e
  PROVE  Paid(frames, bytes_so_far', d)
  <1>1. bytes_so_far' \in Nat
    BY DEF Budget
  <1> DEFINE b == bytes_so_far'
  <1> HIDE DEF b
  <1>2. b + 0 = b /\ Paid(frames, b + 0, d)
    <2>1. b \in Nat /\ Paid(frames, b, e) /\ d <= e + 0
      BY <1>1 DEF b
    <2> QED
      BY <2>1, PaidMore
  <1> QED
    BY <1>2 DEF b

\* The activations stay, and the bytes read pay for the part of the item.
LEMMA KeepPaid ==
  ASSUME Stack(frames), Budget', frames' = frames, NEW e \in Nat, Paid(frames, bytes_so_far', e),
         NEW d \in Nat, Partial' = d, d <= e, pc' \in {"number", "countBytes"} => width' > 0,
         pc' = "itemMarker" => Top.kind # "Object", pc' # "start"
  PROVE  PaidInv'
  <1>1. Paid(frames, bytes_so_far', d)
    BY PaidLess
  <1>2. Top' = Top
    BY DEF Top
  <1> QED
    BY <1>1, <1>2 DEF PaidInv

LEMMA DeliverPaid ==
  ASSUME Budget', NEW fs, Stack(fs), Open(fs), NEW x, Deliver(fs, x),
         fs # <<>> => Len(fs) + Cost(fs[Len(fs)], Done(fs[Len(fs)]) + 1) <= bytes_so_far',
         \A i \in 1..Len(fs) :
           i < Len(fs) => Len(fs) + Cost(fs[i], Done(fs[i]) + 1) <= bytes_so_far'
  PROVE  PaidInv'
  <1>1. CASE fs # <<>> /\ frames' = Store(fs, x) /\ pc' = "loop"
    <2>1. Paid(frames', bytes_so_far', 0)
      BY <1>1, PaidStore DEF Budget
    <2>2. Partial' = 0
      BY <1>1 DEF Partial, InPayload
    <2> QED
      BY <1>1, <2>1, <2>2 DEF PaidInv
  <1>2. CASE Escape
    BY <1>2, UnwindPaid DEF Escape
  <1>3. CASE pc' = "idle"
    BY <1>3 DEF PaidInv
  <1> QED
    BY <1>1, <1>2, <1>3 DEF Deliver

\* The item being read is over, and its bytes are those of an item.
LEMMA DeliverHerePaid ==
  ASSUME Ready, Budget', NEW e \in Nat, Paid(frames, bytes_so_far', e), NEW x,
         Deliver(frames, x),
         frames # <<>> => Cost(Top, Done(Top) + 1) <= Cost(Top, Done(Top)) + e
  PROVE  PaidInv'
  <1>1. /\ Stack(frames) /\ Open(frames)
        /\ frames # <<>> => Len(frames) + Cost(Top, Done(Top) + 1) <= bytes_so_far'
    BY StackCosts DEF Ready, Paid, Top, Budget
  <1>2. \A i \in 1..Len(frames) :
          i < Len(frames) => Len(frames) + Cost(frames[i], Done(frames[i]) + 1) <= bytes_so_far'
    BY <1>1, StackCosts DEF Paid, Budget
  <1> QED
    BY <1>1, <1>2, DeliverPaid DEF Top

LEMMA DeliverBackPaid ==
  ASSUME Budget', Stack(frames), frames # <<>>, NEW e \in Nat, Paid(frames, bytes_so_far', e),
         NEW x, Deliver(Callers, x)
  PROVE  PaidInv'
  <1>1. Stack(Callers) /\ Open(Callers)
    BY StackPop
  <1> QED
    BY <1>1, PaidPop, DeliverPaid DEF Budget

LEMMA EnterPaid ==
  ASSUME Ready, Budget', NEW e \in Nat, Paid(frames, bytes_so_far', e), e >= Marks + 2,
         NEW kind \in {"Object", "HetroArray", "HomoArray"}, NEW n \in Nat, Enter(kind, n)
  PROVE  PaidInv'
  <1>1. CASE Fail("Maximum Parsing depth Exceeded!")
    BY <1>1, UnwindPaid DEF Fail
  <1>2. CASE ~Fail("Maximum Parsing depth Exceeded!")
    <2> DEFINE v == IF frames = <<>> THEN out ELSE Null
               f == [kind |-> kind, count |-> n, left |-> n, mark |-> marker,
                     key |-> "none", val |-> v]
    <2>1. frames' = Append(frames, f) /\ pc' = "loop"
      BY <1>2 DEF Enter
    <2>2. Activation(f)
      BY DEF Activation, Ready, Registers
    <2>3. Done(f) = 0
      BY DEF Done
    <2> HIDE DEF f
    <2>4. Paid(frames', bytes_so_far', 0)
      BY <2>1, <2>2, <2>3, PaidPush DEF Ready, Budget
    <2>5. Partial' = 0
      BY <2>1 DEF Partial, InPayload
    <2> QED
      BY <2>1, <2>4, <2>5 DEF PaidInv
  <1> QED
    BY <1>1, <1>2

\* Where the next read() belongs to the payload of an item.
LEMMA PayloadPaid ==
  ASSUME Ready, Budget', frames' = frames, NEW e \in Nat, Paid(frames, bytes_so_far', e),
         pc' \in InPayload, Marks + Since' <= e,
         pc' \in {"number", "countBytes"} => width' > 0
  PROVE  PaidInv'
  <1>1. Marks' = Marks
    BY DEF Marks, Top
  <1>2. Since' \in 0..1
    BY DEF Since
  <1> DEFINE d == Marks + Since'
  <1>3. d \in Nat /\ d <= e
    BY <1>2, MarksFacts DEF Ready
  <1>4. Partial' = d
    BY <1>1 DEF Partial
  <1>5. pc' # "itemMarker" /\ pc' # "start"
    BY DEF InPayload
  <1> HIDE DEF d
  <1> QED
    BY <1>3, <1>4, <1>5, KeepPaid DEF Ready

LEMMA CountPaid ==
  ASSUME Ready, Budget', NEW e \in Nat, Paid(frames, bytes_so_far', e), NEW who,
         who = "Recount" => Marks + 1 <= e, Marks <= e, AskCount(who)
  PROVE  PaidInv'
  <1>1. frames' = frames /\ pc' = "count" /\ asked' = who
    BY DEF AskCount
  <1>2. Since' = IF who = "Recount" THEN 1 ELSE 0
    BY <1>1 DEF Since
  <1>3. Marks + Since' <= e
    BY <1>2, MarksFacts DEF Ready
  <1> QED
    BY <1>1, <1>3, PayloadPaid DEF InPayload

LEMMA CountedPaid ==
  ASSUME Ready, Budget', NEW e \in Nat, Paid(frames, bytes_so_far', e), e >= Marks + 2,
         NEW n \in Nat, Counted(n)
  PROVE  PaidInv'
  <1>0. Marks \in 0..2
    BY MarksFacts DEF Ready
  <1>1. CASE \E kind \in {"Object", "HetroArray", "HomoArray"} : Enter(kind, n)
    BY <1>1, EnterPaid
  <1>2. CASE AskCount("Recount")
    BY <1>0, <1>2, CountPaid
  <1>3. CASE ReadNext("text", n)
    <2>1. frames' = frames /\ pc' = "text"
      BY <1>3 DEF ReadNext
    <2>2. Marks + Since' <= e
      BY <1>0, <2>1 DEF Since
    <2> QED
      BY <2>1, <2>2, PayloadPaid DEF InPayload
  <1> QED
    BY <1>1, <1>2, <1>3 DEF Counted

LEMMA NotCountedPaid ==
  ASSUME Ready, Budget', NEW e \in Nat, Paid(frames, bytes_so_far', e), e >= Marks + 1,
         asked = "Recount" => e >= Marks + 2, NEW b, NotCounted(b)
  PROVE  PaidInv'
  <1>0. Marks \in 0..2
    BY MarksFacts DEF Ready
  <1>1. CASE AskCount("Width")
    BY <1>0, <1>1, CountPaid
  <1>2. CASE DeliverEmpty
    <2>1. ASSUME frames # <<>> PROVE Cost(Top, Done(Top) + 1) <= Cost(Top, Done(Top)) + e
      <3>1. Activation(Top) /\ Marks = Markers(Top)
        BY <2>1, StackLen DEF Ready, Top, Marks
      <3>2. Cost(Top, Done(Top) + 1) <= Cost(Top, Done(Top)) + Markers(Top) + 1
        BY <3>1, CostFacts
      <3>3. Cost(Top, Done(Top)) \in Nat /\ Cost(Top, Done(Top) + 1) \in Nat
        BY <2>1, StackCosts DEF Ready, Top
      <3> QED
        BY <1>0, <3>1, <3>2, <3>3
    <2> QED
      BY <1>2, <2>1, DeliverHerePaid DEF DeliverEmpty
  <1>3. CASE asked = "Recount" /\ Enter("Object", 0)
    BY <1>3, EnterPaid
  <1>4. ASSUME NEW msg, Fail(msg) PROVE PaidInv'
    BY <1>4, UnwindPaid DEF Fail
  <1> QED
    BY <1>1, <1>2, <1>3, <1>4 DEF NotCounted

\* The item m begins: its markers have been paid, and, if it has no payload,
\* the whole of it.
LEMMA ItemPaid ==
  ASSUME Ready, frames # <<>>, Budget', NEW e \in Nat, Paid(frames, bytes_so_far', e),
         Marks <= e, NEW m,
         Silent(m) => Cost(Top, Done(Top) + 1) <= Cost(Top, Done(Top)) + e,
         Item(m)
  PROVE  PaidInv'
  <1> DEFINE w == ScalarOf(m)[2]
  <1>0. w \in Nat
    BY ScalarWidth
  <1>1. CASE /\ m \in {"{", "[", "s", "b"}
             /\ marker' = m /\ pc' = "count"
             /\ asked' = CASE m = "{" -> "Object" [] m = "[" -> "HetroArray" [] OTHER -> "Text"
             /\ UNCHANGED <<width, frames, out, recursive_depth, last_error, result>>
    <2>1. frames' = frames /\ pc' = "count" /\ asked' \in {"Object", "HetroArray", "Text"}
      BY <1>1
    <2>2. Since' = 0
      BY <2>1 DEF Since
    <2>3. Marks + Since' <= e
      BY <2>2, MarksFacts DEF Ready
    <2> QED
      BY <2>1, <2>3, PayloadPaid DEF InPayload
  <1>2. CASE /\ marker' = m /\ pc' = "typeMark"
             /\ UNCHANGED <<asked, width, frames, out, recursive_depth, last_error, result>>
    <2>1. Since' = 0
      BY <1>2 DEF Since
    <2>2. Marks + Since' <= e
      BY <2>1, MarksFacts DEF Ready
    <2> QED
      BY <1>2, <2>2, PayloadPaid DEF InPayload
  <1>3. CASE /\ w > 0
             /\ marker' = m /\ pc' = "number" /\ width' = w
             /\ UNCHANGED <<asked, frames, out, recursive_depth, last_error, result>>
    <2>1. Since' = 0
      BY <1>3 DEF Since
    <2>2. Marks + Since' <= e
      BY <2>1, MarksFacts DEF Ready
    <2> QED
      BY <1>3, <2>2, PayloadPaid DEF InPayload
  <1>4. CASE /\ m \notin {"{", "[", "(", "s", "b"} /\ w = 0
             /\ Deliver(frames, Leaf(ScalarOf(m)[1]))
    <2>1. Silent(m)
      BY <1>4 DEF Silent
    <2> QED
      BY <1>4, <2>1, DeliverHerePaid
  <1> QED
    BY <1>1, <1>2, <1>3, <1>4 DEF Item

\* The key of the item to come costs what it costs, the account stays.
LEMMA KeyPaid ==
  ASSUME Ready, frames # <<>>, Budget', Paid(frames, bytes_so_far', 1),
         NEW k \in Keys, ReadKeyBytes(k)
  PROVE  PaidInv'
  <1> DEFINE n == Len(frames)
             g == [Top EXCEPT !.key = k]
  <1>1. frames' = [frames EXCEPT ![n] = g] /\ pc' = "keyMarker"
    BY DEF ReadKeyBytes
  <1>2. Activation(Top) /\ n \in Nat /\ n \in 1..n
    BY StackLen DEF Ready, Top
  <1>3. g.left = Top.left /\ g.count = Top.count /\ g.kind = Top.kind /\ g.mark = Top.mark
    BY <1>2 DEF Activation
  <1>4. PICK S : frames \in Seq(S)
    BY DEF Ready, Stack
  <1> HIDE DEF g
  <1>5. frames \in Seq(S \cup {g}) /\ g \in S \cup {g}
    BY <1>4, SeqMonotonic
  <1>6. /\ Len(frames') = n
        /\ \A j \in 1..n : frames'[j] = IF j = n THEN g ELSE frames[j]
    BY <1>1, <1>2, <1>5, ExceptSeq
  <1>7. Done(g) = Done(Top) /\ \A i \in Nat : Cost(g, i) = Cost(Top, i)
    BY <1>3 DEF Done, Cost
  <1>8. Done(Top) \in Nat
    BY <1>2, DoneNat
  <1>9. frames' # <<>>
    BY <1>2, <1>6, StackEmpty
  <1>10. Len(frames') + Cost(frames'[Len(frames')], Done(frames'[Len(frames')])) + 1 <= bytes_so_far'
    BY <1>2, <1>6, <1>7, <1>8 DEF Paid, Top
  <1>11. \A i \in 1..Len(frames') :
           i < Len(frames') =>
             Len(frames') + Cost(frames'[i], Done(frames'[i]) + 1) + 1 <= bytes_so_far'
    BY <1>2, <1>6 DEF Paid
  <1>12. Paid(frames', bytes_so_far', 1)
    BY <1>9, <1>10, <1>11 DEF Paid
  <1>13. Partial' = 1
    BY <1>1 DEF Partial, InPayload
  <1> QED
    BY <1>1, <1>12, <1>13 DEF PaidInv

LEMMA InitPaid == Init => PaidInv
  <1>1. Init => pc = "idle" /\ bytes_so_far = 0
    BY DEF Init
  <1> QED
    BY <1>1, PolicyAssumption DEF PaidInv, Budget

\* What a read() adds to the account.
LEMMA ReadPaid ==
  ASSUME IInv, PaidInv, pc # "idle", Read
  PROVE  /\ ReadSize \in Nat /\ Partial \in Nat /\ Partial + ReadSize \in Nat
         /\ Paid(frames, bytes_so_far', Partial + ReadSize)
  <1>1. ReadSize \in Nat /\ Partial \in Nat /\ Stack(frames) /\ bytes_so_far \in Nat
    BY MarksFacts DEF ReadSize, IInv, Registers, PaidInv, Budget
  <1>2. bytes_so_far' = bytes_so_far + ReadSize
    BY DEF Read
  <1> QED
    BY <1>1, <1>2, PaidMore DEF PaidInv

LEMMA NextPaid == IInv /\ PaidInv /\ [Next]_vars => PaidInv'
  <1> SUFFICES ASSUME IInv, PaidInv, [Next]_vars PROVE PaidInv'
    OBVIOUS
  <1>a. pc \in Reads \ {"end"} => Ready
    BY ReadyWhen
  <1>b. "start" \in Reads /\ "count" \in Reads /\ "countBytes" \in Reads /\ "keyLen" \in Reads
        /\ "keyBytes" \in Reads /\ "keyMarker" \in Reads /\ "itemMarker" \in Reads
        /\ "number" \in Reads /\ "text" \in Reads /\ "typeMark" \in Reads
    BY DEF Reads, ByteReads, WidthReads
  <1>c. pc \in InDescent \cup InItem => frames # <<>>
    BY DEF IInv, Placed
  <1>d. Budget'
    BY NextBudget DEF PaidInv
  <1>e. Stack(frames)
    BY DEF IInv
  <1>f. Marks \in 0..2 /\ (frames # <<>> => Activation(Top) /\ Marks = Markers(Top))
    BY <1>e, MarksFacts, StackLen DEF Marks, Top
  <1>1. CASE UNCHANGED vars
    <2>1. Partial' = Partial /\ Top' = Top
      BY <1>1 DEF vars, Partial, Marks, Since, Top
    <2> QED
      BY <1>1, <1>d, <2>1 DEF vars, PaidInv
  <1>2. ASSUME NEW v \in Roots, GetNextValue(v) PROVE PaidInv'
    <2>1. frames' = <<>> /\ pc' = "start" /\ bytes_so_far' = 0
      BY <1>2 DEF GetNextValue, IInv, Placed
    <2>2. Partial' = 0 /\ Paid(frames', bytes_so_far', 0)
      BY <2>1, PaidEmpty DEF Partial, InPayload
    <2> QED
      BY <1>d, <2>1, <2>2 DEF PaidInv
  <1>3. ASSUME NEW b \in Bytes, ReadStart(b)  PROVE PaidInv'
    <2>1. Ready /\ pc = "start"
      BY <1>3, <1>a, <1>b DEF ReadStart
    <2>2. CASE AskCount("Object")
      <3>1. Read /\ ReadSize = 1 /\ Partial = 0 /\ Marks = 0
        BY <1>3, <2>1 DEF ReadStart, ReadSize, ByteReads, Partial, InPayload, Marks, PaidInv
      <3>2. Paid(frames, bytes_so_far', 1)
        BY <2>1, <3>1, ReadPaid
      <3> QED
        BY <1>d, <2>1, <2>2, <3>1, <3>2, CountPaid
    <2>3. CASE Fail("Stream does not contain a valid Object")
      BY <1>d, <2>3, UnwindPaid DEF Fail
    <2> QED
      BY <1>3, <2>2, <2>3 DEF ReadStart
  <1>4. CASE PolicyViolation
    BY <1>4, <1>d, UnwindPaid DEF PolicyViolation, Fail
  <1>5. ASSUME NEW b \in Bytes, ReadCount(b)  PROVE PaidInv'
    <2>1. Ready /\ pc = "count" /\ Read /\ ReadSize = 1 /\ Partial = Marks + Since
      BY <1>5, <1>a, <1>b DEF ReadCount, ReadSize, ByteReads, Partial, InPayload
    <2> DEFINE e == Marks + Since + 1
    <2>2. Paid(frames, bytes_so_far', e)
      BY <2>1, ReadPaid
    <2>3. Since \in 0..1 /\ (asked = "Recount" => Since = 1)
      BY <2>1 DEF Since
    <2>4. e \in Nat /\ e >= Marks + 1 /\ (asked = "Recount" => e >= Marks + 2)
      BY <1>f, <2>3
    <2> HIDE DEF e
    <2>5. CASE b \in DOMAIN CountWidth /\ ReadNext("countBytes", CountWidth[b])
      <3>1. frames' = frames /\ pc' = "countBytes" /\ width' = CountWidth[b]
        BY <2>5 DEF ReadNext
      <3>2. CountWidth[b] > 0
        BY <2>5 DEF CountWidth
      <3>3. Since' = 1
        BY <3>1 DEF Since
      <3>4. Marks + Since' <= e
        BY <1>f, <2>4, <3>3
      <3> QED
        BY <1>d, <2>1, <2>2, <2>4, <3>1, <3>2, <3>4, PayloadPaid DEF InPayload
    <2>6. CASE NotCounted(b)
      BY <1>d, <2>1, <2>2, <2>4, <2>6, NotCountedPaid
    <2> QED
      BY <1>5, <2>5, <2>6 DEF ReadCount
  <1>6. ASSUME NEW n \in 0..MaxCount \cup {Uint8Code}, ReadCountBytes(n)  PROVE PaidInv'
    <2>1. Ready /\ pc = "countBytes" /\ Read /\ Counted(n) /\ n \in Nat
      BY <1>6, <1>a, <1>b, CodeTypes DEF ReadCountBytes
    <2>2. ReadSize = width /\ Partial = Marks + 1 /\ width > 0 /\ width \in Nat
      BY <2>1 DEF ReadSize, ByteReads, Partial, InPayload, Since, PaidInv, IInv, Registers
    <2> DEFINE e == Marks + 1 + width
    <2>3. Paid(frames, bytes_so_far', e)
      BY <2>1, <2>2, ReadPaid
    <2>4. e \in Nat /\ e >= Marks + 2
      BY <1>f, <2>2
    <2> HIDE DEF e
    <2> QED
      BY <1>d, <2>1, <2>3, <2>4, CountedPaid
  <1>7. CASE Loop
    <2>1. frames # <<>> /\ pc = "loop" /\ bytes_so_far' = bytes_so_far /\ Partial = 0
      BY <1>7, <1>c DEF Loop, InDescent, Partial, InPayload
    <2>2. Paid(frames, bytes_so_far', 0)
      BY <2>1 DEF PaidInv
    <2>3. CASE \/ Goto("end") \/ Goto("keyLen")
               \/ Top.kind = "HetroArray" /\ Goto("itemMarker")
      <3>1. /\ frames' = frames /\ pc' \in {"end", "keyLen", "itemMarker"}
            /\ pc' = "itemMarker" => Top.kind # "Object"
        BY <2>3 DEF Goto
      <3>2. Partial' = 0
        BY <3>1 DEF Partial, InPayload
      <3> QED
        BY <1>d, <1>e, <2>2, <3>1, <3>2, KeepPaid
    <2>4. CASE Top.left > 0 /\ Top.kind = "HomoArray" /\ Item(Top.mark)
      <3>1. Ready
        BY <1>7, <2>4, ReadyWhen DEF Loop
      <3>2. Marks <= 0
        BY <1>f, <2>1, <2>4 DEF Markers
      <3>3. Silent(Top.mark) => Cost(Top, Done(Top) + 1) <= Cost(Top, Done(Top)) + 0
        <4>1. Cost(Top, Done(Top)) \in Nat
          BY <1>e, <2>1, StackCosts DEF Top
        <4>2. Silent(Top.mark) => Cost(Top, Done(Top) + 1) = Cost(Top, Done(Top))
          BY <1>f, <2>1, <2>4, CostFacts
        <4> QED
          BY <4>1, <4>2
      <3> QED
        BY <1>d, <2>1, <2>2, <2>4, <3>1, <3>2, <3>3, ItemPaid
    <2> QED
      BY <1>7, <2>3, <2>4 DEF Loop
  <1>8. ASSUME NEW k \in Keys, ReadKeyLen(k)  PROVE PaidInv'
    <2>1. pc = "keyLen" /\ Read /\ ReadSize = 1 /\ Partial = 0
      BY <1>8 DEF ReadKeyLen, ReadSize, ByteReads, Partial, InPayload
    <2>2. Paid(frames, bytes_so_far', 1)
      BY <2>1, ReadPaid
    <2>3. frames' = frames /\ pc' = "keyBytes"
      BY <1>8 DEF ReadKeyLen, ReadNext
    <2>4. Partial' = 1
      BY <2>3 DEF Partial, InPayload
    <2> QED
      BY <1>d, <1>e, <2>2, <2>3, <2>4, KeepPaid
  <1>9. ASSUME NEW k \in Keys, ReadKeyBytes(k)  PROVE PaidInv'
    <2>1. Ready /\ frames # <<>> /\ pc = "keyBytes" /\ Read
      BY <1>9, <1>a, <1>b, <1>c DEF ReadKeyBytes, InItem
    <2>2. ReadSize = width /\ Partial = 1 /\ width \in Nat
      BY <2>1 DEF ReadSize, ByteReads, Partial, InPayload, IInv, Registers
    <2>3. Paid(frames, bytes_so_far', 1 + width)
      BY <2>1, <2>2, ReadPaid
    <2>4. Paid(frames, bytes_so_far', 1)
      <3>1. 1 + width \in Nat /\ 1 <= 1 + width /\ 1 \in Nat
        BY <2>2
      <3> QED
        BY <1>d, <1>e, <2>3, <3>1, PaidLess
    <2> QED
      BY <1>d, <1>9, <2>1, <2>4, KeyPaid
  <1>10. ASSUME NEW b \in Bytes, ReadMarker(b)  PROVE PaidInv'
    <2>1. Ready /\ frames # <<>> /\ pc \in {"keyMarker", "itemMarker"} /\ Read /\ Item(b)
          /\ ReadSize = 1
      BY <1>10, <1>a, <1>b, <1>c DEF ReadMarker, InItem, ReadSize, ByteReads
    <2>2. Cost(Top, Done(Top)) \in Nat /\ Cost(Top, Done(Top) + 1) \in Nat
      BY <1>e, <2>1, StackCosts DEF Top
    <2>3. CASE pc = "keyMarker"
      <3>1. Partial = 1
        BY <2>3 DEF Partial, InPayload
      <3>2. Paid(frames, bytes_so_far', 2)
        BY <2>1, <2>3, <3>1, ReadPaid
      <3>3. Cost(Top, Done(Top) + 1) <= Cost(Top, Done(Top)) + 2
        BY <1>f, <2>1, CostFacts
      <3>4. Marks <= 2
        BY <1>f
      <3> QED
        BY <1>d, <2>1, <3>2, <3>3, <3>4, ItemPaid
    <2>4. CASE pc = "itemMarker"
      <3>1. Partial = 0 /\ Top.kind # "Object"
        BY <2>4 DEF Partial, InPayload, PaidInv
      <3>2. Paid(frames, bytes_so_far', 1)
        BY <2>1, <2>4, <3>1, ReadPaid
      <3>3. Marks <= 1 /\ Cost(Top, Done(Top) + 1) <= Cost(Top, Done(Top)) + 1
        BY <1>f, <2>1, <3>1, CostFacts DEF Markers
      <3> QED
        BY <1>d, <2>1, <3>2, <3>3, ItemPaid
    <2> QED
      BY <2>1, <2>3, <2>4
  <1>11. CASE ReadNumber \/ ReadText
    <2>1. /\ Ready /\ pc \in {"number", "text"} /\ Read
          /\ \E t : Deliver(frames, Leaf(t))
      BY <1>11, <1>a, <1>b DEF ReadNumber, ReadText
    <2>2. ReadSize = width /\ Partial = Marks + Since /\ width \in Nat /\ Since + width >= 1
      BY <2>1 DEF ReadSize, ByteReads, Partial, InPayload, Since, PaidInv, IInv, Registers
    <2> DEFINE e == Marks + Since + width
    <2>3. Paid(frames, bytes_so_far', e)
      BY <2>1, <2>2, ReadPaid
    <2>4. Since \in 0..1
      BY DEF Since
    <2>5. e \in Nat /\ e >= Marks + 1
      BY <1>f, <2>2, <2>4
    <2> HIDE DEF e
    <2>6. ASSUME frames # <<>> PROVE Cost(Top, Done(Top) + 1) <= Cost(Top, Done(Top)) + e
      <3>1. Cost(Top, Done(Top) + 1) <= Cost(Top, Done(Top)) + Markers(Top) + 1
        BY <1>f, <2>6, CostFacts
      <3>2. Cost(Top, Done(Top)) \in Nat /\ Cost(Top, Done(Top) + 1) \in Nat
        BY <1>e, <2>6, StackCosts DEF Top
      <3> QED
        BY <1>f, <2>5, <2>6, <3>1, <3>2
    <2> QED
      BY <1>d, <2>1, <2>3, <2>5, <2>6, DeliverHerePaid
  <1>12. ASSUME NEW b \in Bytes, ReadTypeMark(b)  PROVE PaidInv'
    <2>1. Ready /\ pc = "typeMark" /\ Read /\ ReadSize = 1 /\ Partial = Marks
      BY <1>12, <1>a, <1>b, <1>f DEF ReadTypeMark, ReadSize, ByteReads, Partial, InPayload, Since
    <2>2. Paid(frames, bytes_so_far', Marks + 1)
      BY <2>1, ReadPaid
    <2>3. frames' = frames /\ pc' = "count" /\ asked' = "HomoArray"
      BY <1>12 DEF ReadTypeMark
    <2>4. Since' = 0
      BY <2>3 DEF Since
    <2>5. Marks + Since' <= Marks + 1 /\ Marks + 1 \in Nat
      BY <1>f, <2>4
    <2> QED
      BY <1>d, <2>1, <2>2, <2>3, <2>5, PayloadPaid DEF InPayload
  <1>13. ASSUME NEW b \in Bytes, ReadEnd(b)  PROVE PaidInv'
    <2>1. frames # <<>> /\ pc = "end" /\ Read /\ ReadSize = 1 /\ Partial = 0
      BY <1>13, <1>c DEF ReadEnd, InDescent, ReadSize, ByteReads, Partial, InPayload
    <2>2. Paid(frames, bytes_so_far', 1)
      BY <2>1, ReadPaid
    <2>3. CASE Fail("Object is incomplete otherwise corrupt")
      BY <1>d, <2>3, UnwindPaid DEF Fail
    <2>4. CASE Deliver(Callers, Top.val)
      BY <1>d, <1>e, <2>1, <2>2, <2>4, DeliverBackPaid
    <2>5. CASE /\ pc' = "homoTail"
               /\ UNCHANGED <<asked, width, marker, frames, out, last_error, result>>
      <3>1. Partial' = 0
        BY <2>5 DEF Partial, InPayload
      <3> QED
        BY <1>d, <1>e, <2>2, <2>5, <3>1, KeepPaid
    <2> QED
      BY <1>13, <2>3, <2>4, <2>5 DEF ReadEnd
  <1>14. CASE HomoTail
    <2>1. frames # <<>> /\ bytes_so_far' = bytes_so_far /\ pc = "homoTail" /\ Partial = 0
      BY <1>14, <1>c DEF HomoTail, InDescent, Partial, InPayload
    <2>2. Paid(frames, bytes_so_far', 0)
      BY <2>1 DEF PaidInv
    <2>3. CASE Deliver(Callers, Top.val)
      BY <1>d, <1>e, <2>1, <2>2, <2>3, DeliverBackPaid
    <2>4. CASE Fail("empty HomoArray is ill-formed")
      BY <1>d, <2>4, UnwindPaid DEF Fail
    <2> QED
      BY <1>14, <2>3, <2>4 DEF HomoTail
  <1> QED
    BY <1>1, <1>2, <1>3, <1>4, <1>5, <1>6, <1>7, <1>8, <1>9, <1>10, <1>11, <1>12,
       <1>13, <1>14 DEF Next, Parse

\* Whatever counts a stream announces, and however it nests its containers,
\* what a call has built, and its stack, is paid for by bytes of the stream,
\* and those are within max_object_size.
THEOREM ItemsArePaidFor == Spec => []ItemsPaidFor
  <1>1. IInv /\ PaidInv => ItemsPaidFor
    <2> SUFFICES ASSUME IInv, PaidInv, NEW i \in 1..Len(frames)
                 PROVE  Len(frames) + Cost(frames[i], frames[i].count - frames[i].left)
                          <= bytes_so_far
      BY DEF ItemsPaidFor, PaidInv, Budget
    <2>1. Stack(frames) /\ Len(frames) \in Nat /\ frames # <<>> /\ bytes_so_far \in Nat
      BY StackLen, StackEmpty DEF IInv, PaidInv, Budget
    <2>2. Paid(frames, bytes_so_far, Partial) /\ Partial \in Nat
      BY <2>1, MarksFacts DEF PaidInv, IInv, Placed
    <2>3. Activation(frames[i]) /\ Cost(frames[i], Done(frames[i]) + 1) \in Nat
      BY <2>1, StackCosts DEF Stack
    <2>4. Done(frames[i]) \in Nat /\ Cost(frames[i], Done(frames[i])) \in Nat
          /\ Cost(frames[i], Done(frames[i])) <= Cost(frames[i], Done(frames[i]) + 1)
      BY <2>3, CostFacts
    <2>5. Len(frames) + Cost(frames[i], Done(frames[i])) <= bytes_so_far
      <3>1. CASE i = Len(frames)
        BY <2>1, <2>2, <2>4, <3>1 DEF Paid
      <3>2. CASE i < Len(frames)
        <4>1. Len(frames) + Cost(frames[i], Done(frames[i]) + 1) + Partial <= bytes_so_far
          BY <2>1, <2>2, <3>2 DEF Paid
        <4> QED
          BY <2>1, <2>2, <2>3, <2>4, <4>1
      <3> QED
        BY <2>1, <3>1, <3>2
    <2> QED
      BY <2>5 DEF Done
  <1> QED
    BY <1>1, InitInv, NextInv, InitPaid, NextPaid, PTL DEF Spec
=============================================================================
