# UbexCpp: a verification project in TLA+

UbexCpp (namespace `timl`) is a small C++11 library for a binary variant of JSON:

* `Value` (`include/value.hpp`, `src/value.cpp`), a dynamically typed tree: a tag beside a
  hand-managed union of scalars, a string, a byte string, a vector and a map of
  `std::unique_ptr<Value>`;
* `StreamWriter` (`include/stream_writer.hpp`), which writes a `Value` to a stream;
* `StreamReader` (`include/stream_reader.hpp`), a recursive-descent reader of such a stream, with
  limits on depth and on bytes (`ValueSizePolicy`).

The library starts no threads and persists nothing. What is hard in it is sequential: manual
lifetime in a union, arguments that alias the object they are passed to, exceptions that leave
an operation half done, a stream that ends anywhere, counts that come from the stream, and
counters that must agree with a native call stack. The models are about these.

## 1. Inventory

| component | state | operations | who calls it | hard behaviour | module |
|---|---|---|---|---|---|
| `Value`, ownership | `vtype`, the union `value`; the nodes `unique_ptr`s own | constructors, `operator=`, `push_back`, `operator[](key)`, `remove`, `swap`, `~Value`, conversions that return references | the program, reader | aliased operands, tag and member out of step, `bad_alloc` half-way, leaks | `ValueStore` |
| `Value`, as a user sees it | trees | the same | | every call has its documented effect and no other | `ValueSemantics` |
| `StreamReader` | `stream`, `bytes_so_far`, `recursive_depth`, `last_error`; the native stack | `getNextValue` and the `extract_*` functions | the program; stores through `operator[]` and `push_back` | truncated streams, counts from the stream, limits, early exits by exception | `StreamReader` |
| `StreamWriter` | `stream` | `writeValue` and the `append_*` functions | the program; reads `keys()`, `size()`, `operator[]` | a part that writes nothing, a flag that is overwritten, an exception in mid-object | `StreamWriter` |
| `Value`, conversions and `operator==` on numbers | none | `asInt64`, `asUint64`, `asFloat`, `asBool`, `asInt`, `asUint`, `asString`, `asBinary`, `operator int` | the program, the writer, `remove`, `find` | range tests in `double`, sign, rounding, casts without a defined result | `ValueConversions` |
| iterators, `find` | a parent, an iterator of a vector, an iterator of a map | `value_iterator`, `begin`, `end`, `find`, `remove` | the program | the parent's tag is read at every operation; what is alive when the container changes | `ValueIterators` |
| `to_ostream` | the indentation string | printing | the program | push and pop of the indentation | not modelled |
| `types.hpp`, `stream_helpers.hpp` | none | markers, byte order | reader, writer | | as far as reader and writer use them |
| `exception.hpp` | a text | | | which ones `getNextValue` catches | in `StreamReader` |
| `include/value.cpp` | | | nothing compiles it | | not modelled |
| `main.cpp`, tests | | | | clients | not modelled |

`keys()` is in `StreamWriter`, as the order in which the members are written. What is still planned is
in section 8.

## 2. The modules and how they are composed

```
ValueSemantics <--refines-- ValueStore <- MCValueStore, ValueStoreProofs <- ValueOwnershipProofs
ValueOwnershipProofs <- ValueGraphProofs
ValueConversions <- MCValueConversions, ValueConversionsProofs
ValueIterators <- MCValueIterators, ValueIteratorsProofs
StreamReader <- MCStreamReader, StreamReaderProofs
StreamWriter <- WrittenValues <- MCStreamWriter,   StreamWriter <- StreamWriterProofs
StreamReader + WrittenValues -> RoundTrip <- MCRoundTrip
RoundTrip, StreamWriterProofs <- RoundTripProofs
```

**`ValueStore`** models `Value` as memory. `st.vtype[c]` is `vtype`, `st.held[c]` the union member
whose constructor has run and whose destructor has not, `st.data[c]` a leaf. Every element of a
container is a heap node; `st.owner[h]` says whose container holds its `unique_ptr`, or that a
`unique_ptr` on the stack holds it (`Uptr`), that it is not allocated (`Free`), or that it has been
lost (`Stray`). The private helpers of `value.cpp` (`destruct`, `construct_from...`, `move_from`,
`copy_from`, `unique_ptr_copy`) are functions from state to state, composed in the order of the
code. So `v = v["x"]` reads a destroyed Value in the model because the code destroys before it
reads, not because a rule says so. One action is one call of a public operation; a call with an
argument that aliases its target is the same action with related arguments. `st.ub` is set when a
destroyed object or an absent union member is touched, and then the program stops: what follows
is not defined. With `AllocMayFail` the actions that end in `Fails` stop an operation at the places
where `make_unique` or a container may throw, as far as the place leaves a state of its own. Scalars
are one tag, `String` and `Binary` another. `size()`, `type()` and the predicates do not change a
Value and are not actions. An index out of range is undefined behaviour and no call of the model
makes it.

`Client` says which calls the program makes: `"any"` all of them; `"safe"` no copy from a part of
the target, no move or swap between a Value and a part of it, no push_back that moves what the
target is a part of, or an Array or a Null into itself; `"exact"` also no copy into a part of the
source, no move of a Value to itself, by assignment or by push_back, and no push_back of a copy of
the target or of what it is in, unless it is an array already. (A String, a Map or a scalar that is
pushed into itself becomes an array of its old content and a Null, which is defined and so left to
`"safe"`.) The last two are what a careful program does; none of it is in the documentation. The
runs look at these two, the proofs at all three. `MisuseIsFatal` says of every call that `"safe"`
leaves out, of assignment, `swap` and `push_back`, that it touches a destroyed Value or an absent
member or leaves a cycle of Values that own each other, whenever its allocations succeed: the
discipline asks for no more than the code needs.

**`ValueSemantics`** has variables holding trees, and operations that change a place in a tree. It
knows no addresses. `MCValueStore` reads the tree of each variable off the nodes (`Tree`) and
states that the store implements the trees (`ImplementsValues`).

**`ValueConversions`** has one operator per conversion function, and a program that stores what a conversion
returns and converts it again, so that a property can speak of chains of calls. The widths of the words are
constants. A double is a whole number of small units; `Doubles` says which of them are doubles and
`Nearest` rounds, so that `in_range`, which compares doubles, compares rounded limits as the code does.
A cast of a double without a defined result gives every number of the type (`Cast`). A text is what it
reads as. `asBinary` gives bytes that no property looks at.

**`ValueIterators`** has the program's Values as sequences of elements in the order of iteration, one
iterator with the end it is compared with, and as its actions the steps of a range-for loop or of a use of
`find`, with any calls on any Value in the loop's body or before the result is used. An
iterator has its parent and both members, `arr_iter` and `map_iter`; `Selected` is the one that the parent's
present tag selects. Each changing call says which places it invalidates, as the standard says of
`vector` and `unordered_map`, and where those of a moved container now are. `ub` is the use of an invalid
place or of a destroyed parent. The history variable `tame` says that the loop's body has not left the
loop's Value another container or destroyed; it may take the container away by assignment, move or swap
as long as what is there after it is no container, and may erase other keys of a Map. The repository does not say any of this; `NoUB` says
that it is enough, `RoughIsFatal` that it asks for no more than the code needs.

**`StreamReader`** turns the recursive descent into a machine with an explicit stack. `frames` is
the stack of `extract_nextValue` activations with their locals (`value_count`, `type`, `type_mark`,
`key`, and the Value filled, which in the code is the local `value` of the activation above).
`pc` names the next call of `read()`; each action is one `read()` with what the code does until the
next. The bytes are parameters of the actions and any byte can come: `Parse` quantifies over
`Bytes`. `short` is the state of the stream, which no code looks at. `Fail` is a
`parsing_exception` that unwinds all activations, what was read staying in the caller's Value;
`Escape` is `value_exception`, which `getNextValue` does not catch. Uninitialized buffers after a
failed read are arbitrary bytes. The quirk that a width marker `W` makes an object's count follow is
in `ReadCount`, the fall through after a homogeneous array in `HomoTail`.

**`StreamWriter`** has in `calls` the stack of `append_object`/`append_array` activations, each with
the pair `rtn` of the code. `AppendLeaf` is one member with its key, from `append_key` to the second
`update`; `AppendContainer` a key and the start of the container below; `Close` an end marker and
the return. `Orders` has every order of a Map's keys, as `unordered_map` may. `sent` is the bytes as
a sequence of fields, each with its size, beside their total, which is not computed as the code
computes it. A write may break the stream (`broken`), which no code looks at.

**`RoundTrip`** puts the two on one stream without changing either: `Take` gives the parameters of
the reader's actions the fields the writer has sent. A `read()` that finds a field of another kind
or size sets `lost`. The reader's steps for homogeneous arrays are left out of this composition
since the writer never starts one; the reader's own runs have them.

## 3. What is checked

| run | result | states | what it shows |
|---|---|---|---|
| `value_exact` | pass | 19 000 | values behave as trees: refinement of `ValueSemantics`, no leak, dense positions |
| `value_safe` | pass | 70 000 | with `bad_alloc` anywhere, no undefined behaviour and truthful tags; after each call every node is in a container of a Value that is alive, but for those that finding 1 had hidden before (`OnlyHiddenIsLost`); and the discipline asks for no more than the code needs (`MisuseIsFatal`) |
| `value_leak` | violation of `NoLeak` | | finding 1 |
| `conversions` | pass | 25 000 | all chains of conversions from all Values: what the header promises of numerics holds but on the limits and for `asFloat` of negative integers (`OnlyLimitsDepart`), for `asInt` everywhere; the words of other Values agree, false is zero, equality is numeric on small naturals, naturals stay naturals and do not creep upwards |
| `conversions_doc` | violation of `NumberOrZero` | | finding 6 |
| `iterators` | pass | 770 000 | loops and results of `find` among any calls: no undefined behaviour, each element that stays is visited once and in order, `find` finds what it looked for, loops end; what `NoUB` excludes is undefined in all cases but one |
| `reader` | pass | 1.6 million | what is built has been paid for in bytes within the budget (`ItemsPaidFor`); depth, counts, exceptions, termination, over all streams |
| `reader_short`, `reader_homotail` | violations | | findings 2, 3 |
| `writer_nan`, `writer_broken` | violations | | findings 4, 5 |
| `round_trip` | pass | 26 000, from 506 Values | the size returned is the size sent and success is not lost on the way up, over a stream that may fail; what is written is read back to the last byte, or refused by the policy |

Each property of a passing run has a mutant in `PROJECT.json`: the definition it changes, the bug it
plants, next to the definition in the module. A property is listed only if its mutant breaks it.

Findings, with the code and the text it disagrees with in `PROJECT.json`:

1. `push_back` on a scalar runs out of memory after it has built the array: the old content leaks.
2. A truncated stream can be read with success: `read()` never looks at the stream.
3. A complete homogeneous array is refused, unless its count is 41 modulo 256, as `')'` is.
4. A NaN, an infinity or a size from 2^32 on writes nothing, and the flag of the next member hides it.
5. `writeValue` reports success on a stream that has failed.
6. The header says that a numeric is converted to itself if it fits and to 0 otherwise. `asFloat` of a negative
   integer is 0, so that `operator==` finds `Value(-1)` equal to `Value(-2)` and different from `Value(-1.0)`:
   this is the one the run shows. The others are on the limits: `asInt64` of the UnsignedInt 2^63 is
   `LLONG_MIN`, and the Floats 2^63 and 2^64 reach casts without a defined result in `asInt64` and
   `asUint64`. `OnlyLimitsDepart` says that these are all.

What two of the properties do not say. `ImplementsValues` asks that each call be some operation on trees, not
that it be the one of its name: a copy that behaved as a move would pass. `ItemsPaidFor` leaves null, true and
false in a homogeneous array free, as the code does: only their count is paid for.

## 4. Bounds

* `ValueStore`: two variables, three heap nodes, two keys, one payload. Three nodes give a container
  in a container with a sibling, a swap with an inner part, and `push_back` on a scalar (two nodes)
  with one more Value alive. Two keys and one payload suffice for equal and different elements (a
  scalar differs from a string by its tag). Heap nodes are interchangeable: `SYMMETRY` is used with
  them only. Running out of nodes is running out of memory, which the code meets as `bad_alloc`;
  where `AllocMayFail` is FALSE calls that need more nodes are not made, so `CHECK_DEADLOCK` stays on
  wherever a program can always make another call.
* `ValueConversions`: a machine of 5 bits. `long long` is -16..15, `int` and `char` are -2..1, a double has two
  bits of mantissa and the unit is 1/4. So a double is exact on every `int` and rounds inside `long long`, as
  on the real machine, where doubles lie up to 4 apart: rounding moves a number by more than 1, which a machine
  of 4 bits cannot show. 15, like `LLONG_MAX`, rounds up to a number its type does not have. All Values of that
  machine are initial states, and arrays have up to two elements.
* `ValueIterators`: two Values, four elements, at most three in a container. Three give an erased element
  before, at and after the iterator; two elements have the same content, so that `find` has a
  first one and `remove` leaves one; one label is no String, so that a Map is looked up by the text of its
  argument. `seen`
  grows to one more than there were elements when the loop began, which tells a loop that has gone wrong. After a call that is not
  tame the body makes no other, since the next step of the loop is what is asked about.
* `StreamReader`: `MaxCount` is the greatest count in a stream, `Uint8Code` and `HomoEndCode` stand for
  the bytes 73 and 41 with which the code compares counts; they are 2 and 1 so that counts can be
  equal to them and different from them. Depth 2 and a budget of 11 bytes let containers of every kind
  nest in each other with an item to spare, let the budget end at every `read()`, and let the depth be
  exceeded. Two keys give objects with two members and with one member twice; of the scalars, `"n"` has
  no byte, `"I"` one, and `"s"` a count and a text. The caller's Value is Null, a Map that has one of the keys, or a
  Char, into which nothing can be stored.
* `StreamWriter`: `Umax` and `Smin` stand for the limits of the widths: 3, 7, 15 and -2, -4, -8
  instead of 255, 65535, ... The Values lie on both sides of every limit and on it. The
  key lengths are real: 0, 255 and 256. Values are at most three containers deep.
* `RoundTrip`: the same Values, `max_value_depth` 2, so that some are too deep; a budget of 266 bytes,
  so that one key of 255 bytes fits and what follows may not.

## 5. Fairness and deadlock

`Termination` of a call of `getNextValue` assumes `WF_vars(Parse)`: the reader is sequential code, and a
call that has begun is carried on. Nothing is assumed of the stream: a read that has ended comes back
like any other. `Termination` would fail under a stream that blocks for ever, which `std::istream` leaves
to its buffer and the model leaves out.

`LoopEnds` of a range-for loop assumes `WF_vars(LoopStep)`: the body of a loop, which may call anything,
comes back, and the loop goes on. A body that is not tame may make a loop endless, by adding an element
each time round, and is excluded by name.

`CHECK_DEADLOCK FALSE` is in `round_trip`, which ends when the Value has been read, and in `iterators`, where
the program stops at undefined behaviour.

## 6. What is proved

The proofs hold for every value of the constants that the `ASSUME`s admit: any set of variables, nodes,
keys and Values, any policy, any width limits. Every safety invariant and every action property of a passing
run is proved, but for the refinement of `ValueSemantics`.

| module | theorem | inductive invariant |
|---|---|---|
| `ValueStoreProofs` | `TypeCorrect == Spec => []TypeOK` | `TypeOK` itself: each helper maps `State` to `State`; the work is that `Below`, the set of nodes a destructor reaches, is closed and minimal |
| | `TagsTruthful == Spec => []TagTruthful` | `TypeOK /\ Truthful(st)`. Needs that the nodes a copy fills are free ones and not its target |
| `ValueOwnershipProofs` | `NullsAreEmpty`: `NullIsEmpty`, if no allocation fails | `TypeOK /\ BlankBut(st, {})`. Inside a call there is a Value whose tag is Null while its union is not empty, so the lemmas about the helpers carry the set of those Values. Without the condition it is false: `push_back` on a scalar that runs out of memory leaves such a Value behind (finding 1) |
| | `NothingElseIsLost`: `OnlyHiddenIsLost`, if `Client # "any"` | `Quiet(st)`: the tags are truthful (`Truthful`), each owner of a node is alive and has a container (`Owned`), free nodes are blank (`FreeIsBlank`), no node is owned by the stack and the locals of the calls are empty. Inside a call nodes do pass through locals and the stack and tags do lie, so the lemmas about the helpers carry `Guarded(s, L, X)`: every node outside `L`, those that were hidden before the call, has a `unique_ptr` that destruct can see, but for the Values of `X` whose tag is late. With the client `"any"` a move into a descendant loses whole cycles |
| | `NeverCrashes`: `NoUB`, if `Client # "any"` | `Quiet(st)` again. With the client `"any"` it is false, as `MisuseIsFatal` says |
| | `MisuseAlwaysFatal`: `MisuseIsFatal`, if `Client # "any"` | `Quiet(st)`. A node below the target is freed before it is read. After a move into a descendant the nodes between the two own each other: no set that is closed under reaching and begins at a variable has one of them |
| `ValueGraphProofs` | `NothingLeaks`: `NoLeak`, if `Client # "any"` and no allocation fails | `TypeOK /\ Whole(st)`: `Quiet`, `BlankBut(st, {})`, and every allocated node is below a variable or a local (`Rooted`). The lemmas say of each helper which roots it needs after it that it did not need before. With `AllocMayFail` it is false: finding 1 |
| | `SlotsHold == Spec => [](NoUB => SlotsOK)` | `st.ub \/ (Quiet(st) /\ Slotted(st))`. `Slotted` says it of every Value by the member alive in its union, for `SlotsOK` reads the tag, which is late in `push_back`, and speaks only of what a variable reaches, while calls build in locals and in nodes of the stack. `vector::erase`, `emplace_back` and the copy of a tree are counting arguments: what is left of `1..n` is `1..n-1`, and the nodes of a copy are as many as those of the original |
| | `SlotsAlwaysHold`: `SlotsOK`, if `Client # "any"` | the former and `NeverCrashes` |
| `ValueConversionsProofs` | `ConversionsTypeCorrect == Spec => []TypeOK` | `TypeOK` itself; the work is that each function stays within its type for every monotone rounding, undefined casts included |
| | `WordsAlwaysAgree`, `FalseIsAlwaysZero`, `EqualIsAlwaysNumeric` (`Spec => []` each of `WordsAgree`, `FalseIsZero`, `EqualIsNumeric`) | `TypeOK`: each holds of every Value, case by case of its type |
| | `OnlyTheLimitsDepart == Spec => []OnlyLimitsDepart`, `NarrowingIsExact == Spec => []NarrowIsExact` | `TypeOK`. The argument is about `in_range`: every number of the type passes the test on doubles (`WordInRange`, `FitsIsInRange`), and one that passes is in the type or is the limit that rounding adds to it (`InRangeFits`). The limit is no `int`, so the narrow conversions keep the promise |
| | `ChainsAlwaysShrink == Spec => []ChainsShrink` | `TypeOK /\ ChainInv`: a chain is at a number not above the first one, or at the whole number at or above its rounding, which is a double, prints as itself and is below 2^63. `ChainsShrink` alone does not exclude a number that the next conversion rounds up |
| `ValueIteratorsProofs` | `IteratorsAreSafe == Spec => []NoUB` | `IInv`: the Values are well formed; while the loop is tame, the two iterators have the loop's Value as parent, and if that is a container both are valid places of it, the first one an element whenever it is about to be used. `NoUB` is not inductive since it says nothing of the step before |
| | `IteratorsTypeCorrect == Spec => []TypeOK` | `TInv`: no two Values share an element, and a valid place is in the container it names |
| | `FindsWhatItFound == Spec => FindsIt` | `IInv`, and that the element at the iterator has the label looked for, from the search on and not only when it is used (`FindInv`) |
| | `LoopsVisitEach == Spec => VisitsEach` | the former and `LoopInv`: what has been seen and what is there now are each part of the elements at the start; what has been seen comes before the iterator in that order, and what is there and not seen at it or after it |
| | `RoughIsAlwaysFatal == Spec => RoughIsFatal` | `IInv`, `TInv` and that what is left valid of `last` is the end of its parent (`EndInv`), which does not move with the content |
| `StreamReaderProofs` | `ItemsArePaidFor == Spec => []ItemsPaidFor` | `IInv` and `PaidInv`: at every `pc` the bytes read pay for the stack, for the items of each activation and for what has been read of the item under way (`Partial`); an activation that waits for an inner one has paid for one item more, which is the inner one. `ItemsPaidFor` does not say what the next item has paid so far |
| | `DepthNeverExceeds == Spec => []DepthBounded` | `IInv`: beside the bound, that the counter agrees with the stack at every `pc`, that an item is read only with an activation to take it, and that each activation has `left <= count` |
| | `ReaderTypeCorrect == Spec => []TypeOK` | the same, with the registers' types |
| | `CountsAreKept == Spec => []ItemsAsAnnounced` | `IInv`, `Contents`: the items of an array are a sequence of `count - left`, and an object the reader has made is Null or a Map with finitely many keys, at most one for each item read. `ItemsAsAnnounced` does not say that the Value an activation fills can still be stored into |
| | `ThrowsForRootOnly == Spec => []ThrowsOnlyForRoot` | the same, with `AtRoot`: before the first activation only its count is asked for. A Value made by the reader is one that takes a key, so only the caller's throws |
| `StreamWriterProofs` | `WriterTypeCorrect == Spec => []TypeOK` | `IInv` below |
| | `BytesAreCounted == Spec => []BytesCounted` | `IInv`: `BytesCounted` says nothing until `writeValue` returns, so the invariant says that the sizes in all activations together, less the end markers that arrays have counted and not yet written, are the bytes sent (`Balanced`). Each step changes the last term, adds one or removes one |
| `RoundTripProofs` | `CleanIsReported == SystemSpec => []CleanSucceeds` | `WriterInv`, that is `IInv` of the writer with `Story` below, and `CleanInv`: while such a Map is written the flag is set in every activation of the stack, since `update` takes over the last one and each part gives one that is set. `CleanSucceeds` speaks only of the end |
| | `WrittenIsReadBack == SystemSpec => []ReadsBack` | `SystemInv`, explained below |
| | `ReaderInSync == SystemSpec => []InSync` | the same |

The assumptions used are the named `ASSUME`s of the modules; every one of them is evaluated by a run.
`Balanced` states a sum with a function of partial sums rather than a recursive operator. Six theorems have a
hypothesis beside them, on `Client` or `AllocMayFail`: these are the two ways in which a program may differ, and
the table says what breaks the property without it; the run `value_safe` has the first with
`AllocMayFail = TRUE`, the run `value_exact` both with `AllocMayFail = FALSE`.

**What is read back.** The inductive invariant of `WrittenIsReadBack` relates a reader in the middle of a stream to
a writer that has left. It has to know of what was sent which fields make one part; but the fields are a flat
sequence, and by then the writer's stack is empty. So `Story` says of every state of the writer that there is a story (`Told`): the
stacks of activations it has gone through, each got from the one before by taking a member or by ending
(`Moves`), and for each of them what has been sent since, which is the output of that move followed by what was
sent after the next stack. A step of the writer adds one stack to the story. No history variable is needed; the
story is an existential quantifier in the invariant, which TLC cannot evaluate, and which the run checks by
its consequences. `ReaderInv` says that a reader of a Value the format can hold is in step (`InStep`): it stands at
some stack of the story or between that one and the next, at one of fourteen places (`AtLoop`, `AtKeyLen`,
`AtMember`, `AtText`, ...), each of which says what `pc` and the registers are, that what is left in the
stream is what the story says was sent since, and that `frames` are the writer's activations, each filled with
what is left of the members taken so far (`Between`, `Under`, `Fresh`). For each place there is one
lemma that says which field its `read()` is meant to find (`...Awaits`) and one that says
where the reader is after it (`...Step`). From the former follow `ReaderInSync` and that the policy is the
only reason to refuse; from the latter, at the last place of the last stack, that `out` is `Canon[value]`. That
`Admitted` is exactly what the policy asks uses the two counters: `bytes_so_far` is the size of what has been read
of the story, and the depth of a member that has been stored plus that of its activation is within
`max_value_depth`, whichever member was the deepest.

`Parts`, `Depth` and `Canon` are recursive functions on `Tree`. What each of them is (the equation that
defines it) is itself proved, from `NestingAssumption`: a Value owns its members, so there is a
finite depth and no Value is a part of itself. The functions are built up by depth (`DepthStages`, `CanonStages`),
and in `PartsAre` the parts of a Value are the least set with it that has the members of its elements. `StreamAssumption` says that the reader's
bounds `MaxCount` and `Keys`, over which its actions choose, cover what the writer can send; it is about the two
models and not about the code. `TreeAssumption` says of a `Float` that its width is 4, 8, or 0 if it has no form.

`ChainsAlwaysShrink` and `OnlyTheLimitsDepart` use `ExactAssumption`: a double rounds to itself, doubles with a
fraction are below the greatest `long long`, and a whole number next to one is a double. These are so for IEEE
doubles, which have fractions below 2^52 and all whole numbers up to 2^53. The proof of the former changed its property: it had said that a chain
ends at most one above the number it began with, which holds on a machine of 4 bits and fails where doubles lie
more than 2 apart, since a large integer is rounded up to the next double. `ChainsShrink` now says what the
code does promise, one above the rounding, and the run has the wider machine.

## 7. What is only model-checked, and what is not modelled

Checked and not proved: the refinement of `ValueSemantics`, whose trees are recursive; `Termination` and
`LoopEnds`. Liveness under fairness and `ENABLED` are beyond the prover, and so is every module that declares a
`RECURSIVE` operator: `ValueSemantics` and `MCValueStore` do, and have no theorems for that reason.

Not modelled: the bytes inside numbers and texts, and their order (`htobe16` and the like: pure);
the policy's `max_array_items`, `max_object_items`, `max_string_size` and `max_binary_size`, which no
code reads (`value.hpp:607` says of the first "This dictates the maximum items Value::size() in an
Array"); the bytes of `asBinary` and the letters of `asString`; `to_ostream`, which
prints; `common_array_type`, which nothing calls; `include/value.cpp`, an older copy that no
`CMakeLists.txt` compiles; `contains` and the `find` of a const Value, which change nothing and, where they do not
throw on a Map for want of a String, look for what `find` looks for; `main.cpp` and the tests, which are clients. A program that runs out of
memory inside the reader or the writer is not modelled, only inside `Value`.

An iterator of a container inside another one is not modelled; what holds of it is what holds of its parent.

## 8. Plan

1. `to_ostream`: the push and pop of the indentation (`value.cpp:868-937`), through exceptions of the stream.
