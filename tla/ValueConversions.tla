-------------------------- MODULE ValueConversions --------------------------
(***************************************************************************)
(* The conversions of timl::Value (src/src/value.cpp): the as... functions, *)
(* operator int, and operator== on leaves.  A program converts a Value     *)
(* again and again, each time into a new Value.                            *)
(*                                                                         *)
(* A Value is [type, num]: the number of a numeric, the code of a Char, 0  *)
(* or 1 for a Bool, the count of a container, what a String reads as.  The *)
(* widths of the machine are constants, so that they can be small.  A      *)
(* double is a whole number of units, One of them to the number 1; not all *)
(* of them are doubles, and Nearest rounds.  Where a cast has no defined   *)
(* result, a conversion has every result of its type: the functions that   *)
(* meet such a cast return the set of their results.                       *)
(***************************************************************************)
EXTENDS Integers

CONSTANTS
  LL, II, CC,   \* long long is -LL..LL-1, int is -II..II-1, char is -CC..CC-1
  One,          \* the units in 1
  Doubles,      \* the doubles, in units; NaN and the infinities are among them
  Infinity,     \* bound: the infinity, greater than what any number comes to
  NaN,
  Nearest,      \* rounds a number of units to a double
  Epsilon,      \* numeric_limits<double>::epsilon(), in units
  Grain,        \* the units in the last decimal of std::to_string
  Zero,         \* the code of the character '0'
  Texts,        \* what Strings can read as
  NoNumber,     \* what a String reads as that is not a number
  MaxItems      \* bound: the items of a container

LongLong  == -LL..(LL - 1)
ULongLong == 0..(2 * LL - 1)
Int32     == -II..(II - 1)
UInt32    == 0..(2 * II - 1)
Chars     == -CC..(CC - 1)
Numeric   == {"SignedInt", "UnsignedInt", "Float"}

\* The whole numbers that are converted to double, in units.
Span == (-2 * LL * One)..(2 * LL * One)

ASSUME WidthAssumption ==
  /\ LL \in Nat /\ II \in Nat /\ CC \in Nat /\ 0 < CC
  /\ CC <= II /\ 2 * II <= LL /\ LL % 2 = 0
ASSUME UnitAssumption == One \in Nat /\ Epsilon \in Nat /\ Grain \in Nat
  /\ 0 < Epsilon /\ Epsilon < One /\ 0 < Grain /\ Grain < One /\ One % Grain = 0
ASSUME DoubleAssumption ==
  /\ Doubles \ {NaN} \subseteq Int /\ NaN \notin Int
  /\ Infinity \in Doubles \cap Nat /\ 3 * LL * One < Infinity
ASSUME ItemsAssumption == MaxItems \in 1..(LL - 1) /\ Zero \in Chars

\* Rounding keeps the order, has the limits of the types among its results,
\* and is exact on every int: a double has more bits than an int, and fewer
\* than a long long.
ASSUME RoundingAssumption ==
  /\ Nearest \in [Span -> (Doubles \ {NaN}) \cap Span]
  /\ \A x, y \in Span : x <= y => Nearest[x] <= Nearest[y]
  /\ \A n \in (-2 * II)..(2 * II) : Nearest[n * One] = n * One
  /\ \A n \in -LL..(2 * LL) : LL \in {-n, n, n - LL, 2 * n - 2 * LL} => Nearest[n * One] = n * One

\* A double is its own rounding; where doubles have fractions, whole numbers are
\* doubles, and those are below the greatest long long and not below the least.
ASSUME ExactAssumption ==
  /\ \A x \in Doubles \cap Span : Nearest[x] = x
  /\ \A x \in Doubles \cap Span :
       x % One # 0 => x \div One \in -LL..(LL - 2) /\ (x \div One + 1) * One \in Doubles

VARIABLES
  v,        \* the Value
  origin,   \* the literal it has been converted from
  cut       \* operator int has left out bits on the way

vars == <<v, origin, cut>>

-----------------------------------------------------------------------------
NumOf(t) ==
  CASE t \in {"Null", "Binary"} -> {0}
    [] t = "Bool"               -> {0, 1}
    [] t = "Char"               -> Chars
    [] t = "SignedInt"          -> LongLong
    [] t = "UnsignedInt"        -> ULongLong
    [] t = "Float"              -> Doubles
    [] t = "String"             -> Texts
    [] t \in {"Array", "Map"}   -> 0..MaxItems

Types == {"Null", "Bool", "Char", "String", "Binary", "Array", "Map"} \cup Numeric
Value(t, n) == [type |-> t, num |-> n]
AllValues   == UNION {{Value(t, n) : n \in NumOf(t)} : t \in Types}

isNumeric(x) == x.type \in Numeric

\* Value::size.
size(x) ==
  CASE x.type = "Null"             -> 0
    [] x.type \in {"Array", "Map"} -> x.num
    [] OTHER                       -> 1

Readable(x) == x \notin {NaN, NoNumber, Infinity, -Infinity}

Trunc(x) == IF x >= 0 THEN x \div One ELSE -((-x) \div One)

\* Mutant of in_range: the limit itself is out of range.
in_range_Below(x, lo, hi) ==
  x # NaN /\ Nearest[lo * One] <= x /\ x < Nearest[hi * One]

\* in_range, on doubles: the limits are rounded too.
in_range(x, lo, hi) ==
  x # NaN /\ Nearest[lo * One] <= x /\ x <= Nearest[hi * One]

\* Mutant of Wrapped: an unsigned number is taken for a signed one as it is.
Wrapped_Not(n) == n

\* Conversions between the two integers of 64 bits, modulo 2^64.
Wrapped(n) == IF n < LL THEN n ELSE n - 2 * LL

Unsigned(n) == IF n < 0 THEN n + 2 * LL ELSE n

\* A double that is cast to the integers S; undefined outside of them.
Cast(x, S) == IF Trunc(x) \in S THEN {Trunc(x)} ELSE S

\* std::stoll and std::stoull.  The second takes a minus sign, and negates.
stoll(x)  == IF Readable(x) /\ Trunc(x) \in LongLong THEN Trunc(x) ELSE 0
stoull(x) == IF Readable(x) /\ (Trunc(x) \in ULongLong \/ -Trunc(x) \in ULongLong)
             THEN Unsigned(Trunc(x)) ELSE 0

\* std::stod; what it throws is caught.
stod(x) == IF x = NoNumber THEN 0 ELSE IF x \in Span THEN Nearest[x] ELSE x

\* Value::asInt64.
asInt64(x) ==
  CASE x.type = "SignedInt"   -> {x.num}
    [] x.type = "UnsignedInt" ->
         {IF in_range(Nearest[x.num * One], -LL, LL - 1) THEN Wrapped(x.num) ELSE 0}
    [] x.type = "Float"       ->
         IF in_range(x.num, -LL, LL - 1) THEN Cast(x.num, LongLong) ELSE {0}
    [] x.type \in {"Char", "Bool"} -> {x.num}
    [] x.type = "String"      -> {stoll(x.num)}
    [] OTHER                  -> {size(x)}

\* Mutants of asUint64: a char goes through unsigned char; no range test.
asUint64_ByteOfChar(x) ==
  CASE x.type = "UnsignedInt" -> {x.num}
    [] x.type = "SignedInt"   ->
         {IF in_range(Nearest[x.num * One], 0, 2 * LL - 1) THEN x.num ELSE 0}
    [] x.type = "Float"       ->
         IF in_range(x.num, 0, 2 * LL - 1) THEN Cast(x.num, ULongLong) ELSE {0}
    [] x.type = "Char"        -> {IF x.num < 0 THEN x.num + 2 * CC ELSE x.num}
    [] x.type = "Bool"        -> {x.num}
    [] x.type = "String"      -> {stoull(x.num)}
    [] OTHER                  -> {size(x)}

\* Value::asUint64.  A char has its sign extended.
asUint64(x) ==
  CASE x.type = "UnsignedInt" -> {x.num}
    [] x.type = "SignedInt"   ->
         {IF in_range(Nearest[x.num * One], 0, 2 * LL - 1) THEN x.num ELSE 0}
    [] x.type = "Float"       ->
         IF in_range(x.num, 0, 2 * LL - 1) THEN Cast(x.num, ULongLong) ELSE {0}
    [] x.type = "Char"        -> {Unsigned(x.num)}
    [] x.type = "Bool"        -> {x.num}
    [] x.type = "String"      -> {stoull(x.num)}
    [] OTHER                  -> {size(x)}

The(S) == CHOOSE n \in S : TRUE

\* Mutant of asFloat: the words are added instead of compared.
asFloat_Sum(x) ==
  CASE x.type = "Float"  -> x.num
    [] x.type = "String" -> stod(x.num)
    [] OTHER -> Nearest[The(asUint64(x)) * One] + Nearest[The(asInt64(x)) * One]

\* Value::asFloat: the greater of the two words.
asFloat(x) ==
  CASE x.type = "Float"  -> x.num
    [] x.type = "String" -> stod(x.num)
    [] OTHER -> LET k1 == Nearest[The(asUint64(x)) * One]
                    k2 == Nearest[The(asInt64(x)) * One]
                IN  IF k1 > k2 THEN k1 ELSE k2

\* Mutant of asBool: a Float is cut to an integer first.
asBool_Cut(x) ==
  CASE x.type \in {"Bool", "Char", "SignedInt", "UnsignedInt"} -> x.num # 0
    [] x.type = "Float" -> x.num = NaN \/ Trunc(x.num) # 0
    [] OTHER -> size(x) # 0

\* Value::asBool.
asBool(x) ==
  CASE x.type \in {"Bool", "Char"} \cup Numeric -> x.num # 0
    [] OTHER -> size(x) # 0

\* Mutant of asInt: the low half of the word, without the range test.
asInt_Low(x) == {((n + II) % (2 * II)) - II : n \in asInt64(x)}

\* Value::asInt and asUint.
asInt(x) ==
  {IF in_range(Nearest[n * One], -II, II - 1) THEN n ELSE 0 : n \in asInt64(x)}

asUint(x) ==
  {IF in_range(Nearest[n * One], 0, 2 * II - 1) THEN n ELSE 0 : n \in asUint64(x)}

\* A Float with so many decimals; a tie goes either way.
Printed(x) ==
  IF ~Readable(x) THEN {x}
  ELSE LET r == x % Grain IN
       (IF 2 * r <= Grain THEN {x - r} ELSE {})
         \cup (IF 2 * r >= Grain THEN {x - r + Grain} ELSE {})

\* Value::asString: what the text reads as.
asString(x) ==
  CASE x.type = "String" -> {x.num}
    [] x.type = "Char"   -> {IF x.num - Zero \in 0..9 THEN (x.num - Zero) * One ELSE NoNumber}
    [] x.type \in {"SignedInt", "UnsignedInt"} -> {x.num * One}
    [] x.type = "Float"  -> Printed(x.num)
    [] OTHER             -> {NoNumber}

\* Mutant of Close: the difference is not made positive.
Close_NoAbs(a, b) ==
  NaN \notin {a, b} /\ (a = b => Readable(a)) /\ a - b <= Epsilon

\* abs(a - b) <= epsilon.  The difference of two equal infinities is NaN.
Close(a, b) ==
  NaN \notin {a, b} /\ (a = b => Readable(a)) /\ a - b <= Epsilon /\ b - a <= Epsilon

\* operator== of two numerics.
EqualNumbers(x, y) == Close(asFloat(x), asFloat(y))

\* Texts has the text of every number.
ASSUME TextAssumption ==
  /\ Texts \ {NaN, NoNumber} \subseteq Int /\ NoNumber \in Texts \ (Int \cup {NaN})
  /\ \A n \in -LL..(2 * LL) : n * One \in Texts
  /\ \A x \in Doubles : Printed(x) \subseteq Texts
  /\ \A x \in Texts : stod(x) \in Doubles

-----------------------------------------------------------------------------
Init == v \in AllValues /\ origin = v /\ cut = FALSE

Become(t, S) == \E n \in S : v' = Value(t, n) /\ UNCHANGED <<origin, cut>>

\* v = Value(v.asInt64()), and so on.
ToInt64  == Become("SignedInt", asInt64(v))
ToUint64 == Become("UnsignedInt", asUint64(v))
ToFloat  == Become("Float", {asFloat(v)})
ToBool   == Become("Bool", {IF asBool(v) THEN 1 ELSE 0})
ToInt    == Become("SignedInt", asInt(v))
ToUint   == Become("UnsignedInt", asUint(v))
ToText   == Become("String", asString(v))
ToBinary == Become("Binary", {0})

\* v = Value(static_cast<int>(v)): only a SignedInt can be cast, and its high
\* half is left out; other types throw.
CastToInt ==
  /\ v.type = "SignedInt"
  /\ LET low == ((v.num + II) % (2 * II)) - II IN
     v' = Value("SignedInt", low) /\ cut' = (cut \/ low # v.num)
  /\ UNCHANGED origin

Next ==
  \/ ToInt64 \/ ToUint64 \/ ToFloat \/ ToBool \/ ToInt \/ ToUint \/ ToText
  \/ ToBinary \/ CastToInt

Spec == Init /\ [][Next]_vars

-----------------------------------------------------------------------------
\* A numeric, in units.
Units(x) == IF x.type = "Float" THEN x.num ELSE x.num * One

\* A whole number that every double, and every int but the greatest, can be.
SmallNatural(x) == \E n \in 0..(2 * II) : Units(x) = n * One

\* The integer part of a numeric.
Whole(x) == IF x.type = "Float" THEN Trunc(x.num) ELSE x.num

\* What the header promises of a numeric: its integer part if that is in S, or 0.
FitOrZero(x, S) == IF x.num # NaN /\ Whole(x) \in S THEN Whole(x) ELSE 0

\* A numeric as a double.
AsDouble(x) == IF x.type = "Float" THEN x.num ELSE Nearest[x.num * One]

\* A numeric that is not below n, the first number above a type, although its
\* double is the one that the greatest number of the type rounds to.
OnLimit(x, n) ==
  AsDouble(x) = n * One /\ Nearest[(n - 1) * One] = n * One /\ Whole(x) >= n

\* Every conversion gives a number that its type can hold.
TypeOK == v \in AllValues /\ origin \in AllValues /\ cut \in BOOLEAN

\* asInt64 and asUint64 of one Value that is no number never contradict each
\* other: where neither has given up with 0, they are the same 64 bits.
WordsAgree ==
  ~isNumeric(v) =>
    \A i \in asInt64(v), u \in asUint64(v) : i # 0 /\ u # 0 => u = Unsigned(i)

\* "if the contained type is numeric, it returns it if it fits ..., otherwise,
\* returns 0" (value.hpp:352, 364, 376) is true of asInt64 but for a number from
\* 2^63 on whose double is 2^63, of asUint64 but for the Float 2^64, and of
\* asFloat but for the negative integers: no other rounding or wrapping, on
\* either side of a limit, reaches the result.
OnlyLimitsDepart ==
  isNumeric(v) =>
    /\ asInt64(v) # {FitOrZero(v, LongLong)} <=> OnLimit(v, LL)
    /\ asUint64(v) # {FitOrZero(v, ULongLong)} <=> OnLimit(v, 2 * LL)
    /\ asFloat(v) # AsDouble(v) <=> v.type = "SignedInt" /\ v.num < 0

\* The same promise of asInt and asUint (value.hpp:333, 342) is kept: they give
\* the integer part if it fits and 0 otherwise, although both start from words
\* of 64 bits that may have wrapped past a limit tested in double.
NarrowIsExact ==
  isNumeric(v) =>
    /\ asInt64(v) = {The(asInt64(v))} => asInt(v) = {FitOrZero(v, Int32)}
    /\ asUint64(v) = {The(asUint64(v))} => asUint(v) = {FitOrZero(v, UInt32)}

\* A Value that is false is zero to every other conversion.
FalseIsZero ==
  ~asBool(v) => asInt64(v) = {0} /\ asUint64(v) = {0} /\ asFloat(v) = 0

\* operator== does not depend on the order of two numbers, and tells apart all
\* small naturals, whatever types they are held in.
EqualIsNumeric ==
  isNumeric(v) =>
    \A y \in AllValues :
      isNumeric(y) =>
        /\ EqualNumbers(v, y) <=> EqualNumbers(y, v)
        /\ SmallNatural(v) /\ SmallNatural(y) =>
             (EqualNumbers(v, y) <=> Units(v) = Units(y))

\* A number from 0 on whose double is below 2^63 survives any sequence of
\* conversions as a natural number that is not greater than the number or, by
\* more than 1, than its double: no chain of legal calls turns it negative,
\* meets an undefined cast or creeps upwards by rounding again and again.
ChainsShrink ==
  isNumeric(origin) /\ Readable(origin.num) /\ Units(origin) \in Span
    /\ 0 <= Nearest[Units(origin)] /\ Nearest[Units(origin)] < LL * One
    /\ isNumeric(v) /\ ~cut
      => /\ 0 <= Units(v)
         /\ Units(v) <= Units(origin) \/ Units(v) <= Nearest[Units(origin)] + One

\* "if the contained type is numeric, it returns it if it fits within the range
\* representable by" a long long, an unsigned long long, a double, "otherwise,
\* returns 0" (value.hpp:352, 364, 376), of asInt64, asUint64 and asFloat.
NumberOrZero ==
  isNumeric(v) =>
    /\ asInt64(v) = {FitOrZero(v, LongLong)}
    /\ asUint64(v) = {FitOrZero(v, ULongLong)}
    /\ asFloat(v) = AsDouble(v)
=============================================================================
