----------------------- MODULE ValueConversionsProofs -----------------------
(* Proofs about the conversions of Value, for every width of the types and     *)
(* every rounding that RoundingAssumption admits.                            *)
EXTENDS ValueConversions, TLAPS

\* Multiplication by the unit keeps the order.
LEMMA Monotone ==
  ASSUME NEW a \in Int, NEW b \in Int, NEW c \in Nat, a <= b
  PROVE  a * c <= b * c
<1>1. (b - a) * c >= 0
  OBVIOUS
<1> QED
  BY <1>1

LEMMA StrictlyMonotone ==
  ASSUME NEW a \in Int, NEW b \in Int, NEW c \in Nat, a < b, 0 < c
  PROVE  a * c < b * c
<1>1. (b - a) * c > 0
  OBVIOUS
<1> QED
  BY <1>1

\* Whole numbers of 64 bits are numbers that Nearest rounds, in their order.
LEMMA InSpan ==
  ASSUME NEW n \in (-2 * LL)..(2 * LL)
  PROVE  /\ n * One \in Span
         /\ Nearest[n * One] \in Int
         /\ Nearest[n * One] \in Doubles
<1>1. n * One \in Span
  <2>1. n * One <= 2 * LL * One
    BY Monotone, WidthAssumption, UnitAssumption
  <2>2. (-2 * LL) * One <= n * One
    BY Monotone, WidthAssumption, UnitAssumption
  <2> QED
    BY <2>1, <2>2, WidthAssumption, UnitAssumption DEF Span
<1> DEFINE x == n * One
<1>2. x \in Span
  BY <1>1
<1> HIDE DEF x
<1>3. Nearest \in [Span -> (Doubles \ {NaN}) \cap Span]
  BY RoundingAssumption
<1>4. Nearest[x] \in Span /\ Nearest[x] \in Doubles
  BY <1>2, <1>3
<1>5. Span \subseteq Int
  BY WidthAssumption, UnitAssumption DEF Span
<1> QED
  BY <1>2, <1>4, <1>5 DEF x

LEMMA NearestMonotone ==
  ASSUME NEW x \in Span, NEW y \in Span, x <= y
  PROVE  Nearest[x] <= Nearest[y]
BY RoundingAssumption

LEMMA NearestKeepsOrder ==
  ASSUME NEW m \in (-2 * LL)..(2 * LL), NEW n \in (-2 * LL)..(2 * LL), m <= n
  PROVE  Nearest[m * One] <= Nearest[n * One]
<1>1. m * One <= n * One
  BY Monotone, UnitAssumption, WidthAssumption
<1>2. m * One \in Span /\ n * One \in Span
  BY InSpan
<1> DEFINE x == m * One
           y == n * One
<1>3. x <= y /\ x \in Span /\ y \in Span
  BY <1>1, <1>2
<1> HIDE DEF x, y
<1>4. Nearest[x] <= Nearest[y]
  BY <1>3, NearestMonotone
<1> QED
  BY <1>4 DEF x, y

\* Every int is a double.
LEMMA NearestIsExact ==
  ASSUME NEW n \in (-2 * II)..(2 * II)
  PROVE  Nearest[n * One] = n * One
BY RoundingAssumption

\* Two words are in the order of their doubles, if one of them is an int.
LEMMA OrderOfDoubles ==
  ASSUME NEW k \in (-2 * II)..(2 * II), NEW n \in (-2 * LL)..(2 * LL)
  PROVE  /\ k + 1 <= 2 * II /\ Nearest[n * One] <= Nearest[k * One] => n <= k
         /\ -2 * II <= k - 1 /\ Nearest[k * One] <= Nearest[n * One] => k <= n
<1>0. /\ k \in (-2 * LL)..(2 * LL) /\ One \in Nat /\ 0 < One
      /\ LL \in Nat /\ II \in Nat /\ 2 * II <= LL /\ k \in Int /\ n \in Int
  BY WidthAssumption, UnitAssumption
<1>1. Nearest[n * One] \in Int
  BY InSpan
<1>2. Nearest[k * One] = k * One
  BY NearestIsExact
<1>3. ASSUME NEW j \in (-2 * II)..(2 * II)
      PROVE  /\ j \in Int /\ j \in (-2 * LL)..(2 * LL)
             /\ Nearest[j * One] = j * One
             /\ j < k => Nearest[j * One] < Nearest[k * One]
             /\ k < j => Nearest[k * One] < Nearest[j * One]
             /\ Nearest[j * One] \in Int /\ Nearest[k * One] \in Int
  <2>1. j \in Int /\ j \in (-2 * LL)..(2 * LL)
    BY <1>0
  <2>2. Nearest[j * One] = j * One
    BY NearestIsExact
  <2>3. j < k => j * One < k * One
    BY <2>1, <1>0, StrictlyMonotone
  <2>4. k < j => k * One < j * One
    BY <2>1, <1>0, StrictlyMonotone
  <2>5. Nearest[j * One] \in Int /\ Nearest[k * One] \in Int
    BY <2>1, <1>0, InSpan
  <2> QED
    BY <2>1, <2>2, <2>3, <2>4, <2>5, <1>2
<1>4. ASSUME NEW j \in (-2 * II)..(2 * II), j = k + 1, j <= n
      PROVE  ~(Nearest[n * One] <= Nearest[k * One])
  <2>1. Nearest[j * One] <= Nearest[n * One]
    BY <1>3, <1>4, NearestKeepsOrder
  <2>2. Nearest[k * One] < Nearest[j * One]
    BY <1>0, <1>3, <1>4
  <2> QED
    BY <2>1, <2>2, <1>1, <1>3, <1>4
<1>5. ASSUME NEW j \in (-2 * II)..(2 * II), j = k - 1, n <= j
      PROVE  ~(Nearest[k * One] <= Nearest[n * One])
  <2>1. Nearest[n * One] <= Nearest[j * One]
    BY <1>3, <1>5, NearestKeepsOrder
  <2>2. Nearest[j * One] < Nearest[k * One]
    BY <1>0, <1>3, <1>5
  <2> QED
    BY <2>1, <2>2, <1>1, <1>3, <1>5
<1>6. k + 1 <= 2 * II /\ Nearest[n * One] <= Nearest[k * One] => n <= k
  <2>1. SUFFICES ASSUME k + 1 <= 2 * II, Nearest[n * One] <= Nearest[k * One], ~(n <= k)
                 PROVE  FALSE
    OBVIOUS
  <2>2. k + 1 \in (-2 * II)..(2 * II) /\ k + 1 <= n
    BY <1>0, <2>1
  <2> QED
    BY <2>1, <2>2, <1>4
<1>7. -2 * II <= k - 1 /\ Nearest[k * One] <= Nearest[n * One] => k <= n
  <2>1. SUFFICES ASSUME -2 * II <= k - 1, Nearest[k * One] <= Nearest[n * One], ~(k <= n)
                 PROVE  FALSE
    OBVIOUS
  <2>2. k - 1 \in (-2 * II)..(2 * II) /\ n <= k - 1
    BY <1>0, <2>1
  <2> QED
    BY <2>1, <2>2, <1>5
<1> QED
  BY <1>6, <1>7

\* A word whose double is within the limits of int is an int.
LEMMA RangeOfInt ==
  ASSUME NEW n \in (-2 * LL)..(2 * LL), in_range(Nearest[n * One], -II, II - 1)
  PROVE  n \in Int32
<1>1. -II \in (-2 * II)..(2 * II) /\ II - 1 \in (-2 * II)..(2 * II)
      /\ II - 1 + 1 <= 2 * II /\ -2 * II <= -II - 1
  BY WidthAssumption
<1>2. Nearest[(-II) * One] <= Nearest[n * One] /\ Nearest[n * One] <= Nearest[(II - 1) * One]
  BY DEF in_range
<1>3. n <= II - 1
  BY <1>1, <1>2, OrderOfDoubles
<1>4. -II <= n
  BY <1>1, <1>2, OrderOfDoubles
<1> QED
  BY <1>3, <1>4, WidthAssumption DEF Int32

LEMMA RangeOfUint ==
  ASSUME NEW n \in 0..(2 * LL), in_range(Nearest[n * One], 0, 2 * II - 1)
  PROVE  n \in UInt32
<1>1. 2 * II - 1 \in (-2 * II)..(2 * II) /\ 2 * II - 1 + 1 <= 2 * II
      /\ n \in (-2 * LL)..(2 * LL)
  BY WidthAssumption
<1>2. Nearest[n * One] <= Nearest[(2 * II - 1) * One]
  BY DEF in_range
<1>3. n <= 2 * II - 1
  BY <1>1, <1>2, OrderOfDoubles
<1> QED
  BY <1>3, WidthAssumption DEF UInt32

\* A word whose double is not below 0 is not below 0.
LEMMA RangeOfNat ==
  ASSUME NEW n \in (-2 * LL)..(2 * LL), in_range(Nearest[n * One], 0, 2 * LL - 1)
  PROVE  n >= 0
<1>1. 0 \in (-2 * II)..(2 * II) /\ -2 * II <= 0 - 1
  BY WidthAssumption
<1>2. Nearest[0 * One] <= Nearest[n * One]
  BY DEF in_range
<1>3. 0 <= n
  BY <1>1, <1>2, OrderOfDoubles
<1> QED
  BY <1>3

-----------------------------------------------------------------------------
(* What each type holds, and what each conversion can give.                *)

LEMMA Widths ==
  /\ LongLong \subseteq Int /\ ULongLong \subseteq Int
  /\ LongLong \subseteq (-2 * LL)..(2 * LL) /\ ULongLong \subseteq (-2 * LL)..(2 * LL)
  /\ Chars \subseteq LongLong /\ Int32 \subseteq LongLong /\ UInt32 \subseteq ULongLong
  /\ 0 \in LongLong /\ 0 \in ULongLong /\ 1 \in LongLong /\ 1 \in ULongLong
  /\ 0..MaxItems \subseteq LongLong /\ 0..MaxItems \subseteq ULongLong
BY WidthAssumption, ItemsAssumption DEF LongLong, ULongLong, Chars, Int32, UInt32

LEMMA NumOfCases ==
  /\ NumOf("Null") = {0} /\ NumOf("Binary") = {0} /\ NumOf("Bool") = {0, 1}
  /\ NumOf("Char") = Chars /\ NumOf("SignedInt") = LongLong
  /\ NumOf("UnsignedInt") = ULongLong /\ NumOf("Float") = Doubles
  /\ NumOf("String") = Texts
  /\ NumOf("Array") = 0..MaxItems /\ NumOf("Map") = 0..MaxItems
BY DEF NumOf

LEMMA Build ==
  ASSUME NEW t \in Types, NEW n \in NumOf(t)
  PROVE  Value(t, n) \in AllValues
BY DEF AllValues

LEMMA Typed ==
  ASSUME NEW x \in AllValues
  PROVE  x.type \in Types /\ x.num \in NumOf(x.type)
BY DEF AllValues, Value

LEMMA Holds ==
  ASSUME NEW x \in AllValues
  PROVE  /\ x.type \in {"Null", "Bool", "Char", "String", "Binary", "Array", "Map",
                       "SignedInt", "UnsignedInt", "Float"}
         /\ x.type \in {"Null", "Binary"} => x.num = 0
         /\ x.type = "Bool" => x.num \in {0, 1}
         /\ x.type = "Char" => x.num \in Chars
         /\ x.type = "SignedInt" => x.num \in LongLong
         /\ x.type = "UnsignedInt" => x.num \in ULongLong
         /\ x.type = "Float" => x.num \in Doubles
         /\ x.type = "String" => x.num \in Texts
         /\ x.type \in {"Array", "Map"} => x.num \in 0..MaxItems
<1>1. x.type \in Types /\ x.num \in NumOf(x.type)
  BY Typed
<1> QED
  BY <1>1, NumOfCases DEF Types, Numeric

LEMMA SizeIsWord ==
  ASSUME NEW x \in AllValues
  PROVE  size(x) \in LongLong /\ size(x) \in ULongLong /\ size(x) \in Nat
<1>1. size(x) \in {0, 1} \/ size(x) \in 0..MaxItems
  BY Holds DEF size
<1> QED
  BY <1>1, Widths, ItemsAssumption

\* Each word of 64 bits has one signed and one unsigned number.
LEMMA WrapAround ==
  /\ \A n \in ULongLong : Wrapped(n) \in LongLong /\ Unsigned(Wrapped(n)) = n
  /\ \A n \in LongLong : Unsigned(n) \in ULongLong
  /\ \A n \in LongLong : n >= 0 => Unsigned(n) = n
BY WidthAssumption DEF ULongLong, LongLong, Wrapped, Unsigned

LEMMA TruncIsInt ==
  ASSUME NEW x \in Int
  PROVE  Trunc(x) \in Int
BY UnitAssumption DEF Trunc

LEMMA CastIsIn ==
  ASSUME NEW x, NEW S
  PROVE  Cast(x, S) \subseteq S
BY DEF Cast

LEMMA TextNumbers ==
  ASSUME NEW x \in Texts
  PROVE  stoll(x) \in LongLong /\ stoull(x) \in ULongLong /\ stod(x) \in Doubles
<1>1. stoll(x) \in LongLong
  BY Widths DEF stoll
<1>2. stoull(x) \in ULongLong
  <2>1. CASE ~Readable(x)
    BY <2>1, Widths DEF stoull
  <2>2. CASE Readable(x)
    <3>1. x \in Int
      BY <2>2, TextAssumption DEF Readable
    <3>2. Trunc(x) \in Int
      BY <3>1, TruncIsInt
    <3>3. Trunc(x) \in ULongLong \/ -Trunc(x) \in ULongLong => Unsigned(Trunc(x)) \in ULongLong
      BY <3>2, WidthAssumption DEF ULongLong, Unsigned
    <3> QED
      BY <3>3, Widths DEF stoull
  <2> QED
    BY <2>1, <2>2
<1>3. stod(x) \in Doubles
  BY TextAssumption
<1> QED
  BY <1>1, <1>2, <1>3

LEMMA SignedWords ==
  ASSUME NEW x \in AllValues
  PROVE  asInt64(x) \subseteq LongLong /\ asInt64(x) # {}
<1>1. CASE x.type = "SignedInt"
  BY <1>1, Holds DEF asInt64
<1>2. CASE x.type = "UnsignedInt"
  <2>1. x.num \in ULongLong
    BY <1>2, Holds
  <2>2. Wrapped(x.num) \in LongLong
    BY <2>1, WrapAround
  <2> QED
    BY <1>2, <2>2, Widths DEF asInt64
<1>3. CASE x.type = "Float"
  <2>1. Cast(x.num, LongLong) \subseteq LongLong /\ Cast(x.num, LongLong) # {}
    BY CastIsIn, Widths DEF Cast
  <2> QED
    BY <1>3, <2>1, Widths DEF asInt64
<1>4. CASE x.type \in {"Char", "Bool"}
  BY <1>4, Holds, Widths DEF asInt64
<1>5. CASE x.type = "String"
  BY <1>5, Holds, TextNumbers DEF asInt64
<1>6. CASE x.type \in {"Null", "Binary", "Array", "Map"}
  BY <1>6, SizeIsWord DEF asInt64
<1> QED
  BY <1>1, <1>2, <1>3, <1>4, <1>5, <1>6, Holds

LEMMA UnsignedWords ==
  ASSUME NEW x \in AllValues
  PROVE  asUint64(x) \subseteq ULongLong /\ asUint64(x) # {}
<1>1. CASE x.type = "UnsignedInt"
  BY <1>1, Holds DEF asUint64
<1>2. CASE x.type = "SignedInt"
  <2>1. x.num \in LongLong
    BY <1>2, Holds
  <2>2. in_range(Nearest[x.num * One], 0, 2 * LL - 1) => x.num \in ULongLong
    <3>1. SUFFICES ASSUME in_range(Nearest[x.num * One], 0, 2 * LL - 1)
                   PROVE  x.num \in ULongLong
      OBVIOUS
    <3>2. x.num >= 0
      BY <2>1, <3>1, Widths, RangeOfNat
    <3> QED
      BY <2>1, <3>2, WidthAssumption DEF LongLong, ULongLong
  <2> QED
    BY <1>2, <2>2, Widths DEF asUint64
<1>3. CASE x.type = "Float"
  <2>1. Cast(x.num, ULongLong) \subseteq ULongLong /\ Cast(x.num, ULongLong) # {}
    BY CastIsIn, Widths DEF Cast
  <2> QED
    BY <1>3, <2>1, Widths DEF asUint64
<1>4. CASE x.type = "Char"
  BY <1>4, Holds, Widths, WrapAround DEF asUint64
<1>5. CASE x.type = "Bool"
  BY <1>5, Holds, Widths DEF asUint64
<1>6. CASE x.type = "String"
  BY <1>6, Holds, TextNumbers DEF asUint64
<1>7. CASE x.type \in {"Null", "Binary", "Array", "Map"}
  BY <1>7, SizeIsWord DEF asUint64
<1> QED
  BY <1>1, <1>2, <1>3, <1>4, <1>5, <1>6, <1>7, Holds

LEMMA FloatIsDouble ==
  ASSUME NEW x \in AllValues
  PROVE  asFloat(x) \in Doubles
<1>1. CASE x.type = "Float"
  BY <1>1, Holds DEF asFloat
<1>2. CASE x.type = "String"
  BY <1>2, Holds, TextNumbers DEF asFloat
<1>3. CASE x.type \notin {"Float", "String"}
  <2>1. The(asUint64(x)) \in ULongLong /\ The(asInt64(x)) \in LongLong
    BY SignedWords, UnsignedWords DEF The
  <2>2. Nearest[The(asUint64(x)) * One] \in Doubles /\ Nearest[The(asInt64(x)) * One] \in Doubles
    BY <2>1, Widths, InSpan
  <2> QED
    BY <1>3, <2>2 DEF asFloat
<1> QED
  BY <1>1, <1>2, <1>3

LEMMA NarrowWords ==
  ASSUME NEW x \in AllValues
  PROVE  /\ asInt(x) \subseteq LongLong
         /\ asUint(x) \subseteq ULongLong
BY SignedWords, UnsignedWords, Widths DEF asInt, asUint

LEMMA TextsOfValues ==
  ASSUME NEW x \in AllValues
  PROVE  asString(x) \subseteq Texts
<1>0. NoNumber \in Texts
  BY TextAssumption
<1>1. CASE x.type = "Char"
  <2>1. x.num \in Chars /\ Zero \in Chars
    BY <1>1, Holds, ItemsAssumption
  <2>2. x.num - Zero \in 0..9 => x.num - Zero \in -LL..(2 * LL)
    BY <2>1, WidthAssumption DEF Chars
  <2>3. x.num - Zero \in 0..9 => (x.num - Zero) * One \in Texts
    BY <2>2, TextAssumption
  <2> QED
    BY <1>0, <1>1, <2>3 DEF asString
<1>2. CASE x.type \in {"SignedInt", "UnsignedInt"}
  <2>1. x.num \in -LL..(2 * LL)
    BY <1>2, Holds, WidthAssumption DEF LongLong, ULongLong
  <2>2. x.num * One \in Texts
    BY <2>1, TextAssumption
  <2> QED
    BY <1>2, <2>2 DEF asString
<1>3. CASE x.type = "Float"
  BY <1>3, Holds, TextAssumption DEF asString
<1>4. CASE x.type \in {"Null", "Bool", "String", "Binary", "Array", "Map"}
  BY <1>0, <1>4, Holds DEF asString
<1> QED
  BY <1>1, <1>2, <1>3, <1>4, Holds

-----------------------------------------------------------------------------
(* Every conversion gives a number that its type can hold: no sequence of  *)
(* conversions leaves the types of value.cpp.                              *)
THEOREM ConversionsTypeCorrect == Spec => []TypeOK
<1>1. Init => TypeOK
  BY DEF Init, TypeOK
<1>2. TypeOK /\ [Next]_vars => TypeOK'
  <2> SUFFICES ASSUME TypeOK, [Next]_vars PROVE TypeOK'
    OBVIOUS
  <2>0. v \in AllValues /\ origin \in AllValues /\ cut \in BOOLEAN
    BY DEF TypeOK
  <2>1. ASSUME NEW t \in Types, NEW S, S \subseteq NumOf(t), Become(t, S)
        PROVE  TypeOK'
    BY <2>0, <2>1, Build DEF Become, TypeOK
  <2>2. CASE ToInt64
    BY <2>0, <2>1, <2>2, SignedWords, NumOfCases DEF ToInt64, Types, Numeric
  <2>3. CASE ToUint64
    BY <2>0, <2>1, <2>3, UnsignedWords, NumOfCases DEF ToUint64, Types, Numeric
  <2>4. CASE ToFloat
    BY <2>0, <2>1, <2>4, FloatIsDouble, NumOfCases DEF ToFloat, Types, Numeric
  <2>5. CASE ToBool
    BY <2>0, <2>1, <2>5, NumOfCases DEF ToBool, Types
  <2>6. CASE ToInt
    BY <2>0, <2>1, <2>6, NarrowWords, NumOfCases DEF ToInt, Types, Numeric
  <2>7. CASE ToUint
    BY <2>0, <2>1, <2>7, NarrowWords, NumOfCases DEF ToUint, Types, Numeric
  <2>8. CASE ToText
    BY <2>0, <2>1, <2>8, TextsOfValues, NumOfCases DEF ToText, Types
  <2>9. CASE ToBinary
    BY <2>0, <2>1, <2>9, NumOfCases DEF ToBinary, Types
  <2>10. CASE CastToInt
    <3> DEFINE low == ((v.num + II) % (2 * II)) - II
    <3>1. v.num \in Int
      BY <2>0, <2>10, Holds, Widths DEF CastToInt
    <3>2. low \in LongLong
      BY <3>1, WidthAssumption DEF LongLong
    <3>3. Value("SignedInt", low) \in AllValues
      BY <3>2, Build, NumOfCases DEF Types, Numeric
    <3> QED
      BY <2>0, <2>10, <3>3 DEF CastToInt, TypeOK
  <2>11. CASE UNCHANGED vars
    BY <2>0, <2>11 DEF vars, TypeOK
  <2> QED
    BY <2>2, <2>3, <2>4, <2>5, <2>6, <2>7, <2>8, <2>9, <2>10, <2>11 DEF Next
<1> QED
  BY <1>1, <1>2, PTL DEF Spec

-----------------------------------------------------------------------------
(* The words of one Value.                                                 *)

\* An undefined cast has more than one result.
LEMMA CastIsOne ==
  ASSUME NEW x, NEW k, NEW S \in {LongLong, ULongLong}, Cast(x, S) = {k}
  PROVE  k = Trunc(x) /\ Trunc(x) \in S
<1>1. 0 \in S /\ 1 \in S
  BY Widths
<1> QED
  BY <1>1 DEF Cast

LEMMA WordsOfOneValue ==
  ASSUME NEW x \in AllValues, NEW i, NEW u,
         asInt64(x) = {i}, asUint64(x) = {u}, i # 0, u # 0
  PROVE  u = Unsigned(i)
<1>1. CASE x.type = "SignedInt"
  <2>1. x.num \in LongLong /\ i = x.num /\ u = x.num
    BY <1>1, Holds DEF asInt64, asUint64
  <2>2. i \in ULongLong
    BY <2>1, UnsignedWords
  <2> QED
    BY <2>1, <2>2, WrapAround, WidthAssumption DEF ULongLong
<1>2. CASE x.type = "UnsignedInt"
  <2>1. x.num \in ULongLong /\ i = Wrapped(x.num) /\ u = x.num
    BY <1>2, Holds DEF asInt64, asUint64
  <2> QED
    BY <2>1, WrapAround
<1>3. CASE x.type = "Float"
  <2>1. Cast(x.num, LongLong) = {i}
    BY <1>3 DEF asInt64
  <2>2. Cast(x.num, ULongLong) = {u}
    BY <1>3 DEF asUint64
  <2>3. i = Trunc(x.num) /\ i \in LongLong
    BY <2>1, CastIsOne, SignedWords
  <2>4. u = Trunc(x.num) /\ u \in ULongLong
    BY <2>2, CastIsOne, UnsignedWords
  <2> QED
    BY <2>3, <2>4, WrapAround, WidthAssumption DEF ULongLong
<1>4. CASE x.type = "Char"
  BY <1>4 DEF asInt64, asUint64
<1>5. CASE x.type = "Bool"
  <2>1. i \in {0, 1} /\ u = i
    BY <1>5, Holds DEF asInt64, asUint64
  <2> QED
    BY <2>1, Widths, WrapAround
<1>6. CASE x.type = "String"
  <2>1. i = stoll(x.num) /\ u = stoull(x.num)
    BY <1>6 DEF asInt64, asUint64
  <2> QED
    BY <2>1 DEF stoll, stoull
<1>7. CASE x.type \in {"Null", "Binary", "Array", "Map"}
  <2>1. i = size(x) /\ u = size(x)
    BY <1>7 DEF asInt64, asUint64
  <2> QED
    BY <2>1, SizeIsWord, WrapAround
<1> QED
  BY <1>1, <1>2, <1>3, <1>4, <1>5, <1>6, <1>7, Holds

\* asInt64 and asUint64 of one Value that is no number agree: a sign that is
\* extended, or a text that is read as one type and as the other, never gives
\* different bits.
THEOREM WordsAlwaysAgree == Spec => []WordsAgree
<1>1. TypeOK => WordsAgree
  <2> SUFFICES ASSUME v \in AllValues, ~isNumeric(v),
                      NEW i \in asInt64(v), NEW u \in asUint64(v), i # 0, u # 0
               PROVE  u = Unsigned(i)
    BY DEF TypeOK, WordsAgree
  <2>1. v.type \in {"Null", "Bool", "Char", "String", "Binary", "Array", "Map"}
    BY Holds DEF isNumeric, Numeric
  <2>2. asInt64(v) = {i} /\ asUint64(v) = {u}
    BY <2>1 DEF asInt64, asUint64
  <2> QED
    BY <2>2, WordsOfOneValue
<1> QED
  BY <1>1, ConversionsTypeCorrect, PTL

LEMMA LimitsAreExact ==
  ASSUME NEW n \in -LL..(2 * LL), LL = n \/ LL = 2 * n - 2 * LL
  PROVE  Nearest[n * One] = n * One
BY RoundingAssumption

\* An unsigned number that is taken for a long long is far from any int once it
\* has wrapped, although the limit is tested in double, which rounds it up.
LEMMA WrappedIsFar ==
  ASSUME NEW n \in ULongLong, in_range(Nearest[n * One], -LL, LL - 1), Wrapped(n) \in Int32
  PROVE  Wrapped(n) = n
<1> DEFINE q == LL + LL \div 2
<1>0. LL \in Nat /\ II \in Nat /\ 0 < II /\ 2 * II <= LL /\ LL = 2 * (LL \div 2)
      /\ One \in Nat /\ 0 < One
  BY WidthAssumption, UnitAssumption
<1>1. SUFFICES ASSUME n >= LL PROVE FALSE
  BY <1>0 DEF Wrapped, ULongLong
<1>2. q \in Int /\ q <= n /\ LL < q /\ q \in -LL..(2 * LL) /\ LL = 2 * q - 2 * LL
  BY <1>0, <1>1 DEF Wrapped, Int32, ULongLong
<1> HIDE DEF q
<1>3. Nearest[LL * One] = LL * One
  BY <1>0, LimitsAreExact
<1>4. Nearest[q * One] = q * One
  BY <1>2, LimitsAreExact
<1>5. LL * One < q * One
  BY <1>0, <1>2, StrictlyMonotone
<1>6. n \in (-2 * LL)..(2 * LL) /\ q \in (-2 * LL)..(2 * LL)
      /\ LL \in (-2 * LL)..(2 * LL) /\ LL - 1 \in (-2 * LL)..(2 * LL)
  BY <1>0, <1>2 DEF ULongLong
<1>7. Nearest[q * One] <= Nearest[n * One]
  BY <1>2, <1>6, NearestKeepsOrder
<1>8. Nearest[(LL - 1) * One] <= Nearest[LL * One]
  <2> DEFINE m == LL - 1
  <2>1. m <= LL /\ m \in (-2 * LL)..(2 * LL)
    BY <1>0, <1>6
  <2> HIDE DEF m
  <2>2. Nearest[m * One] <= Nearest[LL * One]
    BY <1>6, <2>1, NearestKeepsOrder
  <2> QED
    BY <2>2 DEF m
<1>9. Nearest[n * One] <= Nearest[(LL - 1) * One]
  BY DEF in_range
<1>10. Nearest[n * One] \in Int /\ Nearest[(LL - 1) * One] \in Int
       /\ Nearest[LL * One] \in Int /\ Nearest[q * One] \in Int
  BY <1>6, InSpan
<1>11. Nearest[LL * One] < Nearest[q * One]
  BY <1>3, <1>4, <1>5
<1> QED
  BY <1>7, <1>8, <1>9, <1>10, <1>11

LEMMA NarrowInt ==
  ASSUME NEW x \in AllValues, isNumeric(x), NEW k, asInt64(x) = {k}, NEW n \in asInt(x)
  PROVE  n \in Int32 /\ (n = 0 \/ n = Whole(x))
<1>1. k \in LongLong
  BY SignedWords
<1>2. n = IF in_range(Nearest[k * One], -II, II - 1) THEN k ELSE 0
  BY DEF asInt
<1>3. 0 \in Int32
  BY WidthAssumption DEF Int32
<1>4. SUFFICES ASSUME in_range(Nearest[k * One], -II, II - 1), k # 0
               PROVE  k \in Int32 /\ k = Whole(x)
  BY <1>2, <1>3
<1>5. k \in Int32
  BY <1>1, <1>4, Widths, RangeOfInt
<1>6. CASE x.type = "SignedInt"
  BY <1>5, <1>6 DEF asInt64, Whole
<1>7. CASE x.type = "UnsignedInt"
  <2>1. x.num \in ULongLong
    BY <1>7, Holds
  <2>2. in_range(Nearest[x.num * One], -LL, LL - 1) /\ k = Wrapped(x.num)
    BY <1>4, <1>7 DEF asInt64
  <2> QED
    BY <1>5, <1>7, <2>1, <2>2, WrappedIsFar DEF Whole
<1>8. CASE x.type = "Float"
  <2>1. Cast(x.num, LongLong) = {k}
    BY <1>4, <1>8 DEF asInt64
  <2> QED
    BY <1>5, <1>8, <2>1, CastIsOne DEF Whole
<1> QED
  BY <1>6, <1>7, <1>8 DEF isNumeric, Numeric

LEMMA NarrowUint ==
  ASSUME NEW x \in AllValues, isNumeric(x), NEW k, asUint64(x) = {k}, NEW n \in asUint(x)
  PROVE  n \in UInt32 /\ (n = 0 \/ n = Whole(x))
<1>1. k \in ULongLong
  BY UnsignedWords
<1>2. n = IF in_range(Nearest[k * One], 0, 2 * II - 1) THEN k ELSE 0
  BY DEF asUint
<1>3. 0 \in UInt32
  BY WidthAssumption DEF UInt32
<1>4. SUFFICES ASSUME in_range(Nearest[k * One], 0, 2 * II - 1), k # 0
               PROVE  k \in UInt32 /\ k = Whole(x)
  BY <1>2, <1>3
<1>5. k \in UInt32
  <2>1. k \in 0..(2 * LL)
    BY <1>1, WidthAssumption DEF ULongLong
  <2> QED
    BY <1>4, <2>1, RangeOfUint
<1>6. CASE x.type \in {"SignedInt", "UnsignedInt"}
  BY <1>4, <1>5, <1>6 DEF asUint64, Whole
<1>7. CASE x.type = "Float"
  <2>1. Cast(x.num, ULongLong) = {k}
    BY <1>4, <1>7 DEF asUint64
  <2> QED
    BY <1>5, <1>7, <2>1, CastIsOne DEF Whole
<1> QED
  BY <1>6, <1>7 DEF isNumeric, Numeric

-----------------------------------------------------------------------------
(* A Value that is false.                                                  *)

LEMMA ZeroIsExact == Nearest[0 * One] = 0 /\ Nearest[0] = 0 /\ 0 * One = 0 /\ Trunc(0) = 0
<1>1. 0 * One = 0
  BY UnitAssumption
<1>2. Nearest[0 * One] = 0 * One
  BY NearestIsExact, WidthAssumption
<1>3. Trunc(0) = 0
  BY UnitAssumption DEF Trunc
<1> QED
  BY <1>1, <1>2, <1>3

LEMMA FalseWords ==
  ASSUME NEW x \in AllValues, ~asBool(x)
  PROVE  asInt64(x) = {0} /\ asUint64(x) = {0}
<1>1. CASE x.type \in {"Bool", "Char", "SignedInt"}
  BY <1>1, WidthAssumption DEF asBool, asInt64, asUint64, Unsigned, Numeric
<1>2. CASE x.type = "UnsignedInt"
  BY <1>2, WidthAssumption DEF asBool, asInt64, asUint64, Wrapped, Numeric
<1>3. CASE x.type = "Float"
  <2>1. x.num = 0
    BY <1>3 DEF asBool, Numeric
  <2>2. Cast(x.num, LongLong) = {0} /\ Cast(x.num, ULongLong) = {0}
    BY <2>1, ZeroIsExact, Widths DEF Cast
  <2> QED
    BY <1>3, <2>2 DEF asInt64, asUint64
<1>4. CASE x.type \in {"Null", "String", "Binary", "Array", "Map"}
  <2>1. size(x) = 0
    BY <1>4 DEF asBool, Numeric
  <2>2. x.type # "String"
    BY <2>1 DEF size
  <2> QED
    BY <1>4, <2>1, <2>2 DEF asInt64, asUint64
<1> QED
  BY <1>1, <1>2, <1>3, <1>4, Holds

LEMMA FalseFloat ==
  ASSUME NEW x \in AllValues, ~asBool(x)
  PROVE  asFloat(x) = 0
<1>1. CASE x.type = "Float"
  BY <1>1 DEF asBool, asFloat, Numeric
<1>2. CASE x.type = "String"
  BY <1>2 DEF asBool, size, Numeric
<1>3. CASE x.type \notin {"Float", "String"}
  <2>1. The(asInt64(x)) = 0 /\ The(asUint64(x)) = 0
    BY FalseWords DEF The
  <2> QED
    BY <1>3, <2>1, ZeroIsExact DEF asFloat
<1> QED
  BY <1>1, <1>2, <1>3

\* What asBool calls false is zero to every other conversion.
THEOREM FalseIsAlwaysZero == Spec => []FalseIsZero
<1>1. TypeOK => FalseIsZero
  BY FalseWords, FalseFloat DEF TypeOK, FalseIsZero
<1> QED
  BY <1>1, ConversionsTypeCorrect, PTL

-----------------------------------------------------------------------------
(* operator== on numbers.                                                  *)

\* A small natural keeps its number in asFloat, whatever type it is held in.
LEMMA SmallFloat ==
  ASSUME NEW x \in AllValues, isNumeric(x), NEW n \in 0..(2 * II), Units(x) = n * One
  PROVE  asFloat(x) = n * One
<1>0. /\ LL \in Nat /\ II \in Nat /\ 2 * II <= LL /\ 0 < LL /\ n \in Int
      /\ n \in (-2 * II)..(2 * II) /\ n \in (-2 * LL)..(2 * LL)
      /\ One \in Nat /\ 0 < One
  BY WidthAssumption, UnitAssumption
<1>1. Nearest[n * One] = n * One /\ n * One \in Int
  BY <1>0, NearestIsExact
<1>2. Nearest[0 * One] <= Nearest[n * One]
  <2> DEFINE m == 0
  <2>1. m \in (-2 * LL)..(2 * LL) /\ m <= n
    BY <1>0
  <2> HIDE DEF m
  <2>2. Nearest[m * One] <= Nearest[n * One]
    BY <1>0, <2>1, NearestKeepsOrder
  <2> QED
    BY <2>2 DEF m
<1>3. 0 <= n * One
  BY <1>1, <1>2, ZeroIsExact
<1>4. n <= 2 * LL - 1 => Nearest[n * One] <= Nearest[(2 * LL - 1) * One]
  <2> DEFINE m == 2 * LL - 1
  <2>1. m \in (-2 * LL)..(2 * LL)
    BY <1>0
  <2> HIDE DEF m
  <2>2. n <= m => Nearest[n * One] <= Nearest[m * One]
    BY <1>0, <2>1, NearestKeepsOrder
  <2> QED
    BY <2>2 DEF m
<1>5. n * One # NaN
  BY <1>1, DoubleAssumption
<1>6. x.type # "Float" => x.num = n
  <2>1. SUFFICES ASSUME x.type # "Float" PROVE x.num = n
    OBVIOUS
  <2>2. x.num \in LongLong \/ x.num \in ULongLong
    BY <2>1, Holds DEF isNumeric, Numeric
  <2>3. x.num \in Int /\ x.num * One = n * One
    BY <2>1, <2>2, Widths DEF Units
  <2>4. ~(x.num < n) /\ ~(n < x.num)
    BY <1>0, <2>3, StrictlyMonotone
  <2> QED
    BY <1>0, <2>3, <2>4
<1>7. CASE x.type = "Float"
  BY <1>7 DEF Units, asFloat
<1>8. CASE x.type = "SignedInt"
  <2>1. n \in LongLong /\ x.num = n
    BY <1>6, <1>8, Holds
  <2>2. in_range(Nearest[n * One], 0, 2 * LL - 1)
    BY <1>0, <1>1, <1>2, <1>4, <1>5, <2>1 DEF in_range, LongLong
  <2>3. asUint64(x) = {n} /\ asInt64(x) = {n}
    BY <1>8, <2>1, <2>2 DEF asUint64, asInt64
  <2>4. The(asUint64(x)) = n /\ The(asInt64(x)) = n
    BY <2>3 DEF The
  <2> QED
    BY <1>1, <1>8, <2>4 DEF asFloat
<1>9. CASE x.type = "UnsignedInt"
  <2>1. n \in ULongLong /\ x.num = n
    BY <1>6, <1>9, Holds
  <2>2. asUint64(x) = {n}
    BY <1>9, <2>1 DEF asUint64
  <2>3. PICK k : asInt64(x) = {k} /\ (k = n \/ k = 0 \/ k < n) /\ k \in LongLong
    <3>1. asInt64(x) = {IF in_range(Nearest[n * One], -LL, LL - 1) THEN Wrapped(n) ELSE 0}
      BY <1>9, <2>1 DEF asInt64
    <3>2. Wrapped(n) = n \/ Wrapped(n) < n
      BY <1>0 DEF Wrapped
    <3>3. Wrapped(n) \in LongLong
      BY <2>1, WrapAround
    <3> QED
      BY <3>1, <3>2, <3>3, Widths
  <2>4. The(asUint64(x)) = n /\ The(asInt64(x)) = k
    BY <2>2, <2>3 DEF The
  <2>5. k <= n /\ k \in (-2 * LL)..(2 * LL)
    BY <1>0, <2>3, Widths
  <2>6. Nearest[k * One] <= Nearest[n * One] /\ Nearest[k * One] \in Int
    BY <1>0, <2>5, NearestKeepsOrder, InSpan
  <2>7. asFloat(x) = IF Nearest[n * One] > Nearest[k * One]
                     THEN Nearest[n * One] ELSE Nearest[k * One]
    BY <1>9, <2>4 DEF asFloat
  <2> QED
    BY <1>1, <2>6, <2>7
<1> QED
  BY <1>7, <1>8, <1>9 DEF isNumeric, Numeric

LEMMA CloseNumbers ==
  ASSUME NEW m \in 0..(2 * II), NEW n \in 0..(2 * II)
  PROVE  Close(m * One, n * One) <=> m * One = n * One
<1>0. /\ LL \in Nat /\ II \in Nat /\ 2 * II <= LL /\ m \in Int /\ n \in Int
      /\ One \in Nat /\ 0 < One /\ Epsilon \in Nat /\ Epsilon < One
  BY WidthAssumption, UnitAssumption
<1> DEFINE a == m * One
           b == n * One
<1>1. a \in Int /\ b \in Int
  BY <1>0
<1>2. 0 <= a
  <2>1. 0 * One <= m * One
    BY <1>0, Monotone
  <2> QED
    BY <1>0, <2>1, ZeroIsExact
<1>3. a < Infinity
  <2>1. m * One <= (3 * LL) * One
    BY <1>0, Monotone
  <2> QED
    BY <1>0, <2>1, DoubleAssumption
<1>4. m < n => a + One <= b
  <2>1. m < n => (m + 1) * One <= n * One
    BY <1>0, Monotone
  <2> QED
    BY <1>0, <2>1
<1>5. n < m => b + One <= a
  <2>1. n < m => (n + 1) * One <= m * One
    BY <1>0, Monotone
  <2> QED
    BY <1>0, <2>1
<1>6. m = n => a = b
  OBVIOUS
<1>7. NaN \notin Int /\ NoNumber \notin Int /\ Infinity \in Nat
  BY DoubleAssumption, TextAssumption
<1> HIDE DEF a, b
<1>8. Readable(a) /\ NaN \notin {a, b}
  <2>1. a # -Infinity
    BY <1>1, <1>2, <1>3, <1>7
  <2> QED
    BY <1>1, <1>3, <1>7, <2>1 DEF Readable
<1>9. Close(a, b) => a = b
  BY <1>0, <1>1, <1>4, <1>5, <1>6 DEF Close
<1>10. a = b => Close(a, b)
  BY <1>0, <1>1, <1>8 DEF Close
<1>11. Close(a, b) <=> a = b
  BY <1>9, <1>10
<1> QED
  BY <1>11 DEF a, b

LEMMA CloseIsSymmetric ==
  ASSUME NEW a, NEW b, Close(a, b)
  PROVE  Close(b, a)
<1>1. NaN \notin {b, a} /\ b - a <= Epsilon /\ a - b <= Epsilon
  BY Zenon DEF Close
<1>2. b = a => Readable(b)
  BY DEF Close
<1> QED
  BY <1>1, <1>2, Zenon DEF Close

\* operator== does not depend on the order of two numbers, and never takes two
\* small naturals for each other, whatever types they are held in.
THEOREM EqualIsAlwaysNumeric == Spec => []EqualIsNumeric
<1>1. TypeOK => EqualIsNumeric
  <2> SUFFICES ASSUME v \in AllValues, isNumeric(v),
                      NEW y \in AllValues, isNumeric(y)
               PROVE  /\ EqualNumbers(v, y) <=> EqualNumbers(y, v)
                      /\ SmallNatural(v) /\ SmallNatural(y) =>
                           (EqualNumbers(v, y) <=> Units(v) = Units(y))
    BY DEF TypeOK, EqualIsNumeric
  <2>1. EqualNumbers(v, y) <=> EqualNumbers(y, v)
    BY CloseIsSymmetric DEF EqualNumbers
  <2>2. ASSUME NEW m \in 0..(2 * II), NEW n \in 0..(2 * II),
               Units(v) = m * One, Units(y) = n * One
        PROVE  EqualNumbers(v, y) <=> Units(v) = Units(y)
    <3>1. asFloat(v) = m * One /\ asFloat(y) = n * One
      BY <2>2, SmallFloat
    <3> QED
      BY <2>2, <3>1, CloseNumbers DEF EqualNumbers
  <2> QED
    BY <2>1, <2>2 DEF SmallNatural
<1> QED
  BY <1>1, ConversionsTypeCorrect, PTL

-----------------------------------------------------------------------------
(* Chains of conversions.  What can be reached from a number u from 0 on    *)
(* whose double is below 2^63: numbers that are not greater than u, or than *)
(* the whole number at or above its double (Ceiling), which is a double and *)
(* prints as itself, so that rounding does not pass it.                     *)

Natural(u) == u \in Span /\ 0 <= Nearest[u] /\ Nearest[u] < LL * One

Ceiling(b) == IF b # 0 /\ b % One = 0 THEN b ELSE (b \div One + 1) * One

Reached(x, u) ==
  /\ x \in Int /\ 0 <= x /\ x < LL * One
  /\ x <= Ceiling(Nearest[u]) \/ x <= u

InChain(x, u) ==
  /\ x.type \in {"SignedInt", "UnsignedInt", "Float", "String", "Bool", "Binary"}
  /\ x.type = "Float" => x.num \in Int /\ 0 <= x.num /\ x.num <= Ceiling(Nearest[u])
  /\ x.type \in {"SignedInt", "UnsignedInt"} => x.num \in Int /\ Reached(x.num * One, u)
  /\ x.type = "String" => x.num = NoNumber \/ Reached(x.num, u)

ChainInv ==
  isNumeric(origin) /\ Readable(origin.num) /\ Natural(Units(origin)) /\ ~cut
    => InChain(v, Units(origin))

LEMMA Units0 ==
  /\ One \in Nat /\ 0 < One /\ Grain \in Nat /\ 0 < Grain /\ One % Grain = 0
  /\ LL \in Nat /\ II \in Nat /\ 0 < II /\ 2 * II <= LL
BY UnitAssumption, WidthAssumption

LEMMA DivMod ==
  ASSUME NEW x \in Int, NEW d \in Nat, 0 < d
  PROVE  /\ x \div d \in Int /\ x % d \in Int
         /\ x = (x \div d) * d + (x % d)
         /\ 0 <= x % d /\ x % d < d
         /\ 0 <= x => 0 <= x \div d
<1>1. x \div d \in Int /\ x % d \in Int /\ 0 <= x % d /\ x % d < d
  OBVIOUS
<1> DEFINE q == x \div d
           r == x % d
<1>a. x % d = x - d * (x \div d)
  OBVIOUS
<1>2. x = q * d + r
  <2>1. r = x - d * q /\ q \in Int
    BY <1>1, <1>a
  <2> HIDE DEF q, r
  <2> QED
    BY <2>1
<1>3. 0 <= x => 0 <= q
  <2> SUFFICES ASSUME 0 <= x, ~(0 <= q) PROVE FALSE
    OBVIOUS
  <2>1. q \in Int /\ r \in Int /\ r < d /\ x = q * d + r
    BY <1>1, <1>2
  <2> HIDE DEF q, r
  <2>2. q + 1 <= 0
    BY <2>1
  <2>3. (q + 1) * d <= 0 * d
    BY <2>1, <2>2, Monotone
  <2>4. (q + 1) * d = q * d + d /\ q * d \in Int
    BY <2>1
  <2> QED
    BY <2>1, <2>3, <2>4
<1> QED
  BY <1>1, <1>2, <1>3

LEMMA Cancel ==
  ASSUME NEW a \in Int, NEW b \in Int, NEW c \in Nat, a * c < b * c
  PROVE  a < b
<1>1. ASSUME b <= a PROVE FALSE
  <2>1. b * c <= a * c
    BY <1>1, Monotone
  <2>2. a * c \in Int /\ b * c \in Int
    OBVIOUS
  <2> QED
    BY <2>1, <2>2
<1> QED
  BY <1>1

\* A whole number of units is a whole number of grains.
LEMMA WholeGrains ==
  ASSUME NEW n \in Int
  PROVE  \E h \in Int : n * One = h * Grain
<1> DEFINE g == One \div Grain
<1>1. g \in Int /\ One = g * Grain
  BY Units0, DivMod
<1> HIDE DEF g
<1>2. n * (g * Grain) = (n * g) * Grain /\ n * g \in Int
  BY <1>1, Units0
<1>3. n * One = (n * g) * Grain
  BY <1>1, <1>2
<1> QED
  BY <1>2, <1>3

LEMMA CeilingIs ==
  ASSUME NEW u, Natural(u)
  PROVE  LET b == Nearest[u]  c == Ceiling(b) IN
         /\ b \in Int /\ c \in Int /\ 0 <= b /\ b <= c /\ c <= b + One
         /\ One <= c /\ c < LL * One /\ c \in Span /\ Nearest[c] = c
         /\ \E n \in Int : c = n * One
<1> DEFINE b == Nearest[u]
           q == b \div One
           r == b % One
<1>1. Span \subseteq Int
  BY Units0 DEF Span
<1>2. b \in Doubles /\ b \in Span /\ b \in Int /\ 0 <= b /\ b < LL * One
  BY <1>1, RoundingAssumption DEF Natural
<1>3. q \in Int /\ r \in Int /\ b = q * One + r /\ 0 <= r /\ r < One /\ 0 <= q
  BY <1>2, Units0, DivMod
<1>4. Ceiling(b) = IF b # 0 /\ r = 0 THEN b ELSE (q + 1) * One
  BY DEF Ceiling
<1>5. LL * One \in Int
  BY Units0
<1>6. r # 0 => q + 1 < LL /\ (q + 1) * One \in Doubles
  <2>1. r # 0 => q \in -LL..(LL - 2) /\ (q + 1) * One \in Doubles
    BY <1>2, ExactAssumption
  <2> HIDE DEF q, r
  <2> QED
    BY <1>3, <2>1, Units0
<1>7. \A x \in Doubles \cap Span : Nearest[x] = x
  BY ExactAssumption
<1> HIDE DEF q, r, b
<1>8. CASE b # 0 /\ r = 0
  <2>1. Ceiling(b) = b /\ Nearest[b] = b /\ b = q * One
    <3>1. b \in Doubles \cap Span
      BY <1>2
    <3>2. Nearest[b] = b
      BY <1>7, <3>1, Zenon
    <3>3. b = q * One
      BY <1>3, <1>8, Units0
    <3> QED
      BY <1>4, <1>8, <3>2, <3>3
  <2>2. One <= b
    <3>1. 0 * One < q * One
      BY <1>2, <1>8, <2>1, Units0
    <3>2. 1 <= q
      BY <1>3, <3>1, Cancel, Units0
    <3>3. 1 * One <= q * One
      BY <1>3, <3>2, Monotone, Units0
    <3> QED
      BY <2>1, <3>3, Units0
  <2> QED
    BY <1>2, <1>3, <2>1, <2>2, Units0 DEF b
<1>9. CASE b = 0 \/ r # 0
  <2> DEFINE n == q + 1
             c == n * One
  <2>1. n \in Int /\ n < LL /\ 1 <= n /\ c \in Doubles
    <3>1. CASE r # 0
      BY <1>3, <1>6, <3>1
    <3>2. CASE b = 0
      <4>1. q = 0
        <5>1. q * One < 1 * One
          BY <1>3, <3>2, Units0
        <5>2. q < 1
          BY <1>3, <5>1, Cancel, Units0
        <5> QED
          BY <1>3, <5>2
      <4>2. 1 \in (-2 * LL)..(2 * LL) /\ 1 \in (-2 * II)..(2 * II)
        BY Units0
      <4>3. Nearest[1 * One] = 1 * One /\ Nearest[1 * One] \in Doubles
        BY <4>2, NearestIsExact, InSpan
      <4> QED
        BY <4>1, <4>3, Units0
    <3> QED
      BY <1>9, <3>1, <3>2
  <2>2. c = q * One + One
    BY <1>3, Units0
  <2>3. n \in (-2 * LL)..(2 * LL)
    BY <2>1, Units0
  <2>4. c \in Span /\ c < LL * One /\ 1 * One <= c
    BY <2>1, <2>3, InSpan, StrictlyMonotone, Monotone, Units0
  <2>5. Ceiling(b) = c
    BY <1>4, <1>9
  <2> HIDE DEF c
  <2>6. Nearest[c] = c
    BY <1>7, <2>1, <2>4
  <2>7. c \in Int /\ b <= c /\ c <= b + One /\ One <= c
    BY <1>1, <1>3, <2>2, <2>4, Units0
  <2>8. \E k \in Int : c = k * One
    BY <2>1 DEF c
  <2> QED
    BY <1>2, <2>4, <2>5, <2>6, <2>7, <2>8 DEF b
<1> QED
  BY <1>8, <1>9

\* 0, 1 and what is below a number that is reached are reached.
LEMMA SmallReached ==
  ASSUME NEW u, Natural(u)
  PROVE  /\ Reached(0 * One, u) /\ Reached(0, u) /\ Reached(1 * One, u) /\ u \in Int
         /\ \A x, y \in Int : Reached(x, u) /\ 0 <= y /\ y <= x => Reached(y, u)
<1> DEFINE c == Ceiling(Nearest[u])
<1>1. c \in Int /\ One <= c /\ c < LL * One
  BY CeilingIs
<1>2. u \in Int /\ LL * One \in Int /\ 0 * One = 0 /\ 1 * One = One
  BY Units0 DEF Natural, Span
<1> HIDE DEF c
<1>3. \A x : Reached(x, u) <=> x \in Int /\ 0 <= x /\ x < LL * One /\ (x <= c \/ x <= u)
  BY DEF Reached, c
<1> QED
  BY <1>1, <1>2, <1>3, Units0

\* A word that is reached is one in both types of 64 bits.
LEMMA ReachedWord ==
  ASSUME NEW u, Natural(u), NEW n \in Int, Reached(n * One, u)
  PROVE  n \in 0..(LL - 1) /\ n \in LongLong /\ n \in ULongLong /\ n \in (-2 * LL)..(2 * LL)
<1>1. 0 <= n * One /\ n * One < LL * One
  BY DEF Reached
<1>2. n < LL
  BY <1>1, Cancel, Units0
<1>3. 0 <= n
  <2>1. (-1) * One < n * One
    BY <1>1, Units0
  <2>2. -1 < n
    BY <2>1, Cancel, Units0
  <2> QED
    BY <2>2
<1> QED
  BY <1>2, <1>3, Units0 DEF LongLong, ULongLong

\* Rounding does not pass the ceiling.
LEMMA ReachedRounds ==
  ASSUME NEW u, Natural(u), NEW x, Reached(x, u)
  PROVE  /\ x \in Span /\ Nearest[x] \in Int
         /\ 0 <= Nearest[x] /\ Nearest[x] <= Ceiling(Nearest[u])
<1> DEFINE b == Nearest[u]
           c == Ceiling(b)
<1>1. c \in Int /\ b \in Int /\ b <= c /\ c \in Span /\ Nearest[c] = c
  BY CeilingIs
<1>2. x \in Int /\ 0 <= x /\ x < LL * One /\ (x <= c \/ x <= u)
  BY DEF Reached
<1>3. x \in Span /\ 0 \in Span /\ u \in Span /\ u \in Int
  <2> DEFINE w == LL * One
  <2>1. w \in Int /\ 2 * LL * One = 2 * w /\ -2 * LL * One = -2 * w
    BY Units0
  <2>2. Span = (-2 * w)..(2 * w)
    BY <2>1 DEF Span
  <2>3. x < w
    BY <1>2
  <2>4. u \in Span
    BY DEF Natural
  <2> HIDE DEF w
  <2> QED
    BY <1>2, <2>1, <2>2, <2>3, <2>4
<1>4. Nearest[x] \in Span /\ Nearest[x] \in Int
  <2>1. Nearest[x] \in Span
    BY <1>3, RoundingAssumption
  <2> QED
    BY <2>1, Units0 DEF Span
<1>5. 0 <= Nearest[x]
  BY <1>2, <1>3, NearestMonotone, ZeroIsExact
<1> HIDE DEF c
<1>6. Nearest[x] <= c
  <2>1. CASE x <= c
    BY <1>1, <1>3, <2>1, NearestMonotone
  <2>2. CASE x <= u
    <3>1. Nearest[x] <= b
      BY <1>3, <2>2, NearestMonotone
    <3> HIDE DEF b
    <3> QED
      BY <1>1, <1>4, <3>1
  <2> QED
    BY <1>2, <2>1, <2>2
<1> QED
  BY <1>3, <1>4, <1>5, <1>6 DEF c

\* Nor does the integer part pass what it is taken of.
LEMMA ReachedTrunc ==
  ASSUME NEW u, Natural(u), NEW x, Reached(x, u)
  PROVE  /\ Trunc(x) \in Int /\ Reached(Trunc(x) * One, u)
         /\ Trunc(x) \in LongLong /\ Trunc(x) \in ULongLong /\ Unsigned(Trunc(x)) = Trunc(x)
<1> DEFINE k == x \div One
           r == x % One
<1>1. x \in Int /\ 0 <= x
  BY DEF Reached
<1>2. Trunc(x) = k
  BY <1>1 DEF Trunc
<1>3. k \in Int /\ r \in Int /\ 0 <= k /\ x = k * One + r /\ 0 <= r
  BY <1>1, DivMod, Units0
<1> HIDE DEF k, r
<1>4. k * One \in Int /\ 0 <= k * One /\ k * One <= x
  <2>1. 0 * One <= k * One
    BY <1>3, Monotone, Units0
  <2> QED
    BY <1>3, <2>1, Units0
<1>5. Reached(k * One, u)
  BY <1>1, <1>4, SmallReached
<1>6. k \in LongLong /\ k \in ULongLong
  BY <1>3, <1>5, ReachedWord
<1>7. Unsigned(k) = k
  BY <1>3 DEF Unsigned
<1> QED
  BY <1>2, <1>3, <1>5, <1>6, <1>7

\* A Float prints as no more than the ceiling.
LEMMA ReachedPrints ==
  ASSUME NEW u, Natural(u), NEW x \in Int, 0 <= x, x <= Ceiling(Nearest[u]),
         NEW y \in Printed(x)
  PROVE  Reached(y, u)
<1> DEFINE c == Ceiling(Nearest[u])
           q == x \div Grain
           r == x % Grain
<1>1. c \in Int /\ c < LL * One /\ \E n \in Int : c = n * One
  BY CeilingIs
<1>2. PICK h \in Int : c = h * Grain
  BY <1>1, WholeGrains
<1>3. q \in Int /\ r \in Int /\ 0 <= q /\ x = q * Grain + r /\ 0 <= r /\ r < Grain
  BY DivMod, Units0
<1>4. y = x \/ y = x - r \/ (2 * r >= Grain /\ y = x - r + Grain)
  BY DEF Printed
<1>5. x <= c
  OBVIOUS
<1>6. LL * One \in Int
  BY Units0
<1>7. \A z : Reached(z, u) <=> z \in Int /\ 0 <= z /\ z < LL * One /\ (z <= c \/ z <= u)
  BY DEF Reached
<1> HIDE DEF c, q, r
<1>8. q * Grain \in Int /\ 0 <= q * Grain
  <2>1. 0 * Grain <= q * Grain
    BY <1>3, Monotone, Units0
  <2> QED
    BY <1>3, <2>1, Units0
<1>9. CASE y = x
  BY <1>1, <1>5, <1>6, <1>7, <1>9
<1>10. CASE y = x - r
  BY <1>1, <1>3, <1>5, <1>6, <1>7, <1>8, <1>10
<1>11. CASE 2 * r >= Grain /\ y = x - r + Grain
  <2>1. q * Grain < h * Grain
    BY <1>2, <1>3, <1>5, <1>8, <1>11, Units0
  <2>2. q + 1 <= h
    BY <1>3, <2>1, Cancel, Units0
  <2>3. (q + 1) * Grain <= h * Grain
    BY <1>3, <2>2, Monotone, Units0
  <2>4. (q + 1) * Grain = q * Grain + Grain
    BY <1>3, Units0
  <2>5. y = q * Grain + Grain
    BY <1>3, <1>8, <1>11, Units0
  <2>6. y \in Int /\ 0 <= y /\ y <= c
    BY <1>2, <1>8, <2>3, <2>4, <2>5, Units0
  <2> QED
    BY <1>1, <1>6, <1>7, <2>6
<1> QED
  BY <1>4, <1>9, <1>10, <1>11

\* Every word of a Value in the chain is reached, and no cast is undefined.
LEMMA ChainWords ==
  ASSUME NEW u, Natural(u), NEW x \in AllValues, InChain(x, u),
         NEW k, k \in asInt64(x) \/ k \in asUint64(x)
  PROVE  k \in Int /\ Reached(k * One, u)
<1>0. Reached(0 * One, u) /\ Reached(1 * One, u) /\ 0 \in Int /\ 1 \in Int
  BY SmallReached
<1>1. CASE x.type = "SignedInt"
  <2>1. x.num \in Int /\ Reached(x.num * One, u)
    BY <1>1 DEF InChain
  <2>2. k = x.num \/ k = 0
    BY <1>1 DEF asInt64, asUint64
  <2> QED
    BY <1>0, <2>1, <2>2
<1>2. CASE x.type = "UnsignedInt"
  <2>1. x.num \in Int /\ Reached(x.num * One, u)
    BY <1>2 DEF InChain
  <2>2. Wrapped(x.num) = x.num
    BY <2>1, ReachedWord, Units0 DEF Wrapped
  <2>3. k = x.num \/ k = 0
    BY <1>2, <2>2 DEF asInt64, asUint64
  <2> QED
    BY <1>0, <2>1, <2>3
<1>3. CASE x.type = "Float"
  <2>1. Reached(x.num, u)
    <3>1. Ceiling(Nearest[u]) \in Int /\ Ceiling(Nearest[u]) < LL * One
      BY CeilingIs
    <3>2. x.num \in Int /\ 0 <= x.num /\ x.num <= Ceiling(Nearest[u])
      BY <1>3 DEF InChain
    <3>3. LL * One \in Int
      BY Units0
    <3> QED
      BY <3>1, <3>2, <3>3 DEF Reached
  <2>2. /\ Trunc(x.num) \in Int /\ Reached(Trunc(x.num) * One, u)
        /\ Cast(x.num, LongLong) = {Trunc(x.num)} /\ Cast(x.num, ULongLong) = {Trunc(x.num)}
    BY <2>1, ReachedTrunc DEF Cast
  <2>3. k = Trunc(x.num) \/ k = 0
    BY <1>3, <2>2 DEF asInt64, asUint64
  <2> QED
    BY <1>0, <2>2, <2>3
<1>4. CASE x.type = "Bool"
  <2>1. k \in {0, 1}
    BY <1>4, Holds DEF asInt64, asUint64
  <2> QED
    BY <1>0, <2>1
<1>5. CASE x.type = "Binary"
  <2>1. k = 1
    BY <1>5 DEF asInt64, asUint64, size
  <2> QED
    BY <1>0, <2>1
<1>6. CASE x.type = "String" /\ x.num = NoNumber
  <2>1. k = 0
    BY <1>6 DEF asInt64, asUint64, stoll, stoull, Readable
  <2> QED
    BY <1>0, <2>1
<1>7. CASE x.type = "String" /\ x.num # NoNumber
  <2>1. Reached(x.num, u)
    BY <1>7 DEF InChain
  <2>2. Trunc(x.num) \in Int /\ Reached(Trunc(x.num) * One, u) /\ Unsigned(Trunc(x.num)) = Trunc(x.num)
    BY <2>1, ReachedTrunc
  <2>3. k = Trunc(x.num) \/ k = 0
    BY <1>7, <2>2 DEF asInt64, asUint64, stoll, stoull
  <2> QED
    BY <1>0, <2>2, <2>3
<1> QED
  BY <1>1, <1>2, <1>3, <1>4, <1>5, <1>6, <1>7 DEF InChain

LEMMA ChainFloat ==
  ASSUME NEW u, Natural(u), NEW x \in AllValues, InChain(x, u)
  PROVE  asFloat(x) \in Int /\ 0 <= asFloat(x) /\ asFloat(x) <= Ceiling(Nearest[u])
<1>0. Ceiling(Nearest[u]) \in Int /\ 0 <= Ceiling(Nearest[u])
  BY CeilingIs, Units0
<1>1. CASE x.type = "Float"
  BY <1>1 DEF InChain, asFloat
<1>2. CASE x.type = "String" /\ x.num = NoNumber
  <2>1. asFloat(x) = 0
    BY <1>2 DEF asFloat, stod
  <2> QED
    BY <1>0, <2>1
<1>3. CASE x.type = "String" /\ x.num # NoNumber
  <2>1. Reached(x.num, u)
    BY <1>3 DEF InChain
  <2>2. asFloat(x) = Nearest[x.num]
    BY <1>3, <2>1, ReachedRounds DEF asFloat, stod
  <2> QED
    BY <2>1, <2>2, ReachedRounds
<1>4. CASE x.type \notin {"Float", "String"}
  <2> DEFINE k1 == The(asUint64(x))
             k2 == The(asInt64(x))
  <2>1. k1 \in asUint64(x) /\ k2 \in asInt64(x)
    BY SignedWords, UnsignedWords DEF The
  <2>2. Reached(k1 * One, u) /\ Reached(k2 * One, u)
    BY <2>1, ChainWords
  <2>3. asFloat(x) = Nearest[k1 * One] \/ asFloat(x) = Nearest[k2 * One]
    BY <1>4 DEF asFloat
  <2> HIDE DEF k1, k2
  <2> QED
    BY <2>2, <2>3, ReachedRounds
<1> QED
  BY <1>1, <1>2, <1>3, <1>4

LEMMA ChainText ==
  ASSUME NEW u, Natural(u), NEW x \in AllValues, InChain(x, u), NEW y \in asString(x)
  PROVE  y = NoNumber \/ Reached(y, u)
<1>1. CASE x.type \in {"SignedInt", "UnsignedInt"}
  BY <1>1 DEF InChain, asString
<1>2. CASE x.type = "Float"
  BY <1>2, ReachedPrints DEF InChain, asString
<1>3. CASE x.type \in {"Bool", "Binary", "String"}
  BY <1>3 DEF InChain, asString
<1> QED
  BY <1>1, <1>2, <1>3 DEF InChain

\* The number one starts from.
LEMMA ChainStart ==
  ASSUME NEW x \in AllValues, isNumeric(x), Natural(Units(x))
  PROVE  InChain(x, Units(x))
<1> DEFINE u == Units(x)
<1>0. Nearest[u] \in Int /\ Nearest[u] <= Ceiling(Nearest[u])
  BY CeilingIs
<1>1. CASE x.type = "Float"
  <2>1. u = x.num /\ u \in Doubles /\ u \in Span /\ u \in Int
    BY <1>1, Holds, SmallReached DEF Units, Natural
  <2>2. Nearest[u] = u
    BY <2>1, ExactAssumption
  <2> QED
    BY <1>0, <1>1, <2>1, <2>2 DEF InChain, Natural
<1>2. CASE x.type \in {"SignedInt", "UnsignedInt"}
  <2> DEFINE n == x.num
  <2>1. n \in (-2 * LL)..(2 * LL) /\ u = n * One
    BY <1>2, Holds, Widths DEF Units
  <2>2. Nearest[0 * One] <= Nearest[n * One]
    BY <2>1, ZeroIsExact DEF Natural
  <2>3. 0 \in (-2 * II)..(2 * II) /\ -2 * II <= 0 - 1
    BY Units0
  <2> HIDE DEF n
  <2>4. 0 <= n
    BY <2>1, <2>2, <2>3, OrderOfDoubles
  <2>5. n < LL
    <3>1. ASSUME LL <= n PROVE FALSE
      <4>1. Nearest[LL * One] = LL * One
        BY Units0, LimitsAreExact
      <4>2. LL \in (-2 * LL)..(2 * LL)
        BY Units0
      <4>3. Nearest[LL * One] <= Nearest[n * One]
        BY <2>1, <3>1, <4>2, NearestKeepsOrder
      <4>4. Nearest[n * One] < LL * One /\ Nearest[n * One] \in Int /\ LL * One \in Int
        BY <2>1, <1>0, Units0 DEF Natural
      <4> QED
        BY <4>1, <4>3, <4>4
    <3> QED
      BY <2>1, <3>1, Units0
  <2>6. n * One \in Int /\ 0 <= n * One /\ n * One < LL * One
    <3>1. 0 * One <= n * One
      BY <2>1, <2>4, Monotone, Units0
    <3>2. n * One < LL * One
      BY <2>1, <2>5, StrictlyMonotone, Units0
    <3> QED
      BY <2>1, <3>1, <3>2, Units0
  <2>7. Reached(n * One, u)
    BY <2>1, <2>6 DEF Reached
  <2> QED
    BY <1>2, <2>1, <2>7 DEF InChain, n
<1> QED
  BY <1>1, <1>2 DEF isNumeric, Numeric

LEMMA ChainStep ==
  ASSUME TypeOK, ChainInv, [Next]_vars
  PROVE  ChainInv'
<1>1. origin' = origin /\ (~cut' => ~cut)
  <2>1. CASE UNCHANGED vars
    BY <2>1 DEF vars
  <2>2. CASE CastToInt
    BY <2>2 DEF CastToInt
  <2>3. ASSUME NEW t, NEW S, Become(t, S) PROVE UNCHANGED <<origin, cut>>
    BY <2>3 DEF Become
  <2> QED
    BY <2>1, <2>2, <2>3 DEF Next, ToInt64, ToUint64, ToFloat, ToBool, ToInt, ToUint, ToText, ToBinary
<1> DEFINE u == Units(origin)
<1>2. SUFFICES ASSUME isNumeric(origin), Readable(origin.num), Natural(u), ~cut'
               PROVE  InChain(v', u)
  BY <1>1, Zenon DEF ChainInv
<1>3. InChain(v, u) /\ v \in AllValues /\ Natural(u)
  BY <1>1, <1>2 DEF ChainInv, TypeOK
<1> HIDE DEF u
<1>4. Reached(0 * One, u) /\ 0 \in Int
  BY <1>3, SmallReached
<1>5. ASSUME NEW S, NEW t \in {"SignedInt", "UnsignedInt"}, Become(t, S),
             \A k \in S : k \in Int /\ Reached(k * One, u)
      PROVE  InChain(v', u)
  BY <1>5 DEF Become, Value, InChain
<1>6. CASE ToInt64
  BY <1>3, <1>5, <1>6, ChainWords DEF ToInt64
<1>7. CASE ToUint64
  BY <1>3, <1>5, <1>7, ChainWords DEF ToUint64
<1>8. CASE ToFloat
  <2>1. v' = Value("Float", asFloat(v))
    BY <1>8 DEF ToFloat, Become
  <2> QED
    BY <1>3, <2>1, ChainFloat DEF Value, InChain
<1>9. CASE ToBool
  <2>1. v'.type = "Bool"
    BY <1>9 DEF ToBool, Become, Value
  <2> QED
    BY <2>1 DEF InChain
<1>10. CASE ToInt
  <2>1. \A k \in asInt(v) : k = 0 \/ k \in asInt64(v)
    BY DEF asInt
  <2>2. \A k \in asInt(v) : k \in Int /\ Reached(k * One, u)
    BY <1>3, <1>4, <2>1, ChainWords
  <2> QED
    BY <1>5, <1>10, <2>2 DEF ToInt
<1>11. CASE ToUint
  <2>1. \A k \in asUint(v) : k = 0 \/ k \in asUint64(v)
    BY DEF asUint
  <2>2. \A k \in asUint(v) : k \in Int /\ Reached(k * One, u)
    BY <1>3, <1>4, <2>1, ChainWords
  <2> QED
    BY <1>5, <1>11, <2>2 DEF ToUint
<1>12. CASE ToText
  <2>1. PICK y \in asString(v) : v' = Value("String", y)
    BY <1>12 DEF ToText, Become
  <2>2. y = NoNumber \/ Reached(y, u)
    BY <1>3, ChainText
  <2> QED
    BY <2>1, <2>2 DEF Value, InChain
<1>13. CASE ToBinary
  <2>1. v'.type = "Binary"
    BY <1>13 DEF ToBinary, Become, Value
  <2> QED
    BY <2>1 DEF InChain
<1>14. CASE CastToInt
  <2> DEFINE low == ((v.num + II) % (2 * II)) - II
  <2>1. v' = Value("SignedInt", low) /\ (cut' = (cut \/ low # v.num)) /\ v.type = "SignedInt"
    BY <1>14 DEF CastToInt
  <2>2. low = v.num
    BY <1>2, <2>1
  <2> HIDE DEF low
  <2>3. v.num \in Int /\ Reached(v.num * One, u)
    BY <1>3, <2>1 DEF InChain
  <2> QED
    BY <2>1, <2>2, <2>3 DEF Value, InChain
<1>15. CASE UNCHANGED vars
  BY <1>3, <1>15 DEF vars
<1> QED
  BY <1>6, <1>7, <1>8, <1>9, <1>10, <1>11, <1>12, <1>13, <1>14, <1>15 DEF Next

\* No chain of conversions makes a natural number negative, however often it is
\* rounded, printed and read, or greater than itself or its double and 1 more.
THEOREM ChainsAlwaysShrink == Spec => []ChainsShrink
<1>1. Init => ChainInv
  BY ChainStart DEF Init, ChainInv
<1>2. TypeOK /\ ChainInv => ChainsShrink
  <2> SUFFICES ASSUME TypeOK, ChainInv, isNumeric(origin), Readable(origin.num),
                      Natural(Units(origin)), isNumeric(v), ~cut
               PROVE  /\ 0 <= Units(v)
                      /\ Units(v) <= Units(origin) \/ Units(v) <= Nearest[Units(origin)] + One
    BY DEF ChainsShrink, Natural
  <2> DEFINE u == Units(origin)
             c == Ceiling(Nearest[u])
  <2>1. InChain(v, u) /\ Natural(u)
    BY DEF ChainInv
  <2>2. c \in Int /\ Nearest[u] \in Int /\ c <= Nearest[u] + One
    BY <2>1, CeilingIs
  <2>3. u \in Int
    BY <2>1, SmallReached
  <2>4. /\ Units(v) \in Int /\ 0 <= Units(v)
        /\ Units(v) <= c \/ Units(v) <= u
    BY <2>1 DEF InChain, Reached, Units, isNumeric, Numeric
  <2> HIDE DEF u, c
  <2>5. 0 <= Units(v) /\ (Units(v) <= u \/ Units(v) <= Nearest[u] + One)
    BY <2>2, <2>3, <2>4, Units0
  <2> QED
    BY <2>5 DEF u
<1> QED
  BY <1>1, <1>2, ChainStep, ConversionsTypeCorrect, PTL DEF Spec

-----------------------------------------------------------------------------
(* What the header promises of a numeric, and where the code departs.      *)

LEMMA TruncBounds ==
  ASSUME NEW x \in Int
  PROVE  LET t == Trunc(x) IN
         /\ t \in Int /\ (t - 1) * One < x /\ x < (t + 1) * One
         /\ 0 <= x => 0 <= t /\ t * One <= x
         /\ x < 0 => t <= 0 /\ x <= t * One
<1> DEFINE t == Trunc(x)
<1>1. CASE 0 <= x
  <2>1. /\ t \in Int /\ x = t * One + (x % One) /\ 0 <= x % One /\ x % One < One
        /\ x % One \in Int /\ 0 <= t
    BY <1>1, DivMod, Units0 DEF Trunc
  <2> HIDE DEF t
  <2>2. /\ (t + 1) * One = t * One + One /\ (t - 1) * One = t * One - One
        /\ t * One \in Int
    BY <2>1, Units0
  <2>3. (t - 1) * One < x /\ x < (t + 1) * One /\ t * One <= x
    BY <2>1, <2>2, Units0
  <2> QED
    BY <1>1, <2>1, <2>3 DEF t
<1>2. CASE x < 0
  <2> DEFINE y == -x
             q == y \div One
  <2>1. /\ q \in Int /\ y = q * One + (y % One) /\ 0 <= y % One /\ y % One < One
        /\ y % One \in Int /\ 0 <= q
    BY <1>2, DivMod, Units0
  <2>2. t = -q
    BY <1>2 DEF Trunc
  <2> HIDE DEF q, t
  <2>3. /\ (t + 1) * One = One - q * One /\ (t - 1) * One = -(q * One) - One
        /\ t * One = -(q * One) /\ q * One \in Int
    BY <2>1, <2>2, Units0
  <2>4. t \in Int /\ t <= 0
    BY <2>1, <2>2
  <2>5. (t - 1) * One < x /\ x < (t + 1) * One /\ x <= t * One
    BY <1>2, <2>1, <2>3, Units0
  <2> QED
    BY <1>2, <2>4, <2>5 DEF t
<1> QED
  BY <1>1, <1>2

\* The limits of the two words.
Limits(lo, n) == (lo = -LL /\ n = LL) \/ (lo = 0 /\ n = 2 * LL)

LEMMA LimitFacts ==
  ASSUME NEW lo, NEW n, Limits(lo, n)
  PROVE  /\ lo \in (-2 * LL)..(2 * LL) /\ n \in (-2 * LL)..(2 * LL) /\ n - 1 \in (-2 * LL)..(2 * LL)
         /\ lo \in Int /\ n \in Int /\ lo <= 0 /\ -LL <= lo /\ LL <= n /\ lo < n - 1 /\ 1 < n
         /\ Nearest[lo * One] = lo * One /\ Nearest[n * One] = n * One
         /\ Nearest[(n - 1) * One] <= n * One /\ Nearest[(n - 1) * One] \in Int
         /\ lo * One \in Int /\ n * One \in Int
<1>1. LL \in Nat /\ 1 < LL /\ lo \in Int /\ n \in Int
  BY Units0 DEF Limits
<1>2. /\ lo \in (-2 * LL)..(2 * LL) /\ n \in (-2 * LL)..(2 * LL) /\ n - 1 \in (-2 * LL)..(2 * LL)
      /\ lo <= 0 /\ -LL <= lo /\ LL <= n /\ lo < n - 1 /\ 1 < n
  BY <1>1 DEF Limits
<1>3. Nearest[lo * One] = lo * One
  <2>1. CASE lo = 0
    BY <2>1, ZeroIsExact
  <2>2. CASE lo = -LL
    <3>1. lo \in -LL..(2 * LL) /\ LL = -lo
      BY <1>1, <2>2
    <3> QED
      BY <3>1, RoundingAssumption
  <2> QED
    BY <2>1, <2>2 DEF Limits
<1>4. Nearest[n * One] = n * One
  <2>1. n \in -LL..(2 * LL) /\ (LL = n \/ LL = n - LL)
    BY <1>1 DEF Limits
  <2> QED
    BY <2>1, RoundingAssumption
<1>5. Nearest[(n - 1) * One] <= n * One /\ Nearest[(n - 1) * One] \in Int
  <2> DEFINE m == n - 1
  <2>1. m \in (-2 * LL)..(2 * LL) /\ m <= n
    BY <1>1, <1>2
  <2> HIDE DEF m
  <2>2. Nearest[m * One] <= Nearest[n * One] /\ Nearest[m * One] \in Int
    BY <1>2, <2>1, NearestKeepsOrder, InSpan
  <2> QED
    BY <1>4, <2>2 DEF m
<1>6. lo * One \in Int /\ n * One \in Int
  BY <1>1, Units0
<1> QED
  BY <1>1, <1>2, <1>3, <1>4, <1>5, <1>6

\* A double whose integer part is a number of the type, other than 0, is within
\* the limits, however the greatest number is rounded.
LEMMA FitsIsInRange ==
  ASSUME NEW lo, NEW n, Limits(lo, n), NEW x \in Doubles, x \in Int,
         Trunc(x) \in lo..(n - 1), Trunc(x) # 0
  PROVE  in_range(x, lo, n - 1)
<1> DEFINE t == Trunc(x)  q == x \div One  r == x % One
<1>1. /\ t \in Int /\ (t - 1) * One < x /\ x < (t + 1) * One
      /\ 0 <= x => 0 <= t
      /\ x < 0 => t <= 0
  BY TruncBounds
<1>2. q \in Int /\ r \in Int /\ x = q * One + r /\ 0 <= r /\ r < One
  BY DivMod, Units0
<1>3. lo <= t /\ t <= n - 1 /\ t # 0
  BY <1>1, LimitFacts
<1>4. x \in Span /\ Nearest[x] = x
  <2>1. t + 1 \in Int /\ t - 1 \in Int /\ t + 1 <= 2 * LL /\ -2 * LL <= t - 1
    BY <1>1, <1>3, Units0 DEF Limits
  <2> HIDE DEF t
  <2>2. (t + 1) * One <= (2 * LL) * One /\ (-2 * LL) * One <= (t - 1) * One
    BY <2>1, Monotone, Units0
  <2>3. (t + 1) * One \in Int /\ (t - 1) * One \in Int
        /\ (2 * LL) * One \in Int /\ (-2 * LL) * One \in Int
    BY <2>1, Units0
  <2>4. (-2 * LL) * One <= x /\ x <= (2 * LL) * One
    BY <1>1, <2>2, <2>3
  <2>5. x \in Span
    <3> DEFINE s == 2 * LL
    <3>1. (-2 * LL) * One = -(s * One) /\ s \in Int
      BY Units0
    <3>2. x \in (-(s * One))..(s * One)
      BY <2>3, <2>4, <3>1
    <3> HIDE DEF s
    <3>3. Span = (-(s * One))..(s * One)
      BY DEF Span, s
    <3> QED
      BY <3>2, <3>3
  <2> QED
    BY <2>5, ExactAssumption
<1>5. x # NaN
  BY DoubleAssumption
<1> HIDE DEF t, q, r
<1>6. CASE r = 0
  <2>1. x = q * One
    BY <1>2, <1>6, Units0
  <2>2. q < t + 1 /\ t - 1 < q
    <3> DEFINE a == t - 1  b == t + 1
    <3>1. a \in Int /\ b \in Int /\ a * One < q * One /\ q * One < b * One
      BY <1>1, <2>1
    <3> HIDE DEF a, b
    <3>2. q < b
      BY <1>2, <3>1, Cancel, Units0
    <3>3. a < q
      BY <1>2, <3>1, Cancel, Units0
    <3> QED
      BY <3>2, <3>3 DEF a, b
  <2>3. lo <= q /\ q <= n - 1 /\ q \in (-2 * LL)..(2 * LL)
    <3>1. q = t
      BY <1>1, <1>2, <2>2
    <3>2. lo \in (-2 * LL)..(2 * LL) /\ n - 1 \in (-2 * LL)..(2 * LL)
      BY LimitFacts
    <3> QED
      BY <1>2, <1>3, <3>1, <3>2, Units0
  <2> DEFINE m == n - 1
  <2>4. m \in (-2 * LL)..(2 * LL) /\ lo \in (-2 * LL)..(2 * LL) /\ q <= m
    BY <2>3, LimitFacts
  <2> HIDE DEF m
  <2>5. Nearest[lo * One] <= Nearest[q * One] /\ Nearest[q * One] <= Nearest[m * One]
    BY <2>3, <2>4, NearestKeepsOrder
  <2> QED
    BY <1>4, <1>5, <2>1, <2>5 DEF in_range, m
<1>7. CASE r # 0
  <2>1. q \in -LL..(LL - 2)
    BY <1>4, <1>7, ExactAssumption DEF q, r
  <2>2. Nearest[lo * One] <= x
    <3>1. CASE lo = -LL
      <4>1. lo * One <= q * One
        BY <1>2, <2>1, <3>1, Monotone, LimitFacts, Units0
      <4>2. lo * One <= x
        <5>1. lo * One \in Int /\ q * One \in Int
          BY <1>2, LimitFacts, Units0
        <5> QED
          BY <1>2, <4>1, <5>1
      <4> QED
        BY <4>2, LimitFacts
    <3>2. CASE lo = 0
      <4>1. 0 <= x
        BY <1>1, <1>3, <3>2
      <4> QED
        BY <3>2, <4>1, ZeroIsExact
    <3> QED
      BY <3>1, <3>2 DEF Limits
  <2>3. x <= Nearest[(n - 1) * One]
    <3> DEFINE m == n - 1
    <3>1. m \in (-2 * LL)..(2 * LL) /\ q + 1 <= m /\ m \in Int
      BY <2>1, LimitFacts, Units0
    <3> HIDE DEF m
    <3>2. (q + 1) * One <= m * One /\ (q + 1) * One = q * One + One /\ q * One \in Int
          /\ m * One \in Int
      BY <1>2, <3>1, Monotone, Units0
    <3>3. x <= m * One
      BY <1>2, <3>2, Units0
    <3>4. m * One \in Span
      BY <3>1, InSpan
    <3> DEFINE y == m * One
    <3>5. x <= y /\ y \in Span
      BY <3>3, <3>4
    <3> HIDE DEF y
    <3>6. Nearest[x] <= Nearest[y]
      BY <1>4, <3>5, NearestMonotone
    <3> QED
      BY <1>4, <3>6 DEF y, m
  <2> QED
    BY <1>5, <2>2, <2>3 DEF in_range
<1> QED
  BY <1>2, <1>6, <1>7

\* A double within the limits has its integer part in the type, unless it is
\* the number above it, to which the greatest number has been rounded.
LEMMA InRangeFits ==
  ASSUME NEW lo, NEW n, Limits(lo, n), NEW x \in Int, in_range(x, lo, n - 1)
  PROVE  \/ Trunc(x) \in lo..(n - 1) /\ x # n * One
         \/ x = n * One /\ Nearest[(n - 1) * One] = n * One
<1> DEFINE t == Trunc(x)
<1>1. /\ t \in Int /\ (0 <= x => 0 <= t /\ t * One <= x) /\ (x < 0 => t <= 0 /\ x <= t * One)
  BY TruncBounds
<1>2. lo * One <= x /\ x <= Nearest[(n - 1) * One]
  BY LimitFacts DEF in_range
<1>3. SUFFICES ASSUME x # n * One PROVE t \in lo..(n - 1)
  BY <1>2, LimitFacts
<1>4. x < n * One
  BY <1>2, <1>3, LimitFacts
<1> HIDE DEF t
<1>5. CASE 0 <= x
  <2>1. t * One < n * One
    <3>1. t * One \in Int /\ n * One \in Int
      BY <1>1, LimitFacts, Units0
    <3> QED
      BY <1>1, <1>4, <1>5, <3>1
  <2>2. t < n
    BY <1>1, <2>1, Cancel, LimitFacts, Units0
  <2> QED
    BY <1>1, <1>5, <2>2, LimitFacts
<1>6. CASE x < 0
  <2>1. lo * One < (t + 1) * One
    <3>1. (t + 1) * One = t * One + One /\ t * One \in Int /\ lo * One \in Int
      BY <1>1, LimitFacts, Units0
    <3> QED
      BY <1>1, <1>2, <1>6, <3>1, Units0
  <2>2. lo < t + 1
    BY <1>1, <2>1, Cancel, LimitFacts, Units0
  <2> QED
    BY <1>1, <1>6, <2>2, LimitFacts
<1> QED
  BY <1>5, <1>6

LEMMA TruncOfWhole ==
  ASSUME NEW m \in Int
  PROVE  Trunc(m * One) = m
<1> DEFINE x == m * One  t == Trunc(x)
<1>1. x \in Int
  BY Units0
<1>2. t \in Int /\ (t - 1) * One < x /\ x < (t + 1) * One
  BY <1>1, TruncBounds
<1> HIDE DEF t
<1>3. t - 1 < m /\ m < t + 1
  BY <1>2, Cancel, Units0
<1> QED
  BY <1>2, <1>3 DEF t

\* The double x, converted to the numbers S from lo to n - 1, is not what the
\* header promises.
Departs(x, lo, n, S) ==
  (IF in_range(x, lo, n - 1) THEN Cast(x, S) ELSE {0})
    # {IF x # NaN /\ Trunc(x) \in S THEN Trunc(x) ELSE 0}

\* A Float gives its integer part if it fits and 0 otherwise, but on the limit.
LEMMA FloatWord ==
  ASSUME NEW lo, NEW n, Limits(lo, n), NEW x \in Doubles, NEW S, S = lo..(n - 1)
  PROVE  Departs(x, lo, n, S) <=> x = n * One /\ Nearest[(n - 1) * One] = n * One
<1>0. n * One \in Int /\ 0 \in S /\ 1 \in S /\ n \notin S
  BY LimitFacts
<1>1. CASE x = NaN
  <2>1. ~in_range(x, lo, n - 1)
    BY <1>1 DEF in_range
  <2>2. x # n * One
    BY <1>0, <1>1, DoubleAssumption
  <2> QED
    BY <1>1, <2>1, <2>2 DEF Departs
<1>2. CASE x # NaN
  <2>0. x \in Int
    BY <1>2, DoubleAssumption
  <2>1. CASE in_range(x, lo, n - 1)
    <3>1. CASE Trunc(x) \in S /\ x # n * One
      BY <1>2, <2>1, <3>1 DEF Cast, Departs
    <3>2. CASE x = n * One /\ Nearest[(n - 1) * One] = n * One
      <4>1. Trunc(x) = n
        BY <3>2, TruncOfWhole, LimitFacts
      <4>2. Cast(x, S) = S
        BY <1>0, <4>1 DEF Cast
      <4>3. (IF in_range(x, lo, n - 1) THEN Cast(x, S) ELSE {0}) = S
        BY <2>1, <4>2
      <4>4. \A e : S # {e}
        BY <1>0
      <4> QED
        BY <3>2, <4>3, <4>4 DEF Departs
    <3> QED
      BY <2>0, <2>1, <3>1, <3>2, InRangeFits
  <2>2. CASE ~in_range(x, lo, n - 1)
    <3>1. Trunc(x) \in S => Trunc(x) = 0
      BY <2>0, <2>2, FitsIsInRange
    <3>2. ~(x = n * One /\ Nearest[(n - 1) * One] = n * One)
      <4>1. lo * One <= n * One /\ Nearest[lo * One] = lo * One
        <5>1. lo \in Int /\ n \in Int /\ lo <= n
          BY LimitFacts
        <5> QED
          BY <5>1, Monotone, LimitFacts, Units0
      <4> QED
        BY <1>0, <1>2, <2>2, <4>1 DEF in_range
    <3> QED
      BY <2>2, <3>1, <3>2 DEF Departs
  <2> QED
    BY <2>1, <2>2
<1> QED
  BY <1>1, <1>2

\* A whole number of the type is within the limits, and so is its double.
LEMMA WordInRange ==
  ASSUME NEW lo \in (-2 * LL)..(2 * LL), NEW hi \in (-2 * LL)..(2 * LL), NEW k \in lo..hi
  PROVE  in_range(Nearest[k * One], lo, hi)
<1>1. k \in (-2 * LL)..(2 * LL) /\ lo <= k /\ k <= hi
  BY Units0
<1>2. Nearest[lo * One] <= Nearest[k * One] /\ Nearest[k * One] <= Nearest[hi * One]
  BY <1>1, NearestKeepsOrder
<1>3. Nearest[k * One] # NaN
  BY <1>1, InSpan, DoubleAssumption
<1> QED
  BY <1>2, <1>3 DEF in_range

LEMMA SignedLimit ==
  ASSUME NEW x \in AllValues, isNumeric(x)
  PROVE  asInt64(x) # {FitOrZero(x, LongLong)} <=> OnLimit(x, LL)
<1>0. /\ Limits(-LL, LL) /\ LongLong = (-LL)..(LL - 1) /\ LL \in Nat /\ NaN \notin Int
      /\ 0 < LL
  BY Units0, DoubleAssumption DEF Limits, LongLong
<1>1. CASE x.type = "SignedInt"
  <2>1. x.num \in LongLong
    BY <1>1, Holds
  <2>2. x.num \in Int /\ x.num < LL
    BY <1>0, <2>1
  <2>3. ~OnLimit(x, LL)
    BY <1>0, <1>1, <2>2 DEF OnLimit, Whole
  <2> QED
    BY <1>0, <1>1, <2>1, <2>2, <2>3 DEF asInt64, FitOrZero, Whole
<1>2. CASE x.type = "UnsignedInt"
  <2> DEFINE k == x.num
             d == Nearest[k * One]
  <2>1. k \in ULongLong /\ k \in Int /\ 0 <= k /\ k <= 2 * LL - 1
        /\ k \in (-2 * LL)..(2 * LL) /\ LL \in (-2 * LL)..(2 * LL)
        /\ LL - 1 \in (-2 * LL)..(2 * LL) /\ -LL \in (-2 * LL)..(2 * LL)
    BY <1>0, <1>2, Holds DEF ULongLong
  <2>2. /\ asInt64(x) = {IF in_range(d, -LL, LL - 1) THEN Wrapped(k) ELSE 0}
        /\ FitOrZero(x, LongLong) = IF k \in LongLong THEN k ELSE 0
        /\ OnLimit(x, LL) <=> d = LL * One /\ Nearest[(LL - 1) * One] = LL * One /\ k >= LL
    BY <1>0, <1>2, <2>1 DEF asInt64, FitOrZero, OnLimit, Whole, AsDouble
  <2> HIDE DEF k
  <2>3. CASE k <= LL - 1
    <3>1. k \in (-LL)..(LL - 1) /\ Wrapped(k) = k
      BY <1>0, <2>1, <2>3 DEF Wrapped
    <3>2. in_range(d, -LL, LL - 1)
      BY <2>1, <3>1, WordInRange
    <3>3. ~(k >= LL)
      BY <1>0, <2>1, <2>3
    <3> QED
      BY <1>0, <2>2, <3>1, <3>2, <3>3
  <2>4. CASE k >= LL
    <3>1. k \notin LongLong /\ Wrapped(k) # 0
      BY <1>0, <2>1, <2>4 DEF Wrapped
    <3>2. LL * One <= d /\ d \in Int /\ d # NaN
      BY <1>0, <2>1, <2>4, NearestKeepsOrder, InSpan, LimitFacts
    <3>3. /\ Nearest[(LL - 1) * One] <= LL * One /\ Nearest[(LL - 1) * One] \in Int
          /\ Nearest[(-LL) * One] <= d /\ LL * One \in Int
      BY <1>0, <2>1, <2>4, NearestKeepsOrder, LimitFacts
    <3>4. in_range(d, -LL, LL - 1) <=> d <= Nearest[(LL - 1) * One]
      BY <3>2, <3>3 DEF in_range
    <3>5. d <= Nearest[(LL - 1) * One] <=> d = LL * One /\ Nearest[(LL - 1) * One] = LL * One
      BY <3>2, <3>3
    <3> QED
      BY <2>2, <2>4, <3>1, <3>4, <3>5
  <2> QED
    BY <1>0, <2>1, <2>3, <2>4
<1>3. CASE x.type = "Float"
  <2>1. x.num \in Doubles
    BY <1>3, Holds
  <2>2. x.num = LL * One => Whole(x) >= LL
    BY <1>0, <1>3, TruncOfWhole DEF Whole
  <2>3. OnLimit(x, LL) <=> x.num = LL * One /\ Nearest[(LL - 1) * One] = LL * One
    BY <1>3, <2>2 DEF OnLimit, AsDouble
  <2>4. Departs(x.num, -LL, LL, LongLong)
        <=> x.num = LL * One /\ Nearest[(LL - 1) * One] = LL * One
    BY <1>0, <2>1, FloatWord
  <2>6. Departs(x.num, -LL, LL, LongLong) <=> asInt64(x) # {FitOrZero(x, LongLong)}
    BY <1>3 DEF Departs, asInt64, FitOrZero, Whole
  <2> QED
    BY <2>3, <2>4, <2>6
<1> QED
  BY <1>1, <1>2, <1>3 DEF isNumeric, Numeric

LEMMA UnsignedLimit ==
  ASSUME NEW x \in AllValues, isNumeric(x)
  PROVE  asUint64(x) # {FitOrZero(x, ULongLong)} <=> OnLimit(x, 2 * LL)
<1>0. /\ Limits(0, 2 * LL) /\ ULongLong = 0..(2 * LL - 1) /\ LL \in Nat /\ NaN \notin Int
      /\ 0 < LL /\ 2 * LL \in Int
  BY Units0, DoubleAssumption DEF Limits, ULongLong
<1>1. CASE x.type = "UnsignedInt"
  <2>1. x.num \in ULongLong
    BY <1>1, Holds
  <2>2. x.num \in Int /\ x.num < 2 * LL
    BY <1>0, <2>1
  <2>3. ~OnLimit(x, 2 * LL)
    BY <1>0, <1>1, <2>2 DEF OnLimit, Whole
  <2> QED
    BY <1>0, <1>1, <2>1, <2>2, <2>3 DEF asUint64, FitOrZero, Whole
<1>2. CASE x.type = "SignedInt"
  <2> DEFINE k == x.num
  <2>1. k \in LongLong /\ k \in Int /\ k < LL /\ k \in (-2 * LL)..(2 * LL)
        /\ 0 \in (-2 * LL)..(2 * LL) /\ 2 * LL - 1 \in (-2 * LL)..(2 * LL)
    BY <1>0, <1>2, Holds DEF LongLong
  <2>2. /\ asUint64(x) = {IF in_range(Nearest[k * One], 0, 2 * LL - 1) THEN k ELSE 0}
        /\ FitOrZero(x, ULongLong) = IF k \in ULongLong THEN k ELSE 0
        /\ OnLimit(x, 2 * LL) => k >= 2 * LL
    BY <1>0, <1>2, <2>1 DEF asUint64, FitOrZero, OnLimit, Whole
  <2> HIDE DEF k
  <2>3. k \in ULongLong => in_range(Nearest[k * One], 0, 2 * LL - 1)
    BY <1>0, <2>1, WordInRange
  <2>4. in_range(Nearest[k * One], 0, 2 * LL - 1) => k \in ULongLong
    <3>1. in_range(Nearest[k * One], 0, 2 * LL - 1) => k >= 0
      BY <2>1, RangeOfNat
    <3> QED
      BY <1>0, <2>1, <3>1
  <2>5. ~(k >= 2 * LL)
    BY <1>0, <2>1
  <2> QED
    BY <2>2, <2>3, <2>4, <2>5
<1>3. CASE x.type = "Float"
  <2> DEFINE n == 2 * LL
  <2>1. x.num \in Doubles /\ n \in Int
    BY <1>0, <1>3, Holds
  <2>2. x.num = n * One => Whole(x) = n
    BY <1>3, <2>1, TruncOfWhole DEF Whole
  <2>3. n >= n
    BY <2>1
  <2>4. OnLimit(x, n) <=> x.num = n * One /\ Nearest[(n - 1) * One] = n * One
    BY <1>3, <2>2, <2>3 DEF OnLimit, AsDouble
  <2>5. Departs(x.num, 0, n, ULongLong)
        <=> x.num = n * One /\ Nearest[(n - 1) * One] = n * One
    BY <1>0, <2>1, FloatWord
  <2>6. Departs(x.num, 0, n, ULongLong) <=> asUint64(x) # {FitOrZero(x, ULongLong)}
    BY <1>3 DEF Departs, asUint64, FitOrZero, Whole
  <2> QED
    BY <2>4, <2>5, <2>6
<1> QED
  BY <1>1, <1>2, <1>3 DEF isNumeric, Numeric

\* asFloat, the greater of the two words, is the Value but for negative integers.
LEMMA FloatLimit ==
  ASSUME NEW x \in AllValues, isNumeric(x)
  PROVE  asFloat(x) # AsDouble(x) <=> x.type = "SignedInt" /\ x.num < 0
<1>0. LL \in Nat /\ 0 < LL /\ II \in Nat /\ 0 < II /\ 2 * II <= LL
  BY Units0
<1>1. CASE x.type = "Float"
  BY <1>1 DEF asFloat, AsDouble
<1>2. ASSUME x.type \in {"SignedInt", "UnsignedInt"}, 0 <= x.num
      PROVE  asFloat(x) = AsDouble(x)
  <2> DEFINE k == x.num
             i == The(asInt64(x))
             d == Nearest[k * One]
             e == Nearest[i * One]
  <2>1. k \in (-2 * LL)..(2 * LL) /\ k \in ULongLong
    BY <1>0, <1>2, Holds DEF LongLong, ULongLong
  <2>2. asUint64(x) = {k}
    <3>1. 0 \in (-2 * LL)..(2 * LL) /\ 2 * LL - 1 \in (-2 * LL)..(2 * LL)
          /\ k \in 0..(2 * LL - 1)
      BY <1>0, <2>1 DEF ULongLong
    <3>2. in_range(Nearest[k * One], 0, 2 * LL - 1)
      BY <3>1, WordInRange
    <3> QED
      BY <1>2, <3>2 DEF asUint64
  <2>3. i \in (-2 * LL)..(2 * LL) /\ i <= k
    <3>1. asInt64(x) \subseteq {k, Wrapped(k), 0} /\ asInt64(x) # {}
      BY <1>2 DEF asInt64
    <3>2. i \in {k, Wrapped(k), 0}
      BY <3>1 DEF The
    <3>3. Wrapped(k) <= k /\ Wrapped(k) \in (-2 * LL)..(2 * LL)
      BY <1>0, <1>2, <2>1 DEF Wrapped, ULongLong
    <3> HIDE DEF i, k
    <3> QED
      BY <1>0, <1>2, <2>1, <3>2, <3>3 DEF k
  <2>4. asFloat(x) = IF d > e THEN d ELSE e
    BY <1>2, <2>2 DEF asFloat, The
  <2>5. AsDouble(x) = d
    BY <1>2 DEF AsDouble
  <2> HIDE DEF i, k
  <2>6. e <= d /\ d \in Int /\ e \in Int
    BY <2>1, <2>3, NearestKeepsOrder, InSpan
  <2> QED
    BY <2>4, <2>5, <2>6
<1>3. ASSUME x.type = "SignedInt", x.num < 0
      PROVE  asFloat(x) # AsDouble(x)
  <2> DEFINE k == x.num
             m == -1
             d == Nearest[k * One]
  <2>1. k \in (-2 * LL)..(2 * LL) /\ k <= m /\ m \in (-2 * LL)..(2 * LL)
        /\ m \in (-2 * II)..(2 * II)
    BY <1>0, <1>3, Holds DEF LongLong
  <2>2. asUint64(x) = {0}
    <3>1. ~in_range(Nearest[k * One], 0, 2 * LL - 1)
      BY <1>3, <2>1, RangeOfNat
    <3> QED
      BY <1>3, <3>1 DEF asUint64
  <2>3. asInt64(x) = {k}
    BY <1>3 DEF asInt64
  <2>4. asFloat(x) = IF Nearest[0 * One] > d THEN Nearest[0 * One] ELSE d
    BY <1>3, <2>2, <2>3 DEF asFloat, The
  <2>5. AsDouble(x) = d
    BY <1>3 DEF AsDouble
  <2>6. m * One = -One
    BY Units0
  <2> HIDE DEF k, m
  <2>7. d <= Nearest[m * One] /\ d \in Int /\ Nearest[m * One] = m * One
    BY <2>1, NearestKeepsOrder, NearestIsExact, InSpan
  <2>8. d < 0
    BY <2>6, <2>7, Units0
  <2> QED
    BY <2>4, <2>5, <2>7, <2>8, ZeroIsExact
<1>4. x.type = "UnsignedInt" => 0 <= x.num
  BY Holds DEF ULongLong
<1>5. x.type = "SignedInt" => 0 <= x.num \/ x.num < 0
  BY Holds, <1>0 DEF LongLong
<1> QED
  BY <1>1, <1>2, <1>3, <1>4, <1>5 DEF isNumeric, Numeric

\* What the header promises of asInt64, asUint64 and asFloat fails exactly on the
\* limits of the types and, for asFloat, below 0, for every width and rounding.
THEOREM OnlyTheLimitsDepart == Spec => []OnlyLimitsDepart
<1>1. TypeOK => OnlyLimitsDepart
  BY SignedLimit, UnsignedLimit, FloatLimit DEF TypeOK, OnlyLimitsDepart
<1> QED
  BY <1>1, ConversionsTypeCorrect, PTL

LEMMA NarrowIntIs ==
  ASSUME NEW x \in AllValues, isNumeric(x), NEW k, asInt64(x) = {k}
  PROVE  asInt(x) = {FitOrZero(x, Int32)}
<1> DEFINE n == IF in_range(Nearest[k * One], -II, II - 1) THEN k ELSE 0
<1>1. asInt(x) = {n}
  BY DEF asInt
<1>2. n \in Int32 /\ (n = 0 \/ n = Whole(x))
  BY <1>1, NarrowInt
<1>3. CASE x.num # NaN /\ Whole(x) \in Int32
  <2>0. LL \in Nat /\ II \in Nat /\ 2 * II <= LL /\ 0 < II
    BY Units0
  <2>1. Whole(x) \in LongLong /\ Whole(x) < LL /\ Whole(x) \in (-II)..(II - 1)
    BY <1>3, <2>0 DEF Int32, LongLong
  <2>2. ~OnLimit(x, LL)
    BY <2>0, <2>1 DEF OnLimit
  <2>3. k = Whole(x)
    BY <1>3, <2>1, <2>2, SignedLimit DEF FitOrZero
  <2>4. -II \in (-2 * LL)..(2 * LL) /\ II - 1 \in (-2 * LL)..(2 * LL)
    BY <2>0
  <2>5. in_range(Nearest[k * One], -II, II - 1)
    BY <2>1, <2>3, <2>4, WordInRange
  <2> QED
    BY <1>1, <1>3, <2>3, <2>5 DEF FitOrZero
<1>4. CASE x.num # NaN /\ Whole(x) \notin Int32
  BY <1>1, <1>2, <1>4 DEF FitOrZero
<1>5. CASE x.num = NaN
  <2>1. x.type = "Float"
    BY <1>5, Holds, Widths, DoubleAssumption DEF isNumeric, Numeric
  <2>2. k = 0
    BY <1>5, <2>1 DEF asInt64, in_range
  <2> QED
    BY <1>1, <1>5, <2>2 DEF FitOrZero
<1> QED
  BY <1>3, <1>4, <1>5

LEMMA NarrowUintIs ==
  ASSUME NEW x \in AllValues, isNumeric(x), NEW k, asUint64(x) = {k}
  PROVE  asUint(x) = {FitOrZero(x, UInt32)}
<1> DEFINE n == IF in_range(Nearest[k * One], 0, 2 * II - 1) THEN k ELSE 0
<1>1. asUint(x) = {n}
  BY DEF asUint
<1>2. n \in UInt32 /\ (n = 0 \/ n = Whole(x))
  BY <1>1, NarrowUint
<1>3. CASE x.num # NaN /\ Whole(x) \in UInt32
  <2>0. LL \in Nat /\ II \in Nat /\ 2 * II <= LL /\ 0 < II
    BY Units0
  <2>1. /\ Whole(x) \in ULongLong /\ Whole(x) < 2 * LL /\ Whole(x) \in 0..(2 * II - 1)
        /\ Whole(x) \in Int
    BY <1>3, <2>0 DEF UInt32, ULongLong
  <2>2. ~OnLimit(x, 2 * LL)
    BY <2>0, <2>1 DEF OnLimit
  <2>3. k = Whole(x)
    BY <1>3, <2>1, <2>2, UnsignedLimit DEF FitOrZero
  <2>4. 0 \in (-2 * LL)..(2 * LL) /\ 2 * II - 1 \in (-2 * LL)..(2 * LL)
    BY <2>0
  <2>5. in_range(Nearest[k * One], 0, 2 * II - 1)
    BY <2>1, <2>3, <2>4, WordInRange
  <2> QED
    BY <1>1, <1>3, <2>3, <2>5 DEF FitOrZero
<1>4. CASE x.num # NaN /\ Whole(x) \notin UInt32
  BY <1>1, <1>2, <1>4 DEF FitOrZero
<1>5. CASE x.num = NaN
  <2>1. x.type = "Float"
    BY <1>5, Holds, Widths, DoubleAssumption DEF isNumeric, Numeric
  <2>2. k = 0
    BY <1>5, <2>1 DEF asUint64, in_range
  <2> QED
    BY <1>1, <1>5, <2>2 DEF FitOrZero
<1> QED
  BY <1>3, <1>4, <1>5

\* asInt and asUint of a numeric are its integer part if it fits and 0 otherwise,
\* wherever the word of 64 bits they start from is defined.
THEOREM NarrowingIsExact == Spec => []NarrowIsExact
<1>1. TypeOK => NarrowIsExact
  BY NarrowIntIs, NarrowUintIs DEF TypeOK, NarrowIsExact
<1> QED
  BY <1>1, ConversionsTypeCorrect, PTL
=============================================================================
