-------------------------- MODULE NumericCastProofs --------------------------
(***************************************************************************)
(* Theorems about NumericCast, for integers and floats of every width: no  *)
(* vector of to_vec holds another number than its tensor did, nothing is   *)
(* refused that could be had, and what is saved is loaded again.           *)
(***************************************************************************)
EXTENDS NumericCast, WellFoundedInduction, TLAPS

\* Of some places in a sequence, one comes first.
LEMMA FirstPlace ==
  ASSUME NEW places, places \subseteq Nat, places # {}
  PROVE  \E i \in places : \A j \in places : i <= j
<1> DEFINE below == {ss \in Nat \X Nat : ss[1] < ss[2]}
<1>1. IsWellFoundedOn(below, Nat)
  BY NatLessThanWellFounded, Zenon DEF OpToRel
<1> HIDE DEF below
<1>2. PICK i \in places : \A j \in places : ~(<<j, i>> \in below)
  BY <1>1, WFMin
<1>3. ASSUME NEW j \in places
      PROVE  i <= j
  <2>1. i \in Nat /\ j \in Nat /\ ~(<<j, i>> \in below)
    BY <1>2
  <2>2. ~(j < i)
    <3> SUFFICES ASSUME j < i
                 PROVE  <<j, i>> \in below
      BY <2>1
    <3>1. <<j, i>> \in Nat \X Nat /\ <<j, i>>[1] = j /\ <<j, i>>[2] = i
      BY <2>1
    <3>2. QED BY <3>1, Zenon DEF below
  <2>3. QED BY <2>1, <2>2
<1>4. QED BY <1>2, <1>3

-----------------------------------------------------------------------------
(* Arithmetic.                                                             *)

\* A remainder is less than its divisor.
LEMMA Remainder ==
  ASSUME NEW k \in Int, NEW n \in Nat \ {0}
  PROVE  k % n \in 0..(n - 1)
OBVIOUS

\* A number less than the divisor is its own remainder.
LEMMA SmallRemainder ==
  ASSUME NEW n \in Nat \ {0}, NEW k \in 0..(n - 1)
  PROVE  k % n = k
OBVIOUS

\* Division undoes multiplication.
LEMMA Quotient ==
  ASSUME NEW k \in Nat, NEW n \in Nat \ {0}
  PROVE  (k * n) \div n = k
OBVIOUS

\* The product of two natural numbers is one.
LEMMA Product ==
  ASSUME NEW k \in Nat, NEW n \in Nat
  PROVE  k * n \in Nat
OBVIOUS

-----------------------------------------------------------------------------
(* The types.                                                              *)

\* The limits of an integer type are integers.
LEMMA Limits ==
  ASSUME NEW t \in IntTypes
  PROVE  /\ Size[t] \in Nat \ {0}
         /\ Lowest(t) \in Int /\ Highest(t) \in Int
         /\ Highest(t) = Lowest(t) + Size[t] - 1
BY SizeAssumption DEF Lowest, Highest

\* What the values of a type are.
LEMMA ValuesOf ==
  /\ \A t \in IntTypes : Values[t] = {Finite(k) : k \in Lowest(t)..Highest(t)}
  /\ \A t \in FloatTypes : Values[t] = {Finite(u) : u \in FloatValues[t]} \cup Unbounded
  /\ Values["F16"] = {Finite(k) : k \in Lowest("U16")..Highest("U16")}
  /\ Values["Bool"] = {Finite(0), Finite(1)}
  /\ Values["String"] = {}
BY DEF Values, DataTypes, Requested, FloatTypes, IntTypes, SignedTypes

\* Wrapping gets into the type.
LEMMA WrapInRange ==
  ASSUME NEW t \in IntTypes, NEW k \in Int
  PROVE  Wrap(t, k) \in Lowest(t)..Highest(t)
<1>1. k - Lowest(t) \in Int /\ Size[t] \in Nat \ {0}
  BY Limits
<1>2. (k - Lowest(t)) % Size[t] \in 0..(Size[t] - 1)
  BY <1>1, Remainder
<1>3. QED BY <1>2, Limits DEF Wrap

\* Wrapping leaves a number of the type as it is.
LEMMA WrapKeeps ==
  ASSUME NEW t \in IntTypes, NEW k \in Lowest(t)..Highest(t)
  PROVE  Wrap(t, k) = k
<1>1. k - Lowest(t) \in 0..(Size[t] - 1)
  BY Limits
<1>2. (k - Lowest(t)) % Size[t] = k - Lowest(t)
  BY <1>1, Limits, SmallRemainder
<1>3. QED BY <1>2, Limits DEF Wrap

\* Whatever its sign, a multiple of a one is as many ones.
LEMMA WholeOfOnes ==
  ASSUME NEW k \in Int
  PROVE  Whole(k * One) = k /\ Integral(k * One)
<1>1. One \in Nat \ {0}
  BY SizeAssumption
<1>2. CASE k >= 0
  <2>1. k * One >= 0 /\ (k * One) \div One = k
    BY <1>1, <1>2, Product, Quotient
  <2>2. QED BY <2>1 DEF Whole, Integral
<1>3. CASE k < 0
  <2>1. -k \in Nat /\ -k > 0
    BY <1>3
  <2>2. ((-k) * One) \div One = -k /\ (-k) * One \in Nat /\ (-k) * One # 0
    BY <1>1, <2>1, Product, Quotient
  <2>3. k * One = -((-k) * One) /\ -(k * One) = (-k) * One
    BY <1>1
  <2>4. ~(k * One >= 0)
    BY <2>2, <2>3
  <2>5. Whole(k * One) = -((-(k * One)) \div One)
    BY <2>4 DEF Whole
  <2>6. QED BY <2>2, <2>3, <2>5 DEF Integral
<1>4. QED BY <1>2, <1>3

-----------------------------------------------------------------------------
(* Files.                                                                  *)

\* A number of an array is narrowed into the type of the tensor.
LEMMA NarrowedType ==
  ASSUME NEW type \in DataTypes, NEW value \in Values[Carrier(type)]
  PROVE  Narrowed(type, value) \in Values[type]
<1>1. ASSUME NEW t \in IntTypes, NEW v \in Values[t]
      PROVE  v.n \in Int
  BY <1>1, ValuesOf, Limits DEF Finite
<1>2. CASE type \in IntTypes
  <2>1. Carrier(type) \in IntTypes
    BY <1>2 DEF Carrier, IntTypes, SignedTypes
  <2>2. Wrap(type, value.n) \in Lowest(type)..Highest(type)
    BY <1>1, <1>2, <2>1, WrapInRange
  <2>3. Narrowed(type, value) = Finite(Wrap(type, value.n))
    BY <1>2 DEF Narrowed, IntTypes, SignedTypes
  <2>4. QED BY <1>2, <2>2, <2>3, ValuesOf
<1>3. CASE type = "F16"
  <2>1. Carrier(type) \in IntTypes /\ "U16" \in IntTypes
    BY <1>3 DEF Carrier, IntTypes, SignedTypes
  <2>2. Wrap("U16", value.n) \in Lowest("U16")..Highest("U16")
    BY <1>1, <2>1, WrapInRange
  <2>3. Narrowed(type, value) = Finite(Wrap("U16", value.n))
    BY <1>3 DEF Narrowed
  <2>4. QED BY <1>3, <2>2, <2>3, ValuesOf
<1>4. CASE type = "Bool"
  BY <1>4, ValuesOf DEF Narrowed
<1>5. CASE type \in FloatTypes \cup {"String"}
  BY <1>5 DEF Narrowed, Carrier, FloatTypes, IntTypes, SignedTypes
<1>6. QED BY <1>2, <1>3, <1>4, <1>5 DEF DataTypes, Requested

\* A value of the type comes through narrowing as it was.
LEMMA NarrowedKeeps ==
  ASSUME NEW type \in DataTypes, NEW value \in Values[type]
  PROVE  Narrowed(type, value) = value
<1>1. CASE type \in IntTypes
  <2>1. PICK k \in Lowest(type)..Highest(type) : value = Finite(k)
    BY <1>1, ValuesOf
  <2>2. Narrowed(type, value) = Finite(Wrap(type, k))
    BY <1>1, <2>1 DEF Narrowed, Finite, IntTypes, SignedTypes
  <2>3. QED BY <1>1, <2>1, <2>2, WrapKeeps
<1>2. CASE type = "F16"
  <2>1. PICK k \in Lowest("U16")..Highest("U16") : value = Finite(k)
    BY <1>2, ValuesOf
  <2>2. Narrowed(type, value) = Finite(Wrap("U16", k))
    BY <1>2, <2>1 DEF Narrowed, Finite
  <2>3. "U16" \in IntTypes
    BY DEF IntTypes
  <2>4. QED BY <2>1, <2>2, <2>3, WrapKeeps
<1>3. CASE type = "Bool"
  BY <1>3, ValuesOf DEF Narrowed, Finite
<1>4. CASE type \in FloatTypes \cup {"String"}
  BY <1>4 DEF Narrowed, FloatTypes, IntTypes, SignedTypes
<1>5. QED BY <1>1, <1>2, <1>3, <1>4 DEF DataTypes, Requested

\* The type of an array has room for the type of its tensor.
LEMMA CarrierHolds ==
  ASSUME NEW type \in DataTypes
  PROVE  Values[type] \subseteq Values[Carrier(type)]
<1>1. /\ Size["I32"] \in Nat /\ Size["I32"] >= 4
      /\ Lowest("I32") <= -2 /\ Highest("I32") >= 1
      /\ \A t \in {"I8", "I16", "U8", "U16"} :
           Lowest("I32") <= Lowest(t) /\ Highest(t) <= Highest("I32")
  BY SizeAssumption DEF IntTypes, SignedTypes, Lowest, Highest
<1>2. Lowest("U32") = 0 /\ Lowest("U64") = 0 /\ Highest("U32") <= Highest("U64")
  BY SizeAssumption DEF IntTypes, SignedTypes, Lowest, Highest
<1>3. \A t \in IntTypes : Lowest(t) \in Int /\ Highest(t) \in Int
  BY Limits
<1>4. ASSUME NEW s \in IntTypes, NEW t \in IntTypes,
             Lowest(t) <= Lowest(s), Highest(s) <= Highest(t)
      PROVE  {Finite(k) : k \in Lowest(s)..Highest(s)} \subseteq Values[t]
  <2>1. Lowest(s)..Highest(s) \subseteq Lowest(t)..Highest(t)
    BY <1>3, <1>4
  <2>2. QED BY <2>1, ValuesOf
<1>5. {"I8", "I16", "U8", "U16", "I32", "U32", "U64"} \subseteq IntTypes
  BY DEF IntTypes, SignedTypes
<1>6. CASE type \in {"I8", "I16", "U8", "U16"}
  BY <1>1, <1>4, <1>5, <1>6, ValuesOf DEF Carrier
<1>7. CASE type = "F16"
  BY <1>1, <1>4, <1>5, <1>7, ValuesOf DEF Carrier
<1>8. CASE type = "Bool"
  <2>1. 0 \in Lowest("I32")..Highest("I32") /\ 1 \in Lowest("I32")..Highest("I32")
    BY <1>1, <1>3, <1>5
  <2>2. QED BY <1>5, <1>8, <2>1, ValuesOf DEF Carrier
<1>9. CASE type = "U32"
  BY <1>2, <1>4, <1>5, <1>9, ValuesOf DEF Carrier
<1>10. CASE type \notin {"I8", "I16", "U8", "U16", "F16", "Bool", "U32"}
  BY <1>10 DEF Carrier
<1>11. QED BY <1>6, <1>7, <1>8, <1>9, <1>10

\* What is read from an array, whoever wrote it, is a tensor.
LEMMA DecodeType ==
  ASSUME NEW a, IsArray(a)
  PROVE  IsTensor(Decode(a))
<1> DEFINE values == [i \in DOMAIN a.values |-> Narrowed(a.type, a.values[i])]
<1>1. a.type \in DataTypes /\ a.values \in Seq(Values[Carrier(a.type)])
  BY DEF IsArray
<1>2. \A i \in DOMAIN a.values : a.values[i] \in Values[Carrier(a.type)]
  BY <1>1
<1>3. \A i \in DOMAIN a.values : Narrowed(a.type, a.values[i]) \in Values[a.type]
  BY <1>1, <1>2, NarrowedType
<1>4. DOMAIN a.values = 1..Len(a.values) /\ Len(a.values) \in Nat
  BY <1>1
<1>5. values \in Seq(Values[a.type])
  BY <1>3, <1>4
<1>6. Decode(a) = [type |-> a.type, values |-> values]
  BY DEF Decode
<1> HIDE DEF values
<1>7. QED BY <1>1, <1>5, <1>6 DEF IsTensor

\* What is written of a tensor is an array, from which the same tensor is read.
LEMMA EncodeDecode ==
  ASSUME NEW t, IsTensor(t)
  PROVE  IsArray(Encode(t)) /\ Decode(Encode(t)) = t
<1>1. t = [type |-> t.type, values |-> t.values] /\ t.type \in DataTypes
  BY DEF IsTensor
<1>2. t.values \in Seq(Values[t.type])
  BY DEF IsTensor
<1>3. t.values \in Seq(Values[Carrier(t.type)])
  BY <1>1, <1>2, CarrierHolds
<1>4. \A i \in DOMAIN t.values : t.values[i] \in Values[t.type]
  BY <1>2
<1>5. \A i \in DOMAIN t.values : Narrowed(t.type, t.values[i]) = t.values[i]
  BY <1>1, <1>4, NarrowedKeeps
<1>6. [i \in DOMAIN t.values |-> Narrowed(t.type, t.values[i])] = t.values
  BY <1>2, <1>5
<1>7. QED BY <1>1, <1>3, <1>6 DEF IsArray, Encode, Decode

-----------------------------------------------------------------------------
(* Casts.                                                                  *)

\* What an element of a type is: a whole number, units of a float, or no number.
LEMMA Elements ==
  ASSUME NEW type \in Requested, NEW v \in Values[type]
  PROVE  /\ type \in IntTypes =>
              \E k \in Lowest(type)..Highest(type) : v = Finite(k) /\ k \in Int
         /\ type \in FloatTypes =>
              (\E u \in FloatValues[type] : v = Finite(u)) \/ v \in Unbounded
         /\ type \in IntTypes <=> type \notin FloatTypes
<1>1. type \in IntTypes \/ type \in FloatTypes
  BY DEF Requested
<1>2. type \in IntTypes <=> type \notin FloatTypes
  BY <1>1 DEF IntTypes, SignedTypes, FloatTypes
<1>3. QED BY <1>2, ValuesOf, Limits

\* A finite element is one of the numbers floats round; its units say which it is.
LEMMA UnitsOf ==
  ASSUME NEW type \in Requested, NEW v \in Values[type], v.form = "finite"
  PROVE  /\ InUnits(type, v) \in Numbers
         /\ InUnits(type, v) \in Int
         /\ type \in FloatTypes =>
              v.n \in FloatValues[type] /\ InUnits(type, v) = v.n /\ v = Finite(v.n)
         /\ type \in IntTypes =>
              /\ v.n \in Lowest(type)..Highest(type) /\ v.n \in Int
              /\ v = Finite(v.n) /\ InUnits(type, v) = v.n * One
<1>1. Numbers \subseteq Int
  BY SizeAssumption
<1>2. CASE type \in IntTypes
  <2>1. PICK k \in Lowest(type)..Highest(type) : v = Finite(k) /\ k \in Int
    BY <1>2, Elements
  <2>2. k * One \in Numbers
    BY <1>2, <2>1, SizeAssumption
  <2>3. QED BY <1>1, <1>2, <2>1, <2>2, Elements DEF InUnits, Finite
<1>3. CASE type \in FloatTypes
  <2>1. v \notin Unbounded
    BY DEF Unbounded, Infinite, NaN
  <2>2. PICK u \in FloatValues[type] : v = Finite(u)
    BY <1>3, <2>1, Elements
  <2>3. u \in Numbers
    BY <1>3, RoundAssumption
  <2>4. QED BY <1>1, <1>3, <2>2, <2>3, Elements DEF InUnits, Finite
<1>4. QED BY <1>2, <1>3 DEF Requested

\* What is not finite is an element of both float types, and of no integer type.
LEMMA NotFinite ==
  ASSUME NEW type \in Requested, NEW v \in Values[type], v.form # "finite"
  PROVE  type \in FloatTypes /\ v \in Unbounded /\ \A to \in FloatTypes : v \in Values[to]
<1>1. type \notin IntTypes
  BY Elements DEF Finite
<1>2. type \in FloatTypes
  BY <1>1 DEF Requested
<1>3. v \in Unbounded
  BY <1>2, Elements DEF Finite
<1>4. QED BY <1>2, <1>3, ValuesOf

\* A float type represents exactly what is rounded, or it is infinite.
LEMMA Rounded ==
  ASSUME NEW to \in FloatTypes, NEW u \in Numbers
  PROVE  /\ Round(to, u) \in Values[to]
         /\ \/ Round(to, u).n \in FloatValues[to] /\ Round(to, u) = Finite(Round(to, u).n)
            \/ Round(to, u).form = "infinite" /\ Round(to, u) \in Unbounded
         /\ u \in FloatValues[to] => Round(to, u) = Finite(u)
<1>1. /\ Round(to, u) \in {Finite(w) : w \in FloatValues[to]} \cup {Infinite(1), Infinite(-1)}
      /\ u \in FloatValues[to] => Round(to, u) = Finite(u)
  BY RoundAssumption
<1>2. CASE Round(to, u) \in {Finite(w) : w \in FloatValues[to]}
  BY <1>1, <1>2, ValuesOf DEF Finite
<1>3. CASE Round(to, u) \in {Infinite(1), Infinite(-1)}
  BY <1>1, <1>3, ValuesOf DEF Infinite, Unbounded
<1>4. QED BY <1>1, <1>2, <1>3

\* A cast that succeeds yields a value of the type asked for.
LEMMA CastType ==
  ASSUME NEW from \in Requested, NEW to \in Requested, NEW v \in Values[from],
         NumCast(from, to, v).some
  PROVE  NumCast(from, to, v).value \in Values[to]
<1>1. CASE to \in IntTypes
  <2>1. /\ InOnes(from, v) \in Lowest(to)..Highest(to)
        /\ NumCast(from, to, v).value = Finite(InOnes(from, v))
    BY <1>1 DEF NumCast, Some, None
  <2>2. QED BY <1>1, <2>1, ValuesOf
<1>2. CASE to \in FloatTypes /\ v.form = "finite"
  <2>1. to \notin IntTypes
    BY <1>2 DEF IntTypes, SignedTypes, FloatTypes
  <2>2. NumCast(from, to, v).value = Round(to, InUnits(from, v))
    BY <1>2, <2>1 DEF NumCast, Some
  <2>3. QED BY <1>2, <2>2, UnitsOf, Rounded
<1>3. CASE to \in FloatTypes /\ v.form # "finite"
  <2>1. to \notin IntTypes
    BY <1>3 DEF IntTypes, SignedTypes, FloatTypes
  <2>2. NumCast(from, to, v).value = v
    BY <1>3, <2>1 DEF NumCast, Some
  <2>3. QED BY <1>3, <2>2, NotFinite
<1>4. QED BY <1>1, <1>2, <1>3 DEF Requested

\* What try_cast_lossless accepts is cast, and passes its checks.
LEMMA Accepted ==
  ASSUME NEW from, NEW to, NEW v, TryCastLossless(from, to, v).outcome = "Ok"
  PROVE  LET cast == NumCast(from, to, v) IN
         /\ cast.some
         /\ TryCastLossless(from, to, v).value = cast.value
         /\ from \in FloatTypes /\ to \notin FloatTypes => Integral(v.n)
         /\ RoundIdentifies(from, to, v, cast.value)
BY DEF TryCastLossless, Loss, Cast

\* What is accepted is the number it was, 64-bit integers read as floats aside.
LEMMA AcceptedKeepsNumber ==
  ASSUME NEW from \in Requested, NEW to \in Requested, NEW v \in Values[from],
         ~(from \in WideTypes /\ to \in FloatTypes),
         TryCastLossless(from, to, v).outcome = "Ok"
  PROVE  /\ TryCastLossless(from, to, v).value \in Values[to]
         /\ TryCastLossless(from, to, v).value.form = v.form
         /\ InUnits(to, TryCastLossless(from, to, v).value) = InUnits(from, v)
<1> DEFINE cast == NumCast(from, to, v)
           back == NumCast(to, from, cast.value)
<1>1. /\ cast.some
      /\ TryCastLossless(from, to, v).value = cast.value
      /\ from \in FloatTypes /\ to \notin FloatTypes => Integral(v.n)
      /\ back.some
      /\ ToF64(from, v) = ToF64(from, back.value)
  BY Accepted DEF RoundIdentifies
<1>2. cast.value \in Values[to]
  BY <1>1, CastType
<1>3. One \in Nat \ {0} /\ Numbers \subseteq Int
  BY SizeAssumption
<1>4. CASE to \in IntTypes
  <2>1. v.form = "finite" /\ cast.value = Finite(InOnes(from, v))
    BY <1>1, <1>4 DEF NumCast, Some, None
  <2>2. cast.value.form = "finite" /\ InUnits(to, cast.value) = InOnes(from, v) * One
    BY <1>4, <2>1 DEF Finite, InUnits
  <2>3. InOnes(from, v) * One = InUnits(from, v)
    <3>1. CASE from \in IntTypes
      BY <3>1 DEF InOnes, InUnits
    <3>2. CASE from \in FloatTypes
      BY <1>1, <1>4, <3>2, Elements DEF InOnes, InUnits, Integral, IntTypes, SignedTypes, FloatTypes
    <3>3. QED BY <3>1, <3>2 DEF Requested
  <2>4. QED BY <1>1, <1>2, <2>1, <2>2, <2>3
<1>5. CASE to \in FloatTypes /\ v.form # "finite"
  <2>1. to \notin IntTypes /\ from \notin IntTypes
    BY <1>5, NotFinite DEF IntTypes, SignedTypes, FloatTypes
  <2>2. cast.value = v
    BY <1>5, <2>1 DEF NumCast, Some
  <2>3. QED BY <1>1, <1>2, <2>1, <2>2 DEF InUnits
<1>6. CASE to \in FloatTypes /\ v.form = "finite"
  <2> DEFINE u == InUnits(from, v)
  <2>1. to \notin IntTypes /\ to \in {"F32", "F64"}
    BY <1>6 DEF IntTypes, SignedTypes, FloatTypes
  <2>2. u \in Numbers /\ u \in Int
    BY <1>6, UnitsOf
  <2>3. cast.value = Round(to, u)
    BY <1>6, <2>1 DEF NumCast, Some
  <2>4. SUFFICES cast.value = Finite(u)
    BY <1>1, <1>2, <1>6, <2>1, <2>4 DEF InUnits, Finite
  <2>5. CASE u \in FloatValues[to]
    BY <1>6, <2>2, <2>3, <2>5, Rounded
  <2>6. CASE u \notin FloatValues[to]
    <3>1. "F64" \in FloatTypes /\ "F64" \notin IntTypes /\ "F32" \in FloatTypes
      BY DEF FloatTypes, IntTypes, SignedTypes
    <3>2. u \in FloatValues["F64"]
      <4>1. CASE from \in IntTypes
        <5>1. from \in IntTypes \ WideTypes
          BY <1>6, <4>1
        <5>2. v.n \in Lowest(from)..Highest(from) /\ u = v.n * One
          BY <1>6, <4>1, UnitsOf
        <5>3. QED BY <5>1, <5>2, RoundAssumption
      <4>2. CASE from \in FloatTypes
        <5>1. u \in FloatValues[from]
          BY <1>6, <4>2, UnitsOf
        <5>2. QED BY <4>2, <5>1, RoundAssumption DEF FloatTypes
      <4>3. QED BY <4>1, <4>2 DEF Requested
    <3>3. to = "F32"
      BY <2>1, <2>6, <3>2
    <3>4. ToF64(from, v) = Finite(u)
      <4>1. ToF64(from, v) = Round("F64", u)
        BY <1>6, <3>1 DEF ToF64, NumCast, Some
      <4>2. QED BY <2>2, <3>1, <3>2, <4>1, Rounded
    <3>5. CASE from \in IntTypes
      <4>1. cast.value.form = "finite" /\ back.value = Finite(Whole(cast.value.n))
        BY <1>1, <2>1, <3>5 DEF NumCast, Some, None, InOnes
      <4>2. cast.value.n \in FloatValues[to] /\ cast.value = Finite(cast.value.n)
        BY <1>6, <2>2, <2>3, <4>1, Rounded
      <4>3. Integral(u)
        BY <1>6, <3>5, UnitsOf, WholeOfOnes
      <4>4. Integral(cast.value.n)
        BY <1>6, <2>2, <2>3, <4>1, <4>3, RoundAssumption
      <4>5. back.value \in Values[from]
        BY <1>1, <1>2, CastType
      <4>6. back.value.form = "finite" /\ InUnits(from, back.value) = cast.value.n
        BY <3>5, <4>1, <4>4 DEF Finite, InUnits, Integral
      <4>7. ToF64(from, back.value) = Round("F64", cast.value.n)
        BY <3>1, <4>6 DEF ToF64, NumCast, Some
      <4>8. cast.value.n \in FloatValues["F64"] /\ cast.value.n \in Numbers
        BY <3>1, <3>3, <4>2, RoundAssumption
      <4>9. ToF64(from, back.value) = Finite(cast.value.n)
        BY <3>1, <4>7, <4>8, Rounded
      <4>10. QED BY <1>1, <3>4, <4>2, <4>9 DEF Finite
    <3>6. CASE from \in FloatTypes
      <4>1. from = "F64"
        BY <1>6, <2>6, <3>3, <3>6, UnitsOf DEF FloatTypes
      <4>2. CASE cast.value.form = "finite"
        <5>1. cast.value.n \in FloatValues[to] /\ cast.value = Finite(cast.value.n)
          BY <1>6, <2>2, <2>3, <4>2, Rounded
        <5>2. cast.value.n \in FloatValues["F64"] /\ cast.value.n \in Numbers
          BY <3>1, <3>3, <5>1, RoundAssumption
        <5>3. Round("F64", cast.value.n) = Finite(cast.value.n)
          BY <3>1, <5>2, Rounded
        <5>4. back.value = Finite(cast.value.n)
          BY <2>1, <3>1, <4>1, <4>2, <5>3 DEF NumCast, Some, InUnits
        <5>5. ToF64(from, back.value) = Finite(cast.value.n)
          BY <3>1, <4>1, <5>3, <5>4 DEF ToF64, NumCast, Some, InUnits, Finite
        <5>6. QED BY <1>1, <3>4, <5>1, <5>5 DEF Finite
      <4>3. CASE cast.value.form # "finite"
        <5>1. back.value = cast.value
          BY <3>1, <4>1, <4>3 DEF NumCast, Some
        <5>2. ToF64(from, back.value) = cast.value
          BY <3>1, <4>3, <5>1 DEF ToF64, NumCast, Some
        <5>3. QED BY <1>1, <3>4, <4>3, <5>2 DEF Finite
      <4>4. QED BY <4>2, <4>3
    <3>7. QED BY <3>5, <3>6 DEF Requested
  <2>7. QED BY <2>5, <2>6
<1>7. QED BY <1>4, <1>5, <1>6 DEF Requested

\* A cast that brings the value back is accepted.
LEMMA ThereAndBack ==
  ASSUME NEW from \in Requested, NEW to \in Requested, NEW v \in Values[from], v # NaN,
         NEW cast, NumCast(from, to, v) = Some(cast),
         NumCast(to, from, cast) = Some(v),
         from \in FloatTypes /\ to \notin FloatTypes => Integral(v.n)
  PROVE  TryCastLossless(from, to, v).outcome = "Ok"
<1>1. "F64" \in FloatTypes /\ "F64" \notin IntTypes
  BY DEF FloatTypes, IntTypes, SignedTypes
<1>2. ToF64(from, v) # NaN
  <2>1. CASE v.form = "finite"
    <3>1. ToF64(from, v) = Round("F64", InUnits(from, v)) /\ InUnits(from, v) \in Numbers
      BY <1>1, <2>1, UnitsOf DEF ToF64, NumCast, Some
    <3>2. QED BY <1>1, <3>1, Rounded DEF NaN, Finite
  <2>2. CASE v.form # "finite"
    BY <1>1, <2>2 DEF ToF64, NumCast, Some
  <2>3. QED BY <2>1, <2>2
<1>3. NumCast(from, to, v).some /\ NumCast(from, to, v).value = cast
  BY DEF Some
<1>4. NumCast(to, from, cast).some /\ NumCast(to, from, cast).value = v
  BY DEF Some
<1>5. RoundIdentifies(from, to, v, cast)
  BY <1>2, <1>4 DEF RoundIdentifies
<1>6. QED BY <1>3, <1>5 DEF TryCastLossless, Cast

\* A type has the number a value is.
Holds(to, from, v) ==
  IF v.form # "finite" THEN to \in FloatTypes
  ELSE IF to \in FloatTypes THEN InUnits(from, v) \in FloatValues[to]
  ELSE \E k \in Lowest(to)..Highest(to) : k * One = InUnits(from, v)

\* What the type asked for holds is not refused, NaN aside.
LEMMA HeldIsAccepted ==
  ASSUME NEW from \in Requested, NEW to \in Requested, NEW v \in Values[from], v # NaN,
         Holds(to, from, v)
  PROVE  TryCastLossless(from, to, v).outcome = "Ok"
<1>1. /\ \A t \in Requested : t \in IntTypes <=> t \notin FloatTypes
      /\ One \in Nat \ {0}
  BY SizeAssumption DEF Requested, FloatTypes, IntTypes, SignedTypes
<1>2. CASE v.form # "finite"
  <2>1. from \in FloatTypes /\ to \in FloatTypes
    BY <1>2, NotFinite DEF Holds
  <2>2. NumCast(from, to, v) = Some(v) /\ NumCast(to, from, v) = Some(v)
    BY <1>1, <1>2, <2>1 DEF NumCast
  <2>3. QED BY <2>1, <2>2, ThereAndBack
<1>3. ASSUME v.form = "finite",
             NEW cast, cast.form = "finite", NumCast(from, to, v) = Some(cast),
             cast = Finite(cast.n), InUnits(to, cast) = InUnits(from, v),
             to \in FloatTypes \/ cast.n \in Int
      PROVE  NumCast(to, from, cast) = Some(v)
  <2>1. CASE from \in IntTypes
    <3>1. v.n \in Lowest(from)..Highest(from) /\ v.n \in Int /\ v = Finite(v.n)
          /\ InUnits(from, v) = v.n * One
      BY <1>3, <2>1, UnitsOf
    <3>2. InOnes(to, cast) = v.n
      <4>1. CASE to \in IntTypes
        <5>1. cast.n \in Int /\ cast.n * One = v.n * One
          BY <1>1, <1>3, <3>1, <4>1 DEF InUnits
        <5>2. Whole(cast.n * One) = cast.n /\ Whole(v.n * One) = v.n
          BY <3>1, <5>1, WholeOfOnes
        <5>3. QED BY <4>1, <5>1, <5>2 DEF InOnes
      <4>2. CASE to \notin IntTypes
        BY <1>3, <3>1, <4>2, WholeOfOnes DEF InOnes, InUnits
      <4>3. QED BY <4>1, <4>2
    <3>3. QED BY <1>3, <2>1, <3>1, <3>2 DEF NumCast
  <2>2. CASE from \in FloatTypes
    <3>1. v.n \in FloatValues[from] /\ InUnits(from, v) = v.n /\ v = Finite(v.n)
          /\ v.n \in Numbers
      BY <1>3, <2>2, UnitsOf
    <3>2. Round(from, InUnits(to, cast)) = v
      BY <1>3, <2>2, <3>1, Rounded
    <3>3. QED BY <1>1, <1>3, <2>2, <3>2 DEF NumCast
  <2>3. QED BY <2>1, <2>2 DEF Requested
<1>4. CASE v.form = "finite" /\ to \in IntTypes
  <2>1. PICK k \in Lowest(to)..Highest(to) : k * One = InUnits(from, v)
    BY <1>1, <1>4 DEF Holds
  <2>2. k \in Int
    BY <1>4, Limits
  <2>3. InOnes(from, v) = k /\ (from \in FloatTypes => Integral(v.n))
    <3>1. CASE from \in IntTypes
      <4>1. v.n \in Int /\ v.n * One = k * One
        BY <1>4, <2>1, <3>1, UnitsOf
      <4>2. Whole(v.n * One) = v.n /\ Whole(k * One) = k
        BY <2>2, <4>1, WholeOfOnes
      <4>3. QED BY <1>1, <3>1, <4>1, <4>2 DEF InOnes
    <3>2. CASE from \in FloatTypes
      BY <1>1, <2>1, <2>2, <3>2, WholeOfOnes DEF InOnes, InUnits
    <3>3. QED BY <3>1, <3>2 DEF Requested
  <2> DEFINE cast == Finite(k)
  <2>4. NumCast(from, to, v) = Some(cast)
    BY <1>4, <2>1, <2>3 DEF NumCast
  <2>5. /\ cast.form = "finite" /\ cast = Finite(cast.n) /\ cast.n = k
        /\ InUnits(to, cast) = InUnits(from, v)
    BY <1>4, <2>1 DEF Finite, InUnits
  <2> HIDE DEF cast
  <2>6. NumCast(to, from, cast) = Some(v)
    BY <1>3, <1>4, <2>2, <2>4, <2>5
  <2>7. QED BY <2>3, <2>4, <2>6, ThereAndBack
<1>5. CASE v.form = "finite" /\ to \in FloatTypes
  <2> DEFINE cast == Finite(InUnits(from, v))
  <2>1. InUnits(from, v) \in FloatValues[to] /\ InUnits(from, v) \in Numbers
    BY <1>5, UnitsOf DEF Holds
  <2>2. NumCast(from, to, v) = Some(cast)
    <3>1. Round(to, InUnits(from, v)) = cast
      BY <1>5, <2>1, Rounded
    <3>2. QED BY <1>1, <1>5, <3>1 DEF NumCast
  <2>3. /\ cast.form = "finite" /\ cast = Finite(cast.n)
        /\ InUnits(to, cast) = InUnits(from, v)
    BY <1>1, <1>5 DEF Finite, InUnits
  <2> HIDE DEF cast
  <2>4. NumCast(to, from, cast) = Some(v)
    BY <1>3, <1>5, <2>2, <2>3
  <2>5. QED BY <1>5, <2>2, <2>4, ThereAndBack
<1>6. QED BY <1>2, <1>4, <1>5 DEF Requested

-----------------------------------------------------------------------------
(* to_vec.                                                                 *)

\* The tensors to_vec reads element by element.
IsRead(t) == IsTensor(t) /\ t.type \notin {"Bool", "String"}

\* What is read of an element is a value of a type that can be cast.
LEMMA OperandIsValue ==
  ASSUME NEW t, IsRead(t), NEW i \in DOMAIN t.values
  PROVE  OperandType(t) \in Requested /\ Operand(t, i) \in Values[OperandType(t)]
<1>1. t.type \in DataTypes /\ t.values[i] \in Values[t.type]
  BY DEF IsRead, IsTensor
<1>2. CASE t.type = "F16"
  <2>1. PICK k \in Lowest("U16")..Highest("U16") : t.values[i] = Finite(k)
    BY <1>1, <1>2, ValuesOf
  <2>2. Operand(t, i) = HalfValue[k]
    BY <1>2, <2>1 DEF Operand, Finite
  <2>3. HalfValue[k] \in Values["F32"]
    BY RoundAssumption
  <2>4. QED BY <1>2, <2>2, <2>3 DEF OperandType, Requested, FloatTypes
<1>3. CASE t.type # "F16"
  BY <1>1, <1>3 DEF IsRead, DataTypes, Operand, OperandType
<1>4. QED BY <1>2, <1>3

Element(t, to, i) == TryCastLossless(OperandType(t), to, Operand(t, i))

LostPlaces(t, to) == {i \in DOMAIN t.values : Element(t, to, i).outcome # "Ok"}

FirstLost(t, to) == CHOOSE i \in LostPlaces(t, to) : \A j \in LostPlaces(t, to) : i <= j

\* to_vec in a few words.
LEMMA ToVecReturns ==
  ASSUME NEW t, NEW to
  PROVE  ToVec(t, to) =
           IF t.type \in {"Bool", "String"} THEN TypeError
           ELSE IF LostPlaces(t, to) = {}
           THEN Given(to, [i \in DOMAIN t.values |-> Element(t, to, i).value])
           ELSE CastError(FirstLost(t, to), Element(t, to, FirstLost(t, to)).outcome)
BY Zenon DEF ToVec, ToVecChecked, LostPlaces, FirstLost, Element

\* to_vec is successful on the tensors whose elements are all accepted, and puts these
\* together.
LEMMA ToVecGives ==
  ASSUME NEW t, IsTensor(t), NEW to \in Requested, ToVec(t, to).outcome = "Ok"
  PROVE  /\ IsRead(t)
         /\ ToVec(t, to).type = to
         /\ ToVec(t, to).values = [i \in DOMAIN t.values |-> Element(t, to, i).value]
         /\ \A i \in DOMAIN t.values : Element(t, to, i).outcome = "Ok"
         /\ ToVec(t, to).values \in Seq(Values[to])
<1>1. t.type \notin {"Bool", "String"} /\ LostPlaces(t, to) = {}
  BY ToVecReturns DEF TypeError, CastError
<1>2. ToVec(t, to) = Given(to, [i \in DOMAIN t.values |-> Element(t, to, i).value])
  BY <1>1, ToVecReturns
<1>3. IsRead(t)
  BY <1>1 DEF IsRead
<1>4. \A i \in DOMAIN t.values : Element(t, to, i).outcome = "Ok"
  BY <1>1 DEF LostPlaces
<1>5. ASSUME NEW i \in DOMAIN t.values
      PROVE  Element(t, to, i).value \in Values[to]
  BY <1>3, <1>4, OperandIsValue, Accepted, CastType DEF Element
<1>6. DOMAIN t.values = 1..Len(t.values) /\ Len(t.values) \in Nat
  BY DEF IsTensor
<1>7. [i \in DOMAIN t.values |-> Element(t, to, i).value] \in Seq(Values[to])
  BY <1>5, <1>6
<1>8. QED BY <1>2, <1>3, <1>4, <1>7 DEF Given

\* to_vec names the first element that is not accepted.
LEMMA ToVecRefuses ==
  ASSUME NEW t, IsTensor(t), NEW to \in Requested, ToVec(t, to).outcome = "CastError"
  PROVE  LET first == ToVec(t, to).index IN
         /\ IsRead(t)
         /\ first \in DOMAIN t.values
         /\ Element(t, to, first).outcome # "Ok"
         /\ ToVec(t, to).reason = Element(t, to, first).outcome
         /\ \A i \in 1..(first - 1) :
              i \in DOMAIN t.values /\ Element(t, to, i).outcome = "Ok"
<1> DEFINE first == FirstLost(t, to)
<1>1. t.type \notin {"Bool", "String"} /\ LostPlaces(t, to) # {}
  BY ToVecReturns DEF TypeError, Given
<1>2. ToVec(t, to) = CastError(first, Element(t, to, first).outcome)
  BY <1>1, ToVecReturns
<1>3. DOMAIN t.values = 1..Len(t.values) /\ Len(t.values) \in Nat
  BY DEF IsTensor
<1>4. LostPlaces(t, to) \subseteq Nat
  BY <1>3 DEF LostPlaces
<1>5. \E i \in LostPlaces(t, to) : \A j \in LostPlaces(t, to) : i <= j
  BY <1>1, <1>4, FirstPlace
<1>6. first \in LostPlaces(t, to) /\ \A j \in LostPlaces(t, to) : first <= j
  BY <1>5, Zenon DEF FirstLost
<1> HIDE DEF first
<1>7. first \in DOMAIN t.values /\ Element(t, to, first).outcome # "Ok"
  BY <1>6 DEF LostPlaces
<1>8. ASSUME NEW i \in 1..(first - 1)
      PROVE  i \in DOMAIN t.values /\ Element(t, to, i).outcome = "Ok"
  <2>1. i \in DOMAIN t.values /\ ~(first <= i)
    BY <1>3, <1>7
  <2>2. i \notin LostPlaces(t, to)
    BY <1>6, <2>1
  <2>3. QED BY <2>1, <2>2 DEF LostPlaces
<1>9. ToVec(t, to).index = first /\ ToVec(t, to).reason = Element(t, to, first).outcome
  BY <1>2 DEF CastError
<1>10. QED BY <1>1, <1>7, <1>8, <1>9 DEF IsRead

-----------------------------------------------------------------------------
(* The invariant.                                                          *)

\* A tensor and an array that fit their types, what was saved in the array, and a result
\* that is still the answer for the tensor in memory.
NumericInv ==
  /\ IsTensor(tensor)
  /\ IsArray(array)
  /\ \A t \in saved : IsTensor(t) /\ array = Encode(t)
  /\ \/ result = Idle
     \/ \E to \in Requested :
          result = [call |-> "to_vec", of |-> tensor, to |-> to, returned |-> ToVec(tensor, to)]
     \/ \E to \in Requested \cup {"Bool"} :
          result = [call |-> "as_slice", of |-> tensor, to |-> to,
                    returned |-> AsSlice(tensor, to)]

\* A tensor, or an array, of nothing.
LEMMA NothingIsEmpty == IsTensor(Nothing) /\ IsArray(Nothing)
<1>1. "String" \in DataTypes /\ <<>> \in Seq(Values["String"])
      /\ <<>> \in Seq(Values[Carrier("String")])
  BY DEF DataTypes
<1>2. QED BY <1>1 DEF IsTensor, IsArray, Nothing

\* A vector that is returned is a tensor.
LEMMA ReturnedIsTensor ==
  ASSUME NumericInv, result # Idle, result.returned.outcome = "Ok"
  PROVE  /\ result.of = tensor
         /\ result.returned.type = result.to
         /\ result.to \in DataTypes
         /\ result.returned.values \in Seq(Values[result.to])
<1>1. ASSUME NEW to \in Requested,
             result = [call |-> "to_vec", of |-> tensor, to |-> to,
                       returned |-> ToVec(tensor, to)]
      PROVE  /\ result.of = tensor
             /\ result.returned.type = result.to
             /\ result.to \in DataTypes
             /\ result.returned.values \in Seq(Values[result.to])
  <2>1. result.of = tensor /\ result.to = to /\ result.returned = ToVec(tensor, to)
    BY <1>1
  <2>2. to \in DataTypes
    BY DEF DataTypes
  <2>3. IsTensor(tensor) /\ ToVec(tensor, to).outcome = "Ok"
    BY <2>1 DEF NumericInv
  <2>4. ToVec(tensor, to).type = to /\ ToVec(tensor, to).values \in Seq(Values[to])
    BY <2>3, ToVecGives
  <2>5. QED BY <2>1, <2>2, <2>4
<1>2. ASSUME NEW to \in Requested \cup {"Bool"},
             result = [call |-> "as_slice", of |-> tensor, to |-> to,
                       returned |-> AsSlice(tensor, to)]
      PROVE  /\ result.of = tensor
             /\ result.returned.type = result.to
             /\ result.to \in DataTypes
             /\ result.returned.values \in Seq(Values[result.to])
  <2>1. result.of = tensor /\ result.to = to /\ result.returned = AsSlice(tensor, to)
    BY <1>2
  <2>2. to \in DataTypes
    BY DEF DataTypes
  <2>3. tensor.type = to /\ result.returned = Given(to, tensor.values)
    BY <2>1 DEF AsSlice, TypeError
  <2>4. QED BY <2>1, <2>2, <2>3 DEF NumericInv, IsTensor, Given
<1>3. QED BY <1>1, <1>2 DEF NumericInv

\* The program begins with a tensor it built or an array it is given.
LEMMA NumericInit == Init => NumericInv
BY DataAssumption, ForeignAssumption, NothingIsEmpty DEF Init, NumericInv

\* Every call keeps the invariant.
LEMMA NumericNext == NumericInv /\ [Next]_vars => NumericInv'
<1> SUFFICES ASSUME NumericInv, [Next]_vars
             PROVE  NumericInv'
  OBVIOUS
<1>1. ASSUME NEW to \in Requested, Read(to)
      PROVE  NumericInv'
  BY <1>1, Zenon DEF Read, NumericInv
<1>2. ASSUME NEW to \in Requested \cup {"Bool"}, Borrow(to)
      PROVE  NumericInv'
  BY <1>2, Zenon DEF Borrow, NumericInv
<1>3. CASE Keep
  <2>1. /\ tensor' = [type |-> result.returned.type, values |-> result.returned.values]
        /\ result' = Idle /\ array' = array /\ saved' = saved
    BY <1>3 DEF Keep
  <2>2. /\ result.returned.type \in DataTypes
        /\ result.returned.values \in Seq(Values[result.returned.type])
    BY <1>3, ReturnedIsTensor DEF Keep
  <2>3. IsTensor(tensor')
    BY <2>1, <2>2 DEF IsTensor
  <2>4. QED BY <2>1, <2>3, Zenon DEF NumericInv
<1>4. CASE Save
  <2>1. IsArray(array')
    BY <1>4, EncodeDecode DEF Save, NumericInv
  <2>2. QED BY <1>4, <2>1 DEF Save, NumericInv
<1>5. CASE Load
  <2>1. IsTensor(tensor')
    BY <1>5, DecodeType DEF Load, NumericInv
  <2>2. QED BY <1>5, <2>1 DEF Load, NumericInv
<1>6. CASE UNCHANGED vars
  BY <1>6, Zenon DEF vars, NumericInv
<1>7. QED BY <1>1, <1>2, <1>3, <1>4, <1>5, <1>6 DEF Next

\* The invariant is inductive.
THEOREM NumericInvariant == Spec => []NumericInv
<1>1. QED BY NumericInit, NumericNext, PTL DEF Spec

\* However its numbers were narrowed, cast and put together, a tensor holds numbers of its
\* type, and a vector numbers of the type asked for.
THEOREM NumericTypeCorrect == Spec => []TypeOK
<1>1. NumericInv => TypeOK
  <2> SUFFICES ASSUME NumericInv
               PROVE  TypeOK
    OBVIOUS
  <2>1. result = Idle \/ result.of = tensor
    BY DEF NumericInv
  <2>2. QED BY <2>1, ReturnedIsTensor DEF NumericInv, TypeOK
<1>2. QED BY <1>1, NumericInvariant, PTL

\* A saved tensor is loaded as it was: the wider numbers of the file lose nothing.
THEOREM SavedNumbersSurvive == Spec => []StoredSurvives
<1>1. NumericInv => StoredSurvives
  BY EncodeDecode DEF NumericInv, StoredSurvives
<1>2. QED BY <1>1, NumericInvariant, PTL

\* What to_vec returned is the answer for the tensor in memory.
LEMMA ToVecWasAsked ==
  ASSUME NumericInv, result # Idle, result.call = "to_vec"
  PROVE  /\ result.of = tensor /\ IsTensor(tensor)
         /\ result.to \in Requested
         /\ result.returned = ToVec(tensor, result.to)
<1>1. PICK to \in Requested :
        result = [call |-> "to_vec", of |-> tensor, to |-> to, returned |-> ToVec(tensor, to)]
  BY DEF NumericInv
<1>2. result.of = tensor /\ result.to = to /\ result.returned = ToVec(tensor, to)
  BY <1>1
<1>3. QED BY <1>2 DEF NumericInv

\* Of the types to_vec reads, only 64-bit integers are wide, and half floats are not.
LEMMA WideOperand ==
  ASSUME NEW t
  PROVE  OperandType(t) \in WideTypes <=> t.type \in WideTypes
BY DEF OperandType, WideTypes

\* to_vec gives the numbers of the tensor and no others, for any widths of the types: none
\* is rounded, cut off or wrapped.
THEOREM NothingIsLost == Spec => []AcceptedIsExact
<1>1. NumericInv => AcceptedIsExact
  <2> SUFFICES ASSUME NumericInv, Returned("to_vec", "Ok")
               PROVE  /\ Len(result.returned.values) = Len(result.of.values)
                      /\ ~(result.of.type \in WideTypes /\ result.to \in FloatTypes) =>
                           \A i \in DOMAIN result.of.values :
                             /\ result.returned.values[i].form = Operand(result.of, i).form
                             /\ Got(i) = Asked(i)
    BY DEF AcceptedIsExact
  <2> DEFINE to == result.to
  <2>1. /\ result.of = tensor /\ IsTensor(tensor) /\ to \in Requested
        /\ result.returned = ToVec(tensor, to) /\ ToVec(tensor, to).outcome = "Ok"
    BY ToVecWasAsked DEF Returned
  <2> HIDE DEF to
  <2>2. /\ IsRead(tensor)
        /\ result.returned.type = to
        /\ result.returned.values = [i \in DOMAIN tensor.values |-> Element(tensor, to, i).value]
        /\ \A i \in DOMAIN tensor.values : Element(tensor, to, i).outcome = "Ok"
    BY <2>1, ToVecGives
  <2>3. Len(result.returned.values) = Len(tensor.values)
    <3>1. DOMAIN tensor.values = 1..Len(tensor.values) /\ Len(tensor.values) \in Nat
      BY <2>1 DEF IsTensor
    <3>2. QED BY <2>2, <3>1
  <2>4. ASSUME ~(tensor.type \in WideTypes /\ to \in FloatTypes), NEW i \in DOMAIN tensor.values
        PROVE  /\ result.returned.values[i].form = Operand(tensor, i).form
               /\ InUnits(to, result.returned.values[i])
                    = InUnits(OperandType(tensor), Operand(tensor, i))
    <3>1. OperandType(tensor) \in Requested /\ Operand(tensor, i) \in Values[OperandType(tensor)]
      BY <2>2, OperandIsValue
    <3>2. ~(OperandType(tensor) \in WideTypes /\ to \in FloatTypes)
      BY <2>4, WideOperand
    <3>3. result.returned.values[i] = Element(tensor, to, i).value
      BY <2>2
    <3>4. Element(tensor, to, i).outcome = "Ok"
      BY <2>2
    <3>5. QED BY <2>1, <3>1, <3>2, <3>3, <3>4, AcceptedKeepsNumber DEF Element
  <2>5. QED BY <2>1, <2>2, <2>3, <2>4 DEF Got, Asked, to
<1>2. QED BY <1>1, NumericInvariant, PTL

\* Only floats read as integers are refused for their fractions.
LEMMA NonIntegralIsFraction ==
  ASSUME NEW from, NEW to, NEW v, TryCastLossless(from, to, v).outcome = "NonIntegral"
  PROVE  from \in FloatTypes /\ to \notin FloatTypes /\ ~Integral(v.n)
BY DEF TryCastLossless, Loss, Cast

\* An element that is accepted was held by the type asked for.
LEMMA AcceptedWasHeld ==
  ASSUME NEW from \in Requested, NEW to \in Requested, NEW v \in Values[from],
         from \notin WideTypes, TryCastLossless(from, to, v).outcome = "Ok"
  PROVE  Holds(to, from, v)
<1> DEFINE w == TryCastLossless(from, to, v).value
<1>1. w \in Values[to] /\ w.form = v.form /\ InUnits(to, w) = InUnits(from, v)
  BY AcceptedKeepsNumber
<1> HIDE DEF w
<1>2. CASE v.form # "finite"
  BY <1>1, <1>2, NotFinite DEF Holds
<1>3. CASE v.form = "finite" /\ to \in FloatTypes
  BY <1>1, <1>3, UnitsOf DEF Holds
<1>4. CASE v.form = "finite" /\ to \in IntTypes
  <2>1. w.n \in Lowest(to)..Highest(to) /\ w.n * One = InUnits(from, v)
    BY <1>1, <1>4, UnitsOf
  <2>2. to \notin FloatTypes
    BY <1>4, Elements DEF IntTypes, SignedTypes, FloatTypes
  <2>3. QED BY <1>4, <2>1, <2>2 DEF Holds
<1>5. QED BY <1>2, <1>3, <1>4 DEF Requested

\* to_vec refuses nothing that could be had, for any widths of the types, and says where
\* the first loss would be, and of what kind.
THEOREM OnlyLossIsRefused == Spec => []RefusalNamesFirstLoss
<1>1. NumericInv => RefusalNamesFirstLoss
  <2> DEFINE to == result.to
             first == result.returned.index
             from == OperandType(tensor)
  <2> SUFFICES ASSUME NumericInv, Returned("to_vec", "CastError")
               PROVE  /\ \A i \in 1..(first - 1) : Held(i) \/ result.of.type \in WideTypes
                      /\ ~Held(first) \/ Operand(result.of, first) = NaN
                      /\ result.returned.reason = "NonIntegral" =>
                           result.to \in IntTypes /\ ~Integral(Asked(first))
    BY DEF RefusalNamesFirstLoss
  <2>1. /\ result.of = tensor /\ IsTensor(tensor) /\ to \in Requested
        /\ result.returned = ToVec(tensor, to) /\ ToVec(tensor, to).outcome = "CastError"
    BY ToVecWasAsked DEF Returned
  <2>2. \A i : Held(i) <=> Holds(to, from, Operand(tensor, i))
    BY <2>1 DEF Held, Holds, Asked
  <2>3. Asked(first) = InUnits(from, Operand(tensor, first))
    BY <2>1 DEF Asked
  <2> HIDE DEF to
  <2>4. /\ IsRead(tensor)
        /\ first \in DOMAIN tensor.values
        /\ Element(tensor, to, first).outcome # "Ok"
        /\ result.returned.reason = Element(tensor, to, first).outcome
        /\ \A i \in 1..(first - 1) :
             i \in DOMAIN tensor.values /\ Element(tensor, to, i).outcome = "Ok"
    BY <2>1, ToVecRefuses
  <2> HIDE DEF first, from
  <2>5. \A i \in DOMAIN tensor.values :
          from \in Requested /\ Operand(tensor, i) \in Values[from]
    BY <2>4, OperandIsValue DEF from
  <2>6. \A i : Element(tensor, to, i) = TryCastLossless(from, to, Operand(tensor, i))
    BY DEF Element, from
  <2>7. ASSUME NEW i \in 1..(first - 1), tensor.type \notin WideTypes
        PROVE  Held(i)
    <3>1. from \notin WideTypes
      BY <2>7, WideOperand DEF from
    <3>2. Holds(to, from, Operand(tensor, i))
      BY <2>1, <2>4, <2>5, <2>6, <3>1, AcceptedWasHeld
    <3>3. QED BY <2>2, <3>2
  <2>8. ~Held(first) \/ Operand(tensor, first) = NaN
    BY <2>1, <2>2, <2>4, <2>5, <2>6, HeldIsAccepted
  <2>9. ASSUME result.returned.reason = "NonIntegral"
        PROVE  to \in IntTypes /\ ~Integral(Asked(first))
    <3> DEFINE v == Operand(tensor, first)
    <3>1. from \in FloatTypes /\ to \notin FloatTypes /\ ~Integral(v.n)
      BY <2>4, <2>6, <2>9, NonIntegralIsFraction
    <3>2. from \notin IntTypes
      BY <3>1 DEF FloatTypes, IntTypes, SignedTypes
    <3>3. QED BY <2>1, <2>3, <3>1, <3>2 DEF InUnits, Requested
  <2>10. QED BY <2>1, <2>7, <2>8, <2>9 DEF to
<1>2. QED BY <1>1, NumericInvariant, PTL

=============================================================================
