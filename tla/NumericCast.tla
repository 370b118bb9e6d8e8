----------------------------- MODULE NumericCast -----------------------------
(***************************************************************************)
(* The numbers of a tensor: narrowed when they are read from a file, read  *)
(* as another type by Tensor::to_vec, put into a new tensor, widened when  *)
(* they are written (src/src/ir/tensor.rs, src/src/ir/numeric.rs and the   *)
(* typed arrays of src/src/proto/codec.rs).                                *)
(*                                                                         *)
(* How many integers a type has and which numbers a float holds are        *)
(* constants, so that small types stand for the real ones. An integer is   *)
(* counted in ones, a float in units, of which One make a one. The two     *)
(* zeros of floats are one value.                                          *)
(***************************************************************************)
EXTENDS Integers, Sequences

CONSTANTS
  Size,          \* how many values each integer type has
  FloatValues,   \* the units each float type represents exactly
  Round(_, _),   \* what a float type makes of a number of units: a value of it, or infinite
  HalfValue,     \* the f32 that the bits of an f16 stand for
  One,           \* units in a one
  Numbers,       \* all numbers of units that come up
  Built,         \* the tensors programs build
  Foreign        \* the arrays in the files of other producers

SignedTypes == {"I8", "I16", "I32", "I64"}
IntTypes == SignedTypes \cup {"U8", "U16", "U32", "U64"}

\* elem_is_float, of the types to_vec reads elements as.
FloatTypes == {"F32", "F64"}

\* The types to_vec can be asked for: Scalar and NumCast. (bool is not NumCast.)
Requested == IntTypes \cup FloatTypes

\* What a tensor holds; String stands for all that to_vec refuses, data in another file
\* included, and is left empty.
DataTypes == Requested \cup {"F16", "Bool", "String"}

Lowest(type) == IF type \in SignedTypes THEN -(Size[type] \div 2) ELSE 0
Highest(type) == Lowest(type) + Size[type] - 1

Finite(n) == [form |-> "finite", n |-> n]
Infinite(sign) == [form |-> "infinite", n |-> sign]
NaN == [form |-> "nan", n |-> 0]

\* What is no number at all, of either sign, is in both float types.
Unbounded == {Infinite(1), Infinite(-1), NaN}

\* The bits of an f16 are held as a u16, a bool as 0 or 1.
Values ==
  [type \in DataTypes |->
     IF type \in IntTypes THEN {Finite(k) : k \in Lowest(type)..Highest(type)}
     ELSE IF type \in FloatTypes THEN {Finite(u) : u \in FloatValues[type]} \cup Unbounded
     ELSE IF type = "F16" THEN {Finite(k) : k \in Lowest("U16")..Highest("U16")}
     ELSE IF type = "Bool" THEN {Finite(0), Finite(1)}
     ELSE {}]

IsTensor(t) ==
  /\ t = [type |-> t.type, values |-> t.values]
  /\ t.type \in DataTypes
  /\ t.values \in Seq(Values[t.type])

\* Towards zero.
Whole(units) == IF units >= 0 THEN units \div One ELSE -((-units) \div One)

Integral(units) == Whole(units) * One = units

\* Integers that a 64-bit float may have to round.
WideTypes == {"I64", "U64"}

\* The wider types that arrays are made of have room for the narrower ones.
ASSUME SizeAssumption ==
  /\ Size \in [IntTypes -> Nat \ {0, 1}]
  /\ \A t \in {"I8", "I16", "U8", "U16"} : 2 * Size[t] <= Size["I32"]
  /\ Size["U32"] <= Size["U64"]
  /\ One \in Nat \ {0}
  /\ Numbers \subseteq Int
  /\ \A t \in IntTypes : \A k \in Lowest(t)..Highest(t) : k * One \in Numbers

ASSUME RoundAssumption ==
  /\ FloatValues \in [FloatTypes -> SUBSET Numbers]
  /\ FloatValues["F32"] \subseteq FloatValues["F64"]
  /\ \A t \in FloatTypes : \A u \in Numbers :
       /\ Round(t, u) \in {Finite(w) : w \in FloatValues[t]} \cup {Infinite(1), Infinite(-1)}
       /\ u \in FloatValues[t] => Round(t, u) = Finite(u)
       /\ Integral(u) /\ Round(t, u).form = "finite" => Integral(Round(t, u).n)
  /\ \A t \in IntTypes \ WideTypes : \A k \in Lowest(t)..Highest(t) :
       k * One \in FloatValues["F64"]
  /\ HalfValue \in [Lowest("U16")..Highest("U16") -> Values["F32"]]

ASSUME DataAssumption == \A t \in Built : IsTensor(t)

-----------------------------------------------------------------------------
(* Casts.                                                                  *)

Some(value) == [some |-> TRUE, value |-> value]
None == [some |-> FALSE]

InUnits(type, value) == IF type \in IntTypes THEN value.n * One ELSE value.n

InOnes(type, value) == IF type \in IntTypes THEN value.n ELSE Whole(value.n)

\* num_traits: integers are compared with the range of the type, fractions dropped before
\* that; floats take anything and round.
NumCast(from, to, value) ==
  IF to \in IntTypes
  THEN IF value.form = "finite" /\ InOnes(from, value) \in Lowest(to)..Highest(to)
       THEN Some(Finite(InOnes(from, value))) ELSE None
  ELSE IF value.form = "finite" THEN Some(Round(to, InUnits(from, value)))
  ELSE Some(value)

ToF64(type, value) == NumCast(type, "F64", value).value

\* Mutant of RoundIdentifies: a value that cannot be cast back passes.
RoundIdentifiesForward(from, to, value, cast) ==
  LET back == NumCast(to, from, cast) IN
  back.some => ToF64(from, value) # NaN /\ ToF64(from, value) = ToF64(from, back.value)

\* Cast back, the value is the one it was, as far as an f64 can tell. NaN equals nothing.
RoundIdentifies(from, to, value, cast) ==
  LET back == NumCast(to, from, cast) IN
  back.some /\ ToF64(from, value) # NaN /\ ToF64(from, value) = ToF64(from, back.value)

Cast(value) == [outcome |-> "Ok", value |-> value]
Loss(reason) == [outcome |-> reason]

TryCastLossless(from, to, value) ==
  LET cast == NumCast(from, to, value) IN
  IF ~cast.some THEN Loss("OutOfRange")
  ELSE IF from \in FloatTypes /\ to \notin FloatTypes /\ ~Integral(value.n)
  THEN Loss("NonIntegral")
  ELSE IF ~RoundIdentifies(from, to, value, cast.value) THEN Loss("OutOfRange")
  ELSE Cast(cast.value)

-----------------------------------------------------------------------------
(* to_vec and as_slice.                                                    *)

\* to_vec_f16: the bits of an f16 are read as an f32 first.
Operand(tensor, i) ==
  IF tensor.type = "F16" THEN HalfValue[tensor.values[i].n] ELSE tensor.values[i]
OperandType(tensor) == IF tensor.type = "F16" THEN "F32" ELSE tensor.type

Given(type, values) == [outcome |-> "Ok", type |-> type, values |-> values]
TypeError == [outcome |-> "TypeError"]
CastError(i, reason) == [outcome |-> "CastError", index |-> i, reason |-> reason]

\* Mutant of ToVecChecked: the last loss is reported.
ToVecCheckedLast(tensor, to) ==
  LET Element(i) == TryCastLossless(OperandType(tensor), to, Operand(tensor, i))
      lost == {i \in DOMAIN tensor.values : Element(i).outcome # "Ok"}
  IN
  IF lost = {} THEN Given(to, [i \in DOMAIN tensor.values |-> Element(i).value])
  ELSE LET last == CHOOSE i \in lost : \A j \in lost : i >= j IN
       CastError(last, Element(last).outcome)

\* Element by element, up to the first that cannot be had.
ToVecChecked(tensor, to) ==
  LET Element(i) == TryCastLossless(OperandType(tensor), to, Operand(tensor, i))
      lost == {i \in DOMAIN tensor.values : Element(i).outcome # "Ok"}
  IN
  IF lost = {} THEN Given(to, [i \in DOMAIN tensor.values |-> Element(i).value])
  ELSE LET first == CHOOSE i \in lost : \A j \in lost : i <= j IN
       CastError(first, Element(first).outcome)

ToVec(tensor, to) ==
  IF tensor.type \in {"Bool", "String"} THEN TypeError ELSE ToVecChecked(tensor, to)

AsSlice(tensor, to) == IF tensor.type = to THEN Given(to, tensor.values) ELSE TypeError

-----------------------------------------------------------------------------
(* The arrays of a file.                                                   *)

\* The array a type's numbers are written to is of this type.
Carrier(type) ==
  IF type \in {"I8", "I16", "U8", "U16", "F16", "Bool"} THEN "I32"
  ELSE IF type = "U32" THEN "U64" ELSE type

\* Mutant of Wrap: what is beyond the type is left as it is.
WrapNot(type, k) == k

\* `as`: the low bits.
Wrap(type, k) == ((k - Lowest(type)) % Size[type]) + Lowest(type)

Narrowed(type, value) ==
  IF type = "Bool" THEN Finite(IF value.n = 0 THEN 0 ELSE 1)
  ELSE IF type = "F16" THEN Finite(Wrap("U16", value.n))
  ELSE IF type \in IntTypes THEN Finite(Wrap(type, value.n))
  ELSE value

\* Mutant of Decode: 16-bit floats are read as signed numbers, as 16-bit integers are.
DecodeHalfSigned(array) ==
  [type |-> array.type,
   values |-> [i \in DOMAIN array.values |->
     Narrowed(IF array.type = "F16" THEN "I16" ELSE array.type, array.values[i])]]

Decode(array) ==
  [type |-> array.type,
   values |-> [i \in DOMAIN array.values |-> Narrowed(array.type, array.values[i])]]

\* Widening changes no number.
Encode(tensor) == tensor

IsArray(a) ==
  /\ a = [type |-> a.type, values |-> a.values]
  /\ a.type \in DataTypes
  /\ a.values \in Seq(Values[Carrier(a.type)])

ASSUME ForeignAssumption == \A a \in Foreign : IsArray(a)

-----------------------------------------------------------------------------
VARIABLES
  tensor,   \* the tensor in memory
  array,    \* the data of the tensor in the file
  saved,    \* the tensors the file was written from: one, or none when it is foreign
  result    \* what the last call returned, and of which tensor

vars == <<tensor, array, saved, result>>

Idle == [call |-> "none"]

Nothing == [type |-> "String", values |-> <<>>]

\* The program begins with a tensor, or with a file.
Init ==
  /\ \/ tensor \in Built /\ array = Nothing
     \/ tensor = Nothing /\ array \in Foreign
  /\ saved = {}
  /\ result = Idle

\* The program reads the tensor as numbers of type to, or borrows them as they are.
Read(to) ==
  /\ result' = [call |-> "to_vec", of |-> tensor, to |-> to, returned |-> ToVec(tensor, to)]
  /\ UNCHANGED <<tensor, array, saved>>

Borrow(to) ==
  /\ result' = [call |-> "as_slice", of |-> tensor, to |-> to, returned |-> AsSlice(tensor, to)]
  /\ UNCHANGED <<tensor, array, saved>>

\* Tensor::new of the vector it got, by into_data.
Keep ==
  /\ result # Idle
  /\ result.returned.outcome = "Ok"
  /\ tensor' = [type |-> result.returned.type, values |-> result.returned.values]
  /\ result' = Idle
  /\ UNCHANGED <<array, saved>>

Save ==
  /\ array' = Encode(tensor)
  /\ saved' = {tensor}
  /\ result' = Idle
  /\ UNCHANGED tensor

Load ==
  /\ tensor' = Decode(array)
  /\ result' = Idle
  /\ UNCHANGED <<array, saved>>

Next ==
  \/ \E t \in Requested : Read(t)
  \/ \E t \in Requested \cup {"Bool"} : Borrow(t)
  \/ Keep
  \/ Save
  \/ Load

Spec == Init /\ [][Next]_vars

-----------------------------------------------------------------------------
(* Properties.                                                             *)

Returned(call, outcome) ==
  result # Idle /\ result.call = call /\ result.returned.outcome = outcome

\* The number at i that was asked for, and the one that came back, both in units.
Asked(i) == InUnits(OperandType(result.of), Operand(result.of, i))
Got(i) == InUnits(result.returned.type, result.returned.values[i])

\* A vector is of the type asked for, and a tensor only holds what its type can, however its
\* numbers were narrowed, cast and put together.
TypeOK ==
  /\ IsTensor(tensor)
  /\ IsArray(array)
  /\ result # Idle =>
       /\ result.of = tensor
       /\ result.returned.outcome = "Ok" =>
            /\ result.returned.type = result.to
            /\ result.returned.values \in Seq(Values[result.to])

\* A vector of to_vec has as many elements as the tensor, each the very number that was in
\* it: nothing is rounded, cut off or wrapped. (64-bit integers read as floats aside.)
AcceptedIsExact ==
  Returned("to_vec", "Ok") =>
    /\ Len(result.returned.values) = Len(result.of.values)
    /\ ~(result.of.type \in WideTypes /\ result.to \in FloatTypes) =>
         \A i \in DOMAIN result.of.values :
           /\ result.returned.values[i].form = Operand(result.of, i).form
           /\ Got(i) = Asked(i)

\* to_vec refuses a tensor only for an element its type cannot hold, and names the first such
\* element, and why: a fraction or the range. (NaN no type takes, not even its own; before
\* the one refused, a 64-bit integer may have been rounded.)
Held(i) ==
  IF Operand(result.of, i).form # "finite" THEN result.to \in FloatTypes
  ELSE IF result.to \in FloatTypes THEN Asked(i) \in FloatValues[result.to]
  ELSE \E k \in Lowest(result.to)..Highest(result.to) : k * One = Asked(i)

RefusalNamesFirstLoss ==
  Returned("to_vec", "CastError") =>
    LET first == result.returned.index IN
    /\ \A i \in 1..(first - 1) : Held(i) \/ result.of.type \in WideTypes
    /\ ~Held(first) \/ Operand(result.of, first) = NaN
    /\ result.returned.reason = "NonIntegral" =>
         result.to \in IntTypes /\ ~Integral(Asked(first))

\* What the library wrote it reads back as the same numbers: the wider numbers of the file
\* lose nothing on the way back, whatever casts the tensor came from.
StoredSurvives == \A t \in saved : Decode(array) = t

\* onnx-numeric-types: "nunca SHALL haver casts com perda silenciosa", said of every vector
\* that to_vec returns.
NoSilentLoss ==
  Returned("to_vec", "Ok") => \A i \in DOMAIN result.of.values : Got(i) = Asked(i)

=============================================================================
