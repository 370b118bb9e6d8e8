---------------------------- MODULE MCNumericCast ----------------------------
(* Types of a few bits in the order of the real ones: an f64 is exact on 32-bit integers, *)
(* not on 64-bit ones; an f32 on 16-bit ones, not on 32-bit ones.                         *)
EXTENDS NumericCast, FiniteSetsExt

MCBits == [I8 |-> 2, I16 |-> 4, I32 |-> 6, I64 |-> 8, U8 |-> 2, U16 |-> 4, U32 |-> 6, U64 |-> 8]
MCSize == [t \in IntTypes |-> 2^MCBits[t]]

MCOne == 4

\* A float is a number of Precision bits times a power of two.
Precision == [F32 |-> 5, F64 |-> 7]
Exponents == [F32 |-> 1..6, F64 |-> 0..4]

Magnitudes(t) == {m * 2^e : m \in 0..(2^Precision[t] - 1), e \in Exponents[t]}
MCFloatValues == [t \in FloatTypes |-> Magnitudes(t) \cup {-u : u \in Magnitudes(t)}]

Largest == [F32 |-> 31 * 2^6, F64 |-> 127 * 2^4]

\* To the nearest, ties to even; beyond the largest, to infinity.
MagnitudeOf(t, u) ==
  LET exact == {e \in Exponents[t] : u < 2^(Precision[t] + e)}
      e == IF exact = {} THEN Max(Exponents[t]) ELSE Min(exact)
      down == u \div 2^e
      rest == 2 * (u % 2^e)
      up == rest > 2^e \/ (rest = 2^e /\ down % 2 = 1)
  IN 2^e * (down + IF up THEN 1 ELSE 0)

MCRound(t, u) ==
  LET magnitude == MagnitudeOf(t, IF u < 0 THEN -u ELSE u)
      sign == IF u < 0 THEN -1 ELSE 1
  IN IF magnitude > Largest[t] THEN Infinite(sign) ELSE Finite(sign * magnitude)

MCNumbers ==
  UNION {MCFloatValues[t] : t \in FloatTypes}
  \cup UNION {{k * MCOne : k \in Lowest(t)..Highest(t)} : t \in IntTypes}

\* One bit of sign, and halves up to 2; infinite; not a number.
MCHalfValue ==
  [b \in 0..15 |->
    LET m == b % 8 IN
    LET sign == IF b < 8 THEN 1 ELSE -1 IN
    IF m = 6 THEN Infinite(sign) ELSE IF m = 7 THEN NaN ELSE Finite(2 * sign * m)]

\* Every number of the small types; of the others those next to a limit of some type, or to
\* a power of two from which on a float has to round.
Edges == {0, 1, 2, 4, 8, 16, 31, 32, 63, 64, 65, 127, 128, 129, 255, 256}
NextTo(limits) == UNION {{u - 1, u, u + 1, -u - 1, -u, -u + 1} : u \in limits}

MCValues(t) ==
  {v \in Values[t] :
     v.form = "finite" =>
       v.n \in IF t \in FloatTypes
              THEN NextTo({e * MCOne : e \in Edges}) \cup {992, 1984, 2000, 2016, 2032}
              ELSE NextTo(Edges)}

Vector(t, values) == [type |-> t, values |-> values]

MCBuilt ==
  UNION {{Vector(t, <<v>>) : v \in MCValues(t)} : t \in DataTypes}
  \cup {Vector("F64", <<Finite(a), Finite(b)>>) : a, b \in {4, 6, -4, 128, 1040}}
  \cup {Vector("I32", <<Finite(a), Finite(b)>>) : a, b \in {0, 1, -1, 31}}
  \cup {Vector("String", <<>>)}

\* Numbers the type of the tensor holds, and numbers that only the array holds.
MCForeign ==
  UNION {{Vector(t, <<Finite(k)>>) : k \in {0, 1, -1, 2, 3, 7, 8, 15, 16, 17, 31, -32}} :
           t \in {"I8", "I16", "I32", "U8", "U16", "F16", "Bool"}}
  \cup {Vector("U32", <<Finite(k), Finite(0)>>) : k \in {63, 64, 65, 255}}
=============================================================================
