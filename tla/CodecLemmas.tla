----------------------------- MODULE CodecLemmas -----------------------------
(***************************************************************************)
(* What the operators of the codec compute: lemmas about tensors, value    *)
(* types, attributes and nodes that the theorems about the codec rest on.  *)
(***************************************************************************)
EXTENDS OpNodes, ValueTypes, FiniteSetTheorems, SequenceTheorems, WellFoundedInduction, TLAPS

-----------------------------------------------------------------------------
(* Counting up.                                                            *)

\* Of some numbers, one is the least.
LEMMA Least ==
  ASSUME NEW places, places \subseteq Nat, places # {}
  PROVE  \E i \in places : \A j \in places : i <= j
<1> DEFINE below == {ss \in Nat \X Nat : ss[1] < ss[2]}
<1>1. IsWellFoundedOn(below, Nat)
  BY NatLessThanWellFounded, Zenon DEF OpToRel
<1> HIDE DEF below
<1>2. PICK i \in places : \A j \in places : ~(<<j, i>> \in below)
  BY <1>1, WFMin
<1>3. ASSUME NEW j \in places
      PROVE  i <= j
  <2>1. i \in Nat /\ j \in Nat /\ ~(<<j, i>> \in below)
    BY <1>2
  <2>2. ~(j < i)
    <3> SUFFICES ASSUME j < i
                 PROVE  <<j, i>> \in below
      BY <2>1
    <3>1. <<j, i>> \in Nat \X Nat /\ <<j, i>>[1] = j /\ <<j, i>>[2] = i
      BY <2>1
    <3>2. QED BY <3>1, Zenon DEF below
  <2>3. QED BY <2>1, <2>2
<1>4. QED BY <1>2, <1>3

\* A set that holds 0, and with a number the next one, holds all up to the bound.
LEMMA CountingUp ==
  ASSUME NEW n \in Nat, NEW P, 0 \in P, \A i \in 0..(n - 1) : i \in P => i + 1 \in P
  PROVE  \A i \in 0..n : i \in P
<1> SUFFICES ASSUME NEW i \in 0..n, i \notin P
             PROVE  FALSE
  OBVIOUS
<1> DEFINE missing == {j \in 0..n : j \notin P}
<1>1. missing \subseteq Nat /\ missing # {}
  OBVIOUS
<1>2. PICK m \in missing : \A j \in missing : m <= j
  <2> HIDE DEF missing
  <2> QED BY <1>1, Least
<1>3. m \in 0..n /\ m \notin P /\ m # 0
  BY <1>2
<1>4. m - 1 \in 0..(n - 1) /\ m - 1 \in 0..n /\ ~(m <= m - 1) /\ (m - 1) + 1 = m
  BY <1>3
<1>5. m - 1 \in P
  BY <1>2, <1>4
<1>6. QED BY <1>3, <1>4, <1>5

\* A function on 0..n, each of whose values comes from the one before by a step.
Steps(f, S, base, n, step) ==
  /\ f \in [0..n -> S]
  /\ f[0] = base
  /\ \A i \in 1..n : f[i] = step[<<f[i - 1], i>>]

\* A function can be defined number by number.
LEMMA StepByStep ==
  ASSUME NEW S, NEW base \in S, NEW n \in Nat,
         NEW step, \A t \in S, i \in 1..n : step[<<t, i>>] \in S
  PROVE  \E f : Steps(f, S, base, n, step)
<1> DEFINE Good(f, m) == f = [i \in 0..m |-> IF i = 0 THEN base ELSE step[<<f[i - 1], i>>]]
           P == {m \in 0..n : \E f \in [0..m -> S] : Good(f, m)}
<1>1. 0 \in P
  <2> DEFINE f == [i \in 0..0 |-> base]
  <2>1. f \in [0..0 -> S]
    OBVIOUS
  <2>2. f = [i \in 0..0 |-> IF i = 0 THEN base ELSE step[<<f[i - 1], i>>]]
    <3>1. \A i \in 0..0 : i = 0
      OBVIOUS
    <3>2. QED BY <3>1
  <2> HIDE DEF f
  <2>3. \E h \in [0..0 -> S] : Good(h, 0)
    BY <2>1, <2>2
  <2> HIDE DEF Good
  <2>4. QED BY <2>3
<1>2. ASSUME NEW m \in 0..(n - 1), m \in P
      PROVE  m + 1 \in P
  <2>1. m \in Nat /\ m + 1 \in 0..n /\ m + 1 \in 1..n
    OBVIOUS
  <2>2. PICK f \in [0..m -> S] : Good(f, m)
    BY <1>2
  <2> DEFINE g == [i \in 0..(m + 1) |-> IF i = m + 1 THEN step[<<f[m], m + 1>>] ELSE f[i]]
  <2>3. step[<<f[m], m + 1>>] \in S
    <3>1. f[m] \in S
      BY <2>1
    <3>2. QED BY <2>1, <3>1
  <2>4. g \in [0..(m + 1) -> S]
    <3>1. \A i \in 0..(m + 1) : i # m + 1 => i \in 0..m
      BY <2>1
    <3>2. QED BY <2>3, <3>1
  <2>5. /\ g[0] = base
        /\ \A i \in 1..(m + 1) : g[i] = step[<<g[i - 1], i>>]
    <3>1. /\ f[0] = base
          /\ \A i \in 1..m : f[i] = step[<<f[i - 1], i>>]
      BY <2>1, <2>2
    <3>2. /\ \A i \in 0..m : g[i] = f[i]
          /\ g[m + 1] = step[<<f[m], m + 1>>]
      BY <2>1
    <3> HIDE DEF g
    <3>3. g[0] = base
      BY <2>1, <3>1, <3>2
    <3>4. ASSUME NEW i \in 1..(m + 1)
          PROVE  g[i] = step[<<g[i - 1], i>>]
      <4>1. CASE i = m + 1
        <5>1. i - 1 = m /\ g[m] = f[m]
          BY <2>1, <3>2, <4>1
        <5>2. QED BY <3>2, <4>1, <5>1
      <4>2. CASE i # m + 1
        <5>1. i \in 1..m /\ i \in 0..m /\ i - 1 \in 0..m
          BY <2>1, <4>2
        <5>2. g[i] = f[i] /\ g[i - 1] = f[i - 1] /\ f[i] = step[<<f[i - 1], i>>]
          BY <3>1, <3>2, <5>1
        <5>3. QED BY <5>2
      <4>3. QED BY <4>1, <4>2
    <3>5. QED BY <3>3, <3>4
  <2> HIDE DEF g
  <2>6. \A i \in 0..(m + 1) : g[i] = IF i = 0 THEN base ELSE step[<<g[i - 1], i>>]
    BY <2>1, <2>5
  <2>7. Good(g, m + 1)
    BY <2>4, <2>6
  <2> HIDE DEF Good
  <2>8. QED BY <2>1, <2>4, <2>7
<1>3. n \in P
  <2> HIDE DEF P
  <2>1. \A i \in 0..n : i \in P
    BY <1>1, <1>2, CountingUp
  <2>2. QED BY <2>1
<1>4. PICK f \in [0..n -> S] : Good(f, n)
  BY <1>3
<1>5. \A i \in 1..n : f[i] = step[<<f[i - 1], i>>]
  BY <1>4
<1>6. f[0] = base
  BY <1>4
<1> HIDE DEF Good
<1>7. QED BY <1>5, <1>6 DEF Steps

-----------------------------------------------------------------------------
(* Dimensions.                                                             *)

\* FixedDims goes through the dimensions one by one.
LEMMA FixedDimsSteps ==
  ASSUME NEW dims \in Seq(Dim)
  PROVE  \E f : /\ f[0] = <<>>
                /\ \A i \in 1..Len(dims) :
                     f[i] = IF dims[i].fixed THEN Append(f[i - 1], dims[i].size) ELSE f[i - 1]
                /\ FixedDims(dims) = f[Len(dims)]
<1> DEFINE n == Len(dims)
           Good(f) == f = [i \in 0..n |->
                             IF i = 0 THEN <<>>
                             ELSE IF dims[i].fixed THEN Append(f[i - 1], dims[i].size)
                             ELSE f[i - 1]]
           step == [x \in Seq(Int) \X (1..n) |->
                      IF dims[x[2]].fixed THEN Append(x[1], dims[x[2]].size) ELSE x[1]]
<1>1. n \in Nat /\ (\A i \in 1..n : dims[i] \in Dim)
  BY ElementOfSeq, LenProperties
<1>2. \A t \in Seq(Int), i \in 1..n :
        step[<<t, i>>] = IF dims[i].fixed THEN Append(t, dims[i].size) ELSE t
  OBVIOUS
<1>3. \A t \in Seq(Int), i \in 1..n : step[<<t, i>>] \in Seq(Int)
  <2>1. ASSUME NEW t \in Seq(Int), NEW i \in 1..n
        PROVE  step[<<t, i>>] \in Seq(Int)
    <3> DEFINE more == Append(t, dims[i].size)
    <3>1. dims[i].size \in Int
      BY <1>1 DEF Dim
    <3>2. more \in Seq(Int)
      BY <3>1, AppendProperties
    <3> HIDE DEF more
    <3>3. step[<<t, i>>] = IF dims[i].fixed THEN more ELSE t
      BY <1>2 DEF more
    <3> HIDE DEF step
    <3>4. QED BY <3>2, <3>3
  <2>2. QED BY <2>1
<1> DEFINE none == <<>>
<1>4. none \in Seq(Int)
  OBVIOUS
<1> HIDE DEF step, n, none
<1>5. PICK f : Steps(f, Seq(Int), none, n, step)
  BY <1>1, <1>3, <1>4, StepByStep
<1>6. Good(f)
  <2>1. ASSUME NEW i \in 0..n, i # 0
        PROVE  f[i] = IF dims[i].fixed THEN Append(f[i - 1], dims[i].size) ELSE f[i - 1]
    <3>1. i \in 1..n /\ f[i - 1] \in Seq(Int)
      BY <1>1, <1>5, <2>1 DEF Steps
    <3>2. f[i] = step[<<f[i - 1], i>>]
      BY <1>5, <3>1 DEF Steps
    <3>3. QED BY <1>2, <3>1, <3>2
  <2>2. f[0] = <<>>
    BY <1>5 DEF none, Steps
  <2>3. QED BY <1>5, <2>1, <2>2 DEF Steps
<1>7. PICK g : Good(g) /\ FixedDims(dims) = g[n]
  <2>1. FixedDims(dims) = (CHOOSE g : Good(g))[n]
    BY DEF FixedDims, n
  <2>2. Good(CHOOSE g : Good(g))
    <3> HIDE DEF Good
    <3>1. QED BY <1>6
  <2> HIDE DEF Good
  <2>3. QED BY <2>1, <2>2
<1>8. /\ g[0] = <<>>
      /\ \A i \in 1..n :
           g[i] = IF dims[i].fixed THEN Append(g[i - 1], dims[i].size) ELSE g[i - 1]
  <2>1. 0 \in 0..n /\ (\A i \in 1..n : i \in 0..n /\ i # 0)
    BY <1>1
  <2>2. g[0] = <<>>
    BY <1>7, <2>1, Zenon
  <2>3. ASSUME NEW i \in 1..n
        PROVE  g[i] = IF dims[i].fixed THEN Append(g[i - 1], dims[i].size) ELSE g[i - 1]
    BY <1>7, <2>1, Zenon
  <2>4. QED BY <2>2, <2>3
<1> HIDE DEF Good
<1>9. QED BY <1>7, <1>8, Zenon DEF n

\* The sizes are numbers.
LEMMA FixedDimsType ==
  ASSUME NEW dims \in Seq(Dim)
  PROVE  FixedDims(dims) \in Seq(Int)
<1> DEFINE n == Len(dims)
<1>1. n \in Nat /\ (\A i \in 1..n : dims[i] \in Dim)
  BY ElementOfSeq, LenProperties
<1>2. PICK f : /\ f[0] = <<>>
               /\ \A i \in 1..n :
                    f[i] = IF dims[i].fixed THEN Append(f[i - 1], dims[i].size) ELSE f[i - 1]
               /\ FixedDims(dims) = f[n]
  BY FixedDimsSteps
<1> HIDE DEF n
<1> DEFINE P == {i \in 0..n : f[i] \in Seq(Int)}
<1>3. 0 \in P
  <2>1. f[0] \in Seq(Int)
    BY <1>2, EmptySeq
  <2>2. QED BY <1>1, <2>1
<1>4. ASSUME NEW i \in 0..(n - 1), i \in P
      PROVE  i + 1 \in P
  <2>1. i + 1 \in 1..n /\ i + 1 \in 0..n /\ (i + 1) - 1 = i
    BY <1>1
  <2>2. f[i] \in Seq(Int) /\ dims[i + 1].size \in Int
    BY <1>1, <1>4, <2>1 DEF Dim
  <2>3. f[i + 1] \in {f[i], Append(f[i], dims[i + 1].size)}
    BY <1>2, <2>1
  <2>4. f[i + 1] \in Seq(Int)
    <3>1. Append(f[i], dims[i + 1].size) \in Seq(Int)
      BY <2>2, AppendProperties
    <3> DEFINE more == Append(f[i], dims[i + 1].size)
    <3> HIDE DEF more
    <3>2. f[i + 1] = f[i] \/ f[i + 1] = more
      BY <2>3 DEF more
    <3>3. QED BY <2>2, <3>1, <3>2 DEF more
  <2>5. QED BY <2>1, <2>4
<1>5. \A i \in 0..n : i \in P
  <2> HIDE DEF P
  <2>1. QED BY <1>1, <1>3, <1>4, CountingUp
<1>6. QED BY <1>1, <1>2, <1>5

\* When all dimensions are fixed, the sizes are those of all.
LEMMA SizesOfFixed ==
  ASSUME NEW dims \in Seq(Dim), \A i \in 1..Len(dims) : dims[i].fixed
  PROVE  /\ Len(FixedDims(dims)) = Len(dims)
         /\ \A i \in 1..Len(dims) : FixedDims(dims)[i] = dims[i].size
<1> DEFINE n == Len(dims)
<1>1. n \in Nat /\ (\A i \in 1..n : dims[i] \in Dim)
  BY ElementOfSeq, LenProperties
<1>2. PICK f : /\ f[0] = <<>>
               /\ \A i \in 1..n : f[i] = Append(f[i - 1], dims[i].size)
               /\ FixedDims(dims) = f[n]
  BY FixedDimsSteps
<1>3. \A i \in 1..n : dims[i].size \in Int
  BY <1>1 DEF Dim
<1> HIDE DEF n
<1> DEFINE P == {i \in 0..n : /\ f[i] \in Seq(Int) /\ Len(f[i]) = i
                              /\ \A j \in 1..i : f[i][j] = dims[j].size}
<1>4. 0 \in P
  <2>1. f[0] \in Seq(Int) /\ Len(f[0]) = 0
    BY <1>2, EmptySeq
  <2>2. \A j \in 1..0 : f[0][j] = dims[j].size
    OBVIOUS
  <2>3. QED BY <1>1, <2>1, <2>2
<1>5. ASSUME NEW i \in 0..(n - 1), i \in P
      PROVE  i + 1 \in P
  <2>1. i + 1 \in 1..n /\ i + 1 \in 0..n /\ (i + 1) - 1 = i
    BY <1>1
  <2> DEFINE t == f[i]
             e == dims[i + 1].size
  <2>2. /\ t \in Seq(Int) /\ Len(t) = i /\ e \in Int
        /\ \A j \in 1..i : t[j] = dims[j].size
    BY <1>3, <1>5, <2>1
  <2>3. f[i + 1] = Append(t, e)
    BY <1>2, <2>1
  <2>4. /\ Append(t, e) \in Seq(Int) /\ Len(Append(t, e)) = i + 1
        /\ \A j \in 1..i : Append(t, e)[j] = t[j]
        /\ Append(t, e)[i + 1] = e
    BY <2>2, AppendProperties
  <2>5. \A j \in 1..(i + 1) : Append(t, e)[j] = dims[j].size
    BY <2>1, <2>2, <2>4
  <2>6. QED BY <2>1, <2>3, <2>4, <2>5
<1>6. n \in P
  <2> HIDE DEF P
  <2>1. \A i \in 0..n : i \in P
    BY <1>1, <1>4, <1>5, CountingUp
  <2>2. QED BY <1>1, <2>1
<1>7. QED BY <1>2, <1>6 DEF n

\* What a file says of dimensions is kept: they are fixed, with the sizes it says.
LEMMA FixedKeepsDims ==
  ASSUME NEW dims \in Seq(Int)
  PROVE  Fixed(dims) \in Seq(Dim) /\ FixedDims(Fixed(dims)) = dims
<1> DEFINE n == Len(dims)
           fixed == Fixed(dims)
<1>1. n \in Nat /\ DOMAIN dims = 1..n /\ (\A i \in 1..n : dims[i] \in Int)
  BY ElementOfSeq, LenProperties
<1>2. fixed = [i \in 1..n |-> [fixed |-> TRUE, size |-> dims[i]]]
  BY <1>1 DEF Fixed
<1>3. fixed \in [1..n -> Dim]
  BY <1>1, <1>2 DEF Dim
<1>4. fixed \in Seq(Dim) /\ Len(fixed) = n
  BY <1>1, <1>3, SeqDef, LenProperties
<1>5. \A i \in 1..n : fixed[i].fixed /\ fixed[i].size = dims[i]
  BY <1>2
<1> HIDE DEF fixed
<1>6. /\ Len(FixedDims(fixed)) = n
      /\ \A i \in 1..n : FixedDims(fixed)[i] = dims[i]
  BY <1>4, <1>5, SizesOfFixed
<1>7. FixedDims(fixed) = dims
  BY <1>4, <1>6, FixedDimsType, SeqEqual
<1>8. QED BY <1>4, <1>7 DEF fixed

-----------------------------------------------------------------------------
(* Tensors.                                                                *)

\* Saving the tensor and loading the file gives it back.
TensorIsDurable(t) == DecodeTensor(EncodeTensor(t)) = Ok(t)

\* What the data of a file's tensor can turn out to be.
LEMMA DataFound ==
  ASSUME NEW p, IsTensorProto(p), DecodeData(p).outcome = "Ok"
  PROVE  \/ /\ DecodeData(p) = Found("raw", p.raw)
            /\ p.raw > 0
            /\ DecodeRawData(p.elem, p.raw) = Found("raw", p.raw)
            /\ p.elem # "String"
         \/ /\ DecodeData(p) = Found("strings", p.strings)
            /\ p.strings > 0
            /\ p.elem = "String"
            /\ Fits(p.strings, p.dims)
         \/ \E n \in Nat :
              /\ DecodeData(p) = Found("array", n)
              /\ p.elem \notin {"String", "Undefined"}
              /\ p.elem \in DOMAIN CheckedArray => Fits(n, p.dims)
<1>1. p.raw \in Nat /\ p.strings \in Nat /\ p.arrays \in [Arrays -> Nat]
  BY DEF IsTensorProto
<1>2. CASE p.raw > 0
  <2> DEFINE found == DecodeRawData(p.elem, p.raw)
             w == RawWidth(p.elem)
  <2>1. /\ DecodeData(p) = found /\ p.elem # "String" /\ found.outcome = "Ok"
        /\ FitsShape(found.data, p.dims)
    BY <1>2 DEF DecodeData, DecodeRaw, Failed
  <2>2. w \in {1, 2, 4, 8}
    BY DEF RawWidth
  <2>3. p.raw \div w \in Nat
    BY <1>1, <2>2
  <2> HIDE DEF w
  <2>4. \/ found = Found("raw", p.raw)
        \/ /\ found = Found("array", p.raw \div w)
           /\ p.elem \notin {"String", "Undefined"}
    BY <2>1 DEF DecodeRawData, Failed, w
  <2> HIDE DEF found
  <2>5. CASE found = Found("raw", p.raw)
    BY <1>2, <2>1, <2>5 DEF found
  <2>6. ASSUME NEW n \in Nat, found = Found("array", n)
        PROVE  Fits(n, p.dims)
    BY <2>1, <2>6 DEF FitsShape, Found
  <2>7. CASE found # Found("raw", p.raw)
    <3>1. found = Found("array", p.raw \div w) /\ p.elem \notin {"String", "Undefined"}
      BY <2>4, <2>7
    <3>2. QED BY <2>1, <2>3, <2>6, <3>1
  <2>8. QED BY <2>5, <2>7
<1>3. CASE ~(p.raw > 0) /\ p.strings > 0
  BY <1>3 DEF DecodeData, DecodeStrings, Failed
<1>4. CASE ~(p.raw > 0) /\ ~(p.strings > 0)
  <2> DEFINE n == p.arrays[ArrayOf(p.elem)]
  <2>1. ArrayOf(p.elem) \in Arrays
    BY DEF ArrayOf, CheckedArray, Arrays
  <2>2. n \in Nat
    BY <1>1, <2>1
  <2>3. /\ DecodeData(p) = Found("array", n)
        /\ p.elem \notin {"String", "Undefined"}
        /\ p.elem \in DOMAIN CheckedArray => Fits(n, p.dims)
    BY <1>4 DEF DecodeData, DecodeArray, Failed
  <2>4. QED BY <2>2, <2>3
<1>5. QED BY <1>2, <1>3, <1>4

\* What encode_tensor makes of a tensor with its data in the file.
LEMMA EncodedInline ==
  ASSUME NEW elem, NEW dims, NEW form \in {"array", "strings", "raw"}, NEW count,
         NEW p, p = EncodeTensor(Inline(elem, dims, [form |-> form, count |-> count]))
  PROVE  /\ p.elem = elem /\ p.dims = FixedDims(dims)
         /\ p.raw = (IF form = "raw" THEN count ELSE 0)
         /\ p.strings = (IF form = "strings" THEN count ELSE 0)
         /\ p.arrays[ArrayOf(elem)] = (IF form = "array" THEN count ELSE 0)
         /\ ~p.reference.given
<1>1. ArrayOf(elem) \in Arrays
  BY DEF ArrayOf, CheckedArray, Arrays
<1>2. QED BY <1>1 DEF EncodeTensor, Inline, NoReference

\* A tensor is written to a file as a tensor of files.
LEMMA EncodedTensorType ==
  ASSUME NEW t \in Tensor
  PROVE  IsTensorProto(EncodeTensor(t))
<1>1. t.dims \in Seq(Dim)
  BY DEF Tensor
<1>2. FixedDims(t.dims) \in Seq(Int)
  BY <1>1, FixedDimsType
<1> DEFINE p == EncodeTensor(t)
           Amount(form) == IF t.inline /\ t.data.form = form THEN t.data.count ELSE 0
<1>3. \A form : Amount(form) \in Nat
  BY DEF Tensor, Data
<1>4. /\ p.dims = FixedDims(t.dims)
      /\ p.raw = Amount("raw") /\ p.strings = Amount("strings") /\ p.unread = NothingUnread
      /\ p.arrays = [a \in Arrays |-> IF a = ArrayOf(t.elem) THEN Amount("array") ELSE 0]
      /\ p.reference = IF t.inline THEN NoReference
                       ELSE [given |-> TRUE, valid |-> TRUE, to |-> t.reference]
  BY DEF EncodeTensor
<1>5. p.reference.given => p.reference.to \in Reference
  <2>1. CASE t.inline
    BY <1>4, <2>1 DEF NoReference
  <2>2. CASE ~t.inline
    <3>1. t.reference \in Reference
      BY <2>2 DEF Tensor
    <3> HIDE DEF p
    <3>2. p.reference.to = t.reference
      BY <1>4, <2>2
    <3>3. QED BY <3>1, <3>2
  <2>3. QED BY <2>1, <2>2
<1> HIDE DEF p, Amount
<1>6. p.arrays \in [Arrays -> Nat]
  BY <1>3, <1>4
<1>7. QED BY <1>2, <1>3, <1>4, <1>5, <1>6 DEF IsTensorProto, NothingUnread, p

\* A tensor that was loaded is a tensor, and it can be saved and loaded again: what was
\* raw bytes and is an array now is found in that array.
LEMMA LoadedTensorIsDurable ==
  ASSUME NEW p, IsTensorProto(p), DecodeTensor(p).outcome = "Ok"
  PROVE  /\ DecodeTensor(p) = Ok(DecodeTensor(p).tensor)
         /\ DecodeTensor(p).tensor \in Tensor
         /\ TensorIsDurable(DecodeTensor(p).tensor)
<1> DEFINE dims == Fixed(p.dims)
<1>1. /\ Known(p.elem) /\ p.elem \in ElemType
      /\ dims \in Seq(Dim) /\ FixedDims(dims) = p.dims
  BY FixedKeepsDims DEF DecodeTensor, Failed, Known, IsTensorProto
<1> HIDE DEF dims
<1>2. CASE p.reference.given
  <2> DEFINE t == External(p.elem, dims, p.reference.to)
             q == EncodeTensor(t)
  <2>1. DecodeTensor(p) = Ok(t) /\ p.reference.valid
    BY <1>1, <1>2 DEF DecodeTensor, Failed, dims
  <2>2. t \in Tensor
    BY <1>1, <1>2, <2>1 DEF Tensor, External, IsTensorProto
  <2>3. /\ q.elem = p.elem /\ q.dims = p.dims
        /\ q.reference.given /\ q.reference.valid /\ q.reference.to = p.reference.to
    BY <1>1 DEF EncodeTensor, External
  <2> HIDE DEF q
  <2>4. DecodeTensor(q) = Ok(External(q.elem, Fixed(q.dims), q.reference.to))
    BY <1>1, <2>3 DEF DecodeTensor
  <2>5. DecodeTensor(q) = Ok(t)
    BY <2>3, <2>4 DEF dims
  <2> HIDE DEF t
  <2>6. QED BY <2>1, <2>2, <2>5 DEF TensorIsDurable, Ok, q
<1>3. CASE ~p.reference.given
  <2>1. /\ DecodeData(p).outcome = "Ok"
        /\ DecodeTensor(p) = Ok(Inline(p.elem, dims, DecodeData(p).data))
    BY <1>1, <1>3 DEF DecodeTensor, dims
  <2>2. PICK form \in {"array", "strings", "raw"}, n \in Nat :
          /\ DecodeData(p) = Found(form, n)
          /\ form = "raw" => /\ n > 0 /\ p.elem # "String"
                             /\ DecodeRawData(p.elem, n) = Found("raw", n)
          /\ form = "strings" => n > 0 /\ p.elem = "String" /\ Fits(n, p.dims)
          /\ form = "array" => /\ p.elem \notin {"String", "Undefined"}
                               /\ p.elem \in DOMAIN CheckedArray => Fits(n, p.dims)
    <3>1. p.raw \in Nat /\ p.strings \in Nat
      BY DEF IsTensorProto
    <3>2. QED BY <2>1, <3>1, DataFound
  <2> DEFINE data == [form |-> form, count |-> n]
             t == Inline(p.elem, dims, data)
             q == EncodeTensor(t)
  <2>3. DecodeTensor(p) = Ok(t)
    BY <2>1, <2>2 DEF Found
  <2>4. t \in Tensor
    BY <1>1 DEF Tensor, Inline, Data
  <2>5. /\ q.elem = p.elem /\ q.dims = p.dims /\ ~q.reference.given
        /\ q.raw = (IF form = "raw" THEN n ELSE 0)
        /\ q.strings = (IF form = "strings" THEN n ELSE 0)
        /\ q.arrays[ArrayOf(p.elem)] = (IF form = "array" THEN n ELSE 0)
    <3> HIDE DEF q
    <3>1. q = EncodeTensor(Inline(p.elem, dims, [form |-> form, count |-> n]))
      BY Zenon DEF q
    <3>2. QED BY <1>1, <3>1, EncodedInline
  <2> HIDE DEF q
  <2>6. DecodeData(q) = Found(form, n)
    <3>1. CASE form = "raw"
      <4>1. Found("raw", n).outcome = "Ok" /\ Found("raw", n).data.form = "raw"
        BY DEF Found
      <4>2. QED BY <2>2, <2>5, <3>1, <4>1 DEF DecodeData, DecodeRaw, FitsShape
    <3>2. CASE form = "strings"
      BY <2>2, <2>5, <3>2 DEF DecodeData, DecodeStrings
    <3>3. CASE form = "array"
      BY <2>2, <2>5, <3>3 DEF DecodeData, DecodeArray
    <3>4. QED BY <3>1, <3>2, <3>3
  <2>7. DecodeTensor(q) = Ok(Inline(q.elem, Fixed(q.dims), data))
    <3>1. DecodeData(q).outcome = "Ok" /\ DecodeData(q).data = data
      BY <2>6 DEF Found
    <3>2. Known(q.elem) /\ ~q.reference.given
      BY <1>1, <2>5
    <3> HIDE DEF data
    <3>3. QED BY <3>1, <3>2 DEF DecodeTensor
  <2>8. DecodeTensor(q) = Ok(t)
    BY <2>5, <2>7 DEF dims
  <2> HIDE DEF t
  <2>9. QED BY <2>3, <2>4, <2>8 DEF TensorIsDurable, Ok, q
<1>4. QED BY <1>2, <1>3

-----------------------------------------------------------------------------
(* Counting elements.                                                      *)

\* Expected multiplies the sizes one by one.
LEMMA ExpectedSteps ==
  ASSUME NEW dims \in Seq(Int)
  PROVE  \E f : /\ f[0] = 1
                /\ \A i \in 1..Len(dims) : f[i] = TimesSize(f[i - 1], dims[i])
                /\ Expected(dims) = IF f[Len(dims)] = None THEN UsizeMax ELSE f[Len(dims)]
<1> DEFINE n == Len(dims)
           Good(f) == f = [i \in 0..n |-> IF i = 0 THEN 1 ELSE TimesSize(f[i - 1], dims[i])]
           step == [x \in Int \X (1..n) |-> TimesSize(x[1], dims[x[2]])]
<1>1. n \in Nat /\ (\A i \in 1..n : dims[i] \in Int)
  BY ElementOfSeq, LenProperties
<1>2. \A t \in Int, i \in 1..n : step[<<t, i>>] = TimesSize(t, dims[i])
  OBVIOUS
<1>3. \A t \in Int, i \in 1..n : step[<<t, i>>] \in Int
  <2>1. \A t, d \in Int : Times(t, d) \in Int
    BY DEF Times, None
  <2>2. \A i \in 1..n : (IF dims[i] > 0 THEN dims[i] ELSE 0) \in Int
    BY <1>1
  <2>3. \A t \in Int, i \in 1..n : TimesSize(t, dims[i]) \in Int
    BY <2>1, <2>2 DEF TimesSize
  <2> HIDE DEF step
  <2>4. QED BY <1>2, <2>3
<1> HIDE DEF step, n
<1>4. PICK f : Steps(f, Int, 1, n, step)
  <2> DEFINE S == Int
             one == 1
  <2>1. n \in Nat /\ one \in S /\ (\A t \in S, i \in 1..n : step[<<t, i>>] \in S)
    BY <1>1, <1>3
  <2> HIDE DEF S, one
  <2>2. \E f : Steps(f, S, one, n, step)
    BY <2>1, StepByStep
  <2>3. QED BY <2>2 DEF S, one
<1>5. Good(f)
  <2>1. ASSUME NEW i \in 0..n, i # 0
        PROVE  f[i] = TimesSize(f[i - 1], dims[i])
    <3>1. i \in 1..n /\ f[i - 1] \in Int
      BY <1>1, <1>4, <2>1 DEF Steps
    <3>2. f[i] = step[<<f[i - 1], i>>]
      BY <1>4, <3>1 DEF Steps
    <3>3. QED BY <1>2, <3>1, <3>2
  <2>2. QED BY <1>4, <2>1 DEF Steps
<1>6. PICK g : Good(g) /\ Expected(dims) = IF g[n] = None THEN UsizeMax ELSE g[n]
  <2> DEFINE chosen == CHOOSE g : Good(g)
  <2>1. Expected(dims) = IF chosen[n] = None THEN UsizeMax ELSE chosen[n]
    BY DEF Expected, n
  <2>2. Good(chosen)
    <3> HIDE DEF Good
    <3>1. QED BY <1>5
  <2> HIDE DEF Good, chosen
  <2>3. QED BY <2>1, <2>2
<1>7. /\ g[0] = 1
      /\ \A i \in 1..n : g[i] = TimesSize(g[i - 1], dims[i])
  <2>1. 0 \in 0..n /\ (\A i \in 1..n : i \in 0..n /\ i # 0)
    BY <1>1
  <2>2. g[0] = 1
    BY <1>6, <2>1, Zenon
  <2>3. ASSUME NEW i \in 1..n
        PROVE  g[i] = TimesSize(g[i - 1], dims[i])
    BY <1>6, <2>1, Zenon
  <2>4. QED BY <2>2, <2>3
<1> HIDE DEF Good
<1>8. QED BY <1>6, <1>7, Zenon DEF n

\* So does FixedLen, as long as they are fixed and not negative.
LEMMA FixedLenSteps ==
  ASSUME NEW dims \in Seq(Dim)
  PROVE  \E f : /\ f[0] = 1
                /\ \A i \in 1..Len(dims) : f[i] = TimesDim(f[i - 1], dims[i])
                /\ FixedLen(dims) = f[Len(dims)]
<1> DEFINE n == Len(dims)
           Good(f) == f = [i \in 0..n |-> IF i = 0 THEN 1 ELSE TimesDim(f[i - 1], dims[i])]
           step == [x \in Int \X (1..n) |-> TimesDim(x[1], dims[x[2]])]
<1>1. n \in Nat /\ (\A i \in 1..n : dims[i] \in Dim)
  BY ElementOfSeq, LenProperties
<1>2. \A t \in Int, i \in 1..n : step[<<t, i>>] = TimesDim(t, dims[i])
  OBVIOUS
<1>3. \A t \in Int, i \in 1..n : step[<<t, i>>] \in Int
  <2>1. \A t, d \in Int : Times(t, d) \in Int
    BY DEF Times, None
  <2>2. \A i \in 1..n : dims[i].size \in Int
    BY <1>1 DEF Dim
  <2>3. \A t \in Int, i \in 1..n : Times(t, dims[i].size) \in Int
    BY <2>1, <2>2
  <2> HIDE DEF step
  <2>4. ASSUME NEW t \in Int, NEW i \in 1..n
        PROVE  step[<<t, i>>] \in Int
    <3>1. step[<<t, i>>] = None \/ step[<<t, i>>] = Times(t, dims[i].size)
      BY <1>2 DEF TimesDim
    <3>2. Times(t, dims[i].size) \in Int
      BY <2>3
    <3>3. None \in Int
      BY DEF None
    <3>4. QED BY <3>1, <3>2, <3>3
  <2>5. QED BY <2>4
<1> HIDE DEF step, n
<1>4. PICK f : Steps(f, Int, 1, n, step)
  <2> DEFINE S == Int
             one == 1
  <2>1. n \in Nat /\ one \in S /\ (\A t \in S, i \in 1..n : step[<<t, i>>] \in S)
    BY <1>1, <1>3
  <2> HIDE DEF S, one
  <2>2. \E f : Steps(f, S, one, n, step)
    BY <2>1, StepByStep
  <2>3. QED BY <2>2 DEF S, one
<1>5. Good(f)
  <2>1. ASSUME NEW i \in 0..n, i # 0
        PROVE  f[i] = TimesDim(f[i - 1], dims[i])
    <3>1. i \in 1..n /\ f[i - 1] \in Int
      BY <1>1, <1>4, <2>1 DEF Steps
    <3>2. f[i] = step[<<f[i - 1], i>>]
      BY <1>4, <3>1 DEF Steps
    <3>3. QED BY <1>2, <3>1, <3>2
  <2>2. QED BY <1>4, <2>1 DEF Steps
<1>6. PICK g : Good(g) /\ FixedLen(dims) = g[n]
  <2> DEFINE chosen == CHOOSE g : Good(g)
  <2>1. FixedLen(dims) = chosen[n]
    BY DEF FixedLen, n
  <2>2. Good(chosen)
    <3> HIDE DEF Good
    <3>1. QED BY <1>5
  <2> HIDE DEF Good, chosen
  <2>3. QED BY <2>1, <2>2
<1>7. /\ g[0] = 1
      /\ \A i \in 1..n : g[i] = TimesDim(g[i - 1], dims[i])
  <2>1. 0 \in 0..n /\ (\A i \in 1..n : i \in 0..n /\ i # 0)
    BY <1>1
  <2>2. g[0] = 1
    BY <1>6, <2>1, Zenon
  <2>3. ASSUME NEW i \in 1..n
        PROVE  g[i] = TimesDim(g[i - 1], dims[i])
    BY <1>6, <2>1, Zenon
  <2>4. QED BY <2>2, <2>3
<1> HIDE DEF Good
<1>8. QED BY <1>6, <1>7, Zenon DEF n

\* Where the builder can multiply the dimensions out, they are all fixed, and the decoder
\* expects as many elements.
LEMMA CountsAgree ==
  ASSUME NEW dims \in Seq(Dim), FixedLen(dims) # None
  PROVE  /\ \A i \in 1..Len(dims) : dims[i].fixed
         /\ Expected(FixedDims(dims)) = FixedLen(dims)
<1> DEFINE n == Len(dims)
           sizes == FixedDims(dims)
<1>1. n \in Nat /\ (\A i \in 1..n : dims[i] \in Dim)
  BY ElementOfSeq, LenProperties
<1>2. PICK f : /\ f[0] = 1
               /\ \A i \in 1..n : f[i] = TimesDim(f[i - 1], dims[i])
               /\ FixedLen(dims) = f[n]
  BY FixedLenSteps
<1>3. \A i \in 1..n : dims[i].size \in Int
  BY <1>1 DEF Dim
<1> HIDE DEF n
\* Backwards: nothing after None is anything else, so no dimension has failed.
<1>4. \A i \in 0..n : f[n - i] # None
  <2> DEFINE P == {i \in 0..n : f[n - i] # None}
  <2>1. 0 \in P
    BY <1>1, <1>2
  <2>2. ASSUME NEW i \in 0..(n - 1), i \in P
        PROVE  i + 1 \in P
    <3>1. n - i \in 1..n /\ (n - i) - 1 = n - (i + 1) /\ i + 1 \in 0..n
      BY <1>1
    <3>2. f[n - i] # None
      BY <2>2
    <3>3. f[n - (i + 1)] # None
      BY <1>2, <3>1, <3>2 DEF TimesDim, Times
    <3>4. QED BY <3>1, <3>3
  <2> HIDE DEF P
  <2>3. \A i \in 0..n : i \in P
    BY <1>1, <2>1, <2>2, CountingUp
  <2>4. QED BY <2>3 DEF P
<1>5. \A i \in 0..n : f[i] # None
  <2>1. \A i \in 0..n : n - i \in 0..n /\ n - (n - i) = i
    BY <1>1
  <2>2. QED BY <1>4, <2>1
<1>6. \A i \in 1..n : /\ dims[i].fixed /\ dims[i].size >= 0
                      /\ f[i] = Times(f[i - 1], dims[i].size)
  <2>1. \A i \in 1..n : i \in 0..n
    BY <1>1
  <2>2. QED BY <1>2, <1>3, <1>5, <2>1 DEF TimesDim
<1>7. /\ Len(sizes) = n
      /\ \A i \in 1..n : sizes[i] = dims[i].size
      /\ sizes \in Seq(Int)
  BY <1>6, SizesOfFixed, FixedDimsType DEF n
<1>8. PICK g : /\ g[0] = 1
               /\ \A i \in 1..n : g[i] = TimesSize(g[i - 1], sizes[i])
               /\ Expected(sizes) = IF g[n] = None THEN UsizeMax ELSE g[n]
  <2> HIDE DEF sizes
  <2>1. QED BY <1>7, ExpectedSteps
<1>9. \A i \in 1..n : g[i] = Times(g[i - 1], dims[i].size)
  <2> HIDE DEF sizes
  <2>1. \A i \in 1..n : (IF sizes[i] > 0 THEN sizes[i] ELSE 0) = dims[i].size
    BY <1>3, <1>6, <1>7
  <2>2. QED BY <1>8, <2>1 DEF TimesSize
<1> HIDE DEF sizes
<1>10. \A i \in 0..n : g[i] = f[i]
  <2> DEFINE P == {i \in 0..n : g[i] = f[i]}
  <2>1. 0 \in P
    BY <1>1, <1>2, <1>8
  <2>2. ASSUME NEW i \in 0..(n - 1), i \in P
        PROVE  i + 1 \in P
    <3>1. i + 1 \in 1..n /\ i + 1 \in 0..n /\ (i + 1) - 1 = i
      BY <1>1
    <3>2. g[i + 1] = Times(g[i], dims[i + 1].size) /\ f[i + 1] = Times(f[i], dims[i + 1].size)
      BY <1>6, <1>9, <3>1
    <3>3. QED BY <2>2, <3>1, <3>2
  <2> HIDE DEF P
  <2>3. \A i \in 0..n : i \in P
    BY <1>1, <2>1, <2>2, CountingUp
  <2>4. QED BY <2>3 DEF P
<1>11. n \in 0..n
  BY <1>1
<1>12. Expected(sizes) = FixedLen(dims)
  BY <1>2, <1>5, <1>8, <1>10, <1>11
<1>13. QED BY <1>6, <1>12 DEF n, sizes

-----------------------------------------------------------------------------
(* Attributes.                                                             *)

Reasons == {"Tensor", "ConflictingValues", "Protobuf", "InvalidUtf8String"}

Answers == {Success(v) : v \in AttributeValue} \cup {Failure(r) : r \in Reasons}

\* Saving the value and loading the file gives it back.
Durable(value) == DecodeAttribute(EncodeAttribute(value)) = Success(value)

\* There are fourteen kinds of attribute.
LEMMA KindsAreFinite == IsFiniteSet(Kind)
<1> DEFINE Nth == [n \in 1..14 |-> <<"Float", "Int", "String", "Tensor", "Graph",
                    "SparseTensor", "TypeProto", "Floats", "Ints", "Strings", "Tensors",
                    "Graphs", "SparseTensors", "TypeProtos">>[n]]
<1>1. Nth \in [1..14 -> Kind]
  BY DEF Kind, Scalars, Messages, Lists
<1>2. ASSUME NEW k \in Kind PROVE \E n \in 1..14 : Nth[n] = k
  <2>1. /\ Nth[1] = "Float" /\ Nth[2] = "Int" /\ Nth[3] = "String" /\ Nth[4] = "Tensor"
        /\ Nth[5] = "Graph" /\ Nth[6] = "SparseTensor" /\ Nth[7] = "TypeProto"
        /\ Nth[8] = "Floats" /\ Nth[9] = "Ints" /\ Nth[10] = "Strings"
        /\ Nth[11] = "Tensors" /\ Nth[12] = "Graphs" /\ Nth[13] = "SparseTensors"
        /\ Nth[14] = "TypeProtos"
    OBVIOUS
  <2> HIDE DEF Nth
  <2> QED BY <1>2, <2>1 DEF Kind, Scalars, Messages, Lists
<1>3. ExistsSurjection(1..14, Kind)
  <2> HIDE DEF Nth
  <2> QED BY <1>1, <1>2 DEF ExistsSurjection, Surjection
<1> QED BY <1>3, FS_NatSurjection

\* Of a proto that decodes, one field alone was read, and the value is what it held,
\* made good if it was text that is not UTF-8.
LEMMA DecodedField ==
  ASSUME NEW p \in Proto, DecodeAttribute(p).outcome = "Ok"
  PROVE  \E k \in ReadKinds :
           /\ Present(p) = {k}
           /\ DecodeAttribute(p) = Success([kind |-> k, content |-> MemoryContent(k, p[k])])
           /\ p[k] = Broken => k \notin {"String", "Tensor", "Tensors"}
<1> DEFINE fields == [k \in Present(p) |-> MemoryContent(k, p[k])]
<1>1. /\ p["Tensor"] # Broken /\ p["Tensors"] # Broken
      /\ Present(p) # {}
      /\ DecodeAttribute(p) = AttributeFromFields(fields)
  BY DEF DecodeAttribute, HeldAsTensors, Failure
<1>2. DOMAIN fields = Present(p)
  OBVIOUS
<1>3. IsFiniteSet(Present(p))
  <2>1. Present(p) \subseteq Kind
    BY DEF Present, ReadKinds
  <2> QED BY <2>1, KindsAreFinite, FS_Subset
<1>4. /\ ~(Cardinality(Present(p)) > 1)
      /\ LET kind == CHOOSE k \in Present(p) : TRUE IN
         /\ ~(kind = "String" /\ fields[kind] = Broken)
         /\ AttributeFromFields(fields) = Success([kind |-> kind, content |-> fields[kind]])
  <2> HIDE DEF fields
  <2> QED BY <1>1, <1>2 DEF AttributeFromFields, Failure
<1>5. PICK k : Present(p) = {k}
  <2>1. Cardinality(Present(p)) \in Nat /\ Cardinality(Present(p)) # 0
    BY <1>1, <1>3, FS_CardinalityType, FS_EmptySet
  <2>2. Cardinality(Present(p)) = 1
    BY <1>4, <2>1
  <2> QED BY <1>3, <2>2, FS_Singleton
<1>6. /\ k \in ReadKinds
      /\ (CHOOSE x \in Present(p) : TRUE) = k
      /\ fields[k] = MemoryContent(k, p[k])
  BY <1>5 DEF Present
<1>7. AttributeFromFields(fields) = Success([kind |-> k, content |-> MemoryContent(k, p[k])])
  <2> HIDE DEF fields
  <2> QED BY <1>4, <1>6
<1>8. p[k] = Broken => k \notin {"String", "Tensor", "Tensors"}
  <2>1. k = "String" => fields[k] = p[k]
    BY <1>6 DEF MemoryContent
  <2> HIDE DEF fields
  <2> QED BY <1>1, <1>4, <1>6, <2>1
<1> HIDE DEF fields
<1> QED BY <1>1, <1>5, <1>6, <1>7, <1>8

\* A value that has content, and none that must be made good, can be loaded again.
LEMMA PlainValueIsDurable ==
  ASSUME NEW v \in AttributeValue, v.kind \in ReadKinds,
         v.content # Unset, ~SaysMore(v),
         v.content = Broken => v.kind \in {"Float", "Int"}
  PROVE  Durable(v)
<1> DEFINE p == EncodeAttribute(v)
<1>1. v = [kind |-> v.kind, content |-> v.content]
  BY DEF AttributeValue
<1>2. WireContent(v) = v.content
  BY DEF WireContent, KeptAsBytes
<1>3. p = [k \in Kind |-> IF k = v.kind THEN v.content ELSE Unset]
  BY <1>2 DEF EncodeAttribute
<1>4. Present(p) = {v.kind} /\ p[v.kind] = v.content
  BY <1>3 DEF Present, ReadKinds
<1>5. p["Tensor"] # Broken /\ p["Tensors"] # Broken
  BY <1>3 DEF Kind, Messages, Lists, Broken, Unset
<1>6. MemoryContent(v.kind, p[v.kind]) = v.content
  BY <1>4 DEF MemoryContent
<1> HIDE DEF p
<1> DEFINE fields == [k \in Present(p) |-> MemoryContent(k, p[k])]
<1>7. DecodeAttribute(p) = AttributeFromFields(fields)
  BY <1>4, <1>5 DEF DecodeAttribute, HeldAsTensors
<1>8. DOMAIN fields = {v.kind} /\ fields[v.kind] = v.content
  BY <1>4, <1>6
<1>9. Cardinality({v.kind}) = 1
  BY FS_Singleton
<1>10. (CHOOSE k \in {v.kind} : TRUE) = v.kind
  OBVIOUS
<1>11. AttributeFromFields(fields) = Success([kind |-> v.kind, content |-> v.content])
  <2> HIDE DEF fields
  <2> QED BY <1>8, <1>9, <1>10 DEF AttributeFromFields
<1> QED BY <1>1, <1>7, <1>11 DEF Durable, p

\* What a load produces is an attribute or a reason, and the attribute is durable.
LEMMA DecodingAnswers ==
  ASSUME NEW p \in Proto
  PROVE  /\ DecodeAttribute(p) \in Answers
         /\ DecodeAttribute(p).outcome = "Ok" => Durable(DecodeAttribute(p).value)
<1>1. CASE DecodeAttribute(p).outcome = "Ok"
  <2>1. PICK k \in ReadKinds :
          /\ DecodeAttribute(p) = Success([kind |-> k, content |-> MemoryContent(k, p[k])])
          /\ Present(p) = {k}
          /\ p[k] = Broken => k \notin {"String", "Tensor", "Tensors"}
    BY <1>1, DecodedField
  <2> DEFINE v == [kind |-> k, content |-> MemoryContent(k, p[k])]
  <2>2. /\ k \in Kind /\ p[k] \in Int
        /\ p[k] = Broken => k \in {"Float", "Int", "String", "Strings", "Tensor", "Tensors"}
    BY DEF Proto, ReadKinds, HeldAsTensors
  <2>3. k \in Messages \cup Lists => v.content \in MessageContent
    BY DEF Proto, MemoryContent, MessageContent, Replacement
  <2>4. /\ v.content \in Int /\ v.content # Unset
        /\ v.content = Broken => k \in {"Float", "Int"}
    <3>1. p[k] # Unset
      BY <2>1 DEF Present
    <3>2. k = "Strings" => v.content = Replacement \/ (v.content = p[k] /\ p[k] # Broken)
      BY DEF MemoryContent
    <3>3. k # "Strings" => v.content = p[k]
      BY DEF MemoryContent
    <3> HIDE DEF v
    <3> QED BY <2>1, <2>2, <3>1, <3>2, <3>3 DEF Replacement, Broken, Unset
  <2>5. v \in AttributeValue /\ v.kind \in ReadKinds /\ ~SaysMore(v)
    <3>1. ~SaysMore(v)
      BY <2>3 DEF SaysMore, HeldAsTensors, Messages, Lists, MessageContent, Broken
    <3>2. QED BY <2>4, <2>3, <3>1 DEF AttributeValue, ReadKinds
  <2>6. DecodeAttribute(p) = Success(v)
    BY <2>1
  <2> HIDE DEF v
  <2>7. Durable(v)
    <3>1. v.content = Broken => v.kind \in {"Float", "Int"}
      BY <2>4 DEF v
    <3> QED BY <2>4, <2>5, <3>1, PlainValueIsDurable
  <2>8. DecodeAttribute(p).value = v
    BY <2>6 DEF Success
  <2> QED BY <2>5, <2>6, <2>7, <2>8 DEF Answers
<1>2. CASE DecodeAttribute(p).outcome # "Ok"
  <2>1. DecodeAttribute(p) \in {Failure(r) : r \in Reasons}
    BY <1>2 DEF DecodeAttribute, AttributeFromFields, Failure, Success, Reasons
  <2> QED BY <1>2, <2>1 DEF Answers
<1> QED BY <1>1, <1>2

\* What is written to a file is a proto, whatever bytes the value was held as.
LEMMA EncodingIsProto ==
  ASSUME NEW v \in AttributeValue
  PROVE  EncodeAttribute(v) \in Proto
<1>1. WireContent(v) \in Int
  BY DEF WireContent, AttributeValue, Unset, Replacement
<1>2. WireContent(v) = Broken => v.kind \in HeldAsTensors \cup {"Float", "Int"}
  BY DEF WireContent, SaysMore, AttributeValue, Broken, Unset, Replacement
<1>3. EncodeAttribute(v) \in [Kind -> Int]
  BY <1>1 DEF EncodeAttribute, Unset
<1>4. ASSUME NEW k \in Kind, EncodeAttribute(v)[k] = Broken
      PROVE  k \in HeldAsTensors \cup {"Float", "Int"}
  BY <1>2, <1>4 DEF EncodeAttribute, Unset, Broken
<1>5. ASSUME NEW k \in Messages \cup Lists
      PROVE  EncodeAttribute(v)[k] \in MessageContent
  <2>1. v.kind \in Messages \cup Lists => WireContent(v) \in MessageContent
    BY DEF WireContent, SaysMore, AttributeValue, MessageContent, Replacement, Unset, Broken
  <2>2. EncodeAttribute(v)[k] = IF k = v.kind THEN WireContent(v) ELSE Unset
    BY DEF EncodeAttribute, Kind
  <2>3. QED BY <2>1, <2>2 DEF MessageContent, Unset
<1> QED BY <1>3, <1>4, <1>5 DEF Proto

\* A value that was loaded says what the proto said: alone of its kind, and when it is
\* written, in the same words.
LEMMA DecodedAttributeKeeps ==
  ASSUME NEW p \in Proto, DecodeAttribute(p).outcome = "Ok",
         NEW v, v = DecodeAttribute(p).value
  PROVE  /\ v \in AttributeValue /\ Durable(v) /\ DecodeAttribute(p) = Success(v)
         /\ v.kind \in ReadKinds /\ Present(p) = {v.kind}
         /\ \A k \in ReadKinds :
              MemoryContent(k, EncodeAttribute(v)[k]) = MemoryContent(k, p[k])
<1>1. PICK f \in ReadKinds :
        /\ Present(p) = {f}
        /\ DecodeAttribute(p) = Success([kind |-> f, content |-> MemoryContent(f, p[f])])
        /\ p[f] = Broken => f \notin {"String", "Tensor", "Tensors"}
  BY DecodedField
<1>2. v = [kind |-> f, content |-> MemoryContent(f, p[f])] /\ DecodeAttribute(p) = Success(v)
  BY <1>1 DEF Success
<1>3. v \in AttributeValue /\ Durable(v)
  BY <1>2, DecodingAnswers DEF Answers, Success, Failure, Reasons
<1>4. v.kind = f /\ v.content = MemoryContent(f, p[f])
  BY <1>2
<1>5. (v.content = Broken => f \notin KeptAsBytes) /\ ~SaysMore(v)
  <2>1. /\ p[f] = Broken => f \in HeldAsTensors \cup {"Float", "Int", "String", "Strings"}
        /\ f \in Messages \cup Lists => p[f] \in MessageContent
    BY DEF Proto, ReadKinds
  <2>2. v.content \in {p[f], Replacement}
    BY <1>4 DEF MemoryContent
  <2>3. v.content = Broken => f \notin KeptAsBytes
    BY <2>1, <2>2 DEF HeldAsTensors, KeptAsBytes, Broken, Replacement
  <2>4. ~SaysMore(v)
    BY <1>4, <2>1, <2>2
    DEF SaysMore, HeldAsTensors, Messages, Lists, MessageContent, Broken, Replacement
  <2>5. QED BY <2>3, <2>4
<1>6. EncodeAttribute(v) = [k \in Kind |-> IF k = f THEN v.content ELSE Unset]
  BY <1>4, <1>5 DEF EncodeAttribute, WireContent
<1>7. ASSUME NEW k \in ReadKinds
      PROVE  MemoryContent(k, EncodeAttribute(v)[k]) = MemoryContent(k, p[k])
  <2>1. k # f => p[k] = Unset
    BY <1>1 DEF Present
  <2>2. EncodeAttribute(v)[k] = IF k = f THEN v.content ELSE Unset
    BY <1>6 DEF ReadKinds
  <2>3. MemoryContent(f, MemoryContent(f, p[f])) = MemoryContent(f, p[f])
    BY DEF MemoryContent
  <2>4. QED BY <1>4, <2>1, <2>2, <2>3
<1>8. QED BY <1>1, <1>2, <1>3, <1>4, <1>7

-----------------------------------------------------------------------------
(* Nodes.                                                                  *)

\* t has an element of T at each place of s.
ByPlace(s, t, T) == t \in [DOMAIN s -> T]

\* What a sequence is turned into place by place is a sequence.
LEMMA SeqByPlace ==
  ASSUME NEW S, NEW T, NEW s \in Seq(S), NEW t, ByPlace(s, t, T)
  PROVE  t \in Seq(T) /\ Len(t) = Len(s) /\ DOMAIN t = DOMAIN s
<1>1. DOMAIN s = 1..Len(s) /\ Len(s) \in Nat
  BY LenProperties
<1>2. t \in [1..Len(s) -> T] /\ DOMAIN t = DOMAIN s
  BY <1>1 DEF ByPlace
<1>3. QED BY <1>1, <1>2, SeqDef, LenProperties

\* No text and the empty text are each other's counterpart.
LEMMA TextsKept ==
  /\ EmptyText \in Text
  /\ \A t \in MaybeText : TextInFile(t) \in Text
  /\ \A t \in Text : TextInMemory(t) \in MaybeText /\ TextInFile(TextInMemory(t)) = t
<1>1. NoText # EmptyText
  BY Zenon DEF NoText, EmptyText
<1>2. \A t : TextInFile(t) = IF t = NoText THEN EmptyText ELSE t
  BY Zenon DEF TextInFile
<1>3. \A t : TextInMemory(t) = IF t = EmptyText THEN NoText ELSE t
  BY Zenon DEF TextInMemory
<1>4. QED BY <1>1, <1>2, <1>3 DEF Text, MaybeText

\* The node that is written, field by field.
LEMMA EncodedNode ==
  ASSUME NEW n \in Node
  PROVE  EncodeNode(n) =
           [name |-> TextInFile(n.name), op |-> n.op, domain |-> n.domain,
            inputs |-> n.inputs, outputs |-> n.outputs,
            attributes |-> [i \in DOMAIN n.attributes |->
              InFileAs(n.attributes[i])]]
<1> DEFINE written == [i \in DOMAIN n.attributes |->
             InFileAs(n.attributes[i])]
           renamed == [n EXCEPT !.name = TextInFile(@)]
<1>1. renamed = [name |-> TextInFile(n.name), op |-> n.op, domain |-> n.domain,
                 inputs |-> n.inputs, outputs |-> n.outputs, attributes |-> n.attributes]
  BY DEF Node
<1>2. EncodeNode(n) = [renamed EXCEPT !.attributes = written]
  <2>1. renamed.attributes = n.attributes
    BY <1>1
  <2>2. QED BY <2>1, Zenon DEF EncodeNode
<1> HIDE DEF written, renamed
<1>3. EncodeNode(n) = [name |-> TextInFile(n.name), op |-> n.op, domain |-> n.domain,
                       inputs |-> n.inputs, outputs |-> n.outputs, attributes |-> written]
  BY <1>1, <1>2
<1>4. QED BY <1>3 DEF written

\* And the one that is read.
LEMMA DecodedNode ==
  ASSUME NEW f \in FileNode
  PROVE  DecodeNode(f) =
           [name |-> TextInMemory(f.name), op |-> f.op, domain |-> f.domain,
            inputs |-> f.inputs, outputs |-> f.outputs,
            attributes |-> [i \in DOMAIN f.attributes |->
              ReadFrom(f.attributes[i].name, DecodedAttribute(f, i).value)]]
<1> DEFINE read == [i \in DOMAIN f.attributes |->
             ReadFrom(f.attributes[i].name, DecodedAttribute(f, i).value)]
           renamed == [f EXCEPT !.name = TextInMemory(@)]
<1>1. renamed = [name |-> TextInMemory(f.name), op |-> f.op, domain |-> f.domain,
                 inputs |-> f.inputs, outputs |-> f.outputs, attributes |-> f.attributes]
  BY DEF FileNode
<1>2. DecodeNode(f) = [renamed EXCEPT !.attributes = read]
  <2>1. renamed.attributes = f.attributes
    BY <1>1
  <2>2. QED BY <2>1, Zenon DEF DecodeNode
<1> HIDE DEF read, renamed
<1>3. DecodeNode(f) = [name |-> TextInMemory(f.name), op |-> f.op, domain |-> f.domain,
                       inputs |-> f.inputs, outputs |-> f.outputs, attributes |-> read]
  BY <1>1, <1>2
<1>4. QED BY <1>3 DEF read

LEMMA InFileType ==
  ASSUME NEW a \in NodeAttribute
  PROVE  InFileAs(a) \in FileAttribute
<1>1. a.name \in Name /\ a.value \in AttributeValue /\ a.doc \in Text
  BY DEF NodeAttribute
<1>2. EncodeAttribute(a.value) \in Proto
  BY <1>1, EncodingIsProto
<1>3. QED BY <1>1, <1>2, TextsKept DEF InFileAs, FileAttribute

LEMMA ReadType ==
  ASSUME NEW name \in Name, NEW v \in AttributeValue
  PROVE  /\ ReadFrom(name, v) \in NodeAttribute
         /\ ReadFrom(name, v).name = name /\ ReadFrom(name, v).value = v
         /\ InFileAs(ReadFrom(name, v)).name = name
         /\ InFileAs(ReadFrom(name, v)).proto = EncodeAttribute(v)
<1> DEFINE r == ReadFrom(name, v)
<1>1. r = [name |-> name, value |-> v, doc |-> EmptyText]
  BY DEF ReadFrom
<1>2. r \in NodeAttribute
  BY <1>1, TextsKept DEF NodeAttribute
<1>3. r.name = name /\ r.value = v
  BY <1>1
<1> HIDE DEF r
<1>4. InFileAs(r).name = name /\ InFileAs(r).proto = EncodeAttribute(v)
  BY <1>3 DEF InFileAs
<1>5. QED BY <1>2, <1>3, <1>4 DEF r

LEMMA EncodedNodeType ==
  ASSUME NEW n \in Node
  PROVE  EncodeNode(n) \in FileNode
<1> DEFINE list == n.attributes
           written == [i \in DOMAIN list |->
                         InFileAs(list[i])]
<1>1. list \in Seq(NodeAttribute)
  BY DEF Node
<1>2. ASSUME NEW i \in DOMAIN list
      PROVE  written[i] \in FileAttribute
  <2>1. list[i] \in NodeAttribute
    BY <1>1, LenProperties, ElementOfSeq
  <2> HIDE DEF list
  <2>2. QED BY <2>1, InFileType
<1>3. written \in Seq(FileAttribute)
  <2> DEFINE S == NodeAttribute
             T == FileAttribute
  <2>1. ByPlace(list, written, T)
    BY <1>2 DEF ByPlace
  <2>2. list \in Seq(S)
    BY <1>1
  <2> HIDE DEF written, list, S, T
  <2>3. written \in Seq(T)
    BY <2>1, <2>2, SeqByPlace
  <2>4. QED BY <2>3 DEF T
<1>4. TextInFile(n.name) \in Text
  BY TextsKept DEF Node
<1> HIDE DEF written
<1>5. [name |-> TextInFile(n.name), op |-> n.op, domain |-> n.domain,
       inputs |-> n.inputs, outputs |-> n.outputs, attributes |-> written] \in FileNode
  BY <1>3, <1>4 DEF FileNode, Node
<1>6. QED BY <1>5, EncodedNode DEF written

\* A node of a file and what it is read as.
ReadAs(f, n) ==
  /\ n \in Node
  /\ n.op = f.op /\ n.domain = f.domain /\ n.inputs = f.inputs /\ n.outputs = f.outputs
  /\ n.attributes = [i \in DOMAIN f.attributes |->
                      ReadFrom(f.attributes[i].name, DecodedAttribute(f, i).value)]

\* A node of a file and the node of a file that holds the same.
Rewritten(f, again) ==
  /\ again = [f EXCEPT !.attributes = again.attributes]
  /\ DOMAIN again.attributes = DOMAIN f.attributes
  /\ \A i \in DOMAIN f.attributes :
       /\ again.attributes[i].name = f.attributes[i].name
       /\ \A k \in ReadKinds : MemoryContent(k, again.attributes[i].proto[k])
                                 = MemoryContent(k, f.attributes[i].proto[k])

\* A node that was loaded is a node, can be loaded again, and is written as the file has
\* it.
LEMMA LoadedNodeKeeps ==
  ASSUME NEW f \in FileNode, Readable(f), NEW n, n = DecodeNode(f),
         NEW again, again = EncodeNode(n)
  PROVE  ReadAs(f, n) /\ Rewritten(f, again) /\ Readable(again) /\ DecodeNode(again) = n
<1> DEFINE list == f.attributes
           places == DOMAIN list
           value == [i \in places |-> DecodedAttribute(f, i).value]
           read == [i \in places |-> ReadFrom(list[i].name, value[i])]
           written == [i \in places |->
                         InFileAs(read[i])]
<1>1. list \in Seq(FileAttribute)
  BY DEF FileNode
<1>2. \A i \in places : list[i].name \in Name /\ list[i].proto \in Proto
  <2>1. \A i \in places : list[i] \in FileAttribute
    BY <1>1, LenProperties, ElementOfSeq
  <2> HIDE DEF places, list
  <2>2. QED BY <2>1 DEF FileAttribute
<1>3. ASSUME NEW i \in places
      PROVE  /\ value[i] \in AttributeValue /\ Durable(value[i])
             /\ DecodedAttribute(f, i) = Success(value[i])
             /\ \A k \in ReadKinds : MemoryContent(k, EncodeAttribute(value[i])[k])
                                       = MemoryContent(k, list[i].proto[k])
  <2>1. /\ DecodeAttribute(list[i].proto).outcome = "Ok"
        /\ value[i] = DecodeAttribute(list[i].proto).value
        /\ DecodedAttribute(f, i) = DecodeAttribute(list[i].proto)
    BY DEF Readable, DecodedAttribute
  <2> HIDE DEF value
  <2>2. QED BY <1>2, <2>1, DecodedAttributeKeeps
<1> HIDE DEF value
<1>4. n = [name |-> TextInMemory(f.name), op |-> f.op, domain |-> f.domain,
           inputs |-> f.inputs, outputs |-> f.outputs, attributes |-> read]
  BY DecodedNode DEF value
<1>5. n \in Node
  <2> DEFINE S == FileAttribute
             T == NodeAttribute
  <2>1. \A i \in DOMAIN list : read[i] \in T
    BY <1>2, <1>3, ReadType
  <2>2. ByPlace(list, read, T) /\ list \in Seq(S)
    BY <1>1, <2>1 DEF ByPlace
  <2>3. read \in Seq(T)
    <3> HIDE DEF read, list, S, T
    <3>1. QED BY <2>2, SeqByPlace
  <2> HIDE DEF read
  <2>4. TextInMemory(f.name) \in MaybeText
    BY TextsKept DEF FileNode
  <2>5. QED BY <1>4, <2>3, <2>4 DEF Node, FileNode
<1>6. TextInFile(TextInMemory(f.name)) = f.name
  BY TextsKept DEF FileNode
<1>7. again = [name |-> f.name, op |-> f.op, domain |-> f.domain,
               inputs |-> f.inputs, outputs |-> f.outputs, attributes |-> written]
  <2>1. n.attributes = read /\ n.name = TextInMemory(f.name) /\ n.op = f.op
        /\ n.domain = f.domain /\ n.inputs = f.inputs /\ n.outputs = f.outputs
    BY <1>4
  <2>2. [i \in DOMAIN read |-> InFileAs(read[i])]
          = written
    OBVIOUS
  <2> HIDE DEF read, written
  <2>3. QED BY <1>5, <1>6, <2>1, <2>2, EncodedNode
<1>8. \A i \in places : written[i].name = list[i].name
                         /\ written[i].proto = EncodeAttribute(value[i])
  <2>1. ASSUME NEW i \in places
        PROVE  written[i].name = list[i].name /\ written[i].proto = EncodeAttribute(value[i])
    <3>1. written[i] = InFileAs(ReadFrom(list[i].name, value[i]))
      OBVIOUS
    <3> HIDE DEF written
    <3>2. list[i].name \in Name /\ value[i] \in AttributeValue
      BY <1>2, <1>3
    <3> HIDE DEF list, places
    <3>3. QED BY <3>1, <3>2, ReadType
  <2>2. QED BY <2>1
<1>9. Readable(again) /\ DecodeNode(again) = n
  <2>1. /\ again.attributes = written /\ DOMAIN written = places
        /\ \A i \in places : written[i].name = list[i].name
                             /\ written[i].proto = EncodeAttribute(value[i])
    <3>1. DOMAIN written = places
      OBVIOUS
    <3> HIDE DEF written, places, list
    <3>2. again.attributes = written
      BY <1>7
    <3>3. QED BY <1>8, <3>1, <3>2
  <2>2. \A i \in places : DecodedAttribute(again, i) = Success(value[i])
    BY <1>3, <2>1 DEF DecodedAttribute, Durable
  <2>3. \A i \in places : DecodedAttribute(again, i).outcome = "Ok"
                          /\ DecodedAttribute(again, i).value = value[i]
    BY <2>2 DEF Success
  <2>4. Readable(again)
    BY <2>1, <2>3 DEF Readable
  <2>5. DecodeNode(again) =
          [name |-> TextInMemory(f.name), op |-> f.op, domain |-> f.domain,
           inputs |-> f.inputs, outputs |-> f.outputs,
           attributes |-> [i \in DOMAIN written |->
             ReadFrom(written[i].name, DecodedAttribute(again, i).value)]]
    <3> HIDE DEF written
    <3>1. again \in FileNode
      BY <1>5, EncodedNodeType
    <3>2. QED BY <1>7, <3>1, DecodedNode
  <2>6. [i \in DOMAIN written |->
           ReadFrom(written[i].name, DecodedAttribute(again, i).value)] = read
    <3> HIDE DEF written, list
    <3>1. QED BY <2>1, <2>3
  <2> HIDE DEF written, read
  <2>7. QED BY <1>4, <2>4, <2>5, <2>6
<1>10. n.attributes = [i \in DOMAIN f.attributes |->
                       ReadFrom(f.attributes[i].name, DecodedAttribute(f, i).value)]
  BY <1>4 DEF value
<1>11. again = [f EXCEPT !.attributes = again.attributes]
  <2> HIDE DEF written
  <2>1. QED BY <1>7 DEF FileNode
<1>12. \A i \in places : /\ again.attributes[i].name = list[i].name
                         /\ again.attributes[i].proto = EncodeAttribute(value[i])
  <2> HIDE DEF written, places, list
  <2>1. again.attributes = written
    BY <1>7
  <2>2. QED BY <1>8, <2>1
<1>13. DOMAIN again.attributes = places
  BY <1>7
<1>14. n.op = f.op /\ n.domain = f.domain /\ n.inputs = f.inputs /\ n.outputs = f.outputs
  BY <1>4
<1>15. \A i \in places : \A k \in ReadKinds :
         MemoryContent(k, again.attributes[i].proto[k]) = MemoryContent(k, list[i].proto[k])
  <2> HIDE DEF list
  <2>1. QED BY <1>3, <1>12
<1>16. ReadAs(f, n)
  BY <1>5, <1>10, <1>14 DEF ReadAs
<1>17. Rewritten(f, again)
  BY <1>11, <1>12, <1>13, <1>15 DEF Rewritten
<1>18. QED BY <1>9, <1>16, <1>17

-----------------------------------------------------------------------------
(* Value types.                                                            *)

LEMMA EncodedShapeType ==
  ASSUME NEW m \in ShapeWith(ShapeDim)
  PROVE  EncodeShape(m) \in ShapeWith(WireDim)
<1>1. CASE m = Unranked
  BY <1>1 DEF EncodeShape, ShapeWith, Unranked
<1>2. CASE m \in [ranked : {TRUE}, dims : Seq(ShapeDim)]
  <2> DEFINE list == m.dims
             written == [i \in DOMAIN list |-> [value |-> list[i], denotation |-> EmptyText]]
  <2>1. m.ranked /\ list \in Seq(ShapeDim)
    BY <1>2
  <2> HIDE DEF list
  <2>2. \A i \in DOMAIN list : list[i] \in ShapeDim
    BY <2>1, LenProperties, ElementOfSeq
  <2>3. \A i \in DOMAIN list : written[i] \in WireDim
    BY <2>2, TextsKept DEF WireDim
  <2>4. ByPlace(list, written, WireDim)
    BY <2>3 DEF ByPlace
  <2> HIDE DEF written
  <2>5. written \in Seq(WireDim)
    BY <2>1, <2>4, SeqByPlace
  <2>6. EncodeShape(m) = Ranked(written)
    BY <2>1, Zenon DEF EncodeShape, written, list
  <2>7. QED BY <2>5, <2>6 DEF Ranked, ShapeWith
<1>3. QED BY <1>1, <1>2 DEF ShapeWith

\* Of a shape, the values of the dimensions are kept, and their denotations lost.
LEMMA ShapeKeeps ==
  ASSUME NEW s \in ShapeWith(WireDim), NEW m, m = DecodeShape(s), NEW w, w = EncodeShape(m)
  PROVE  /\ m \in ShapeWith(ShapeDim) /\ DecodeShape(w) = m
         /\ w.ranked = s.ranked
         /\ ~s.ranked => w = s
         /\ s.ranked => /\ w = Ranked(w.dims) /\ s = Ranked(s.dims)
                        /\ DOMAIN w.dims = DOMAIN s.dims
                        /\ \A i \in DOMAIN s.dims : w.dims[i].value = s.dims[i].value
<1>1. CASE s = Unranked
  <2>1. ~s.ranked /\ m = Unranked
    BY <1>1 DEF DecodeShape, Unranked
  <2>2. w = Unranked
    BY <2>1 DEF EncodeShape, Unranked
  <2>3. DecodeShape(w) = m
    BY <2>1, <2>2 DEF DecodeShape, Unranked
  <2>4. QED BY <1>1, <2>1, <2>2, <2>3 DEF ShapeWith
<1>2. CASE s \in [ranked : {TRUE}, dims : Seq(WireDim)]
  <2> DEFINE list == s.dims
             read == [i \in DOMAIN list |-> list[i].value]
             written == [i \in DOMAIN read |-> [value |-> read[i], denotation |-> EmptyText]]
             again == [i \in DOMAIN written |-> written[i].value]
  <2>1. s.ranked /\ s = Ranked(list) /\ list \in Seq(WireDim)
    BY <1>2 DEF Ranked
  <2>2. m = Ranked(read)
    BY <2>1, Zenon DEF DecodeShape
  <2>3. DOMAIN read = DOMAIN list /\ DOMAIN written = DOMAIN list
        /\ \A i \in DOMAIN list : written[i].value = list[i].value
    OBVIOUS
  <2>4. again = read
    OBVIOUS
  <2> HIDE DEF list, again
  <2>5. \A i \in DOMAIN list : read[i] \in ShapeDim
    <3>1. \A i \in DOMAIN list : list[i] \in WireDim
      BY <2>1, LenProperties, ElementOfSeq
    <3>2. QED BY <3>1 DEF WireDim
  <2>6. ByPlace(list, read, ShapeDim)
    BY <2>5 DEF ByPlace
  <2> HIDE DEF read, written
  <2>7. read \in Seq(ShapeDim)
    BY <2>1, <2>6, SeqByPlace
  <2>8. m.ranked /\ m.dims = read
    BY <2>2 DEF Ranked
  <2>9. w = Ranked(written)
    BY <2>8, Zenon DEF EncodeShape, written
  <2>10. w.ranked /\ w.dims = written
    BY <2>9 DEF Ranked
  <2>11. DecodeShape(w) = Ranked(again)
    BY <2>10, Zenon DEF DecodeShape, again
  <2>12. m \in ShapeWith(ShapeDim)
    BY <2>2, <2>7 DEF Ranked, ShapeWith
  <2>13. w.ranked = s.ranked
    <3>1. s.ranked = TRUE
      BY <1>2
    <3>2. w.ranked = TRUE
      BY <2>9 DEF Ranked
    <3>3. QED BY <3>1, <3>2, Zenon
  <2>14. QED
    BY <2>1, <2>2, <2>3, <2>4, <2>9, <2>10, <2>11, <2>12, <2>13 DEF list
<1>3. QED BY <1>1, <1>2 DEF ShapeWith

\* The kinds of layer.
LEMMA LayerKinds ==
  ASSUME NEW dims, NEW texts, NEW l \in LayerWith(dims, texts)
  PROVE  \/ /\ l.kind \notin LeafKinds /\ ElemsOf(l) = (IF l.kind = "Map" THEN {l.key} ELSE {})
            /\ \A d, t : l \in LayerWith(d, t)
         \/ /\ l.kind \in TensorKinds /\ l.shape \in ShapeWith(dims)
            /\ l = TensorOf(l.kind, l.elem, l.shape) /\ l.elem \in STRING
            /\ ElemsOf(l) = {l.elem}
         \/ /\ l = Opaque(l.domain, l.name) /\ l.domain \in texts /\ l.name \in texts
            /\ l.kind = "Opaque" /\ ElemsOf(l) = {}
<1>1. CASE l \in {SequenceOf, OptionalOf}
  <2>1. l.kind \in {"Sequence", "Optional"}
    BY <1>1 DEF SequenceOf, OptionalOf
  <2>2. QED BY <1>1, <2>1 DEF LayerWith, LeafKinds, TensorKinds, ElemsOf
<1>2. CASE l \in [kind : {"Map"}, key : STRING]
  BY <1>2 DEF LayerWith, LeafKinds, TensorKinds, ElemsOf
<1>3. CASE l \in [kind : TensorKinds, elem : STRING, shape : ShapeWith(dims)]
  BY <1>3 DEF ElemsOf, TensorOf
<1>4. CASE l \in [kind : {"Opaque"}, domain : texts, name : texts]
  BY <1>4 DEF ElemsOf, Opaque, TensorKinds
<1>5. QED BY <1>1, <1>2, <1>3, <1>4 DEF LayerWith

LEMMA EncodedLayerType ==
  ASSUME NEW m \in Layer
  PROVE  EncodeLayer(m) \in WireLayer
<1>1. CASE m.kind \notin LeafKinds /\ \A d, t : m \in LayerWith(d, t)
  BY <1>1 DEF EncodeLayer, LeafKinds, WireLayer
<1>2. CASE /\ m.kind \in TensorKinds /\ m.shape \in ShapeWith(ShapeDim)
           /\ m = TensorOf(m.kind, m.elem, m.shape) /\ m.elem \in STRING
  <2> DEFINE w == EncodeShape(m.shape)
  <2>1. w \in ShapeWith(WireDim)
    BY <1>2, EncodedShapeType
  <2>2. EncodeLayer(m) = TensorOf(m.kind, m.elem, w)
    BY <1>2 DEF EncodeLayer, TensorOf
  <2> HIDE DEF w
  <2>3. QED BY <1>2, <2>1, <2>2 DEF WireLayer, LayerWith, TensorOf
<1>3. CASE /\ m = Opaque(m.domain, m.name) /\ m.kind = "Opaque"
           /\ m.domain \in MaybeText /\ m.name \in MaybeText
  <2>1. TextInFile(m.domain) \in Text /\ TextInFile(m.name) \in Text
    BY <1>3, TextsKept
  <2>2. EncodeLayer(m) = Opaque(TextInFile(m.domain), TextInFile(m.name))
    BY <1>3 DEF EncodeLayer, TensorKinds
  <2>3. QED BY <2>1, <2>2 DEF WireLayer, LayerWith, Opaque
<1>4. QED BY <1>1, <1>2, <1>3, LayerKinds DEF Layer

\* Of a layer all is kept but the denotations of its dimensions.
LEMMA LayerKeeps ==
  ASSUME NEW l \in WireLayer, NEW m, m = DecodeLayer(l), NEW w, w = EncodeLayer(m)
  PROVE  /\ m \in Layer /\ DecodeLayer(w) = m
         /\ w.kind = l.kind /\ ElemsOf(w) = ElemsOf(l)
         /\ l.kind \notin TensorKinds => w = l
         /\ l.kind \in TensorKinds =>
              /\ l.shape \in ShapeWith(WireDim)
              /\ w = [l EXCEPT !.shape = EncodeShape(DecodeShape(l.shape))]
<1>1. CASE l.kind \notin LeafKinds /\ \A d, t : l \in LayerWith(d, t)
  BY <1>1 DEF EncodeLayer, DecodeLayer, LeafKinds, Layer
<1>2. CASE /\ l.kind \in TensorKinds /\ l.shape \in ShapeWith(WireDim)
           /\ l = TensorOf(l.kind, l.elem, l.shape) /\ l.elem \in STRING
           /\ ElemsOf(l) = {l.elem}
  <2> DEFINE s == DecodeShape(l.shape)
             v == EncodeShape(s)
  <2>1. s \in ShapeWith(ShapeDim) /\ DecodeShape(v) = s
    BY <1>2, ShapeKeeps
  <2>2. m = TensorOf(l.kind, l.elem, s)
    BY <1>2 DEF DecodeLayer, TensorOf
  <2> HIDE DEF s
  <2>3. m.kind = l.kind /\ m.elem = l.elem /\ m.shape = s
    BY <2>2 DEF TensorOf
  <2>4. w = TensorOf(l.kind, l.elem, v)
    BY <1>2, <2>2, <2>3 DEF EncodeLayer, TensorOf
  <2>5. w = [l EXCEPT !.shape = v]
    BY <1>2, <2>4 DEF TensorOf
  <2> HIDE DEF v
  <2>6. w.kind = l.kind /\ w.elem = l.elem /\ w.shape = v
    BY <2>4 DEF TensorOf
  <2>7. DecodeLayer(w) = m
    BY <1>2, <2>1, <2>2, <2>4, <2>6 DEF DecodeLayer, TensorOf
  <2>8. m \in Layer
    BY <1>2, <2>1, <2>2 DEF Layer, LayerWith, TensorOf
  <2>9. ElemsOf(w) = ElemsOf(l)
    BY <1>2, <2>6 DEF ElemsOf
  <2>10. QED BY <1>2, <2>5, <2>6, <2>7, <2>8, <2>9 DEF v, s
<1>3. CASE /\ l = Opaque(l.domain, l.name) /\ l.kind = "Opaque"
           /\ l.domain \in Text /\ l.name \in Text
  <2> DEFINE d == TextInMemory(l.domain)
             n == TextInMemory(l.name)
  <2>1. /\ d \in MaybeText /\ n \in MaybeText
        /\ TextInFile(d) = l.domain /\ TextInFile(n) = l.name
    BY <1>3, TextsKept
  <2>2. m = Opaque(d, n)
    BY <1>3 DEF DecodeLayer, TensorKinds
  <2> HIDE DEF d, n
  <2>3. m \in Layer
    BY <2>1, <2>2 DEF Layer, LayerWith, Opaque
  <2>4. m.kind = "Opaque" /\ m.domain = d /\ m.name = n
    BY <2>2 DEF Opaque
  <2>5. w = l
    BY <1>3, <2>1, <2>4 DEF EncodeLayer, TensorKinds
  <2>6. QED BY <1>3, <2>3, <2>5 DEF TensorKinds
<1>4. QED BY <1>1, <1>2, <1>3, LayerKinds DEF WireLayer

LEMMA EncodedTypeType ==
  ASSUME NEW v \in ValueType
  PROVE  EncodeValueType(v) \in TypeProto
<1> DEFINE T == [value : WireLayer, denotation : Text]
           w == EncodeValueType(v)
<1>1. v \in Seq(Layer) /\ (\A i \in DOMAIN v : v[i] \in Layer)
  BY LenProperties, ElementOfSeq DEF ValueType
<1>2. \A i \in DOMAIN v : EncodeLayer(v[i]) \in WireLayer
  BY <1>1, EncodedLayerType
<1>3. w = [i \in DOMAIN v |-> [value |-> EncodeLayer(v[i]), denotation |-> EmptyText]]
  BY DEF EncodeValueType
<1>4. \A i \in DOMAIN v : [value |-> EncodeLayer(v[i]), denotation |-> EmptyText] \in T
  BY <1>2, TextsKept
<1> HIDE DEF T, w
<1>5. ByPlace(v, w, T)
  BY <1>3, <1>4 DEF ByPlace
<1>6. QED BY <1>1, <1>5, SeqByPlace DEF T, w, TypeProto

\* The layers of a type on the wire.
LayersOf(proto) == [i \in DOMAIN proto |-> proto[i].value]

LEMMA LayersOfType ==
  ASSUME NEW t \in TypeProto
  PROVE  /\ LayersOf(t) \in Seq(WireLayer) /\ Len(LayersOf(t)) = Len(t)
         /\ DOMAIN LayersOf(t) = DOMAIN t /\ DOMAIN t = 1..Len(t) /\ Len(t) \in Nat
         /\ \A i \in DOMAIN t : t[i].value \in WireLayer /\ LayersOf(t)[i] = t[i].value
<1> DEFINE S == [value : WireLayer, denotation : Text]
           layers == LayersOf(t)
<1>1. t \in Seq(S)
  BY DEF TypeProto
<1>2. \A i \in DOMAIN t : t[i] \in S
  <2> HIDE DEF S
  <2>1. QED BY <1>1, LenProperties, ElementOfSeq
<1>3. \A i \in DOMAIN t : t[i].value \in WireLayer
  BY <1>2
<1>4. ByPlace(t, layers, WireLayer)
  BY <1>3 DEF ByPlace, LayersOf
<1>5. \A i \in DOMAIN t : layers[i] = t[i].value
  BY DEF LayersOf
<1> HIDE DEF S, layers
<1>6. QED BY <1>1, <1>3, <1>4, <1>5, SeqByPlace, LenProperties DEF layers

\* Of a type all is kept but the denotations, and it can be read again.
LEMMA TypeKeeps ==
  ASSUME NEW t \in TypeProto, ReadableType(t),
         NEW v, v = DecodeValueType(t), NEW w, w = EncodeValueType(v)
  PROVE  /\ v \in ValueType /\ ReadableType(w) /\ DecodeValueType(w) = v
         /\ DOMAIN w = DOMAIN t
         /\ \A i \in DOMAIN t : w[i].value = EncodeLayer(DecodeLayer(t[i].value))
<1> DEFINE places == DOMAIN t
           S == [value : WireLayer, denotation : Text]
<1>1. t \in Seq(S) /\ (\A i \in places : t[i].value \in WireLayer)
  BY LayersOfType DEF TypeProto
<1>2. v = [i \in places |-> DecodeLayer(t[i].value)]
  BY DEF DecodeValueType
<1>3. \A i \in places :
        LET l == t[i].value
            a == EncodeLayer(DecodeLayer(l))
        IN
        /\ DecodeLayer(l) \in Layer /\ DecodeLayer(a) = DecodeLayer(l)
        /\ a.kind = l.kind /\ ElemsOf(a) = ElemsOf(l)
  BY <1>1, LayerKeeps
<1>4. v \in ValueType
  <2>1. ByPlace(t, v, Layer)
    BY <1>2, <1>3 DEF ByPlace
  <2> HIDE DEF S
  <2>2. QED BY <1>1, <2>1, SeqByPlace DEF ValueType
<1>5. w = [i \in places |-> [value |-> EncodeLayer(DecodeLayer(t[i].value)), denotation |-> EmptyText]]
  BY <1>2 DEF EncodeValueType
<1>6. /\ DOMAIN w = places
      /\ \A i \in places : w[i].value = EncodeLayer(DecodeLayer(t[i].value))
  BY <1>5
<1>7. DecodeValueType(w) = v
  <2>1. DecodeValueType(w) = [i \in places |-> DecodeLayer(w[i].value)]
    BY <1>6, Zenon DEF DecodeValueType
  <2> HIDE DEF places
  <2>2. QED BY <1>2, <1>3, <1>6, <2>1
<1>8. w \in TypeProto
  BY <1>4, EncodedTypeType
<1>9. ReadableType(w)
  <2>1. /\ LayersOf(t) # <<>>
        /\ \A i \in DOMAIN LayersOf(t) :
             LayersOf(t)[i].kind \in LeafKinds <=> i = Len(LayersOf(t))
        /\ \A i \in places : \A e \in ElemsOf(t[i].value) : Known(e)
    BY DEF ReadableType, Complete, LayersOf
  <2>2. Len(w) = Len(t) /\ Len(t) \in Nat
    BY <1>6, <1>8, LayersOfType
  <2>3. LayersOf(w) # <<>>
    <3>1. Len(LayersOf(t)) # 0
      BY <2>1, LayersOfType, EmptySeq
    <3>2. Len(LayersOf(w)) # 0
      BY <1>8, <2>2, <3>1, LayersOfType
    <3>3. QED BY <3>2
  <2>4. \A i \in DOMAIN LayersOf(w) :
          LayersOf(w)[i].kind \in LeafKinds <=> i = Len(LayersOf(w))
    BY <1>3, <1>6, <1>8, <2>1, <2>2, LayersOfType
  <2>5. \A i \in DOMAIN w : \A e \in ElemsOf(w[i].value) : Known(e)
    BY <1>3, <1>6, <2>1
  <2>6. QED BY <2>3, <2>4, <2>5, Zenon DEF ReadableType, Complete, LayersOf
<1>10. QED BY <1>4, <1>6, <1>7, <1>9

-----------------------------------------------------------------------------
(* Typed operators.                                                        *)

\* What the attributes of typed operators are.
TypedKinds == {"Float", "Floats", "Int", "Ints", "String", "Strings", "Tensor"}

OfTypedKinds(schema) == \A a \in DOMAIN schema.attrs : schema.attrs[a] \in TypedKinds

LEMMA SchemasAreTyped ==
  ASSUME NEW op \in DOMAIN Schemas
  PROVE  OfTypedKinds(Schemas[op])
<1>1. OfTypedKinds(Scaler) /\ OfTypedKinds(Imputer) /\ OfTypedKinds(Normalizer)
  BY DEF OfTypedKinds, TypedKinds, Op, Scaler, Imputer, Normalizer
<1>2. OfTypedKinds(LabelEncoder)
  BY DEF OfTypedKinds, TypedKinds, Op, LabelEncoder
<1>3. OfTypedKinds(OneHotEncoder) /\ OfTypedKinds(DictVectorizer) /\ OfTypedKinds(FeatureVectorizer)
  BY DEF OfTypedKinds, TypedKinds, Op, OneHotEncoder, DictVectorizer, FeatureVectorizer
<1>4. OfTypedKinds(LinearClassifier)
  BY DEF OfTypedKinds, TypedKinds, Op, LinearClassifier, ClassLabels, Joined
<1>5. OfTypedKinds(LinearRegressor)
  BY DEF OfTypedKinds, TypedKinds, Op, LinearRegressor
<1>6. OfTypedKinds(SvmClassifier)
  BY DEF OfTypedKinds, TypedKinds, Op, SvmClassifier, SvmCommon, ClassLabels, Joined
<1>7. OfTypedKinds(SvmRegressor)
  BY DEF OfTypedKinds, TypedKinds, Op, SvmRegressor, SvmCommon, Joined
<1>8. OfTypedKinds(TreeEnsembleClassifier)
  BY DEF OfTypedKinds, TypedKinds, Op, TreeEnsembleClassifier, TreeNodes, Joined
<1>9. OfTypedKinds(TreeEnsembleRegressor)
  BY DEF OfTypedKinds, TypedKinds, Op, TreeEnsembleRegressor, TreeNodes, Joined
<1>10. OfTypedKinds(ZipMap) /\ OfTypedKinds(Cast) /\ OfTypedKinds(Reshape)
  BY DEF OfTypedKinds, TypedKinds, Op, ZipMap, Cast, Reshape
<1>11. OfTypedKinds(Concat) /\ OfTypedKinds(Gather) /\ OfTypedKinds(Identity)
  BY DEF OfTypedKinds, TypedKinds, Op, Concat, Gather, Identity
<1>12. QED
  BY <1>1, <1>2, <1>3, <1>4, <1>5, <1>6, <1>7, <1>8, <1>9, <1>10, <1>11 DEF Schemas

\* An i32 is cut down to itself.
LEMMA NarrowKeeps ==
  ASSUME NEW n \in I32
  PROVE  AsI32(n) = n
<1> DEFINE half == I32Size \div 2
           m == n + half
<1>1. I32Size \in Nat /\ I32Size > 0 /\ half \in Nat /\ 2 * half <= I32Size
  BY WidthAssumption
<1> HIDE DEF half
<1>2. n \in Int /\ m \in 0..(I32Size - 1)
  BY <1>1 DEF I32, half
<1> HIDE DEF m
<1>3. m % I32Size = m
  BY <1>1, <1>2
<1>4. QED BY <1>1, <1>2, <1>3 DEF AsI32, m, half

\* A node with as many names as attributes has no name twice.
LEMMA NamedOnce ==
  ASSUME NEW n \in Node, Cardinality(NamesOf(n)) = Len(n.attributes),
         NEW i \in DOMAIN n.attributes, NEW j \in DOMAIN n.attributes,
         n.attributes[i].name = n.attributes[j].name
  PROVE  i = j
<1> DEFINE places == 1..Len(n.attributes)
           name == [k \in places |-> n.attributes[k].name]
<1>1. DOMAIN n.attributes = places /\ Len(n.attributes) \in Nat
  BY LenProperties DEF Node
<1>2. name \in Surjection(places, NamesOf(n))
  BY <1>1 DEF Surjection, NamesOf
<1>3. IsFiniteSet(places) /\ Cardinality(places) = Len(n.attributes)
  <2>1. ASSUME NEW m \in Nat
        PROVE  IsFiniteSet(1..m) /\ Cardinality(1..m) = m
    <3>1. 1 \in Int /\ m \in Int
      OBVIOUS
    <3>2. /\ IsFiniteSet(1..m)
          /\ Cardinality(1..m) = IF 1 > m THEN 0 ELSE m - 1 + 1
      BY <3>1, FS_Interval, Zenon
    <3>3. QED BY <3>2
  <2>2. QED BY <1>1, <2>1
<1>4. name[i] = name[j]
  BY <1>1
<1> HIDE DEF places, name
<1>5. name \in Injection(places, NamesOf(n))
  <2>1. Cardinality(NamesOf(n)) = Cardinality(places)
    BY <1>3
  <2>2. QED BY <1>2, <1>3, <2>1, FS_Surjection, Zenon
<1>6. QED BY <1>1, <1>4, <1>5 DEF Injection, IsInjective

\* A recognised node has attributes that are typed, and are the fields of its struct.
LEMMA RecognisedFields ==
  ASSUME NEW n \in Node, Recognised(n), NEW i \in DOMAIN n.attributes,
         NEW a, a = n.attributes[i]
  PROVE  /\ a.value.kind \in TypedKinds
         /\ (a.name = "to" => a.value.content \in I32) =>
              /\ a.name \in DOMAIN StructOf(n).fields
              /\ StructOf(n).fields[a.name] = a.value.content
<1> DEFINE schema == Schemas[n.op]
<1>1. n.op \in DOMAIN Schemas /\ TableRead(schema, n)
  BY Zenon DEF Recognised
<1>2. OfTypedKinds(schema)
  BY <1>1, SchemasAreTyped
<1> HIDE DEF schema
<1>3. /\ Cardinality(NamesOf(n)) = Len(n.attributes)
      /\ a.name \in DOMAIN schema.attrs /\ a.value.kind = schema.attrs[a.name]
  BY <1>1 DEF TableRead
<1>4. a.name \in NamesOf(n)
  BY DEF NamesOf
<1>5. ContentOf(n, a.name) = a.value.content
  <2> DEFINE j == CHOOSE k \in DOMAIN n.attributes : n.attributes[k].name = a.name
  <2>1. j \in DOMAIN n.attributes /\ n.attributes[j].name = a.name
    OBVIOUS
  <2>2. ContentOf(n, a.name) = n.attributes[j].value.content
    BY DEF ContentOf
  <2> HIDE DEF j
  <2>3. j = i
    BY <1>3, <2>1, NamedOnce
  <2>4. QED BY <2>2, <2>3
<1>6. /\ a.name \in DOMAIN FieldsRead(schema, n)
      /\ FieldsRead(schema, n)[a.name] = IF a.name = "to" THEN AsI32(a.value.content)
                                         ELSE a.value.content
  BY <1>3, <1>4, <1>5 DEF FieldsRead
<1>7. StructOf(n).fields = FieldsRead(schema, n)
  BY Zenon DEF StructOf, schema
<1>8. QED BY <1>2, <1>3, <1>6, <1>7, NarrowKeeps DEF OfTypedKinds

=============================================================================
