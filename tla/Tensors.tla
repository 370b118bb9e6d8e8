------------------------------- MODULE Tensors -------------------------------
(***************************************************************************)
(* Tensors in memory (src/src/ir/tensor.rs) and on the wire, and the two   *)
(* conversions between them, encode_tensor and decode_tensor               *)
(* (src/src/proto/codec.rs); and how initializer() of the builder counts   *)
(* the elements of one (src/src/export.rs).                                *)
(*                                                                         *)
(* Of data only the amount is kept: elements of an array of the element's  *)
(* own type, strings, or raw bytes. The values of elements are the subject *)
(* of NumericCast; their byte order is left out.                           *)
(***************************************************************************)
EXTENDS Integers, Sequences

CONSTANT UsizeMax    \* the largest usize

ASSUME UsizeAssumption == UsizeMax \in Nat

-----------------------------------------------------------------------------
(* Element types.                                                          *)

\* Those whose typed array is compared with the shape, and what array that is.
CheckedArray ==
  [Float |-> "float_data", Double |-> "double_data", Complex64 |-> "float_data",
   Complex128 |-> "double_data", Int64 |-> "int64_data", Uint32 |-> "uint64_data",
   Uint64 |-> "uint64_data"]

\* An element is two numbers, and the codec counts the numbers.
ComplexTypes == {"Complex64", "Complex128"}

\* Those carried in int32_data, whose length nobody compares.
SmallTypes == {"Int8", "Int16", "Int32", "Uint8", "Uint16", "Bool", "Float16", "Bfloat16"}

Float8Types ==
  {"Float8e4m3fn", "Float8e4m3fnuz", "Float8e5m2", "Float8e5m2fnuz", "Float8e8m0"}

\* Several to a byte.
PackedTypes == {"Uint4", "Int4", "Float4e2m1", "Uint2", "Int2"}

ElemType ==
  DOMAIN CheckedArray \cup SmallTypes \cup Float8Types \cup PackedTypes
    \cup {"String", "Undefined"}

Arrays == {"float_data", "double_data", "int64_data", "uint64_data", "int32_data"}

\* The array encode_tensor_data fills and decode_tensor_data reads.
ArrayOf(elem) ==
  IF elem \in DOMAIN CheckedArray THEN CheckedArray[elem] ELSE "int32_data"

\* raw_elem_width: a complex number counts as its parts.
RawWidth(elem) ==
  IF elem \in {"Float", "Int32", "Uint32", "Complex64"} THEN 4
  ELSE IF elem \in {"Double", "Int64", "Uint64", "Complex128"} THEN 8
  ELSE IF elem \in {"Int16", "Uint16", "Float16", "Bfloat16"} THEN 2
  ELSE 1

-----------------------------------------------------------------------------
(* Tensors in memory and on the wire.                                      *)

\* A dimension: fixed (whatever its sign), or a parameter or unknown.
Dim == [fixed : BOOLEAN, size : Int]

\* TensorData: the form of the data and how much of it; raw data counts bytes.
Data == [form : {"array", "strings", "raw"}, count : Nat]

Ok(tensor) == [outcome |-> "Ok", tensor |-> tensor]
Failed(reason) == [outcome |-> reason]

Inline(elem, dims, data) == [elem |-> elem, dims |-> dims, inline |-> TRUE, data |-> data]

External(elem, dims, reference) ==
  [elem |-> elem, dims |-> dims, inline |-> FALSE, reference |-> reference]

\* A reference to external data; its location is usable, or it is empty, absolute or
\* leads upwards. None: no such entry.
None == -1
Reference == [location : {"file", "unusable"}, offset : Nat \cup {None}, length : Nat \cup {None}]

\* A proto carries nothing but what the record says.
NoReference == [given |-> FALSE]

Tensor ==
       [elem : ElemType, dims : Seq(Dim), inline : {TRUE}, data : Data]
  \cup [elem : ElemType, dims : Seq(Dim), inline : {FALSE}, reference : Reference]

\* What a TensorProto can be; its element type may be a number that is none. unread is
\* what decode_tensor does not look at: its metadata, its segment, entries of a reference
\* under other keys.
IsTensorProto(proto) ==
  /\ proto.dims \in Seq(Int) /\ proto.unread \in Nat
  /\ proto.raw \in Nat /\ proto.strings \in Nat /\ proto.arrays \in [Arrays -> Nat]
  /\ proto.reference.given /\ proto.reference.valid => proto.reference.to \in Reference

NothingUnread == 0

\* The sizes of the fixed dimensions.
FixedDims(dims) ==
  LET sizes[i \in 0..Len(dims)] ==
        IF i = 0 THEN <<>>
        ELSE IF dims[i].fixed THEN Append(sizes[i - 1], dims[i].size)
        ELSE sizes[i - 1]
  IN sizes[Len(dims)]

\* encode_tensor, a data array at a time; dimensions that are not fixed are left out.
EncodeTensor(tensor) ==
  LET Amount(form) == IF tensor.inline /\ tensor.data.form = form THEN tensor.data.count ELSE 0
  IN
  [elem |-> tensor.elem, dims |-> FixedDims(tensor.dims),
   raw |-> Amount("raw"), strings |-> Amount("strings"),
   arrays |-> [a \in Arrays |-> IF a = ArrayOf(tensor.elem) THEN Amount("array") ELSE 0],
   reference |-> IF tensor.inline THEN NoReference
                 ELSE [given |-> TRUE, valid |-> TRUE, to |-> tensor.reference],
   unread |-> NothingUnread]

\* checked_mul: none once the product is more than a usize.
Times(count, size) ==
  IF count = None \/ count * size > UsizeMax THEN None ELSE count * size

TimesSize(count, size) == Times(count, IF size > 0 THEN size ELSE 0)

\* How many elements the dimensions call for: negative ones count as 0, and a product
\* that overflows on the way is as large as can be.
Expected(dims) ==
  LET product[i \in 0..Len(dims)] ==
        IF i = 0 THEN 1 ELSE TimesSize(product[i - 1], dims[i])
  IN IF product[Len(dims)] = None THEN UsizeMax ELSE product[Len(dims)]

\* Mutant of Fits: a tensor with fewer elements than its shape passes.
FitsFewer(count, dims) == dims = <<>> \/ count <= Expected(dims)

\* check_len: without dimensions anything will do.
Fits(count, dims) == dims = <<>> \/ count = Expected(dims)

-----------------------------------------------------------------------------
(* decode_tensor. Each way through gives the data, or why there is none.   *)

Found(form, count) == [outcome |-> "Ok", data |-> [form |-> form, count |-> count]]

\* decode_raw_data: eight-bit floats, strings and packed elements stay bytes.
DecodeRawData(elem, bytes) ==
  IF elem \in PackedTypes \cup {"Undefined"} THEN Found("raw", bytes)
  ELSE IF bytes % RawWidth(elem) # 0 THEN Failed("TensorSizeMismatch")
  ELSE IF elem \in Float8Types \cup {"String"} THEN Found("raw", bytes)
  ELSE Found("array", bytes \div RawWidth(elem))

\* Mutant of FitsShape: what came as raw bytes is not compared.
FitsShapeUnchecked(data, dims) == TRUE

\* The count of raw bytes is compared with no shape.
FitsShape(data, dims) == data.form = "raw" \/ Fits(data.count, dims)

DecodeRaw(proto) ==
  LET found == DecodeRawData(proto.elem, proto.raw) IN
  IF proto.elem = "String" THEN Failed("TensorDataMismatch")
  ELSE IF found.outcome = "Ok" /\ ~FitsShape(found.data, proto.dims)
  THEN Failed("TensorSizeMismatch")
  ELSE found

DecodeStrings(proto) ==
  IF proto.elem # "String" THEN Failed("TensorDataMismatch")
  ELSE IF ~Fits(proto.strings, proto.dims) THEN Failed("TensorSizeMismatch")
  ELSE Found("strings", proto.strings)

\* What is in int32_data is taken as it is, however much there is.
DecodeArray(proto) ==
  LET count == proto.arrays[ArrayOf(proto.elem)] IN
  IF proto.elem \in {"String", "Undefined"} THEN Failed("TensorDataMismatch")
  ELSE IF proto.elem \in DOMAIN CheckedArray /\ ~Fits(count, proto.dims)
  THEN Failed("TensorSizeMismatch")
  ELSE Found("array", count)

\* Raw bytes go before strings, strings before the arrays.
DecodeData(proto) ==
  IF proto.raw > 0 THEN DecodeRaw(proto)
  ELSE IF proto.strings > 0 THEN DecodeStrings(proto)
  ELSE DecodeArray(proto)

Fixed(dims) == [i \in DOMAIN dims |-> [fixed |-> TRUE, size |-> dims[i]]]

\* Mutant of Known: every number is taken for an element type.
KnownAny(elem) == elem # "Int2"

\* from_disc: Int2 is missing from it.
Known(elem) == elem \in ElemType \ {"Int2"}

\* A reference goes before all data; valid: it has a location, and its numbers parse.
DecodeTensor(proto) ==
  IF ~Known(proto.elem) THEN Failed("TensorDataMismatch")
  ELSE IF proto.reference.given THEN
    IF proto.reference.valid
    THEN Ok(External(proto.elem, Fixed(proto.dims), proto.reference.to))
    ELSE Failed("InvalidExternalData")
  ELSE LET found == DecodeData(proto) IN
    IF found.outcome = "Ok" THEN Ok(Inline(proto.elem, Fixed(proto.dims), found.data)) ELSE found

-----------------------------------------------------------------------------
(* What initializer() of the builder asks of a tensor before it takes it.  *)

\* Scalar: the element types a vector of Rust numbers makes a tensor of.
ScalarTypes ==
  {"Float", "Double", "Int8", "Int16", "Int32", "Int64",
   "Uint8", "Uint16", "Uint32", "Uint64", "Bool"}

TimesDim(count, dim) ==
  IF ~dim.fixed \/ dim.size < 0 THEN None ELSE Times(count, dim.size)

\* fixed_len: none when a dimension is not fixed, or negative, or when the product
\* overflows on the way. (The decoder takes the last two otherwise: see Expected.)
FixedLen(dims) ==
  LET product[i \in 0..Len(dims)] ==
        IF i = 0 THEN 1 ELSE TimesDim(product[i - 1], dims[i])
  IN product[Len(dims)]

\* Mutant of Accepted: too little data passes.
AcceptedShort(dims, count) == FixedLen(dims) = None \/ count <= FixedLen(dims)

\* The data is as long as the dimensions say, when they say it.
Accepted(dims, count) == FixedLen(dims) \in {None, count}

=============================================================================
