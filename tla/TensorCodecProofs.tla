-------------------------- MODULE TensorCodecProofs --------------------------
(***************************************************************************)
(* What becomes of a tensor that is saved, loaded and resolved, for any    *)
(* tensors programs build and other producers write, and any sizes the     *)
(* external file takes.                                                    *)
(***************************************************************************)
EXTENDS TensorCodec, CodecLemmas

\* The file is what was last saved.
WireIsSaved ==
  saved.origin # "nowhere" => wire = EncodeTensor(saved.tensor)

\* What is known of a tensor by where it comes from.
KnownBy(from, t) ==
  /\ from = "loaded" => TensorIsDurable(t)
  /\ from = "initializer" => t \in Initializers

Provenance ==
  /\ tensor.outcome = "Ok" => KnownBy(origin, tensor.tensor)
  /\ saved.origin # "nowhere" => KnownBy(saved.origin, saved.tensor)

\* What read_external is about to read was within the file, and is what it was told to.
ReadingIsAnnounced ==
  ~Idle =>
    LET reference == tensor.tensor.reference IN
    /\ reading.offset = OffsetOf(reference)
    /\ reading.offset + reading.length <= reading.size
    /\ reference.length \in {None, reading.length}

Inv == TypeOK /\ WireIsSaved /\ Provenance /\ ReadingIsAnnounced

-----------------------------------------------------------------------------
(* The parts of the steps.                                                 *)

\* The data of a tensor as its bytes are taken out of a file.
LEMMA RawDataFound ==
  ASSUME NEW elem, NEW bytes \in Nat, DecodeRawData(elem, bytes).outcome = "Ok"
  PROVE  /\ DecodeRawData(elem, bytes).data \in Data
         /\ \A dims : BytesOf(Inline(elem, dims, DecodeRawData(elem, bytes).data)) = bytes
<1> DEFINE w == RawWidth(elem)
<1>1. w \in {1, 2, 4, 8}
  BY DEF RawWidth
<1>2. bytes \div w \in Nat
  BY <1>1
<1>3. bytes % w = 0 => (bytes \div w) * w = bytes
  <2>1. CASE w = 1
    BY <2>1
  <2>2. CASE w = 2
    BY <2>2
  <2>3. CASE w = 4
    BY <2>3
  <2>4. CASE w = 8
    BY <2>4
  <2>5. QED BY <1>1, <2>1, <2>2, <2>3, <2>4
<1> HIDE DEF w
<1> DEFINE found == DecodeRawData(elem, bytes)
<1>4. \/ found = Found("raw", bytes)
      \/ found = Found("array", bytes \div w) /\ bytes % w = 0
  BY DEF DecodeRawData, Failed, w
<1> HIDE DEF found
<1>5. CASE found = Found("raw", bytes)
  <2>1. found.data = [form |-> "raw", count |-> bytes]
    BY <1>5 DEF Found
  <2>2. QED BY <2>1 DEF Data, BytesOf, Inline, found
<1>6. CASE found = Found("array", bytes \div w) /\ bytes % w = 0
  <2> DEFINE n == bytes \div w
  <2>1. n \in Nat /\ n * w = bytes
    BY <1>2, <1>3, <1>6
  <2>2. found.data = [form |-> "array", count |-> n]
    BY <1>6 DEF Found
  <2> HIDE DEF n
  <2>3. QED BY <2>1, <2>2 DEF Data, BytesOf, Inline, found, w
<1>7. QED BY <1>4, <1>5, <1>6

\* Reading the external file makes a tensor of the reference.
LEMMA ResolvedType ==
  ASSUME Inv, Read, origin' = "resolved", tensor' # tensor
  PROVE  /\ tensor'.tensor \in Tensor /\ tensor' = Ok(tensor'.tensor)
         /\ BytesOf(tensor'.tensor) = reading.length
<1> DEFINE t == tensor.tensor
           found == DecodeRawData(t.elem, reading.length)
           resolved == Inline(t.elem, t.dims, found.data)
<1>1. t \in Tensor /\ reading.length \in Nat
  BY DEF Inv, TypeOK, Read
<1>2. t.elem \in ElemType /\ t.dims \in Seq(Dim)
  BY <1>1 DEF Tensor
<1>3. found.outcome = "Ok" /\ tensor' = Ok(resolved)
  BY DEF Read
<1>4. found.data \in Data /\ BytesOf(resolved) = reading.length
  BY <1>1, <1>3, RawDataFound
<1> HIDE DEF found
<1>5. resolved \in Tensor
  BY <1>2, <1>4 DEF Tensor, Inline
<1> HIDE DEF resolved
<1>6. QED BY <1>3, <1>4, <1>5 DEF Ok

-----------------------------------------------------------------------------
(* The invariant.                                                          *)

LEMMA Initially == Init => Inv
<1> SUFFICES ASSUME Init
             PROVE  Inv
  OBVIOUS
<1>1. TypeOK
  BY TensorAssumption DEF Init, TypeOK, Initializers, Ok, NotSaved, Idle
<1>2. WireIsSaved /\ ReadingIsAnnounced
  BY DEF Init, WireIsSaved, ReadingIsAnnounced, NotSaved, Idle
<1>3. Provenance
  BY DEF Init, Provenance, KnownBy, NotSaved, Ok
<1>4. QED BY <1>1, <1>2, <1>3 DEF Inv

LEMMA SaveKeeps ==
  ASSUME Inv, Save
  PROVE  Inv'
<1> DEFINE t == tensor.tensor
<1>1. /\ t \in Tensor /\ tensor.outcome = "Ok"
      /\ wire' = EncodeTensor(t) /\ saved' = [origin |-> origin, tensor |-> t]
      /\ UNCHANGED <<tensor, origin, fileSize, reading>>
      /\ Idle /\ Idle'
  BY DEF Inv, TypeOK, Save, Idle
<1>2. TypeOK'
  BY <1>1, EncodedTensorType DEF Inv, TypeOK
<1>3. WireIsSaved' /\ ReadingIsAnnounced'
  BY <1>1 DEF WireIsSaved, ReadingIsAnnounced
<1>4. Provenance'
  BY <1>1 DEF Inv, Provenance, KnownBy
<1>5. QED BY <1>2, <1>3, <1>4 DEF Inv

LEMMA LoadKeeps ==
  ASSUME Inv, Load
  PROVE  Inv'
<1>1. /\ tensor' = DecodeTensor(wire) /\ origin' = "loaded"
      /\ UNCHANGED <<wire, saved, fileSize, reading>>
      /\ Idle /\ Idle'
  BY DEF Load, Idle
<1>2. tensor'.outcome = "Ok" => /\ tensor' = Ok(tensor'.tensor) /\ tensor'.tensor \in Tensor
                                /\ TensorIsDurable(tensor'.tensor)
  BY <1>1, LoadedTensorIsDurable DEF Inv, TypeOK
<1>3. TypeOK'
  BY <1>1, <1>2 DEF Inv, TypeOK
<1>4. WireIsSaved' /\ ReadingIsAnnounced'
  BY <1>1 DEF Inv, WireIsSaved, ReadingIsAnnounced
<1>5. Provenance'
  BY <1>1, <1>2 DEF Inv, Provenance, KnownBy
<1>6. QED BY <1>3, <1>4, <1>5 DEF Inv

LEMMA LookUpKeeps ==
  ASSUME Inv, LookUp
  PROVE  Inv'
<1> DEFINE reference == tensor.tensor.reference
           offset == OffsetOf(reference)
           length == IF reference.length = None THEN fileSize - offset ELSE reference.length
<1>1. /\ tensor.outcome = "Ok" /\ ~tensor.tensor.inline
      /\ offset <= fileSize /\ length <= fileSize - offset
      /\ reading' = [offset |-> offset, size |-> fileSize, length |-> length]
      /\ UNCHANGED <<tensor, origin, wire, saved, fileSize>>
  BY DEF LookUp
<1>2. reference \in Reference /\ fileSize \in Nat
  BY <1>1 DEF Inv, TypeOK, Tensor
<1>3. offset \in Nat
  BY <1>2 DEF OffsetOf, Reference, None
<1>4. length \in Nat
  BY <1>1, <1>2, <1>3 DEF Reference, None
<1>5. offset + length <= fileSize /\ reference.length \in {None, length}
  BY <1>1, <1>2, <1>3, <1>4
<1> HIDE DEF offset, length
<1>6. /\ reading' \in [offset : Nat, size : Nat, length : Nat]
      /\ reading'.offset = offset /\ reading'.size = fileSize /\ reading'.length = length
  BY <1>1, <1>2, <1>3, <1>4
<1>7. TypeOK'
  BY <1>1, <1>6 DEF Inv, TypeOK
<1>8. ReadingIsAnnounced'
  BY <1>1, <1>5, <1>6 DEF ReadingIsAnnounced, offset
<1>9. WireIsSaved' /\ Provenance'
  BY <1>1 DEF Inv, WireIsSaved, Provenance, KnownBy
<1>10. QED BY <1>7, <1>8, <1>9 DEF Inv

LEMMA ReadKeeps ==
  ASSUME Inv, Read
  PROVE  Inv'
<1>1. /\ ~Idle /\ Idle'
      /\ \/ UNCHANGED <<tensor, origin>>
         \/ origin' = "resolved"
      /\ UNCHANGED <<wire, saved, fileSize>>
  BY DEF Read, Idle
<1>2. tensor' # tensor => origin' = "resolved"
  BY <1>1
<1>3. tensor'.outcome = "Ok" => tensor' = Ok(tensor'.tensor) /\ tensor'.tensor \in Tensor
  <2>1. CASE tensor' = tensor
    BY <2>1 DEF Inv, TypeOK
  <2>2. CASE tensor' # tensor
    BY <1>2, <2>2, ResolvedType
  <2>3. QED BY <2>1, <2>2
<1>4. TypeOK'
  BY <1>1, <1>3 DEF Inv, TypeOK
<1>5. WireIsSaved' /\ ReadingIsAnnounced'
  BY <1>1 DEF Inv, WireIsSaved, ReadingIsAnnounced
<1>6. Provenance'
  <2>1. KnownBy(saved.origin, saved.tensor)' <=> KnownBy(saved.origin, saved.tensor)
    BY <1>1 DEF KnownBy
  <2>2. tensor'.outcome = "Ok" => KnownBy(origin, tensor.tensor)'
    BY <1>1 DEF Inv, Provenance, KnownBy
  <2>3. QED BY <1>1, <2>1, <2>2 DEF Inv, Provenance
<1>7. QED BY <1>4, <1>5, <1>6 DEF Inv

LEMMA Inductive == Inv /\ [Next]_vars => Inv'
<1> SUFFICES ASSUME Inv, [Next]_vars
             PROVE  Inv'
  OBVIOUS
<1>1. CASE Save
  BY <1>1, SaveKeeps
<1>2. CASE Load
  BY <1>2, LoadKeeps
<1>3. ASSUME NEW n \in FileSizes, Rewrite(n)
      PROVE  Inv'
  <2>1. n \in Nat
    BY TensorAssumption
  <2>2. fileSize' = n /\ UNCHANGED <<tensor, origin, wire, saved, reading>>
    BY <1>3 DEF Rewrite
  <2>3. TypeOK'
    BY <2>1, <2>2 DEF Inv, TypeOK, Idle
  <2>4. WireIsSaved' /\ Provenance' /\ ReadingIsAnnounced'
    BY <2>2 DEF Inv, WireIsSaved, Provenance, KnownBy, ReadingIsAnnounced, Idle
  <2>5. QED BY <2>3, <2>4 DEF Inv
<1>4. CASE LookUp
  BY <1>4, LookUpKeeps
<1>5. CASE Read
  BY <1>5, ReadKeeps
<1>6. CASE ReadTooShort
  <2>1. Idle' /\ UNCHANGED <<tensor, origin, wire, saved, fileSize>>
    BY <1>6 DEF ReadTooShort, Idle
  <2>2. QED
    BY <2>1 DEF Inv, TypeOK, WireIsSaved, Provenance, KnownBy, ReadingIsAnnounced
<1>7. CASE UNCHANGED vars
  <2>1. UNCHANGED <<tensor, origin, wire, saved, fileSize, reading>>
    BY <1>7 DEF vars
  <2>2. QED
    BY <2>1 DEF Inv, TypeOK, WireIsSaved, Provenance, KnownBy, ReadingIsAnnounced, Idle
<1>8. QED BY <1>1, <1>2, <1>3, <1>4, <1>5, <1>6, <1>7 DEF Next

LEMMA InvHolds == Spec => []Inv
<1>1. QED BY Initially, Inductive, PTL DEF Spec

-----------------------------------------------------------------------------
(* The theorems.                                                           *)

\* Tensors, protos and what is read keep their shape, from initializer() to decode_tensor.
THEOREM TensorsKeepType == Spec => []TypeOK
<1>1. Inv => TypeOK
  BY DEF Inv
<1>2. QED BY <1>1, InvHolds, PTL

\* A tensor that decode_tensor once made is read again as it was.
THEOREM LoadedTensorsSurvive == Spec => []LoadedSurvives
<1>1. Inv => LoadedSurvives
  BY DEF Inv, LoadedSurvives, WireIsSaved, Provenance, KnownBy, TensorIsDurable
<1>2. QED BY <1>1, InvHolds, PTL

\* The tensors initializer() takes are read back, when it could count their elements.
LEMMA InitializerIsDurable ==
  ASSUME NEW t \in Initializers, FixedLen(t.dims) # None
  PROVE  TensorIsDurable(t)
<1> DEFINE elem == t.elem
           dims == t.dims
           count == t.data.count
           sizes == FixedDims(dims)
           p == EncodeTensor(t)
<1>1. t \in Tensor /\ t.inline /\ elem \in ScalarTypes /\ t.data.form = "array"
      /\ Accepted(dims, count)
  BY TensorAssumption DEF Initializers
<1>2. dims \in Seq(Dim) /\ t.data \in Data
  BY <1>1 DEF Tensor
<1>3. t = Inline(elem, dims, [form |-> "array", count |-> count])
  BY <1>1 DEF Tensor, Inline, Data
<1>4. FixedLen(dims) = count
  BY <1>1 DEF Accepted
<1>5. /\ \A i \in 1..Len(dims) : dims[i].fixed
      /\ Expected(sizes) = count
  BY <1>2, <1>4, CountsAgree
<1>6. Fixed(sizes) = dims
  <2>1. /\ sizes \in Seq(Int) /\ Len(sizes) = Len(dims)
        /\ \A i \in 1..Len(dims) : sizes[i] = dims[i].size
    BY <1>2, <1>5, FixedDimsType, SizesOfFixed
  <2> HIDE DEF sizes
  <2>2. DOMAIN sizes = 1..Len(dims)
    BY <2>1, LenProperties
  <2>3. ASSUME NEW i \in 1..Len(dims)
        PROVE  dims[i] = [fixed |-> TRUE, size |-> sizes[i]]
    <3>1. dims[i] \in Dim /\ dims[i].fixed /\ dims[i].size = sizes[i]
      BY <1>2, <1>5, <2>1, ElementOfSeq
    <3>2. QED BY <3>1 DEF Dim
  <2> HIDE DEF dims
  <2>4. dims = [i \in 1..Len(dims) |-> dims[i]]
    BY <1>2, LenProperties
  <2>5. QED BY <2>2, <2>3, <2>4 DEF Fixed
<1>7. /\ p.elem = elem /\ p.dims = sizes /\ p.raw = 0 /\ p.strings = 0
      /\ p.arrays[ArrayOf(elem)] = count
      /\ ~p.reference.given
  <2>1. ArrayOf(elem) \in Arrays
    BY DEF ArrayOf, CheckedArray, Arrays
  <2>2. QED BY <1>1, <2>1 DEF EncodeTensor, NoReference
<1> HIDE DEF p, sizes
<1>8. DecodeData(p) = Found("array", count)
  <2>1. elem \notin {"String", "Undefined"}
    BY <1>1 DEF ScalarTypes
  <2>2. Fits(count, sizes)
    BY <1>5 DEF Fits
  <2>3. QED BY <1>7, <2>1, <2>2 DEF DecodeData, DecodeArray
<1>9. Known(p.elem)
  BY <1>1, <1>7 DEF Known, ScalarTypes, ElemType, SmallTypes, CheckedArray
<1>10. DecodeTensor(p) = Ok(Inline(elem, dims, [form |-> "array", count |-> count]))
  <2>1. DecodeData(p).outcome = "Ok" /\ DecodeData(p).data = [form |-> "array", count |-> count]
    BY <1>8 DEF Found
  <2> HIDE DEF elem, dims, count
  <2>2. QED BY <1>6, <1>7, <1>9, <2>1 DEF DecodeTensor
<1>11. QED BY <1>3, <1>10 DEF TensorIsDurable, p

\* However initializer() and decode_tensor count, they agree on the tensors the builder
\* took because their data is as long as their dimensions say.
THEOREM InitializersAreLoaded == Spec => []InitializersLoad
<1>1. Inv => InitializersLoad
  BY InitializerIsDurable
  DEF Inv, InitializersLoad, WireIsSaved, Provenance, KnownBy, TensorIsDurable
<1>2. QED BY <1>1, InvHolds, PTL

\* What can be read again, and has an array of its own, has as many elements as its
\* shape says.
LEMMA DurableFitsShape ==
  ASSUME NEW t \in Tensor, TensorIsDurable(t), t.inline,
         t.elem \in DOMAIN CheckedArray \ ComplexTypes
  PROVE  Fits(t.data.count, FixedDims(t.dims))
<1> DEFINE p == EncodeTensor(t)
<1>1. /\ IsTensorProto(p) /\ p.elem = t.elem /\ p.dims = FixedDims(t.dims)
      /\ ~p.reference.given
  BY EncodedTensorType DEF EncodeTensor, NoReference
<1>2. DecodeTensor(p) = Ok(t)
  BY DEF TensorIsDurable
<1> HIDE DEF p
<1>3. DecodeData(p).outcome = "Ok" /\ DecodeData(p).data = t.data
  BY <1>1, <1>2 DEF DecodeTensor, Ok, Inline, Failed
<1>4. p.elem # "String" /\ p.elem \in DOMAIN CheckedArray
  BY <1>1 DEF CheckedArray
<1>5. DecodeRawData(p.elem, p.raw) # Found("raw", p.raw)
  <2>1. p.elem \notin PackedTypes \cup Float8Types \cup {"String", "Undefined"}
    BY <1>4 DEF PackedTypes, Float8Types, CheckedArray
  <2>2. QED BY <2>1 DEF DecodeRawData, Found, Failed
<1>6. PICK n \in Nat : DecodeData(p) = Found("array", n) /\ Fits(n, p.dims)
  BY <1>1, <1>3, <1>4, <1>5, DataFound
<1>7. QED BY <1>1, <1>3, <1>6 DEF Found

\* decode_tensor lets no tensor through whose elements are compared with the shape and
\* are not as many.
THEOREM CheckedTypesAreChecked == Spec => []CheckedTypesFitShape
<1>1. ASSUME Inv
      PROVE  CheckedTypesFitShape
  <2> SUFFICES ASSUME tensor.outcome = "Ok", origin = "loaded", tensor.tensor.inline,
                      tensor.tensor.elem \in DOMAIN CheckedArray \ ComplexTypes
               PROVE  Fits(tensor.tensor.data.count, FixedDims(tensor.tensor.dims))
    BY DEF CheckedTypesFitShape, Fits
  <2>1. tensor.tensor \in Tensor /\ TensorIsDurable(tensor.tensor)
    BY <1>1 DEF Inv, TypeOK, Provenance, KnownBy
  <2>2. QED BY <2>1, DurableFitsShape
<1>2. QED BY <1>1, InvHolds, PTL

\* read_external gives what the reference announced, whatever happens to the file between
\* its look at the size and its reading.
THEOREM ResolvedAsAnnounced == Spec => ResolvedIsAnnounced
<1> DEFINE Announced ==
      ~Idle /\ origin' = "resolved" /\ tensor' # tensor =>
        LET reference == tensor.tensor.reference
            bytes == BytesOf(tensor'.tensor)
        IN
        /\ OffsetOf(reference) + bytes <= reading.size
        /\ bytes > 0 => OffsetOf(reference) + bytes <= fileSize
        /\ reference.length \in {None, bytes}
<1>1. ASSUME Inv, [Next]_vars
      PROVE  [Announced]_vars
  <2> SUFFICES ASSUME ~Idle, origin' = "resolved", tensor' # tensor
               PROVE  Announced
    OBVIOUS
  <2>1. Read
    BY <1>1 DEF Next, Save, Load, Rewrite, LookUp, ReadTooShort, vars
  <2>2. BytesOf(tensor'.tensor) = reading.length
    BY <1>1, <2>1, ResolvedType
  <2>3. /\ OffsetOf(tensor.tensor.reference) = reading.offset
        /\ reading.offset + reading.length <= reading.size
        /\ tensor.tensor.reference.length \in {None, reading.length}
    BY <1>1 DEF Inv, ReadingIsAnnounced
  <2>4. reading.length > 0 => reading.offset + reading.length <= fileSize
    BY <2>1 DEF Read
  <2>5. QED BY <2>2, <2>3, <2>4
<1>2. Spec => [][Announced]_vars
  <2> HIDE DEF Announced
  <2>1. QED BY <1>1, InvHolds, PTL DEF Spec
<1>3. QED BY <1>2 DEF ResolvedIsAnnounced

=============================================================================
