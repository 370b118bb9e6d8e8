----------------------------- MODULE TensorCodec -----------------------------
(***************************************************************************)
(* The life of one tensor: built in memory, accepted by the builder or     *)
(* not, written by encode_tensor, read by decode_tensor, and, when its     *)
(* data is in a file of its own, brought in by read_external while other   *)
(* programs rewrite that file.                                             *)
(***************************************************************************)
EXTENDS Tensors

CONSTANTS
  Built,      \* the tensors programs build
  Foreign,    \* the protos other producers write
  FileSizes   \* the sizes the external file takes

ASSUME TensorAssumption ==
  /\ Built \subseteq Tensor
  /\ \A proto \in Foreign : IsTensorProto(proto)
  /\ FileSizes \subseteq Nat

-----------------------------------------------------------------------------
VARIABLES
  tensor,    \* the tensor in memory, an Ok, or why there is none
  origin,    \* where it came from: "built", "initializer", "loaded" or "resolved"
  wire,      \* the proto in the model's file
  saved,     \* the tensor the proto was written from, and its origin; or NotSaved
  fileSize,  \* the size of the external file, now
  reading    \* what read_external has decided to read; or NotReading

vars == <<tensor, origin, wire, saved, fileSize, reading>>

NotSaved == [origin |-> "nowhere"]
NotReading == [length |-> None]

\* What initializer() makes: it takes the tensor or returns LengthMismatch.
Initializers ==
  {t \in Built :
     t.inline /\ t.elem \in ScalarTypes /\ t.data.form = "array" /\ Accepted(t.dims, t.data.count)}

\* Tensor::new takes anything.
Init ==
  /\ \/ origin = "built" /\ tensor \in {Ok(t) : t \in Built}
     \/ origin = "initializer" /\ tensor \in {Ok(t) : t \in Initializers}
  /\ wire \in Foreign
  /\ saved = NotSaved
  /\ fileSize \in FileSizes
  /\ reading = NotReading

\* The program is not within read_external.
Idle == reading = NotReading

Save ==
  /\ Idle
  /\ tensor.outcome = "Ok"
  /\ wire' = EncodeTensor(tensor.tensor)
  /\ saved' = [origin |-> origin, tensor |-> tensor.tensor]
  /\ UNCHANGED <<tensor, origin, fileSize, reading>>

Load ==
  /\ Idle
  /\ tensor' = DecodeTensor(wire)
  /\ origin' = "loaded"
  /\ UNCHANGED <<wire, saved, fileSize, reading>>

\* Another program writes the external file, at any time.
Rewrite(size) ==
  /\ fileSize' = size
  /\ UNCHANGED <<tensor, origin, wire, saved, reading>>

OffsetOf(reference) == IF reference.offset = None THEN 0 ELSE reference.offset

\* Mutant of LookUp: the announced length is not compared with the file's.
LookUpUnchecked ==
  /\ Idle
  /\ tensor.outcome = "Ok" /\ ~tensor.tensor.inline
  /\ LET reference == tensor.tensor.reference
         offset == OffsetOf(reference)
     IN
     /\ reference.location = "file"
     /\ offset <= fileSize
     /\ reading' = [offset |-> offset, size |-> fileSize,
                    length |-> IF reference.length = None THEN fileSize - offset
                               ELSE reference.length]
  /\ UNCHANGED <<tensor, origin, wire, saved, fileSize>>

\* read_external up to the file's metadata; a reference it refuses changes nothing.
LookUp ==
  /\ Idle
  /\ tensor.outcome = "Ok" /\ ~tensor.tensor.inline
  /\ LET reference == tensor.tensor.reference
         offset == OffsetOf(reference)
         length == IF reference.length = None THEN fileSize - offset ELSE reference.length
     IN
     /\ reference.location = "file"
     /\ offset <= fileSize /\ length <= fileSize - offset
     /\ reading' = [offset |-> offset, size |-> fileSize, length |-> length]
  /\ UNCHANGED <<tensor, origin, wire, saved, fileSize>>

\* The rest of it: the file is opened and read from; the caller keeps what it gets.
Read ==
  /\ ~Idle
  /\ reading.length = 0 \/ reading.offset + reading.length <= fileSize
  /\ LET found == DecodeRawData(tensor.tensor.elem, reading.length) IN
     IF found.outcome = "Ok"
     THEN /\ tensor' = Ok(Inline(tensor.tensor.elem, tensor.tensor.dims, found.data))
          /\ origin' = "resolved"
     ELSE UNCHANGED <<tensor, origin>>
  /\ reading' = NotReading
  /\ UNCHANGED <<wire, saved, fileSize>>

\* The file has become too short for read_exact, which fails; nothing is kept.
ReadTooShort ==
  /\ ~Idle
  /\ reading.length > 0 /\ reading.offset + reading.length > fileSize
  /\ reading' = NotReading
  /\ UNCHANGED <<tensor, origin, wire, saved, fileSize>>

Next ==
  \/ Save
  \/ Load
  \/ \E n \in FileSizes : Rewrite(n)
  \/ LookUp
  \/ Read
  \/ ReadTooShort

Spec == Init /\ [][Next]_vars

-----------------------------------------------------------------------------
(* Properties.                                                             *)

\* Tensors and protos keep their shape; while read_external is at it, there is a
\* reference to external data, and numbers to go by.
TypeOK ==
  /\ tensor.outcome = "Ok" => tensor = Ok(tensor.tensor) /\ tensor.tensor \in Tensor
  /\ origin \in {"built", "initializer", "loaded", "resolved"}
  /\ IsTensorProto(wire)
  /\ saved.origin # "nowhere" => saved.tensor \in Tensor
  /\ fileSize \in Nat
  /\ ~Idle =>
       /\ tensor.outcome = "Ok" /\ ~tensor.tensor.inline
       /\ reading \in [offset : Nat, size : Nat, length : Nat]

\* A tensor that could once be loaded is safe: saved again, raw bytes now in an array
\* or not, it is read as the same tensor; a reference as the same reference.
LoadedSurvives ==
  saved.origin = "loaded" => DecodeTensor(wire) = Ok(saved.tensor)

\* The builder counts elements one way and the decoder another, and they agree where it
\* matters: a tensor initializer() took because its data is as long as its dimensions say
\* is read back from the file as it was. (Of dimensions the builder cannot multiply out,
\* it takes any data.)
InitializersLoad ==
  saved.origin = "initializer" /\ FixedLen(saved.tensor.dims) # None =>
    DecodeTensor(wire) = Ok(saved.tensor)

\* A loaded tensor of a type that has an array of its own has the elements its shape
\* calls for, whether they came as raw bytes or as the array. (Complex types aside: the
\* codec counts the parts of their elements. And without dimensions any number of elements
\* passes, where one would be right.)
CheckedTypesFitShape ==
  /\ tensor.outcome = "Ok" /\ origin = "loaded"
  /\ tensor.tensor.inline /\ tensor.tensor.elem \in DOMAIN CheckedArray \ ComplexTypes
  => LET dims == FixedDims(tensor.tensor.dims) IN
     dims = <<>> \/ tensor.tensor.data.count = Expected(dims)

BytesOf(t) == t.data.count * IF t.data.form = "raw" THEN 1 ELSE RawWidth(t.elem)

\* However the external file is rewritten while it is read, the data of a resolved
\* tensor is what its reference announced: within the file as it was when its size was
\* looked up, and within the file as it was when it was read. Nothing is made up.
ResolvedIsAnnounced ==
  [][~Idle /\ origin' = "resolved" /\ tensor' # tensor =>
       LET reference == tensor.tensor.reference
           bytes == BytesOf(tensor'.tensor)
       IN
       /\ OffsetOf(reference) + bytes <= reading.size
       /\ bytes > 0 => OffsetOf(reference) + bytes <= fileSize
       /\ reference.length \in {None, bytes}]_vars

\* onnx-proto-codec: "O decode SHALL retornar erro descritivo quando [...] um dados
\* tipados/tamanho divergem", said of every array of data read in from a file.
InlineFitsShape ==
  /\ tensor.outcome = "Ok" /\ origin \in {"loaded", "resolved"}
  /\ tensor.tensor.inline /\ tensor.tensor.data.form = "array"
  => Fits(tensor.tensor.data.count, FixedDims(tensor.tensor.dims))

=============================================================================
