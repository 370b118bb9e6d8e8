---------------------------- MODULE AttributeCodec ----------------------------
(***************************************************************************)
(* The life of one attribute in a program that builds, saves and loads     *)
(* models: set through the constructors of Attribute or its public fields, *)
(* written by encode_attribute, read by decode_attribute, in any order and *)
(* as often as the program likes.                                          *)
(***************************************************************************)
EXTENDS Attributes

CONSTANTS
  Built,     \* the values the program gives an attribute
  Foreign    \* the protos that other producers write

ASSUME CodecAssumption ==
  /\ Built \subseteq AttributeValue
  /\ Foreign \subseteq Proto

VARIABLES
  attr,      \* the attribute in memory, a Success, or why there is none
  loaded,    \* whether it came from a file
  wire,      \* the proto in the file
  saved      \* the attribute the file was written from, and its loaded; or NotSaved

vars == <<attr, loaded, wire, saved>>

NotSaved == Failure("NotSaved")

Init ==
  /\ attr \in {Success(v) : v \in Built}
  /\ loaded = FALSE
  /\ wire \in Foreign
  /\ saved = NotSaved

Set(value) ==
  /\ attr' = Success(value)
  /\ loaded' = FALSE
  /\ UNCHANGED <<wire, saved>>

Save ==
  /\ attr.outcome = "Ok"
  /\ wire' = EncodeAttribute(attr.value)
  /\ saved' = [outcome |-> "Ok", value |-> attr.value, loaded |-> loaded]
  /\ UNCHANGED <<attr, loaded>>

\* Another producer writes the file.
Receive(proto) ==
  /\ wire' = proto
  /\ saved' = NotSaved
  /\ UNCHANGED <<attr, loaded>>

\* Mutant of Load: a failed load passes for one that succeeded.
LoadUnchecked ==
  /\ attr' = DecodeAttribute(wire)
  /\ loaded' = TRUE
  /\ UNCHANGED <<wire, saved>>

Load ==
  /\ attr' = DecodeAttribute(wire)
  /\ loaded' = (attr'.outcome = "Ok")
  /\ UNCHANGED <<wire, saved>>

Next ==
  \/ \E v \in Built : Set(v)
  \/ Save
  \/ \E p \in Foreign : Receive(p)
  \/ Load

Spec == Init /\ [][Next]_vars

-----------------------------------------------------------------------------
(* Properties.                                                             *)

TypeOK ==
  /\ attr.outcome = "Ok" => attr.value \in AttributeValue
  /\ attr.outcome \in {"Ok", "Tensor", "ConflictingValues", "Protobuf", "InvalidUtf8String"}
  /\ loaded => attr.outcome = "Ok"
  /\ wire \in Proto

\* An attribute that could once be loaded is safe: from then on saving it and loading
\* the file gives it back unchanged, whoever wrote the first file and however it was
\* repaired on the way in.
LoadedSurvives ==
  saved.outcome = "Ok" /\ saved.loaded => DecodeAttribute(wire) = Success(saved.value)

\* What is written of the value says less than the value: bytes that do not decode were
\* replaced, or dimensions, a name, data left out.
WrittenInPart(value) ==
  SaysMore(value) \/ (value.content = Broken /\ value.kind \in KeptAsBytes)

\* A file the codec wrote itself is never taken for another attribute's. Its attribute
\* comes back as it was, or, if it could be written in part only, as one of its kind. When
\* the load fails, it is for one of two reasons: nothing that the decoder looks for was
\* written, or a tensor of the program's did not fit its own shape.
SavedIsNeverMisread ==
  saved.outcome = "Ok" =>
    LET value == saved.value
        again == DecodeAttribute(wire)
    IN
    /\ again.outcome = "Ok" =>
         /\ again.value.kind = value.kind
         /\ again.value = value \/ WrittenInPart(value)
    /\ again.outcome = "Protobuf" => value.kind \notin ReadKinds \/ value.content = Unset
    /\ again.outcome = "Tensor" => value.kind \in HeldAsTensors /\ value.content = Broken
    /\ again.outcome \in {"Ok", "Protobuf", "Tensor"}

\* A proto that says two things is turned down: no attribute in memory stands for a
\* proto with two of the fields that are read.
OneValueOnly ==
  [][loaded' /\ wire' = wire /\ attr' # attr =>
       \A k \in ReadKinds : k # attr'.value.kind => wire[k] = Unset]_vars

\* onnx-numeric-types: "WHEN um atributo Int e construido com um i64 THEN ele persiste
\* no round-trip encode/decode", said of every Int attribute the program saves.
IntAttributesPersist ==
  saved.outcome = "Ok" /\ saved.value.kind = "Int" =>
    DecodeAttribute(wire) = Success(saved.value)

=============================================================================
