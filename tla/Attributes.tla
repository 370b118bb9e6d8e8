------------------------------ MODULE Attributes ------------------------------
(***************************************************************************)
(* Attribute values in memory (src/src/ir/attribute.rs) and on the wire,   *)
(* and the two conversions of src/src/proto/codec.rs between them.         *)
(*                                                                         *)
(* A value is its kind and a number standing for its content: the integer  *)
(* itself, 0 or another float, how long a string or a list is, which       *)
(* message or list of messages it holds. A tensor in a file counts as what *)
(* decode_tensor makes of it. Broken stands for bytes that do not say what *)
(* their field wants: text that is not UTF-8, a tensor that does not       *)
(* decode, a graph that is no GraphProto.                                  *)
(*                                                                         *)
(* On the wire (protobuf 3) an AttributeProto has one field per kind, and  *)
(* a field left out reads as 0, the empty string or the empty list.        *)
(***************************************************************************)
EXTENDS Integers, FiniteSets

Scalars == {"Float", "Int", "String"}
Messages == {"Tensor", "Graph", "SparseTensor", "TypeProto"}
Lists == {"Floats", "Ints", "Strings", "Tensors", "Graphs", "SparseTensors", "TypeProtos"}

Kind == Scalars \cup Messages \cup Lists

Broken == -1

\* What a field that is not on the wire reads as; a message field holds no message.
Unset == 0

\* Content that stands in for what could not be carried over.
Replacement == 1

\* In memory these are held as the bytes of their message, which may not decode.
KeptAsBytes == {"Graph", "Graphs", "SparseTensor", "SparseTensors"}

\* And these as a Tensor, whose fields need not fit together.
HeldAsTensors == {"Tensor", "Tensors"}

\* What a message or a list is on the wire: that one, none, or one that is broken.
MessageContent == Nat \cup {Broken}

\* A value that its message does not say in full: a tensor whose dimensions are not all
\* fixed, or whose data is raw bytes or of another type than its own; a graph under another
\* name than that in its bytes; a list with such an element. Its number is below Broken, and
\* the opposite is that of the value its message is read as.
SaysMore(value) ==
  value.kind \in HeldAsTensors \cup {"Graph", "Graphs"} /\ value.content < Broken

\* A message is always there, and text is UTF-8. A Tensor is broken when what is written of
\* it does not decode: its data does not fit its dimensions, or the decoder does not know
\* its type.
AttributeValue ==
  {v \in [kind : Kind, content : Int] :
     /\ v.kind \in Messages => v.content # Unset
     /\ v.kind \in Messages \cup Lists => v.content \in MessageContent \/ SaysMore(v)
     /\ v.content = Broken => v.kind \in KeptAsBytes \cup HeldAsTensors \cup {"Float", "Int"}}

\* On the wire, text need not be UTF-8 and a tensor need not decode.
Proto ==
  {p \in [Kind -> Int] :
     /\ \A k \in Messages \cup Lists : p[k] \in MessageContent
     /\ \A k \in Kind : p[k] = Broken =>
          k \in HeldAsTensors \cup {"Float", "Int", "String", "Strings"}}

\* The kinds of AttributeProto's fields that decode_attribute reads.
ReadKinds == Kind \ {"SparseTensor", "TypeProto", "SparseTensors", "TypeProtos"}

-----------------------------------------------------------------------------
(* Encoding.                                                               *)

\* Mutant of WireContent: lists of graphs are never written.
WireContentNoGraphs(value) ==
  IF value.kind = "Graphs" THEN Unset
  ELSE IF SaysMore(value) THEN -value.content
  ELSE IF value.content # Broken \/ value.kind \notin KeptAsBytes THEN value.content
  ELSE IF value.kind = "SparseTensor" THEN Unset
  ELSE Replacement

\* encode_tensor leaves out dimensions that are not fixed, and of a graph only the bytes
\* are written. Graph bytes that do not decode become a graph of that name, or an empty one
\* in a list; sparse tensor bytes that do not decode are dropped, or an empty one in a list.
WireContent(value) ==
  IF SaysMore(value) THEN -value.content
  ELSE IF value.content # Broken \/ value.kind \notin KeptAsBytes THEN value.content
  ELSE IF value.kind = "SparseTensor" THEN Unset
  ELSE Replacement

\* encode_attribute; the proto's type tag is not modelled, no decoder reads it.
EncodeAttribute(value) ==
  [k \in Kind |-> IF k = value.kind THEN WireContent(value) ELSE Unset]

-----------------------------------------------------------------------------
(* Decoding.                                                               *)

Success(value) == [outcome |-> "Ok", value |-> value]

Failure(reason) == [outcome |-> reason]

\* Mutant of Present: when nothing is found, the integer field is taken to be there.
PresentInt(proto) ==
  LET present == {k \in ReadKinds : proto[k] # Unset} IN
  IF present = {} THEN {"Int"} ELSE present

\* The fields decode_attribute finds: nonempty, or not 0.
Present(proto) == {k \in ReadKinds : proto[k] # Unset}

\* Strings of a list are repaired (from_utf8_lossy).
MemoryContent(kind, content) ==
  IF kind = "Strings" /\ content = Broken THEN Replacement ELSE content

\* Mutant of AttributeFromFields: the first field found is taken, whatever else is set.
AttributeFromFieldsFirst(fields) ==
  LET kind == CHOOSE k \in DOMAIN fields : TRUE IN
  Success([kind |-> kind, content |-> fields[kind]])

\* attribute_from_fields, of the fields that hold something. (That none does, NoValue,
\* decode_attribute has excluded.)
AttributeFromFields(fields) ==
  IF Cardinality(DOMAIN fields) > 1 THEN Failure("ConflictingValues")
  ELSE LET kind == CHOOSE k \in DOMAIN fields : TRUE IN
       IF kind = "String" /\ fields[kind] = Broken THEN Failure("InvalidUtf8String")
       ELSE Success([kind |-> kind, content |-> fields[kind]])

\* decode_attribute: tensors are decoded as they are found, before anything is checked.
DecodeAttribute(proto) ==
  IF \E k \in HeldAsTensors : proto[k] = Broken THEN Failure("Tensor")
  ELSE IF {"Float", "Int"} \subseteq Present(proto) THEN Failure("ConflictingValues")
  ELSE IF Present(proto) = {} THEN Failure("Protobuf")
  ELSE AttributeFromFields([k \in Present(proto) |-> MemoryContent(k, proto[k])])

=============================================================================
