------------------------------ MODULE ValueTypes ------------------------------
(***************************************************************************)
(* ValueType, the type of a graph's value (src/src/ir/types.rs), TypeProto *)
(* and the conversions between them, encode_value_type and                 *)
(* decode_value_type (src/src/proto/codec.rs).                             *)
(*                                                                         *)
(* A type is the sequence of its layers, outermost first: wrappers         *)
(* (sequence of, optional, map from a key type to) around a tensor or an   *)
(* opaque type. On the wire a chain may stop short, a wrapper being around *)
(* nothing, and elements may be of a type nobody knows; and each layer and *)
(* dimension has a denotation, which has no counterpart in memory.         *)
(***************************************************************************)
EXTENDS Tensors, OptionalText

TensorKinds == {"Tensor", "SparseTensor"}
LeafKinds == TensorKinds \cup {"Opaque"}

SequenceOf == [kind |-> "Sequence"]
OptionalOf == [kind |-> "Optional"]
MapFrom(key) == [kind |-> "Map", key |-> key]
TensorOf(kind, elem, shape) == [kind |-> kind, elem |-> elem, shape |-> shape]
Opaque(domain, name) == [kind |-> "Opaque", domain |-> domain, name |-> name]

\* MaybeRanked: a tensor without a shape may have any rank.
Unranked == [ranked |-> FALSE]
Ranked(dims) == [ranked |-> TRUE, dims |-> dims]

\* Dim
FixedDim(size) == [dim |-> "Fixed", size |-> size]
ParamDim(name) == [dim |-> "Param", name |-> name]
UnknownDim == [dim |-> "Unknown"]

ShapeDim == [dim : {"Fixed"}, size : Int] \cup [dim : {"Param"}, name : STRING] \cup {UnknownDim}

WireDim == [value : ShapeDim, denotation : Text]

\* A shape and a layer, with dimensions and texts as they are in memory or on the wire.
ShapeWith(dims) == {Unranked} \cup [ranked : {TRUE}, dims : Seq(dims)]

LayerWith(dims, texts) ==
       {SequenceOf, OptionalOf}
  \cup [kind : {"Map"}, key : STRING]
  \cup [kind : TensorKinds, elem : STRING, shape : ShapeWith(dims)]
  \cup [kind : {"Opaque"}, domain : texts, name : texts]

Layer == LayerWith(ShapeDim, MaybeText)

WireLayer == LayerWith(WireDim, Text)

ValueType == Seq(Layer)
TypeProto == Seq([value : WireLayer, denotation : Text])

\* The element types a layer names.
ElemsOf(layer) ==
  IF layer.kind \in TensorKinds THEN {layer.elem}
  ELSE IF layer.kind = "Map" THEN {layer.key}
  ELSE {}

\* The layers nest into a type.
Complete(layers) ==
  /\ layers # <<>>
  /\ \A i \in DOMAIN layers : layers[i].kind \in LeafKinds <=> i = Len(layers)

-----------------------------------------------------------------------------
(* Encoding.                                                               *)

\* Mutant of EncodeShape: a dimension that is not fixed becomes an unknown one.
EncodeShapeNoParams(shape) ==
  IF ~shape.ranked THEN Unranked
  ELSE Ranked([i \in DOMAIN shape.dims |->
                [value |-> IF shape.dims[i].dim = "Fixed" THEN shape.dims[i] ELSE UnknownDim,
                 denotation |-> EmptyText]])

EncodeShape(shape) ==
  IF ~shape.ranked THEN Unranked
  ELSE Ranked([i \in DOMAIN shape.dims |-> [value |-> shape.dims[i], denotation |-> EmptyText]])

EncodeLayer(layer) ==
  IF layer.kind \in TensorKinds THEN [layer EXCEPT !.shape = EncodeShape(@)]
  ELSE IF layer.kind = "Opaque" THEN Opaque(TextInFile(layer.domain), TextInFile(layer.name))
  ELSE layer

EncodeValueType(type) ==
  [i \in DOMAIN type |-> [value |-> EncodeLayer(type[i]), denotation |-> EmptyText]]

-----------------------------------------------------------------------------
(* Decoding.                                                               *)

\* Mutant of DecodeShape: no shape is taken for a scalar's.
DecodeShapeScalar(shape) ==
  IF ~shape.ranked THEN Ranked(<<>>)
  ELSE Ranked([i \in DOMAIN shape.dims |-> shape.dims[i].value])

DecodeShape(shape) ==
  IF ~shape.ranked THEN Unranked
  ELSE Ranked([i \in DOMAIN shape.dims |-> shape.dims[i].value])

DecodeLayer(layer) ==
  IF layer.kind \in TensorKinds THEN [layer EXCEPT !.shape = DecodeShape(@)]
  ELSE IF layer.kind = "Opaque" THEN Opaque(TextInMemory(layer.domain), TextInMemory(layer.name))
  ELSE layer

\* Every layer is there and names only element types that from_disc knows.
ReadableType(proto) ==
  /\ Complete([i \in DOMAIN proto |-> proto[i].value])
  /\ \A i \in DOMAIN proto : \A e \in ElemsOf(proto[i].value) : Known(e)

DecodeValueType(proto) == [i \in DOMAIN proto |-> DecodeLayer(proto[i].value)]

=============================================================================
