------------------------------ MODULE ModelCodec ------------------------------
(***************************************************************************)
(* A whole model on its way between a program and its file:                *)
(* encode_model_proto, Model::try_from and the conversions of the graph    *)
(* they call (src/src/proto/codec.rs), and DecodedModel::from_model, which *)
(* types the nodes and reports what stays raw (src/src/import.rs).         *)
(*                                                                         *)
(* Nodes, tensors and value types are those of OpNodes, Tensors and        *)
(* ValueTypes. Left out is what both directions copy: names, producers and *)
(* versions, the doc strings of the model, the graph, nodes, values and    *)
(* tensors, the metadata of the model, the graph and nodes, device         *)
(* configurations. What one direction drops is kept: the doc strings of    *)
(* attributes, ref_attr_name, the metadata of values and tensors.          *)
(***************************************************************************)
EXTENDS OpNodes, ValueTypes

CONSTANTS
  Built,       \* the models programs put together themselves
  Foreign      \* the files other producers write

\* SUPPORTED_IR_VERSION, SUPPORTED_ONNX_OPSET, SUPPORTED_ML_OPSET
SupportedIr == 10
SupportedOnnxOpset == 25
SupportedMlOpset == 5

-----------------------------------------------------------------------------
(* Messages kept as the bytes they were encoded to.                        *)

BytesOf(message) == [decodes |-> TRUE, message |-> message]

\* decode(..).unwrap_or_default(): bytes a program made up may be no message.
MessageIn(bytes, default) == IF bytes.decodes THEN bytes.message ELSE default

Bytes(messages) == [decodes : {TRUE}, message : messages] \cup {[decodes |-> FALSE]}

NoTraining == 0
NoBody == 0
EmptySparse == [name |-> EmptyText, content |-> 0]

Mapped(Convert(_), list) == [i \in DOMAIN list |-> Convert(list[i])]

All(Holds(_), list) == \A i \in DOMAIN list : Holds(list[i])

-----------------------------------------------------------------------------
(* Models and files. A message nobody looks into is a number.              *)

Untyped == [given |-> FALSE]
Typed(type) == [given |-> TRUE, type |-> type]

\* Inputs, outputs and value_info.
ValueLists == {"input", "output", "value_info"}

MaybeTyped(types) == {Untyped} \cup [given : {TRUE}, type : types]

ValueInfo == [name : STRING, type : MaybeTyped(ValueType)]

\* In a file a value may have metadata as well.
ValueInfoProto == [name : STRING, type : MaybeTyped(TypeProto), metadata : Nat]

NoMetadata == 0

SparseMessage == [name : Text, content : Nat]

IsGraph(graph) ==
  /\ graph.nodes \in Seq(Node)
  /\ graph.initializers \in Seq(Tensor)
  /\ graph.sparse \in Seq([name : Text, proto : Bytes(SparseMessage)])
  /\ graph.values \in [ValueLists -> Seq(ValueInfo)]

IsModel(model) ==
  /\ model.ir \in Int /\ model.imports \in Seq([domain : STRING, version : Int])
  /\ model.training \in Seq(Bytes(Nat))
  /\ IsGraph(model.graph)

IsGraphProto(proto) ==
  /\ proto.nodes \in Seq(FileNode)
  /\ Len(proto.initializers) \in Nat
  /\ DOMAIN proto.initializers = 1..Len(proto.initializers)
  /\ \A i \in DOMAIN proto.initializers : IsTensorProto(proto.initializers[i])
  /\ proto.sparse \in Seq(SparseMessage)
  /\ proto.values \in [ValueLists -> Seq(ValueInfoProto)]

IsModelProto(proto) ==
  /\ proto.ir \in Int /\ proto.imports \in Seq([domain : STRING, version : Int])
  /\ proto.training \in Seq(Nat)
  /\ proto.graph.given => IsGraphProto(proto.graph.graph)

ASSUME ModelAssumption ==
  /\ \A model \in Built : IsModel(model)
  /\ \A proto \in Foreign : IsModelProto(proto)

-----------------------------------------------------------------------------
(* Encoding.                                                               *)

EncodeValueInfo(info) ==
  [name |-> info.name,
   type |-> IF info.type.given THEN Typed(EncodeValueType(info.type.type)) ELSE Untyped,
   metadata |-> NoMetadata]

EncodeSparse(raw) == MessageIn(raw.proto, EmptySparse)

\* The tensor a quantization annotation is about is not kept in memory.
EncodeAnnotation(entries) == [tensorName |-> EmptyText, entries |-> entries]

EncodeGraph(graph) ==
  [nodes |-> Mapped(EncodeNode, graph.nodes),
   initializers |-> Mapped(EncodeTensor, graph.initializers),
   sparse |-> Mapped(EncodeSparse, graph.sparse),
   values |-> [l \in ValueLists |-> Mapped(EncodeValueInfo, graph.values[l])],
   annotations |-> Mapped(EncodeAnnotation, graph.annotations)]

\* Of a function, only what it is called; the bytes it is kept as are not looked at.
EncodeFunction(function) == [name |-> function.name, body |-> NoBody]

EncodeTraining(raw) == MessageIn(raw, NoTraining)

EncodeModel(model) ==
  [ir |-> model.ir, imports |-> model.imports,
   graph |-> [given |-> TRUE, graph |-> EncodeGraph(model.graph)],
   functions |-> Mapped(EncodeFunction, model.functions),
   training |-> Mapped(EncodeTraining, model.training)]

-----------------------------------------------------------------------------
(* Decoding.                                                               *)

\* The two names of the core domain.
CoreNames == {"", "ai.onnx"}

\* Mutant of Supported: the other name of the core domain is not looked at.
SupportedUnaliased(import) ==
  /\ import.domain = "" => import.version <= SupportedOnnxOpset
  /\ import.domain = "ai.onnx.ml" => import.version <= SupportedMlOpset

\* supported_opset: both names of the core domain; other domains have no limit.
Supported(import) ==
  /\ import.domain \in CoreNames => import.version <= SupportedOnnxOpset
  /\ import.domain = "ai.onnx.ml" => import.version <= SupportedMlOpset

ReadableTensor(proto) == DecodeTensor(proto).outcome = "Ok"

DecodedTensor(proto) == DecodeTensor(proto).tensor

ReadableInfo(proto) == proto.type.given => ReadableType(proto.type.type)

\* There is no place for the metadata.
DecodeValueInfo(proto) ==
  [name |-> proto.name,
   type |-> IF proto.type.given THEN Typed(DecodeValueType(proto.type.type)) ELSE Untyped]

DecodeSparse(proto) == [name |-> proto.name, proto |-> BytesOf(proto)]

DecodeAnnotation(proto) == proto.entries

\* Which part of a graph cannot be read, in the order decode_graph comes upon them; the
\* error is that of the tensor, the attribute or the type. "Ok" when there is none.
GraphOutcome(proto) ==
  IF ~All(ReadableTensor, proto.initializers) THEN "UnreadableInitializer"
  ELSE IF ~All(Readable, proto.nodes) THEN "UnreadableNode"
  ELSE IF \E l \in ValueLists : ~All(ReadableInfo, proto.values[l]) THEN "InvalidTypeProto"
  ELSE "Ok"

DecodeGraph(proto) ==
  [nodes |-> Mapped(DecodeNode, proto.nodes),
   initializers |-> Mapped(DecodedTensor, proto.initializers),
   sparse |-> Mapped(DecodeSparse, proto.sparse),
   values |-> [l \in ValueLists |-> Mapped(DecodeValueInfo, proto.values[l])],
   annotations |-> Mapped(DecodeAnnotation, proto.annotations)]

DecodeFunction(proto) == [name |-> proto.name, proto |-> BytesOf(proto)]

\* The versions are looked at before anything else.
DecodeModel(proto) ==
  IF proto.ir > SupportedIr THEN Failed("UnsupportedIrVersion")
  ELSE IF ~All(Supported, proto.imports) THEN Failed("UnsupportedOpsetVersion")
  ELSE IF ~proto.graph.given THEN Failed("Protobuf")
  ELSE IF GraphOutcome(proto.graph.graph) # "Ok" THEN Failed(GraphOutcome(proto.graph.graph))
  ELSE [outcome |-> "Ok",
        model |-> [ir |-> proto.ir, imports |-> proto.imports,
                   graph |-> DecodeGraph(proto.graph.graph),
                   functions |-> Mapped(DecodeFunction, proto.functions),
                   training |-> Mapped(BytesOf, proto.training)]]

-----------------------------------------------------------------------------
(* Importing.                                                              *)

\* make_node_payload: the typed struct, or the node as it is.
Payload(node) ==
  IF Recognised(node) THEN [raw |-> FALSE, struct |-> StructOf(node)]
  ELSE [raw |-> TRUE, node |-> node]

SubgraphKinds == {"Graph", "Graphs"}

SubgraphWarning(i, name) == [kind |-> "SubgraphAttribute", node |-> i, attribute |-> name]
FunctionWarning(name) == [kind |-> "Function", function |-> name]
TrainingWarning(i) == [kind |-> "TrainingInfo", entry |-> i]

\* Mutant of SubgraphWarnings: lists of graphs are passed over.
SubgraphWarningsSingle(nodes) ==
  UNION {{SubgraphWarning(i, nodes[i].attributes[k].name) :
            k \in {j \in DOMAIN nodes[i].attributes : nodes[i].attributes[j].value.kind = "Graph"}} :
          i \in DOMAIN nodes}

\* The attributes of the node whose value the library does not look into.
SubgraphPlaces(node) ==
  {k \in DOMAIN node.attributes : node.attributes[k].value.kind \in SubgraphKinds}

SubgraphWarnings(nodes) ==
  UNION {{SubgraphWarning(i, nodes[i].attributes[k].name) : k \in SubgraphPlaces(nodes[i])} :
          i \in DOMAIN nodes}

\* collect_warnings; their order is left out.
Warnings(model) ==
  SubgraphWarnings(model.graph.nodes)
  \cup {FunctionWarning(model.functions[i].name) : i \in DOMAIN model.functions}
  \cup {TrainingWarning(i) : i \in DOMAIN model.training}

-----------------------------------------------------------------------------
VARIABLES
  model,     \* the program's model, or why it has none
  source,    \* the file it was loaded from; NoFile when the program made it
  file,      \* the model's file
  saved,     \* the model the file was written from, and its source; or NotSaved
  imported   \* the DecodedModel made of model: payloads and warnings; or NotImported

vars == <<model, source, file, saved, imported>>

NoModel == Failed("NoModel")
NoFile == [exists |-> FALSE]
File(proto) == [exists |-> TRUE, proto |-> proto]
NotSaved == [saved |-> FALSE]
NotImported == [imported |-> FALSE]

\* A program has made a model, or is handed a file.
Init ==
  /\ \/ /\ model \in {[outcome |-> "Ok", model |-> m] : m \in Built}
        /\ file = NoFile
     \/ /\ model = NoModel
        /\ file \in {File(p) : p \in Foreign}
  /\ source = NoFile
  /\ saved = NotSaved
  /\ imported = NotImported

Save ==
  /\ model.outcome = "Ok"
  /\ file' = File(EncodeModel(model.model))
  /\ saved' = [saved |-> TRUE, model |-> model.model, source |-> source]
  /\ UNCHANGED <<model, source, imported>>

Load ==
  /\ file.exists
  /\ model' = DecodeModel(file.proto)
  /\ source' = file
  /\ imported' = NotImported
  /\ UNCHANGED <<file, saved>>

Import ==
  /\ model.outcome = "Ok"
  /\ imported' = [imported |-> TRUE,
                  payloads |-> Mapped(Payload, model.model.graph.nodes),
                  warnings |-> Warnings(model.model)]
  /\ UNCHANGED <<model, source, file, saved>>

Next == Save \/ Load \/ Import

Spec == Init /\ [][Next]_vars

-----------------------------------------------------------------------------
(* Properties.                                                             *)

TypeOK ==
  /\ model.outcome \in {"Ok", "NoModel", "UnsupportedIrVersion", "UnsupportedOpsetVersion",
                        "Protobuf", "UnreadableInitializer", "UnreadableNode", "InvalidTypeProto"}
  /\ model.outcome = "Ok" => IsModel(model.model)
  /\ file.exists => IsModelProto(file.proto)
  /\ source.exists /\ model.outcome = "Ok" =>
       /\ model.model.ir <= SupportedIr
       /\ \A i \in DOMAIN model.model.imports :
            LET import == model.model.imports[i] IN
            /\ import.domain \in CoreNames => import.version <= SupportedOnnxOpset
            /\ import.domain = "ai.onnx.ml" => import.version <= SupportedMlOpset
  /\ imported.imported => model.outcome = "Ok"

\* Function bodies are lost when a model is written: see DetailsSurvive.
ApartFromBodies(m) == [m EXCEPT !.functions = Mapped(LAMBDA f : f.name, @)]

\* A model that could once be loaded is safe: saved and loaded again it is the same
\* model, its raw messages the same bytes, whoever wrote the first file. No part of it
\* makes the file unreadable, and none is read as something else.
LoadedSurvives ==
  saved.saved /\ saved.source.exists =>
    LET again == DecodeModel(file.proto) IN
    again.outcome = "Ok" /\ ApartFromBodies(again.model) = ApartFromBodies(saved.model)

\* A shape, a layer and a value apart from their denotations.
PlainShape(shape) ==
  IF shape.ranked THEN Ranked([i \in DOMAIN shape.dims |-> shape.dims[i].value]) ELSE Unranked

PlainLayer(proto) ==
  IF proto.value.kind \in TensorKinds THEN [proto.value EXCEPT !.shape = PlainShape(@)]
  ELSE proto.value

InfoMeaning(info) ==
  [name |-> info.name,
   type |-> IF info.type.given THEN Typed(Mapped(PlainLayer, info.type.type)) ELSE Untyped]

\* The name of an attribute and the fields that the decoder reads, its text repaired.
FieldsOf(attribute) ==
  [name |-> attribute.name,
   fields |-> [k \in ReadKinds |-> MemoryContent(k, attribute.proto[k])]]

NodeMeaning(node) == [node EXCEPT !.attributes = Mapped(FieldsOf, @)]

\* What a file says, but for what a load or a save drops:
\*   - of functions, all but what they are called;
\*   - of attributes, doc strings and ref_attr_name;
\*   - of values, metadata; of value types, denotations;
\*   - of tensors, metadata, segment and the unknown entries of a reference;
\*   - of quantization annotations, the tensor they are about
\* (these are the file's Details: see DetailsSurvive), and
\*   - of attributes, the fields decode_attribute does not read: sparse tensors, types, the
\*     tag;
\*   - of tensors, which of its forms the data has, and data beside a reference.
MeaningOf(proto) ==
  LET graph == proto.graph.graph IN
  [ir |-> proto.ir, imports |-> proto.imports, training |-> proto.training,
   functions |-> Mapped(LAMBDA f : f.name, proto.functions),
   nodes |-> Mapped(NodeMeaning, graph.nodes),
   initializers |-> Mapped(DecodeTensor, graph.initializers),
   sparse |-> graph.sparse,
   values |-> [l \in ValueLists |-> Mapped(InfoMeaning, graph.values[l])],
   annotations |-> Mapped(DecodeAnnotation, graph.annotations)]

\* Loading a file and saving it again keeps the values, names, types, shapes and contents
\* of attributes and tensors the file has: what was loaded is not merely stable, it is the
\* file's. It is not all the file says: MeaningOf lists what is lost.
ResavedKeeps ==
  saved.saved /\ saved.source.exists =>
    MeaningOf(file.proto) = MeaningOf(saved.source.proto)

\* Where the import of a node keeps an attribute.
KeptIn(payload, attribute) ==
  IF payload.raw
  THEN \E i \in DOMAIN payload.node.attributes :
         /\ payload.node.attributes[i].name = attribute.name
         /\ payload.node.attributes[i].value = attribute.value
  ELSE /\ attribute.name \in DOMAIN payload.struct.fields
       /\ payload.struct.fields[attribute.name] = attribute.value.content

\* An imported file is accounted for node by node: the payload at a position is the node
\* there or the struct of its operator, and holds the value of each attribute the file's
\* node has. (An integer called to, when it is no i32, is cut down to one: see OpNodes.)
ImportKeepsNodes ==
  imported.imported /\ source.exists =>
    LET nodes == source.proto.graph.graph.nodes IN
    /\ DOMAIN imported.payloads = DOMAIN nodes
    /\ \A i \in DOMAIN nodes :
         LET payload == imported.payloads[i] IN
         /\ nodes[i].op = IF payload.raw THEN payload.node.op ELSE payload.struct.op
         /\ \A k \in DOMAIN nodes[i].attributes :
              LET attribute == [name |-> nodes[i].attributes[k].name,
                                value |-> DecodedAttribute(nodes[i], k).value]
              IN
              (attribute.name = "to" => attribute.value.content \in I32) =>
                KeptIn(payload, attribute)

\* README, "Raw passthrough only", of what collect_warnings has a warning for: each subgraph
\* of a node is reported, with the node's position, and the node is never taken for a typed
\* operator; so is each function, and each entry of training info. (Of sparse initializers
\* and quantization annotations, raw as well, nothing is ever reported.)
OpaquePartsAreReported ==
  imported.imported /\ source.exists =>
    LET proto == source.proto
        nodes == proto.graph.graph.nodes
    IN
    /\ \A i \in DOMAIN nodes : \A k \in DOMAIN nodes[i].attributes :
         LET attribute == nodes[i].attributes[k] IN
         (\E s \in SubgraphKinds : attribute.proto[s] # Unset) =>
           /\ SubgraphWarning(i, attribute.name) \in imported.warnings
           /\ imported.payloads[i].raw
    /\ \A i \in DOMAIN proto.functions :
         FunctionWarning(proto.functions[i].name) \in imported.warnings
    /\ \A i \in DOMAIN proto.training : TrainingWarning(i) \in imported.warnings

\* What a file says besides the contents of nodes, tensors and values: the bodies of
\* functions; doc strings and references of attributes; what a tensor has that decode_tensor
\* does not look at; the metadata of values and the denotations of their types; the tensors
\* that annotations are about.
Details(proto) ==
  LET graph == proto.graph.graph
      Remarks(node) == Mapped(LAMBDA a : [doc |-> a.doc, ref |-> a.ref], node.attributes)
      Denotations(info) ==
        IF info.type.given THEN Mapped(LAMBDA layer : layer.denotation, info.type.type) ELSE <<>>
  IN
  [functions |-> proto.functions,
   attributes |-> Mapped(Remarks, graph.nodes),
   tensors |-> Mapped(LAMBDA t : t.unread, graph.initializers),
   values |-> [l \in ValueLists |-> Mapped(LAMBDA v : v.metadata, graph.values[l])],
   denotations |-> [l \in ValueLists |-> Mapped(Denotations, graph.values[l])],
   annotated |-> Mapped(LAMBDA a : a.tensorName, graph.annotations)]

\* onnx-proto-codec, of a file decoded and encoded again: "o segundo arquivo é
\* semanticamente igual ao primeiro"; and of decoding, that it maps "todos os campos do
\* protobuf para o modelo em memória". Said of what ResavedKeeps does not speak of.
DetailsSurvive ==
  saved.saved /\ saved.source.exists => Details(file.proto) = Details(saved.source.proto)

=============================================================================
