---------------------------- MODULE MCModelCodec ----------------------------
(* Files that differ from a usual one in a few places at once, and models built so. *)
EXTENDS ModelCodec

-----------------------------------------------------------------------------
(* Nodes: a typed one, variants that stay raw, one that cannot be read.     *)

InAFile(name, proto) == [name |-> name, proto |-> proto, doc |-> "", ref |-> ""]

Attribute(name, kind, content) ==
  InAFile(name, [k \in Kind |-> IF k = kind THEN content ELSE Unset])

Two(name, first, second) ==
  InAFile(name, [k \in Kind |-> IF k \in {first, second} THEN 1 ELSE Unset])

Described(attribute) == [attribute EXCEPT !.doc = "d"]
Referring(attribute) == [attribute EXCEPT !.ref = "outer"]

NodeInFile(op, domain, inputs, attributes) ==
  [name |-> "", op |-> op, domain |-> domain, inputs |-> inputs, outputs |-> 1,
   attributes |-> attributes]

Scaled == NodeInFile("Scaler", Ml, 1, <<Described(Attribute("scale", "Floats", 2)), Attribute("offset", "Floats", 1)>>)
CastNode(domain) == NodeInFile("Cast", domain, 1, <<Attribute("to", "Int", 7)>>)
If(attributes) == NodeInFile("If", Core, 1, attributes)

NodeLists ==
  {<<>>, <<Scaled>>, <<CastNode(""), CastNode("ai.onnx"), Scaled>>,
   <<If(<<Attribute("then_branch", "Graph", 1), Attribute("else_branch", "Graph", 2)>>), Scaled>>,
   <<CastNode(""), If(<<Attribute("branches", "Graphs", 2)>>)>>,
   <<[Scaled EXCEPT !.name = "s", !.attributes = Append(@, Attribute("body", "Graph", 1))]>>,
   <<If(<<Attribute("names", "Strings", Broken)>>)>>,
   <<If(<<Two("both", "Floats", "TypeProto")>>)>>,
   <<Scaled, If(<<Two("both", "Floats", "Ints")>>)>>,
   <<If(<<Attribute("zero", "Int", 0)>>)>>,
   <<CastNode(""), If(<<Described(Attribute("n", "Int", 3))>>)>>,
   <<If(<<Referring(Attribute("n", "Int", 3)), Attribute("t", "Tensor", 1)>>)>>,
   <<If(<<Referring(Attribute("n", "Int", 0))>>)>>,
   <<If(<<Attribute("t", "Tensors", Broken)>>)>>,
   <<NodeInFile("Cast", Core, 1, <<Attribute("to", "Int", 64 + 7)>>)>>}

-----------------------------------------------------------------------------
(* Initializers.                                                            *)

InFile(elem, dims, raw, count) ==
  [elem |-> elem, dims |-> dims, raw |-> raw, strings |-> 0,
   arrays |-> [a \in Arrays |-> IF a = ArrayOf(elem) THEN count ELSE 0], reference |-> NoReference,
   unread |-> NothingUnread]

Weights == [location |-> "file", offset |-> None, length |-> 8]

TensorLists ==
  {<<>>,
   <<InFile("Float", <<2>>, 8, 0)>>,
   <<InFile("Int64", <<>>, 0, 1),
     [InFile("Float", <<2>>, 0, 0) EXCEPT !.reference = [given |-> TRUE, valid |-> TRUE, to |-> Weights]]>>,
   <<[InFile("Uint4", <<3>>, 2, 0) EXCEPT !.unread = 1]>>,
   <<InFile("Float", <<2>>, 0, 1)>>}

-----------------------------------------------------------------------------
(* Value types.                                                             *)

Denoted(value) == [value |-> value, denotation |-> "d"]

InWire(layer) ==
  IF layer.kind \in TensorKinds /\ layer.shape.ranked
  THEN [layer EXCEPT !.shape = Ranked(Mapped(Denoted, @.dims))]
  ELSE layer

OnWire(type) == Mapped(LAMBDA layer : Denoted(InWire(layer)), type)

BatchOf(elem) ==
  TensorOf("Tensor", elem, Ranked(<<ParamDim("N"), FixedDim(4), UnknownDim>>))

TypeLists ==
  {<<BatchOf("Float")>>,
   <<TensorOf("SparseTensor", "Int64", Unranked)>>,
   <<SequenceOf, MapFrom("String"), TensorOf("Tensor", "Float", Ranked(<<>>))>>,
   <<OptionalOf, Opaque("", "dict")>>,
   <<SequenceOf>>,
   <<MapFrom("Int2"), BatchOf("Float")>>,
   <<BatchOf("Unknown")>>,
   <<>>}

Info(name, type) == [name |-> name, type |-> type]

InfoInFile(name, type) == [name |-> name, type |-> type, metadata |-> NoMetadata]

InfoLists ==
  {<<>>, <<[InfoInFile("x", Untyped) EXCEPT !.metadata = 1]>>}
  \cup {<<InfoInFile("x", Typed(OnWire(t)))>> : t \in TypeLists}
  \cup {<<InfoInFile("x", Typed(OnWire(<<BatchOf("Double")>>))),
          [InfoInFile("y", Typed(OnWire(<<OptionalOf, BatchOf("Bool")>>))) EXCEPT !.metadata = 2]>>}

\* Lists with one kind of value only, the others empty or the same.
Values(list, infos) == [l \in ValueLists |-> IF l = list THEN infos ELSE <<>>]

ValueChoices ==
  {Values(l, infos) : l \in ValueLists, infos \in InfoLists}
  \cup {[l \in ValueLists |-> <<InfoInFile("x", Typed(OnWire(<<BatchOf("Float")>>)))>>]}

-----------------------------------------------------------------------------
(* Files and models.                                                        *)

Versions == {0, 5, 6, 10, 11, 25, 26}
Domains == {"", "ai.onnx", "ai.onnx.ml", "com.other"}

ImportLists ==
  {<<>>, <<[domain |-> "", version |-> 25], [domain |-> "ai.onnx.ml", version |-> 5]>>}
  \cup {<<[domain |-> "", version |-> 17], [domain |-> d, version |-> v]>> : d \in Domains, v \in Versions}

GraphFile(nodes, initializers, values) ==
  [nodes |-> nodes, initializers |-> initializers, values |-> values,
   sparse |-> <<[name |-> "w", content |-> 3], EmptySparse>>,
   annotations |-> <<[tensorName |-> "x", entries |-> <<"SCALE_TENSOR">>]>>]

FileOf(ir, imports, graph, functions, training) ==
  [ir |-> ir, imports |-> imports, graph |-> graph, functions |-> functions, training |-> training]

Given(graph) == [given |-> TRUE, graph |-> graph]
Usual == <<[domain |-> "", version |-> 17], [domain |-> "ai.onnx.ml", version |-> 3]>>

MCForeign ==
  {FileOf(8, Usual, Given(GraphFile(n, t, v)), f, tr) :
     n \in NodeLists, t \in TensorLists, v \in ValueChoices,
     f \in {<<>>, <<[name |-> "f", body |-> 1], [name |-> "g", body |-> NoBody]>>},
     tr \in {<<>>, <<4, NoTraining>>}}
  \cup {FileOf(ir, i, g, <<>>, <<>>) :
     ir \in Versions, i \in ImportLists,
     g \in {[given |-> FALSE], Given(GraphFile(<<Scaled>>, <<>>, Values("input", <<>>)))}}

\* A file that has something to say in each place.
Detailed ==
  FileOf(8, Usual,
    Given(GraphFile(<<If(<<Described(Attribute("n", "Int", 3)), Referring(Attribute("m", "Int", 3))>>)>>,
                    <<[InFile("Float", <<2>>, 8, 0) EXCEPT !.unread = 1]>>,
                    Values("input", <<[InfoInFile("x", Typed(OnWire(<<BatchOf("Float")>>)))
                                        EXCEPT !.metadata = 1]>>))),
    <<[name |-> "f", body |-> 1]>>, <<>>)

MCDetailed == {Detailed}

NoModels == {}

\* What programs build: bytes that are no message, names that are empty, dimensions of
\* tensors that are not fixed, graphs under another name, types the decoder does not know.
MadeUp == [decodes |-> FALSE]

MadeNode(attributes) ==
  [name |-> NoText, op |-> "If", domain |-> Core, inputs |-> 1, outputs |-> 1, attributes |-> attributes]

MadeTensor(dims, count) == Inline("Float", dims, [form |-> "array", count |-> count])

MCBuilt ==
  {[ir |-> ir, imports |-> i,
    graph |-> [nodes |-> n, initializers |-> t,
               sparse |-> <<[name |-> "w", proto |-> s]>>,
               values |-> Values("output", <<Info("y", type)>>),
               annotations |-> <<<<"SCALE_TENSOR">>>>],
    functions |-> <<[name |-> "f", proto |-> s]>>,
    training |-> <<tr>>] :
     ir \in {10, 11}, i \in {Usual, <<[domain |-> "ai.onnx", version |-> 26]>>},
     n \in {<<>>, <<Emitted([op |-> "Cast", fields |-> [to |-> 7]], 1, 1)>>,
            <<MadeNode(<<Attr("body", "Graph", Broken), Attr("bodies", "Graphs", 2)>>)>>,
            <<MadeNode(<<[Attr("zero", "Float", 0) EXCEPT !.doc = "d"]>>)>>,
            <<MadeNode(<<[Attr("t", "Tensor", -2) EXCEPT !.doc = "d"], Attr("g", "Graph", -2)>>)>>},
     t \in {<<>>, <<MadeTensor(<<[fixed |-> TRUE, size |-> 2]>>, 2)>>,
            <<MadeTensor(<<[fixed |-> FALSE, size |-> 0], [fixed |-> TRUE, size |-> 2]>>, 4)>>},
     s \in {MadeUp, BytesOf([name |-> "v", content |-> 1])},
     tr \in {MadeUp, BytesOf(4)},
     type \in {Untyped, Typed(<<BatchOf("Float")>>), Typed(<<OptionalOf, Opaque("", NoText)>>),
               Typed(<<SequenceOf, BatchOf("Int2")>>)}}
=============================================================================
