--------------------------- MODULE ModelCodecProofs ---------------------------
(***************************************************************************)
(* Proofs about whole models. What a file's parts become in memory, and    *)
(* that they are the same parts when they are written and read again, is   *)
(* said list by list, then of the graph and of the model; the invariant    *)
(* remembers which file a model was read from and which model a file was   *)
(* written from, and so carries it from one operation to the next.         *)
(***************************************************************************)
EXTENDS ModelCodec, CodecLemmas

-----------------------------------------------------------------------------
(* The lists of a graph.                                                   *)

\* A node that is read and written says what it said.
LEMMA RewrittenSaysTheSame ==
  ASSUME NEW f \in FileNode, NEW again, Rewritten(f, again)
  PROVE  NodeMeaning(again) = NodeMeaning(f)
<1> DEFINE list == f.attributes
           written == again.attributes
<1>1. /\ again = [f EXCEPT !.attributes = written]
      /\ DOMAIN written = DOMAIN list
      /\ \A i \in DOMAIN list :
           /\ written[i].name = list[i].name
           /\ \A k \in ReadKinds :
                MemoryContent(k, written[i].proto[k]) = MemoryContent(k, list[i].proto[k])
  BY DEF Rewritten
<1> HIDE DEF written
<1>2. \A i \in DOMAIN list : FieldsOf(written[i]) = FieldsOf(list[i])
  BY <1>1 DEF FieldsOf
<1>3. Mapped(FieldsOf, written) = Mapped(FieldsOf, list)
  BY <1>1, <1>2 DEF Mapped
<1>4. /\ NodeMeaning(f) = [f EXCEPT !.attributes = Mapped(FieldsOf, list)]
      /\ NodeMeaning(again) = [again EXCEPT !.attributes = Mapped(FieldsOf, written)]
  BY <1>1 DEF NodeMeaning, FileNode, written
<1>5. QED BY <1>1, <1>3, <1>4 DEF FileNode

LEMMA NodesKeep ==
  ASSUME NEW nodes \in Seq(FileNode), All(Readable, nodes),
         NEW list, list = Mapped(DecodeNode, nodes), NEW again, again = Mapped(EncodeNode, list)
  PROVE  /\ list \in Seq(Node)
         /\ All(Readable, again) /\ Mapped(DecodeNode, again) = list
         /\ Mapped(NodeMeaning, again) = Mapped(NodeMeaning, nodes)
<1>1. ASSUME NEW i \in DOMAIN nodes
      PROVE  /\ list[i] \in Node /\ Readable(again[i]) /\ DecodeNode(again[i]) = list[i]
             /\ NodeMeaning(again[i]) = NodeMeaning(nodes[i])
  <2>1. nodes[i] \in FileNode /\ Readable(nodes[i])
    BY ElementOfSeq, LenProperties DEF All
  <2>2. list[i] = DecodeNode(nodes[i]) /\ again[i] = EncodeNode(list[i])
    BY DEF Mapped
  <2>3. /\ ReadAs(nodes[i], list[i]) /\ Rewritten(nodes[i], again[i])
        /\ Readable(again[i]) /\ DecodeNode(again[i]) = list[i]
    BY <2>1, <2>2, LoadedNodeKeeps, Zenon
  <2>4. list[i] \in Node
    BY <2>3 DEF ReadAs
  <2>5. NodeMeaning(again[i]) = NodeMeaning(nodes[i])
    BY <2>1, <2>3, RewrittenSaysTheSame
  <2>6. QED BY <2>3, <2>4, <2>5
<1>2. DOMAIN list = DOMAIN nodes /\ DOMAIN again = DOMAIN nodes
      /\ list = [i \in DOMAIN nodes |-> list[i]]
  BY DEF Mapped
<1>3. list \in Seq(Node)
  <2>1. ByPlace(nodes, list, Node)
    BY <1>1, <1>2 DEF ByPlace
  <2> DEFINE S == FileNode
             T == Node
  <2> HIDE DEF S, T
  <2>2. nodes \in Seq(S) /\ ByPlace(nodes, list, T)
    BY <2>1 DEF S, T
  <2>3. list \in Seq(T)
    BY <2>2, SeqByPlace
  <2>4. QED BY <2>3 DEF T
<1>4. All(Readable, again)
  BY <1>1, <1>2 DEF All
<1>5. Mapped(DecodeNode, again) = list
  BY <1>1, <1>2, Zenon DEF Mapped
<1>6. Mapped(NodeMeaning, again) = Mapped(NodeMeaning, nodes)
  BY <1>1, <1>2, Zenon DEF Mapped
<1>7. QED BY <1>3, <1>4, <1>5, <1>6

\* The tensors of a graph are read back, each as it was.
LEMMA TensorsKeep ==
  ASSUME NEW protos, Len(protos) \in Nat, DOMAIN protos = 1..Len(protos),
         \A i \in DOMAIN protos : IsTensorProto(protos[i]),
         All(ReadableTensor, protos),
         NEW list, list = Mapped(DecodedTensor, protos),
         NEW again, again = Mapped(EncodeTensor, list)
  PROVE  /\ list \in Seq(Tensor)
         /\ All(ReadableTensor, again) /\ Mapped(DecodedTensor, again) = list
         /\ Mapped(DecodeTensor, again) = Mapped(DecodeTensor, protos)
<1>1. ASSUME NEW i \in DOMAIN protos
      PROVE  /\ list[i] \in Tensor /\ ReadableTensor(again[i]) /\ DecodedTensor(again[i]) = list[i]
             /\ DecodeTensor(again[i]) = DecodeTensor(protos[i])
  <2>1. IsTensorProto(protos[i]) /\ DecodeTensor(protos[i]).outcome = "Ok"
    BY DEF All, ReadableTensor
  <2>2. list[i] = DecodeTensor(protos[i]).tensor /\ again[i] = EncodeTensor(list[i])
    BY DEF Mapped, DecodedTensor
  <2>3. list[i] \in Tensor /\ DecodeTensor(again[i]) = Ok(list[i])
        /\ DecodeTensor(protos[i]) = Ok(list[i])
    BY <2>1, <2>2, LoadedTensorIsDurable DEF TensorIsDurable
  <2>4. QED BY <2>3 DEF ReadableTensor, DecodedTensor, Ok
<1>2. DOMAIN list = DOMAIN protos /\ DOMAIN again = DOMAIN protos
      /\ list = [i \in DOMAIN protos |-> list[i]]
  BY DEF Mapped
<1>3. list \in Seq(Tensor)
  <2> DEFINE T == Tensor
  <2> HIDE DEF T
  <2>1. \A i \in 1..Len(protos) : list[i] \in T
    BY <1>1 DEF T
  <2>2. list \in Seq(T)
    BY <1>2, <2>1, IsASeq
  <2>3. QED BY <2>2 DEF T
<1>4. All(ReadableTensor, again)
  BY <1>1, <1>2 DEF All
<1>5. Mapped(DecodedTensor, again) = list
  BY <1>1, <1>2, Zenon DEF Mapped
<1>6. Mapped(DecodeTensor, again) = Mapped(DecodeTensor, protos)
  BY <1>1, <1>2, Zenon DEF Mapped
<1>7. QED BY <1>3, <1>4, <1>5, <1>6

-----------------------------------------------------------------------------
(* Value types.                                                            *)

\* Apart from denotations, a layer is written as it was read.
LEMMA PlainLayerKept ==
  ASSUME NEW p, p.value \in WireLayer,
         NEW q, q.value = EncodeLayer(DecodeLayer(p.value))
  PROVE  PlainLayer(q) = PlainLayer(p)
<1> DEFINE l == p.value
           s == l.shape
           v == EncodeShape(DecodeShape(s))
<1>1. /\ q.value.kind = l.kind
      /\ l.kind \notin TensorKinds => q.value = l
      /\ l.kind \in TensorKinds => s \in ShapeWith(WireDim) /\ q.value = [l EXCEPT !.shape = v]
  BY LayerKeeps
<1>2. CASE l.kind \notin TensorKinds
  BY <1>1, <1>2 DEF PlainLayer
<1>3. CASE l.kind \in TensorKinds
  <2>1. l = TensorOf(l.kind, l.elem, s)
    BY <1>3, LayerKinds DEF WireLayer, LeafKinds, TensorKinds
  <2>2. /\ v.ranked = s.ranked
        /\ ~s.ranked => v = s
        /\ s.ranked => /\ v = Ranked(v.dims) /\ s = Ranked(s.dims)
                       /\ DOMAIN v.dims = DOMAIN s.dims
                       /\ \A i \in DOMAIN s.dims : v.dims[i].value = s.dims[i].value
    BY <1>1, <1>3, ShapeKeeps
  <2> HIDE DEF v
  <2>3. PlainShape(v) = PlainShape(s)
    BY <2>2 DEF PlainShape
  <2>4. q.value = TensorOf(l.kind, l.elem, v)
    BY <1>1, <1>3, <2>1 DEF TensorOf
  <2> HIDE DEF l, s
  <2>5. /\ PlainLayer(p) = [l EXCEPT !.shape = PlainShape(s)]
        /\ PlainLayer(q) = [q.value EXCEPT !.shape = PlainShape(v)]
    BY <1>1, <1>3, <2>1, <2>4 DEF PlainLayer, TensorOf, l
  <2>6. QED BY <2>1, <2>3, <2>4, <2>5 DEF TensorOf
<1>4. QED BY <1>2, <1>3

\* What each conversion makes of a value, with a type and without.
LEMMA InfoFields ==
  ASSUME NEW name, NEW type, NEW metadata
  PROVE  LET Kept(t) == [name |-> name, type |-> t]
             Written(t, data) == [name |-> name, type |-> t, metadata |-> data]
         IN
         /\ DecodeValueInfo(Written(Untyped, metadata)) = Kept(Untyped)
         /\ EncodeValueInfo(Kept(Untyped)) = Written(Untyped, NoMetadata)
         /\ InfoMeaning(Written(Untyped, metadata)) = Kept(Untyped)
         /\ ReadableInfo(Written(Untyped, metadata))
         /\ DecodeValueInfo(Written(Typed(type), metadata)) = Kept(Typed(DecodeValueType(type)))
         /\ EncodeValueInfo(Kept(Typed(type))) = Written(Typed(EncodeValueType(type)), NoMetadata)
         /\ InfoMeaning(Written(Typed(type), metadata)) = Kept(Typed(Mapped(PlainLayer, type)))
         /\ ReadableInfo(Written(Typed(type), metadata)) <=> ReadableType(type)
<1> DEFINE u == Untyped
           t == Typed(type)
<1>1. u.given = FALSE /\ t.given = TRUE /\ t.type = type
  BY DEF Untyped, Typed
<1> HIDE DEF u, t
<1>2. \A x, y : (IF u.given THEN x ELSE y) = y /\ (IF t.given THEN x ELSE y) = x
  BY <1>1
<1>3. /\ DecodeValueInfo([name |-> name, type |-> u, metadata |-> metadata])
           = [name |-> name, type |-> Untyped]
      /\ DecodeValueInfo([name |-> name, type |-> t, metadata |-> metadata])
           = [name |-> name, type |-> Typed(DecodeValueType(type))]
  BY <1>1, <1>2 DEF DecodeValueInfo
<1>4. /\ EncodeValueInfo([name |-> name, type |-> u])
           = [name |-> name, type |-> Untyped, metadata |-> NoMetadata]
      /\ EncodeValueInfo([name |-> name, type |-> t])
           = [name |-> name, type |-> Typed(EncodeValueType(type)), metadata |-> NoMetadata]
  BY <1>1, <1>2 DEF EncodeValueInfo
<1>5. /\ InfoMeaning([name |-> name, type |-> u, metadata |-> metadata])
           = [name |-> name, type |-> Untyped]
      /\ InfoMeaning([name |-> name, type |-> t, metadata |-> metadata])
           = [name |-> name, type |-> Typed(Mapped(PlainLayer, type))]
  BY <1>1, <1>2 DEF InfoMeaning
<1>6. /\ ReadableInfo([name |-> name, type |-> u, metadata |-> metadata])
      /\ ReadableInfo([name |-> name, type |-> t, metadata |-> metadata]) <=> ReadableType(type)
  BY <1>1 DEF ReadableInfo
<1>7. QED BY <1>3, <1>4, <1>5, <1>6, Zenon DEF u, t

\* A value of a graph is read again as it was, and is written as the file has it.
LEMMA InfoKeeps ==
  ASSUME NEW p \in ValueInfoProto, ReadableInfo(p),
         NEW m, m = DecodeValueInfo(p), NEW q, q = EncodeValueInfo(m)
  PROVE  /\ m \in ValueInfo /\ ReadableInfo(q) /\ DecodeValueInfo(q) = m
         /\ InfoMeaning(q) = InfoMeaning(p)
<1> DEFINE name == p.name
           data == p.metadata
           t == p.type.type
           v == DecodeValueType(t)
           w == EncodeValueType(v)
<1>1. /\ name \in STRING
      /\ \/ p = [name |-> name, type |-> Untyped, metadata |-> data]
         \/ /\ p = [name |-> name, type |-> Typed(t), metadata |-> data]
            /\ t \in TypeProto
  BY DEF ValueInfoProto, MaybeTyped, Typed
<1> HIDE DEF name, t, data
<1>2. CASE p = [name |-> name, type |-> Untyped, metadata |-> data]
  <2>1. m = [name |-> name, type |-> Untyped]
    BY <1>2, InfoFields
  <2>2. q = [name |-> name, type |-> Untyped, metadata |-> NoMetadata]
    BY <2>1, InfoFields
  <2>3. m \in ValueInfo
    BY <1>1, <2>1 DEF ValueInfo, MaybeTyped
  <2>4. ReadableInfo(q) /\ DecodeValueInfo(q) = m
    BY <2>1, <2>2, InfoFields
  <2>5. InfoMeaning(q) = m
    BY <2>1, <2>2, InfoFields
  <2>6. InfoMeaning(p) = m
    BY <1>2, <2>1, InfoFields
  <2>7. QED BY <2>3, <2>4, <2>5, <2>6
<1>3. CASE p = [name |-> name, type |-> Typed(t), metadata |-> data] /\ t \in TypeProto
  <2>1. ReadableType(t)
    BY <1>3, InfoFields
  <2>2. /\ v \in ValueType /\ ReadableType(w) /\ DecodeValueType(w) = v
        /\ DOMAIN w = DOMAIN t
        /\ \A i \in DOMAIN t : w[i].value = EncodeLayer(DecodeLayer(t[i].value))
    BY <1>3, <2>1, TypeKeeps
  <2>3. \A i \in DOMAIN t : t[i].value \in WireLayer
    BY <1>3, LayersOfType
  <2>4. m = [name |-> name, type |-> Typed(v)]
    BY <1>3, InfoFields
  <2>5. q = [name |-> name, type |-> Typed(w), metadata |-> NoMetadata]
    BY <2>4, InfoFields
  <2> HIDE DEF v, w
  <2>6. DecodeValueInfo(q) = m /\ ReadableInfo(q)
    <3>1. DecodeValueInfo(q) = [name |-> name, type |-> Typed(DecodeValueType(w))]
      BY <2>5, InfoFields
    <3>2. q.type.given /\ q.type.type = w
      BY <2>5 DEF Typed
    <3>3. ReadableInfo(q)
      BY <2>2, <3>2 DEF ReadableInfo
    <3>4. QED BY <2>2, <2>4, <3>1, <3>3
  <2>7. m \in ValueInfo
    BY <1>1, <2>2, <2>4 DEF ValueInfo, MaybeTyped, Typed
  <2>8. InfoMeaning(q) = InfoMeaning(p)
    <3>1. \A i \in DOMAIN t : PlainLayer(w[i]) = PlainLayer(t[i])
      BY <2>2, <2>3, PlainLayerKept
    <3>2. Mapped(PlainLayer, w) = Mapped(PlainLayer, t)
      BY <2>2, <3>1, Zenon DEF Mapped
    <3>3. InfoMeaning(p) = [name |-> name, type |-> Typed(Mapped(PlainLayer, t))]
      BY <1>3, InfoFields
    <3>4. InfoMeaning(q) = [name |-> name, type |-> Typed(Mapped(PlainLayer, w))]
      BY <2>5, InfoFields
    <3>5. QED BY <3>2, <3>3, <3>4
  <2>9. QED BY <2>6, <2>7, <2>8
<1>4. QED BY <1>1, <1>2, <1>3

LEMMA EncodedInfoType ==
  ASSUME NEW m \in ValueInfo
  PROVE  EncodeValueInfo(m) \in ValueInfoProto
<1> DEFINE name == m.name
           v == m.type.type
<1>1. /\ name \in STRING
      /\ \/ m = [name |-> name, type |-> Untyped]
         \/ m = [name |-> name, type |-> Typed(v)] /\ v \in ValueType
  BY DEF ValueInfo, MaybeTyped, Typed
<1> HIDE DEF name, v
<1>2. CASE m = [name |-> name, type |-> Untyped]
  <2>1. EncodeValueInfo(m) = [name |-> name, type |-> Untyped, metadata |-> NoMetadata]
    BY <1>2, InfoFields
  <2>2. QED BY <1>1, <2>1 DEF ValueInfoProto, MaybeTyped, NoMetadata
<1>3. CASE m = [name |-> name, type |-> Typed(v)] /\ v \in ValueType
  <2> DEFINE w == EncodeValueType(v)
  <2>1. EncodeValueInfo(m) = [name |-> name, type |-> Typed(w), metadata |-> NoMetadata]
    BY <1>3, InfoFields
  <2>2. w \in TypeProto
    BY <1>3, EncodedTypeType
  <2> HIDE DEF w
  <2>3. QED BY <1>1, <2>1, <2>2 DEF ValueInfoProto, MaybeTyped, Typed, NoMetadata
<1>4. QED BY <1>1, <1>2, <1>3

LEMMA InfosKeep ==
  ASSUME NEW protos \in Seq(ValueInfoProto), All(ReadableInfo, protos),
         NEW list, list = Mapped(DecodeValueInfo, protos),
         NEW again, again = Mapped(EncodeValueInfo, list)
  PROVE  /\ list \in Seq(ValueInfo)
         /\ All(ReadableInfo, again) /\ Mapped(DecodeValueInfo, again) = list
         /\ Mapped(InfoMeaning, again) = Mapped(InfoMeaning, protos)
<1> DEFINE S == ValueInfoProto
           T == ValueInfo
<1>1. ASSUME NEW i \in DOMAIN protos
      PROVE  /\ list[i] \in T /\ ReadableInfo(again[i]) /\ DecodeValueInfo(again[i]) = list[i]
             /\ InfoMeaning(again[i]) = InfoMeaning(protos[i])
  <2> HIDE DEF S
  <2>1. protos[i] \in S /\ ReadableInfo(protos[i])
    BY ElementOfSeq, LenProperties DEF All, S
  <2>2. list[i] = DecodeValueInfo(protos[i]) /\ again[i] = EncodeValueInfo(list[i])
    BY DEF Mapped
  <2>3. QED BY <2>1, <2>2, InfoKeeps DEF S
<1> HIDE DEF S, T
<1>2. DOMAIN list = DOMAIN protos /\ DOMAIN again = DOMAIN protos
      /\ list = [i \in DOMAIN protos |-> list[i]]
  BY DEF Mapped
<1>3. list \in Seq(T)
  <2>1. protos \in Seq(S) /\ ByPlace(protos, list, T)
    BY <1>1, <1>2 DEF ByPlace, S
  <2>2. QED BY <2>1, SeqByPlace
<1>4. All(ReadableInfo, again)
  BY <1>1, <1>2 DEF All
<1>5. Mapped(DecodeValueInfo, again) = list
  BY <1>1, <1>2, Zenon DEF Mapped
<1>6. Mapped(InfoMeaning, again) = Mapped(InfoMeaning, protos)
  BY <1>1, <1>2, Zenon DEF Mapped
<1>7. QED BY <1>3, <1>4, <1>5, <1>6 DEF T

-----------------------------------------------------------------------------
(* Graphs.                                                                 *)

\* A sparse initializer is kept as its bytes, and these decode.
LEMMA SparseKeep ==
  ASSUME NEW protos \in Seq(SparseMessage), NEW list, list = Mapped(DecodeSparse, protos)
  PROVE  /\ list \in Seq([name : Text, proto : Bytes(SparseMessage)])
         /\ Mapped(EncodeSparse, list) = protos
<1> DEFINE S == SparseMessage
           T == [name : Text, proto : Bytes(SparseMessage)]
<1>1. ASSUME NEW i \in DOMAIN protos
      PROVE  list[i] \in T /\ EncodeSparse(list[i]) = protos[i]
  <2>1. protos[i] \in S
    BY ElementOfSeq, LenProperties
  <2>2. list[i] = [name |-> protos[i].name, proto |-> BytesOf(protos[i])]
    BY DEF Mapped, DecodeSparse
  <2>3. BytesOf(protos[i]) \in Bytes(SparseMessage)
    BY <2>1 DEF BytesOf, Bytes
  <2>4. EncodeSparse(list[i]) = protos[i]
    BY <2>2 DEF EncodeSparse, MessageIn, BytesOf
  <2>5. protos[i].name \in Text
    BY <2>1 DEF SparseMessage
  <2>6. QED BY <2>2, <2>3, <2>4, <2>5
<1> HIDE DEF S, T
<1>2. DOMAIN list = DOMAIN protos /\ list = [i \in DOMAIN protos |-> list[i]]
  BY DEF Mapped
<1>3. protos = [i \in DOMAIN protos |-> protos[i]]
  BY LenProperties
<1>4. protos \in Seq(S) /\ ByPlace(protos, list, T)
  BY <1>1, <1>2 DEF ByPlace, S
<1>5. list \in Seq(T)
  BY <1>4, SeqByPlace
<1>6. Mapped(EncodeSparse, list) = protos
  BY <1>1, <1>2, <1>3, Zenon DEF Mapped
<1>7. QED BY <1>5, <1>6 DEF T

\* Two graphs of files that say the same, as MeaningOf has it.
SaysTheSame(q, p) ==
  /\ Mapped(NodeMeaning, q.nodes) = Mapped(NodeMeaning, p.nodes)
  /\ Mapped(DecodeTensor, q.initializers) = Mapped(DecodeTensor, p.initializers)
  /\ q.sparse = p.sparse
  /\ \A l \in ValueLists : Mapped(InfoMeaning, q.values[l]) = Mapped(InfoMeaning, p.values[l])
  /\ Mapped(DecodeAnnotation, q.annotations) = Mapped(DecodeAnnotation, p.annotations)

\* A graph that can be read.
LEMMA ReadableGraph ==
  ASSUME NEW p
  PROVE  GraphOutcome(p) = "Ok" <=>
           /\ All(ReadableTensor, p.initializers)
           /\ All(Readable, p.nodes)
           /\ \A l \in ValueLists : All(ReadableInfo, p.values[l])
BY DEF GraphOutcome

LEMMA GraphKeeps ==
  ASSUME NEW p, IsGraphProto(p), GraphOutcome(p) = "Ok",
         NEW g, g = DecodeGraph(p), NEW q, q = EncodeGraph(g)
  PROVE  IsGraph(g) /\ GraphOutcome(q) = "Ok" /\ DecodeGraph(q) = g /\ SaysTheSame(q, p)
<1>1. /\ All(ReadableTensor, p.initializers) /\ All(Readable, p.nodes)
      /\ \A l \in ValueLists : All(ReadableInfo, p.values[l])
  BY ReadableGraph
<1>2. /\ g.nodes = Mapped(DecodeNode, p.nodes)
      /\ g.initializers = Mapped(DecodedTensor, p.initializers)
      /\ g.sparse = Mapped(DecodeSparse, p.sparse)
      /\ g.values = [l \in ValueLists |-> Mapped(DecodeValueInfo, p.values[l])]
      /\ g.annotations = Mapped(DecodeAnnotation, p.annotations)
      /\ g = [nodes |-> g.nodes, initializers |-> g.initializers, sparse |-> g.sparse,
              values |-> g.values, annotations |-> g.annotations]
  BY DEF DecodeGraph
<1>3. /\ q.nodes = Mapped(EncodeNode, g.nodes)
      /\ q.initializers = Mapped(EncodeTensor, g.initializers)
      /\ q.sparse = Mapped(EncodeSparse, g.sparse)
      /\ q.values = [l \in ValueLists |-> Mapped(EncodeValueInfo, g.values[l])]
      /\ q.annotations = Mapped(EncodeAnnotation, g.annotations)
  BY DEF EncodeGraph
<1>4. DecodeGraph(q) =
        [nodes |-> Mapped(DecodeNode, q.nodes),
         initializers |-> Mapped(DecodedTensor, q.initializers),
         sparse |-> Mapped(DecodeSparse, q.sparse),
         values |-> [l \in ValueLists |-> Mapped(DecodeValueInfo, q.values[l])],
         annotations |-> Mapped(DecodeAnnotation, q.annotations)]
  BY DEF DecodeGraph
<1>5. /\ g.nodes \in Seq(Node)
      /\ All(Readable, q.nodes) /\ Mapped(DecodeNode, q.nodes) = g.nodes
      /\ Mapped(NodeMeaning, q.nodes) = Mapped(NodeMeaning, p.nodes)
  BY <1>1, <1>2, <1>3, NodesKeep DEF IsGraphProto
<1>6. /\ g.initializers \in Seq(Tensor)
      /\ All(ReadableTensor, q.initializers)
      /\ Mapped(DecodedTensor, q.initializers) = g.initializers
      /\ Mapped(DecodeTensor, q.initializers) = Mapped(DecodeTensor, p.initializers)
  <2> DEFINE protos == p.initializers
  <2>1. /\ Len(protos) \in Nat /\ DOMAIN protos = 1..Len(protos)
        /\ \A i \in DOMAIN protos : IsTensorProto(protos[i])
        /\ All(ReadableTensor, protos)
    BY <1>1 DEF IsGraphProto
  <2>2. g.initializers = Mapped(DecodedTensor, protos)
        /\ q.initializers = Mapped(EncodeTensor, g.initializers)
    BY <1>2, <1>3
  <2> HIDE DEF protos
  <2>3. /\ g.initializers \in Seq(Tensor)
        /\ All(ReadableTensor, q.initializers)
        /\ Mapped(DecodedTensor, q.initializers) = g.initializers
        /\ Mapped(DecodeTensor, q.initializers) = Mapped(DecodeTensor, protos)
    BY <2>1, <2>2, TensorsKeep
  <2>4. QED BY <2>3 DEF protos
<1>7. /\ g.sparse \in Seq([name : Text, proto : Bytes(SparseMessage)])
      /\ q.sparse = p.sparse
  BY <1>2, <1>3, SparseKeep DEF IsGraphProto
<1>8. ASSUME NEW l \in ValueLists
      PROVE  /\ g.values[l] \in Seq(ValueInfo)
             /\ All(ReadableInfo, q.values[l])
             /\ Mapped(DecodeValueInfo, q.values[l]) = g.values[l]
             /\ Mapped(InfoMeaning, q.values[l]) = Mapped(InfoMeaning, p.values[l])
  <2>1. /\ p.values[l] \in Seq(ValueInfoProto) /\ All(ReadableInfo, p.values[l])
        /\ g.values[l] = Mapped(DecodeValueInfo, p.values[l])
        /\ q.values[l] = Mapped(EncodeValueInfo, g.values[l])
    BY <1>1, <1>2, <1>3 DEF IsGraphProto
  <2>2. QED BY <2>1, InfosKeep
<1>9. Mapped(DecodeAnnotation, q.annotations) = g.annotations
  <2>1. /\ DOMAIN q.annotations = DOMAIN g.annotations
        /\ \A i \in DOMAIN g.annotations :
             q.annotations[i] = EncodeAnnotation(g.annotations[i])
    BY <1>3 DEF Mapped
  <2>2. \A x : DecodeAnnotation(EncodeAnnotation(x)) = x
    BY DEF DecodeAnnotation, EncodeAnnotation
  <2>3. g.annotations = [i \in DOMAIN g.annotations |-> g.annotations[i]]
    BY <1>2 DEF Mapped
  <2>4. QED BY <2>1, <2>2, <2>3, Zenon DEF Mapped
<1>10. [l \in ValueLists |-> Mapped(DecodeValueInfo, q.values[l])] = g.values
  BY <1>2, <1>8, Zenon
<1>11. IsGraph(g)
  <2>1. g.values \in [ValueLists -> Seq(ValueInfo)]
    BY <1>2, <1>8
  <2>2. QED BY <1>5, <1>6, <1>7, <2>1 DEF IsGraph
<1>12. GraphOutcome(q) = "Ok"
  BY <1>5, <1>6, <1>8, ReadableGraph
<1>13. DecodeGraph(q) = g
  <2>1. Mapped(DecodeSparse, q.sparse) = g.sparse
    BY <1>2, <1>7
  <2>2. QED BY <1>2, <1>4, <1>5, <1>6, <1>9, <1>10, <2>1
<1>14. SaysTheSame(q, p)
  BY <1>2, <1>5, <1>6, <1>7, <1>8, <1>9 DEF SaysTheSame
<1>15. QED BY <1>11, <1>12, <1>13, <1>14

\* Whatever bytes decode to, or do not, there is a message.
LEMMA SomeMessage ==
  ASSUME NEW S, NEW bytes \in Bytes(S), NEW default \in S
  PROVE  MessageIn(bytes, default) \in S
<1>1. CASE bytes \in [decodes : {TRUE}, message : S]
  <2>1. bytes.decodes = TRUE /\ bytes.message \in S
    BY <1>1
  <2>2. QED BY <2>1 DEF MessageIn
<1>2. CASE bytes = [decodes |-> FALSE]
  <2>1. bytes.decodes = FALSE
    BY <1>2
  <2>2. QED BY <2>1 DEF MessageIn
<1>3. QED BY <1>1, <1>2 DEF Bytes

\* A graph is written as a graph of files.
LEMMA EncodedGraphType ==
  ASSUME NEW g, IsGraph(g)
  PROVE  IsGraphProto(EncodeGraph(g))
<1> DEFINE q == EncodeGraph(g)
<1>1. q.nodes \in Seq(FileNode)
  <2> DEFINE S == Node
             T == FileNode
             list == g.nodes
             written == Mapped(EncodeNode, list)
  <2>1. list \in Seq(S)
    BY DEF IsGraph
  <2>2. ASSUME NEW i \in DOMAIN list
        PROVE  written[i] \in T
    <3> HIDE DEF list
    <3>1. list[i] \in Node
      BY <2>1, ElementOfSeq, LenProperties
    <3>2. QED BY <3>1, EncodedNodeType DEF Mapped
  <2> HIDE DEF S, T
  <2>3. ByPlace(list, written, T)
    BY <2>2 DEF ByPlace, Mapped
  <2> HIDE DEF written, list
  <2>4. written \in Seq(T)
    BY <2>1, <2>3, SeqByPlace
  <2>5. QED BY <2>4 DEF T, EncodeGraph, written, list
<1>2. /\ Len(q.initializers) \in Nat
      /\ DOMAIN q.initializers = 1..Len(q.initializers)
      /\ \A i \in DOMAIN q.initializers : IsTensorProto(q.initializers[i])
  <2> DEFINE S == Tensor
             list == g.initializers
             written == Mapped(EncodeTensor, list)
  <2>1. list \in Seq(S)
    BY DEF IsGraph
  <2>2. ASSUME NEW i \in DOMAIN list
        PROVE  IsTensorProto(written[i])
    <3> HIDE DEF list
    <3>1. list[i] \in Tensor
      BY <2>1, ElementOfSeq, LenProperties
    <3>2. QED BY <3>1, EncodedTensorType DEF Mapped
  <2>3. DOMAIN written = DOMAIN list
    BY DEF Mapped
  <2>4. q.initializers = written
    BY DEF EncodeGraph
  <2> HIDE DEF written, list, S
  <2>5. Len(list) \in Nat /\ DOMAIN list = 1..Len(list)
    BY <2>1, LenProperties
  <2>6. Len(written) = Len(list)
    BY <2>3, <2>5
  <2>7. QED BY <2>2, <2>3, <2>4, <2>5, <2>6 DEF q
<1>3. q.sparse \in Seq(SparseMessage)
  <2> DEFINE S == [name : Text, proto : Bytes(SparseMessage)]
             T == SparseMessage
             list == g.sparse
             written == Mapped(EncodeSparse, list)
  <2>1. list \in Seq(S)
    BY DEF IsGraph
  <2>2. ASSUME NEW i \in DOMAIN list
        PROVE  written[i] \in T
    <3> HIDE DEF list
    <3>1. list[i].proto \in Bytes(SparseMessage)
      <4> HIDE DEF S
      <4>1. list[i] \in S
        BY <2>1, ElementOfSeq, LenProperties
      <4>2. QED BY <4>1 DEF S
    <3>2. EmptySparse \in SparseMessage
      BY TextsKept DEF EmptySparse, SparseMessage
    <3>3. written[i] = MessageIn(list[i].proto, EmptySparse)
      BY DEF Mapped, EncodeSparse
    <3> HIDE DEF written
    <3>4. QED BY <3>1, <3>2, <3>3, SomeMessage
  <2> HIDE DEF S, T
  <2>3. ByPlace(list, written, T)
    BY <2>2 DEF ByPlace, Mapped
  <2> HIDE DEF written, list
  <2>4. written \in Seq(T)
    BY <2>1, <2>3, SeqByPlace
  <2>5. QED BY <2>4 DEF T, EncodeGraph, written, list
<1>4. ASSUME NEW l \in ValueLists
      PROVE  Mapped(EncodeValueInfo, g.values[l]) \in Seq(ValueInfoProto)
  <2> DEFINE S == ValueInfo
             T == ValueInfoProto
             list == g.values[l]
             written == Mapped(EncodeValueInfo, list)
  <2>1. list \in Seq(S)
    BY DEF IsGraph
  <2>2. ASSUME NEW i \in DOMAIN list
        PROVE  written[i] \in T
    <3> HIDE DEF list
    <3>1. list[i] \in ValueInfo
      <4> HIDE DEF S
      <4>1. list[i] \in S
        BY <2>1, ElementOfSeq, LenProperties
      <4>2. QED BY <4>1 DEF S
    <3>2. written[i] = EncodeValueInfo(list[i])
      BY DEF Mapped
    <3>3. QED BY <3>1, <3>2, EncodedInfoType
  <2> HIDE DEF S, T
  <2>3. ByPlace(list, written, T)
    BY <2>2 DEF ByPlace, Mapped
  <2> HIDE DEF written, list
  <2>4. written \in Seq(T)
    BY <2>1, <2>3, SeqByPlace
  <2>5. QED BY <2>4 DEF T, written, list
<1>5. q.values \in [ValueLists -> Seq(ValueInfoProto)]
  BY <1>4 DEF EncodeGraph
<1> HIDE DEF q
<1>6. IsGraphProto(q)
  BY <1>1, <1>2, <1>3, <1>5 DEF IsGraphProto
<1>7. QED BY <1>6 DEF q

-----------------------------------------------------------------------------
(* Models.                                                                 *)

\* Everything that has to be so for a file to be read.
Accepts(p) ==
  /\ p.ir <= SupportedIr /\ All(Supported, p.imports)
  /\ p.graph.given /\ GraphOutcome(p.graph.graph) = "Ok"

\* What it is then read as.
ReadModel(p) ==
  [ir |-> p.ir, imports |-> p.imports, graph |-> DecodeGraph(p.graph.graph),
   functions |-> Mapped(DecodeFunction, p.functions),
   training |-> Mapped(BytesOf, p.training)]

Reading == {"UnreadableInitializer", "UnreadableNode", "InvalidTypeProto"}

ModelOutcomes ==
  {"Ok", "UnsupportedIrVersion", "UnsupportedOpsetVersion", "Protobuf"} \cup Reading

LEMMA DecodedModel ==
  ASSUME NEW p, p.ir \in Int
  PROVE  /\ DecodeModel(p).outcome \in ModelOutcomes
         /\ Accepts(p) => DecodeModel(p) = [outcome |-> "Ok", model |-> ReadModel(p)]
         /\ DecodeModel(p).outcome = "Ok" => Accepts(p)
<1> DEFINE g == GraphOutcome(p.graph.graph)
<1>1. g \in Reading \cup {"Ok"}
  BY DEF GraphOutcome, Reading
<1> HIDE DEF g
<1>2. CASE ~Accepts(p)
  <2>1. \E reason \in ModelOutcomes \ {"Ok"} : DecodeModel(p) = Failed(reason)
    BY <1>1, <1>2 DEF Accepts, DecodeModel, ModelOutcomes, Reading, SupportedIr, g
  <2>2. QED BY <1>2, <2>1 DEF Failed
<1>3. CASE Accepts(p)
  <2>1. DecodeModel(p) = [outcome |-> "Ok", model |-> ReadModel(p)]
    BY <1>3 DEF Accepts, DecodeModel, ReadModel, SupportedIr
  <2>2. QED BY <1>3, <2>1 DEF ModelOutcomes
<1>4. QED BY <1>2, <1>3

\* Training info is kept as its bytes, and these decode.
LEMMA TrainingKeeps ==
  ASSUME NEW list \in Seq(Nat), NEW kept, kept = Mapped(BytesOf, list)
  PROVE  kept \in Seq(Bytes(Nat)) /\ Mapped(EncodeTraining, kept) = list
<1> DEFINE T == Bytes(Nat)
<1>1. ASSUME NEW i \in DOMAIN list
      PROVE  kept[i] \in T /\ EncodeTraining(kept[i]) = list[i]
  <2>1. list[i] \in Nat /\ kept[i] = [decodes |-> TRUE, message |-> list[i]]
    BY ElementOfSeq, LenProperties DEF Mapped, BytesOf
  <2>2. QED BY <2>1 DEF EncodeTraining, MessageIn, Bytes
<1> HIDE DEF T
<1>2. DOMAIN kept = DOMAIN list /\ kept = [i \in DOMAIN list |-> kept[i]]
  BY DEF Mapped
<1>3. list = [i \in DOMAIN list |-> list[i]]
  BY LenProperties
<1>4. kept \in Seq(T)
  <2>1. ByPlace(list, kept, T)
    BY <1>1, <1>2 DEF ByPlace
  <2>2. QED BY <2>1, SeqByPlace
<1>5. Mapped(EncodeTraining, kept) = list
  BY <1>1, <1>2, <1>3, Zenon DEF Mapped
<1>6. QED BY <1>4, <1>5 DEF T

\* Of a list of functions the names are read, written and read again.
LEMMA FunctionsKeepNames ==
  ASSUME NEW list, NEW read, read = Mapped(DecodeFunction, list),
         NEW written, written = Mapped(EncodeFunction, read)
  PROVE  /\ Mapped(LAMBDA f : f.name, written) = Mapped(LAMBDA f : f.name, list)
         /\ Mapped(LAMBDA f : f.name, read) = Mapped(LAMBDA f : f.name, list)
         /\ Mapped(LAMBDA f : f.name, Mapped(DecodeFunction, written))
              = Mapped(LAMBDA f : f.name, list)
<1> DEFINE reread == Mapped(DecodeFunction, written)
<1>1. \A f : DecodeFunction(f).name = f.name /\ EncodeFunction(f).name = f.name
  BY DEF DecodeFunction, EncodeFunction
<1>2. DOMAIN read = DOMAIN list /\ DOMAIN written = DOMAIN list /\ DOMAIN reread = DOMAIN list
  BY DEF Mapped
<1>3. ASSUME NEW i \in DOMAIN list
      PROVE  /\ read[i].name = list[i].name /\ written[i].name = list[i].name
             /\ reread[i].name = list[i].name
  <2>1. /\ read[i] = DecodeFunction(list[i]) /\ written[i] = EncodeFunction(read[i])
        /\ reread[i] = DecodeFunction(written[i])
    BY <1>2 DEF Mapped
  <2>2. QED BY <1>1, <2>1
<1> HIDE DEF reread
<1>4. /\ Mapped(LAMBDA f : f.name, written) = Mapped(LAMBDA f : f.name, list)
      /\ Mapped(LAMBDA f : f.name, read) = Mapped(LAMBDA f : f.name, list)
      /\ Mapped(LAMBDA f : f.name, reread) = Mapped(LAMBDA f : f.name, list)
  BY <1>2, <1>3 DEF Mapped
<1>5. QED BY <1>4 DEF reread

\* A model that was loaded is one, says what its file says, can be written and loaded
\* again, and is then the same but for the bodies of its functions.
LEMMA LoadedModelKeeps ==
  ASSUME NEW p, IsModelProto(p), Accepts(p),
         NEW m, m = ReadModel(p), NEW q, q = EncodeModel(m)
  PROVE  /\ IsModel(m) /\ Accepts(q)
         /\ ApartFromBodies(ReadModel(q)) = ApartFromBodies(m)
         /\ MeaningOf(q) = MeaningOf(p)
<1> DEFINE proto == p.graph.graph
           g == m.graph
           again == EncodeGraph(g)
<1>1. /\ p.ir <= SupportedIr /\ All(Supported, p.imports)
      /\ p.graph.given /\ GraphOutcome(proto) = "Ok"
      /\ IsGraphProto(proto)
  BY DEF Accepts, IsModelProto
<1>2. /\ m.ir = p.ir /\ m.imports = p.imports /\ g = DecodeGraph(proto)
      /\ m.functions = Mapped(DecodeFunction, p.functions)
      /\ m.training = Mapped(BytesOf, p.training)
  BY DEF ReadModel
<1>3. /\ q.ir = m.ir /\ q.imports = m.imports
      /\ q.graph.given = TRUE /\ q.graph.graph = again
      /\ q.functions = Mapped(EncodeFunction, m.functions)
      /\ q.training = Mapped(EncodeTraining, m.training)
  BY DEF EncodeModel
<1> HIDE DEF again, g, proto
<1>4. /\ IsGraph(g) /\ GraphOutcome(again) = "Ok" /\ DecodeGraph(again) = g
      /\ SaysTheSame(again, proto)
  BY <1>1, <1>2, GraphKeeps DEF again
<1>5. m.training \in Seq(Bytes(Nat)) /\ q.training = p.training
  BY <1>2, <1>3, TrainingKeeps DEF IsModelProto
<1>6. /\ Mapped(LAMBDA f : f.name, q.functions) = Mapped(LAMBDA f : f.name, p.functions)
      /\ Mapped(LAMBDA f : f.name, m.functions) = Mapped(LAMBDA f : f.name, p.functions)
      /\ Mapped(LAMBDA f : f.name, Mapped(DecodeFunction, q.functions))
           = Mapped(LAMBDA f : f.name, p.functions)
  BY <1>2, <1>3, FunctionsKeepNames
<1>7. IsModel(m)
  BY <1>2, <1>4, <1>5 DEF IsModel, IsModelProto, g
<1>8. Accepts(q)
  BY <1>1, <1>2, <1>3, <1>4 DEF Accepts
<1>9. ApartFromBodies(ReadModel(q)) = ApartFromBodies(m)
  <2>1. ApartFromBodies(m) =
          [ir |-> p.ir, imports |-> p.imports, graph |-> g,
           functions |-> Mapped(LAMBDA f : f.name, m.functions), training |-> m.training]
    <3>1. m = [ir |-> p.ir, imports |-> p.imports, graph |-> g,
               functions |-> m.functions, training |-> m.training]
      BY <1>2 DEF ReadModel, proto
    <3>2. QED BY <3>1 DEF ApartFromBodies
  <2>2. ApartFromBodies(ReadModel(q)) =
          [ir |-> q.ir, imports |-> q.imports, graph |-> DecodeGraph(again),
           functions |-> Mapped(LAMBDA f : f.name, Mapped(DecodeFunction, q.functions)),
           training |-> Mapped(BytesOf, q.training)]
    BY <1>3 DEF ApartFromBodies, ReadModel
  <2>3. QED BY <1>2, <1>3, <1>4, <1>5, <1>6, <2>1, <2>2
<1>10. MeaningOf(q) = MeaningOf(p)
  <2>1. [l \in ValueLists |-> Mapped(InfoMeaning, again.values[l])]
          = [l \in ValueLists |-> Mapped(InfoMeaning, proto.values[l])]
    BY <1>4 DEF SaysTheSame
  <2>2. QED BY <1>2, <1>3, <1>4, <1>5, <1>6, <2>1 DEF MeaningOf, SaysTheSame, proto
<1>11. QED BY <1>7, <1>8, <1>9, <1>10

\* A model is written as a file.
LEMMA EncodedModelType ==
  ASSUME NEW m, IsModel(m)
  PROVE  IsModelProto(EncodeModel(m))
<1> DEFINE q == EncodeModel(m)
<1>1. /\ q.ir = m.ir /\ q.imports = m.imports
      /\ q.graph.graph = EncodeGraph(m.graph)
      /\ q.training = Mapped(EncodeTraining, m.training)
  BY DEF EncodeModel
<1>2. IsGraphProto(EncodeGraph(m.graph))
  BY EncodedGraphType DEF IsModel
<1>3. q.training \in Seq(Nat)
  <2> DEFINE S == Bytes(Nat)
             T == Nat
             list == m.training
  <2>1. list \in Seq(S)
    BY DEF IsModel
  <2>2. ASSUME NEW i \in DOMAIN list
        PROVE  q.training[i] \in T
    <3> HIDE DEF list, S, q
    <3>1. list[i] \in S
      BY <2>1, ElementOfSeq, LenProperties
    <3>2. q.training[i] = MessageIn(list[i], NoTraining)
      BY <1>1 DEF Mapped, EncodeTraining, list
    <3>3. QED BY <3>1, <3>2, SomeMessage DEF NoTraining, S
  <2>3. ByPlace(list, q.training, T)
    BY <1>1, <2>2 DEF ByPlace, Mapped
  <2> HIDE DEF S, T, list, q
  <2>4. q.training \in Seq(T)
    BY <2>1, <2>3, SeqByPlace
  <2>5. QED BY <2>4 DEF T
<1> HIDE DEF q
<1>4. IsModelProto(q)
  BY <1>1, <1>2, <1>3 DEF IsModelProto, IsModel
<1>5. QED BY <1>4 DEF q

-----------------------------------------------------------------------------
(* The invariant. A model loaded from a file is what the file is read as,   *)
(* also once it has been saved and the file it came from is gone.           *)

LoadedFrom(p, m) == IsModelProto(p) /\ Accepts(p) /\ m = ReadModel(p)

ModelIsLoaded ==
  source.exists /\ model.outcome = "Ok" => LoadedFrom(source.proto, model.model)

FileIsSaved ==
  saved.saved =>
    /\ file = File(EncodeModel(saved.model))
    /\ saved.source.exists => LoadedFrom(saved.source.proto, saved.model)

ImportIsOfModel ==
  imported.imported =>
    /\ imported.payloads = Mapped(Payload, model.model.graph.nodes)
    /\ imported.warnings = Warnings(model.model)

Inv == TypeOK /\ ModelIsLoaded /\ FileIsSaved /\ ImportIsOfModel

LEMMA Initially == Init => Inv
<1> SUFFICES ASSUME Init
             PROVE  Inv
  OBVIOUS
<1>1. /\ source = NoFile /\ saved = NotSaved /\ imported = NotImported
      /\ ~source.exists /\ ~saved.saved /\ ~imported.imported
  BY DEF Init, NoFile, NotSaved, NotImported
<1>2. CASE /\ model \in {[outcome |-> "Ok", model |-> m] : m \in Built}
           /\ file = NoFile
  <2>1. model.outcome = "Ok" /\ IsModel(model.model)
    BY <1>2, ModelAssumption
  <2>2. ~file.exists
    BY <1>2 DEF NoFile
  <2>3. QED
    BY <1>1, <2>1, <2>2 DEF Inv, TypeOK, ModelIsLoaded, FileIsSaved, ImportIsOfModel
<1>3. CASE /\ model = NoModel
           /\ file \in {File(p) : p \in Foreign}
  <2>1. model.outcome = "NoModel"
    BY <1>3 DEF NoModel, Failed
  <2>2. IsModelProto(file.proto)
    BY <1>3, ModelAssumption DEF File
  <2>3. QED
    BY <1>1, <2>1, <2>2 DEF Inv, TypeOK, ModelIsLoaded, FileIsSaved, ImportIsOfModel
<1>4. QED BY <1>2, <1>3 DEF Init

LEMMA SaveKeeps ==
  ASSUME Inv, Save
  PROVE  Inv'
<1>1. /\ model.outcome = "Ok" /\ IsModel(model.model)
      /\ file' = File(EncodeModel(model.model))
      /\ saved' = [saved |-> TRUE, model |-> model.model, source |-> source]
      /\ UNCHANGED <<model, source, imported>>
  BY DEF Inv, TypeOK, Save
<1>2. IsModelProto(file'.proto)
  BY <1>1, EncodedModelType DEF File
<1>3. TypeOK'
  BY <1>1, <1>2 DEF Inv, TypeOK
<1>4. FileIsSaved'
  BY <1>1 DEF Inv, ModelIsLoaded, FileIsSaved
<1>5. ModelIsLoaded' /\ ImportIsOfModel'
  BY <1>1 DEF Inv, ModelIsLoaded, ImportIsOfModel
<1>6. QED BY <1>3, <1>4, <1>5 DEF Inv

LEMMA LoadKeeps ==
  ASSUME Inv, Load
  PROVE  Inv'
<1> DEFINE p == file.proto
<1>1. /\ IsModelProto(p) /\ p.ir \in Int
      /\ model' = DecodeModel(p) /\ source' = file
      /\ UNCHANGED <<file, saved>>
  BY DEF Inv, TypeOK, Load, IsModelProto
<1>2. ~imported'.imported
  BY DEF Load, NotImported
<1>3. model'.outcome \in ModelOutcomes
  BY <1>1, DecodedModel
<1>4. model'.outcome = "Ok" => Accepts(p) /\ model'.model = ReadModel(p)
  BY <1>1, DecodedModel
<1>5. ASSUME model'.outcome = "Ok"
      PROVE  /\ IsModel(model'.model)
             /\ model'.model.ir <= SupportedIr
             /\ \A i \in DOMAIN model'.model.imports :
                  LET import == model'.model.imports[i] IN
                  /\ import.domain \in CoreNames => import.version <= SupportedOnnxOpset
                  /\ import.domain = "ai.onnx.ml" => import.version <= SupportedMlOpset
  <2>1. Accepts(p) /\ model'.model = ReadModel(p)
    BY <1>4, <1>5
  <2>2. IsModel(model'.model)
    BY <1>1, <2>1, LoadedModelKeeps
  <2>3. QED BY <2>1, <2>2 DEF Accepts, ReadModel, All, Supported
<1>6. TypeOK'
  BY <1>1, <1>2, <1>3, <1>5 DEF Inv, TypeOK, ModelOutcomes, Reading
<1>7. ModelIsLoaded'
  BY <1>1, <1>4 DEF ModelIsLoaded, LoadedFrom
<1>8. FileIsSaved' /\ ImportIsOfModel'
  BY <1>1, <1>2 DEF Inv, FileIsSaved, ImportIsOfModel
<1>9. QED BY <1>6, <1>7, <1>8 DEF Inv

LEMMA ImportKeeps ==
  ASSUME Inv, Import
  PROVE  Inv'
<1>1. /\ model.outcome = "Ok"
      /\ imported'.payloads = Mapped(Payload, model.model.graph.nodes)
      /\ imported'.warnings = Warnings(model.model)
      /\ UNCHANGED <<model, source, file, saved>>
  BY DEF Import
<1>2. TypeOK'
  BY <1>1 DEF Inv, TypeOK
<1>3. ModelIsLoaded' /\ FileIsSaved' /\ ImportIsOfModel'
  BY <1>1 DEF Inv, ModelIsLoaded, FileIsSaved, ImportIsOfModel
<1>4. QED BY <1>2, <1>3 DEF Inv

LEMMA Inductive == Inv /\ [Next]_vars => Inv'
<1> SUFFICES ASSUME Inv, [Next]_vars
             PROVE  Inv'
  OBVIOUS
<1>1. CASE UNCHANGED vars
  <2>1. UNCHANGED <<model, source, file, saved, imported>>
    BY <1>1 DEF vars
  <2>2. TypeOK'
    BY <2>1 DEF Inv, TypeOK
  <2>3. ModelIsLoaded' /\ FileIsSaved' /\ ImportIsOfModel'
    BY <2>1 DEF Inv, ModelIsLoaded, FileIsSaved, ImportIsOfModel
  <2>4. QED BY <2>2, <2>3 DEF Inv
<1>2. QED BY <1>1, SaveKeeps, LoadKeeps, ImportKeeps DEF Next

LEMMA InvHolds == Spec => []Inv
<1>1. QED BY Initially, Inductive, PTL DEF Spec

-----------------------------------------------------------------------------
(* The theorems.                                                           *)

\* Models and files keep their shape through encode_model_proto, Model::try_from and the
\* import, and what was loaded is of versions the decoder supports.
THEOREM ModelsKeepType == Spec => []TypeOK
<1>1. Inv => TypeOK
  BY DEF Inv
<1>2. QED BY <1>1, InvHolds, PTL

\* A loaded model that is saved can be loaded again, and is then the same model.
THEOREM LoadedModelsSurvive == Spec => []LoadedSurvives
<1>1. ASSUME Inv, saved.saved, saved.source.exists
      PROVE  LET again == DecodeModel(file.proto) IN
             again.outcome = "Ok" /\ ApartFromBodies(again.model) = ApartFromBodies(saved.model)
  <2> DEFINE m == saved.model
             q == EncodeModel(m)
  <2>1. file.proto = q /\ LoadedFrom(saved.source.proto, m)
    BY <1>1 DEF Inv, FileIsSaved, File
  <2>2. /\ IsModel(m) /\ Accepts(q)
        /\ ApartFromBodies(ReadModel(q)) = ApartFromBodies(m)
    BY <2>1, LoadedModelKeeps DEF LoadedFrom
  <2>3. q.ir \in Int
    BY <2>2, EncodedModelType DEF IsModelProto
  <2> HIDE DEF q, m
  <2>4. DecodeModel(q) = [outcome |-> "Ok", model |-> ReadModel(q)]
    BY <2>2, <2>3, DecodedModel
  <2>5. QED BY <2>1, <2>2, <2>4 DEF m
<1>2. Inv => LoadedSurvives
  BY <1>1 DEF LoadedSurvives
<1>3. QED BY <1>2, InvHolds, PTL

\* Loading a file and saving it changes nothing the file says that the library has a
\* place for.
THEOREM ResavedModelsKeep == Spec => []ResavedKeeps
<1>1. ASSUME Inv, saved.saved, saved.source.exists
      PROVE  MeaningOf(file.proto) = MeaningOf(saved.source.proto)
  <2>1. /\ file.proto = EncodeModel(saved.model)
        /\ LoadedFrom(saved.source.proto, saved.model)
    BY <1>1 DEF Inv, FileIsSaved, File
  <2>2. QED BY <2>1, LoadedModelKeeps DEF LoadedFrom
<1>2. Inv => ResavedKeeps
  BY <1>1 DEF ResavedKeeps
<1>3. QED BY <1>2, InvHolds, PTL

\* A node of an imported file, and the node it was read as.
LEMMA ImportedNode ==
  ASSUME Inv, imported.imported, source.exists,
         NEW nodes, nodes = source.proto.graph.graph.nodes
  PROVE  /\ DOMAIN imported.payloads = DOMAIN nodes
         /\ DOMAIN model.model.graph.nodes = DOMAIN nodes
         /\ \A i \in DOMAIN nodes :
              /\ nodes[i] \in FileNode /\ Readable(nodes[i])
              /\ ReadAs(nodes[i], model.model.graph.nodes[i])
              /\ imported.payloads[i] = Payload(model.model.graph.nodes[i])
<1> DEFINE list == model.model.graph.nodes
<1>1. LoadedFrom(source.proto, model.model) /\ imported.payloads = Mapped(Payload, list)
  BY DEF Inv, TypeOK, ModelIsLoaded, ImportIsOfModel
<1>2. nodes \in Seq(FileNode) /\ All(Readable, nodes) /\ list = Mapped(DecodeNode, nodes)
  BY <1>1, ReadableGraph
  DEF LoadedFrom, Accepts, ReadModel, DecodeGraph, IsModelProto, IsGraphProto
<1> HIDE DEF list
<1>3. DOMAIN list = DOMAIN nodes /\ DOMAIN imported.payloads = DOMAIN nodes
  BY <1>1, <1>2 DEF Mapped
<1>4. ASSUME NEW i \in DOMAIN nodes
      PROVE  /\ nodes[i] \in FileNode /\ Readable(nodes[i]) /\ ReadAs(nodes[i], list[i])
             /\ imported.payloads[i] = Payload(list[i])
  <2>1. nodes[i] \in FileNode /\ Readable(nodes[i])
    BY <1>2, ElementOfSeq, LenProperties DEF All
  <2>2. list[i] = DecodeNode(nodes[i])
    BY <1>2 DEF Mapped
  <2>3. ReadAs(nodes[i], list[i])
    BY <2>1, <2>2, LoadedNodeKeeps, Zenon
  <2>4. imported.payloads[i] = Payload(list[i])
    BY <1>1, <1>3 DEF Mapped
  <2>5. QED BY <2>1, <2>3, <2>4
<1>5. QED BY <1>3, <1>4 DEF list

\* The import of a node is the node or its struct, and holds each of its attributes.
LEMMA PayloadKeeps ==
  ASSUME NEW f \in FileNode, NEW n, ReadAs(f, n), NEW payload, payload = Payload(n)
  PROVE  /\ f.op = IF payload.raw THEN payload.node.op ELSE payload.struct.op
         /\ \A k \in DOMAIN f.attributes :
              LET attribute == [name |-> f.attributes[k].name,
                                value |-> DecodedAttribute(f, k).value]
              IN
              (attribute.name = "to" => attribute.value.content \in I32) =>
                KeptIn(payload, attribute)
<1>1. /\ n \in Node /\ n.op = f.op /\ DOMAIN n.attributes = DOMAIN f.attributes
      /\ \A k \in DOMAIN f.attributes :
           /\ n.attributes[k].name = f.attributes[k].name
           /\ n.attributes[k].value = DecodedAttribute(f, k).value
  BY DEF ReadAs, ReadFrom
<1>2. CASE Recognised(n)
  <2>1. payload.raw = FALSE /\ payload.struct = StructOf(n)
    BY <1>2 DEF Payload
  <2>2. StructOf(n).op = f.op
    BY <1>1 DEF StructOf
  <2>3. ASSUME NEW k \in DOMAIN f.attributes,
               n.attributes[k].name = "to" => n.attributes[k].value.content \in I32
        PROVE  KeptIn(payload, [name |-> n.attributes[k].name,
                                value |-> n.attributes[k].value])
    <3>1. k \in DOMAIN n.attributes
      BY <1>1
    <3>2. /\ n.attributes[k].name \in DOMAIN StructOf(n).fields
          /\ StructOf(n).fields[n.attributes[k].name] = n.attributes[k].value.content
      BY <1>1, <1>2, <2>3, <3>1, RecognisedFields
    <3>3. QED BY <2>1, <3>2 DEF KeptIn
  <2>4. QED BY <1>1, <2>1, <2>2, <2>3
<1>3. CASE ~Recognised(n)
  <2>1. payload.raw = TRUE /\ payload.node = n
    BY <1>3 DEF Payload
  <2>2. \A k \in DOMAIN f.attributes :
          KeptIn(payload, [name |-> n.attributes[k].name, value |-> n.attributes[k].value])
    BY <1>1, <2>1 DEF KeptIn
  <2>3. QED BY <1>1, <2>1, <2>2
<1>4. QED BY <1>2, <1>3

\* make_node_payload and from_node account for each node of a file and each attribute.
THEOREM ImportsKeepNodes == Spec => []ImportKeepsNodes
<1>1. ASSUME Inv, imported.imported, source.exists
      PROVE  LET nodes == source.proto.graph.graph.nodes IN
             /\ DOMAIN imported.payloads = DOMAIN nodes
             /\ \A i \in DOMAIN nodes :
                  LET payload == imported.payloads[i] IN
                  /\ nodes[i].op = IF payload.raw THEN payload.node.op ELSE payload.struct.op
                  /\ \A k \in DOMAIN nodes[i].attributes :
                       LET attribute == [name |-> nodes[i].attributes[k].name,
                                         value |-> DecodedAttribute(nodes[i], k).value]
                       IN
                       (attribute.name = "to" => attribute.value.content \in I32) =>
                         KeptIn(payload, attribute)
  <2> DEFINE nodes == source.proto.graph.graph.nodes
  <2>1. /\ DOMAIN imported.payloads = DOMAIN nodes
        /\ \A i \in DOMAIN nodes :
             /\ nodes[i] \in FileNode /\ ReadAs(nodes[i], model.model.graph.nodes[i])
             /\ imported.payloads[i] = Payload(model.model.graph.nodes[i])
    BY <1>1, ImportedNode
  <2> HIDE DEF nodes
  <2>2. \A i \in DOMAIN nodes :
          LET payload == imported.payloads[i] IN
          /\ nodes[i].op = IF payload.raw THEN payload.node.op ELSE payload.struct.op
          /\ \A k \in DOMAIN nodes[i].attributes :
               LET attribute == [name |-> nodes[i].attributes[k].name,
                                 value |-> DecodedAttribute(nodes[i], k).value]
               IN
               (attribute.name = "to" => attribute.value.content \in I32) =>
                 KeptIn(payload, attribute)
    BY <2>1, PayloadKeeps
  <2>3. QED BY <2>1, <2>2, Zenon DEF nodes
<1>2. Inv => ImportKeepsNodes
  BY <1>1 DEF ImportKeepsNodes
<1>3. QED BY <1>2, InvHolds, PTL

\* An attribute of a file whose proto holds a graph or graphs is read as one of those
\* kinds, and no operator takes such an attribute.
LEMMA SubgraphIsSeen ==
  ASSUME NEW f \in FileNode, Readable(f), NEW n, ReadAs(f, n),
         NEW k \in DOMAIN f.attributes, NEW s \in SubgraphKinds, f.attributes[k].proto[s] # Unset
  PROVE  k \in SubgraphPlaces(n) /\ n.attributes[k].name = f.attributes[k].name
         /\ Payload(n).raw
<1> DEFINE p == f.attributes[k].proto
           v == DecodeAttribute(p).value
<1>1. /\ n \in Node /\ DOMAIN n.attributes = DOMAIN f.attributes
      /\ n.attributes[k].name = f.attributes[k].name /\ n.attributes[k].value = v
  BY DEF ReadAs, ReadFrom, DecodedAttribute
<1>2. p \in Proto /\ DecodeAttribute(p).outcome = "Ok"
  <2>1. f.attributes \in Seq(FileAttribute)
    BY DEF FileNode
  <2> DEFINE S == FileAttribute
  <2> HIDE DEF S
  <2>2. f.attributes[k] \in S
    BY <2>1, ElementOfSeq, LenProperties DEF S
  <2>3. QED BY <2>2 DEF Readable, DecodedAttribute, FileAttribute, S
<1>3. s \in Present(p)
  BY DEF Present, SubgraphKinds, ReadKinds, Kind, Messages, Lists
<1> HIDE DEF p, v
<1>4. v.kind = s
  <2>1. Present(p) = {v.kind}
    BY <1>2, DecodedAttributeKeeps DEF v
  <2>2. QED BY <1>3, <2>1
<1>5. k \in SubgraphPlaces(n) /\ n.attributes[k].name = f.attributes[k].name
  BY <1>1, <1>4 DEF SubgraphPlaces
<1>6. ~Recognised(n)
  <2>1. n.attributes[k].value.kind \notin TypedKinds
    BY <1>1, <1>4 DEF SubgraphKinds, TypedKinds
  <2>2. k \in DOMAIN n.attributes
    BY <1>1
  <2>3. QED BY <1>1, <2>1, <2>2, RecognisedFields
<1>7. Payload(n).raw
  BY <1>6 DEF Payload
<1>8. QED BY <1>5, <1>7

\* collect_warnings passes over nothing of a file that stays raw: no subgraph, no
\* function and no training info; and a node with a subgraph is never typed.
THEOREM OpaquePartsAreWarnedOf == Spec => []OpaquePartsAreReported
<1>1. ASSUME Inv, imported.imported, source.exists
      PROVE  LET proto == source.proto
                 nodes == proto.graph.graph.nodes
             IN
             /\ \A i \in DOMAIN nodes : \A k \in DOMAIN nodes[i].attributes :
                  LET attribute == nodes[i].attributes[k] IN
                  (\E s \in SubgraphKinds : attribute.proto[s] # Unset) =>
                    /\ SubgraphWarning(i, attribute.name) \in imported.warnings
                    /\ imported.payloads[i].raw
             /\ \A i \in DOMAIN proto.functions :
                  FunctionWarning(proto.functions[i].name) \in imported.warnings
             /\ \A i \in DOMAIN proto.training : TrainingWarning(i) \in imported.warnings
  <2> DEFINE proto == source.proto
             nodes == proto.graph.graph.nodes
             m == model.model
  <2>1. imported.warnings = Warnings(m) /\ m = ReadModel(proto)
    BY <1>1 DEF Inv, TypeOK, ModelIsLoaded, ImportIsOfModel, LoadedFrom
  <2>2. ASSUME NEW i \in DOMAIN nodes, NEW k \in DOMAIN nodes[i].attributes,
               NEW s \in SubgraphKinds, nodes[i].attributes[k].proto[s] # Unset
        PROVE  /\ SubgraphWarning(i, nodes[i].attributes[k].name) \in imported.warnings
               /\ imported.payloads[i].raw
    <3> DEFINE n == m.graph.nodes[i]
    <3>1. /\ nodes[i] \in FileNode /\ Readable(nodes[i]) /\ ReadAs(nodes[i], n)
          /\ imported.payloads[i] = Payload(n) /\ i \in DOMAIN m.graph.nodes
      BY <1>1, ImportedNode
    <3>2. /\ k \in SubgraphPlaces(n) /\ n.attributes[k].name = nodes[i].attributes[k].name
          /\ Payload(n).raw
      <4> HIDE DEF nodes, n
      <4>1. QED BY <2>2, <3>1, SubgraphIsSeen
    <3>3. SubgraphWarning(i, n.attributes[k].name) \in SubgraphWarnings(m.graph.nodes)
      <4> DEFINE seen == {SubgraphWarning(i, n.attributes[j].name) : j \in SubgraphPlaces(n)}
      <4>1. SubgraphWarning(i, n.attributes[k].name) \in seen
        BY <3>2
      <4>2. SubgraphWarnings(m.graph.nodes)
              = UNION {{SubgraphWarning(h, m.graph.nodes[h].attributes[j].name) :
                          j \in SubgraphPlaces(m.graph.nodes[h])} : h \in DOMAIN m.graph.nodes}
        BY Zenon DEF SubgraphWarnings
      <4> HIDE DEF nodes, m
      <4>3. seen \in {{SubgraphWarning(h, m.graph.nodes[h].attributes[j].name) :
                          j \in SubgraphPlaces(m.graph.nodes[h])} : h \in DOMAIN m.graph.nodes}
        BY <3>1
      <4> HIDE DEF seen
      <4>4. QED BY <4>1, <4>2, <4>3
    <3>4. QED BY <2>1, <3>1, <3>2, <3>3 DEF Warnings
  <2>3. ASSUME NEW i \in DOMAIN proto.functions
        PROVE  FunctionWarning(proto.functions[i].name) \in imported.warnings
    <3>1. i \in DOMAIN m.functions /\ m.functions[i].name = proto.functions[i].name
      BY <2>1 DEF ReadModel, Mapped, DecodeFunction
    <3>2. QED BY <2>1, <3>1 DEF Warnings
  <2>4. ASSUME NEW i \in DOMAIN proto.training
        PROVE  TrainingWarning(i) \in imported.warnings
    <3>1. i \in DOMAIN m.training
      BY <2>1 DEF ReadModel, Mapped
    <3>2. QED BY <2>1, <3>1 DEF Warnings
  <2>5. QED BY <2>2, <2>3, <2>4
<1>2. Inv => OpaquePartsAreReported
  BY <1>1 DEF OpaquePartsAreReported
<1>3. QED BY <1>2, InvHolds, PTL

=============================================================================
