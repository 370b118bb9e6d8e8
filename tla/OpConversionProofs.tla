-------------------------- MODULE OpConversionProofs --------------------------
(***************************************************************************)
(* Theorems of OpConversion: of all 19 operators, and of every derived     *)
(* struct, what is written is recognised as what it was, what is           *)
(* recognised can be written, and no attribute is lost on the way.         *)
(***************************************************************************)
EXTENDS OpConversion, CodecLemmas

-----------------------------------------------------------------------------
(* The schemas, and what the two directions need of them.                  *)

\* What is always written includes what is asked for on reading; a field that may not be
\* empty is a list and asked for; a field always written that is not asked for is one of
\* the arrays in parallel.
IsSound(schema) ==
  /\ schema.plain \subseteq DOMAIN schema.attrs
  /\ schema.required \subseteq schema.plain
  /\ schema.filled \subseteq schema.required
  /\ schema.filledOnRead \subseteq schema.filled
  /\ \A a \in schema.filled : schema.attrs[a] = "Floats"
  /\ \A a \in schema.plain \ schema.required :
       \E g \in schema.parallel : a = g.lead \/ a \in g.others
  /\ "to" \in DOMAIN schema.attrs => schema.attrs["to"] = "Int" /\ "to" \in schema.required
  /\ schema.inputs \subseteq Nat
  /\ schema.outputs \in Nat

\* The schema of trees that end in the arrays of a group.
IsTree(s, ends, group) ==
  /\ s.plain = TreeArrays \cup ends
  /\ s.required = {} /\ s.filled = {} /\ s.filledOnRead = {}
  /\ s.inputs = {1} /\ s.outputs \in Nat
  /\ s.parallel = {NodesParallel, group}
  /\ DOMAIN TreeNodes \cup ends \subseteq DOMAIN s.attrs /\ "to" \notin DOMAIN s.attrs

LEMMA TreeIsSound ==
  ASSUME NEW s, NEW ends, NEW group, IsTree(s, ends, group),
         \A a \in ends : a = group.lead \/ a \in group.others
  PROVE  IsSound(s)
<1>1. \A a \in TreeArrays : /\ a \in DOMAIN TreeNodes
                            /\ a = NodesParallel.lead \/ a \in NodesParallel.others
  BY DEF TreeArrays, TreeNodes, NodesParallel
<1>2. s.plain \subseteq DOMAIN s.attrs
  BY <1>1 DEF IsTree
<1>3. \A a \in s.plain : \E g \in s.parallel : a = g.lead \/ a \in g.others
  BY <1>1 DEF IsTree
<1>4. QED BY <1>2, <1>3 DEF IsSound, IsTree

LEMMA SchemasAreSound ==
  ASSUME NEW op \in DOMAIN Schemas
  PROVE  IsSound(Schemas[op])
<1>1. IsSound(Scaler) /\ IsSound(Imputer) /\ IsSound(Normalizer)
  BY DEF IsSound, Op, One, Scaler, Imputer, Normalizer
<1>2. IsSound(LabelEncoder)
  BY DEF IsSound, Op, One, LabelEncoder
<1>3. IsSound(OneHotEncoder) /\ IsSound(DictVectorizer) /\ IsSound(FeatureVectorizer)
  BY DEF IsSound, Op, One, Several, OneHotEncoder, DictVectorizer, FeatureVectorizer
<1>4. IsSound(LinearClassifier)
  BY DEF IsSound, Op, One, LinearClassifier, ClassLabels, Joined
<1>5. IsSound(LinearRegressor)
  BY DEF IsSound, Op, One, LinearRegressor
<1>6. IsSound(SvmClassifier)
  BY DEF IsSound, Op, One, SvmClassifier, SvmCommon, ClassLabels, Joined
<1>7. IsSound(SvmRegressor)
  BY DEF IsSound, Op, One, SvmRegressor, SvmCommon, Joined
<1>8. IsSound(TreeEnsembleClassifier)
  <2> DEFINE ends == {"class_ids", "class_nodeids", "class_treeids"}
             group == [lead |-> "class_ids",
                       others |-> {"class_nodeids", "class_treeids", "class_weights"}]
  <2>1. IsTree(TreeEnsembleClassifier, ends, group)
    BY DEF IsTree, TreeEnsembleClassifier, Op, One, TreeNodes, Joined
  <2>2. \A a \in ends : a = group.lead \/ a \in group.others
    OBVIOUS
  <2> HIDE DEF ends, group
  <2>3. QED BY <2>1, <2>2, TreeIsSound
<1>9. IsSound(TreeEnsembleRegressor)
  <2> DEFINE ends == {"target_ids", "target_nodeids", "target_treeids"}
             group == [lead |-> "target_ids",
                       others |-> {"target_nodeids", "target_treeids", "target_weights"}]
  <2>1. IsTree(TreeEnsembleRegressor, ends, group)
    BY DEF IsTree, TreeEnsembleRegressor, Op, One, TreeNodes, Joined
  <2>2. \A a \in ends : a = group.lead \/ a \in group.others
    OBVIOUS
  <2> HIDE DEF ends, group
  <2>3. QED BY <2>1, <2>2, TreeIsSound
<1>10. IsSound(ZipMap) /\ IsSound(Cast) /\ IsSound(Reshape)
  BY DEF IsSound, Op, One, ZipMap, Cast, Reshape
<1>11. IsSound(Concat) /\ IsSound(Gather) /\ IsSound(Identity)
  BY DEF IsSound, Op, One, Several, Concat, Gather, Identity
<1>12. QED
  BY <1>1, <1>2, <1>3, <1>4, <1>5, <1>6, <1>7, <1>8, <1>9, <1>10, <1>11 DEF Schemas

-----------------------------------------------------------------------------
(* The attributes of a struct, one for each field.                         *)

\* A list of attributes of the fields of a struct that are in a set, each once.
ListOf(struct, fields, list) ==
  /\ list \in Seq(NodeAttribute)
  /\ Len(list) = Cardinality(fields)
  /\ \A i \in 1..Len(list) :
       /\ list[i].name \in fields
       /\ list[i].value = [kind |-> Schemas[struct.op].attrs[list[i].name],
                          content |-> struct.fields[list[i].name]]
  /\ \A a \in fields : \E i \in 1..Len(list) : list[i].name = a

LEMMA StructAttributes ==
  ASSUME NEW struct, IsStruct(struct)
  PROVE  ListOf(struct, DOMAIN struct.fields, AttributesOf(struct))
<1> DEFINE S == DOMAIN struct.fields
           n == Cardinality(S)
           Pick(s) == CHOOSE a \in s : TRUE
           Last(s) == Attr(Pick(s), Schemas[struct.op].attrs[Pick(s)], struct.fields[Pick(s)])
           Value(f, s) == IF s = {} THEN <<>> ELSE Append(f[s \ {Pick(s)}], Last(s))
           Good(f) == f = [s \in SUBSET S |-> Value(f, s)]
           iter == CHOOSE f : Good(f)
<1>1. AttributesOf(struct) = iter[S]
  BY Zenon DEF AttributesOf, FoldSet, MapThenFoldSet
<1>2. /\ IsFiniteSet(S) /\ n \in Nat
      /\ \A s \in SUBSET S : IsFiniteSet(s) /\ Cardinality(s) \in Nat /\ Cardinality(s) <= n
      /\ \A s \in SUBSET S : Cardinality(s) = 0 <=> s = {}
  <2>1. IsFiniteSet(S)
    BY Zenon DEF IsStruct
  <2> HIDE DEF S
  <2>2. QED BY <2>1, FS_CardinalityType, FS_Subset, FS_EmptySet
<1>3. ASSUME NEW s \in SUBSET S, s # {}
      PROVE  /\ Pick(s) \in s /\ s \ {Pick(s)} \in SUBSET S
             /\ Cardinality(s \ {Pick(s)}) = Cardinality(s) - 1
  <2> HIDE DEF S, n
  <2>1. Pick(s) \in s
    BY <1>3
  <2> HIDE DEF Pick
  <2>2. QED BY <1>2, <2>1, FS_RemoveElement
<1>4. \A a \in S : /\ a \in Name
                   /\ [kind |-> Schemas[struct.op].attrs[a], content |-> struct.fields[a]]
                        \in AttributeValue
  BY DEF IsStruct, Name
<1> HIDE DEF S, n, Pick, Last, iter
\* There is a function as the fold asks for: each of its values takes one with fewer fields.
<1>5. \E f : Good(f)
  <2> DEFINE UpTo(m, f) ==
               \A s \in SUBSET S : Cardinality(s) <= m => f[s] = Value(f, s)
             P == {m \in 0..n : \E f : UpTo(m, f)}
  <2>1. 0 \in P
    <3> DEFINE f == [s \in SUBSET S |-> <<>>]
    <3>1. UpTo(0, f)
      BY <1>2
    <3> HIDE DEF UpTo
    <3>2. QED BY <1>2, <3>1
  <2>2. ASSUME NEW m \in 0..(n - 1), m \in P
        PROVE  m + 1 \in P
    <3>1. PICK f : UpTo(m, f)
      BY <2>2
    <3> DEFINE h == [s \in SUBSET S |-> Value(f, s)]
    <3>2. ASSUME NEW s \in SUBSET S, Cardinality(s) <= m + 1
          PROVE  h[s] = Value(h, s)
      <4>1. CASE s = {}
        BY <4>1
      <4>2. CASE s # {}
        <5> DEFINE t == s \ {Pick(s)}
        <5>1. t \in SUBSET S /\ Cardinality(t) <= m
          BY <1>2, <1>3, <3>2, <4>2
        <5>2. f[t] = Value(f, t)
          BY <3>1, <5>1
        <5>3. h[t] = Value(f, t)
          BY <5>1
        <5>4. h[s] = Append(f[t], Last(s))
          BY <4>2
        <5> HIDE DEF h, t
        <5>5. h[s] = Append(h[t], Last(s))
          BY <5>2, <5>3, <5>4
        <5>6. QED BY <4>2, <5>5 DEF t
      <4>3. QED BY <4>1, <4>2
    <3> HIDE DEF h
    <3>3. UpTo(m + 1, h)
      BY <3>2
    <3> HIDE DEF UpTo
    <3>4. m + 1 \in 0..n
      BY <1>2
    <3>5. QED BY <3>3, <3>4
  <2>3. n \in P
    <3> HIDE DEF P
    <3>1. n \in 0..n
      BY <1>2
    <3>2. QED BY <1>2, <2>1, <2>2, <3>1, CountingUp
  <2>4. PICK f : UpTo(n, f)
    BY <2>3
  <2> DEFINE g == [s \in SUBSET S |-> f[s]]
  <2>5. ASSUME NEW s \in SUBSET S
        PROVE  g[s] = Value(g, s)
    <3>1. g[s] = Value(f, s)
      BY <1>2, <2>4
    <3>2. s # {} => g[s \ {Pick(s)}] = f[s \ {Pick(s)}]
      OBVIOUS
    <3> HIDE DEF g
    <3>3. QED BY <3>1, <3>2
  <2>6. g = [s \in SUBSET S |-> g[s]]
    OBVIOUS
  <2> HIDE DEF g
  <2>7. Good(g)
    BY <2>5, <2>6
  <2>8. QED BY <2>7
<1>6. Good(iter)
  <2> HIDE DEF Good
  <2>1. QED BY <1>5 DEF iter
<1>7. /\ iter[{}] = <<>>
      /\ \A s \in SUBSET S : s # {} => iter[s] = Append(iter[s \ {Pick(s)}], Last(s))
  BY <1>6
<1> HIDE DEF Good
\* What it yields, by the number of fields.
<1>8. ASSUME NEW s \in SUBSET S, s # {}, ListOf(struct, s \ {Pick(s)}, iter[s \ {Pick(s)}])
      PROVE  ListOf(struct, s, iter[s])
  <2> DEFINE a == Pick(s)
             T == NodeAttribute
             list == iter[s \ {a}]
             m == Len(list)
             v == [kind |-> Schemas[struct.op].attrs[a], content |-> struct.fields[a]]
             e == [name |-> a, value |-> v, doc |-> EmptyText]
             longer == Append(list, e)
  <2>1. iter[s] = longer
    BY <1>7, <1>8 DEF Last, Attr
  <2>2. /\ list \in Seq(T) /\ m \in Nat /\ m + 1 = Cardinality(s)
        /\ \A i \in 1..m : /\ list[i].name \in s \ {a}
                           /\ list[i].value = [kind |-> Schemas[struct.op].attrs[list[i].name],
                                              content |-> struct.fields[list[i].name]]
        /\ \A b \in s \ {a} : \E i \in 1..m : list[i].name = b
    <3>1. ListOf(struct, s \ {a}, list) /\ Cardinality(s \ {a}) = Cardinality(s) - 1
      BY <1>3, <1>8, Zenon
    <3>2. Cardinality(s) \in Nat
      BY <1>2
    <3> HIDE DEF a, list
    <3>3. /\ list \in Seq(T)
          /\ \A i \in 1..m : /\ list[i].name \in s \ {a}
                             /\ list[i].value = [kind |-> Schemas[struct.op].attrs[list[i].name],
                                                content |-> struct.fields[list[i].name]]
          /\ \A b \in s \ {a} : \E i \in 1..m : list[i].name = b
      BY <3>1, Zenon DEF ListOf
    <3>4. m = Cardinality(s \ {a})
      BY <3>1, Zenon DEF ListOf
    <3> HIDE DEF T
    <3>5. m \in Nat
      BY <3>3, LenProperties
    <3>6. m + 1 = Cardinality(s)
      BY <3>1, <3>2, <3>4, <3>5
    <3>7. QED BY <3>3, <3>5, <3>6, Zenon
  <2>3. a \in s /\ e \in T /\ e.name = a /\ e.value = v
    <3>1. a \in s /\ a \in Name /\ v \in AttributeValue
      BY <1>3, <1>4, <1>8
    <3> HIDE DEF a, v
    <3>2. QED BY <3>1, TextsKept DEF NodeAttribute
  <2>4. /\ longer \in Seq(T) /\ Len(longer) = m + 1
        /\ \A i \in 1..m : longer[i] = list[i]
        /\ longer[m + 1] = e
    <3> HIDE DEF T, list, e
    <3>1. QED BY <2>2, <2>3, AppendProperties
  <2>5. /\ \A i \in 1..m : longer[i].name \in s
        /\ longer[m + 1].name = a /\ longer[m + 1].value = v
    <3> HIDE DEF T, list, longer, v, e
    <3>1. \A i \in 1..m : list[i].name \in s
      BY <2>2, Zenon
    <3>2. QED BY <2>3, <2>4, <3>1
  <2> HIDE DEF T, list, longer, m, a
  <2>6. \A i \in 1..Len(longer) :
          /\ longer[i].name \in s
          /\ longer[i].value = [kind |-> Schemas[struct.op].attrs[longer[i].name],
                               content |-> struct.fields[longer[i].name]]
    <3> SUFFICES ASSUME NEW i \in 1..(m + 1)
                 PROVE  /\ longer[i].name \in s
                        /\ longer[i].value = [kind |-> Schemas[struct.op].attrs[longer[i].name],
                                             content |-> struct.fields[longer[i].name]]
      BY <2>4
    <3>1. CASE i \in 1..m
      BY <2>2, <2>4, <2>5, <3>1
    <3>2. CASE i = m + 1
      BY <2>3, <2>5, <3>2
    <3>3. QED BY <2>2, <3>1, <3>2
  <2>7. ASSUME NEW b \in s
        PROVE  \E i \in 1..Len(longer) : longer[i].name = b
    <3>1. CASE b = a
      BY <2>2, <2>4, <2>5, <3>1
    <3>2. CASE b # a
      BY <2>2, <2>4, <3>2
    <3>3. QED BY <3>1, <3>2
  <2>8. QED BY <2>1, <2>2, <2>4, <2>6, <2>7 DEF ListOf, T
<1>9. \A s \in SUBSET S : ListOf(struct, s, iter[s])
  <2> DEFINE P == {m \in 0..n : \A s \in SUBSET S :
                              Cardinality(s) = m => ListOf(struct, s, iter[s])}
  <2>1. 0 \in P
    <3>1. ListOf(struct, {}, <<>>)
      <4>1. {} \in SUBSET S /\ Cardinality({}) = 0
        BY <1>2
      <4> DEFINE T == NodeAttribute
                 none == <<>>
      <4>2. none \in Seq(T) /\ Len(none) = 0
        OBVIOUS
      <4> HIDE DEF T, none
      <4>3. 1..Len(none) = {}
        BY <4>2
      <4>4. ListOf(struct, {}, none)
        BY <4>1, <4>2, <4>3, Zenon DEF ListOf, T
      <4>5. QED BY <4>4 DEF none
    <3>2. \A s \in SUBSET S : Cardinality(s) = 0 => s = {}
      BY <1>2
    <3>3. \A s \in SUBSET S : Cardinality(s) = 0 => ListOf(struct, s, iter[s])
      BY <1>7, <3>1, <3>2, Zenon
    <3>4. 0 \in 0..n
      BY <1>2
    <3>5. QED BY <3>3, <3>4, Zenon
  <2>2. ASSUME NEW m \in 0..(n - 1), m \in P
        PROVE  m + 1 \in P
    <3>1. ASSUME NEW s \in SUBSET S, Cardinality(s) = m + 1
          PROVE  ListOf(struct, s, iter[s])
      <4>1. s # {}
        BY <1>2, <3>1
      <4>2. s \ {Pick(s)} \in SUBSET S /\ Cardinality(s \ {Pick(s)}) = m
        BY <1>3, <3>1, <4>1
      <4>3. QED BY <1>8, <2>2, <4>1, <4>2
    <3>2. m + 1 \in 0..n
      BY <1>2
    <3>3. QED BY <3>1, <3>2
  <2>3. \A m \in 0..n : m \in P
    <3> HIDE DEF P
    <3>1. QED BY <1>2, <2>1, <2>2, CountingUp
  <2>4. ASSUME NEW s \in SUBSET S
        PROVE  ListOf(struct, s, iter[s])
    <3>1. Cardinality(s) \in 0..n
      BY <1>2
    <3>2. Cardinality(s) \in P
      BY <2>3, <3>1
    <3>3. QED BY <3>2
  <2>5. QED BY <2>4
<1>10. QED BY <1>1, <1>9 DEF S

-----------------------------------------------------------------------------
(* Nodes that say what a struct says.                                      *)

\* The node has the operator, the arity and, each once, the fields of the struct.
StandsFor(node, struct) ==
  /\ node.op = struct.op
  /\ node.domain = Schemas[struct.op].domain
  /\ NamesOf(node) = DOMAIN struct.fields
  /\ Cardinality(NamesOf(node)) = Len(node.attributes)
  /\ \A i \in DOMAIN node.attributes :
       LET a == node.attributes[i] IN
       /\ a.value.kind = Schemas[struct.op].attrs[a.name]
       /\ a.value.content = struct.fields[a.name]
  /\ Emittable(struct, node.inputs, node.outputs)

\* to_node's node is a node and says what the struct says.
LEMMA EmittedStandsFor ==
  ASSUME NEW struct, IsStruct(struct), NEW inputs, NEW outputs,
         Emittable(struct, inputs, outputs),
         NEW node, node = Emitted(struct, inputs, outputs)
  PROVE  node \in Node /\ StandsFor(node, struct)
<1> DEFINE list == AttributesOf(struct)
           T == NodeAttribute
           schema == Schemas[struct.op]
<1>1. ListOf(struct, DOMAIN struct.fields, list)
  BY StructAttributes, Zenon
<1>2. node = [name |-> NoText, op |-> struct.op, domain |-> schema.domain,
              inputs |-> inputs, outputs |-> outputs, attributes |-> list]
  BY Zenon DEF Emitted
<1>3. struct.op \in DOMAIN Schemas /\ IsSound(schema)
  <2>1. struct.op \in DOMAIN Schemas
    BY Zenon DEF IsStruct
  <2>2. QED BY <2>1, SchemasAreSound, Zenon
<1>4. struct.op \in Name /\ schema.domain \in Name
  <2> HIDE DEF schema
  <2>1. schema.domain \in {schema.domain} \cup DOMAIN schema.attrs
    OBVIOUS
  <2>2. QED BY <1>3, <2>1 DEF Name, schema
<1>5. inputs \in Nat /\ outputs \in Nat
  <2>1. inputs \in schema.inputs /\ outputs = schema.outputs
    BY Zenon DEF Emittable
  <2> HIDE DEF schema
  <2>2. QED BY <1>3, <2>1 DEF IsSound
<1> HIDE DEF list, schema
<1>6. list \in Seq(T) /\ DOMAIN list = 1..Len(list)
  <2>1. list \in Seq(T)
    BY <1>1, Zenon DEF ListOf
  <2> HIDE DEF T
  <2>2. QED BY <2>1, LenProperties
<1>7. node \in Node
  <2>1. NoText \in MaybeText
    BY DEF MaybeText
  <2> HIDE DEF T
  <2>2. [name |-> NoText, op |-> struct.op, domain |-> schema.domain, inputs |-> inputs,
         outputs |-> outputs, attributes |-> list]
          \in [name : MaybeText, op : Name, domain : Name, inputs : Nat, outputs : Nat,
              attributes : Seq(T)]
    BY <1>4, <1>5, <1>6, <2>1
  <2>3. QED BY <1>2, <2>2, Zenon DEF Node, T
<1>8. /\ node.op = struct.op /\ node.domain = schema.domain /\ node.inputs = inputs
      /\ node.outputs = outputs /\ node.attributes = list
  BY <1>2
<1>9. NamesOf(node) = DOMAIN struct.fields
  <2>1. NamesOf(node) = {list[i].name : i \in 1..Len(list)}
    BY <1>6, <1>8, Zenon DEF NamesOf
  <2>2. /\ \A i \in 1..Len(list) : list[i].name \in DOMAIN struct.fields
        /\ \A a \in DOMAIN struct.fields : \E i \in 1..Len(list) : list[i].name = a
    BY <1>1, Zenon DEF ListOf
  <2>3. QED BY <2>1, <2>2
<1>10. /\ Len(list) = Cardinality(DOMAIN struct.fields)
       /\ \A i \in DOMAIN list : /\ list[i].value.kind = schema.attrs[list[i].name]
                                 /\ list[i].value.content = struct.fields[list[i].name]
  <2>1. /\ Len(list) = Cardinality(DOMAIN struct.fields)
        /\ \A i \in DOMAIN list :
             list[i].value = [kind |-> schema.attrs[list[i].name],
                              content |-> struct.fields[list[i].name]]
    BY <1>1, <1>6, Zenon DEF ListOf, schema
  <2>2. ASSUME NEW i \in DOMAIN list
        PROVE  /\ list[i].value.kind = schema.attrs[list[i].name]
               /\ list[i].value.content = struct.fields[list[i].name]
    <3> DEFINE v == list[i].value
               k == schema.attrs[list[i].name]
               c == struct.fields[list[i].name]
    <3>1. v = [kind |-> k, content |-> c]
      BY <2>1, Zenon
    <3> HIDE DEF v, k, c
    <3>2. v.kind = k /\ v.content = c
      BY <3>1
    <3>3. QED BY <3>2 DEF v, k, c
  <2>3. QED BY <2>1, <2>2, Zenon
<1>11. QED BY <1>7, <1>8, <1>9, <1>10, Zenon DEF StandsFor, schema

\* The content found under a name is that of the attribute of the name.
LEMMA ContentFound ==
  ASSUME NEW node \in Node, Cardinality(NamesOf(node)) = Len(node.attributes),
         NEW i \in DOMAIN node.attributes
  PROVE  ContentOf(node, node.attributes[i].name) = node.attributes[i].value.content
<1> DEFINE name == node.attributes[i].name
           j == CHOOSE k \in DOMAIN node.attributes : node.attributes[k].name = name
<1>1. j \in DOMAIN node.attributes /\ node.attributes[j].name = name
  OBVIOUS
<1>2. ContentOf(node, name) = node.attributes[j].value.content
  BY Zenon DEF ContentOf
<1> HIDE DEF j
<1>3. j = i
  BY <1>1, NamedOnce, Zenon
<1>4. QED BY <1>2, <1>3

\* A node that says what a struct says is recognised as that struct.
LEMMA StandingIsRecognised ==
  ASSUME NEW node \in Node, NEW struct, IsStruct(struct), KnownElemType(struct),
         StandsFor(node, struct)
  PROVE  Recognised(node) /\ StructOf(node) = struct
<1> DEFINE schema == Schemas[struct.op]
           fields == struct.fields
           names == NamesOf(node)
<1>1. /\ struct = [op |-> struct.op, fields |-> fields]
      /\ struct.op \in DOMAIN Schemas
      /\ schema.plain \subseteq DOMAIN fields /\ DOMAIN fields \subseteq DOMAIN schema.attrs
      /\ fields \in [DOMAIN fields -> Int]
  BY Zenon DEF IsStruct
<1>2. /\ node.op = struct.op /\ node.domain = schema.domain /\ names = DOMAIN fields
      /\ Cardinality(names) = Len(node.attributes)
      /\ \A i \in DOMAIN node.attributes :
           /\ node.attributes[i].value.kind = schema.attrs[node.attributes[i].name]
           /\ node.attributes[i].value.content = fields[node.attributes[i].name]
  BY Zenon DEF StandsFor
<1>3. /\ Consistent(schema, fields) /\ Filled(schema.filled, fields)
      /\ node.inputs \in schema.inputs /\ node.outputs = schema.outputs
  BY Zenon DEF StandsFor, Emittable
<1>4. IsSound(schema)
  BY <1>1, SchemasAreSound, Zenon
<1>5. "to" \in DOMAIN fields => fields["to"] \in 1..25
  BY Zenon DEF KnownElemType
<1>6. \A a \in names : ContentOf(node, a) = fields[a]
  <2> SUFFICES ASSUME NEW i \in DOMAIN node.attributes
               PROVE  ContentOf(node, node.attributes[i].name) = fields[node.attributes[i].name]
    BY DEF NamesOf
  <2>1. ContentOf(node, node.attributes[i].name) = node.attributes[i].value.content
    BY <1>2, ContentFound, Zenon
  <2> HIDE DEF schema, fields
  <2>2. QED BY <1>2, <2>1
<1> HIDE DEF schema, fields, names
<1>7. FieldsRead(schema, node) = fields
  <2>1. ("to" \in DOMAIN fields) => AsI32(fields["to"]) = fields["to"]
    <3>1. 1..25 \subseteq I32
      BY WidthAssumption DEF I32
    <3>2. QED BY <1>5, <3>1, NarrowKeeps
  <2>2. FieldsRead(schema, node)
          = [a \in (names \cap DOMAIN schema.attrs) \cup schema.plain |->
               IF a \notin names THEN 0
               ELSE IF a = "to" THEN AsI32(ContentOf(node, a))
               ELSE ContentOf(node, a)]
    BY Zenon DEF FieldsRead, names
  <2>3. (names \cap DOMAIN schema.attrs) \cup schema.plain = DOMAIN fields
    BY <1>1, <1>2
  <2>4. fields = [a \in DOMAIN fields |-> fields[a]]
    BY <1>1
  <2>5. ASSUME NEW a \in DOMAIN fields
        PROVE  (IF a \notin names THEN 0
                ELSE IF a = "to" THEN AsI32(ContentOf(node, a))
                ELSE ContentOf(node, a)) = fields[a]
    <3>1. a \in names /\ ContentOf(node, a) = fields[a]
      BY <1>2, <1>6
    <3>2. a = "to" => AsI32(ContentOf(node, a)) = fields[a]
      BY <2>1, <3>1
    <3>3. QED BY <3>1, <3>2
  <2>6. FieldsRead(schema, node) = [a \in DOMAIN fields |-> fields[a]]
    BY <2>2, <2>3, <2>5
  <2>7. QED BY <2>4, <2>6
<1>8. TableRead(schema, node)
  <2>1. schema.required \subseteq names
    BY <1>1, <1>2, <1>4 DEF IsSound
  <2>2. ASSUME NEW i \in DOMAIN node.attributes
        PROVE  /\ node.attributes[i].name \in DOMAIN schema.attrs
               /\ node.attributes[i].value.kind = schema.attrs[node.attributes[i].name]
    <3>1. node.attributes[i].name \in names
      BY DEF names, NamesOf
    <3>2. QED BY <1>1, <1>2, <3>1
  <2>3. QED BY <1>2, <2>1, <2>2, Zenon DEF TableRead, names
<1>9. Filled(schema.filledOnRead, fields) /\ ("to" \in DOMAIN fields => FromDisc(fields["to"]))
  BY <1>3, <1>4, <1>5 DEF Filled, IsSound, FromDisc
<1>10. Recognised(node)
  BY <1>1, <1>2, <1>3, <1>7, <1>8, <1>9, Zenon DEF Recognised, schema
<1>11. StructOf(node) = struct
  BY <1>1, <1>2, <1>7, Zenon DEF StructOf, schema
<1>12. QED BY <1>10, <1>11

-----------------------------------------------------------------------------
(* What is recognised.                                                     *)

\* The struct read from a node is one, and each of its fields an attribute of the node: a
\* plain array that is not there would be empty, and one in parallel may not be.
LEMMA RecognisedStruct ==
  ASSUME NEW n \in Node, Recognised(n), NEW struct, struct = StructOf(n)
  PROVE  /\ IsStruct(struct)
         /\ struct.op = n.op
         /\ DOMAIN struct.fields = NamesOf(n)
         /\ \A a \in NamesOf(n) :
              struct.fields[a] = IF a = "to" THEN AsI32(ContentOf(n, a)) ELSE ContentOf(n, a)
         /\ \A a \in NamesOf(n) : \E i \in DOMAIN n.attributes :
              n.attributes[i].name = a /\ n.attributes[i].value.content = ContentOf(n, a)
<1> DEFINE schema == Schemas[n.op]
           names == NamesOf(n)
           fields == FieldsRead(schema, n)
<1>1. /\ n.op \in DOMAIN Schemas /\ n.domain = schema.domain
      /\ TableRead(schema, n)
      /\ Consistent(schema, fields)
      /\ "to" \in DOMAIN fields => FromDisc(fields["to"])
  BY Zenon DEF Recognised
<1>2. IsSound(schema)
  BY <1>1, SchemasAreSound, Zenon
<1>3. struct = [op |-> n.op, fields |-> fields]
  BY Zenon DEF StructOf
<1>4. fields = [a \in (names \cap DOMAIN schema.attrs) \cup schema.plain |->
                  IF a \notin names THEN 0
                  ELSE IF a = "to" THEN AsI32(ContentOf(n, a))
                  ELSE ContentOf(n, a)]
  BY Zenon DEF FieldsRead
<1>5. \A i \in DOMAIN n.attributes : n.attributes[i].name \in names
  BY DEF NamesOf
<1>6. \A a \in names : \E i \in DOMAIN n.attributes : n.attributes[i].name = a
  BY DEF NamesOf
<1> HIDE DEF schema, names, fields
<1>7. /\ Cardinality(names) = Len(n.attributes)
      /\ schema.required \subseteq names
      /\ \A i \in DOMAIN n.attributes :
           /\ n.attributes[i].name \in DOMAIN schema.attrs
           /\ n.attributes[i].value.kind = schema.attrs[n.attributes[i].name]
  BY <1>1, Zenon DEF TableRead, names
<1>8. schema.plain \subseteq names
  <2> SUFFICES ASSUME NEW a \in schema.plain, a \notin names
               PROVE  FALSE
    OBVIOUS
  <2>1. a \in DOMAIN fields /\ fields[a] = 0
    BY <1>4
  <2>2. PICK g \in schema.parallel : a = g.lead \/ a \in g.others
    BY <1>2, <1>7 DEF IsSound
  <2>3. InParallel(g, fields)
    BY <1>1, Zenon DEF Consistent
  <2>4. fields[g.lead] > 0 /\ (\A b \in g.others \cap DOMAIN fields : fields[b] = fields[g.lead])
    BY <2>3, Zenon DEF InParallel
  <2>5. QED BY <2>1, <2>2, <2>4
<1>9. names \subseteq DOMAIN schema.attrs
  BY <1>6, <1>7
<1>10. /\ DOMAIN fields = names
       /\ \A a \in names :
            fields[a] = IF a = "to" THEN AsI32(ContentOf(n, a)) ELSE ContentOf(n, a)
  BY <1>4, <1>8, <1>9
<1>11. ASSUME NEW a \in names
       PROVE  /\ \E i \in DOMAIN n.attributes :
                   n.attributes[i].name = a /\ n.attributes[i].value.content = ContentOf(n, a)
              /\ [kind |-> schema.attrs[a], content |-> ContentOf(n, a)] \in AttributeValue
              /\ ContentOf(n, a) \in Int
  <2>1. PICK i \in DOMAIN n.attributes : n.attributes[i].name = a
    BY <1>6
  <2> DEFINE v == n.attributes[i].value
             c == ContentOf(n, a)
  <2>2. c = v.content
    BY <1>7, <2>1, ContentFound DEF names
  <2>3. v \in AttributeValue
    <3> DEFINE T == NodeAttribute
    <3>1. n.attributes \in Seq(T)
      BY DEF Node
    <3>2. n.attributes[i] \in T
      <4> HIDE DEF T
      <4>1. QED BY <3>1, LenProperties, ElementOfSeq
    <3>3. QED BY <3>2 DEF NodeAttribute
  <2>4. v.kind = schema.attrs[a]
    BY <1>7, <2>1
  <2> HIDE DEF v
  <2>5. v = [kind |-> v.kind, content |-> v.content] /\ v.content \in Int
    BY <2>3 DEF AttributeValue
  <2> HIDE DEF c
  <2>6. [kind |-> schema.attrs[a], content |-> c] \in AttributeValue /\ c \in Int
    BY <2>2, <2>3, <2>4, <2>5
  <2>7. QED BY <2>1, <2>2, <2>6, Zenon DEF v, c
<1>12. IsFiniteSet(names)
  <2> DEFINE places == DOMAIN n.attributes
             f == [i \in places |-> n.attributes[i].name]
  <2>1. IsFiniteSet(places)
    <3>1. places = 1..Len(n.attributes) /\ Len(n.attributes) \in Nat
      BY LenProperties DEF Node
    <3>2. 1 \in Int /\ Len(n.attributes) \in Int
      BY <3>1
    <3>3. IsFiniteSet(1..Len(n.attributes))
      BY <3>2, FS_Interval, Zenon
    <3>4. QED BY <3>1, <3>3
  <2>2. f \in Surjection(places, names)
    BY <1>5, <1>6 DEF Surjection
  <2> HIDE DEF places, f
  <2>3. QED BY <2>1, <2>2, FS_Surjection, Zenon
<1>13. "to" \in names => /\ schema.attrs["to"] = "Int" /\ fields["to"] \in 0..25
                         /\ fields["to"] \in ElemTypes
  BY <1>1, <1>2, <1>9, <1>10 DEF IsSound, FromDisc, ElemTypes
<1>14. ASSUME NEW a \in names
       PROVE  /\ fields[a] \in Int
              /\ [kind |-> schema.attrs[a], content |-> fields[a]] \in AttributeValue
  <2>1. CASE a = "to"
    <3>1. fields[a] \in Nat /\ schema.attrs[a] = "Int"
      BY <1>13, <2>1
    <3>2. QED BY <3>1 DEF AttributeValue, Kind, Scalars, Lists, Messages, Broken
  <2>2. CASE a # "to"
    BY <1>10, <1>11, <2>2
  <2>3. QED BY <2>1, <2>2
<1>15. /\ struct.op = n.op /\ struct.fields = fields
       /\ struct = [op |-> struct.op, fields |-> struct.fields]
  BY <1>3
<1>16. IsStruct(struct)
  <2>1. fields \in [DOMAIN fields -> Int]
    <3>1. fields = [a \in names |-> fields[a]]
      BY <1>4, <1>10
    <3>2. QED BY <1>10, <1>14, <3>1
  <2>2. QED BY <1>1, <1>8, <1>9, <1>10, <1>12, <1>13, <1>14, <1>15, <2>1,
    Zenon DEF IsStruct, schema
<1>17. QED BY <1>10, <1>11, <1>15, <1>16, Zenon DEF names

\* The struct's rules for being written hold, the number of inputs and outputs aside.
Writable(struct) ==
  /\ Consistent(Schemas[struct.op], struct.fields)
  /\ Filled(Schemas[struct.op].filled, struct.fields)

\* It does not read as if it were not there, once written; and its message, when it is a
\* tensor, says all of it.
Lasting(kind, content) == content # Unset /\ (kind = "Tensor" => content > 0)

\* Each field of the struct is like this.
Portable(struct) ==
  \A a \in DOMAIN struct.fields : Lasting(Schemas[struct.op].attrs[a], struct.fields[a])

\* And so is each of the node's attributes.
SaysAll(node) ==
  \A i \in DOMAIN node.attributes :
    Lasting(node.attributes[i].value.kind, node.attributes[i].value.content)

\* What is recognised in a file can be written: from_node is less strict than to_node only
\* with a list that is empty, and no file has one.
LEMMA LoadedStruct ==
  ASSUME NEW n \in Node, Recognised(n), SaysAll(n),
         NEW struct, struct = StructOf(n), KnownElemType(struct)
  PROVE  Writable(struct) /\ Portable(struct)
<1> DEFINE schema == Schemas[n.op]
           fields == struct.fields
<1>1. /\ IsStruct(struct) /\ struct.op = n.op /\ DOMAIN fields = NamesOf(n)
      /\ \A a \in NamesOf(n) :
           fields[a] = IF a = "to" THEN AsI32(ContentOf(n, a)) ELSE ContentOf(n, a)
      /\ \A a \in NamesOf(n) : \E i \in DOMAIN n.attributes :
           n.attributes[i].name = a /\ n.attributes[i].value.content = ContentOf(n, a)
  BY RecognisedStruct, Zenon
<1>2. n.op \in DOMAIN Schemas /\ IsSound(schema)
  <2>1. n.op \in DOMAIN Schemas
    BY Zenon DEF Recognised
  <2>2. QED BY <2>1, SchemasAreSound, Zenon
<1>3. Consistent(schema, FieldsRead(schema, n))
  BY Zenon DEF Recognised
<1>4. fields = FieldsRead(schema, n)
  <2>1. struct = [op |-> n.op, fields |-> FieldsRead(schema, n)]
    BY Zenon DEF StructOf
  <2> HIDE DEF schema
  <2>2. QED BY <2>1
<1>5. \A a \in NamesOf(n) : Lasting(schema.attrs[a], ContentOf(n, a))
  <2> SUFFICES ASSUME NEW a \in NamesOf(n)
               PROVE  Lasting(schema.attrs[a], ContentOf(n, a))
    OBVIOUS
  <2>1. PICK i \in DOMAIN n.attributes :
          n.attributes[i].name = a /\ n.attributes[i].value.content = ContentOf(n, a)
    BY <1>1
  <2>2. n.attributes[i].value.kind = schema.attrs[n.attributes[i].name]
    BY Zenon DEF Recognised, TableRead
  <2>3. QED BY <2>1, <2>2, Zenon DEF SaysAll
<1>6. "to" \in DOMAIN fields => fields["to"] \in 1..25
  BY Zenon DEF KnownElemType
<1>7. Portable(struct)
  <2> SUFFICES ASSUME NEW a \in DOMAIN fields
               PROVE  Lasting(schema.attrs[a], fields[a])
    BY <1>1, Zenon DEF Portable
  <2>1. DOMAIN fields \subseteq DOMAIN schema.attrs
    BY <1>1, Zenon DEF IsStruct
  <2> HIDE DEF fields, schema
  <2>2. CASE a = "to"
    <3>1. schema.attrs[a] = "Int"
      BY <1>2, <2>1, <2>2 DEF IsSound
    <3>2. QED BY <1>6, <2>2, <3>1 DEF Unset, Lasting
  <2>3. CASE a # "to"
    BY <1>1, <1>5, <2>3
  <2>4. QED BY <2>2, <2>3
<1>8. Filled(schema.filled, fields)
  <2> SUFFICES ASSUME NEW a \in schema.filled
               PROVE  fields[a] > 0
    BY Zenon DEF Filled
  <2>1. schema.plain \subseteq DOMAIN fields
    BY <1>1, Zenon DEF IsStruct
  <2>2. schema.attrs[a] = "Floats" /\ a \in schema.plain
    <3> HIDE DEF schema
    <3>1. QED BY <1>2 DEF IsSound
  <2>3. [kind |-> schema.attrs[a], content |-> fields[a]] \in AttributeValue
    BY <1>1, <2>1, <2>2, Zenon DEF IsStruct
  <2>4. fields[a] # Unset
    BY <1>7, <2>1, <2>2, Zenon DEF Portable, Lasting
  <2> HIDE DEF schema, fields
  <2>5. [kind |-> "Floats", content |-> fields[a]] \in AttributeValue
    BY <2>2, <2>3
  <2>6. fields[a] \in MessageContent /\ fields[a] # Broken
    BY <2>5 DEF AttributeValue, SaysMore, Lists, Messages, KeptAsBytes, HeldAsTensors
  <2>7. QED BY <2>4, <2>6 DEF MessageContent, Unset, Broken
<1>9. QED BY <1>1, <1>3, <1>4, <1>7, <1>8, Zenon DEF Writable

\* A node that stands for such a struct can be saved and loaded again, and still does.
LEMMA PortableStays ==
  ASSUME NEW n \in Node, NEW struct, IsStruct(struct), Portable(struct), StandsFor(n, struct),
         NEW file, file = EncodeNode(n)
  PROVE  Readable(file) /\ StandsFor(DecodeNode(file), struct)
<1> DEFINE schema == Schemas[struct.op]
           list == n.attributes
           places == DOMAIN n.attributes
           again == DecodeNode(file)
           T == NodeAttribute
<1>1. OfTypedKinds(schema)
  <2>1. struct.op \in DOMAIN Schemas
    BY Zenon DEF IsStruct
  <2>2. QED BY <2>1, SchemasAreTyped, Zenon
<1>2. /\ n.op = struct.op /\ n.domain = schema.domain /\ NamesOf(n) = DOMAIN struct.fields
      /\ Cardinality(NamesOf(n)) = Len(list)
      /\ \A i \in places : /\ list[i].value.kind = schema.attrs[list[i].name]
                           /\ list[i].value.content = struct.fields[list[i].name]
      /\ Emittable(struct, n.inputs, n.outputs)
  BY Zenon DEF StandsFor
<1>3. DOMAIN struct.fields \subseteq DOMAIN schema.attrs
  BY Zenon DEF IsStruct
<1>4. list \in Seq(T)
  BY DEF Node
<1> HIDE DEF schema, again
<1>5. ASSUME NEW i \in places
      PROVE  DecodeAttribute(EncodeAttribute(list[i].value)) = Success(list[i].value)
  <2> DEFINE a == list[i]
             v == a.value
  <2>1. a \in T
    <3> HIDE DEF T, list
    <3>1. QED BY <1>4, <1>5, LenProperties, ElementOfSeq DEF list
  <2>2. v \in AttributeValue
    <3> HIDE DEF a
    <3>1. QED BY <2>1 DEF NodeAttribute
  <2>3. a.name \in DOMAIN struct.fields
    <3>1. a.name \in NamesOf(n)
      BY DEF NamesOf
    <3>2. QED BY <1>2, <3>1
  <2>4. v.kind = schema.attrs[a.name] /\ v.content = struct.fields[a.name]
    BY <1>2
  <2> HIDE DEF a, v
  <2>5. v.kind \in TypedKinds
    BY <1>1, <1>3, <2>3, <2>4 DEF OfTypedKinds
  <2>6. v.kind \in ReadKinds
    BY <2>5 DEF TypedKinds, ReadKinds, Kind, Scalars, Messages, Lists
  <2>7. v.content # Unset /\ (v.kind = "Tensor" => v.content > 0)
    BY <2>3, <2>4 DEF Portable, Lasting, schema
  <2>8. /\ v.content = Broken => v.kind \in {"Float", "Int"}
        /\ ~SaysMore(v)
    BY <2>2, <2>5, <2>7
    DEF AttributeValue, TypedKinds, KeptAsBytes, HeldAsTensors, SaysMore, Broken
  <2>9. Durable(v)
    BY <2>2, <2>6, <2>7, <2>8, PlainValueIsDurable
  <2>10. QED BY <2>9, Zenon DEF Durable, v, a
<1>6. file \in FileNode
  BY EncodedNodeType
<1>7. file = [name |-> TextInFile(n.name), op |-> n.op, domain |-> n.domain,
              inputs |-> n.inputs, outputs |-> n.outputs,
              attributes |-> [i \in places |-> InFileAs(list[i])]]
  BY EncodedNode
<1>8. /\ file.op = n.op /\ file.domain = n.domain /\ file.inputs = n.inputs
      /\ file.outputs = n.outputs /\ DOMAIN file.attributes = places
      /\ \A i \in places : /\ file.attributes[i].name = list[i].name
                           /\ file.attributes[i].proto = EncodeAttribute(list[i].value)
  BY <1>7 DEF InFileAs
<1>9. \A i \in places : DecodedAttribute(file, i) = Success(list[i].value)
  BY <1>5, <1>8, Zenon DEF DecodedAttribute
<1>10. \A i \in places : DecodedAttribute(file, i).outcome = "Ok"
                         /\ DecodedAttribute(file, i).value = list[i].value
  BY <1>9 DEF Success
<1>11. Readable(file)
  BY <1>8, <1>10, Zenon DEF Readable
<1>12. again = [name |-> TextInMemory(file.name), op |-> file.op, domain |-> file.domain,
                inputs |-> file.inputs, outputs |-> file.outputs,
                attributes |-> [i \in places |-> ReadFrom(list[i].name, list[i].value)]]
  <2>1. again = [name |-> TextInMemory(file.name), op |-> file.op, domain |-> file.domain,
                 inputs |-> file.inputs, outputs |-> file.outputs,
                 attributes |-> [i \in DOMAIN file.attributes |->
                   ReadFrom(file.attributes[i].name, DecodedAttribute(file, i).value)]]
    BY <1>6, DecodedNode DEF again
  <2>2. [i \in DOMAIN file.attributes |->
                   ReadFrom(file.attributes[i].name, DecodedAttribute(file, i).value)]
        = [i \in places |-> ReadFrom(list[i].name, list[i].value)]
    BY <1>8, <1>10
  <2>3. QED BY <2>1, <2>2
<1>13. /\ again.op = n.op /\ again.domain = n.domain /\ again.inputs = n.inputs
       /\ again.outputs = n.outputs
       /\ DOMAIN again.attributes = places
       /\ \A i \in places : /\ again.attributes[i].name = list[i].name
                            /\ again.attributes[i].value = list[i].value
  BY <1>8, <1>12 DEF ReadFrom
<1>14. NamesOf(again) = NamesOf(n)
  BY <1>13 DEF NamesOf
<1>15. Len(again.attributes) = Len(list)
  <2>1. Len(list) \in Nat /\ places = 1..Len(list)
    <3> HIDE DEF T
    <3>1. QED BY <1>4, LenProperties
  <2>2. again.attributes = [i \in 1..Len(list) |->
                            ReadFrom(list[i].name, list[i].value)]
    BY <1>12, <2>1
  <2>3. QED BY <2>1, <2>2
<1>16. StandsFor(again, struct)
  <2>1. \A i \in places :
          /\ again.attributes[i].value.kind = schema.attrs[again.attributes[i].name]
          /\ again.attributes[i].value.content = struct.fields[again.attributes[i].name]
    BY <1>2, <1>13, Zenon
  <2>2. QED BY <1>2, <1>13, <1>14, <1>15, <2>1, Zenon DEF StandsFor, schema
<1>17. QED BY <1>11, <1>16 DEF again

\* What is loaded is a node, and each of its attributes says something.
LEMMA LoadedNode ==
  ASSUME NEW file \in FileNode, Readable(file), NEW n, n = DecodeNode(file)
  PROVE  n \in Node /\ SaysAll(n)
<1>1. n \in Node /\ DOMAIN n.attributes = DOMAIN file.attributes
  BY LoadedNodeKeeps DEF ReadAs
<1>2. SaysAll(n)
  <2> SUFFICES ASSUME NEW i \in DOMAIN file.attributes
               PROVE  Lasting(n.attributes[i].value.kind, n.attributes[i].value.content)
    BY <1>1, Zenon DEF SaysAll
  <2> DEFINE p == file.attributes[i].proto
             T == FileAttribute
  <2>1. p \in Proto
    <3>1. file.attributes \in Seq(T)
      BY DEF FileNode
    <3>2. file.attributes[i] \in T
      <4> HIDE DEF T
      <4>1. QED BY <3>1, LenProperties, ElementOfSeq
    <3>3. QED BY <3>2 DEF FileAttribute
  <2>2. DecodeAttribute(p).outcome = "Ok"
    BY Zenon DEF Readable, DecodedAttribute
  <2>3. n.attributes[i].value = DecodeAttribute(p).value
    <3>1. n.attributes[i] = ReadFrom(file.attributes[i].name, DecodedAttribute(file, i).value)
      BY DecodedNode
    <3>2. QED BY <3>1 DEF DecodedAttribute, ReadFrom
  <2> HIDE DEF p
  <2>4. PICK k \in ReadKinds :
          /\ Present(p) = {k}
          /\ DecodeAttribute(p) = Success([kind |-> k, content |-> MemoryContent(k, p[k])])
    BY <2>1, <2>2, DecodedField
  <2>5. DecodeAttribute(p).value.kind = k /\ DecodeAttribute(p).value.content = MemoryContent(k, p[k])
    BY <2>4 DEF Success
  <2>6. p[k] # Unset
    BY <2>4 DEF Present
  <2>7. MemoryContent(k, p[k]) # Unset
    BY <2>6 DEF MemoryContent, Replacement, Unset
  <2>8. k = "Tensor" => MemoryContent(k, p[k]) > 0
    <3> SUFFICES ASSUME k = "Tensor"
                 PROVE  MemoryContent(k, p[k]) > 0
      OBVIOUS
    <3>1. p[k] # Broken
      BY <2>2 DEF DecodeAttribute, Failure, HeldAsTensors
    <3>2. p[k] \in MessageContent
      BY <2>1 DEF Proto, Messages
    <3>3. QED BY <2>6, <3>1, <3>2 DEF MemoryContent, MessageContent, Unset, Broken
  <2>9. QED BY <2>3, <2>5, <2>7, <2>8 DEF Lasting
<1>3. QED BY <1>1, <1>2

-----------------------------------------------------------------------------
(* Nodes of derived structs.                                               *)

\* The text a key stands for is one of the texts given.
LEMMA LastGiven ==
  ASSUME NEW annotations \in Seq(Annotation), NEW key, Given(annotations, key) # {}
  PROVE  TextOf(annotations, key) \in STRING
<1> DEFINE n == Len(annotations)
           S == Given(annotations, key)
           back == {n - i : i \in S}
           last == Max(S)
<1>1. n \in Nat /\ (\A i \in 1..n : annotations[i] \in Annotation) /\ DOMAIN annotations = 1..n
  BY ElementOfSeq, LenProperties
<1>2. S \subseteq 1..n
  BY <1>1 DEF Given
<1> HIDE DEF n, S
<1>3. back \subseteq Nat /\ back # {}
  BY <1>1, <1>2 DEF S
<1>4. PICK b \in back : \A c \in back : b <= c
  <2> HIDE DEF back
  <2>1. QED BY <1>3, Least
<1>5. PICK m \in S : b = n - m
  BY <1>4
<1>6. \A i \in S : m >= i
  <2> SUFFICES ASSUME NEW i \in S
               PROVE  m >= i
    OBVIOUS
  <2>1. n - m <= n - i
    BY <1>4, <1>5
  <2>2. n \in Int /\ m \in Int /\ i \in Int
    BY <1>1, <1>2
  <2> HIDE DEF n
  <2>3. QED BY <2>1, <2>2
<1>7. last \in S
  <2>1. \E x \in S : \A y \in S : x >= y
    BY <1>6
  <2>2. QED BY <2>1, Zenon DEF Max
<1> HIDE DEF last
<1>8. annotations[last].text \in STRING
  BY <1>1, <1>2, <1>7 DEF Annotation
<1>9. QED BY <1>8, Zenon DEF TextOf, last, S

\* The attribute of an exported field.
FieldAttribute(declaration, values, i) ==
  [name |-> AttrName(declaration.fields[i]),
   value |-> [kind |-> declaration.fields[i].kind, content |-> values[i]], doc |-> ""]

\* f[i] is what the generated to_graph has pushed after i fields.
PushedBy(f, declaration, values) ==
  /\ f[0] = <<>>
  /\ \A i \in 1..Len(declaration.fields) :
       f[i] = IF i \in DOMAIN values
              THEN Append(f[i - 1], FieldAttribute(declaration, values, i))
              ELSE f[i - 1]

\* It goes through the fields one by one.
LEMMA DerivedSteps ==
  ASSUME NEW declaration, NEW n \in Nat, n = Len(declaration.fields), NEW values, NEW T,
         \A i \in (1..n) \cap DOMAIN values : FieldAttribute(declaration, values, i) \in T
  PROVE  \E f : PushedBy(f, declaration, values) /\ DerivedAttributes(declaration, values) = f[n]
<1> DEFINE Of(i) == FieldAttribute(declaration, values, i)
           Value(f, i) == IF i \in DOMAIN values THEN Append(f[i - 1], Of(i)) ELSE f[i - 1]
           Good(f) == f = [i \in 0..n |-> IF i = 0 THEN <<>> ELSE Value(f, i)]
           step == [x \in Seq(T) \X (1..n) |->
                      IF x[2] \in DOMAIN values THEN Append(x[1], Of(x[2])) ELSE x[1]]
           none == <<>>
<1> HIDE DEF Of
<1>1. \A t \in Seq(T), i \in 1..n :
        step[<<t, i>>] = IF i \in DOMAIN values THEN Append(t, Of(i)) ELSE t
  OBVIOUS
<1>2. \A t \in Seq(T), i \in 1..n : step[<<t, i>>] \in Seq(T)
  <2> SUFFICES ASSUME NEW t \in Seq(T), NEW i \in 1..n
               PROVE  step[<<t, i>>] \in Seq(T)
    OBVIOUS
  <2>1. CASE i \in DOMAIN values
    <3> DEFINE more == Append(t, Of(i))
    <3>1. Of(i) \in T
      BY <2>1 DEF Of
    <3>2. more \in Seq(T)
      BY <3>1, AppendProperties
    <3>3. step[<<t, i>>] = more
      BY <1>1, <2>1
    <3>4. QED BY <3>2, <3>3
  <2>2. CASE i \notin DOMAIN values
    BY <1>1, <2>2
  <2>3. QED BY <2>1, <2>2
<1>3. none \in Seq(T)
  OBVIOUS
<1> HIDE DEF step, none
<1>4. PICK f : Steps(f, Seq(T), none, n, step)
  BY <1>2, <1>3, StepByStep
<1>5. Good(f)
  <2>1. ASSUME NEW i \in 0..n, i # 0
        PROVE  f[i] = Value(f, i)
    <3>1. i \in 1..n /\ f[i - 1] \in Seq(T)
      BY <1>4, <2>1 DEF Steps
    <3>2. f[i] = step[<<f[i - 1], i>>]
      BY <1>4, <3>1 DEF Steps
    <3>3. QED BY <1>1, <3>1, <3>2
  <2>2. f[0] = <<>>
    BY <1>4 DEF none, Steps
  <2>3. QED BY <1>4, <2>1, <2>2 DEF Steps
<1>6. PICK g : Good(g) /\ DerivedAttributes(declaration, values) = g[n]
  <2>1. DerivedAttributes(declaration, values) = (CHOOSE g : Good(g))[n]
    BY DEF DerivedAttributes, Of, FieldAttribute
  <2>2. Good(CHOOSE g : Good(g))
    <3> HIDE DEF Good
    <3>1. QED BY <1>5
  <2> HIDE DEF Good
  <2>3. QED BY <2>1, <2>2
<1>7. g[0] = <<>> /\ \A i \in 1..n : g[i] = Value(g, i)
  <2>1. 0 \in 0..n /\ (\A i \in 1..n : i \in 0..n /\ i # 0)
    OBVIOUS
  <2>2. g[0] = <<>>
    BY <1>6, <2>1, Zenon
  <2>3. ASSUME NEW i \in 1..n
        PROVE  g[i] = Value(g, i)
    BY <1>6, <2>1, Zenon
  <2>4. QED BY <2>2, <2>3
<1> HIDE DEF Good
<1>8. PushedBy(g, declaration, values)
  BY <1>7, Zenon DEF PushedBy, Of
<1>9. QED BY <1>6, <1>8, Zenon

\* What an instance of a derivable struct holds.
LEMMA DerivedField ==
  ASSUME NEW declaration \in Declarations, Derivable(declaration),
         NEW values \in Instances(declaration, OwnContents), NEW i \in DOMAIN values
  PROVE  /\ i \in ExportedFields(declaration)
         /\ FieldAttribute(declaration, values, i) \in NodeAttribute
<1> DEFINE fields == declaration.fields
           field == declaration.fields[i]
<1>1. declaration \in Declaration
  BY ConversionAssumption
<1>2. i \in ExportedFields(declaration) /\ values[i] \in OwnContents[field.kind]
  BY DEF Instances
<1>3. i \in DOMAIN fields /\ IsExported(field)
  BY <1>2 DEF ExportedFields
<1>4. FieldTaken(field)
  BY <1>3, Zenon DEF Derivable
<1>5. field.annotations \in Seq(Annotation)
  <2> DEFINE F == [annotations : Seq(Annotation), kind : STRING, optional : BOOLEAN]
  <2>1. fields \in Seq(F)
    BY <1>1 DEF Declaration
  <2> HIDE DEF F
  <2>2. field \in F
    BY <1>3, <2>1, ElementOfSeq, LenProperties
  <2>3. QED BY <2>2 DEF F
<1>6. field.kind \in AttrKinds
  BY <1>3, <1>4, Zenon DEF FieldTaken
<1>7. [kind |-> field.kind, content |-> values[i]] \in AttributeValue
  BY <1>2, <1>6, ConversionAssumption
<1>8. AttrName(field) \in Name
  <2>1. AttrName(field) \in STRING
    BY <1>3, <1>5, LastGiven, Zenon DEF AttrName, IsExported
  <2>2. QED BY <2>1 DEF Name
<1> DEFINE v == [kind |-> field.kind, content |-> values[i]]
<1> HIDE DEF v
<1>9. [name |-> AttrName(field), value |-> v, doc |-> ""] \in NodeAttribute
  BY <1>7, <1>8, TextsKept DEF v, NodeAttribute, EmptyText
<1>10. QED BY <1>2, <1>9, Zenon DEF FieldAttribute, v

\* What has been pushed when m fields have been gone through: attributes of exported fields,
\* no name twice.
Pushed(declaration, m, list) ==
  /\ list \in Seq(NodeAttribute)
  /\ \A j \in 1..Len(list) : \E i \in 1..m :
       i \in ExportedFields(declaration) /\ list[j].name = AttrName(declaration.fields[i])
  /\ \A j, k \in 1..Len(list) : list[j].name = list[k].name => j = k

LEMMA DerivedList ==
  ASSUME NEW declaration \in Declarations, Derivable(declaration),
         NEW values \in Instances(declaration, OwnContents)
  PROVE  Pushed(declaration, Len(declaration.fields), DerivedAttributes(declaration, values))
<1> DEFINE T == NodeAttribute
           n == Len(declaration.fields)
           Of(i) == FieldAttribute(declaration, values, i)
<1>1. n \in Nat
  <2>1. declaration \in Declaration
    BY ConversionAssumption
  <2> DEFINE F == [annotations : Seq(Annotation), kind : STRING, optional : BOOLEAN]
  <2>2. declaration.fields \in Seq(F)
    BY <2>1 DEF Declaration
  <2> HIDE DEF F
  <2>3. QED BY <2>2, LenProperties
<1>2. \A i \in (1..n) \cap DOMAIN values : Of(i) \in T
  BY DerivedField
<1> HIDE DEF T
<1>3. \E f : PushedBy(f, declaration, values) /\ DerivedAttributes(declaration, values) = f[n]
  BY <1>1, <1>2, DerivedSteps
<1>4. PICK f : /\ f[0] = <<>>
               /\ \A i \in 1..n : f[i] = IF i \in DOMAIN values THEN Append(f[i - 1], Of(i))
                                         ELSE f[i - 1]
               /\ DerivedAttributes(declaration, values) = f[n]
  BY <1>3, Zenon DEF PushedBy
<1> HIDE DEF Of, n
<1> DEFINE P == {m \in 0..n : Pushed(declaration, m, f[m])}
<1>5. 0 \in P
  <2> DEFINE none == <<>>
  <2>1. none \in Seq(T) /\ Len(none) = 0
    OBVIOUS
  <2> HIDE DEF none
  <2>2. 1..Len(none) = {}
    BY <2>1
  <2>3. Pushed(declaration, 0, none)
    BY <2>1, <2>2 DEF Pushed, T
  <2>4. QED BY <1>1, <1>4, <2>3 DEF none
<1>6. ASSUME NEW m \in 0..(n - 1), m \in P
      PROVE  m + 1 \in P
  <2> DEFINE i == m + 1
             list == f[m]
             longer == Append(list, Of(i))
             old == 1..Len(list)
  <2>1. i \in 1..n /\ i \in 0..n /\ i - 1 = m
    BY <1>1
  <2>2. Pushed(declaration, m, list)
    BY <1>6
  <2>3. CASE i \notin DOMAIN values
    <3>1. f[i] = list
      BY <1>4, <2>1, <2>3
    <3>2. Pushed(declaration, i, list)
      <4>1. 1..m \subseteq 1..i
        OBVIOUS
      <4> HIDE DEF i, list
      <4>2. QED BY <2>2, <4>1, Zenon DEF Pushed
    <3>3. QED BY <2>1, <3>1, <3>2
  <2>4. CASE i \in DOMAIN values
    <3>1. f[i] = longer
      BY <1>4, <2>1, <2>4
    <3>2. i \in ExportedFields(declaration) /\ Of(i) \in T
          /\ Of(i).name = AttrName(declaration.fields[i])
      <4>1. i \in ExportedFields(declaration) /\ Of(i) \in T
        BY <1>2, <2>1, <2>4, DerivedField
      <4>2. Of(i).name = AttrName(declaration.fields[i])
        BY DEF Of, FieldAttribute
      <4>3. QED BY <4>1, <4>2
    <3>3. /\ list \in Seq(T) /\ Len(list) \in Nat
          /\ \A j \in old : \E k \in 1..m :
               k \in ExportedFields(declaration) /\ list[j].name = AttrName(declaration.fields[k])
          /\ \A j, k \in old : list[j].name = list[k].name => j = k
      <4> HIDE DEF list
      <4>1. list \in Seq(T)
        BY <2>2, Zenon DEF Pushed, T
      <4>2. Len(list) \in Nat
        BY <4>1, LenProperties
      <4>3. QED BY <2>2, <4>1, <4>2, Zenon DEF Pushed
    <3>4. /\ longer \in Seq(T) /\ Len(longer) = Len(list) + 1
          /\ \A j \in old : longer[j] = list[j]
          /\ longer[Len(list) + 1] = Of(i)
      <4> DEFINE e == Of(i)
      <4> HIDE DEF list, e
      <4>1. QED BY <3>2, <3>3, AppendProperties DEF e
    <3> HIDE DEF list, longer, i
    \* No field before has the name.
    <3>5. ASSUME NEW j \in old
          PROVE  list[j].name # Of(i).name
      <4>1. PICK k \in 1..m : k \in ExportedFields(declaration)
                              /\ list[j].name = AttrName(declaration.fields[k])
        BY <3>3
      <4>2. k # i
        BY DEF i
      <4>3. \A a, b \in ExportedFields(declaration) :
              AttrName(declaration.fields[a]) = AttrName(declaration.fields[b]) => a = b
        BY Zenon DEF Derivable
      <4>4. QED BY <3>2, <4>1, <4>2, <4>3
    <3>6. \A j \in 1..Len(longer) : j \in old \/ j = Len(list) + 1
      BY <3>3, <3>4
    <3>7. \A j \in old : longer[j].name = list[j].name
      BY <3>4
    <3>8. longer[Len(list) + 1].name = Of(i).name
      BY <3>4
    <3>9. \A j \in 1..Len(longer) : \E k \in 1..i :
            k \in ExportedFields(declaration) /\ longer[j].name = AttrName(declaration.fields[k])
      <4>1. 1..m \subseteq 1..i /\ i \in 1..i
        BY DEF i
      <4>2. QED BY <3>2, <3>3, <3>6, <3>7, <3>8, <4>1
    <3>10. \A j, k \in 1..Len(longer) : longer[j].name = longer[k].name => j = k
      BY <3>3, <3>5, <3>6, <3>7, <3>8
    <3>11. Pushed(declaration, i, longer)
      BY <3>4, <3>9, <3>10, Zenon DEF Pushed, T
    <3>12. QED BY <2>1, <3>1, <3>11 DEF i
  <2>5. QED BY <2>3, <2>4
<1>7. n \in P
  <2> HIDE DEF P
  <2>1. n \in 0..n
    BY <1>1
  <2>2. QED BY <1>1, <1>5, <1>6, <2>1, CountingUp
<1>8. QED BY <1>4, <1>7 DEF n

\* The generated to_graph makes a node, which has no attribute twice.
LEMMA DerivedIsNode ==
  ASSUME NEW declaration \in Declarations, Derivable(declaration),
         NEW values \in Instances(declaration, OwnContents),
         NEW n, n = DerivedNode(declaration, values)
  PROVE  /\ n \in Node /\ n.inputs = 1 /\ n.outputs = 1
         /\ Cardinality(NamesOf(n)) = Len(n.attributes)
<1> DEFINE T == NodeAttribute
           list == DerivedAttributes(declaration, values)
           container == declaration.container
           op == TextOf(container, "op")
           domain == TextOf(container, "domain")
<1>1. Pushed(declaration, Len(declaration.fields), list)
  BY DerivedList, Zenon
<1>2. op \in STRING /\ domain \in STRING
  <2>1. declaration \in Declaration
    BY ConversionAssumption
  <2>2. container \in Seq(Annotation)
    BY <2>1 DEF Declaration
  <2>3. Given(container, "op") # {} /\ Given(container, "domain") # {}
    BY Zenon DEF Derivable, ContainerTaken, Stated
  <2> HIDE DEF container
  <2>4. QED BY <2>2, <2>3, LastGiven
<1>3. n = [name |-> NoText, op |-> op, domain |-> domain, inputs |-> 1, outputs |-> 1,
           attributes |-> list]
  BY Zenon DEF DerivedNode
<1> HIDE DEF list, op, domain
<1>4. /\ list \in Seq(T) /\ Len(list) \in Nat /\ DOMAIN list = 1..Len(list)
      /\ \A j, k \in 1..Len(list) : list[j].name = list[k].name => j = k
  <2>1. /\ list \in Seq(T)
        /\ \A j, k \in 1..Len(list) : list[j].name = list[k].name => j = k
    BY <1>1, Zenon DEF Pushed
  <2> HIDE DEF T
  <2>2. QED BY <2>1, LenProperties
<1>5. n \in Node
  <2>1. NoText \in MaybeText /\ op \in Name /\ domain \in Name
    BY <1>2 DEF MaybeText, Name
  <2> HIDE DEF T
  <2>2. n \in [name : MaybeText, op : Name, domain : Name, inputs : Nat, outputs : Nat,
               attributes : Seq(T)]
    BY <1>3, <1>4, <2>1
  <2>3. QED BY <2>2, Zenon DEF Node, T
<1>6. n.inputs = 1 /\ n.outputs = 1 /\ n.attributes = list
  BY <1>3
<1>7. Cardinality(NamesOf(n)) = Len(list)
  <2> DEFINE m == Len(list)
             f == [i \in 1..m |-> list[i].name]
  <2>1. IsFiniteSet(1..m) /\ Cardinality(1..m) = m
    <3>1. m \in Nat
      BY <1>4
    <3> HIDE DEF m
    <3>2. 1 \in Int /\ m \in Int
      BY <3>1
    <3>3. IsFiniteSet(1..m) /\ Cardinality(1..m) = IF 1 > m THEN 0 ELSE m - 1 + 1
      BY <3>2, FS_Interval, Zenon
    <3>4. QED BY <3>1, <3>3
  <2>2. NamesOf(n) = {list[i].name : i \in 1..m}
    BY <1>4, <1>6, Zenon DEF NamesOf
  <2>3. f \in Bijection(1..m, NamesOf(n))
    BY <1>4, <2>2 DEF Bijection, Injection, IsInjective, Surjection
  <2> HIDE DEF f, m
  <2>4. ExistsBijection(1..m, NamesOf(n))
    BY <2>3, Zenon DEF ExistsBijection
  <2>5. Cardinality(NamesOf(n)) = Cardinality(1..m)
    BY <2>1, <2>4, FS_Bijection
  <2>6. QED BY <2>1, <2>5 DEF m
<1>8. QED BY <1>5, <1>6, <1>7

\* The typed struct that says the same as the node of a derived one: the node stands for it.
LEMMA CounterpartStands ==
  ASSUME NEW n \in Node, n.inputs = 1, n.outputs = 1, Cardinality(NamesOf(n)) = Len(n.attributes),
         NEW c, c = Counterpart(n), c # NotExported
  PROVE  /\ ~c.fromFile
         /\ StandsFor(n, c.struct)
         /\ KnownElemType(c.struct) => IsStruct(c.struct)
<1> DEFINE schema == Schemas[n.op]
           names == NamesOf(n)
           fields == [a \in names |-> ContentOf(n, a)]
           struct == [op |-> n.op, fields |-> fields]
<1>1. /\ n.op \in DOMAIN Schemas /\ n.domain = schema.domain /\ schema.plain \subseteq names
      /\ \A i \in DOMAIN n.attributes :
           /\ n.attributes[i].name \in DOMAIN schema.attrs
           /\ schema.attrs[n.attributes[i].name] = n.attributes[i].value.kind
      /\ Emittable(struct, 1, 1)
      /\ c = [struct |-> struct, fromFile |-> FALSE]
  BY Zenon DEF Counterpart
<1>2. c.struct = struct /\ ~c.fromFile /\ struct.op = n.op /\ struct.fields = fields
      /\ struct = [op |-> struct.op, fields |-> struct.fields]
  <2> HIDE DEF fields
  <2>1. struct.op = n.op /\ struct.fields = fields
    OBVIOUS
  <2>2. struct = [op |-> struct.op, fields |-> struct.fields]
    BY <2>1
  <2> HIDE DEF struct
  <2>3. c.struct = struct /\ c.fromFile = FALSE
    BY <1>1
  <2>4. QED BY <2>1, <2>2, <2>3
<1>3. DOMAIN fields = names /\ (\A a \in names : fields[a] = ContentOf(n, a))
  OBVIOUS
<1>4. \A i \in DOMAIN n.attributes : n.attributes[i].name \in names
  BY DEF NamesOf
<1>5. \A a \in names : \E i \in DOMAIN n.attributes : n.attributes[i].name = a
  BY DEF NamesOf
<1>6. \A i \in DOMAIN n.attributes : fields[n.attributes[i].name] = n.attributes[i].value.content
  <2> SUFFICES ASSUME NEW i \in DOMAIN n.attributes
               PROVE  fields[n.attributes[i].name] = n.attributes[i].value.content
    OBVIOUS
  <2>1. ContentOf(n, n.attributes[i].name) = n.attributes[i].value.content
    BY ContentFound
  <2> HIDE DEF fields, names
  <2>2. QED BY <1>3, <1>4, <2>1
<1> HIDE DEF schema, struct, fields
<1>7. StandsFor(n, struct)
  <2>1. \A i \in DOMAIN n.attributes :
          /\ n.attributes[i].value.kind = schema.attrs[n.attributes[i].name]
          /\ n.attributes[i].value.content = fields[n.attributes[i].name]
    BY <1>1, <1>6
  <2>2. names = DOMAIN fields
    BY <1>3
  <2>3. QED BY <1>1, <1>2, <2>1, <2>2, Zenon DEF StandsFor, schema
<1>8. ASSUME KnownElemType(struct)
      PROVE  IsStruct(struct)
  <2>1. ASSUME NEW a \in names
        PROVE  /\ a \in DOMAIN schema.attrs /\ fields[a] \in Int
               /\ [kind |-> schema.attrs[a], content |-> fields[a]] \in AttributeValue
    <3>1. PICK i \in DOMAIN n.attributes : n.attributes[i].name = a
      BY <1>5
    <3> DEFINE v == n.attributes[i].value
               T == NodeAttribute
    <3>2. v \in AttributeValue
      <4>1. n.attributes \in Seq(T)
        BY DEF Node
      <4>2. n.attributes[i] \in T
        <5> HIDE DEF T
        <5>1. QED BY <4>1, LenProperties, ElementOfSeq
      <4>3. QED BY <4>2 DEF NodeAttribute
    <3>3. v.kind = schema.attrs[a] /\ v.content = fields[a] /\ a \in DOMAIN schema.attrs
      BY <1>1, <1>6, <3>1
    <3> HIDE DEF v
    <3>4. v = [kind |-> v.kind, content |-> v.content] /\ v.content \in Int
      BY <3>2 DEF AttributeValue
    <3>5. QED BY <3>2, <3>3, <3>4
  <2>2. IsFiniteSet(names)
    <3> DEFINE places == DOMAIN n.attributes
               f == [i \in places |-> n.attributes[i].name]
    <3>1. places = 1..Len(n.attributes) /\ Len(n.attributes) \in Nat
      BY LenProperties DEF Node
    <3>2. 1 \in Int /\ Len(n.attributes) \in Int
      BY <3>1
    <3>3. IsFiniteSet(places)
      <4>1. IsFiniteSet(1..Len(n.attributes))
        BY <3>2, FS_Interval, Zenon
      <4>2. QED BY <3>1, <4>1
    <3>4. f \in Surjection(places, names)
      BY <1>4, <1>5 DEF Surjection
    <3> HIDE DEF places, f, names
    <3>5. QED BY <3>3, <3>4, FS_Surjection, Zenon
  <2> HIDE DEF names
  <2>3. fields \in [DOMAIN fields -> Int]
    <3>1. fields = [a \in names |-> fields[a]]
      BY DEF fields
    <3>2. QED BY <1>3, <2>1, <3>1
  <2>4. "to" \in DOMAIN fields => fields["to"] \in ElemTypes
    <3>1. "to" \in DOMAIN fields => fields["to"] \in 1..25
      BY <1>2, <1>8, Zenon DEF KnownElemType
    <3>2. QED BY <3>1 DEF ElemTypes
  <2>5. DOMAIN fields \subseteq DOMAIN schema.attrs /\ schema.plain \subseteq DOMAIN fields
        /\ IsFiniteSet(DOMAIN fields)
        /\ \A a \in DOMAIN fields :
             [kind |-> schema.attrs[a], content |-> fields[a]] \in AttributeValue
    BY <1>1, <1>3, <2>1, <2>2
  <2>6. QED BY <1>1, <1>2, <2>3, <2>4, <2>5, Zenon DEF IsStruct, schema
<1>9. QED BY <1>2, <1>7, <1>8

-----------------------------------------------------------------------------
(* The fields a program changes.                                           *)

LEMMA SetKeepsStruct ==
  ASSUME NEW struct, IsStruct(struct), NEW a \in DOMAIN Schemas[struct.op].attrs,
         NEW content \in IF a = "to" THEN ElemTypes
                        ELSE FieldContents[Schemas[struct.op].attrs[a]],
         NEW changed,
         changed = [struct EXCEPT !.fields =
                     [b \in DOMAIN @ \cup {a} |-> IF b = a THEN content ELSE @[b]]]
  PROVE  IsStruct(changed)
<1> DEFINE schema == Schemas[struct.op]
           old == struct.fields
           fields == [b \in DOMAIN old \cup {a} |-> IF b = a THEN content ELSE old[b]]
<1>1. /\ struct = [op |-> struct.op, fields |-> old] /\ struct.op \in DOMAIN Schemas
      /\ schema.plain \subseteq DOMAIN old /\ DOMAIN old \subseteq DOMAIN schema.attrs
      /\ IsFiniteSet(DOMAIN old)
      /\ old \in [DOMAIN old -> Int]
      /\ \A b \in DOMAIN old : [kind |-> schema.attrs[b], content |-> old[b]] \in AttributeValue
      /\ "to" \in DOMAIN old => old["to"] \in ElemTypes
  BY Zenon DEF IsStruct
<1>2. OfTypedKinds(schema) /\ IsSound(schema)
  BY <1>1, SchemasAreTyped, SchemasAreSound, Zenon
<1> HIDE DEF schema
<1>3. content \in Int /\ [kind |-> schema.attrs[a], content |-> content] \in AttributeValue
  <2>1. CASE a = "to"
    <3>1. content \in Nat /\ schema.attrs[a] = "Int"
      BY <1>2, <2>1 DEF schema, IsSound, ElemTypes
    <3>2. QED BY <3>1 DEF AttributeValue, Kind, Scalars, Lists, Messages, Broken
  <2>2. CASE a # "to"
    <3> DEFINE k == schema.attrs[a]
    <3>1. content \in FieldContents[k] /\ a \in DOMAIN schema.attrs
      BY <2>2 DEF schema
    <3> HIDE DEF k
    <3>2. k \in Kind
      BY <1>2, <3>1 DEF k, OfTypedKinds, TypedKinds, Kind, Scalars, Messages, Lists
    <3>3. [kind |-> k, content |-> content] \in AttributeValue
      BY <3>1, <3>2, ConversionAssumption
    <3>4. content \in Int
      BY <3>3 DEF AttributeValue
    <3>5. QED BY <3>3, <3>4 DEF k
  <2>3. QED BY <2>1, <2>2
<1>4. changed = [op |-> struct.op, fields |-> fields]
  <2>1. changed = [struct EXCEPT !.fields = fields]
    OBVIOUS
  <2> HIDE DEF fields
  <2>2. QED BY <1>1, <2>1
<1>5. IsFiniteSet(DOMAIN old \cup {a})
  BY <1>1, FS_AddElement, Zenon
<1>6. /\ DOMAIN fields = DOMAIN old \cup {a}
      /\ \A b \in DOMAIN fields : /\ b = a => fields[b] = content
                                  /\ b # a => b \in DOMAIN old /\ fields[b] = old[b]
  OBVIOUS
<1> HIDE DEF old
<1>7. fields \in [DOMAIN fields -> Int]
  <2>1. \A b \in DOMAIN old : old[b] \in Int
    BY <1>1
  <2>2. QED BY <1>3, <2>1
<1> HIDE DEF fields
<1>8. changed.op = struct.op /\ changed.fields = fields
      /\ changed = [op |-> changed.op, fields |-> changed.fields]
  <2>1. ASSUME NEW s, NEW o, NEW f, s = [op |-> o, fields |-> f]
        PROVE  s.op = o /\ s.fields = f
    BY <2>1
  <2>2. changed.op = struct.op /\ changed.fields = fields
    BY <1>4, <2>1
  <2>3. QED BY <1>4, <2>2
<1>9. /\ schema.plain \subseteq DOMAIN fields /\ DOMAIN fields \subseteq DOMAIN schema.attrs
      /\ IsFiniteSet(DOMAIN fields)
  <2>1. a \in DOMAIN schema.attrs
    BY DEF schema
  <2>2. QED BY <1>1, <1>5, <1>6, <2>1
<1>10. \A b \in DOMAIN fields :
         [kind |-> schema.attrs[b], content |-> fields[b]] \in AttributeValue
  BY <1>1, <1>3, <1>6
<1>11. "to" \in DOMAIN fields => fields["to"] \in ElemTypes
  <2>1. a = "to" => content \in ElemTypes
    OBVIOUS
  <2>2. QED BY <1>1, <1>6, <2>1
<1>12. QED BY <1>1, <1>7, <1>8, <1>9, <1>10, <1>11, Zenon DEF IsStruct, schema

LEMMA ClearKeepsStruct ==
  ASSUME NEW struct, IsStruct(struct), NEW a \in DOMAIN struct.fields \ Schemas[struct.op].plain,
         NEW changed, changed = [struct EXCEPT !.fields = [b \in DOMAIN @ \ {a} |-> @[b]]]
  PROVE  IsStruct(changed)
<1> DEFINE schema == Schemas[struct.op]
           old == struct.fields
           fields == [b \in DOMAIN old \ {a} |-> old[b]]
<1>1. /\ struct = [op |-> struct.op, fields |-> old] /\ struct.op \in DOMAIN Schemas
      /\ schema.plain \subseteq DOMAIN old /\ DOMAIN old \subseteq DOMAIN schema.attrs
      /\ IsFiniteSet(DOMAIN old)
      /\ old \in [DOMAIN old -> Int]
      /\ \A b \in DOMAIN old : [kind |-> schema.attrs[b], content |-> old[b]] \in AttributeValue
      /\ "to" \in DOMAIN old => old["to"] \in ElemTypes
  BY Zenon DEF IsStruct
<1>2. a \notin schema.plain
  OBVIOUS
<1> HIDE DEF schema
<1>3. changed = [op |-> struct.op, fields |-> fields]
  <2>1. changed = [struct EXCEPT !.fields = fields]
    OBVIOUS
  <2> HIDE DEF fields
  <2>2. QED BY <1>1, <2>1
<1>4. /\ DOMAIN fields = DOMAIN old \ {a}
      /\ \A b \in DOMAIN fields : b \in DOMAIN old /\ fields[b] = old[b]
  OBVIOUS
<1> HIDE DEF old
<1>5. fields \in [DOMAIN fields -> Int]
  <2>1. \A b \in DOMAIN old : old[b] \in Int
    BY <1>1
  <2>2. QED BY <2>1
<1> HIDE DEF fields
<1>6. changed.op = struct.op /\ changed.fields = fields
      /\ changed = [op |-> changed.op, fields |-> changed.fields]
  <2>1. ASSUME NEW s, NEW o, NEW f, s = [op |-> o, fields |-> f]
        PROVE  s.op = o /\ s.fields = f
    BY <2>1
  <2>2. changed.op = struct.op /\ changed.fields = fields
    BY <1>3, <2>1
  <2>3. QED BY <1>3, <2>2
<1>7. IsFiniteSet(DOMAIN fields)
  BY <1>1, <1>4, FS_Subset
<1>8. schema.plain \subseteq DOMAIN fields /\ DOMAIN fields \subseteq DOMAIN schema.attrs
  BY <1>1, <1>2, <1>4
<1>9. /\ \A b \in DOMAIN fields :
           [kind |-> schema.attrs[b], content |-> fields[b]] \in AttributeValue
      /\ "to" \in DOMAIN fields => fields["to"] \in ElemTypes
  BY <1>1, <1>4
<1>10. QED BY <1>1, <1>5, <1>6, <1>7, <1>8, <1>9, Zenon DEF IsStruct, schema

-----------------------------------------------------------------------------
(* The inductive invariant.                                                *)

\* The node at hand was made from the struct last exported: at once, or through a file if
\* that struct came from one.
OfExported ==
  exported # NotExported
  /\ (fromFile => exported.fromFile /\ KnownElemType(exported.struct))

\* The struct last exported came from a file and is written and read as it is.
ExportedDurable == exported.fromFile /\ KnownElemType(exported.struct)

ConversionInv ==
  /\ TypeOK
  /\ exported # NotExported /\ KnownElemType(exported.struct) => IsStruct(exported.struct)
  /\ ExportedDurable => Portable(exported.struct)
  /\ stage = "struct" /\ fromFile /\ KnownElemType(item) => Writable(item) /\ Portable(item)
  /\ stage = "node" /\ fromFile => SaysAll(item)
  /\ stage = "node" /\ OfExported => StandsFor(item, exported.struct)
  /\ stage = "file" /\ ExportedDurable =>
       Readable(item) /\ StandsFor(DecodeNode(item), exported.struct)

\* What was never exported did not come from a file.
LEMMA NotFromFile == ~NotExported.fromFile
BY DEF NotExported

LEMMA ConversionInit == Init => ConversionInv
<1> SUFFICES ASSUME Init
             PROVE  ConversionInv
  OBVIOUS
<1>1. CASE stage = "struct" /\ item \in Structs /\ exported = NotExported
  <2>1. IsStruct(item)
    BY <1>1, ConversionAssumption
  <2>2. ~fromFile
    BY <1>1 DEF Init
  <2>3. TypeOK
    BY <1>1, <2>1 DEF TypeOK
  <2>4. stage # "node" /\ stage # "file"
    BY <1>1
  <2>5. QED BY <1>1, <2>2, <2>3, <2>4, NotFromFile, Zenon DEF ConversionInv, ExportedDurable
<1>2. CASE stage = "file" /\ item \in Files /\ exported = NotExported
  <2>1. item \in FileNode
    BY <1>2, ConversionAssumption
  <2>2. TypeOK
    BY <1>2, <2>1 DEF TypeOK
  <2>3. stage # "node" /\ stage # "struct"
    BY <1>2
  <2>4. QED BY <1>2, <2>2, <2>3, NotFromFile, Zenon DEF ConversionInv, ExportedDurable
<1>3. CASE /\ stage = "node"
           /\ item \in UNION {{DerivedNode(d, values) : values \in Instances(d, OwnContents)} :
                               d \in {c \in Declarations : Derivable(c)}}
           /\ exported = Counterpart(item)
  <2>1. PICK d \in Declarations : Derivable(d)
               /\ \E values \in Instances(d, OwnContents) : item = DerivedNode(d, values)
    BY <1>3
  <2>2. PICK values \in Instances(d, OwnContents) : item = DerivedNode(d, values)
    BY <2>1
  <2>3. /\ item \in Node /\ item.inputs = 1 /\ item.outputs = 1
        /\ Cardinality(NamesOf(item)) = Len(item.attributes)
    BY <2>1, <2>2, DerivedIsNode
  <2>4. exported # NotExported =>
          /\ ~exported.fromFile /\ StandsFor(item, exported.struct)
          /\ KnownElemType(exported.struct) => IsStruct(exported.struct)
    BY <1>3, <2>3, CounterpartStands
  <2>5. ~fromFile
    BY <1>3 DEF Init
  <2>6. TypeOK
    BY <1>3, <2>3 DEF TypeOK
  <2>7. stage # "struct" /\ stage # "file"
    BY <1>3
  <2>8. ~exported.fromFile
    BY <2>4, NotFromFile, Zenon
  <2>9. QED
    BY <2>4, <2>5, <2>6, <2>7, <2>8, Zenon DEF ConversionInv, ExportedDurable, OfExported
<1>4. QED BY <1>1, <1>2, <1>3 DEF Init

LEMMA ConversionStep == ConversionInv /\ [Next]_vars => ConversionInv'
<1> SUFFICES ASSUME ConversionInv, [Next]_vars
             PROVE  ConversionInv'
  OBVIOUS
<1> USE DEF ConversionInv
<1> DEFINE schema == Schemas[item.op]
<1>1. ASSUME NEW a \in DOMAIN schema.attrs,
             NEW c \in IF a = "to" THEN ElemTypes ELSE FieldContents[schema.attrs[a]],
             SetField(a, c)
      PROVE  ConversionInv'
  <2>1. /\ stage = "struct" /\ stage' = "struct" /\ exported' = exported /\ fromFile' = FALSE
        /\ item' = [item EXCEPT !.fields =
                     [b \in DOMAIN @ \cup {a} |-> IF b = a THEN c ELSE @[b]]]
    BY <1>1, Zenon DEF SetField
  <2>2. IsStruct(item)
    BY <2>1 DEF TypeOK
  <2>3. IsStruct(item')
    BY <2>1, <2>2, SetKeepsStruct, Zenon
  <2>4. TypeOK'
    BY <2>1, <2>3 DEF TypeOK
  <2>5. stage' # "node" /\ stage' # "file"
    BY <2>1
  <2>6. QED BY <2>1, <2>4, <2>5, Zenon DEF ExportedDurable
<1>2. ASSUME NEW a \in DOMAIN item.fields \ schema.plain, stage = "struct", ClearField(a)
      PROVE  ConversionInv'
  <2>1. /\ stage' = "struct" /\ exported' = exported /\ fromFile' = FALSE
        /\ item' = [item EXCEPT !.fields = [b \in DOMAIN @ \ {a} |-> @[b]]]
    BY <1>2, Zenon DEF ClearField
  <2>2. IsStruct(item)
    BY <1>2 DEF TypeOK
  <2>3. IsStruct(item')
    BY <2>1, <2>2, ClearKeepsStruct, Zenon
  <2>4. TypeOK'
    BY <2>1, <2>3 DEF TypeOK
  <2>5. stage' # "node" /\ stage' # "file"
    BY <2>1
  <2>6. QED BY <2>1, <2>4, <2>5, Zenon DEF ExportedDurable
<1>3. ASSUME NEW inputs \in Arity, NEW outputs \in Arity, ToNode(inputs, outputs)
      PROVE  ConversionInv'
  <2>1. stage = "struct" /\ fromFile' = FALSE
    BY <1>3, Zenon DEF ToNode
  <2>2. IsStruct(item)
    BY <2>1 DEF TypeOK
  <2>3. CASE Emittable(item, inputs, outputs)
    <3>1. /\ stage' = "node" /\ item' = Emitted(item, inputs, outputs)
          /\ exported' = [struct |-> item, fromFile |-> fromFile]
      BY <1>3, <2>3, Zenon DEF ToNode
    <3>2. exported'.struct = item /\ exported'.fromFile = fromFile
      BY <3>1
    <3>3. item' \in Node /\ StandsFor(item', item)
      BY <2>2, <2>3, <3>1, EmittedStandsFor, Zenon
    <3>4. TypeOK'
      BY <3>1, <3>3 DEF TypeOK
    <3>5. stage' # "struct" /\ stage' # "file"
      BY <3>1
    <3>6. ExportedDurable' => Portable(exported'.struct)
      <4>1. KnownElemType(exported.struct)' = KnownElemType(item)
        BY <3>2, Zenon DEF KnownElemType
      <4>2. QED BY <2>1, <3>2, <4>1, Zenon DEF ExportedDurable
    <3>7. QED BY <2>1, <2>2, <3>2, <3>3, <3>4, <3>5, <3>6, Zenon DEF OfExported, ExportedDurable
  <2>4. CASE ~Emittable(item, inputs, outputs)
    <3>1. stage' = "refused" /\ exported' = exported
      BY <1>3, <2>4, Zenon DEF ToNode
    <3>2. TypeOK'
      BY <3>1 DEF TypeOK
    <3>3. stage' # "node" /\ stage' # "file" /\ stage' # "struct"
      BY <3>1
    <3>4. QED BY <3>1, <3>2, <3>3, Zenon DEF ExportedDurable
  <2>5. QED BY <2>3, <2>4
<1>4. ASSUME Save
      PROVE  ConversionInv'
  <2>1. /\ stage = "node" /\ stage' = "file" /\ item' = EncodeNode(item)
        /\ fromFile' = fromFile /\ exported' = exported
    BY <1>4, Zenon DEF Save
  <2>2. item \in Node
    BY <2>1 DEF TypeOK
  <2>3. TypeOK'
    <3>1. item' \in FileNode
      BY <2>1, <2>2, EncodedNodeType
    <3>2. QED BY <2>1, <3>1 DEF TypeOK
  <2>4. stage' # "node" /\ stage' # "struct"
    BY <2>1
  <2>5. ASSUME ExportedDurable
        PROVE  Readable(item') /\ StandsFor(DecodeNode(item'), exported.struct)
    <3>1. exported # NotExported
      BY <2>5, NotFromFile, Zenon DEF ExportedDurable
    <3>2. /\ IsStruct(exported.struct) /\ Portable(exported.struct)
          /\ StandsFor(item, exported.struct)
      BY <2>1, <2>5, <3>1, Zenon DEF ExportedDurable, OfExported
    <3>3. QED BY <2>1, <2>2, <3>2, PortableStays, Zenon
  <2>6. QED BY <2>1, <2>3, <2>4, <2>5, Zenon DEF ExportedDurable
<1>5. ASSUME Load
      PROVE  ConversionInv'
  <2>1. stage = "file" /\ fromFile' = TRUE /\ exported' = exported
    BY <1>5, Zenon DEF Load
  <2>2. item \in FileNode
    BY <2>1 DEF TypeOK
  <2>3. CASE Readable(item)
    <3>1. stage' = "node" /\ item' = DecodeNode(item)
      BY <1>5, <2>3, Zenon DEF Load
    <3>2. item' \in Node /\ SaysAll(item')
      BY <2>2, <2>3, <3>1, LoadedNode
    <3>3. TypeOK'
      BY <3>1, <3>2 DEF TypeOK
    <3>4. stage' # "file" /\ stage' # "struct"
      BY <3>1
    <3>5. OfExported' => ExportedDurable
      BY <2>1, Zenon DEF OfExported, ExportedDurable
    <3>6. ExportedDurable => StandsFor(item', exported.struct)
      BY <2>1, <3>1, Zenon
    <3>7. QED BY <2>1, <3>2, <3>3, <3>4, <3>5, <3>6, Zenon DEF ExportedDurable
  <2>4. CASE ~Readable(item)
    <3>1. stage' = "unreadable"
      BY <1>5, <2>4, Zenon DEF Load
    <3>2. TypeOK'
      BY <3>1 DEF TypeOK
    <3>3. stage' # "node" /\ stage' # "file" /\ stage' # "struct"
      BY <3>1
    <3>4. QED BY <2>1, <3>2, <3>3, Zenon DEF ExportedDurable
  <2>5. QED BY <2>3, <2>4
<1>6. ASSUME Recognise
      PROVE  ConversionInv'
  <2>1. stage = "node" /\ fromFile' = fromFile /\ exported' = exported
    BY <1>6, Zenon DEF Recognise
  <2>2. item \in Node
    BY <2>1 DEF TypeOK
  <2>3. CASE Recognised(item)
    <3>1. stage' = "struct" /\ item' = StructOf(item)
      BY <1>6, <2>3, Zenon DEF Recognise
    <3>2. IsStruct(item')
      BY <2>2, <2>3, <3>1, RecognisedStruct, Zenon
    <3>3. TypeOK'
      BY <3>1, <3>2 DEF TypeOK
    <3>4. stage' # "node" /\ stage' # "file"
      BY <3>1
    <3>5. ASSUME fromFile, KnownElemType(item')
          PROVE  Writable(item') /\ Portable(item')
      <4>1. SaysAll(item)
        BY <2>1, <3>5
      <4>2. QED BY <2>2, <2>3, <3>1, <3>5, <4>1, LoadedStruct, Zenon
    <3>6. KnownElemType(item)' => KnownElemType(item')
      BY Zenon DEF KnownElemType
    <3>7. QED BY <2>1, <3>3, <3>4, <3>5, <3>6, Zenon DEF ExportedDurable
  <2>4. CASE ~Recognised(item)
    <3>1. stage' = "raw"
      BY <1>6, <2>4, Zenon DEF Recognise
    <3>2. TypeOK'
      BY <3>1 DEF TypeOK
    <3>3. stage' # "node" /\ stage' # "file" /\ stage' # "struct"
      BY <3>1
    <3>4. QED BY <2>1, <3>2, <3>3, Zenon DEF ExportedDurable
  <2>5. QED BY <2>3, <2>4
<1>7. CASE UNCHANGED vars
  BY <1>7 DEF vars, TypeOK, ExportedDurable, OfExported, KnownElemType, Portable, Writable,
    SaysAll, StandsFor
<1>8. QED
  BY <1>1, <1>2, <1>3, <1>4, <1>5, <1>6, <1>7 DEF Next

LEMMA ConversionInvariant == Spec => []ConversionInv
BY ConversionInit, ConversionStep, PTL DEF Spec

-----------------------------------------------------------------------------
(* The theorems.                                                           *)

\* At every stage the item is a struct, a node or a file's node as the code's types have it.
THEOREM ConversionTypeCorrect == Spec => []TypeOK
<1>1. ConversionInv => TypeOK
  BY DEF ConversionInv
<1>2. QED BY <1>1, ConversionInvariant, PTL

\* Each of the 19 operators comes back from its node as the struct it was, and so does the
\* node of a derived struct that has a counterpart among them (from_node after to_node).
THEOREM ToNodeIsLossless == Spec => []ConversionLossless
<1>1. ConversionInv => ConversionLossless
  <2> SUFFICES ASSUME ConversionInv, stage = "node", ~fromFile, exported # NotExported,
                      KnownElemType(exported.struct)
               PROVE  Recognised(item) /\ StructOf(item) = exported.struct
    BY Zenon DEF ConversionLossless
  <2>1. item \in Node
    BY DEF ConversionInv, TypeOK
  <2>2. IsStruct(exported.struct) /\ StandsFor(item, exported.struct)
    BY Zenon DEF ConversionInv, OfExported
  <2>3. QED BY <2>1, <2>2, StandingIsRecognised, Zenon
<1>2. QED BY <1>1, ConversionInvariant, PTL

\* A struct that was recognised in a file can be written again, and comes back from the file
\* it is written to (decode_node, from_node, to_node, encode_node).
THEOREM RecognisedStructsSurvive == Spec => []RecognisedSurvives
<1>1. ConversionInv => RecognisedSurvives
  <2> SUFFICES ASSUME ConversionInv
               PROVE  RecognisedSurvives
    OBVIOUS
  <2>1. ASSUME stage = "struct", fromFile, KnownElemType(item),
               NEW inputs \in Schemas[item.op].inputs \cap Arity
        PROVE  Emittable(item, inputs, Schemas[item.op].outputs)
    <3>1. Writable(item)
      BY <2>1, Zenon DEF ConversionInv
    <3>2. inputs \in Schemas[item.op].inputs
      OBVIOUS
    <3>3. QED BY <3>1, <3>2, Zenon DEF Writable, Emittable
  <2>2. ASSUME stage = "file", exported.fromFile, KnownElemType(exported.struct)
        PROVE  /\ Readable(item) /\ Recognised(DecodeNode(item))
               /\ StructOf(DecodeNode(item)) = exported.struct
    <3>1. exported # NotExported
      BY <2>2, NotFromFile, Zenon
    <3>2. /\ IsStruct(exported.struct) /\ Readable(item)
          /\ StandsFor(DecodeNode(item), exported.struct)
      BY <2>2, <3>1, Zenon DEF ConversionInv, ExportedDurable
    <3>3. item \in FileNode
      BY <2>2 DEF ConversionInv, TypeOK
    <3>4. DecodeNode(item) \in Node
      BY <3>2, <3>3, LoadedNode
    <3>5. QED BY <2>2, <3>2, <3>4, StandingIsRecognised, Zenon
  <2>3. QED BY <2>1, <2>2, Zenon DEF RecognisedSurvives
<1>2. QED BY <1>1, ConversionInvariant, PTL

\* from_node drops no attribute of a node it takes (AttrTable::finish).
THEOREM RecognitionDropsNothing == Spec => []RecognitionKeepsAttributes
<1>1. ConversionInv => RecognitionKeepsAttributes
  <2> SUFFICES ASSUME ConversionInv, stage = "node", Recognised(item),
                      NEW i \in DOMAIN item.attributes,
                      item.attributes[i].name = "to" => item.attributes[i].value.content \in I32
               PROVE  /\ item.attributes[i].name \in DOMAIN StructOf(item).fields
                      /\ StructOf(item).fields[item.attributes[i].name]
                           = item.attributes[i].value.content
    BY Zenon DEF RecognitionKeepsAttributes
  <2>1. item \in Node
    BY DEF ConversionInv, TypeOK
  <2>2. QED BY <2>1, RecognisedFields, Zenon
<1>2. QED BY <1>1, ConversionInvariant, PTL

=============================================================================
