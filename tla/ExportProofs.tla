---------------------------- MODULE ExportProofs -----------------------------
(***************************************************************************)
(* Theorems about the way of a model from the first call of its builder to *)
(* the file, for every value of the constants: what the builder guarantees *)
(* of the graph whatever calls are made, and that it implements the table  *)
(* of values; what export_model adds to that; and what structs that derive *)
(* OnnxExport become, however many there are.                              *)
(***************************************************************************)
EXTENDS DerivedExport, SequenceTheorems, WellFoundedInduction, TLAPS


-----------------------------------------------------------------------------
(*****************************************************************************)
(* 1. The builder, whatever calls are made of it: its type invariant, that no*)
(* sequence of calls gives one value two definitions, what a call that fails *)
(* leaves behind, and that it implements ValueTable.                         *)
(*****************************************************************************)

\* A graph whose definitions are all claimed, each given once.
Sound(g, claimed) == DefinedNames(g) \subseteq claimed /\ SingleAssignment(g)

-----------------------------------------------------------------------------
(* The three ways a graph grows keep it sound, when the names are free.    *)

\* A free name, or the empty one, can be declared as an input.
LEMMA AddInput ==
  ASSUME NEW g \in Graph, NEW h \in Graph, NEW vi \in ValueInfo,
         NEW claimed, NEW more, claimed \subseteq more,
         Sound(g, claimed),
         vi.name \in claimed => vi.name = Empty,
         vi.name = Empty \/ vi.name \in more,
         h.inputs = Append(g.inputs, vi),
         h.initializers = g.initializers,
         h.nodes = g.nodes
  PROVE  Sound(h, more)
<1>1. /\ DOMAIN h.inputs = 1..(Len(g.inputs) + 1)
      /\ DOMAIN g.inputs = 1..Len(g.inputs)
      /\ Len(g.inputs) \in Nat
      /\ \A i \in 1..Len(g.inputs) : h.inputs[i] = g.inputs[i]
      /\ h.inputs[Len(g.inputs) + 1] = vi
  BY AppendProperties, LenProperties DEF Graph
<1>2. InputNames(h) = InputNames(g) \cup {vi.name}
  BY <1>1 DEF InputNames
<1>3. /\ InitializerNames(h) = InitializerNames(g)
      /\ NodeOutputNames(h) = NodeOutputNames(g)
  BY DEF InitializerNames, NodeOutputNames, OutputsOf
<1>4. DefinedNames(h) \subseteq more
  BY <1>2, <1>3 DEF Sound, DefinedNames
<1>5. InputsUnique(h)
  <2> SUFFICES ASSUME NEW i \in DOMAIN h.inputs, NEW j \in DOMAIN h.inputs,
                      h.inputs[i].name = h.inputs[j].name,
                      h.inputs[i].name # Empty
               PROVE  i = j
    BY DEF InputsUnique
  <2>1. \A k \in 1..Len(g.inputs) : g.inputs[k].name # Empty => g.inputs[k].name \in claimed
    BY <1>1 DEF Sound, DefinedNames, InputNames
  <2>2. CASE i \in 1..Len(g.inputs) /\ j \in 1..Len(g.inputs)
    BY <1>1, <2>2 DEF Sound, SingleAssignment, InputsUnique
  <2>3. CASE i = Len(g.inputs) + 1 \/ j = Len(g.inputs) + 1
    BY <1>1, <2>1, <2>3
  <2>4. QED BY <1>1, <2>2, <2>3
<1>6. InitializersUnique(h) /\ OutputsUnique(h)
  BY DEF Sound, SingleAssignment, InitializersUnique, OutputsUnique
<1>7. NoShadowing(h)
  BY <1>2, <1>3 DEF Sound, SingleAssignment, NoShadowing, DefinedNames
<1>8. QED BY <1>4, <1>5, <1>6, <1>7 DEF Sound, SingleAssignment

\* Free names, no two of them alike but for empty ones, can be given to initializers.
LEMMA AddInitializers ==
  ASSUME NEW g \in Graph, NEW h \in Graph, NEW names \in Seq(ValueName),
         NEW claimed, NEW more, claimed \subseteq more,
         Sound(g, claimed),
         \A k \in 1..Len(names) : names[k] \in claimed => names[k] = Empty,
         \A k \in 1..Len(names) : names[k] = Empty \/ names[k] \in more,
         \A k, l \in 1..Len(names) : names[k] = names[l] /\ names[k] # Empty => k = l,
         h.inputs = g.inputs,
         h.initializers = g.initializers \o names,
         h.nodes = g.nodes
  PROVE  Sound(h, more)
<1> DEFINE n == Len(g.initializers)
           new == {names[k] : k \in 1..Len(names)}
<1>1. /\ DOMAIN h.initializers = 1..(n + Len(names))
      /\ DOMAIN g.initializers = 1..n
      /\ n \in Nat /\ Len(names) \in Nat
      /\ \A i \in 1..n : h.initializers[i] = g.initializers[i]
      /\ \A i \in (n + 1)..(n + Len(names)) : h.initializers[i] = names[i - n]
  BY ConcatProperties, LenProperties DEF Graph
<1>2. InitializerNames(h) = InitializerNames(g) \cup new
  <2>1. ASSUME NEW k \in 1..Len(names)
        PROVE  names[k] \in InitializerNames(h)
    <3>1. k + n \in DOMAIN h.initializers /\ h.initializers[k + n] = names[k]
      BY <1>1
    <3>2. QED BY <3>1 DEF InitializerNames
  <2>2. ASSUME NEW i \in DOMAIN h.initializers, i \notin 1..n
        PROVE  h.initializers[i] \in new
    <3>1. i \in (n + 1)..(n + Len(names)) /\ i - n \in 1..Len(names)
      BY <1>1, <2>2
    <3>2. h.initializers[i] = names[i - n]
      BY <1>1, <3>1
    <3>3. QED BY <3>1, <3>2
  <2>3. \A i \in 1..n : h.initializers[i] \in InitializerNames(g)
    BY <1>1 DEF InitializerNames
  <2>4. InitializerNames(g) \subseteq InitializerNames(h)
    BY <1>1 DEF InitializerNames
  <2>5. InitializerNames(h) \subseteq InitializerNames(g) \cup new
    BY <2>2, <2>3 DEF InitializerNames
  <2>6. QED BY <2>1, <2>4, <2>5
<1>3. /\ InputNames(h) = InputNames(g)
      /\ NodeOutputNames(h) = NodeOutputNames(g)
  BY DEF InputNames, NodeOutputNames, OutputsOf
<1>4. DefinedNames(h) \subseteq more
  BY <1>2, <1>3 DEF Sound, DefinedNames
<1>5. InitializersUnique(h)
  <2> SUFFICES ASSUME NEW i \in DOMAIN h.initializers, NEW j \in DOMAIN h.initializers,
                      h.initializers[i] = h.initializers[j],
                      h.initializers[i] # Empty
               PROVE  i = j
    BY DEF InitializersUnique
  <2>1. \A k \in 1..n : g.initializers[k] # Empty => g.initializers[k] \in claimed
    BY <1>1 DEF Sound, DefinedNames, InitializerNames
  <2>2. CASE i \in 1..n /\ j \in 1..n
    BY <1>1, <2>2 DEF Sound, SingleAssignment, InitializersUnique
  <2>3. CASE i \in 1..n /\ j \notin 1..n
    <3>1. j - n \in 1..Len(names) /\ names[j - n] = g.initializers[i]
      BY <1>1, <2>3
    <3>2. QED BY <1>1, <2>1, <2>3, <3>1
  <2>4. CASE j \in 1..n /\ i \notin 1..n
    <3>1. i - n \in 1..Len(names) /\ names[i - n] = g.initializers[j]
      BY <1>1, <2>4
    <3>2. QED BY <1>1, <2>1, <2>4, <3>1
  <2>5. CASE i \notin 1..n /\ j \notin 1..n
    <3>1. /\ i - n \in 1..Len(names) /\ names[i - n] = h.initializers[i]
          /\ j - n \in 1..Len(names) /\ names[j - n] = h.initializers[j]
      BY <1>1, <2>5
    <3>2. i - n = j - n
      BY <3>1
    <3>3. QED BY <1>1, <3>2
  <2>6. QED BY <2>2, <2>3, <2>4, <2>5
<1>6. InputsUnique(h) /\ OutputsUnique(h)
  BY DEF Sound, SingleAssignment, InputsUnique, OutputsUnique
<1>7. NoShadowing(h)
  BY <1>2, <1>3 DEF Sound, SingleAssignment, NoShadowing, DefinedNames
<1>8. QED BY <1>4, <1>5, <1>6, <1>7 DEF Sound, SingleAssignment

\* Free names, no two of them alike but for empty ones, can be a new node's outputs.
LEMMA AddNode ==
  ASSUME NEW g \in Graph, NEW h \in Graph, NEW node \in Node,
         NEW claimed, NEW more, claimed \subseteq more,
         Sound(g, claimed),
         \A k \in 1..Len(node.outputs) :
           node.outputs[k] \in claimed => node.outputs[k] = Empty,
         \A k \in 1..Len(node.outputs) :
           node.outputs[k] = Empty \/ node.outputs[k] \in more,
         \A k, l \in 1..Len(node.outputs) :
           node.outputs[k] = node.outputs[l] /\ node.outputs[k] # Empty => k = l,
         h.inputs = g.inputs,
         h.initializers = g.initializers,
         h.nodes = Append(g.nodes, node)
  PROVE  Sound(h, more)
<1> DEFINE n == Len(g.nodes)
           new == {node.outputs[k] : k \in 1..Len(node.outputs)}
<1>1. /\ DOMAIN h.nodes = 1..(n + 1)
      /\ DOMAIN g.nodes = 1..n
      /\ n \in Nat
      /\ \A i \in 1..n : h.nodes[i] = g.nodes[i]
      /\ h.nodes[n + 1] = node
  BY AppendProperties, LenProperties DEF Graph
<1>2. node.outputs \in Seq(ValueName) /\ DOMAIN node.outputs = 1..Len(node.outputs)
  BY LenProperties DEF Node
<1>3. OutputsOf(h, n + 1) = new /\ \A i \in 1..n : OutputsOf(h, i) = OutputsOf(g, i)
  BY <1>1, <1>2 DEF OutputsOf
<1>4. NodeOutputNames(h) = NodeOutputNames(g) \cup new
  <2>1. DOMAIN h.nodes = DOMAIN g.nodes \cup {n + 1}
    BY <1>1
  <2>2. \A i \in DOMAIN g.nodes : OutputsOf(h, i) = OutputsOf(g, i)
    BY <1>1, <1>3
  <2>3. ASSUME NEW name \in NodeOutputNames(h)
        PROVE  name \in NodeOutputNames(g) \cup new
    BY <2>1, <2>2, <1>3 DEF NodeOutputNames
  <2>4. ASSUME NEW name \in NodeOutputNames(g) \cup new
        PROVE  name \in NodeOutputNames(h)
    BY <2>1, <2>2, <1>3 DEF NodeOutputNames
  <2>5. QED BY <2>3, <2>4
<1>5. /\ InputNames(h) = InputNames(g)
      /\ InitializerNames(h) = InitializerNames(g)
  BY DEF InputNames, InitializerNames
<1>6. DefinedNames(h) \subseteq more
  BY <1>4, <1>5 DEF Sound, DefinedNames
<1>7. OutputsUnique(h)
  <2> SUFFICES ASSUME NEW i \in DOMAIN h.nodes, NEW j \in DOMAIN h.nodes,
                      NEW k \in DOMAIN h.nodes[i].outputs,
                      NEW l \in DOMAIN h.nodes[j].outputs,
                      h.nodes[i].outputs[k] = h.nodes[j].outputs[l],
                      h.nodes[i].outputs[k] # Empty
               PROVE  i = j /\ k = l
    BY DEF OutputsUnique
  <2>1. ASSUME NEW m \in 1..n, NEW p \in DOMAIN g.nodes[m].outputs,
               g.nodes[m].outputs[p] # Empty
        PROVE  g.nodes[m].outputs[p] \in claimed
    <3>1. g.nodes[m].outputs[p] \in NodeOutputNames(g)
      BY <1>1 DEF NodeOutputNames, OutputsOf
    <3>2. QED BY <2>1, <3>1 DEF Sound, DefinedNames
  <2>2. CASE i \in 1..n /\ j \in 1..n
    BY <1>1, <2>2 DEF Sound, SingleAssignment, OutputsUnique
  <2>3. CASE i \in 1..n /\ j = n + 1
    BY <1>1, <1>2, <2>1, <2>3
  <2>4. CASE j \in 1..n /\ i = n + 1
    BY <1>1, <1>2, <2>1, <2>4
  <2>5. CASE i = n + 1 /\ j = n + 1
    BY <1>1, <1>2, <2>5
  <2>6. QED BY <1>1, <2>2, <2>3, <2>4, <2>5
<1>8. InputsUnique(h) /\ InitializersUnique(h)
  BY DEF Sound, SingleAssignment, InputsUnique, InitializersUnique
<1>9. NoShadowing(h)
  BY <1>4, <1>5 DEF Sound, SingleAssignment, NoShadowing, DefinedNames
<1>10. QED BY <1>6, <1>7, <1>8, <1>9 DEF Sound, SingleAssignment

-----------------------------------------------------------------------------
(* Sequences and graphs.                                                   *)

\* The elements of a concatenation, by the part they come from.
LEMMA ConcatParts ==
  ASSUME NEW S, NEW s \in Seq(S), NEW t \in Seq(S)
  PROVE  /\ s \o t \in Seq(S)
         /\ Len(s) \in Nat /\ Len(t) \in Nat
         /\ Len(s \o t) = Len(s) + Len(t)
         /\ \A k \in 1..Len(s) : (s \o t)[k] = s[k]
         /\ \A k \in 1..Len(t) : (s \o t)[Len(s) + k] = t[k]
<1>1. /\ s \o t \in Seq(S)
      /\ Len(s) \in Nat /\ Len(t) \in Nat
      /\ Len(s \o t) = Len(s) + Len(t)
      /\ \A i \in 1..(Len(s) + Len(t)) :
            (s \o t)[i] = IF i <= Len(s) THEN s[i] ELSE t[i - Len(s)]
  BY ConcatProperties, LenProperties
<1>2. ASSUME NEW k \in 1..Len(s)
      PROVE  (s \o t)[k] = s[k]
  BY <1>1
<1>3. ASSUME NEW k \in 1..Len(t)
      PROVE  (s \o t)[Len(s) + k] = t[k]
  <2>1. /\ Len(s) + k \in 1..(Len(s) + Len(t))
        /\ ~(Len(s) + k <= Len(s))
        /\ Len(s) + k - Len(s) = k
    BY <1>1
  <2>2. QED BY <1>1, <2>1
<1>4. QED BY <1>1, <1>2, <1>3

\* The parts of a graph that define values are sequences.
LEMMA GraphFields ==
  ASSUME NEW g \in Graph
  PROVE  /\ g.inputs \in Seq(ValueInfo) /\ g.initializers \in Seq(ValueName)
         /\ g.nodes \in Seq(Node)
BY DEF Graph

-----------------------------------------------------------------------------
(* What a call claims.                                                     *)

\* The names a call gets were free before it, and no two of them are alike.
LEMMA ClaimedNamesWereFree ==
  ASSUME NEW names \in Seq(ValueName), NEW n \in 0..Len(names), ClaimsFirst(names, n)
  PROVE  /\ \A k \in 1..n : names[k] \in defined => names[k] = Empty
         /\ \A k, l \in 1..n : names[k] = names[l] /\ names[k] # Empty => k = l
<1>1. Len(names) \in Nat
  OBVIOUS
<1>2. \A k \in 1..n : ~Taken(names, k)
  BY DEF ClaimsFirst
<1>3. \A k \in 1..n : names[k] \in defined => names[k] = Empty
  BY <1>2 DEF Taken
<1>4. \A k, l \in 1..n : l < k /\ names[l] = names[k] => names[k] = Empty
  BY <1>1, <1>2 DEF Taken
<1>5. QED BY <1>1, <1>3, <1>4

\* The names the builder composes are value names, one for each output.
LEMMA AutoNamesType ==
  ASSUME NEW i \in 0..(MaxNodes - 1), NEW op \in OpType, NEW count \in 0..MaxOutputs
  PROVE  /\ AutoNames(i, op, count) \in Seq(ValueName)
         /\ Len(AutoNames(i, op, count)) = count
<1>1. MaxOutputs \in Nat /\ MaxNodes \in Nat
  BY BuilderAssumption
<1>2. \A k \in -1..(count - 1) : count > 0 => AutoName(i, op, k) \in ValueName
  BY <1>1, AutoNameAssumption
<1>3. CASE count = 1
  BY <1>1, <1>2, <1>3 DEF AutoNames
<1>4. CASE count # 1
  <2> DEFINE names == [k \in 1..count |-> AutoName(i, op, k - 1)]
  <2>1. \A k \in 1..count : AutoName(i, op, k - 1) \in ValueName
    BY <1>1, <1>2
  <2>2. names \in [1..count -> ValueName]
    BY <2>1
  <2>3. names \in Seq(ValueName)
    BY <1>1, <2>2, SeqDef
  <2>4. Len(names) = count
    BY <1>1, <2>2, <2>3, LenProperties
  <2>5. QED BY <1>4, <2>3, <2>4 DEF AutoNames
<1>5. QED BY <1>3, <1>4

-----------------------------------------------------------------------------
(* Each call keeps the types and the graph sound.                          *)

BuilderInv == TypeOK /\ Sound(graph, defined)

\* Raising a version keeps the table of operator sets well formed.
LEMMA RaiseType ==
  ASSUME opsets \in [Domain -> Nat], NEW d \in Domain, NEW v \in Nat
  PROVE  Raise(d, v) \in [Domain -> Nat]
BY DEF Raise

\* The version a node's domain calls for is a number, 0 for a domain of no interest.
LEMMA TargetType == \A d \in Domain : Target(d) \in Nat
BY DEF Target, CORE_TYPED_OPSET_TARGET, ML_EXPORT_OPSET_TARGET

\* Claiming names only adds value names to those claimed.
LEMMA ClaimType ==
  ASSUME defined \subseteq ValueName \ {Empty}, NEW names \in Seq(ValueName),
         NEW n \in 0..Len(names), Claim(names, n)
  PROVE  /\ defined' \subseteq ValueName \ {Empty}
         /\ defined \subseteq defined'
         /\ \A k \in 1..n : names[k] = Empty \/ names[k] \in defined'
<1>1. \A k \in 1..n : names[k] \in ValueName
  BY ElementOfSeq
<1>2. QED BY <1>1 DEF Claim, Claimed

\* What a refused call returns is the name it was refused.
LEMMA RefusedType ==
  ASSUME NEW names \in Seq(ValueName), NEW n \in 0..Len(names), Refused(names, n)
  PROVE  result' \in Outcome
<1>1. names[n + 1] \in ValueName
  BY ElementOfSeq DEF Refused
<1>2. <<names[n + 1]>> \in Seq(ValueName)
  BY <1>1
<1>3. QED BY <1>2 DEF Refused, DuplicateName, Outcome

\* What a successful call returns is an outcome.
LEMMA OkType ==
  ASSUME NEW refs \in Seq(ValueName)
  PROVE  Ok(refs) \in Outcome
BY DEF Ok, Outcome

\* push_emitted, whether it gets all the names of the node and its initializers or
\* stops at a refusal with some of the initializers in the graph.
LEMMA PushEmittedPreserves ==
  ASSUME BuilderInv,
         NEW tensors \in Seq(ValueName), NEW node \in Node, NEW refs \in Seq(ValueName),
         PushEmitted(tensors, node, refs)
  PROVE  BuilderInv'
<1> DEFINE names == tensors \o node.outputs
           p == Len(tensors)
<1>1. /\ node.outputs \in Seq(ValueName)
      /\ names \in Seq(ValueName)
      /\ p \in Nat /\ Len(node.outputs) \in Nat
      /\ Len(names) = p + Len(node.outputs)
      /\ \A k \in 1..p : names[k] = tensors[k]
      /\ \A k \in 1..Len(node.outputs) : names[p + k] = node.outputs[k]
  <2>1. node.outputs \in Seq(ValueName)
    BY DEF Node
  <2>2. QED BY <2>1, ConcatParts
<1>2. /\ graph \in Graph /\ Sound(graph, defined)
      /\ defined \subseteq ValueName \ {Empty} /\ opsets \in [Domain -> Nat]
      /\ graph.initializers \in Seq(ValueName) /\ graph.nodes \in Seq(Node)
  BY GraphFields DEF BuilderInv, TypeOK
<1>3. CASE /\ Claim(names, Len(names))
           /\ graph' = [graph EXCEPT !.initializers = @ \o tensors,
                                     !.nodes = Append(@, node)]
           /\ TrackOpset(node.domain)
           /\ result' = Ok(refs)
  <2> DEFINE inits == graph.initializers \o tensors
             nodes == Append(graph.nodes, node)
             middle == [graph EXCEPT !.initializers = inits]
             afterTensors == defined \cup {tensors[k] : k \in 1..p}
  <2>1. inits \in Seq(ValueName) /\ nodes \in Seq(Node)
    BY <1>2, ConcatParts, AppendProperties
  <2>2. graph' = [graph EXCEPT !.initializers = inits, !.nodes = nodes]
    BY <1>3
  <2>3. /\ middle \in Graph
        /\ middle.inputs = graph.inputs
        /\ middle.initializers = inits
        /\ middle.nodes = graph.nodes
    <3> HIDE DEF inits
    <3>1. QED BY <1>2, <2>1 DEF Graph
  <2>4. /\ graph' \in Graph
        /\ graph'.inputs = middle.inputs
        /\ graph'.initializers = middle.initializers
        /\ graph'.nodes = nodes
    <3> HIDE DEF inits, nodes
    <3>1. QED BY <1>2, <2>1, <2>2 DEF Graph
  <2>5. /\ \A k \in 1..Len(names) : names[k] \in defined => names[k] = Empty
        /\ \A k, l \in 1..Len(names) : names[k] = names[l] /\ names[k] # Empty => k = l
    <3>1. Len(names) \in 0..Len(names)
      BY <1>1
    <3>2. ClaimsFirst(names, Len(names))
      BY <1>3 DEF Claim
    <3> HIDE DEF names
    <3>3. QED BY <1>1, <3>1, <3>2, ClaimedNamesWereFree
  <2>6. /\ defined' \subseteq ValueName \ {Empty} /\ defined \subseteq defined'
        /\ \A k \in 1..Len(names) : names[k] = Empty \/ names[k] \in defined'
    <3>1. Len(names) \in 0..Len(names)
      BY <1>1
    <3> HIDE DEF names
    <3>2. QED BY <1>1, <1>2, <1>3, <3>1, ClaimType
  <2>7. /\ \A k \in 1..p : k \in 1..Len(names)
        /\ \A k \in 1..Len(node.outputs) : p + k \in 1..Len(names)
    BY <1>1
  <2> HIDE DEF names, middle, afterTensors
  <2>8. Sound(middle, afterTensors)
    <3>1. /\ \A k \in 1..p : tensors[k] \in defined => tensors[k] = Empty
          /\ \A k, l \in 1..p : tensors[k] = tensors[l] /\ tensors[k] # Empty => k = l
      BY <1>1, <2>5, <2>7
    <3>2. \A k \in 1..p : tensors[k] \in afterTensors
      BY DEF afterTensors
    <3>3. defined \subseteq afterTensors
      BY DEF afterTensors
    <3>4. QED BY <1>2, <2>3, <3>1, <3>2, <3>3, AddInitializers
  <2>9. \A k \in 1..Len(node.outputs) :
          node.outputs[k] \in afterTensors => node.outputs[k] = Empty
    <3>1. SUFFICES ASSUME NEW k \in 1..Len(node.outputs), node.outputs[k] \in afterTensors
                   PROVE  node.outputs[k] = Empty
      OBVIOUS
    <3>2. CASE node.outputs[k] \in defined
      BY <1>1, <2>5, <2>7, <3>2
    <3>3. CASE \E l \in 1..p : tensors[l] = node.outputs[k]
      <4>1. PICK l \in 1..p : tensors[l] = node.outputs[k]
        BY <3>3
      <4>2. names[l] = names[p + k] /\ l # p + k
        BY <1>1, <4>1
      <4>3. QED BY <1>1, <2>5, <2>7, <4>2
    <3>4. QED BY <3>1, <3>2, <3>3 DEF afterTensors
  <2>10. \A k, l \in 1..Len(node.outputs) :
           node.outputs[k] = node.outputs[l] /\ node.outputs[k] # Empty => k = l
    <3>1. SUFFICES ASSUME NEW k \in 1..Len(node.outputs), NEW l \in 1..Len(node.outputs),
                          node.outputs[k] = node.outputs[l], node.outputs[k] # Empty
                   PROVE  k = l
      OBVIOUS
    <3>2. p + k = p + l
      BY <1>1, <2>5, <2>7, <3>1
    <3>3. QED BY <1>1, <3>2
  <2>11. afterTensors \ {Empty} \subseteq defined'
    BY <1>1, <2>6, <2>7 DEF afterTensors
  <2>12. Sound(middle, afterTensors \ {Empty})
    BY <2>8 DEF Sound, DefinedNames
  <2>13. Sound(graph', defined')
    <3>1. \A k \in 1..Len(node.outputs) :
            node.outputs[k] = Empty \/ node.outputs[k] \in defined'
      BY <1>1, <2>6, <2>7
    <3>2. \A k \in 1..Len(node.outputs) :
            node.outputs[k] \in afterTensors \ {Empty} => node.outputs[k] = Empty
      BY <2>9
    <3>3. QED BY <2>3, <2>4, <2>10, <2>11, <2>12, <3>1, <3>2, AddNode
  <2>14. TypeOK'
    <3>1. opsets' \in [Domain -> Nat]
      BY <1>2, <1>3, RaiseType, TargetType DEF TrackOpset, Node
    <3>2. QED BY <1>3, <2>4, <2>6, <3>1, OkType DEF TypeOK
  <2>15. QED BY <2>13, <2>14 DEF BuilderInv
<1>4. CASE /\ \E n \in 0..(Len(names) - 1) :
                /\ Refused(names, n)
                /\ graph' = [graph EXCEPT !.initializers =
                     @ \o SubSeq(tensors, 1, IF n < Len(tensors) THEN n ELSE Len(tensors))]
           /\ UNCHANGED opsets
  <2>1. PICK n \in 0..(Len(names) - 1) :
          /\ Refused(names, n)
          /\ graph' = [graph EXCEPT !.initializers =
               @ \o SubSeq(tensors, 1, IF n < Len(tensors) THEN n ELSE Len(tensors))]
    BY <1>4
  <2> DEFINE m == IF n < p THEN n ELSE p
             first == SubSeq(tensors, 1, m)
             inits == graph.initializers \o first
  <2>2. n \in 0..Len(names) /\ m \in 0..p /\ m <= n
    BY <1>1, <2>1
  <2>3. /\ first \in Seq(ValueName) /\ Len(first) = m
        /\ \A k \in 1..m : first[k] = names[k]
    <3>1. \A k \in 1..m : tensors[k] \in ValueName
      BY <1>1, <2>2, ElementOfSeq
    <3>2. /\ first \in Seq(ValueName)
          /\ Len(first) = IF 1 <= m THEN m - 1 + 1 ELSE 0
          /\ \A k \in 1..(m - 1 + 1) : first[k] = tensors[1 + k - 1]
      BY <2>2, <3>1, SubSeqProperties
    <3>3. QED BY <1>1, <2>2, <3>2
  <2>4. inits \in Seq(ValueName)
    BY <1>2, <2>3, ConcatParts
  <2>5. graph' = [graph EXCEPT !.initializers = inits]
    BY <2>1
  <2>6. /\ graph' \in Graph
        /\ graph'.inputs = graph.inputs
        /\ graph'.initializers = inits
        /\ graph'.nodes = graph.nodes
    <3> HIDE DEF inits
    <3>1. QED BY <1>2, <2>4, <2>5 DEF Graph
  <2> HIDE DEF names, m, first
  <2>7. /\ \A k \in 1..n : names[k] \in defined => names[k] = Empty
        /\ \A k, l \in 1..n : names[k] = names[l] /\ names[k] # Empty => k = l
    <3>1. ClaimsFirst(names, n)
      BY <2>1 DEF Refused, Claim
    <3>2. QED BY <1>1, <2>2, <3>1, ClaimedNamesWereFree
  <2>8. /\ defined' \subseteq ValueName \ {Empty} /\ defined \subseteq defined'
        /\ \A k \in 1..n : names[k] = Empty \/ names[k] \in defined'
    <3>1. Claim(names, n)
      BY <2>1 DEF Refused
    <3>2. QED BY <1>1, <1>2, <2>2, <3>1, ClaimType
  <2>9. \A k \in 1..m : k \in 1..n
    BY <1>1, <2>1, <2>2
  <2>10. Sound(graph', defined')
    <3>1. /\ \A k \in 1..Len(first) : first[k] \in defined => first[k] = Empty
          /\ \A k \in 1..Len(first) : first[k] = Empty \/ first[k] \in defined'
          /\ \A k, l \in 1..Len(first) : first[k] = first[l] /\ first[k] # Empty => k = l
      BY <2>3, <2>7, <2>8, <2>9
    <3>2. QED BY <1>2, <2>3, <2>6, <2>8, <3>1, AddInitializers
  <2>11. TypeOK'
    <3>1. result' \in Outcome
      BY <1>1, <2>1, <2>2, RefusedType
    <3>2. QED BY <1>2, <1>4, <2>6, <2>8, <3>1 DEF TypeOK
  <2>12. QED BY <2>10, <2>11 DEF BuilderInv
<1>5. QED BY <1>3, <1>4 DEF PushEmitted

\* A call that claims one name and puts it in the graph, or is refused.
LEMMA OneNameClaim ==
  ASSUME TypeOK, NEW name \in ValueName, Claim(<<name>>, 1)
  PROVE  /\ defined' \subseteq ValueName \ {Empty} /\ defined \subseteq defined'
         /\ name \in defined => name = Empty
         /\ name = Empty \/ name \in defined'
<1> DEFINE names == <<name>>
<1>1. names \in Seq(ValueName) /\ Len(names) = 1 /\ names[1] = name
  OBVIOUS
<1> HIDE DEF names
<1>2. 1 \in 0..Len(names) /\ 1 \in 1..1 /\ Claim(names, 1)
  BY <1>1 DEF names
<1>3. ClaimsFirst(names, 1)
  BY <1>2 DEF Claim
<1>4. \A k \in 1..1 : names[k] \in defined => names[k] = Empty
  BY <1>1, <1>2, <1>3, ClaimedNamesWereFree
<1>5. /\ defined' \subseteq ValueName \ {Empty} /\ defined \subseteq defined'
      /\ \A k \in 1..1 : names[k] = Empty \/ names[k] \in defined'
  BY <1>1, <1>2, ClaimType DEF TypeOK
<1>6. QED BY <1>1, <1>2, <1>4, <1>5

\* A call refused its only name has claimed nothing.
LEMMA OneNameRefused ==
  ASSUME TypeOK, NEW name \in ValueName, Refused(<<name>>, 0)
  PROVE  defined' = defined /\ result' \in Outcome
<1>1. <<name>> \in Seq(ValueName) /\ 0 \in 0..Len(<<name>>)
  OBVIOUS
<1>2. defined' = defined
  BY DEF Refused, Claim, Claimed
<1>3. QED BY <1>1, <1>2, RefusedType

\* A call that leaves the graph and the claims alone.
LEMMA NoClaim ==
  ASSUME BuilderInv, UNCHANGED <<graph, defined>>,
         opsets' \in [Domain -> Nat], result' \in Outcome
  PROVE  BuilderInv'
BY DEF BuilderInv, TypeOK

\* declare_opset touches neither the graph nor the claims.
LEMMA DeclareOpsetPreserves ==
  ASSUME BuilderInv, NEW d \in Domain, NEW v \in DeclaredVersions, DeclareOpset(d, v)
  PROVE  BuilderInv'
<1>1. v \in Nat
  BY BuilderAssumption
<1>2. opsets' \in [Domain -> Nat]
  BY <1>1, RaiseType DEF DeclareOpset, BuilderInv, TypeOK
<1>3. result' \in Outcome
  <2>1. <<>> \in Seq(ValueName) /\ result' = Ok(<<>>)
    BY DEF DeclareOpset
  <2>2. QED BY <2>1, OkType
<1>4. QED BY <1>2, <1>3, NoClaim DEF DeclareOpset

\* input() adds the input it claimed the name of, or nothing.
LEMMA InputPreserves ==
  ASSUME BuilderInv, NEW vi \in ValueInfo, Input(vi)
  PROVE  BuilderInv'
<1>1. vi \in ValueInfo /\ vi.name \in ValueName
  BY DEF ValueInfo
<1>2. TypeOK /\ Sound(graph, defined) /\ graph \in Graph /\ graph.inputs \in Seq(ValueInfo)
  BY GraphFields DEF BuilderInv, TypeOK
<1>3. opsets' = opsets
  BY DEF Input
<1>4. CASE /\ Claim(<<vi.name>>, 1)
           /\ graph' = [graph EXCEPT !.inputs = Append(@, vi)]
           /\ result' = Ok(<<vi.name>>)
  <2> DEFINE inputs == Append(graph.inputs, vi)
  <2>1. inputs \in Seq(ValueInfo)
    BY <1>1, <1>2, AppendProperties
  <2>2. graph' = [graph EXCEPT !.inputs = inputs]
    BY <1>4
  <2>3. /\ graph' \in Graph
        /\ graph'.inputs = inputs
        /\ graph'.initializers = graph.initializers
        /\ graph'.nodes = graph.nodes
    <3> HIDE DEF inputs
    <3>1. QED BY <1>2, <2>1, <2>2 DEF Graph
  <2>4. /\ defined' \subseteq ValueName \ {Empty} /\ defined \subseteq defined'
        /\ vi.name \in defined => vi.name = Empty
        /\ vi.name = Empty \/ vi.name \in defined'
    BY <1>1, <1>2, <1>4, OneNameClaim
  <2>5. Sound(graph', defined')
    BY <1>1, <1>2, <2>3, <2>4, AddInput
  <2>6. result' \in Outcome
    <3>1. <<vi.name>> \in Seq(ValueName) /\ result' = Ok(<<vi.name>>)
      BY <1>1, <1>4
    <3>2. QED BY <3>1, OkType
  <2>7. QED BY <1>2, <1>3, <2>3, <2>4, <2>5, <2>6 DEF BuilderInv, TypeOK
<1>5. CASE Refused(<<vi.name>>, 0) /\ UNCHANGED graph
  BY <1>1, <1>2, <1>3, <1>5, OneNameRefused, NoClaim DEF TypeOK
<1>6. QED BY <1>4, <1>5 DEF Input

\* What a graph defines is in its inputs, initializers and nodes alone.
LEMMA SameDefinitions ==
  ASSUME NEW g \in Graph, NEW h \in Graph, NEW claimed,
         Sound(g, claimed),
         h.inputs = g.inputs,
         h.initializers = g.initializers,
         h.nodes = g.nodes
  PROVE  Sound(h, claimed)
<1>1. /\ InputNames(h) = InputNames(g)
      /\ InitializerNames(h) = InitializerNames(g)
      /\ NodeOutputNames(h) = NodeOutputNames(g)
  BY DEF InputNames, InitializerNames, NodeOutputNames, OutputsOf
<1>2. /\ InputsUnique(g) => InputsUnique(h)
      /\ InitializersUnique(g) => InitializersUnique(h)
      /\ OutputsUnique(g) => OutputsUnique(h)
  BY DEF InputsUnique, InitializersUnique, OutputsUnique
<1>3. QED BY <1>1, <1>2 DEF Sound, SingleAssignment, NoShadowing, DefinedNames

\* output() adds an output, which defines nothing.
LEMMA OutputPreserves ==
  ASSUME BuilderInv, NEW vi \in ValueInfo, Output(vi)
  PROVE  BuilderInv'
<1> DEFINE outputs == Append(graph.outputs, vi)
<1>1. vi \in ValueInfo /\ vi.name \in ValueName
  BY DEF ValueInfo
<1>2. graph \in Graph
  BY DEF BuilderInv, TypeOK
<1>3. outputs \in Seq(ValueInfo)
  BY <1>1, <1>2, AppendProperties DEF Graph
<1>4. graph' = [graph EXCEPT !.outputs = outputs]
  BY DEF Output
<1>5. /\ graph' \in Graph
      /\ graph'.inputs = graph.inputs
      /\ graph'.initializers = graph.initializers
      /\ graph'.nodes = graph.nodes
  <2> HIDE DEF outputs
  <2>1. QED BY <1>2, <1>3, <1>4 DEF Graph
<1>6. Sound(graph', defined')
  BY <1>2, <1>5, SameDefinitions DEF Output, BuilderInv
<1>7. result' \in Outcome
  <2>1. <<vi.name>> \in Seq(ValueName) /\ result' = Ok(<<vi.name>>)
    BY <1>1 DEF Output
  <2>2. QED BY <2>1, OkType
<1>8. QED BY <1>5, <1>6, <1>7 DEF Output, BuilderInv, TypeOK

\* initializer_tensor() adds the tensor it claimed the name of, or nothing.
LEMMA InitializerTensorPreserves ==
  ASSUME BuilderInv, NEW name \in TensorNames, InitializerTensor(name)
  PROVE  BuilderInv'
<1>1. name \in ValueName
  BY BuilderAssumption
<1>2. TypeOK /\ Sound(graph, defined) /\ graph \in Graph
      /\ graph.initializers \in Seq(ValueName)
  BY GraphFields DEF BuilderInv, TypeOK
<1>3. opsets' = opsets
  BY DEF InitializerTensor
<1>4. CASE /\ Claim(<<name>>, 1)
           /\ graph' = [graph EXCEPT !.initializers = Append(@, name)]
           /\ result' = Ok(<<name>>)
  <2> DEFINE names == <<name>>
             inits == graph.initializers \o names
  <2>1. /\ names \in Seq(ValueName) /\ Len(names) = 1
        /\ \A k \in 1..1 : names[k] = name
    BY <1>1
  <2>2. inits \in Seq(ValueName) /\ inits = Append(graph.initializers, name)
    BY <1>1, <1>2
  <2>3. graph' = [graph EXCEPT !.initializers = inits]
    BY <1>4, <2>2
  <2>4. /\ graph' \in Graph
        /\ graph'.inputs = graph.inputs
        /\ graph'.initializers = inits
        /\ graph'.nodes = graph.nodes
    <3> HIDE DEF inits
    <3>1. QED BY <1>2, <2>2, <2>3 DEF Graph
  <2>5. /\ defined' \subseteq ValueName \ {Empty} /\ defined \subseteq defined'
        /\ name \in defined => name = Empty
        /\ name = Empty \/ name \in defined'
    BY <1>1, <1>2, <1>4, OneNameClaim
  <2>6. Sound(graph', defined')
    <3> HIDE DEF names
    <3>1. /\ \A k \in 1..Len(names) : names[k] \in defined => names[k] = Empty
          /\ \A k \in 1..Len(names) : names[k] = Empty \/ names[k] \in defined'
          /\ \A k, l \in 1..Len(names) : names[k] = names[l] /\ names[k] # Empty => k = l
      BY <2>1, <2>5
    <3>2. QED BY <1>2, <2>1, <2>4, <2>5, <3>1, AddInitializers
  <2>7. result' \in Outcome
    <3>1. names \in Seq(ValueName) /\ result' = Ok(names)
      BY <1>4, <2>1
    <3>2. QED BY <3>1, OkType
  <2>8. QED BY <1>2, <1>3, <2>4, <2>5, <2>6, <2>7 DEF BuilderInv, TypeOK
<1>5. CASE Refused(<<name>>, 0) /\ UNCHANGED graph
  BY <1>1, <1>2, <1>3, <1>5, OneNameRefused, NoClaim DEF TypeOK
<1>6. QED BY <1>4, <1>5 DEF InitializerTensor

\* initializer() refuses a tensor of the wrong length before it claims anything.
LEMMA InitializerPreserves ==
  ASSUME BuilderInv, NEW name \in TensorNames, NEW mismatched \in BOOLEAN,
         Initializer(name, mismatched)
  PROVE  BuilderInv'
<1>1. CASE ~mismatched
  BY <1>1, InitializerTensorPreserves DEF Initializer
<1>2. CASE mismatched
  <2>1. <<name>> \in Seq(ValueName)
    BY BuilderAssumption
  <2>2. result' \in Outcome
    <3> DEFINE names == <<name>>
    <3>1. result' = [outcome |-> "LengthMismatch", names |-> names]
      BY <1>2 DEF Initializer, LengthMismatch
    <3> HIDE DEF names
    <3>2. names \in Seq(ValueName)
      BY <2>1 DEF names
    <3>3. QED BY <3>1, <3>2 DEF Outcome
  <2>3. QED BY <1>2, <2>2, NoClaim DEF Initializer, BuilderInv, TypeOK
<1>3. QED BY <1>1, <1>2

\* Claiming the first n of some names, and being refused the next.
LEMMA SomeNamesRefused ==
  ASSUME BuilderInv, NEW names \in Seq(ValueName), NEW n \in 0..Len(names),
         Refused(names, n), UNCHANGED <<graph, opsets>>
  PROVE  BuilderInv'
<1>1. Claim(names, n)
  BY DEF Refused
<1>2. defined' \subseteq ValueName \ {Empty} /\ defined \subseteq defined'
  BY <1>1, ClaimType DEF BuilderInv, TypeOK
<1>3. result' \in Outcome
  BY RefusedType
<1>4. Sound(graph', defined')
  BY <1>2 DEF BuilderInv, Sound
<1>5. QED BY <1>2, <1>3, <1>4 DEF BuilderInv, TypeOK

\* push_node() adds a node whose outputs it claimed, or keeps the claims alone.
LEMMA PushNodePreserves ==
  ASSUME BuilderInv, NEW op \in OpType, NEW d \in Domain, NEW ins \in Seq(ValueName),
         NEW count \in 0..MaxOutputs, PushNode(op, d, ins, count)
  PROVE  BuilderInv'
<1> DEFINE names == AutoNames(Len(graph.nodes), op, count)
           node == [op |-> op, domain |-> d, inputs |-> ins, outputs |-> names]
<1>1. /\ graph \in Graph /\ graph.nodes \in Seq(Node) /\ Sound(graph, defined) /\ TypeOK
      /\ Len(graph.nodes) \in 0..(MaxNodes - 1) /\ MaxOutputs \in Nat
  BY GraphFields, LenProperties, BuilderAssumption DEF BuilderInv, TypeOK, PushNode
<1>2. names \in Seq(ValueName) /\ Len(names) = count
  BY <1>1, AutoNamesType
<1> HIDE DEF names
<1>3. node \in Node /\ node.outputs = names /\ node.domain = d
  BY <1>2 DEF Node
<1>4. CASE /\ Claim(names, count)
           /\ graph' = [graph EXCEPT !.nodes = Append(@, node)]
           /\ TrackOpset(d)
           /\ result' = Ok(names)
  <2> HIDE DEF node
  <2> DEFINE nodes == Append(graph.nodes, node)
  <2>1. nodes \in Seq(Node)
    BY <1>1, <1>3, AppendProperties
  <2>2. graph' = [graph EXCEPT !.nodes = nodes]
    BY <1>4
  <2>3. /\ graph' \in Graph
        /\ graph'.inputs = graph.inputs
        /\ graph'.initializers = graph.initializers
        /\ graph'.nodes = nodes
    <3> HIDE DEF nodes
    <3>1. QED BY <1>1, <2>1, <2>2 DEF Graph
  <2>4. count \in 0..Len(names) /\ ClaimsFirst(names, count)
    BY <1>1, <1>2, <1>4 DEF Claim
  <2>5. /\ \A k \in 1..count : names[k] \in defined => names[k] = Empty
        /\ \A k, l \in 1..count : names[k] = names[l] /\ names[k] # Empty => k = l
    BY <1>2, <2>4, ClaimedNamesWereFree
  <2>6. /\ defined' \subseteq ValueName \ {Empty} /\ defined \subseteq defined'
        /\ \A k \in 1..count : names[k] = Empty \/ names[k] \in defined'
    BY <1>1, <1>2, <1>4, <2>4, ClaimType DEF TypeOK
  <2>7. Sound(graph', defined')
    BY <1>1, <1>2, <1>3, <2>3, <2>5, <2>6, AddNode
  <2>8. opsets' \in [Domain -> Nat]
    BY <1>1, <1>4, RaiseType, TargetType DEF TrackOpset, TypeOK
  <2>9. result' \in Outcome
    BY <1>2, <1>4, OkType
  <2>10. QED BY <2>3, <2>6, <2>7, <2>8, <2>9 DEF BuilderInv, TypeOK
<1>5. CASE /\ \E n \in 0..(count - 1) : Refused(names, n)
           /\ UNCHANGED <<graph, opsets>>
  <2>1. PICK n \in 0..(count - 1) : Refused(names, n)
    BY <1>5
  <2>2. n \in 0..Len(names)
    BY <1>1, <1>2
  <2>3. QED BY <1>2, <1>5, <2>1, <2>2, SomeNamesRefused
<1>6. QED BY <1>4, <1>5 DEF PushNode, names

\* emit_op() adds the node of an operator that accepts it, or keeps the claims alone.
LEMMA EmitOpPreserves ==
  ASSUME BuilderInv, NEW op \in DOMAIN Signature, NEW ins \in NodeInputs,
         NEW count \in 0..MaxOutputs, EmitOp(op, ins, count)
  PROVE  BuilderInv'
<1> DEFINE names == AutoNames(Len(graph.nodes), op, count)
           node == [op |-> op, domain |-> Signature[op].domain,
                    inputs |-> ins, outputs |-> names]
<1>1. /\ Len(graph.nodes) \in 0..(MaxNodes - 1) /\ op \in OpType
      /\ opsets \in [Domain -> Nat]
  BY GraphFields, LenProperties, BuilderAssumption DEF BuilderInv, TypeOK, EmitOp
<1>2. names \in Seq(ValueName)
  BY <1>1, AutoNamesType
<1>3. CASE PushEmitted(<<>>, node, names)
  <2>1. <<>> \in Seq(ValueName)
    OBVIOUS
  <2> HIDE DEF names
  <2>2. node \in Node
    BY <1>1, <1>2, BuilderAssumption DEF Node
  <2> HIDE DEF node
  <2>3. QED BY <1>2, <1>3, <2>1, <2>2, PushEmittedPreserves
<1>4. CASE result' = OpFailed /\ UNCHANGED <<graph, defined, opsets>>
  <2>1. result' \in Outcome
    BY <1>4 DEF OpFailed, Outcome
  <2>2. QED BY <1>1, <1>4, <2>1, NoClaim
<1>5. QED BY <1>3, <1>4 DEF EmitOp

\* OpSink::emit() adds a composed node and its initializers, or some of the latter.
LEMMA EmitPreserves ==
  ASSUME BuilderInv, NEW tensors \in EmittedTensors, NEW op \in OpType, NEW d \in Domain,
         NEW ins \in NodeInputs, NEW outs \in EmittedOutputs,
         Emit(tensors, op, d, ins, outs)
  PROVE  BuilderInv'
<1> DEFINE node == [op |-> op, domain |-> d, inputs |-> ins, outputs |-> outs]
<1>1. tensors \in Seq(ValueName) /\ outs \in Seq(ValueName) /\ node \in Node
  BY BuilderAssumption DEF Node
<1>2. PushEmitted(tensors, node, outs)
  BY DEF Emit
<1> HIDE DEF node
<1>3. QED BY <1>1, <1>2, PushEmittedPreserves

-----------------------------------------------------------------------------
(* The theorems.                                                           *)

\* A new builder's graph defines nothing.
LEMMA InitSound == Init => BuilderInv
<1> SUFFICES ASSUME Init
             PROVE  BuilderInv
  OBVIOUS
<1>1. PICK named \in GraphNamed : graph = EmptyGraph(named)
  BY DEF Init
<1>2. named \in BOOLEAN
  BY BuilderAssumption
<1>3. graph \in Graph
  BY <1>1, <1>2 DEF EmptyGraph, Graph
<1>4. graph.inputs = <<>> /\ graph.initializers = <<>> /\ graph.nodes = <<>>
  BY <1>1 DEF EmptyGraph
<1>5. Sound(graph, defined)
  BY <1>4 DEF Sound, DefinedNames, SingleAssignment, InputNames, InitializerNames,
       NodeOutputNames, OutputsOf, InputsUnique, InitializersUnique, OutputsUnique,
       NoShadowing
<1>6. opsets \in [Domain -> Nat]
  BY DEF Init
<1>7. result \in Outcome
  <2>1. <<>> \in Seq(ValueName) /\ result = Ok(<<>>)
    BY DEF Init
  <2>2. QED BY <2>1, OkType
<1>8. QED BY <1>3, <1>5, <1>6, <1>7 DEF Init, BuilderInv, TypeOK

\* Every call keeps the invariant, those that fail half way included.
LEMMA NextPreserves == BuilderInv /\ [Next]_vars => BuilderInv'
<1> SUFFICES ASSUME BuilderInv, [Next]_vars
             PROVE  BuilderInv'
  OBVIOUS
<1>1. ASSUME NEW d \in Domain, NEW v \in DeclaredVersions, DeclareOpset(d, v)
      PROVE  BuilderInv'
  BY <1>1, DeclareOpsetPreserves
<1>2. ASSUME NEW vi \in DeclaredInputs, Input(vi)
      PROVE  BuilderInv'
  BY <1>2, BuilderAssumption, InputPreserves
<1>3. ASSUME NEW vi \in DeclaredOutputs, Output(vi)
      PROVE  BuilderInv'
  BY <1>3, BuilderAssumption, OutputPreserves
<1>4. ASSUME NEW name \in TensorNames, NEW mismatched \in BOOLEAN,
             Initializer(name, mismatched)
      PROVE  BuilderInv'
  BY <1>4, InitializerPreserves
<1>5. ASSUME NEW name \in TensorNames, InitializerTensor(name)
      PROVE  BuilderInv'
  BY <1>5, InitializerTensorPreserves
<1>6. ASSUME NEW op \in OpType, NEW d \in Domain, NEW ins \in NodeInputs,
             NEW count \in 0..MaxOutputs, PushNode(op, d, ins, count)
      PROVE  BuilderInv'
  BY <1>6, BuilderAssumption, PushNodePreserves
<1>7. ASSUME NEW op \in DOMAIN Signature, NEW ins \in NodeInputs,
             NEW count \in 0..MaxOutputs, EmitOp(op, ins, count)
      PROVE  BuilderInv'
  BY <1>7, EmitOpPreserves
<1>8. ASSUME NEW tensors \in EmittedTensors, NEW op \in OpType, NEW d \in Domain,
             NEW ins \in NodeInputs, NEW outs \in EmittedOutputs,
             Emit(tensors, op, d, ins, outs)
      PROVE  BuilderInv'
  BY <1>8, EmitPreserves
<1>9. CASE UNCHANGED vars
  BY <1>9 DEF vars, BuilderInv, TypeOK
<1>10. QED
  BY <1>1, <1>2, <1>3, <1>4, <1>5, <1>6, <1>7, <1>8, <1>9 DEF Next

\* BuilderInv is inductive: it holds of the new builder and every call of the API,
\* successful, refused or stopped half way, keeps it.
THEOREM BuilderInvariant == Spec => []BuilderInv
<1>1. QED BY InitSound, NextPreserves, PTL DEF Spec

\* Graph, claims, imports and result of the builder keep their types after any calls, and
\* claim() never takes the empty name.
THEOREM BuilderTypeCorrect == Spec => []TypeOK
<1>1. BuilderInv => TypeOK
  BY DEF BuilderInv
<1>2. QED BY <1>1, BuilderInvariant, PTL

\* claim() keeps the graph under construction in single assignment form, whatever
\* the names callers pass, the nodes they compose and the calls that failed.
THEOREM BuilderSingleAssignment == Spec => []GraphIsSingleAssignment
<1>1. BuilderInv => GraphIsSingleAssignment
  BY DEF BuilderInv, Sound, GraphIsSingleAssignment
<1>2. QED BY <1>1, BuilderInvariant, PTL

\* Every value the builder's graph defines went through claim(), and so cannot be defined
\* again by a later call.
THEOREM BuilderDefinitionsAreClaimed == Spec => []DefinitionsAreClaimed
<1>1. BuilderInv => DefinitionsAreClaimed
  BY DEF BuilderInv, Sound, DefinitionsAreClaimed
<1>2. QED BY <1>1, BuilderInvariant, PTL

-----------------------------------------------------------------------------
(* Operator set imports.                                                   *)

NodesKept == graph'.nodes = graph.nodes

NodeAdded(node) ==
  /\ graph'.nodes = Append(graph.nodes, node)
  /\ TrackOpset(node.domain)

\* Raising an import lowers none, and reaches the version asked for.
LEMMA RaiseOnlyRaises ==
  ASSUME opsets \in [Domain -> Nat], NEW d \in Domain, NEW v \in Nat
  PROVE  /\ \A e \in Domain : Raise(d, v)[e] >= opsets[e]
         /\ Raise(d, v)[d] >= v
<1>1. ASSUME NEW e \in Domain
      PROVE  Raise(d, v)[e] = IF e = d /\ v > opsets[e] THEN v ELSE opsets[e]
  BY DEF Raise
<1>2. opsets[d] \in Nat /\ (\A e \in Domain : opsets[e] \in Nat)
  OBVIOUS
<1>3. QED BY <1>1, <1>2

\* A node that comes with initializers adds itself and its import, or neither.
LEMMA PushEmittedImports ==
  ASSUME BuilderInv, NEW tensors \in Seq(ValueName), NEW node \in Node,
         NEW refs \in Seq(ValueName), PushEmitted(tensors, node, refs)
  PROVE  \/ opsets' = opsets /\ NodesKept
         \/ NodeAdded(node)
<1>1. graph \in Graph
  BY DEF BuilderInv, TypeOK
<1>2. ASSUME NEW inits, NEW nodes,
             graph' = [graph EXCEPT !.initializers = inits, !.nodes = nodes]
      PROVE  graph'.nodes = nodes
  BY <1>1, <1>2 DEF Graph
<1>3. ASSUME NEW inits, graph' = [graph EXCEPT !.initializers = inits]
      PROVE  NodesKept
  BY <1>1, <1>3 DEF Graph, NodesKept
<1>4. QED BY <1>2, <1>3 DEF PushEmitted, NodeAdded

\* Of imports and nodes, a step changes neither, or raises one import, or adds a node
\* and raises the import of its domain.
LEMMA ImportsStep ==
  ASSUME BuilderInv, [Next]_vars
  PROVE  \/ opsets' = opsets /\ NodesKept
         \/ \E d \in Domain, v \in Nat : opsets' = Raise(d, v) /\ NodesKept
         \/ \E node \in Node : NodeAdded(node)
<1> USE BuilderAssumption
<1>1. graph \in Graph
  BY DEF BuilderInv, TypeOK
<1>2. ASSUME NEW d \in Domain, NEW v \in DeclaredVersions, DeclareOpset(d, v)
      PROVE  \E e \in Domain, w \in Nat : opsets' = Raise(e, w) /\ NodesKept
  BY <1>2 DEF DeclareOpset, NodesKept
<1>3. ASSUME NEW vi \in DeclaredInputs, Input(vi)
      PROVE  opsets' = opsets /\ NodesKept
  <2>1. ASSUME NEW inputs, graph' = [graph EXCEPT !.inputs = inputs]
        PROVE  NodesKept
    BY <1>1, <2>1 DEF Graph, NodesKept
  <2>2. QED BY <1>3, <2>1 DEF Input, NodesKept
<1>4. ASSUME NEW vi \in DeclaredOutputs, Output(vi)
      PROVE  opsets' = opsets /\ NodesKept
  <2>1. ASSUME NEW outputs, graph' = [graph EXCEPT !.outputs = outputs]
        PROVE  NodesKept
    BY <1>1, <2>1 DEF Graph, NodesKept
  <2>2. QED BY <1>4, <2>1 DEF Output
<1>5. ASSUME NEW name \in TensorNames, InitializerTensor(name)
      PROVE  opsets' = opsets /\ NodesKept
  <2>1. ASSUME NEW inits, graph' = [graph EXCEPT !.initializers = inits]
        PROVE  NodesKept
    BY <1>1, <2>1 DEF Graph, NodesKept
  <2>2. QED BY <1>5, <2>1 DEF InitializerTensor, NodesKept
<1>6. ASSUME NEW name \in TensorNames, NEW mismatched \in BOOLEAN,
             Initializer(name, mismatched)
      PROVE  opsets' = opsets /\ NodesKept
  BY <1>5, <1>6 DEF Initializer, NodesKept
<1>7. ASSUME NEW op \in OpType, NEW d \in Domain, NEW ins \in NodeInputs,
             NEW count \in 0..MaxOutputs, PushNode(op, d, ins, count)
      PROVE  \/ opsets' = opsets /\ NodesKept
             \/ \E node \in Node : NodeAdded(node)
  <2> DEFINE names == AutoNames(Len(graph.nodes), op, count)
             node == [op |-> op, domain |-> d, inputs |-> ins, outputs |-> names]
  <2>1. graph.nodes \in Seq(Node) /\ Len(graph.nodes) \in 0..(MaxNodes - 1)
    BY <1>1, <1>7, GraphFields, LenProperties DEF PushNode
  <2>2. names \in Seq(ValueName)
    BY <2>1, AutoNamesType
  <2> HIDE DEF names
  <2>3. node \in Node /\ node.domain = d
    BY <2>2 DEF Node
  <2>4. \/ /\ graph' = [graph EXCEPT !.nodes = Append(@, node)]
           /\ TrackOpset(d)
        \/ UNCHANGED <<graph, opsets>>
    BY <1>7 DEF PushNode, names
  <2> HIDE DEF node
  <2>5. ASSUME graph' = [graph EXCEPT !.nodes = Append(@, node)]
        PROVE  graph'.nodes = Append(graph.nodes, node)
    BY <1>1, <2>5 DEF Graph
  <2>6. QED BY <2>3, <2>4, <2>5 DEF NodeAdded, NodesKept
<1>8. ASSUME NEW op \in DOMAIN Signature, NEW ins \in NodeInputs,
             NEW count \in 0..MaxOutputs, EmitOp(op, ins, count)
      PROVE  \/ opsets' = opsets /\ NodesKept
             \/ \E node \in Node : NodeAdded(node)
  <2> DEFINE names == AutoNames(Len(graph.nodes), op, count)
             node == [op |-> op, domain |-> Signature[op].domain,
                      inputs |-> ins, outputs |-> names]
  <2>1. graph.nodes \in Seq(Node) /\ Len(graph.nodes) \in 0..(MaxNodes - 1)
    BY <1>1, <1>8, GraphFields, LenProperties DEF EmitOp
  <2>2. names \in Seq(ValueName) /\ <<>> \in Seq(ValueName)
    BY <2>1, AutoNamesType
  <2> HIDE DEF names
  <2>3. node \in Node
    BY <2>2 DEF Node
  <2>4. \/ PushEmitted(<<>>, node, names)
        \/ UNCHANGED <<graph, opsets>>
    BY <1>8 DEF EmitOp, names
  <2> HIDE DEF node
  <2>5. QED BY <2>2, <2>3, <2>4, PushEmittedImports DEF NodesKept
<1>9. ASSUME NEW tensors \in EmittedTensors, NEW op \in OpType, NEW d \in Domain,
             NEW ins \in NodeInputs, NEW outs \in EmittedOutputs,
             Emit(tensors, op, d, ins, outs)
      PROVE  \/ opsets' = opsets /\ NodesKept
             \/ \E node \in Node : NodeAdded(node)
  <2> DEFINE node == [op |-> op, domain |-> d, inputs |-> ins, outputs |-> outs]
  <2>1. tensors \in Seq(ValueName) /\ outs \in Seq(ValueName) /\ node \in Node
    BY DEF Node
  <2>2. PushEmitted(tensors, node, outs)
    BY <1>9 DEF Emit
  <2> HIDE DEF node
  <2>3. QED BY <2>1, <2>2, PushEmittedImports
<1>10. CASE UNCHANGED vars
  BY <1>10 DEF vars, NodesKept
<1>11. QED
  BY <1>2, <1>3, <1>4, <1>5, <1>6, <1>7, <1>8, <1>9, <1>10 DEF Next

\* declare_opset and the nodes pushed only ever raise an import, whichever comes first.
THEOREM ImportsOnlyRise == Spec => OpsetsOnlyRise
<1>1. BuilderInv /\ [Next]_vars => \A d \in Domain : opsets'[d] >= opsets[d]
  <2> SUFFICES ASSUME BuilderInv, [Next]_vars
               PROVE  \A d \in Domain : opsets'[d] >= opsets[d]
    OBVIOUS
  <2>1. opsets \in [Domain -> Nat]
    BY DEF BuilderInv, TypeOK
  <2>2. CASE opsets' = opsets
    BY <2>1, <2>2
  <2>3. ASSUME NEW d \in Domain, NEW v \in Nat, opsets' = Raise(d, v)
        PROVE  \A e \in Domain : opsets'[e] >= opsets[e]
    BY <2>1, <2>3, RaiseOnlyRaises
  <2>4. ASSUME NEW node \in Node, NodeAdded(node)
        PROVE  \A e \in Domain : opsets'[e] >= opsets[e]
    <3>1. node.domain \in Domain /\ Target(node.domain) \in Nat
      BY TargetType DEF Node
    <3>2. QED BY <2>3, <2>4, <3>1 DEF NodeAdded, TrackOpset
  <2>5. QED BY <2>2, <2>3, <2>4, ImportsStep
<1>2. QED BY <1>1, BuilderInvariant, PTL DEF Spec, OpsetsOnlyRise

\* Of every domain a node was pushed for, the model imports at least the version that
\* track_opset_for_domain calls for, whatever was declared before or after.
THEOREM ImportsCoverNodes == Spec => []OpsetsCoverNodes
<1>1. Init => OpsetsCoverNodes
  BY DEF Init, EmptyGraph, OpsetsCoverNodes
<1>2. BuilderInv /\ OpsetsCoverNodes /\ [Next]_vars => OpsetsCoverNodes'
  <2> SUFFICES ASSUME BuilderInv, OpsetsCoverNodes, [Next]_vars, NEW i \in DOMAIN graph'.nodes
               PROVE  opsets'[graph'.nodes[i].domain] >= Target(graph'.nodes[i].domain)
    BY DEF OpsetsCoverNodes
  <2>1. opsets \in [Domain -> Nat] /\ graph.nodes \in Seq(Node)
    BY GraphFields DEF BuilderInv, TypeOK
  <2>2. ASSUME NEW j \in DOMAIN graph.nodes
        PROVE  /\ graph.nodes[j].domain \in Domain
               /\ opsets[graph.nodes[j].domain] >= Target(graph.nodes[j].domain)
    <3>1. graph.nodes[j] \in Node
      BY <2>1
    <3>2. graph.nodes[j].domain \in Domain
      BY <3>1 DEF Node
    <3>3. opsets[graph.nodes[j].domain] >= Target(graph.nodes[j].domain)
      BY Zenon DEF OpsetsCoverNodes
    <3>4. QED BY <3>2, <3>3
  <2>3. ASSUME NEW d \in Domain, NEW v \in Nat, opsets' = Raise(d, v),
               NEW j \in DOMAIN graph.nodes
        PROVE  opsets'[graph.nodes[j].domain] >= Target(graph.nodes[j].domain)
    <3> DEFINE e == graph.nodes[j].domain
    <3>1. e \in Domain /\ opsets[e] >= Target(e)
      BY <2>2
    <3>2. opsets'[e] >= opsets[e]
      BY <2>1, <2>3, <3>1, RaiseOnlyRaises
    <3>3. opsets'[e] \in Nat /\ opsets[e] \in Nat /\ Target(e) \in Nat
      BY <2>1, <2>3, <3>1, RaiseType, TargetType
    <3>4. \A a, b, c \in Nat : a >= b /\ b >= c => a >= c
      OBVIOUS
    <3> HIDE DEF e
    <3>5. opsets'[e] >= Target(e)
      BY <3>1, <3>2, <3>3, <3>4, Zenon
    <3>6. QED BY <3>5, Zenon DEF e
  <2>4. CASE opsets' = opsets /\ NodesKept
    BY <2>2, <2>4 DEF NodesKept
  <2>5. ASSUME NEW d \in Domain, NEW v \in Nat, opsets' = Raise(d, v), NodesKept
        PROVE  opsets'[graph'.nodes[i].domain] >= Target(graph'.nodes[i].domain)
    BY <2>3, <2>5 DEF NodesKept
  <2>6. ASSUME NEW node \in Node, NodeAdded(node)
        PROVE  opsets'[graph'.nodes[i].domain] >= Target(graph'.nodes[i].domain)
    <3>1. node.domain \in Domain /\ Target(node.domain) \in Nat
      BY TargetType DEF Node
    <3>2. opsets' = Raise(node.domain, Target(node.domain))
      BY <2>6 DEF NodeAdded, TrackOpset
    <3>3. \/ i \in DOMAIN graph.nodes /\ graph'.nodes[i] = graph.nodes[i]
          \/ graph'.nodes[i] = node
      BY <2>1, <2>6 DEF NodeAdded
    <3>4. opsets'[node.domain] >= Target(node.domain)
      BY <2>1, <3>1, <3>2, RaiseOnlyRaises
    <3>5. QED BY <2>3, <3>1, <3>2, <3>3, <3>4
  <2>7. QED BY <2>4, <2>5, <2>6, ImportsStep
<1>3. QED BY <1>1, <1>2, BuilderInvariant, PTL DEF Spec

-----------------------------------------------------------------------------
(* What a call adds to the graph.                                          *)

\* The first sequence is how the second one begins.
Begins(s, t) == Len(s) <= Len(t) /\ \A k \in 1..Len(s) : t[k] = s[k]

\* All that g defines, h defines in the same places.
Continues(g, h) ==
  /\ Begins(g.inputs, h.inputs)
  /\ Begins(g.initializers, h.initializers)
  /\ Begins(g.nodes, h.nodes)

\* Of the parts that define values, a call leaves all alone, adds an input, or adds
\* initializers and perhaps a node.
Added ==
  \/ UNCHANGED <<graph.inputs, graph.initializers, graph.nodes>>
  \/ /\ \E vi \in ValueInfo : graph'.inputs = Append(graph.inputs, vi)
     /\ UNCHANGED <<graph.initializers, graph.nodes>>
  \/ /\ \E tensors \in Seq(ValueName) : graph'.initializers = graph.initializers \o tensors
     /\ \/ UNCHANGED graph.nodes
        \/ \E node \in Node : graph'.nodes = Append(graph.nodes, node)
     /\ UNCHANGED graph.inputs

\* What is assigned to a part of the graph is that part, and the others stay.
LEMMA Assigned ==
  ASSUME NEW g \in Graph, NEW h, NEW inputs, NEW outputs, NEW inits, NEW nodes
  PROVE  /\ h = [g EXCEPT !.inputs = inputs] =>
              h.inputs = inputs /\ h.initializers = g.initializers /\ h.nodes = g.nodes
         /\ h = [g EXCEPT !.outputs = outputs] =>
              h.inputs = g.inputs /\ h.initializers = g.initializers /\ h.nodes = g.nodes
         /\ h = [g EXCEPT !.initializers = inits] =>
              h.inputs = g.inputs /\ h.initializers = inits /\ h.nodes = g.nodes
         /\ h = [g EXCEPT !.nodes = nodes] =>
              h.inputs = g.inputs /\ h.initializers = g.initializers /\ h.nodes = nodes
         /\ h = [g EXCEPT !.initializers = inits, !.nodes = nodes] =>
              h.inputs = g.inputs /\ h.initializers = inits /\ h.nodes = nodes
BY DEF Graph

\* The first tensors of a list are a list of tensors.
LEMMA FirstTensors ==
  ASSUME NEW tensors \in Seq(ValueName), NEW m \in 0..Len(tensors)
  PROVE  SubSeq(tensors, 1, m) \in Seq(ValueName)
<1>1. Len(tensors) \in Nat /\ (\A k \in 1..Len(tensors) : tensors[k] \in ValueName)
  BY ElementOfSeq, LenProperties
<1>2. \A k \in 1..m : tensors[k] \in ValueName
  BY <1>1
<1>3. QED BY <1>1, <1>2, SubSeqProperties

\* push_emitted adds initializers, and perhaps the node.
LEMMA PushEmittedAdds ==
  ASSUME BuilderInv, NEW tensors \in Seq(ValueName), NEW node \in Node,
         NEW refs \in Seq(ValueName), PushEmitted(tensors, node, refs)
  PROVE  Added
<1> DEFINE names == tensors \o node.outputs
           first(n) == SubSeq(tensors, 1, IF n < Len(tensors) THEN n ELSE Len(tensors))
<1>1. graph \in Graph
  BY DEF BuilderInv, TypeOK
<1>2. CASE graph' = [graph EXCEPT !.initializers = @ \o tensors, !.nodes = Append(@, node)]
  <2>1. /\ graph'.initializers = graph.initializers \o tensors
        /\ graph'.nodes = Append(graph.nodes, node)
        /\ graph'.inputs = graph.inputs
    BY <1>1, <1>2 DEF Graph
  <2>2. QED BY <2>1 DEF Added
<1>3. ASSUME NEW n \in 0..(Len(names) - 1),
             graph' = [graph EXCEPT !.initializers = @ \o first(n)]
      PROVE  Added
  <2>1. Len(tensors) \in Nat /\ n \in Nat
    BY <1>3
  <2>2. (IF n < Len(tensors) THEN n ELSE Len(tensors)) \in 0..Len(tensors)
    BY <2>1
  <2>3. first(n) \in Seq(ValueName)
    BY <2>2, FirstTensors
  <2> HIDE DEF first
  <2>4. QED BY <1>1, <1>3, <2>3, Assigned DEF Added
<1>4. \/ graph' = [graph EXCEPT !.initializers = @ \o tensors, !.nodes = Append(@, node)]
      \/ \E n \in 0..(Len(names) - 1) : graph' = [graph EXCEPT !.initializers = @ \o first(n)]
  BY DEF PushEmitted
<1>5. QED BY <1>2, <1>3, <1>4

\* Every call adds to the definitions of the graph, or leaves them.
LEMMA CallsAdd ==
  ASSUME BuilderInv, [Next]_vars
  PROVE  Added
<1> USE BuilderAssumption
<1>1. graph \in Graph
  BY DEF BuilderInv, TypeOK
<1>2. CASE UNCHANGED graph
  BY <1>2 DEF Added
<1>3. ASSUME NEW vi \in DeclaredInputs, Input(vi)
      PROVE  Added
  <2>1. CASE graph' = [graph EXCEPT !.inputs = Append(@, vi)]
    <3>1. /\ graph'.inputs = Append(graph.inputs, vi)
          /\ graph'.initializers = graph.initializers
          /\ graph'.nodes = graph.nodes
      BY <1>1, <2>1 DEF Graph
    <3>2. QED BY <3>1 DEF Added
  <2>2. QED BY <1>2, <1>3, <2>1 DEF Input
<1>4. ASSUME NEW vi \in DeclaredOutputs, Output(vi)
      PROVE  Added
  <2>1. /\ graph'.inputs = graph.inputs
        /\ graph'.initializers = graph.initializers
        /\ graph'.nodes = graph.nodes
    BY <1>1, <1>4, Assigned DEF Output
  <2>2. QED BY <2>1 DEF Added
<1>5. ASSUME NEW name \in TensorNames, InitializerTensor(name)
      PROVE  Added
  <2>1. CASE graph' = [graph EXCEPT !.initializers = Append(@, name)]
    <3>1. /\ graph'.initializers = Append(graph.initializers, name)
          /\ graph'.inputs = graph.inputs
          /\ graph'.nodes = graph.nodes
      BY <1>1, <2>1 DEF Graph
    <3>2. graph.initializers \in Seq(ValueName) /\ name \in ValueName
      BY <1>1, GraphFields
    <3>3. <<name>> \in Seq(ValueName) /\ graph'.initializers = graph.initializers \o <<name>>
      BY <3>1, <3>2
    <3>4. QED BY <3>1, <3>3 DEF Added
  <2>2. QED BY <1>2, <1>5, <2>1 DEF InitializerTensor
<1>6. ASSUME NEW name \in TensorNames, NEW mismatched \in BOOLEAN,
             Initializer(name, mismatched)
      PROVE  Added
  BY <1>2, <1>5, <1>6 DEF Initializer
<1>7. ASSUME NEW op \in OpType, NEW d \in Domain, NEW ins \in NodeInputs,
             NEW count \in 0..MaxOutputs, PushNode(op, d, ins, count)
      PROVE  Added
  <2> DEFINE names == AutoNames(Len(graph.nodes), op, count)
             node == [op |-> op, domain |-> d, inputs |-> ins, outputs |-> names]
  <2>1. Len(graph.nodes) \in 0..(MaxNodes - 1)
    BY <1>1, <1>7, GraphFields, LenProperties DEF PushNode
  <2>2. node \in Node
    BY <2>1, AutoNamesType DEF Node
  <2>3. \/ graph' = [graph EXCEPT !.nodes = Append(@, node)]
        \/ UNCHANGED graph
    BY <1>7 DEF PushNode
  <2> HIDE DEF node
  <2>4. CASE graph' = [graph EXCEPT !.nodes = Append(@, node)]
    <3>1. /\ graph'.inputs = graph.inputs
          /\ graph'.initializers = graph.initializers
          /\ graph'.nodes = Append(graph.nodes, node)
      BY <1>1, <2>4 DEF Graph
    <3>2. <<>> \in Seq(ValueName) /\ graph'.initializers = graph.initializers \o <<>>
      BY <1>1, <3>1, GraphFields, ConcatEmptySeq
    <3>3. QED BY <2>2, <3>1, <3>2 DEF Added
  <2>5. QED BY <1>2, <2>3, <2>4
<1>8. ASSUME NEW op \in DOMAIN Signature, NEW ins \in NodeInputs,
             NEW count \in 0..MaxOutputs, EmitOp(op, ins, count)
      PROVE  Added
  <2> DEFINE names == AutoNames(Len(graph.nodes), op, count)
             node == [op |-> op, domain |-> Signature[op].domain,
                      inputs |-> ins, outputs |-> names]
  <2>1. Len(graph.nodes) \in 0..(MaxNodes - 1)
    BY <1>1, <1>8, GraphFields, LenProperties DEF EmitOp
  <2>2. names \in Seq(ValueName) /\ <<>> \in Seq(ValueName)
    BY <2>1, AutoNamesType
  <2> HIDE DEF names
  <2>3. node \in Node
    BY <2>2 DEF Node
  <2>4. PushEmitted(<<>>, node, names) \/ UNCHANGED graph
    BY <1>8 DEF EmitOp, names
  <2> HIDE DEF node
  <2>5. QED BY <1>2, <2>2, <2>3, <2>4, PushEmittedAdds
<1>9. ASSUME NEW tensors \in EmittedTensors, NEW op \in OpType, NEW d \in Domain,
             NEW ins \in NodeInputs, NEW outs \in EmittedOutputs,
             Emit(tensors, op, d, ins, outs)
      PROVE  Added
  <2> DEFINE node == [op |-> op, domain |-> d, inputs |-> ins, outputs |-> outs]
  <2>1. tensors \in Seq(ValueName) /\ outs \in Seq(ValueName) /\ node \in Node
    BY DEF Node
  <2>2. PushEmitted(tensors, node, outs)
    BY <1>9 DEF Emit
  <2> HIDE DEF node
  <2>3. QED BY <2>1, <2>2, PushEmittedAdds
<1>10. QED
  BY <1>2, <1>3, <1>4, <1>5, <1>6, <1>7, <1>8, <1>9 DEF Next, DeclareOpset, vars

-----------------------------------------------------------------------------
(* The table of values.                                                    *)

\* No call moves or withdraws a definition.
LEMMA DefinitionsStay ==
  ASSUME BuilderInv, Added
  PROVE  Continues(graph, graph')
<1>1. /\ graph.inputs \in Seq(ValueInfo) /\ graph.initializers \in Seq(ValueName)
      /\ graph.nodes \in Seq(Node)
  BY GraphFields DEF BuilderInv, TypeOK
<1>2. /\ Begins(graph.inputs, graph.inputs)
      /\ Begins(graph.initializers, graph.initializers)
      /\ Begins(graph.nodes, graph.nodes)
  BY DEF Begins
<1>3. \A vi \in ValueInfo : Begins(graph.inputs, Append(graph.inputs, vi))
  BY <1>1, AppendProperties, LenProperties DEF Begins
<1>4. \A tensors \in Seq(ValueName) : Begins(graph.initializers, graph.initializers \o tensors)
  BY <1>1, ConcatParts DEF Begins
<1>5. \A node \in Node : Begins(graph.nodes, Append(graph.nodes, node))
  BY <1>1, AppendProperties, LenProperties DEF Begins
<1>6. QED BY <1>2, <1>3, <1>4, <1>5 DEF Added, Continues

\* A place that defines a value keeps doing so.
LEMMA SitesStay ==
  ASSUME NEW g \in Graph, NEW h \in Graph, Continues(g, h), NEW v
  PROVE  DefinitionSites(g, v) \subseteq DefinitionSites(h, v)
<1>1. /\ DOMAIN g.inputs \subseteq DOMAIN h.inputs
      /\ DOMAIN g.initializers \subseteq DOMAIN h.initializers
      /\ DOMAIN g.nodes \subseteq DOMAIN h.nodes
      /\ \A i \in DOMAIN g.inputs : h.inputs[i] = g.inputs[i]
      /\ \A i \in DOMAIN g.initializers : h.initializers[i] = g.initializers[i]
      /\ \A i \in DOMAIN g.nodes : h.nodes[i] = g.nodes[i]
  <2>1. /\ g.inputs \in Seq(ValueInfo) /\ h.inputs \in Seq(ValueInfo)
        /\ g.initializers \in Seq(ValueName) /\ h.initializers \in Seq(ValueName)
        /\ g.nodes \in Seq(Node) /\ h.nodes \in Seq(Node)
    BY GraphFields
  <2>2. ASSUME NEW S, NEW s \in Seq(S), NEW t \in Seq(S), Begins(s, t)
        PROVE  DOMAIN s \subseteq DOMAIN t /\ \A i \in DOMAIN s : t[i] = s[i]
    BY <2>2, LenProperties DEF Begins
  <2>3. QED BY <2>1, <2>2 DEF Continues
<1>2. QED BY <1>1 DEF DefinitionSites

\* In single assignment form a value has one place.
LEMMA OneSite ==
  ASSUME NEW g \in Graph, SingleAssignment(g), NEW v, v # Empty,
         NEW p \in DefinitionSites(g, v), NEW q \in DefinitionSites(g, v)
  PROVE  p = q
<1> DEFINE input(x) == \E i \in DOMAIN g.inputs : g.inputs[i].name = v /\ x = <<"input", i, 0>>
           init(x) == \E i \in DOMAIN g.initializers :
                        g.initializers[i] = v /\ x = <<"initializer", i, 0>>
           node(x) == \E i \in DOMAIN g.nodes : \E k \in DOMAIN g.nodes[i].outputs :
                        g.nodes[i].outputs[k] = v /\ x = <<"node", i, k>>
<1>1. (input(p) \/ init(p) \/ node(p)) /\ (input(q) \/ init(q) \/ node(q))
  BY DEF DefinitionSites
<1>2. ASSUME NEW x
      PROVE  /\ input(x) => v \in InputNames(g)
             /\ init(x) => v \in InitializerNames(g)
             /\ node(x) => v \in NodeOutputNames(g)
  BY DEF InputNames, InitializerNames, NodeOutputNames, OutputsOf
<1>3. input(p) /\ input(q) => p = q
  BY DEF SingleAssignment, InputsUnique
<1>4. init(p) /\ init(q) => p = q
  BY DEF SingleAssignment, InitializersUnique
<1>5. node(p) /\ node(q) => p = q
  BY DEF SingleAssignment, OutputsUnique
<1>6. /\ ~(v \in InputNames(g) /\ v \in InitializerNames(g))
      /\ ~(v \in InputNames(g) /\ v \in NodeOutputNames(g))
      /\ ~(v \in InitializerNames(g) /\ v \in NodeOutputNames(g))
  BY DEF SingleAssignment, NoShadowing
<1> HIDE DEF input, init, node
<1>7. QED BY <1>1, <1>2, <1>3, <1>4, <1>5, <1>6

\* The builder implements the table of values: whatever the calls, and however they fail,
\* claim() gives each value one place in the graph, and nothing moves or withdraws it.
THEOREM BuilderImplementsTable == Spec => ImplementsValueTable
<1> DEFINE Value == ValueName \ {Empty}
           sites == [v \in Value |-> DefinitionSites(graph, v)]
<1>1. Init => Table!Init
  <2> SUFFICES ASSUME Init PROVE Table!Init
    OBVIOUS
  <2>1. graph.inputs = <<>> /\ graph.initializers = <<>> /\ graph.nodes = <<>>
    BY DEF Init, EmptyGraph
  <2>2. \A v : DefinitionSites(graph, v) = {}
    BY <2>1 DEF DefinitionSites
  <2>3. QED BY <2>2 DEF Table!Init
<1>2. BuilderInv /\ [Next]_vars => [Table!Define]_sites
  <2> SUFFICES ASSUME BuilderInv, [Next]_vars PROVE Table!Define
    OBVIOUS
  <2>1. /\ graph \in Graph /\ graph' \in Graph /\ SingleAssignment(graph')
        /\ Continues(graph, graph')
    BY NextPreserves, CallsAdd, DefinitionsStay DEF BuilderInv, TypeOK, Sound
  <2>2. ASSUME NEW v \in Value
        PROVE  \/ DefinitionSites(graph', v) = DefinitionSites(graph, v)
               \/ /\ DefinitionSites(graph, v) = {}
                  /\ \E place \in DefinitionSites(graph', v) :
                       DefinitionSites(graph', v) = {place}
    <3>1. DefinitionSites(graph, v) \subseteq DefinitionSites(graph', v)
      BY <2>1, SitesStay
    <3>2. \A p, q \in DefinitionSites(graph', v) : p = q
      BY <2>1, OneSite
    <3>3. QED BY <3>1, <3>2
  <2>3. QED BY <2>2 DEF Table!Define
<1>3. QED
  BY <1>1, <1>2, BuilderInvariant, PTL DEF Spec, ImplementsValueTable, Table!Spec

-----------------------------------------------------------------------------
(* What a failed call leaves behind.                                       *)

\* A failed step leaves no more than claims and initializers behind.
Contained ==
  /\ graph' = [graph EXCEPT !.initializers = graph'.initializers]
  /\ \E n \in 0..Len(graph'.initializers) :
       graph.initializers = SubSeq(graph'.initializers, 1, n)
  /\ opsets' = opsets
  /\ result'.outcome # "DuplicateName" => UNCHANGED <<graph, defined>>

\* A sequence is the beginning of what it becomes when another is put behind it.
LEMMA ExtendedFrom ==
  ASSUME NEW S, NEW s \in Seq(S), NEW t \in Seq(S)
  PROVE  /\ s \o t \in Seq(S)
         /\ \E n \in 0..Len(s \o t) : s = SubSeq(s \o t, 1, n)
<1>1. /\ s \o t \in Seq(S) /\ Len(s \o t) = Len(s) + Len(t)
      /\ Len(s) \in Nat /\ Len(t) \in Nat
  BY ConcatProperties, LenProperties
<1>2. s = SubSeq(s \o t, 1, Len(s))
  <2>1. CASE Len(s) = 0
    <3>1. s = <<>>
      BY <2>1, EmptySeq
    <3>2. SubSeq(s \o t, 1, 0) = <<>>
      BY SubSeqEmpty
    <3>3. QED BY <2>1, <3>1, <3>2
  <2>2. CASE Len(s) # 0
    <3>1. 1 \in 1..Len(s) /\ Len(s) \in 1..Len(s)
      BY <1>1, <2>2
    <3>2. SubSeq(s \o t, 1, Len(s)) = SubSeq(s, 1, Len(s))
      BY <3>1, SubSeqOfConcat1
    <3>3. QED BY <3>2, SubSeqFull
  <2>3. QED BY <2>1, <2>2
<1> DEFINE st == s \o t
<1> HIDE DEF st
<1>3. Len(s) \in 0..Len(st) /\ s = SubSeq(st, 1, Len(s))
  BY <1>1, <1>2 DEF st
<1>4. \E n \in 0..Len(st) : s = SubSeq(st, 1, n)
  BY <1>3
<1>5. QED BY <1>1, <1>4 DEF st

\* A call that leaves the graph and its imports alone is contained.
LEMMA SameGraphIsContained ==
  ASSUME BuilderInv, UNCHANGED <<graph, opsets>>,
         result'.outcome = "DuplicateName" \/ UNCHANGED defined
  PROVE  Contained
<1>1. graph \in Graph /\ graph.initializers \in Seq(ValueName)
  BY GraphFields DEF BuilderInv, TypeOK
<1>2. graph = [graph EXCEPT !.initializers = graph.initializers]
  BY <1>1 DEF Graph
<1>3. /\ graph.initializers = SubSeq(graph.initializers, 1, Len(graph.initializers))
      /\ Len(graph.initializers) \in 0..Len(graph.initializers)
  BY <1>1, SubSeqFull, LenProperties
<1>4. QED BY <1>2, <1>3 DEF Contained

\* A refused push_emitted is contained: the initializers before the refused name stay.
LEMMA PushEmittedContained ==
  ASSUME BuilderInv, NEW tensors \in Seq(ValueName), NEW node,
         NEW refs, PushEmitted(tensors, node, refs), result'.outcome # "Ok"
  PROVE  Contained
<1> DEFINE names == tensors \o node.outputs
           first(n) == SubSeq(tensors, 1, IF n < Len(tensors) THEN n ELSE Len(tensors))
<1>1. PICK n \in 0..(Len(names) - 1) :
        /\ Refused(names, n)
        /\ graph' = [graph EXCEPT !.initializers = @ \o first(n)]
        /\ UNCHANGED opsets
  <2>1. result' # Ok(refs)
    BY DEF Ok
  <2>2. QED BY <2>1, Zenon DEF PushEmitted
<1>2. graph \in Graph /\ graph.initializers \in Seq(ValueName)
  BY GraphFields DEF BuilderInv, TypeOK
<1>3. first(n) \in Seq(ValueName)
  <2>1. Len(tensors) \in Nat
    BY LenProperties
  <2>2. (IF n < Len(tensors) THEN n ELSE Len(tensors)) \in 0..Len(tensors)
    BY <2>1
  <2>3. QED BY <2>2, FirstTensors
<1>4. result'.outcome = "DuplicateName"
  BY <1>1 DEF Refused, DuplicateName
<1> HIDE DEF first
<1> DEFINE more == graph.initializers \o first(n)
<1>5. graph' = [graph EXCEPT !.initializers = more]
  BY <1>1
<1>6. \E m \in 0..Len(more) : graph.initializers = SubSeq(more, 1, m)
  BY <1>2, <1>3, ExtendedFrom
<1> HIDE DEF more
<1>7. graph'.initializers = more
  BY <1>2, <1>5 DEF Graph
<1>8. QED BY <1>1, <1>4, <1>5, <1>6, <1>7 DEF Contained

\* Every call that fails is contained.
LEMMA FailedStepIsContained ==
  ASSUME BuilderInv, Next, result'.outcome # "Ok"
  PROVE  Contained
<1> USE BuilderAssumption
<1>1. \A refs : Ok(refs).outcome = "Ok"
  BY DEF Ok
<1>2. \A names, n : Refused(names, n) => result'.outcome = "DuplicateName"
  BY DEF Refused, DuplicateName
<1>3. ASSUME NEW vi \in DeclaredInputs, Input(vi)
      PROVE  Contained
  BY <1>1, <1>2, <1>3, SameGraphIsContained DEF Input
<1>4. ASSUME NEW name \in TensorNames, InitializerTensor(name)
      PROVE  Contained
  BY <1>1, <1>2, <1>4, SameGraphIsContained DEF InitializerTensor
<1>5. ASSUME NEW name \in TensorNames, NEW mismatched \in BOOLEAN,
             Initializer(name, mismatched)
      PROVE  Contained
  BY <1>4, <1>5, SameGraphIsContained DEF Initializer
<1>6. ASSUME NEW op \in OpType, NEW d \in Domain, NEW ins \in NodeInputs,
             NEW count \in 0..MaxOutputs, PushNode(op, d, ins, count)
      PROVE  Contained
  BY <1>1, <1>2, <1>6, SameGraphIsContained DEF PushNode
<1>7. ASSUME NEW op \in DOMAIN Signature, NEW ins \in NodeInputs,
             NEW count \in 0..MaxOutputs, EmitOp(op, ins, count)
      PROVE  Contained
  <2> DEFINE names == AutoNames(Len(graph.nodes), op, count)
             node == [op |-> op, domain |-> Signature[op].domain,
                      inputs |-> ins, outputs |-> names]
  <2>1. PushEmitted(<<>>, node, names) \/ UNCHANGED <<graph, defined, opsets>>
    BY <1>7 DEF EmitOp
  <2> HIDE DEF node, names
  <2>2. <<>> \in Seq(ValueName)
    OBVIOUS
  <2>3. QED BY <2>1, <2>2, PushEmittedContained, SameGraphIsContained
<1>8. ASSUME NEW tensors \in EmittedTensors, NEW op \in OpType, NEW d \in Domain,
             NEW ins \in NodeInputs, NEW outs \in EmittedOutputs,
             Emit(tensors, op, d, ins, outs)
      PROVE  Contained
  <2> DEFINE node == [op |-> op, domain |-> d, inputs |-> ins, outputs |-> outs]
  <2>1. PushEmitted(tensors, node, outs)
    BY <1>8 DEF Emit
  <2> HIDE DEF node
  <2>2. QED BY <2>1, PushEmittedContained
<1>9. QED
  BY <1>1, <1>3, <1>4, <1>5, <1>6, <1>7, <1>8 DEF Next, DeclareOpset, Output

\* A call that fails pushes no node, no input and no import, and when the operator or
\* the data was refused it leaves everything as it was, so that the caller may go on.
THEOREM FailedCallsAreContained == Spec => FailuresAreContained
<1>1. BuilderInv /\ [Next]_vars => [result'.outcome # "Ok" => Contained]_vars
  BY FailedStepIsContained
<1>2. QED
  BY <1>1, BuilderInvariant, PTL DEF Spec, FailuresAreContained, Contained

-----------------------------------------------------------------------------
(* The names of the nodes to come.                                         *)

\* The names callers bring.
CallerNames ==
       {vi.name : vi \in DeclaredInputs}
  \cup TensorNames
  \cup UNION {{s[k] : k \in DOMAIN s} : s \in EmittedTensors \cup EmittedOutputs}

NoneLooksComposed == \A name \in CallerClaims : ~LooksComposed(name)

\* The names of all nodes to come are free, not only those of the next: the call that
\* pushes a node leaves the next one's names to be looked at. And the nodes stay within
\* their bound, so that the next one is among them.
NamesAheadAreFree ==
  /\ Len(graph.nodes) \in 0..MaxNodes
  /\ NoneLooksComposed =>
       \A i \in Len(graph.nodes)..MaxNodes, op \in OpType, k \in -1..(MaxOutputs - 1) :
         AutoName(i, op, k) \notin defined

\* What a step claims: names callers bring, and those of the node it pushes.
ClaimsItsOwn ==
  /\ defined \subseteq defined'
  /\ Len(graph'.nodes) \in Len(graph.nodes)..MaxNodes
  /\ \A name \in defined' \ defined :
       \/ name \in CallerNames
       \/ /\ Len(graph'.nodes) = Len(graph.nodes) + 1
          /\ \E op \in OpType, k \in Int : name = AutoName(Len(graph.nodes), op, k)

\* The index of a node and of an output can be told from the name.
LEMMA AutoNamesDiffer ==
  ASSUME NEW i \in Int, NEW j \in Int, NEW a \in OpType, NEW b \in OpType,
         NEW k \in Int, NEW l \in Int, AutoName(i, a, k) = AutoName(j, b, l)
  PROVE  i = j /\ k = l
<1> DEFINE s == AutoName(i, a, k)
           t == AutoName(j, b, l)
<1>1. s[2] = i /\ s[4] = k /\ t[2] = j /\ t[4] = l
  BY DEF AutoName
<1> HIDE DEF s, t
<1>2. s = t
  BY DEF s, t
<1>3. QED BY <1>1, <1>2

\* What AutoNames gives each output, and that no two get the same.
LEMMA AutoNamesParts ==
  ASSUME NEW i \in Int, NEW op \in OpType, NEW count \in 0..MaxOutputs
  PROVE  /\ \A k \in 1..count : \E m \in -1..(MaxOutputs - 1) :
              AutoNames(i, op, count)[k] = AutoName(i, op, m)
         /\ \A k, l \in 1..count :
              AutoNames(i, op, count)[k] = AutoNames(i, op, count)[l] => k = l
<1>1. MaxOutputs \in Nat
  BY BuilderAssumption
<1>2. CASE count = 1
  <2>1. AutoNames(i, op, count) = <<AutoName(i, op, -1)>>
    BY <1>2 DEF AutoNames
  <2>2. AutoNames(i, op, count)[1] = AutoName(i, op, -1) /\ -1 \in -1..(MaxOutputs - 1)
    BY <1>1, <2>1
  <2>3. \A k \in 1..count : k = 1
    BY <1>2
  <2>4. QED BY <2>2, <2>3
<1>3. CASE count # 1
  <2>1. \A k \in 1..count : AutoNames(i, op, count)[k] = AutoName(i, op, k - 1)
    BY <1>3 DEF AutoNames
  <2>2. \A k \in 1..count : k - 1 \in -1..(MaxOutputs - 1) /\ k - 1 \in Int /\ k \in Int
    BY <1>1
  <2>3. ASSUME NEW k \in 1..count, NEW l \in 1..count,
               AutoName(i, op, k - 1) = AutoName(i, op, l - 1)
        PROVE  k = l
    <3>1. k - 1 = l - 1
      BY <2>2, <2>3, AutoNamesDiffer
    <3>2. QED BY <2>2, <3>1
  <2>4. QED BY <2>1, <2>2, <2>3
<1>4. QED BY <1>2, <1>3

\* What no caller has claimed after a step, none had before it.
LEMMA NoneLookedComposed ==
  ASSUME defined \subseteq defined', NoneLooksComposed'
  PROVE  NoneLooksComposed
BY DEF NoneLooksComposed, CallerClaims

\* A step that claims its own keeps the names ahead free.
LEMMA NamesStayFree ==
  ASSUME NamesAheadAreFree, defined \subseteq defined',
         Len(graph'.nodes) \in Len(graph.nodes)..MaxNodes,
         NoneLooksComposed' => ClaimsItsOwn
  PROVE  NamesAheadAreFree'
<1>1. /\ Len(graph.nodes) \in Nat /\ Len(graph'.nodes) \in Nat
      /\ MaxNodes \in Nat /\ MaxOutputs \in Nat
      /\ Len(graph'.nodes) \in 0..MaxNodes
  BY BuilderAssumption DEF NamesAheadAreFree
<1>2. SUFFICES ASSUME NoneLooksComposed',
                      NEW i \in Len(graph'.nodes)..MaxNodes, NEW op \in OpType,
                      NEW k \in -1..(MaxOutputs - 1), AutoName(i, op, k) \in defined'
               PROVE  FALSE
  BY <1>1 DEF NamesAheadAreFree
<1>3. i \in Len(graph.nodes)..MaxNodes /\ i \in 0..MaxNodes /\ i \in Int /\ k \in Int
  BY <1>1
<1>4. AutoName(i, op, k) \notin defined
  BY <1>2, <1>3, NoneLookedComposed DEF NamesAheadAreFree
<1>5. CASE AutoName(i, op, k) \in CallerNames
  <2>1. AutoName(i, op, k) \in CallerClaims'
    BY <1>2, <1>5 DEF CallerClaims, CallerNames
  <2>2. LooksComposed(AutoName(i, op, k))
    BY <1>3 DEF LooksComposed
  <2>3. QED BY <1>2, <2>1, <2>2 DEF NoneLooksComposed
<1>6. ASSUME Len(graph'.nodes) = Len(graph.nodes) + 1, NEW a \in OpType, NEW l \in Int,
             AutoName(i, op, k) = AutoName(Len(graph.nodes), a, l)
      PROVE  FALSE
  <2>1. i = Len(graph.nodes)
    BY <1>1, <1>3, <1>6, AutoNamesDiffer
  <2>2. QED BY <1>1, <1>6, <2>1
<1>7. QED BY <1>2, <1>4, <1>5, <1>6 DEF ClaimsItsOwn

\* A call that claims names that callers bring, and no others, claims its own.
LEMMA CallerNamesAreOwn ==
  ASSUME NamesAheadAreFree, NEW names, NEW n \in Nat, Claim(names, n),
         \A k \in 1..n : names[k] \in CallerNames,
         Len(graph'.nodes) \in Len(graph.nodes)..MaxNodes
  PROVE  ClaimsItsOwn
BY DEF Claim, Claimed, ClaimsItsOwn

\* The names of the next node are all to be had, and claiming them is a step's own.
LEMMA NextNodeClaims ==
  ASSUME BuilderInv, NamesAheadAreFree, NoneLooksComposed,
         NEW op \in OpType, NEW count \in 0..MaxOutputs
  PROVE  LET names == AutoNames(Len(graph.nodes), op, count) IN
         /\ \A n \in 0..(count - 1) : ~Refused(names, n)
         /\ /\ Claim(names, count)
            /\ Len(graph'.nodes) = Len(graph.nodes) + 1 /\ Len(graph.nodes) < MaxNodes
            => ClaimsItsOwn
<1> DEFINE i == Len(graph.nodes)
           names == AutoNames(i, op, count)
<1>1. i \in 0..MaxNodes /\ i \in i..MaxNodes /\ i \in Int /\ MaxNodes \in Nat
  BY BuilderAssumption DEF NamesAheadAreFree
<1>2. /\ \A k \in 1..count : \E m \in -1..(MaxOutputs - 1) : names[k] = AutoName(i, op, m)
      /\ \A k, l \in 1..count : names[k] = names[l] => k = l
  BY <1>1, AutoNamesParts
<1>3. \A k \in 1..count : names[k] \notin defined
  BY <1>1, <1>2 DEF NamesAheadAreFree
<1>4. \A k \in 1..count : ~Taken(names, k)
  BY <1>2, <1>3 DEF Taken
<1> HIDE DEF names
<1>5. ASSUME NEW n \in 0..(count - 1)
      PROVE  ~Refused(names, n)
  <2>1. n + 1 \in 1..count
    OBVIOUS
  <2>2. QED BY <1>4, <2>1 DEF Refused, Claim, ClaimsFirst
<1>6. ASSUME Claim(names, count), Len(graph'.nodes) = i + 1, i < MaxNodes
      PROVE  ClaimsItsOwn
  <2>1. /\ defined \subseteq defined' /\ Len(graph'.nodes) \in i..MaxNodes
        /\ \A name \in defined' \ defined : \E k \in 1..count : name = names[k]
    BY <1>1, <1>6 DEF Claim, Claimed
  <2>2. \A k \in 1..count : \E m \in Int : names[k] = AutoName(i, op, m)
    BY <1>2
  <2>3. QED BY <1>6, <2>1, <2>2 DEF ClaimsItsOwn
<1>7. QED BY <1>5, <1>6 DEF names
\* What a step needs for the names ahead to stay free.
KeepsToItsOwn ==
  /\ defined \subseteq defined'
  /\ Len(graph'.nodes) \in Len(graph.nodes)..MaxNodes
  /\ NoneLooksComposed' => ClaimsItsOwn

\* A call that claims no name, and pushes no node.
LEMMA NothingClaimed ==
  ASSUME NamesAheadAreFree, defined' = defined, graph'.nodes = graph.nodes
  PROVE  KeepsToItsOwn
<1>1. Len(graph'.nodes) \in Len(graph.nodes)..MaxNodes
  BY BuilderAssumption DEF NamesAheadAreFree
<1>2. QED BY <1>1 DEF KeepsToItsOwn, ClaimsItsOwn

\* input() and the initializers claim one name, which their caller brings.
LEMMA OneNameIsOwn ==
  ASSUME NamesAheadAreFree, NEW name \in CallerNames,
         Claim(<<name>>, 1) \/ Refused(<<name>>, 0), graph'.nodes = graph.nodes
  PROVE  KeepsToItsOwn
<1>1. Len(graph'.nodes) \in Len(graph.nodes)..MaxNodes
  BY BuilderAssumption DEF NamesAheadAreFree
<1>2. CASE Refused(<<name>>, 0)
  <2>1. defined' = defined
    BY <1>2 DEF Refused, Claim, Claimed
  <2>2. QED BY <2>1, NothingClaimed
<1>3. CASE Claim(<<name>>, 1)
  <2> DEFINE names == <<name>>
  <2>1. \A k \in 1..1 : names[k] \in CallerNames
    OBVIOUS
  <2> HIDE DEF names
  <2>2. Claim(names, 1)
    BY <1>3 DEF names
  <2>3. ClaimsItsOwn
    BY <1>1, <2>1, <2>2, CallerNamesAreOwn
  <2>4. QED BY <1>1, <2>3 DEF KeepsToItsOwn, ClaimsItsOwn
<1>4. QED BY <1>2, <1>3

\* push_emitted claims the names of what its caller composed, all or the first of them.
LEMMA PushEmittedIsOwn ==
  ASSUME BuilderInv, NamesAheadAreFree,
         NEW tensors \in EmittedTensors, NEW node \in Node, node.outputs \in EmittedOutputs,
         NEW refs, PushEmitted(tensors, node, refs), Len(graph.nodes) < MaxNodes
  PROVE  KeepsToItsOwn
<1> DEFINE names == tensors \o node.outputs
<1>1. /\ graph \in Graph /\ graph.nodes \in Seq(Node) /\ MaxNodes \in Nat
      /\ Len(graph.nodes) \in Nat
      /\ tensors \in Seq(ValueName) /\ node.outputs \in Seq(ValueName)
  BY BuilderAssumption, GraphFields, LenProperties DEF BuilderInv, TypeOK
<1>2. /\ Len(names) \in Nat
      /\ \A k \in 1..Len(names) : names[k] \in CallerNames
  <2>1. /\ \A k \in 1..Len(tensors) : tensors[k] \in CallerNames
        /\ \A k \in 1..Len(node.outputs) : node.outputs[k] \in CallerNames
        /\ Len(tensors) \in Nat /\ Len(node.outputs) \in Nat
    <3>1. /\ DOMAIN tensors = 1..Len(tensors) /\ Len(tensors) \in Nat
          /\ DOMAIN node.outputs = 1..Len(node.outputs) /\ Len(node.outputs) \in Nat
      BY <1>1, LenProperties
    <3>2. QED BY <3>1 DEF CallerNames
  <2>2. /\ Len(names) = Len(tensors) + Len(node.outputs)
        /\ \A k \in 1..(Len(tensors) + Len(node.outputs)) :
             names[k] = IF k <= Len(tensors) THEN tensors[k] ELSE node.outputs[k - Len(tensors)]
    BY <1>1, ConcatProperties
  <2> HIDE DEF names
  <2>3. QED BY <2>1, <2>2
<1>3. /\ Len(graph'.nodes) \in Len(graph.nodes)..MaxNodes
      /\ \E n \in Nat : n <= Len(names) /\ Claim(names, n)
  <2>1. CASE /\ Claim(names, Len(names))
             /\ graph' = [graph EXCEPT !.initializers = @ \o tensors, !.nodes = Append(@, node)]
    <3>1. graph'.nodes = Append(graph.nodes, node)
      BY <1>1, <2>1 DEF Graph
    <3>2. Len(graph'.nodes) = Len(graph.nodes) + 1
      BY <1>1, <3>1, AppendProperties
    <3>3. QED BY <1>1, <1>2, <2>1, <3>2
  <2>2. ASSUME NEW n \in 0..(Len(names) - 1), NEW inits, Refused(names, n),
               graph' = [graph EXCEPT !.initializers = inits]
        PROVE  /\ Len(graph'.nodes) \in Len(graph.nodes)..MaxNodes
               /\ \E m \in Nat : m <= Len(names) /\ Claim(names, m)
    <3>1. graph'.nodes = graph.nodes
      BY <1>1, <2>2 DEF Graph
    <3>2. n \in Nat /\ n <= Len(names) /\ Claim(names, n)
      BY <1>2, <2>2 DEF Refused
    <3> HIDE DEF names
    <3>3. QED BY <1>1, <3>1, <3>2
  <2>3. \/ /\ Claim(names, Len(names))
           /\ graph' = [graph EXCEPT !.initializers = @ \o tensors, !.nodes = Append(@, node)]
        \/ \E n \in 0..(Len(names) - 1) : \E inits :
             Refused(names, n) /\ graph' = [graph EXCEPT !.initializers = inits]
    BY DEF PushEmitted
  <2> HIDE DEF names
  <2>4. QED BY <2>1, <2>2, <2>3
<1> HIDE DEF names
<1>4. PICK n \in Nat : n <= Len(names) /\ Claim(names, n)
  BY <1>3
<1>5. \A k \in 1..n : names[k] \in CallerNames
  BY <1>2, <1>4
<1>6. ClaimsItsOwn
  BY <1>3, <1>4, <1>5, CallerNamesAreOwn
<1>7. QED BY <1>3, <1>6 DEF KeepsToItsOwn, ClaimsItsOwn

\* A node the builder names: all its names are to be had, or a caller has taken one.
LEMMA NextNodeIsOwn ==
  ASSUME BuilderInv, NamesAheadAreFree, NEW op \in OpType, NEW count \in 0..MaxOutputs,
         Len(graph.nodes) < MaxNodes,
         LET names == AutoNames(Len(graph.nodes), op, count) IN
         \/ /\ Claim(names, count)
            /\ Len(graph'.nodes) = Len(graph.nodes) + 1
         \/ /\ \E n \in 0..(count - 1) : Refused(names, n)
            /\ graph'.nodes = graph.nodes
  PROVE  KeepsToItsOwn
<1> DEFINE names == AutoNames(Len(graph.nodes), op, count)
<1>1. /\ Len(graph.nodes) \in Nat /\ MaxNodes \in Nat
  BY BuilderAssumption DEF NamesAheadAreFree
<1>2. Len(graph'.nodes) \in Len(graph.nodes)..MaxNodes
  BY <1>1
<1>3. defined \subseteq defined'
  BY DEF Refused, Claim
<1>4. NoneLooksComposed' => ClaimsItsOwn
  BY <1>1, <1>3, NoneLookedComposed, NextNodeClaims
<1>5. QED BY <1>2, <1>3, <1>4 DEF KeepsToItsOwn

\* Every call keeps to its own names.
LEMMA StepKeepsToItsOwn ==
  ASSUME BuilderInv, NamesAheadAreFree, [Next]_vars
  PROVE  KeepsToItsOwn
<1> USE BuilderAssumption
<1>1. graph \in Graph /\ graph.nodes \in Seq(Node) /\ Len(graph.nodes) \in Nat
  BY GraphFields, LenProperties DEF BuilderInv, TypeOK
<1>2. CASE UNCHANGED <<graph, defined>>
  BY <1>2, NothingClaimed
<1>3. ASSUME NEW vi \in DeclaredInputs, Input(vi)
      PROVE  KeepsToItsOwn
  <2>1. vi.name \in CallerNames
    BY DEF CallerNames
  <2>2. graph'.nodes = graph.nodes
    BY <1>1, <1>3 DEF Input, Graph
  <2>3. QED BY <1>3, <2>1, <2>2, OneNameIsOwn DEF Input
<1>4. ASSUME NEW vi \in DeclaredOutputs, Output(vi)
      PROVE  KeepsToItsOwn
  <2>1. graph'.nodes = graph.nodes /\ defined' = defined
    BY <1>1, <1>4 DEF Output, Graph
  <2>2. QED BY <2>1, NothingClaimed
<1>5. ASSUME NEW name \in TensorNames, InitializerTensor(name)
      PROVE  KeepsToItsOwn
  <2>1. name \in CallerNames
    BY DEF CallerNames
  <2>2. graph'.nodes = graph.nodes
    BY <1>1, <1>5 DEF InitializerTensor, Graph
  <2>3. QED BY <1>5, <2>1, <2>2, OneNameIsOwn DEF InitializerTensor
<1>6. ASSUME NEW name \in TensorNames, NEW mismatched \in BOOLEAN,
             Initializer(name, mismatched)
      PROVE  KeepsToItsOwn
  BY <1>2, <1>5, <1>6 DEF Initializer
<1>7. ASSUME NEW op \in OpType, NEW d \in Domain, NEW ins \in NodeInputs,
             NEW count \in 0..MaxOutputs, PushNode(op, d, ins, count)
      PROVE  KeepsToItsOwn
  <2> DEFINE names == AutoNames(Len(graph.nodes), op, count)
             node == [op |-> op, domain |-> d, inputs |-> ins, outputs |-> names]
  <2>1. Len(graph.nodes) \in 0..(MaxNodes - 1)
    BY <1>1, <1>7 DEF PushNode
  <2>2. node \in Node
    BY <2>1, AutoNamesType DEF Node
  <2>3. \/ Claim(names, count) /\ graph' = [graph EXCEPT !.nodes = Append(@, node)]
        \/ (\E n \in 0..(count - 1) : Refused(names, n)) /\ UNCHANGED graph
    BY <1>7 DEF PushNode
  <2> HIDE DEF names, node
  <2>4. CASE Claim(names, count) /\ graph' = [graph EXCEPT !.nodes = Append(@, node)]
    <3>1. graph'.nodes = Append(graph.nodes, node)
      BY <1>1, <2>4 DEF Graph
    <3>2. Len(graph'.nodes) = Len(graph.nodes) + 1
      BY <1>1, <2>2, <3>1, AppendProperties
    <3>3. QED BY <2>1, <2>4, <3>2, NextNodeIsOwn DEF names
  <2>5. CASE (\E n \in 0..(count - 1) : Refused(names, n)) /\ UNCHANGED graph
    BY <2>1, <2>5, NextNodeIsOwn DEF names
  <2>6. QED BY <2>3, <2>4, <2>5
<1>8. ASSUME NEW op \in DOMAIN Signature, NEW ins \in NodeInputs,
             NEW count \in 0..MaxOutputs, EmitOp(op, ins, count)
      PROVE  KeepsToItsOwn
  <2> DEFINE names == AutoNames(Len(graph.nodes), op, count)
             node == [op |-> op, domain |-> Signature[op].domain,
                      inputs |-> ins, outputs |-> names]
  <2>1. Len(graph.nodes) \in 0..(MaxNodes - 1) /\ op \in OpType
    BY <1>1, <1>8 DEF EmitOp
  <2>2. names \in Seq(ValueName) /\ Len(names) = count /\ count \in Nat
    BY <2>1, AutoNamesType
  <2> HIDE DEF names
  <2>3. node \in Node /\ node.outputs = names
    BY <2>1, <2>2 DEF Node
  <2>4. <<>> \o names = names
    BY <2>2, ConcatEmptySeq
  <2>5. PushEmitted(<<>>, node, names) \/ UNCHANGED <<graph, defined>>
    BY <1>8 DEF EmitOp, names
  <2> HIDE DEF node
  <2>6. CASE /\ Claim(names, count)
             /\ graph' = [graph EXCEPT !.initializers = @ \o <<>>, !.nodes = Append(@, node)]
    <3>1. graph'.nodes = Append(graph.nodes, node)
      BY <1>1, <2>6 DEF Graph
    <3>2. Len(graph'.nodes) = Len(graph.nodes) + 1
      BY <1>1, <2>3, <3>1, AppendProperties
    <3>3. QED BY <2>1, <2>6, <3>2, NextNodeIsOwn DEF names
  <2>7. ASSUME NEW n \in 0..(count - 1), NEW inits, Refused(names, n),
               graph' = [graph EXCEPT !.initializers = inits]
        PROVE  KeepsToItsOwn
    <3>1. graph'.nodes = graph.nodes
      BY <1>1, <2>7 DEF Graph
    <3>2. QED BY <2>1, <2>7, <3>1, NextNodeIsOwn DEF names
  <2>8. CASE PushEmitted(<<>>, node, names)
    <3>1. \/ /\ Claim(names, count)
             /\ graph' = [graph EXCEPT !.initializers = @ \o <<>>, !.nodes = Append(@, node)]
          \/ \E n \in 0..(count - 1) : \E inits :
               Refused(names, n) /\ graph' = [graph EXCEPT !.initializers = inits]
      <4>1. Len(<<>> \o node.outputs) = count /\ <<>> \o node.outputs = names
        BY <2>2, <2>3, <2>4
      <4>2. QED BY <2>8, <4>1, Zenon DEF PushEmitted
    <3>2. QED BY <2>6, <2>7, <3>1
  <2>9. QED BY <1>2, <2>5, <2>8
<1>9. ASSUME NEW tensors \in EmittedTensors, NEW op \in OpType, NEW d \in Domain,
             NEW ins \in NodeInputs, NEW outs \in EmittedOutputs,
             Emit(tensors, op, d, ins, outs)
      PROVE  KeepsToItsOwn
  <2> DEFINE node == [op |-> op, domain |-> d, inputs |-> ins, outputs |-> outs]
  <2>1. node \in Node /\ node.outputs \in EmittedOutputs
    BY DEF Node
  <2>2. PushEmitted(tensors, node, outs) /\ Len(graph.nodes) < MaxNodes
    BY <1>9 DEF Emit
  <2> HIDE DEF node
  <2>3. QED BY <2>1, <2>2, PushEmittedIsOwn
<1>10. QED
  BY <1>2, <1>3, <1>4, <1>5, <1>6, <1>7, <1>8, <1>9 DEF Next, DeclareOpset, vars

\* The builder never runs out of names by itself: as long as no caller claims a name of
\* the builder's own form, push_node and emit_op find all those they compose free,
\* whatever was pushed and whatever failed before.
THEOREM BuilderNamesAreFree == Spec => []NextNodeNamesAreFree
<1>1. Init => NamesAheadAreFree
  BY BuilderAssumption DEF Init, EmptyGraph, NamesAheadAreFree
<1>2. BuilderInv /\ NamesAheadAreFree /\ [Next]_vars => NamesAheadAreFree'
  BY StepKeepsToItsOwn, NamesStayFree DEF KeepsToItsOwn
<1>3. NamesAheadAreFree => NextNodeNamesAreFree
  BY BuilderAssumption DEF NamesAheadAreFree, NoneLooksComposed, NextNodeNamesAreFree
<1>4. QED BY <1>1, <1>2, <1>3, BuilderInvariant, PTL DEF Spec

-----------------------------------------------------------------------------
(*****************************************************************************)
(* 2. export_model: what the builder's claims and the validation guarantee   *)
(* together of an exported model.                                            *)
(*****************************************************************************)

\* Of some places in a sequence, one comes first.
LEMMA FirstPlace ==
  ASSUME NEW places, places \subseteq Nat, places # {}
  PROVE  \E i \in places : \A j \in places : i <= j
<1> DEFINE below == {ss \in Nat \X Nat : ss[1] < ss[2]}
<1>1. IsWellFoundedOn(below, Nat)
  BY NatLessThanWellFounded, Zenon DEF OpToRel
<1> HIDE DEF below
<1>2. PICK i \in places : \A j \in places : ~(<<j, i>> \in below)
  BY <1>1, WFMin
<1>3. ASSUME NEW j \in places
      PROVE  i <= j
  <2>1. i \in Nat /\ j \in Nat /\ ~(<<j, i>> \in below)
    BY <1>2
  <2>2. ~(j < i)
    <3> SUFFICES ASSUME j < i
                 PROVE  <<j, i>> \in below
      BY <2>1
    <3>1. <<j, i>> \in Nat \X Nat /\ <<j, i>>[1] = j /\ <<j, i>>[2] = i
      BY <2>1
    <3>2. QED BY <3>1, Zenon DEF below
  <2>3. QED BY <2>1, <2>2
<1>4. QED BY <1>2, <1>3

-----------------------------------------------------------------------------
(* What no call of the builder touches.                                    *)

\* The name of the graph and its value_info.
Frame == graph'.value_info = graph.value_info /\ graph'.named = graph.named

\* A graph that is changed elsewhere keeps them.
LEMMA FrameKept ==
  ASSUME graph \in Graph, NEW inputs, NEW outputs, NEW inits, NEW nodes,
         \/ graph' = graph
         \/ graph' = [graph EXCEPT !.inputs = inputs]
         \/ graph' = [graph EXCEPT !.outputs = outputs]
         \/ graph' = [graph EXCEPT !.initializers = inits]
         \/ graph' = [graph EXCEPT !.nodes = nodes]
         \/ graph' = [graph EXCEPT !.initializers = inits, !.nodes = nodes]
  PROVE  Frame
BY DEF Graph, Frame

\* input() only adds to the inputs, output() to the outputs.
LEMMA DeclarationFrame ==
  ASSUME graph \in Graph, NEW vi, Input(vi) \/ Output(vi)
  PROVE  Frame
BY FrameKept DEF Input, Output

\* push_emitted adds initializers and perhaps the node.
LEMMA PushEmittedFrame ==
  ASSUME graph \in Graph, NEW tensors, NEW node, NEW refs, PushEmitted(tensors, node, refs)
  PROVE  Frame
BY FrameKept DEF PushEmitted

\* push_node() adds the node or nothing.
LEMMA PushNodeFrame ==
  ASSUME graph \in Graph, NEW op, NEW d, NEW ins, NEW count, PushNode(op, d, ins, count)
  PROVE  Frame
BY FrameKept DEF PushNode

\* No call names the graph or writes to its value_info.
LEMMA NextFrame ==
  ASSUME graph \in Graph, Next
  PROVE  Frame
<1>1. ASSUME NEW name, InitializerTensor(name)
      PROVE  Frame
  BY <1>1, FrameKept DEF InitializerTensor
<1>2. ASSUME NEW name, NEW mismatched, Initializer(name, mismatched)
      PROVE  Frame
  BY <1>1, <1>2 DEF Initializer, Frame
<1>3. ASSUME NEW op, NEW ins, NEW count, EmitOp(op, ins, count)
      PROVE  Frame
  BY <1>3, PushEmittedFrame DEF EmitOp, Frame
<1>4. ASSUME NEW tensors, NEW op, NEW d, NEW ins, NEW outs, Emit(tensors, op, d, ins, outs)
      PROVE  Frame
  BY <1>4, PushEmittedFrame DEF Emit
<1>5. ASSUME NEW d, NEW v, DeclareOpset(d, v)
      PROVE  Frame
  BY <1>5 DEF DeclareOpset, Frame
<1>6. QED BY <1>1, <1>2, <1>3, <1>4, <1>5, DeclarationFrame, PushNodeFrame DEF Next

-----------------------------------------------------------------------------
(* What validation says of a built graph.                                  *)

\* Nothing is reported undefined when no node consumes what is.
LEMMA NothingUndefined ==
  ASSUME NEW g
  PROVE  UndefinedValues(g) = {} <=> \A i \in DOMAIN g.nodes : UndefinedInputs(g, i) = {}
<1> DEFINE of(j) == {Error("UndefinedValue", "node", j, n) : n \in UndefinedInputs(g, j)}
<1>1. UndefinedValues(g) = UNION {of(i) : i \in DOMAIN g.nodes}
  BY DEF UndefinedValues
<1>2. \A i : of(i) = {} <=> UndefinedInputs(g, i) = {}
  OBVIOUS
<1> HIDE DEF of
<1>3. UNION {of(i) : i \in DOMAIN g.nodes} = {} <=> \A i \in DOMAIN g.nodes : of(i) = {}
  BY Zenon
<1>4. QED BY <1>1, <1>2, <1>3

\* Nodes of an accepted graph consume what is defined before them.
LEMMA AcceptedIsOrdered ==
  ASSUME NEW g, ValidationErrors(g) = {}
  PROVE  \A i \in DOMAIN g.nodes : \A k \in DOMAIN g.nodes[i].inputs :
           g.nodes[i].inputs[k] \in DefinedBefore(g, i) \cup {Empty}
<1>1. UndefinedValues(g) = {}
  BY DEF ValidationErrors
<1>2. \A i \in DOMAIN g.nodes : UndefinedInputs(g, i) = {}
  BY <1>1, NothingUndefined
<1>3. QED BY <1>2 DEF UndefinedInputs

\* In single assignment form, nodes that consume only what is defined before them depend
\* only on nodes before them, and so on no cycle.
LEMMA OrderedIsAcyclic ==
  ASSUME NEW g \in Graph, SingleAssignment(g), UndefinedValues(g) = {}
  PROVE  Cycles(g) = {}
<1>1. DOMAIN g.nodes \subseteq Nat /\ DOMAIN g.nodes = 1..Len(g.nodes) /\ Len(g.nodes) \in Nat
  BY GraphFields
<1> DEFINE deps == Dependencies(g)
<1>2. ASSUME NEW s \in DOMAIN g.nodes, NEW d \in DependsOn(deps, s)
      PROVE  d \in Nat /\ d < s
  <2>1. PICK k \in DOMAIN g.nodes[s].inputs :
          /\ FromOtherNode(g, s, g.nodes[s].inputs[k])
          /\ d = CHOOSE j \in DOMAIN g.nodes : FirstProducer(g, g.nodes[s].inputs[k], j)
    BY <1>2 DEF DependsOn, Dependencies
  <2> DEFINE n == g.nodes[s].inputs[k]
  <2>2. n # Empty /\ \E j \in DOMAIN g.nodes : FirstProducer(g, n, j)
    BY <2>1 DEF FromOtherNode
  <2>3. d \in DOMAIN g.nodes /\ FirstProducer(g, n, d)
    BY <2>1, <2>2, Zenon
  <2>4. n \in DefinedBefore(g, s)
    <3>1. UndefinedInputs(g, s) = {}
      BY NothingUndefined
    <3>2. QED BY <2>2, <3>1 DEF UndefinedInputs
  <2>5. n \in NodeOutputNames(g)
    BY <2>3 DEF FirstProducer, NodeOutputNames
  <2>6. n \notin InputNames(g) \cup InitializerNames(g)
    BY <2>2, <2>5 DEF SingleAssignment, NoShadowing
  <2>7. PICK j \in DOMAIN g.nodes : j < s /\ n \in OutputsOf(g, j)
    BY <2>4, <2>6 DEF DefinedBefore
  <2>8. d <= j
    BY <1>1, <2>3, <2>7 DEF FirstProducer
  <2>9. QED BY <1>1, <2>3, <2>7, <2>8
<1>3. DOMAIN deps = DOMAIN g.nodes
  BY DEF Dependencies
<1> HIDE DEF deps
<1>4. ASSUME NEW S \in SUBSET DOMAIN deps, S # {}
      PROVE  \E s \in S : DependsOn(deps, s) \cap S = {}
  <2>1. S \subseteq Nat
    BY <1>1, <1>3
  <2>2. PICK s \in S : \A t \in S : s <= t
    BY <1>4, <2>1, FirstPlace
  <2>3. DependsOn(deps, s) \cap S = {}
    BY <1>1, <1>2, <1>3, <2>1, <2>2
  <2>4. QED BY <2>3
<1>5. QED BY <1>4 DEF Acyclic, Cycles, deps

\* A name that comes again in a list is in it at two places.
LEMMA RepeatedTwice ==
  ASSUME NEW S, NEW names \in Seq(S), NEW n \in Repeated(names)
  PROVE  \E j, k \in DOMAIN names : j # k /\ names[j] = n /\ names[k] = n
BY DEF Repeated

\* What is undefined is reported as such.
LEMMA UndefinedKind ==
  ASSUME NEW g, NEW e \in UndefinedValues(g)
  PROVE  e.kind = "UndefinedValue"
<1>1. PICK i \in DOMAIN g.nodes :
        e \in {Error("UndefinedValue", "node", i, n) : n \in UndefinedInputs(g, i)}
  BY DEF UndefinedValues
<1>2. QED BY <1>1 DEF Error

\* The kinds of the other errors that are not about duplicates.
LEMMA OtherKinds ==
  ASSUME NEW g, NEW e
  PROVE  /\ e \in MissingName(g) => e.kind = "GraphMissingName"
         /\ e \in Cycles(g) => e.kind = "Cycle"
         /\ e \in Unshaped("output", g.outputs) \cup Unshaped("input", g.inputs) =>
              e.kind = "MissingShape"
BY DEF MissingName, Cycles, Unshaped, Error

\* The kinds of those that are.
LEMMA DuplicateKinds ==
  ASSUME NEW g, NEW e
  PROVE  /\ e \in Unnamed(g) => e.kind = "DuplicateValueInfo"
         /\ \A about, infos : e \in RepeatedInfos(about, infos) => e.kind = "DuplicateValueInfo"
         /\ e \in RepeatedInitializers(g) => e.kind = "DuplicateInitializer"
         /\ e \in DuplicateOutputs(g) => e.kind = "DuplicateOutput"
<1>1. ASSUME e \in DuplicateOutputs(g)
      PROVE  e.kind = "DuplicateOutput"
  <2>1. PICK i \in DOMAIN g.nodes :
          e \in {Error("DuplicateOutput", "node", i, n) : n \in RepeatedOutputs(g, i)}
    BY <1>1 DEF DuplicateOutputs
  <2>2. QED BY <2>1 DEF Error
<1>2. ASSUME e \in Unnamed(g)
      PROVE  e.kind = "DuplicateValueInfo"
  <2>1. e = Error("DuplicateValueInfo", "unnamed", 0, Empty)
    BY <1>2, Zenon DEF Unnamed
  <2>2. QED BY <2>1 DEF Error
<1>3. QED BY <1>1, <1>2 DEF RepeatedInfos, RepeatedInitializers, Error

\* Only a cycle is called one.
LEMMA CycleKind ==
  ASSUME NEW g, NEW e \in ValidationErrors(g), e.kind = "Cycle"
  PROVE  e \in Cycles(g)
<1>1. /\ e \notin UndefinedValues(g) /\ e \notin MissingName(g) /\ e \notin DuplicateOutputs(g)
      /\ e \notin Unshaped("output", g.outputs) /\ e \notin Unshaped("input", g.inputs)
      /\ e \notin Unnamed(g) /\ e \notin RepeatedInitializers(g)
      /\ \A about, infos : e \notin RepeatedInfos(about, infos)
  BY UndefinedKind, OtherKinds, DuplicateKinds
<1>2. QED BY <1>1 DEF ValidationErrors

\* Of the names in a built graph none but the empty one is a duplicate: outputs of nodes
\* are all different, and so are initializers and inputs.
LEMMA BuiltGraphCollidesNowhere ==
  ASSUME NEW g \in Graph, SingleAssignment(g), g.value_info = <<>>,
         NEW e \in ValidationErrors(g),
         e.kind \in {"DuplicateOutput", "DuplicateInitializer", "DuplicateValueInfo"}
  PROVE  e.about = "output" \/ e.name = Empty
<1>1. /\ g.inputs \in Seq(ValueInfo) /\ g.initializers \in Seq(ValueName)
      /\ g.nodes \in Seq(Node)
  BY GraphFields
<1>2. CASE e \in MissingName(g) \cup UndefinedValues(g) \cup Cycles(g)
               \cup Unshaped("output", g.outputs) \cup Unshaped("input", g.inputs)
  <2>1. e.kind \in {"GraphMissingName", "UndefinedValue", "Cycle", "MissingShape"}
    BY <1>2, OtherKinds, UndefinedKind
  <2>2. QED BY <2>1
<1>3. CASE e \in Unnamed(g)
  <2>1. Unnamed(g) \subseteq {Error("DuplicateValueInfo", "unnamed", 0, Empty)}
    BY Zenon DEF Unnamed
  <2>2. QED BY <1>3, <2>1 DEF Error
<1>4. CASE e \in RepeatedInfos("output", g.outputs)
  BY <1>4 DEF RepeatedInfos, Error
<1>5. CASE e \in RepeatedInfos("value_info", g.value_info)
  <2>1. DOMAIN g.value_info = {}
    OBVIOUS
  <2>2. Repeated(Names(g.value_info)) = {}
    BY <2>1 DEF Repeated, Names
  <2>3. QED BY <1>5, <2>2 DEF RepeatedInfos
<1>6. CASE e \in RepeatedInfos("input", g.inputs)
  <2>1. PICK n \in Repeated(Names(g.inputs)) : e.name = n
    BY <1>6 DEF RepeatedInfos, Error
  <2>2. /\ Names(g.inputs) \in Seq(ValueName)
        /\ \A i \in DOMAIN Names(g.inputs) :
             i \in DOMAIN g.inputs /\ Names(g.inputs)[i] = g.inputs[i].name
    <3>1. \A i \in DOMAIN g.inputs : g.inputs[i] \in ValueInfo
      BY <1>1
    <3>2. \A i \in DOMAIN g.inputs : g.inputs[i].name \in ValueName
      BY <3>1 DEF ValueInfo
    <3>3. DOMAIN g.inputs = 1..Len(g.inputs) /\ Len(g.inputs) \in Nat
      BY <1>1
    <3>4. [i \in DOMAIN g.inputs |-> g.inputs[i].name] \in Seq(ValueName)
      BY <3>2, <3>3
    <3>5. QED BY <3>4 DEF Names
  <2>3. PICK i, k \in DOMAIN Names(g.inputs) :
          i # k /\ Names(g.inputs)[i] = n /\ Names(g.inputs)[k] = n
    BY <2>1, <2>2, RepeatedTwice
  <2>4. QED BY <2>1, <2>2, <2>3 DEF SingleAssignment, InputsUnique
<1>7. CASE e \in RepeatedInitializers(g)
  <2>1. PICK n \in Repeated(g.initializers) : e.name = n
    BY <1>7 DEF RepeatedInitializers, Error
  <2>2. PICK j, k \in DOMAIN g.initializers :
          j # k /\ g.initializers[j] = n /\ g.initializers[k] = n
    BY <1>1, <2>1, RepeatedTwice
  <2>3. QED BY <2>1, <2>2 DEF SingleAssignment, InitializersUnique
<1>8. CASE e \in DuplicateOutputs(g)
  <2> PICK i \in DOMAIN g.nodes :
        e \in {Error("DuplicateOutput", "node", i, n) : n \in RepeatedOutputs(g, i)}
    BY <1>8 DEF DuplicateOutputs
  <2>1. PICK n \in RepeatedOutputs(g, i) : e.name = n
    BY DEF Error
  <2>2. g.nodes[i].outputs \in Seq(ValueName) /\ n \in OutputsOf(g, i) /\ n # Empty
    <3>1. g.nodes[i] \in Node
      BY <1>1
    <3>2. g.nodes[i].outputs \in Seq(ValueName)
      BY <3>1 DEF Node
    <3>3. QED BY <2>1, <3>2 DEF RepeatedOutputs
  <2>3. CASE \E j \in 1..(i - 1) : n \in OutputsOf(g, j)
    <3>1. PICK j \in 1..(i - 1) : n \in OutputsOf(g, j)
      BY <2>3
    <3>2. j \in DOMAIN g.nodes /\ i # j
      BY <1>1, <2>1, <3>1
    <3>3. QED BY <2>2, <3>1, <3>2 DEF OutputsOf, SingleAssignment, OutputsUnique
  <2>4. CASE n \in Repeated(g.nodes[i].outputs)
    <3>1. PICK j, k \in DOMAIN g.nodes[i].outputs :
            j # k /\ g.nodes[i].outputs[j] = n /\ g.nodes[i].outputs[k] = n
      BY <2>2, <2>4, RepeatedTwice
    <3>2. QED BY <2>2, <3>1 DEF SingleAssignment, OutputsUnique
  <2>5. QED BY <2>1, <2>3, <2>4 DEF RepeatedOutputs
<1>9. QED BY <1>2, <1>3, <1>4, <1>5, <1>6, <1>7, <1>8 DEF ValidationErrors

-----------------------------------------------------------------------------
(* export_model.                                                           *)

\* The builder's invariant and, once the graph was validated, what that said of it.
ExportInv ==
  /\ BuilderInv
  /\ graph.value_info = <<>>
  /\ phase \in {"building", "failed"} => report = {}
  /\ phase \in {"rejected", "exported"} => report = ValidationErrors(graph)
  /\ phase \in {"building", "failed", "rejected", "exported"}
  /\ phase = "exported" => report = {}

\* export_model begins with a new builder.
LEMMA ExportInitInv == ExportInit => ExportInv
BY InitSound DEF ExportInit, ExportInv, Init, EmptyGraph

\* While to_graph runs, a call that keeps the builder's invariant keeps this one.
LEMMA CallKeepsInv ==
  ASSUME ExportInv, phase = "building", UNCHANGED <<phase, report>>, BuilderInv', Frame
  PROVE  ExportInv'
BY DEF ExportInv, Frame

\* Whatever to_graph calls, and however export_model returns.
LEMMA ExportNextInv == ExportInv /\ [ExportNext]_exportVars => ExportInv'
<1> SUFFICES ASSUME ExportInv, [ExportNext]_exportVars
             PROVE  ExportInv'
  OBVIOUS
<1>1. CASE Build
  <2>1. BuilderInv' /\ graph \in Graph
    BY <1>1, NextPreserves DEF Build, ExportInv, BuilderInv, TypeOK
  <2>2. QED BY <1>1, <2>1, NextFrame, CallKeepsInv DEF Build
<1>2. ASSUME UNCHANGED vars
      PROVE  BuilderInv' /\ graph' = graph
  BY <1>2, NextPreserves DEF ExportInv, vars
<1>3. CASE PropagateError
  BY <1>2, <1>3 DEF PropagateError, ExportInv
<1>4. CASE FinishAndValidate
  BY <1>2, <1>4 DEF FinishAndValidate, ExportInv
<1>5. CASE UNCHANGED exportVars
  BY <1>2, <1>5 DEF exportVars, ExportInv
<1>6. QED BY <1>1, <1>3, <1>4, <1>5 DEF ExportNext

\* An exported graph is the builder's, accepted by validation.
LEMMA ExportInvOrders == ExportInv => ExportedIsOrdered
<1> SUFFICES ASSUME ExportInv, phase = "exported"
             PROVE  /\ SingleAssignment(graph)
                    /\ \A i \in DOMAIN graph.nodes : \A k \in DOMAIN graph.nodes[i].inputs :
                         graph.nodes[i].inputs[k] \in DefinedBefore(graph, i) \cup {Empty}
  BY DEF ExportedIsOrdered
<1>1. SingleAssignment(graph)
  BY DEF ExportInv, BuilderInv, Sound
<1>2. ValidationErrors(graph) = {}
  BY DEF ExportInv
<1>3. QED BY <1>1, <1>2, AcceptedIsOrdered

\* A report names no name of the builder's as a duplicate.
LEMMA ExportInvNamesNoCollision == ExportInv => BuilderCollidesNowhere
<1> SUFFICES ASSUME ExportInv, NEW e \in report,
                    e.kind \in {"DuplicateOutput", "DuplicateInitializer", "DuplicateValueInfo"}
             PROVE  e.about = "output" \/ e.name = Empty
  BY DEF BuilderCollidesNowhere
<1>1. graph \in Graph /\ SingleAssignment(graph) /\ graph.value_info = <<>>
  BY DEF ExportInv, BuilderInv, TypeOK, Sound
<1>2. e \in ValidationErrors(graph)
  BY DEF ExportInv
<1>3. QED BY <1>1, <1>2, BuiltGraphCollidesNowhere

\* Where validation finds a cycle it has something undefined to report as well.
LEMMA ExportInvCycles == ExportInv => CyclesUseUndefinedValues
<1> SUFFICES ASSUME ExportInv, Reports(graph, "Cycle"), ~Reports(graph, "UndefinedValue")
             PROVE  FALSE
  BY DEF CyclesUseUndefinedValues
<1>1. graph \in Graph /\ SingleAssignment(graph)
  BY DEF ExportInv, BuilderInv, TypeOK, Sound
<1>2. UndefinedValues(graph) = {}
  <2> SUFFICES ASSUME NEW e \in UndefinedValues(graph)
               PROVE  FALSE
    OBVIOUS
  <2>1. e.kind = "UndefinedValue"
    BY UndefinedKind
  <2>2. e \in ValidationErrors(graph)
    BY DEF ValidationErrors
  <2>3. QED BY <2>1, <2>2 DEF Reports
<1>3. Cycles(graph) = {}
  BY <1>1, <1>2, OrderedIsAcyclic
<1>4. PICK e \in ValidationErrors(graph) : e.kind = "Cycle"
  BY DEF Reports
<1>5. e \in Cycles(graph)
  BY <1>4, CycleKind
<1>6. QED BY <1>3, <1>5

\* Every model that export_model returns is ordered and in single assignment form, whatever
\* calls to_graph made: the builder sees to the one, validation to the other.
THEOREM ExportIsOrdered == ExportSpec => []ExportedIsOrdered
<1>1. QED BY ExportInitInv, ExportNextInv, ExportInvOrders, PTL DEF ExportSpec

\* Validation reports no duplicate among the names the builder claimed, whatever was built.
THEOREM ReportNamesNoCollision == ExportSpec => []BuilderCollidesNowhere
<1>1. QED BY ExportInitInv, ExportNextInv, ExportInvNamesNoCollision, PTL DEF ExportSpec

\* On no graph the builder can build is "Cycle" the only complaint.
THEOREM CyclesNeverStandAlone == ExportSpec => []CyclesUseUndefinedValues
<1>1. QED BY ExportInitInv, ExportNextInv, ExportInvCycles, PTL DEF ExportSpec

-----------------------------------------------------------------------------
(*****************************************************************************)
(* 3. Structs that derive OnnxExport, for every declaration and however many *)
(* there are; export_model keeps its promises for them as for any to_graph.  *)
(*****************************************************************************)

\* What is given to the graph for struct i.
InputOf(i) == [name |-> InputNameOf(i), ranked |-> TRUE]
OutputOf(i) == [name |-> OutputNameOf(i), ranked |-> TRUE]

\* The graph after some calls: inputs, nodes and outputs of the first structs, of inputs
\* perhaps one more than of nodes, and of nodes than of outputs, and nothing else; what is
\* claimed is their names.
Progress ==
  /\ calls = Len(graph.inputs) + Len(graph.nodes) + Len(graph.outputs)
  /\ Len(graph.outputs) <= Len(graph.nodes) /\ Len(graph.nodes) <= Len(graph.inputs)
  /\ Len(graph.inputs) <= Len(graph.outputs) + 1
  /\ Len(graph.inputs) <= Len(structs)
  /\ \A i \in 1..Len(graph.inputs) : graph.inputs[i] = InputOf(i)
  /\ \A i \in 1..Len(graph.nodes) :
       graph.nodes[i].inputs = <<InputNameOf(i)>> /\ graph.nodes[i].outputs = <<OutputNameOf(i)>>
  /\ \A i \in 1..Len(graph.outputs) : graph.outputs[i] = OutputOf(i)
  /\ graph.initializers = <<>>
  /\ defined \subseteq {InputNameOf(i) : i \in 1..Len(graph.inputs)}
                       \cup {OutputNameOf(i) : i \in 1..Len(graph.nodes)}
  /\ Len(graph.outputs) < Len(graph.nodes) => result.names = <<OutputNameOf(Len(graph.nodes))>>

\* The graph is that of the structs as long as no call was refused; none is when the names
\* are clear; and none was when a model is exported, of all the structs.
DerivedInv ==
  /\ ExportInv
  /\ calls \in Nat
  /\ structs # <<>> =>
       /\ structs \in Compositions /\ \A i \in DOMAIN structs : Derivable(structs[i])
       /\ result.outcome = "Ok" => Progress
       /\ NamesAreClear => result.outcome = "Ok" /\ phase \in {"building", "exported"}
       /\ phase = "exported" => result.outcome = "Ok" /\ calls = 3 * Len(structs)

-----------------------------------------------------------------------------
(* The structs.                                                            *)

\* What the annotations of structs that compile say is of the right types.
LEMMA StructsType ==
  ASSUME DerivedInv, structs # <<>>
  PROVE  /\ Len(structs) \in Nat /\ DOMAIN structs = 1..Len(structs)
         /\ \A i \in 1..Len(structs) :
              /\ TextOf(structs[i].container, "op") \in OpType
              /\ TextOf(structs[i].container, "domain") \in Domain
              /\ InputNameOf(i) \in ValueName
BY CompositionAssumption DEF DerivedInv, InputNameOf

\* The builder's variables, in the derived export.
LEMMA BuilderPart ==
  ASSUME DerivedInv
  PROVE  /\ BuilderInv /\ graph \in Graph
         /\ graph.inputs \in Seq(ValueInfo) /\ graph.outputs \in Seq(ValueInfo)
         /\ graph.nodes \in Seq(Node)
         /\ Len(graph.inputs) \in Nat /\ Len(graph.outputs) \in Nat /\ Len(graph.nodes) \in Nat
BY DEF DerivedInv, ExportInv, BuilderInv, TypeOK, Graph

\* No two nodes' outputs have one name, and none is without.
LEMMA OutputNamesDiffer ==
  ASSUME NEW i \in Nat, NEW j \in Nat
  PROVE  /\ OutputNameOf(i) = OutputNameOf(j) => i = j
         /\ OutputNameOf(i) # Empty
<1> DEFINE a == OutputNameOf(i)
           b == OutputNameOf(j)
<1>1. a[2] = i - 1 /\ b[2] = j - 1 /\ Len(a) = 4
  BY DEF OutputNameOf, AutoName
<1>2. Len(Empty) = 0
  BY DEF Empty
<1> HIDE DEF a, b
<1>3. a = b => i = j
  BY <1>1
<1>4. a # Empty
  BY <1>1, <1>2
<1>5. QED BY <1>3, <1>4 DEF a, b

\* Counting by threes.
LEMMA Thirds ==
  ASSUME NEW d \in Nat, NEW r \in 0..2
  PROVE  (3 * d + r) % 3 = r /\ (3 * d + r) \div 3 = d
OBVIOUS

\* Of calls that come round in threes, those made before this round.
LEMMA InThrees ==
  ASSUME NEW a \in Nat, NEW b \in Nat, NEW d \in Nat, d <= b, b <= a, a <= d + 1,
         NEW c, c = a + b + d, NEW part, c % 3 = part
  PROVE  /\ c \div 3 = d
         /\ part \in 0..2
         /\ a = IF part = 0 THEN d ELSE d + 1
         /\ b = IF part = 2 THEN d + 1 ELSE d
<1> DEFINE r == (a - d) + (b - d)
<1>1. r \in 0..2 /\ a + b + d = 3 * d + r
  OBVIOUS
<1>2. /\ a = IF r = 0 THEN d ELSE d + 1
      /\ b = IF r = 2 THEN d + 1 ELSE d
  OBVIOUS
<1> HIDE DEF r
<1>3. (a + b + d) % 3 = r /\ (a + b + d) \div 3 = d
  BY <1>1, Thirds
<1>4. QED BY <1>1, <1>2, <1>3

\* Whose turn it is, and of which call, when a derived to_graph makes one.
LEMMA Turn ==
  ASSUME DerivedInv, NEW part \in 0..2, Ready(part)
  PROVE  LET i == Len(graph.outputs) + 1 IN
         /\ structs # <<>> /\ Progress
         /\ i \in 1..Len(structs)
         /\ Current = structs[i] /\ CurrentInput = InputNameOf(i)
         /\ Len(graph.inputs) = IF part = 0 THEN i - 1 ELSE i
         /\ Len(graph.nodes) = IF part = 2 THEN i ELSE i - 1
<1>1. calls \in Nat /\ calls < 3 * Len(structs) /\ calls % 3 = part /\ result.outcome = "Ok"
  BY DEF Ready, DerivedInv
<1>2. structs # <<>>
  BY <1>1
<1>3. Progress /\ Len(structs) \in Nat
  BY <1>1, <1>2, StructsType DEF DerivedInv
<1> DEFINE ins == Len(graph.inputs)
           nodes == Len(graph.nodes)
           outs == Len(graph.outputs)
           all == Len(structs)
           i == outs + 1
<1>4. /\ ins \in Nat /\ outs \in Nat /\ nodes \in Nat /\ all \in Nat
      /\ calls = ins + nodes + outs /\ outs <= nodes /\ nodes <= ins /\ ins <= outs + 1
      /\ calls < 3 * all
  BY <1>1, <1>3, BuilderPart DEF Progress
<1> HIDE DEF ins, nodes, outs, all
<1>5. /\ calls \div 3 = outs
      /\ ins = IF part = 0 THEN outs ELSE outs + 1
      /\ nodes = IF part = 2 THEN outs + 1 ELSE outs
  BY <1>1, <1>4, InThrees
<1>6. /\ calls \div 3 + 1 = i /\ i \in 1..all
      /\ ins = IF part = 0 THEN i - 1 ELSE i
      /\ nodes = IF part = 2 THEN i ELSE i - 1
  BY <1>4, <1>5
<1> USE DEF ins, nodes, outs, all
<1>7. Current = structs[i] /\ CurrentInput = InputNameOf(i)
  BY <1>6 DEF Current, CurrentInput, InputNameOf
<1>8. QED BY <1>2, <1>3, <1>6, <1>7

-----------------------------------------------------------------------------
(* The three calls.                                                        *)

\* The structs being the same, so are their names.
LEMMA NamesKept ==
  ASSUME UNCHANGED structs
  PROVE  /\ \A j : InputNameOf(j)' = InputNameOf(j) /\ OutputNameOf(j)' = OutputNameOf(j)
         /\ \A j : InputOf(j)' = InputOf(j) /\ OutputOf(j)' = OutputOf(j)
BY DEF InputNameOf, OutputNameOf, InputOf, OutputOf

\* A call that keeps the builder's invariant, and goes on or stops.
LEMMA CallKeepsDerivedInv ==
  ASSUME DerivedInv, structs # <<>>, phase = "building", UNCHANGED <<structs, phase, report>>,
         BuilderInv', Frame, calls' \in Nat,
         result'.outcome = "Ok" => Progress',
         NamesAreClear => result'.outcome = "Ok"
  PROVE  DerivedInv'
<1>1. ExportInv'
  BY CallKeepsInv DEF DerivedInv
<1>2. NamesAreClear' => NamesAreClear
  BY NamesKept DEF NamesAreClear, Frame
<1>3. QED BY <1>1, <1>2 DEF DerivedInv

\* A name that is refused is claimed already; refusing is no success.
LEMMA RefusedIsClaimed ==
  ASSUME NEW name, Refused(<<name>>, 0)
  PROVE  /\ name # Empty /\ name \in defined
         /\ result'.outcome # "Ok"
<1>1. Taken(<<name>>, 1)
  <2>1. Len(<<name>>) = 1
    OBVIOUS
  <2>2. Claim(<<name>>, 0)
    BY DEF Refused
  <2>3. ClaimsFirst(<<name>>, 0)
    BY <2>2 DEF Claim
  <2>4. 0 < Len(<<name>>) => Taken(<<name>>, 0 + 1)
    BY <2>3 DEF ClaimsFirst
  <2>5. QED BY <2>1, <2>4
<1>2. name # Empty /\ name \in defined
  BY <1>1 DEF Taken
<1>3. result'.outcome # "Ok"
  BY DEF Refused, DuplicateName
<1>4. QED BY <1>2, <1>3

\* Claiming one name adds nothing else.
LEMMA ClaimAddsOne ==
  ASSUME NEW name, Claim(<<name>>, 1)
  PROVE  defined' \subseteq defined \cup {name}
BY DEF Claim, Claimed

\* Clear names are not claimed before their turn.
LEMMA ClearNamesAreFree ==
  ASSUME DerivedInv, structs # <<>>, Progress, NamesAreClear, NEW i \in 1..Len(structs)
  PROVE  /\ i > Len(graph.inputs) => InputNameOf(i) \notin defined
         /\ i > Len(graph.nodes) => OutputNameOf(i) \notin defined
<1>1. /\ Len(structs) \in Nat /\ DOMAIN structs = 1..Len(structs)
      /\ Len(graph.inputs) \in Nat /\ Len(graph.nodes) \in Nat
      /\ Len(graph.inputs) <= Len(structs) /\ Len(graph.nodes) <= Len(graph.inputs)
  BY StructsType, BuilderPart DEF Progress
<1>2. ASSUME i > Len(graph.inputs), InputNameOf(i) \in defined
      PROVE  FALSE
  <2>1. CASE \E j \in 1..Len(graph.inputs) : InputNameOf(i) = InputNameOf(j)
    BY <1>1, <1>2, <2>1 DEF NamesAreClear
  <2>2. CASE \E j \in 1..Len(graph.nodes) : InputNameOf(i) = OutputNameOf(j)
    BY <1>1, <2>2 DEF NamesAreClear
  <2>3. QED BY <1>2, <2>1, <2>2 DEF Progress
<1>3. ASSUME i > Len(graph.nodes), OutputNameOf(i) \in defined
      PROVE  FALSE
  <2>1. CASE \E j \in 1..Len(graph.inputs) : OutputNameOf(i) = InputNameOf(j)
    BY <1>1, <2>1 DEF NamesAreClear
  <2>2. CASE \E j \in 1..Len(graph.nodes) : OutputNameOf(i) = OutputNameOf(j)
    BY <1>1, <1>3, <2>2, OutputNamesDiffer
  <2>3. QED BY <1>3, <2>1, <2>2 DEF Progress
<1>4. QED BY <1>2, <1>3

\* The first call claims the struct's input, or is refused it.
LEMMA DerivedInputKeepsInv ==
  ASSUME DerivedInv, DerivedInput
  PROVE  DerivedInv'
<1> DEFINE i == Len(graph.outputs) + 1
           vi == InputOf(i)
<1>1. /\ structs # <<>> /\ Progress /\ i \in 1..Len(structs)
      /\ CurrentInput = InputNameOf(i)
      /\ Len(graph.inputs) = i - 1 /\ Len(graph.nodes) = i - 1
  BY Turn DEF DerivedInput
<1>2. /\ Input(vi) /\ phase = "building" /\ UNCHANGED <<structs, phase, report>>
      /\ calls' = calls + 1 /\ calls' \in Nat
  BY <1>1 DEF DerivedInput, Called, Ready, InputOf, DerivedInv
<1>3. vi \in ValueInfo /\ vi.name = InputNameOf(i)
  BY <1>1, StructsType DEF ValueInfo, InputOf
<1>4. BuilderInv' /\ Frame
  BY <1>2, <1>3, BuilderPart, InputPreserves, DeclarationFrame
<1>5. CASE Refused(<<vi.name>>, 0)
  <2>1. result'.outcome # "Ok" /\ InputNameOf(i) \in defined
    BY <1>3, <1>5, RefusedIsClaimed
  <2>2. ~NamesAreClear
    BY <1>1, <2>1, BuilderPart, ClearNamesAreFree
  <2>3. QED BY <1>1, <1>2, <1>4, <2>1, <2>2, CallKeepsDerivedInv
<1>6. CASE /\ Claim(<<vi.name>>, 1)
           /\ graph' = [graph EXCEPT !.inputs = Append(@, vi)]
           /\ result' = Ok(<<vi.name>>)
  <2>1. /\ graph'.inputs = Append(graph.inputs, vi)
        /\ graph'.nodes = graph.nodes /\ graph'.outputs = graph.outputs
        /\ graph'.initializers = graph.initializers
    BY <1>6, BuilderPart DEF Graph
  <2>2. Len(graph'.inputs) = i /\ \A j \in 1..i : graph'.inputs[j] = InputOf(j)
    <3>1. graph.inputs \in Seq(ValueInfo) /\ \A j \in 1..(i - 1) : graph.inputs[j] = InputOf(j)
      BY <1>1, BuilderPart DEF Progress
    <3> HIDE DEF vi
    <3>2. Len(graph'.inputs) = i /\ graph'.inputs[i] = vi
          /\ \A j \in 1..(i - 1) : graph'.inputs[j] = graph.inputs[j]
      BY <1>1, <1>3, <2>1, <3>1, BuilderPart
    <3>3. QED BY <3>1, <3>2, BuilderPart DEF vi
  <2>3. defined' \subseteq defined \cup {InputNameOf(i)}
    BY <1>3, <1>6, ClaimAddsOne
  <2>4. Progress'
    <3>1. calls' = Len(graph'.inputs) + Len(graph'.nodes) + Len(graph'.outputs)
      <4>1. calls = Len(graph.inputs) + Len(graph.nodes) + Len(graph.outputs)
        BY <1>1 DEF Progress
      <4>2. Len(graph.nodes) \in Nat /\ Len(graph.outputs) \in Nat
        BY BuilderPart
      <4> HIDE DEF i
      <4>3. i \in Int
        BY <1>1, <4>2 DEF i
      <4>4. Len(graph'.nodes) = Len(graph.nodes) /\ Len(graph'.outputs) = Len(graph.outputs)
        BY <2>1
      <4>5. Len(graph.inputs) = i - 1 /\ calls' = calls + 1 /\ Len(graph'.inputs) = i
        BY <1>1, <1>2, <2>2
      <4> DEFINE n == Len(graph.nodes)
                 o == Len(graph.outputs)
      <4>6. n \in Int /\ o \in Int
        BY <4>2
      <4>7. calls' = (i - 1) + n + o + 1
        BY <4>1, <4>5
      <4> HIDE DEF n, o
      <4>8. (i - 1) + n + o + 1 = i + n + o
        BY <4>3, <4>6
      <4>9. QED BY <4>4, <4>5, <4>7, <4>8 DEF n, o
    <3>2. defined' \subseteq {InputNameOf(j) : j \in 1..i}
                              \cup {OutputNameOf(j) : j \in 1..Len(graph.nodes)}
      BY <1>1, <2>3, BuilderPart DEF Progress
    <3>3. /\ Len(graph.outputs) <= i - 1 /\ i - 1 <= i /\ i <= Len(graph.outputs) + 1
          /\ i <= Len(structs) /\ ~(Len(graph.outputs) < Len(graph.nodes))
      BY <1>1, BuilderPart, StructsType
    <3>4. /\ \A j \in 1..Len(graph.nodes) :
               graph.nodes[j].inputs = <<InputNameOf(j)>>
               /\ graph.nodes[j].outputs = <<OutputNameOf(j)>>
          /\ \A j \in 1..Len(graph.outputs) : graph.outputs[j] = OutputOf(j)
          /\ graph.initializers = <<>>
      BY <1>1 DEF Progress
    <3> HIDE DEF i
    <3>5. \A j \in 1..Len(graph'.inputs) : graph'.inputs[j] = InputOf(j)'
      BY <1>2, <2>2, NamesKept
    <3>6. \A j \in 1..Len(graph'.nodes) :
            graph'.nodes[j].inputs = <<InputNameOf(j)'>>
            /\ graph'.nodes[j].outputs = <<OutputNameOf(j)'>>
      BY <1>2, <2>1, <3>4, NamesKept
    <3>7. \A j \in 1..Len(graph'.outputs) : graph'.outputs[j] = OutputOf(j)'
      BY <1>2, <2>1, <3>4, NamesKept
    <3>8. defined' \subseteq {InputNameOf(j)' : j \in 1..Len(graph'.inputs)}
                              \cup {OutputNameOf(j)' : j \in 1..Len(graph'.nodes)}
      BY <1>2, <2>1, <2>2, <3>2, NamesKept
    <3>9. /\ Len(graph'.outputs) <= Len(graph'.nodes) /\ Len(graph'.nodes) <= Len(graph'.inputs)
          /\ Len(graph'.inputs) <= Len(graph'.outputs) + 1
          /\ Len(graph'.inputs) <= Len(structs')
          /\ ~(Len(graph'.outputs) < Len(graph'.nodes))
      BY <1>1, <1>2, <2>1, <2>2, <3>3
    <3>10. QED BY <2>1, <3>1, <3>4, <3>5, <3>6, <3>7, <3>8, <3>9 DEF Progress
  <2>5. result'.outcome = "Ok"
    BY <1>6 DEF Ok
  <2>6. QED BY <1>1, <1>2, <1>4, <2>4, <2>5, CallKeepsDerivedInv
<1>7. QED BY <1>2, <1>5, <1>6 DEF Input

\* An only output of a node is named as the struct's output is to be.
LEMMA OnlyOutputName ==
  ASSUME NEW i \in Nat \ {0}
  PROVE  AutoNames(i - 1, TextOf(structs[i].container, "op"), 1) = <<OutputNameOf(i)>>
BY DEF AutoNames, OutputNameOf

\* The second call claims the output of the struct's node, or is refused it.
LEMMA DerivedNodeKeepsInv ==
  ASSUME DerivedInv, DerivedNode
  PROVE  DerivedInv'
<1> DEFINE i == Len(graph.outputs) + 1
           op == TextOf(structs[i].container, "op")
           domain == TextOf(structs[i].container, "domain")
           ins == <<InputNameOf(i)>>
           names == <<OutputNameOf(i)>>
           node == [op |-> op, domain |-> domain, inputs |-> ins, outputs |-> names]
<1>1. /\ structs # <<>> /\ Progress /\ i \in 1..Len(structs)
      /\ Current = structs[i] /\ CurrentInput = InputNameOf(i)
      /\ Len(graph.inputs) = i /\ Len(graph.nodes) = i - 1
  BY Turn DEF DerivedNode
<1>2. /\ PushNode(op, domain, ins, 1) /\ phase = "building"
      /\ UNCHANGED <<structs, phase, report>>
      /\ calls' = calls + 1 /\ calls' \in Nat
  BY <1>1 DEF DerivedNode, Called, Ready, DerivedInv
<1>3. op \in OpType /\ domain \in Domain /\ ins \in Seq(ValueName) /\ 1 \in 0..MaxOutputs
  BY <1>1, StructsType, CompositionAssumption, BuilderAssumption
<1>4. BuilderInv' /\ Frame
  BY <1>2, <1>3, BuilderPart, PushNodePreserves, PushNodeFrame
<1>5. AutoNames(Len(graph.nodes), op, 1) = names
  BY <1>1, OnlyOutputName, StructsType
<1>6. \/ Refused(names, 0)
      \/ /\ Claim(names, 1)
         /\ graph' = [graph EXCEPT !.nodes = Append(@, node)]
         /\ result' = Ok(names)
  <2>1. \A n \in 0..(1 - 1) : n = 0
    OBVIOUS
  <2>2. QED BY <1>2, <1>5, <2>1 DEF PushNode
<1>7. CASE Refused(names, 0)
  <2>1. result'.outcome # "Ok" /\ OutputNameOf(i) \in defined
    BY <1>7, RefusedIsClaimed
  <2>2. ~NamesAreClear
    BY <1>1, <2>1, BuilderPart, ClearNamesAreFree
  <2>3. QED BY <1>1, <1>2, <1>4, <2>1, <2>2, CallKeepsDerivedInv
<1>8. CASE /\ Claim(names, 1)
           /\ graph' = [graph EXCEPT !.nodes = Append(@, node)]
           /\ result' = Ok(names)
  <2> HIDE DEF op, domain
  <2>1. /\ graph'.nodes = Append(graph.nodes, node)
        /\ graph'.inputs = graph.inputs /\ graph'.outputs = graph.outputs
        /\ graph'.initializers = graph.initializers
    <3> HIDE DEF node
    <3>1. QED BY <1>8, BuilderPart DEF Graph
  <2>2. /\ Len(graph'.nodes) = i
        /\ \A j \in 1..i : /\ graph'.nodes[j].inputs = <<InputNameOf(j)>>
                           /\ graph'.nodes[j].outputs = <<OutputNameOf(j)>>
    <3>1. graph.nodes \in Seq(Node)
          /\ \A j \in 1..(i - 1) : /\ graph.nodes[j].inputs = <<InputNameOf(j)>>
                                   /\ graph.nodes[j].outputs = <<OutputNameOf(j)>>
      BY <1>1, BuilderPart DEF Progress
    <3>2. node.inputs = <<InputNameOf(i)>> /\ node.outputs = <<OutputNameOf(i)>>
      OBVIOUS
    <3> HIDE DEF node
    <3>3. Len(graph'.nodes) = i /\ graph'.nodes[i] = node
          /\ \A j \in 1..(i - 1) : graph'.nodes[j] = graph.nodes[j]
      BY <1>1, <2>1, <3>1, BuilderPart
    <3>4. \A j \in 1..i : j \in 1..(i - 1) \/ j = i
      BY BuilderPart
    <3> HIDE DEF i
    <3>5. QED BY <3>1, <3>2, <3>3, <3>4
  <2>3. defined' \subseteq defined \cup {OutputNameOf(i)}
    BY <1>8, ClaimAddsOne
  <2>4. Progress'
    <3>1. calls' = Len(graph'.inputs) + Len(graph'.nodes) + Len(graph'.outputs)
      <4> DEFINE n == Len(graph.inputs)
                 o == Len(graph.outputs)
      <4>1. calls = n + Len(graph.nodes) + o /\ Len(graph.nodes) = i - 1
            /\ calls' = calls + 1 /\ Len(graph'.nodes) = i
        BY <1>1, <1>2, <2>2 DEF Progress
      <4>2. Len(graph'.inputs) = n /\ Len(graph'.outputs) = o
        BY <2>1
      <4>3. n \in Int /\ o \in Int /\ i \in Int
        BY BuilderPart
      <4>4. calls' = n + (i - 1) + o + 1
        BY <4>1
      <4> HIDE DEF n, o, i
      <4>5. n + (i - 1) + o + 1 = n + i + o
        BY <4>3
      <4>6. QED BY <4>1, <4>2, <4>4, <4>5
    <3>2. defined' \subseteq {InputNameOf(j) : j \in 1..Len(graph.inputs)}
                              \cup {OutputNameOf(j) : j \in 1..i}
      BY <1>1, <2>3, BuilderPart DEF Progress
    <3>3. /\ Len(graph.outputs) <= i /\ i <= Len(graph.inputs)
          /\ Len(graph.inputs) <= Len(graph.outputs) + 1 /\ Len(graph.inputs) <= Len(structs)
      BY <1>1, BuilderPart, StructsType
    <3>4. /\ \A j \in 1..Len(graph.inputs) : graph.inputs[j] = InputOf(j)
          /\ \A j \in 1..Len(graph.outputs) : graph.outputs[j] = OutputOf(j)
          /\ graph.initializers = <<>>
      BY <1>1 DEF Progress
    <3>5. result'.names = <<OutputNameOf(i)>>
      BY <1>8 DEF Ok
    <3> HIDE DEF i
    <3>6. \A j \in 1..Len(graph'.inputs) : graph'.inputs[j] = InputOf(j)'
      BY <1>2, <2>1, <3>4, NamesKept
    <3>7. \A j \in 1..Len(graph'.nodes) :
            graph'.nodes[j].inputs = <<InputNameOf(j)'>>
            /\ graph'.nodes[j].outputs = <<OutputNameOf(j)'>>
      BY <1>2, <2>2, NamesKept
    <3>8. \A j \in 1..Len(graph'.outputs) : graph'.outputs[j] = OutputOf(j)'
      BY <1>2, <2>1, <3>4, NamesKept
    <3>9. defined' \subseteq {InputNameOf(j)' : j \in 1..Len(graph'.inputs)}
                              \cup {OutputNameOf(j)' : j \in 1..Len(graph'.nodes)}
      BY <1>2, <2>1, <2>2, <3>2, NamesKept
    <3>10. /\ Len(graph'.outputs) <= Len(graph'.nodes) /\ Len(graph'.nodes) <= Len(graph'.inputs)
           /\ Len(graph'.inputs) <= Len(graph'.outputs) + 1
           /\ Len(graph'.inputs) <= Len(structs')
      BY <1>1, <1>2, <2>1, <2>2, <3>3
    <3>11. (result.names = <<OutputNameOf(Len(graph.nodes))>>)'
      BY <1>2, <2>2, <3>5 DEF OutputNameOf
    <3>12. QED
      BY <2>1, <3>1, <3>4, <3>6, <3>7, <3>8, <3>9, <3>10, <3>11 DEF Progress
  <2>5. result'.outcome = "Ok"
    BY <1>8 DEF Ok
  <2>6. QED BY <1>1, <1>2, <1>4, <2>4, <2>5, CallKeepsDerivedInv
<1>9. QED BY <1>6, <1>7, <1>8

\* The third call declares the output that the second returned.
LEMMA DerivedOutputKeepsInv ==
  ASSUME DerivedInv, DerivedOutput
  PROVE  DerivedInv'
<1> DEFINE i == Len(graph.outputs) + 1
           vi == OutputOf(i)
<1>1. /\ structs # <<>> /\ Progress /\ i \in 1..Len(structs)
      /\ Len(graph.inputs) = i /\ Len(graph.nodes) = i
  BY Turn DEF DerivedOutput
<1>2. result.names = <<OutputNameOf(i)>>
  BY <1>1, BuilderPart DEF Progress
<1>3. /\ Output(vi) /\ phase = "building" /\ UNCHANGED <<structs, phase, report>>
      /\ calls' = calls + 1 /\ calls' \in Nat
  BY <1>1, <1>2 DEF DerivedOutput, Called, Ready, OutputOf, DerivedInv
<1>4. vi \in ValueInfo
  <2>1. <<OutputNameOf(i)>> \in Seq(ValueName)
    BY <1>2 DEF DerivedInv, ExportInv, BuilderInv, TypeOK, Outcome
  <2>2. OutputNameOf(i) \in ValueName
    BY <2>1
  <2>3. QED BY <2>2 DEF ValueInfo, OutputOf
<1>5. BuilderInv' /\ Frame
  BY <1>3, <1>4, BuilderPart, OutputPreserves, DeclarationFrame
<1>6. /\ graph'.outputs = Append(graph.outputs, vi)
      /\ graph'.inputs = graph.inputs /\ graph'.nodes = graph.nodes
      /\ graph'.initializers = graph.initializers
      /\ defined' = defined /\ result'.outcome = "Ok"
  BY <1>3, BuilderPart DEF Output, Graph, Ok
<1>7. Len(graph'.outputs) = i /\ \A j \in 1..i : graph'.outputs[j] = OutputOf(j)
  <2>1. graph.outputs \in Seq(ValueInfo) /\ \A j \in 1..(i - 1) : graph.outputs[j] = OutputOf(j)
    BY <1>1, BuilderPart DEF Progress
  <2> HIDE DEF vi
  <2>2. Len(graph'.outputs) = i /\ graph'.outputs[i] = vi
        /\ \A j \in 1..(i - 1) : graph'.outputs[j] = graph.outputs[j]
    BY <1>4, <1>6, <2>1, BuilderPart
  <2>3. QED BY <2>1, <2>2, BuilderPart DEF vi
<1>8. Progress'
  <2>1. calls' = Len(graph'.inputs) + Len(graph'.nodes) + Len(graph'.outputs)
    <3> DEFINE n == Len(graph.inputs)
               m == Len(graph.nodes)
               o == Len(graph.outputs)
    <3>1. calls' = n + m + o + 1
      BY <1>1, <1>3 DEF Progress
    <3>2. Len(graph'.inputs) = n /\ Len(graph'.nodes) = m /\ Len(graph'.outputs) = o + 1
      BY <1>6, <1>7
    <3>3. n \in Int /\ m \in Int /\ o \in Int
      BY BuilderPart
    <3> HIDE DEF n, m, o
    <3>4. n + m + o + 1 = n + m + (o + 1)
      BY <3>3
    <3>5. QED BY <3>1, <3>2, <3>4
  <2>2. /\ \A j \in 1..Len(graph.inputs) : graph.inputs[j] = InputOf(j)
        /\ \A j \in 1..Len(graph.nodes) :
             graph.nodes[j].inputs = <<InputNameOf(j)>>
             /\ graph.nodes[j].outputs = <<OutputNameOf(j)>>
        /\ graph.initializers = <<>>
        /\ defined \subseteq {InputNameOf(j) : j \in 1..Len(graph.inputs)}
                              \cup {OutputNameOf(j) : j \in 1..Len(graph.nodes)}
    BY <1>1 DEF Progress
  <2>3. i <= i + 1 /\ i <= Len(structs)
    BY <1>1, BuilderPart, StructsType
  <2> HIDE DEF i
  <2>4. \A j \in 1..Len(graph'.inputs) : graph'.inputs[j] = InputOf(j)'
    BY <1>3, <1>6, <2>2, NamesKept
  <2>5. \A j \in 1..Len(graph'.nodes) :
          graph'.nodes[j].inputs = <<InputNameOf(j)'>>
          /\ graph'.nodes[j].outputs = <<OutputNameOf(j)'>>
    BY <1>3, <1>6, <2>2, NamesKept
  <2>6. \A j \in 1..Len(graph'.outputs) : graph'.outputs[j] = OutputOf(j)'
    BY <1>3, <1>7, NamesKept
  <2>7. defined' \subseteq {InputNameOf(j)' : j \in 1..Len(graph'.inputs)}
                            \cup {OutputNameOf(j)' : j \in 1..Len(graph'.nodes)}
    BY <1>3, <1>6, <2>2, NamesKept
  <2>8. /\ Len(graph'.outputs) <= Len(graph'.nodes) /\ Len(graph'.nodes) <= Len(graph'.inputs)
        /\ Len(graph'.inputs) <= Len(graph'.outputs) + 1
        /\ Len(graph'.inputs) <= Len(structs')
        /\ ~(Len(graph'.outputs) < Len(graph'.nodes))
    <3>1. i \in Int
      BY BuilderPart DEF i
    <3>2. QED BY <1>1, <1>3, <1>6, <1>7, <2>3, <3>1
  <2>9. QED BY <1>6, <2>1, <2>2, <2>4, <2>5, <2>6, <2>7, <2>8 DEF Progress
<1>9. QED BY <1>1, <1>3, <1>5, <1>6, <1>8, CallKeepsDerivedInv

-----------------------------------------------------------------------------
(* The model.                                                              *)

\* After the last call the graph is that of all the structs.
LEMMA AllDone ==
  ASSUME DerivedInv, structs # <<>>, result.outcome = "Ok", calls = 3 * Len(structs)
  PROVE  IsSideBySide(graph)
         /\ \A i \in DOMAIN structs : graph.inputs[i].ranked /\ graph.outputs[i].ranked
<1>1. Progress
  BY DEF DerivedInv
<1> DEFINE ins == Len(graph.inputs)
           nodes == Len(graph.nodes)
           outs == Len(graph.outputs)
           all == Len(structs)
<1>2. /\ ins \in Nat /\ outs \in Nat /\ nodes \in Nat /\ all \in Nat
      /\ 3 * all = ins + nodes + outs /\ outs <= nodes /\ nodes <= ins /\ ins <= all
      /\ DOMAIN structs = 1..all
  BY <1>1, BuilderPart, StructsType DEF Progress
<1> HIDE DEF ins, nodes, outs, all
<1>3. ins = all /\ nodes = all /\ outs = all
  BY <1>2
<1> USE DEF ins, nodes, outs, all
<1>4. ASSUME NEW i \in DOMAIN structs
      PROVE  /\ graph.inputs[i] = InputOf(i) /\ graph.outputs[i] = OutputOf(i)
             /\ graph.nodes[i].inputs = <<InputNameOf(i)>>
             /\ graph.nodes[i].outputs = <<OutputNameOf(i)>>
  <2>1. i \in 1..Len(graph.inputs) /\ i \in 1..Len(graph.nodes) /\ i \in 1..Len(graph.outputs)
    BY <1>2, <1>3
  <2>2. QED BY <1>1, <2>1 DEF Progress
<1>5. \A i \in DOMAIN structs :
        /\ InputOf(i).name = InputNameOf(i) /\ InputOf(i).ranked
        /\ OutputOf(i).name = OutputNameOf(i) /\ OutputOf(i).ranked
  BY DEF InputOf, OutputOf
<1>6. QED BY <1>3, <1>4, <1>5 DEF IsSideBySide

\* The names of the inputs and of the outputs of such a graph.
LEMMA SideNames ==
  ASSUME DerivedInv, structs # <<>>, IsSideBySide(graph)
  PROVE  /\ DOMAIN graph.inputs = DOMAIN structs /\ DOMAIN graph.outputs = DOMAIN structs
         /\ DOMAIN graph.nodes = DOMAIN structs
         /\ DOMAIN structs \subseteq Nat
<1>1. DOMAIN structs = 1..Len(structs) /\ Len(structs) \in Nat
  BY StructsType
<1>2. QED BY <1>1, BuilderPart DEF IsSideBySide

\* What is in the first of three lists is, at its place, in all three put together.
LEMMA FirstOfThree ==
  ASSUME NEW S, NEW s \in Seq(S), NEW t \in Seq(S), NEW u \in Seq(S), NEW i \in 1..Len(s)
  PROVE  i \in DOMAIN (s \o t \o u) /\ (s \o t \o u)[i] = s[i]
<1>1. s \o t \in Seq(S) /\ Len(s) \in Nat /\ Len(t) \in Nat /\ Len(u) \in Nat
      /\ Len(s \o t) = Len(s) + Len(t) /\ (s \o t)[i] = s[i]
  BY ConcatParts
<1> DEFINE st == s \o t
<1>2. st \in Seq(S) /\ i \in 1..Len(st) /\ st[i] = s[i]
  BY <1>1
<1> HIDE DEF st
<1>3. st \o u \in Seq(S) /\ Len(st \o u) = Len(st) + Len(u) /\ (st \o u)[i] = st[i]
  BY <1>2, ConcatParts
<1>4. i \in DOMAIN (st \o u)
  BY <1>1, <1>2, <1>3
<1>5. QED BY <1>2, <1>3, <1>4 DEF st

\* A builder's graph that validation accepts, of all the structs, has clear names.
LEMMA SidesAreClear ==
  ASSUME DerivedInv, structs # <<>>, IsSideBySide(graph), ValidationErrors(graph) = {}
  PROVE  NamesAreClear
<1>1. /\ DOMAIN graph.inputs = DOMAIN structs /\ DOMAIN graph.nodes = DOMAIN structs
      /\ SingleAssignment(graph)
  BY SideNames DEF DerivedInv, ExportInv, BuilderInv, Sound
<1>2. graph.named
  BY DEF ValidationErrors, MissingName
<1>3. ASSUME NEW i \in DOMAIN structs
      PROVE  InputNameOf(i) # Empty /\ graph.inputs[i].name = InputNameOf(i)
  <2>1. graph.inputs[i].name = InputNameOf(i)
    BY DEF IsSideBySide
  <2>2. Unnamed(graph) = {}
    BY DEF ValidationErrors
  <2> DEFINE infos == graph.inputs \o graph.outputs \o graph.value_info
  <2>3. \A j \in DOMAIN infos : infos[j].name # Empty
    BY <2>2, Zenon DEF Unnamed
  <2>4. i \in DOMAIN infos /\ infos[i] = graph.inputs[i]
    <3>1. /\ graph.inputs \in Seq(ValueInfo) /\ graph.outputs \in Seq(ValueInfo)
          /\ graph.value_info \in Seq(ValueInfo)
          /\ i \in 1..Len(graph.inputs)
      BY <1>1, <1>3, BuilderPart DEF Graph
    <3> DEFINE s == graph.inputs
               t == graph.outputs
               u == graph.value_info
    <3> HIDE DEF s, t, u, infos
    <3>2. s \in Seq(ValueInfo) /\ t \in Seq(ValueInfo) /\ u \in Seq(ValueInfo) /\ i \in 1..Len(s)
      BY <3>1 DEF s, t, u
    <3>3. i \in DOMAIN (s \o t \o u) /\ (s \o t \o u)[i] = s[i]
      BY <3>2, FirstOfThree
    <3>4. QED BY <3>3 DEF s, t, u, infos
  <2> HIDE DEF infos
  <2>5. QED BY <2>1, <2>3, <2>4
<1>4. ASSUME NEW i \in DOMAIN structs, NEW j \in DOMAIN structs,
             InputNameOf(i) = InputNameOf(j)
      PROVE  i = j
  BY <1>1, <1>3, <1>4 DEF SingleAssignment, InputsUnique
<1>5. ASSUME NEW i \in DOMAIN structs, NEW j \in DOMAIN structs
      PROVE  InputNameOf(i) # OutputNameOf(j)
  <2>1. InputNameOf(i) \in InputNames(graph)
    BY <1>1, <1>3 DEF InputNames
  <2>2. graph.nodes[j].outputs = <<OutputNameOf(j)>>
    BY DEF IsSideBySide
  <2>3. 1 \in DOMAIN graph.nodes[j].outputs /\ graph.nodes[j].outputs[1] = OutputNameOf(j)
    BY <2>2
  <2>4. OutputNameOf(j) \in NodeOutputNames(graph)
    BY <1>1, <2>3 DEF NodeOutputNames, OutputsOf
  <2>5. QED BY <1>1, <1>3, <2>1, <2>4 DEF SingleAssignment, NoShadowing
<1>6. QED BY <1>2, <1>3, <1>4, <1>5 DEF NamesAreClear

\* In lists put together of which the last is empty, everything is from the first two.
LEMMA FromTwo ==
  ASSUME NEW S, NEW s \in Seq(S), NEW t \in Seq(S), NEW u \in Seq(S), u = <<>>,
         NEW i \in DOMAIN (s \o t \o u)
  PROVE  \/ \E j \in DOMAIN s : (s \o t \o u)[i] = s[j]
         \/ \E j \in DOMAIN t : (s \o t \o u)[i] = t[j]
<1>1. /\ s \o t \in Seq(S) /\ Len(s) \in Nat /\ Len(t) \in Nat /\ Len(s \o t) = Len(s) + Len(t)
      /\ \A k \in 1..Len(s) : (s \o t)[k] = s[k]
      /\ \A k \in 1..Len(t) : (s \o t)[Len(s) + k] = t[k]
  BY ConcatParts
<1> DEFINE st == s \o t
<1>2. st \o u = st
  BY <1>1
<1>3. i \in 1..(Len(s) + Len(t)) /\ (s \o t \o u)[i] = st[i]
  BY <1>1, <1>2
<1>4. CASE i \in 1..Len(s)
  BY <1>1, <1>3, <1>4
<1>5. CASE i - Len(s) \in 1..Len(t)
  <2> DEFINE k == i - Len(s)
  <2>1. Len(s) + k = i /\ k \in DOMAIN t
    BY <1>1, <1>3, <1>5
  <2>2. st[i] = t[k]
    BY <1>1, <1>5, <2>1
  <2>3. QED BY <1>3, <2>1, <2>2
<1>6. QED BY <1>1, <1>3, <1>4, <1>5

\* A list of different names has no name twice.
LEMMA NoneRepeated ==
  ASSUME NEW names, NEW n \in Nat, DOMAIN names = 1..n,
         \A i, j \in 1..n : names[i] = names[j] => i = j
  PROVE  Repeated(names) = {}
BY DEF Repeated

\* Structs with clear names become a graph that has nothing for validation to find.
LEMMA ClearSidesAreValid ==
  ASSUME DerivedInv, structs # <<>>, Progress, NamesAreClear, IsSideBySide(graph),
         \A i \in DOMAIN structs : graph.inputs[i].ranked /\ graph.outputs[i].ranked
  PROVE  ValidationErrors(graph) = {}
<1> DEFINE n == Len(structs)
<1>1. /\ n \in Nat /\ DOMAIN structs = 1..n
      /\ DOMAIN graph.inputs = 1..n /\ DOMAIN graph.outputs = 1..n /\ DOMAIN graph.nodes = 1..n
      /\ graph.inputs \in Seq(ValueInfo) /\ graph.outputs \in Seq(ValueInfo)
      /\ graph.value_info = <<>> /\ graph.initializers = <<>>
  BY StructsType, SideNames, BuilderPart DEF DerivedInv, ExportInv, Progress
<1>2. /\ \A i \in 1..n : /\ graph.inputs[i].name = InputNameOf(i)
                         /\ graph.outputs[i].name = OutputNameOf(i)
                         /\ graph.nodes[i].inputs = <<InputNameOf(i)>>
                         /\ graph.nodes[i].outputs = <<OutputNameOf(i)>>
                         /\ graph.inputs[i].ranked /\ graph.outputs[i].ranked
      /\ \A i, j \in 1..n : InputNameOf(i) = InputNameOf(j) => i = j
      /\ \A i \in 1..n : InputNameOf(i) # Empty /\ OutputNameOf(i) # Empty
      /\ \A i, j \in 1..n : OutputNameOf(i) = OutputNameOf(j) => i = j
  BY <1>1, OutputNamesDiffer DEF IsSideBySide, NamesAreClear
<1> HIDE DEF n
<1>3. MissingName(graph) = {}
  BY DEF MissingName, NamesAreClear
<1>4. Unnamed(graph) = {}
  <2> DEFINE s == graph.inputs
             t == graph.outputs
             u == graph.value_info
  <2>1. s \in Seq(ValueInfo) /\ t \in Seq(ValueInfo) /\ u \in Seq(ValueInfo) /\ u = <<>>
    BY <1>1
  <2>2. /\ \A j \in DOMAIN s : s[j].name # Empty
        /\ \A j \in DOMAIN t : t[j].name # Empty
    BY <1>1, <1>2
  <2> HIDE DEF s, t, u
  <2>3. ASSUME NEW i \in DOMAIN (s \o t \o u)
        PROVE  (s \o t \o u)[i].name # Empty
    BY <2>1, <2>2, FromTwo
  <2>4. QED BY <2>3, Zenon DEF Unnamed, s, t, u
<1>5. RepeatedInfos("input", graph.inputs) = {}
  <2>1. DOMAIN Names(graph.inputs) = 1..n
        /\ \A i \in 1..n : Names(graph.inputs)[i] = InputNameOf(i)
    BY <1>1, <1>2 DEF Names
  <2>2. Repeated(Names(graph.inputs)) = {}
    BY <1>1, <1>2, <2>1, NoneRepeated
  <2>3. QED BY <2>2 DEF RepeatedInfos
<1>6. RepeatedInfos("output", graph.outputs) = {}
  <2>1. DOMAIN Names(graph.outputs) = 1..n
        /\ \A i \in 1..n : Names(graph.outputs)[i] = OutputNameOf(i)
    BY <1>1, <1>2 DEF Names
  <2>2. Repeated(Names(graph.outputs)) = {}
    BY <1>1, <1>2, <2>1, NoneRepeated
  <2>3. QED BY <2>2 DEF RepeatedInfos
<1>7. RepeatedInfos("value_info", graph.value_info) = {} /\ RepeatedInitializers(graph) = {}
  <2>1. DOMAIN graph.value_info = {} /\ DOMAIN graph.initializers = {}
    BY <1>1
  <2>2. Repeated(Names(graph.value_info)) = {} /\ Repeated(graph.initializers) = {}
    BY <2>1 DEF Repeated, Names
  <2>3. QED BY <2>2 DEF RepeatedInfos, RepeatedInitializers
<1>8. UndefinedValues(graph) = {}
  <2>1. ASSUME NEW i \in 1..n
        PROVE  UndefinedInputs(graph, i) = {}
    <3>1. InputNameOf(i) \in InputNames(graph)
      BY <1>1, <1>2 DEF InputNames
    <3>2. graph.nodes[i].inputs = <<InputNameOf(i)>>
      BY <1>2
    <3>3. {graph.nodes[i].inputs[k] : k \in DOMAIN graph.nodes[i].inputs} = {InputNameOf(i)}
      BY <3>2
    <3>4. QED BY <3>1, <3>3 DEF UndefinedInputs, DefinedBefore
  <2>2. QED BY <1>1, <2>1, NothingUndefined
<1>9. DuplicateOutputs(graph) = {}
  <2>1. ASSUME NEW i \in 1..n
        PROVE  RepeatedOutputs(graph, i) = {}
    <3>1. \A j \in 1..n : OutputsOf(graph, j) = {OutputNameOf(j)}
      BY <1>2 DEF OutputsOf
    <3>2. \A j \in 1..(i - 1) : j \in 1..n /\ i # j
      BY <1>1
    <3>3. Repeated(graph.nodes[i].outputs) = {}
      <4> DEFINE names == graph.nodes[i].outputs
      <4>1. DOMAIN names = 1..1 /\ 1 \in Nat
        BY <1>2
      <4>2. \A k, l \in 1..1 : k = l
        OBVIOUS
      <4> HIDE DEF names
      <4>3. Repeated(names) = {}
        BY <4>1, <4>2, NoneRepeated
      <4>4. QED BY <4>3 DEF names
    <3>4. QED BY <1>2, <3>1, <3>2, <3>3 DEF RepeatedOutputs
  <2>2. QED BY <1>1, <2>1 DEF DuplicateOutputs
<1>10. Cycles(graph) = {}
  BY <1>8, BuilderPart, OrderedIsAcyclic DEF BuilderInv, Sound
<1>11. Unshaped("output", graph.outputs) = {} /\ Unshaped("input", graph.inputs) = {}
  BY <1>1, <1>2 DEF Unshaped
<1>12. QED
  BY <1>3, <1>4, <1>5, <1>6, <1>7, <1>8, <1>9, <1>10, <1>11 DEF ValidationErrors

-----------------------------------------------------------------------------
(* export_model.                                                           *)

\* Nothing has been exported, and no call been made.
LEMMA DerivedInitInv == DerivedInit => DerivedInv
<1> SUFFICES ASSUME DerivedInit
             PROVE  DerivedInv
  OBVIOUS
<1>1. ExportInv /\ phase = "building" /\ calls = 0
  BY ExportInitInv DEF DerivedInit, ExportInit
<1>2. structs # <<>> => structs \in Compositions /\ \A i \in DOMAIN structs : Derivable(structs[i])
  BY DEF DerivedInit
<1>3. result.outcome = "Ok"
  BY DEF DerivedInit, ExportInit, Init, Ok
<1>4. ASSUME structs # <<>>
      PROVE  Progress
  <2>1. /\ graph.inputs = <<>> /\ graph.outputs = <<>> /\ graph.nodes = <<>>
        /\ graph.initializers = <<>> /\ defined = {}
    BY DEF DerivedInit, ExportInit, Init, EmptyGraph
  <2>2. Len(structs) \in Nat
    BY <1>2, <1>4, CompositionAssumption
  <2>3. Len(graph.inputs) = 0 /\ Len(graph.outputs) = 0 /\ Len(graph.nodes) = 0
    BY <2>1
  <2>4. QED BY <1>1, <2>1, <2>2, <2>3 DEF Progress
<1>5. QED BY <1>1, <1>2, <1>3, <1>4 DEF DerivedInv

\* A to_graph that is not derived.
LEMMA OtherwiseKeepsInv ==
  ASSUME DerivedInv, Otherwise
  PROVE  DerivedInv'
<1>1. ExportInv'
  BY ExportNextInv DEF Otherwise, DerivedInv, ExportNext
<1>2. QED BY <1>1 DEF Otherwise, DerivedInv

\* Where the graph and the claims stay as they are, so does what is said of them.
LEMMA SameGraph ==
  ASSUME UNCHANGED <<graph, defined, result, structs, calls>>
  PROVE  (Progress' <=> Progress) /\ (NamesAreClear' <=> NamesAreClear)
<1>1. NamesAreClear' <=> NamesAreClear
  BY NamesKept DEF NamesAreClear
<1>2. /\ (\A i \in 1..Len(graph.inputs) : graph.inputs[i] = InputOf(i))'
           <=> \A i \in 1..Len(graph.inputs) : graph.inputs[i] = InputOf(i)
      /\ (\A i \in 1..Len(graph.outputs) : graph.outputs[i] = OutputOf(i))'
           <=> \A i \in 1..Len(graph.outputs) : graph.outputs[i] = OutputOf(i)
  BY NamesKept
<1>3. (\A i \in 1..Len(graph.nodes) : graph.nodes[i].inputs = <<InputNameOf(i)>>
                                      /\ graph.nodes[i].outputs = <<OutputNameOf(i)>>)'
        <=> \A i \in 1..Len(graph.nodes) : graph.nodes[i].inputs = <<InputNameOf(i)>>
                                           /\ graph.nodes[i].outputs = <<OutputNameOf(i)>>
  BY NamesKept
<1>4. /\ {InputNameOf(i)' : i \in 1..Len(graph.inputs)} = {InputNameOf(i) : i \in 1..Len(graph.inputs)}
      /\ {OutputNameOf(i)' : i \in 1..Len(graph.nodes)} = {OutputNameOf(i) : i \in 1..Len(graph.nodes)}
      /\ OutputNameOf(Len(graph.nodes))' = OutputNameOf(Len(graph.nodes))
  BY NamesKept
<1>5. QED BY <1>1, <1>2, <1>3, <1>4 DEF Progress

\* A to_graph returns, and with it export_model.
LEMMA ReturnKeepsInv ==
  ASSUME DerivedInv, Return
  PROVE  DerivedInv'
<1>1. ExportInv' /\ UNCHANGED <<vars, structs, calls>>
  BY ExportNextInv DEF Return, DerivedInv, ExportNext, PropagateError, FinishAndValidate
<1>2. CASE structs = <<>>
  BY <1>1, <1>2 DEF DerivedInv
<1>3. CASE structs # <<>>
  <2>1. /\ Progress' <=> Progress
        /\ NamesAreClear' <=> NamesAreClear
        /\ result' = result /\ calls' = calls /\ structs' = structs
    BY <1>1, SameGraph DEF vars
  <2>2. CASE PropagateError
    <3>1. ~NamesAreClear /\ phase' = "failed"
      BY <1>3, <2>2 DEF PropagateError, DerivedInv
    <3>2. QED BY <1>1, <1>3, <2>1, <3>1 DEF DerivedInv
  <2>3. CASE FinishAndValidate /\ result.outcome = "Ok" /\ calls = 3 * Len(structs)
    <3>1. /\ Progress /\ IsSideBySide(graph)
          /\ \A i \in DOMAIN structs : graph.inputs[i].ranked /\ graph.outputs[i].ranked
      BY <1>3, <2>3, AllDone DEF DerivedInv
    <3>2. NamesAreClear => ValidationErrors(graph) = {}
      BY <1>3, <3>1, ClearSidesAreValid
    <3>3. NamesAreClear => phase' = "exported"
      BY <2>3, <3>2 DEF FinishAndValidate
    <3>4. QED BY <1>1, <1>3, <2>1, <2>3, <3>3 DEF DerivedInv
  <2>4. QED BY <1>3, <2>2, <2>3 DEF Return
<1>4. QED BY <1>2, <1>3

\* Whatever is called, derived or not.
LEMMA DerivedNextInv == DerivedInv /\ [DerivedNext]_derivedVars => DerivedInv'
<1> SUFFICES ASSUME DerivedInv, [DerivedNext]_derivedVars
             PROVE  DerivedInv'
  OBVIOUS
<1>1. CASE UNCHANGED derivedVars
  <2>1. ExportInv'
    BY <1>1, ExportNextInv DEF DerivedInv, derivedVars
  <2>2. UNCHANGED <<graph, defined, opsets, result, phase, report, structs, calls>>
    BY <1>1 DEF derivedVars, exportVars, vars
  <2>3. (Progress' <=> Progress) /\ (NamesAreClear' <=> NamesAreClear)
    BY <2>2, SameGraph
  <2>4. QED BY <2>1, <2>2, <2>3 DEF DerivedInv
<1>2. QED BY <1>1, OtherwiseKeepsInv, DerivedInputKeepsInv, DerivedNodeKeepsInv,
             DerivedOutputKeepsInv, ReturnKeepsInv DEF DerivedNext

\* What the invariant says of the structs' export.
LEMMA DerivedInvExports == DerivedInv => DerivedStructsExport
<1> SUFFICES ASSUME DerivedInv, structs # <<>>
             PROVE  IF NamesAreClear
                    THEN /\ phase \in {"building", "exported"}
                         /\ phase = "exported" => IsSideBySide(graph)
                    ELSE phase # "exported"
  BY DEF DerivedStructsExport
<1>1. ASSUME phase = "exported"
      PROVE  IsSideBySide(graph) /\ NamesAreClear
  <2>1. IsSideBySide(graph)
    BY <1>1, AllDone DEF DerivedInv
  <2>2. ValidationErrors(graph) = {}
    BY <1>1 DEF DerivedInv, ExportInv
  <2>3. QED BY <2>1, <2>2, SidesAreClear
<1>2. NamesAreClear => phase \in {"building", "exported"}
  BY DEF DerivedInv
<1>3. QED BY <1>1, <1>2

\* Structs that derive OnnxExport, any number of them and however they are annotated, are
\* exported side by side when their names are clear, and never when they are not.
THEOREM DerivedStructsAreExported == DerivedSpec => []DerivedStructsExport
<1>1. QED BY DerivedInitInv, DerivedNextInv, DerivedInvExports, PTL DEF DerivedSpec

\* A derived to_graph keeps what export_model promises of any.
THEOREM DerivedExportIsOrdered == DerivedSpec => []ExportedIsOrdered
<1>1. DerivedInv => ExportedIsOrdered
  BY ExportInvOrders DEF DerivedInv
<1>2. QED BY <1>1, DerivedInitInv, DerivedNextInv, PTL DEF DerivedSpec

\* Nor does validation find a duplicate among the names it claims.
THEOREM DerivedReportNamesNoCollision == DerivedSpec => []BuilderCollidesNowhere
<1>1. DerivedInv => BuilderCollidesNowhere
  BY ExportInvNamesNoCollision DEF DerivedInv
<1>2. QED BY <1>1, DerivedInitInv, DerivedNextInv, PTL DEF DerivedSpec

\* And a cycle never stands alone in what validation reports of it.
THEOREM DerivedCyclesNeverStandAlone == DerivedSpec => []CyclesUseUndefinedValues
<1>1. DerivedInv => CyclesUseUndefinedValues
  BY ExportInvCycles DEF DerivedInv
<1>2. QED BY <1>1, DerivedInitInv, DerivedNextInv, PTL DEF DerivedSpec

=============================================================================
