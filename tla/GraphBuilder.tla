----------------------------- MODULE GraphBuilder -----------------------------
(***************************************************************************)
(* GraphBuilder (src/src/export.rs): the graph under construction, the     *)
(* names claimed so far and the operator sets it will import.              *)
(*                                                                         *)
(* Each action is one call of the public API, with every claim it makes: a *)
(* call that fails half way keeps the claims (and the initializers) it had *)
(* already made, as the code does.                                         *)
(***************************************************************************)
EXTENDS OnnxGraph

CONSTANTS
  GraphNamed,       \* whether the graph is given a name: the choices callers make
  Stem,             \* the alphanumeric part of each operator type
  Signature,        \* the Rust types that are operators (OnnxOp): domain and arities
  DeclaredInputs,   \* what callers pass to input()
  DeclaredOutputs,  \* what callers pass to output()
  TensorNames,      \* names callers give to initializers
  NodeInputs,       \* the input lists callers pass
  EmittedTensors,   \* the initializer lists of what is handed to OpSink::emit
  EmittedOutputs,   \* the output lists of the nodes handed to OpSink::emit
  DeclaredVersions, \* versions passed to declare_opset
  MaxNodes,         \* bound: nodes of the graph
  MaxOutputs,       \* bound: outputs of a node the builder names
  MaxDeclared,      \* bound: inputs, and outputs, of the graph
  MaxInitializers   \* bound: initializers of the graph

ASSUME BuilderAssumption ==
  /\ GraphNamed \subseteq BOOLEAN
  /\ DOMAIN Signature \subseteq OpType
  /\ \A op \in DOMAIN Signature : Signature[op].domain \in Domain
  /\ DeclaredInputs \subseteq ValueInfo
  /\ DeclaredOutputs \subseteq ValueInfo
  /\ TensorNames \subseteq ValueName
  /\ NodeInputs \subseteq Seq(ValueName)
  /\ EmittedTensors \subseteq Seq(ValueName)
  /\ EmittedOutputs \subseteq Seq(ValueName)
  /\ DeclaredVersions \subseteq Nat \ {0}
  /\ MaxNodes \in Nat /\ MaxOutputs \in Nat /\ MaxDeclared \in Nat
  /\ MaxInitializers \in Nat

\* The versions the library's own operators are written against.
CORE_TYPED_OPSET_TARGET == 21
ML_EXPORT_OPSET_TARGET == 4

Target(domain) ==
  IF domain = CoreDomain THEN CORE_TYPED_OPSET_TARGET
  ELSE IF domain = MlDomain THEN ML_EXPORT_OPSET_TARGET
  ELSE 0

VARIABLES
  graph,     \* GraphBuilder.graph
  defined,   \* GraphBuilder.defined: the names claim() has handed out
  opsets,    \* GraphBuilder.opsets: version imported of a domain, 0 when none
  result     \* what the last call returned: the ValueRefs' names, or an error


vars == <<graph, defined, opsets, result>>

Ok(refs) == [outcome |-> "Ok", names |-> refs]
DuplicateName(name) == [outcome |-> "DuplicateName", names |-> <<name>>]
LengthMismatch(name) == [outcome |-> "LengthMismatch", names |-> <<name>>]
OpFailed == [outcome |-> "Op", names |-> <<>>]

-----------------------------------------------------------------------------
(* Claiming names.                                                         *)

\* Mutant of Taken: a call does not see the names it has itself just claimed.
TakenBeforeCall(names, k) == names[k] # Empty /\ names[k] \in defined

\* claim() refuses the k-th of these names, claimed in order.
Taken(names, k) ==
  /\ names[k] # Empty
  /\ \/ names[k] \in defined
     \/ \E l \in 1..(k-1) : names[l] = names[k]

\* Mutant of ClaimsFirst: what claim() returns is not looked at.
ClaimsUnchecked(names, n) == n = Len(names)

\* Claiming names in order gets exactly the first n: all, or up to a refusal.
ClaimsFirst(names, n) ==
  /\ \A k \in 1..n : ~Taken(names, k)
  /\ n < Len(names) => Taken(names, n + 1)

\* Mutant of Claimed: claim() records the empty name too.
ClaimedEmptyToo(names, n) == {names[k] : k \in 1..n}

\* Mutant of Claimed: the last name of a call is never recorded.
ClaimedButLast(names, n) == {names[k] : k \in 1..(n - 1)} \ {Empty}

Claimed(names, n) == {names[k] : k \in 1..n} \ {Empty}

Claim(names, n) ==
  /\ ClaimsFirst(names, n)
  /\ defined' = defined \cup Claimed(names, n)

\* The first n claims succeed, the next one is refused, and the call returns that.
Refused(names, n) ==
  /\ n < Len(names)
  /\ Claim(names, n)
  /\ result' = DuplicateName(names[n + 1])

\* Mutant of AutoName: the node's index is left out of the name.
AutoNameNoIndex(i, op, k) == <<"node", 0, Stem[op], k>>

\* The names given to the outputs of the next node: an only output has no index.
AutoName(i, op, k) == <<"node", i, Stem[op], k>>

ASSUME AutoNameAssumption ==
  \A i \in 0..(MaxNodes - 1), op \in OpType, k \in -1..(MaxOutputs - 1) :
    AutoName(i, op, k) \in ValueName

AutoNames(i, op, count) ==
  IF count = 1 THEN <<AutoName(i, op, -1)>>
  ELSE [k \in 1..count |-> AutoName(i, op, k - 1)]

-----------------------------------------------------------------------------
(* Operator sets.                                                          *)

\* Mutant of Raise: the entry is overwritten.
RaiseOverwrites(domain, version) == [opsets EXCEPT ![domain] = version]

Raise(domain, version) ==
  [opsets EXCEPT ![domain] = IF version > @ THEN version ELSE @]

DeclareOpset(domain, version) ==
  /\ opsets' = Raise(domain, version)
  /\ result' = Ok(<<>>)
  /\ UNCHANGED <<graph, defined>>

\* Mutant of TrackOpset: a domain that was declared is left as it was.
TrackOpsetIfAbsent(domain) ==
  opsets' = IF opsets[domain] = 0 THEN Raise(domain, Target(domain)) ELSE opsets

TrackOpset(domain) == opsets' = Raise(domain, Target(domain))

-----------------------------------------------------------------------------
(* Inputs, outputs and initializers.                                       *)

\* Mutant of Input: the name is not claimed.
InputUnclaimed(vi) ==
  /\ Len(graph.inputs) < MaxDeclared
  /\ graph' = [graph EXCEPT !.inputs = Append(@, vi)]
  /\ result' = Ok(<<vi.name>>)
  /\ UNCHANGED <<defined, opsets>>

Input(vi) ==
  /\ Len(graph.inputs) < MaxDeclared
  /\ \/ /\ Claim(<<vi.name>>, 1)
        /\ graph' = [graph EXCEPT !.inputs = Append(@, vi)]
        /\ result' = Ok(<<vi.name>>)
     \/ /\ Refused(<<vi.name>>, 0)
        /\ UNCHANGED graph
  /\ UNCHANGED opsets

\* output() claims nothing: it does not look at what the graph defines.
Output(vi) ==
  /\ Len(graph.outputs) < MaxDeclared
  /\ graph' = [graph EXCEPT !.outputs = Append(@, vi)]
  /\ result' = Ok(<<vi.name>>)
  /\ UNCHANGED <<defined, opsets>>

InitializerTensor(name) ==
  /\ Len(graph.initializers) < MaxInitializers
  /\ \/ /\ Claim(<<name>>, 1)
        /\ graph' = [graph EXCEPT !.initializers = Append(@, name)]
        /\ result' = Ok(<<name>>)
     \/ /\ Refused(<<name>>, 0)
        /\ UNCHANGED graph
  /\ UNCHANGED opsets

\* Mutant of Initializer: the name is claimed before the length is checked.
InitializerClaimsFirst(name, mismatched) ==
  \/ /\ ~mismatched
     /\ InitializerTensor(name)
  \/ /\ mismatched
     /\ Claim(<<name>>, 1)
     /\ result' = LengthMismatch(name)
     /\ UNCHANGED <<graph, opsets>>

\* mismatched: the shape is fixed and its element count is not that of the data.
Initializer(name, mismatched) ==
  \/ /\ ~mismatched
     /\ InitializerTensor(name)
  \/ /\ mismatched
     /\ result' = LengthMismatch(name)
     /\ UNCHANGED <<graph, defined, opsets>>

-----------------------------------------------------------------------------
(* Nodes.                                                                  *)

PushNode(op, domain, ins, count) ==
  LET names == AutoNames(Len(graph.nodes), op, count)
      node == [op |-> op, domain |-> domain, inputs |-> ins, outputs |-> names]
  IN
  /\ Len(graph.nodes) < MaxNodes
  /\ \/ /\ Claim(names, count)
        /\ graph' = [graph EXCEPT !.nodes = Append(@, node)]
        /\ TrackOpset(domain)
        /\ result' = Ok(names)
     \/ /\ \E n \in 0..(count - 1) : Refused(names, n)
        /\ UNCHANGED <<graph, opsets>>

\* push_emitted: the initializers one by one, then the node's outputs, then the node.
PushEmitted(tensors, node, refs) ==
  LET names == tensors \o node.outputs IN
  \/ /\ Claim(names, Len(names))
     /\ graph' = [graph EXCEPT !.initializers = @ \o tensors,
                               !.nodes = Append(@, node)]
     /\ TrackOpset(node.domain)
     /\ result' = Ok(refs)
  \/ /\ \E n \in 0..(Len(names) - 1) :
          /\ Refused(names, n)
          /\ graph' = [graph EXCEPT !.initializers =
               @ \o SubSeq(tensors, 1, IF n < Len(tensors) THEN n ELSE Len(tensors))]
     /\ UNCHANGED opsets

\* emit_op of one of the library's operators: to_node may refuse the operator or
\* its arity, before anything is claimed; it emits no initializer and names the
\* node's outputs as it is told.
EmitOp(op, ins, count) ==
  LET names == AutoNames(Len(graph.nodes), op, count)
      node == [op |-> op, domain |-> Signature[op].domain,
               inputs |-> ins, outputs |-> names]
  IN
  /\ Len(graph.nodes) < MaxNodes
  /\ \/ /\ Len(ins) \in Signature[op].inputs
        /\ count = Signature[op].outputs
        /\ PushEmitted(<<>>, node, names)
     \/ /\ result' = OpFailed
        /\ UNCHANGED <<graph, defined, opsets>>

\* OpSink::emit of a node and initializers a caller composed.
Emit(tensors, op, domain, ins, outs) ==
  LET node == [op |-> op, domain |-> domain, inputs |-> ins, outputs |-> outs] IN
  /\ Len(graph.nodes) < MaxNodes
  /\ Len(graph.initializers) + Len(tensors) <= MaxInitializers
  /\ PushEmitted(tensors, node, outs)

-----------------------------------------------------------------------------
Init ==
  /\ \E named \in GraphNamed : graph = EmptyGraph(named)
  /\ defined = {}
  /\ opsets = [d \in Domain |-> 0]
  /\ result = Ok(<<>>)

Next ==
  \/ \E d \in Domain, v \in DeclaredVersions : DeclareOpset(d, v)
  \/ \E vi \in DeclaredInputs : Input(vi)
  \/ \E vi \in DeclaredOutputs : Output(vi)
  \/ \E name \in TensorNames, mismatched \in BOOLEAN : Initializer(name, mismatched)
  \/ \E name \in TensorNames : InitializerTensor(name)
  \/ \E op \in OpType, d \in Domain, ins \in NodeInputs, count \in 0..MaxOutputs :
       PushNode(op, d, ins, count)
  \/ \E op \in DOMAIN Signature, ins \in NodeInputs, count \in 0..MaxOutputs :
       EmitOp(op, ins, count)
  \/ \E tensors \in EmittedTensors, op \in OpType, d \in Domain, ins \in NodeInputs,
       outs \in EmittedOutputs : Emit(tensors, op, d, ins, outs)

Spec == Init /\ [][Next]_vars

-----------------------------------------------------------------------------
(* Properties.                                                             *)

Outcome ==
  [outcome : {"Ok", "DuplicateName", "LengthMismatch", "Op"}, names : Seq(ValueName)]

\* Every variable keeps its shape; claimed names are real names, never the empty one.
TypeOK ==
  /\ graph \in Graph
  /\ defined \subseteq ValueName \ {Empty}
  /\ opsets \in [Domain -> Nat]
  /\ result \in Outcome

\* Whatever the calls, their order and the half-done ones among them, no value of
\* the graph has two definitions: what claim() is for, across the four calls that
\* define values and the claims a failed call leaves behind.
GraphIsSingleAssignment == SingleAssignment(graph)

\* claim() has handed out every value the graph defines: a definition that claim()
\* did not see could be given a second time.
DefinitionsAreClaimed == DefinedNames(graph) \subseteq defined

\* Callers' own names that look like the names the builder composes.
LooksComposed(name) ==
  \E i \in 0..MaxNodes, op \in OpType, k \in -1..(MaxOutputs - 1) :
    name = AutoName(i, op, k)

\* The names the caller has put in the graph, or tried to through OpSink::emit.
CallerClaims ==
  defined \cap (  {vi.name : vi \in DeclaredInputs}
               \cup TensorNames
               \cup UNION {{s[k] : k \in DOMAIN s} : s \in EmittedTensors \cup EmittedOutputs})

\* As long as no caller has claimed a name of the builder's own form, push_node and
\* emit_op cannot run out of names: those they will compose for the next node are
\* unclaimed, whatever nodes were pushed and whatever calls failed before.
NextNodeNamesAreFree ==
  (\A name \in CallerClaims : ~LooksComposed(name)) =>
    \A op \in OpType, k \in -1..(MaxOutputs - 1) :
      AutoName(Len(graph.nodes), op, k) \notin defined

\* The model imports, for every node of a domain the library knows, at least the
\* version its operators are written against, whatever was declared before or after.
OpsetsCoverNodes ==
  \A i \in DOMAIN graph.nodes :
    opsets[graph.nodes[i].domain] >= Target(graph.nodes[i].domain)

\* declare_opset and the nodes pushed can only raise an import, in any order.
OpsetsOnlyRise == [][\A d \in Domain : opsets'[d] >= opsets[d]]_vars

\* A call that fails pushes no node, no input and no import: it leaves at most
\* claims and the first initializers of an emitted node. Nothing at all when the
\* operator or the data was refused, so that the caller may call again.
FailuresAreContained ==
  [][result'.outcome # "Ok" =>
       /\ graph' = [graph EXCEPT !.initializers = graph'.initializers]
       /\ \E n \in 0..Len(graph'.initializers) :
            graph.initializers = SubSeq(graph'.initializers, 1, n)
       /\ opsets' = opsets
       /\ result'.outcome # "DuplicateName" => UNCHANGED <<graph, defined>>]_vars

\* The places of the graph that define a value.
DefinitionSites(g, name) ==
       {<<"input", i, 0>> : i \in {j \in DOMAIN g.inputs : g.inputs[j].name = name}}
  \cup {<<"initializer", i, 0>> :
          i \in {j \in DOMAIN g.initializers : g.initializers[j] = name}}
  \cup UNION {{<<"node", i, k>> :
                k \in {l \in DOMAIN g.nodes[i].outputs : g.nodes[i].outputs[l] = name}} :
              i \in DOMAIN g.nodes}

Table == INSTANCE ValueTable WITH
  Value <- ValueName \ {Empty},
  sites <- [v \in ValueName \ {Empty} |-> DefinitionSites(graph, v)]

\* The builder implements the table of values: each value is defined in one place,
\* for good, and no later call (failed or not) moves it or adds a second place.
ImplementsValueTable == Table!Spec

=============================================================================
