------------------------------ MODULE OnnxGraph ------------------------------
(***************************************************************************)
(* The vocabulary of an ONNX graph that the builder, the validator and     *)
(* export_model share (src/src/ir/graph.rs).                               *)
(*                                                                         *)
(* A graph is a record                                                     *)
(*   [named, inputs, outputs, value_info, initializers, nodes]             *)
(* where named says whether the graph has a nonempty name; inputs, outputs *)
(* and value_info are sequences of ValueInfo; initializers is the sequence *)
(* of the initializer tensors' names; and a node keeps its operator, its   *)
(* domain and the names of its inputs and outputs.                         *)
(*                                                                         *)
(* A value name is the sequence of its parts, so that a name written by a  *)
(* user, <<"x">>, and one composed by the builder, such as                 *)
(* <<"node", 0, "Scaler", 1>>, live in one name space and can collide as   *)
(* the strings do.                                                         *)
(***************************************************************************)
EXTENDS Integers, Sequences

CONSTANTS
  ValueName,   \* every value name in play, composed by the builder or not
  OpType,      \* operator types
  Domain       \* operator set domains

CoreDomain == ""
MlDomain == "ai.onnx.ml"

\* The empty string: an unnamed value, or an optional input left out.
Empty == <<>>

ASSUME DomainAssumption == {CoreDomain, MlDomain} \subseteq Domain

\* A declared input or output; ranked: its value type is present with a rank.
ValueInfo == [name : ValueName, ranked : BOOLEAN]

Node == [op : OpType, domain : Domain,
         inputs : Seq(ValueName), outputs : Seq(ValueName)]

Graph == [named : BOOLEAN,
          inputs : Seq(ValueInfo), outputs : Seq(ValueInfo),
          value_info : Seq(ValueInfo),
          initializers : Seq(ValueName),
          nodes : Seq(Node)]

EmptyGraph(named) ==
  [named |-> named, inputs |-> <<>>, outputs |-> <<>>, value_info |-> <<>>,
   initializers |-> <<>>, nodes |-> <<>>]

-----------------------------------------------------------------------------
InputNames(g) == {g.inputs[i].name : i \in DOMAIN g.inputs}

InitializerNames(g) == {g.initializers[i] : i \in DOMAIN g.initializers}

\* The names the outputs of node i carry.
OutputsOf(g, i) == {g.nodes[i].outputs[k] : k \in DOMAIN g.nodes[i].outputs}

NodeOutputNames(g) == UNION {OutputsOf(g, i) : i \in DOMAIN g.nodes}

\* Every value the graph defines.
DefinedNames(g) ==
  (InputNames(g) \cup InitializerNames(g) \cup NodeOutputNames(g)) \ {Empty}

\* Mutant of DefinedBefore: the order of the nodes is not looked at.
DefinedAnywhere(g, i) == DefinedNames(g)

\* What a node may consume at position i of a topologically sorted graph.
DefinedBefore(g, i) ==
  InputNames(g) \cup InitializerNames(g)
    \cup UNION {OutputsOf(g, j) \ {Empty} : j \in {n \in DOMAIN g.nodes : n < i}}

-----------------------------------------------------------------------------
(* Single assignment: no two places of the graph define one value.         *)

\* No two graph inputs, and no two initializers, carry one name.
InputsUnique(g) ==
  \A i, j \in DOMAIN g.inputs :
    g.inputs[i].name = g.inputs[j].name /\ g.inputs[i].name # Empty => i = j

InitializersUnique(g) ==
  \A i, j \in DOMAIN g.initializers :
    g.initializers[i] = g.initializers[j] /\ g.initializers[i] # Empty => i = j

\* No two outputs, of one node or of two, carry one name.
OutputsUnique(g) ==
  \A i, j \in DOMAIN g.nodes :
    \A k \in DOMAIN g.nodes[i].outputs, l \in DOMAIN g.nodes[j].outputs :
      /\ g.nodes[i].outputs[k] = g.nodes[j].outputs[l]
      /\ g.nodes[i].outputs[k] # Empty
      => i = j /\ k = l

\* A node output hides neither an input nor an initializer, nor these each other.
NoShadowing(g) ==
  /\ InputNames(g) \cap InitializerNames(g) \subseteq {Empty}
  /\ (InputNames(g) \cup InitializerNames(g)) \cap NodeOutputNames(g) \subseteq {Empty}

SingleAssignment(g) ==
  /\ InputsUnique(g)
  /\ InitializersUnique(g)
  /\ OutputsUnique(g)
  /\ NoShadowing(g)

=============================================================================
