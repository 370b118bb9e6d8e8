------------------------------ MODULE Validation ------------------------------
(***************************************************************************)
(* validate_graph of src/src/ir/validate.rs as a function of the graph:    *)
(* the set of errors it reports. detect_cycle is taken at its contract     *)
(* here; CycleDetection models and checks the search itself.               *)
(***************************************************************************)
EXTENDS OnnxGraph, DependencyGraph

\* One error: its kind, what it is about, the node concerned (0 for none) and the name.
Error(kind, about, node, name) ==
  [kind |-> kind, about |-> about, node |-> node, name |-> name]

Names(infos) == [i \in DOMAIN infos |-> infos[i].name]

\* The names that come again in a list.
Repeated(names) ==
  {names[i] : i \in {j \in DOMAIN names : \E k \in 1..(j - 1) : names[k] = names[j]}}

-----------------------------------------------------------------------------
MissingName(g) ==
  IF g.named THEN {} ELSE {Error("GraphMissingName", "graph", 0, Empty)}

Unnamed(g) ==
  {Error("DuplicateValueInfo", "unnamed", 0, Empty) :
     i \in {j \in DOMAIN (g.inputs \o g.outputs \o g.value_info) :
              (g.inputs \o g.outputs \o g.value_info)[j].name = Empty}}

RepeatedInfos(about, infos) ==
  {Error("DuplicateValueInfo", about, 0, n) : n \in Repeated(Names(infos))}

RepeatedInitializers(g) ==
  {Error("DuplicateInitializer", "initializer", 0, n) : n \in Repeated(g.initializers)}

-----------------------------------------------------------------------------
(* One pass over the nodes, in their order.                                *)

\* Mutant of UndefinedInputs: a name defined anywhere in the graph will do.
UndefinedInputsAnywhere(g, i) ==
  {n \in {g.nodes[i].inputs[k] : k \in DOMAIN g.nodes[i].inputs} :
     n # Empty /\ n \notin DefinedNames(g)}

\* Names node i consumes that nothing before it defines.
UndefinedInputs(g, i) ==
  {n \in {g.nodes[i].inputs[k] : k \in DOMAIN g.nodes[i].inputs} :
     n # Empty /\ n \notin DefinedBefore(g, i)}

UndefinedValues(g) ==
  UNION {{Error("UndefinedValue", "node", i, n) : n \in UndefinedInputs(g, i)} :
           i \in DOMAIN g.nodes}

\* Outputs of node i that an earlier output, of this node or of one before, names.
\* Inputs and initializers of that name are not looked at.
RepeatedOutputs(g, i) ==
  {n \in OutputsOf(g, i) \ {Empty} :
     \/ \E j \in 1..(i - 1) : n \in OutputsOf(g, j)
     \/ n \in Repeated(g.nodes[i].outputs)}

DuplicateOutputs(g) ==
  UNION {{Error("DuplicateOutput", "node", i, n) : n \in RepeatedOutputs(g, i)} :
           i \in DOMAIN g.nodes}

-----------------------------------------------------------------------------
(* The dependencies detect_cycle searches.                                 *)

\* index_of: the first node that outputs the name.
FirstProducer(g, name, j) ==
  /\ j \in DOMAIN g.nodes
  /\ name \in OutputsOf(g, j)
  /\ \A l \in 1..(j - 1) : name \notin OutputsOf(g, l)

\* An input of node i adds a dependency: some other node is the first to output it.
FromOtherNode(g, i, name) ==
  name # Empty /\ \E j \in DOMAIN g.nodes \ {i} : FirstProducer(g, name, j)

\* What node i depends on, by the position of the input.
Dependencies(g) ==
  [i \in DOMAIN g.nodes |->
     [k \in {l \in DOMAIN g.nodes[i].inputs : FromOtherNode(g, i, g.nodes[i].inputs[l])} |->
        CHOOSE j \in DOMAIN g.nodes : FirstProducer(g, g.nodes[i].inputs[k], j)]]

Cycles(g) ==
  IF Acyclic(Dependencies(g)) THEN {} ELSE {Error("Cycle", "graph", 0, Empty)}

-----------------------------------------------------------------------------
Unshaped(about, infos) ==
  {Error("MissingShape", about, 0, infos[i].name) : i \in {j \in DOMAIN infos : ~infos[j].ranked}}

ValidationErrors(g) ==
  MissingName(g)
  \cup Unnamed(g)
  \cup RepeatedInfos("input", g.inputs)
  \cup RepeatedInfos("output", g.outputs)
  \cup RepeatedInfos("value_info", g.value_info)
  \cup RepeatedInitializers(g)
  \cup UndefinedValues(g)
  \cup DuplicateOutputs(g)
  \cup Cycles(g)
  \cup Unshaped("output", g.outputs)
  \cup Unshaped("input", g.inputs)

\* ValidationReport::is_ok
Accepts(g) == ValidationErrors(g) = {}

Reports(g, kind) == \E e \in ValidationErrors(g) : e.kind = kind
=============================================================================
