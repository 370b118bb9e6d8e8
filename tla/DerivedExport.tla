---------------------------- MODULE DerivedExport ----------------------------
(***************************************************************************)
(* export_model of structs that derive OnnxExport: the to_graph that       *)
(* expand generates (src/serde-onnx-macros/src/lib.rs), called for one     *)
(* struct, or by a hand-written to_graph for several, one after another.   *)
(* Beside it, as ExportModel has them, all other to_graphs.                *)
(***************************************************************************)
EXTENDS ExportModel, Derive

CONSTANTS
  Compositions,   \* the declarations of the structs exported together: sequences
  DefaultInput    \* the name "X"

ASSUME CompositionAssumption ==
  /\ MaxOutputs >= 1
  /\ \A c \in Compositions :
       /\ Len(c) \in Nat /\ DOMAIN c = 1..Len(c)
       /\ \A i \in DOMAIN c :
            Derivable(c[i]) =>
              /\ TextOf(c[i].container, "op") \in OpType
              /\ TextOf(c[i].container, "domain") \in Domain
              /\ InputName(c[i], DefaultInput) \in ValueName

VARIABLES
  structs,   \* the structs being exported; none when to_graph is written otherwise
  calls      \* how many builder calls their to_graphs have made, three each

derivedVars == <<exportVars, structs, calls>>

DerivedInit ==
  /\ ExportInit
  /\ structs \in {<<>>} \cup {c \in Compositions : \A i \in DOMAIN c : Derivable(c[i])}
  /\ calls = 0

\* Some other to_graph.
Otherwise ==
  /\ structs = <<>>
  /\ Build
  /\ UNCHANGED <<structs, calls>>

Ready(part) ==
  /\ phase = "building"
  /\ result.outcome = "Ok"
  /\ calls < 3 * Len(structs)
  /\ calls % 3 = part

Current == structs[calls \div 3 + 1]
CurrentInput == InputName(Current, DefaultInput)

Called ==
  /\ calls' = calls + 1
  /\ UNCHANGED <<structs, phase, report>>

\* The input and the output are float tensors of two unknown dimensions.
DerivedInput ==
  /\ Ready(0)
  /\ Input([name |-> CurrentInput, ranked |-> TRUE])
  /\ Called

\* The attributes are those of Derive; the graph keeps none.
DerivedNode ==
  /\ Ready(1)
  /\ PushNode(TextOf(Current.container, "op"), TextOf(Current.container, "domain"),
              <<CurrentInput>>, 1)
  /\ Called

\* Mutant of DerivedOutput: what is declared is the node's input.
DerivedOutputOfInput ==
  /\ Ready(2)
  /\ Output([name |-> CurrentInput, ranked |-> TRUE])
  /\ Called

\* The value that push_node returned.
DerivedOutput ==
  /\ Ready(2)
  /\ Output([name |-> result.names[1], ranked |-> TRUE])
  /\ Called

\* to_graph returns: with an error at once, with a value after its last call.
Return ==
  /\ \/ PropagateError
     \/ /\ structs # <<>> => result.outcome = "Ok" /\ calls = 3 * Len(structs)
        /\ FinishAndValidate
  /\ UNCHANGED <<structs, calls>>

DerivedNext == Otherwise \/ DerivedInput \/ DerivedNode \/ DerivedOutput \/ Return

DerivedSpec == DerivedInit /\ [][DerivedNext]_derivedVars

-----------------------------------------------------------------------------
(* Properties.                                                             *)

InputNameOf(i) == InputName(structs[i], DefaultInput)

OutputNameOf(i) == AutoName(i - 1, TextOf(structs[i].container, "op"), -1)

\* Nothing stands in the way of the names: the graph has one, and the structs' inputs
\* have different ones, none of them what push_node calls the output of one of the nodes.
NamesAreClear ==
  /\ graph.named
  /\ \A i, j \in DOMAIN structs : InputNameOf(i) = InputNameOf(j) => i = j
  /\ \A i, j \in DOMAIN structs : InputNameOf(i) \notin {Empty, OutputNameOf(j)}

\* The graph the structs are to become: each a node of its own, fed by its own input and
\* feeding its own output, whatever their operators are called.
IsSideBySide(g) ==
  /\ Len(g.nodes) = Len(structs) /\ Len(g.inputs) = Len(structs) /\ Len(g.outputs) = Len(structs)
  /\ \A i \in DOMAIN structs :
       /\ g.inputs[i].name = InputNameOf(i)
       /\ g.nodes[i].inputs = <<InputNameOf(i)>>
       /\ g.nodes[i].outputs = <<OutputNameOf(i)>>
       /\ g.outputs[i].name = OutputNameOf(i)

\* Structs that derive OnnxExport are exported, alone or together, exactly when their
\* names are clear: then no call is refused, validation finds nothing, and the model is
\* theirs; otherwise (two structs both leave the input at "X", say) they never are.
DerivedStructsExport ==
  structs # <<>> =>
    IF NamesAreClear
    THEN /\ phase \in {"building", "exported"}
         /\ phase = "exported" => IsSideBySide(graph)
    ELSE phase # "exported"

=============================================================================
