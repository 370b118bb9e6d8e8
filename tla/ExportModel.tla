----------------------------- MODULE ExportModel -----------------------------
(***************************************************************************)
(* export_model of src/src/export.rs: a new builder, the caller's to_graph *)
(* (any sequence of builder calls), then finish, the model and its         *)
(* validation, which decides whether the caller gets the model.            *)
(***************************************************************************)
EXTENDS GraphBuilder, Validation

VARIABLES
  phase,    \* "building", then how export_model returned: "failed", "rejected", "exported"
  report    \* the validation errors export_model returned

exportVars == <<vars, phase, report>>

ExportInit ==
  /\ Init
  /\ phase = "building"
  /\ report = {}

\* to_graph makes a call; after one that failed it may well go on.
Build ==
  /\ phase = "building"
  /\ Next
  /\ UNCHANGED <<phase, report>>

\* to_graph returns the error of its last call; export_model passes it on.
PropagateError ==
  /\ phase = "building"
  /\ result.outcome # "Ok"
  /\ phase' = "failed"
  /\ UNCHANGED <<vars, report>>

\* to_graph returns; the graph is finished, wrapped in a model and validated.
FinishAndValidate ==
  /\ phase = "building"
  /\ report' = ValidationErrors(graph)
  /\ phase' = IF report' = {} THEN "exported" ELSE "rejected"
  /\ UNCHANGED vars

ExportNext == Build \/ PropagateError \/ FinishAndValidate

ExportSpec == ExportInit /\ [][ExportNext]_exportVars

-----------------------------------------------------------------------------
(* Properties.                                                             *)

\* An exported model is in single assignment form, and each of its nodes consumes only
\* inputs, initializers and outputs of nodes before it: no cycle and no forward reference,
\* though the builder checks none, and no node output that hides an input or an
\* initializer, though the validator checks none.
ExportedIsOrdered ==
  phase = "exported" =>
    /\ SingleAssignment(graph)
    /\ \A i \in DOMAIN graph.nodes : \A k \in DOMAIN graph.nodes[i].inputs :
         graph.nodes[i].inputs[k] \in DefinedBefore(graph, i) \cup {Empty}

\* The validator never turns down a name the builder let through: of the duplicates
\* it can report on a built graph there are only graph outputs, which output() does
\* not claim, and unnamed values, which claim() lets pass.
BuilderCollidesNowhere ==
  \A e \in report :
    e.kind \in {"DuplicateOutput", "DuplicateInitializer", "DuplicateValueInfo"} =>
      e.about = "output" \/ e.name = Empty

\* A built graph with a cycle also has a value used before it is defined, so that
\* "Cycle" never stands alone in the report.
CyclesUseUndefinedValues ==
  Reports(graph, "Cycle") => Reports(graph, "UndefinedValue")

=============================================================================
