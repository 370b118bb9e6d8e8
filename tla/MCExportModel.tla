---------------------------- MODULE MCExportModel ----------------------------
(* export_model over callers that wire a few names in every order, and over structs  *)
(* that derive OnnxExport.                                                           *)
EXTENDS DerivedExport

x == <<"x">>
y == <<"y">>
composed == <<"node", 0, "A", -1>>

MCOpType == {"A"}
MCDomain == {"", "ai.onnx.ml"}
MCStem == [op \in MCOpType |-> op]
MCSignature == [op \in MCOpType |->
  [domain |-> "ai.onnx.ml", inputs |-> {1}, outputs |-> 1]]
MCValueName ==
  {Empty, x, y} \cup {<<"node", i, op, k>> : i \in 0..1, op \in MCOpType, k \in -1..0}

Info(name, ranked) == [name |-> name, ranked |-> ranked]
MCDeclaredInputs == {Info(x, TRUE), Info(y, FALSE), Info(Empty, TRUE)}
MCDeclaredOutputs == {Info(y, TRUE), Info(y, FALSE)}
MCTensorNames == {Empty, x}
MCNodeInputs == {<<x>>, <<y, composed>>}
MCEmittedTensors == {<<>>, <<y>>}
MCEmittedOutputs == {<<y>>, <<Empty, x>>, <<x, x>>}

Key(key, text) == [key |-> key, text |-> text]
Scale == [annotations |-> <<Key("attr", "scale")>>, kind |-> "Floats", optional |-> FALSE]
Operator == <<Key("op", "A"), Key("domain", "ai.onnx.ml")>>

\* The input left at its default (x), or given: none, another, one of the builder's form.
Declarations ==
  {[container |-> Operator \o inputs, fields |-> <<Scale>>] :
     inputs \in {<<>>} \cup {<<Key("input", n)>> : n \in MCValueName}}
  \cup {[container |-> Operator, fields |-> fields] : fields \in {<<>>, <<Scale, Scale>>}}

MCCompositions == {<<d>> : d \in Declarations} \cup {<<d, e>> : d, e \in Declarations}
=============================================================================
