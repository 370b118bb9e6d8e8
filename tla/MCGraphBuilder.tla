---------------------------- MODULE MCGraphBuilder ----------------------------
(* Small instances of GraphBuilder for TLC. *)
EXTENDS GraphBuilder

\* A caller's own names: a plain one and two of the builder's own form.
x == <<"x">>
y == <<"y">>
composed == <<"node", 0, "A", 0>>
composedSecond == <<"node", 0, "A", 1>>

MCOpType == {"A"}
MCDomain == {"", "ai.onnx.ml"}
MCStem == [op \in MCOpType |-> op]
MCSignature == [op \in MCOpType |->
  [domain |-> "ai.onnx.ml", inputs |-> {1}, outputs |-> 1]]
MCValueName ==
  {Empty, x, y} \cup {<<"node", i, op, k>> : i \in 0..1, op \in MCOpType, k \in -1..1}

Info(names) == [name : names, ranked : {TRUE}]
MCDeclaredInputs == Info({x, composed})
MCDeclaredOutputs == Info({x})
MCTensorNames == {Empty, composedSecond}
MCNodeInputs == {<<x>>}
MCEmittedTensors == {<<>>, <<y, x>>}
MCEmittedOutputs == {<<x, x>>, <<Empty, y>>}
=============================================================================
