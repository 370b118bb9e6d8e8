--------------------------- MODULE MCCycleDetection ---------------------------
(* Every dependency table of a small graph: up to two inputs a node, repetitions *)
(* included, as a node may name one value twice. *)
EXTENDS CycleDetection

Others(i) == GraphNode \ {i}
ListsOf(S) == {<<>>} \cup {<<a>> : a \in S} \cup {<<a, b>> : a, b \in S}
MCDepTables ==
  {t \in [GraphNode -> ListsOf(GraphNode)] : \A i \in GraphNode : i \notin DependsOn(t, i)}
=============================================================================
