----------------------------- MODULE CycleReport -----------------------------
(***************************************************************************)
(* What detect_cycle promises, without the search: one answer, which names *)
(* a cycle of the graph, or says that there is none and is right.          *)
(***************************************************************************)
EXTENDS DependencyGraph

VARIABLES deps, status, path

vars == <<deps, status, path>>

Init ==
  /\ status = "searching"
  /\ path = <<>>

Report ==
  /\ status = "searching"
  /\ \/ /\ status' = "cyclic"
        /\ IsCycle(deps, path')
     \/ /\ status' = "acyclic"
        /\ Acyclic(deps)
        /\ path' = path
  /\ UNCHANGED deps

Spec == Init /\ [][Report]_vars

\* An answer does come.
Answered == <>(status # "searching")
=============================================================================
