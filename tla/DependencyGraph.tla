--------------------------- MODULE DependencyGraph ---------------------------
(***************************************************************************)
(* What a cycle is, for the dependency lists validate.rs builds: deps[i]   *)
(* lists, in the order of node i's inputs and with repetitions, the other  *)
(* nodes that produce them.                                                *)
(***************************************************************************)
EXTENDS Integers, Sequences

\* The nodes that node i depends on.
DependsOn(deps, i) == {deps[i][k] : k \in DOMAIN deps[i]}

\* Nobody waits for himself through the others: no set of nodes each of whose
\* members depends on a member. (For a finite graph, the absence of cycles.)
Acyclic(deps) ==
  \A S \in SUBSET DOMAIN deps :
    S # {} => \E s \in S : DependsOn(deps, s) \cap S = {}

\* A walk along dependencies that ends where it began.
IsCycle(deps, path) ==
  /\ Len(path) > 1
  /\ path[1] = path[Len(path)]
  /\ \A k \in 1..(Len(path) - 1) :
       path[k] \in DOMAIN deps /\ path[k + 1] \in DependsOn(deps, path[k])

=============================================================================
