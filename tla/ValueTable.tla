------------------------------ MODULE ValueTable ------------------------------
(***************************************************************************)
(* What a graph under construction promises of its values, with no claims  *)
(* and no calls: every value has at most one definition, given once, never *)
(* moved and never withdrawn. One step may define several values.          *)
(***************************************************************************)
CONSTANT Value

VARIABLE sites   \* sites[v]: the places of the graph that define v

Init == sites = [v \in Value |-> {}]

Define ==
  /\ DOMAIN sites' = Value
  /\ \A v \in Value :
       \/ sites'[v] = sites[v]
       \/ /\ sites[v] = {}
          /\ \E place \in sites'[v] : sites'[v] = {place}

Spec == Init /\ [][Define]_sites
=============================================================================
