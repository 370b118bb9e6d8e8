---------------------------- MODULE CycleDetection ----------------------------
(***************************************************************************)
(* detect_cycle of src/src/ir/validate.rs: the iterative depth-first       *)
(* search, one action for each way through an iteration of its loops.      *)
(*                                                                         *)
(* Nodes are numbered from 1. The search starts from the dependency lists; *)
(* Validation!Dependencies builds them from a graph.                       *)
(***************************************************************************)
EXTENDS DependencyGraph

CONSTANTS
  NumNodes,   \* the number of nodes of the graph
  DepTables   \* the dependency lists to search

GraphNode == 1..NumNodes

ASSUME CycleAssumption ==
  /\ NumNodes \in Nat
  /\ DepTables \subseteq [GraphNode -> Seq(GraphNode)]
  /\ \A t \in DepTables : \A i \in GraphNode : i \notin DependsOn(t, i)

White == 0
Gray == 1
Black == 2

VARIABLES
  deps,      \* what each node depends on; never changes
  color,     \* White: not met; Gray: on the stack; Black: done
  stack,     \* the path from the current start to the node being searched
  iter_pos,  \* how many dependencies of a node this search has looked at
  start,     \* the next node the outer loop will try to start from
  status,    \* "searching", or what detect_cycle returned: "cyclic", "acyclic"
  path       \* the cycle returned

vars == <<deps, color, stack, iter_pos, start, status, path>>

Init ==
  /\ deps \in DepTables
  /\ color = [i \in GraphNode |-> White]
  /\ stack = <<>>
  /\ iter_pos = [i \in GraphNode |-> 0]
  /\ start = 1
  /\ status = "searching"
  /\ path = <<>>

-----------------------------------------------------------------------------
(* The outer loop.                                                         *)

Starting == status = "searching" /\ stack = <<>> /\ start <= NumNodes

SkipStart ==
  /\ Starting
  /\ color[start] # White
  /\ start' = start + 1
  /\ UNCHANGED <<deps, color, stack, iter_pos, status, path>>

\* Each start begins with fresh iteration counters.
BeginSearch ==
  /\ Starting
  /\ color[start] = White
  /\ stack' = <<start>>
  /\ color' = [color EXCEPT ![start] = Gray]
  /\ iter_pos' = [i \in GraphNode |-> 0]
  /\ start' = start + 1
  /\ UNCHANGED <<deps, status, path>>

Exhausted ==
  /\ status = "searching"
  /\ stack = <<>>
  /\ start = NumNodes + 1
  /\ status' = "acyclic"
  /\ UNCHANGED <<deps, color, stack, iter_pos, start, path>>

-----------------------------------------------------------------------------
(* The inner loop, on the node on top of the stack.                        *)

Searching == status = "searching" /\ stack # <<>>

Current == stack[Len(stack)]

\* The dependency to look at next, of the current node.
NextDep == deps[Current][iter_pos[Current] + 1]

\* Mutant of Remaining: the last dependency is not looked at.
RemainingButLast == iter_pos[Current] + 1 < Len(deps[Current])

Remaining == iter_pos[Current] < Len(deps[Current])

\* Mutant of RPosition: the reported path starts at the bottom of the stack.
RPositionBottom(v) == 1

\* rposition: the last place of v on the stack, the first if it is not there.
RPosition(v) ==
  LET places == {p \in DOMAIN stack : stack[p] = v} IN
  IF places = {} THEN 1 ELSE CHOOSE p \in places : \A q \in places : q <= p

\* Mutant of Advance: the counter is advanced twice in an iteration.
AdvanceTwice == iter_pos' = [iter_pos EXCEPT ![Current] = @ + 2]

Advance == iter_pos' = [iter_pos EXCEPT ![Current] = @ + 1]

\* Mutant of ReportCycle: the path is not closed with the node met again.
ReportCycleOpen ==
  /\ Searching /\ Remaining
  /\ color[NextDep] = Gray
  /\ path' = SubSeq(stack, RPosition(NextDep), Len(stack))
  /\ status' = "cyclic"
  /\ Advance
  /\ UNCHANGED <<deps, color, stack, start>>

\* The cycle goes from the dependency's place on the stack to the top, and back.
ReportCycle ==
  /\ Searching /\ Remaining
  /\ color[NextDep] = Gray
  /\ path' = Append(SubSeq(stack, RPosition(NextDep), Len(stack)), NextDep)
  /\ status' = "cyclic"
  /\ Advance
  /\ UNCHANGED <<deps, color, stack, start>>

Descend ==
  /\ Searching /\ Remaining
  /\ color[NextDep] = White
  /\ color' = [color EXCEPT ![NextDep] = Gray]
  /\ stack' = Append(stack, NextDep)
  /\ Advance
  /\ UNCHANGED <<deps, start, status, path>>

\* Mutant of SkipDone: a finished dependency is looked at for ever.
SkipDoneStays ==
  /\ Searching /\ Remaining
  /\ color[NextDep] = Black
  /\ UNCHANGED vars

SkipDone ==
  /\ Searching /\ Remaining
  /\ color[NextDep] = Black
  /\ Advance
  /\ UNCHANGED <<deps, color, stack, start, status, path>>

\* Mutant of Retreat: the node popped is left gray.
RetreatGray ==
  /\ Searching /\ ~Remaining
  /\ stack' = SubSeq(stack, 1, Len(stack) - 1)
  /\ UNCHANGED <<deps, color, iter_pos, start, status, path>>

Retreat ==
  /\ Searching /\ ~Remaining
  /\ color' = [color EXCEPT ![Current] = Black]
  /\ stack' = SubSeq(stack, 1, Len(stack) - 1)
  /\ UNCHANGED <<deps, iter_pos, start, status, path>>

-----------------------------------------------------------------------------
Next ==
  \/ SkipStart
  \/ BeginSearch
  \/ Exhausted
  \/ ReportCycle
  \/ Descend
  \/ SkipDone
  \/ Retreat

\* A sequential loop: the code runs until it returns.
Spec == Init /\ [][Next]_vars /\ WF_vars(Next)

-----------------------------------------------------------------------------
(* Properties.                                                             *)

TypeOK ==
  /\ deps \in [GraphNode -> Seq(GraphNode)]
  /\ color \in [GraphNode -> {White, Gray, Black}]
  /\ stack \in Seq(GraphNode)
  /\ iter_pos \in [GraphNode -> Nat]
  /\ \A i \in GraphNode : iter_pos[i] <= Len(deps[i])
  /\ start \in 1..(NumNodes + 1)
  /\ status \in {"searching", "cyclic", "acyclic"}
  /\ path \in Seq(GraphNode)

\* The stack holds each gray node once and nothing else, and is a dependency path:
\* what makes the slice from rposition to the top a cycle, over all the starts.
StackIsGrayPath ==
  /\ \A k, l \in DOMAIN stack : stack[k] = stack[l] => k = l
  /\ \A i \in GraphNode : color[i] = Gray <=> \E k \in DOMAIN stack : stack[k] = i
  /\ \A k \in 1..(Len(stack) - 1) : stack[k + 1] \in DependsOn(deps, stack[k])

\* A node is left black only when all it depends on is: later starts may skip it.
DoneIsClosed ==
  \A i \in GraphNode : color[i] = Black =>
    \A j \in DependsOn(deps, i) : color[j] = Black

\* The answer is right both ways: a path returned is a cycle of the graph (each
\* node once, but for its ends), and no cycle is missed when none is returned.
AnswerIsRight ==
  /\ status = "cyclic" =>
       /\ IsCycle(deps, path)
       /\ \A k, l \in 1..(Len(path) - 1) : path[k] = path[l] => k = l
  /\ status = "acyclic" => Acyclic(deps)

\* The search is the one-step report of CycleReport, seen from outside.
Abstract == INSTANCE CycleReport
ImplementsCycleReport == Abstract!Spec

\* detect_cycle returns, whatever the dependencies.
Returns == Abstract!Answered

=============================================================================
