------------------------- MODULE CycleDetectionProofs -------------------------
(***************************************************************************)
(* Theorems about CycleDetection, for any number of nodes and any          *)
(* dependency lists: what detect_cycle answers is right both ways, and the *)
(* search implements the one-step report of CycleReport.                   *)
(***************************************************************************)
EXTENDS CycleDetection, SequenceTheorems, TLAPS

\* What a search in progress has looked at: the dependencies counted by iter_pos
\* are done, but for the last one of each node below the top, the node above it.
Examined ==
  status = "searching" =>
    \A k \in DOMAIN stack : \A q \in 1..iter_pos[stack[k]] :
      \/ color[deps[stack[k]][q]] = Black
      \/ k < Len(stack) /\ q = iter_pos[stack[k]] /\ deps[stack[k]][q] = stack[k + 1]

\* Nodes not met have no counter running, in whatever search.
WhiteUntouched == \A i \in GraphNode : color[i] = White => iter_pos[i] = 0

\* Among the nodes done there is no cycle.
DoneIsAcyclic ==
  \A S \in SUBSET {i \in GraphNode : color[i] = Black} :
    S # {} => \E s \in S : DependsOn(deps, s) \cap S = {}

\* Every node the outer loop has passed was met.
StartsMet == \A i \in GraphNode : i < start => color[i] # White

\* The inductive invariant.
SearchInv ==
  /\ TypeOK
  /\ StackIsGrayPath
  /\ DoneIsClosed
  /\ Examined
  /\ WhiteUntouched
  /\ DoneIsAcyclic
  /\ StartsMet
  /\ AnswerIsRight

-----------------------------------------------------------------------------
(* The initial state.                                                      *)

\* Nothing is visited, and nothing is on the stack, when detect_cycle begins.
LEMMA InitSearchInv == Init => SearchInv
<1> SUFFICES ASSUME Init
             PROVE  SearchInv
  OBVIOUS
<1> USE DEF Init
<1>1. TypeOK
  <2>1. deps \in [GraphNode -> Seq(GraphNode)]
    BY CycleAssumption
  <2>2. \A i \in GraphNode : iter_pos[i] <= Len(deps[i])
    BY <2>1, LenProperties
  <2>3. <<>> \in Seq(GraphNode) /\ 1 \in 1..(NumNodes + 1)
    BY CycleAssumption
  <2>4. QED BY <2>1, <2>2, <2>3 DEF TypeOK, White
<1>2. StackIsGrayPath
  BY DEF StackIsGrayPath, White, Gray
<1>3. DoneIsClosed /\ Examined /\ WhiteUntouched /\ AnswerIsRight
  BY DEF DoneIsClosed, Examined, WhiteUntouched, AnswerIsRight, White, Black
<1>4. DoneIsAcyclic
  BY DEF DoneIsAcyclic, White, Black
<1>5. StartsMet
  BY CycleAssumption DEF StartsMet, GraphNode
<1>6. QED BY <1>1, <1>2, <1>3, <1>4, <1>5 DEF SearchInv

-----------------------------------------------------------------------------
(* The outer loop.                                                         *)

\* A start that was visited before is passed over; its color says it is done.
LEMMA SkipStartPreserves == SearchInv /\ SkipStart => SearchInv'
<1> SUFFICES ASSUME SearchInv, SkipStart
             PROVE  SearchInv'
  OBVIOUS
<1>1. UNCHANGED <<deps, color, stack, iter_pos, status, path>> /\ start' = start + 1
  BY DEF SkipStart
<1>2. TypeOK'
  BY <1>1, CycleAssumption DEF SearchInv, TypeOK, SkipStart, Starting
<1>3. StartsMet'
  BY <1>1 DEF SearchInv, TypeOK, StartsMet, SkipStart, GraphNode
<1>4. StackIsGrayPath' /\ DoneIsClosed' /\ Examined' /\ WhiteUntouched'
  BY <1>1 DEF SearchInv, StackIsGrayPath, DoneIsClosed, Examined, WhiteUntouched
<1>5. DoneIsAcyclic' /\ AnswerIsRight'
  BY <1>1 DEF SearchInv, DoneIsAcyclic, AnswerIsRight
<1>6. QED BY <1>2, <1>3, <1>4, <1>5 DEF SearchInv

\* A white start is a path of one gray node.
LEMMA BeginSearchPreserves == SearchInv /\ BeginSearch => SearchInv'
<1> SUFFICES ASSUME SearchInv, BeginSearch
             PROVE  SearchInv'
  OBVIOUS
<1>1. /\ stack = <<>> /\ start \in GraphNode /\ color[start] = White
      /\ deps' = deps /\ status' = status /\ path' = path /\ status = "searching"
      /\ stack' = <<start>> /\ start' = start + 1
      /\ color' = [color EXCEPT ![start] = Gray]
      /\ iter_pos' = [i \in GraphNode |-> 0]
  BY DEF BeginSearch, Starting, SearchInv, TypeOK, GraphNode
<1>2. /\ deps \in [GraphNode -> Seq(GraphNode)]
      /\ color \in [GraphNode -> {White, Gray, Black}]
      /\ NumNodes \in Nat /\ start \in 1..(NumNodes + 1) /\ path \in Seq(GraphNode)
  BY CycleAssumption DEF SearchInv, TypeOK
<1>3. /\ stack' \in Seq(GraphNode) /\ Len(stack') = 1 /\ DOMAIN stack' = {1}
      /\ stack'[1] = start
  BY <1>1
<1>4. /\ \A i \in GraphNode : color'[i] = IF i = start THEN Gray ELSE color[i]
      /\ \A i \in GraphNode : color[i] # Gray
      /\ color' \in [GraphNode -> {White, Gray, Black}]
  BY <1>1, <1>2 DEF SearchInv, StackIsGrayPath
<1>5. TypeOK'
  <2>1. \A i \in GraphNode : iter_pos'[i] <= Len(deps'[i])
    BY <1>1, <1>2, LenProperties
  <2>2. iter_pos' \in [GraphNode -> Nat]
    BY <1>1
  <2>3. start' \in 1..(NumNodes + 1)
    BY <1>1, <1>2 DEF GraphNode
  <2>4. QED BY <1>1, <1>2, <1>3, <1>4, <2>1, <2>2, <2>3 DEF TypeOK
<1>6. StackIsGrayPath'
  BY <1>3, <1>4 DEF StackIsGrayPath
<1>7. \A i \in GraphNode : color'[i] = Black <=> color[i] = Black
  BY <1>1, <1>4 DEF White, Gray, Black
<1>8. DoneIsClosed'
  <2>1. \A i \in GraphNode : DependsOn(deps, i) \subseteq GraphNode
    BY <1>2, ElementOfSeq, LenProperties DEF DependsOn
  <2>2. \A i \in GraphNode : color[i] = Black =>
          \A j \in DependsOn(deps, i) : color[j] = Black
    BY DEF SearchInv, DoneIsClosed
  <2>3. QED BY <1>1, <1>7, <2>1, <2>2 DEF DoneIsClosed
<1>9. Examined'
  BY <1>1, <1>3 DEF Examined
<1>10. WhiteUntouched'
  BY <1>1 DEF WhiteUntouched
<1>11. DoneIsAcyclic'
  <2>1. {i \in GraphNode : color[i] = Black}' = {i \in GraphNode : color[i] = Black}
    BY <1>7
  <2>2. QED BY <1>1, <2>1 DEF SearchInv, DoneIsAcyclic
<1>12. StartsMet'
  BY <1>1, <1>2, <1>4 DEF SearchInv, StartsMet, GraphNode, White, Gray
<1>13. AnswerIsRight'
  BY <1>1 DEF AnswerIsRight
<1>14. QED BY <1>5, <1>6, <1>8, <1>9, <1>10, <1>11, <1>12, <1>13 DEF SearchInv

\* When every node is done, and no done node is on a cycle, there is no cycle.
LEMMA ExhaustedIsAcyclic == SearchInv /\ Exhausted => Acyclic(deps)
<1> SUFFICES ASSUME SearchInv, Exhausted
             PROVE  Acyclic(deps)
  OBVIOUS
<1>1. /\ stack = <<>> /\ start = NumNodes + 1
      /\ DOMAIN deps = GraphNode /\ NumNodes \in Nat
      /\ color \in [GraphNode -> {White, Gray, Black}]
  BY CycleAssumption DEF Exhausted, SearchInv, TypeOK
<1>2. \A i \in GraphNode : color[i] # White
  BY <1>1 DEF SearchInv, StartsMet, GraphNode
<1>3. \A i \in GraphNode : color[i] # Gray
  BY <1>1 DEF SearchInv, StackIsGrayPath
<1>4. {i \in GraphNode : color[i] = Black} = GraphNode
  BY <1>1, <1>2, <1>3
<1>5. QED BY <1>1, <1>4 DEF SearchInv, DoneIsAcyclic, Acyclic

\* Returning without a cycle is right.
LEMMA ExhaustedPreserves == SearchInv /\ Exhausted => SearchInv'
<1> SUFFICES ASSUME SearchInv, Exhausted
             PROVE  SearchInv'
  OBVIOUS
<1>1. UNCHANGED <<deps, color, stack, iter_pos, start, path>> /\ status' = "acyclic"
  BY DEF Exhausted
<1>2. TypeOK'
  BY <1>1 DEF SearchInv, TypeOK
<1>3. StackIsGrayPath' /\ DoneIsClosed' /\ Examined' /\ WhiteUntouched' /\ StartsMet'
  BY <1>1 DEF SearchInv, StackIsGrayPath, DoneIsClosed, Examined, WhiteUntouched, StartsMet
<1>4. DoneIsAcyclic'
  BY <1>1 DEF SearchInv, DoneIsAcyclic
<1>5. Acyclic(deps)'
  BY <1>1, ExhaustedIsAcyclic
<1>6. AnswerIsRight'
  BY <1>1, <1>5 DEF AnswerIsRight
<1>7. QED BY <1>2, <1>3, <1>4, <1>6 DEF SearchInv

-----------------------------------------------------------------------------
(* The inner loop.                                                         *)

\* What every iteration of the inner loop may rely on.
LEMMA TopOfStack ==
  ASSUME SearchInv, Searching
  PROVE  /\ Len(stack) \in Nat \ {0} /\ DOMAIN stack = 1..Len(stack)
         /\ Len(stack) \in DOMAIN stack
         /\ Current \in GraphNode /\ color[Current] = Gray
         /\ deps[Current] \in Seq(GraphNode) /\ Len(deps[Current]) \in Nat
         /\ DOMAIN deps[Current] = 1..Len(deps[Current])
         /\ iter_pos[Current] \in Nat /\ iter_pos[Current] <= Len(deps[Current])
<1>1. /\ stack \in Seq(GraphNode) /\ stack # <<>>
      /\ deps \in [GraphNode -> Seq(GraphNode)] /\ iter_pos \in [GraphNode -> Nat]
      /\ \A i \in GraphNode : iter_pos[i] <= Len(deps[i])
  BY DEF SearchInv, TypeOK, Searching
<1>2. Len(stack) \in Nat \ {0} /\ DOMAIN stack = 1..Len(stack)
  BY <1>1, LenProperties, EmptySeq
<1>3. Len(stack) \in DOMAIN stack
  BY <1>2
<1>4. Current \in GraphNode
  BY <1>1, <1>2, <1>3, ElementOfSeq DEF Current
<1>5. color[Current] = Gray
  BY <1>3, <1>4 DEF SearchInv, StackIsGrayPath, Current
<1>6. deps[Current] \in Seq(GraphNode)
  BY <1>1, <1>4
<1>7. Len(deps[Current]) \in Nat /\ DOMAIN deps[Current] = 1..Len(deps[Current])
  BY <1>6, LenProperties
<1>8. QED BY <1>1, <1>2, <1>3, <1>4, <1>5, <1>6, <1>7

\* The dependency looked at is one of the current node's.
LEMMA NextDepType ==
  ASSUME SearchInv, Searching, Remaining
  PROVE  /\ iter_pos[Current] + 1 \in DOMAIN deps[Current]
         /\ NextDep \in GraphNode
         /\ NextDep \in DependsOn(deps, Current)
<1>1. iter_pos[Current] + 1 \in DOMAIN deps[Current]
  BY TopOfStack DEF Remaining
<1>2. NextDep \in GraphNode
  BY <1>1, TopOfStack, ElementOfSeq DEF NextDep
<1>3. QED BY <1>1, <1>2 DEF NextDep, DependsOn

\* Counting one more dependency keeps the counters within the lists.
LEMMA AdvanceType ==
  ASSUME SearchInv, Searching, Remaining, Advance, deps' = deps
  PROVE  /\ iter_pos' \in [GraphNode -> Nat]
         /\ \A i \in GraphNode :
               iter_pos'[i] = IF i = Current THEN iter_pos[i] + 1 ELSE iter_pos[i]
         /\ \A i \in GraphNode : iter_pos'[i] <= Len(deps'[i])
<1>1. iter_pos \in [GraphNode -> Nat] /\ \A i \in GraphNode : iter_pos[i] <= Len(deps[i])
  BY DEF SearchInv, TypeOK
<1>2. \A i \in GraphNode :
        iter_pos'[i] = IF i = Current THEN iter_pos[i] + 1 ELSE iter_pos[i]
  BY <1>1, TopOfStack DEF Advance
<1>3. iter_pos' \in [GraphNode -> Nat]
  BY <1>1, TopOfStack DEF Advance
<1>4. iter_pos[Current] + 1 <= Len(deps[Current])
  BY TopOfStack DEF Remaining
<1>5. QED BY <1>1, <1>2, <1>3, <1>4

\* The path reported is a cycle: from the gray dependency's only place on the stack
\* up to the current node, and along its dependency back.
LEMMA ReportedPath ==
  ASSUME SearchInv, Searching, Remaining, color[NextDep] = Gray,
         NEW reported,
         reported = Append(SubSeq(stack, RPosition(NextDep), Len(stack)), NextDep)
  PROVE  /\ reported \in Seq(GraphNode)
         /\ IsCycle(deps, reported)
         /\ \A k, l \in 1..(Len(reported) - 1) : reported[k] = reported[l] => k = l
<1> DEFINE m == RPosition(NextDep)
           n == Len(stack)
           slice == SubSeq(stack, m, n)
<1>1. /\ stack \in Seq(GraphNode) /\ DOMAIN deps = GraphNode
      /\ \A k, l \in DOMAIN stack : stack[k] = stack[l] => k = l
      /\ \A k \in 1..(n - 1) : stack[k + 1] \in DependsOn(deps, stack[k])
  BY DEF SearchInv, TypeOK, StackIsGrayPath
<1>2. n \in Nat \ {0} /\ DOMAIN stack = 1..n /\ NextDep \in GraphNode
  BY TopOfStack, NextDepType
<1>3. PICK p \in DOMAIN stack : stack[p] = NextDep
  BY <1>2 DEF SearchInv, StackIsGrayPath
<1>4. {q \in DOMAIN stack : stack[q] = NextDep} = {p}
  BY <1>1, <1>3
<1>5. m = p
  <2>1. \A a, q \in {p} : q <= a
    BY <1>2, <1>3
  <2>2. QED BY <1>4, <2>1 DEF RPosition
<1>6. m \in 1..n /\ stack[m] = NextDep
  BY <1>2, <1>3, <1>5
<1> HIDE DEF m
<1>7. /\ slice \in Seq(GraphNode) /\ Len(slice) = n - m + 1
      /\ \A k \in 1..(n - m + 1) : slice[k] = stack[m + k - 1]
  <2>1. \A k \in m..n : stack[k] \in GraphNode
    BY <1>1, <1>2, <1>6, ElementOfSeq
  <2>2. m \in Int /\ n \in Int /\ m <= n
    BY <1>2, <1>6
  <2>3. QED BY <2>1, <2>2, SubSeqProperties
<1> HIDE DEF slice
<1>8. /\ reported \in Seq(GraphNode) /\ Len(reported) = n - m + 2
      /\ \A k \in 1..(n - m + 1) : reported[k] = stack[m + k - 1]
      /\ reported[n - m + 2] = NextDep
  <2>1. reported = Append(slice, NextDep)
    BY DEF slice, m
  <2>2. /\ reported \in Seq(GraphNode) /\ Len(reported) = Len(slice) + 1
        /\ reported[Len(slice) + 1] = NextDep
        /\ \A k \in 1..Len(slice) : reported[k] = slice[k]
    BY <1>2, <1>7, <2>1, AppendProperties
  <2>3. Len(slice) + 1 = n - m + 2
    BY <1>2, <1>6, <1>7
  <2>4. QED BY <1>7, <2>2, <2>3
<1>9. Len(reported) > 1 /\ reported[1] = reported[Len(reported)]
  <2>1. 1 \in 1..(n - m + 1) /\ m + 1 - 1 = m /\ n - m + 2 > 1
    BY <1>2, <1>6
  <2>2. QED BY <1>6, <1>8, <2>1
<1>10. ASSUME NEW k \in 1..(Len(reported) - 1)
       PROVE  reported[k] \in DOMAIN deps /\ reported[k + 1] \in DependsOn(deps, reported[k])
  <2>1. k \in 1..(n - m + 1) /\ m + k - 1 \in 1..n /\ reported[k] = stack[m + k - 1]
    BY <1>2, <1>6, <1>8
  <2>2. stack[m + k - 1] \in GraphNode
    BY <1>1, <1>2, <2>1, ElementOfSeq
  <2>3. CASE k = n - m + 1
    <3>1. m + k - 1 = n /\ k + 1 = n - m + 2
      BY <1>2, <1>6, <2>3
    <3>2. reported[k] = Current /\ reported[k + 1] = NextDep
      BY <1>8, <2>1, <3>1 DEF Current
    <3>3. NextDep \in DependsOn(deps, Current)
      BY NextDepType
    <3>4. Current \in DOMAIN deps
      BY <1>1, TopOfStack
    <3>5. QED BY <3>2, <3>3, <3>4
  <2>4. CASE k # n - m + 1
    <3>1. /\ k + 1 \in 1..(n - m + 1) /\ m + k - 1 \in 1..(n - 1)
          /\ m + (k + 1) - 1 = (m + k - 1) + 1
      <4>1. n \in Int /\ m \in Int /\ k \in Int
        BY <1>2, <1>6, <2>1
      <4>2. 1 <= m /\ 1 <= k /\ k <= n - m + 1
        BY <1>2, <1>6, <2>1
      <4> HIDE DEF n
      <4>3. k <= n - m
        BY <2>4, <4>1, <4>2
      <4>4. k + 1 <= n - m + 1 /\ m + k - 1 <= n - 1 /\ 1 <= m + k - 1
        BY <4>1, <4>2, <4>3
      <4>5. QED BY <4>1, <4>2, <4>4
    <3>2. reported[k + 1] = stack[(m + k - 1) + 1]
      BY <1>8, <3>1
    <3>3. QED BY <1>1, <2>1, <2>2, <3>1, <3>2
  <2>5. QED BY <2>3, <2>4
<1>11. ASSUME NEW k \in 1..(Len(reported) - 1), NEW l \in 1..(Len(reported) - 1),
              reported[k] = reported[l]
       PROVE  k = l
  <2>1. /\ m + k - 1 \in 1..n /\ reported[k] = stack[m + k - 1]
        /\ m + l - 1 \in 1..n /\ reported[l] = stack[m + l - 1]
    BY <1>2, <1>6, <1>8
  <2>2. m + k - 1 = m + l - 1
    BY <1>1, <1>2, <1>11, <2>1
  <2>3. QED BY <1>6, <2>2
<1>12. QED BY <1>8, <1>9, <1>10, <1>11 DEF IsCycle

\* Returning the stack from the gray dependency up is right.
LEMMA ReportCyclePreserves == SearchInv /\ ReportCycle => SearchInv'
<1> SUFFICES ASSUME SearchInv, ReportCycle
             PROVE  SearchInv'
  OBVIOUS
<1>1. /\ Searching /\ Remaining /\ color[NextDep] = Gray
      /\ path' = Append(SubSeq(stack, RPosition(NextDep), Len(stack)), NextDep)
      /\ status' = "cyclic" /\ Advance
      /\ UNCHANGED <<deps, color, stack, start>>
  BY DEF ReportCycle
<1>2. /\ path' \in Seq(GraphNode) /\ IsCycle(deps, path')
      /\ \A k, l \in 1..(Len(path') - 1) : path'[k] = path'[l] => k = l
  BY <1>1, ReportedPath
<1>3. /\ iter_pos' \in [GraphNode -> Nat]
      /\ \A i \in GraphNode : iter_pos'[i] = IF i = Current THEN iter_pos[i] + 1 ELSE iter_pos[i]
      /\ \A i \in GraphNode : iter_pos'[i] <= Len(deps'[i])
  BY <1>1, AdvanceType
<1>4. TypeOK'
  BY <1>1, <1>2, <1>3 DEF SearchInv, TypeOK
<1>5. StackIsGrayPath' /\ DoneIsClosed' /\ StartsMet'
  BY <1>1 DEF SearchInv, StackIsGrayPath, DoneIsClosed, StartsMet
<1>6. DoneIsAcyclic'
  BY <1>1 DEF SearchInv, DoneIsAcyclic
<1>7. AnswerIsRight'
  BY <1>1, <1>2 DEF AnswerIsRight
<1>8. Examined'
  BY <1>1 DEF Examined
<1>9. WhiteUntouched'
  BY <1>1, <1>3, TopOfStack DEF SearchInv, WhiteUntouched, White, Gray
<1>10. QED BY <1>4, <1>5, <1>6, <1>7, <1>8, <1>9 DEF SearchInv

\* The current node is nowhere else on the stack.
LEMMA OnlyOnTop ==
  ASSUME SearchInv, Searching, NEW k \in DOMAIN stack, k # Len(stack)
  PROVE  stack[k] \in GraphNode /\ stack[k] # Current /\ k \in 1..(Len(stack) - 1)
<1>1. stack \in Seq(GraphNode) /\ Len(stack) \in DOMAIN stack
      /\ DOMAIN stack = 1..Len(stack) /\ Len(stack) \in Nat \ {0}
  BY TopOfStack DEF SearchInv, TypeOK
<1>2. stack[k] \in GraphNode
  BY <1>1, ElementOfSeq
<1>3. stack[k] # Current
  BY <1>1 DEF SearchInv, StackIsGrayPath, Current
<1>4. QED BY <1>1, <1>2, <1>3

\* Passing over a dependency that is done changes a counter and nothing else.
LEMMA SkipDonePreserves == SearchInv /\ SkipDone => SearchInv'
<1> SUFFICES ASSUME SearchInv, SkipDone
             PROVE  SearchInv'
  OBVIOUS
<1>1. /\ Searching /\ Remaining /\ color[NextDep] = Black /\ Advance
      /\ UNCHANGED <<deps, color, stack, start, status, path>>
  BY DEF SkipDone
<1>2. /\ iter_pos' \in [GraphNode -> Nat]
      /\ \A i \in GraphNode : iter_pos'[i] = IF i = Current THEN iter_pos[i] + 1 ELSE iter_pos[i]
      /\ \A i \in GraphNode : iter_pos'[i] <= Len(deps'[i])
  BY <1>1, AdvanceType
<1>3. TypeOK'
  BY <1>1, <1>2 DEF SearchInv, TypeOK
<1>4. StackIsGrayPath' /\ DoneIsClosed' /\ StartsMet'
  BY <1>1 DEF SearchInv, StackIsGrayPath, DoneIsClosed, StartsMet
<1>5. DoneIsAcyclic' /\ AnswerIsRight'
  BY <1>1 DEF SearchInv, DoneIsAcyclic, AnswerIsRight
<1>6. Examined'
  <2>1. SUFFICES ASSUME status = "searching",
                        NEW k \in DOMAIN stack, NEW q \in 1..iter_pos'[stack[k]]
                 PROVE  \/ color[deps[stack[k]][q]] = Black
                        \/ /\ k < Len(stack) /\ q = iter_pos'[stack[k]]
                           /\ deps[stack[k]][q] = stack[k + 1]
    BY <1>1 DEF Examined
  <2>2. CASE k = Len(stack)
    <3>1. stack[k] = Current /\ iter_pos'[Current] = iter_pos[Current] + 1
      BY <1>1, <1>2, <2>2, TopOfStack DEF Current
    <3>2. CASE q = iter_pos[Current] + 1
      BY <1>1, <3>1, <3>2 DEF NextDep
    <3>3. CASE q # iter_pos[Current] + 1
      <4>1. q \in 1..iter_pos[Current]
        BY <1>1, <2>1, <3>1, <3>3, TopOfStack
      <4>2. QED BY <2>1, <2>2, <3>1, <4>1, <1>1, TopOfStack DEF SearchInv, Examined
    <3>4. QED BY <3>2, <3>3
  <2>3. CASE k # Len(stack)
    <3>1. iter_pos'[stack[k]] = iter_pos[stack[k]]
      BY <1>1, <1>2, <2>3, OnlyOnTop
    <3>2. QED BY <2>1, <3>1 DEF SearchInv, Examined
  <2>4. QED BY <2>2, <2>3
<1>7. WhiteUntouched'
  BY <1>1, <1>2, TopOfStack DEF SearchInv, WhiteUntouched, White, Gray
<1>8. QED BY <1>3, <1>4, <1>5, <1>6, <1>7 DEF SearchInv

\* Pushing a white dependency makes the path longer by one gray node.
LEMMA DescendPreserves == SearchInv /\ Descend => SearchInv'
<1> SUFFICES ASSUME SearchInv, Descend
             PROVE  SearchInv'
  OBVIOUS
<1> DEFINE n == Len(stack)
<1>1. /\ Searching /\ Remaining /\ color[NextDep] = White /\ Advance
      /\ color' = [color EXCEPT ![NextDep] = Gray]
      /\ stack' = Append(stack, NextDep)
      /\ UNCHANGED <<deps, start, status, path>>
  BY DEF Descend
<1>2. /\ iter_pos' \in [GraphNode -> Nat]
      /\ \A i \in GraphNode : iter_pos'[i] = IF i = Current THEN iter_pos[i] + 1 ELSE iter_pos[i]
      /\ \A i \in GraphNode : iter_pos'[i] <= Len(deps'[i])
  BY <1>1, AdvanceType
<1>3. /\ NextDep \in GraphNode /\ NextDep \in DependsOn(deps, Current)
      /\ Current \in GraphNode /\ color[Current] = Gray
      /\ n \in Nat \ {0} /\ DOMAIN stack = 1..n /\ Current = stack[n]
      /\ stack \in Seq(GraphNode) /\ color \in [GraphNode -> {White, Gray, Black}]
      /\ deps \in [GraphNode -> Seq(GraphNode)]
  BY <1>1, NextDepType, TopOfStack DEF SearchInv, TypeOK, Current
<1>4. \A i \in GraphNode : color'[i] = IF i = NextDep THEN Gray ELSE color[i]
  BY <1>1, <1>3
<1>5. /\ stack' \in Seq(GraphNode) /\ Len(stack') = n + 1 /\ DOMAIN stack' = 1..(n + 1)
      /\ stack'[n + 1] = NextDep /\ \A k \in 1..n : stack'[k] = stack[k]
  BY <1>1, <1>3, AppendProperties, LenProperties
<1>6. \A k \in 1..n : stack[k] \in GraphNode /\ stack[k] # NextDep
  <2>1. SUFFICES ASSUME NEW k \in 1..n
                 PROVE  stack[k] \in GraphNode /\ stack[k] # NextDep
    OBVIOUS
  <2>2. stack[k] \in GraphNode
    BY <1>3, ElementOfSeq
  <2>3. color[stack[k]] = Gray
    BY <1>3, <2>2 DEF SearchInv, StackIsGrayPath
  <2>4. QED BY <1>1, <2>2, <2>3 DEF White, Gray
<1> HIDE DEF n
<1>7. TypeOK'
  <2>1. color' \in [GraphNode -> {White, Gray, Black}]
    BY <1>1, <1>3
  <2>2. QED BY <1>1, <1>2, <1>5, <2>1 DEF SearchInv, TypeOK
<1>8. StackIsGrayPath'
  <2>1. \A k, l \in 1..(n + 1) : stack'[k] = stack'[l] => k = l
    <3>1. \A k, l \in 1..n : stack[k] = stack[l] => k = l
      BY <1>3 DEF SearchInv, StackIsGrayPath
    <3>2. QED BY <1>3, <1>5, <1>6, <3>1
  <2>2. ASSUME NEW i \in GraphNode
        PROVE  color'[i] = Gray <=> \E k \in 1..(n + 1) : stack'[k] = i
    <3>1. color[i] = Gray <=> \E k \in 1..n : stack[k] = i
      BY <1>3 DEF SearchInv, StackIsGrayPath
    <3>2. CASE i = NextDep
      BY <1>3, <1>4, <1>5, <3>2
    <3>3. CASE i # NextDep
      BY <1>3, <1>4, <1>5, <3>1, <3>3
    <3>4. QED BY <3>2, <3>3
  <2>3. ASSUME NEW k \in 1..n
        PROVE  stack'[k + 1] \in DependsOn(deps, stack'[k])
    <3>1. CASE k = n
      BY <1>3, <1>5, <3>1
    <3>2. CASE k # n
      <4>1. k \in 1..(n - 1) /\ k + 1 \in 1..n
        BY <1>3, <3>2
      <4>2. stack[k + 1] \in DependsOn(deps, stack[k])
        BY <4>1 DEF SearchInv, StackIsGrayPath, n
      <4>3. stack'[k + 1] = stack[k + 1] /\ stack'[k] = stack[k]
        BY <1>5, <4>1
      <4>4. QED BY <4>2, <4>3
    <3>3. QED BY <3>1, <3>2
  <2>4. deps' = deps /\ Len(stack') - 1 = n
    BY <1>1, <1>3, <1>5
  <2>5. \A k \in 1..n : (stack[k + 1] \in DependsOn(deps, stack[k]))'
    BY <2>3, <2>4 DEF DependsOn
  <2>6. QED BY <1>5, <2>1, <2>2, <2>4, <2>5 DEF StackIsGrayPath
<1>9. \A i \in GraphNode : color'[i] = Black <=> color[i] = Black
  BY <1>1, <1>4 DEF White, Gray, Black
<1>10. DoneIsClosed'
  <2>1. \A i \in GraphNode : DependsOn(deps, i) \subseteq GraphNode
    BY <1>3, ElementOfSeq, LenProperties DEF DependsOn
  <2>2. \A i \in GraphNode : color[i] = Black =>
          \A j \in DependsOn(deps, i) : color[j] = Black
    BY DEF SearchInv, DoneIsClosed
  <2>3. QED BY <1>1, <1>9, <2>1, <2>2 DEF DoneIsClosed
<1>11. Examined'
  <2>1. SUFFICES ASSUME status = "searching",
                        NEW k \in 1..(n + 1), NEW q \in 1..iter_pos'[stack'[k]]
                 PROVE  \/ color'[deps[stack'[k]][q]] = Black
                        \/ /\ k < n + 1 /\ q = iter_pos'[stack'[k]]
                           /\ deps[stack'[k]][q] = stack'[k + 1]
    BY <1>1, <1>5 DEF Examined
  <2>2. CASE k = n + 1
    <3>1. stack'[k] = NextDep /\ NextDep # Current /\ iter_pos[NextDep] = 0
      BY <1>1, <1>3, <1>5, <2>2 DEF SearchInv, WhiteUntouched, White, Gray
    <3>2. QED BY <1>2, <1>3, <3>1
  <2>3. CASE k = n
    <3>1. stack'[k] = Current /\ stack'[k + 1] = NextDep /\ iter_pos[Current] \in Nat
          /\ iter_pos'[Current] = iter_pos[Current] + 1
      BY <1>1, <1>2, <1>3, <1>5, <2>3, TopOfStack
    <3>2. CASE q = iter_pos[Current] + 1
      BY <1>3, <2>3, <3>1, <3>2 DEF NextDep
    <3>3. CASE q # iter_pos[Current] + 1
      <4>1. q \in 1..iter_pos[Current]
        BY <2>1, <3>1, <3>3
      <4>2. color[deps[Current][q]] = Black
        <5>1. n \in DOMAIN stack /\ stack[n] = Current /\ ~(n < n)
          BY <1>3
        <5>2. QED BY <2>1, <4>1, <5>1 DEF SearchInv, Examined, n
      <4>3. deps[Current][q] \in GraphNode
        BY <1>1, <1>3, <3>1, <4>1, TopOfStack, ElementOfSeq
      <4>4. QED BY <1>9, <3>1, <4>2, <4>3
    <3>4. QED BY <3>2, <3>3
  <2>4. CASE k # n + 1 /\ k # n
    <3>1. k \in 1..(n - 1) /\ k \in 1..n /\ k + 1 \in 1..n
      BY <1>3, <2>4
    <3>2. stack'[k] = stack[k] /\ stack'[k + 1] = stack[k + 1]
      BY <1>5, <3>1
    <3>3. stack[k] \in GraphNode /\ stack[k] # Current
      BY <1>1, <1>3, <2>4, <3>1, OnlyOnTop DEF n
    <3>4. iter_pos'[stack[k]] = iter_pos[stack[k]]
      BY <1>2, <3>3
    <3>5. \/ color[deps[stack[k]][q]] = Black
          \/ q = iter_pos[stack[k]] /\ deps[stack[k]][q] = stack[k + 1]
      BY <1>3, <2>1, <3>1, <3>2, <3>4 DEF SearchInv, Examined
    <3>6. deps[stack[k]][q] \in GraphNode
      <4>1. iter_pos[stack[k]] <= Len(deps[stack[k]]) /\ iter_pos[stack[k]] \in Nat
            /\ deps[stack[k]] \in Seq(GraphNode)
        BY <3>3 DEF SearchInv, TypeOK
      <4>2. q \in 1..Len(deps[stack[k]])
        BY <2>1, <3>2, <3>4, <4>1, LenProperties
      <4>3. QED BY <4>1, <4>2, ElementOfSeq
    <3>7. QED BY <1>3, <1>9, <3>1, <3>2, <3>4, <3>5, <3>6
  <2>5. QED BY <2>2, <2>3, <2>4
<1>12. WhiteUntouched'
  <2>1. SUFFICES ASSUME NEW i \in GraphNode, color'[i] = White
                 PROVE  iter_pos'[i] = 0
    BY DEF WhiteUntouched
  <2>2. color[i] = White /\ i # NextDep
    BY <1>4, <2>1 DEF White, Gray
  <2>3. i # Current
    BY <1>3, <2>2 DEF White, Gray
  <2>4. iter_pos[i] = 0
    BY <2>2 DEF SearchInv, WhiteUntouched
  <2>5. QED BY <1>2, <2>3, <2>4
<1>13. DoneIsAcyclic'
  <2>1. {i \in GraphNode : color[i] = Black}' = {i \in GraphNode : color[i] = Black}
    BY <1>9
  <2>2. QED BY <1>1, <2>1 DEF SearchInv, DoneIsAcyclic
<1>14. StartsMet'
  BY <1>1, <1>4 DEF SearchInv, StartsMet, White, Gray
<1>15. AnswerIsRight'
  BY <1>1 DEF AnswerIsRight, Searching
<1>16. QED BY <1>7, <1>8, <1>10, <1>11, <1>12, <1>13, <1>14, <1>15 DEF SearchInv

\* A node whose dependencies are all done is done, and is on no cycle.
LEMMA RetreatPreserves == SearchInv /\ Retreat => SearchInv'
<1> SUFFICES ASSUME SearchInv, Retreat
             PROVE  SearchInv'
  OBVIOUS
<1> DEFINE n == Len(stack)
<1>1. /\ Searching /\ ~Remaining
      /\ color' = [color EXCEPT ![Current] = Black]
      /\ stack' = SubSeq(stack, 1, n - 1)
      /\ UNCHANGED <<deps, iter_pos, start, status, path>>
  BY DEF Retreat
<1>2. /\ Current \in GraphNode /\ color[Current] = Gray /\ Current = stack[n]
      /\ n \in Nat \ {0} /\ DOMAIN stack = 1..n /\ n \in DOMAIN stack
      /\ stack \in Seq(GraphNode) /\ color \in [GraphNode -> {White, Gray, Black}]
      /\ deps \in [GraphNode -> Seq(GraphNode)]
      /\ iter_pos[Current] = Len(deps[Current])
      /\ DOMAIN deps[Current] = 1..iter_pos[Current]
  BY <1>1, TopOfStack DEF SearchInv, TypeOK, Current, Remaining
<1>3. \A i \in GraphNode : color'[i] = IF i = Current THEN Black ELSE color[i]
  BY <1>1, <1>2
<1>4. /\ stack' \in Seq(GraphNode) /\ Len(stack') = n - 1 /\ DOMAIN stack' = 1..(n - 1)
      /\ \A k \in 1..(n - 1) : stack'[k] = stack[k] /\ k \in DOMAIN stack
  <2>1. \A k \in 1..(n - 1) : stack[k] \in GraphNode
    BY <1>2, ElementOfSeq
  <2> HIDE DEF n
  <2>2. 1 \in Int /\ n - 1 \in Int
    BY <1>2
  <2>3. /\ stack' \in Seq(GraphNode)
        /\ Len(stack') = IF 1 <= n - 1 THEN (n - 1) - 1 + 1 ELSE 0
        /\ \A k \in 1..((n - 1) - 1 + 1) : stack'[k] = stack[1 + k - 1]
    BY <1>1, <2>1, <2>2, SubSeqProperties
  <2>4. Len(stack') = n - 1
    BY <1>2, <2>3
  <2>5. \A k \in 1..(n - 1) : stack'[k] = stack[k] /\ k \in DOMAIN stack
    BY <1>2, <2>3
  <2>6. QED BY <2>3, <2>4, <2>5, LenProperties
<1>5. \A k \in 1..(n - 1) : stack[k] \in GraphNode /\ stack[k] # Current
  <2> HIDE DEF n
  <2>1. \A k \in 1..(n - 1) : k \in DOMAIN stack /\ k # n
    BY <1>2
  <2>2. SUFFICES ASSUME NEW k \in 1..(n - 1)
                 PROVE  stack[k] \in GraphNode /\ stack[k] # Current
    OBVIOUS
  <2>3. k \in DOMAIN stack /\ k # Len(stack)
    BY <2>1 DEF n
  <2>4. QED BY <1>1, <2>3, OnlyOnTop
<1> HIDE DEF n
<1>6. TypeOK'
  <2>1. color' \in [GraphNode -> {White, Gray, Black}]
    BY <1>1, <1>2
  <2>2. QED BY <1>1, <1>4, <2>1 DEF SearchInv, TypeOK
<1>7. StackIsGrayPath'
  <2>1. \A k, l \in 1..(n - 1) : stack'[k] = stack'[l] => k = l
    BY <1>2, <1>4 DEF SearchInv, StackIsGrayPath
  <2>2. ASSUME NEW i \in GraphNode
        PROVE  color'[i] = Gray <=> \E k \in 1..(n - 1) : stack'[k] = i
    <3>1. color[i] = Gray <=> \E k \in 1..n : stack[k] = i
      BY <1>2 DEF SearchInv, StackIsGrayPath
    <3>2. CASE i = Current
      BY <1>3, <1>4, <1>5, <3>2 DEF Gray, Black
    <3>3. CASE i # Current
      <4>1. color'[i] = color[i]
        BY <1>3, <3>3
      <4>2. \A k \in 1..n : stack[k] = i => k \in 1..(n - 1)
        BY <1>2, <3>3
      <4>3. QED BY <1>2, <1>4, <3>1, <4>1, <4>2
    <3>4. QED BY <3>2, <3>3
  <2>3. ASSUME NEW k \in 1..((n - 1) - 1)
        PROVE  stack'[k + 1] \in DependsOn(deps', stack'[k])
    <3>1. k \in 1..(n - 1) /\ k + 1 \in 1..(n - 1)
      BY <1>2
    <3>2. stack[k + 1] \in DependsOn(deps, stack[k])
      BY <3>1 DEF SearchInv, StackIsGrayPath, n
    <3>3. stack'[k + 1] = stack[k + 1] /\ stack'[k] = stack[k]
      BY <1>4, <3>1
    <3>4. QED BY <1>1, <3>2, <3>3
  <2>4. QED BY <1>4, <2>1, <2>2, <2>3 DEF StackIsGrayPath
<1>8. \A i \in GraphNode : color'[i] = Black <=> color[i] = Black \/ i = Current
  BY <1>1, <1>3 DEF White, Gray, Black
<1>9. \A i \in GraphNode : DependsOn(deps, i) \subseteq GraphNode
  BY <1>2, ElementOfSeq, LenProperties DEF DependsOn
<1>10. \A j \in DependsOn(deps, Current) : color[j] = Black
  <2>1. ASSUME NEW q \in 1..iter_pos[Current]
        PROVE  color[deps[Current][q]] = Black
    <3>1. n \in DOMAIN stack /\ stack[n] = Current /\ ~(n < n)
      BY <1>2
    <3>2. QED BY <1>1, <2>1, <3>1 DEF SearchInv, Examined, Searching, n
  <2>2. QED BY <1>2, <2>1 DEF DependsOn
<1>11. DoneIsClosed'
  <2>1. SUFFICES ASSUME NEW i \in GraphNode, color[i] = Black \/ i = Current,
                        NEW j \in DependsOn(deps, i)
                 PROVE  color[j] = Black
    BY <1>1, <1>8, <1>9 DEF DoneIsClosed
  <2>2. QED BY <1>10, <2>1 DEF SearchInv, DoneIsClosed
<1>12. Examined'
  <2>1. SUFFICES ASSUME NEW k \in 1..(n - 1), NEW q \in 1..iter_pos[stack[k]]
                 PROVE  \/ color'[deps[stack[k]][q]] = Black
                        \/ /\ k < n - 1 /\ q = iter_pos[stack[k]]
                           /\ deps[stack[k]][q] = stack'[k + 1]
    BY <1>1, <1>4 DEF Examined
  <2>2. \/ color[deps[stack[k]][q]] = Black
        \/ q = iter_pos[stack[k]] /\ deps[stack[k]][q] = stack[k + 1]
    BY <1>1, <1>4 DEF SearchInv, Examined, Searching
  <2>3. deps[stack[k]][q] \in GraphNode
    <3>1. iter_pos[stack[k]] <= Len(deps[stack[k]]) /\ iter_pos[stack[k]] \in Nat
          /\ deps[stack[k]] \in Seq(GraphNode)
      BY <1>5 DEF SearchInv, TypeOK
    <3>2. q \in 1..Len(deps[stack[k]])
      BY <2>1, <3>1, LenProperties
    <3>3. QED BY <3>1, <3>2, ElementOfSeq
  <2>4. CASE k = n - 1
    <3>1. stack[k + 1] = Current
      BY <1>2, <2>4
    <3>2. QED BY <1>8, <2>2, <2>3, <3>1
  <2>5. CASE k # n - 1
    <3>1. k < n - 1 /\ k + 1 \in 1..(n - 1)
      BY <1>2, <2>5
    <3>2. QED BY <1>4, <1>8, <2>2, <2>3, <3>1
  <2>6. QED BY <2>4, <2>5
<1>13. WhiteUntouched'
  BY <1>1, <1>3 DEF SearchInv, WhiteUntouched, White, Black
<1>14. DoneIsAcyclic'
  <2>1. SUFFICES ASSUME NEW S \in SUBSET GraphNode, S # {},
                        \A i \in S : color[i] = Black \/ i = Current
                 PROVE  \E s \in S : DependsOn(deps, s) \cap S = {}
    BY <1>1, <1>8 DEF DoneIsAcyclic
  <2>2. \A T \in SUBSET GraphNode : T # {} /\ (\A i \in T : color[i] = Black) =>
          \E s \in T : DependsOn(deps, s) \cap T = {}
    BY DEF SearchInv, DoneIsAcyclic
  <2>3. CASE Current \notin S
    BY <2>1, <2>2, <2>3
  <2>4. CASE S = {Current}
    BY <1>2, <1>10, <2>4 DEF Gray, Black
  <2>5. CASE Current \in S /\ S # {Current}
    <3> DEFINE T == S \ {Current}
    <3>1. T \in SUBSET GraphNode /\ T # {} /\ \A i \in T : color[i] = Black
      BY <2>1, <2>5
    <3> HIDE DEF T
    <3>2. PICK s \in T : DependsOn(deps, s) \cap T = {}
      BY <2>2, <3>1
    <3>3. \A j \in DependsOn(deps, s) : color[j] = Black
      BY <3>1, <3>2 DEF SearchInv, DoneIsClosed
    <3>4. Current \notin DependsOn(deps, s)
      BY <1>2, <3>3 DEF Gray, Black
    <3>5. s \in S /\ DependsOn(deps, s) \cap S = {}
      BY <3>2, <3>4 DEF T
    <3>6. QED BY <3>5
  <2>6. QED BY <2>3, <2>4, <2>5
<1>15. StartsMet'
  BY <1>1, <1>3 DEF SearchInv, StartsMet, White, Black
<1>16. AnswerIsRight'
  BY <1>1 DEF AnswerIsRight, Searching
<1>17. QED BY <1>6, <1>7, <1>11, <1>12, <1>13, <1>14, <1>15, <1>16 DEF SearchInv

-----------------------------------------------------------------------------
(* The theorems.                                                           *)

\* Every iteration of either loop keeps the invariant.
LEMMA NextSearchInv == SearchInv /\ [Next]_vars => SearchInv'
<1> SUFFICES ASSUME SearchInv, [Next]_vars
             PROVE  SearchInv'
  OBVIOUS
<1>1. CASE UNCHANGED vars
  BY <1>1 DEF vars, SearchInv, TypeOK, StackIsGrayPath, DoneIsClosed, Examined,
       WhiteUntouched, DoneIsAcyclic, StartsMet, AnswerIsRight
<1>2. QED
  BY <1>1, SkipStartPreserves, BeginSearchPreserves, ExhaustedPreserves,
     ReportCyclePreserves, DescendPreserves, SkipDonePreserves, RetreatPreserves DEF Next

\* SearchInv holds between any two iterations of detect_cycle's loops, for any number of
\* nodes and any dependencies.
THEOREM SearchInvariant == Spec => []SearchInv
<1>1. QED BY InitSearchInv, NextSearchInv, PTL DEF Spec

\* Every index detect_cycle computes is within the list it is used on, and the colors,
\* counters, stack and result keep their types.
THEOREM SearchTypeCorrect == Spec => []TypeOK
<1>1. SearchInv => TypeOK
  BY DEF SearchInv
<1>2. QED BY <1>1, SearchInvariant, PTL

\* detect_cycle's stack is a path of the graph and holds every gray node exactly once, for
\* all the starts, so that the slice taken on meeting a gray node exists.
THEOREM StackIsAlwaysGrayPath == Spec => []StackIsGrayPath
<1>1. SearchInv => StackIsGrayPath
  BY DEF SearchInv
<1>2. QED BY <1>1, SearchInvariant, PTL

\* detect_cycle colors a node black only when all it depends on is black: no node is given
\* up early, whatever its counter was left at.
THEOREM DoneIsAlwaysClosed == Spec => []DoneIsClosed
<1>1. SearchInv => DoneIsClosed
  BY DEF SearchInv
<1>2. QED BY <1>1, SearchInvariant, PTL

\* detect_cycle is right: the path it returns is a cycle of the graph that visits
\* no node twice, and when it returns none the graph has none.
THEOREM CycleAnswerIsRight == Spec => []AnswerIsRight
<1>1. SearchInv => AnswerIsRight
  BY DEF SearchInv
<1>2. QED BY <1>1, SearchInvariant, PTL

\* Seen from validate_graph, detect_cycle is one step that reports some cycle if there is
\* one and none if there is none: the search implements CycleReport.
THEOREM CycleRefinement == Spec => ImplementsCycleReport
<1>1. Init => Abstract!Init
  BY DEF Init, Abstract!Init
<1>2. SearchInv /\ [Next]_vars => [Abstract!Report]_Abstract!vars
  <2> SUFFICES ASSUME SearchInv, [Next]_vars
               PROVE  [Abstract!Report]_Abstract!vars
    OBVIOUS
  <2> USE DEF Abstract!vars
  <2>1. CASE ReportCycle
    <3>1. IsCycle(deps, path')
      BY <2>1, ReportedPath DEF ReportCycle
    <3>2. Abstract!IsCycle(deps, path')
      BY <3>1 DEF IsCycle, DependsOn, Abstract!IsCycle, Abstract!DependsOn
    <3>3. QED BY <2>1, <3>2 DEF ReportCycle, Searching, Abstract!Report
  <2>2. CASE Exhausted
    <3>1. Abstract!Acyclic(deps)
      BY <2>2, ExhaustedIsAcyclic DEF Acyclic, DependsOn, Abstract!Acyclic, Abstract!DependsOn
    <3>2. QED BY <2>2, <3>1 DEF Exhausted, Abstract!Report
  <2>3. CASE SkipStart \/ BeginSearch \/ Descend \/ SkipDone \/ Retreat
    BY <2>3 DEF SkipStart, BeginSearch, Descend, SkipDone, Retreat
  <2>4. CASE UNCHANGED vars
    BY <2>4 DEF vars
  <2>5. QED BY <2>1, <2>2, <2>3, <2>4 DEF Next
<1>3. QED
  BY <1>1, <1>2, SearchInvariant, PTL DEF Spec, ImplementsCycleReport, Abstract!Spec

=============================================================================
