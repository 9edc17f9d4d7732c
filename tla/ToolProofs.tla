----------------------------- MODULE ToolProofs -----------------------------
(***************************************************************************)
(* Proofs about what a tool call passes: ToolGateway with its executors,   *)
(* the EnhancementPipeline, Authz, and ToolPlan, for any requests,         *)
(* policies, listings and number of callers: that the matching of the code *)
(* means what the patterns mean, that the walk of the sorted policies      *)
(* decides what they say, that each key is charged once, and that a plan   *)
(* has the best tools in an order its graph allows.                        *)
(***************************************************************************)
EXTENDS ToolGateway, EnhancementPipeline, Authz, ToolPlan, RetainTheorems

-----------------------------------------------------------------------------
(* ToolGateway: the slots                                                   *)

Execution == [tool : Tools, status : {"Running", "Timeout"}, old : BOOLEAN]

GatewayTypes ==
    /\ DOMAIN executing \subseteq ExecutionIds
    /\ IsFiniteSet(DOMAIN executing)
    /\ \A i \in DOMAIN executing : executing[i] \in Execution
    /\ concurrency \in [Tools -> Nat]
    /\ overwritten \in [Tools -> Nat]

SlotsInv == GatewayTypes /\ SlotsAreAccounted

LEMMA RunningFinite ==
    ASSUME GatewayTypes, NEW t
    PROVE  IsFiniteSet(RunningOf(t)) /\ Cardinality(RunningOf(t)) \in Nat
BY FS_Subset, FS_CardinalityType DEF GatewayTypes, RunningOf

\* One more execution takes a slot of its tool; the one it was submitted over
\* leaves its slot taken.
LEMMA SubmittedKeeps ==
    ASSUME SlotsInv, NEW id \in ExecutionIds, NEW tool \in Tools, Accepts(tool),
           Submitted(id, tool)
    PROVE  SlotsInv'
<1> DEFINE was == id \in DOMAIN executing
           r == [tool |-> tool, status |-> "Running", old |-> FALSE]
<1>1. /\ GatewayTypes /\ MaxPerTool \in Nat
      /\ concurrency \in [Tools -> Nat] /\ overwritten \in [Tools -> Nat]
      /\ \A t \in Tools : /\ concurrency[t] = Cardinality(RunningOf(t)) + overwritten[t]
                          /\ concurrency[t] <= MaxPerTool
  BY GatewayAssumption DEF SlotsInv, GatewayTypes, SlotsAreAccounted
<1>2. /\ executing' = [i \in DOMAIN executing \cup {id} |-> IF i = id THEN r ELSE executing[i]]
      /\ concurrency' = [concurrency EXCEPT ![tool] = @ + 1]
      /\ overwritten' = IF was THEN [overwritten EXCEPT ![executing[id].tool] = @ + 1]
                        ELSE overwritten
      /\ concurrency[tool] < MaxPerTool
  BY DEF Submitted, Accepts
<1>3. /\ DOMAIN executing' = DOMAIN executing \cup {id} /\ executing'[id] = r
      /\ \A i \in DOMAIN executing \ {id} : executing'[i] = executing[i]
  BY <1>2
<1>4. r \in Execution /\ r.tool = tool
  BY DEF Execution
<1> HIDE DEF r, was
<1>5. GatewayTypes'
  <2>1. /\ DOMAIN executing' \subseteq ExecutionIds /\ IsFiniteSet(DOMAIN executing')
        /\ \A i \in DOMAIN executing' : executing'[i] \in Execution
    BY <1>1, <1>3, <1>4, FS_AddElement DEF GatewayTypes
  <2>2. concurrency' \in [Tools -> Nat]
    BY <1>1, <1>2
  <2>3. overwritten' \in [Tools -> Nat]
    <3>1. CASE was
      <4>1. executing[id].tool \in Tools
        BY <1>1, <3>1 DEF GatewayTypes, Execution, was
      <4>2. QED
        BY <1>1, <1>2, <3>1, <4>1
    <3>2. CASE ~was
      BY <1>1, <1>2, <3>2
    <3>3. QED
      BY <3>1, <3>2
  <2>4. QED
    BY <2>1, <2>2, <2>3 DEF GatewayTypes
<1>6. ASSUME NEW t \in Tools
      PROVE  concurrency'[t] = Cardinality(RunningOf(t)') + overwritten'[t]
  <2> DEFINE c == Cardinality(RunningOf(t))
             d == Cardinality(RunningOf(t)')
  <2>1. IsFiniteSet(RunningOf(t)) /\ c \in Nat
    BY <1>1, RunningFinite
  <2>2. concurrency[t] = c + overwritten[t] /\ concurrency[t] \in Nat /\ overwritten[t] \in Nat
    BY <1>1
  <2>3. concurrency'[t] = concurrency[t] + (IF t = tool THEN 1 ELSE 0)
    BY <1>1, <1>2
  <2>4. CASE ~was
    <3>1. overwritten'[t] = overwritten[t]
      BY <1>2, <2>4
    <3>2. CASE t = tool
      <4>1. RunningOf(t)' = RunningOf(t) \cup {id} /\ id \notin RunningOf(t)
        BY <1>3, <1>4, <2>4, <3>2 DEF RunningOf, was
      <4>2. d = c + 1
        BY <2>1, <4>1, FS_AddElement
      <4> HIDE DEF c, d
      <4>3. QED
        BY <2>1, <2>2, <2>3, <3>1, <3>2, <4>2 DEF d
    <3>3. CASE t # tool
      <4>1. RunningOf(t)' = RunningOf(t)
        BY <1>3, <1>4, <2>4, <3>3 DEF RunningOf, was
      <4>2. QED
        BY <2>2, <2>3, <3>1, <3>3, <4>1
    <3>4. QED
      BY <3>2, <3>3
  <2>5. CASE was
    <3> DEFINE u == executing[id].tool
    <3>1. u \in Tools
      BY <1>1, <2>5 DEF GatewayTypes, Execution, was
    <3>2. overwritten'[t] = overwritten[t] + (IF t = u THEN 1 ELSE 0)
      BY <1>1, <1>2, <2>5, <3>1
    <3>3. id \in RunningOf(t) <=> t = u
      BY <2>5 DEF RunningOf, was
    <3> HIDE DEF u
    <3>4. CASE t = tool
      <4>1. RunningOf(t)' = RunningOf(t) \cup {id}
        BY <1>3, <1>4, <3>4 DEF RunningOf
      <4>2. d = IF id \in RunningOf(t) THEN c ELSE c + 1
        BY <2>1, <4>1, FS_AddElement
      <4> HIDE DEF c, d
      <4>3. QED
        BY <2>1, <2>2, <2>3, <3>2, <3>3, <3>4, <4>2 DEF d
    <3>5. CASE t # tool
      <4>1. RunningOf(t)' = RunningOf(t) \ {id}
        BY <1>3, <1>4, <3>5 DEF RunningOf
      <4>2. d = IF id \in RunningOf(t) THEN c - 1 ELSE c
        BY <2>1, <4>1, FS_RemoveElement
      <4> HIDE DEF c, d
      <4>3. QED
        BY <2>1, <2>2, <2>3, <3>2, <3>3, <3>5, <4>2 DEF d
    <3>6. QED
      BY <3>4, <3>5
  <2>6. QED
    BY <2>4, <2>5
<1>7. ASSUME NEW t \in Tools PROVE concurrency'[t] <= MaxPerTool
  BY <1>1, <1>2
<1>8. QED
  BY <1>5, <1>6, <1>7 DEF SlotsInv, SlotsAreAccounted

\* An execution that is over gives its slot back.
LEMMA CompletedKeeps ==
    ASSUME SlotsInv, NEW id \in DOMAIN executing, Completed(id), overwritten' = overwritten
    PROVE  SlotsInv'
<1> DEFINE u == executing[id].tool
<1>1. /\ GatewayTypes /\ MaxPerTool \in Nat
      /\ concurrency \in [Tools -> Nat] /\ overwritten \in [Tools -> Nat]
      /\ \A t \in Tools : /\ concurrency[t] = Cardinality(RunningOf(t)) + overwritten[t]
                          /\ concurrency[t] <= MaxPerTool
  BY GatewayAssumption DEF SlotsInv, GatewayTypes, SlotsAreAccounted
<1>2. u \in Tools
  BY <1>1 DEF GatewayTypes, Execution
<1>3. /\ executing' = [i \in DOMAIN executing \ {id} |-> executing[i]]
      /\ concurrency' = [concurrency EXCEPT ![u] = IF @ = 0 THEN 0 ELSE @ - 1]
  BY DEF Completed
<1>4. /\ DOMAIN executing' = DOMAIN executing \ {id}
      /\ \A i \in DOMAIN executing' : executing'[i] = executing[i]
  BY <1>3
<1>5. id \in RunningOf(u) /\ \A t : t # u => id \notin RunningOf(t)
  BY DEF RunningOf
<1> HIDE DEF u
<1>6. \A t : RunningOf(t)' = RunningOf(t) \ {id}
  BY <1>4 DEF RunningOf
<1>7. concurrency' \in [Tools -> Nat]
  BY <1>1, <1>2, <1>3
<1>8. GatewayTypes'
  BY <1>1, <1>4, <1>7, FS_RemoveElement DEF GatewayTypes
<1>9. ASSUME NEW t \in Tools
      PROVE  /\ concurrency'[t] = Cardinality(RunningOf(t)') + overwritten'[t]
             /\ concurrency'[t] <= MaxPerTool
  <2> DEFINE c == Cardinality(RunningOf(t))
             d == Cardinality(RunningOf(t)')
  <2>1. IsFiniteSet(RunningOf(t)) /\ c \in Nat
    BY <1>1, RunningFinite
  <2>2. /\ concurrency[t] = c + overwritten[t] /\ concurrency[t] <= MaxPerTool
        /\ overwritten[t] \in Nat /\ overwritten'[t] = overwritten[t]
    BY <1>1
  <2>3. CASE t = u
    <3>1. d = c - 1 /\ c # 0
      <4>1. c # 0
        BY <1>5, <2>1, <2>3, FS_EmptySet
      <4>2. d = c - 1
        BY <1>5, <1>6, <2>1, <2>3, FS_RemoveElement
      <4>3. QED
        BY <4>1, <4>2
    <3>2. concurrency'[t] = IF concurrency[t] = 0 THEN 0 ELSE concurrency[t] - 1
      BY <1>1, <1>3, <2>3
    <3> HIDE DEF c, d
    <3>3. concurrency'[t] = d + overwritten'[t] /\ concurrency'[t] <= MaxPerTool
      BY <1>1, <2>1, <2>2, <3>1, <3>2
    <3>4. QED
      BY <3>3 DEF d
  <2>4. CASE t # u
    <3>1. RunningOf(t)' = RunningOf(t)
      BY <1>5, <1>6, <2>4
    <3>2. concurrency'[t] = concurrency[t]
      BY <1>1, <1>3, <2>4
    <3>3. QED
      BY <2>2, <3>1, <3>2
  <2>5. QED
    BY <2>3, <2>4
<1>10. QED
  BY <1>8, <1>9 DEF SlotsInv, SlotsAreAccounted

\* Marking executions moves no slot.
LEMMA MarkedKeeps ==
    ASSUME SlotsInv, DOMAIN executing' = DOMAIN executing,
           \A i \in DOMAIN executing : /\ executing'[i] \in Execution
                                       /\ executing'[i].tool = executing[i].tool,
           UNCHANGED <<concurrency, overwritten>>
    PROVE  SlotsInv'
<1>1. \A t : RunningOf(t)' = RunningOf(t)
  BY DEF RunningOf
<1>2. QED
  BY <1>1 DEF SlotsInv, SlotsAreAccounted, GatewayTypes

-----------------------------------------------------------------------------
(* DagExecutor: the order of a plan                                         *)

\* What is left of the round is ready, and what has been completed was.
DagSteps == {"idle", "round", "submit", "complete", "Ok", "deadlock", "refused", "lost"}

OrderKept(e, d) ==
    /\ d \in [step : DagSteps, todo : Seq(ToSet(PlanOf[e])), completed : SUBSET Executable(e)]
    /\ d.step \in {"submit", "complete"} => d.todo # <<>>
    /\ \A n \in ToSet(d.todo) : n.deps \subseteq d.completed
    /\ d.step = "Ok" => d.completed = NodesOf(e)
    /\ d.step = "deadlock" =>
          /\ d.completed = Executable(e)
          /\ Executable(e) = NodesOf(e) => NamesTwice(e)

DagInv ==
    /\ dag = [e \in Executors |-> dag[e]]
    /\ \A e \in Executors : OrderKept(e, dag[e])

GatewayInv == SlotsInv /\ DagInv

\* A node whose dependencies can all run can run.
LEMMA ExecutableGrows ==
    ASSUME NEW e \in Executors, NEW node \in ToSet(PlanOf[e]), node.deps \subseteq Executable(e)
    PROVE  node.id \in Executable(e)
<1>1. PICK n \in DOMAIN PlanOf[e] : node = PlanOf[e][n]
  BY DEF ToSet
<1>2. node.id \in NodesOf(e)
  BY <1>1 DEF NodesOf
<1>3. ASSUME NEW C \in SUBSET NodesOf(e),
             \A k \in DOMAIN PlanOf[e] : PlanOf[e][k].deps \subseteq C => PlanOf[e][k].id \in C
      PROVE  node.id \in C
  <2>1. Executable(e) \subseteq C
    BY <1>3 DEF Executable
  <2>2. QED
    BY <1>1, <1>3, <2>1
<1>4. QED
  BY <1>2, <1>3 DEF Executable

\* The ids of a plan are no more than its nodes, and as many only when none is
\* named twice.
LEMMA PlanLength ==
    ASSUME NEW e \in Executors
    PROVE  /\ IsFiniteSet(NodesOf(e)) /\ Len(PlanOf[e]) \in Nat
           /\ Cardinality(NodesOf(e)) \in Nat /\ Cardinality(NodesOf(e)) <= Len(PlanOf[e])
           /\ ~NamesTwice(e) => Cardinality(NodesOf(e)) = Len(PlanOf[e])
<1> DEFINE p == PlanOf[e]
           ids == [n \in 1..Len(p) |-> p[n].id]
<1>1. p \in Seq(Nodes)
  BY GatewayAssumption
<1>2. DOMAIN p = 1..Len(p) /\ Len(p) \in Nat
  BY <1>1, LenProperties
<1> HIDE DEF p
<1>3. NodesOf(e) = {p[n].id : n \in 1..Len(p)}
  BY <1>2 DEF NodesOf, p
<1>4. ids \in [1..Len(p) -> NodesOf(e)] /\ \A x \in NodesOf(e) : \E n \in 1..Len(p) : ids[n] = x
  BY <1>3
<1>5. ids \in Surjection(1..Len(p), NodesOf(e))
  BY <1>4 DEF Surjection
<1>6. IsFiniteSet(1..Len(p)) /\ Cardinality(1..Len(p)) = Len(p)
  <2> DEFINE k == Len(p)
  <2>1. 1 \in Int /\ k \in Int /\ k \in Nat
    BY <1>2
  <2> HIDE DEF k
  <2>2. IsFiniteSet(1..k) /\ Cardinality(1..k) = IF 1 > k THEN 0 ELSE k - 1 + 1
    BY <2>1, FS_Interval
  <2>3. Cardinality(1..k) = k
    BY <2>1, <2>2
  <2>4. QED
    BY <2>2, <2>3 DEF k
<1>7. IsFiniteSet(NodesOf(e)) /\ Cardinality(NodesOf(e)) <= Len(p)
  BY <1>5, <1>6, FS_Surjection
<1>8. ASSUME ~NamesTwice(e) PROVE Cardinality(NodesOf(e)) = Len(p)
  <2>1. \A m, n \in 1..Len(p) : ids[m] = ids[n] => m = n
    BY <1>2, <1>8 DEF NamesTwice, p
  <2>2. ids \in Injection(1..Len(p), NodesOf(e))
    BY <1>4, <2>1 DEF Injection, IsInjective
  <2>3. QED
    BY <1>5, <1>6, <2>2, FS_Surjection
<1>9. QED
  BY <1>2, <1>7, <1>8, FS_CardinalityType DEF p

\* A round without a ready node has reached all that can be reached.
LEMMA NothingReady ==
    ASSUME NEW e \in Executors, NEW done \in SUBSET Executable(e),
           \A n \in ToSet(PlanOf[e]) : n.deps \subseteq done => n.id \in done
    PROVE  done = Executable(e)
<1>1. done \subseteq NodesOf(e)
  BY DEF Executable
<1>2. \A k \in DOMAIN PlanOf[e] : PlanOf[e][k].deps \subseteq done => PlanOf[e][k].id \in done
  BY DEF ToSet
<1>3. Executable(e) \subseteq done
  BY <1>1, <1>2 DEF Executable
<1>4. QED
  BY <1>3

LEMMA Redirected ==
    ASSUME NEW e, NEW d, OrderKept(e, d), NEW a, NEW t
    PROVE  [d EXCEPT !.step = a, !.todo = t] = [step |-> a, todo |-> t, completed |-> d.completed]
<1> DEFINE f == [d EXCEPT !.step = a]
<1>1. f = [step |-> a, todo |-> d.todo, completed |-> d.completed]
  BY DEF OrderKept
<1>2. [d EXCEPT !.step = a, !.todo = t] = [f EXCEPT !.todo = t]
  OBVIOUS
<1> HIDE DEF f
<1>3. [f EXCEPT !.todo = t] = [step |-> a, todo |-> t, completed |-> d.completed]
  BY <1>1
<1>4. QED
  BY <1>2, <1>3

LEMMA GoesKeeps ==
    ASSUME DagInv, NEW e \in Executors, NEW d, Goes(e, d), OrderKept(e, d)
    PROVE  DagInv'
<1>1. dag' = [dag EXCEPT ![e] = d] /\ dag = [x \in Executors |-> dag[x]]
  BY DEF Goes, DagInv
<1>2. dag' = [x \in Executors |-> dag'[x]] /\ \A x \in Executors : dag'[x] = IF x = e THEN d ELSE dag[x]
  BY <1>1
<1>3. \A x \in Executors : OrderKept(x, dag'[x])
  BY <1>2 DEF DagInv
<1>4. QED
  BY <1>2, <1>3 DEF DagInv, OrderKept, Executable, NodesOf, NamesTwice

\* An answer that says nothing of the order leaves it as it is.
LEMMA AnswerKeeps ==
    ASSUME DagInv, NEW e \in Executors, NEW a \in {"refused", "lost"}, Answers(e, a)
    PROVE  DagInv'
<1> DEFINE d == [dag[e] EXCEPT !.step = a, !.todo = <<>>]
<1>1. OrderKept(e, dag[e])
  BY DEF DagInv
<1>2. d = [step |-> a, todo |-> <<>>, completed |-> dag[e].completed]
  BY <1>1, Redirected
<1>3. <<>> \in Seq(ToSet(PlanOf[e])) /\ ToSet(<<>>) = {}
  BY DEF ToSet
<1>4. OrderKept(e, d)
  BY <1>1, <1>2, <1>3 DEF OrderKept, DagSteps
<1>5. QED
  BY <1>4, GoesKeeps DEF Answers

\* The round: its answers are right, and what it finds ready is.
LEMMA RoundKeeps ==
    ASSUME DagInv, NEW e \in Executors, DagRound(e)
    PROVE  DagInv'
<1> DEFINE done  == dag[e].completed
           met   == {n \in ToSet(PlanOf[e]) : n.id \notin done /\ DependenciesMet(n, done)}
           ready == Retain(PlanOf[e], met)
           S     == ToSet(PlanOf[e])
<1>1. /\ OrderKept(e, dag[e]) /\ done \in SUBSET Executable(e)
      /\ \A a, t : [dag[e] EXCEPT !.step = a, !.todo = t]
                  = [step |-> a, todo |-> t, completed |-> done]
  <2>1. OrderKept(e, dag[e])
    BY DEF DagInv
  <2>2. \A a, t : [dag[e] EXCEPT !.step = a, !.todo = t]
                  = [step |-> a, todo |-> t, completed |-> done]
    BY <2>1, Redirected
  <2>3. QED
    BY <2>1, <2>2 DEF OrderKept
<1>2. Executable(e) \subseteq NodesOf(e)
  BY DEF Executable
<1>3. PlanOf[e] \in Seq(S)
  <2>1. PlanOf[e] \in Seq(Nodes)
    BY GatewayAssumption
  <2>2. QED
    BY <2>1, LenProperties DEF ToSet
<1>4. /\ IsFiniteSet(NodesOf(e)) /\ Len(PlanOf[e]) \in Nat
      /\ Cardinality(NodesOf(e)) \in Nat /\ Cardinality(NodesOf(e)) <= Len(PlanOf[e])
      /\ ~NamesTwice(e) => Cardinality(NodesOf(e)) = Len(PlanOf[e])
  BY PlanLength
<1>5. IsFiniteSet(done) /\ Cardinality(done) \in Nat /\ Cardinality(done) <= Cardinality(NodesOf(e))
  BY <1>1, <1>2, <1>4, FS_Subset, FS_CardinalityType
<1>6. ready \in Seq(S) /\ ToSet(ready) = met
  BY <1>3, RetainType, RetainElements
<1>7. <<>> \in Seq(S) /\ ToSet(<<>>) = {}
  BY DEF ToSet
<1>8. CASE Cardinality(done) >= Len(PlanOf[e])
  <2>1. Answers(e, "Ok")
    BY <1>8 DEF DagRound
  <2>2. Cardinality(done) = Cardinality(NodesOf(e))
    BY <1>4, <1>5, <1>8
  <2>3. done = NodesOf(e)
    BY <1>1, <1>2, <1>4, <2>2, FS_Subset
  <2>4. OrderKept(e, [step |-> "Ok", todo |-> <<>>, completed |-> done])
    BY <1>1, <1>7, <2>3 DEF OrderKept, DagSteps
  <2>5. QED
    BY <1>1, <2>1, <2>4, GoesKeeps DEF Answers
<1>9. CASE ~(Cardinality(done) >= Len(PlanOf[e])) /\ ready = <<>>
  <2>1. Answers(e, "deadlock")
    BY <1>9 DEF DagRound
  <2>2. met = {}
    BY <1>6, <1>7, <1>9
  <2>3. \A n \in ToSet(PlanOf[e]) : n.deps \subseteq done => n.id \in done
    BY <2>2 DEF DependenciesMet
  <2>4. done = Executable(e)
    <3>1. done \in SUBSET Executable(e)
      BY <1>1
    <3> HIDE DEF done
    <3>2. QED
      BY <2>3, <3>1, NothingReady
  <2>5. ASSUME Executable(e) = NodesOf(e) PROVE NamesTwice(e)
    BY <1>4, <1>9, <2>4, <2>5
  <2>6. OrderKept(e, [step |-> "deadlock", todo |-> <<>>, completed |-> done])
    BY <1>1, <1>7, <2>4, <2>5 DEF OrderKept, DagSteps
  <2>7. QED
    BY <1>1, <2>1, <2>6, GoesKeeps DEF Answers
<1>10. CASE ~(Cardinality(done) >= Len(PlanOf[e])) /\ ready # <<>>
  <2>1. Goes(e, [dag[e] EXCEPT !.step = "submit", !.todo = ready])
    BY <1>10 DEF DagRound
  <2>2. \A n \in ToSet(ready) : n.deps \subseteq done
    BY <1>6 DEF DependenciesMet
  <2> HIDE DEF ready
  <2>3. OrderKept(e, [step |-> "submit", todo |-> ready, completed |-> done])
    BY <1>1, <1>6, <1>10, <2>2 DEF OrderKept, DagSteps
  <2>4. QED
    BY <1>1, <2>1, <2>3, GoesKeeps
<1>11. QED
  BY <1>8, <1>9, <1>10

\* What is at the head of a sequence, and what is left of it.
LEMMA HeadAndTail ==
    ASSUME NEW S, NEW s \in Seq(S), s # <<>>
    PROVE  /\ Head(s) \in ToSet(s) /\ Head(s) \in S
           /\ Tail(s) \in Seq(S) /\ ToSet(Tail(s)) \subseteq ToSet(s)
<1>1. /\ DOMAIN s = 1..Len(s) /\ Len(s) \in Nat /\ Len(s) > 0
      /\ Head(s) = s[1] /\ Head(s) \in S
      /\ Tail(s) \in Seq(S) /\ Len(Tail(s)) = Len(s) - 1
      /\ \A n \in 1..Len(Tail(s)) : Tail(s)[n] = s[n + 1]
  BY LenProperties, EmptySeq, HeadTailProperties
<1>2. DOMAIN Tail(s) = 1..Len(Tail(s))
  BY <1>1, LenProperties
<1> DEFINE t == Tail(s)
<1> HIDE DEF t
<1>3. \A n \in 1..Len(t) : t[n] = s[n + 1] /\ n + 1 \in 1..Len(s)
  BY <1>1 DEF t
<1>4. QED
  BY <1>1, <1>2, <1>3 DEF ToSet, t

\* The node a round is about: of the plan, and with its dependencies met.
LEMMA NodeAtHand ==
    ASSUME DagInv, NEW e \in Executors, dag[e].step \in {"submit", "complete"}
    PROVE  LET node == Head(dag[e].todo)
               rest == Tail(dag[e].todo) IN
           /\ node \in ToSet(PlanOf[e]) /\ node \in Nodes
           /\ node.deps \subseteq dag[e].completed
           /\ rest \in Seq(ToSet(PlanOf[e]))
           /\ \A n \in ToSet(rest) : n.deps \subseteq dag[e].completed
<1>1. /\ dag[e].todo \in Seq(ToSet(PlanOf[e])) /\ dag[e].todo # <<>>
      /\ \A n \in ToSet(dag[e].todo) : n.deps \subseteq dag[e].completed
  BY DEF DagInv, OrderKept
<1>2. ToSet(PlanOf[e]) \subseteq Nodes
  <2>1. PlanOf[e] \in Seq(Nodes)
    BY GatewayAssumption
  <2>2. QED
    BY <2>1, SeqElements
<1>3. QED
  BY <1>1, <1>2, HeadAndTail

LEMMA SubmitKeeps ==
    ASSUME GatewayInv, NEW e \in Executors, DagSubmit(e)
    PROVE  GatewayInv'
<1> DEFINE node == Head(dag[e].todo)
           d    == [dag[e] EXCEPT !.step = "complete"]
<1>1. SlotsInv /\ DagInv /\ OrderKept(e, dag[e])
  BY DEF GatewayInv, DagInv
<1>2. node \in Nodes
  BY <1>1, NodeAtHand DEF DagSubmit
<1>3. node.id \in ExecutionIds /\ node.tool \in Tools
  BY <1>2 DEF Nodes
<1>4. CASE Accepts(node.tool)
  <2>1. Submitted(node.id, node.tool) /\ Goes(e, d)
    BY <1>4 DEF DagSubmit
  <2>2. SlotsInv'
    <3> HIDE DEF node
    <3>1. QED
      BY <1>1, <1>3, <1>4, <2>1, SubmittedKeeps
  <2>3. OrderKept(e, d)
    <3>1. d = [step |-> "complete", todo |-> dag[e].todo, completed |-> dag[e].completed]
      BY <1>1 DEF OrderKept
    <3>2. dag[e].todo # <<>>
      BY <1>1 DEF OrderKept, DagSubmit
    <3>3. QED
      BY <1>1, <3>1, <3>2 DEF OrderKept, DagSteps
  <2>4. DagInv'
    BY <1>1, <2>1, <2>3, GoesKeeps
  <2>5. QED
    BY <2>2, <2>4 DEF GatewayInv
<1>5. CASE ~Accepts(node.tool)
  <2>1. Answers(e, "refused") /\ UNCHANGED <<executing, concurrency, overwritten>>
    BY <1>5 DEF DagSubmit
  <2>2. DagInv'
    BY <1>1, <2>1, AnswerKeeps
  <2>3. SlotsInv'
    BY <1>1, <2>1 DEF SlotsInv, GatewayTypes, SlotsAreAccounted, RunningOf
  <2>4. QED
    BY <2>2, <2>3 DEF GatewayInv
<1>6. QED
  BY <1>4, <1>5

LEMMA CompleteKeeps ==
    ASSUME GatewayInv, NEW e \in Executors, DagComplete(e)
    PROVE  GatewayInv'
<1> DEFINE node == Head(dag[e].todo)
           rest == Tail(dag[e].todo)
           done == dag[e].completed
           d    == [step |-> IF rest = <<>> THEN "round" ELSE "submit", todo |-> rest,
                    completed |-> done \cup {node.id}]
<1>1. SlotsInv /\ DagInv /\ OrderKept(e, dag[e]) /\ overwritten' = overwritten
  BY DEF GatewayInv, DagInv, DagComplete
<1>2. /\ node \in ToSet(PlanOf[e]) /\ node \in Nodes /\ node.deps \subseteq done
      /\ rest \in Seq(ToSet(PlanOf[e])) /\ \A n \in ToSet(rest) : n.deps \subseteq done
  BY <1>1, NodeAtHand DEF DagComplete
<1>3. done \subseteq Executable(e)
  BY <1>1 DEF OrderKept
<1>4. node.id \in Executable(e)
  <2> HIDE DEF node, done
  <2>1. node.deps \subseteq Executable(e)
    BY <1>2, <1>3
  <2>2. QED
    BY <1>2, <2>1, ExecutableGrows
<1>5. CASE node.id \in DOMAIN executing
  <2>1. Completed(node.id) /\ Goes(e, d)
    BY <1>5 DEF DagComplete
  <2>2. SlotsInv'
    <3> HIDE DEF node
    <3>1. QED
      BY <1>1, <1>5, <2>1, CompletedKeeps
  <2>3. OrderKept(e, d)
    <3> HIDE DEF node, rest, done
    <3>1. QED
      BY <1>2, <1>3, <1>4 DEF OrderKept, DagSteps
  <2>4. DagInv'
    BY <1>1, <2>1, <2>3, GoesKeeps
  <2>5. QED
    BY <2>2, <2>4 DEF GatewayInv
<1>6. CASE node.id \notin DOMAIN executing
  <2>1. Answers(e, "lost") /\ UNCHANGED <<executing, concurrency, history>>
    BY <1>6 DEF DagComplete
  <2>2. DagInv'
    BY <1>1, <2>1, AnswerKeeps
  <2>3. SlotsInv'
    BY <1>1, <2>1 DEF SlotsInv, GatewayTypes, SlotsAreAccounted, RunningOf
  <2>4. QED
    BY <2>2, <2>3 DEF GatewayInv
<1>7. QED
  BY <1>5, <1>6

LEMMA BeginKeeps ==
    ASSUME GatewayInv, NEW e \in Executors, DagBegin(e)
    PROVE  GatewayInv'
<1> DEFINE d == [dag[e] EXCEPT !.step = "round"]
<1>1. SlotsInv /\ DagInv /\ OrderKept(e, dag[e]) /\ Goes(e, d)
  BY DEF GatewayInv, DagInv, DagBegin
<1>2. d = [step |-> "round", todo |-> dag[e].todo, completed |-> dag[e].completed]
  BY <1>1 DEF OrderKept
<1>3. OrderKept(e, d)
  BY <1>1, <1>2 DEF OrderKept, DagSteps
<1>4. SlotsInv'
  BY <1>1 DEF DagBegin, SlotsInv, GatewayTypes, SlotsAreAccounted, RunningOf
<1>5. QED
  BY <1>1, <1>3, <1>4, GoesKeeps DEF GatewayInv

LEMMA GatewayInitial == GatewayInit => GatewayInv
<1> SUFFICES ASSUME GatewayInit PROVE GatewayInv
  OBVIOUS
<1>1. /\ executing = [i \in {} |-> 0] /\ concurrency = [t \in Tools |-> 0]
      /\ overwritten = [t \in Tools |-> 0]
      /\ dag = [e \in Executors |-> [step |-> "idle", todo |-> <<>>, completed |-> {}]]
  BY DEF GatewayInit
<1>2. SlotsInv
  <2>1. DOMAIN executing = {} /\ \A t : RunningOf(t) = {}
    BY <1>1 DEF RunningOf
  <2>2. IsFiniteSet({}) /\ Cardinality({}) = 0
    BY FS_EmptySet
  <2>3. GatewayTypes
    BY <1>1, <2>1, <2>2 DEF GatewayTypes
  <2>4. \A t \in Tools : /\ concurrency[t] = 0 /\ overwritten[t] = 0
                        /\ Cardinality(RunningOf(t)) = 0
    BY <1>1, <2>1, <2>2
  <2>5. 0 = 0 + 0 /\ 0 <= MaxPerTool
    BY GatewayAssumption
  <2>6. QED
    BY <2>3, <2>4, <2>5 DEF SlotsInv, SlotsAreAccounted
<1>3. DagInv
  <2>1. \A e \in Executors : <<>> \in Seq(ToSet(PlanOf[e])) /\ ToSet(<<>>) = {}
    BY DEF ToSet
  <2>2. QED
    BY <1>1, <2>1 DEF DagInv, OrderKept, DagSteps
<1>4. QED
  BY <1>2, <1>3 DEF GatewayInv

LEMMA GatewayStep == GatewayInv /\ [GatewayNext]_gatewayVars => GatewayInv'
<1> SUFFICES ASSUME GatewayInv, [GatewayNext]_gatewayVars PROVE GatewayInv'
  OBVIOUS
<1>1. SlotsInv /\ DagInv /\ GatewayTypes
  BY DEF GatewayInv, SlotsInv
<1>2. ASSUME dag' = dag PROVE DagInv'
  BY <1>1, <1>2 DEF DagInv, OrderKept, Executable, NodesOf, NamesTwice
<1>3. ASSUME NEW i \in ExecutionIds, NEW t \in Tools, Submit(i, t) PROVE GatewayInv'
  BY <1>1, <1>2, <1>3, SubmittedKeeps DEF Submit, GatewayInv
<1>4. ASSUME NEW i \in ExecutionIds, Complete(i) PROVE GatewayInv'
  BY <1>1, <1>2, <1>4, CompletedKeeps DEF Complete, GatewayInv
<1>5. ASSUME NEW i \in ExecutionIds, TimeoutElapses(i) PROVE GatewayInv'
  <2>1. /\ DOMAIN executing' = DOMAIN executing
        /\ \A j \in DOMAIN executing : executing'[j] =
              IF j = i THEN [executing[j] EXCEPT !.old = TRUE] ELSE executing[j]
    BY <1>5 DEF TimeoutElapses
  <2>2. \A j \in DOMAIN executing : /\ executing'[j] \in Execution
                                    /\ executing'[j].tool = executing[j].tool
    BY <1>1, <2>1 DEF GatewayTypes, Execution
  <2>3. SlotsInv'
    BY <1>1, <1>5, <2>1, <2>2, MarkedKeeps DEF TimeoutElapses
  <2>4. QED
    BY <1>2, <1>5, <2>3 DEF TimeoutElapses, GatewayInv
<1>6. ASSUME CheckTimeouts PROVE GatewayInv'
  <2>1. /\ DOMAIN executing' = DOMAIN executing
        /\ \A j \in DOMAIN executing : executing'[j] =
              IF executing[j].old THEN [executing[j] EXCEPT !.status = "Timeout"]
                                  ELSE executing[j]
    BY <1>6 DEF CheckTimeouts
  <2>2. \A j \in DOMAIN executing : /\ executing'[j] \in Execution
                                    /\ executing'[j].tool = executing[j].tool
    BY <1>1, <2>1 DEF GatewayTypes, Execution
  <2>3. SlotsInv'
    BY <1>1, <1>6, <2>1, <2>2, MarkedKeeps DEF CheckTimeouts
  <2>4. QED
    BY <1>2, <1>6, <2>3 DEF CheckTimeouts, GatewayInv
<1>7. ASSUME NEW e \in Executors, DagBegin(e) PROVE GatewayInv'
  BY <1>7, BeginKeeps
<1>8. ASSUME NEW e \in Executors, DagStep(e) PROVE GatewayInv'
  <2>1. CASE DagRound(e)
    <3>1. SlotsInv'
      BY <1>1, <2>1 DEF DagRound, SlotsInv, GatewayTypes, SlotsAreAccounted, RunningOf
    <3>2. QED
      BY <1>1, <2>1, <3>1, RoundKeeps DEF GatewayInv
  <2>2. CASE DagSubmit(e)
    BY <2>2, SubmitKeeps
  <2>3. CASE DagComplete(e)
    BY <2>3, CompleteKeeps
  <2>4. QED
    BY <1>8, <2>1, <2>2, <2>3 DEF DagStep
<1>9. CASE UNCHANGED gatewayVars
  <2>1. SlotsInv'
    BY <1>1, <1>9 DEF gatewayVars, SlotsInv, GatewayTypes, SlotsAreAccounted, RunningOf
  <2>2. QED
    BY <1>2, <1>9, <2>1 DEF gatewayVars, GatewayInv
<1>10. QED
  BY <1>3, <1>4, <1>5, <1>6, <1>7, <1>8, <1>9 DEF GatewayNext

\* Whatever callers and executors interleave, also with ids that are in use and
\* with timeouts: the count of a tool is that of its executions, and of those that
\* were submitted over; and a plan of any shape runs in an order its dependencies
\* allow, ends well only when all of it ran, and is called a deadlock only when
\* no more of it can run (ToolGateway and DagExecutor, tool_gateway.rs).
THEOREM ToolsRunInOrder == GatewaySpec => []GatewayIsOrderly
<1>1. GatewayInv => GatewayIsOrderly
  BY DEF GatewayInv, SlotsInv, DagInv, OrderKept, GatewayIsOrderly, PlansRunInOrder
<1>2. QED
  BY GatewayInitial, GatewayStep, <1>1, PTL DEF GatewaySpec

-----------------------------------------------------------------------------
(* EnhancementPipeline: counting the jobs in the channel                    *)

PlacesIn(s, K) == {n \in DOMAIN s : s[n] \in K}

LEMMA PlacesInFinite ==
    ASSUME NEW S, NEW s \in Seq(S), NEW K
    PROVE  IsFiniteSet(PlacesIn(s, K)) /\ Cardinality(PlacesIn(s, K)) \in Nat
<1>1. IsFiniteSet(1..Len(s)) /\ DOMAIN s = 1..Len(s)
  BY FS_Interval, LenProperties
<1>2. IsFiniteSet(PlacesIn(s, K))
  BY <1>1, FS_Subset DEF PlacesIn
<1>3. QED
  BY <1>2, FS_CardinalityType

\* What joins the end of a sequence counts for one,
LEMMA PlacesInAppend ==
    ASSUME NEW S, NEW s \in Seq(S), NEW x \in S, NEW K
    PROVE  Cardinality(PlacesIn(Append(s, x), K)) =
               Cardinality(PlacesIn(s, K)) + (IF x \in K THEN 1 ELSE 0)
<1>1. /\ Len(s) \in Nat
      /\ DOMAIN Append(s, x) = 1..(Len(s) + 1) /\ DOMAIN s = 1..Len(s)
      /\ Append(s, x)[Len(s) + 1] = x
      /\ \A n \in 1..Len(s) : Append(s, x)[n] = s[n]
  BY AppendProperties, LenProperties
<1>2. PlacesIn(Append(s, x), K) =
        IF x \in K THEN PlacesIn(s, K) \cup {Len(s) + 1} ELSE PlacesIn(s, K)
  BY <1>1 DEF PlacesIn
<1>3. Len(s) + 1 \notin PlacesIn(s, K)
  BY <1>1 DEF PlacesIn
<1>4. IsFiniteSet(PlacesIn(s, K)) /\ Cardinality(PlacesIn(s, K)) \in Nat
  BY PlacesInFinite
<1>5. Cardinality(PlacesIn(s, K) \cup {Len(s) + 1}) = Cardinality(PlacesIn(s, K)) + 1
  BY <1>3, <1>4, FS_AddElement
<1>6. CASE x \in K
  BY <1>2, <1>5, <1>6
<1>7. CASE x \notin K
  BY <1>2, <1>4, <1>7
<1>8. QED
  BY <1>6, <1>7

\* and so does what leaves its head.
LEMMA PlacesInTail ==
    ASSUME NEW S, NEW s \in Seq(S), s # <<>>, NEW K
    PROVE  Cardinality(PlacesIn(s, K)) =
               Cardinality(PlacesIn(Tail(s), K)) + (IF Head(s) \in K THEN 1 ELSE 0)
<1> DEFINE t == Tail(s)
           A == PlacesIn(s, K) \ {1}
           f == [n \in A |-> n - 1]
<1>1. /\ DOMAIN s = 1..Len(s) /\ Len(s) \in Nat /\ Len(s) > 0
      /\ Head(s) = s[1]
      /\ t \in Seq(S) /\ Len(t) = Len(s) - 1
      /\ \A n \in 1..Len(t) : t[n] = s[n + 1]
  BY LenProperties, EmptySeq, HeadTailProperties
<1>2. DOMAIN t = 1..Len(t)
  BY <1>1, LenProperties
<1> HIDE DEF t
<1>3. \A n \in 1..Len(t) : n + 1 \in 2..Len(s) /\ t[n] = s[n + 1]
  BY <1>1
<1>4. \A n \in 2..Len(s) : n - 1 \in 1..Len(t) /\ t[n - 1] = s[n]
  <2>1. ASSUME NEW n \in 2..Len(s) PROVE n - 1 \in 1..Len(t) /\ n - 1 + 1 = n
    BY <1>1
  <2>2. QED
    BY <1>1, <2>1
<1>5. A = {n \in 2..Len(s) : s[n] \in K}
  BY <1>1 DEF PlacesIn
<1>6. PlacesIn(t, K) = {n \in 1..Len(t) : t[n] \in K}
  BY <1>2 DEF PlacesIn
<1>7. f \in Bijection(A, PlacesIn(t, K))
  <2>1. \A n \in A : n \in Int /\ f[n] = n - 1 /\ f[n] \in PlacesIn(t, K)
    BY <1>4, <1>5, <1>6
  <2>2. \A m, n \in A : f[m] = f[n] => m = n
    BY <2>1
  <2>3. ASSUME NEW k \in PlacesIn(t, K) PROVE \E n \in A : f[n] = k
    <3>1. k + 1 \in A /\ k \in Int
      BY <1>3, <1>5, <1>6
    <3>2. f[k + 1] = k
      BY <2>1, <3>1
    <3>3. QED
      BY <3>1, <3>2
  <2>4. f \in [A -> PlacesIn(t, K)]
    BY <2>1
  <2>5. QED
    BY <2>2, <2>3, <2>4 DEF Bijection, Injection, Surjection, IsInjective
<1>8. IsFiniteSet(PlacesIn(s, K)) /\ Cardinality(PlacesIn(s, K)) \in Nat
  BY PlacesInFinite
<1>9. IsFiniteSet(A)
  BY <1>8, FS_Subset
<1>10. Cardinality(A) = Cardinality(PlacesIn(t, K))
  BY <1>7, <1>9, FS_Bijection DEF ExistsBijection
<1>11. 1 \in PlacesIn(s, K) <=> Head(s) \in K
  BY <1>1 DEF PlacesIn
<1>12. Cardinality(A) = IF 1 \in PlacesIn(s, K) THEN Cardinality(PlacesIn(s, K)) - 1
                       ELSE Cardinality(PlacesIn(s, K))
  BY <1>8, FS_RemoveElement
<1>13. QED
  <2> DEFINE c == Cardinality(PlacesIn(s, K))
             d == Cardinality(PlacesIn(t, K))
  <2>1. c \in Nat /\ d = IF Head(s) \in K THEN c - 1 ELSE c
    BY <1>8, <1>10, <1>11, <1>12
  <2> HIDE DEF c, d
  <2>2. c = d + (IF Head(s) \in K THEN 1 ELSE 0)
    BY <2>1
  <2>3. QED
    BY <2>2 DEF c, d, t

-----------------------------------------------------------------------------
(* EnhancementPipeline: one job for each event                              *)

Jobs == [shutdown : {FALSE}, event : Events, attempts : Nat, most : Nat]
JobsOf(e) == {j \in Jobs : j.event = e}

PipelineTypes ==
    /\ queue \in Seq(Jobs \cup {Shutdown})
    /\ \/ worker = Idle \/ worker = [step |-> "gone"]
       \/ worker \in [step : {"running", "resend"}, job : Jobs]
    /\ writer = [w \in Writers |-> writer[w]]
    /\ \A w \in Writers : \/ writer[w] = Idle
                          \/ /\ writer[w] \in [step : {"enqueue", "send"}, event : Events, most : Nat]
                             /\ writer[w].event \in base
    /\ persisted \in [Events -> Nat] /\ rolledBack \in [Events -> Nat]
    /\ DOMAIN status \subseteq Events /\ base \subseteq Events

InQueue(e) == Cardinality(PlacesIn(queue, JobsOf(e)))
SendersOf(e) == {w \in Writers : writer[w].step = "send" /\ writer[w].event = e}
Sending(e) == Cardinality(SendersOf(e))
AtWork(e) == IF worker.step \in {"running", "resend"} /\ worker.job.event = e THEN 1 ELSE 0
Is(e) == IF e \in DOMAIN status THEN status[e].is ELSE "none"
Unsettled(e) == IF Is(e) \in Settled \cup {"none"} THEN 0 ELSE 1

\* What became of an event: where its job is, and what was done outside.
EventInv(e) ==
    /\ IsFiniteSet(SendersOf(e))
    /\ InQueue(e) + Sending(e) + AtWork(e) = Unsettled(e)
    /\ persisted[e] = IF Is(e) = "Succeeded" THEN 1 ELSE 0
    /\ rolledBack[e] = IF Is(e) = "RolledBack" THEN 1 ELSE 0
    /\ Is(e) # "none" => e \in base

PipelineInv == PipelineTypes /\ \A e \in Events : EventInv(e)

LEMMA HoldersAre ==
    ASSUME PipelineTypes, NEW e
    PROVE  Holders(e) = InQueue(e) + Sending(e) + AtWork(e)
<1>1. DOMAIN queue = 1..Len(queue) /\ \A n \in DOMAIN queue : queue[n] \in Jobs \cup {Shutdown}
  BY LenProperties, ElementOfSeq DEF PipelineTypes
<1>2. Shutdown.shutdown = TRUE /\ \A j \in Jobs : j.shutdown = FALSE
  BY DEF Shutdown, Jobs
<1>3. \A n \in DOMAIN queue : (~queue[n].shutdown /\ queue[n].event = e) <=> queue[n] \in JobsOf(e)
  BY <1>1, <1>2 DEF JobsOf
<1>4. {n \in DOMAIN queue : ~queue[n].shutdown /\ queue[n].event = e} = PlacesIn(queue, JobsOf(e))
  BY <1>3 DEF PlacesIn
<1>5. QED
  BY <1>4 DEF Holders, InQueue, Sending, SendersOf, AtWork

LEMMA PipelineCounts ==
    ASSUME PipelineInv, NEW e \in Events
    PROVE  /\ InQueue(e) \in Nat /\ Sending(e) \in Nat /\ AtWork(e) \in {0, 1}
           /\ Unsettled(e) \in {0, 1} /\ EventInv(e)
           /\ InQueue(e) + Sending(e) + AtWork(e) = Unsettled(e)
<1>1. PipelineTypes /\ EventInv(e)
  BY DEF PipelineInv
<1>2. InQueue(e) \in Nat
  BY <1>1, PlacesInFinite DEF PipelineTypes, InQueue
<1>3. Sending(e) \in Nat
  BY <1>1, FS_CardinalityType DEF EventInv, Sending
<1>4. QED
  BY <1>1, <1>2, <1>3 DEF EventInv, AtWork, Unsettled

LEMMA JobQueued ==
    ASSUME queue \in Seq(Jobs \cup {Shutdown}), NEW j \in Jobs \cup {Shutdown},
           queue' = Append(queue, j), NEW x
    PROVE  InQueue(x)' = InQueue(x) + (IF j \in JobsOf(x) THEN 1 ELSE 0)
<1>1. Cardinality(PlacesIn(Append(queue, j), JobsOf(x))) =
        Cardinality(PlacesIn(queue, JobsOf(x))) + (IF j \in JobsOf(x) THEN 1 ELSE 0)
  BY PlacesInAppend
<1>2. InQueue(x)' = Cardinality(PlacesIn(Append(queue, j), JobsOf(x)))
  BY DEF InQueue
<1>3. QED
  BY <1>1, <1>2 DEF InQueue

LEMMA BecomesIs ==
    ASSUME NEW e, NEW is, NEW n, Becomes(e, is, n)
    PROVE  /\ DOMAIN status' = DOMAIN status \cup {e}
           /\ \A x : Is(x)' = IF x = e THEN is ELSE Is(x)
BY DEF Becomes, Is

\* Writers come and go between sending.
LEMMA WritersKeep ==
    ASSUME PipelineInv, PipelineTypes', base \subseteq base',
           \A e : SendersOf(e)' = SendersOf(e),
           UNCHANGED <<status, queue, worker, persisted, rolledBack>>
    PROVE  PipelineInv'
BY DEF PipelineInv, EventInv, InQueue, Sending, AtWork, Unsettled, Is

LEMMA WriteBaseKeeps ==
    ASSUME PipelineInv, NEW w \in Writers, NEW e \in Events, NEW most \in RetryBudgets,
           WriteBase(w, e, most)
    PROVE  PipelineInv'
<1>1. PipelineTypes /\ most \in Nat /\ writer[w] = Idle
  BY PipelineAssumption DEF PipelineInv, WriteBase
<1> DEFINE r == [step |-> "enqueue", event |-> e, most |-> most]
<1>2. CASE base' = base \cup {e} /\ writer' = [writer EXCEPT ![w] = r]
  <2>1. /\ writer' = [v \in Writers |-> writer'[v]]
        /\ \A v \in Writers : writer'[v] = IF v = w THEN r ELSE writer[v]
    BY <1>1, <1>2 DEF PipelineTypes
  <2>2. PipelineTypes'
    <3>1. r \in [step : {"enqueue", "send"}, event : Events, most : Nat] /\ r.event \in base'
      BY <1>1, <1>2
    <3> HIDE DEF r
    <3>2. \A v \in Writers : \/ writer'[v] = Idle
                            \/ /\ writer'[v] \in [step : {"enqueue", "send"}, event : Events, most : Nat]
                               /\ writer'[v].event \in base'
      BY <1>1, <1>2, <2>1, <3>1 DEF PipelineTypes
    <3>3. QED
      BY <1>1, <1>2, <2>1, <3>2 DEF PipelineTypes, WriteBase
  <2>3. ASSUME NEW x PROVE SendersOf(x)' = SendersOf(x)
    <3>1. r.step # "send" /\ Idle.step # "send"
      BY DEF Idle
    <3> HIDE DEF r
    <3>2. QED
      BY <1>1, <2>1, <3>1 DEF SendersOf
  <2>4. QED
    BY <1>2, <2>2, <2>3, WritersKeep DEF WriteBase
<1>3. CASE UNCHANGED <<base, writer>>
  BY <1>1, <1>3, WritersKeep DEF WriteBase, PipelineTypes, SendersOf
<1>4. QED
  BY <1>2, <1>3 DEF WriteBase

\* A writer that is done with one event.
LEMMA WriterIdles ==
    ASSUME PipelineTypes, NEW w \in Writers, writer' = [writer EXCEPT ![w] = Idle]
    PROVE  /\ writer' = [v \in Writers |-> writer'[v]]
           /\ \A v \in Writers : writer'[v] = IF v = w THEN Idle ELSE writer[v]
           /\ \A e : SendersOf(e)' = SendersOf(e) \ {w}
<1>1. /\ writer' = [v \in Writers |-> writer'[v]]
      /\ \A v \in Writers : writer'[v] = IF v = w THEN Idle ELSE writer[v]
  BY DEF PipelineTypes
<1>2. Idle.step # "send"
  BY DEF Idle
<1>3. QED
  BY <1>1, <1>2 DEF SendersOf

LEMMA EnqueueRefusedKeeps ==
    ASSUME PipelineInv, NEW w \in Writers, EnqueueRefused(w)
    PROVE  PipelineInv'
<1>1. PipelineTypes /\ writer[w].step = "enqueue" /\ writer' = [writer EXCEPT ![w] = Idle]
  BY DEF PipelineInv, EnqueueRefused
<1>2. PipelineTypes'
  BY <1>1, WriterIdles DEF PipelineTypes, EnqueueRefused
<1>3. \A e : SendersOf(e)' = SendersOf(e)
  <2>1. \A e : SendersOf(e) \ {w} = SendersOf(e)
    BY <1>1 DEF SendersOf
  <2>2. QED
    BY <1>1, <2>1, WriterIdles
<1>4. QED
  BY <1>2, <1>3, WritersKeep DEF EnqueueRefused

\* A writer that goes on to send: its event had no status, so no job.
LEMMA EnqueueMarkKeeps ==
    ASSUME PipelineInv, NEW w \in Writers, EnqueueMark(w)
    PROVE  PipelineInv'
<1> DEFINE e == writer[w].event
           r == [writer[w] EXCEPT !.step = "send"]
<1>1. /\ PipelineTypes /\ writer[w].step = "enqueue" /\ e \notin DOMAIN status
      /\ Becomes(e, "Pending", 0) /\ writer' = [writer EXCEPT ![w] = r]
      /\ UNCHANGED <<queue, worker, base, persisted, rolledBack>>
  BY DEF PipelineInv, EnqueueMark, Refused
<1>2. /\ writer[w] \in [step : {"enqueue", "send"}, event : Events, most : Nat]
      /\ e \in base /\ e \in Events
  BY <1>1 DEF PipelineTypes, Idle
<1>3. /\ writer' = [v \in Writers |-> writer'[v]]
      /\ \A v \in Writers : writer'[v] = IF v = w THEN r ELSE writer[v]
  BY <1>1 DEF PipelineTypes
<1>4. /\ r \in [step : {"enqueue", "send"}, event : Events, most : Nat]
      /\ r.event = e /\ r.step = "send"
  BY <1>2
<1>5. /\ DOMAIN status' = DOMAIN status \cup {e}
      /\ \A x : Is(x)' = IF x = e THEN "Pending" ELSE Is(x)
  BY <1>1, BecomesIs
<1>6. Is(e) = "none"
  BY <1>1 DEF Is
<1> HIDE DEF r, e
<1>7. PipelineTypes'
  <2>1. \A v \in Writers : \/ writer'[v] = Idle
                          \/ /\ writer'[v] \in [step : {"enqueue", "send"}, event : Events, most : Nat]
                             /\ writer'[v].event \in base'
    BY <1>1, <1>2, <1>3, <1>4 DEF PipelineTypes
  <2>2. QED
    BY <1>1, <1>2, <1>3, <1>5, <2>1 DEF PipelineTypes
<1>8. \A x : SendersOf(x)' = (IF x = e THEN SendersOf(x) \cup {w} ELSE SendersOf(x)) /\ w \notin SendersOf(x)
  BY <1>1, <1>3, <1>4 DEF SendersOf
<1>9. ASSUME NEW x \in Events PROVE EventInv(x)'
  <2>1. /\ InQueue(x) \in Nat /\ Sending(x) \in Nat /\ AtWork(x) \in {0, 1}
        /\ EventInv(x) /\ InQueue(x) + Sending(x) + AtWork(x) = Unsettled(x)
    BY PipelineCounts
  <2>2. InQueue(x)' = InQueue(x) /\ AtWork(x)' = AtWork(x)
    BY <1>1 DEF InQueue, AtWork
  <2>3. CASE x = e
    <3>1. Unsettled(x) = 0 /\ Unsettled(x)' = 1
      BY <1>5, <1>6, <2>3 DEF Unsettled, Settled
    <3>2. IsFiniteSet(SendersOf(x)') /\ Sending(x)' = Sending(x) + 1
      BY <1>8, <2>1, <2>3, FS_AddElement DEF EventInv, Sending
    <3>3. InQueue(x)' + Sending(x)' + AtWork(x)' = Unsettled(x)'
      BY <2>1, <2>2, <3>1, <3>2
    <3>4. /\ persisted'[x] = IF Is(x)' = "Succeeded" THEN 1 ELSE 0
          /\ rolledBack'[x] = IF Is(x)' = "RolledBack" THEN 1 ELSE 0
          /\ x \in base'
      BY <1>1, <1>2, <1>5, <1>6, <2>1, <2>3 DEF EventInv
    <3>5. QED
      BY <3>2, <3>3, <3>4 DEF EventInv
  <2>4. CASE x # e
    <3>1. SendersOf(x)' = SendersOf(x) /\ Is(x)' = Is(x)
      BY <1>5, <1>8, <2>4
    <3>2. QED
      BY <1>1, <2>1, <2>2, <3>1 DEF EventInv, Sending, Unsettled
  <2>5. QED
    BY <2>3, <2>4
<1>10. QED
  BY <1>7, <1>9 DEF PipelineInv

\* The job passes from the writer to the channel.
LEMMA EnqueueSendKeeps ==
    ASSUME PipelineInv, NEW w \in Writers, EnqueueSend(w)
    PROVE  PipelineInv'
<1> DEFINE e == writer[w].event
           j == Job(e, 0, writer[w].most)
<1>1. /\ PipelineTypes /\ writer[w].step = "send"
      /\ queue' = Append(queue, j) /\ writer' = [writer EXCEPT ![w] = Idle]
      /\ UNCHANGED <<status, worker, base, persisted, rolledBack>>
  BY DEF PipelineInv, EnqueueSend
<1>2. writer[w] \in [step : {"enqueue", "send"}, event : Events, most : Nat]
  BY <1>1 DEF PipelineTypes, Idle
<1>3. j \in Jobs /\ j.event = e
  BY <1>2 DEF Jobs, Job
<1>4. /\ writer' = [v \in Writers |-> writer'[v]]
      /\ \A v \in Writers : writer'[v] = IF v = w THEN Idle ELSE writer[v]
      /\ \A x : SendersOf(x)' = SendersOf(x) \ {w}
  BY <1>1, WriterIdles
<1>5. \A x : w \in SendersOf(x) <=> x = e
  BY <1>1 DEF SendersOf
<1> HIDE DEF e, j
<1>6. PipelineTypes'
  <2>1. queue' \in Seq(Jobs \cup {Shutdown})
    BY <1>1, <1>3, AppendProperties DEF PipelineTypes
  <2>2. QED
    BY <1>1, <1>4, <2>1 DEF PipelineTypes
<1>7. ASSUME NEW x \in Events PROVE EventInv(x)'
  <2>1. /\ InQueue(x) \in Nat /\ Sending(x) \in Nat /\ AtWork(x) \in {0, 1}
        /\ EventInv(x) /\ InQueue(x) + Sending(x) + AtWork(x) = Unsettled(x)
    BY PipelineCounts
  <2>2. AtWork(x)' = AtWork(x) /\ Is(x)' = Is(x) /\ Unsettled(x)' = Unsettled(x)
    BY <1>1 DEF AtWork, Is, Unsettled
  <2>3. InQueue(x)' = InQueue(x) + (IF j \in JobsOf(x) THEN 1 ELSE 0)
    <3>1. queue \in Seq(Jobs \cup {Shutdown}) /\ j \in Jobs \cup {Shutdown}
      BY <1>1, <1>3 DEF PipelineTypes
    <3>2. QED
      BY <1>1, <3>1, JobQueued
  <2>4. j \in JobsOf(x) <=> x = e
    BY <1>3 DEF JobsOf
  <2>5. /\ IsFiniteSet(SendersOf(x)')
        /\ Sending(x)' = IF w \in SendersOf(x) THEN Sending(x) - 1 ELSE Sending(x)
    BY <1>4, <2>1, FS_RemoveElement DEF EventInv, Sending
  <2>6. InQueue(x)' + Sending(x)' + AtWork(x)' = Unsettled(x)'
    BY <1>5, <2>1, <2>2, <2>3, <2>4, <2>5
  <2>7. QED
    BY <1>1, <2>1, <2>2, <2>5, <2>6 DEF EventInv
<1>8. QED
  BY <1>6, <1>7 DEF PipelineInv

LEMMA DropKeeps ==
    ASSUME PipelineInv, DropPipeline
    PROVE  PipelineInv'
<1>1. /\ PipelineTypes /\ queue' = Append(queue, Shutdown)
      /\ UNCHANGED <<status, worker, writer, base, persisted, rolledBack>>
  BY DEF PipelineInv, DropPipeline
<1>2. PipelineTypes'
  <2>1. queue' \in Seq(Jobs \cup {Shutdown})
    BY <1>1, AppendProperties DEF PipelineTypes
  <2>2. QED
    BY <1>1, <2>1 DEF PipelineTypes
<1>3. ASSUME NEW x \in Events PROVE EventInv(x)'
  <2>1. EventInv(x) /\ InQueue(x) \in Nat
    BY PipelineCounts
  <2>2. Shutdown \notin JobsOf(x)
    BY DEF Shutdown, JobsOf, Jobs
  <2>3. InQueue(x)' = InQueue(x) + (IF Shutdown \in JobsOf(x) THEN 1 ELSE 0)
    <3>1. queue \in Seq(Jobs \cup {Shutdown}) /\ Shutdown \in Jobs \cup {Shutdown}
      BY <1>1 DEF PipelineTypes
    <3>2. QED
      BY <1>1, <3>1, JobQueued
  <2>4. InQueue(x)' = InQueue(x)
    BY <2>1, <2>2, <2>3
  <2>5. /\ SendersOf(x)' = SendersOf(x) /\ AtWork(x)' = AtWork(x) /\ Is(x)' = Is(x)
    BY <1>1 DEF SendersOf, AtWork, Is
  <2>6. QED
    BY <1>1, <2>1, <2>4, <2>5 DEF EventInv, Sending, Unsettled
<1>4. QED
  BY <1>2, <1>3 DEF PipelineInv

LEMMA JobTaken ==
    ASSUME queue \in Seq(Jobs \cup {Shutdown}), queue # <<>>, queue' = Tail(queue), NEW x
    PROVE  /\ InQueue(x) = InQueue(x)' + (IF Head(queue) \in JobsOf(x) THEN 1 ELSE 0)
           /\ InQueue(x)' \in Nat /\ queue' \in Seq(Jobs \cup {Shutdown})
           /\ Head(queue) \in Jobs \cup {Shutdown}
<1>1. /\ Tail(queue) \in Seq(Jobs \cup {Shutdown})
      /\ Head(queue) \in Jobs \cup {Shutdown}
  BY HeadTailProperties
<1>2. Cardinality(PlacesIn(queue, JobsOf(x))) =
        Cardinality(PlacesIn(Tail(queue), JobsOf(x))) + (IF Head(queue) \in JobsOf(x) THEN 1 ELSE 0)
  BY PlacesInTail
<1>3. Cardinality(PlacesIn(Tail(queue), JobsOf(x))) \in Nat
  BY <1>1, PlacesInFinite
<1>4. InQueue(x)' = Cardinality(PlacesIn(Tail(queue), JobsOf(x)))
  BY DEF InQueue
<1>5. QED
  BY <1>1, <1>2, <1>3, <1>4 DEF InQueue

\* An event no part of which moves.
LEMMA EventKeeps ==
    ASSUME NEW x, EventInv(x), InQueue(x)' = InQueue(x), SendersOf(x)' = SendersOf(x),
           AtWork(x)' = AtWork(x), Is(x)' = Is(x), persisted'[x] = persisted[x],
           rolledBack'[x] = rolledBack[x], base' = base
    PROVE  EventInv(x)'
BY DEF EventInv, Sending, Unsettled

LEMMA WorkerTakeKeeps ==
    ASSUME PipelineInv, WorkerTake
    PROVE  PipelineInv'
<1> DEFINE job == Head(queue)
           e   == job.event
           j   == [job EXCEPT !.attempts = @ + 1]
<1>1. /\ PipelineTypes /\ worker = Idle /\ queue # <<>> /\ queue' = Tail(queue)
      /\ UNCHANGED <<writer, base, persisted, rolledBack>>
  BY DEF PipelineInv, WorkerTake
<1>2. /\ queue' \in Seq(Jobs \cup {Shutdown}) /\ job \in Jobs \cup {Shutdown}
      /\ \A x : /\ InQueue(x) = InQueue(x)' + (IF job \in JobsOf(x) THEN 1 ELSE 0)
                /\ InQueue(x)' \in Nat
  BY <1>1, JobTaken DEF PipelineTypes
<1>3. \A x : AtWork(x) = 0 /\ SendersOf(x)' = SendersOf(x)
  BY <1>1 DEF AtWork, Idle, SendersOf
<1>4. CASE job.shutdown
  <2>1. worker' = [step |-> "gone"] /\ status' = status
    BY <1>4 DEF WorkerTake
  <2>2. job \notin Jobs
    BY <1>4 DEF Jobs
  <2>3. PipelineTypes'
    BY <1>1, <1>2, <2>1 DEF PipelineTypes
  <2>4. ASSUME NEW x \in Events PROVE EventInv(x)'
    <3>1. InQueue(x)' = InQueue(x)
      BY <1>2, <2>2 DEF JobsOf
    <3>2. AtWork(x)' = AtWork(x) /\ Is(x)' = Is(x) /\ EventInv(x)
      BY <1>3, <2>1 DEF AtWork, Is, PipelineInv
    <3>3. QED
      BY <1>1, <1>3, <3>1, <3>2, EventKeeps
  <2>5. QED
    BY <2>3, <2>4 DEF PipelineInv
<1>5. CASE ~job.shutdown
  <2>1. worker' = [step |-> "running", job |-> j] /\ Becomes(e, "Running", job.attempts + 1)
    BY <1>5 DEF WorkerTake
  <2>2. job \in Jobs
    BY <1>2, <1>5 DEF Shutdown
  <2>3. j \in Jobs /\ j.event = e /\ e \in Events
    <3> HIDE DEF job
    <3>1. j = [shutdown |-> job.shutdown, event |-> job.event,
               attempts |-> job.attempts + 1, most |-> job.most]
      BY <2>2 DEF Jobs
    <3>2. /\ job.shutdown \in {FALSE} /\ job.event \in Events
          /\ job.attempts \in Nat /\ job.most \in Nat
      BY <2>2 DEF Jobs
    <3>3. job.attempts + 1 \in Nat
      BY <3>2
    <3> HIDE DEF j
    <3>4. j \in Jobs
      BY <3>1, <3>2, <3>3, Zenon DEF Jobs
    <3>5. j.event = job.event
      BY <3>1
    <3>6. QED
      BY <3>2, <3>4, <3>5
  <2>4. /\ DOMAIN status' = DOMAIN status \cup {e}
        /\ \A x : Is(x)' = IF x = e THEN "Running" ELSE Is(x)
    BY <2>1, BecomesIs
  <2>5. \A x : job \in JobsOf(x) <=> x = e
    BY <2>2 DEF JobsOf
  <2> HIDE DEF j, e, job
  <2>6. worker'.step = "running" /\ worker'.job = j
    BY <2>1
  <2>7. \A x : AtWork(x)' = IF x = e THEN 1 ELSE 0
    BY <2>3, <2>6 DEF AtWork
  <2>8. PipelineTypes'
    BY <1>1, <1>2, <2>1, <2>3, <2>4 DEF PipelineTypes
  <2>9. ASSUME NEW x \in Events PROVE EventInv(x)'
    <3>1. /\ InQueue(x) \in Nat /\ Sending(x) \in Nat /\ Unsettled(x) \in {0, 1} /\ EventInv(x)
          /\ InQueue(x) + Sending(x) + AtWork(x) = Unsettled(x)
      BY PipelineCounts
    <3>2. CASE x = e
      <4>1. /\ InQueue(x) = InQueue(x)' + 1 /\ InQueue(x)' \in Nat
            /\ AtWork(x) = 0 /\ AtWork(x)' = 1
        BY <1>2, <1>3, <2>5, <2>7, <3>2
      <4>2. Unsettled(x) = 1
        BY <3>1, <4>1
      <4>3. Unsettled(x)' = 1 /\ Is(x)' = "Running"
        BY <2>4, <3>2 DEF Unsettled, Settled
      <4>4. Is(x) \notin {"Succeeded", "RolledBack", "none"}
        BY <4>2 DEF Unsettled, Settled
      <4>5. Sending(x)' = Sending(x) /\ IsFiniteSet(SendersOf(x)')
        BY <1>3, <3>1 DEF Sending, EventInv
      <4>6. InQueue(x)' + Sending(x)' + AtWork(x)' = Unsettled(x)'
        BY <3>1, <4>1, <4>2, <4>3, <4>5
      <4>7. /\ persisted'[x] = 0 /\ rolledBack'[x] = 0 /\ x \in base'
        BY <1>1, <3>1, <4>4 DEF EventInv
      <4>8. QED
        BY <4>3, <4>5, <4>6, <4>7 DEF EventInv
    <3>3. CASE x # e
      <4>1. InQueue(x)' = InQueue(x) /\ AtWork(x)' = AtWork(x) /\ Is(x)' = Is(x)
        BY <1>2, <1>3, <2>4, <2>5, <2>7, <3>3
      <4>2. QED
        BY <1>1, <1>3, <3>1, <4>1, EventKeeps
    <3>4. QED
      BY <3>2, <3>3
  <2>10. QED
    BY <2>8, <2>9 DEF PipelineInv
<1>6. QED
  BY <1>4, <1>5

\* The job the worker has is the only one of its event.
LEMMA JobAtHand ==
    ASSUME PipelineInv, worker.step \in {"running", "resend"}
    PROVE  /\ worker \in [step : {"running", "resend"}, job : Jobs]
           /\ worker.job \in Jobs /\ worker.job.event \in Events
           /\ LET e == worker.job.event IN
              /\ InQueue(e) = 0 /\ Sending(e) = 0 /\ AtWork(e) = 1 /\ Unsettled(e) = 1
              /\ \A x : x # e => AtWork(x) = 0
              /\ persisted[e] = 0 /\ rolledBack[e] = 0 /\ e \in base
              /\ IsFiniteSet(SendersOf(e))
<1> DEFINE e == worker.job.event
<1>1. worker \in [step : {"running", "resend"}, job : Jobs]
  BY DEF PipelineInv, PipelineTypes, Idle
<1>2. worker.job \in Jobs /\ e \in Events
  BY <1>1 DEF Jobs
<1>3. AtWork(e) = 1 /\ \A x : x # e => AtWork(x) = 0
  BY DEF AtWork
<1> HIDE DEF e
<1>4. /\ InQueue(e) \in Nat /\ Sending(e) \in Nat /\ Unsettled(e) \in {0, 1} /\ EventInv(e)
      /\ InQueue(e) + Sending(e) + AtWork(e) = Unsettled(e)
  BY <1>2, PipelineCounts
<1>5. InQueue(e) = 0 /\ Sending(e) = 0 /\ Unsettled(e) = 1
  BY <1>3, <1>4
<1>6. Is(e) \notin {"Succeeded", "RolledBack", "none"}
  BY <1>5 DEF Unsettled, Settled
<1>7. persisted[e] = 0 /\ rolledBack[e] = 0 /\ e \in base /\ IsFiniteSet(SendersOf(e))
  BY <1>4, <1>6 DEF EventInv
<1>8. QED
  BY <1>1, <1>2, <1>3, <1>5, <1>7 DEF e

\* An attempt that ends the job: what was done is what the status says.
LEMMA SettlingKeeps ==
    ASSUME PipelineInv, worker.step = "running", worker' = Idle,
           NEW e, e = worker.job.event, NEW is \in Settled, NEW n, Becomes(e, is, n),
           persisted' = IF is = "Succeeded" THEN [persisted EXCEPT ![e] = @ + 1] ELSE persisted,
           rolledBack' = IF is = "RolledBack" THEN [rolledBack EXCEPT ![e] = @ + 1] ELSE rolledBack,
           UNCHANGED <<queue, writer, base>>
    PROVE  PipelineInv'
<1>1. /\ e \in Events /\ InQueue(e) = 0 /\ Sending(e) = 0
      /\ \A x : x # e => AtWork(x) = 0
      /\ persisted[e] = 0 /\ rolledBack[e] = 0 /\ e \in base
      /\ IsFiniteSet(SendersOf(e))
  BY JobAtHand
<1>2. /\ DOMAIN status' = DOMAIN status \cup {e}
      /\ \A x : Is(x)' = IF x = e THEN is ELSE Is(x)
  BY DEF Becomes, Is
<1>3. \A x : AtWork(x)' = 0 /\ InQueue(x)' = InQueue(x) /\ SendersOf(x)' = SendersOf(x)
  BY DEF AtWork, Idle, InQueue, SendersOf
<1>4. PipelineTypes /\ persisted \in [Events -> Nat] /\ rolledBack \in [Events -> Nat]
  BY DEF PipelineInv, PipelineTypes
<1>5. /\ persisted' \in [Events -> Nat] /\ rolledBack' \in [Events -> Nat]
      /\ persisted'[e] = IF is = "Succeeded" THEN 1 ELSE 0
      /\ rolledBack'[e] = IF is = "RolledBack" THEN 1 ELSE 0
      /\ \A x \in Events : x # e => persisted'[x] = persisted[x] /\ rolledBack'[x] = rolledBack[x]
  <2>1. CASE is = "Succeeded"
    BY <1>1, <1>4, <2>1
  <2>2. CASE is = "RolledBack"
    BY <1>1, <1>4, <2>2
  <2>3. QED
    BY <2>1, <2>2 DEF Settled
<1>6. PipelineTypes'
  BY <1>1, <1>2, <1>4, <1>5 DEF PipelineTypes
<1>7. ASSUME NEW x \in Events PROVE EventInv(x)'
  <2>1. CASE x = e
    <3>1. Is(x)' = is /\ Unsettled(x)' = 0
      BY <1>2, <2>1 DEF Unsettled
    <3>2. InQueue(x)' = 0 /\ Sending(x)' = 0 /\ AtWork(x)' = 0 /\ IsFiniteSet(SendersOf(x)')
      BY <1>1, <1>3, <2>1 DEF Sending
    <3>3. InQueue(x)' + Sending(x)' + AtWork(x)' = Unsettled(x)'
      BY <3>1, <3>2
    <3>4. QED
      BY <1>1, <1>5, <2>1, <3>1, <3>2, <3>3 DEF EventInv
  <2>2. CASE x # e
    <3>1. EventInv(x) /\ Is(x)' = Is(x) /\ AtWork(x)' = AtWork(x)
      BY <1>1, <1>2, <1>3, <2>2 DEF PipelineInv
    <3>2. QED
      BY <1>3, <1>5, <2>2, <3>1, EventKeeps
  <2>3. QED
    BY <2>1, <2>2
<1>8. QED
  BY <1>6, <1>7 DEF PipelineInv

LEMMA WorkerRetriesKeeps ==
    ASSUME PipelineInv, WorkerRetries
    PROVE  PipelineInv'
<1> DEFINE e == worker.job.event
           r == [worker EXCEPT !.step = "resend"]
<1>1. /\ PipelineTypes /\ worker.step = "running" /\ worker' = r
      /\ Becomes(e, "Retrying", worker.job.attempts)
      /\ UNCHANGED <<queue, writer, base, persisted, rolledBack>>
  BY DEF PipelineInv, WorkerRetries
<1>2. /\ worker \in [step : {"running", "resend"}, job : Jobs]
      /\ e \in Events /\ AtWork(e) = 1 /\ Unsettled(e) = 1
      /\ \A x : x # e => AtWork(x) = 0
      /\ persisted[e] = 0 /\ rolledBack[e] = 0 /\ e \in base
  BY <1>1, JobAtHand
<1>3. /\ DOMAIN status' = DOMAIN status \cup {e}
      /\ \A x : Is(x)' = IF x = e THEN "Retrying" ELSE Is(x)
  BY <1>1, BecomesIs
<1>4. r \in [step : {"running", "resend"}, job : Jobs] /\ r.step = "resend" /\ r.job = worker.job
  BY <1>2
<1> HIDE DEF r
<1>5. \A x : AtWork(x)' = AtWork(x)
  BY <1>1, <1>4 DEF AtWork
<1>6. \A x : InQueue(x)' = InQueue(x) /\ SendersOf(x)' = SendersOf(x)
  BY <1>1 DEF InQueue, SendersOf
<1> HIDE DEF e
<1>7. PipelineTypes'
  BY <1>1, <1>2, <1>3, <1>4 DEF PipelineTypes
<1>8. ASSUME NEW x \in Events PROVE EventInv(x)'
  <2>1. EventInv(x)
    BY DEF PipelineInv
  <2>2. CASE x = e
    <3>1. Is(x)' = "Retrying" /\ Unsettled(x)' = Unsettled(x)
      BY <1>2, <1>3, <2>2 DEF Unsettled, Settled
    <3>2. QED
      BY <1>1, <1>2, <1>5, <1>6, <2>1, <2>2, <3>1 DEF EventInv, Sending
  <2>3. CASE x # e
    <3>1. Is(x)' = Is(x)
      BY <1>3, <2>3
    <3>2. QED
      BY <1>1, <1>5, <1>6, <2>1, <3>1, EventKeeps
  <2>4. QED
    BY <2>2, <2>3
<1>9. QED
  BY <1>7, <1>8 DEF PipelineInv

\* The job passes from the worker to the channel.
LEMMA WorkerResendsKeeps ==
    ASSUME PipelineInv, WorkerResends
    PROVE  PipelineInv'
<1> DEFINE j == worker.job
           e == j.event
<1>1. /\ PipelineTypes /\ worker.step = "resend" /\ worker' = Idle
      /\ queue' = Append(queue, j)
      /\ UNCHANGED <<status, writer, base, persisted, rolledBack>>
  BY DEF PipelineInv, WorkerResends
<1>2. j \in Jobs /\ AtWork(e) = 1 /\ \A x : x # e => AtWork(x) = 0
  BY <1>1, JobAtHand
<1>3. \A x : j \in JobsOf(x) <=> x = e
  BY <1>2 DEF JobsOf
<1> HIDE DEF e, j
<1>4. queue \in Seq(Jobs \cup {Shutdown}) /\ j \in Jobs \cup {Shutdown}
  BY <1>1, <1>2 DEF PipelineTypes
<1>5. \A x : InQueue(x)' = InQueue(x) + (IF j \in JobsOf(x) THEN 1 ELSE 0)
  BY <1>1, <1>4, JobQueued
<1>6. PipelineTypes'
  <2>1. queue' \in Seq(Jobs \cup {Shutdown})
    BY <1>1, <1>4, AppendProperties
  <2>2. QED
    BY <1>1, <2>1 DEF PipelineTypes
<1>7. ASSUME NEW x \in Events PROVE EventInv(x)'
  <2>1. /\ InQueue(x) \in Nat /\ Sending(x) \in Nat /\ Unsettled(x) \in {0, 1} /\ EventInv(x)
        /\ InQueue(x) + Sending(x) + AtWork(x) = Unsettled(x) /\ AtWork(x) \in {0, 1}
    BY PipelineCounts
  <2>2. /\ AtWork(x)' = 0 /\ SendersOf(x)' = SendersOf(x) /\ Sending(x)' = Sending(x)
        /\ Is(x)' = Is(x) /\ Unsettled(x)' = Unsettled(x)
    BY <1>1 DEF AtWork, Idle, SendersOf, Sending, Is, Unsettled
  <2>3. InQueue(x)' = InQueue(x) + AtWork(x)
    BY <1>2, <1>3, <1>5
  <2>4. InQueue(x)' + Sending(x)' + AtWork(x)' = Unsettled(x)'
    BY <2>1, <2>2, <2>3
  <2>5. QED
    BY <1>1, <2>1, <2>2, <2>4 DEF EventInv
<1>8. QED
  BY <1>6, <1>7 DEF PipelineInv

LEMMA PipelineInitial == PipelineInit => PipelineInv
<1> SUFFICES ASSUME PipelineInit PROVE PipelineInv
  OBVIOUS
<1>1. /\ status = [e \in {} |-> 0] /\ queue = <<>> /\ worker = Idle
      /\ writer = [w \in Writers |-> Idle] /\ base = {}
      /\ persisted = [e \in Events |-> 0] /\ rolledBack = [e \in Events |-> 0]
  BY DEF PipelineInit
<1>2. PipelineTypes
  BY <1>1 DEF PipelineTypes
<1>3. ASSUME NEW e \in Events PROVE EventInv(e)
  <2>1. PlacesIn(queue, JobsOf(e)) = {} /\ SendersOf(e) = {} /\ AtWork(e) = 0 /\ Is(e) = "none"
    BY <1>1 DEF PlacesIn, SendersOf, AtWork, Is, Idle
  <2>2. IsFiniteSet({}) /\ Cardinality({}) = 0
    BY FS_EmptySet
  <2>3. InQueue(e) = 0 /\ Sending(e) = 0 /\ Unsettled(e) = 0
    BY <2>1, <2>2 DEF InQueue, Sending, Unsettled
  <2>4. persisted[e] = 0 /\ rolledBack[e] = 0 /\ 0 + 0 + 0 = 0
    BY <1>1
  <2>5. QED
    BY <2>1, <2>2, <2>3, <2>4 DEF EventInv
<1>4. QED
  BY <1>2, <1>3 DEF PipelineInv

LEMMA PipelineStep == PipelineInv /\ [PipelineNext]_pipelineVars => PipelineInv'
<1> SUFFICES ASSUME PipelineInv, [PipelineNext]_pipelineVars PROVE PipelineInv'
  OBVIOUS
<1>1. CASE \E w \in Writers : \/ \E e \in Events, most \in RetryBudgets : WriteBase(w, e, most)
                             \/ EnqueueRefused(w) \/ EnqueueMark(w) \/ EnqueueSend(w)
  BY <1>1, WriteBaseKeeps, EnqueueRefusedKeeps, EnqueueMarkKeeps, EnqueueSendKeeps
<1>2. CASE WorkerStep
  <2>1. CASE WorkerSucceeds
    <3>1. "Succeeded" \in Settled
      BY DEF Settled
    <3>2. /\ worker.step = "running" /\ worker' = Idle
          /\ Becomes(worker.job.event, "Succeeded", worker.job.attempts)
          /\ persisted' = [persisted EXCEPT ![worker.job.event] = @ + 1]
          /\ UNCHANGED <<queue, writer, base, rolledBack>>
      BY <2>1 DEF WorkerSucceeds
    <3>3. QED
      BY <3>1, <3>2, SettlingKeeps
  <2>2. CASE WorkerGivesUp
    <3>1. "RolledBack" \in Settled
      BY DEF Settled
    <3>2. /\ worker.step = "running" /\ worker' = Idle
          /\ Becomes(worker.job.event, "RolledBack", worker.job.attempts)
          /\ rolledBack' = [rolledBack EXCEPT ![worker.job.event] = @ + 1]
          /\ UNCHANGED <<queue, writer, base, persisted>>
      BY <2>2 DEF WorkerGivesUp
    <3>3. QED
      BY <3>1, <3>2, SettlingKeeps
  <2>3. QED
    BY <1>2, <2>1, <2>2, WorkerTakeKeeps, WorkerRetriesKeeps, WorkerResendsKeeps DEF WorkerStep
<1>3. CASE DropPipeline
  BY <1>3, DropKeeps
<1>4. CASE UNCHANGED pipelineVars
  <2>1. PipelineTypes'
    BY <1>4 DEF pipelineVars, PipelineInv, PipelineTypes
  <2>2. QED
    BY <1>4, <2>1, WritersKeep DEF pipelineVars, SendersOf
<1>5. QED
  BY <1>1, <1>2, <1>3, <1>4 DEF PipelineNext

\* However writers, retries and the end of the pipeline interleave: an event whose
\* enhancement is not settled has one job, with a writer, in the channel or with
\* the worker, a settled one has none, and it was persisted or rolled back once, as
\* its status says (EnhancementPipeline, tools/enhancement.rs).
THEOREM EnhancementsAreDoneOnce == PipelineSpec => []OneJobPerEvent
<1>1. PipelineInv => OneJobPerEvent
  <2> SUFFICES ASSUME PipelineInv PROVE OneJobPerEvent
    OBVIOUS
  <2>1. PipelineTypes /\ \A e \in Events : EventInv(e)
    BY DEF PipelineInv
  <2>2. \A e \in Events : Holders(e) = Unsettled(e)
    BY <2>1, HoldersAre DEF EventInv
  <2>3. QED
    BY <2>1, <2>2 DEF OneJobPerEvent, EventInv, Unsettled, Is
<1>2. QED
  BY PipelineInitial, PipelineStep, <1>1, PTL DEF PipelineSpec

-----------------------------------------------------------------------------
(* Authz: the matching of resources and its meaning                         *)

\* The equations of RunLength.
LEMMA RunLengthIs ==
    ASSUME NEW p \in Seq(STRING)
    PROVE  /\ RunLength(p) \in [0..Len(p) -> Nat]
           /\ RunLength(p)[0] = 0
           /\ \A j \in 1..Len(p) :
                 RunLength(p)[j] = IF p[j] = "*" THEN 0 ELSE RunLength(p)[j - 1] + 1
<1> DEFINE k == Len(p)
           F == [j \in 1..k |-> [l \in Nat |-> IF p[j] = "*" THEN 0 ELSE l + 1]]
           g == RunLength(p)
<1>1. k \in Nat
  BY LenProperties
<1> HIDE DEF k
<1>2. F \in [1..k -> [Nat -> Nat]] /\ 0 \in Nat
  OBVIOUS
<1>3. PICK f \in [0..k -> Nat] : Iterates(f, 0, k, F)
  BY <1>1, <1>2, FunctionsByRecursion
<1>4. f = [j \in 0..k |-> IF j = 0 THEN 0 ELSE IF p[j] = "*" THEN 0 ELSE f[j - 1] + 1]
  <2>1. \A j \in 1..k : f[j - 1] \in Nat
    BY <1>1, <1>3
  <2>2. \A j \in 1..k : f[j] = IF p[j] = "*" THEN 0 ELSE f[j - 1] + 1
    BY <1>3, <2>1 DEF Iterates
  <2>3. f[0] = 0 /\ f = [j \in 0..k |-> f[j]]
    BY <1>3 DEF Iterates
  <2>4. \A j \in 0..k : f[j] = IF j = 0 THEN 0 ELSE IF p[j] = "*" THEN 0 ELSE f[j - 1] + 1
    <3>1. \A j \in 0..k : j = 0 \/ j \in 1..k
      BY <1>1
    <3> QED
      BY <2>2, <2>3, <3>1
  <2> QED
    BY <2>3, <2>4
<1>5. g = CHOOSE h : h = [j \in 0..k |-> IF j = 0 THEN 0 ELSE IF p[j] = "*" THEN 0 ELSE h[j - 1] + 1]
  BY DEF RunLength, k
<1>6. g = [j \in 0..k |-> IF j = 0 THEN 0 ELSE IF p[j] = "*" THEN 0 ELSE g[j - 1] + 1]
  BY <1>4, <1>5
<1> HIDE DEF g, F
<1>7. /\ DOMAIN g = 0..k /\ g[0] = 0
      /\ \A j \in 1..k : g[j] = IF p[j] = "*" THEN 0 ELSE g[j - 1] + 1
  BY <1>1, <1>6
<1>8. \A n \in 0..(k - 1) : g[n] \in Nat => g[n + 1] \in Nat
  <2> SUFFICES ASSUME NEW n \in 0..(k - 1), g[n] \in Nat PROVE g[n + 1] \in Nat
    OBVIOUS
  <2>1. n + 1 \in 1..k /\ (n + 1) - 1 = n
    BY <1>1
  <2> QED
    BY <1>7, <2>1
<1>9. \A n \in 0..k : g[n] \in Nat
  <2>1. DOMAIN g = 0..k /\ g[0] \in Nat
    BY <1>7
  <2> QED
    BY <1>1, <2>1, <1>8, RecursionStays
<1>10. g \in [0..k -> Nat]
  <2>1. g = [j \in 0..k |-> g[j]]
    BY <1>6
  <2> QED
    BY <1>9, <2>1
<1> QED
  BY <1>7, <1>10 DEF g, k

\* A run is a run: no wildcard in it, and one before it unless it is in front.
LEMMA RunIs ==
    ASSUME NEW p \in Seq(STRING), NEW j \in 0..Len(p)
    PROVE  LET n == RunLength(p)[j] IN
           /\ n \in 0..j
           /\ \A m \in (j - n + 1)..j : p[m] # "*"
           /\ j - n # 0 => p[j - n] = "*"
<1> DEFINE k == Len(p)
           g == RunLength(p)
           T == {i \in 0..k : /\ g[i] \in 0..i
                              /\ \A m \in (i - g[i] + 1)..i : p[m] # "*"
                              /\ i - g[i] # 0 => p[i - g[i]] = "*"}
<1>1. /\ k \in Nat /\ g \in [0..k -> Nat] /\ g[0] = 0
      /\ \A i \in 1..k : g[i] = IF p[i] = "*" THEN 0 ELSE g[i - 1] + 1
  BY RunLengthIs, LenProperties
<1> HIDE DEF k, g
<1>2. 0 \in T
  BY <1>1
<1>3. ASSUME NEW i \in 0..(k - 1), i \in T PROVE i + 1 \in T
  <2>1. i + 1 \in 1..k /\ i + 1 \in 0..k /\ (i + 1) - 1 = i /\ i \in Nat
    BY <1>1
  <2>2. /\ g[i] \in 0..i
        /\ \A m \in (i - g[i] + 1)..i : p[m] # "*"
        /\ i - g[i] # 0 => p[i - g[i]] = "*"
    BY <1>3
  <2>3. CASE p[i + 1] = "*"
    <3>1. g[i + 1] = 0
      BY <1>1, <2>1, <2>3
    <3> QED
      BY <2>1, <2>3, <3>1
  <2>4. CASE p[i + 1] # "*"
    <3>1. g[i + 1] = g[i] + 1
      BY <1>1, <2>1, <2>4
    <3>2. g[i + 1] \in 0..(i + 1) /\ (i + 1) - g[i + 1] = i - g[i]
      BY <2>1, <2>2, <3>1
    <3>3. ASSUME NEW m \in ((i + 1) - g[i + 1] + 1)..(i + 1) PROVE p[m] # "*"
      <4>1. m = i + 1 \/ m \in (i - g[i] + 1)..i
        BY <2>1, <2>2, <3>2
      <4> QED
        BY <2>2, <2>4, <4>1
    <3> QED
      BY <2>1, <2>2, <3>2, <3>3
  <2> QED
    BY <2>3, <2>4
<1> HIDE DEF T
<1>4. \A i \in 0..(k - 1) : i \in T => i + 1 \in T
  BY <1>3
<1>5. \A i \in 0..k : i \in T
  BY <1>1, <1>2, <1>4, NumbersUpTo, Zenon
<1> QED
  BY <1>5 DEF T, k, g

\* A nonempty set of numbers has its least element.
LEMMA LeastIs ==
    ASSUME NEW S \in SUBSET Nat, S # {}
    PROVE  Least(S) \in S /\ \A j \in S : Least(S) <= j
BY LeastNatural DEF Least

\* The next of Behind is a number.
LEMMA BehindNextIs ==
    ASSUME NEW s \in Seq(STRING), NEW p \in Seq(STRING), NEW j \in 1..Len(p), NEW b \in Nat
    PROVE  BehindNext(s, p, j, b) \in Nat
<1>1. Len(s) \in Nat /\ j \in 0..Len(p)
  BY LenProperties
<1>2. PICK n \in Nat : n = RunLength(p)[j]
  BY <1>1, RunLengthIs
<1>3. PICK at : at = FoundAt(s, b, p, j, n)
  OBVIOUS
<1>4. at \in SUBSET Nat
  BY <1>1, <1>3 DEF FoundAt
<1>5. at # {} => Least(at) \in Nat
  BY <1>4, LeastIs
<1>6. Taken(s, b, p, j, n) \in Nat
  BY <1>1, <1>2, <1>3, <1>5 DEF Taken
<1> QED
  BY <1>2, <1>6 DEF BehindNext

\* The equations of Behind.
LEMMA BehindIs ==
    ASSUME NEW s \in Seq(STRING), NEW p \in Seq(STRING)
    PROVE  /\ Behind(s, p) \in [0..Len(p) -> Nat]
           /\ Behind(s, p)[0] = 0
           /\ \A j \in 1..Len(p) : Behind(s, p)[j] = BehindNext(s, p, j, Behind(s, p)[j - 1])
<1> DEFINE k == Len(p)
           F == [j \in 1..k |-> [b \in Nat |-> BehindNext(s, p, j, b)]]
           g == Behind(s, p)
<1>1. k \in Nat /\ \A j \in 1..k, b \in Nat : BehindNext(s, p, j, b) \in Nat
  BY LenProperties, BehindNextIs
<1>5. g = CHOOSE h : h = [j \in 0..k |-> IF j = 0 THEN 0 ELSE BehindNext(s, p, j, h[j - 1])]
  BY DEF Behind
<1> HIDE DEF k
<1>2. F \in [1..k -> [Nat -> Nat]] /\ 0 \in Nat
  BY <1>1
<1>3. PICK f \in [0..k -> Nat] : Iterates(f, 0, k, F)
  BY <1>1, <1>2, FunctionsByRecursion
<1>4. f = [j \in 0..k |-> IF j = 0 THEN 0 ELSE BehindNext(s, p, j, f[j - 1])]
  <2>1. \A j \in 1..k : f[j - 1] \in Nat
    BY <1>1, <1>3
  <2>2. \A j \in 1..k : f[j] = BehindNext(s, p, j, f[j - 1])
    BY <1>3, <2>1 DEF Iterates
  <2>3. f[0] = 0 /\ f = [j \in 0..k |-> f[j]]
    BY <1>3 DEF Iterates
  <2>4. \A j \in 0..k : f[j] = IF j = 0 THEN 0 ELSE BehindNext(s, p, j, f[j - 1])
    <3>1. \A j \in 0..k : j = 0 \/ j \in 1..k
      BY <1>1
    <3> QED
      BY <2>2, <2>3, <3>1
  <2> QED
    BY <2>3, <2>4
<1>6. g = [j \in 0..k |-> IF j = 0 THEN 0 ELSE BehindNext(s, p, j, g[j - 1])]
  BY <1>4, <1>5
<1> HIDE DEF g, F
<1>7. /\ DOMAIN g = 0..k /\ g[0] = 0
      /\ \A j \in 1..k : g[j] = BehindNext(s, p, j, g[j - 1])
  <2>1. \A j \in 0..k : g[j] = IF j = 0 THEN 0 ELSE BehindNext(s, p, j, g[j - 1])
    BY <1>6, Zenon
  <2>2. \A j \in 1..k : j # 0 /\ j \in 0..k
    BY <1>1
  <2>3. 0 \in 0..k
    BY <1>1
  <2>4. DOMAIN g = 0..k
    BY <1>6, Zenon
  <2> QED
    BY <2>1, <2>2, <2>3, <2>4, Zenon
<1>8. \A n \in 0..(k - 1) : g[n] \in Nat => g[n + 1] \in Nat
  <2> SUFFICES ASSUME NEW n \in 0..(k - 1), g[n] \in Nat PROVE g[n + 1] \in Nat
    OBVIOUS
  <2>1. n + 1 \in 1..k /\ (n + 1) - 1 = n
    BY <1>1
  <2> QED
    BY <1>1, <1>7, <2>1
<1>9. \A n \in 0..k : g[n] \in Nat
  <2>1. DOMAIN g = 0..k /\ g[0] \in Nat
    BY <1>7
  <2> QED
    BY <1>1, <2>1, <1>8, RecursionStays
<1>10. g \in [0..k -> Nat]
  <2>1. g = [j \in 0..k |-> g[j]]
    BY <1>6
  <2> QED
    BY <1>9, <2>1
<1> QED
  BY <1>7, <1>10 DEF g, k
\* The next of StandsFor is a set of prefixes of the resource.
LEMMA StandsNextIs ==
    ASSUME NEW s \in Seq(STRING), NEW p \in Seq(STRING), NEW j \in 1..Len(p),
           NEW b \in SUBSET (0..Len(s))
    PROVE  StandsNext(s, p, j, b) \in SUBSET (0..Len(s))
<1>1. Len(s) \in Nat
  BY LenProperties
<1> QED
  BY <1>1 DEF StandsNext

\* The equations of StandsFor.
LEMMA StandsForIs ==
    ASSUME NEW s \in Seq(STRING), NEW p \in Seq(STRING)
    PROVE  /\ StandsFor(s, p) \in [0..Len(p) -> SUBSET (0..Len(s))]
           /\ StandsFor(s, p)[0] = {0}
           /\ \A j \in 1..Len(p) : StandsFor(s, p)[j] = StandsNext(s, p, j, StandsFor(s, p)[j - 1])
<1> DEFINE k == Len(p)
           V == SUBSET (0..Len(s))
           F == [j \in 1..k |-> [b \in V |-> StandsNext(s, p, j, b)]]
           g == StandsFor(s, p)
<1>1. k \in Nat /\ \A j \in 1..k, b \in V : StandsNext(s, p, j, b) \in V
  BY LenProperties, StandsNextIs
<1>5. g = CHOOSE h : h = [j \in 0..k |-> IF j = 0 THEN {0} ELSE StandsNext(s, p, j, h[j - 1])]
  BY DEF StandsFor
<1>11. {0} \in V
  BY LenProperties
<1> HIDE DEF k, V
<1>2. F \in [1..k -> [V -> V]] /\ {0} \in V
  BY <1>1, <1>11
<1>3. PICK f \in [0..k -> V] : Iterates(f, {0}, k, F)
  BY <1>1, <1>2, FunctionsByRecursion
<1>4. f = [j \in 0..k |-> IF j = 0 THEN {0} ELSE StandsNext(s, p, j, f[j - 1])]
  <2>1. \A j \in 1..k : f[j - 1] \in V
    BY <1>1, <1>3
  <2>2. \A j \in 1..k : f[j] = StandsNext(s, p, j, f[j - 1])
    BY <1>3, <2>1 DEF Iterates
  <2>3. f[0] = {0} /\ f = [j \in 0..k |-> f[j]]
    BY <1>3 DEF Iterates
  <2>4. \A j \in 0..k : f[j] = IF j = 0 THEN {0} ELSE StandsNext(s, p, j, f[j - 1])
    <3>1. \A j \in 0..k : j = 0 \/ j \in 1..k
      BY <1>1
    <3> QED
      BY <2>2, <2>3, <3>1
  <2> QED
    BY <2>3, <2>4
<1>6. g = [j \in 0..k |-> IF j = 0 THEN {0} ELSE StandsNext(s, p, j, g[j - 1])]
  BY <1>4, <1>5
<1> HIDE DEF g, F
<1>7. /\ DOMAIN g = 0..k /\ g[0] = {0}
      /\ \A j \in 1..k : g[j] = StandsNext(s, p, j, g[j - 1])
  <2>1. \A j \in 0..k : g[j] = IF j = 0 THEN {0} ELSE StandsNext(s, p, j, g[j - 1])
    BY <1>6, Zenon
  <2>2. \A j \in 1..k : j # 0 /\ j \in 0..k
    BY <1>1
  <2>3. 0 \in 0..k
    BY <1>1
  <2>4. DOMAIN g = 0..k
    BY <1>6, Zenon
  <2> QED
    BY <2>1, <2>2, <2>3, <2>4, Zenon
<1>8. \A n \in 0..(k - 1) : g[n] \in V => g[n + 1] \in V
  <2> SUFFICES ASSUME NEW n \in 0..(k - 1), g[n] \in V PROVE g[n + 1] \in V
    OBVIOUS
  <2>1. n + 1 \in 1..k /\ (n + 1) - 1 = n
    BY <1>1
  <2> QED
    BY <1>1, <1>7, <2>1
<1>9. \A n \in 0..k : g[n] \in V
  <2>1. DOMAIN g = 0..k /\ g[0] \in V
    BY <1>7, <1>11
  <2> QED
    BY <1>1, <2>1, <1>8, RecursionStays
<1>10. g \in [0..k -> V]
  <2>1. g = [j \in 0..k |-> g[j]]
    BY <1>6
  <2> QED
    BY <1>9, <2>1
<1> QED
  BY <1>7, <1>10 DEF g, k, V

\* Behind a wildcard every longer prefix stands for as much.
LEMMA WildcardsStretch ==
    ASSUME NEW s \in Seq(STRING), NEW p \in Seq(STRING), NEW a \in 1..Len(p), p[a] = "*",
           NEW i \in StandsFor(s, p)[a], NEW l \in i..Len(s)
    PROVE  l \in StandsFor(s, p)[a]
<1>1. Len(s) \in Nat /\ Len(p) \in Nat /\ a - 1 \in 0..Len(p)
  BY LenProperties
<1> DEFINE S == StandsFor(s, p)[a - 1]
<1>2. /\ StandsFor(s, p) \in [0..Len(p) -> SUBSET (0..Len(s))]
      /\ StandsFor(s, p)[a] = StandsNext(s, p, a, S)
  BY StandsForIs
<1>7. S \in SUBSET (0..Len(s))
  BY <1>1, <1>2
<1> HIDE DEF S
<1>3. StandsFor(s, p)[a] = UNION {k..Len(s) : k \in S}
  BY <1>2 DEF StandsNext
<1>4. PICK k \in S : i \in k..Len(s)
  BY <1>3
<1>5. k \in Nat
  BY <1>1, <1>7, <1>4
<1>6. l \in k..Len(s)
  BY <1>1, <1>4, <1>5
<1> QED
  BY <1>3, <1>6

\* A run stands behind what the segments before it stand for.
StandsBehind(s, p, j, n) ==
    {i \in n..Len(s) : i - n \in StandsFor(s, p)[j - n] /\ Occurs(s, i - n, p, j, n)}

\* What a pattern stands for, run by run.
LEMMA RunsStand ==
    ASSUME NEW s \in Seq(STRING), NEW p \in Seq(STRING), NEW j \in 0..Len(p)
    PROVE  StandsFor(s, p)[j] = StandsBehind(s, p, j, RunLength(p)[j])
<1> DEFINE K == Len(p)
           N == Len(s)
           L == RunLength(p)
           P == StandsFor(s, p)
           T == {i \in 0..K : P[i] = StandsBehind(s, p, i, L[i])}
<1>1. K \in Nat /\ N \in Nat
  BY LenProperties
<1>2. /\ L \in [0..K -> Nat] /\ L[0] = 0
      /\ \A i \in 1..K : L[i] = IF p[i] = "*" THEN 0 ELSE L[i - 1] + 1
  BY RunLengthIs
<1>3. /\ P \in [0..K -> SUBSET (0..N)]
      /\ \A i \in 1..K : P[i] = StandsNext(s, p, i, P[i - 1])
  BY StandsForIs
<1>4. \A i \in 0..K : L[i] \in 0..i
  BY RunIs
<1>5. \A i \in 0..K : StandsBehind(s, p, i, 0) = P[i]
  <2> SUFFICES ASSUME NEW i \in 0..K PROVE StandsBehind(s, p, i, 0) = P[i]
    OBVIOUS
  <2> DEFINE B == P[i]
  <2>1. B \in SUBSET (0..N)
    BY <1>3
  <2>2. StandsBehind(s, p, i, 0) = {l \in 0..N : l - 0 \in P[i - 0] /\ Occurs(s, l - 0, p, i, 0)}
    BY Zenon DEF StandsBehind
  <2>3. i - 0 = i /\ \A l \in 0..N : l - 0 = l
    BY <1>1
  <2>4. \A l \in 0..N : Occurs(s, l - 0, p, i, 0)
    BY DEF Occurs
  <2>5. StandsBehind(s, p, i, 0) = {l \in 0..N : l \in B}
    BY <2>2, <2>3, <2>4, Zenon
  <2> HIDE DEF B
  <2>6. {l \in 0..N : l \in B} = B
    BY <2>1
  <2> QED
    BY <2>5, <2>6 DEF B
<1> HIDE DEF K, N, L, P
<1>6. 0 \in T
  BY <1>1, <1>2, <1>5
<1>7. ASSUME NEW i \in 0..(K - 1), i \in T PROVE i + 1 \in T
  <2>1. i + 1 \in 1..K /\ i + 1 \in 0..K /\ (i + 1) - 1 = i /\ i \in Nat /\ i \in 0..K
    BY <1>1
  <2>2. CASE p[i + 1] = "*"
    BY <1>2, <1>5, <2>1, <2>2
  <2>3. CASE p[i + 1] # "*"
    <3>1. PICK n \in 0..i : n = L[i]
      BY <1>4, <2>1
    <3>2. L[i + 1] = n + 1 /\ n \in Nat /\ (i + 1) - (n + 1) = i - n
      BY <1>2, <2>1, <2>3, <3>1
    <3>3. P[i] = StandsBehind(s, p, i, n)
      BY <1>7, <3>1
    <3>4. P[i + 1] = {k \in 1..N : s[k] = p[i + 1] /\ k - 1 \in P[i]}
      BY <1>3, <2>1, <2>3 DEF StandsNext, N
    <3>5. ASSUME NEW k \in 1..N
          PROVE  k \in P[i + 1] <=> k \in StandsBehind(s, p, i + 1, n + 1)
      <4>1. k \in P[i + 1] <=> s[k] = p[i + 1] /\ k - 1 \in StandsBehind(s, p, i, n)
        BY <3>3, <3>4
      <4>2. k - 1 \in StandsBehind(s, p, i, n)
              <=> k \in (n + 1)..N /\ k - (n + 1) \in P[i - n] /\ Occurs(s, k - (n + 1), p, i, n)
        <5>1. (k - 1) - n = k - (n + 1) /\ (k - 1 \in n..N <=> k \in (n + 1)..N)
          BY <1>1, <3>2
        <5> QED
          BY <5>1 DEF StandsBehind, N, P
      <4>3. k \in (n + 1)..N =>
              (Occurs(s, k - (n + 1), p, i + 1, n + 1)
                 <=> Occurs(s, k - (n + 1), p, i, n) /\ s[k] = p[i + 1])
        <5>1. 1..(n + 1) = 1..n \cup {n + 1}
          BY <3>2
        <5>2. \A m \in 1..n : (i + 1) - (n + 1) + m = i - n + m
          BY <2>1, <3>2
        <5>3. (k - (n + 1)) + (n + 1) = k /\ ((i + 1) - (n + 1)) + (n + 1) = i + 1
          BY <1>1, <2>1, <3>2
        <5> QED
          BY <5>1, <5>2, <5>3 DEF Occurs
      <4>4. k \in StandsBehind(s, p, i + 1, n + 1)
              <=> /\ k \in (n + 1)..N /\ k - (n + 1) \in P[i - n]
                  /\ Occurs(s, k - (n + 1), p, i + 1, n + 1)
        BY <3>2 DEF StandsBehind, N, P
      <4> QED
        BY <4>1, <4>2, <4>3, <4>4
    <3>6. P[i + 1] \in SUBSET (1..N) /\ StandsBehind(s, p, i + 1, n + 1) \in SUBSET (1..N)
      <4>1. \A k \in (n + 1)..N : k \in 1..N
        BY <1>1, <3>2
      <4> QED
        BY <3>4, <4>1 DEF StandsBehind, N
    <3>7. P[i + 1] = StandsBehind(s, p, i + 1, n + 1)
      BY <3>5, <3>6
    <3> QED
      BY <2>1, <3>2, <3>7
  <2> QED
    BY <2>2, <2>3
<1>8. \A i \in 0..(K - 1) : i \in T => i + 1 \in T
  BY <1>7
<1> HIDE DEF T
<1>9. \A i \in 0..K : i \in T
  BY <1>1, <1>6, <1>8, NumbersUpTo, Zenon
<1> QED
  BY <1>9 DEF T, K, L, P

\* Taking each run where it first occurs misses nothing: what is then behind the
\* match is a prefix that the pattern stands for, and the least one.
Reached(s, p, j) ==
    /\ Behind(s, p)[j] <= Len(s) => Behind(s, p)[j] \in StandsFor(s, p)[j]
    /\ ~Missed(p) => \A k \in StandsFor(s, p)[j] : Behind(s, p)[j] <= k

\* Where a run ends, it has been found as early as it can be.
LEMMA RunsAreReached ==
    ASSUME NEW s \in Seq(STRING), NEW p \in Seq(STRING), NEW j \in 1..Len(p),
           EndsRun(p, j), NEW n \in 1..j, n = RunLength(p)[j], Reached(s, p, j - n),
           Behind(s, p)[j] = Taken(s, Behind(s, p)[j - n], p, j, n)
    PROVE  Reached(s, p, j)
<1> DEFINE K == Len(p)
           N == Len(s)
           a == j - n
           B == Behind(s, p)
           P == StandsFor(s, p)
           at == FoundAt(s, B[a], p, j, n)
<1>1. K \in Nat /\ N \in Nat /\ a \in 0..K /\ n \in Nat /\ j \in 0..K
  BY LenProperties
<1>2. B[a] \in Nat /\ B[j] = Taken(s, B[a], p, j, n) /\ P \in [0..K -> SUBSET (0..N)] /\ P[0] = {0}
  BY <1>1, BehindIs, StandsForIs
<1>3. a # 0 => p[a] = "*"
  BY <1>1, RunIs
<1>4. P[j] = StandsBehind(s, p, j, n)
  BY <1>1, RunsStand
<1>5. /\ B[a] <= N => B[a] \in P[a]
      /\ ~Missed(p) => \A k \in P[a] : B[a] <= k
  BY DEF Reached
<1>6. a # 0 => \A i \in P[a] : \A l \in i..N : l \in P[a]
  <2> SUFFICES ASSUME a # 0, NEW i \in P[a], NEW l \in i..N PROVE l \in P[a]
    OBVIOUS
  <2>1. a \in 1..K
    BY <1>1
  <2> QED
    BY <1>3, <2>1, WildcardsStretch
<1>7. (\A m \in 1..a : p[m] = "*") /\ ~Missed(p) => a = 0
  <2> SUFFICES ASSUME \A m \in 1..a : p[m] = "*", ~Missed(p), a # 0 PROVE FALSE
    OBVIOUS
  <2>1. 1 \in 1..a /\ p[1] = "*"
    BY <1>1
  <2>2. p # <<>> /\ j \in DOMAIN p /\ p[j] # "*"
    BY LenProperties, EmptySeq DEF EndsRun
  <2> QED
    BY <2>1, <2>2 DEF Missed
<1>8. at = {k \in B[a]..(N - n) : Occurs(s, k, p, j, n) /\ ((\A m \in 1..a : p[m] = "*") => k = 0)}
  BY DEF FoundAt
<1>9. at \in SUBSET Nat /\ B[j] = IF at = {} THEN N + 1 ELSE Least(at) + n
  <2>1. at \in SUBSET Nat
    BY <1>1, <1>2, <1>8
  <2>2. B[j] = IF at = {} THEN N + 1 ELSE Least(at) + n
    BY <1>2 DEF Taken
  <2> QED
    BY <2>1, <2>2
<1>10. \A i \in P[j] : i \in n..N /\ i - n \in P[a] /\ Occurs(s, i - n, p, j, n)
  BY <1>4 DEF StandsBehind
<1>11. \A i \in n..N : i - n \in P[a] /\ Occurs(s, i - n, p, j, n) => i \in P[j]
  BY <1>4 DEF StandsBehind
<1> HIDE DEF K, N, a, B, P, at
<1>12. B[j] <= N => B[j] \in P[j]
  <2> SUFFICES ASSUME B[j] <= N PROVE B[j] \in P[j]
    OBVIOUS
  <2>1. at # {}
    BY <1>1, <1>9
  <2>2. PICK k \in at : k = Least(at)
    BY <1>9, <2>1, LeastIs
  <2>3. /\ k \in Nat /\ B[j] = k + n /\ k \in B[a]..(N - n) /\ Occurs(s, k, p, j, n)
        /\ a = 0 => k = 0
    <3>1. k \in B[a]..(N - n) /\ Occurs(s, k, p, j, n) /\ ((\A m \in 1..a : p[m] = "*") => k = 0)
      BY <1>8, <2>2
    <3>2. a = 0 => \A m \in 1..a : p[m] = "*"
      OBVIOUS
    <3> QED
      BY <1>9, <2>1, <2>2, <3>1, <3>2
  <2>4. k \in P[a]
    <3>1. CASE a = 0
      BY <1>2, <2>3, <3>1
    <3>2. CASE a # 0
      <4>1. B[a] \in P[a] /\ k \in B[a]..N
        BY <1>1, <1>2, <1>5, <2>3
      <4> QED
        BY <1>6, <3>2, <4>1
    <3> QED
      BY <3>1, <3>2
  <2>5. k + n \in n..N /\ (k + n) - n = k
    BY <1>1, <1>2, <2>3
  <2> QED
    BY <1>11, <2>3, <2>4, <2>5
<1>13. ASSUME ~Missed(p), NEW i \in P[j] PROVE B[j] <= i
  <2>1. i \in n..N /\ i - n \in P[a] /\ Occurs(s, i - n, p, j, n)
    BY <1>10
  <2>2. B[a] <= i - n
    BY <1>5, <1>13, <2>1
  <2>3. a = 0 => i - n = 0
    BY <1>2, <2>1
  <2>4. i - n \in at
    <3>1. i - n \in B[a]..(N - n)
      BY <1>1, <1>2, <2>1, <2>2
    <3> QED
      BY <1>7, <1>8, <1>13, <2>1, <2>3, <3>1
  <2>5. PICK k \in at : k = Least(at)
    BY <1>9, <2>4, LeastIs
  <2>6. k <= i - n /\ k \in Nat /\ B[j] = k + n
    BY <1>9, <2>4, <2>5, LeastIs
  <2> QED
    BY <1>1, <2>1, <2>6
<1> QED
  BY <1>12, <1>13 DEF Reached, B, P, N

\* Inside a run nothing is taken yet; everywhere else the match is where it should be.
LEMMA BoundariesAreReached ==
    ASSUME NEW s \in Seq(STRING), NEW p \in Seq(STRING)
    PROVE  \A j \in 1..Len(p) : EndsRun(p, j) \/ p[j] = "*" => Reached(s, p, j)
<1> DEFINE K == Len(p)
           L == RunLength(p)
           B == Behind(s, p)
           T == {j \in 0..K : /\ Reached(s, p, j - L[j])
                              /\ j = 0 \/ p[j] = "*" \/ EndsRun(p, j) => Reached(s, p, j)
                              /\ j = 0 \/ ~EndsRun(p, j) => B[j] = B[j - L[j]]}
<1>1. K \in Nat
  BY LenProperties
<1>2. /\ L \in [0..K -> Nat] /\ L[0] = 0
      /\ \A i \in 1..K : L[i] = IF p[i] = "*" THEN 0 ELSE L[i - 1] + 1
  BY RunLengthIs
<1>3. /\ B \in [0..K -> Nat] /\ B[0] = 0
      /\ \A i \in 1..K : B[i] = BehindNext(s, p, i, B[i - 1])
  BY BehindIs
<1>4. \A i \in 0..K : L[i] \in 0..i
  BY RunIs
<1>5. Reached(s, p, 0)
  BY BehindIs, StandsForIs DEF Reached
<1> HIDE DEF K, L, B
<1>6. 0 \in T
  BY <1>1, <1>2, <1>5
<1>7. ASSUME NEW i \in 0..(K - 1), i \in T PROVE i + 1 \in T
  <2> DEFINE j == i + 1
  <2>1. j \in 1..K /\ j \in 0..K /\ j - 1 = i /\ i \in Nat /\ i \in 0..K /\ j # 0
    BY <1>1
  <2>2. /\ Reached(s, p, i - L[i])
        /\ i = 0 \/ p[i] = "*" \/ EndsRun(p, i) => Reached(s, p, i)
        /\ i = 0 \/ ~EndsRun(p, i) => B[i] = B[i - L[i]]
    BY <1>7
  <2>3. CASE p[j] = "*"
    <3>1. ~EndsRun(p, j) /\ L[j] = 0 /\ j - L[j] = j
      BY <1>2, <2>1, <2>3 DEF EndsRun
    <3>2. B[j] = B[i]
      BY <1>3, <2>1, <3>1 DEF BehindNext
    <3>3. i = 0 \/ p[i] = "*" \/ EndsRun(p, i)
      BY <2>3 DEF EndsRun
    <3>4. Reached(s, p, i)
      BY <2>2, <3>3
    <3>5. Reached(s, p, j)
      <4> DEFINE S == StandsFor(s, p)[i]
      <4>8. /\ StandsFor(s, p) \in [0..K -> SUBSET (0..Len(s))]
            /\ \A m \in 1..K : StandsFor(s, p)[m] = StandsNext(s, p, m, StandsFor(s, p)[m - 1])
        BY StandsForIs DEF K
      <4>1. S \in SUBSET (0..Len(s)) /\ StandsFor(s, p)[j] = StandsNext(s, p, j, S)
        BY <2>1, <4>8
      <4>2. StandsFor(s, p)[j] = UNION {k..Len(s) : k \in S}
        BY <2>3, <4>1 DEF StandsNext
      <4>3. B[i] <= Len(s) => B[i] \in S
        BY <3>4 DEF Reached, B
      <4>4. ~Missed(p) => \A k \in S : B[i] <= k
        BY <3>4 DEF Reached, B
      <4> HIDE DEF S
      <4>5. B[i] \in Nat /\ Len(s) \in Nat
        BY <1>3, <2>1, LenProperties
      <4>6. B[i] <= Len(s) => B[i] \in StandsFor(s, p)[j]
        <5>1. B[i] <= Len(s) => B[i] \in B[i]..Len(s)
          BY <4>5
        <5> QED
          BY <4>2, <4>3, <5>1
      <4>7. ASSUME ~Missed(p), NEW k \in StandsFor(s, p)[j] PROVE B[i] <= k
        <5>1. PICK m \in S : k \in m..Len(s)
          BY <4>2
        <5>2. m \in Nat /\ B[i] <= m
          BY <4>1, <4>4, <4>7
        <5> QED
          BY <4>5, <5>1, <5>2
      <4> QED
        BY <3>2, <4>6, <4>7 DEF Reached, B
    <3> QED
      BY <2>1, <3>1, <3>5
  <2>4. CASE p[j] # "*"
    <3>1. ~EndsRun(p, i) \/ i = 0
      BY <1>1, <2>1, <2>4 DEF EndsRun, K
    <3>2. L[j] = L[i] + 1 /\ L[i] \in Nat
      BY <1>2, <2>1, <2>4
    <3>3. j - L[j] = i - L[i] /\ L[j] \in 1..j
      BY <1>4, <2>1, <3>2
    <3>4. Reached(s, p, j - L[j]) /\ B[i] = B[j - L[j]]
      BY <2>2, <3>1, <3>3
    <3>5. ~EndsRun(p, j) => B[j] = B[j - L[j]]
      BY <1>3, <2>1, <3>4 DEF BehindNext
    <3>6. ASSUME EndsRun(p, j) PROVE Reached(s, p, j)
      <4>1. B[j] = Taken(s, B[i], p, j, L[j])
        BY <1>3, <2>1, <3>6 DEF BehindNext, L
      <4>2. PICK n \in 1..j : n = L[j]
        BY <3>3
      <4> QED
        BY <2>1, <3>4, <3>6, <4>1, <4>2, RunsAreReached DEF B, L, K
    <3> QED
      BY <2>1, <2>4, <3>4, <3>5, <3>6
  <2> QED
    BY <2>3, <2>4
<1>8. \A i \in 0..(K - 1) : i \in T => i + 1 \in T
  BY <1>7
<1> HIDE DEF T
<1>9. \A i \in 0..K : i \in T
  BY <1>1, <1>6, <1>8, NumbersUpTo, Zenon
<1>10. \A j \in 1..K : j \in T
  BY <1>9
<1> QED
  BY <1>10 DEF T, K

\* So the matching of the code is that of the patterns, except that a pattern with
\* a wildcard in front may be missed.
THEOREM MatchingIsByMeaning ==
    ASSUME NEW s \in Seq(STRING), NEW p \in Seq(STRING)
    PROVE  /\ Matches(s, p) => Glob(s, p)
           /\ Glob(s, p) /\ ~Missed(p) => Matches(s, p)
<1> DEFINE K == Len(p)
           N == Len(s)
           n == RunLength(p)[K]
           a == K - n
           B == Behind(s, p)
           P == StandsFor(s, p)
<1>1. K \in Nat /\ N \in Nat /\ K \in 0..K
  BY LenProperties
<1>2. /\ n \in 0..K
      /\ \A m \in (a + 1)..K : p[m] # "*"
      /\ a # 0 => p[a] = "*"
  BY <1>1, RunIs
<1>3. P[K] = StandsBehind(s, p, K, n)
  BY <1>1, RunsStand
<1>4. B[K] \in Nat /\ P[K] \in SUBSET (0..N) /\ P[0] = {0}
  BY <1>1, BehindIs, StandsForIs
<1>5. Glob(s, p) <=> N \in P[K]
  BY DEF Glob
<1>6. N \in P[K] <=> n <= N /\ N - n \in P[a] /\ Occurs(s, N - n, p, K, n)
  BY <1>1, <1>2, <1>3 DEF StandsBehind
<1>7. CASE ~Contains(p, "*")
  <2>1. \A m \in 1..K : p[m] # "*"
    BY <1>7 DEF Contains
  <2>2. a = 0 /\ n = K
    BY <1>1, <1>2, <2>1
  <2>3. Glob(s, p) <=> K <= N /\ N - K = 0 /\ Occurs(s, N - K, p, K, K)
    BY <1>4, <1>5, <1>6, <2>2
  <2>4. Matches(s, p) <=> s = p
    BY <1>7 DEF Matches
  <2>5. s = p => Glob(s, p)
    BY <1>1, <2>3 DEF Occurs
  <2>6. Glob(s, p) => s = p
    <3>1. K <= N /\ N - K = 0 => N = K
      BY <1>1
    <3>2. N = K /\ Occurs(s, N - K, p, K, K) => \A m \in 1..K : s[m] = p[m]
      BY <1>1 DEF Occurs
    <3>3. N = K /\ (\A m \in 1..K : s[m] = p[m]) => s = p
      BY SeqEqual
    <3> QED
      BY <2>3, <3>1, <3>2, <3>3
  <2> QED
    BY <2>4, <2>5, <2>6
<1>8. CASE Contains(p, "*")
  <2>1. Matches(s, p) <=> B[K] <= N /\ Occurs(s, N - n, p, K, n)
    BY <1>8 DEF Matches
  <2>2. PICK i \in 1..K : p[i] = "*"
    BY <1>8 DEF Contains
  <2>3. a \in 1..K /\ p[a] = "*"
    BY <1>1, <1>2, <2>2
  <2>4. Reached(s, p, K)
    <3>1. K \in 1..K
      BY <1>1, <2>2
    <3>2. p[K] # "*" => EndsRun(p, K)
      BY DEF EndsRun
    <3> QED
      BY <3>1, <3>2, BoundariesAreReached
  <2>5. Glob(s, p) /\ ~Missed(p) => Matches(s, p)
    BY <1>5, <1>6, <2>1, <2>4 DEF Reached
  <2>6. ASSUME Matches(s, p) PROVE Glob(s, p)
    <3>1. B[K] \in P[K]
      BY <2>1, <2>4, <2>6 DEF Reached
    <3>2. B[K] \in n..N /\ B[K] - n \in P[a]
      BY <1>3, <3>1 DEF StandsBehind
    <3>3. N - n \in (B[K] - n)..N /\ n <= N
      BY <1>1, <1>2, <3>2
    <3>4. N - n \in P[a]
      BY <2>3, <3>2, <3>3, WildcardsStretch
    <3> QED
      BY <1>5, <1>6, <2>1, <2>6, <3>3, <3>4
  <2> QED
    BY <2>5, <2>6
<1> QED
  BY <1>7, <1>8

-----------------------------------------------------------------------------
(* Authz: the order of the policies and the walk                            *)

\* A rank is five numbers.
LEMMA RankIs ==
    ASSUME NEW p \in AllPolicies
    PROVE  Rank(p) \in [1..5 -> Int]
<1> DEFINE k == Len(p.pattern)
           W == {n \in DOMAIN p.pattern : p.pattern[n] = "*"}
           wild == Cardinality(W)
<1>1. p.priority \in Int /\ p.pattern \in Seq(STRING)
  BY AuthzAssumption
<1>2. k \in Nat /\ DOMAIN p.pattern = 1..k
  BY <1>1, LenProperties
<1>3. wild \in Int
  <2>1. IsFiniteSet(1..k)
    <3>1. 1 \in Int /\ k \in Int
      BY <1>2
    <3> HIDE DEF k
    <3> QED
      BY <3>1, FS_Interval
  <2>2. IsFiniteSet(W)
    BY <1>2, <2>1, FS_Subset
  <2> QED
    BY <2>2, FS_CardinalityType
<1> HIDE DEF W
<1> DEFINE e == IF Last(p.pattern) = "*" THEN 0 ELSE 1
<1>4. e \in Int
  OBVIOUS
<1>5. Specificity(p.pattern) = <<k, k - wild, -wild, e>>
  BY DEF Specificity, W
<1> HIDE DEF k, wild, e
<1>6. k \in Int /\ k - wild \in Int /\ -wild \in Int
  BY <1>2, <1>3
<1>7. Rank(p) = <<p.priority>> \o <<k, k - wild, -wild, e>>
  BY <1>5 DEF Rank
<1>8. PICK v, a, b, c, d \in Int : v = p.priority /\ a = k /\ b = k - wild /\ c = -wild /\ d = e
  BY <1>1, <1>4, <1>6
<1>9. <<v>> \in Seq(Int) /\ Len(<<v>>) = 1 /\ <<a, b, c, d>> \in Seq(Int) /\ Len(<<a, b, c, d>>) = 4
  OBVIOUS
<1>10. <<v>> \o <<a, b, c, d>> \in Seq(Int) /\ Len(<<v>> \o <<a, b, c, d>>) = 5
  BY <1>9, ConcatProperties
<1>11. <<v>> \o <<a, b, c, d>> \in [1..5 -> Int]
  BY <1>10, LenProperties
<1> QED
  BY <1>7, <1>8, <1>11

\* To be above is to be so in the order of the ranks.
LEMMA AboveIsAnOrder ==
    ASSUME NEW p \in AllPolicies, NEW q \in AllPolicies, NEW r \in AllPolicies
    PROVE  /\ ~Above(p, p)
           /\ Above(p, q) /\ Above(q, r) => Above(p, r)
<1> DEFINE a == Rank(p)
           b == Rank(q)
           c == Rank(r)
<1>1. a \in [1..5 -> Int] /\ b \in [1..5 -> Int] /\ c \in [1..5 -> Int]
  BY RankIs
<1>2. /\ Above(p, p) <=> \E n \in 1..5 : a[n] > a[n] /\ \A m \in 1..(n - 1) : a[m] = a[m]
      /\ Above(p, q) <=> \E n \in 1..5 : a[n] > b[n] /\ \A m \in 1..(n - 1) : a[m] = b[m]
      /\ Above(q, r) <=> \E n \in 1..5 : b[n] > c[n] /\ \A m \in 1..(n - 1) : b[m] = c[m]
      /\ Above(p, r) <=> \E n \in 1..5 : a[n] > c[n] /\ \A m \in 1..(n - 1) : a[m] = c[m]
  BY DEF Above
<1> HIDE DEF a, b, c
<1>3. ~Above(p, p)
  BY <1>1, <1>2
<1>4. ASSUME Above(p, q), Above(q, r) PROVE Above(p, r)
  <2>1. PICK n \in 1..5 : a[n] > b[n] /\ \A m \in 1..(n - 1) : a[m] = b[m]
    BY <1>2, <1>4
  <2>2. PICK l \in 1..5 : b[l] > c[l] /\ \A m \in 1..(l - 1) : b[m] = c[m]
    BY <1>2, <1>4
  <2>3. CASE n <= l
    <3>1. a[n] > c[n]
      <4>1. b[n] >= c[n]
        BY <1>1, <2>2, <2>3
      <4> QED
        BY <1>1, <2>1, <4>1
    <3>2. \A m \in 1..(n - 1) : a[m] = c[m]
      BY <2>1, <2>2, <2>3
    <3> QED
      BY <1>2, <3>1, <3>2
  <2>4. CASE l < n
    <3>1. a[l] = b[l] /\ a[l] > c[l]
      BY <1>1, <2>1, <2>2, <2>4
    <3>2. \A m \in 1..(l - 1) : a[m] = c[m]
      BY <2>1, <2>2, <2>4
    <3> QED
      BY <1>2, <3>1, <3>2
  <2> QED
    BY <2>3, <2>4
<1> QED
  BY <1>3, <1>4

InsertedAt(t, s, i, e) ==
    /\ Len(t) = Len(s) + 1 /\ t[i] = e
    /\ \A n \in 1..(i - 1) : t[n] = s[n]
    /\ \A n \in (i + 1)..(Len(s) + 1) : t[n] = s[n - 1]

\* What is inserted joins what was there.
LEMMA InsertKeeps ==
    ASSUME NEW S, NEW s \in Seq(S), NEW e \in S, NEW i \in 1..(Len(s) + 1)
    PROVE  /\ InsertAt(s, i, e) \in Seq(S)
           /\ ToSet(InsertAt(s, i, e)) = ToSet(s) \cup {e}
           /\ InsertedAt(InsertAt(s, i, e), s, i, e)
<1> DEFINE k == Len(s)
           before == SubSeq(s, 1, i - 1)
           behind == SubSeq(s, i, k)
           middle == before \o <<e>>
           all == middle \o behind
<1>1. k \in Nat /\ DOMAIN s = 1..k /\ i \in Nat /\ i >= 1 /\ i <= k + 1
      /\ \A n \in 1..k : s[n] \in S
  <2>1. k \in Nat /\ DOMAIN s = 1..k
    BY LenProperties
  <2>2. \A n \in 1..k : s[n] \in S
    BY ElementOfSeq
  <2> QED
    BY <2>1, <2>2
<1> HIDE DEF k
<1>2. /\ before \in Seq(S) /\ Len(before) = i - 1
      /\ \A n \in 1..(i - 1) : before[n] = s[n]
  <2>1. 1 \in Int /\ i - 1 \in Int /\ \A n \in 1..(i - 1) : s[n] \in S
    BY <1>1
  <2>2. /\ before \in Seq(S)
        /\ Len(before) = IF 1 <= i - 1 THEN (i - 1) - 1 + 1 ELSE 0
        /\ \A n \in 1..((i - 1) - 1 + 1) : before[n] = s[1 + n - 1]
    BY <2>1, SubSeqProperties
  <2> HIDE DEF before
  <2>3. Len(before) = i - 1 /\ (i - 1) - 1 + 1 = i - 1 /\ \A n \in 1..(i - 1) : 1 + n - 1 = n
    BY <1>1, <2>2
  <2> QED
    BY <2>2, <2>3
<1>3. /\ behind \in Seq(S) /\ Len(behind) = k - i + 1
      /\ \A n \in 1..(k - i + 1) : behind[n] = s[i + n - 1]
  <2>1. k \in Int /\ i \in Int /\ \A n \in i..k : s[n] \in S
    BY <1>1
  <2>2. /\ behind \in Seq(S)
        /\ Len(behind) = IF i <= k THEN k - i + 1 ELSE 0
        /\ \A n \in 1..(k - i + 1) : behind[n] = s[i + n - 1]
    BY <2>1, SubSeqProperties
  <2> HIDE DEF behind
  <2> QED
    BY <1>1, <2>2
<1>4. <<e>> \in Seq(S) /\ Len(<<e>>) = 1 /\ <<e>>[1] = e
  OBVIOUS
<1> HIDE DEF before, behind
<1>5. /\ middle \in Seq(S) /\ Len(middle) = i
      /\ \A n \in 1..(i - 1) : middle[n] = s[n]
      /\ middle[i] = e
  <2>1. /\ middle \in Seq(S) /\ Len(middle) = Len(before) + Len(<<e>>)
        /\ \A n \in 1..(Len(before) + Len(<<e>>)) :
              middle[n] = IF n <= Len(before) THEN before[n] ELSE <<e>>[n - Len(before)]
    BY <1>2, <1>4, ConcatProperties
  <2> HIDE DEF middle
  <2>2. Len(middle) = i /\ middle[i] = <<e>>[i - (i - 1)] /\ i - (i - 1) = 1
    BY <1>1, <1>2, <1>4, <2>1
  <2>3. \A n \in 1..(i - 1) : middle[n] = s[n]
    BY <1>1, <1>2, <1>4, <2>1
  <2> QED
    BY <1>4, <2>1, <2>2, <2>3
<1> HIDE DEF middle
<1>6. /\ all \in Seq(S) /\ Len(all) = k + 1
      /\ \A n \in 1..(i - 1) : all[n] = s[n]
      /\ all[i] = e
      /\ \A n \in (i + 1)..(k + 1) : all[n] = s[n - 1]
  <2>1. /\ all \in Seq(S) /\ Len(all) = Len(middle) + Len(behind)
        /\ \A n \in 1..(Len(middle) + Len(behind)) :
              all[n] = IF n <= Len(middle) THEN middle[n] ELSE behind[n - Len(middle)]
    BY <1>3, <1>5, ConcatProperties
  <2> HIDE DEF all
  <2>2. Len(all) = k + 1 /\ Len(middle) + Len(behind) = k + 1
    BY <1>1, <1>3, <1>5, <2>1
  <2>3. \A n \in 1..(k + 1) : all[n] = IF n <= i THEN middle[n] ELSE behind[n - i]
    BY <1>5, <2>1, <2>2
  <2>4. \A n \in 1..(i - 1) : all[n] = s[n]
    BY <1>1, <1>5, <2>3
  <2>5. all[i] = e
    BY <1>1, <1>5, <2>3
  <2>6. ASSUME NEW n \in (i + 1)..(k + 1) PROVE all[n] = s[n - 1]
    <3>1. all[n] = behind[n - i]
      BY <1>1, <2>3
    <3>2. n - i \in 1..(k - i + 1) /\ i + (n - i) - 1 = n - 1
      BY <1>1
    <3> QED
      BY <1>3, <3>1, <3>2
  <2> QED
    BY <2>1, <2>2, <2>4, <2>5, <2>6
<1>7. InsertAt(s, i, e) = all
  BY DEF InsertAt, all, middle, before, behind, k
<1> HIDE DEF all
<1>8. DOMAIN all = 1..(k + 1)
  BY <1>6, LenProperties
<1>9. \A x \in ToSet(all) : x \in ToSet(s) \cup {e}
  <2> SUFFICES ASSUME NEW n \in 1..(k + 1) PROVE all[n] \in ToSet(s) \cup {e}
    BY <1>8 DEF ToSet
  <2>1. CASE n < i
    <3>1. n \in 1..(i - 1) /\ n \in 1..k
      BY <1>1, <2>1
    <3> QED
      BY <1>1, <1>6, <3>1 DEF ToSet
  <2>2. CASE n = i
    BY <1>6, <2>2
  <2>3. CASE n > i
    <3>1. n \in (i + 1)..(k + 1) /\ n - 1 \in 1..k
      BY <1>1, <2>3
    <3> QED
      BY <1>1, <1>6, <3>1 DEF ToSet
  <2> QED
    BY <1>1, <2>1, <2>2, <2>3
<1>10. e \in ToSet(all)
  <2>1. i \in 1..(k + 1)
    BY <1>1
  <2> QED
    BY <1>6, <1>8, <2>1 DEF ToSet
<1>11. \A x \in ToSet(s) : x \in ToSet(all)
  <2> SUFFICES ASSUME NEW n \in 1..k PROVE s[n] \in ToSet(all)
    BY <1>1 DEF ToSet
  <2>1. CASE n < i
    <3>1. n \in 1..(i - 1) /\ n \in 1..(k + 1)
      BY <1>1, <2>1
    <3> QED
      BY <1>6, <1>8, <3>1 DEF ToSet
  <2>2. CASE n >= i
    <3>1. n + 1 \in (i + 1)..(k + 1) /\ n + 1 \in 1..(k + 1) /\ (n + 1) - 1 = n
      BY <1>1, <2>2
    <3>2. all[n + 1] = s[n]
      BY <1>6, <3>1
    <3> QED
      BY <1>8, <3>1, <3>2 DEF ToSet
  <2> QED
    BY <1>1, <2>1, <2>2
<1> QED
  BY <1>6, <1>7, <1>9, <1>10, <1>11 DEF InsertedAt, k

\* So does a policy that is sorted in.
LEMMA SortedInKeeps ==
    ASSUME NEW s \in Seq(AllPolicies), NEW p \in AllPolicies
    PROVE  /\ SortedIn(s, p) \in Seq(AllPolicies)
           /\ ToSet(SortedIn(s, p)) = ToSet(s) \cup {p}
<1> DEFINE k == Len(s)
           W == {n \in DOMAIN s : ~Above(p, s[n])}
           i == 1 + Cardinality(W)
<1>1. k \in Nat /\ DOMAIN s = 1..k
  BY LenProperties
<1>2. IsFiniteSet(1..k) /\ Cardinality(1..k) = k
  <2>1. 1 \in Int /\ k \in Int
    BY <1>1
  <2> HIDE DEF k
  <2>2. IsFiniteSet(1..k) /\ Cardinality(1..k) = IF 1 > k THEN 0 ELSE k - 1 + 1
    BY <2>1, FS_Interval
  <2> QED
    BY <1>1, <2>2
<1>3. W \in SUBSET (1..k)
  BY <1>1
<1> HIDE DEF W, k
<1>4. Cardinality(W) \in Nat /\ Cardinality(W) <= k
  BY <1>2, <1>3, FS_Subset, FS_CardinalityType
<1>5. i \in 1..(Len(s) + 1)
  BY <1>1, <1>4 DEF k
<1>6. SortedIn(s, p) = InsertAt(s, i, p)
  BY DEF SortedIn, W
<1> HIDE DEF i
<1> QED
  BY <1>5, <1>6, InsertKeeps

\* Sorting keeps the policies.
LEMMA SortedKeeps ==
    ASSUME NEW P \in Seq(AllPolicies)
    PROVE  Sorted(P) \in Seq(AllPolicies) /\ ToSet(Sorted(P)) = ToSet(P)
<1> DEFINE k == Len(P)
           V == Seq(AllPolicies)
           F == [n \in 1..k |-> [s \in V |-> SortedIn(s, P[n])]]
           g == CHOOSE h : h = [n \in 0..k |-> IF n = 0 THEN <<>> ELSE SortedIn(h[n - 1], P[n])]
           First(n) == {P[m] : m \in 1..n}
<1>1. k \in Nat /\ DOMAIN P = 1..k /\ \A n \in 1..k : P[n] \in AllPolicies
  BY LenProperties, ElementOfSeq
<1>2. Sorted(P) = g[k]
  BY DEF Sorted
<1>3. \A n \in 1..k, s \in V :
         SortedIn(s, P[n]) \in V /\ ToSet(SortedIn(s, P[n])) = ToSet(s) \cup {P[n]}
  BY <1>1, SortedInKeeps
<1>4. <<>> \in V /\ ToSet(<<>>) = {}
  BY EmptySeq DEF ToSet
<1> HIDE DEF k, V
<1>5. F \in [1..k -> [V -> V]]
  BY <1>3
<1>6. PICK f \in [0..k -> V] : Iterates(f, <<>>, k, F)
  BY <1>1, <1>4, <1>5, FunctionsByRecursion
<1>7. f = [n \in 0..k |-> IF n = 0 THEN <<>> ELSE SortedIn(f[n - 1], P[n])]
  <2>1. \A n \in 1..k : f[n - 1] \in V
    BY <1>1, <1>6
  <2>2. \A n \in 1..k : f[n] = SortedIn(f[n - 1], P[n])
    BY <1>6, <2>1 DEF Iterates
  <2>3. f[0] = <<>> /\ f = [n \in 0..k |-> f[n]]
    BY <1>6 DEF Iterates
  <2>4. \A n \in 0..k : f[n] = IF n = 0 THEN <<>> ELSE SortedIn(f[n - 1], P[n])
    <3>1. \A n \in 0..k : n = 0 \/ n \in 1..k
      BY <1>1
    <3> QED
      BY <2>2, <2>3, <3>1
  <2> QED
    BY <2>3, <2>4
<1>8. g = [n \in 0..k |-> IF n = 0 THEN <<>> ELSE SortedIn(g[n - 1], P[n])]
  BY <1>7
<1> HIDE DEF g, F
<1>9. g[0] = <<>> /\ \A n \in 1..k : g[n] = SortedIn(g[n - 1], P[n])
  <2>1. \A n \in 0..k : g[n] = IF n = 0 THEN <<>> ELSE SortedIn(g[n - 1], P[n])
    BY <1>8, Zenon
  <2>2. 0 \in 0..k /\ \A n \in 1..k : n # 0 /\ n \in 0..k
    BY <1>1
  <2> QED
    BY <2>1, <2>2, Zenon
<1> DEFINE T == {n \in 0..k : g[n] \in V /\ ToSet(g[n]) = First(n)}
<1>10. 0 \in T
  BY <1>1, <1>4, <1>9
<1>11. ASSUME NEW n \in 0..(k - 1), n \in T PROVE n + 1 \in T
  <2>1. n + 1 \in 1..k /\ n + 1 \in 0..k /\ (n + 1) - 1 = n
    BY <1>1
  <2>2. g[n + 1] = SortedIn(g[n], P[n + 1])
    BY <1>9, <2>1
  <2>3. g[n + 1] \in V /\ ToSet(g[n + 1]) = First(n) \cup {P[n + 1]}
    BY <1>3, <1>11, <2>1, <2>2
  <2>4. First(n + 1) = First(n) \cup {P[n + 1]}
    <3>1. 1..(n + 1) = 1..n \cup {n + 1}
      BY <1>1
    <3> QED
      BY <3>1
  <2> QED
    BY <2>1, <2>3, <2>4
<1> HIDE DEF T
<1>12. \A n \in 0..(k - 1) : n \in T => n + 1 \in T
  BY <1>11
<1>13. k \in T
  <2>1. \A n \in 0..k : n \in T
    BY <1>1, <1>10, <1>12, NumbersUpTo, Zenon
  <2> QED
    BY <1>1, <2>1
<1>14. First(k) = ToSet(P)
  BY <1>1 DEF ToSet
<1> QED
  BY <1>2, <1>13, <1>14 DEF T, V

Walks == [denied : BOOLEAN, consent : BOOLEAN, chosen : {<<>>} \cup {<<p>> : p \in AllPolicies}]

\* One turn: it denies, chooses, only notes a missing consent, or passes the policy by.
TurnsTo(w, p, r, x) ==
    /\ w.denied \/ ~AppliesTo(p, r) => x = w
    /\ ~w.denied /\ AppliesTo(p, r) =>
          /\ x.consent <=> w.consent \/ MissesConsent(p, r)
          /\ ~AllTrue(p, r) => x.denied = FALSE /\ x.chosen = w.chosen
          /\ AllTrue(p, r) /\ p.effect = "Deny" => x.denied = TRUE /\ x.chosen = <<p>>
          /\ AllTrue(p, r) /\ p.effect # "Deny" =>
                /\ x.denied = FALSE
                /\ x.chosen = IF w.chosen = <<>> \/ Above(p, w.chosen[1]) THEN <<p>> ELSE w.chosen

\* The walk of the code turns so, and stays a walk.
LEMMA WalkTurns ==
    ASSUME NEW w \in Walks, NEW p \in AllPolicies, NEW r
    PROVE  Walk(w, p, r) \in Walks /\ TurnsTo(w, p, r, Walk(w, p, r))
<1>1. PICK b \in BOOLEAN : b = (w.consent \/ MissesConsent(p, r))
  OBVIOUS
<1> DEFINE seen == [w EXCEPT !.consent = w.consent \/ MissesConsent(p, r)]
<1>2. PICK d \in BOOLEAN, c \in {<<>>} \cup {<<q>> : q \in AllPolicies} : d = w.denied /\ c = w.chosen
  BY DEF Walks
<1>3. seen = [denied |-> d, consent |-> b, chosen |-> c]
  BY <1>1, <1>2 DEF Walks
<1>4. Walk(w, p, r) = 
         IF w.denied \/ ~AppliesTo(p, r) THEN w
         ELSE IF ~AllTrue(p, r) THEN seen
         ELSE IF p.effect = "Deny" THEN [seen EXCEPT !.denied = TRUE, !.chosen = <<p>>]
         ELSE IF w.chosen = <<>> \/ Above(p, w.chosen[1]) THEN [seen EXCEPT !.chosen = <<p>>]
         ELSE seen
  BY DEF Walk
<1> HIDE DEF seen
<1>5. <<p>> \in {<<>>} \cup {<<q>> : q \in AllPolicies}
  OBVIOUS
<1>6. PICK e \in {<<>>} \cup {<<q>> : q \in AllPolicies} : e = <<p>>
  BY <1>5
<1>7. /\ [seen EXCEPT !.denied = TRUE, !.chosen = e] = [denied |-> TRUE, consent |-> b, chosen |-> e]
      /\ [seen EXCEPT !.chosen = e] = [denied |-> d, consent |-> b, chosen |-> e]
  <2>1. PICK t \in BOOLEAN : t = TRUE
    OBVIOUS
  <2> DEFINE f == [seen EXCEPT !.denied = t]
  <2>2. f = [denied |-> t, consent |-> b, chosen |-> c]
    BY <1>3
  <2>3. [seen EXCEPT !.denied = t, !.chosen = e] = [f EXCEPT !.chosen = e]
    OBVIOUS
  <2> HIDE DEF f
  <2>4. [f EXCEPT !.chosen = e] = [denied |-> t, consent |-> b, chosen |-> e]
    BY <2>2
  <2>5. [seen EXCEPT !.chosen = e] = [denied |-> d, consent |-> b, chosen |-> e]
    BY <1>3
  <2> QED
    BY <2>1, <2>3, <2>4, <2>5
<1> DEFINE x == Walk(w, p, r)
<1> HIDE DEF x
<1>12. x = Walk(w, p, r)
  BY DEF x
<1>8. CASE w.denied \/ ~AppliesTo(p, r)
  BY <1>4, <1>8 DEF TurnsTo
<1>9. CASE ~w.denied /\ AppliesTo(p, r) /\ ~AllTrue(p, r)
  <2>1. Walk(w, p, r) = [denied |-> d, consent |-> b, chosen |-> c]
    BY <1>3, <1>4, <1>9
  <2>2. x \in Walks /\ x.denied = d /\ x.consent = b /\ x.chosen = c
    BY <1>1, <1>2, <1>6, <1>12, <2>1 DEF Walks
  <2>3. TurnsTo(w, p, r, x)
    BY <1>1, <1>2, <1>6, <1>9, <2>2 DEF TurnsTo
  <2> QED
    BY <1>12, <2>2, <2>3
<1>10. CASE ~w.denied /\ AppliesTo(p, r) /\ AllTrue(p, r) /\ p.effect = "Deny"
  <2>1. Walk(w, p, r) = [denied |-> TRUE, consent |-> b, chosen |-> e]
    BY <1>4, <1>6, <1>7, <1>10
  <2>2. x \in Walks /\ x.denied = TRUE /\ x.consent = b /\ x.chosen = e
    BY <1>1, <1>2, <1>6, <1>12, <2>1 DEF Walks
  <2>3. TurnsTo(w, p, r, x)
    BY <1>1, <1>2, <1>6, <1>10, <2>2 DEF TurnsTo
  <2> QED
    BY <1>12, <2>2, <2>3
<1>11. CASE ~w.denied /\ AppliesTo(p, r) /\ AllTrue(p, r) /\ p.effect # "Deny"
  <2>1. Walk(w, p, r) = [denied |-> d, consent |-> b,
                         chosen |-> IF c = <<>> \/ Above(p, c[1]) THEN e ELSE c]
    BY <1>2, <1>3, <1>4, <1>6, <1>7, <1>11
  <2>2. x \in Walks /\ x.denied = d /\ x.consent = b /\ x.chosen = (IF c = <<>> \/ Above(p, c[1]) THEN e ELSE c)
    BY <1>1, <1>2, <1>6, <1>12, <2>1 DEF Walks
  <2>3. TurnsTo(w, p, r, x)
    BY <1>1, <1>2, <1>6, <1>11, <2>2 DEF TurnsTo
  <2> QED
    BY <1>12, <2>2, <2>3
<1> QED
  BY <1>8, <1>9, <1>10, <1>11

\* What has been found when the policies of S have been walked.
Counts(p, r) == AppliesTo(p, r) /\ AllTrue(p, r)

Verdict(S, r, w) ==
    /\ w.denied => w.chosen # <<>> /\ w.chosen[1].effect = "Deny"
    /\ ~w.denied =>
          /\ \A p \in S : Counts(p, r) => p.effect # "Deny"
          /\ ~w.consent => \A p \in S : AppliesTo(p, r) => ~MissesConsent(p, r)
          /\ w.chosen = <<>> => \A p \in S : ~Counts(p, r)
          /\ w.chosen # <<>> =>
                /\ w.chosen[1] \in S /\ Counts(w.chosen[1], r)
                /\ \A q \in S : Counts(q, r) => ~Above(q, w.chosen[1])

\* One more turn makes the verdict of one more policy.
LEMMA VerdictGrows ==
    ASSUME NEW S \in SUBSET AllPolicies, NEW w \in Walks, NEW p \in AllPolicies, NEW r,
           Verdict(S, r, w)
    PROVE  Verdict(S \cup {p}, r, Walk(w, p, r))
<1> DEFINE x == Walk(w, p, r)
<1>1. x \in Walks /\ TurnsTo(w, p, r, x)
  BY WalkTurns
<1>2. <<p>> # <<>> /\ <<p>>[1] = p
  OBVIOUS
<1>3. w.chosen # <<>> => w.chosen[1] \in AllPolicies
  BY DEF Walks
<1> HIDE DEF x
<1>4. CASE w.denied
  <2>1. x = w
    BY <1>1, <1>4 DEF TurnsTo
  <2> QED
    BY <1>4, <2>1 DEF Verdict, x
<1>5. CASE ~w.denied /\ ~AppliesTo(p, r)
  <2>1. x = w
    BY <1>1, <1>5 DEF TurnsTo
  <2> QED
    BY <1>5, <2>1 DEF Verdict, Counts, x
<1>6. CASE ~w.denied /\ AppliesTo(p, r) /\ ~AllTrue(p, r)
  <2>1. x.denied = FALSE /\ x.chosen = w.chosen /\ (x.consent <=> w.consent \/ MissesConsent(p, r))
    BY <1>1, <1>6 DEF TurnsTo
  <2>2. ~Counts(p, r)
    BY <1>6 DEF Counts
  <2> QED
    BY <1>6, <2>1, <2>2 DEF Verdict, x
<1>7. CASE ~w.denied /\ AppliesTo(p, r) /\ AllTrue(p, r) /\ p.effect = "Deny"
  <2>1. x.denied = TRUE /\ x.chosen = <<p>>
    BY <1>1, <1>7 DEF TurnsTo
  <2> QED
    BY <1>2, <1>7, <2>1 DEF Verdict, x
<1>8. CASE ~w.denied /\ AppliesTo(p, r) /\ AllTrue(p, r) /\ p.effect # "Deny"
  <2>1. /\ x.denied = FALSE /\ (x.consent <=> w.consent \/ MissesConsent(p, r))
        /\ x.chosen = IF w.chosen = <<>> \/ Above(p, w.chosen[1]) THEN <<p>> ELSE w.chosen
    BY <1>1, <1>8 DEF TurnsTo
  <2>2. Counts(p, r)
    BY <1>8 DEF Counts
  <2>3. /\ \A q \in S \cup {p} : Counts(q, r) => q.effect # "Deny"
        /\ ~x.consent => \A q \in S \cup {p} : AppliesTo(q, r) => ~MissesConsent(q, r)
    BY <1>8, <2>1 DEF Verdict
  <2>4. x.chosen # <<>> /\ x.chosen[1] \in S \cup {p} /\ Counts(x.chosen[1], r)
    <3>1. CASE w.chosen = <<>> \/ Above(p, w.chosen[1])
      BY <1>2, <2>1, <2>2, <3>1
    <3>2. CASE w.chosen # <<>> /\ ~Above(p, w.chosen[1])
      BY <1>8, <2>1, <3>2 DEF Verdict
    <3> QED
      BY <3>1, <3>2
  <2>5. ASSUME NEW q \in S \cup {p}, Counts(q, r) PROVE ~Above(q, x.chosen[1])
    <3>1. q \in AllPolicies
      OBVIOUS
    <3>2. CASE w.chosen = <<>>
      <4>1. q = p
        BY <1>8, <2>5, <3>2 DEF Verdict
      <4>2. x.chosen[1] = p
        BY <1>2, <2>1, <3>2
      <4> QED
        BY <4>1, <4>2, AboveIsAnOrder
    <3>3. CASE w.chosen # <<>> /\ Above(p, w.chosen[1])
      <4>1. x.chosen[1] = p
        BY <1>2, <2>1, <3>3
      <4>2. CASE q = p
        BY <4>1, <4>2, AboveIsAnOrder
      <4>3. CASE q \in S
        <5>1. ~Above(q, w.chosen[1]) /\ w.chosen[1] \in AllPolicies
          BY <1>3, <1>8, <2>5, <3>3, <4>3 DEF Verdict
        <5>2. Above(q, p) /\ Above(p, w.chosen[1]) => Above(q, w.chosen[1])
          BY <3>1, <5>1, AboveIsAnOrder
        <5> QED
          BY <3>3, <4>1, <5>1, <5>2
      <4> QED
        BY <4>2, <4>3
    <3>4. CASE w.chosen # <<>> /\ ~Above(p, w.chosen[1])
      BY <1>8, <2>1, <2>5, <3>4 DEF Verdict
    <3> QED
      BY <3>2, <3>3, <3>4
  <2> QED
    BY <1>8, <2>1, <2>3, <2>4, <2>5 DEF Verdict, x
<1> QED
  BY <1>4, <1>5, <1>6, <1>7, <1>8

\* So the walk of the sorted policies is the verdict of them all.
LEMMA WalkedIs ==
    ASSUME NEW P \in Seq(AllPolicies), NEW r
    PROVE  Walked(P, r) \in Walks /\ Verdict(ToSet(P), r, Walked(P, r))
<1> DEFINE s == Sorted(P)
           k == Len(s)
           first == [denied |-> FALSE, consent |-> FALSE, chosen |-> <<>>]
           F == [n \in 1..k |-> [w \in Walks |-> Walk(w, s[n], r)]]
           g == CHOOSE h : h = [n \in 0..k |-> IF n = 0 THEN first ELSE Walk(h[n - 1], s[n], r)]
           First(n) == {s[m] : m \in 1..n}
<1>1. s \in Seq(AllPolicies) /\ ToSet(s) = ToSet(P)
  BY SortedKeeps
<1>2. Walked(P, r) = g[k]
  BY DEF Walked
<1> HIDE DEF s
<1>3. k \in Nat /\ DOMAIN s = 1..k /\ \A n \in 1..k : s[n] \in AllPolicies
  BY <1>1, LenProperties, ElementOfSeq
<1>4. first \in Walks /\ first.denied = FALSE /\ first.consent = FALSE /\ first.chosen = <<>>
  BY DEF Walks
<1>5. \A n \in 1..k, w \in Walks : Walk(w, s[n], r) \in Walks
  BY <1>3, WalkTurns
<1> HIDE DEF k, first
<1>6. F \in [1..k -> [Walks -> Walks]]
  BY <1>5
<1>7. PICK f \in [0..k -> Walks] : Iterates(f, first, k, F)
  BY <1>3, <1>4, <1>6, FunctionsByRecursion
<1>8. f = [n \in 0..k |-> IF n = 0 THEN first ELSE Walk(f[n - 1], s[n], r)]
  <2>1. \A n \in 1..k : f[n - 1] \in Walks
    BY <1>3, <1>7
  <2>2. \A n \in 1..k : f[n] = Walk(f[n - 1], s[n], r)
    BY <1>7, <2>1 DEF Iterates
  <2>3. f[0] = first /\ f = [n \in 0..k |-> f[n]]
    BY <1>7 DEF Iterates
  <2>4. \A n \in 0..k : f[n] = IF n = 0 THEN first ELSE Walk(f[n - 1], s[n], r)
    <3>1. \A n \in 0..k : n = 0 \/ n \in 1..k
      BY <1>3
    <3> QED
      BY <2>2, <2>3, <3>1
  <2> QED
    BY <2>3, <2>4
<1>9. g = [n \in 0..k |-> IF n = 0 THEN first ELSE Walk(g[n - 1], s[n], r)]
  BY <1>8
<1> HIDE DEF g, F
<1>10. g[0] = first /\ \A n \in 1..k : g[n] = Walk(g[n - 1], s[n], r)
  <2>1. \A n \in 0..k : g[n] = IF n = 0 THEN first ELSE Walk(g[n - 1], s[n], r)
    BY <1>9, Zenon
  <2>2. 0 \in 0..k /\ \A n \in 1..k : n # 0 /\ n \in 0..k
    BY <1>3
  <2> QED
    BY <2>1, <2>2, Zenon
<1> DEFINE T == {n \in 0..k : g[n] \in Walks /\ Verdict(First(n), r, g[n])}
<1>11. 0 \in T
  <2>1. First(0) = {}
    OBVIOUS
  <2>2. Verdict({}, r, first)
    BY <1>4 DEF Verdict
  <2>3. Verdict(First(0), r, g[0])
    BY <1>10, <2>1, <2>2, Zenon
  <2>4. 0 \in 0..k /\ g[0] \in Walks
    BY <1>3, <1>4, <1>10
  <2> QED
    BY <2>3, <2>4
<1>12. ASSUME NEW n \in 0..(k - 1), n \in T PROVE n + 1 \in T
  <2>1. n + 1 \in 1..k /\ n + 1 \in 0..k /\ (n + 1) - 1 = n
    BY <1>3
  <2>2. g[n + 1] = Walk(g[n], s[n + 1], r) /\ s[n + 1] \in AllPolicies
    BY <1>3, <1>10, <2>1
  <2>3. First(n) \in SUBSET AllPolicies
    BY <1>3
  <2>4. First(n + 1) = First(n) \cup {s[n + 1]}
    <3>1. 1..(n + 1) = 1..n \cup {n + 1}
      BY <1>3
    <3> QED
      BY <3>1
  <2>5. g[n + 1] \in Walks
    BY <1>12, <2>2, WalkTurns
  <2>6. Verdict(First(n) \cup {s[n + 1]}, r, g[n + 1])
    BY <1>12, <2>2, <2>3, VerdictGrows
  <2> QED
    BY <2>1, <2>4, <2>5, <2>6
<1> HIDE DEF T
<1>13. \A n \in 0..(k - 1) : n \in T => n + 1 \in T
  BY <1>12
<1>14. k \in T
  <2>1. \A n \in 0..k : n \in T
    BY <1>3, <1>11, <1>13, NumbersUpTo, Zenon
  <2> QED
    BY <1>3, <2>1
<1>15. First(k) = ToSet(P)
  BY <1>1, <1>3 DEF ToSet
<1> QED
  BY <1>2, <1>14, <1>15 DEF T

-----------------------------------------------------------------------------
(* Authz: what the policies permit                                          *)

\* A policy of the walk is one that matches, and one that matches and is not missed
\* has been walked: what the walk chose is what the policies permit.
LEMMA VerdictPermits ==
    ASSUME NEW P \in Seq(AllPolicies), NEW r \in Requests, NEW w \in Walks, NEW effect,
           effect \in {"Allow", "Degrade"}, Verdict(ToSet(P), r, w), w.chosen # <<>>,
           w.chosen[1].effect \in {effect, "Allow"}, effect = "Allow" => ~w.consent
    PROVE  Permits(P, r, effect)
<1> DEFINE chosen == w.chosen[1]
<1>1. ~w.denied
  BY DEF Verdict
<1>2. \A p \in ToSet(P) : p \in AllPolicies
  BY ElementOfSeq, LenProperties DEF ToSet
<1>3. \A p \in ToSet(P) : /\ Matches(r.resource, p.pattern) => Glob(r.resource, p.pattern)
                          /\ Glob(r.resource, p.pattern) /\ ~Missed(p.pattern)
                                => Matches(r.resource, p.pattern)
  <2> SUFFICES ASSUME NEW p \in ToSet(P)
               PROVE  /\ Matches(r.resource, p.pattern) => Glob(r.resource, p.pattern)
                      /\ Glob(r.resource, p.pattern) /\ ~Missed(p.pattern)
                            => Matches(r.resource, p.pattern)
    OBVIOUS
  <2>1. p.pattern \in Seq(STRING) /\ r.resource \in Seq(STRING)
    BY <1>2, AuthzAssumption
  <2> QED
    BY <2>1, MatchingIsByMeaning
<1>4. \A p \in Seen(Relevant(P, r)) : p \in ToSet(P) /\ AppliesTo(p, r)
  BY <1>3 DEF Seen, Relevant, AppliesTo
<1>5. \A p \in Seen(Matching(P, r)) : p \in ToSet(P) /\ Counts(p, r)
  BY <1>4 DEF Seen, Matching, Counts
<1>6. \A p \in ToSet(P) : Counts(p, r) => p \in Matching(P, r)
  BY <1>3 DEF Counts, AppliesTo, Matching, Relevant
<1>7. \A p \in Seen(Matching(P, r)) : p.effect # "Deny"
  BY <1>1, <1>5 DEF Verdict
<1>8. chosen \in Matching(P, r) /\ \A q \in Seen(Matching(P, r)) : ~Above(q, chosen)
  BY <1>1, <1>5, <1>6 DEF Verdict
<1>9. effect = "Allow" => \A p \in Seen(Relevant(P, r)) : ~MissesConsent(p, r)
  BY <1>1, <1>4 DEF Verdict
<1> HIDE DEF chosen
<1>10. chosen.effect \in {effect, "Allow"}
  BY DEF chosen
<1> QED
  BY <1>7, <1>8, <1>9, <1>10 DEF Permits

\* A caller that waits for the quota was allowed by the policies it read, one that is
\* done has an answer they permit.
WalkOf(a) == Walked(PoliciesOf(a.request.tenant, a.later), a.request)

AnswerFit(a) ==
    /\ a.step \in {"idem", "spend", "count"} =>
          /\ a.request \in Requests /\ a.later \in Seq(LaterPolicies)
          /\ PolicyEffect(WalkOf(a), a.request) = "Allow"
    /\ a.step = "done" /\ a.effect \in {"Allow", "Degrade"} =>
          Permits(PoliciesOf(a.request.tenant, a.later), a.request, a.effect)

PermitInv ==
    /\ auth = [c \in Callers |-> auth[c]]
    /\ pushed \in [Tenants -> Seq(LaterPolicies)]
    /\ \A c \in Callers : AnswerFit(auth[c])

\* What is read of the policies is a sequence of policies.
LEMMA PoliciesAre ==
    ASSUME NEW t \in Tenants, NEW later \in Seq(LaterPolicies)
    PROVE  PoliciesOf(t, later) \in Seq(AllPolicies)
<1>1. FirstPolicies[t] \in Seq(AllPolicies)
  BY AuthzAssumption
<1>2. later \in Seq(AllPolicies)
  <2>1. \A n \in 1..Len(later) : later[n] \in AllPolicies
    BY ElementOfSeq DEF AllPolicies
  <2>2. Len(later) \in Nat /\ later = [n \in 1..Len(later) |-> later[n]]
    BY LenProperties
  <2> QED
    BY <2>1, <2>2, SeqDef
<1> QED
  BY <1>1, <1>2, ConcatProperties DEF PoliciesOf

\* What is allowed or degraded is so by the policy that was chosen.
LEMMA AnswerFits ==
    ASSUME NEW r \in Requests, NEW later \in Seq(LaterPolicies), NEW quota,
           PolicyEffect(Walked(PoliciesOf(r.tenant, later), r), r) \in {quota, "Allow"}
    PROVE  AnswerFit(Done(FinalEffect(Walked(PoliciesOf(r.tenant, later), r), quota), r, later))
<1> DEFINE P == PoliciesOf(r.tenant, later)
           w == Walked(P, r)
           effect == FinalEffect(w, quota)
           x == Done(effect, r, later)
<1>1. P \in Seq(AllPolicies)
  BY PoliciesAre, AuthzAssumption
<1>2. w \in Walks /\ Verdict(ToSet(P), r, w)
  BY <1>1, WalkedIs
<1>3. x.step = "done" /\ x.effect = effect /\ x.request = r /\ x.later = later
  BY DEF Done
<1>4. PolicyEffect(w, r) \in {quota, "Allow"}
  OBVIOUS
<1> HIDE DEF P, w
<1>5. ASSUME effect \in {"Allow", "Degrade"} PROVE Permits(P, r, effect)
  <2>1. effect = quota /\ (effect = "Allow" => ~w.consent)
    BY <1>5 DEF FinalEffect
  <2>2. PolicyEffect(w, r) \in {"Allow", "Degrade"}
    BY <1>4, <1>5, <2>1
  <2>3. w.chosen # <<>> /\ PolicyEffect(w, r) = w.chosen[1].effect
    BY <2>2 DEF PolicyEffect
  <2> HIDE DEF effect
  <2> QED
    BY <1>1, <1>2, <1>4, <1>5, <2>1, <2>3, VerdictPermits
<1> HIDE DEF x
<1>6. AnswerFit(x)
  BY <1>3, <1>5 DEF AnswerFit, P
<1> QED
  BY <1>6 DEF x, effect, w, P

\* A caller that moves on as it should disturbs no other.
LEMMA FitKeeps ==
    ASSUME PermitInv, NEW c \in Callers, NEW x, auth' = [auth EXCEPT ![c] = x], AnswerFit(x),
           pushed' = pushed
    PROVE  PermitInv'
<1>1. auth' = [d \in Callers |-> IF d = c THEN x ELSE auth[d]]
  BY DEF PermitInv
<1>2. auth' = [d \in Callers |-> auth'[d]]
  BY <1>1
<1>3. auth'[c] = x /\ \A d \in Callers \ {c} : auth'[d] = auth[d]
  BY <1>1
<1>4. \A d \in Callers : AnswerFit(auth'[d])
  BY <1>3 DEF PermitInv
<1> QED
  BY <1>2, <1>4 DEF PermitInv, AnswerFit, WalkOf

\* A caller that waited for the quota is answered as it should be.
LEMMA AnswerKept ==
    ASSUME PermitInv, NEW c \in Callers, auth[c].step \in {"idem", "spend", "count"},
           NEW quota, Answer(c, quota), pushed' = pushed
    PROVE  PermitInv'
<1> DEFINE r == auth[c].request
           later == auth[c].later
           x == Done(FinalEffect(Walked(PoliciesOf(r.tenant, later), r), quota), r, later)
<1>1. /\ r \in Requests /\ later \in Seq(LaterPolicies)
      /\ PolicyEffect(Walked(PoliciesOf(r.tenant, later), r), r) = "Allow"
  BY DEF PermitInv, AnswerFit, WalkOf
<1>2. auth' = [auth EXCEPT ![c] = x]
  BY DEF Answer, To
<1> HIDE DEF r, later
<1>3. AnswerFit(x)
  BY <1>1, AnswerFits
<1> HIDE DEF x
<1> QED
  BY <1>2, <1>3, FitKeeps

\* Every step of authorize keeps this, and so does the pushing of a policy.
LEMMA PermitStep == PermitInv /\ [AuthzNext]_authzVars => PermitInv'
<1> SUFFICES ASSUME PermitInv, [AuthzNext]_authzVars PROVE PermitInv'
  OBVIOUS
<1>1. ASSUME NEW c \in Callers, NEW r \in Requests, Authorize(c, r) PROVE PermitInv'
  <2> DEFINE later == pushed[r.tenant]
             w == Walked(PoliciesOf(r.tenant, later), r)
             effect == PolicyEffect(w, r)
  <2>1. later \in Seq(LaterPolicies) /\ pushed' = pushed
    BY <1>1, AuthzAssumption DEF PermitInv, Authorize
  <2>2. \/ To(c, Done("error", r, later))
        \/ effect = "Allow" /\ To(c, At("idem", r, later))
        \/ To(c, Done(FinalEffect(w, effect), r, later))
    BY <1>1, Zenon DEF Authorize
  <2> HIDE DEF later
  <2>3. AnswerFit(Done(FinalEffect(w, effect), r, later))
    BY <2>1, AnswerFits
  <2>4. AnswerFit(Done("error", r, later))
    BY DEF AnswerFit, Done
  <2>5. effect = "Allow" => AnswerFit(At("idem", r, later))
    BY <2>1 DEF AnswerFit, At, WalkOf
  <2> HIDE DEF w, effect
  <2>6. PICK x : auth' = [auth EXCEPT ![c] = x] /\ AnswerFit(x)
    BY <2>2, <2>3, <2>4, <2>5 DEF To
  <2> QED
    BY <2>1, <2>6, FitKeeps
<1>2. ASSUME NEW c \in Callers, QuotaIdem(c) PROVE PermitInv'
  <2> DEFINE r == auth[c].request
             later == auth[c].later
  <2>1. auth[c].step = "idem" /\ pushed' = pushed
    BY <1>2 DEF QuotaIdem
  <2>2. CASE \E effect : Answer(c, effect)
    BY <2>1, <2>2, AnswerKept
  <2>3. CASE ~ \E effect : Answer(c, effect)
    <3>1. \E s \in {"spend", "count"} : To(c, At(s, r, later))
      BY <1>2, <2>3 DEF QuotaIdem
    <3>2. PICK s \in {"spend", "count"} : To(c, At(s, r, later))
      BY <3>1
    <3>3. AnswerFit(At(s, r, later))
      BY <2>1 DEF PermitInv, AnswerFit, At, WalkOf
    <3>4. auth' = [auth EXCEPT ![c] = At(s, r, later)]
      BY <3>2 DEF To
    <3> QED
      BY <2>1, <3>3, <3>4, FitKeeps
  <2> QED
    BY <2>2, <2>3
<1>3. ASSUME NEW c \in Callers, QuotaSpend(c) \/ QuotaCount(c) PROVE PermitInv'
  <2>1. auth[c].step \in {"spend", "count"} /\ pushed' = pushed /\ \E effect : Answer(c, effect)
    BY <1>3 DEF QuotaSpend, QuotaCount
  <2> QED
    BY <2>1, AnswerKept
<1>4. ASSUME NEW t \in Tenants, NEW p \in LaterPolicies, PushPolicy(t, p) PROVE PermitInv'
  <2>1. auth' = auth /\ pushed' = [pushed EXCEPT ![t] = Append(@, p)]
    BY <1>4 DEF PushPolicy
  <2>2. pushed' \in [Tenants -> Seq(LaterPolicies)]
    BY <2>1, AppendProperties DEF PermitInv
  <2> QED
    BY <2>1, <2>2 DEF PermitInv, AnswerFit, WalkOf
<1>5. CASE UNCHANGED authzVars
  BY <1>5 DEF authzVars, PermitInv, AnswerFit, WalkOf
<1> QED
  BY <1>1, <1>2, <1>3, <1>4, <1>5 DEF AuthzNext

-----------------------------------------------------------------------------
(* Authz: what is charged                                                   *)

TotalStep(q, places, f, n) ==
    IF n = 0 THEN 0 ELSE IF n \in places THEN f[n - 1] + q[n].amount ELSE f[n - 1]

IsTotalUpTo(q, places, k, f) == f = [n \in 0..k |-> TotalStep(q, places, f, n)]

\* The sums of the first charges exist.
LEMMA TotalExists ==
    ASSUME NEW q, NEW places, NEW k \in Nat
    PROVE  \E f : IsTotalUpTo(q, places, k, f)
<1> DEFINE Bad == {n \in Nat : ~ \E f : IsTotalUpTo(q, places, n, f)}
<1>1. SUFFICES ASSUME Bad # {} PROVE FALSE
  OBVIOUS
<1>2. PICK n \in Bad : \A m \in Bad : n <= m
  BY <1>1, LeastNatural
<1>3. CASE n = 0
  <2> DEFINE f == [m \in 0..0 |-> 0]
  <2>1. IsTotalUpTo(q, places, 0, f)
    BY DEF IsTotalUpTo, TotalStep
  <2> QED
    BY <1>2, <1>3, <2>1
<1>4. CASE n # 0
  <2>1. n - 1 \in Nat /\ n \in Nat
    BY <1>2, <1>4
  <2>2. n - 1 \notin Bad
    BY <1>2, <2>1
  <2>3. PICK f : IsTotalUpTo(q, places, n - 1, f)
    BY <2>1, <2>2
  <2> DEFINE g == [m \in 0..n |-> IF m = n THEN TotalStep(q, places, f, n) ELSE f[m]]
  <2>4. ASSUME NEW m \in 0..n PROVE g[m] = TotalStep(q, places, g, m)
    <3>1. m # 0 => g[m - 1] = f[m - 1]
      BY <2>1
    <3>2. TotalStep(q, places, g, m) = TotalStep(q, places, f, m)
      BY <3>1 DEF TotalStep
    <3>3. CASE m = n
      BY <3>2, <3>3
    <3>4. CASE m # n
      <4>1. m \in 0..(n - 1) /\ g[m] = f[m]
        BY <2>1, <3>4
      <4>2. f[m] = TotalStep(q, places, f, m)
        BY <2>3, <4>1 DEF IsTotalUpTo
      <4> QED
        BY <3>2, <4>1, <4>2
    <3> QED
      BY <3>3, <3>4
  <2> HIDE DEF g
  <2>5. g = [m \in 0..n |-> TotalStep(q, places, g, m)]
    <3>1. g = [m \in 0..n |-> g[m]]
      BY DEF g
    <3> QED
      BY <2>4, <3>1
  <2> QED
    BY <1>2, <2>5 DEF IsTotalUpTo
<1> QED
  BY <1>3, <1>4

\* Total is the last of the sums so far.
LEMMA TotalIs ==
    ASSUME NEW q, NEW places, Len(q) \in Nat
    PROVE  \E f : IsTotalUpTo(q, places, Len(q), f) /\ Total(q, places) = f[Len(q)]
<1> DEFINE F == CHOOSE f : f = [n \in 0..Len(q) |-> TotalStep(q, places, f, n)]
<1>1. F = [n \in 0..Len(q) |-> TotalStep(q, places, F, n)]
  BY TotalExists DEF IsTotalUpTo
<1>2. Total(q, places) = F[Len(q)]
  BY DEF Total, TotalStep
<1> QED
  BY <1>1, <1>2 DEF IsTotalUpTo

\* The sums of the first charges do not depend on the others.
LEMMA TotalsAgree ==
    ASSUME NEW q, NEW r, NEW places, NEW others, NEW k \in Nat, NEW m \in Nat, k <= m,
           \A n \in 1..k : q[n] = r[n] /\ (n \in places <=> n \in others),
           NEW f, IsTotalUpTo(q, places, k, f), NEW g, IsTotalUpTo(r, others, m, g)
    PROVE  \A n \in 0..k : f[n] = g[n]
<1> DEFINE Bad == {n \in 0..k : f[n] # g[n]}
<1>1. SUFFICES ASSUME Bad # {} PROVE FALSE
  OBVIOUS
<1>2. PICK n \in Bad : \A b \in Bad : n <= b
  <2>1. Bad \in SUBSET Nat
    OBVIOUS
  <2> HIDE DEF Bad
  <2> QED
    BY <1>1, <2>1, LeastNatural
<1>3. f[n] = TotalStep(q, places, f, n) /\ g[n] = TotalStep(r, others, g, n)
  <2>1. n \in 0..k /\ n \in 0..m
    BY <1>2
  <2> QED
    BY <2>1 DEF IsTotalUpTo
<1>4. n # 0 => f[n - 1] = g[n - 1]
  <2>1. n # 0 => n - 1 \in 0..k /\ ~(n <= n - 1)
    BY <1>2
  <2> QED
    BY <1>2, <2>1
<1>5. n # 0 => q[n] = r[n] /\ (n \in places <=> n \in others)
  BY <1>2
<1>6. f[n] = g[n]
  BY <1>3, <1>4, <1>5 DEF TotalStep
<1> QED
  BY <1>2, <1>6

Charges == [key : {r.key : r \in Requests}, table : {"tools", "clarify"}, tenant : Tenants,
            session : {SessionIn(r.resource) : r \in Requests}, amount : {1} \cup {r.cost : r \in Requests}]

\* Of nothing, the sum is nothing.
LEMMA TotalEmpty ==
    ASSUME NEW places
    PROVE  Total(<<>>, places) = 0
<1>1. Len(<<>>) = 0
  OBVIOUS
<1>2. PICK f : IsTotalUpTo(<<>>, places, 0, f) /\ Total(<<>>, places) = f[0]
  BY <1>1, TotalIs
<1> QED
  BY <1>2 DEF IsTotalUpTo, TotalStep

\* One more charge is added where it belongs, and nowhere else.
LEMMA TotalAppend ==
    ASSUME NEW q \in Seq(Charges), NEW e \in Charges, NEW places, NEW more,
           \A n \in 1..Len(q) : n \in places <=> n \in more
    PROVE  Total(Append(q, e), more) =
               IF Len(q) + 1 \in more THEN Total(q, places) + e.amount ELSE Total(q, places)
<1> DEFINE r == Append(q, e)
           k == Len(q)
           m == Len(r)
<1>1. k \in Nat /\ m = k + 1 /\ m \in Nat /\ r[m] = e /\ \A n \in 1..k : q[n] = r[n]
  BY AppendProperties, LenProperties
<1>2. PICK f : IsTotalUpTo(q, places, Len(q), f) /\ Total(q, places) = f[Len(q)]
  BY <1>1, TotalIs
<1>3. PICK g : IsTotalUpTo(r, more, Len(r), g) /\ Total(r, more) = g[Len(r)]
  BY <1>1, TotalIs
<1>4. /\ IsTotalUpTo(q, places, k, f) /\ IsTotalUpTo(r, more, m, g)
      /\ Total(q, places) = f[k] /\ Total(r, more) = g[m]
  BY <1>2, <1>3
<1>5. \A n \in 1..k : q[n] = r[n] /\ (n \in places <=> n \in more)
  BY <1>1
<1> HIDE DEF r, k, m
<1>6. k \in Nat /\ m \in Nat /\ k <= m /\ m \in 0..m
  BY <1>1
<1>7. \A n \in 0..k : f[n] = g[n]
  BY <1>4, <1>5, <1>6, TotalsAgree
<1>8. g[m] = TotalStep(r, more, g, m)
  <2>1. g = [n \in 0..m |-> TotalStep(r, more, g, n)]
    BY <1>4 DEF IsTotalUpTo
  <2> QED
    BY <1>6, <2>1
<1>9. m # 0 /\ m - 1 = k /\ f[k] = g[k]
  BY <1>1, <1>7
<1>10. Total(r, more) = IF m \in more THEN Total(q, places) + e.amount ELSE Total(q, places)
  BY <1>1, <1>4, <1>8, <1>9 DEF TotalStep
<1>11. Total(r, more) = IF k + 1 \in more THEN Total(q, places) + e.amount ELSE Total(q, places)
  BY <1>1, <1>10
<1> QED
  BY <1>11 DEF r, k

InCharge(a) == a.step \in {"spend", "count"}

\* A key that is charged or on its way to be is recorded, a caller on its way has one
\* that nobody else has and that is not charged: so it is charged once.
KeysInv ==
    /\ auth = [c \in Callers |-> auth[c]]
    /\ charged \in Seq(Charges)
    /\ \A c \in Callers :
          auth[c].step \in {"idem", "spend", "count"} => auth[c].request \in Requests
    /\ \A n \in 1..Len(charged) : charged[n].key \in idem
    /\ \A c \in Callers : InCharge(auth[c]) =>
          /\ auth[c].request.key \in idem
          /\ \A n \in 1..Len(charged) : charged[n].key # auth[c].request.key
    /\ \A c, d \in Callers : InCharge(auth[c]) /\ InCharge(auth[d]) /\ c # d =>
          auth[c].request.key # auth[d].request.key
    /\ \A m, n \in 1..Len(charged) : charged[m].key = charged[n].key => m = n

SumsInv ==
    /\ toolBudget = [t \in Tenants |-> toolBudget[t]]
    /\ \A t \in Tenants : toolBudget[t] = Spent(t)
    /\ \A r \in Requests :
          Count(<<r.tenant, SessionIn(r.resource)>>) = Clarified(r.tenant, SessionIn(r.resource))

\* Nothing is charged at the start.
LEMMA AuthzInitial == AuthzInit => KeysInv /\ SumsInv
<1> SUFFICES ASSUME AuthzInit PROVE KeysInv /\ SumsInv
  OBVIOUS
<1>1. charged = <<>> /\ <<>> \in Seq(Charges) /\ Len(<<>>) = 0
  BY DEF AuthzInit
<1>2. auth = [c \in Callers |-> auth[c]] /\ \A c \in Callers : auth[c].step = "idle"
  BY DEF AuthzInit
<1>3. KeysInv
  BY <1>1, <1>2 DEF KeysInv, InCharge
<1>4. toolBudget = [t \in Tenants |-> toolBudget[t]] /\ \A t \in Tenants : toolBudget[t] = 0
  BY DEF AuthzInit
<1>5. \A k : Count(k) = 0
  BY DEF AuthzInit, Count
<1>6. SumsInv
  BY <1>1, <1>4, <1>5, TotalEmpty DEF SumsInv, Spent, Clarified
<1> QED
  BY <1>3, <1>6

\* A caller that goes on without a charge in hand disturbs no key.
LEMMA QuietCaller ==
    ASSUME KeysInv, NEW c \in Callers, NEW x, auth' = [auth EXCEPT ![c] = x], ~InCharge(x),
           x.step = "idem" => x.request \in Requests,
           idem \subseteq idem', charged' = charged
    PROVE  KeysInv'
<1>1. auth' = [d \in Callers |-> IF d = c THEN x ELSE auth[d]]
  BY DEF KeysInv
<1>2. auth' = [d \in Callers |-> auth'[d]]
  BY <1>1
<1>3. auth'[c] = x /\ \A d \in Callers \ {c} : auth'[d] = auth[d]
  BY <1>1
<1> QED
  BY <1>2, <1>3 DEF KeysInv, InCharge

\* A caller takes a charge in hand only with a key that was not recorded.
LEMMA TakingCaller ==
    ASSUME KeysInv, NEW c \in Callers, NEW x, auth' = [auth EXCEPT ![c] = x],
           InCharge(x), x.request \in Requests, x.request.key \notin idem,
           idem' = idem \cup {x.request.key}, charged' = charged
    PROVE  KeysInv'
<1>1. auth' = [d \in Callers |-> IF d = c THEN x ELSE auth[d]]
  BY DEF KeysInv
<1>2. auth' = [d \in Callers |-> auth'[d]]
  BY <1>1
<1>3. auth'[c] = x /\ \A d \in Callers \ {c} : auth'[d] = auth[d]
  BY <1>1
<1>4. \A n \in 1..Len(charged) : charged[n].key # x.request.key
  BY DEF KeysInv
<1>5. \A d \in Callers : InCharge(auth[d]) => auth[d].request.key # x.request.key
  BY DEF KeysInv
<1>6. ASSUME NEW d \in Callers, NEW e \in Callers, InCharge(auth'[d]), InCharge(auth'[e]), d # e
      PROVE  auth'[d].request.key # auth'[e].request.key
  <2>1. CASE d = c
    BY <1>3, <1>5, <1>6, <2>1
  <2>2. CASE e = c
    BY <1>3, <1>5, <1>6, <2>2
  <2>3. CASE d # c /\ e # c
    BY <1>3, <1>6, <2>3 DEF KeysInv
  <2> QED
    BY <2>1, <2>2, <2>3
<1>7. ASSUME NEW d \in Callers, InCharge(auth'[d])
      PROVE  /\ auth'[d].request.key \in idem'
             /\ \A n \in 1..Len(charged') : charged'[n].key # auth'[d].request.key
  <2>1. CASE d = c
    BY <1>3, <1>4, <2>1
  <2>2. CASE d # c
    BY <1>3, <1>7, <2>2 DEF KeysInv
  <2> QED
    BY <2>1, <2>2
<1>8. \A d \in Callers :
          auth'[d].step \in {"idem", "spend", "count"} => auth'[d].request \in Requests
  BY <1>3 DEF KeysInv
<1>9. \A n \in 1..Len(charged') : charged'[n].key \in idem'
  BY DEF KeysInv
<1> QED
  BY <1>2, <1>6, <1>7, <1>8, <1>9 DEF KeysInv

\* The charge in hand is written, and its caller done.
LEMMA ChargingCaller ==
    ASSUME KeysInv, NEW c \in Callers, NEW x, auth' = [auth EXCEPT ![c] = x],
           InCharge(auth[c]), x.step = "done", idem' = idem,
           NEW e \in Charges, e.key = auth[c].request.key, charged' = Append(charged, e)
    PROVE  KeysInv'
<1>1. auth' = [d \in Callers |-> IF d = c THEN x ELSE auth[d]]
  BY DEF KeysInv
<1>2. auth' = [d \in Callers |-> auth'[d]]
  BY <1>1
<1>3. auth'[c] = x /\ \A d \in Callers \ {c} : auth'[d] = auth[d]
  BY <1>1
<1>4. ~InCharge(auth'[c]) /\ auth'[c].step \notin {"idem", "spend", "count"}
  BY <1>3 DEF InCharge
<1> DEFINE k == Len(charged)
<1>5. /\ charged' \in Seq(Charges) /\ k \in Nat /\ Len(charged') = k + 1
      /\ charged'[k + 1] = e /\ \A n \in 1..k : charged'[n] = charged[n]
  BY AppendProperties, LenProperties DEF KeysInv
<1> HIDE DEF k
<1>6. \A n \in 1..(k + 1) : n \in 1..k \/ n = k + 1
  BY <1>5
<1>7. \A n \in 1..k : charged[n].key \in idem /\ charged[n].key # e.key
  BY DEF KeysInv, k
<1>8. e.key \in idem
  BY DEF KeysInv
<1>9. \A n \in 1..Len(charged') : charged'[n].key \in idem'
  BY <1>5, <1>6, <1>7, <1>8
<1>10. ASSUME NEW m \in 1..Len(charged'), NEW n \in 1..Len(charged'), charged'[m].key = charged'[n].key
       PROVE  m = n
  <2>1. m \in 1..k /\ n \in 1..k => charged[m].key = charged[n].key
    BY <1>5, <1>10
  <2>2. \A i, j \in 1..k : charged[i].key = charged[j].key => i = j
    BY DEF KeysInv, k
  <2> QED
    BY <1>5, <1>6, <1>7, <1>10, <2>1, <2>2
<1>11. ASSUME NEW d \in Callers, InCharge(auth'[d])
       PROVE  /\ auth'[d].request.key \in idem'
              /\ \A n \in 1..Len(charged') : charged'[n].key # auth'[d].request.key
  <2>1. d # c /\ auth'[d] = auth[d]
    BY <1>3, <1>4, <1>11
  <2>2. auth[d].request.key # e.key /\ auth[d].request.key \in idem
    BY <1>11, <2>1 DEF KeysInv
  <2>3. \A n \in 1..k : charged[n].key # auth[d].request.key
    BY <1>11, <2>1 DEF KeysInv, k
  <2> QED
    BY <1>5, <1>6, <2>1, <2>2, <2>3
<1>12. \A d \in Callers :
          auth'[d].step \in {"idem", "spend", "count"} => auth'[d].request \in Requests
  BY <1>3, <1>4 DEF KeysInv
<1>13. \A d, f \in Callers : InCharge(auth'[d]) /\ InCharge(auth'[f]) /\ d # f =>
          auth'[d].request.key # auth'[f].request.key
  BY <1>3, <1>4 DEF KeysInv
<1> QED
  BY <1>2, <1>5, <1>9, <1>10, <1>11, <1>12, <1>13 DEF KeysInv

\* A charge of another table, tenant or session leaves a sum alone.
LEMMA SumsAfter ==
    ASSUME KeysInv, NEW e \in Charges, charged' = Append(charged, e)
    PROVE  /\ \A t : Spent(t)' = IF e.table = "tools" /\ e.tenant = t
                                 THEN Spent(t) + e.amount ELSE Spent(t)
           /\ \A t, s : Clarified(t, s)' = IF e.table = "clarify" /\ e.tenant = t /\ e.session = s
                                           THEN Clarified(t, s) + e.amount ELSE Clarified(t, s)
<1> DEFINE k == Len(charged)
           S(q, t) == {n \in DOMAIN q : q[n].table = "tools" /\ q[n].tenant = t}
           C(q, t, s) == {n \in DOMAIN q : /\ q[n].table = "clarify"
                                           /\ q[n].tenant = t /\ q[n].session = s}
<1>1. /\ charged \in Seq(Charges) /\ charged' \in Seq(Charges)
      /\ k \in Nat /\ Len(charged') = k + 1 /\ charged'[k + 1] = e
      /\ \A n \in 1..k : charged'[n] = charged[n]
      /\ DOMAIN charged = 1..k /\ DOMAIN charged' = 1..(k + 1)
  BY AppendProperties, LenProperties DEF KeysInv
<1>2. ASSUME NEW t
      PROVE  Spent(t)' = IF e.table = "tools" /\ e.tenant = t
                         THEN Spent(t) + e.amount ELSE Spent(t)
  <2>1. \A n \in 1..k : n \in S(charged, t) <=> n \in S(charged', t)
    BY <1>1
  <2>2. k + 1 \in S(charged', t) <=> e.table = "tools" /\ e.tenant = t
    BY <1>1
  <2>3. Spent(t) = Total(charged, S(charged, t)) /\ Spent(t)' = Total(charged', S(charged', t))
    BY DEF Spent
  <2> HIDE DEF S
  <2>4. Total(charged', S(charged', t)) =
            IF Len(charged) + 1 \in S(charged', t) THEN Total(charged, S(charged, t)) + e.amount
            ELSE Total(charged, S(charged, t))
    BY <1>1, <2>1, TotalAppend
  <2> QED
    BY <2>2, <2>3, <2>4
<1>3. ASSUME NEW t, NEW s
      PROVE  Clarified(t, s)' = IF e.table = "clarify" /\ e.tenant = t /\ e.session = s
                                THEN Clarified(t, s) + e.amount ELSE Clarified(t, s)
  <2>1. \A n \in 1..k : n \in C(charged, t, s) <=> n \in C(charged', t, s)
    BY <1>1
  <2>2. k + 1 \in C(charged', t, s) <=> e.table = "clarify" /\ e.tenant = t /\ e.session = s
    BY <1>1
  <2>3. /\ Clarified(t, s) = Total(charged, C(charged, t, s))
        /\ Clarified(t, s)' = Total(charged', C(charged', t, s))
    BY DEF Clarified
  <2> HIDE DEF C
  <2>4. Total(charged', C(charged', t, s)) =
            IF Len(charged) + 1 \in C(charged', t, s) THEN Total(charged, C(charged, t, s)) + e.amount
            ELSE Total(charged, C(charged, t, s))
    BY <1>1, <2>1, TotalAppend
  <2> QED
    BY <2>2, <2>3, <2>4
<1> QED
  BY <1>2, <1>3

\* What charges nothing moves no sum.
LEMMA SumsStay ==
    ASSUME SumsInv, charged' = charged, toolBudget' = toolBudget, clarifyCounts' = clarifyCounts
    PROVE  SumsInv'
BY DEF SumsInv, Spent, Clarified, Count

\* An answer ends the call.
LEMMA AnswerIs ==
    ASSUME NEW c \in Callers, NEW effect, Answer(c, effect)
    PROVE  \E x : x.step = "done" /\ auth' = [auth EXCEPT ![c] = x]
BY DEF Answer, To, Done

\* The charge of a tool is written once, with what the tenant has spent.
LEMMA SpendKeeps ==
    ASSUME KeysInv, SumsInv, NEW c \in Callers, QuotaSpend(c)
    PROVE  KeysInv' /\ SumsInv'
<1> DEFINE r == auth[c].request
           e == [key |-> r.key, table |-> "tools", tenant |-> r.tenant,
                 session |-> SessionIn(r.resource), amount |-> r.cost]
<1>1. r \in Requests /\ InCharge(auth[c])
  BY DEF QuotaSpend, KeysInv, InCharge
<1>2. e \in Charges
  BY <1>1, AuthzAssumption DEF Charges
<1>3. PICK x : x.step = "done" /\ auth' = [auth EXCEPT ![c] = x]
  BY AnswerIs DEF QuotaSpend
<1>4. /\ charged' = Append(charged, e) /\ idem' = idem /\ clarifyCounts' = clarifyCounts
      /\ toolBudget' = [toolBudget EXCEPT ![r.tenant] = toolBudget[r.tenant] + r.cost]
  BY DEF QuotaSpend, Charge
<1>5. /\ e.key = r.key /\ e.table = "tools" /\ e.tenant = r.tenant /\ e.amount = r.cost
      /\ e.table # "clarify"
  OBVIOUS
<1> HIDE DEF e
<1>6. KeysInv'
  BY <1>1, <1>2, <1>3, <1>4, <1>5, ChargingCaller
<1>7. /\ \A t : Spent(t)' = IF r.tenant = t THEN Spent(t) + r.cost ELSE Spent(t)
      /\ \A t, s : Clarified(t, s)' = Clarified(t, s)
  BY <1>2, <1>4, <1>5, SumsAfter
<1>8. toolBudget' = [t \in Tenants |-> IF t = r.tenant THEN toolBudget[t] + r.cost ELSE toolBudget[t]]
  BY <1>4 DEF SumsInv
<1>9. \A k : Count(k)' = Count(k)
  BY <1>4 DEF Count
<1>10. SumsInv'
  BY <1>7, <1>8, <1>9 DEF SumsInv
<1> QED
  BY <1>6, <1>10

\* The charge of a question is written once, with what the session has asked.
LEMMA CountKeeps ==
    ASSUME KeysInv, SumsInv, NEW c \in Callers, QuotaCount(c)
    PROVE  KeysInv' /\ SumsInv'
<1> DEFINE r == auth[c].request
           s == SessionIn(r.resource)
           k == <<r.tenant, s>>
           e == [key |-> r.key, table |-> "clarify", tenant |-> r.tenant, session |-> s, amount |-> 1]
<1>1. r \in Requests /\ InCharge(auth[c])
  BY DEF QuotaCount, KeysInv, InCharge
<1>2. e \in Charges
  BY <1>1, AuthzAssumption DEF Charges
<1>3. PICK x : x.step = "done" /\ auth' = [auth EXCEPT ![c] = x]
  BY AnswerIs DEF QuotaCount
<1>4. CASE s = "none"
  <2>1. /\ charged' = charged /\ idem' = idem
        /\ toolBudget' = toolBudget /\ clarifyCounts' = clarifyCounts
    BY <1>4 DEF QuotaCount
  <2> QED
    BY <1>3, <2>1, QuietCaller, SumsStay DEF InCharge
<1>5. CASE s # "none"
  <2>1. /\ charged' = Append(charged, e) /\ idem' = idem /\ toolBudget' = toolBudget
        /\ clarifyCounts' = [j \in DOMAIN clarifyCounts \cup {k} |->
                                IF j = k THEN Count(k) + 1 ELSE clarifyCounts[j]]
    BY <1>5 DEF QuotaCount, Charge
  <2>2. /\ e.key = r.key /\ e.table = "clarify" /\ e.tenant = r.tenant /\ e.session = s
        /\ e.amount = 1 /\ e.table # "tools"
    OBVIOUS
  <2> HIDE DEF e, s
  <2>3. KeysInv'
    BY <1>1, <1>2, <1>3, <2>1, <2>2, ChargingCaller
  <2>4. /\ \A t : Spent(t)' = Spent(t)
        /\ \A t, z : Clarified(t, z)' = IF r.tenant = t /\ s = z
                                        THEN Clarified(t, z) + 1 ELSE Clarified(t, z)
    BY <1>2, <2>1, <2>2, SumsAfter
  <2>5. \A j : Count(j)' = IF j = k THEN Count(j) + 1 ELSE Count(j)
    <3> HIDE DEF k
    <3> QED
      BY <2>1 DEF Count
  <2>6. ASSUME NEW q \in Requests
        PROVE  Count(<<q.tenant, SessionIn(q.resource)>>)' = Clarified(q.tenant, SessionIn(q.resource))'
    <3> DEFINE z == SessionIn(q.resource)
    <3>1. Count(<<q.tenant, z>>) = Clarified(q.tenant, z)
      BY DEF SumsInv
    <3> HIDE DEF z
    <3>2. (<<q.tenant, z>> = k) <=> (r.tenant = q.tenant /\ s = z)
      OBVIOUS
    <3> HIDE DEF k
    <3>3. Count(<<q.tenant, z>>)' = Clarified(q.tenant, z)'
      BY <2>4, <2>5, <3>1, <3>2
    <3> QED
      BY <3>3 DEF z
  <2>7. SumsInv'
    BY <2>1, <2>4, <2>6 DEF SumsInv
  <2> QED
    BY <2>3, <2>7
<1> QED
  BY <1>4, <1>5

\* The key is recorded when the charge is taken in hand.
LEMMA IdemKeeps ==
    ASSUME KeysInv, SumsInv, NEW c \in Callers, QuotaIdem(c)
    PROVE  KeysInv' /\ SumsInv'
<1> DEFINE r == auth[c].request
<1>1. r \in Requests
  BY DEF QuotaIdem, KeysInv
<1>2. SumsInv'
  BY SumsStay DEF QuotaIdem
<1>3. charged' = charged /\ idem \subseteq idem'
  BY DEF QuotaIdem, KeysAfter
<1>4. CASE \E effect : Answer(c, effect)
  <2>1. PICK x : x.step = "done" /\ auth' = [auth EXCEPT ![c] = x]
    BY <1>4, AnswerIs
  <2> QED
    BY <1>2, <1>3, <2>1, QuietCaller DEF InCharge
<1>5. CASE ~ \E effect : Answer(c, effect)
  <2>1. r.key \notin idem /\ idem' = idem \cup {r.key}
    BY <1>5 DEF QuotaIdem, KeysAfter
  <2>2. To(c, At("spend", r, auth[c].later)) \/ To(c, At("count", r, auth[c].later))
    BY <1>5 DEF QuotaIdem
  <2>3. PICK x : x.step \in {"spend", "count"} /\ x.request = r /\ auth' = [auth EXCEPT ![c] = x]
    BY <2>2 DEF To, At
  <2> QED
    BY <1>1, <1>2, <1>3, <2>1, <2>3, TakingCaller DEF InCharge
<1> QED
  BY <1>4, <1>5

\* Every step of authorize keeps both.
LEMMA AuthzStep == KeysInv /\ SumsInv /\ [AuthzNext]_authzVars => KeysInv' /\ SumsInv'
<1> SUFFICES ASSUME KeysInv, SumsInv, [AuthzNext]_authzVars PROVE KeysInv' /\ SumsInv'
  OBVIOUS
<1>1. ASSUME NEW c \in Callers, NEW r \in Requests, Authorize(c, r) PROVE KeysInv' /\ SumsInv'
  <2>1. /\ charged' = charged /\ idem' = idem
        /\ toolBudget' = toolBudget /\ clarifyCounts' = clarifyCounts
    BY <1>1 DEF Authorize
  <2>2. \E effect, later : To(c, Done(effect, r, later)) \/ To(c, At("idem", r, later))
    BY <1>1, Zenon DEF Authorize
  <2>3. PICK x : /\ x.step \in {"done", "idem"} /\ x.request = r
                 /\ auth' = [auth EXCEPT ![c] = x]
    BY <2>2 DEF To, Done, At
  <2> QED
    BY <2>1, <2>3, QuietCaller, SumsStay DEF InCharge
<1>2. CASE UNCHANGED <<idem, toolBudget, clarifyCounts, auth, charged>>
  BY <1>2, SumsStay DEF KeysInv
<1>3. ASSUME NEW t, NEW p, PushPolicy(t, p) PROVE KeysInv' /\ SumsInv'
  BY <1>2, <1>3 DEF PushPolicy
<1>4. CASE UNCHANGED authzVars
  BY <1>2, <1>4 DEF authzVars
<1> QED
  BY <1>1, <1>3, <1>4, IdemKeeps, SpendKeeps, CountKeeps DEF AuthzNext

\* However requests, their retries and the pushing of policies interleave: what is
\* allowed or degraded, the policies that were read permit, by what the patterns
\* mean; each key is charged once, and what a tenant has spent and a session has
\* asked is what was charged (soulseed-agi-authz: evaluator.rs, types.rs, quota.rs).
THEOREM AuthorisationHolds == AuthzSpec => []AuthorisationIsLawful
<1>1. AuthzInit => PermitInv
  BY EmptySeq DEF AuthzInit, PermitInv, AnswerFit
<1>2. PermitInv => AllowedByThePolicies
  BY DEF PermitInv, AnswerFit, AllowedByThePolicies
<1>3. KeysInv /\ SumsInv => ChargedOnce
  <2> SUFFICES ASSUME KeysInv, SumsInv PROVE ChargedOnce
    OBVIOUS
  <2>1. DOMAIN charged = 1..Len(charged)
    BY LenProperties DEF KeysInv
  <2> QED
    BY <2>1 DEF KeysInv, SumsInv, ChargedOnce
<1>4. PermitInv /\ KeysInv /\ SumsInv => AuthorisationIsLawful
  BY <1>2, <1>3 DEF AuthorisationIsLawful
<1> QED
  BY <1>1, <1>4, PermitStep, AuthzInitial, AuthzStep, PTL DEF AuthzSpec

-----------------------------------------------------------------------------
(* ToolPlan: the ranking                                                    *)

\* Every risk has a level.
LEMMA LevelIs == \A risk : Level(risk) \in 0..4
BY DEF Level

\* The score of a listed tool is a number.
LEMMA ScoreIsANumber ==
    ASSUME NEW in, IsToolInput(in), NEW def \in ToSet(in.listed)
    PROVE  Score(in, def) \in Int /\ def.order \in Int
<1> DEFINE s == Stats(in, def)
           hints == in.hints \cup ExtraHints(Lane(in))
           fit == Fit(hints, def.capability)
           penalty == IF in.config.exploreRate > 0 THEN def.penalty ELSE 0
           cache == IF s.cacheable THEN 100 ELSE 0
<1>1. /\ IsFiniteSet(in.hints) /\ {def.order, def.penalty} \subseteq Int
      /\ def.tool \in DOMAIN in.stats =>
            LET r == in.stats[def.tool]
            IN  {r.latency, r.cost} \subseteq Nat /\ {r.success, r.auth, r.accept} \subseteq Int
  BY DEF IsToolInput
<1>2. s.latency \in Nat /\ s.cost \in Nat /\ s.success \in Int /\ s.auth \in Int /\ s.accept \in Int
  <2>1. CASE def.tool \in DOMAIN in.stats
    BY <1>1, <2>1 DEF Stats
  <2>2. CASE def.tool \notin DOMAIN in.stats
    BY <2>2 DEF Stats
  <2> QED
    BY <2>1, <2>2
<1>3. fit \in Int
  <2>1. IsFiniteSet(ExtraHints(Lane(in)))
    <3>1. IsFiniteSet({}) /\ IsFiniteSet({"self_reflection"}) /\ IsFiniteSet({"multi_agent"})
      BY FS_EmptySet, FS_Singleton
    <3>2. /\ IsFiniteSet({"self_reflection"} \cup {"introspection"})
          /\ IsFiniteSet({"multi_agent"} \cup {"collaboration"})
      BY <3>1, FS_AddElement
    <3>3. /\ {"self_reflection", "introspection"} = {"self_reflection"} \cup {"introspection"}
          /\ {"multi_agent", "collaboration"} = {"multi_agent"} \cup {"collaboration"}
      OBVIOUS
    <3> QED
      BY <3>1, <3>2, <3>3 DEF ExtraHints
  <2>2. IsFiniteSet(hints)
    BY <1>1, <2>1, FS_Union
  <2> HIDE DEF hints
  <2>3. IsFiniteSet(hints \cap def.capability)
    BY <2>2, FS_Subset
  <2>4. Cardinality(hints) \in Nat /\ Cardinality(hints \cap def.capability) \in Nat
    BY <2>2, <2>3, FS_CardinalityType
  <2>5. hints # {} => Cardinality(hints) > 0
    BY <2>2, <2>4, FS_EmptySet
  <2> QED
    BY <2>4, <2>5 DEF Fit
<1>4. \A x \in Nat : Inverted(x) \in Int
  BY DEF Inverted
<1>5. \A x \in Int : Share(x) \in Int
  BY DEF Share
<1>6. Inverted(s.latency) \in Int /\ Inverted(s.cost) \in Int /\ Level(s.risk) \in Int
      /\ Share(s.success) \in Int /\ Share(100 - s.auth) \in Int /\ Share(s.accept) \in Int
      /\ cache \in Int /\ penalty \in Int
  BY <1>1, <1>2, <1>4, <1>5, LevelIs
<1>7. Score(in, def) = 30 * fit + 20 * Share(s.success)
        + (-10) * Inverted(s.latency) + (-15) * Inverted(s.cost)
        + (-15) * (100 - 25 * Level(s.risk)) + (-5) * Share(100 - s.auth)
        + 10 * cache + 5 * Share(s.accept) - penalty
  BY DEF Score, Weights
<1> HIDE DEF s, fit, penalty, cache, hints
<1> QED
  BY <1>1, <1>3, <1>6, <1>7

\* So the better ones are better than the worse, whatever is between them.
LEMMA BetterIsAnOrder ==
    ASSUME NEW in, IsToolInput(in), NEW x \in ToSet(in.listed), NEW y \in ToSet(in.listed),
           NEW z \in ToSet(in.listed)
    PROVE  /\ ~Better(in, x, x)
           /\ Better(in, x, y) /\ Better(in, y, z) => Better(in, x, z)
           /\ ~Better(in, x, y) => Score(in, y) >= Score(in, x)
<1>1. /\ Score(in, x) \in Int /\ Score(in, y) \in Int /\ Score(in, z) \in Int
      /\ x.order \in Int /\ y.order \in Int /\ z.order \in Int
  BY ScoreIsANumber
<1> QED
  BY <1>1 DEF Better

\* None behind is better.
IsRanked(in, q) == \A i, j \in DOMAIN q : i < j => ~Better(in, q[j], q[i])

\* A tool is put before the first it is better than, so none behind gets better.
LEMMA RankedInKeeps ==
    ASSUME NEW in, IsToolInput(in), NEW q \in Seq(ToSet(in.listed)), IsRanked(in, q),
           NEW def \in ToSet(in.listed)
    PROVE  /\ RankedIn(in, q, def) \in Seq(ToSet(in.listed))
           /\ IsRanked(in, RankedIn(in, q, def))
           /\ ToSet(RankedIn(in, q, def)) = ToSet(q) \cup {def}
<1> DEFINE S == ToSet(in.listed)
           k == Len(q)
           W == {n \in DOMAIN q : Better(in, def, q[n])} \cup {k + 1}
           i == Min(W)
           t == InsertAt(q, i, def)
<1>1. k \in Nat /\ DOMAIN q = 1..k /\ \A n \in 1..k : q[n] \in S
  BY LenProperties, ElementOfSeq
<1>2. /\ \A x \in S : ~Better(in, x, x)
      /\ \A x, y, z \in S : Better(in, x, y) /\ Better(in, y, z) => Better(in, x, z)
  BY BetterIsAnOrder
<1> HIDE DEF k
<1>3. i \in W /\ \A n \in W : i <= n
  <2>1. W \in SUBSET Nat /\ W # {}
    BY <1>1
  <2> HIDE DEF W
  <2>2. \E n \in W : \A m \in W : n <= m
    BY <2>1, LeastNatural
  <2> QED
    BY <2>2, Zenon DEF Min
<1> HIDE DEF i
<1>4. i \in 1..(k + 1) /\ (i <= k => Better(in, def, q[i]))
      /\ \A n \in 1..(i - 1) : ~Better(in, def, q[n])
  <2>1. i \in 1..(k + 1) /\ (i <= k => Better(in, def, q[i]))
    BY <1>1, <1>3
  <2>2. ASSUME NEW n \in 1..(i - 1), Better(in, def, q[n]) PROVE FALSE
    <3>1. n \in 1..k /\ ~(i <= n)
      BY <1>1, <2>1
    <3>2. n \in W
      BY <1>1, <2>2, <3>1
    <3> QED
      BY <1>3, <3>1, <3>2
  <2> QED
    BY <2>1, <2>2
<1>5. RankedIn(in, q, def) = t
  BY DEF RankedIn, t, i, W, k
<1> HIDE DEF W
<1>6. t \in Seq(S) /\ ToSet(t) = ToSet(q) \cup {def} /\ InsertedAt(t, q, i, def)
  <2>1. q \in Seq(S) /\ def \in S /\ i \in 1..(Len(q) + 1)
    BY <1>4 DEF k
  <2> HIDE DEF S
  <2> QED
    BY <2>1, InsertKeeps
<1> HIDE DEF t
<1>7. /\ DOMAIN t = 1..(k + 1) /\ t[i] = def
      /\ \A n \in 1..(i - 1) : t[n] = q[n]
      /\ \A n \in (i + 1)..(k + 1) : t[n] = q[n - 1]
  <2>1. Len(t) = k + 1
    BY <1>6 DEF InsertedAt, k
  <2> QED
    BY <1>6, <2>1, LenProperties DEF InsertedAt, k
<1>8. \A a, b \in 1..k : a < b => ~Better(in, q[b], q[a])
  BY <1>1 DEF IsRanked
<1>9. ASSUME NEW a \in 1..(k + 1), NEW b \in 1..(k + 1), a < b, Better(in, t[b], t[a]) PROVE FALSE
  <2>1. CASE b < i
    <3>1. a \in 1..(i - 1) /\ b \in 1..(i - 1) /\ a \in 1..k /\ b \in 1..k
      BY <1>1, <1>4, <1>9, <2>1
    <3> QED
      BY <1>7, <1>8, <1>9, <3>1
  <2>2. CASE b = i
    <3>1. a \in 1..(i - 1)
      BY <1>4, <1>9, <2>2
    <3> QED
      BY <1>4, <1>7, <1>9, <2>2, <3>1
  <2>3. CASE b > i
    <3>1. b \in (i + 1)..(k + 1) /\ b - 1 \in 1..k /\ i <= b - 1 /\ i \in 1..k
      BY <1>1, <1>4, <2>3
    <3>2. t[b] = q[b - 1] /\ q[b - 1] \in S /\ q[i] \in S
      BY <1>1, <1>7, <3>1
    <3>3. CASE a < i
      <4>1. a \in 1..(i - 1) /\ a \in 1..k /\ a < b - 1
        BY <1>1, <1>4, <1>9, <2>3, <3>1, <3>3
      <4>2. t[a] = q[a]
        BY <1>7, <4>1
      <4> QED
        BY <1>8, <1>9, <3>1, <3>2, <4>1, <4>2
    <3>4. CASE a = i
      <4>1. Better(in, def, q[i]) /\ Better(in, q[b - 1], def)
        BY <1>4, <1>7, <1>9, <3>1, <3>2, <3>4
      <4>2. Better(in, q[b - 1], q[i])
        BY <1>2, <3>2, <4>1
      <4>3. CASE i = b - 1
        BY <1>2, <3>2, <4>2, <4>3
      <4>4. CASE i < b - 1
        BY <1>8, <3>1, <4>2, <4>4
      <4> QED
        BY <3>1, <4>3, <4>4
    <3>5. CASE a > i
      <4>1. a \in (i + 1)..(k + 1) /\ a - 1 \in 1..k /\ a - 1 < b - 1
        BY <1>1, <1>4, <1>9, <3>1, <3>5
      <4>2. t[a] = q[a - 1]
        BY <1>7, <4>1
      <4> QED
        BY <1>8, <1>9, <3>1, <3>2, <4>1, <4>2
    <3> QED
      BY <1>4, <3>3, <3>4, <3>5
  <2> QED
    BY <1>4, <2>1, <2>2, <2>3
<1>10. IsRanked(in, t)
  BY <1>7, <1>9 DEF IsRanked
<1> QED
  BY <1>5, <1>6, <1>10

\* The ranking has the tools that are not excluded, the better ones first.
LEMMA RankingIs ==
    ASSUME NEW in, IsToolInput(in)
    PROVE  /\ Ranking(in) \in Seq(ToSet(in.listed)) /\ IsRanked(in, Ranking(in))
           /\ ToSet(Ranking(in)) = ToSet(in.listed) \ Excluded(in)
<1> DEFINE S == ToSet(in.listed)
           kept == Retain(in.listed, S \ Excluded(in))
           k == Len(kept)
           V == {q \in Seq(S) : IsRanked(in, q)}
           F == [n \in 1..k |-> [q \in V |-> RankedIn(in, q, kept[n])]]
           g == CHOOSE h : h = [n \in 0..k |-> IF n = 0 THEN <<>> ELSE RankedIn(in, h[n - 1], kept[n])]
           First(n) == {kept[m] : m \in 1..n}
<1>1. kept \in Seq(S) /\ ToSet(kept) = S \ Excluded(in)
  <2>1. in.listed \in Seq(S)
    BY DEF IsToolInput
  <2> HIDE DEF S
  <2>2. kept \in Seq(S) /\ ToSet(kept) = ToSet(in.listed) \cap (S \ Excluded(in))
    BY <2>1, RetainType, RetainElements
  <2> QED
    BY <2>2 DEF S
<1>2. Ranking(in) = g[k]
  BY DEF Ranking
<1> HIDE DEF kept
<1>3. k \in Nat /\ DOMAIN kept = 1..k /\ \A n \in 1..k : kept[n] \in S
  BY <1>1, LenProperties, ElementOfSeq
<1>4. \A q \in V, def \in S : RankedIn(in, q, def) \in V /\ ToSet(RankedIn(in, q, def)) = ToSet(q) \cup {def}
  BY RankedInKeeps
<1>5. <<>> \in V /\ ToSet(<<>>) = {}
  <2>1. <<>> \in Seq(S) /\ DOMAIN <<>> = {}
    BY EmptySeq
  <2> QED
    BY <2>1 DEF IsRanked, ToSet
<1> HIDE DEF S, V, k
<1>6. F \in [1..k -> [V -> V]]
  BY <1>3, <1>4
<1>7. PICK f \in [0..k -> V] : Iterates(f, <<>>, k, F)
  BY <1>3, <1>5, <1>6, FunctionsByRecursion
<1>8. f = [n \in 0..k |-> IF n = 0 THEN <<>> ELSE RankedIn(in, f[n - 1], kept[n])]
  <2>1. \A n \in 1..k : f[n - 1] \in V
    BY <1>3, <1>7
  <2>2. \A n \in 1..k : f[n] = RankedIn(in, f[n - 1], kept[n])
    BY <1>7, <2>1 DEF Iterates
  <2>3. f[0] = <<>> /\ f = [n \in 0..k |-> f[n]]
    BY <1>7 DEF Iterates
  <2>4. \A n \in 0..k : f[n] = IF n = 0 THEN <<>> ELSE RankedIn(in, f[n - 1], kept[n])
    <3>1. \A n \in 0..k : n = 0 \/ n \in 1..k
      BY <1>3
    <3> QED
      BY <2>2, <2>3, <3>1
  <2> QED
    BY <2>3, <2>4
<1>9. g = [n \in 0..k |-> IF n = 0 THEN <<>> ELSE RankedIn(in, g[n - 1], kept[n])]
  BY <1>8
<1> HIDE DEF g, F
<1>10. g[0] = <<>> /\ \A n \in 1..k : g[n] = RankedIn(in, g[n - 1], kept[n])
  <2>1. \A n \in 0..k : g[n] = IF n = 0 THEN <<>> ELSE RankedIn(in, g[n - 1], kept[n])
    BY <1>9, Zenon
  <2>2. 0 \in 0..k /\ \A n \in 1..k : n # 0 /\ n \in 0..k
    BY <1>3
  <2> QED
    BY <2>1, <2>2, Zenon
<1> DEFINE T == {n \in 0..k : g[n] \in V /\ ToSet(g[n]) = First(n)}
<1>11. 0 \in T
  BY <1>3, <1>5, <1>10
<1>12. ASSUME NEW n \in 0..(k - 1), n \in T PROVE n + 1 \in T
  <2>1. n + 1 \in 1..k /\ n + 1 \in 0..k /\ (n + 1) - 1 = n
    BY <1>3
  <2>2. g[n + 1] = RankedIn(in, g[n], kept[n + 1])
    BY <1>10, <2>1
  <2>3. g[n + 1] \in V /\ ToSet(g[n + 1]) = First(n) \cup {kept[n + 1]}
    BY <1>3, <1>4, <1>12, <2>1, <2>2
  <2>4. First(n + 1) = First(n) \cup {kept[n + 1]}
    <3>1. 1..(n + 1) = 1..n \cup {n + 1}
      BY <1>3
    <3> QED
      BY <3>1
  <2> QED
    BY <2>1, <2>3, <2>4
<1> HIDE DEF T
<1>13. \A n \in 0..(k - 1) : n \in T => n + 1 \in T
  BY <1>12
<1>14. k \in T
  <2>1. \A n \in 0..k : n \in T
    BY <1>3, <1>11, <1>13, NumbersUpTo, Zenon
  <2> QED
    BY <1>3, <2>1
<1>15. First(k) = ToSet(kept)
  BY <1>3 DEF ToSet
<1> QED
  BY <1>1, <1>2, <1>14, <1>15 DEF T, V, S

\* What is used of it are its best.
LEMMA RankedToolsAre ==
    ASSUME NEW in, IsToolInput(in)
    PROVE  LET best == RankedTools(in)
               left == (ToSet(in.listed) \ Excluded(in)) \ ToSet(best)
           IN  /\ best \in Seq(ToSet(in.listed) \ Excluded(in))
               /\ \A out \in left : /\ Len(best) = in.config.maxCandidates
                                    /\ \A def \in ToSet(best) : Score(in, def) >= Score(in, out)
<1> DEFINE sorted == Ranking(in)
           S == ToSet(in.listed)
           N == S \ Excluded(in)
           c == in.config.maxCandidates
           n == IF Len(sorted) < c THEN Len(sorted) ELSE c
           best == SubSeq(sorted, 1, n)
<1>1. sorted \in Seq(S) /\ IsRanked(in, sorted) /\ ToSet(sorted) = N
  BY RankingIs
<1>2. RankedTools(in) = best
  BY DEF RankedTools
<1>3. \A x, y \in S : ~Better(in, x, y) => Score(in, y) >= Score(in, x)
  BY BetterIsAnOrder
<1>4. c \in Nat
  BY DEF IsToolInput
<1> HIDE DEF sorted, S, N, c
<1>5. Len(sorted) \in Nat /\ DOMAIN sorted = 1..Len(sorted) /\ \A i \in 1..Len(sorted) : sorted[i] \in S
  BY <1>1, LenProperties, ElementOfSeq
<1>6. n \in 0..Len(sorted) /\ (n < Len(sorted) => n = c)
  <2>1. CASE Len(sorted) < c
    <3>1. n = Len(sorted)
      BY <2>1
    <3> HIDE DEF n
    <3> QED
      BY <1>5, <3>1
  <2>2. CASE ~(Len(sorted) < c)
    <3>1. n = c
      BY <2>2
    <3> HIDE DEF n
    <3> QED
      BY <1>4, <1>5, <2>2, <3>1
  <2> QED
    BY <2>1, <2>2
<1> HIDE DEF n
<1>7. best \in Seq(S) /\ Len(best) = n /\ \A i \in 1..n : best[i] = sorted[i]
  BY <1>1, <1>6, PartsOf
<1> HIDE DEF best
<1>8. DOMAIN best = 1..n
  BY <1>7, LenProperties
<1>9. best \in Seq(N)
  <2>1. \A i \in 1..n : best[i] \in N
    BY <1>1, <1>5, <1>6, <1>7 DEF ToSet
  <2>2. best = [i \in 1..n |-> best[i]]
    BY <1>7, <1>8, LenProperties
  <2>3. best \in [1..n -> N]
    BY <2>1, <2>2
  <2> QED
    BY <1>6, <2>3
<1>10. ASSUME NEW out \in N \ ToSet(best)
      PROVE  Len(best) = c /\ \A def \in ToSet(best) : Score(in, def) >= Score(in, out)
  <2>1. PICK j \in 1..Len(sorted) : sorted[j] = out
    BY <1>1, <1>5 DEF ToSet
  <2>2. j > n
    <3> SUFFICES ASSUME j <= n PROVE FALSE
      BY <1>6
    <3>1. j \in 1..n
      BY <1>6
    <3> QED
      BY <1>7, <1>8, <1>10, <2>1, <3>1 DEF ToSet
  <2>3. Len(best) = c
    BY <1>5, <1>6, <1>7, <2>2
  <2>4. ASSUME NEW def \in ToSet(best) PROVE Score(in, def) >= Score(in, out)
    <3>1. PICK i \in 1..n : best[i] = def
      BY <1>8 DEF ToSet
    <3>2. i \in 1..Len(sorted) /\ i < j /\ sorted[i] = def
      BY <1>5, <1>6, <1>7, <2>2, <3>1
    <3>3. ~Better(in, out, def)
      BY <1>1, <1>5, <2>1, <3>2 DEF IsRanked
    <3> QED
      BY <1>3, <1>5, <2>1, <3>2, <3>3
  <2> QED
    BY <2>3, <2>4
<1> QED
  BY <1>2, <1>9, <1>10 DEF N, S, c

-----------------------------------------------------------------------------
(* ToolPlan: the order of the items                                         *)

Pairs(n) == {e \in (0..(n - 1)) \X (0..(n - 1)) : e[1] # e[2]}

\* What may be taken once the nodes of done are: every edge into it comes from them.
Ready(edges, n, done) ==
    {m \in 0..(n - 1) : \A k \in DOMAIN edges : edges[k][2] = m => edges[k][1] \in done}

SourcesBefore(edges, order) ==
    \A k \in DOMAIN edges, j \in DOMAIN order :
       edges[k][2] = order[j] => \E i \in DOMAIN order : i < j /\ order[i] = edges[k][1]

\* What every turn keeps.
OrderStands(edges, n, order, line) ==
    /\ IsInjective(order) /\ IsInjective(line)
    /\ ToSet(order) \cap ToSet(line) = {}
    /\ ToSet(order) \cup ToSet(line) = Ready(edges, n, ToSet(order))
    /\ SourcesBefore(edges, order)

Orders(edges, n) ==
    {s \in [order : Seq(0..(n - 1)), queue : Seq(0..(n - 1))] :
        OrderStands(edges, n, s.order, s.queue)}

\* A sequence without repetitions, cut into its head and the rest of it.
LEMMA HeadTaken ==
    ASSUME NEW S, NEW q \in Seq(S), q # <<>>, IsInjective(q)
    PROVE  /\ Head(q) \in S /\ Tail(q) \in Seq(S) /\ IsInjective(Tail(q))
           /\ ToSet(q) = ToSet(Tail(q)) \cup {Head(q)} /\ Head(q) \notin ToSet(Tail(q))
<1>1. /\ Len(q) \in Nat /\ Len(q) > 0 /\ DOMAIN q = 1..Len(q)
      /\ Head(q) = q[1] /\ Head(q) \in S
      /\ Tail(q) \in Seq(S) /\ Len(Tail(q)) = Len(q) - 1
      /\ \A i \in 1..Len(Tail(q)) : Tail(q)[i] = q[i + 1]
  <2>1. Len(q) \in Nat /\ DOMAIN q = 1..Len(q) /\ Len(q) # 0
    BY LenProperties, EmptySeq
  <2>2. Head(q) = q[1] /\ Head(q) \in S
    BY <2>1, HeadTailProperties
  <2>3. /\ Tail(q) \in Seq(S) /\ Len(Tail(q)) = Len(q) - 1
        /\ \A i \in 1..Len(Tail(q)) : Tail(q)[i] = q[i + 1]
    BY <2>1, HeadTailProperties
  <2> QED
    BY <2>1, <2>2, <2>3
<1> DEFINE h == Head(q)
           t == Tail(q)
<1> HIDE DEF h, t
<1>2. DOMAIN t = 1..(Len(q) - 1) /\ \A i \in 1..(Len(q) - 1) : t[i] = q[i + 1]
  BY <1>1, LenProperties DEF t
<1>3. IsInjective(t)
  BY <1>1, <1>2 DEF IsInjective
<1>4. h \notin ToSet(t)
  BY <1>1, <1>2 DEF IsInjective, ToSet, h
<1>5. \A x \in ToSet(q) : x \in ToSet(t) \cup {h}
  <2> SUFFICES ASSUME NEW i \in 1..Len(q) PROVE q[i] \in ToSet(t) \cup {h}
    BY <1>1 DEF ToSet
  <2>1. CASE i = 1
    BY <1>1, <2>1 DEF h
  <2>2. CASE i # 1
    <3>1. i - 1 \in 1..(Len(q) - 1) /\ (i - 1) + 1 = i
      BY <1>1, <2>2
    <3> QED
      BY <1>2, <3>1 DEF ToSet
  <2> QED
    BY <2>1, <2>2
<1>6. \A x \in ToSet(t) \cup {h} : x \in ToSet(q)
  BY <1>1, <1>2 DEF ToSet, h
<1> QED
  BY <1>1, <1>3, <1>4, <1>5, <1>6 DEF h, t

\* Two sequences without a common element.
LEMMA ConcatInjective ==
    ASSUME NEW S, NEW a \in Seq(S), NEW b \in Seq(S), IsInjective(a), IsInjective(b),
           ToSet(a) \cap ToSet(b) = {}
    PROVE  a \o b \in Seq(S) /\ IsInjective(a \o b)
<1> DEFINE c == a \o b
<1>1. /\ Len(a) \in Nat /\ Len(b) \in Nat /\ DOMAIN a = 1..Len(a) /\ DOMAIN b = 1..Len(b)
  BY LenProperties
<1>2. /\ c \in Seq(S) /\ Len(c) = Len(a) + Len(b)
      /\ \A i \in 1..(Len(a) + Len(b)) : c[i] = IF i <= Len(a) THEN a[i] ELSE b[i - Len(a)]
  BY ConcatProperties
<1> HIDE DEF c
<1>3. DOMAIN c = 1..(Len(a) + Len(b))
  BY <1>2, LenProperties
<1>4. \A i \in 1..(Len(a) + Len(b)) :
         /\ i <= Len(a) => i \in 1..Len(a) /\ c[i] = a[i]
         /\ i > Len(a) => i - Len(a) \in 1..Len(b) /\ c[i] = b[i - Len(a)]
  BY <1>1, <1>2
<1>5. \A i \in 1..Len(a), j \in 1..Len(b) : a[i] # b[j]
  BY <1>1 DEF ToSet
<1>6. ASSUME NEW i \in 1..(Len(a) + Len(b)), NEW j \in 1..(Len(a) + Len(b)), c[i] = c[j]
      PROVE  i = j
  <2>1. CASE i <= Len(a) /\ j <= Len(a)
    BY <1>1, <1>4, <1>6, <2>1 DEF IsInjective
  <2>2. CASE i <= Len(a) /\ j > Len(a)
    BY <1>4, <1>5, <1>6, <2>2
  <2>3. CASE i > Len(a) /\ j <= Len(a)
    BY <1>4, <1>5, <1>6, <2>3
  <2>4. CASE i > Len(a) /\ j > Len(a)
    <3>1. i - Len(a) = j - Len(a)
      BY <1>1, <1>4, <1>6, <2>4 DEF IsInjective
    <3> QED
      BY <1>1, <3>1
  <2> QED
    BY <1>1, <2>1, <2>2, <2>3, <2>4
<1> QED
  BY <1>2, <1>3, <1>6 DEF IsInjective, c

\* The edges that free a node, and what they free.
Freeing(edges, h, done) ==
    {k \in DOMAIN edges :
       /\ edges[k][1] = h
       /\ \A l \in DOMAIN edges :
             /\ edges[l][2] = edges[k][2] => edges[l][1] \in done
             /\ edges[l] = edges[k] => l <= k}

Indices(edges) == [k \in DOMAIN edges |-> k]

FreedBy(edges, freed) == [m \in DOMAIN freed |-> edges[freed[m]][2]]

LawfullyFreed(edges, n, h, done, F) ==
    /\ F \in Seq(0..(n - 1)) /\ IsInjective(F)
    /\ ToSet(F) = {m \in Ready(edges, n, done) : \E k \in DOMAIN edges : edges[k] = <<h, m>>}

\* Each node is freed once, by the last of its edges from the head.
LEMMA FreedIs ==
    ASSUME NEW n \in Nat, NEW edges \in Seq(Pairs(n)), NEW h, NEW done
    PROVE  LawfullyFreed(edges, n, h, done, FreedBy(edges, Retain(Indices(edges), Freeing(edges, h, done))))
<1> DEFINE L == Len(edges)
           all == Indices(edges)
           freeing == Freeing(edges, h, done)
           freed == Retain(all, freeing)
           F == FreedBy(edges, freed)
<1>1. L \in Nat /\ DOMAIN edges = 1..L /\ \A k \in 1..L : edges[k] \in Pairs(n)
  BY LenProperties, ElementOfSeq
<1>2. \A k \in 1..L : edges[k][1] \in 0..(n - 1) /\ edges[k][2] \in 0..(n - 1)
                      /\ edges[k] = <<edges[k][1], edges[k][2]>>
  BY <1>1 DEF Pairs
<1> HIDE DEF L
<1>3. all \in Seq(1..L) /\ ToSet(all) = 1..L /\ IsInjective(all)
  <2>1. all = [k \in 1..L |-> k]
    BY <1>1 DEF Indices
  <2>2. DOMAIN all = 1..L /\ \A k \in 1..L : all[k] = k
    BY <2>1
  <2>3. all \in [1..L -> 1..L]
    BY <2>1
  <2>4. all \in Seq(1..L)
    BY <1>1, <2>3
  <2> HIDE DEF all
  <2> QED
    BY <2>2, <2>4 DEF ToSet, IsInjective
<1>4. freed \in Seq(1..L) /\ ToSet(freed) = (1..L) \cap freeing /\ IsInjective(freed)
  <2> HIDE DEF all, freeing
  <2> QED
    BY <1>3, RetainType, RetainElements, RetainInjective
<1>5. \A k \in freeing :
         /\ k \in 1..L /\ edges[k][1] = h
         /\ \A l \in 1..L : /\ edges[l][2] = edges[k][2] => edges[l][1] \in done
                            /\ edges[l] = edges[k] => l <= k
  BY <1>1 DEF Freeing
<1>6. \A k \in 1..L :
         /\ edges[k][1] = h
         /\ \A l \in 1..L : /\ edges[l][2] = edges[k][2] => edges[l][1] \in done
                            /\ edges[l] = edges[k] => l <= k
         => k \in freeing
  BY <1>1 DEF Freeing
<1> HIDE DEF freed, freeing, all
<1>7. /\ DOMAIN freed = 1..Len(freed) /\ Len(freed) \in Nat
      /\ \A m \in 1..Len(freed) : freed[m] \in (1..L) \cap freeing
  <2>1. DOMAIN freed = 1..Len(freed) /\ Len(freed) \in Nat
    BY <1>4, LenProperties
  <2>2. \A m \in DOMAIN freed : freed[m] \in ToSet(freed)
    BY DEF ToSet
  <2> QED
    BY <1>4, <2>1, <2>2
<1>8. DOMAIN F = 1..Len(freed) /\ \A m \in 1..Len(freed) : F[m] = edges[freed[m]][2]
  BY <1>7 DEF FreedBy
<1>9. F \in Seq(0..(n - 1))
  <2>1. F = [m \in 1..Len(freed) |-> F[m]]
    BY <1>7 DEF FreedBy
  <2>2. \A m \in 1..Len(freed) : F[m] \in 0..(n - 1)
    BY <1>2, <1>7, <1>8
  <2> HIDE DEF F
  <2>3. F \in [1..Len(freed) -> 0..(n - 1)]
    BY <2>1, <2>2
  <2> QED
    BY <1>7, <2>3
<1> HIDE DEF F
<1>10. IsInjective(F)
  <2> SUFFICES ASSUME NEW a \in 1..Len(freed), NEW b \in 1..Len(freed), F[a] = F[b] PROVE a = b
    BY <1>8 DEF IsInjective
  <2> DEFINE i == freed[a]
             j == freed[b]
  <2>1. i \in 1..L /\ j \in 1..L /\ i \in freeing /\ j \in freeing /\ edges[i][2] = edges[j][2]
    BY <1>7, <1>8
  <2>2. edges[i][1] = h /\ edges[j][1] = h
    BY <1>5, <2>1
  <2>3. edges[i] = edges[j]
    BY <1>2, <2>1, <2>2
  <2>4. i <= j /\ j <= i
    BY <1>5, <2>1, <2>3
  <2>5. i = j
    BY <1>1, <2>1, <2>4
  <2> QED
    BY <1>4, <1>7, <2>5 DEF IsInjective
<1> DEFINE R == {m \in Ready(edges, n, done) : \E k \in DOMAIN edges : edges[k] = <<h, m>>}
<1>11. ASSUME NEW x \in ToSet(F) PROVE x \in R
  <2>1. PICK m \in 1..Len(freed) : F[m] = x
    BY <1>8 DEF ToSet
  <2> DEFINE k == freed[m]
  <2>2. k \in 1..L /\ k \in freeing /\ edges[k][2] = x
    BY <1>7, <1>8, <2>1
  <2>3. edges[k] = <<h, x>> /\ x \in 0..(n - 1)
    BY <1>2, <1>5, <2>2
  <2>4. x \in Ready(edges, n, done)
    BY <1>1, <1>5, <2>2, <2>3 DEF Ready
  <2> QED
    BY <1>1, <2>2, <2>3, <2>4
<1>12. ASSUME NEW x \in R PROVE x \in ToSet(F)
  <2> DEFINE K == {k \in 1..L : edges[k] = <<h, x>>}
             M == {L - k : k \in K}
  <2>1. K # {} /\ \A k \in K : k \in 1..L /\ edges[k] = <<h, x>>
    BY <1>1
  <2>2. M \in SUBSET Nat /\ M # {}
    BY <1>1, <2>1
  <2>3. PICK d \in M : \A e \in M : d <= e
    BY <2>2, LeastNatural
  <2>4. PICK k \in K : d = L - k
    BY <2>3
  <2>5. \A l \in K : l <= k
    <3> SUFFICES ASSUME NEW l \in K PROVE l <= k
      OBVIOUS
    <3>1. L - k <= L - l
      BY <2>3, <2>4
    <3>2. k \in Int /\ l \in Int
      BY <2>1, <2>4
    <3> QED
      BY <1>1, <3>1, <3>2
  <2>6. k \in 1..L /\ edges[k] = <<h, x>> /\ edges[k][1] = h /\ edges[k][2] = x
    BY <2>1, <2>4
  <2>7. \A l \in 1..L : edges[l] = edges[k] => l <= k
    BY <2>5, <2>6
  <2>8. \A l \in 1..L : edges[l][2] = x => edges[l][1] \in done
    BY <1>1 DEF Ready
  <2>9. k \in freeing
    BY <1>6, <2>6, <2>7, <2>8
  <2>10. k \in ToSet(freed)
    BY <1>4, <2>6, <2>9
  <2>11. PICK m \in 1..Len(freed) : freed[m] = k
    BY <1>7, <2>10 DEF ToSet
  <2>12. F[m] = x
    BY <1>8, <2>6, <2>11
  <2> QED
    BY <1>8, <2>12 DEF ToSet
<1> HIDE DEF R
<1>13. ToSet(F) = R
  BY <1>11, <1>12
<1> QED
  BY <1>9, <1>10, <1>13 DEF R, F, freed, freeing, all, LawfullyFreed

\* A turn takes the head of the queue, keeps what stands, and ends the queue only
\* when nothing else is ready.
LEMMA TurnStands ==
    ASSUME NEW n \in Nat, NEW edges \in Seq(Pairs(n)), NEW s \in Orders(edges, n)
    PROVE  /\ Turn(edges, s) \in Orders(edges, n)
           /\ s.queue = <<>> => Turn(edges, s) = s
           /\ s.queue # <<>> => Len(Turn(edges, s).order) = Len(s.order) + 1
<1> DEFINE order == s.order
           line == s.queue
           h == Head(line)
           next == Append(order, h)
           F == FreedBy(edges, Retain(Indices(edges), Freeing(edges, h, ToSet(next))))
           rest == Tail(line) \o F
<1>1. order \in Seq(0..(n - 1)) /\ line \in Seq(0..(n - 1)) /\ OrderStands(edges, n, order, line)
  BY DEF Orders
<1>2. Turn(edges, s) = IF line = <<>> THEN s ELSE [order |-> next, queue |-> rest]
  BY DEF Turn, FreedBy, Freeing, Indices
<1> HIDE DEF order, line
<1>3. CASE line = <<>>
  BY <1>2, <1>3 DEF line
<1>4. CASE line # <<>>
  <2>1. /\ h \in 0..(n - 1) /\ Tail(line) \in Seq(0..(n - 1)) /\ IsInjective(Tail(line))
        /\ ToSet(line) = ToSet(Tail(line)) \cup {h} /\ h \notin ToSet(Tail(line))
    BY <1>1, <1>4, HeadTaken DEF OrderStands
  <2> HIDE DEF h
  <2>2. /\ next \in Seq(0..(n - 1)) /\ ToSet(next) = ToSet(order) \cup {h}
        /\ Len(order) \in Nat /\ Len(next) = Len(order) + 1 /\ next[Len(order) + 1] = h
        /\ \A i \in 1..Len(order) : next[i] = order[i]
        /\ DOMAIN order = 1..Len(order) /\ DOMAIN next = 1..(Len(order) + 1)
    <3>1. next \in Seq(0..(n - 1)) /\ ToSet(next) = ToSet(order) \cup {h}
      <4> DEFINE S == 0..(n - 1)
      <4> HIDE DEF S
      <4>1. order \in Seq(S) /\ h \in S
        BY <1>1, <2>1 DEF S
      <4>2. Append(order, h) \in Seq(S) /\ ToSet(Append(order, h)) = ToSet(order) \cup {h}
        BY <4>1, AppendElements
      <4> QED
        BY <4>2 DEF S
    <3>2. /\ Len(next) = Len(order) + 1 /\ next[Len(order) + 1] = h
          /\ \A i \in 1..Len(order) : next[i] = order[i]
      BY <1>1, <2>1, AppendProperties
    <3>3. DOMAIN order = 1..Len(order) /\ Len(order) \in Nat /\ DOMAIN next = 1..Len(next)
      BY <1>1, <3>1, LenProperties
    <3> QED
      BY <3>1, <3>2, <3>3
  <2> HIDE DEF next
  <2>3. /\ F \in Seq(0..(n - 1)) /\ IsInjective(F)
        /\ ToSet(F) = {m \in Ready(edges, n, ToSet(next)) : \E k \in DOMAIN edges : edges[k] = <<h, m>>}
    BY FreedIs DEF LawfullyFreed
  <2> HIDE DEF F
  <2> DEFINE old == ToSet(order)
             waiting == ToSet(Tail(line))
             free == ToSet(F)
  <2>4. \A k \in DOMAIN edges : edges[k][1] \in 0..(n - 1) /\ edges[k][2] \in 0..(n - 1)
                                 /\ edges[k] = <<edges[k][1], edges[k][2]>>
    <3>1. \A k \in DOMAIN edges : edges[k] \in Pairs(n)
      BY LenProperties, ElementOfSeq
    <3> QED
      BY <3>1 DEF Pairs
  <2>5. /\ old \cap (waiting \cup {h}) = {}
        /\ old \cup waiting \cup {h} = Ready(edges, n, old)
    BY <1>1, <2>1 DEF OrderStands
  <2>6. h \notin old
    BY <2>5
  <2>7. free \cap Ready(edges, n, old) = {}
    <3> SUFFICES ASSUME NEW x \in free, x \in Ready(edges, n, old) PROVE FALSE
      OBVIOUS
    <3>1. PICK k \in DOMAIN edges : edges[k] = <<h, x>>
      BY <2>3
    <3>2. edges[k][1] = h /\ edges[k][2] = x
      BY <3>1
    <3>3. h \in old
      BY <3>2 DEF Ready
    <3> QED
      BY <2>6, <3>3
  <2>8. Ready(edges, n, ToSet(next)) = Ready(edges, n, old) \cup free
    <3>1. ASSUME NEW x \in Ready(edges, n, old) PROVE x \in Ready(edges, n, ToSet(next))
      BY <2>2 DEF Ready
    <3>2. ASSUME NEW x \in Ready(edges, n, ToSet(next)), x \notin Ready(edges, n, old)
          PROVE  x \in free
      <4>1. PICK k \in DOMAIN edges : edges[k][2] = x /\ edges[k][1] \notin old
        BY <3>2 DEF Ready
      <4>2. edges[k][1] \in old \cup {h}
        BY <2>2, <3>2, <4>1 DEF Ready
      <4>3. edges[k] = <<h, x>>
        BY <2>4, <4>1, <4>2
      <4> QED
        BY <2>3, <3>2, <4>3
    <3>3. ASSUME NEW x \in free PROVE x \in Ready(edges, n, ToSet(next))
      BY <2>3
    <3> QED
      BY <3>1, <3>2, <3>3
  <2>9. rest \in Seq(0..(n - 1)) /\ IsInjective(rest) /\ ToSet(rest) = waiting \cup free
    <3>1. waiting \cap free = {}
      BY <2>5, <2>7
    <3>2. rest \in Seq(0..(n - 1)) /\ IsInjective(rest)
      BY <2>1, <2>3, <3>1, ConcatInjective
    <3>3. ToSet(rest) = waiting \cup free
      <4> DEFINE S == 0..(n - 1)
                 t == Tail(line)
      <4> HIDE DEF S, t
      <4>1. t \in Seq(S) /\ F \in Seq(S)
        BY <2>1, <2>3 DEF S, t
      <4>2. ToSet(t \o F) = ToSet(t) \cup ToSet(F)
        BY <4>1, ConcatElements
      <4> QED
        BY <4>2 DEF t
    <3> QED
      BY <3>2, <3>3
  <2> HIDE DEF rest
  <2>10. IsInjective(next)
    <3>1. \A i \in 1..Len(order) : order[i] # h
      BY <2>2, <2>6 DEF ToSet
    <3>2. \A i \in 1..(Len(order) + 1) : i \in 1..Len(order) \/ i = Len(order) + 1
      BY <2>2
    <3>3. IsInjective(order)
      BY <1>1 DEF OrderStands
    <3> QED
      BY <2>2, <3>1, <3>2, <3>3 DEF IsInjective
  <2>11. ToSet(next) \cap ToSet(rest) = {}
    BY <2>1, <2>2, <2>5, <2>7, <2>9
  <2>12. ToSet(next) \cup ToSet(rest) = Ready(edges, n, ToSet(next))
    BY <2>2, <2>5, <2>8, <2>9
  <2>13. SourcesBefore(edges, next)
    <3> SUFFICES ASSUME NEW k \in DOMAIN edges, NEW j \in 1..(Len(order) + 1), edges[k][2] = next[j]
                 PROVE  \E i \in 1..(Len(order) + 1) : i < j /\ next[i] = edges[k][1]
      BY <2>2 DEF SourcesBefore
    <3>1. CASE j \in 1..Len(order)
      <4>1. edges[k][2] = order[j]
        BY <2>2, <3>1
      <4>2. SourcesBefore(edges, order)
        BY <1>1 DEF OrderStands
      <4>3. PICK i \in 1..Len(order) : i < j /\ order[i] = edges[k][1]
        BY <2>2, <3>1, <4>1, <4>2 DEF SourcesBefore
      <4>4. i \in 1..(Len(order) + 1) /\ next[i] = edges[k][1]
        BY <2>2, <4>3
      <4> QED
        BY <4>3, <4>4
    <3>2. CASE j = Len(order) + 1
      <4>1. edges[k][2] = h /\ h \in Ready(edges, n, old)
        BY <2>2, <2>5, <3>2
      <4>2. edges[k][1] \in old
        BY <4>1 DEF Ready
      <4>3. PICK i \in 1..Len(order) : order[i] = edges[k][1]
        BY <2>2, <4>2 DEF ToSet
      <4>4. next[i] = edges[k][1]
        BY <2>2, <4>3
      <4>5. Len(order) \in Nat /\ i \in 1..(Len(order) + 1) /\ i < j
        BY <2>2, <3>2
      <4> QED
        BY <4>4, <4>5
    <3> QED
      BY <2>2, <3>1, <3>2
  <2>14. OrderStands(edges, n, next, rest)
    BY <2>9, <2>10, <2>11, <2>12, <2>13 DEF OrderStands
  <2>15. Turn(edges, s) = [order |-> next, queue |-> rest]
    BY <1>2, <1>4
  <2>16. Turn(edges, s) \in Orders(edges, n) /\ Turn(edges, s).order = next
    BY <2>2, <2>9, <2>14, <2>15 DEF Orders
  <2> QED
    BY <1>4, <2>2, <2>16 DEF order, line
<1> QED
  BY <1>3, <1>4

Listed(n) == [m \in 1..n |-> m - 1]

\* The items in their own order.
LEMMA ListedIs ==
    ASSUME NEW n \in Nat
    PROVE  /\ Listed(n) \in Seq(0..(n - 1)) /\ IsInjective(Listed(n)) /\ ToSet(Listed(n)) = 0..(n - 1)
<1>1. DOMAIN Listed(n) = 1..n /\ \A m \in 1..n : Listed(n)[m] = m - 1 /\ m - 1 \in 0..(n - 1)
  BY DEF Listed
<1>2. Listed(n) \in [1..n -> 0..(n - 1)]
  BY DEF Listed
<1>3. Listed(n) \in Seq(0..(n - 1))
  BY <1>2
<1>4. IsInjective(Listed(n))
  BY <1>1 DEF IsInjective
<1>5. \A x \in ToSet(Listed(n)) : x \in 0..(n - 1)
  BY <1>1 DEF ToSet
<1>6. ASSUME NEW x \in 0..(n - 1) PROVE x \in ToSet(Listed(n))
  <2>1. x + 1 \in 1..n /\ (x + 1) - 1 = x
    OBVIOUS
  <2>2. Listed(n)[x + 1] = x
    BY <1>1, <2>1
  <2> QED
    BY <1>1, <2>1, <2>2 DEF ToSet
<1> QED
  BY <1>3, <1>4, <1>5, <1>6

Start(edges, n) ==
    [order |-> <<>>,
     queue |-> Retain(Listed(n), {m \in 0..(n - 1) : \A k \in DOMAIN edges : edges[k][2] # m})]

\* At first the nodes without an edge into them wait.
LEMMA StartStands ==
    ASSUME NEW n \in Nat, NEW edges \in Seq(Pairs(n))
    PROVE  Start(edges, n) \in Orders(edges, n)
<1> DEFINE roots == {m \in 0..(n - 1) : \A k \in DOMAIN edges : edges[k][2] # m}
           S == 0..(n - 1)
           q == Retain(Listed(n), roots)
<1>1. ToSet(<<>>) = {} /\ <<>> \in Seq(S) /\ IsInjective(<<>>) /\ DOMAIN <<>> = {}
  BY EmptySeq DEF ToSet, IsInjective
<1>2. roots = Ready(edges, n, {}) /\ roots \subseteq S
  BY DEF Ready
<1>3. Listed(n) \in Seq(S) /\ IsInjective(Listed(n)) /\ ToSet(Listed(n)) = S
  BY ListedIs
<1> HIDE DEF S, roots
<1>4. q \in Seq(S) /\ IsInjective(q) /\ ToSet(q) = roots
  <2>1. q \in Seq(S) /\ IsInjective(q) /\ ToSet(q) = ToSet(Listed(n)) \cap roots
    BY <1>3, RetainType, RetainElements, RetainInjective
  <2> QED
    BY <1>2, <1>3, <2>1
<1>5. Start(edges, n) = [order |-> <<>>, queue |-> q]
  BY DEF Start, roots
<1> HIDE DEF q
<1>6. SourcesBefore(edges, <<>>)
  BY <1>1 DEF SourcesBefore
<1>7. OrderStands(edges, n, <<>>, q)
  BY <1>1, <1>2, <1>4, <1>6 DEF OrderStands
<1>8. Start(edges, n) \in [order : Seq(S), queue : Seq(S)]
  BY <1>1, <1>4, <1>5
<1> QED
  BY <1>5, <1>7, <1>8 DEF Orders, S

\* The turns take all nodes, or end with an empty queue.
LEMMA TurnsEnd ==
    ASSUME NEW n \in Nat, NEW edges \in Seq(Pairs(n))
    PROVE  \E s \in Orders(edges, n) :
              /\ Len(s.order) = n \/ s.queue = <<>>
              /\ TopoOrder(edges, n) = IF n <= 1 \/ Len(s.order) # n THEN Listed(n) ELSE s.order
<1> DEFINE V == Orders(edges, n)
           v == Start(edges, n)
           F == [m \in 1..n |-> [s \in V |-> Turn(edges, s)]]
           g == CHOOSE h : h = [m \in 0..n |-> IF m = 0 THEN v ELSE Turn(edges, h[m - 1])]
<1>1. TopoOrder(edges, n) = IF n <= 1 \/ Len(g[n].order) # n THEN Listed(n) ELSE g[n].order
  BY DEF TopoOrder, Start, Listed
<1>2. v \in V
  BY StartStands
<1>3. \A s \in V : /\ Turn(edges, s) \in V
                   /\ s.queue = <<>> => Turn(edges, s) = s
                   /\ s.queue # <<>> => Len(Turn(edges, s).order) = Len(s.order) + 1
  BY TurnStands
<1>4. v.order = <<>> /\ Len(<<>>) = 0
  BY DEF Start
<1> HIDE DEF V, v
<1>5. F \in [1..n -> [V -> V]]
  BY <1>3
<1>6. PICK f \in [0..n -> V] : Iterates(f, v, n, F)
  BY <1>2, <1>5, FunctionsByRecursion
<1>7. f = [m \in 0..n |-> IF m = 0 THEN v ELSE Turn(edges, f[m - 1])]
  <2>1. \A m \in 1..n : f[m - 1] \in V
    BY <1>6
  <2>2. \A m \in 1..n : f[m] = Turn(edges, f[m - 1])
    BY <1>6, <2>1 DEF Iterates
  <2>3. f[0] = v /\ f = [m \in 0..n |-> f[m]]
    BY <1>6 DEF Iterates
  <2>4. \A m \in 0..n : f[m] = IF m = 0 THEN v ELSE Turn(edges, f[m - 1])
    <3>1. \A m \in 0..n : m = 0 \/ m \in 1..n
      OBVIOUS
    <3> QED
      BY <2>2, <2>3, <3>1
  <2> QED
    BY <2>3, <2>4
<1>8. g = [m \in 0..n |-> IF m = 0 THEN v ELSE Turn(edges, g[m - 1])]
  BY <1>7
<1> HIDE DEF g, F
<1>9. g[0] = v /\ \A m \in 1..n : g[m] = Turn(edges, g[m - 1])
  <2>1. \A m \in 0..n : g[m] = IF m = 0 THEN v ELSE Turn(edges, g[m - 1])
    BY <1>8, Zenon
  <2>2. 0 \in 0..n /\ \A m \in 1..n : m # 0 /\ m \in 0..n
    OBVIOUS
  <2> QED
    BY <2>1, <2>2, Zenon
<1> DEFINE T == {m \in 0..n : g[m] \in V /\ (Len(g[m].order) = m \/ g[m].queue = <<>>)}
<1>10. 0 \in T
  BY <1>2, <1>4, <1>9
<1>11. ASSUME NEW m \in 0..(n - 1), m \in T PROVE m + 1 \in T
  <2>1. m + 1 \in 1..n /\ m + 1 \in 0..n /\ (m + 1) - 1 = m
    OBVIOUS
  <2>2. g[m + 1] = Turn(edges, g[m])
    BY <1>9, <2>1
  <2>3. g[m] \in V /\ (Len(g[m].order) = m \/ g[m].queue = <<>>)
    BY <1>11
  <2>4. g[m + 1] \in V
    BY <1>3, <2>2, <2>3
  <2>5. CASE g[m].queue = <<>>
    BY <1>3, <2>1, <2>2, <2>3, <2>4, <2>5
  <2>6. CASE g[m].queue # <<>>
    BY <1>3, <2>1, <2>2, <2>3, <2>4, <2>6
  <2> QED
    BY <2>5, <2>6
<1> HIDE DEF T
<1>12. \A m \in 0..(n - 1) : m \in T => m + 1 \in T
  BY <1>11
<1>13. n \in T
  <2>1. \A m \in 0..n : m \in T
    BY <1>10, <1>12, NumbersUpTo, Zenon
  <2> QED
    BY <2>1
<1> QED
  BY <1>1, <1>13 DEF T, V

\* What cannot be taken is reached from itself by any number of steps.
LEMMA CyclesAreSeen ==
    ASSUME NEW n \in Nat, NEW edges \in Seq(Pairs(n)), NEW R \in SUBSET (0..(n - 1)), R # {},
           \A x \in R : \E k \in DOMAIN edges : edges[k][1] \in R /\ edges[k][2] = x
    PROVE  ~Acyclic(edges, n)
<1> DEFINE V == SUBSET (0..(n - 1))
           v == 0..(n - 1)
           Below(X) == {edges[k][2] : k \in {q \in DOMAIN edges : edges[q][1] \in X}}
           F == [m \in 1..n |-> [X \in V |-> Below(X)]]
           g == CHOOSE h : h = [m \in 0..n |-> IF m = 0 THEN v ELSE Below(h[m - 1])]
<1>1. Acyclic(edges, n) <=> g[n] = {}
  BY DEF Acyclic
<1>2. \A X \in V : Below(X) \in V
  <2>1. \A k \in DOMAIN edges : edges[k] \in Pairs(n)
    BY LenProperties, ElementOfSeq
  <2>2. \A k \in DOMAIN edges : edges[k][2] \in 0..(n - 1)
    BY <2>1 DEF Pairs
  <2> QED
    BY <2>2
<1>3. v \in V /\ R \subseteq v
  OBVIOUS
<1>4. \A X \in V : R \subseteq X => R \subseteq Below(X)
  OBVIOUS
<1> HIDE DEF V, v, Below
<1>5. F \in [1..n -> [V -> V]]
  BY <1>2
<1>6. PICK f \in [0..n -> V] : Iterates(f, v, n, F)
  BY <1>3, <1>5, FunctionsByRecursion
<1>7. f = [m \in 0..n |-> IF m = 0 THEN v ELSE Below(f[m - 1])]
  <2>1. \A m \in 1..n : f[m - 1] \in V
    BY <1>6
  <2>2. \A m \in 1..n : f[m] = Below(f[m - 1])
    BY <1>6, <2>1 DEF Iterates
  <2>3. f[0] = v /\ f = [m \in 0..n |-> f[m]]
    BY <1>6 DEF Iterates
  <2>4. \A m \in 0..n : f[m] = IF m = 0 THEN v ELSE Below(f[m - 1])
    <3>1. \A m \in 0..n : m = 0 \/ m \in 1..n
      OBVIOUS
    <3> QED
      BY <2>2, <2>3, <3>1
  <2> QED
    BY <2>3, <2>4
<1>8. g = [m \in 0..n |-> IF m = 0 THEN v ELSE Below(g[m - 1])]
  BY <1>7
<1> HIDE DEF g, F
<1>9. g[0] = v /\ \A m \in 1..n : g[m] = Below(g[m - 1])
  <2>1. \A m \in 0..n : g[m] = IF m = 0 THEN v ELSE Below(g[m - 1])
    BY <1>8, Zenon
  <2>2. 0 \in 0..n /\ \A m \in 1..n : m # 0 /\ m \in 0..n
    OBVIOUS
  <2> QED
    BY <2>1, <2>2, Zenon
<1> DEFINE T == {m \in 0..n : g[m] \in V /\ R \subseteq g[m]}
<1>10. 0 \in T
  BY <1>3, <1>9
<1>11. ASSUME NEW m \in 0..(n - 1), m \in T PROVE m + 1 \in T
  <2>1. m + 1 \in 1..n /\ m + 1 \in 0..n /\ (m + 1) - 1 = m
    OBVIOUS
  <2>2. g[m + 1] = Below(g[m])
    BY <1>9, <2>1
  <2> QED
    BY <1>2, <1>4, <1>11, <2>1, <2>2
<1> HIDE DEF T
<1>12. \A m \in 0..(n - 1) : m \in T => m + 1 \in T
  BY <1>11
<1>13. n \in T
  <2>1. \A m \in 0..n : m \in T
    BY <1>10, <1>12, NumbersUpTo, Zenon
  <2> QED
    BY <2>1
<1> QED
  BY <1>1, <1>13 DEF T

\* The order has every item once, and keeps the edges unless they have a cycle.
LEMMA OrderIsLawful ==
    ASSUME NEW n \in Nat, NEW edges \in Seq(Pairs(n))
    PROVE  /\ ToSet(TopoOrder(edges, n)) = 0..(n - 1)
           /\ Acyclic(edges, n) => Respects(TopoOrder(edges, n), edges)
<1>1. PICK s \in Orders(edges, n) :
         /\ Len(s.order) = n \/ s.queue = <<>>
         /\ TopoOrder(edges, n) = IF n <= 1 \/ Len(s.order) # n THEN Listed(n) ELSE s.order
  BY TurnsEnd
<1> DEFINE order == s.order
           S == 0..(n - 1)
<1>2. order \in Seq(S) /\ OrderStands(edges, n, order, s.queue)
  BY DEF Orders
<1>3. IsFiniteSet(S) /\ Cardinality(S) = n
  <2>1. 0 \in Int /\ n - 1 \in Int
    OBVIOUS
  <2>2. IsFiniteSet(S)
    BY <2>1, FS_Interval
  <2>3. Cardinality(S) = IF 0 > n - 1 THEN 0 ELSE (n - 1) - 0 + 1
    BY <2>1, FS_Interval
  <2> HIDE DEF S
  <2>4. Cardinality(S) = n
    BY <2>3
  <2> QED
    BY <2>2, <2>4
<1>4. ToSet(order) \subseteq S /\ IsFiniteSet(ToSet(order)) /\ Cardinality(ToSet(order)) = Len(order)
  <2>1. IsInjective(order)
    BY <1>2 DEF OrderStands
  <2> HIDE DEF S, order
  <2> QED
    BY <1>2, <2>1, InjectiveLength, SeqElements
<1>5. CASE n <= 1
  <2>1. TopoOrder(edges, n) = Listed(n)
    BY <1>1, <1>5
  <2>2. \A k \in DOMAIN edges : edges[k] \in Pairs(n)
    BY LenProperties, ElementOfSeq
  <2>3. \A k \in DOMAIN edges : edges[k][1] \in 0..(n - 1) /\ edges[k][2] \in 0..(n - 1)
                                 /\ edges[k][1] # edges[k][2]
    BY <2>2 DEF Pairs
  <2>4. DOMAIN edges = {}
    BY <1>5, <2>3
  <2>5. Respects(TopoOrder(edges, n), edges)
    BY <2>4 DEF Respects
  <2> QED
    BY <2>1, <2>5, ListedIs
<1>6. CASE n > 1 /\ Len(order) = n
  <2>1. TopoOrder(edges, n) = order
    BY <1>1, <1>6
  <2>2. ToSet(order) = S
    <3> HIDE DEF S, order
    <3>1. Cardinality(ToSet(order)) = Cardinality(S)
      BY <1>3, <1>4, <1>6
    <3> QED
      BY <1>3, <1>4, <3>1, FS_Subset
  <2>3. Respects(order, edges)
    <3> HIDE DEF order
    <3> SUFFICES ASSUME NEW k \in DOMAIN edges, NEW i \in DOMAIN order, NEW j \in DOMAIN order,
                        order[i] = edges[k][1], order[j] = edges[k][2]
                 PROVE  i < j
      BY DEF Respects
    <3>1. PICK l \in DOMAIN order : l < j /\ order[l] = edges[k][1]
      BY <1>2 DEF OrderStands, SourcesBefore
    <3>2. l = i
      BY <1>2, <3>1 DEF OrderStands, IsInjective
    <3> QED
      BY <3>1, <3>2
  <2> QED
    BY <2>1, <2>2, <2>3
<1>7. CASE n > 1 /\ Len(order) # n
  <2>1. TopoOrder(edges, n) = Listed(n)
    BY <1>1, <1>7
  <2> DEFINE R == S \ ToSet(order)
  <2>2. R # {}
    <3> SUFFICES ASSUME R = {} PROVE FALSE
      OBVIOUS
    <3>1. ToSet(order) = S
      BY <1>4
    <3> HIDE DEF S
    <3> QED
      BY <1>3, <1>4, <1>7, <3>1
  <2>3. s.queue = <<>> /\ ToSet(<<>>) = {}
    BY <1>1, <1>7 DEF ToSet
  <2>4. ToSet(order) = Ready(edges, n, ToSet(order))
    BY <1>2, <2>3 DEF OrderStands
  <2>5. \A x \in R : \E k \in DOMAIN edges : edges[k][1] \in R /\ edges[k][2] = x
    <3> SUFFICES ASSUME NEW x \in R
                 PROVE  \E k \in DOMAIN edges : edges[k][1] \in R /\ edges[k][2] = x
      OBVIOUS
    <3>1. x \notin Ready(edges, n, ToSet(order))
      BY <2>4
    <3>2. PICK k \in DOMAIN edges : edges[k][2] = x /\ edges[k][1] \notin ToSet(order)
      BY <3>1 DEF Ready
    <3>3. edges[k] \in Pairs(n)
      BY LenProperties, ElementOfSeq
    <3>4. edges[k][1] \in S
      BY <3>3 DEF Pairs
    <3> QED
      BY <3>2, <3>4
  <2>6. R \in SUBSET (0..(n - 1))
    OBVIOUS
  <2> HIDE DEF R
  <2>7. ~Acyclic(edges, n)
    BY <2>2, <2>5, <2>6, CyclesAreSeen
  <2> QED
    BY <2>1, <2>7, ListedIs
<1> QED
  BY <1>5, <1>6, <1>7

-----------------------------------------------------------------------------
(* ToolPlan: the plan                                                       *)

\* An item is the tool of its rank.
LEMMA SpecsAre ==
    ASSUME NEW in, IsToolInput(in)
    PROVE  /\ Listing(Specs(in)) /\ Len(Specs(in)) = Len(RankedTools(in))
           /\ DOMAIN Specs(in) = 1..Len(RankedTools(in)) /\ Len(RankedTools(in)) \in Nat
           /\ \A n \in 1..Len(RankedTools(in)) :
                 /\ Specs(in)[n].tool = RankedTools(in)[n].tool
                 /\ Specs(in)[n].key = n - 1
<1> DEFINE best == RankedTools(in)
           k == Len(best)
           S == Specs(in)
<1>1. best \in Seq(ToSet(in.listed) \ Excluded(in))
  BY RankedToolsAre
<1>2. S = [n \in DOMAIN best |->
             [tool |-> best[n].tool, version |-> IF best[n].version = 0 THEN 1 ELSE best[n].version,
              cacheable |-> ~best[n].sideEffect, key |-> n - 1]]
  BY DEF Specs
<1> HIDE DEF best, S
<1>3. k \in Nat /\ DOMAIN best = 1..k
  BY <1>1, LenProperties
<1>4. /\ S = [n \in 1..k |-> S[n]]
      /\ \A n \in 1..k : S[n].tool = best[n].tool /\ S[n].key = n - 1
  BY <1>2, <1>3
<1> HIDE DEF k
<1>5. Listing(S) /\ Len(S) = k /\ DOMAIN S = 1..k
  BY <1>3, <1>4, FunctionLists
<1> QED
  BY <1>3, <1>4, <1>5 DEF S, k, best

\* The edges are between different items.
LEMMA EdgesArePairs ==
    ASSUME NEW in, IsToolInput(in), NEW n \in Nat
    PROVE  GraphOf(in, n).edges \in Seq(Pairs(n))
<1>1. CASE GraphReadable(in.graph)
  <2> DEFINE given == in.graph.edges
             S == {e \in ToSet(given) : e.from < n /\ e.to < n /\ e.from # e.to}
             kept == Retain(given, S)
             edges == KeptEdges(given, n)
  <2>1. /\ given \in Seq(ToSet(given))
        /\ \A e \in ToSet(given) : {e.from, e.to} \subseteq Nat
    <3>1. in.graph.given /\ \A m \in DOMAIN given : given[m].readable
      BY <1>1 DEF GraphReadable
    <3>2. /\ given \in Seq(ToSet(given))
          /\ \A e \in ToSet(given) : e.readable => {e.from, e.to} \subseteq Nat
      BY <3>1 DEF IsToolInput
    <3>3. \A e \in ToSet(given) : e.readable
      BY <3>1 DEF ToSet
    <3> QED
      BY <3>2, <3>3
  <2>2. kept \in Seq(ToSet(given) \cap S)
    <3> DEFINE A == ToSet(given)
    <3>1. given \in Seq(A)
      BY <2>1
    <3> HIDE DEF A, S
    <3>2. kept \in Seq(A \cap S)
      BY <3>1, RetainType
    <3> QED
      BY <3>2 DEF A
  <2>3. GraphOf(in, n).edges = edges
    BY <1>1 DEF GraphOf
  <2>4. edges = [m \in DOMAIN kept |-> <<kept[m].from, kept[m].to>>]
    BY DEF KeptEdges
  <2> HIDE DEF kept, edges
  <2>5. /\ DOMAIN kept = 1..Len(kept) /\ Len(kept) \in Nat
        /\ \A m \in 1..Len(kept) : kept[m] \in ToSet(given) \cap S
    <3> HIDE DEF S
    <3> QED
      BY <2>2, LenProperties, ElementOfSeq
  <2>6. \A m \in 1..Len(kept) : <<kept[m].from, kept[m].to>> \in Pairs(n)
    <3> SUFFICES ASSUME NEW m \in 1..Len(kept) PROVE <<kept[m].from, kept[m].to>> \in Pairs(n)
      OBVIOUS
    <3>1. kept[m].from \in Nat /\ kept[m].to \in Nat
      BY <2>1, <2>5
    <3>2. kept[m].from < n /\ kept[m].to < n /\ kept[m].from # kept[m].to
      BY <2>5
    <3> QED
      BY <3>1, <3>2 DEF Pairs
  <2>7. edges \in [1..Len(kept) -> Pairs(n)]
    BY <2>4, <2>5, <2>6
  <2>8. edges \in Seq(Pairs(n))
    BY <2>5, <2>7
  <2> QED
    BY <2>3, <2>8
<1>2. CASE ~GraphReadable(in.graph)
  <2>1. <<>> \in Seq(Pairs(n))
    BY EmptySeq
  <2>2. Linear(n) \in Seq(Pairs(n))
    <3> DEFINE k == IF n = 0 THEN 0 ELSE n - 1
    <3>1. k \in Nat /\ \A m \in 1..k : <<m - 1, m>> \in Pairs(n)
      BY DEF Pairs
    <3>2. Linear(n) = [m \in 1..k |-> <<m - 1, m>>]
      BY DEF Linear
    <3> HIDE DEF k
    <3>3. Linear(n) \in [1..k -> Pairs(n)]
      BY <3>1, <3>2
    <3> QED
      BY <3>1, <3>3
  <2>3. GraphOf(in, n).edges \in {<<>>, Linear(n)}
    BY <1>2 DEF GraphOf
  <2> QED
    BY <2>1, <2>2, <2>3
<1> QED
  BY <1>1, <1>2

\* What the gate lets through is at most what the lane may run.
LEMMA GateBounds ==
    ASSUME NEW in, NEW risk, ~(Level(risk) > Gate(in))
    PROVE  Level(risk) <=
              CASE Lane(in) = "SelfReflection" -> 1
                [] Lane(in) = "Collaboration"  -> IF Level(in.config.threshold) < 2 THEN 2
                                                  ELSE Level(in.config.threshold)
                [] OTHER                       -> Level(in.config.threshold)
<1> DEFINE t == Level(in.config.threshold)
           r == Level(risk)
<1>1. t \in 0..4 /\ r \in 0..4
  BY LevelIs
<1>2. ~(r > AdjustRiskGate(Lane(in), t))
  BY DEF Gate
<1> HIDE DEF t, r
<1>3. CASE Lane(in) = "SelfReflection"
  BY <1>1, <1>2, <1>3 DEF AdjustRiskGate, t, r
<1>4. CASE Lane(in) = "Collaboration"
  BY <1>1, <1>2, <1>4 DEF AdjustRiskGate, t, r
<1>5. CASE Lane(in) # "SelfReflection" /\ Lane(in) # "Collaboration"
  BY <1>1, <1>2, <1>5 DEF AdjustRiskGate, t, r
<1> QED
  BY <1>3, <1>4, <1>5

\* What ToolPlansAreLawful says of a call with a plan.
PlanIsLawful(in, plan) ==
    LET used  == {def \in ToSet(in.listed) : \E n \in DOMAIN plan.items : plan.items[n].tool = def.tool}
        edges == plan.graph.edges
        n     == Len(plan.items)
    IN  /\ \A def \in used :
             Level(Stats(in, def).risk) <=
                CASE plan.lane = "SelfReflection" -> 1
                  [] plan.lane = "Collaboration"  -> IF Level(in.config.threshold) < 2 THEN 2
                                                     ELSE Level(in.config.threshold)
                  [] OTHER                        -> Level(in.config.threshold)
        /\ \A out \in ToSet(in.listed) \ used :
             \/ Level(Stats(in, out).risk) > Gate(in)
             \/ n = in.config.maxCandidates /\ \A def \in used : Score(in, def) >= Score(in, out)
        /\ \A k \in DOMAIN edges : edges[k][1] # edges[k][2] /\ edges[k][1] < n /\ edges[k][2] < n
        /\ Acyclic(edges, n) => Respects(TopoOrder(edges, n), edges)
        /\ ToSet(TopoOrder(edges, n)) = 0..(n - 1)

\* The plan that is made of an input is lawful.
LEMMA PlanMadeIsLawful ==
    ASSUME NEW in, IsToolInput(in)
    PROVE  PlanIsLawful(in, PlanMade(in))
<1> DEFINE plan == PlanMade(in)
           items == Specs(in)
           best == RankedTools(in)
           n == Len(items)
           edges == GraphOf(in, n).edges
           S == ToSet(in.listed)
           used == {def \in S : \E m \in DOMAIN items : items[m].tool = def.tool}
<1>1. plan.items = items /\ plan.lane = Lane(in) /\ plan.graph.edges = edges
  BY DEF PlanMade
<1>2. /\ DOMAIN items = 1..Len(best) /\ Len(best) \in Nat /\ n = Len(best)
      /\ \A m \in 1..Len(best) : items[m].tool = best[m].tool
  BY SpecsAre
<1>3. /\ best \in Seq(S \ Excluded(in))
      /\ \A out \in (S \ Excluded(in)) \ ToSet(best) :
            /\ Len(best) = in.config.maxCandidates
            /\ \A def \in ToSet(best) : Score(in, def) >= Score(in, out)
  BY RankedToolsAre
<1>4. edges \in Seq(Pairs(n))
  BY <1>2, EdgesArePairs
<1>5. \A x, y \in S : x.tool = y.tool => x = y
  BY DEF IsToolInput, ToSet
<1> HIDE DEF items, best, n, edges, S, plan
<1>6. /\ DOMAIN best = 1..Len(best) /\ \A m \in 1..Len(best) : best[m] \in S /\ best[m] \notin Excluded(in)
  BY <1>3, LenProperties, ElementOfSeq
<1>7. used = ToSet(best)
  <2>1. ASSUME NEW def \in used PROVE def \in ToSet(best)
    <3>1. PICK m \in 1..Len(best) : items[m].tool = def.tool
      BY <1>2
    <3>2. best[m] = def
      BY <1>2, <1>5, <1>6, <3>1
    <3> QED
      BY <1>6, <3>2 DEF ToSet
  <2>2. ASSUME NEW def \in ToSet(best) PROVE def \in used
    <3>1. PICK m \in 1..Len(best) : best[m] = def
      BY <1>6 DEF ToSet
    <3> QED
      BY <1>2, <1>6, <3>1
  <2> QED
    BY <2>1, <2>2
<1>8. \A def \in used : def \notin Excluded(in)
  BY <1>6, <1>7 DEF ToSet
<1> HIDE DEF used
<1>9. \A def \in used : def \in S
  BY <1>6, <1>7 DEF ToSet
<1>10. \A def \in used : Level(Stats(in, def).risk) <=
          CASE Lane(in) = "SelfReflection" -> 1
            [] Lane(in) = "Collaboration"  -> IF Level(in.config.threshold) < 2 THEN 2
                                              ELSE Level(in.config.threshold)
            [] OTHER                       -> Level(in.config.threshold)
  <2> TAKE def \in used
  <2>1. ~(Level(Stats(in, def).risk) > Gate(in))
    BY <1>8, <1>9 DEF Excluded, S
  <2> QED
    BY <2>1, GateBounds
<1>11. \A out \in S \ used :
          \/ Level(Stats(in, out).risk) > Gate(in)
          \/ n = in.config.maxCandidates /\ \A def \in used : Score(in, def) >= Score(in, out)
  <2> TAKE out \in S \ used
  <2>1. CASE out \in Excluded(in)
    BY <2>1 DEF Excluded
  <2>2. CASE out \notin Excluded(in)
    <3>1. out \in (S \ Excluded(in)) \ ToSet(best)
      BY <1>7, <2>2
    <3> QED
      BY <1>2, <1>3, <1>7, <3>1
  <2> QED
    BY <2>1, <2>2
<1>12. \A k \in DOMAIN edges : edges[k][1] # edges[k][2] /\ edges[k][1] < n /\ edges[k][2] < n
  <2>1. \A k \in DOMAIN edges : edges[k] \in Pairs(n)
    BY <1>4, LenProperties, ElementOfSeq
  <2> QED
    BY <1>2, <2>1 DEF Pairs
<1>13. /\ ToSet(TopoOrder(edges, n)) = 0..(n - 1)
       /\ Acyclic(edges, n) => Respects(TopoOrder(edges, n), edges)
  BY <1>2, <1>4, OrderIsLawful
<1>14. /\ plan.items = items /\ plan.lane = Lane(in) /\ plan.graph.edges = edges
       /\ n = Len(items) /\ S = ToSet(in.listed)
       /\ used = {def \in S : \E m \in DOMAIN items : items[m].tool = def.tool}
  BY <1>1 DEF n, S, used
<1>15. PlanIsLawful(in, plan)
  BY <1>10, <1>11, <1>12, <1>13, <1>14, Zenon DEF PlanIsLawful
<1> QED
  BY <1>15 DEF plan

-----------------------------------------------------------------------------
(* ToolPlan: the events                                                     *)

CallOf(tool, key, at) ==
    [id |-> <<"call", key>>, type |-> "ToolCall", tool |-> tool, call |-> key, sequence |-> at,
     success |-> TRUE, reason |-> "none"]

ReasonOf(x, tool) ==
    IF LastStage(x, tool).outcome = "ok" THEN DegradeOf(x, tool)
    ELSE IF LastStage(x, tool).notes # "none" THEN LastStage(x, tool).notes
    ELSE LastStage(x, tool).outcome

ResultOf(x, tool, key, at) ==
    [id |-> <<"result", key>>, type |-> "ToolResult", tool |-> tool, call |-> key, sequence |-> at,
     success |-> LastStage(x, tool).outcome = "ok", reason |-> ReasonOf(x, tool)]

\* What an execution needs so that its events can tell it.
CanBeTold(x) ==
    /\ \A n \in DOMAIN x.degrade : x.degrade[n].reason # "none"
    /\ x.fallback /\ x.stages # <<>> => x.reason # "none"

\* Event n of E tells the call of one of the first m items, or what came of the call before.
Tells(x, m, E, n) ==
    /\ E[n].call \in 0..(m - 1)
    /\ \/ E[n].type = "ToolCall" /\ E[n].id = <<"call", E[n].call>>
       \/ /\ E[n].type = "ToolResult" /\ E[n].id = <<"result", E[n].call>>
          /\ n > 1 /\ E[n - 1].type = "ToolCall" /\ E[n - 1].call = E[n].call
          /\ E[n - 1].tool = E[n].tool
          /\ E[n].success => LastStage(x, E[n].tool).outcome = "ok"
          /\ x.fallback \/ ~E[n].success => E[n].reason # "none"

Told(x, first, m, E) ==
    /\ \A n \in 1..Len(E) : E[n].sequence = first + n - 1
    /\ \A n \in 1..Len(E) : Tells(x, m, E, n)
    /\ \A n, k \in 1..Len(E) : E[n].id = E[k].id => n = k

\* One more event that tells the run and has an id of its own.
LEMMA OneMoreTold ==
    ASSUME NEW S, NEW E \in Seq(S), NEW e \in S, NEW x, NEW first \in Int, NEW m \in Nat,
           NEW k \in Nat, m <= k, Told(x, first, m, E),
           e.sequence = first + Len(E), \A n \in 1..Len(E) : E[n].id # e.id,
           Tells(x, k, Append(E, e), Len(E) + 1)
    PROVE  Told(x, first, k, Append(E, e))
<1> DEFINE L == Len(E)
           A == Append(E, e)
<1>1. /\ L \in Nat /\ Len(A) = L + 1 /\ A[L + 1] = e
      /\ \A n \in 1..L : A[n] = E[n]
  BY AppendProperties, LenProperties
<1>2. /\ \A n \in 1..L : E[n].sequence = first + n - 1
      /\ \A n \in 1..L : Tells(x, m, E, n)
      /\ \A n, j \in 1..L : E[n].id = E[j].id => n = j
  BY DEF Told
<1>3. e.sequence = first + L /\ (\A n \in 1..L : E[n].id # e.id) /\ Tells(x, k, A, L + 1)
  OBVIOUS
<1> HIDE DEF A, L
<1>4. \A n \in 1..(L + 1) : n \in 1..L \/ n = L + 1
  BY <1>1
<1>5. \A n \in 1..(L + 1) : A[n].sequence = first + n - 1
  <2>1. \A n \in 1..L : A[n].sequence = first + n - 1
    BY <1>1, <1>2
  <2>2. A[L + 1].sequence = first + (L + 1) - 1
    BY <1>1, <1>3
  <2> QED
    BY <1>4, <2>1, <2>2
<1>6. ASSUME NEW n \in 1..L PROVE Tells(x, k, A, n)
  <2>1. A[n] = E[n] /\ Tells(x, m, E, n)
    BY <1>1, <1>2
  <2>2. n > 1 => n - 1 \in 1..L /\ A[n - 1] = E[n - 1]
    BY <1>1
  <2>3. E[n].call \in 0..(k - 1)
    <3>1. E[n].call \in 0..(m - 1)
      BY <2>1 DEF Tells
    <3> QED
      BY <3>1
  <2> QED
    BY <2>1, <2>2, <2>3 DEF Tells
<1>7. \A n \in 1..(L + 1) : Tells(x, k, A, n)
  BY <1>3, <1>4, <1>6
<1>8. \A n, j \in 1..(L + 1) : A[n].id = A[j].id => n = j
  <2> SUFFICES ASSUME NEW n \in 1..(L + 1), NEW j \in 1..(L + 1), A[n].id = A[j].id PROVE n = j
    OBVIOUS
  <2>1. CASE n \in 1..L /\ j \in 1..L
    BY <1>1, <1>2, <2>1
  <2>2. CASE n \in 1..L /\ j = L + 1
    BY <1>1, <1>3, <2>2
  <2>3. CASE n = L + 1 /\ j \in 1..L
    BY <1>1, <1>3, <2>3
  <2> QED
    BY <1>4, <2>1, <2>2, <2>3
<1> QED
  BY <1>1, <1>5, <1>7, <1>8 DEF Told, A

\* The call of the next item.
LEMMA CallTold ==
    ASSUME NEW S, NEW E \in Seq(S), NEW x, NEW first \in Int, NEW m \in Nat, Told(x, first, m, E),
           NEW tool, CallOf(tool, m, first + Len(E)) \in S
    PROVE  Told(x, first, m + 1, Append(E, CallOf(tool, m, first + Len(E))))
<1> DEFINE e == CallOf(tool, m, first + Len(E))
           L == Len(E)
<1>1. L \in Nat /\ Append(E, e)[L + 1] = e
  BY AppendProperties, LenProperties
<1>2. e.id = <<"call", m>> /\ e.type = "ToolCall" /\ e.call = m /\ e.sequence = first + L
  BY DEF CallOf
<1> HIDE DEF e, L
<1>3. ASSUME NEW n \in 1..L PROVE E[n].id # e.id
  <2>1. Tells(x, m, E, n)
    BY DEF Told, L
  <2>2. /\ E[n].call # m
        /\ E[n].id = <<"call", E[n].call>> \/ E[n].id = <<"result", E[n].call>>
    BY <2>1 DEF Tells
  <2> QED
    BY <1>2, <2>2
<1>4. Tells(x, m + 1, Append(E, e), L + 1)
  <2>1. m \in 0..((m + 1) - 1)
    OBVIOUS
  <2> QED
    BY <1>1, <1>2, <2>1 DEF Tells
<1>5. e \in S /\ m + 1 \in Nat /\ m <= m + 1
  BY DEF e, L
<1>6. Told(x, first, m + 1, Append(E, e))
  BY <1>2, <1>3, <1>4, <1>5, OneMoreTold DEF L
<1> QED
  BY <1>6 DEF e, L

\* What came of it.
LEMMA ResultTold ==
    ASSUME NEW S, NEW E \in Seq(S), NEW x, CanBeTold(x), NEW first \in Int, NEW m \in Nat,
           Told(x, first, m, E), NEW tool, LastStage(x, tool).outcome # "none",
           CallOf(tool, m, first + Len(E)) \in S,
           ResultOf(x, tool, m, first + Len(E) + 1) \in S
    PROVE  Told(x, first, m + 1, Append(Append(E, CallOf(tool, m, first + Len(E))),
                                       ResultOf(x, tool, m, first + Len(E) + 1)))
<1> DEFINE c == CallOf(tool, m, first + Len(E))
           r == ResultOf(x, tool, m, first + Len(E) + 1)
           L == Len(E)
           C == Append(E, c)
           R == Append(C, r)
<1>1. L \in Nat /\ C \in Seq(S) /\ Len(C) = L + 1 /\ C[L + 1] = c /\ \A n \in 1..L : C[n] = E[n]
  BY AppendProperties, LenProperties
<1>2. Told(x, first, m + 1, C)
  BY CallTold
<1>3. /\ c.id = <<"call", m>> /\ c.type = "ToolCall" /\ c.call = m /\ c.tool = tool
      /\ r.id = <<"result", m>> /\ r.type = "ToolResult" /\ r.call = m /\ r.tool = tool
      /\ r.sequence = first + (L + 1) /\ r.success = (LastStage(x, tool).outcome = "ok")
      /\ r.reason = ReasonOf(x, tool)
  BY <1>1 DEF CallOf, ResultOf
<1>4. r \in S
  OBVIOUS
<1> HIDE DEF c, r, L, C
<1>5. R[L + 2] = r /\ R[L + 1] = c
  <2>1. Len(C) + 1 = L + 2 /\ L + 1 \in 1..Len(C)
    BY <1>1
  <2>2. R[Len(C) + 1] = r /\ \A n \in 1..Len(C) : R[n] = C[n]
    BY <1>1, <1>4, AppendProperties
  <2> QED
    BY <1>1, <2>1, <2>2
<1> HIDE DEF R
<1>6. ASSUME NEW n \in 1..(L + 1) PROVE C[n].id # r.id
  <2>1. CASE n = L + 1
    BY <1>1, <1>3, <2>1
  <2>2. CASE n \in 1..L
    <3>1. Tells(x, m, E, n)
      BY <2>2 DEF Told, L
    <3>2. /\ E[n].call # m
          /\ E[n].id = <<"call", E[n].call>> \/ E[n].id = <<"result", E[n].call>>
      BY <3>1 DEF Tells
    <3> QED
      BY <1>1, <1>3, <2>2, <3>2
  <2> QED
    BY <1>1, <2>1, <2>2
<1>7. x.fallback \/ LastStage(x, tool).outcome # "ok" => ReasonOf(x, tool) # "none"
  <2>1. CASE LastStage(x, tool).outcome # "ok"
    BY <2>1 DEF ReasonOf
  <2>2. CASE LastStage(x, tool).outcome = "ok" /\ x.fallback
    <3>1. ReasonOf(x, tool) = DegradeOf(x, tool)
      BY <2>2 DEF ReasonOf
    <3>2. x.stages # <<>>
      <4> SUFFICES ASSUME x.stages = <<>> PROVE FALSE
        OBVIOUS
      <4>1. DOMAIN <<>> = {}
        OBVIOUS
      <4>2. LastStage(x, tool) = [outcome |-> "none"]
        BY <4>1 DEF LastStage
      <4> QED
        BY <4>2
    <3>3. x.reason # "none"
      BY <2>2, <3>2 DEF CanBeTold
    <3> DEFINE at == {n \in DOMAIN x.degrade : x.degrade[n].from = tool}
    <3>4. CASE at = {}
      BY <3>1, <3>3, <3>4 DEF DegradeOf
    <3>5. CASE at # {}
      <4>1. PICK n \in at : DegradeOf(x, tool) = x.degrade[n].reason
        <5>1. (CHOOSE n \in at : TRUE) \in at
          BY <3>5, Zenon
        <5>2. DegradeOf(x, tool) = x.degrade[CHOOSE n \in at : TRUE].reason
          BY <3>5 DEF DegradeOf
        <5> QED
          BY <5>1, <5>2, Zenon
      <4> QED
        BY <3>1, <4>1 DEF CanBeTold
    <3> QED
      BY <3>4, <3>5
  <2> QED
    BY <2>1, <2>2
<1>8. Tells(x, m + 1, R, L + 2)
  <2>1. m \in 0..((m + 1) - 1) /\ L + 2 > 1 /\ (L + 2) - 1 = L + 1
    BY <1>1
  <2>2. r.success => LastStage(x, tool).outcome = "ok"
    BY <1>3
  <2>3. x.fallback \/ ~r.success => r.reason # "none"
    BY <1>3, <1>7
  <2> QED
    BY <1>3, <1>5, <2>1, <2>2, <2>3 DEF Tells
<1>9. Told(x, first, m + 1, R)
  <2>1. /\ Len(C) \in Nat /\ r.sequence = first + Len(C) /\ Len(C) + 1 = L + 2 /\ 1..Len(C) = 1..(L + 1)
        /\ m + 1 \in Nat /\ m + 1 <= m + 1
    BY <1>1, <1>3
  <2>2. Tells(x, m + 1, Append(C, r), Len(C) + 1)
    BY <1>8, <2>1 DEF R
  <2>3. \A n \in 1..Len(C) : C[n].id # r.id
    BY <1>6, <2>1
  <2>4. Told(x, first, m + 1, Append(C, r))
    BY <1>1, <1>2, <1>4, <2>1, <2>2, <2>3, OneMoreTold
  <2> QED
    BY <2>4 DEF R
<1> QED
  BY <1>9 DEF R, C, r, c, L

\* The pool stays a listing.
LEMMA RemoveFirstStays ==
    ASSUME NEW P, NEW q \in Seq(P), NEW e
    PROVE  RemoveFirst(q, e) \in Seq(P)
<1>1. CASE ~(\E i \in 1..Len(q) : q[i] = e)
  BY <1>1 DEF RemoveFirst
<1>2. CASE \E i \in 1..Len(q) : q[i] = e
  <2> DEFINE I == {i \in 1..Len(q) : q[i] = e}
             k == Min(I)
  <2>1. RemoveFirst(q, e) = RemoveAt(q, k)
    <3>1. I # {}
      BY <1>2
    <3> QED
      BY <1>2, <3>1 DEF RemoveFirst, SelectInSeq
  <2>2. k \in 1..Len(q)
    <3>1. I \in SUBSET Nat /\ I # {}
      BY <1>2
    <3>2. I \subseteq 1..Len(q)
      OBVIOUS
    <3> HIDE DEF I
    <3>3. \E i \in I : \A j \in I : i <= j
      BY <3>1, LeastNatural
    <3>4. k \in I
      BY <3>3, Zenon DEF Min
    <3> QED
      BY <3>2, <3>4
  <2> HIDE DEF k
  <2>3. Len(q) \in Nat /\ k - 1 \in 0..Len(q) /\ k \in 0..Len(q)
    BY <2>2, LenProperties
  <2>4. SubSeq(q, 1, k - 1) \in Seq(P) /\ SubSeq(q, k + 1, Len(q)) \in Seq(P)
    BY <2>3, PartsOf
  <2>5. RemoveAt(q, k) = SubSeq(q, 1, k - 1) \o SubSeq(q, k + 1, Len(q))
    BY DEF RemoveAt
  <2> QED
    BY <2>1, <2>4, <2>5, ConcatProperties
<1> QED
  BY <1>1, <1>2

Logs(S, P) == [events : Seq(S), sequence : Int, pool : Seq(P)]

\* The events an execution can have of some tools.
EventSet(x, tools) ==
    {CallOf(p[1], p[2], p[3]) : p \in tools \X Nat \X Int}
      \cup {ResultOf(x, p[1], p[2], p[3]) : p \in tools \X Nat \X Int}

\* It has the call and the result of each of these tools.
LEMMA EventSetHas ==
    ASSUME NEW x, NEW tools, NEW t \in tools, NEW key \in Nat, NEW at \in Int
    PROVE  CallOf(t, key, at) \in EventSet(x, tools) /\ ResultOf(x, t, key, at) \in EventSet(x, tools)
<1> DEFINE p == <<t, key, at>>
<1>1. p \in tools \X Nat \X Int /\ p[1] = t /\ p[2] = key /\ p[3] = at
  OBVIOUS
<1> HIDE DEF p
<1> QED
  BY <1>1, Zenon DEF EventSet

Logged(S, P, x, log, spec, next, c, r) ==
    /\ next \in Logs(S, P)
    /\ \/ next = log
       \/ next.events = Append(log.events, c) /\ next.sequence = log.sequence + 1
       \/ /\ LastStage(x, spec.tool).outcome # "none"
          /\ next.events = Append(Append(log.events, c), r)
          /\ next.sequence = log.sequence + 1 + 1

\* What a log becomes with an item: nothing new, its call, or the call and its result.
LEMMA ItemEventsAre ==
    ASSUME NEW S, NEW P, NEW log \in Logs(S, P), NEW x, NEW spec,
           CallOf(spec.tool, spec.key, log.sequence) \in S,
           ResultOf(x, spec.tool, spec.key, log.sequence + 1) \in S
    PROVE  Logged(S, P, x, log, spec, ItemEvents(log, x, spec),
                  CallOf(spec.tool, spec.key, log.sequence),
                  ResultOf(x, spec.tool, spec.key, log.sequence + 1))
<1> DEFINE next == ItemEvents(log, x, spec)
           c == CallOf(spec.tool, spec.key, log.sequence)
           r == ResultOf(x, spec.tool, spec.key, log.sequence + 1)
           a == log.events
           q == log.sequence
           p == log.pool
           called == CallEvent(log, spec)
           told == ResultEvent(called, x, spec)
<1>1. a \in Seq(S) /\ q \in Int /\ p \in Seq(P) /\ log = [events |-> a, sequence |-> q, pool |-> p]
  BY DEF Logs
<1>2. c \in S /\ r \in S
  OBVIOUS
<1>3. /\ c = [id |-> <<"call", spec.key>>, type |-> "ToolCall", tool |-> spec.tool, call |-> spec.key,
              sequence |-> q, success |-> TRUE, reason |-> "none"]
      /\ r = [id |-> <<"result", spec.key>>, type |-> "ToolResult", tool |-> spec.tool,
              call |-> spec.key, sequence |-> q + 1,
              success |-> LastStage(x, spec.tool).outcome = "ok", reason |-> ReasonOf(x, spec.tool)]
  BY DEF CallOf, ResultOf
<1>4. called = Next1([log EXCEPT !.events = Append(@, c)])
  BY <1>3 DEF CallEvent
<1> HIDE DEF a, q, p
<1>5. called = [events |-> Append(a, c), sequence |-> q + 1, pool |-> p]
  <2> DEFINE b == Append(a, c)
  <2>1. [log EXCEPT !.events = Append(@, c)] = [log EXCEPT !.events = b]
    BY DEF a
  <2> HIDE DEF b
  <2>3. [log EXCEPT !.events = b] = [events |-> b, sequence |-> q, pool |-> p]
    BY <1>1
  <2>2. Next1([events |-> b, sequence |-> q, pool |-> p]) = [events |-> b, sequence |-> q + 1, pool |-> p]
    BY DEF Next1
  <2> QED
    BY <1>4, <2>1, <2>2, <2>3 DEF b
<1>6. called.sequence = q + 1
  BY <1>5
<1>7. told = Next1([called EXCEPT !.pool = RemoveFirst(@, spec.tool), !.events = Append(@, r)])
  BY <1>3, <1>6 DEF ResultEvent, ReasonOf
<1>8. told = [events |-> Append(Append(a, c), r), sequence |-> q + 1 + 1, pool |-> RemoveFirst(p, spec.tool)]
  <2> DEFINE b == Append(a, c)
             d == Append(b, r)
             w == RemoveFirst(p, spec.tool)
             n == q + 1
  <2>1. called = [events |-> b, sequence |-> n, pool |-> p]
    BY <1>5
  <2>2. [called EXCEPT !.pool = RemoveFirst(@, spec.tool), !.events = Append(@, r)]
          = [called EXCEPT !.pool = RemoveFirst(called.pool, spec.tool), !.events = Append(called.events, r)]
    OBVIOUS
  <2>3. RemoveFirst(called.pool, spec.tool) = w /\ Append(called.events, r) = d
    BY <2>1
  <2> HIDE DEF b, d, w, n, called
  <2>4. [called EXCEPT !.pool = w, !.events = d] = [events |-> d, sequence |-> n, pool |-> w]
    <3> DEFINE f == [called EXCEPT !.pool = w]
    <3>1. f = [events |-> b, sequence |-> n, pool |-> w]
      BY <2>1
    <3>2. [called EXCEPT !.pool = w, !.events = d] = [f EXCEPT !.events = d]
      OBVIOUS
    <3> HIDE DEF f
    <3>3. [f EXCEPT !.events = d] = [events |-> d, sequence |-> n, pool |-> w]
      BY <3>1
    <3> QED
      BY <3>2, <3>3
  <2>5. Next1([events |-> d, sequence |-> n, pool |-> w]) = [events |-> d, sequence |-> n + 1, pool |-> w]
    BY DEF Next1
  <2>6. told = [events |-> d, sequence |-> n + 1, pool |-> w]
    BY <1>7, <2>2, <2>3, <2>4, <2>5
  <2> HIDE DEF told
  <2> QED
    BY <2>6 DEF d, b, n, w
<1>9. next = IF LastStage(x, spec.tool).outcome = "none" THEN log
             ELSE IF Contains(log.pool, spec.tool) THEN told ELSE called
  BY DEF ItemEvents
<1> HIDE DEF called, told, c, r, next
<1>10. Append(a, c) \in Seq(S) /\ Append(Append(a, c), r) \in Seq(S)
  BY <1>1, <1>2, AppendProperties
<1>11. RemoveFirst(p, spec.tool) \in Seq(P)
  BY <1>1, RemoveFirstStays
<1>12. called \in Logs(S, P) /\ told \in Logs(S, P)
  BY <1>1, <1>5, <1>8, <1>10, <1>11 DEF Logs
<1>13. next \in Logs(S, P)
  BY <1>9, <1>12
<1>14. CASE LastStage(x, spec.tool).outcome = "none"
  BY <1>9, <1>13, <1>14 DEF next, c, r, Logged
<1>15. CASE LastStage(x, spec.tool).outcome # "none"
  <2>1. next = called \/ next = told
    BY <1>9, <1>15
  <2>2. called.events = Append(a, c) /\ called.sequence = q + 1
    BY <1>5
  <2>3. told.events = Append(Append(a, c), r) /\ told.sequence = q + 1 + 1
    BY <1>8
  <2> QED
    BY <1>13, <1>15, <2>1, <2>2, <2>3 DEF next, c, r, a, q, Logged
<1> QED
  BY <1>14, <1>15

\* Item by item the log tells the run, and counts on.
LEMMA LogTells ==
    ASSUME NEW in, in.sequence \in Int, NEW plan, Listing(plan.items),
           \A n \in 1..Len(plan.items) : plan.items[n].key = n - 1,
           NEW x, CanBeTold(x), Listing(x.summaries)
    PROVE  LET log == LogOf(in, plan, x)
           IN  \E S : /\ log.events \in Seq(S) /\ log.sequence = in.sequence + Len(log.events)
                      /\ Told(x, in.sequence, Len(plan.items), log.events)
<1> DEFINE items == plan.items
           k == Len(items)
           first == in.sequence
           tools == {items[n].tool : n \in 1..k}
           S == EventSet(x, tools)
           P == ToSet(x.summaries)
           V == {log \in Logs(S, P) : log.sequence = first + Len(log.events)}
           v == [events |-> <<>>, sequence |-> first, pool |-> x.summaries]
           g == CHOOSE h : h = [n \in 0..k |-> IF n = 0 THEN v ELSE ItemEvents(h[n - 1], x, items[n])]
           F == [n \in 1..k |-> [log \in V |-> ItemEvents(log, x, items[n])]]
<1>1. LogOf(in, plan, x) = g[k]
  BY DEF LogOf
<1>2. k \in Nat /\ \A n \in 1..k : items[n].key = n - 1 /\ items[n].tool \in tools
  BY ListingIs
<1>3. Len(<<>>) = 0 /\ <<>> \in Seq(S)
  OBVIOUS
<1>4. v \in V /\ Told(x, first, 0, v.events)
  <2>1. x.summaries \in Seq(P)
    BY DEF Listing
  <2>2. v \in Logs(S, P) /\ v.events = <<>> /\ v.sequence = first
    BY <1>3, <2>1 DEF Logs
  <2>3. Told(x, first, 0, <<>>)
    BY <1>3 DEF Told
  <2> QED
    BY <1>3, <2>2, <2>3
<1> HIDE DEF items, k, tools, S, P, first, v
<1>5. ASSUME NEW n \in 1..k, NEW log \in V
      PROVE  /\ ItemEvents(log, x, items[n]) \in V
             /\ Told(x, first, n - 1, log.events) => Told(x, first, n, ItemEvents(log, x, items[n]).events)
  <2> DEFINE spec == items[n]
             next == ItemEvents(log, x, spec)
             q == log.sequence
             E == log.events
             c == CallOf(spec.tool, spec.key, q)
             r == ResultOf(x, spec.tool, spec.key, q + 1)
  <2>1. log \in Logs(S, P) /\ E \in Seq(S) /\ q \in Int /\ q = first + Len(E) /\ first \in Int
        /\ Len(E) \in Nat
    BY LenProperties DEF Logs, first
  <2>2. spec.tool \in tools /\ spec.key = n - 1 /\ n - 1 \in Nat /\ (n - 1) + 1 = n
    BY <1>2
  <2>3. c \in S /\ r \in S
    BY <2>1, <2>2, EventSetHas DEF S
  <2>4. /\ next \in Logs(S, P)
        /\ \/ next = log
           \/ next.events = Append(E, c) /\ next.sequence = q + 1
           \/ /\ LastStage(x, spec.tool).outcome # "none"
              /\ next.events = Append(Append(E, c), r) /\ next.sequence = q + 1 + 1
    <3>1. Logged(S, P, x, log, spec, next, c, r)
      BY <2>1, <2>3, ItemEventsAre
    <3> HIDE DEF next, c, r
    <3> QED
      BY <3>1 DEF Logged
  <2>5. c = CallOf(spec.tool, n - 1, first + Len(E)) /\ r = ResultOf(x, spec.tool, n - 1, first + Len(E) + 1)
    BY <2>1, <2>2
  <2> HIDE DEF next, c, r, q, E, spec
  <2>6. /\ Append(E, c) \in Seq(S) /\ Len(Append(E, c)) = Len(E) + 1
        /\ Len(Append(Append(E, c), r)) = Len(E) + 1 + 1
    BY <2>1, <2>3, AppendProperties
  <2>7. next \in V
    <3>1. next.sequence = first + Len(next.events)
      <4>1. CASE next = log
        BY <4>1
      <4>2. CASE next.events = Append(E, c) /\ next.sequence = q + 1
        BY <2>1, <2>6, <4>2
      <4>3. CASE next.events = Append(Append(E, c), r) /\ next.sequence = q + 1 + 1
        BY <2>1, <2>6, <4>3
      <4> QED
        BY <2>4, <4>1, <4>2, <4>3
    <3> QED
      BY <2>4, <3>1
  <2>8. ASSUME Told(x, first, n - 1, E) PROVE Told(x, first, n, next.events)
    <3>1. CASE next = log
      <4>1. Told(x, first, n - 1, next.events)
        BY <2>8, <3>1 DEF E
      <4>2. \A i \in 1..Len(next.events) : Tells(x, n - 1, next.events, i) => Tells(x, n, next.events, i)
        <5>1. \A j \in 0..((n - 1) - 1) : j \in 0..(n - 1)
          OBVIOUS
        <5> QED
          BY <5>1 DEF Tells
      <4> QED
        BY <4>1, <4>2 DEF Told
    <3>2. CASE next.events = Append(E, c)
      <4>1. Told(x, first, (n - 1) + 1, Append(E, c))
        BY <2>1, <2>2, <2>3, <2>5, <2>8, CallTold
      <4> QED
        BY <2>2, <3>2, <4>1
    <3>3. CASE LastStage(x, spec.tool).outcome # "none" /\ next.events = Append(Append(E, c), r)
      <4>1. Told(x, first, (n - 1) + 1, Append(Append(E, c), r))
        BY <2>1, <2>2, <2>3, <2>5, <2>8, <3>3, ResultTold
      <4> QED
        BY <2>2, <3>3, <4>1
    <3> QED
      BY <2>4, <3>1, <3>2, <3>3
  <2> QED
    BY <2>7, <2>8 DEF next, E, spec
<1>6. /\ \A n \in 1..k, log \in V : ItemEvents(log, x, items[n]) \in V
      /\ \A n \in 1..k, log \in V :
            Told(x, first, n - 1, log.events) => Told(x, first, n, ItemEvents(log, x, items[n]).events)
  BY <1>5
<1> HIDE DEF V
<1>7. F \in [1..k -> [V -> V]]
  BY <1>6
<1>8. PICK f \in [0..k -> V] : Iterates(f, v, k, F)
  BY <1>2, <1>4, <1>7, FunctionsByRecursion
<1>9. f = [n \in 0..k |-> IF n = 0 THEN v ELSE ItemEvents(f[n - 1], x, items[n])]
  <2>1. \A n \in 1..k : f[n - 1] \in V
    BY <1>2, <1>8
  <2>2. \A n \in 1..k : f[n] = ItemEvents(f[n - 1], x, items[n])
    BY <1>8, <2>1 DEF Iterates
  <2>3. f[0] = v /\ f = [n \in 0..k |-> f[n]]
    BY <1>8 DEF Iterates
  <2>4. \A n \in 0..k : f[n] = IF n = 0 THEN v ELSE ItemEvents(f[n - 1], x, items[n])
    <3>1. \A n \in 0..k : n = 0 \/ n \in 1..k
      BY <1>2
    <3> QED
      BY <2>2, <2>3, <3>1
  <2> QED
    BY <2>3, <2>4
<1>10. g = [n \in 0..k |-> IF n = 0 THEN v ELSE ItemEvents(g[n - 1], x, items[n])]
  BY <1>9
<1> HIDE DEF g, F
<1>11. g[0] = v /\ \A n \in 1..k : g[n] = ItemEvents(g[n - 1], x, items[n])
  <2>1. \A n \in 0..k : g[n] = IF n = 0 THEN v ELSE ItemEvents(g[n - 1], x, items[n])
    BY <1>10, Zenon
  <2>2. 0 \in 0..k /\ \A n \in 1..k : n # 0 /\ n \in 0..k
    BY <1>2
  <2> QED
    BY <2>1, <2>2, Zenon
<1> DEFINE T == {n \in 0..k : g[n] \in V /\ Told(x, first, n, g[n].events)}
<1>12. 0 \in T
  BY <1>2, <1>4, <1>11
<1>13. ASSUME NEW n \in 0..(k - 1), n \in T PROVE n + 1 \in T
  <2>1. n + 1 \in 1..k /\ n + 1 \in 0..k /\ (n + 1) - 1 = n
    BY <1>2
  <2>2. g[n + 1] = ItemEvents(g[n], x, items[n + 1])
    BY <1>11, <2>1
  <2>3. g[n] \in V /\ Told(x, first, n, g[n].events)
    BY <1>13
  <2>4. g[n + 1] \in V
    BY <1>6, <2>1, <2>2, <2>3
  <2>5. Told(x, first, n + 1, g[n + 1].events)
    BY <1>6, <2>1, <2>2, <2>3
  <2> QED
    BY <2>1, <2>4, <2>5
<1> HIDE DEF T
<1>14. \A n \in 0..(k - 1) : n \in T => n + 1 \in T
  BY <1>13
<1>15. k \in T
  <2>1. \A n \in 0..k : n \in T
    BY <1>2, <1>12, <1>14, NumbersUpTo, Zenon
  <2> QED
    BY <1>2, <2>1
<1>16. g[k].events \in Seq(S) /\ g[k].sequence = first + Len(g[k].events) /\ Told(x, first, k, g[k].events)
  BY <1>15 DEF T, V, Logs
<1> QED
  BY <1>1, <1>16 DEF first, k, items

\* What ToolEventsTellTheRun says of the events of a call that is done.
EventsAreTold(first, x, E) ==
    /\ \A n \in DOMAIN E : E[n].sequence = first + n - 1
    /\ \A n, m \in DOMAIN E : E[n].id = E[m].id => n = m
    /\ \A n \in DOMAIN E : E[n].type = "ToolResult" /\ E[n].call >= 0 =>
         /\ n > 1 /\ E[n - 1].type = "ToolCall" /\ E[n - 1].call = E[n].call
         /\ E[n - 1].tool = E[n].tool
         /\ E[n].success => LastStage(x, E[n].tool).outcome = "ok"
         /\ x.fallback \/ ~E[n].success => E[n].reason # "none"

\* What tells the items tells the run.
LEMMA ToldIsTold ==
    ASSUME NEW S, NEW E \in Seq(S), NEW x, NEW first \in Int, NEW m \in Nat, Told(x, first, m, E)
    PROVE  EventsAreTold(first, x, E)
<1>1. DOMAIN E = 1..Len(E)
  BY LenProperties
<1> QED
  BY <1>1 DEF Told, Tells, EventsAreTold

\* One more event closes them; it is no result of a call.
LEMMA ClosedIsTold ==
    ASSUME NEW S, NEW E \in Seq(S), NEW x, NEW first \in Int, NEW m \in Nat, Told(x, first, m, E),
           NEW c, c.sequence = first + Len(E), ~(c.type = "ToolResult" /\ c.call >= 0),
           c.id \in {<<"self_reflection", 0>>, <<"collaboration", 0>>}
    PROVE  EventsAreTold(first, x, Append(E, c))
<1> DEFINE L == Len(E)
           A == Append(E, c)
           U == S \cup {c}
<1>1. E \in Seq(U) /\ c \in U
  BY SeqMonotonic
<1> HIDE DEF U
<1>2. /\ L \in Nat /\ A \in Seq(U) /\ Len(A) = L + 1 /\ A[L + 1] = c
      /\ \A n \in 1..L : A[n] = E[n]
  BY <1>1, AppendProperties, LenProperties
<1>3. /\ \A n \in 1..L : E[n].sequence = first + n - 1
      /\ \A n \in 1..L : Tells(x, m, E, n)
      /\ \A n, j \in 1..L : E[n].id = E[j].id => n = j
  BY DEF Told
<1>4. c.sequence = first + L
  OBVIOUS
<1> HIDE DEF A, L
<1>5. DOMAIN A = 1..(L + 1) /\ \A n \in 1..(L + 1) : n \in 1..L \/ n = L + 1
  BY <1>2, LenProperties
<1>6. \A n \in 1..L : E[n].id # c.id
  BY <1>3 DEF Tells
<1>7. \A n \in DOMAIN A : A[n].sequence = first + n - 1
  <2>1. \A n \in 1..L : A[n].sequence = first + n - 1
    BY <1>2, <1>3
  <2>2. A[L + 1].sequence = first + (L + 1) - 1
    BY <1>2, <1>4
  <2> QED
    BY <1>5, <2>1, <2>2
<1>8. \A n, j \in DOMAIN A : A[n].id = A[j].id => n = j
  <2> SUFFICES ASSUME NEW n \in 1..(L + 1), NEW j \in 1..(L + 1), A[n].id = A[j].id PROVE n = j
    BY <1>5
  <2>1. CASE n \in 1..L /\ j \in 1..L
    BY <1>2, <1>3, <2>1
  <2>2. CASE n \in 1..L /\ j = L + 1
    BY <1>2, <1>6, <2>2
  <2>3. CASE n = L + 1 /\ j \in 1..L
    BY <1>2, <1>6, <2>3
  <2> QED
    BY <1>5, <2>1, <2>2, <2>3
<1>9. ASSUME NEW n \in DOMAIN A, A[n].type = "ToolResult", A[n].call >= 0
      PROVE  /\ n > 1 /\ A[n - 1].type = "ToolCall" /\ A[n - 1].call = A[n].call
             /\ A[n - 1].tool = A[n].tool
             /\ A[n].success => LastStage(x, A[n].tool).outcome = "ok"
             /\ x.fallback \/ ~A[n].success => A[n].reason # "none"
  <2>1. n \in 1..L
    BY <1>2, <1>5, <1>9
  <2>2. A[n] = E[n] /\ Tells(x, m, E, n)
    BY <1>2, <1>3, <2>1
  <2>3. n > 1
    BY <1>9, <2>2 DEF Tells
  <2>4. n - 1 \in 1..L
    BY <1>2, <2>1, <2>3
  <2>5. A[n - 1] = E[n - 1]
    BY <1>2, <2>4
  <2> QED
    BY <1>9, <2>2, <2>3, <2>5 DEF Tells
<1> QED
  BY <1>7, <1>8, <1>9 DEF EventsAreTold, A

\* The events of a plan that was made tell any execution that can be told.
LEMMA EventsOfAreTold ==
    ASSUME NEW in, IsToolInput(in), NEW x, CanBeTold(x), Listing(x.summaries)
    PROVE  EventsAreTold(in.sequence, x, EventsOf(in, PlanMade(in), x))
<1> DEFINE plan == PlanMade(in)
           log == LogOf(in, plan, x)
           k == Len(plan.items)
           first == in.sequence
           E == EventsOf(in, plan, x)
<1>1. /\ plan.items = Specs(in) /\ Listing(plan.items) /\ k \in Nat
      /\ \A n \in 1..k : plan.items[n].key = n - 1
  <2>1. plan.items = Specs(in)
    BY DEF PlanMade
  <2> HIDE DEF plan
  <2> QED
    BY <2>1, SpecsAre
<1>2. first \in Int
  BY DEF IsToolInput
<1>3. PICK S : /\ log.events \in Seq(S) /\ log.sequence = first + Len(log.events)
               /\ Told(x, first, k, log.events)
  <2> HIDE DEF plan
  <2> QED
    BY <1>1, <1>2, LogTells
<1>4. E = IF ~in.session THEN <<>>
          ELSE CASE x.summary = "none"           -> log.events
                 [] plan.lane = "SelfReflection" -> Append(log.events, SelfReflectionEvent(x, log))
                 [] plan.lane = "Collaboration"  -> Append(log.events, CollaborationEvent(x, log))
                 [] OTHER                        -> log.events
  BY DEF EventsOf
<1> DEFINE s == SelfReflectionEvent(x, log)
           c == CollaborationEvent(x, log)
<1>5. /\ s.sequence = log.sequence /\ s.type = "SelfReflection" /\ s.id = <<"self_reflection", 0>>
      /\ c.sequence = log.sequence /\ c.call = 0 - 1 /\ c.id = <<"collaboration", 0>>
  BY DEF SelfReflectionEvent, CollaborationEvent
<1> HIDE DEF plan, log, k, first, E, s, c
<1>6. EventsAreTold(first, x, <<>>)
  <2>1. DOMAIN <<>> = {}
    OBVIOUS
  <2> QED
    BY <2>1 DEF EventsAreTold
<1>7. EventsAreTold(first, x, log.events)
  BY <1>1, <1>2, <1>3, ToldIsTold
<1>8. EventsAreTold(first, x, Append(log.events, s))
  BY <1>1, <1>2, <1>3, <1>5, ClosedIsTold
<1>9. EventsAreTold(first, x, Append(log.events, c))
  <2>1. ~(c.type = "ToolResult" /\ c.call >= 0)
    BY <1>5
  <2> QED
    BY <1>1, <1>2, <1>3, <1>5, <2>1, ClosedIsTold
<1>10. E \in {<<>>, log.events, Append(log.events, s), Append(log.events, c)}
  BY <1>4 DEF s, c
<1>11. EventsAreTold(first, x, E)
  BY <1>6, <1>7, <1>8, <1>9, <1>10, Zenon
<1> QED
  BY <1>11 DEF first, E, plan

\* What an orchestrator returns of a call.
IsExecution(in, y) ==
    /\ y = [stages |-> y.stages, summaries |-> y.summaries, summary |-> y.summary,
            reason |-> y.reason, fallback |-> y.fallback, degrade |-> y.degrade]
    /\ y.degrade = in.config.rules /\ Listing(y.summaries)

\* So do the orchestrator of the crate,
LEMMA DelegatedIs ==
    ASSUME NEW in, NEW plan
    PROVE  IsExecution(in, Delegated(plan, in.config))
<1> DEFINE y == Delegated(plan, in.config)
           a == [n \in DOMAIN plan.items |-> [tool |-> plan.items[n].tool,
                                             outcome |-> "pending_execution", notes |-> "delegated"]]
           d == in.config.rules
<1>1. y = [NoExecution EXCEPT !.stages = a, !.degrade = d]
  BY DEF Delegated
<1> HIDE DEF y, a, d
<1>2. y = [stages |-> a, summaries |-> <<>>, summary |-> "none", reason |-> "none",
           fallback |-> FALSE, degrade |-> d]
  <2> DEFINE f == [NoExecution EXCEPT !.stages = a]
  <2>1. f = [stages |-> a, summaries |-> <<>>, summary |-> "none", reason |-> "none",
             fallback |-> FALSE, degrade |-> <<>>]
    <3> DEFINE none == <<>>
               F == FALSE
    <3>1. NoExecution = [stages |-> none, summaries |-> none, summary |-> "none", reason |-> "none",
                         fallback |-> F, degrade |-> none]
      BY DEF NoExecution
    <3> HIDE DEF none, F
    <3>2. f = [stages |-> a, summaries |-> none, summary |-> "none", reason |-> "none",
               fallback |-> F, degrade |-> none]
      BY <3>1
    <3> QED
      BY <3>2 DEF none, F
  <2>2. y = [f EXCEPT !.degrade = d]
    BY <1>1
  <2> HIDE DEF f
  <2> QED
    BY <2>1, <2>2
<1>3. Listing(<<>>)
  BY EmptySeq DEF Listing
<1>4. /\ y.summaries = <<>> /\ y.degrade = d
      /\ y = [stages |-> y.stages, summaries |-> y.summaries, summary |-> y.summary,
              reason |-> y.reason, fallback |-> y.fallback, degrade |-> y.degrade]
  BY <1>2
<1> QED
  BY <1>3, <1>4 DEF IsExecution, y, d

\* and any other.
LEMMA PerformedIs ==
    ASSUME NEW in, NEW plan, Listing(plan.items), NEW how, NEW told, NEW closing, NEW fallback
    PROVE  IsExecution(in, Performed(plan, in.config, how, told, closing, fallback))
<1> DEFINE y == Performed(plan, in.config, how, told, closing, fallback)
           names == [n \in DOMAIN plan.items |-> plan.items[n].tool]
           k == Len(plan.items)
           q == Retain(names, told)
<1>1. k \in Nat /\ DOMAIN plan.items = 1..k
  BY ListingIs
<1>2. Listing(names)
  <2>1. names = [n \in 1..k |-> names[n]]
    BY <1>1
  <2> HIDE DEF names, k
  <2> QED
    BY <1>1, <2>1, FunctionLists
<1>3. \E a : y = [stages |-> a, summaries |-> q, summary |-> closing, reason |-> "none",
                  fallback |-> fallback, degrade |-> in.config.rules]
  BY DEF Performed
<1> HIDE DEF y, names
<1>4. Listing(q)
  BY <1>2, RetainLists
<1> HIDE DEF q
<1>5. PICK a : y = [stages |-> a, summaries |-> q, summary |-> closing, reason |-> "none",
                    fallback |-> fallback, degrade |-> in.config.rules]
  BY <1>3
<1>6. /\ y.summaries = q /\ y.degrade = in.config.rules
      /\ y = [stages |-> y.stages, summaries |-> y.summaries, summary |-> y.summary,
              reason |-> y.reason, fallback |-> y.fallback, degrade |-> y.degrade]
  BY <1>5
<1> QED
  BY <1>4, <1>6 DEF IsExecution, y

\* The explainer leaves what it needs: a run without stages has no events, a fallback a reason.
LEMMA DecoratedCanBeTold ==
    ASSUME NEW in, IsToolInput(in), NEW y, IsExecution(in, y)
    PROVE  CanBeTold(Decorated(y)) /\ Listing(Decorated(y).summaries)
<1> DEFINE z == Decorated(y)
           a == y.stages
           p == y.summaries
           c == y.summary
           r == y.reason
           b == y.fallback
           d == y.degrade
           e == IF r = "none" /\ b THEN "fallback_triggered" ELSE r
<1>1. /\ y = [stages |-> a, summaries |-> p, summary |-> c, reason |-> r, fallback |-> b, degrade |-> d]
      /\ Listing(p) /\ \A n \in DOMAIN d : d[n].reason # "none"
  <2>1. /\ y = [stages |-> a, summaries |-> p, summary |-> c, reason |-> r, fallback |-> b, degrade |-> d]
        /\ Listing(p) /\ d = in.config.rules
    BY DEF IsExecution
  <2>2. \A n \in DOMAIN in.config.rules : in.config.rules[n].reason # "none"
    BY DEF IsToolInput
  <2> QED
    BY <2>1, <2>2
<1>2. Listing(<<>>)
  BY EmptySeq DEF Listing
<1>3. CASE a = <<>>
  <2>1. z = [y EXCEPT !.reason = "none", !.summaries = <<>>]
    BY <1>3 DEF Decorated
  <2> HIDE DEF z, a, p, c, r, b, d
  <2>2. z = [stages |-> a, summaries |-> <<>>, summary |-> c, reason |-> "none", fallback |-> b,
             degrade |-> d]
    <3> DEFINE f == [y EXCEPT !.reason = "none"]
    <3>1. f = [stages |-> a, summaries |-> p, summary |-> c, reason |-> "none", fallback |-> b,
               degrade |-> d]
      BY <1>1
    <3>2. z = [f EXCEPT !.summaries = <<>>]
      BY <2>1
    <3> HIDE DEF f
    <3> QED
      BY <3>1, <3>2
  <2>3. z.stages = <<>> /\ z.summaries = <<>> /\ z.degrade = d
    BY <1>3, <2>2
  <2>4. CanBeTold(z) /\ Listing(z.summaries)
    BY <1>1, <1>2, <2>3 DEF CanBeTold
  <2> QED
    BY <2>4 DEF z
<1>4. CASE a # <<>>
  <2>1. z = [y EXCEPT !.reason = e]
    BY <1>4 DEF Decorated
  <2>2. b => e # "none"
    OBVIOUS
  <2> HIDE DEF z, a, p, c, r, b, d, e
  <2>3. z = [stages |-> a, summaries |-> p, summary |-> c, reason |-> e, fallback |-> b, degrade |-> d]
    BY <1>1, <2>1
  <2>4. z.summaries = p /\ z.degrade = d /\ z.reason = e /\ z.fallback = b
    BY <2>3
  <2>5. CanBeTold(z) /\ Listing(z.summaries)
    BY <1>1, <2>2, <2>4 DEF CanBeTold
  <2> QED
    BY <2>5 DEF z
<1> QED
  BY <1>3, <1>4

-----------------------------------------------------------------------------
(* ToolPlan: the call                                                       *)

RunShape(run) ==
    run = [phase |-> run.phase, in |-> run.in, plan |-> run.plan, execution |-> run.execution,
           events |-> run.events, error |-> run.error]

RunStands(run) ==
    /\ RunShape(run)
    /\ run.phase \in {"planned", "done"} => run.in \in PlanInputs /\ run.plan = PlanMade(run.in)
    /\ run.phase = "done" => EventsAreTold(run.in.sequence, run.execution, run.events)

\* A call is refused, or its plan is the one that is made of its input.
LEMMA PlanToolsKeeps ==
    ASSUME RunStands(toolRun), NEW in \in PlanInputs, PlanTools(in)
    PROVE  RunStands(toolRun')
<1> DEFINE e == Refusal(in)
           p == PlanMade(in)
<1>1. \/ toolRun' = [NoToolRun EXCEPT !.phase = "refused", !.in = in, !.error = e]
      \/ toolRun' = [NoToolRun EXCEPT !.phase = "planned", !.in = in, !.plan = p]
  BY DEF PlanTools
<1>2. NoToolRun = [phase |-> "idle", in |-> NoInput, plan |-> NoToolPlan, execution |-> NoExecution,
                   events |-> <<>>, error |-> "none"]
  BY DEF NoToolRun
<1> HIDE DEF e, p
<1>3. CASE toolRun' = [NoToolRun EXCEPT !.phase = "refused", !.in = in, !.error = e]
  <2>1. toolRun' = [phase |-> "refused", in |-> in, plan |-> NoToolPlan, execution |-> NoExecution,
                    events |-> <<>>, error |-> e]
    BY <1>2, <1>3
  <2> QED
    BY <2>1 DEF RunStands, RunShape
<1>4. CASE toolRun' = [NoToolRun EXCEPT !.phase = "planned", !.in = in, !.plan = p]
  <2>1. toolRun' = [phase |-> "planned", in |-> in, plan |-> p, execution |-> NoExecution,
                    events |-> <<>>, error |-> "none"]
    BY <1>2, <1>4
  <2> QED
    BY <2>1 DEF RunStands, RunShape, p
<1> QED
  BY <1>1, <1>3, <1>4

\* What is executed is told.
LEMMA ExecuteToolsKeeps ==
    ASSUME RunStands(toolRun), toolRun.phase = "planned", NEW y, IsExecution(toolRun.in, y),
           ExecuteTools(y)
    PROVE  RunStands(toolRun')
<1> DEFINE x == Decorated(y)
           in == toolRun.in
           E == EventsOf(in, toolRun.plan, x)
<1>1. in \in PlanInputs /\ toolRun.plan = PlanMade(in) /\ RunShape(toolRun)
  BY DEF RunStands
<1>2. IsToolInput(in)
  BY <1>1, PlanAssumption
<1>3. CanBeTold(x) /\ Listing(x.summaries)
  <2> HIDE DEF in
  <2>1. IsExecution(in, y)
    BY DEF in
  <2> QED
    BY <1>2, <2>1, DecoratedCanBeTold
<1>4. EventsAreTold(in.sequence, x, E)
  <2> HIDE DEF in, x
  <2> QED
    BY <1>1, <1>2, <1>3, EventsOfAreTold
<1>5. toolRun' = [toolRun EXCEPT !.phase = "done", !.execution = x, !.events = E]
  BY DEF ExecuteTools
<1> HIDE DEF x, E
<1>6. toolRun' = [phase |-> "done", in |-> in, plan |-> toolRun.plan, execution |-> x,
                  events |-> E, error |-> toolRun.error]
  BY <1>1, <1>5 DEF RunShape
<1>7. /\ toolRun'.phase = "done" /\ toolRun'.in = in /\ toolRun'.plan = toolRun.plan
      /\ toolRun'.execution = x /\ toolRun'.events = E /\ toolRun'.error = toolRun.error
  BY <1>6
<1>8. RunShape(toolRun')
  BY <1>6, <1>7 DEF RunShape
<1> QED
  BY <1>1, <1>4, <1>7, <1>8 DEF RunStands

ToolPlanInv == RunStands(toolRun)

\* Every step keeps it.
LEMMA ToolPlanStep == ToolPlanInv /\ [ToolPlanNext]_toolRunVars => ToolPlanInv'
<1> USE DEF ToolPlanInv
<1> SUFFICES ASSUME RunStands(toolRun), [ToolPlanNext]_toolRunVars PROVE RunStands(toolRun')
  OBVIOUS
<1>1. ASSUME NEW in \in PlanInputs, PlanTools(in) PROVE RunStands(toolRun')
  BY <1>1, PlanToolsKeeps
<1>2. CASE toolRun.phase = "planned" /\ ExecuteTools(Delegated(toolRun.plan, toolRun.in.config))
  BY <1>2, DelegatedIs, ExecuteToolsKeeps
<1>3. ASSUME toolRun.phase = "planned",
             NEW how \in [DOMAIN toolRun.plan.items -> {"ok", "timeout", "skipped"}],
             NEW told, NEW closing, NEW fallback \in BOOLEAN,
             ExecuteTools(Performed(toolRun.plan, toolRun.in.config, how, told, closing, fallback))
      PROVE  RunStands(toolRun')
  <2>1. toolRun.in \in PlanInputs /\ toolRun.plan = PlanMade(toolRun.in)
    BY <1>3 DEF RunStands
  <2>2. IsToolInput(toolRun.in)
    BY <2>1, PlanAssumption
  <2>3. Listing(toolRun.plan.items)
    <3>1. toolRun.plan.items = Specs(toolRun.in)
      BY <2>1 DEF PlanMade
    <3> QED
      BY <2>2, <3>1, SpecsAre
  <2>4. IsExecution(toolRun.in, Performed(toolRun.plan, toolRun.in.config, how, told, closing, fallback))
    BY <2>3, PerformedIs
  <2> QED
    BY <1>3, <2>4, ExecuteToolsKeeps
<1>4. CASE ExecutionFails
  <2>1. toolRun' = [toolRun EXCEPT !.phase = "refused", !.error = "orchestrator"]
    BY <1>4 DEF ExecutionFails
  <2>2. toolRun' = [phase |-> "refused", in |-> toolRun.in, plan |-> toolRun.plan,
                    execution |-> toolRun.execution, events |-> toolRun.events,
                    error |-> "orchestrator"]
    BY <2>1 DEF RunStands, RunShape
  <2> QED
    BY <2>2 DEF RunStands, RunShape
<1>5. CASE UNCHANGED toolRunVars
  BY <1>5 DEF toolRunVars
<1> QED
  BY <1>1, <1>2, <1>3, <1>4, <1>5 DEF ToolPlanNext

\* For any listing, config and graph, as the inputs have them, and any orchestrator: a
\* plan has the best of the tools the risk gate of its lane lets through and an order that
\* keeps the edges of its request unless these have a cycle, and the events of its run
\* count on, have ids of their own and tell of every result what became of its call.
THEOREM ToolPlansHold == ToolPlanSpec => []PlansAreLawfulAndTold
<1>1. ToolPlanInit => ToolPlanInv
  BY DEF ToolPlanInit, NoToolRun, ToolPlanInv, RunStands, RunShape
<1>2. ToolPlanInv /\ [ToolPlanNext]_toolRunVars => ToolPlanInv'
  BY ToolPlanStep
<1>3. ToolPlanInv => PlansAreLawfulAndTold
  <2> USE DEF ToolPlanInv
  <2> SUFFICES ASSUME ToolPlanInv PROVE PlansAreLawfulAndTold
    OBVIOUS
  <2>1. ToolPlansAreLawful
    <3>1. ASSUME toolRun.phase \in {"planned", "done"} PROVE PlanIsLawful(toolRun.in, toolRun.plan)
      <4>1. toolRun.in \in PlanInputs /\ toolRun.plan = PlanMade(toolRun.in)
        BY <3>1 DEF RunStands
      <4>2. IsToolInput(toolRun.in)
        BY <4>1, PlanAssumption
      <4> QED
        BY <4>1, <4>2, PlanMadeIsLawful
    <3> QED
      BY <3>1, Zenon DEF ToolPlansAreLawful, PlanIsLawful
  <2>2. ToolEventsTellTheRun
    BY Zenon DEF RunStands, EventsAreTold, ToolEventsTellTheRun
  <2> QED
    BY <2>1, <2>2 DEF PlansAreLawfulAndTold
<1> QED
  BY <1>1, <1>2, <1>3, PTL DEF ToolPlanSpec

=============================================================================
