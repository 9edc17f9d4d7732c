------------------------------ MODULE ToolGateway ------------------------------
(***************************************************************************)
(* ToolGateway and DagExecutor (ace/tool_gateway.rs).  The gateway is one  *)
(* mutex over the running executions, the count of each tool and the       *)
(* history; callers use it directly, and executors, each a call of         *)
(* execute() with a plan of its own, use a clone of the same gateway.      *)
(*                                                                         *)
(* Abstractions.  Inputs and outputs are left out.  An execution is old or *)
(* not (older than timeout_ms).  Of the history its length is kept.        *)
(***************************************************************************)
EXTENDS Retain, FiniteSets, SequencesExt

CONSTANTS
    ExecutionIds, Tools,
    Executors, PlanOf,        \* the nodes of each executor's plan
    MaxConcurrent, MaxPerTool,
    MaxSubmits                \* bound: calls of submit outside any plan

\* DagNode
Nodes == [id : ExecutionIds, tool : Tools, deps : SUBSET ExecutionIds]

ASSUME GatewayAssumption ==
    /\ MaxConcurrent \in Nat /\ MaxPerTool \in Nat /\ MaxSubmits \in Nat
    /\ PlanOf \in [Executors -> Seq(Nodes)]

VARIABLES
    executing,     \* GatewayState.executing, by execution id
    concurrency,   \* GatewayState.tool_concurrency
    history,       \* how many records GatewayState.history has
    dag,           \* each executor: where it is in execute()
    overwritten,   \* history: executions of each tool that lost their entry
    submits        \* submissions so far, for MaxSubmits

gatewayVars == <<executing, concurrency, history, dag, overwritten, submits>>

GatewayInit ==
    /\ executing = [i \in {} |-> 0]
    /\ concurrency = [t \in Tools |-> 0]
    /\ history = 0
    /\ dag = [e \in Executors |-> [step |-> "idle", todo |-> <<>>, completed |-> {}]]
    /\ overwritten = [t \in Tools |-> 0]
    /\ submits = 0

-----------------------------------------------------------------------------
(* ToolGateway                                                              *)

RunningOf(t) == {i \in DOMAIN executing : executing[i].tool = t}

\* Mutant: the check of the limits is left to the caller.
AcceptsAll(tool) == TRUE

Accepts(tool) ==
    /\ Cardinality(DOMAIN executing) < MaxConcurrent
    /\ concurrency[tool] < MaxPerTool

\* submit, once accepted: an id that is running loses its entry, not its count.
Submitted(id, tool) ==
    /\ executing' = [i \in DOMAIN executing \cup {id} |->
                       IF i = id THEN [tool |-> tool, status |-> "Running", old |-> FALSE]
                                 ELSE executing[i]]
    /\ concurrency' = [concurrency EXCEPT ![tool] = @ + 1]
    /\ overwritten' = IF id \in DOMAIN executing
                      THEN [overwritten EXCEPT ![executing[id].tool] = @ + 1]
                      ELSE overwritten

\* Mutant: the count of the tool is not given back.
CompletedKeepingCount(id) ==
    /\ executing' = [i \in DOMAIN executing \ {id} |-> executing[i]]
    /\ history' = history + 1
    /\ UNCHANGED concurrency

\* complete, when the id is running; what it ended with is only recorded.
Completed(id) ==
    /\ executing' = [i \in DOMAIN executing \ {id} |-> executing[i]]
    /\ concurrency' = [concurrency EXCEPT ![executing[id].tool] = IF @ = 0 THEN 0 ELSE @ - 1]
    /\ history' = history + 1

Submit(id, tool) ==
    /\ submits < MaxSubmits /\ Accepts(tool)
    /\ submits' = submits + 1
    /\ Submitted(id, tool)
    /\ UNCHANGED <<history, dag>>

Complete(id) ==
    /\ id \in DOMAIN executing
    /\ Completed(id)
    /\ UNCHANGED <<dag, overwritten, submits>>

TimeoutElapses(id) ==
    /\ id \in DOMAIN executing /\ ~executing[id].old
    /\ executing' = [executing EXCEPT ![id].old = TRUE]
    /\ UNCHANGED <<concurrency, history, dag, overwritten, submits>>

\* check_timeouts marks; the slot is given back by complete only.
CheckTimeouts ==
    /\ executing' = [i \in DOMAIN executing |->
                       IF executing[i].old THEN [executing[i] EXCEPT !.status = "Timeout"]
                                           ELSE executing[i]]
    /\ UNCHANGED <<concurrency, history, dag, overwritten, submits>>

-----------------------------------------------------------------------------
(* DagExecutor                                                              *)

Goes(e, r) == dag' = [dag EXCEPT ![e] = r]
Answers(e, answer) == Goes(e, [dag[e] EXCEPT !.step = answer, !.todo = <<>>])

\* Mutant: one dependency is enough.
AnyDependencyMet(node, completed) == node.deps = {} \/ node.deps \cap completed # {}

DependenciesMet(node, completed) == node.deps \subseteq completed

DagBegin(e) ==
    /\ dag[e].step = "idle"
    /\ Goes(e, [dag[e] EXCEPT !.step = "round"])
    /\ UNCHANGED <<executing, concurrency, history, overwritten, submits>>

\* One round of the loop: nothing of this call is running when it looks, so a
\* round without a ready node is the end.
DagRound(e) ==
    /\ dag[e].step = "round"
    /\ LET done  == dag[e].completed
           ready == Retain(PlanOf[e], {n \in ToSet(PlanOf[e]) :
                                         n.id \notin done /\ DependenciesMet(n, done)}) IN
       IF Cardinality(done) >= Len(PlanOf[e]) THEN Answers(e, "Ok")
       ELSE IF ready = <<>> THEN Answers(e, "deadlock")
       ELSE Goes(e, [dag[e] EXCEPT !.step = "submit", !.todo = ready])
    /\ UNCHANGED <<executing, concurrency, history, overwritten, submits>>

\* execute_node: submitted in one lock scope,
DagSubmit(e) ==
    /\ dag[e].step = "submit"
    /\ LET node == Head(dag[e].todo) IN
       IF Accepts(node.tool)
       THEN Submitted(node.id, node.tool) /\ Goes(e, [dag[e] EXCEPT !.step = "complete"])
       ELSE Answers(e, "refused") /\ UNCHANGED <<executing, concurrency, overwritten>>
    /\ UNCHANGED <<history, submits>>

\* completed in another; somebody else may have completed the same id.
DagComplete(e) ==
    /\ dag[e].step = "complete"
    /\ LET node == Head(dag[e].todo)
           rest == Tail(dag[e].todo) IN
       IF node.id \in DOMAIN executing
       THEN /\ Completed(node.id)
            /\ Goes(e, [step |-> IF rest = <<>> THEN "round" ELSE "submit", todo |-> rest,
                        completed |-> dag[e].completed \cup {node.id}])
       ELSE Answers(e, "lost") /\ UNCHANGED <<executing, concurrency, history>>
    /\ UNCHANGED <<overwritten, submits>>

DagStep(e) == DagRound(e) \/ DagSubmit(e) \/ DagComplete(e)

-----------------------------------------------------------------------------
GatewayNext ==
    \/ \E i \in ExecutionIds : \/ \E t \in Tools : Submit(i, t)
                               \/ Complete(i) \/ TimeoutElapses(i)
    \/ CheckTimeouts
    \/ \E e \in Executors : DagBegin(e) \/ DagStep(e)

GatewaySpec == GatewayInit /\ [][GatewayNext]_gatewayVars

-----------------------------------------------------------------------------
(* Properties                                                               *)

\* The count of a tool is what runs of it and what was submitted over: it never
\* falls behind, so the limits hold, and only a reused id makes it run ahead.
SlotsAreAccounted ==
    \A t \in Tools :
        /\ concurrency[t] = Cardinality(RunningOf(t)) + overwritten[t]
        /\ concurrency[t] <= MaxPerTool

NodesOf(e) == {PlanOf[e][n].id : n \in DOMAIN PlanOf[e]}

\* The nodes an order of the plan can reach: in every set that has each node
\* whose dependencies it has.
Executable(e) ==
    {i \in NodesOf(e) : \A C \in SUBSET NodesOf(e) :
        (\A n \in DOMAIN PlanOf[e] : PlanOf[e][n].deps \subseteq C => PlanOf[e][n].id \in C)
            => i \in C}

\* Two nodes of the plan have one id, which nothing checks.
NamesTwice(e) ==
    \E m, n \in DOMAIN PlanOf[e] : m # n /\ PlanOf[e][m].id = PlanOf[e][n].id

\* Rounds of ready nodes find what any order finds: a plan ends well when its
\* dependencies have one, is called a deadlock when they have none and then all
\* that can run has, and no node runs that never could.  Only a plan that names a
\* node twice is called a deadlock when all of it has run.
PlansRunInOrder ==
    \A e \in Executors :
        /\ dag[e].completed \subseteq Executable(e)
        /\ dag[e].step = "Ok" => dag[e].completed = NodesOf(e)
        /\ dag[e].step = "deadlock" =>
              /\ dag[e].completed = Executable(e)
              /\ Executable(e) = NodesOf(e) => NamesTwice(e)

\* The gateway's counts are those of its executions, also with reused ids and
\* timeouts, and a plan runs in an order its dependencies allow (tool_gateway.rs).
GatewayIsOrderly == SlotsAreAccounted /\ PlansRunInOrder

=============================================================================
