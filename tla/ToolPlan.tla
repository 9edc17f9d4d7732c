------------------------------- MODULE ToolPlan -------------------------------
(***************************************************************************)
(* soulseed-agi-tools: one run of ToolEngine - the route of the listed     *)
(* tools, the plan that is made of them, its execution by an orchestrator  *)
(* and the dialogue events that report it.                                 *)
(*                                                                         *)
(* Abstractions.  Scores are integers, the shares they are made of         *)
(* hundredths; a hash is a field of what is hashed (the penalty of         *)
(* exploration) or the tuple of it (event ids).  Of inputs, parameters and *)
(* evidence nothing is kept.  An orchestrator other than ToolOrchestrator  *)
(* is external: any stages and summaries of the plan's tools.  Tool ids of *)
(* a listing are distinct.                                                 *)
(***************************************************************************)
EXTENDS Integers, Sequences, FiniteSets, SequencesExt, Retain

CONSTANTS PlanInputs   \* what ToolEngine::run may be called with

\* The numbers of a call are whole, no latency or cost is negative, a tool is listed once,
\* a node of a graph has a number, and what a rule degrades has a reason.
IsToolInput(in) ==
    /\ in.listed \in Seq(ToSet(in.listed)) /\ IsFiniteSet(in.hints) /\ in.sequence \in Int
    /\ \A i, j \in DOMAIN in.listed : in.listed[i].tool = in.listed[j].tool => i = j
    /\ \A def \in ToSet(in.listed) :
          {def.order, def.penalty} \subseteq Int /\ IsFiniteSet(def.capability)
    /\ \A tool \in DOMAIN in.stats :
          LET s == in.stats[tool]
          IN  {s.latency, s.cost} \subseteq Nat /\ {s.success, s.auth, s.accept} \subseteq Int
    /\ in.config.maxCandidates \in Nat
    /\ \A n \in DOMAIN in.config.rules : in.config.rules[n].reason # "none"
    /\ in.graph.given =>
          /\ in.graph.edges \in Seq(ToSet(in.graph.edges))
          /\ \A e \in ToSet(in.graph.edges) : e.readable => {e.from, e.to} \subseteq Nat

ASSUME PlanAssumption == \A in \in PlanInputs : IsToolInput(in)

VARIABLES toolRun      \* the call: its input, its phase, and what it has made so far

toolRunVars == <<toolRun>>

NoInput == [scenario |-> "none"]
NoToolPlan  == [lane |-> "none", items |-> <<>>]
NoExecution == [stages |-> <<>>, summaries |-> <<>>, summary |-> "none", reason |-> "none",
                fallback |-> FALSE, degrade |-> <<>>]

\* ToolsConfig::default, in hundredths where it has shares
DefaultConfig ==
    [snapshot |-> 1, exploreRate |-> 5, threshold |-> "medium", maxCandidates |-> 3,
     mode |-> "Hybrid", retries |-> 2, timeout |-> 300, deadline |-> 1500, errorRatio |-> 50,
     tokens |-> 8000, latency |-> 1500, rules |-> <<[from |-> "search", reason |-> "budget"]>>]

Weights == [fit |-> 30, success |-> 20, latency |-> -10, cost |-> -15, risk |-> -15, auth |-> -5,
            cache |-> 10, accept |-> 5]

ConfigValid(c) ==
    /\ c.exploreRate \in 0..100 /\ c.errorRatio \in 0..100
    /\ c.maxCandidates > 0 /\ c.timeout > 0 /\ c.latency > 0 /\ c.tokens > 0

-----------------------------------------------------------------------------
(* The lane                                                                 *)

\* classify: the scenario, and where it says nothing the words of the scene
Lane(in) ==
    CASE in.scenario = "AiSelfTalk" -> "SelfReflection"
      [] in.scenario \in {"AiToAi", "AiGroup", "HumanToMultiAi", "MultiHumanToMultiAi"}
            -> "Collaboration"
      [] OTHER -> CASE in.scene = "reflect" -> "SelfReflection"
                    [] in.scene = "collab"  -> "Collaboration"
                    [] OTHER                -> "ToolInvocation"

ExtraHints(lane) ==
    CASE lane = "SelfReflection" -> {"self_reflection", "introspection"}
      [] lane = "Collaboration"  -> {"multi_agent", "collaboration"}
      [] OTHER                   -> {}

Level(risk) ==
    CASE risk = "very_low" -> 0 [] risk = "low" -> 1 [] risk = "high" -> 3
      [] risk = "critical" -> 4 [] OTHER -> 2

\* Mutant: the lane does not lower the gate.
RiskGateOfConfig(lane, level) == IF lane = "Collaboration" /\ level < 2 THEN 2 ELSE level

AdjustRiskGate(lane, level) ==
    CASE lane = "SelfReflection" -> IF level < 1 THEN level ELSE 1
      [] lane = "Collaboration"  -> IF level > 2 THEN level ELSE 2
      [] OTHER                   -> level

Gate(in) == AdjustRiskGate(Lane(in), Level(in.config.threshold))

-----------------------------------------------------------------------------
(* The router                                                               *)

\* build_router_state: what the context says of a tool goes before the defaults.
Stats(in, def) ==
    IF def.tool \in DOMAIN in.stats THEN in.stats[def.tool]
    ELSE [success |-> 70, latency |-> 80, cost |-> 100, risk |-> def.risk, auth |-> 20,
          cacheable |-> ~def.sideEffect, accept |-> 50]

Fit(hints, capability) ==
    IF hints = {} THEN 100 ELSE (100 * Cardinality(hints \cap capability)) \div Cardinality(hints)

Inverted(x) == 10000 \div (100 + x)     \* 1 / (1 + x)

Share(x) == IF x < 0 THEN 0 ELSE IF x > 100 THEN 100 ELSE x

Score(in, def) ==
    LET s     == Stats(in, def)
        hints == in.hints \cup ExtraHints(Lane(in))
    IN  Weights.fit * Fit(hints, def.capability) + Weights.success * Share(s.success)
        + Weights.latency * Inverted(s.latency) + Weights.cost * Inverted(s.cost)
        + Weights.risk * (100 - 25 * Level(s.risk)) + Weights.auth * Share(100 - s.auth)
        + Weights.cache * (IF s.cacheable THEN 100 ELSE 0) + Weights.accept * Share(s.accept)
        - (IF in.config.exploreRate > 0 THEN def.penalty ELSE 0)

Excluded(in) == {def \in ToSet(in.listed) : Level(Stats(in, def).risk) > Gate(in)}

\* The best first, the tool id between equals.
Better(in, x, y) ==
    \/ Score(in, x) > Score(in, y)
    \/ Score(in, x) = Score(in, y) /\ x.order < y.order

RankedIn(in, s, def) ==
    InsertAt(s, Min({n \in DOMAIN s : Better(in, def, s[n])} \cup {Len(s) + 1}), def)

Ranking(in) ==
    LET kept == Retain(in.listed, ToSet(in.listed) \ Excluded(in))
        upTo[n \in 0..Len(kept)] == IF n = 0 THEN <<>> ELSE RankedIn(in, upTo[n - 1], kept[n])
    IN  upTo[Len(kept)]

\* max_candidates of them
RankedTools(in) ==
    LET sorted == Ranking(in)
    IN  SubSeq(sorted, 1, IF Len(sorted) < in.config.maxCandidates THEN Len(sorted)
                          ELSE in.config.maxCandidates)

-----------------------------------------------------------------------------
(* The planner                                                              *)

\* build_spec: the key of a call is its rank in the envelope.
Specs(in) ==
    [n \in DOMAIN RankedTools(in) |->
        LET def == RankedTools(in)[n]
        IN  [tool |-> def.tool, version |-> IF def.version = 0 THEN 1 ELSE def.version,
             cacheable |-> ~def.sideEffect, key |-> n - 1]]

StrategyOf(in) ==
    LET c == in.config
    IN  CASE Lane(in) = "SelfReflection" ->
               [mode |-> "Serial", retries |-> IF c.retries < 1 THEN c.retries ELSE 1,
                timeout |-> LET t == c.timeout - c.timeout \div 3 IN IF t > 120 THEN t ELSE 120,
                deadline |-> IF c.deadline < 1000 THEN c.deadline ELSE 1000]
          [] Lane(in) = "Collaboration" ->
               [mode |-> "Hybrid", retries |-> IF c.retries > 2 THEN c.retries ELSE 2,
                timeout |-> (12 * c.timeout + 5) \div 10, deadline |-> c.deadline]
          [] OTHER -> [mode |-> c.mode, retries |-> c.retries, timeout |-> c.timeout,
                       deadline |-> c.deadline]

BudgetFor(in) ==
    LET c == in.config
    IN  CASE Lane(in) = "SelfReflection" ->
               [tokens |-> IF c.tokens < 4000 THEN c.tokens ELSE 4000,
                latency |-> IF c.latency < 900 THEN c.latency ELSE 900]
          [] Lane(in) = "Collaboration" ->
               [tokens |-> c.tokens + 2000, latency |-> (3 * c.latency + 1) \div 2]
          [] OTHER -> [tokens |-> c.tokens, latency |-> c.latency]

Linear(n) == [m \in 1..(IF n = 0 THEN 0 ELSE n - 1) |-> <<m - 1, m>>]

\* graph_from_request_context: one edge that is none (no object, no number), or
\* one barrier that is no object, loses the graph.
GraphReadable(g) ==
    /\ g.given
    /\ \A m \in DOMAIN g.edges : g.edges[m].readable
    /\ \A m \in DOMAIN g.barriers : g.barriers[m].readable

KeptEdges(edges, n) ==
    LET kept == Retain(edges, {e \in ToSet(edges) : e.from < n /\ e.to < n /\ e.from # e.to})
    IN  [m \in DOMAIN kept |-> <<kept[m].from, kept[m].to>>]

GraphOf(in, n) ==
    IF GraphReadable(in.graph)
    THEN [edges |-> KeptEdges(in.graph.edges, n),
          barriers |-> Retain([m \in DOMAIN in.graph.barriers |->
                                 in.graph.barriers[m].nodes \cap 0..(n - 1)], SUBSET (0..(n - 1)) \ {{}})]
    ELSE LET mode == IF Lane(in) = "Collaboration" /\ n > 1 THEN "Hybrid" ELSE StrategyOf(in).mode
         IN  [edges    |-> IF mode = "Parallel" THEN <<>> ELSE Linear(n),
              barriers |-> IF mode = "Hybrid" /\ n > 1 THEN <<0..(n - 1)>> ELSE <<>>]

PlanMade(in) ==
    [lane |-> Lane(in), items |-> Specs(in), strategy |-> StrategyOf(in), budget |-> BudgetFor(in),
     excluded |-> {def.tool : def \in Excluded(in)}, graph |-> GraphOf(in, Len(Specs(in)))]

\* topo_order (Kahn), one turn: the head of the queue is taken, and each of its
\* edges that brings the in-degree of its end to 0 puts that end into the queue.
\* An in-degree is 0 when all edges come from what was taken; it becomes 0 at the
\* last of the edges from the head.
Turn(edges, s) ==
    IF s.queue = <<>> THEN s
    ELSE LET order == Append(s.order, Head(s.queue))
             freeing == {k \in DOMAIN edges :
                            /\ edges[k][1] = Head(s.queue)
                            /\ \A l \in DOMAIN edges :
                                  /\ edges[l][2] = edges[k][2] => edges[l][1] \in ToSet(order)
                                  /\ edges[l] = edges[k] => l <= k}
             freed == Retain([k \in DOMAIN edges |-> k], freeing)
         IN  [order |-> order,
              queue |-> Tail(s.queue) \o [m \in DOMAIN freed |-> edges[freed[m]][2]]]

\* Where the edges have a cycle, the order of the items.  No node is queued twice.
TopoOrder(edges, n) ==
    LET all   == [m \in 1..n |-> m - 1]
        roots == Retain(all, {m \in 0..(n - 1) : \A k \in DOMAIN edges : edges[k][2] # m})
        turns[m \in 0..n] == IF m = 0 THEN [order |-> <<>>, queue |-> roots]
                             ELSE Turn(edges, turns[m - 1])
    IN  IF n <= 1 \/ Len(turns[n].order) # n THEN all ELSE turns[n].order

-----------------------------------------------------------------------------
(* The execution                                                            *)

\* ToolOrchestrator: every call is left to another service.
Delegated(plan, config) ==
    [NoExecution EXCEPT
        !.stages  = [n \in DOMAIN plan.items |-> [tool |-> plan.items[n].tool,
                                                  outcome |-> "pending_execution",
                                                  notes |-> "delegated"]],
        !.degrade = config.rules]

\* external: another orchestrator; `how' says of each item what became of it.
Performed(plan, config, how, told, closing, fallback) ==
    LET ran  == Retain([n \in DOMAIN plan.items |-> n],
                       {n \in DOMAIN plan.items : how[n] # "skipped"})
    IN  [stages    |-> [m \in DOMAIN ran |-> [tool |-> plan.items[ran[m]].tool,
                                              outcome |-> how[ran[m]], notes |-> "none"]],
         summaries |-> Retain([n \in DOMAIN plan.items |-> plan.items[n].tool], told),
         summary   |-> closing, reason |-> "none", fallback |-> fallback, degrade |-> config.rules]

\* Mutant: a fallback gives no reason.
DecoratedSilently(x) ==
    IF x.stages = <<>> THEN [x EXCEPT !.reason = "none", !.summaries = <<>>] ELSE x

\* DefaultExplainer: a run without stages is an empty one, its reason included.
Decorated(x) ==
    IF x.stages = <<>>
    THEN [x EXCEPT !.reason = "none", !.summaries = <<>>]
    ELSE [x EXCEPT !.reason = IF @ = "none" /\ x.fallback THEN "fallback_triggered" ELSE @]

-----------------------------------------------------------------------------
(* The events                                                               *)

LastStage(x, tool) ==
    LET at == {n \in DOMAIN x.stages : x.stages[n].tool = tool}
    IN  IF at = {} THEN [outcome |-> "none"] ELSE x.stages[CHOOSE n \in at : \A m \in at : m <= n]

DegradeOf(x, tool) ==
    LET at == {n \in DOMAIN x.degrade : x.degrade[n].from = tool}
    IN  IF at = {} THEN x.reason ELSE x.degrade[CHOOSE n \in at : TRUE].reason

Next1(log) == [log EXCEPT !.sequence = @ + 1]

CallEvent(log, spec) ==
    Next1([log EXCEPT !.events = Append(@,
        [id |-> <<"call", spec.key>>, type |-> "ToolCall", tool |-> spec.tool, call |-> spec.key,
         sequence |-> log.sequence, success |-> TRUE, reason |-> "none"])])

\* A failure's reason is its stage's note, or its outcome.
ResultEvent(log, x, spec) ==
    LET stage == LastStage(x, spec.tool)
        ok    == stage.outcome = "ok"
    IN  Next1([log EXCEPT
            !.pool   = RemoveFirst(@, spec.tool),
            !.events = Append(@,
                [id |-> <<"result", spec.key>>, type |-> "ToolResult", tool |-> spec.tool,
                 call |-> spec.key, sequence |-> log.sequence, success |-> ok,
                 reason |-> IF ok THEN DegradeOf(x, spec.tool)
                            ELSE IF stage.notes # "none" THEN stage.notes ELSE stage.outcome])])

\* An item without a stage is passed over; one without a summary has no result.
ItemEvents(log, x, spec) ==
    IF LastStage(x, spec.tool).outcome = "none" THEN log
    ELSE LET called == CallEvent(log, spec)
         IN  IF Contains(log.pool, spec.tool) THEN ResultEvent(called, x, spec) ELSE called

SelfReflectionEvent(x, log) ==
    [id |-> <<"self_reflection", 0>>, type |-> "SelfReflection", tool |-> x.summary, call |-> 0,
     sequence |-> log.sequence, success |-> TRUE, reason |-> x.reason]

CollaborationEvent(x, log) ==
    [id |-> <<"collaboration", 0>>, type |-> "ToolResult", tool |-> x.summary, call |-> 0 - 1,
     sequence |-> log.sequence, success |-> TRUE, reason |-> x.reason]

LogOf(in, plan, x) ==
    LET upTo[n \in 0..Len(plan.items)] ==
            IF n = 0 THEN [events |-> <<>>, sequence |-> in.sequence, pool |-> x.summaries]
            ELSE ItemEvents(upTo[n - 1], x, plan.items[n])
    IN  upTo[Len(plan.items)]

\* build_dialogue_events; without a session there are none.
EventsOf(in, plan, x) ==
    IF ~in.session THEN <<>>
    ELSE LET log == LogOf(in, plan, x)
         IN  CASE x.summary = "none"              -> log.events
               [] plan.lane = "SelfReflection"    -> Append(log.events, SelfReflectionEvent(x, log))
               [] plan.lane = "Collaboration"     -> Append(log.events, CollaborationEvent(x, log))
               [] OTHER                           -> log.events

-----------------------------------------------------------------------------
NoToolRun == [phase |-> "idle", in |-> NoInput, plan |-> NoToolPlan, execution |-> NoExecution,
         events |-> <<>>, error |-> "none"]

ToolPlanInit == toolRun = NoToolRun

Refusal(in) ==
    IF in.restricted /\ ~in.provenance     THEN "privacy_restricted"
    ELSE IF ~ConfigValid(in.config)        THEN "config_invalid"
    ELSE IF in.listFails                   THEN "thin_waist"
    ELSE IF RankedTools(in) = <<>>         THEN "no_candidates"
    ELSE IF in.snapshot # in.config.snapshot THEN "snapshot_mismatch"
    ELSE "none"

\* ToolEngine::run up to the plan
PlanTools(in) ==
    /\ toolRun.phase = "idle"
    /\ toolRun' = IF Refusal(in) # "none"
                  THEN [NoToolRun EXCEPT !.phase = "refused", !.in = in, !.error = Refusal(in)]
                  ELSE [NoToolRun EXCEPT !.phase = "planned", !.in = in, !.plan = PlanMade(in)]

\* execute_plan and decorate, then the events, which go back with the plan
ExecuteTools(x) ==
    /\ toolRun.phase = "planned"
    /\ toolRun' = [toolRun EXCEPT !.phase = "done", !.execution = Decorated(x),
                        !.events = EventsOf(toolRun.in, toolRun.plan, Decorated(x))]

ExecutionFails ==
    /\ toolRun.phase = "planned"
    /\ toolRun' = [toolRun EXCEPT !.phase = "refused", !.error = "orchestrator"]

ToolPlanNext ==
    \/ \E in \in PlanInputs : PlanTools(in)
    \/ toolRun.phase = "planned" /\ ExecuteTools(Delegated(toolRun.plan, toolRun.in.config))
    \/ toolRun.phase = "planned" /\
       LET tools == {toolRun.plan.items[n].tool : n \in DOMAIN toolRun.plan.items}
       IN  \E how \in [DOMAIN toolRun.plan.items -> {"ok", "timeout", "skipped"}], told \in SUBSET tools,
              closing \in {"none"} \cup tools, fallback \in BOOLEAN :
             ExecuteTools(Performed(toolRun.plan, toolRun.in.config, how, told, closing, fallback))
    \/ ExecutionFails

ToolPlanSpec == ToolPlanInit /\ [][ToolPlanNext]_toolRunVars

-----------------------------------------------------------------------------
(* Properties                                                               *)

Respects(order, edges) ==
    \A k \in DOMAIN edges, i, j \in DOMAIN order :
        order[i] = edges[k][1] /\ order[j] = edges[k][2] => i < j

Acyclic(edges, n) ==
    LET down[m \in 0..n] ==   \* what m steps along the edges can reach
            IF m = 0 THEN 0..(n - 1)
            ELSE {edges[k][2] : k \in {q \in DOMAIN edges : edges[q][1] \in down[m - 1]}}
    IN  down[n] = {}

\* A plan has only tools the risk gate of its lane lets through (a self reflection none above
\* low), none of them worse than one that was left out; and an order of its items that keeps
\* every edge the request asked for, unless these have a cycle.
ToolPlansAreLawful ==
    toolRun.phase \in {"planned", "done"} =>
        LET in    == toolRun.in
            plan  == toolRun.plan
            used  == {def \in ToSet(in.listed) : \E n \in DOMAIN plan.items : plan.items[n].tool = def.tool}
            edges == plan.graph.edges
            n     == Len(plan.items)
        IN  /\ \A def \in used :
                 Level(Stats(in, def).risk) <=
                    CASE plan.lane = "SelfReflection" -> 1
                      [] plan.lane = "Collaboration"  -> IF Level(in.config.threshold) < 2 THEN 2
                                                         ELSE Level(in.config.threshold)
                      [] OTHER                        -> Level(in.config.threshold)
            /\ \A out \in ToSet(in.listed) \ used :
                 \/ Level(Stats(in, out).risk) > Gate(in)
                 \/ n = in.config.maxCandidates /\ \A def \in used : Score(in, def) >= Score(in, out)
            /\ \A k \in DOMAIN edges : edges[k][1] # edges[k][2] /\ edges[k][1] < n /\ edges[k][2] < n
            /\ Acyclic(edges, n) => Respects(TopoOrder(edges, n), edges)
            /\ ToSet(TopoOrder(edges, n)) = 0..(n - 1)

\* The events count on from the anchor's sequence; none has the id of another; a result
\* follows its call, of which there is one; it reports a success only if the tool's last stage
\* is one; and where a fallback was taken every result says so, or says what failed.
ToolEventsTellTheRun ==
    toolRun.phase = "done" =>
        LET E == toolRun.events
            X == toolRun.execution
        IN  /\ \A n \in DOMAIN E : E[n].sequence = toolRun.in.sequence + n - 1
            /\ \A n, m \in DOMAIN E : E[n].id = E[m].id => n = m
            /\ \A n \in DOMAIN E : E[n].type = "ToolResult" /\ E[n].call >= 0 =>
                 /\ n > 1 /\ E[n - 1].type = "ToolCall" /\ E[n - 1].call = E[n].call
                 /\ E[n - 1].tool = E[n].tool
                 /\ E[n].success => LastStage(X, E[n].tool).outcome = "ok"
                 /\ X.fallback \/ ~E[n].success => E[n].reason # "none"

\* A plan is lawful when it is made, and its events then tell what its run did
\* (planner.rs, orchestrator.rs, explainer.rs of the tools crate).
PlansAreLawfulAndTold == ToolPlansAreLawful /\ ToolEventsTellTheRun

=============================================================================
