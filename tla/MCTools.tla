-------------------------------- MODULE MCTools --------------------------------
(***************************************************************************)
(* What a tool call passes: ToolPlan, ToolGateway, Authz and               *)
(* EnhancementPipeline.  They share no state and no lock, so a behaviour   *)
(* runs one of them and leaves the others where they start.                *)
(***************************************************************************)
EXTENDS ToolPlan, ToolGateway, Authz, EnhancementPipeline

CONSTANTS t1, t2, web, shell, stepA, stepB, stepC, stepX, chain, cycle

VARIABLE part

Node(id, tool, deps) == [id |-> id, tool |-> tool, deps |-> deps]

\* One plan that has an order, written backwards, and one whose last two nodes
\* wait for each other.
MCPlanOf ==
    (chain :> <<Node(stepB, shell, {stepA}), Node(stepA, web, {})>>)
      @@ (cycle :> <<Node(stepX, web, {}), Node(stepB, web, {stepX, stepC}),
                     Node(stepC, shell, {stepB})>>)

-----------------------------------------------------------------------------
NoTicket ==
    [given |-> FALSE, tenant |-> t1, expires |-> 0, subject |-> "h1", scope |-> <<"*">>,
     actions |-> {}, digest |-> "none"]

\* A member appends to a group's dialogue.
Base ==
    [tenant |-> t1, sound |-> TRUE, action |-> "AppendDialogueEvent",
     resource |-> ResourceFor("s1", "human_group", "AppendDialogueEvent"),
     roles |-> {"Member"}, groups |-> {}, scene |-> "human_group", consents |-> {},
     human |-> "h1", owner |-> "h1", risk |-> 10, time |-> 5, quota |-> 1,
     want_trace |-> FALSE, ticket |-> NoTicket, cost |-> -1, key |-> 0,
     requires_consent |-> FALSE, clarify |-> FALSE, pending |-> 0, participants |-> 2]

Clarify == [Base EXCEPT !.cost = 1, !.key = 1, !.clarify = TRUE]
Tool ==
    [Base EXCEPT !.action = "EmitToolEvent", !.roles = {"Tool"}, !.cost = 60, !.key = 2,
                 !.resource = ResourceFor("s1", "human_group", "EmitToolEvent")]
Trace ==
    [Base EXCEPT !.action = "ViewTraceFull", !.want_trace = TRUE, !.roles = {"Auditor"},
                 !.resource = <<"trace", "t1">>,
                 !.ticket = [given |-> TRUE, tenant |-> t1, expires |-> 5, subject |-> "h1",
                             scope |-> <<"trace", "*">>, actions |-> {"ViewTraceFull"},
                             digest |-> "trace"]]

MCRequests ==
    {Base, Clarify, [Clarify EXCEPT !.key = 3], [Clarify EXCEPT !.key = 4, !.pending = 2],
     [Base EXCEPT !.sound = FALSE],
     [Base EXCEPT !.roles = {"Moderator"}],
     [Base EXCEPT !.roles = {"Moderator"}, !.consents = {"hitl"}, !.cost = 1, !.key = 5,
                  !.requires_consent = TRUE],
     Tool, [Tool EXCEPT !.key = 6], [Tool EXCEPT !.key = 7, !.participants = 9],
     [Tool EXCEPT !.tenant = t2, !.key = 8],
     [Clarify EXCEPT !.tenant = t2, !.key = 9, !.resource = <<"dialogue", "session", "s1", "events">>],
     [Clarify EXCEPT !.tenant = t2, !.key = 10,
                     !.resource = ResourceFor("s1", "ai_self_talk", "AppendDialogueEvent")],
     Trace, [Trace EXCEPT !.time = 6]}

Custom(id, priority, action, pattern, effect, conditions) ==
    [Policy(id, priority, {}, pattern, action, conditions) EXCEPT !.effect = effect]

MCFirstPolicies ==
    (t1 :> DialoguePolicies("human_group") \o InfraPolicies
             \o <<Custom("trace", 10, "ViewTraceFull", <<"trace", "*">>, "Allow",
                         <<[is |-> "OwnsResource"], [is |-> "RiskBand", least |-> 5, most |-> 20]>>)>>)
      @@ (t2 :> DialoguePolicies("human_group")
                \o <<Custom("session", 20, "AppendDialogueEvent", <<"dialogue", "session", "*">>, "Allow", <<>>)>>)

\* A rule of low priority that denies, and one above all that degrades.
MCLaterPolicies ==
    {Custom("freeze", 1, "EmitToolEvent", <<"dialogue", "*", "tools">>, "Deny",
            <<[is |-> "TimeWindow", from |-> 0, to |-> 9]>>),
     Custom("slow", 90, "AppendDialogueEvent", <<"dialogue", "*", "human_group", "events">>, "Degrade", <<>>)}

-----------------------------------------------------------------------------
(* ToolPlan                                                                 *)

Def(tool, order, risk, capability, version) ==
    [tool |-> tool, order |-> order, risk |-> risk, capability |-> capability, version |-> version,
     sideEffect |-> FALSE, penalty |-> 0]

Search  == Def("search", 1, "low", {"web"}, 1)
Run     == [Def("run", 2, "medium", {"web", "collaboration"}, 0) EXCEPT !.sideEffect = TRUE]
Note    == Def("note", 3, "very_low", {"introspection"}, 2)
Twin    == [Search EXCEPT !.tool = "twin", !.order = 0]
Shy     == [Search EXCEPT !.tool = "shy", !.order = 4, !.penalty = 1000]

Edge(from, to) == [readable |-> TRUE, from |-> from, to |-> to]
NoGraph   == [given |-> FALSE, edges |-> <<>>, barriers |-> <<>>]
Barrier(nodes) == [readable |-> TRUE, nodes |-> nodes]
Graph(edges) == [given |-> TRUE, edges |-> edges, barriers |-> <<Barrier({0, 7}), Barrier({9})>>]

BasePlan ==
    [restricted |-> FALSE, provenance |-> FALSE, scenario |-> "none", scene |-> "other",
     hints |-> {"web"}, session |-> TRUE, sequence |-> 3, listFails |-> FALSE, listed |-> <<Search, Note>>,
     stats |-> <<>>, graph |-> NoGraph, config |-> DefaultConfig, snapshot |-> 1]

Listings == {<<Search, Note>>, <<Search, Run, Note>>, <<Shy, Twin, Search>>, <<Run>>}

Graphs1 == {NoGraph, Graph(<<Edge(1, 0), Edge(2, 1)>>), Graph(<<Edge(0, 1), Edge(1, 0), Edge(1, 1)>>),
            Graph(<<Edge(2, 0), Edge(0, 5), Edge(2, 0), Edge(1, 0)>>),
            [Graph(<<Edge(0, 1)>>) EXCEPT !.edges[1].readable = FALSE],
            [Graph(<<Edge(1, 0)>>) EXCEPT !.barriers[2].readable = FALSE]}

Careful == [success |-> 90, latency |-> 0, cost |-> 0, risk |-> "critical", auth |-> 0,
            cacheable |-> TRUE, accept |-> 50]

MCPlanInputs ==
    {[BasePlan EXCEPT !.scenario = s, !.scene = w, !.listed = l] :
        s \in {"none", "AiGroup"}, w \in {"other", "reflect", "collab"}, l \in Listings}
    \cup {[BasePlan EXCEPT !.scenario = s, !.listed = <<Shy, Twin, Search>>, !.graph = g] :
            s \in {"none", "AiSelfTalk"}, g \in Graphs1}
    \cup {[BasePlan EXCEPT !.listed = l, !.config.maxCandidates = n, !.config.threshold = t,
                           !.config.mode = "Parallel"] :
            l \in Listings, n \in 0..2, t \in {"low", "critical"}}
    \cup {[BasePlan EXCEPT !.stats = [t \in {"search"} |-> Careful]],
          [BasePlan EXCEPT !.restricted = TRUE], [BasePlan EXCEPT !.listFails = TRUE],
          [BasePlan EXCEPT !.snapshot = 2], [BasePlan EXCEPT !.session = FALSE],
          [BasePlan EXCEPT !.config.exploreRate = 0, !.listed = <<Shy, Search>>]}

-----------------------------------------------------------------------------
vars == <<part, toolRunVars, gatewayVars, authzVars, pipelineVars>>

Init ==
    /\ part \in {"plan", "gateway", "authz", "pipeline"}
    /\ ToolPlanInit /\ GatewayInit /\ AuthzInit /\ PipelineInit

Next ==
    /\ UNCHANGED part
    /\ \/ part = "plan" /\ ToolPlanNext /\ UNCHANGED <<gatewayVars, authzVars, pipelineVars>>
       \/ part = "gateway" /\ GatewayNext /\ UNCHANGED <<toolRunVars, authzVars, pipelineVars>>
       \/ part = "authz" /\ AuthzNext /\ UNCHANGED <<toolRunVars, gatewayVars, pipelineVars>>
       \/ part = "pipeline" /\ PipelineNext /\ UNCHANGED <<toolRunVars, gatewayVars, authzVars>>

Spec == Init /\ [][Next]_vars /\ (part = "pipeline" => PipelineFairness)

=============================================================================
