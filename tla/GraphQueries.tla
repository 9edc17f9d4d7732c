------------------------------ MODULE GraphQueries ------------------------------
(***************************************************************************)
(* soulseed-agi-graph: the planner that turns a query into an index plan,  *)
(* the executor (MockExecutor) that answers a query from a plan, and its   *)
(* store of events.                                                        *)
(*                                                                         *)
(* Abstractions.  A query has one record whatever its kind: "reach" is its *)
(* depth, radius or number of iterations, "size" its limit, -1 an absent   *)
(* number, Unset an absent list.  Windows, cursors and hashes are left out,  *)
(* and so are the nodes and edges the mock makes up.  Heartbeats are below *)
(* 2^31, where their double still fits.                                    *)
(***************************************************************************)
EXTENDS Integers, Sequences, FiniteSets, SequencesExt

CONSTANTS Asks,             \* the queries that are planned
          Others,           \* the queries a plan of another one may be used for
          AllowedTenants,   \* Capabilities: the tenants
          LiveCap,          \* Capabilities: the rate of a subscription
          GraphEvents       \* events that are appended

QueryKinds == {"timeline", "causal", "path", "neighborhood", "subgraph", "recall", "similarity",
               "hybrid", "influence", "pattern", "live", "awareness", "explain"}
Number == Nat \cup {-1}
AskRecords ==
    [op : QueryKinds, tenant : Nat, scenario : STRING, scenes : SUBSET STRING, types : SUBSET STRING,
     reach : Number, size : Nat, session : BOOLEAN, loop : BOOLEAN, seeds : Nat, strategy : STRING,
     vectors : BOOLEAN, damping : Int, forks : BOOLEAN,
     filters : [cycle : STRING, parent : STRING, collab : STRING, barrier : STRING, env : STRING,
                sequence : Number, types : SUBSET STRING, reasons : SUBSET STRING,
                kinds : SUBSET STRING],
     live : [rate : Number, heartbeat : Number, idle : Number, buffer : Number, mode : STRING]]

ASSUME GraphAssumption ==
    Asks \cup Others \subseteq AskRecords /\ LiveCap \in Nat

VARIABLES asking,           \* a query, its plan and its answer
          timelineStore,    \* MockExecutor.timeline_store, as the set of its entries
          appended          \* the events whose append was answered with Ok

graphVars == <<asking, timelineStore, appended>>

Unset == {"any"}

DefaultPlannerConfig ==
    [causal |-> 2, maxCausal |-> 4, limit |-> 200, path |-> 6, neighborhood |-> 4, subgraph |-> 5,
     nodes |-> 500, similar |-> 128, influence |-> 12, pattern |-> 100, rate |-> 20, maxRate |-> 60,
     heartbeat |-> 3000, minHeartbeat |-> 500, idle |-> 10000, buffer |-> 500, mode |-> "drop_tail"]

NoFilters == [cycle |-> "none", parent |-> "none", collab |-> "none", barrier |-> "none",
              env |-> "none", sequence |-> -1, types |-> Unset, reasons |-> Unset,
              kinds |-> Unset]

NoLive == [rate |-> -1, heartbeat |-> -1, idle |-> -1, buffer |-> -1, mode |-> "none"]

NoAsk == [op |-> "none", tenant |-> 1, scenario |-> "none", scenes |-> Unset, types |-> Unset,
          reach |-> -1, size |-> 1, session |-> FALSE, loop |-> FALSE, seeds |-> 1, strategy |-> "Vector", vectors |-> TRUE,
          damping |-> 50, filters |-> NoFilters, live |-> NoLive, forks |-> FALSE]

NoGraphPlan == [kind |-> "none", index |-> "none", reach |-> 0, size |-> 0, scenario |-> "none",
                scenes |-> Unset, types |-> Unset, strategy |-> "none", damping |-> 0, filters |-> NoFilters,
                live |-> NoLive]

-----------------------------------------------------------------------------
(* The scenarios: the event types each is about                             *)

Tooling == {"Message", "ToolCall", "ToolResult", "Decision"}

PrimaryTypes(scene) ==
    CASE scene = "HumanToAi"           -> Tooling \cup {"Lifecycle"}
      [] scene = "AiToAi"              -> Tooling
      [] scene = "AiSelfTalk"          -> {"Message", "SelfReflection", "Decision"}
      [] scene = "HumanToMultiAi"      -> Tooling
      [] scene = "MultiHumanToMultiAi" -> Tooling \cup {"Lifecycle"}
      [] scene = "AiGroup"             -> Tooling
      [] scene = "AiToSystem"          -> {"Message", "Decision", "System"}
      [] OTHER                         -> {"Message", "Lifecycle", "System"}

\* A scenario's types go before those that are asked for.
PlannedTypes(q) == IF q.scenario = "none" THEN q.types ELSE PrimaryTypes(q.scenario)

-----------------------------------------------------------------------------
(* The planner: a plan and what it tells of the query it cuts               *)

Capped(x, bound) == IF x > bound THEN bound ELSE x
Raised(x, bound) == IF x < bound THEN bound ELSE x
Or(x, default) == IF x = -1 THEN default ELSE x
Told(happened, reason) == IF happened THEN <<reason>> ELSE <<>>

Prepared(plan, indices, reasons) == [error |-> "none", plan |-> plan, indices |-> indices,
                                     reasons |-> reasons]
RefusedQuery(error) == [error |-> error, plan |-> NoGraphPlan, indices |-> {}, reasons |-> <<>>]

\* The limit of a timeline is in the hash of the query only.
PlanTimeline(q) ==
    IF q.session
    THEN Prepared([NoGraphPlan EXCEPT !.kind = "SessionOrder", !.index = "session_order",
                                      !.scenario = q.scenario], {"session_order"}, <<>>)
    ELSE Prepared([NoGraphPlan EXCEPT !.kind = "Timeline", !.index = "timeline",
                                      !.scenario = q.scenario, !.types = PlannedTypes(q)],
                  {"timeline"}, <<>>)

PlanCausal(q, cfg) ==
    LET asked == Or(q.reach, cfg.causal)
    IN  Prepared([NoGraphPlan EXCEPT !.kind = "Causal", !.index = "causal",
                                     !.reach = Capped(asked, cfg.maxCausal),
                                     !.scenario = q.scenario, !.types = PlannedTypes(q)],
                 {"causal", "timeline"}, Told(asked > cfg.causal, "depth_truncated"))

PlanPath(q, cfg) ==
    LET asked == Or(q.reach, cfg.causal)
    IN  IF q.loop THEN RefusedQuery("path_requires_distinct_nodes")
        ELSE Prepared([NoGraphPlan EXCEPT !.kind = "Path", !.index = "path",
                                          !.reach = Capped(asked, cfg.path),
                                          !.size = Capped(q.size, cfg.limit),
                                          !.scenario = q.scenario, !.strategy = q.strategy],
                      {"path"}, Told(asked > cfg.path, "depth_truncated")
                                \o Told(q.size > cfg.limit, "path_count_truncated"))

PlanNeighborhood(q, cfg) ==
    Prepared([NoGraphPlan EXCEPT !.kind = "Neighborhood", !.index = "neighborhood",
                                 !.reach = Capped(q.reach, cfg.neighborhood),
                                 !.size = Capped(q.size, cfg.limit), !.scenario = q.scenario],
             {"neighborhood"}, Told(q.reach > cfg.neighborhood, "radius_truncated")
                               \o Told(q.size > cfg.limit, "limit_truncated"))

PlanSubgraph(q, cfg) ==
    IF q.seeds = 0 THEN RefusedQuery("seeds_required")
    ELSE Prepared([NoGraphPlan EXCEPT !.kind = "Subgraph", !.index = "subgraph",
                                      !.reach = Capped(q.reach, cfg.subgraph),
                                      !.size = Capped(q.size, cfg.nodes), !.scenario = q.scenario],
                  {"subgraph"}, Told(q.reach > cfg.subgraph, "radius_truncated")
                                \o Told(q.size > cfg.nodes, "node_limit_truncated"))

\* k is taken as it is asked for.
PlanRecall(q) ==
    LET plan == [NoGraphPlan EXCEPT !.size = q.size, !.types = q.types, !.scenes = q.scenes]
    IN  IF q.vectors
        THEN Prepared([plan EXCEPT !.kind = "VectorAnn", !.index = "vector"], {"vector"}, <<>>)
        ELSE Prepared([plan EXCEPT !.kind = "SparseBm25", !.index = "sparse"], {"sparse"},
                      <<"sparse_only">>)

PlanSimilarity(q, cfg) ==
    LET index == IF q.vectors THEN "vector" ELSE "sparse"
        lost  == ~q.vectors /\ q.strategy = "Vector"
    IN  Prepared([NoGraphPlan EXCEPT !.kind = "Similarity", !.index = index,
                                     !.size = Capped(q.size, cfg.similar), !.types = q.types,
                                     !.strategy = IF lost THEN "Hybrid" ELSE q.strategy],
                 {index}, Told(q.size > cfg.similar, "similarity_k_truncated")
                          \o Told(lost, "vector_index_unavailable"))

PlanHybrid(q) ==
    Prepared([NoGraphPlan EXCEPT !.kind = "Hybrid", !.size = q.size],
             {"vector", "sparse", "causal"}, <<>>)

PlanInfluence(q, cfg) ==
    LET damping == Raised(Capped(q.damping, 100), 0)
    IN  IF q.seeds = 0 THEN RefusedQuery("seeds_required")
        ELSE Prepared([NoGraphPlan EXCEPT !.kind = "Influence", !.index = "influence",
                                          !.reach = Capped(q.reach, cfg.influence),
                                          !.damping = damping, !.scenario = q.scenario],
                      {"influence"}, Told(q.reach > cfg.influence, "iterations_truncated")
                                     \o Told(q.damping # damping, "damping_clamped"))

PlanPattern(q, cfg) ==
    Prepared([NoGraphPlan EXCEPT !.kind = "Pattern", !.index = "pattern",
                                 !.size = Capped(q.size, cfg.pattern)],
             {"pattern"}, Told(q.size > cfg.pattern, "limit_truncated"))

\* Mutant: the idle timeout may be shorter than two heartbeats.
LiveTermsHasty(asked, cfg) ==
    [rate      |-> Capped(Raised(Or(asked.rate, cfg.rate), 1), cfg.maxRate),
     heartbeat |-> Raised(Or(asked.heartbeat, cfg.heartbeat), cfg.minHeartbeat),
     idle      |-> Or(asked.idle, cfg.idle),
     buffer    |-> Raised(Capped(Or(asked.buffer, cfg.buffer), cfg.buffer), 1),
     mode      |-> IF asked.mode = "none" THEN cfg.mode ELSE asked.mode]

LiveTerms(asked, cfg) ==
    LET heartbeat == Raised(Or(asked.heartbeat, cfg.heartbeat), cfg.minHeartbeat)
    IN  [rate      |-> Capped(Raised(Or(asked.rate, cfg.rate), 1), cfg.maxRate),
         heartbeat |-> heartbeat,
         idle      |-> Raised(Or(asked.idle, cfg.idle), 2 * heartbeat),
         buffer    |-> Raised(Capped(Or(asked.buffer, cfg.buffer), cfg.buffer), 1),
         mode      |-> IF asked.mode = "none" THEN cfg.mode ELSE asked.mode]

\* One reason at most: a clamped rate hides a clamped buffer.
PlanLive(q, cfg) ==
    LET live == LiveTerms(q.live, cfg)
    IN  Prepared([NoGraphPlan EXCEPT !.kind = "Live", !.live = live, !.scenario = q.scenario], {},
                 IF live.rate # Raised(Or(q.live.rate, cfg.rate), 1) THEN <<"rate_clamped">>
                 ELSE Told(live.buffer # Or(q.live.buffer, cfg.buffer), "buffer_clamped"))

\* The index of the rarest filter that is given.
AwarenessIndex(f) ==
    CASE f.barrier # "none" -> "barrier"
      [] f.barrier = "none" /\ f.collab # "none" -> "collab"
      [] f.barrier = "none" /\ f.collab = "none" /\ f.parent # "none" -> "parent"
      [] f.barrier = "none" /\ f.collab = "none" /\ f.parent = "none" /\ f.env # "none" -> "env"
      [] OTHER -> "cycle"

PlanAwareness(filters, size, cfg) ==
    Prepared([NoGraphPlan EXCEPT !.kind = "Awareness", !.index = AwarenessIndex(filters),
                                 !.filters = filters, !.size = Raised(Capped(size, cfg.limit), 1)],
             {AwarenessIndex(filters), "cycle"}, <<>>)

\* EXPLAIN_EVENT_TYPES_DEFAULT, where only the sync points make a difference
DefaultExplained == {"DecisionRouted", "SyncPointReported"}

ExplainFilters(q) ==
    LET types == IF q.types = Unset THEN DefaultExplained ELSE q.types
    IN  [NoFilters EXCEPT
            !.cycle = q.filters.cycle, !.types = types,
            !.kinds = IF "SyncPointReported" \in types
                      THEN {"ToolBarrier", "ClarifyAnswered", "HitlAbsorb"} ELSE Unset]

PlanExplain(q, cfg) ==
    [PlanAwareness(ExplainFilters(q), q.size, cfg) EXCEPT
        !.reasons = Told(q.forks, "fork_filter_not_supported")]

PlanQuery(q, cfg) ==
    IF q.tenant = 0 /\ q.op # "hybrid" THEN RefusedQuery("AuthForbidden")
    ELSE CASE q.op = "timeline"     -> PlanTimeline(q)
           [] q.op = "causal"       -> PlanCausal(q, cfg)
           [] q.op = "path"         -> PlanPath(q, cfg)
           [] q.op = "neighborhood" -> PlanNeighborhood(q, cfg)
           [] q.op = "subgraph"     -> PlanSubgraph(q, cfg)
           [] q.op = "recall"       -> PlanRecall(q)
           [] q.op = "similarity"   -> PlanSimilarity(q, cfg)
           [] q.op = "hybrid"       -> PlanHybrid(q)
           [] q.op = "influence"    -> PlanInfluence(q, cfg)
           [] q.op = "pattern"      -> PlanPattern(q, cfg)
           [] q.op = "live"         -> PlanLive(q, cfg)
           [] q.op = "awareness"    -> PlanAwareness(q.filters, q.size, cfg)
           [] q.op = "explain"      -> PlanExplain(q, cfg)

-----------------------------------------------------------------------------
(* The executor: the first objection to the plan, "none" if it answers      *)

First(objections) ==
    LET raised == {n \in DOMAIN objections : objections[n] # "none"}
    IN  IF raised = {} THEN "none" ELSE objections[Min(raised)]

Objection(holds, error) == IF holds THEN error ELSE "none"

Fits(asked, planned) == asked = Unset \/ planned = Unset \/ asked \subseteq planned

ScenarioDiffers(plan, q) ==
    plan.scenario # "none" /\ q.scenario # "none" /\ plan.scenario # q.scenario

\* execute_timeline and execute_causal; the edge that is made up is one every scenario allows.
ExecuteTimeline(plan, q) ==
    LET own == plan.kind = (IF q.op = "causal" THEN "Causal" ELSE "Timeline")
    IN  First(<<Objection(ScenarioDiffers(plan, q)
                            /\ (own \/ (q.op = "timeline" /\ plan.kind = "SessionOrder")),
                          "scenario_mismatch"),
                Objection(own /\ plan.scenario # "none" /\ plan.types # Unset
                            /\ ~(PrimaryTypes(plan.scenario) \subseteq plan.types),
                          "scenario_event_type_mismatch"),
                Objection(own /\ ~Fits(q.types, plan.types), "event_type_mismatch")>>)

PlanKindOf(q) ==
    CASE q.op = "path" -> "Path" [] q.op = "neighborhood" -> "Neighborhood"
      [] q.op = "subgraph" -> "Subgraph" [] q.op = "similarity" -> "Similarity"
      [] q.op = "influence" -> "Influence" [] OTHER -> "Pattern"

\* execute_path, _neighborhood, _subgraph, _similarity, _influence and _pattern
ExecuteGraph(plan, q) ==
    First(<<Objection(q.op = "subgraph" /\ q.seeds = 0, "seeds_required"),
            Objection(plan.kind # PlanKindOf(q), "NoIndexPlan"),
            Objection(q.op = "influence" /\ q.seeds = 0, "seeds_required")>>)

\* A plan of a recall is narrowed to scenes, a causal one to a scenario.
ExecuteRecall(plan, q) ==
    LET recall == plan.kind \in {"VectorAnn", "SparseBm25"}
        causal == plan.kind = "Causal"
    IN  First(<<Objection(recall /\ ~Fits(q.scenes, plan.scenes), "scene_mismatch"),
                Objection(causal /\ plan.scenario # "none" /\ q.scenes # Unset
                            /\ plan.scenario \notin q.scenes, "scenario_mismatch"),
                Objection((recall \/ causal) /\ ~Fits(q.types, plan.types), "event_type_mismatch")>>)

Differs(planned, asked) == planned # "none" /\ asked # planned

ExecuteAwareness(plan, f) ==
    IF plan.kind # "Awareness" THEN "none"
    ELSE First(<<Objection(Differs(plan.filters.cycle, f.cycle), "awareness_cycle_mismatch"),
                 Objection(Differs(plan.filters.parent, f.parent), "parent_cycle_mismatch"),
                 Objection(Differs(plan.filters.collab, f.collab), "collab_scope_mismatch"),
                 Objection(Differs(plan.filters.barrier, f.barrier), "barrier_mismatch"),
                 Objection(Differs(plan.filters.env, f.env), "env_mode_mismatch"),
                 Objection(plan.filters.sequence \notin {-1, f.sequence}, "ic_sequence_mismatch"),
                 Objection(~Fits(f.types, plan.filters.types), "event_type_mismatch"),
                 Objection(~Fits(f.reasons, plan.filters.reasons), "degradation_mismatch"),
                 Objection(~Fits(f.kinds, plan.filters.kinds), "sync_point_kind_mismatch")>>)

ExecuteLive(plan, q) ==
    IF plan.kind # "Live" THEN "none"
    ELSE First(<<Objection(plan.live.rate > LiveCap, "rate_exceeds_cap"),
                 Objection(ScenarioDiffers(plan, q), "scene_mismatch"),
                 Objection(q.live.rate # -1 /\ plan.live.rate > q.live.rate /\ LiveCap >= q.live.rate,
                           "rate_clamped_without_consent"),
                 Objection(plan.live.heartbeat < q.live.heartbeat, "heartbeat_mismatch"),
                 Objection(plan.live.idle < q.live.idle, "idle_timeout_mismatch"),
                 Objection(q.live.buffer # -1 /\ plan.live.buffer > q.live.buffer,
                           "buffer_clamped_without_consent"),
                 Objection(Differs(q.live.mode, plan.live.mode), "backpressure_mismatch")>>)

Executed(plan, q) ==
    IF q.tenant \notin AllowedTenants THEN "AuthForbidden"
    ELSE CASE q.op \in {"timeline", "causal"} -> ExecuteTimeline(plan, q)
           [] q.op = "recall"                 -> ExecuteRecall(plan, q)
           [] q.op = "awareness"              -> ExecuteAwareness(plan, q.filters)
           [] q.op = "explain"                -> ExecuteAwareness(plan, ExplainFilters(q))
           [] q.op = "live"                   -> ExecuteLive(plan, q)
           [] OTHER                           -> ExecuteGraph(plan, q)

-----------------------------------------------------------------------------
NoAsking == [step |-> "idle", q |-> NoAsk, prepared |-> RefusedQuery("none"), other |-> NoAsk,
             answer |-> "none"]

GraphInit ==
    /\ asking = NoAsking
    /\ timelineStore = {} /\ appended = {}

PlanAsk(q) ==
    /\ asking.step = "idle"
    /\ asking' = [asking EXCEPT !.step = "planned", !.q = q, !.prepared = PlanQuery(q, DefaultPlannerConfig)]
    /\ UNCHANGED <<timelineStore, appended>>

\* external: a plan serves the query it was made of, or another one
ExecuteAsk(other) ==
    /\ asking.step = "planned" /\ asking.prepared.error = "none"
    /\ asking.q.op # "hybrid" /\ other.op # "hybrid"
    /\ asking' = [asking EXCEPT !.step = "answered", !.other = other,
                                !.answer = Executed(asking.prepared.plan, other)]
    /\ UNCHANGED <<timelineStore, appended>>

KeyOf(e) == <<e.tenant, e.session, e.sequence>>

\* Mutant: an event takes the place of another one of its session.
AppendOver(e) ==
    /\ e.sound /\ e.tenant \in AllowedTenants
    /\ timelineStore' = {s \in timelineStore : KeyOf(s) # KeyOf(e)} \cup {e}
    /\ appended' = appended \cup {e}
    /\ UNCHANGED asking

\* append_event; one that is refused changes nothing
AppendEvent(e) ==
    /\ e.sound /\ e.tenant \in AllowedTenants
    /\ KeyOf(e) \notin {KeyOf(s) : s \in timelineStore}
    /\ timelineStore' = timelineStore \cup {e}
    /\ appended' = appended \cup {e}
    /\ UNCHANGED asking

AskNext ==
    \/ \E q \in Asks : PlanAsk(q)
    \/ ExecuteAsk(asking.q)
    \/ \E q \in Others : ExecuteAsk(q)

StoreNext == \E e \in GraphEvents : AppendEvent(e)

GraphSpec == GraphInit /\ [][AskNext \/ StoreNext]_graphVars

-----------------------------------------------------------------------------
(* Properties                                                               *)

\* What a query's own plan cannot serve: a tenant that has no access, a rate above its cap (and
\* zero rates and buffers, which are raised to one), and a scenario with other event types.
Unservable(q) ==
    \/ q.tenant \notin AllowedTenants
    \/ q.op = "live" /\ (q.live.rate = 0 \/ q.live.buffer = 0
                         \/ asking.prepared.plan.live.rate > LiveCap)
    \/ (q.op = "causal" \/ (q.op = "timeline" /\ ~q.session)) /\ ~Fits(q.types, PlannedTypes(q))

GraphKinds == {"path", "neighborhood", "subgraph", "similarity", "influence", "pattern"}

FiltersOf(q) == IF q.op = "explain" THEN ExplainFilters(q) ELSE q.filters

FiltersWithin(f, given) ==
    /\ given.cycle \in {"none", f.cycle} /\ given.parent \in {"none", f.parent}
    /\ given.collab \in {"none", f.collab} /\ given.barrier \in {"none", f.barrier}
    /\ given.env \in {"none", f.env} /\ given.sequence \in {-1, f.sequence}
    /\ Fits(f.types, given.types) /\ Fits(f.reasons, given.reasons) /\ Fits(f.kinds, given.kinds)

TermsWithin(asked, terms) ==
    /\ terms.rate <= LiveCap /\ (asked.rate # -1 => terms.rate <= asked.rate)
    /\ terms.heartbeat >= asked.heartbeat /\ terms.idle >= asked.idle
    /\ asked.buffer # -1 => terms.buffer <= asked.buffer

ScenarioShared(other, q) == "none" \in {q.scenario, other.scenario} \/ q.scenario = other.scenario

\* What a query that a plan of q answers has in common with q.  The executors of graph
\* queries take plans of their own kind only; the others check the plans of their kind,
\* and take any other plan as it is.
AsksWithin(other, q) ==
    /\ other.op \in GraphKinds => q.op = other.op
    /\ (other.op = q.op /\ q.op \in {"timeline", "causal"}) =>
          /\ ScenarioShared(other, q)
          /\ ~(q.op = "timeline" /\ q.session) => Fits(other.types, PlannedTypes(q))
    /\ (other.op = q.op /\ q.op = "recall") => Fits(other.scenes, q.scenes) /\ Fits(other.types, q.types)
    /\ {other.op, q.op} \subseteq {"awareness", "explain"} => FiltersWithin(FiltersOf(other), FiltersOf(q))
    /\ (other.op = q.op /\ q.op = "live") =>
          ScenarioShared(other, q) /\ TermsWithin(other.live, LiveTerms(q.live, DefaultPlannerConfig))

\* A plan reaches no further and returns no more than its bounds; where that is less than was
\* asked for it says so (limits of awareness queries, and recalls, aside); a subscription outlives a lost
\* heartbeat; a query is refused the plan that was made of it only where it is Unservable;
\* and whatever query a plan answers, its tenant is allowed and it asks within what the
\* plan was made for, as far as AsksWithin says.
QueriesAreServed ==
    LET q == asking.q
        p == asking.prepared
        c == DefaultPlannerConfig
    IN  asking.step # "idle" /\ p.error = "none" =>
            /\ p.plan.reach <= c.influence /\ (q.op \notin {"recall", "hybrid"} => p.plan.size <= c.nodes)
            /\ p.plan.reach < q.reach /\ p.plan.kind # "SessionOrder"
                  /\ q.op \in {"causal", "path", "neighborhood", "subgraph", "influence"}
                => p.reasons # <<>>
            /\ p.plan.size < q.size /\ q.op \in {"path", "neighborhood", "subgraph", "similarity", "pattern"}
                => p.reasons # <<>>
            /\ p.plan.kind = "Live" =>
                  /\ p.plan.live.idle >= 2 * p.plan.live.heartbeat
                  /\ q.live.rate > p.plan.live.rate \/ q.live.buffer > p.plan.live.buffer => p.reasons # <<>>
            /\ asking.step = "answered" /\ asking.other = q =>
                  (asking.answer = "none" <=> ~Unservable(q))
            /\ asking.step = "answered" /\ asking.answer = "none" =>
                  asking.other.tenant \in AllowedTenants /\ AsksWithin(asking.other, q)

\* An event whose append was answered with Ok stays, and is the only one with its place in its
\* session.
AppendsStay ==
    /\ appended = timelineStore
    /\ \A e, f \in timelineStore : KeyOf(e) = KeyOf(f) => e = f

=============================================================================
