-------------------------------- MODULE Routing --------------------------------
(***************************************************************************)
(* The dynamic fork router (soulseed-agi-dfr): DfrEngine::route, the stages *)
(* of RouterService::evaluate (hard gate, filter, scorer, planner,         *)
(* validator, budget), and the RouteHistory that all calls share.  A call  *)
(* locks the history twice, to read it and to record what was issued; the  *)
(* rest of it is a function of its input.                                  *)
(*                                                                         *)
(* Abstractions.  Scores are hundredths; the jitter, a hash, is a field of *)
(* the candidate.  Of a plan its graph is kept, and whether some limit in  *)
(* it is zero, some name missing, some mode unknown; of the context the    *)
(* alignment of its signals.  Of the explanations the rejections are kept, *)
(* and the oscillation.                                                    *)
(***************************************************************************)
EXTENDS Integers, Sequences, FiniteSets, SequencesExt, Retain

CONSTANTS
    Callers, Inputs,    \* Inputs[c]: what caller c may ask
    Cooldown, Bonus, Penalty,   \* RouterStickiness
    MaxClock, MaxRoutes         \* bounds: the clock, and calls of route

Forks == {"self", "clarify", "tool", "collab"}
RouteCandidates ==
    [label : STRING, fork : Forks, priority : Int, permitted : BOOLEAN, allow : BOOLEAN,
     risk : Int, tokens : Int, walltime : Int, cost : Int, jitter : Int, markedInvalid : BOOLEAN,
     plan : [nodes : Seq(Int), edges : SUBSET (Int \X Int), zero : BOOLEAN, missing : BOOLEAN,
             badMode : BOOLEAN],
     buildable : BOOLEAN]
IsInput(in) ==
    /\ in.candidates \in Seq(RouteCandidates) /\ in.catalog \in Seq(RouteCandidates)
    /\ in.restricted \in BOOLEAN
    /\ {in.clarity, in.gate, in.alignment, in.riskThreshold} \subseteq Int
    /\ {in.maxTokens, in.maxWalltime, in.maxCost} \subseteq Int /\ in.maxCandidates \in Nat

ASSUME RoutingAssumption ==
    /\ Cooldown \in Nat /\ Bonus \in 0..100 /\ Penalty \in 0..100 /\ MaxRoutes \in Nat
    /\ \A c \in Callers : \A in \in Inputs[c] : IsInput(in)

VARIABLES
    history,   \* RouteHistory.records, by tenant and session
    clock,
    route,     \* where each caller is in route()
    routes     \* calls so far, for MaxRoutes

routingVars == <<history, clock, route, routes>>

Clamp(score) == IF score < 0 THEN 0 ELSE IF score > 100 THEN 100 ELSE score

\* sort_by is stable
ByPriority(sorted, p) ==
    InsertAt(sorted, 1 + Cardinality({n \in DOMAIN sorted : sorted[n].priority >= p.priority}), p)
Ranked(plans) ==
    LET sorted[n \in 0..Len(plans)] ==
            IF n = 0 THEN <<>> ELSE ByPriority(sorted[n - 1], plans[n])
    IN  sorted[Len(plans)]

\* (of an invalid plan the code tells the failed check in place of the label)
Rejections(S, why) == [n \in DOMAIN S |-> [code |-> why[S[n]], label |-> S[n].label]]

-----------------------------------------------------------------------------
(* The gates                                                                *)

\* derive_catalog_candidates: an item no plan can be built of is left out.
Candidates(in) ==
    IF in.candidates # <<>> THEN in.candidates ELSE Retain(in.catalog, {i \in ToSet(in.catalog) : i.buildable})

Denied(in, c) ==
    c.fork \in {"tool", "collab"} /\ ~c.permitted

\* HardGate::apply: the first reason that holds
Blocks(in, c) ==
    IF in.restricted /\ c.fork # "clarify"          THEN "privacy_restricted"
    ELSE IF in.clarity < in.gate /\ c.fork # "clarify" THEN "intent_clarity_low"
    ELSE IF Denied(in, c)                              THEN "policy_denied"
    ELSE IF in.riskThreshold > 0 /\ c.risk > in.riskThreshold THEN "risk_too_high"
    ELSE "no"

Listed(f, c) == \E n \in DOMAIN f.accepted : f.accepted[n].fork = c.fork /\ f.accepted[n].label = c.label
Accepts(f, c) == [accepted |-> Append(f.accepted, c), rejected |-> f.rejected]
Rejects(f, c, code) ==
    [accepted |-> f.accepted, rejected |-> Append(f.rejected, [code |-> code, label |-> c.label])]

\* Mutant: a candidate that was seen before is dropped without a word.
OfferedSilently(in, f, c) ==
    IF ~c.allow THEN Rejects(f, c, "policy_denied") ELSE IF Listed(f, c) THEN f ELSE Accepts(f, c)

\* CandidateFilter::filter; its second look at the policies finds nothing new.
Offered(in, f, c) ==
    IF ~c.allow           THEN Rejects(f, c, "policy_denied")
    ELSE IF Listed(f, c)  THEN Rejects(f, c, "duplicate_candidate")
    ELSE IF Denied(in, c) THEN Rejects(f, c, "policy_denied")
    ELSE Accepts(f, c)
Filtered(in, C) ==
    LET upTo[n \in 0..Len(C)] == IF n = 0 THEN [accepted |-> <<>>, rejected |-> <<>>]
                                 ELSE Offered(in, upTo[n - 1], C[n])
    IN  upTo[Len(C)]

Bias == [self |-> 15, clarify |-> 25, tool |-> 35, collab |-> 25]

\* by how much of the budget the estimate is over it, the worst of the three
Pressure(in, c) ==
    LET over(spent, most) == IF most > 0 /\ spent > most THEN ((spent - most) * 100) \div most ELSE 0
        all == {over(c.tokens, in.maxTokens), over(c.walltime, in.maxWalltime), over(c.cost, in.maxCost)}
    IN  CHOOSE p \in all : \A q \in all : q <= p

\* CandidateScorer::score
Scored(in, c) ==
    [c EXCEPT !.priority =
        Clamp(@ + Bias[c.fork] + (20 * in.clarity) \div 100 + (30 * in.alignment) \div 100
                - (40 * c.risk) \div 100 - (30 * Pressure(in, c)) \div 100 + c.jitter)]

\* has_cycle
HasCycle(plan) ==
    LET step[n \in 0..Len(plan.nodes)] ==
            IF n = 0 THEN plan.edges
            ELSE step[n - 1] \cup {<<p[1][1], p[2][2]>> :
                    p \in {q \in step[n - 1] \X plan.edges : q[1][2] = q[2][1]}}
    IN  \E x \in ToSet(plan.nodes) : <<x, x>> \in step[Len(plan.nodes)]

\* validate_plan with validate_decision_plan
Valid(c) ==
    /\ ~c.markedInvalid /\ ~c.plan.zero /\ ~c.plan.missing /\ ~c.plan.badMode
    /\ c.fork = "tool" =>
          /\ c.plan.nodes # <<>> /\ IsInjective(c.plan.nodes)
          /\ \A e \in c.plan.edges : {e[1], e[2]} \subseteq ToSet(c.plan.nodes)
          /\ ~HasCycle(c.plan)

\* budget_exceeded: the first limit that is passed
Exceeds(in, p) ==
    IF in.maxTokens > 0 /\ p.tokens > in.maxTokens           THEN "budget_tokens"
    ELSE IF in.maxWalltime > 0 /\ p.walltime > in.maxWalltime THEN "budget_walltime"
    ELSE IF in.maxCost > 0 /\ p.cost > in.maxCost             THEN "budget_external_cost"
    ELSE "no"

-----------------------------------------------------------------------------
(* Plans                                                                    *)

\* build_plan
Plan(c) ==
    [label |-> c.label, fork |-> c.fork, priority |-> c.priority, tokens |-> c.tokens,
     walltime |-> c.walltime, cost |-> c.cost, reason |-> "none", fallback |-> FALSE,
     oscillation |-> 0]

\* build_fallback_clarify and build_fallback_self; no gate is asked about them.
Fallback(fork, why) ==
    [label |-> "fallback_" \o fork, fork |-> fork, priority |-> IF fork = "self" THEN 40 ELSE 50,
     tokens |-> 0, walltime |-> 0, cost |-> 0, reason |-> why, fallback |-> TRUE, oscillation |-> 0]

\* fallback_reason
FallbackReason(rejected, otherwise) ==
    LET has(code) == \E n \in DOMAIN rejected : rejected[n].code = code IN
    CASE has("intent_clarity_low") -> "intent_clarity_low"
      [] ~has("intent_clarity_low") /\ has("privacy_restricted") -> "privacy_restricted"
      [] ~has("intent_clarity_low") /\ ~has("privacy_restricted") /\ has("policy_denied") ->
            "policy_denied"
      [] ~has("intent_clarity_low") /\ ~has("privacy_restricted") /\ ~has("policy_denied") ->
            IF has("risk_too_high") THEN "risk_too_high" ELSE otherwise

Sticky(fork) == fork \in {"clarify", "tool", "collab"}
NoEntry == [known |-> FALSE, fork |-> "self", at |-> 0, oscillation |-> 0]

\* RouteHistory::apply, with the entry it read at time t
Adjusted(entry, t, p) ==
    IF ~entry.known \/ ~Sticky(p.fork) THEN p
    ELSE IF p.fork = entry.fork
         THEN [p EXCEPT !.priority = Clamp(@ + Bonus), !.oscillation = entry.oscillation]
    ELSE IF t - entry.at <= Cooldown
         THEN [p EXCEPT !.priority = Clamp(@ - Penalty), !.oscillation = entry.oscillation + 1]
    ELSE p

\* the loop over the valid plans: what is over budget is replaced, but for a self
\* plan, which is issued as it is
InBudget(in, p) ==
    LET why == Exceeds(in, p) IN
    IF why = "no"                         THEN p
    ELSE IF p.fork \in {"tool", "collab"} THEN Fallback("clarify", why)
    ELSE IF p.fork = "clarify"            THEN Fallback("self", why)
    ELSE [p EXCEPT !.reason = why]
Budgeted(in, plans) == [n \in DOMAIN plans |-> InBudget(in, plans[n])]
OverBudget(in, plans) ==
    LET over == Retain(plans, {p \in ToSet(plans) : Exceeds(in, p) # "no"})
    IN  [n \in DOMAIN over |-> [code |-> "budget_exceeded", label |-> over[n].fork]]

\* The stages of evaluate, the last first.  Each gets what the ones before it rejected and kept.
Alone(entry, t, rejected, otherwise) ==
    [plans |-> <<Adjusted(entry, t, Fallback("clarify", FallbackReason(rejected, otherwise)))>>,
     rejected |-> rejected]

AfterValidation(in, entry, t, rejected, valid) ==
    IF valid = <<>> THEN Alone(entry, t, rejected, "invalid_plan")
    ELSE LET plans == [n \in DOMAIN valid |-> Adjusted(entry, t, Plan(valid[n]))]
         IN  [plans |-> Ranked(Budgeted(in, plans)), rejected |-> rejected \o OverBudget(in, plans)]

AfterPruning(in, entry, t, rejected, kept) ==
    AfterValidation(in, entry, t,
        rejected \o Rejections(Retain(kept, {c \in ToSet(kept) : ~Valid(c)}),
                               [c \in ToSet(kept) |-> "plan_invalid"]),
        Retain(kept, {c \in ToSet(kept) : Valid(c)}))

AfterScoring(in, entry, t, rejected, scored) ==
    LET most == IF in.maxCandidates > 0 /\ Len(scored) > in.maxCandidates
                THEN in.maxCandidates ELSE Len(scored)
    IN  AfterPruning(in, entry, t,
            rejected \o Rejections(SubSeq(scored, most + 1, Len(scored)),
                                   [c \in ToSet(scored) |-> "max_candidates_pruned"]),
            SubSeq(scored, 1, most))

AfterFilter(in, entry, t, rejected, accepted) ==
    IF accepted = <<>> THEN Alone(entry, t, rejected, "empty_catalog")
    ELSE AfterScoring(in, entry, t, rejected, Ranked([n \in DOMAIN accepted |-> Scored(in, accepted[n])]))

Gated(in, C)   == Retain(C, {c \in ToSet(C) : Blocks(in, c) = "no"})
Stopped(in, C) == Rejections(Retain(C, {c \in ToSet(C) : Blocks(in, c) # "no"}),
                             [c \in ToSet(C) |-> Blocks(in, c)])

\* evaluate
Evaluated(in, entry, t) ==
    LET filtered == Filtered(in, Gated(in, Candidates(in)))
    IN  AfterFilter(in, entry, t, Stopped(in, Candidates(in)) \o filtered.rejected, filtered.accepted)

-----------------------------------------------------------------------------
(* route                                                                    *)

RoutingInit ==
    /\ history = [k \in {} |-> NoEntry]
    /\ clock = 0
    /\ route = [c \in Callers |-> [step |-> "idle"]]
    /\ routes = 0

EntryOf(k) == IF k \in DOMAIN history THEN history[k] ELSE NoEntry

Tick == clock < MaxClock /\ clock' = clock + 1 /\ UNCHANGED <<history, route, routes>>

\* up to the time of issue; what it read of the history may be stale afterwards
Evaluate(c, in) ==
    /\ route[c].step # "record" /\ routes < MaxRoutes
    /\ routes' = routes + 1
    /\ route' = [route EXCEPT ![c] =
                   [step |-> "record", input |-> in, entry |-> EntryOf(in.session), at |-> clock]]
    /\ UNCHANGED <<history, clock>>

ResultOf(c) == Evaluated(route[c].input, route[c].entry, route[c].at)
IssuedBy(c) == Head(ResultOf(c).plans)

\* RouteHistory::record_outcome
Outcome(entry, p, at) ==
    [known |-> TRUE, fork |-> p.fork, at |-> at,
     oscillation |->
        IF ~entry.known \/ ~Sticky(p.fork) THEN 0
        ELSE IF entry.fork # p.fork
             THEN IF at - entry.at <= Cooldown THEN entry.oscillation + 1 ELSE 1
        ELSE IF at - entry.at > Cooldown THEN 0 ELSE entry.oscillation]

Record(c) ==
    /\ route[c].step = "record"
    /\ LET k == route[c].input.session
           entry == Outcome(EntryOf(k), IssuedBy(c), route[c].at) IN
       history' = [x \in DOMAIN history \cup {k} |-> IF x = k THEN entry ELSE history[x]]
    /\ route' = [route EXCEPT ![c].step = "issued"]
    /\ UNCHANGED <<clock, routes>>

RoutingNext ==
    \/ Tick
    \/ \E c \in Callers : (\E in \in Inputs[c] : Evaluate(c, in)) \/ Record(c)

RoutingSpec == RoutingInit /\ [][RoutingNext]_routingVars

-----------------------------------------------------------------------------
(* Property                                                                 *)

\* Every candidate of a call ends in its plans or with a reason among its rejections,
\* once; what is issued is a plan no other one outranks, and is a fallback or a
\* candidate that every rule admits: the policies, the gates, the risk, a valid plan
\* without a cycle, and the budget, but for reasoning alone.
RoutesAreLawful ==
    \A c \in Callers : route[c].step # "idle" =>
        LET in == route[c].input
            r  == ResultOf(c)
            C  == Candidates(in)
            own == Retain(r.plans, {p \in ToSet(r.plans) : ~p.fallback})
            over == Retain(own, {p \in ToSet(own) : Exceeds(in, p) # "no"}) IN
        /\ r.plans # <<>>
        /\ Len(C) + Len(over) = Len(own) + Len(r.rejected)
        /\ \A n \in DOMAIN r.plans : r.plans[n].priority <= IssuedBy(c).priority
        /\ \A n \in DOMAIN own : \E m \in DOMAIN C :
              /\ C[m].label = own[n].label /\ C[m].fork = own[n].fork
              /\ Blocks(in, C[m]) = "no" /\ C[m].allow /\ Valid(C[m])
        /\ \A n \in DOMAIN over : over[n].fork = "self"

=============================================================================
