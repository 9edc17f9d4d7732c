--------------------------------- MODULE Authz ---------------------------------
(***************************************************************************)
(* Authorisation: the evaluator of policies (authz/evaluator.rs,           *)
(* policy.rs, types.rs, ticket.rs, validate.rs), the stores it reads       *)
(* (cache.rs), the quota client it asks (quota.rs) and the policies the    *)
(* in-memory environment is seeded with (mock.rs).  authorize() takes no   *)
(* lock of its own; each store and each table of the quota client has one, *)
(* so the calls of several callers, and retries of a request, interleave   *)
(* between them.                                                           *)
(*                                                                         *)
(* Abstractions.  A resource or a pattern is the sequence of its segments, *)
(* "*" a segment that is a wildcard; digests are the policy's name.  Of an *)
(* anchor the tenant and whether it is sound are kept, of a decision its   *)
(* effect.                                                                 *)
(***************************************************************************)
EXTENDS Integers, Sequences, FiniteSets, SequencesExt

CONSTANTS
    Tenants, Callers,
    Requests,        \* the requests that may be sent, each any number of times
    FirstPolicies,   \* [Tenants -> Seq(policy)], in the store at the start
    LaterPolicies,   \* policies that may be pushed, for any tenant
    ToolBudget, ClarifyLimit, ClarifyConcurrency, CollabLimit,
    MaxCalls         \* bound: calls of authorize

AllPolicies == LaterPolicies \cup UNION {ToSet(FirstPolicies[t]) : t \in Tenants}

ASSUME AuthzAssumption ==
    /\ ToolBudget \in Nat /\ ClarifyLimit \in Nat /\ MaxCalls \in Nat
    /\ \A r \in Requests : r.tenant \in Tenants /\ r.resource \in Seq(STRING)
    /\ FirstPolicies \in [Tenants -> Seq(AllPolicies)]
    /\ \A p \in AllPolicies : p.priority \in Int /\ p.pattern \in Seq(STRING)

VARIABLES
    pushed,         \* InMemoryPolicyStore: each tenant's policies after the first
    idem,           \* ScenarioQuotaClient.idem
    toolBudget,     \* ScenarioQuotaClient.tool_budget: spent by each tenant
    clarifyCounts,  \* ScenarioQuotaClient.clarify_counts
    auth,           \* where each caller is in authorize()
    charged,        \* history: the charges, in order
    calls

authzVars == <<pushed, idem, toolBudget, clarifyCounts, auth, charged, calls>>

PoliciesOf(tenant, later) == FirstPolicies[tenant] \o later

At(step, r, later) == [step |-> step, request |-> r, later |-> later]
Done(effect, r, later) == [step |-> "done", request |-> r, later |-> later, effect |-> effect]

-----------------------------------------------------------------------------
(* Resources                                                                *)

Scenes == {"human_to_human", "human_group", "human_to_ai", "ai_to_ai", "ai_self_talk",
           "human_to_multi_ai", "multi_human_to_multi_ai", "ai_group", "ai_to_system"}

Dialogue(session, scene, leaf) == <<"dialogue", "session", session, "scenario", scene>> \o leaf

LeafOf(action) ==
    CASE action = "AppendDialogueEvent" -> <<"events">>
      [] action = "EmitToolEvent"       -> <<"tools">>
      [] action = "ReviewFinal"         -> <<"final">>
      [] OTHER                          -> <<>>

ResourceFor(session, scene, action) == Dialogue(session, scene, LeafOf(action))

\* parse_dialogue: what follows the session's number without naming a scenario
\* is read as a part of it, and then there is no number
SessionIn(resource) ==
    IF /\ Len(resource) >= 3 /\ SubSeq(resource, 1, 2) = <<"dialogue", "session">>
       /\ resource[3] # "*" /\ (Len(resource) = 3 \/ resource[4] = "scenario")
    THEN resource[3] ELSE "none"
ScenarioIn(resource) ==
    IF SessionIn(resource) # "none" /\ Len(resource) >= 5 THEN resource[5] ELSE "none"

InfraOf ==
    [BuildEnvSnapshot |-> <<"envctx", "snapshot">>, ScheduleAwarenessCycle |-> <<"ace", "cycle">>,
     RouteDecision |-> <<"dfr", "router">>, AssembleContext |-> <<"context", "assembly">>,
     ManageHitlQueue |-> <<"hitl", "queue">>, InvokeLlm |-> <<"llm", "router">>]

Infra(tenant, action) == <<InfraOf[action][1], "tenant", tenant, InfraOf[action][2]>>

\* how many segments up to each stand together, without a wildcard between
RunLength(pattern) ==
    LET length[j \in 0..Len(pattern)] ==
            IF j = 0 THEN 0 ELSE IF pattern[j] = "*" THEN 0 ELSE length[j - 1] + 1
    IN  length

EndsRun(pattern, j) == pattern[j] # "*" /\ (j = Len(pattern) \/ pattern[j + 1] = "*")

\* the n segments of the pattern up to j stand in the resource, behind k others
Occurs(resource, k, pattern, j, n) == \A m \in 1..n : resource[k + m] = pattern[j - n + m]

\* where they do, at or behind from: the first run has to be in front
FoundAt(resource, from, pattern, j, n) ==
    {k \in from..(Len(resource) - n) :
        /\ Occurs(resource, k, pattern, j, n)
        /\ (\A m \in 1..(j - n) : pattern[m] = "*") => k = 0}

Least(S) == CHOOSE k \in S : \A j \in S : k <= j

\* how much of the resource is behind the match: each run is taken where it first
\* occurs, and one that does not leaves more than there is
Taken(resource, from, pattern, j, n) ==
    LET at == FoundAt(resource, from, pattern, j, n) IN
    IF at = {} THEN Len(resource) + 1 ELSE Least(at) + n

BehindNext(resource, pattern, j, from) ==
    IF EndsRun(pattern, j) THEN Taken(resource, from, pattern, j, RunLength(pattern)[j])
                           ELSE from
Behind(resource, pattern) ==
    LET behind[j \in 0..Len(pattern)] ==
            IF j = 0 THEN 0 ELSE BehindNext(resource, pattern, j, behind[j - 1])
    IN  behind

\* ResourceUrn::matches; the last run, unless a wildcard follows it, has to end the resource
Matches(resource, pattern) ==
    IF ~Contains(pattern, "*") THEN resource = pattern
    ELSE LET n == RunLength(pattern)[Len(pattern)] IN
         /\ Behind(resource, pattern)[Len(pattern)] <= Len(resource)
         /\ Occurs(resource, Len(resource) - n, pattern, Len(pattern), n)

\* ResourceSpecificity, in the order it is compared
Specificity(pattern) ==
    LET wild == Cardinality({n \in DOMAIN pattern : pattern[n] = "*"}) IN
    <<Len(pattern), Len(pattern) - wild, -wild, IF Last(pattern) = "*" THEN 0 ELSE 1>>

-----------------------------------------------------------------------------
(* Policies                                                                 *)

Policy(id, priority, roles, pattern, action, conditions) ==
    [id |-> id, priority |-> priority, roles |-> roles, pattern |-> pattern,
     actions |-> {action}, effect |-> "Allow", conditions |-> conditions]

TenantEq == [is |-> "TenantEq"]

\* seed_dialogue_policies, for one scene
DialoguePolicies(scene) ==
    LET in == <<TenantEq, [is |-> "SceneIn", scenes |-> {scene}]>>
        at(action) == ResourceFor("*", scene, action) IN
    <<Policy("append." \o scene, 40, {"Member", "Service"},
             at("AppendDialogueEvent"), "AppendDialogueEvent", in),
      Policy("tool." \o scene, 35, {"Tool", "Service"}, at("EmitToolEvent"), "EmitToolEvent", in),
      Policy("final." \o scene, 30, {"Auditor", "Moderator"}, at("ReviewFinal"), "ReviewFinal", in),
      Policy("hitl." \o scene, 45, {"Moderator"},
             at("AppendDialogueEvent"), "AppendDialogueEvent",
             Append(in, [is |-> "HasConsent", kind |-> "hitl"]))>>

\* seed_infra_policies
InfraPolicies ==
    LET seed(action, priority, roles) ==
            Policy("infra", priority, roles, Infra("*", action), action, <<TenantEq>>) IN
    <<seed("BuildEnvSnapshot", 60, {"Service"}), seed("ScheduleAwarenessCycle", 58, {"Service"}),
      seed("RouteDecision", 57, {"Service"}), seed("AssembleContext", 55, {"Service"}),
      seed("ManageHitlQueue", 54, {"Moderator"}), seed("InvokeLlm", 59, {"Service", "Tool"})>>

\* evaluate_predicates, one of them
Holds(pred, r) ==
    CASE pred.is \in {"TenantEq", "Custom"} -> TRUE
      [] pred.is = "MemberOf"       -> pred.group \in r.groups
      [] pred.is = "SceneIn"        -> r.scene \in pred.scenes
      [] pred.is = "HasConsent"     -> pred.kind \in r.consents
      [] pred.is = "OwnsResource"   -> r.human = r.owner
      [] pred.is = "RiskAtMost"     -> r.risk % 256 <= pred.level
      [] pred.is = "RiskBand"       -> r.risk % 256 \in pred.least..pred.most
      [] pred.is = "TimeWindow"     -> r.time \in pred.from..pred.to
      [] pred.is = "QuotaAvailable" -> r.quota >= pred.minimum

\* applies_to and roles_match
AppliesTo(p, r) ==
    /\ r.action \in p.actions /\ Matches(r.resource, p.pattern)
    /\ p.roles = {} \/ r.roles \cap p.roles # {}

AllTrue(p, r) == \A n \in DOMAIN p.conditions : Holds(p.conditions[n], r)

MissesConsent(p, r) ==
    \E n \in DOMAIN p.conditions :
        p.conditions[n].is = "HasConsent" /\ ~Holds(p.conditions[n], r)

\* priority first, then the more specific
Rank(p) == <<p.priority>> \o Specificity(p.pattern)
Above(p, q) ==
    LET a == Rank(p)
        b == Rank(q) IN
    \E n \in 1..5 : a[n] > b[n] /\ \A m \in 1..(n - 1) : a[m] = b[m]

\* sort_by is stable: a policy comes behind those before it that it is not above.
SortedIn(s, p) == InsertAt(s, 1 + Cardinality({n \in DOMAIN s : ~Above(p, s[n])}), p)
Sorted(P) ==
    LET upTo[n \in 0..Len(P)] == IF n = 0 THEN <<>> ELSE SortedIn(upTo[n - 1], P[n])
    IN  upTo[Len(P)]

\* Mutant: a deny counts only when nothing has matched before it.
WalkFirst(w, p, r) ==
    IF w.denied \/ ~AppliesTo(p, r) THEN w
    ELSE LET seen == [w EXCEPT !.consent = @ \/ MissesConsent(p, r)] IN
         IF ~AllTrue(p, r) \/ w.chosen # <<>> THEN seen
         ELSE IF p.effect = "Deny" THEN [seen EXCEPT !.denied = TRUE, !.chosen = <<p>>]
         ELSE [seen EXCEPT !.chosen = <<p>>]

\* One turn of the loop: a deny that matches ends it, wherever it stands.
Walk(w, p, r) ==
    IF w.denied \/ ~AppliesTo(p, r) THEN w
    ELSE LET seen == [w EXCEPT !.consent = @ \/ MissesConsent(p, r)] IN
         IF ~AllTrue(p, r) THEN seen
         ELSE IF p.effect = "Deny" THEN [seen EXCEPT !.denied = TRUE, !.chosen = <<p>>]
         ELSE IF w.chosen = <<>> \/ Above(p, w.chosen[1]) THEN [seen EXCEPT !.chosen = <<p>>]
         ELSE seen

Walked(P, r) ==
    LET s == Sorted(P)
        upTo[n \in 0..Len(s)] ==
            IF n = 0 THEN [denied |-> FALSE, consent |-> FALSE, chosen |-> <<>>]
            ELSE Walk(upTo[n - 1], s[n], r)
    IN  upTo[Len(s)]

\* AccessTicket::is_valid
TicketValid(r, p) ==
    /\ r.ticket.given /\ r.ticket.tenant = r.tenant
    /\ r.time <= r.ticket.expires /\ r.ticket.subject = r.human
    /\ Matches(r.resource, r.ticket.scope)
    /\ r.action \in r.ticket.actions /\ r.ticket.digest = p.id

\* authorize up to the quota
PolicyEffect(w, r) ==
    CASE w.chosen = <<>>   -> IF w.consent THEN "AskConsent" ELSE "Deny"
      [] w.chosen # <<>> /\ r.action = "ViewTraceFull" /\ r.want_trace
           /\ ~TicketValid(r, w.chosen[1]) -> "Deny"
      [] OTHER             -> w.chosen[1].effect

\* and after it: an allowed request still has to ask for a consent it lacks.
FinalEffect(w, effect) == IF effect = "Allow" /\ w.consent THEN "AskConsent" ELSE effect

-----------------------------------------------------------------------------
(* authorize, with check_and_consume                                        *)

AuthzInit ==
    /\ pushed = [t \in Tenants |-> <<>>]
    /\ idem = {}
    /\ toolBudget = [t \in Tenants |-> 0]
    /\ clarifyCounts = [k \in {} |-> 0]
    /\ auth = [c \in Callers |-> [step |-> "idle"]]
    /\ charged = <<>>
    /\ calls = 0

To(c, state) == auth' = [auth EXCEPT ![c] = state]
Answer(c, quota) ==
    LET a == auth[c]
        w == Walked(PoliciesOf(a.request.tenant, a.later), a.request) IN
    To(c, Done(FinalEffect(w, quota), a.request, a.later))

\* validate_anchor, then the policies of the tenant, read in one go.
Authorize(c, r) ==
    /\ auth[c].step \in {"idle", "done"} /\ calls < MaxCalls
    /\ calls' = calls + 1
    /\ LET later == pushed[r.tenant]
           w == Walked(PoliciesOf(r.tenant, later), r)
           effect == PolicyEffect(w, r) IN
       IF ~r.sound THEN To(c, Done("error", r, later))
       ELSE IF effect = "Allow" /\ r.cost >= 0
            THEN To(c, At("idem", r, later))
       ELSE To(c, Done(FinalEffect(w, effect), r, later))
    /\ UNCHANGED <<pushed, idem, toolBudget, clarifyCounts, charged>>

SelfReflection(r) ==
    r.action = "AppendDialogueEvent" /\ "ai_self_talk" \in {ScenarioIn(r.resource), r.scene}

Charge(r, table, amount) ==
    Append(charged, [key |-> r.key, table |-> table, tenant |-> r.tenant,
                     session |-> SessionIn(r.resource), amount |-> amount])

Count(k) == IF k \in DOMAIN clarifyCounts THEN clarifyCounts[k] ELSE 0

\* Mutant: the key is looked up, and recorded only with the charge.
KeysAfterIdem(key) == idem

KeysAfter(key) == idem \cup {key}

\* The key is recorded before anything is decided; a retry is allowed unseen.
QuotaIdem(c) ==
    /\ auth[c].step = "idem"
    /\ LET r == auth[c].request IN
       IF r.key \in idem THEN Answer(c, "Allow") /\ UNCHANGED idem
       ELSE /\ idem' = KeysAfter(r.key)
            /\ IF r.requires_consent THEN Answer(c, "AskConsent")
               ELSE IF SelfReflection(r) THEN Answer(c, "Allow")
               ELSE IF r.clarify /\ r.pending >= ClarifyConcurrency THEN Answer(c, "Degrade")
               ELSE IF r.action = "EmitToolEvent"
                    THEN To(c, At("spend", r, auth[c].later))
               ELSE IF r.clarify /\ r.action = "AppendDialogueEvent"
                    THEN To(c, At("count", r, auth[c].later))
               ELSE Answer(c, "Allow")
    /\ UNCHANGED <<pushed, toolBudget, clarifyCounts, charged, calls>>

\* Also a request that is degraded has spent.
QuotaSpend(c) ==
    /\ auth[c].step = "spend"
    /\ LET r == auth[c].request
           spent == toolBudget[r.tenant] + r.cost IN
       /\ toolBudget' = [toolBudget EXCEPT ![r.tenant] = spent]
       /\ charged' = Charge(r, "tools", r.cost)
       /\ Answer(c, IF r.participants > CollabLimit \/ spent > ToolBudget
                    THEN "Degrade" ELSE "Allow")
    /\ UNCHANGED <<pushed, idem, clarifyCounts, calls>>

\* A question of no session is not counted.
QuotaCount(c) ==
    /\ auth[c].step = "count"
    /\ LET r == auth[c].request
           k == <<r.tenant, SessionIn(r.resource)>> IN
       IF SessionIn(r.resource) = "none"
       THEN Answer(c, "Allow") /\ UNCHANGED <<clarifyCounts, charged>>
       ELSE /\ clarifyCounts' = [j \in DOMAIN clarifyCounts \cup {k} |->
                                   IF j = k THEN Count(k) + 1 ELSE clarifyCounts[j]]
            /\ charged' = Charge(r, "clarify", 1)
            /\ Answer(c, IF Count(k) + 1 > ClarifyLimit THEN "Degrade" ELSE "Allow")
    /\ UNCHANGED <<pushed, idem, toolBudget, calls>>

PushPolicy(t, p) ==
    /\ ~Contains(pushed[t], p)
    /\ pushed' = [pushed EXCEPT ![t] = Append(@, p)]
    /\ UNCHANGED <<idem, toolBudget, clarifyCounts, auth, charged, calls>>

AuthzNext ==
    \/ \E c \in Callers : \/ \E r \in Requests : Authorize(c, r)
                          \/ QuotaIdem(c) \/ QuotaSpend(c) \/ QuotaCount(c)
    \/ \E t \in Tenants, p \in LaterPolicies : PushPolicy(t, p)

AuthzSpec == AuthzInit /\ [][AuthzNext]_authzVars

-----------------------------------------------------------------------------
(* Properties                                                               *)

\* What a pattern means: each wildcard stands for any number of segments.  Which
\* prefixes of the resource the first segments of the pattern may stand for:
StandsNext(resource, pattern, j, prefixes) ==
    IF pattern[j] = "*" THEN UNION {k..Len(resource) : k \in prefixes}
    ELSE {k \in 1..Len(resource) : resource[k] = pattern[j] /\ k - 1 \in prefixes}
StandsFor(resource, pattern) ==
    LET prefix[j \in 0..Len(pattern)] ==
            IF j = 0 THEN {0} ELSE StandsNext(resource, pattern, j, prefix[j - 1])
    IN  prefix
Glob(resource, pattern) == Len(resource) \in StandsFor(resource, pattern)[Len(pattern)]

\* matches() takes the text behind a wildcard in front for the beginning of the
\* resource, so that such a pattern may be missed.
Missed(pattern) ==
    pattern # <<>> /\ pattern[1] = "*" /\ \E n \in DOMAIN pattern : pattern[n] # "*"

Relevant(P, r) ==
    {p \in ToSet(P) : /\ r.action \in p.actions /\ Glob(r.resource, p.pattern)
                      /\ p.roles = {} \/ r.roles \cap p.roles # {}}
Matching(P, r) == {p \in Relevant(P, r) : AllTrue(p, r)}
Seen(S) == {p \in S : ~Missed(p.pattern)}

\* One of the strongest policies that match says so, none that matches denies, and
\* nothing is allowed for which a relevant policy lacks a consent.
Permits(P, r, effect) ==
    /\ \A p \in Seen(Matching(P, r)) : p.effect # "Deny"
    /\ \E p \in Matching(P, r) : /\ p.effect \in {effect, "Allow"}
                                 /\ \A q \in Seen(Matching(P, r)) : ~Above(q, p)
    /\ effect = "Allow" => \A p \in Seen(Relevant(P, r)) : ~MissesConsent(p, r)

\* The sorted walk of the policies decides what the policies say: a request is
\* allowed or degraded only when they permit it.
AllowedByThePolicies ==
    \A c \in Callers : auth[c].step = "done" /\ auth[c].effect \in {"Allow", "Degrade"} =>
        Permits(PoliciesOf(auth[c].request.tenant, auth[c].later), auth[c].request, auth[c].effect)

Total(charges, places) ==
    LET upTo[n \in 0..Len(charges)] ==
            IF n = 0 THEN 0
            ELSE IF n \in places THEN upTo[n - 1] + charges[n].amount ELSE upTo[n - 1]
    IN  upTo[Len(charges)]

Spent(t) ==
    Total(charged, {n \in DOMAIN charged : charged[n].table = "tools" /\ charged[n].tenant = t})
Clarified(t, s) ==
    Total(charged, {n \in DOMAIN charged : /\ charged[n].table = "clarify"
                                           /\ charged[n].tenant = t /\ charged[n].session = s})

\* Retries of a request, also at the same time, are charged once; a tenant has spent
\* the sum of what was charged to it, and a session asked as often as it was counted.
ChargedOnce ==
    /\ \A m, n \in DOMAIN charged : charged[m].key = charged[n].key => m = n
    /\ \A t \in Tenants : toolBudget[t] = Spent(t)
    /\ \A r \in Requests :
          LET s == SessionIn(r.resource) IN Count(<<r.tenant, s>>) = Clarified(r.tenant, s)

AuthorisationIsLawful == AllowedByThePolicies /\ ChargedOnce

=============================================================================
