------------------------------ MODULE MCDecisions ------------------------------
(***************************************************************************)
(* What is decided, found and kept beside the cycle: identifiers and       *)
(* version chains (IdFactory, VersionChain), the autonomous continuation   *)
(* and the scenario stack (Autonomy), the fork router and its memory       *)
(* (Routing, DecisionMemory), the context builder, its indexes and the two *)
(* forms of an event (Contents), the graph's queries and store             *)
(* (GraphQueries).  They share no state and no lock, so a behaviour runs   *)
(* one of them and leaves the others where they start.                     *)
(***************************************************************************)
EXTENDS Answers, IdFactory, Autonomy, Contents

CONSTANTS pressing, normal, late, v1, v2, v3, s1, s2

VARIABLE part

MCClockValues == -1..4

MCPriorityOf == (pressing :> 0) @@ (normal :> 2) @@ (late :> 2)

-----------------------------------------------------------------------------
(* Routing                                                                  *)

NoPlan == [nodes |-> <<>>, edges |-> {}, zero |-> FALSE, missing |-> FALSE, badMode |-> FALSE]
Line   == [NoPlan EXCEPT !.nodes = <<1, 2>>, !.edges = {<<1, 2>>}]
Ring   == [Line EXCEPT !.edges = {<<1, 2>>, <<2, 1>>}]

Candidate(label, fork, priority, plan) ==
    [label |-> label, fork |-> fork, priority |-> priority, permitted |-> TRUE, allow |-> TRUE,
     risk |-> 20, tokens |-> 40, walltime |-> 40, cost |-> 0, jitter |-> 2,
     markedInvalid |-> FALSE, plan |-> plan, buildable |-> TRUE]

Self    == Candidate("think", "self", 40, NoPlan)
Ask     == Candidate("ask", "clarify", 50, NoPlan)
Call    == Candidate("call", "tool", 30, Line)
Collab  == Candidate("work", "collab", 35, NoPlan)

Menu ==
    {<<>>, <<Self>>, <<Call, Self, Ask>>, <<Call, Call, Collab>>,
     <<[Call EXCEPT !.plan = Ring], Ask>>, <<[Call EXCEPT !.permitted = FALSE], Self>>,
     <<[Collab EXCEPT !.risk = 90], [Ask EXCEPT !.markedInvalid = TRUE]>>,
     <<[Self EXCEPT !.tokens = 90], [Call EXCEPT !.walltime = 200], [Ask EXCEPT !.cost = 9]>>,
     <<[Call EXCEPT !.allow = FALSE], [Call EXCEPT !.plan = NoPlan]>>}

Input(of, candidates) ==
    [session |-> of, candidates |-> candidates,
     catalog |-> <<[Ask EXCEPT !.buildable = FALSE], Self>>, restricted |-> FALSE, clarity |-> 60,
     gate |-> 40, alignment |-> 50, riskThreshold |-> 70, maxTokens |-> 80, maxWalltime |-> 100,
     maxCost |-> 5, maxCandidates |-> 2]

Inputs1 ==
    {[Input(s1, m) EXCEPT !.restricted = hard, !.clarity = c] :
        m \in Menu, hard \in BOOLEAN, c \in {20, 60}}
    \cup {[Input(s1, m) EXCEPT !.maxCandidates = 0] : m \in Menu}
Inputs2 == {Input(s, m) : s \in {s1, s2}, m \in {<<Call>>, <<Collab>>}}

MCInputs == (1 :> Inputs1) @@ (2 :> Inputs2)

-----------------------------------------------------------------------------
(* DecisionMemory                                                           *)

Context(intent, scene, signals, tools) ==
    [intent |-> intent, scenario |-> scene, signals |-> signals, tools |-> tools,
     length |-> 1]

MCContexts ==
    {Context(<<"find", "it">>, "ai", [clarity |-> 1], {}),
     Context(<<"find", "it">>, "ai", [clarity |-> 3], {}),
     Context(<<"find">>, "ai", [clarity |-> 1], {"web"}),
     Context(<<>>, "find", [other |-> 2], {}),
     Context(<<"find">>, "none", [other |-> 2], {})}

Factor(name, contribution) == [name |-> name, contribution |-> contribution]
MCFactors ==
    {{}, {Factor("clear", 30)}, {Factor("clear", 30), Factor("known", 40)},
     {Factor("vague", -60), Factor("old", -60)}}

-----------------------------------------------------------------------------
(* ContextAssembly                                                          *)

Anchor == [tenant |-> 1, envelope |-> "e", snapshot |-> "c", sequence |-> 1,
           restricted |-> FALSE, provenance |-> FALSE, scenario |-> "none"]

Piece(id, content, declared, pointer, tokens, score) ==
    [id |-> id, content |-> content, declared |-> declared, hint |-> "none", suggested |-> "P4",
     pointer |-> pointer, tokens |-> tokens, score |-> score, factors |-> "x", typ |-> "n",
     supersedes |-> "none", seen |-> 0, risky |-> FALSE, minimal |-> FALSE, anchor |-> Anchor]

Rule   == Piece("rule", "r", "P0", "none", 20, 9)
Fact   == Piece("fact", "f", "P1", "good", 40, 6)
Again  == [Fact EXCEPT !.id = "again", !.score = 8, !.risky = TRUE]
Proof  == Piece("proof", "p", "P2", "good", 40, 5)
Broken == Piece("broken", "b", "P3", "bad", 40, 3)
Talk   == Piece("talk", "t", "P4", "good", 40, 2)
Chat   == [Piece("chat", "u", "P4", "none", 40, 4) EXCEPT !.suggested = "P3", !.minimal = TRUE]
Moved  == [Piece("moved", "m", "P4", "none", 20, 4) EXCEPT !.hint = "P2"]
Empty  == Piece("empty", "z", "P4", "none", 0, 1)

Piles ==
    {<<Rule, Fact, Talk>>, <<Fact, Again, Talk, Proof>>, <<Again, Fact, Proof>>,
     <<Proof, [Proof EXCEPT !.id = "proof2", !.content = "p2"], Talk,
       [Talk EXCEPT !.id = "talk2", !.content = "t2", !.pointer = "none"]>>,
     <<Rule, Chat, Moved, Empty>>, <<Proof, Fact, Talk>>, <<Broken, Talk, Fact>>, <<Talk, [Talk EXCEPT !.id = "copy"]>>}

\* Piles in which an id repeats: what is known of it, and what remains of it, may
\* be of two items.
Twins ==
    {<<[Proof EXCEPT !.score = 7], [Proof EXCEPT !.content = "q", !.pointer = "none"], Talk>>,
     <<[Talk EXCEPT !.risky = TRUE, !.score = 9], [Talk EXCEPT !.content = "w", !.seen = 1], Fact>>}

\* The pile of another run: the same contents, but of another type, size or score,
\* with other evidence, or seen later.
Later(pile) ==
    {[i \in DOMAIN pile |-> [pile[i] EXCEPT !.typ = "o", !.supersedes = "old",
        !.pointer = IF @ = "good" THEN "newer" ELSE @]],
     [i \in DOMAIN pile |-> [pile[i] EXCEPT !.seen = 2, !.factors = "y"]]}

Call1(anchor, items) ==
    [anchor |-> anchor, environment |-> Anchor, digest |-> TRUE, snapshot |-> "c", target |-> 100,
     quota |-> DefaultQuota, items |-> items, previous |-> FALSE, failLevel |-> "none",
     failOnce |-> FALSE, now |-> 5]

Plain == {Call1(Anchor, p) : p \in Piles}

\* quotas in tokens, with one ratio alone, for some partitions, and one that is wrong
Tokens(min, max) == [min |-> Absent, max |-> Absent, minTokens |-> min, maxTokens |-> max]
Quotas ==
    {[P4 |-> Tokens(10, 30), P1 |-> Ratio(0, 20)],
     [P4 |-> [Tokens(10, 90) EXCEPT !.max = 30], P3 |-> [Tokens(0, 5) EXCEPT !.min = 130]],
     [P2 |-> Tokens(50, 20)]}

Runs1 ==
    {[c EXCEPT !.target = t, !.failLevel = l, !.failOnce = once] :
        c \in Plain, t \in {60, 100}, l \in {"none", "L1", "L2"}, once \in BOOLEAN}
    \cup {[c EXCEPT !.anchor.scenario = "human", !.items =
            [i \in DOMAIN c.items |-> [c.items[i] EXCEPT !.anchor.scenario = "human"]]] : c \in Plain}
    \cup {[Call1(Anchor, p) EXCEPT !.quota = q] :
            p \in {<<Proof, Fact, Talk>>, <<Rule, Chat, Moved, Empty>>}, q \in Quotas}
    \cup {Call1(Anchor, p) : p \in Twins}
    \cup {[c EXCEPT !.digest = FALSE] : c \in Plain} \cup {[c EXCEPT !.anchor.tenant = 2] : c \in Plain}

Runs2 ==
    {[c EXCEPT !.previous = p, !.target = 60, !.anchor.sequence = s, !.environment.sequence = s,
               !.items = [i \in DOMAIN c.items |-> [c.items[i] EXCEPT !.anchor.sequence = s]]] :
        c \in Plain, p \in BOOLEAN, s \in {1, 2}}

Runs3 == {[Call1(Anchor, p) EXCEPT !.previous = TRUE, !.now = n] :
            p \in Twins \cup UNION {Later(<<Proof, Fact, Talk>>), Later(<<Rule, Fact, Talk>>)}, n \in {5, 6}}

MCDocTerms == {<<>>, <<"x">>, <<"x", "y", "x">>}

MCRunInputs == (1 :> Runs1) @@ (2 :> Runs2) @@ (3 :> Runs3)

-----------------------------------------------------------------------------
(* GraphQueries                                                             *)

Query(op) == [NoAsk EXCEPT !.op = op]

Narrow == {Query(op) : op \in {"timeline", "causal", "recall", "awareness", "explain", "hybrid", "live"}}
          \cup {[Query(op) EXCEPT !.reach = 1] :
                   op \in {"path", "neighborhood", "subgraph", "similarity", "influence", "pattern"}}
Wide   == {[q EXCEPT !.reach = 9, !.size = 900, !.vectors = FALSE, !.forks = TRUE, !.damping = 120] :
             q \in Narrow}
Scenes == {[Query(op) EXCEPT !.scenario = s, !.types = t, !.session = in] :
             op \in {"timeline", "causal"}, s \in {"none", "AiToSystem", "AiGroup"},
             t \in {Unset, {"Message"}, {"Message", "ToolCall"}}, in \in BOOLEAN}
Recalls == {[Query("recall") EXCEPT !.scenes = s, !.types = t, !.vectors = v] :
              s \in {Unset, {"AiGroup"}, {"AiGroup", "AiToSystem"}},
              t \in {Unset, {"Message"}, {"Message", "ToolCall"}}, v \in BOOLEAN}
Awakes == {[Query("awareness") EXCEPT !.filters = [NoFilters EXCEPT !.cycle = y, !.parent = p,
                                                         !.collab = y, !.barrier = b, !.env = p]] :
               y \in {"none", "y1"}, p \in {"none", "y2"}, b \in {"none", "b"}}
             \cup {[Query("awareness") EXCEPT !.filters = [NoFilters EXCEPT !.sequence = n, !.types = t,
                                                         !.reasons = r, !.kinds = k]] :
                      n \in {-1, 1, 2}, t \in {Unset, {"DecisionRouted"}},
                      r \in {Unset, {"BudgetTokens"}, {"BudgetTokens", "GraphDegraded"}},
                      k \in {Unset, {"HitlAbsorb"}}}
             \cup {[Query("explain") EXCEPT !.types = t, !.filters.cycle = "y1"] :
                      t \in {Unset, {"DecisionRouted"}}}
Live == {[Query("live") EXCEPT !.live = [rate |-> r, heartbeat |-> h, idle |-> i, buffer |-> n, mode |-> m]] :
           r \in {-1, 0, 10, 50, 90}, h \in {-1, 100, 9000}, i \in {-1, 900}, n \in {-1, 0, 90, 900},
           m \in {"none", "block"}}

MCAsks == Narrow \cup Wide \cup Scenes \cup Recalls \cup Awakes \cup Live
          \cup {[q EXCEPT !.tenant = t] : q \in Narrow, t \in {0, 2}}
          \cup {[q EXCEPT !.seeds = 0, !.loop = TRUE] : q \in Narrow}
MCOthers == Narrow \cup {q \in Scenes : q.types = {"Message", "ToolCall"} /\ ~q.session}
            \cup {q \in Recalls : q.vectors} \cup Awakes \cup {[Query("awareness") EXCEPT !.tenant = 2]}

GraphEvent(id, sequence, tenant, sound) ==
    [id |-> id, tenant |-> tenant, session |-> 1, sequence |-> sequence, sound |-> sound]
MCGraphEvents == {GraphEvent("e1", 1, 1, TRUE), GraphEvent("e2", 1, 1, TRUE), GraphEvent("e3", 2, 1, TRUE),
                  GraphEvent("e4", 1, 2, TRUE), GraphEvent("e5", 3, 1, FALSE)}

-----------------------------------------------------------------------------
(* DialogueEvents                                                           *)

EventBase(type) == [type |-> type, sequence |-> 1, timestamp |-> 5, access |-> "internal",
                    provenance |-> FALSE, trigger |-> "none"]
NoMetadata == [kind |-> "none", wrapped |-> FALSE, shape |-> "null"]

Given(field, values) == {<<>>} \cup {field :> v : v \in values}

Vectored == {<<>>, ("embedding_meta" :> "m") @@ ("concept_vector" :> "off"),
             ("embedding_meta" :> "m") @@ ("content_embedding" :> "off"),
             ("content_embedding" :> "off") @@ ("concept_vector" :> "v")}

LegacyOf(type) ==
    LET content == UNION {Given(f, {"c"}) : f \in ContentOf(type)} \cup {<<>>} IN
    {[form |-> "legacy", base |-> EventBase(type), metadata |-> NoMetadata,
      data |-> c @@ g @@ w @@ r @@ v @@ t] :
        c \in content, g \in Given("digest", {"d", "blank"}), w \in Given("time_window", {"w", "blank"}),
        r \in Given("reasoning_confidence", {"0.5", "off"}), v \in Vectored,
        t \in Given("notification_targets", {"empty"})}

MCLegacyEvents ==
    UNION {LegacyOf(t) : t \in EventTypes}
    \cup {[form |-> "legacy", base |-> [EventBase("ToolCall") EXCEPT !.sequence = n, !.timestamp = m,
             !.access = "restricted", !.provenance = y, !.trigger = "e0"],
           metadata |-> [NoMetadata EXCEPT !.shape = "other"],
           data |-> ("tool_invocation" :> "c") @@ ("evidence" :> "p") @@ ("tool_result" :> "r")] :
               n \in {0, 1}, m \in {-1, 5}, y \in BOOLEAN}

SomeSnapshot(version, data) == [version |-> version, created |-> 3, data |-> data]

V2Event(type, domain, kind, data) ==
    [form |-> "v2", base |-> EventBase(type), metadata |-> NoMetadata, extra |-> "stage_hint" :> "h",
     payload |-> [domain |-> domain, kind |-> kind, data |-> data],
     enhancements |-> NoEnhancements]

\* a payload that has all its kind asks for, and those with one field wrong
FullData(domain, kind) ==
    [f \in {MainField(domain)} \cup Required(domain, kind) |->
        IF f = "event_type" THEN kind ELSE "x"]
DataOf(domain, kind) ==
    LET full == FullData(domain, kind) IN
    {full} \cup {Only(full, DOMAIN full \ {f}) : f \in Required(domain, kind)}
           \cup {(f :> "blank") @@ full : f \in NotBlank(domain, kind)}
           \cup {(f :> "off") @@ full : f \in InBounds(domain, kind)}

DomainNames == DOMAIN KindNames

MCV2Events ==
    UNION {UNION {{V2Event(t, d, k, FullData(d, k)) : t \in EventTypes}
                  \cup {V2Event(t, d, k, x) : t \in TypesOf(d), x \in DataOf(d, k)}
                    : k \in KindNames[d]} : d \in DomainNames}
    \cup {[V2Event("ToolCall", "Tooling", k, FullData("Tooling", k) @@ ("tool_result" :> "r")) EXCEPT
             !.extra = x] : k \in KindNames["Tooling"],
            x \in {"config_version" :> "off", ("ac_id" :> "a") @@ ("parent_ac_id" :> "a")}}

Staged == V2Event("Lifecycle", "Lifecycle", "StageEntered", "stage" :> "s")
MCNotedEvents ==
    {Staged, V2Event("ToolCall", "Tooling", "PlanDrafted", "plan" :> "x"),
     [Staged EXCEPT !.enhancements.append = FALSE],
     [Staged EXCEPT !.enhancements = [NoEnhancements EXCEPT !.latest = 2,
        !.versions = <<SomeSnapshot(2, "time_window" :> "w")>>]]}
MCSnapshots ==
    {SomeSnapshot(v, d) : v \in 0..4, d \in {<<>>, "time_window" :> "w2",
        ("embedding_meta" :> "m") @@ ("concept_vector" :> "off")}}
    \cup {[SomeSnapshot(9, <<>>) EXCEPT !.created = -1]}

-----------------------------------------------------------------------------
vars == <<part, idVars, chainVars, autonomyVars, routingVars, memoryVars, contextVars, indexVars,
          graphVars, eventVars>>

Parts == {"ids", "versions", "session", "scenario", "routing", "memory", "sticky", "context", "sparse", "causal", "asks", "graph",
          "convert", "note"}

\* Only the part that switches scenarios starts from each of them.
Init ==
    /\ part \in Parts
    /\ IdInit /\ ChainInit /\ AutonomyInit /\ RoutingInit /\ MemoryInit /\ ContextInit
    /\ IndexInit /\ GraphInit /\ EventInit
    /\ part # "scenario" => scenario = NoScenario

\* each part's steps, and the variables of the others
Next ==
    /\ UNCHANGED part
    /\ \/ part = "ids" /\ IdNext
          /\ UNCHANGED <<chainVars, autonomyVars, routingVars, memoryVars, contextVars, indexVars, graphVars, eventVars>>
       \/ part = "versions" /\ ChainNext
          /\ UNCHANGED <<idVars, autonomyVars, routingVars, memoryVars, contextVars, indexVars, graphVars, eventVars>>
       \/ part \in {"session", "scenario"}
          /\ \/ part = "session" /\ SessionNext
             \/ part = "scenario" /\ ScenarioNext
          /\ UNCHANGED <<idVars, chainVars, routingVars, memoryVars, contextVars, indexVars, graphVars, eventVars>>
       \/ part = "routing" /\ RoutingNext
          /\ UNCHANGED <<idVars, chainVars, autonomyVars, memoryVars, contextVars, indexVars, graphVars, eventVars>>
       \/ part \in {"memory", "sticky"}
          /\ \/ part = "memory" /\ MemoryNext
             \/ part = "sticky" /\ StickyNext
          /\ UNCHANGED <<idVars, chainVars, autonomyVars, routingVars, contextVars, indexVars, graphVars, eventVars>>
       \/ part = "context" /\ ContextNext
          /\ UNCHANGED <<idVars, chainVars, autonomyVars, routingVars, memoryVars, indexVars, graphVars, eventVars>>
       \/ part \in {"sparse", "causal"}
          /\ \/ part = "sparse" /\ SparseNext
             \/ part = "causal" /\ CausalNext
          /\ UNCHANGED <<idVars, chainVars, autonomyVars, routingVars, memoryVars, contextVars, graphVars, eventVars>>
       \/ part \in {"asks", "graph"}
          /\ \/ part = "asks" /\ AskNext
             \/ part = "graph" /\ StoreNext
          /\ UNCHANGED <<idVars, chainVars, autonomyVars, routingVars, memoryVars, contextVars, indexVars, eventVars>>
       \/ part \in {"convert", "note"}
          /\ \/ part = "convert" /\ ConvertNext
             \/ part = "note" /\ NoteNext
          /\ UNCHANGED <<idVars, chainVars, autonomyVars, routingVars, memoryVars, contextVars, indexVars,
                         graphVars>>

Spec == Init /\ [][Next]_vars

=============================================================================
