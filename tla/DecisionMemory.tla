---------------------------- MODULE DecisionMemory ----------------------------
(***************************************************************************)
(* What is remembered of decisions (soulseed-agi-dfr): the fingerprints of *)
(* their contexts and the store of them (fingerprint.rs), and, of one      *)
(* decision, how long it sticks, its confidence and its risks (types.rs).  *)
(* The store has one owner, who calls it through a mutable reference.      *)
(*                                                                         *)
(* Abstractions.  Similarities and confidences are hundredths; the Gauss   *)
(* similarity of numbers is a table of their distance; weights are halves. *)
(* The context hash, which separates no fields, is the sequence that is    *)
(* hashed.  Boolean and vector features, which no context yields, are left *)
(* out.  An id is a random one: nothing is stored twice.                   *)
(***************************************************************************)
EXTENDS Integers, FiniteSets, SequencesExt, Retain

CONSTANTS
    Contexts,      \* [intent : Seq(word), scenario, signals : [names -> scores], tools, length]
    MemorySessions, NoSession,
    Thresholds, Ages,
    Turns,         \* what for_turns is called with
    Factors,       \* sets of [name, contribution]
    MaxPrints, MaxSeconds   \* bounds: fingerprints stored, and the clock

\* The names of signals are prefixed: no feature is named twice.
IsContext(ctx) ==
    /\ ctx.intent \in Seq(ToSet(ctx.intent)) /\ IsFiniteSet(ctx.tools) /\ ctx.length \in Nat
    /\ IsFiniteSet(DOMAIN ctx.signals) /\ \A x \in DOMAIN ctx.signals : ctx.signals[x] \in Int
    /\ DOMAIN ctx.signals \cap {"user_intent", "scenario", "history_length", "active_tools_count"} = {}

ASSUME MemoryAssumption ==
    /\ MaxPrints \in Nat /\ MaxSeconds \in Nat /\ Turns \subseteq Nat /\ Thresholds \subseteq 0..100
    /\ NoSession \notin MemorySessions /\ \A ctx \in Contexts : IsContext(ctx)

VARIABLES
    seconds,
    prints,       \* InMemoryFingerprintStore.fingerprints; ids count up
    bySession,    \* InMemoryFingerprintStore.by_session
    stored,       \* how many have been stored, for the ids
    sticky,       \* StickyDecision: its duration and remaining_turns
    consumed,     \* history: turns consumed since it was set
    rationale     \* DecisionRationale: its factors and overall_confidence

memoryVars == <<seconds, prints, bySession, stored, sticky, consumed, rationale>>

-----------------------------------------------------------------------------
(* Features                                                                 *)

Numeric(n)      == [kind |-> "numeric", number |-> n, words |-> {}]
Categorical(w)  == [kind |-> "categorical", number |-> 0, words |-> {w}]
Text(words)     == [kind |-> "text", number |-> 0, words |-> ToSet(words)]

Gauss(d) == CASE d = 0 -> 100 [] d = 1 -> 61 [] d = 2 -> 14 [] d = 3 -> 1 [] d > 3 -> 0

\* feature_similarity
FeatureSimilarity(f, g) ==
    CASE f.kind # g.kind -> 0
      [] f.kind = "numeric" /\ g.kind = "numeric" ->
            Gauss(IF f.number > g.number THEN f.number - g.number ELSE g.number - f.number)
      [] f.kind = "categorical" /\ g.kind = "categorical" -> IF f = g THEN 100 ELSE 0
      [] f.kind = "text" /\ g.kind = "text" ->
            IF f.words \cup g.words = {} THEN 100
            ELSE (100 * Cardinality(f.words \cap g.words)) \div Cardinality(f.words \cup g.words)

\* compute_fingerprint: a field that is missing gives no feature.
FeaturesOf(ctx) ==
    LET signals == DOMAIN ctx.signals
        names == {"history_length", "active_tools_count"} \cup signals
                   \cup {x \in {"user_intent"} : ctx.intent # <<>>}
                   \cup {x \in {"scenario"} : ctx.scenario # "none"} IN
    [x \in names |-> CASE x = "user_intent"        -> Text(ctx.intent)
                       [] x = "scenario"           -> Categorical(ctx.scenario)
                       [] x = "history_length"     -> Numeric(ctx.length)
                       [] x = "active_tools_count" -> Numeric(Cardinality(ctx.tools))
                       [] x \in signals            -> Numeric(ctx.signals[x])]

Weight(name) == CASE name = "user_intent" -> 4 [] name = "scenario" -> 3 [] OTHER -> 2

\* InputFeatures::similarity
SumOver(f) ==
    LET names == SetToSeq(DOMAIN f)
        sum[n \in 0..Len(names)] == IF n = 0 THEN 0 ELSE sum[n - 1] + f[names[n]]
    IN  sum[Len(names)]
Similarity(F, G) ==
    LET shared == DOMAIN F \cap DOMAIN G IN
    IF shared = {} THEN 0
    ELSE SumOver([x \in shared |-> Weight(x) * FeatureSimilarity(F[x], G[x])])
            \div SumOver([x \in shared |-> Weight(x)])

\* compute_context_hash: names in an order of their own, and no scores
HashOf(ctx) ==
    LET each(S) == [n \in 1..Cardinality(S) |-> <<SetToSeq(S)[n]>>] IN
    SelectSeq(<<ctx.intent>>, LAMBDA x : x # <<>>)
      \o (IF ctx.scenario = "none" THEN <<>> ELSE <<<<ctx.scenario>>>>)
      \o each(DOMAIN ctx.signals) \o each(ctx.tools)

\* DecisionFingerprint::similarity
Likeness ==
    [c \in Contexts |-> [d \in Contexts |->
        IF HashOf(c) = HashOf(d) THEN 100 ELSE Similarity(FeaturesOf(c), FeaturesOf(d))]]
Alike(c, d) == Likeness[c][d]

\* behind all that are at least as near
Placed(near, q, i) ==
    LET ahead == {j \in ToSet(q) : near[j] >= near[i]}
    IN  Retain(q, ahead) \o <<i>> \o Retain(q, ToSet(q) \ ahead)

\* match_fingerprint, by the ids of the fingerprints; the nearest come first
Matches(ctx, threshold) ==
    LET near  == [i \in DOMAIN prints |-> Alike(ctx, prints[i].context)]
        found == Retain([i \in 1..stored |-> i], {i \in DOMAIN prints : near[i] >= threshold})
        upTo[n \in 0..Len(found)] == IF n = 0 THEN <<>> ELSE Placed(near, upTo[n - 1], found[n])
    IN  upTo[Len(found)]

-----------------------------------------------------------------------------
(* The store                                                                *)

MemoryInit ==
    /\ seconds = 0
    /\ prints = [i \in {} |-> 0]
    /\ bySession = [s \in MemorySessions |-> <<>>]
    /\ stored = 0
    /\ sticky = [duration |-> "UntilSuccess", turns |-> 0, remaining |-> 0]
    /\ consumed = 0
    /\ rationale = [factors |-> {}, overall |-> 50]

SecondPasses ==
    /\ seconds < MaxSeconds
    /\ seconds' = seconds + 1
    /\ UNCHANGED <<prints, bySession, stored, sticky, consumed, rationale>>

\* store, of a fingerprint made now
Store(ctx, s) ==
    /\ stored < MaxPrints
    /\ stored' = stored + 1
    /\ prints' = [i \in DOMAIN prints \cup {stored'} |->
                    IF i = stored' THEN [context |-> ctx, session |-> s, at |-> seconds,
                                         outcome |-> "Unknown"] ELSE prints[i]]
    /\ bySession' = IF s = NoSession THEN bySession ELSE [bySession EXCEPT ![s] = Append(@, stored')]
    /\ UNCHANGED <<seconds, sticky, consumed, rationale>>

UpdateOutcome(i, outcome) ==
    /\ i \in DOMAIN prints
    /\ prints' = [prints EXCEPT ![i].outcome = outcome]
    /\ UNCHANGED <<seconds, bySession, stored, sticky, consumed, rationale>>

\* Mutant: the index keeps what has been removed.
CleanupUnindexed(age) ==
    /\ prints' = [i \in {j \in DOMAIN prints : prints[j].at >= seconds - age} |-> prints[i]]
    /\ UNCHANGED <<seconds, bySession, stored, sticky, consumed, rationale>>

Cleanup(age) ==
    /\ prints' = [i \in {j \in DOMAIN prints : prints[j].at >= seconds - age} |-> prints[i]]
    /\ bySession' = [s \in MemorySessions |-> Retain(bySession[s], DOMAIN prints')]
    /\ UNCHANGED <<seconds, stored, sticky, consumed, rationale>>

-----------------------------------------------------------------------------
(* One decision                                                             *)

Stick(duration, n) ==
    /\ sticky' = [duration |-> duration, turns |-> n, remaining |-> n]
    /\ consumed' = 0
    /\ UNCHANGED <<seconds, prints, bySession, stored, rationale>>

ConsumeTurn ==
    /\ consumed < MaxSeconds
    /\ sticky' = IF sticky.duration = "ForNTurns" /\ sticky.remaining > 0
                 THEN [sticky EXCEPT !.remaining = @ - 1] ELSE sticky
    /\ consumed' = consumed + 1
    /\ UNCHANGED <<seconds, prints, bySession, stored, rationale>>

\* is_expired
IsExpired == sticky.duration = "ForNTurns" /\ sticky.remaining = 0

\* with_confidence_factors: without factors the confidence stays as it was.
Explain(factors) ==
    /\ rationale' =
         [factors |-> factors,
          overall |-> IF factors = {} THEN rationale.overall
                      ELSE LET sum == 50 + SumOver([f \in factors |-> f.contribution]) IN
                           IF sum < 0 THEN 0 ELSE IF sum > 100 THEN 100 ELSE sum]
    /\ UNCHANGED <<seconds, prints, bySession, stored, sticky, consumed>>

MemoryNext ==
    \/ SecondPasses
    \/ \E ctx \in Contexts, s \in MemorySessions \cup {NoSession} : Store(ctx, s)
    \/ \E i \in 1..MaxPrints, o \in {"Success", "Failure"} : UpdateOutcome(i, o)
    \/ \E age \in Ages : Cleanup(age)

StickyNext ==
    \/ \E d \in {"UntilSuccess", "ForNTurns"}, n \in Turns : Stick(d, n)
    \/ ConsumeTurn
    \/ \E f \in Factors : Explain(f)

MemorySpec == MemoryInit /\ [][MemoryNext \/ StickyNext]_memoryVars

-----------------------------------------------------------------------------
(* Properties                                                               *)

\* Whatever is stored, marked and cleaned up: a session is given its fingerprints
\* that are left, all, once and in order; a context finds those that are near enough,
\* all and once, the nearest first, an equal context among the nearest, and is found
\* by whom it finds.
FingerprintsAreFound ==
    /\ \A s \in MemorySessions :
          /\ ToSet(bySession[s]) = {i \in DOMAIN prints : prints[i].session = s}
          /\ \A m, n \in DOMAIN bySession[s] : m < n => bySession[s][m] < bySession[s][n]
    /\ \A ctx \in Contexts, t \in Thresholds :
          LET M == Matches(ctx, t)
              near(n) == Alike(ctx, prints[M[n]].context) IN
          /\ ToSet(M) = {i \in DOMAIN prints : Alike(ctx, prints[i].context) >= t} /\ IsInjective(M)
          /\ \A i \in DOMAIN prints : prints[i].context = ctx =>
                \E n \in DOMAIN M : M[n] = i /\ near(n) = near(1)
          /\ \A m, n \in DOMAIN M : m < n => near(m) >= near(n)
          /\ \A n \in DOMAIN M : Alike(prints[M[n]].context, ctx) = near(n)

\* A decision for n turns has expired when n turns are consumed and not before, any
\* other never does.
StickinessEnds == IsExpired <=> sticky.duration = "ForNTurns" /\ consumed >= sticky.turns

=============================================================================
