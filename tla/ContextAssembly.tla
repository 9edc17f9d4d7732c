--------------------------- MODULE ContextAssembly ---------------------------
(***************************************************************************)
(* soulseed-agi-context: one call of ContextEngine::run at a time, from    *)
(* the candidate items to the bundle and the manifest.  The run drops      *)
(* duplicates and what must stay private, plans how far each item is       *)
(* compressed or evicted, one reduction at a time, compresses item after   *)
(* item behind the quality gate, and delivers the bundle as a new manifest *)
(* or as a delta on the caller's previous one.                             *)
(*                                                                         *)
(* Items are records: id, content (its digest), the declared and the       *)
(* hinted partition and the one its type or features name, its evidence    *)
(* pointer ("none", "bad" or the name of a valid one), tokens, type, what  *)
(* it supersedes, when it was seen, final score and its factors.           *)
(* Abstracted: scores are taken as given, the digests are one, of several  *)
(* pointers the first stands for all, the reasons of an entry are how it   *)
(* came into the bundle, and no item is named as a summary is.             *)
(***************************************************************************)
EXTENDS Naturals, Integers, Sequences, FiniteSetsExt, SequencesExt, Functions, Retain

CONSTANTS
    RunInputs,    \* RunInputs[k]: the calls the caller may make as its k-th run
    MaxTokens,    \* u32::MAX: what a partition without a quota may use
    MaxCompacts   \* bound: compactions of the manifest

ASSUME TokensAssumption == MaxTokens \in Nat

Partitions == {"P0", "P1", "P2", "P3", "P4"}

\* The items of a call: their numbers are whole.  Nothing keeps two of them
\* from having one id.
IsCandidate(item) ==
    /\ {item.declared, item.suggested} \subseteq Partitions
    /\ item.hint \in Partitions \cup {"none"}
    /\ item.tokens \in Nat /\ item.score \in Int
    /\ {item.risky, item.minimal} \subseteq BOOLEAN

\* A quota gives ratios in per cent, each of which may be Absent, and tokens.
Absent == -1
IsQuota(q) == {q.min, q.max} \subseteq Nat \cup {Absent} /\ {q.minTokens, q.maxTokens} \subseteq Nat

IsCall(input) ==
    /\ input.items \in Seq(ToSet(input.items))
    /\ \A i \in DOMAIN input.items : IsCandidate(input.items[i])
    /\ input.target \in Nat
    /\ \A p \in DOMAIN input.quota : IsQuota(input.quota[p])

ASSUME CallAssumption == \A k \in DOMAIN RunInputs : \A input \in RunInputs[k] : IsCall(input)

VARIABLES
    run,        \* the call in progress, or the last one
    gateFlag,   \* QualityGateStrict.flag: the gate has failed its level once
    manifest,   \* what the caller keeps of the last delivered run
    replica,    \* what a reader knows who applies every patch it is sent
    journal,    \* how many records of each kind the ContextStore holds
    runs, compacts

contextVars == <<run, gateFlag, manifest, replica, journal, runs, compacts>>

EvictionOrder == <<"P4", "P3", "P2", "P1", "P0">>

AtLeast(a, b) == IF a >= b THEN a ELSE b
AtMost(a, b)  == IF a <= b THEN a ELSE b

-----------------------------------------------------------------------------
(* The configuration                                                        *)

Ratio(min, max) == [min |-> min, max |-> max, minTokens |-> 0, maxTokens |-> 0]

DefaultQuota ==
    [P0 |-> Ratio(8, 18), P1 |-> Ratio(18, 30), P2 |-> Ratio(15, 25), P3 |-> Ratio(15, 25),
     P4 |-> Ratio(20, 40)]

Insert(quota, p, q) == [x \in DOMAIN quota \cup {p} |-> IF x = p THEN q ELSE quota[x]]

\* a scenario puts its ratios in place of what the caller configured, or beside it
ForScenario(quota, scenario) ==
    CASE scenario = "human"  -> Insert(Insert(quota, "P4", Ratio(24, 45)), "P1", Ratio(20, 32))
      [] scenario = "self"   -> Insert(Insert(quota, "P3", Ratio(22, 35)), "P4", Ratio(12, 22))
      [] scenario = "system" -> Insert(Insert(quota, "P1", Ratio(24, 36)), "P0", Ratio(12, 20))
      [] OTHER -> quota

QuotaOf(input) == ForScenario(input.quota, input.anchor.scenario)

\* a ratio in per cent of the target, rounded to the nearest token
Share(ratio, target) == (2 * AtMost(ratio, 100) * target + 100) \div 200

Resolved(ratio, tokens, target) == IF ratio = Absent THEN tokens ELSE Share(ratio, target)

Limit(input, p) ==
    IF p \notin DOMAIN QuotaOf(input) THEN [max |-> MaxTokens, min |-> 0]
    ELSE LET q == QuotaOf(input)[p]
             high == Resolved(q.max, q.maxTokens, input.target)
             low  == Resolved(q.min, q.minTokens, input.target)
         IN [max |-> AtLeast(high, low), min |-> AtMost(low, high)]

Actions == <<"Keep", "L1", "L2", "L3", "Evict">>
ActionOrder == [Keep |-> 0, L1 |-> 1, L2 |-> 2, L3 |-> 3, Evict |-> 4]

CompressionAllowed ==
    [P0 |-> {"L1"}, P1 |-> {"L1"}, P2 |-> {"L1", "L2", "L3"}, P3 |-> {"L1", "L2"},
     P4 |-> {"L1", "L2"}]

AllowedActions(p) ==
    Retain(Actions, {"Keep"} \cup CompressionAllowed[p]
                    \cup IF p \in {"P2", "P3", "P4"} THEN {"Evict"} ELSE {})

\* the attempts of the compressor: from the planned action down to Keep
DowngradeActions(p, from) ==
    Reverse(Retain(AllowedActions(p), {a \in ToSet(Actions) : ActionOrder[a] <= ActionOrder[from]}))

Percent == [Keep |-> 100, L1 |-> 65, L2 |-> 40, L3 |-> 25, Evict |-> 0]

TokensAfter(tokens, action) == (tokens * Percent[action] + 99) \div 100

\* the compressor's summary never has less than one token
SummaryTokens(item, action) == AtLeast(TokensAfter(item.tokens, action), 1)

-----------------------------------------------------------------------------
(* Validation                                                               *)

ValidAnchor(input) ==
    /\ input.anchor.tenant # 0
    /\ input.anchor.snapshot = input.snapshot
    /\ input.anchor.restricted => input.anchor.provenance

ValidConfig(input) ==
    /\ input.target > 0
    /\ \A p \in DOMAIN QuotaOf(input) :
          LET q == QuotaOf(input)[p]
          IN IF Absent \notin {q.min, q.max} THEN q.min <= q.max /\ q.max <= 100
             ELSE q.minTokens <= q.maxTokens

\* the environment's anchor may name another scenario
SameAnchorButScenario(a, b) == [a EXCEPT !.scenario = "none"] = [b EXCEPT !.scenario = "none"]

ValidRun(input) ==
    /\ ValidAnchor(input)
    /\ ValidConfig(input)
    /\ SameAnchorButScenario(input.anchor, input.environment)
    /\ input.digest
    /\ \A i \in DOMAIN input.items : input.items[i].anchor = input.anchor

-----------------------------------------------------------------------------
(* Scores, duplicates, privacy                                              *)

PartitionOf(item) ==
    IF item.hint # "none" THEN item.hint
    ELSE IF item.declared # "P4" THEN item.declared
    ELSE IF item.pointer # "none" THEN "P2"
    ELSE item.suggested

\* a is strictly less dense than b: the quotients of score and tokens, as products
Sparser(a, b) == AtLeast(a.score, 0) * AtLeast(b.tokens, 1) < AtLeast(b.score, 0) * AtLeast(a.tokens, 1)

Named(items, id) == {n \in DOMAIN items : items[n].id = id}

\* item_records: the last item of an id is what the run knows of it
RecordOf(items, id) == items[Max(Named(items, id))]

\* the key of duplicates is the digest of the record
ContentIn(items, item) == RecordOf(items, item.id).content

\* first come first kept, and a strictly better duplicate takes the slot of
\* the one it replaces
Admitted(items, kept, item) ==
    LET same == {i \in DOMAIN kept : ContentIn(items, kept[i]) = ContentIn(items, item)}
    IN IF same = {} THEN Append(kept, item)
       ELSE [i \in DOMAIN kept |->
               IF i \in same /\ item.score > kept[i].score THEN item ELSE kept[i]]

Deduped(items) ==
    LET upTo[n \in 0..Len(items)] == IF n = 0 THEN <<>> ELSE Admitted(items, upTo[n - 1], items[n])
    IN  upTo[Len(items)]

\* an item counts by the partition it declares, and by its record's evidence,
\* risk and visibility
Private(items, item, restricted) ==
    LET record == RecordOf(items, item.id)
    IN \/ item.declared = "P2" /\ record.pointer = "none"
       \/ record.risky
       \/ record.minimal /\ ~restricted

Shareable(items, restricted) == {item \in ToSet(items) : ~Private(items, item, restricted)}

Kept(input) == Retain(Deduped(input.items), Shareable(input.items, input.anchor.restricted))

\* redaction entries of the two stages: of which id items were dropped, and why
Redactions(input) ==
    LET items  == input.items
        unique == Deduped(items)
        fewer(id) == Cardinality(Named(unique, id)) < Cardinality(Named(items, id))
        hidden == {u \in ToSet(unique) : Private(items, u, input.anchor.restricted)}
    IN [id : {id \in {i.id : i \in ToSet(items)} : fewer(id)}, why : {"dedup"}]
       \cup [id : {u.id : u \in hidden}, why : {"privacy"}]

-----------------------------------------------------------------------------
(* The planner                                                              *)

TokensOf(kept, actions, among) ==
    SumFunctionOnSet([i \in DOMAIN kept |-> TokensAfter(kept[i].tokens, actions[i])], among)

Members(kept, p) == {i \in DOMAIN kept : PartitionOf(kept[i]) = p}

Usage(kept, actions, p) == TokensOf(kept, actions, Members(kept, p))

NextActions(p, action) ==
    LET allowed == AllowedActions(p)
    IN {allowed[i + 1] : i \in {j \in 1..(Len(allowed) - 1) : allowed[j] = action}}

\* a next action that saves tokens and leaves the partition its minimum
CanReduce(input, kept, actions, i) ==
    LET p == PartitionOf(kept[i])
        saved(next) == TokensAfter(kept[i].tokens, actions[i]) - TokensAfter(kept[i].tokens, next)
    IN \E next \in NextActions(p, actions[i]) :
          /\ saved(next) > 0
          /\ Usage(kept, actions, p) - saved(next) >= Limit(input, p).min

OverQuota(input, kept, actions, p) ==
    Members(kept, p) # {} /\ Usage(kept, actions, p) > Limit(input, p).max

\* over quota first, then, over the target, every other one, last first
ReductionOrder(input, kept, actions) ==
    LET excess == {p \in Partitions : OverQuota(input, kept, actions, p)}
        over   == Retain(EvictionOrder, excess)
        rest   == Retain(EvictionOrder, Partitions \ excess)
    IN IF TokensOf(kept, actions, DOMAIN kept) > input.target THEN over \o rest ELSE over

\* the sparsest of them, the first of equals
Sparsest(kept, among, i) ==
    \A j \in among : Sparser(kept[i], kept[j]) \/ (~Sparser(kept[j], kept[i]) /\ i <= j)

\* the items the planner may reduce next: those of the first partition that has any
Reducible(input, kept, actions) ==
    LET order == ReductionOrder(input, kept, actions)
        of(k) == {i \in Members(kept, order[k]) : CanReduce(input, kept, actions, i)}
        able  == {k \in DOMAIN order : of(k) # {}}
    IN IF able = {} THEN {} ELSE of(Min(able))

-----------------------------------------------------------------------------
NoRun == [phase |-> "idle", input |-> {}, kept |-> <<>>, actions |-> <<>>, next |-> 0,
          bundle |-> {}, rolled |-> {}, final |-> 0]

NoManifest == [version |-> 0, generation |-> 0, anchor |-> {}, items |-> <<>>]

ContextInit ==
    /\ run = NoRun
    /\ gateFlag = FALSE
    /\ manifest = NoManifest
    /\ replica = <<>>
    /\ journal = [plans |-> 0, summaries |-> 0, reports |-> 0, redactions |-> 0, events |-> 0]
    /\ runs = 0
    /\ compacts = 0

AtRest == run.phase \in {"idle", "refused", "failed", "delivered"}

\* run(): validation, scores, duplicates, privacy
BeginRun(input) ==
    /\ AtRest
    /\ runs' = runs + 1
    /\ run' = IF ~ValidRun(input)
              THEN [NoRun EXCEPT !.phase = "refused"]
              ELSE LET kept == Kept(input)
                   IN [NoRun EXCEPT !.phase = "planning", !.input = input, !.kept = kept,
                                    !.actions = [i \in DOMAIN kept |-> "Keep"]]
    /\ UNCHANGED <<gateFlag, manifest, replica, journal, compacts>>

\* one turn of the planner's loop: one item goes one action further
Reduce ==
    /\ run.phase = "planning"
    /\ LET able == Reducible(run.input, run.kept, run.actions)
       IN \E i \in able :
             /\ Sparsest(run.kept, able, i)
             /\ \E next \in NextActions(PartitionOf(run.kept[i]), run.actions[i]) :
                   run' = [run EXCEPT !.actions[i] = next]
    /\ UNCHANGED <<gateFlag, manifest, replica, journal, runs, compacts>>

\* nothing left to reduce: the plan is recorded
RecordPlan ==
    /\ run.phase = "planning"
    /\ Reducible(run.input, run.kept, run.actions) = {}
    /\ run' = [run EXCEPT !.phase = "compressing", !.next = 1]
    /\ journal' = [journal EXCEPT !.plans = @ + 1]
    /\ UNCHANGED <<gateFlag, manifest, replica, runs, compacts>>

\* QualityGateStrict::evaluate on the mock compressor's summaries: evidence
\* first, then the level the gate is set to fail, always or only once
GateFails(item, level) ==
    \/ item.pointer = "none"
    \/ level = run.input.failLevel /\ ~(run.input.failOnce /\ gateFlag)

\* an item that is kept shows its record, with the size and the partition of
\* the item that remained of the id
KeptEntry(item, how) ==
    LET record == RecordOf(run.input.items, item.id)
    IN [id |-> <<item.id, "L0">>, of |-> item.id, level |-> "L0", partition |-> PartitionOf(item),
        tokens |-> item.tokens, score |-> record.score, factors |-> record.factors,
        content |-> <<record.content, "L0">>, stamp |-> record.seen, typ |-> <<record.typ, "L0">>,
        supersedes |-> record.supersedes, pointer |-> record.pointer, how |-> how]

\* a summary is made of that item, and of its id and the level alone
SummaryEntry(item, level) ==
    [id |-> <<item.id, level>>, of |-> item.id, level |-> level, partition |-> PartitionOf(item),
     tokens |-> SummaryTokens(item, level), score |-> item.score, factors |-> item.factors,
     content |-> <<item.id, level>>, stamp |-> run.input.now, typ |-> <<"summary", level>>,
     supersedes |-> item.supersedes, pointer |-> item.pointer, how |-> "summary"]

\* the attempts at one item, and the first the gate lets pass; Keep always does
Attempts(item, action) == DowngradeActions(PartitionOf(item), action)
FirstPassing(item, action) ==
    Min({k \in DOMAIN Attempts(item, action) :
            \/ Attempts(item, action)[k] = "Keep"
            \/ ~GateFails(item, Attempts(item, action)[k])})

KeepItem(item) ==
    /\ run' = [run EXCEPT !.next = @ + 1, !.final = @ + item.tokens,
                          !.bundle = @ \cup {KeptEntry(item, "kept")}]
    /\ UNCHANGED <<gateFlag, journal>>

EvictItem ==
    /\ run' = [run EXCEPT !.next = @ + 1]
    /\ UNCHANGED <<gateFlag, journal>>

\* a pointer the validator rejects ends the whole run
RejectPointer(item) ==
    /\ item.pointer = "bad"
    /\ run' = [run EXCEPT !.phase = "failed"]
    /\ UNCHANGED <<gateFlag, journal>>

CompressItem(item, action) ==
    /\ item.pointer # "bad"
    /\ LET attempts == Attempts(item, action)
           pass   == FirstPassing(item, action)
           level  == attempts[pass]
           entry  == IF level = "Keep" THEN KeptEntry(item, "fallback") ELSE SummaryEntry(item, level)
           failed == {attempts[k] : k \in 1..(pass - 1)}
       IN /\ run' = [run EXCEPT !.next = @ + 1, !.final = @ + entry.tokens,
                        !.actions[run.next] = level,
                        !.rolled = @ \cup {<<item.id, l>> : l \in failed},
                        !.bundle = @ \cup {entry}]
          /\ gateFlag' = (gateFlag \/ (item.pointer # "none" /\ run.input.failLevel \in failed))
          /\ journal' = [journal EXCEPT !.summaries = IF level = "Keep" THEN @ ELSE @ + 1]

\* the compression loop, one item
Compress ==
    /\ run.phase = "compressing" /\ run.next <= Len(run.kept)
    /\ LET item == run.kept[run.next]
           action == run.actions[run.next]
       IN \/ action = "Keep" /\ KeepItem(item)
          \/ action = "Evict" /\ EvictItem
          \/ action \in {"L1", "L2", "L3"} /\ (RejectPointer(item) \/ CompressItem(item, action))
    /\ UNCHANGED <<manifest, replica, runs, compacts>>

-----------------------------------------------------------------------------
(* Manifests and patches                                                    *)

ItemMap(bundle) ==
    [k \in {e.id : e \in bundle} |-> CHOOSE e \in bundle : e.id = k]

\* manifest_item_signature: type, factors, evidence and what is superseded are
\* not in it; and one that forgets score, time and size too
SignatureOfContent(e) == <<e.partition, e.content, e.how>>
Signature(e) == <<e.partition, e.score, e.stamp, e.tokens, e.content, e.how>>

\* what the patch of merge_delta lists, and the evidence of every item with it
PatchOf(old, new) ==
    [added    |-> DOMAIN new \ DOMAIN old,
     removed  |-> DOMAIN old \ DOMAIN new,
     updated  |-> {k \in DOMAIN new \cap DOMAIN old : Signature(new[k]) # Signature(old[k])},
     pointers |-> [k \in DOMAIN new |-> new[k].pointer]]

\* a reader drops what was removed, fetches what was added or updated and takes
\* the evidence of the others from the patch
Replayed(known, patch, new) ==
    [k \in (DOMAIN known \ patch.removed) \cup patch.added |->
        IF k \in patch.added \cup patch.updated \/ k \notin DOMAIN known THEN new[k]
        ELSE [known[k] EXCEPT !.pointer = patch.pointers[k]]]

Merges == run.input.previous /\ manifest.version > 0

Evidence(bundle) ==
    Cardinality({e \in bundle : \E i \in DOMAIN run.kept :
                    run.kept[i].id = e.of /\ run.kept[i].pointer # "none"})

\* the bundle, its manifest and patch, and the records of a finished run: the
\* manifest's event, PromptIssued, the report, the redactions with their
\* event, one EvidenceLinked per pointer
Deliver ==
    /\ run.phase = "compressing" /\ run.next > Len(run.kept)
    /\ Merges => manifest.anchor = run.input.anchor
    /\ LET items == ItemMap(run.bundle)
           patch == PatchOf(IF Merges THEN manifest.items ELSE <<>>, items)
       IN /\ manifest' = [version |-> IF Merges THEN manifest.version ELSE 1,
                          generation |-> IF Merges THEN manifest.generation + 1 ELSE 0,
                          anchor |-> run.input.anchor, items |-> items]
          /\ replica' = Replayed(IF Merges THEN replica ELSE <<>>, patch, items)
    /\ journal' = [journal EXCEPT !.reports = @ + 1, !.redactions = @ + 1,
                                !.events = @ + 3 + Evidence(run.bundle)]
    /\ run' = [run EXCEPT !.phase = "delivered"]
    /\ UNCHANGED <<gateFlag, runs, compacts>>

\* merge_delta refuses a manifest of another anchor; the plan and the
\* summaries stay recorded
RefuseDelta ==
    /\ run.phase = "compressing" /\ run.next > Len(run.kept)
    /\ Merges /\ manifest.anchor # run.input.anchor
    /\ run' = [run EXCEPT !.phase = "failed"]
    /\ UNCHANGED <<gateFlag, manifest, replica, journal, runs, compacts>>

\* compact(): items without tokens go, a new version starts at generation 0
Compact ==
    /\ AtRest /\ manifest.version > 0 /\ compacts < MaxCompacts
    /\ LET empty == {k \in DOMAIN manifest.items : manifest.items[k].tokens = 0}
           keep(m) == [k \in DOMAIN m \ empty |-> m[k]]
       IN /\ manifest' = [manifest EXCEPT !.items = keep(@), !.version = @ + 1, !.generation = 0]
          /\ replica' = keep(replica)
    /\ run' = NoRun
    /\ compacts' = compacts + 1
    /\ UNCHANGED <<gateFlag, journal, runs>>

ContextNext ==
    \/ \E input \in (IF runs + 1 \in DOMAIN RunInputs THEN RunInputs[runs + 1] ELSE {}) :
          BeginRun(input)
    \/ Reduce \/ RecordPlan \/ Compress \/ Deliver \/ RefuseDelta \/ Compact

ContextSpec == ContextInit /\ [][ContextNext]_contextVars

-----------------------------------------------------------------------------
(* Properties                                                               *)

TokensIn(items) == [i \in DOMAIN items |-> items[i].tokens]

Planned == run.phase \in {"compressing", "delivered"}

\* Cutting down never takes a partition below its minimum: each is as large
\* as it came or has at least its minimum, however the turns of the loop fell.
MinimumIsKept ==
    run.phase \in {"planning", "compressing"} =>
        \A p \in Partitions :
            LET came == SumFunctionOnSet(TokensIn(run.kept), Members(run.kept, p))
                now  == Usage(run.kept, run.actions, p)
            IN now = came \/ now >= Limit(run.input, p).min

\* Of the items of one id in a delivered run at most one has a fate of its own:
\* in the bundle once, itself or as a summary, evicted by the plan, or redacted
\* as private.  The others, and no id without others, are in the redaction
\* report as duplicates.
EveryItemOnce ==
    run.phase = "delivered" =>
        \A i \in DOMAIN run.input.items :
            LET id == run.input.items[i].id
                entries == {e \in run.bundle : e.of = id}
                evicted == {k \in Named(run.kept, id) : run.actions[k] = "Evict"}
                redacted(why) == {r \in Redactions(run.input) : r.id = id /\ r.why = why}
                fates == Cardinality(entries) + Cardinality(evicted)
                         + Cardinality(redacted("privacy"))
            IN /\ fates <= 1
               /\ redacted("dedup") # {} <=> fates < Cardinality(Named(run.input.items, id))

\* No entry of a bundle shows an id whose record must stay private, whichever
\* partition the scorer moved the item to, and a summary always has evidence
\* behind it that was found valid.
BundleIsShareable ==
    \A e \in run.bundle : \E i \in DOMAIN run.kept :
        LET item == run.kept[i]
            record == RecordOf(run.input.items, e.of)
        IN /\ item.id = e.of
           /\ ~record.risky
           /\ record.minimal => run.input.anchor.restricted
           /\ item.declared = "P2" => record.pointer # "none"
           /\ e.how = "summary" => item.pointer \notin {"none", "bad"}

\* Each item of a planned run, dropped or not, has one of the same content that
\* is no worse and that is in the plan or was redacted as private: duplicates
\* are not dropped for each other in a circle.
DuplicatesHaveAKeeper ==
    Planned =>
        \A i \in DOMAIN run.input.items : \E k \in DOMAIN run.input.items :
            LET item == run.input.items[i]
                keeper == run.input.items[k]
            IN /\ ContentIn(run.input.items, keeper) = ContentIn(run.input.items, item)
               /\ keeper.score >= item.score
               /\ \/ keeper \in ToSet(run.kept)
                  \/ [id |-> keeper.id, why |-> "privacy"] \in Redactions(run.input)

\* The running total of the loop is what the bundle holds, and never more
\* than what came in: the summary of an item is never longer than the item.
TokensAddUp ==
    run.phase = "delivered" =>
        /\ run.final = SumFunction([e \in run.bundle |-> e.tokens])
        /\ run.final <= SumFunction(TokensIn(run.input.items))

\* A reader that follows the patches, across merges and compactions, has the
\* manifest's entries, and their level, place, score, time, size, content,
\* evidence and way in as the manifest has them, though the signature leaves
\* the evidence out.  (Types, score factors and what is superseded are neither
\* in the signature nor in the patch, and may be of an earlier run.)
ReplicaFollows ==
    /\ DOMAIN replica = DOMAIN manifest.items
    /\ \A k \in DOMAIN replica :
          LET known == replica[k]
              item  == manifest.items[k]
          IN /\ known.level = item.level /\ known.partition = item.partition
             /\ known.score = item.score /\ known.stamp = item.stamp
             /\ known.tokens = item.tokens /\ known.content = item.content
             /\ known.how = item.how /\ known.pointer = item.pointer

\* A run that fails leaves its plan without a report, and nothing else does.
ReportsFollowPlans ==
    /\ journal.reports = journal.redactions
    /\ journal.reports <= journal.plans
    /\ AtRest /\ journal.reports = 0 => manifest.version = 0

\* The named parts above, one by one.
ContextIsLawful ==
    /\ MinimumIsKept /\ EveryItemOnce /\ BundleIsShareable /\ DuplicatesHaveAKeeper
    /\ TokensAddUp /\ ReplicaFollows /\ ReportsFollowPlans

=============================================================================
