---------------------------- MODULE DialogueEvents ----------------------------
(***************************************************************************)
(* The dialogue event of core-models in its two forms: the flat legacy     *)
(* record the engine's builders fill (legacy/dialogue_event.rs) and the v2 *)
(* event of base, payload and enhancements the stores keep                 *)
(* (dialogue_event/v2.rs, payload.rs).  An event is converted from one to  *)
(* the other, and enhancement snapshots are recorded on the v2 form.  Both *)
(* forms have a validator of their own, the graph store has a third        *)
(* (graph/src/validate.rs), and none is called by a conversion.            *)
(*                                                                         *)
(* The optional fields a form has are the domain of a function from field  *)
(* names to values; the v2 payload's fields carry the names of the legacy  *)
(* ones they are copied to.  Of a value only this is told: "blank" is a    *)
(* string of spaces, "off" a number outside its bounds or a vector of      *)
(* another length than the embedding's, "empty" a list without elements;   *)
(* every other value is itself.                                            *)
(***************************************************************************)
EXTENDS Naturals, Integers, Sequences

CONSTANTS
    LegacyEvents, V2Events,     \* the events a caller converts
    NotedEvents,                \* the v2 events it records snapshots on
    Snapshots,                  \* the snapshots it records
    MaxConversions, MaxNotes    \* bounds of the runs

VARIABLES
    event,        \* the event as it stands
    before,       \* the event the last conversion read
    settled,      \* the v2 form the conversion before that produced
    conversions,  \* how often it was converted since it was taken or noted on
    notes         \* snapshots recorded since the last conversion

eventVars == <<event, before, settled, conversions, notes>>

Only(f, fields) == [x \in fields \cap DOMAIN f |-> f[x]]
f ++ g          == [x \in DOMAIN f \cup DOMAIN g |-> IF x \in DOMAIN f THEN f[x] ELSE g[x]]
One(field, v)   == [x \in {field} |-> v]
Has(p, field)   == field \in DOMAIN p.data
Is(p, field, value) == Has(p, field) /\ p.data[field] = value

-----------------------------------------------------------------------------
(* Payloads: the kinds of each domain, and what a kind asks of its fields   *)

KindNames ==
    [Message |-> {"Primary", "Edited", "Regenerated", "SummaryPublished", "Recalled", "Pinned",
                  "FeedbackCaptured", "ReactionAdded", "ReactionRemoved", "ThreadStarted",
                  "ThreadReplied", "AttachmentLinked", "AttachmentRemoved", "Translated", "Broadcast"},
     Clarification |-> {"Issued", "ReminderSent", "Escalated", "Answered", "AutoResolved", "Expired",
                        "Deferred", "Delegated", "Merged", "Suppressed", "Aborted", "Acknowledged"},
     Tooling |-> {"PlanDrafted", "PlanValidated", "PlanRejected", "PlanCommitted", "PathDecided",
                  "InvocationScheduled", "InvocationDispatched", "InvocationStarted",
                  "InvocationProgressed", "InvocationCompleted", "InvocationFailed",
                  "InvocationRetried", "ResultRecorded", "ResultAppended", "BarrierReached",
                  "BarrierReleased", "BarrierTimeout", "RouteSwitched"},
     Collaboration |-> {"Proposed", "ScopeNegotiated", "Requested", "Accepted", "Declined",
                        "InProgress", "TurnEnded", "BarrierReached", "Merged", "Resolved", "Aborted",
                        "SummaryPublished", "ParticipantJoined", "ParticipantLeft"},
     Hitl |-> {"InjectionReceived", "InjectionPrioritized", "InjectionAssigned",
               "InjectionAcknowledged", "InjectionApplied", "InjectionDeferred", "InjectionIgnored",
               "AbortRequested", "AbortApproved", "AbortRejected", "FeedbackRecorded",
               "QueueReordered", "ResolutionPublished"},
     SyncPoint |-> {"Merged", "ReportPublished", "BarrierRaised", "BarrierCleared",
                    "ClarifyWindowOpened", "ClarifyWindowClosed", "ToolWindowOpened",
                    "ToolWindowClosed", "HitlWindowOpened", "HitlWindowClosed", "DriftDetected",
                    "LateSignalObserved", "BudgetExceeded", "BudgetRecovered", "DegradationRecorded"},
     Awareness |-> {"AcStarted", "IcStarted", "IcEnded", "AssessmentProduced", "DecisionRouted",
                    "RouteReconsidered", "RouteSwitched", "DeltaPatchGenerated", "ContextBuilt",
                    "DeltaMerged", "Finalized", "Rejected", "SyncPointReported",
                    "LateReceiptObserved"},
     Lifecycle |-> {"StageEntered", "StageExited", "CheckpointCreated", "CheckpointRestored",
                    "Superseded", "SupersessionChainUpdated", "ParentLinked", "ParentUnlinked",
                    "VersionPinned", "VersionReleased"},
     System |-> {"NotificationDispatched", "PolicyApplied", "PolicyViolated", "RateLimited",
                 "DegradationDetected", "DegradationRecovered", "AuditLogged", "MaintenanceScheduled"},
     Environment |-> {"SnapshotRecorded", "SnapshotDiffed", "SignalIngested", "SignalDropped",
                      "ContextExpanded", "ContextPruned", "MetricAnomaly", "ChannelUpdated"},
     SelfReflection |-> {"Logged", "HypothesisFormed", "ActionCommitted", "ScoreAdjusted", "Archived"},
     GroupEvolution |-> {"Created", "MemberJoined", "MemberLeft", "PermissionChanged", "Disbanded",
                         "Renamed"},
     AiEvolution |-> {"PersonalityAdjusted", "SelfReflectionReportGenerated", "SkillUpdated",
                      "PreferenceUpdated", "GrowthMilestoneReached"},
     RelationshipEvolution |-> {"Established", "Changed", "Strengthened", "Weakened", "Terminated",
                                "AiAdjusted"}]

\* the event types a payload of the domain may stand under
TypesOf(domain) ==
    CASE domain = "Message" -> {"Message"}
      [] domain \in {"Clarification", "Collaboration"} -> {"Decision", "Lifecycle"}
      [] domain = "Tooling" -> {"ToolCall", "ToolResult"}
      [] domain \in {"Hitl", "SyncPoint", "GroupEvolution", "RelationshipEvolution"} ->
            {"Lifecycle", "System"}
      [] domain = "Awareness" -> {"Decision", "Lifecycle", "System"}
      [] domain = "Lifecycle" -> {"Lifecycle"}
      [] domain \in {"System", "Environment"} -> {"System"}
      [] domain = "SelfReflection" -> {"SelfReflection"}
      [] domain = "AiEvolution" -> {"SelfReflection", "Lifecycle"}

EventTypes ==
    {"Message", "ToolCall", "ToolResult", "SelfReflection", "Decision", "Lifecycle", "System"}

\* the field every payload of the domain is built with
MainField(domain) ==
    CASE domain = "Message" -> "message_ref"
      [] domain = "Clarification" -> "clarification_id"
      [] domain = "Collaboration" -> "scope_id"
      [] domain = "Hitl" -> "injection_id"
      [] domain = "Awareness" -> "event_type"
      [] domain = "System" -> "category"
      [] domain = "Environment" -> "snapshot_id"
      [] domain = "SelfReflection" -> "self_reflection"
      [] domain = "GroupEvolution" -> "group_id"
      [] domain = "AiEvolution" -> "evolution_type"
      [] domain = "RelationshipEvolution" -> "relationship_id"
      [] OTHER -> "attributes"

PlanKinds    == {"PlanDrafted", "PlanValidated", "PlanRejected", "PlanCommitted", "PathDecided"}
CallKinds    == {"InvocationScheduled", "InvocationDispatched", "InvocationStarted",
                 "InvocationProgressed", "InvocationRetried"}
ResultKinds  == {"InvocationCompleted", "InvocationFailed", "ResultRecorded", "ResultAppended"}
BarrierKinds == {"BarrierReached", "BarrierReleased", "BarrierTimeout"}

RequiredOfMessage(kind) ==
    CASE kind \in {"SummaryPublished", "AttachmentLinked", "AttachmentRemoved", "Translated",
                   "Broadcast"} -> {"content_ref"}
      [] kind = "ThreadReplied" -> {"reply_to"}
      [] kind \in {"FeedbackCaptured", "ReactionAdded", "ReactionRemoved"} -> {"attributes"}
      [] OTHER -> {}

RequiredOfClarification(kind) ==
    CASE kind \in {"Issued", "ReminderSent", "Escalated"} -> {"question_ref"}
      [] kind \in {"Answered", "AutoResolved", "Acknowledged"} -> {"answer_ref"}
      [] kind = "Delegated" -> {"assigned_to"}
      [] OTHER -> {}

RequiredOfTool(kind) ==
    (IF kind \in PlanKinds THEN {"plan"} ELSE {})
    \cup (IF kind \in CallKinds THEN {"tool_invocation"} ELSE {})
    \cup (IF kind = "InvocationRetried" THEN {"attempt"} ELSE {})
    \cup (IF kind \in ResultKinds THEN {"tool_result"} ELSE {})
    \cup (IF kind \in BarrierKinds THEN {"barrier_id"} ELSE {})
    \cup (IF kind = "RouteSwitched" THEN {"route_id"} ELSE {})

RequiredOfCollab(kind) ==
    CASE kind \in {"ParticipantJoined", "ParticipantLeft", "Proposed", "Requested"} -> {"participants"}
      [] kind = "BarrierReached" -> {"barrier_id"}
      [] kind = "SummaryPublished" -> {"summary_ref"}
      [] kind = "ScopeNegotiated" -> {"attributes"}
      [] OTHER -> {}

RequiredOfHitl(kind) ==
    CASE kind \in {"InjectionAssigned", "InjectionAcknowledged", "AbortRequested", "AbortApproved",
                   "AbortRejected"} -> {"actor"}
      [] kind \in {"InjectionApplied", "ResolutionPublished"} -> {"resolution_ref"}
      [] kind = "QueueReordered" -> {"queue_position"}
      [] OTHER -> {}

RequiredOfSync(kind) ==
    CASE kind = "ReportPublished" -> {"report"}
      [] kind \in {"BudgetExceeded", "DegradationRecorded"} -> {"degradation_reason"}
      [] OTHER -> {}

RequiredOfLifecycle(kind) ==
    CASE kind \in {"StageEntered", "StageExited", "VersionPinned", "VersionReleased"} -> {"stage"}
      [] kind = "Superseded" -> {"supersedes"}
      [] kind = "SupersessionChainUpdated" -> {"chain_length"}
      [] kind \in {"ParentLinked", "ParentUnlinked"} -> {"parent_event_id"}
      [] OTHER -> {}

RequiredOfEvolution(domain, kind) ==
    CASE domain = "GroupEvolution" /\ kind = "Created" -> {"creator"}
      [] domain = "GroupEvolution" /\ kind \in {"MemberJoined", "MemberLeft"} -> {"members"}
      [] domain = "GroupEvolution" /\ kind = "PermissionChanged" -> {"permission_change"}
      [] domain = "AiEvolution" /\ kind \in {"PersonalityAdjusted", "PreferenceUpdated"} -> {"dimension"}
      [] domain = "AiEvolution" /\ kind = "SelfReflectionReportGenerated" -> {"reflection_summary"}
      [] domain = "RelationshipEvolution" /\ kind = "Established" -> {"subject_a", "subject_b"}
      [] domain = "RelationshipEvolution" /\ kind \in {"Strengthened", "Weakened", "Changed"} ->
            {"before_value", "after_value"}
      [] OTHER -> {}

Required(domain, kind) ==
    CASE domain = "Message" -> RequiredOfMessage(kind)
      [] domain = "Clarification" -> RequiredOfClarification(kind)
      [] domain = "Tooling" -> RequiredOfTool(kind)
      [] domain = "Collaboration" -> RequiredOfCollab(kind)
      [] domain = "Hitl" -> RequiredOfHitl(kind)
      [] domain = "SyncPoint" -> RequiredOfSync(kind)
      [] domain = "Awareness" ->
            (IF kind = "DeltaPatchGenerated" THEN {"delta_patch"} ELSE {})
            \cup (IF kind = "SyncPointReported" THEN {"sync_point_report"} ELSE {})
      [] domain = "Lifecycle" -> RequiredOfLifecycle(kind)
      [] domain = "Environment" ->
            (IF kind = "SnapshotDiffed" THEN {"diff_digest"} ELSE {})
            \cup (IF kind = "MetricAnomaly" THEN {"metrics_digest"} ELSE {})
      [] domain = "SelfReflection" ->
            (IF kind \in {"ActionCommitted", "Archived"} THEN {"related_event_id"} ELSE {})
      [] domain = "System" -> {}
      [] OTHER -> RequiredOfEvolution(domain, kind)

\* the strings that may not be blank when they are there
NotBlank(domain, kind) ==
    CASE domain = "Message" -> {"channel", "language", "sentiment"}
      [] domain = "Clarification" ->
            {"clarification_id"} \cup (IF kind = "Merged" THEN {"merged_into"} ELSE {})
                                 \cup (IF kind = "Suppressed" THEN {"parent_id"} ELSE {})
      [] domain = "Tooling" -> {"route_id", "barrier_id"}
      [] domain = "SyncPoint" ->
            IF kind \in {"ReportPublished", "DriftDetected", "LateSignalObserved", "BudgetExceeded",
                         "BudgetRecovered", "DegradationRecorded"} THEN {} ELSE {"sync_point_id"}
      [] domain = "Lifecycle" ->
            (IF kind \in {"StageEntered", "StageExited", "VersionPinned", "VersionReleased"}
             THEN {"stage"} ELSE {})
            \cup (IF kind \in {"CheckpointCreated", "CheckpointRestored"} THEN {"checkpoint_id"} ELSE {})
      [] domain = "Environment" -> {"snapshot_id", "diff_digest", "metrics_digest"}
      [] domain = "SelfReflection" -> {"digest"}
      [] domain = "Awareness" -> {}
      [] OTHER -> {MainField(domain)}

\* the numbers that must lie within their bounds when they are there
InBounds(domain, kind) ==
    CASE domain = "Clarification" -> {"ttl_ms"}
      [] domain = "Awareness" -> {"reasoning_confidence"}
      [] domain = "Lifecycle" /\ kind = "SupersessionChainUpdated" -> {"chain_length"}
      [] domain = "Environment" /\ kind = "MetricAnomaly" -> {"anomaly_score"}
      [] domain = "AiEvolution" -> {"magnitude"}
      [] OTHER -> {}

PayloadValid(p) ==
    /\ Required(p.domain, p.kind) \subseteq DOMAIN p.data
    /\ \A f \in NotBlank(p.domain, p.kind) : ~Is(p, f, "blank")
    /\ \A f \in InBounds(p.domain, p.kind) : ~Is(p, f, "off")
    /\ p.domain = "Awareness" => p.data["event_type"] = p.kind

-----------------------------------------------------------------------------
(* The validators                                                           *)

BaseValid(b) ==
    /\ b.sequence >= 1
    /\ b.timestamp >= 0
    /\ b.access = "restricted" => b.provenance

\* what the v2 base adds
ExtraValid(extra) ==
    /\ "config_version" \in DOMAIN extra => extra["config_version"] \notin {"blank", "off"}
    /\ {"ac_id", "parent_ac_id"} \subseteq DOMAIN extra => extra["ac_id"] # extra["parent_ac_id"]

LegacyVectors == {"content_embedding", "context_embedding", "decision_embedding"}
Vectors       == LegacyVectors \cup {"concept_vector"}

VectorsFit(data, vectors) ==
    "embedding_meta" \in DOMAIN data => \A v \in vectors \cap DOMAIN data : data[v] # "off"

SnapshotValid(s) == s.created >= 0 /\ VectorsFit(s.data, Vectors)

NoEnhancements == [append |-> TRUE, latest |-> 0, versions |-> <<>>]

Rising(versions) ==
    \A i, j \in 1..Len(versions) : i < j => versions[i].version < versions[j].version

EnhancementsValid(e) ==
    /\ e.append
    /\ \A i \in 1..Len(e.versions) : e.versions[i].version >= 1 /\ SnapshotValid(e.versions[i])
    /\ Rising(e.versions)
    /\ e.latest = IF e.versions = <<>> THEN 0 ELSE e.versions[Len(e.versions)].version

V2Valid(e) ==
    /\ BaseValid(e.base) /\ ExtraValid(e.extra)
    /\ e.base.type \in TypesOf(e.payload.domain)
    /\ PayloadValid(e.payload)
    /\ EnhancementsValid(e.enhancements)

\* what a legacy event of the type must carry
ContentOf(type) ==
    CASE type = "Message" -> {"message_ref"}
      [] type = "ToolCall" -> {"tool_invocation"}
      [] type = "ToolResult" -> {"tool_result"}
      [] type = "SelfReflection" -> {"self_reflection"}
      [] OTHER -> {}

LegacyValid(e) ==
    /\ BaseValid(e.base)
    /\ ContentOf(e.base.type) \subseteq DOMAIN e.data
    /\ VectorsFit(e.data, LegacyVectors)

\* the graph store's own check of an event
GraphAccepts(e) ==
    LET versions == e.enhancements.versions IN
    /\ BaseValid(e.base)
    /\ versions # <<>> => VectorsFit(versions[Len(versions)].data, Vectors)
    /\ e.enhancements.append
    /\ e.enhancements.latest = 0 => versions = <<>>
    /\ \A i \in 1..(Len(versions) - 1) : versions[i].version < versions[i + 1].version

-----------------------------------------------------------------------------
(* From legacy to v2                                                        *)

\* the fields of LegacyEnhancementRecord
RecordFields ==
    Vectors \cup {"embedding_meta", "time_window", "temporal_pattern_id", "causal_links",
                  "semantic_cluster_id", "cluster_method", "concept_distance_to_goal",
                  "real_time_priority", "notification_targets", "live_stream_id", "growth_stage",
                  "processing_latency_ms", "influence_score", "community_impact"}

\* an empty list of targets counts as none
EnhancementRecord(data) ==
    Only(data, {f \in RecordFields : f \in DOMAIN data /\ data[f] # "empty"})

Migrated(data, timestamp) ==
    LET snapshot == [version |-> 1, created |-> timestamp, data |-> EnhancementRecord(data)] IN
    IF DOMAIN EnhancementRecord(data) = {} THEN NoEnhancements
    ELSE [append |-> TRUE, latest |-> 1, versions |-> <<snapshot>>]

\* the content reference of a message
ContentFields == {"digest", "evidence", "blob_ref"}
ContentRef(data) ==
    Only(data, ContentFields)
    ++ IF (ContentFields \cup {"message_ref"}) \cap DOMAIN data = {} THEN <<>>
       ELSE One("content_ref", IF "message_ref" \in DOMAIN data THEN data["message_ref"] ELSE "none")

OrPlaceholder(data, field) ==
    One(field, IF field \in DOMAIN data THEN data[field] ELSE "placeholder")

LegacyPayload(e) ==
    LET type == e.base.type IN
    CASE type = "Message" ->
            [domain |-> "Message", kind |-> "Primary",
             data |-> OrPlaceholder(e.data, "message_ref") ++ ContentRef(e.data)]
      [] type \in {"ToolCall", "ToolResult"} ->
            [domain |-> "Tooling",
             kind |-> IF type = "ToolCall" THEN "InvocationDispatched" ELSE "ResultRecorded",
             data |-> OrPlaceholder(e.data, IF type = "ToolCall" THEN "tool_invocation"
                                            ELSE "tool_result") ++ Only(e.data, ContentFields)]
      [] type = "SelfReflection" ->
            [domain |-> "SelfReflection", kind |-> "Logged",
             data |-> OrPlaceholder(e.data, "self_reflection") ++ Only(e.data, {"digest"})
                      ++ IF e.base.trigger = "none" THEN <<>> ELSE One("related_event_id", e.base.trigger)]
      [] type = "Decision" ->
            [domain |-> "Awareness", kind |-> "DecisionRouted",
             data |-> One("event_type", "DecisionRouted")
                      ++ Only(e.data, {"reasoning_trace", "reasoning_confidence", "reasoning_strategy"})]
      [] type = "Lifecycle" ->
            [domain |-> "Lifecycle", kind |-> "StageEntered",
             data |-> IF "time_window" \in DOMAIN e.data THEN One("stage", e.data["time_window"]) ELSE <<>>]
      [] OTHER ->
            [domain |-> "System", kind |-> "NotificationDispatched",
             data |-> One("category", "legacy_system")]

FromLegacy(e) ==
    [form |-> "v2", base |-> e.base,
     extra |-> IF "time_window" \in DOMAIN e.data THEN One("stage_hint", e.data["time_window"]) ELSE <<>>,
     payload |-> LegacyPayload(e),
     enhancements |-> Migrated(e.data, e.base.timestamp),
     metadata |-> e.metadata]

-----------------------------------------------------------------------------
(* From v2 to legacy                                                        *)

\* Mutant: the places a message's content has are forgotten.
CarriedFieldsShort(domain) ==
    CASE domain = "Message" -> {"message_ref"}
      [] domain = "Tooling" -> {"tool_invocation", "tool_result"} \cup ContentFields
      [] domain = "SelfReflection" -> {"self_reflection", "digest"}
      [] domain = "Awareness" -> {"reasoning_trace", "reasoning_confidence", "reasoning_strategy"}
      [] OTHER -> {}

\* the payload fields the legacy record has a place for
CarriedFields(domain) ==
    CASE domain = "Message" -> {"message_ref"} \cup ContentFields
      [] domain = "Tooling" -> {"tool_invocation", "tool_result"} \cup ContentFields
      [] domain = "SelfReflection" -> {"self_reflection", "digest"}
      [] domain = "Awareness" -> {"reasoning_trace", "reasoning_confidence", "reasoning_strategy"}
      [] OTHER -> {}

\* of the snapshots only the last one is kept
Downgraded(e) ==
    IF e.versions = <<>> THEN <<>> ELSE e.versions[Len(e.versions)].data

\* metadata that is no object is wrapped in one, and the whole payload goes into it
ToLegacy(e) ==
    [form |-> "legacy", base |-> e.base,
     data |-> Only(e.payload.data, CarriedFields(e.payload.domain)) ++ Downgraded(e.enhancements),
     metadata |-> [kind |-> e.payload.kind,
                   wrapped |-> e.metadata.wrapped \/ e.metadata.shape = "other",
                   shape |-> "object"]]

-----------------------------------------------------------------------------
(* What the payload's accessors tell (message_ref, tool_invocation,         *)
(* tool_result, self_reflection, content_digest_sha256, blob_ref and        *)
(* evidence_pointer, each with a list of variants of its own)               *)

Accessed(p) ==
    CASE p.domain = "Message" -> Only(p.data, {"message_ref"} \cup ContentFields)
      [] p.domain = "Tooling" ->
            Only(p.data, {"tool_invocation"} \cup ContentFields
                         \cup (IF p.kind \in ResultKinds \cup BarrierKinds \cup {"RouteSwitched"}
                               THEN {"tool_result"} ELSE {}))
      [] p.domain = "SelfReflection" -> Only(p.data, {"self_reflection", "digest"})
      [] OTHER -> <<>>

-----------------------------------------------------------------------------
(* What is given: fields are a function, and only a list may be "empty"; the *)
(* snapshots of a record have a record's fields; an event that snapshots are *)
(* recorded on has, but for append_only, what record_snapshot asks for.      *)

ScalarFields == Vectors \cup {"embedding_meta", "time_window"}

IsBase(b) == b.type \in EventTypes /\ b.sequence \in Int /\ b.timestamp \in Int

HasScalars(data) == \A f \in ScalarFields \cap DOMAIN data : data[f] # "empty"
IsRecord(data)   == DOMAIN data \subseteq RecordFields /\ HasScalars(data)

IsSnapshot(s) == s = [version |-> s.version, created |-> s.created, data |-> s.data]
                 /\ s.version \in Nat /\ s.created \in Int /\ IsRecord(s.data)

IsLegacy(e) == e.form = "legacy" /\ IsBase(e.base) /\ HasScalars(e.data)

IsV2(e) ==
    /\ e = [form |-> "v2", base |-> e.base, extra |-> e.extra, payload |-> e.payload,
            enhancements |-> e.enhancements, metadata |-> e.metadata]
    /\ IsBase(e.base)
    /\ LET n == e.enhancements IN
          /\ n = [append |-> n.append, latest |-> n.latest, versions |-> n.versions]
          /\ n.versions \in Seq({n.versions[i] : i \in DOMAIN n.versions})
          /\ \A i \in DOMAIN n.versions : IsSnapshot(n.versions[i])

Sound(e) == e.base.timestamp >= 0 /\ EnhancementsValid([e.enhancements EXCEPT !.append = TRUE])

ASSUME EventAssumption ==
    /\ \A e \in LegacyEvents : IsLegacy(e)
    /\ \A e \in V2Events \cup NotedEvents : IsV2(e)
    /\ \A e \in NotedEvents : Sound(e)
    /\ \A s \in Snapshots : IsSnapshot(s)

-----------------------------------------------------------------------------
NoEvent == [form |-> "none"]

EventInit == event = NoEvent /\ before = NoEvent /\ settled = NoEvent /\ conversions = 0 /\ notes = 0

Take(inputs) ==
    /\ event = NoEvent
    /\ \E e \in inputs : event' = e
    /\ UNCHANGED <<before, settled, conversions, notes>>

Convert ==
    /\ event # NoEvent /\ conversions < MaxConversions
    /\ event' = IF event.form = "legacy" THEN FromLegacy(event) ELSE ToLegacy(event)
    /\ before' = event
    /\ settled' = IF before.form = "v2" THEN before ELSE settled
    /\ conversions' = conversions + 1
    /\ UNCHANGED notes

\* record_snapshot: refused snapshots leave the event as it was
WithSnapshot(e, s) ==
    LET versions == e.versions IN
    IF \/ s.version = 0
       \/ versions # <<>> /\ s.version <= versions[Len(versions)].version
       \/ ~e.append
       \/ ~SnapshotValid(s)
    THEN e
    ELSE [e EXCEPT !.latest = s.version, !.versions = Append(versions, s)]

Note ==
    /\ event.form = "v2" /\ notes < MaxNotes
    /\ \E s \in Snapshots : event' = [event EXCEPT !.enhancements = WithSnapshot(event.enhancements, s)]
    /\ notes' = notes + 1
    /\ before' = NoEvent /\ settled' = NoEvent /\ conversions' = 0

ConvertNext == Take(LegacyEvents \cup V2Events) \/ Convert
NoteNext    == Take(NotedEvents) \/ Note \/ Convert

ConvertSpec == EventInit /\ [][ConvertNext]_eventVars
NoteSpec    == EventInit /\ [][NoteNext]_eventVars

-----------------------------------------------------------------------------
\* A legacy event whose validator accepts it becomes a v2 event the v2
\* validator accepts, unless the legacy form allows what v2 refuses: a
\* lifecycle event without a stage, a blank digest of a reflection, a
\* decision's confidence out of bounds, a concept vector of another length.
\* Nothing else is lost or invented on the way (v2.rs:670-907).
RefusedLater(e) ==
    \/ e.base.type = "Lifecycle"
       /\ ("time_window" \in DOMAIN e.data => e.data["time_window"] = "blank")
    \/ e.base.type = "SelfReflection" /\ Is(e, "digest", "blank")
    \/ e.base.type = "Decision" /\ Is(e, "reasoning_confidence", "off")
    \/ ~VectorsFit(e.data, Vectors)

UpgradesStayValid ==
    event.form = "v2" /\ before.form = "legacy" =>
        (LegacyValid(before) => (V2Valid(event) <=> ~RefusedLater(before)))

\* A valid v2 event becomes a legacy event that is valid exactly if its payload
\* carried what the legacy form asks of the type (v2.rs:909-1118): a tool call
\* that is a plan, or a reflection that is an AI evolution, does not.
DowngradesStayValid ==
    event.form = "legacy" /\ before.form = "v2" =>
        (V2Valid(before) => (LegacyValid(event) <=> ContentOf(event.base.type) \subseteq
                                DOMAIN Only(before.payload.data, CarriedFields(before.payload.domain))))

\* One passage through the legacy form loses what it has no place for, and only
\* once: the second passage returns the v2 event the first one produced, but for
\* the payload's copy in the metadata.  (A legacy message without its reference
\* gets a placeholder, which the next passage takes for a reference.)
PassagesSettle ==
    event.form = "v2" /\ settled.form = "v2" /\ conversions > 2 =>
        \/ [event EXCEPT !.metadata = settled.metadata] = settled
        \/ conversions < 5 /\ Is(event.payload, "message_ref", "placeholder")

\* What the accessors tell of a payload is what its legacy form carries; of a
\* kind that must have a result or an invocation they tell it.  (A result kept in
\* a plan, schedule or retry is carried and not told.)
AccessorsTell ==
    event.form = "v2" =>
        LET told    == Accessed(event.payload)
            carried == Only(event.payload.data, CarriedFields(event.payload.domain)) IN
        /\ \A f \in DOMAIN told : f \in DOMAIN carried /\ told[f] = carried[f]
        /\ event.payload.domain # "Awareness" => DOMAIN carried \ DOMAIN told \subseteq {"tool_result"}
        /\ PayloadValid(event.payload) =>
              Required(event.payload.domain, event.payload.kind)
                 \cap {"tool_invocation", "tool_result"} \subseteq DOMAIN told

\* However snapshots are recorded and converted, an append-only event that was
\* sound stays sound, and the graph store accepts whatever the v2 validator does.
EnhancementsStaySound ==
    event.form = "v2" =>
        /\ notes > 0 /\ event.enhancements.append => EnhancementsValid(event.enhancements)
        /\ V2Valid(event) => GraphAccepts(event)

EventsConvert == UpgradesStayValid /\ DowngradesStayValid /\ PassagesSettle
                 /\ AccessorsTell /\ EnhancementsStaySound

=============================================================================
