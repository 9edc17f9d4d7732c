------------------------------ MODULE CycleEvents ------------------------------
(***************************************************************************)
(* The awareness events one drive of a cycle emits, in order, each with    *)
(* the id it is given: the decision events of the scheduler, those of the  *)
(* merge (context agent and aggregator) and the end of the cycle.  Some    *)
(* ids are counted from the cycle's own, some come from EventId::generate  *)
(* and are new, and the end has the id of the dialogue event it tells of,  *)
(* which comes with the sync point and may come again with another drive.  *)
(*                                                                         *)
(* Abstractions.  Payloads, anchors and times are left out: an event is    *)
(* its id, its type, its cycle and the drive whose merge it tells of (0    *)
(* when it tells of the schedule).  No id of the program's own making is   *)
(* that of an event a client made.                                         *)
(***************************************************************************)
EXTENDS AceTypes, Retain, SequencesExt

CONSTANT ClientEvents   \* the dialogue events of clients, each with its id

\* Where the last event of a drive's sync point comes from: it was built with the
\* schedule, once (post_injection sends the cached sync point again, and the event
\* in it), a client sent it, or there is none.
LastEvents == {"built", "none"} \cup ClientEvents

\* What a drive may differ in: whether the cycle's fork is another than the one
\* before, the kind of sync point and its last event, whether it was absorbed
\* before, the actions decided for its injections and the awareness the gateway
\* reports.
Shapes == [switched : BOOLEAN, kind : SyncPointKinds, last : LastEvents, late : BOOLEAN,
           injected : Seq({"Applied", "Deferred", "Ignored"}),
           gateway : Seq({"tool_called", "tool_dispatched", "tool_responded", "tool_failed",
                          "tool_barrier_released", "tool_barrier_reached",
                          "tool_barrier_timeout", "collab_requested", "collab_resolved",
                          "unknown"})]

Counted(c, k)      == [cycle |-> c, offset |-> k]
Generated(c, d, n) == [cycle |-> c, drive |-> d, nth |-> n]
Late == 0
Final == -1
Ended == -2
Event(id, type, c, d) == [id |-> id, type |-> type, cycle |-> c, drive |-> d]

\* ids in a row, from the one given
Numbered(c, from, types, d) ==
    [n \in DOMAIN types |-> Event(Counted(c, from + n - 1), types[n], c, d)]

\* build_decision_events
DecisionEvents(c, switched) ==
    Numbered(c, 0, <<"AwarenessCycleStarted", "InferenceCycleStarted",
                     "AssessmentProduced", "DecisionRouted">>
                   \o (IF switched THEN <<"RouteReconsidered", "RouteSwitched">> ELSE <<>>), 0)

\* map_syncpoint_event
SyncPointEvent(kind) ==
    CASE kind = "IcEnd"                                  -> "InferenceCycleCompleted"
      [] kind \in {"ToolBarrier", "ToolBarrierReached"}  -> "ToolBarrierReached"
      [] kind = "ToolBarrierReleased"                    -> "ToolBarrierReleased"
      [] kind = "ToolBarrierTimeout"                     -> "ToolBarrierTimeout"
      [] kind = "ToolChainNext"                          -> "RouteSwitched"
      [] kind = "CollabTurnEnd"                          -> "CollabResolved"
      [] kind = "ClarifyAnswered"                        -> "ClarificationAnswered"
      [] kind = "HitlAbsorb"                             -> "HumanInjectionReceived"
      [] kind = "Merged"                                 -> "SyncPointMerged"
      [] OTHER                                           -> "SyncPointReported"

\* build_awareness_events of the context agent
MergeEvents(c, d, kind) ==
    Numbered(c, 1, <<SyncPointEvent(kind), "EnvironmentSnapshotRecorded",
                     "ContextBuilt", "DeltaMerged">>, d)

\* parse_gateway_event_type
GatewayEvent(tag) ==
    CASE tag = "tool_called"           -> "ToolCalled"
      [] tag = "tool_dispatched"       -> "ToolPathDecided"
      [] tag = "tool_responded"        -> "ToolResponded"
      [] tag = "tool_failed"           -> "ToolFailed"
      [] tag = "tool_barrier_released" -> "ToolBarrierReleased"
      [] tag = "tool_barrier_reached"  -> "ToolBarrierReached"
      [] tag = "tool_barrier_timeout"  -> "ToolBarrierTimeout"
      [] tag = "collab_requested"      -> "CollabRequested"
      [] tag = "collab_resolved"       -> "CollabResolved"

\* collect_gateway_awareness: tags it does not know are skipped.
GatewayEvents(tags) ==
    LET known == Retain(tags, ToSet(tags) \ {"unknown"}) IN
    [n \in DOMAIN known |-> GatewayEvent(known[n])]

InjectionEvents(actions) == [n \in DOMAIN actions |-> "HumanInjection" \o actions[n]]

\* What aggregate adds to the events of the merge, with ids of their own.
ReportEvents(c, d, shape) ==
    LET types == GatewayEvents(shape.gateway) \o InjectionEvents(shape.injected)
                   \o <<"SyncPointMerged", "DeltaPatchGenerated", "SyncPointReported">> IN
    [n \in DOMAIN types |-> Event(Generated(c, d, n), types[n], c, d)]

LateEvents(c, d, late) ==
    IF late THEN <<Event(Generated(c, d, Late), "LateReceiptObserved", c, d)>> ELSE <<>>

\* produce_final_event: the last event of the sync point, or one made for want of it.
FinalId(c, d, last) ==
    CASE last = "built"         -> [built |-> c]
      [] last \in ClientEvents  -> [client |-> last]
      [] OTHER                  -> Generated(c, d, Final)

FinalEvent(c, d, last) == Event(FinalId(c, d, last), "Finalized", c, d)

\* awareness_events of the emission drive_once hands to finalize_cycle
Emission(c, d, shape) ==
    DecisionEvents(c, shape.switched)
      \o LateEvents(c, d, shape.late) \o MergeEvents(c, d, shape.kind)
      \o ReportEvents(c, d, shape) \o <<FinalEvent(c, d, shape.last)>>

\* Emitter::emit adds the end of the cycle, twice.
Batch(c, d, shape) ==
    Emission(c, d, shape)
      \o <<FinalEvent(c, d, shape.last), Event(Generated(c, d, Ended), "AwarenessCycleEnded", c, d)>>

\* The batch of a cycle that is final already: under the id of the dialogue event
\* it is late with, which may be that of the end told before.
LateBatch(c, d, last) == <<Event(FinalId(c, d, last), "LateReceiptObserved", c, d)>>

=============================================================================
