------------------------------ MODULE AceTypes ------------------------------
(***************************************************************************)
(* The vocabulary of the ACE engine (soulseed-agi-ace/src/types.rs): the   *)
(* lanes a cycle runs in, the statuses the scheduler keeps, the kinds of   *)
(* sync point and what absorbing one does to a status.  Pure definitions,  *)
(* shared by every module about the engine.                                *)
(***************************************************************************)

\* enum CycleLane
Lanes == {"Clarify", "Tool", "SelfReason", "Collab"}

\* enum CycleStatus; the last two make the scheduler forget the cycle
Statuses == {"Running", "AwaitingExternal", "Suspended", "Completed", "Failed"}
Terminal == {"Completed", "Failed"}

\* A cycle the scheduler's status map has no entry for.
NoStatus == "none"

(***************************************************************************)
(* Sync point kinds, by what status_transition_for_syncpoint answers: a    *)
(* status set before the merge (Opening, Suspending), Running set after it *)
(* (Resuming), or nothing.                                                 *)
(***************************************************************************)
OpeningKinds    == {"ClarifyWindowOpened", "HitlWindowOpened"}
SuspendingKinds == {"ToolWindowOpened", "ToolBarrier", "ToolBarrierReached",
                    "ToolBarrierTimeout", "BudgetExceeded"}
ResumingKinds   == {"ClarifyAnswered", "ClarifyWindowClosed", "ToolWindowClosed",
                    "ToolBarrierReleased", "CollabTurnEnd", "HitlAbsorb",
                    "HitlWindowClosed", "Merged", "LateSignalObserved",
                    "DriftDetected", "BudgetRecovered", "ToolChainNext",
                    "DegradationRecorded"}
SyncPointKinds  == OpeningKinds \cup SuspendingKinds \cup ResumingKinds \cup {"IcEnd"}

\* The mark absorb_sync_point leaves before the merge, which may still fail.
StatusBeforeMerge(kind, status) ==
    IF kind \in OpeningKinds THEN "AwaitingExternal"
    ELSE IF kind \in SuspendingKinds THEN "Suspended"
    ELSE status

\* The status absorb_sync_point leaves when the merge succeeds.
StatusAfterMerge(kind, status) ==
    IF \/ kind \in ResumingKinds
       \/ StatusBeforeMerge(kind, status) \in {"AwaitingExternal", "Suspended"}
    THEN "Running"
    ELSE StatusBeforeMerge(kind, status)

\* The kind of the sync point the runtime builds for a lane.
LaneToSyncKind(lane) ==
    CASE lane = "Clarify"    -> "ClarifyAnswered"
      [] lane = "Tool"       -> "ToolBarrierReleased"
      [] lane = "SelfReason" -> "IcEnd"
      [] lane = "Collab"     -> "CollabTurnEnd"

\* The status a cycle is accepted with.
InitialStatus(lane) ==
    IF lane = "SelfReason" THEN "Running" ELSE "AwaitingExternal"

=============================================================================
