--------------------------- MODULE CycleScheduler ---------------------------
(***************************************************************************)
(* The state of soulseed-agi-ace/src/scheduler.rs and one operator per     *)
(* method that changes it.  The methods all run under one mutex, so each   *)
(* is one step; who calls them, and in which order, is up to the modules   *)
(* that extend this one.                                                   *)
(*                                                                         *)
(* Left out: last_fork and the decision events, which only fill the        *)
(* payload of awareness events, and the degradation strategy, a hint kept  *)
(* in the schedule that no method of the engine reads back.                *)
(***************************************************************************)
EXTENDS AceTypes, Integers, Sequences, FiniteSets

CONSTANTS
    Tenants,
    Cycles,            \* the cycle ids the planner generates, each one fresh
    TenantOf,          \* [Cycles -> Tenants], the anchor of the cycle
    LaneOf,            \* [Cycles -> Lanes], the fork its plan takes
    AllowParallel,     \* SchedulerConfig.allow_parallel_lanes
    MaxPending,        \* SchedulerConfig.max_pending_per_tenant
    RoundLimit,        \* SchedulerConfig.clarify_round_limit
    QueueThreshold     \* SchedulerConfig.clarify_queue_threshold

ASSUME CyclesAssumption ==
    /\ TenantOf \in [Cycles -> Tenants]
    /\ LaneOf \in [Cycles -> Lanes]

ASSUME ConfigAssumption ==
    /\ AllowParallel \in BOOLEAN
    /\ MaxPending \in Nat
    /\ RoundLimit \in Nat
    /\ QueueThreshold \in Nat

VARIABLES
    pending,      \* the FIFO of accepted cycles of each tenant
    active,       \* the one lane slot of each tenant
    rounds,       \* clarify_stats.rounds; 0 when the tenant has no entry
    waitElapsed,  \* now - first_enqueued_at has reached clarify_wait_limit_ms
    status        \* the status map of the cycles

schedulerVars == <<pending, active, rounds, waitElapsed, status>>

NoLane == "none"

SchedulerTypeOK ==
    /\ pending \in [Tenants -> Seq(Cycles)]
    /\ active \in [Tenants -> Lanes \cup {NoLane}]
    /\ rounds \in [Tenants -> Nat]
    /\ waitElapsed \in [Tenants -> BOOLEAN]
    /\ status \in [Cycles -> Statuses \cup {NoStatus}]

SchedulerInit ==
    /\ pending = [t \in Tenants |-> <<>>]
    /\ active = [t \in Tenants |-> NoLane]
    /\ rounds = [t \in Tenants |-> 0]
    /\ waitElapsed = [t \in Tenants |-> FALSE]
    /\ status = [c \in Cycles |-> NoStatus]

\* How often x is in the sequence s
Occurrences(s, x) == Cardinality({k \in DOMAIN s : s[k] = x})

-----------------------------------------------------------------------------
(* What schedule() asks before it accepts a cycle.                          *)

ClarifyPositions(t) ==
    {k \in DOMAIN pending[t] : LaneOf[pending[t][k]] = "Clarify"}

\* The serial mode keeps one clarification per tenant, running or queued.
ClarifyLaneBusy(c) ==
    /\ ~AllowParallel
    /\ LaneOf[c] = "Clarify"
    /\ \/ active[TenantOf[c]] = "Clarify"
       \/ ClarifyPositions(TenantOf[c]) # {}

PendingFull(t) == Len(pending[t]) >= MaxPending

\* evaluate_clarify_gate: one of its three ratios has reached 1.
ClarifyExhausted(t) ==
    \/ rounds[t] + 1 >= RoundLimit
    \/ waitElapsed[t]
    \/ Cardinality(ClarifyPositions(t)) + 1 >= QueueThreshold

Admits(c) ==
    /\ ~ClarifyLaneBusy(c)
    /\ ~PendingFull(TenantOf[c])
    /\ LaneOf[c] = "Clarify" => ~ClarifyExhausted(TenantOf[c])

-----------------------------------------------------------------------------
(* The methods that change the state.  A rejected schedule() changes        *)
(* nothing that is read again.                                              *)

\* schedule(), accepted: only an accepted clarification counts a round.
Schedule(c) ==
    LET t == TenantOf[c] IN
    /\ Admits(c)
    /\ pending' = [pending EXCEPT ![t] = Append(@, c)]
    /\ rounds' = [rounds EXCEPT ![t] = IF LaneOf[c] = "Clarify" THEN @ + 1 ELSE @]
    /\ status' = [status EXCEPT ![c] = InitialStatus(LaneOf[c])]
    /\ UNCHANGED <<active, waitElapsed>>

\* reschedule(): a cycle read from a snapshot is queued again, unchecked, with
\* the status the snapshot has.
Reschedule(c, snapshotStatus) ==
    /\ pending' = [pending EXCEPT ![TenantOf[c]] = Append(@, c)]
    /\ status' = [status EXCEPT ![c] = snapshotStatus]
    /\ UNCHANGED <<active, rounds, waitElapsed>>

\* start_next(): pops the oldest cycle and overwrites the tenant's lane slot.
StartNext(t) ==
    LET c == Head(pending[t]) IN
    /\ pending[t] # <<>>
    /\ pending' = [pending EXCEPT ![t] = Tail(@)]
    /\ active' = [active EXCEPT ![t] = LaneOf[c]]
    /\ status' = [status EXCEPT ![c] = IF @ = NoStatus THEN "Running" ELSE @]
    /\ UNCHANGED <<rounds, waitElapsed>>

\* Mutant: the clarify round is not given back.
FinishKeepsRound(c, final) ==
    /\ active' = [active EXCEPT ![TenantOf[c]] = NoLane]
    /\ status' = [status EXCEPT ![c] = IF final \in Terminal THEN NoStatus ELSE final]
    /\ UNCHANGED <<pending, rounds, waitElapsed>>

\* Mutant: the subtraction does not saturate.
FinishUnderflows(c, final) ==
    LET t == TenantOf[c] IN
    /\ active' = [active EXCEPT ![t] = NoLane]
    /\ status' = [status EXCEPT ![c] = IF final \in Terminal THEN NoStatus ELSE final]
    /\ rounds' = [rounds EXCEPT ![t] = @ - 1]
    /\ waitElapsed' = [waitElapsed EXCEPT ![t] = @ /\ rounds[t] > 1]
    /\ UNCHANGED pending

\* finish(): frees the lane slot, forgets a terminal status and gives one
\* clarify round back to the tenant, whatever lane the cycle ran in.
Finish(c, final) ==
    LET t == TenantOf[c] IN
    /\ active' = [active EXCEPT ![t] = NoLane]
    /\ status' = [status EXCEPT ![c] = IF final \in Terminal THEN NoStatus ELSE final]
    /\ rounds' = [rounds EXCEPT ![t] = IF @ > 0 THEN @ - 1 ELSE 0]
    /\ waitElapsed' = [waitElapsed EXCEPT ![t] = @ /\ rounds[t] > 1]
    /\ UNCHANGED pending

\* mark_status()
MarkStatus(c, s) ==
    /\ status' = [status EXCEPT ![c] = s]
    /\ UNCHANGED <<pending, active, rounds, waitElapsed>>

\* The clock passes first_enqueued_at + clarify_wait_limit_ms.
WaitElapses(t) ==
    /\ rounds[t] > 0
    /\ ~waitElapsed[t]
    /\ waitElapsed' = [waitElapsed EXCEPT ![t] = TRUE]
    /\ UNCHANGED <<pending, active, rounds, status>>

\* The process is gone, and the scheduler with it.
SchedulerReset ==
    /\ pending' = [t \in Tenants |-> <<>>]
    /\ active' = [t \in Tenants |-> NoLane]
    /\ rounds' = [t \in Tenants |-> 0]
    /\ waitElapsed' = [t \in Tenants |-> FALSE]
    /\ status' = [c \in Cycles |-> NoStatus]

=============================================================================
