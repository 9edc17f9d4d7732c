-------------------------------- MODULE Autonomy --------------------------------
(***************************************************************************)
(* A session that goes on by itself: its mode, agenda and counters         *)
(* (core-models/session.rs), the ContinuationChecker that decides from     *)
(* them whether another cycle follows (ace/continuation.rs), and the stack *)
(* of scenarios that events push and pop (ace/scenario_stack.rs).          *)
(*                                                                         *)
(* Nobody in the repository calls the session's methods, so nothing orders *)
(* them: each is an action that may come at any time, and the checker,     *)
(* which changes nothing, may be asked in any state.                       *)
(*                                                                         *)
(* Abstractions.  A cost is a small number.  The clock is only whether     *)
(* idle_timeout_ms has passed since the last activity.  auto_switch_enabled *)
(* is on, as by default.  Items have fresh ids (AgendaItem::new).          *)
(***************************************************************************)
EXTENDS Integers, Sequences, FiniteSets, SequencesExt

CONSTANTS
    Items, PriorityOf,      \* agenda items and their priority, smaller first
    MaxAc, MaxCost, MaxIdle,   \* Session.continuation_config
    CheckerIdle,            \* ContinuationChecker.config.max_idle_count
    MaxDepth,               \* ScenarioStackConfig.max_depth
    Costs,                  \* what a cycle may cost
    MaxRecords              \* bound: cycles recorded since the mode was entered

Scenarios ==
    {"HumanToHuman", "HumanGroup", "HumanToAi", "AiToAi", "AiSelfTalk", "HumanToMultiAi",
     "MultiHumanToMultiAi", "AiGroup", "AiToSystem"}
NoScenario == "none"

Settled == {"Completed", "Skipped", "Failed"}
Signals == {"Stop", "ContinueWithAgenda", "ContinueWithExtension"}
NoItem == "none"

ASSUME AutonomyAssumption ==
    /\ MaxAc \in Nat /\ MaxCost \in Nat /\ MaxIdle \in Nat /\ CheckerIdle \in Nat /\ MaxDepth \in Nat
    /\ Costs \subseteq Nat
    /\ PriorityOf \in [Items -> Nat]
    /\ NoItem \notin Items

VARIABLES
    session,    \* Session, without its scenario and their stack
    stack,      \* Session.scenario_stack
    scenario,   \* Session.scenario
    began,      \* history: the scenario of the session when it was made, until one is popped or cleared
    trail,      \* history: of each cycle recorded since the mode was entered, was it idle
    added       \* history: the items in the order they came

autonomyVars == <<session, stack, scenario, began, trail, added>>

AutonomyInit ==
    /\ session = [autonomous |-> FALSE, agenda |-> <<>>, acs |-> 0, idles |-> 0,
                  cost |-> 0, stale |-> FALSE]
    /\ stack = <<>>
    /\ scenario \in Scenarios \cup {NoScenario}
    /\ began = scenario
    /\ trail = <<>> /\ added = <<>>

-----------------------------------------------------------------------------
(* Session                                                                  *)

\* add_agenda_item: pushed, and the queue sorted, equal priorities as they were
AddAgendaItem(item) ==
    /\ \A n \in DOMAIN session.agenda : session.agenda[n].item # item
    /\ LET behind == {n \in DOMAIN session.agenda : PriorityOf[session.agenda[n].item] > PriorityOf[item]}
           at == Len(session.agenda) - Cardinality(behind) IN
       session' = [session EXCEPT !.agenda =
                     InsertAt(@, at + 1, [item |-> item, status |-> "Pending"])]
    /\ added' = Append(added, item)
    /\ UNCHANGED <<stack, scenario, began, trail>>

\* AgendaItem::mark_in_progress, mark_completed, mark_skipped, mark_failed
MarkItem(item, status) ==
    /\ session' = [session EXCEPT !.agenda = [n \in DOMAIN @ |->
                     IF @[n].item = item THEN [@[n] EXCEPT !.status = status] ELSE @[n]]]
    /\ UNCHANGED <<stack, scenario, began, trail, added>>

\* enter_autonomous_mode: the counters start again, what was spent stays.
EnterAutonomous ==
    /\ session' = [session EXCEPT !.autonomous = TRUE, !.acs = 0, !.idles = 0, !.stale = FALSE]
    /\ trail' = <<>>
    /\ UNCHANGED <<stack, scenario, began, added>>

ExitAutonomous ==
    /\ session' = [session EXCEPT !.autonomous = FALSE]
    /\ UNCHANGED <<stack, scenario, began, trail, added>>

IdleTimeoutElapses ==
    /\ session' = [session EXCEPT !.stale = TRUE]
    /\ UNCHANGED <<stack, scenario, began, trail, added>>

\* Mutant: an idle cycle is not counted as a cycle.
RecordedBusyOnly(s, cost, idle) ==
    [s EXCEPT !.acs = IF idle THEN @ ELSE @ + 1, !.cost = @ + cost, !.stale = FALSE,
              !.idles = IF idle THEN @ + 1 ELSE 0]

Recorded(s, cost, idle) ==
    [s EXCEPT !.acs = @ + 1, !.cost = @ + cost, !.stale = FALSE,
              !.idles = IF idle THEN @ + 1 ELSE 0]

\* record_ac_completion, in whatever mode.  Both guards are bounds: of the records, and
\* of the cost, once the limit is passed.
RecordAcCompletion(cost, idle) ==
    /\ Len(trail) < MaxRecords /\ session.cost <= MaxCost
    /\ session' = Recorded(session, cost, idle)
    /\ trail' = Append(trail, idle)
    /\ UNCHANGED <<stack, scenario, began, added>>

\* next_pending_agenda: the first one that is pending
Pending(s) == {n \in DOMAIN s.agenda : s.agenda[n].status = "Pending"}
FirstPending(s) == CHOOSE n \in Pending(s) : \A m \in Pending(s) : n <= m
AgendaExhausted(s) == \A n \in DOMAIN s.agenda : s.agenda[n].status \in Settled

-----------------------------------------------------------------------------
(* ContinuationChecker                                                      *)

Terminates(s, meaningful) ==
    \/ AgendaExhausted(s) /\ s.agenda # <<>>
    \/ s.acs >= MaxAc \/ s.cost >= MaxCost \/ s.idles >= MaxIdle \/ s.stale
    \/ ~meaningful /\ s.idles + 1 >= CheckerIdle

\* check_continuation of a finalized cycle that signals this, gave something or
\* not, and has a point to extend or not: the item or the extension to go on with,
\* or the end.  A cycle that asks to stop is overruled while an item is pending.
Decision(s, signal, meaningful, extension) ==
    LET item == IF Pending(s) = {} THEN NoItem ELSE s.agenda[FirstPending(s)].item
        end == [goes |-> FALSE, item |-> NoItem]
        withAgenda == [goes |-> item # NoItem, item |-> item]
        withExtension == [goes |-> TRUE, item |-> NoItem] IN
    IF ~s.autonomous \/ Terminates(s, meaningful) THEN end
    ELSE IF \/ signal = "ContinueWithExtension" /\ extension
            \/ signal = "ContinueWithAgenda" /\ extension /\ item = NoItem
         THEN withExtension ELSE withAgenda

-----------------------------------------------------------------------------
(* ScenarioStackManager                                                     *)

PushOf ==
    [ClarificationIssued |-> "HumanToAi", ToolPlanDrafted |-> "AiToSystem",
     ToolInvocationScheduled |-> "AiToSystem", CollabRequested |-> "AiToAi",
     CollabProposed |-> "AiToAi"]

PopEvents ==
    {"ClarificationAnswered", "ClarificationAutoResolved", "ClarificationExpired",
     "ClarificationAborted", "ToolInvocationCompleted", "ToolInvocationFailed",
     "CollabResolved", "CollabAborted"}

\* apply_event: a full stack ignores a push, an empty one a pop.
ApplyEvent(kind) ==
    /\ IF kind \in DOMAIN PushOf /\ Len(stack) < MaxDepth
       THEN /\ stack' = Append(stack, PushOf[kind])
            /\ scenario' = PushOf[kind]
            /\ began' = began
       ELSE IF kind \in PopEvents /\ stack # <<>>
       THEN /\ stack' = Front(stack)
            /\ scenario' = IF Len(stack) = 1 THEN NoScenario ELSE stack[Len(stack) - 1]
            /\ began' = NoScenario
       ELSE UNCHANGED <<stack, scenario, began>>
    /\ UNCHANGED <<session, trail, added>>

ClearStack ==
    /\ stack' = <<>> /\ scenario' = NoScenario /\ began' = NoScenario
    /\ UNCHANGED <<session, trail, added>>

-----------------------------------------------------------------------------
\* The two share no state: what the stack makes of the scenario is not asked by
\* the checker.
SessionNext ==
    \/ \E i \in Items : AddAgendaItem(i)
    \/ \E i \in Items, status \in Settled \cup {"InProgress"} : MarkItem(i, status)
    \/ EnterAutonomous \/ ExitAutonomous \/ IdleTimeoutElapses
    \/ \E cost \in Costs, idle \in BOOLEAN : RecordAcCompletion(cost, idle)

ScenarioNext == ClearStack \/ \E kind \in DOMAIN PushOf \cup PopEvents : ApplyEvent(kind)

AutonomySpec == AutonomyInit /\ [][SessionNext \/ ScenarioNext]_autonomyVars

-----------------------------------------------------------------------------
(* Properties                                                               *)

\* At least the last n cycles were idle.
LastWereIdle(n) ==
    n <= Len(trail) /\ \A k \in DOMAIN trail : k > Len(trail) - n => trail[k]

\* By what happened since the mode was entered, the session is at a limit.
AtALimit(meaningful) ==
    \/ Len(trail) >= MaxAc \/ session.cost >= MaxCost \/ session.stale
    \/ LastWereIdle(MaxIdle)
    \/ ~meaningful /\ LastWereIdle(CheckerIdle - 1)

Precedes(seq, i, j) == \E m, n \in DOMAIN seq : m < n /\ seq[m] = i /\ seq[n] = j

\* No pending item is more pressing, and none as pressing has waited longer.
IsMostPressing(item) ==
    /\ \E n \in Pending(session) : session.agenda[n].item = item
    /\ \A n \in Pending(session) :
          LET other == session.agenda[n].item IN
          \/ other = item
          \/ PriorityOf[item] < PriorityOf[other]
          \/ PriorityOf[item] = PriorityOf[other] /\ Precedes(added, item, other)

\* Whenever the checker is asked, and whatever the session's methods were called for
\* before: it goes on only in the mode and short of every limit, counted by what
\* happened since the mode was entered; the item it names is the pending one that is
\* most pressing; and it leaves no pending item behind unless a limit is reached.
AutonomyIsBounded ==
    \A signal \in Signals, meaningful, extension \in BOOLEAN :
        LET d == Decision(session, signal, meaningful, extension) IN
        /\ d.goes => (session.autonomous /\ ~AtALimit(meaningful))
        /\ d.item # NoItem => (d.goes /\ IsMostPressing(d.item))
        /\ (session.autonomous /\ ~AtALimit(meaningful) /\ Pending(session) # {}) => d.goes

\* The stack keeps its depth and the scenario is its top; under an empty stack it is
\* the one the session was made with only until a first push is popped, and none
\* after that.
ScenarioIsTop ==
    /\ Len(stack) <= MaxDepth
    /\ scenario = IF stack = <<>> THEN began ELSE Last(stack)

\* A session's autonomy ends at its limits and not before them, and its scenario is
\* the top of its stack, in any order of calls and events.
SessionsAreBounded == AutonomyIsBounded /\ ScenarioIsTop

=============================================================================
