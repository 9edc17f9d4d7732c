-------------------------- MODULE DeferredInjections --------------------------
(***************************************************************************)
(* DeferredInjectionQueue (hitl.rs): injections that wait for a condition. *)
(* Nothing in the engine calls the queue yet; what its checks are told (a  *)
(* time, a usage, a route change, a completed cycle) is any of them, in    *)
(* any order.  Each method is one lock scope and goes through the whole    *)
(* queue, front to back, retaining what it does not take.                  *)
(*                                                                         *)
(* Abstractions.  Time is a counter; usage and threshold are percentages.  *)
(***************************************************************************)
EXTENDS Retain, SequencesExt

CONSTANTS
    Deferrals,
    TriggerOf,   \* [Deferrals -> a TriggerCondition]
    ExpiresAt,   \* [Deferrals -> Nat]
    Cycles,
    Usages,      \* the usage ratios, in percent, that a check is told
    MaxTime      \* bound of now

Triggers ==
    [on : {"budget"}, threshold : 0..100] \cup [on : {"cycle"}, cycle : Cycles]
      \cup [on : {"route", "time", "any"}]

ASSUME DeferredAssumption ==
    /\ \A d \in Deferrals : TriggerOf[d] \in Triggers
    /\ ExpiresAt \in [Deferrals -> Nat]

VARIABLES
    pending,     \* DeferredQueueState.pending, front first
    triggered,   \* DeferredQueueState.triggered
    now,
    enqueued,    \* history: the deferrals in the order they were enqueued
    expired      \* history: those that expire_old handed to its caller

deferredVars == <<pending, triggered, now, enqueued, expired>>

DeferredInit ==
    /\ pending = <<>>
    /\ triggered = {}
    /\ now = 0
    /\ enqueued = <<>>
    /\ expired = {}

EnqueueDeferred(d) ==
    /\ d \notin ToSet(enqueued)
    /\ pending' = Append(pending, d)
    /\ enqueued' = Append(enqueued, d)
    /\ UNCHANGED <<triggered, now, expired>>

Expired == {d \in ToSet(pending) : now >= ExpiresAt[d]}
WaitingOn(trigger) == {d \in ToSet(pending) : TriggerOf[d].on = trigger}

StillWaiting(S) == Retain(pending, Deferrals \ S)

\* Mutant: what is past its time is told to the caller and stays.
ExpireOldKeeps ==
    /\ expired' = expired \cup Expired
    /\ UNCHANGED <<pending, triggered, now, enqueued>>

\* expire_old drops what is past its time, whatever it was waiting for.
ExpireOld ==
    /\ pending' = StillWaiting(Expired)
    /\ expired' = expired \cup Expired
    /\ UNCHANGED <<triggered, now, enqueued>>

\* The loop of the checks: what fires is marked and handed to the caller.
Fire(S) ==
    /\ pending' = StillWaiting(S)
    /\ triggered' = triggered \cup S
    /\ UNCHANGED <<now, enqueued, expired>>

CheckTime == Fire(WaitingOn("time") \cap Expired)

CheckBudget(usage) ==
    Fire({d \in WaitingOn("budget") : usage >= TriggerOf[d].threshold})

CheckRouteChange == Fire(WaitingOn("route"))

CheckCycleCompleted(c) ==
    Fire({d \in WaitingOn("cycle") : TriggerOf[d].cycle = c} \cup WaitingOn("any"))

Tick ==
    /\ now < MaxTime
    /\ now' = now + 1
    /\ UNCHANGED <<pending, triggered, enqueued, expired>>

DeferredNext ==
    \/ \E d \in Deferrals : EnqueueDeferred(d)
    \/ ExpireOld
    \/ CheckTime
    \/ \E u \in Usages : CheckBudget(u)
    \/ CheckRouteChange
    \/ \E c \in Cycles : CheckCycleCompleted(c)
    \/ Tick

DeferredSpec == DeferredInit /\ [][DeferredNext]_deferredVars

-----------------------------------------------------------------------------
(* Properties                                                               *)

\* However the checks are interleaved, a deferral is handed out once: it waits, in
\* the order it came, until one check takes it or it expires, and never both.
DeferralsEndOnce ==
    /\ pending = Retain(enqueued, Deferrals \ (triggered \cup expired))
    /\ triggered \cap expired = {}

=============================================================================
