------------------------------- MODULE HitlQueue -------------------------------
(***************************************************************************)
(* The queue of human (HITL) injections and the HitlService around it      *)
(* (hitl.rs), with the three places of the engine that use it: a clarify   *)
(* cycle that is scheduled marks its tenant active, one that is finalized  *)
(* clears the mark, and a merge looks at the first three injections of its *)
(* tenant and takes out of the queue those the context agent decided on.   *)
(*                                                                         *)
(* HitlService is Clone over shared, locked parts: any number of callers   *)
(* are in it at once, and one step is one lock scope.  Merges are the      *)
(* engine's, which is behind the mutex of the service: one at a time.      *)
(*                                                                         *)
(* Abstractions.  An injection is a model value; its priority, the rank of *)
(* its author's role and its time of submission are constants of it.       *)
(***************************************************************************)
EXTENDS Retain, FiniteSets, SequencesExt

CONSTANTS
    Injections, Tenants, Callers,
    TenantOf,      \* [Injections -> Tenants]
    PriorityOf,    \* [Injections -> 0..3], P0Critical to P3Low
    RoleRankOf,    \* [Injections -> 0..5], system to guest, 5 for any other
    SubmittedAt,   \* [Injections -> Nat]
    MaxClarify,    \* bound: unfinished clarify cycles of each tenant
    MaxAborts,     \* bound: calls of authorize_abort
    None

ASSUME HitlAssumption ==
    /\ TenantOf \in [Injections -> Tenants]
    /\ PriorityOf \in [Injections -> 0..3]
    /\ RoleRankOf \in [Injections -> 0..5]
    /\ SubmittedAt \in [Injections -> Nat]
    /\ None \notin Injections

VARIABLES
    heap,       \* QueueState.heap, in the order of HitlQueue.seq
    active,     \* HitlService.active_tenants
    aborted,    \* HitlService.abort_records, oldest first
    caller,     \* what each caller of next_ready or authorize_abort holds
    merge,      \* the merge under way: the decided injections it has to resolve
    clarify,    \* unfinished clarify cycles of each tenant
    sent,       \* history: the injections enqueued
    left,       \* history: how each injection left the queue for good
    passed,     \* history: the merges of its tenant that began while it was queued
    tries       \* calls of authorize_abort, for MaxAborts

hitlVars == <<heap, active, aborted, caller, merge, clarify, sent, left, passed, tries>>

Critical == 0
High == 1
Low == 3
Urgent(i) == PriorityOf[i] <= High

HitlInit ==
    /\ heap = <<>>
    /\ active = {}
    /\ aborted = <<>>
    /\ caller = [c \in Callers |-> [step |-> "idle"]]
    /\ merge = <<>>
    /\ clarify = [t \in Tenants |-> 0]
    /\ sent = {}
    /\ left = [i \in Injections |-> {}]
    /\ passed = [i \in Injections |-> 0]
    /\ tries = 0

-----------------------------------------------------------------------------
(* HitlQueue                                                                *)

Queued == ToSet(heap)

\* taken out by an abort that has yet to give it back or to record it
InHand(i) == {c \in Callers : caller[c].step = "aborting" /\ caller[c].inj = i}

PlaceOf(i) == CHOOSE n \in DOMAIN heap : heap[n] = i

\* Ord of QueuedInjection: priority, role, submission, then order of arrival
Before(i, j) ==
    \/ PriorityOf[i] < PriorityOf[j]
    \/ /\ PriorityOf[i] = PriorityOf[j]
       /\ \/ RoleRankOf[i] < RoleRankOf[j]
          \/ /\ RoleRankOf[i] = RoleRankOf[j]
             /\ \/ SubmittedAt[i] < SubmittedAt[j]
                \/ SubmittedAt[i] = SubmittedAt[j] /\ PlaceOf(i) < PlaceOf(j)

Without(i) == Retain(heap, Injections \ {i})

\* The caller sends each injection once.
Enqueue(i) ==
    /\ i \notin sent
    /\ sent' = sent \cup {i}
    /\ heap' = Append(heap, i)
    /\ UNCHANGED <<active, aborted, caller, merge, clarify, left, tries, passed>>

Interrupts(i, actives, rank) == TenantOf[i] \in actives => PriorityOf[i] <= rank

\* Mutant: the entries skipped on the way to the first ready one are lost.
PoppedLosing(i) == Retain(heap, {j \in Queued \ {i} : Before(i, j)})

\* pop_ready (rank Critical) and pop_for_clarify (rank High): the first one that
\* may interrupt; the ones skipped on the way go back.
FirstReady(i, actives, rank) ==
    /\ Interrupts(i, actives, rank)
    /\ \A j \in Queued \ {i} : Interrupts(j, actives, rank) => Before(i, j)
Popped(i) == Without(i)

QueuedOf(t) == {i \in Queued : TenantOf[i] = t}
Ahead(i) == {j \in QueuedOf(TenantOf[i]) : Before(j, i)}

\* topk_for_tenant: each has as many of its tenant before it as its place says.
TopK(t, k) ==
    LET size == Cardinality(QueuedOf(t)) IN
    [n \in 1..(IF size < k THEN size ELSE k) |->
        CHOOSE i \in QueuedOf(t) : Cardinality(Ahead(i)) = n - 1]

-----------------------------------------------------------------------------
(* HitlService: next_ready and next_ready_for_clarify                       *)

Holds(c, r) == caller' = [caller EXCEPT ![c] = r]
Leaves(i, how) == left' = [left EXCEPT ![i] = @ \cup {how}]

\* The set of active tenants is cloned,
PollClone(c) ==
    /\ caller[c].step = "idle"
    /\ \E rank \in {Critical, High} :
          Holds(c, [step |-> "polling", inj |-> None, actives |-> active, rank |-> rank])
    /\ UNCHANGED <<sent, heap, active, aborted, merge, clarify, left, tries, passed>>

\* and the queue is popped for it in a lock scope of its own.
PollPop(c) ==
    /\ caller[c].step = "polling"
    /\ Holds(c, [step |-> "idle"])
    /\ LET actives == caller[c].actives
           rank    == caller[c].rank IN
       \/ \E i \in Queued :
             /\ FirstReady(i, actives, rank)
             /\ heap' = Popped(i)
             /\ Leaves(i, "polled")
       \/ /\ \A i \in Queued : ~Interrupts(i, actives, rank)
          /\ UNCHANGED <<heap, left>>
    /\ UNCHANGED <<sent, active, aborted, merge, clarify, tries, passed>>

-----------------------------------------------------------------------------
(* HitlService: authorize_abort                                             *)

\* The injection is removed, whoever it belongs to,
AbortRemove(c) ==
    /\ caller[c].step = "idle" /\ tries < MaxAborts
    /\ tries' = tries + 1
    /\ \E i \in Queued, t \in Tenants :
          /\ heap' = Without(i)
          /\ Holds(c, [step |-> "aborting", inj |-> i, tenant |-> t])
    /\ UNCHANGED <<sent, active, aborted, merge, clarify, left, passed>>

\* and enqueued again, behind its equals, when it is another tenant's;
AbortGiveBack(c) ==
    /\ caller[c].step = "aborting"
    /\ LET i == caller[c].inj IN
       /\ TenantOf[i] # caller[c].tenant
       /\ heap' = Append(heap, i)
    /\ Holds(c, [step |-> "idle"])
    /\ UNCHANGED <<sent, active, aborted, merge, clarify, left, tries, passed>>

\* otherwise the abort is recorded.
AbortRecord(c) ==
    /\ caller[c].step = "aborting"
    /\ LET i == caller[c].inj IN
       /\ TenantOf[i] = caller[c].tenant
       /\ aborted' = Append(aborted, i)
       /\ Leaves(i, "aborted")
    /\ Holds(c, [step |-> "idle"])
    /\ UNCHANGED <<sent, heap, active, merge, clarify, tries, passed>>

-----------------------------------------------------------------------------
(* The engine                                                               *)

\* Mutant: a high injection is put off whatever its place.
ActionNeverHigh(i, place) ==
    CASE PriorityOf[i] = Critical -> "applied"
      [] PriorityOf[i] = Low      -> "ignored"
      [] OTHER                    -> "deferred"

\* build_injection_decisions
Action(i, place) ==
    CASE PriorityOf[i] = Critical              -> "applied"
      [] PriorityOf[i] = High /\ place = 1     -> "applied"
      [] PriorityOf[i] = Low                   -> "ignored"
      [] OTHER                                 -> "deferred"

\* absorb_sync_point: the three first injections of the tenant are decided on,
MergeDecide(t) ==
    /\ merge = <<>>
    /\ UNCHANGED <<sent, heap, active, aborted, caller, clarify, left, tries>>
    /\ \E top \in {TopK(t, 3)} :
          /\ top # <<>>
          /\ merge' = Retain(top, {i \in Injections : \E n \in DOMAIN top :
                                      top[n] = i /\ Action(i, n) # "deferred"})
    /\ passed' = [i \in Injections |->
                     passed[i] + (IF TenantOf[i] = t /\ i \in Queued /\ Urgent(i) THEN 1 ELSE 0)]

\* and those that are not deferred are resolved, one by one, if still there.
MergeResolve ==
    /\ merge # <<>>
    /\ merge' = Tail(merge)
    /\ LET i == Head(merge) IN
       /\ heap' = Without(i)
       /\ IF i \in Queued THEN Leaves(i, "resolved") ELSE UNCHANGED left
    /\ UNCHANGED <<sent, active, aborted, caller, clarify, tries, passed>>

\* schedule_cycle accepts a clarify cycle.
ClarifyScheduled(t) ==
    /\ clarify[t] < MaxClarify[t]
    /\ clarify' = [clarify EXCEPT ![t] = @ + 1]
    /\ active' = active \cup {t}
    /\ UNCHANGED <<sent, heap, aborted, caller, merge, left, tries, passed>>

\* Mutant: the mark of the cycle is kept when it is over.
ClarifyFinalizedMarked(t) ==
    /\ clarify[t] > 0
    /\ clarify' = [clarify EXCEPT ![t] = @ - 1]
    /\ UNCHANGED <<sent, heap, active, aborted, caller, merge, left, tries, passed>>

\* finalize_cycle clears the mark, also when another clarify cycle goes on.
ClarifyFinalized(t) ==
    /\ clarify[t] > 0
    /\ clarify' = [clarify EXCEPT ![t] = @ - 1]
    /\ active' = active \ {t}
    /\ UNCHANGED <<sent, heap, aborted, caller, merge, left, tries, passed>>

-----------------------------------------------------------------------------
HitlNext ==
    \/ \E i \in Injections : Enqueue(i)
    \/ \E c \in Callers : \/ PollClone(c) \/ PollPop(c)
                          \/ AbortRemove(c) \/ AbortGiveBack(c) \/ AbortRecord(c)
    \/ \E t \in Tenants : \/ MergeDecide(t)
                          \/ ClarifyScheduled(t) \/ ClarifyFinalized(t)
    \/ MergeResolve

HitlSpec == HitlInit /\ [][HitlNext]_hitlVars

-----------------------------------------------------------------------------
(* Properties                                                               *)

\* An injection that has been sent is in one place: once in the queue, or in the
\* hands of one abort that has to give it back or record it, or it left the
\* queue one way: to a poller, into a merge or aborted, never two of them.
InjectionsAreConserved ==
    \A i \in sent :
        Cardinality({n \in DOMAIN heap : heap[n] = i})
          + Cardinality(InHand(i))
          + Cardinality(left[i]) = 1

\* A tenant whose clarify cycles are all over is not marked active: its ordinary
\* injections are not held back for good.
MarkedTenantsHaveACycle == \A t \in active : clarify[t] > 0

\* A merge sees only three injections of its tenant and puts off a high one that
\* is not the first; still no critical or high one is passed over by more merges
\* than its tenant has injections, whatever pollers and aborts do beside them: every
\* merge takes it or one that comes before it.  An abort that takes one out and
\* gives it back may cost one merge more.
UrgentInjectionsAreNotPassedOver ==
    \A i \in Queued :
        Urgent(i) => passed[i] <= Cardinality({j \in sent : TenantOf[j] = TenantOf[i]}) + tries

=============================================================================
