---------------------------- MODULE CollabBarrier ----------------------------
(***************************************************************************)
(* The fractal side of the ACE engine: a Collab cycle spawns child cycles  *)
(* (AceEngine::spawn_child_cycle), their results come back one by one      *)
(* (absorb_child_result), and a barrier (collab.rs) holds them until the   *)
(* last one is there, when the thread that brought it injects all of them  *)
(* into the parent (perform_barrier_aggregation).                          *)
(*                                                                         *)
(* The methods take &self over shared, locked parts, so any number of      *)
(* threads are in them at once; one step is one lock scope of the          *)
(* BarrierManager or one call into another component.  A child runs as     *)
(* soon as it is scheduled: its result may be there before it registered.  *)
(*                                                                         *)
(* Abstractions.  What schedule_cycle answers is any of its three answers. *)
(* A result is the child it is of; one with another parent's id is refused *)
(* before anything changes and is left out.  BarrierState is written and   *)
(* never read.                                                             *)
(***************************************************************************)
EXTENDS Integers, FiniteSets, Sequences

CONSTANTS
    Parents, Children,
    ParentOf,    \* [Children -> Parents]
    RoundsOf,    \* [Children -> Nat], the plan's rounds at its spawn, or 10
    Calls,       \* the calls of absorb_child_result; several for a retried one
    ChildOf,     \* [Calls -> Children], the child whose result it brings
    NoGroup

ASSUME BarrierAssumption ==
    /\ ParentOf \in [Children -> Parents]
    /\ RoundsOf \in [Children -> Nat]
    /\ ChildOf \in [Calls -> Children]
    /\ NoGroup \notin [expected : Nat, registered : SUBSET Children,
                      completed : SUBSET Children]

VARIABLES
    groups,      \* BarrierManager.groups
    spawn,       \* the spawn_child_cycle of each child
    call,        \* the absorb_child_result of each call
    copy,        \* the clone of the group that a call aggregates
    injected     \* what the aggregations put into the HITL queue, oldest first

vars == <<groups, spawn, call, copy, injected>>

SpawnSteps == {"idle", "creating", "scheduling", "registering",
               "spawned", "conflict", "rejected", "orphan"}
CallSteps  == {"idle", "looking", "injecting", "finishing", "done", "refused", "lost"}

Group(n, r, d) == [expected |-> n, registered |-> r, completed |-> d]
Groups    == [expected : Nat, registered : SUBSET Children, completed : SUBSET Children]
Aggregations == [parent : Parents, total : Nat, results : SUBSET Children]

\* A group never holds more children than it expects, nor results of others.
GroupOK(g) ==
    /\ IsFiniteSet(g.registered)
    /\ Cardinality(g.registered) <= g.expected
    /\ g.completed \subseteq g.registered

TypeOK ==
    /\ groups \in [Parents -> Groups \cup {NoGroup}]
    /\ \A p \in Parents : groups[p] # NoGroup => GroupOK(groups[p])
    /\ spawn \in [Children -> SpawnSteps]
    /\ call \in [Calls -> CallSteps]
    /\ copy \in [Calls -> Groups \cup {NoGroup}]
    /\ injected \in Seq(Aggregations)

Init ==
    /\ groups = [p \in Parents |-> NoGroup]
    /\ spawn = [c \in Children |-> "idle"]
    /\ call = [k \in Calls |-> "idle"]
    /\ copy = [k \in Calls |-> NoGroup]
    /\ injected = <<>>

ParentOfCall(k) == ParentOf[ChildOf[k]]

-----------------------------------------------------------------------------
(* BarrierGroup                                                             *)

\* Mutant: one child too many.
RegistrableOneMore(g, c) ==
    /\ Cardinality(g.registered) <= g.expected
    /\ c \notin g.registered

\* register_child of the group, when it succeeds
Registrable(g, c) ==
    /\ Cardinality(g.registered) < g.expected
    /\ c \notin g.registered

\* Mutant: a second completion replaces the first.
CompletableAgain(g, c) == c \in g.registered

\* complete_child of the group, when it succeeds
Completable(g, c) ==
    /\ c \in g.registered
    /\ c \notin g.completed

Complete(g, c) == [g EXCEPT !.completed = @ \cup {c}]

\* Mutant: the children that have registered so far are all there will be.
ReadyWhenAllDone(g) == Cardinality(g.completed) = Cardinality(g.registered)

\* is_ready
IsReady(g) ==
    /\ Cardinality(g.completed) = g.expected
    /\ Cardinality(g.completed) = Cardinality(g.registered)

\* BarrierManager finds the group first.
CanRegister(p, c) == groups[p] # NoGroup /\ Registrable(groups[p], c)
CanComplete(p, c) == groups[p] # NoGroup /\ Completable(groups[p], c)

-----------------------------------------------------------------------------
(* spawn_child_cycle                                                        *)

SpawnStep(c, from, to) == spawn[c] = from /\ spawn' = [spawn EXCEPT ![c] = to]

\* get_group tells whether the group has to be created,
SpawnLook(c) ==
    /\ SpawnStep(c, "idle",
                 IF groups[ParentOf[c]] = NoGroup THEN "creating" ELSE "scheduling")
    /\ UNCHANGED <<groups, call, copy, injected>>

\* create_group creates it,
SpawnCreate(c) ==
    /\ groups[ParentOf[c]] = NoGroup
    /\ SpawnStep(c, "creating", "scheduling")
    /\ groups' = [groups EXCEPT ![ParentOf[c]] = Group(RoundsOf[c], {}, {})]
    /\ UNCHANGED <<call, copy, injected>>

\* unless another spawn has done so since: then this one fails.
SpawnConflict(c) ==
    /\ groups[ParentOf[c]] # NoGroup
    /\ SpawnStep(c, "creating", "conflict")
    /\ UNCHANGED <<groups, call, copy, injected>>

\* schedule_cycle accepts the child, or does not.
SpawnSchedule(c) ==
    /\ \/ SpawnStep(c, "scheduling", "registering")
       \/ SpawnStep(c, "scheduling", "rejected")
    /\ UNCHANGED <<groups, call, copy, injected>>

SpawnRegister(c) ==
    LET p == ParentOf[c] IN
    /\ CanRegister(p, c)
    /\ SpawnStep(c, "registering", "spawned")
    /\ groups' = [groups EXCEPT ![p].registered = @ \cup {c}]
    /\ UNCHANGED <<call, copy, injected>>

\* The group is full, or was finished since: the spawn fails, the child runs.
SpawnOrphan(c) ==
    LET p == ParentOf[c] IN
    /\ ~CanRegister(p, c)
    /\ SpawnStep(c, "registering", "orphan")
    /\ UNCHANGED <<groups, call, copy, injected>>

-----------------------------------------------------------------------------
(* absorb_child_result and perform_barrier_aggregation                      *)

CallStep(k, from, to) == call[k] = from /\ call' = [call EXCEPT ![k] = to]

\* The child has been scheduled, so there may be a result of it.
HasRun(c) == spawn[c] \in {"registering", "spawned", "orphan"}

\* Mutant: the thread asks whether the barrier was ready before its own result.
AnswerBefore(g, c) == IF IsReady(g) THEN "looking" ELSE "done"

\* What complete_child answers decides whether this call aggregates.
Answer(g, c) == IF IsReady(Complete(g, c)) THEN "looking" ELSE "done"

AbsorbComplete(k) ==
    LET p == ParentOfCall(k)
        c == ChildOf[k] IN
    /\ HasRun(c)
    /\ CanComplete(p, c)
    /\ CallStep(k, "idle", Answer(groups[p], c))
    /\ groups' = [groups EXCEPT ![p] = Complete(@, c)]
    /\ UNCHANGED <<spawn, copy, injected>>

\* complete_child answers an error: there is no group, or the child is not
\* registered in it, or has completed before.
AbsorbRefused(k) ==
    LET p == ParentOfCall(k)
        c == ChildOf[k] IN
    /\ HasRun(c)
    /\ ~CanComplete(p, c)
    /\ CallStep(k, "idle", "refused")
    /\ UNCHANGED <<groups, spawn, copy, injected>>

\* get_group clones the group; without one the aggregation fails.
AggregateLook(k) ==
    LET p == ParentOfCall(k) IN
    /\ CallStep(k, "looking", IF groups[p] = NoGroup THEN "lost" ELSE "injecting")
    /\ copy' = [copy EXCEPT ![k] = groups[p]]
    /\ UNCHANGED <<groups, spawn, injected>>

\* HitlService.enqueue of all results
AggregateInject(k) ==
    /\ CallStep(k, "injecting", "finishing")
    /\ injected' = Append(injected, [parent  |-> ParentOfCall(k),
                                     total   |-> copy[k].expected,
                                     results |-> copy[k].completed])
    /\ UNCHANGED <<groups, spawn, copy>>

\* finish_group removes the group, whatever it has become.
AggregateFinish(k) ==
    /\ CallStep(k, "finishing", "done")
    /\ groups' = [groups EXCEPT ![ParentOfCall(k)] = NoGroup]
    /\ copy' = [copy EXCEPT ![k] = NoGroup]
    /\ UNCHANGED <<spawn, injected>>

-----------------------------------------------------------------------------
Spawn(c) ==
    \/ SpawnLook(c)     \/ SpawnCreate(c)   \/ SpawnConflict(c)
    \/ SpawnSchedule(c) \/ SpawnRegister(c) \/ SpawnOrphan(c)

Absorb(k) == AbsorbComplete(k) \/ AbsorbRefused(k)

Aggregate(k) == AggregateLook(k) \/ AggregateInject(k) \/ AggregateFinish(k)

\* No thread is in one of the methods; children may be waited for all the same.
Finished ==
    /\ \A c \in Children : spawn[c] \notin {"creating", "scheduling", "registering"}
    /\ \A k \in Calls : call[k] \notin {"looking", "injecting", "finishing"}
    /\ UNCHANGED vars

Next ==
    \/ \E c \in Children : Spawn(c)
    \/ \E k \in Calls : Absorb(k) \/ Aggregate(k)
    \/ Finished

Spec == Init /\ [][Next]_vars

\* A thread that is in one of the methods goes on; nothing makes a caller call.
Fairness ==
    /\ \A c \in Children : WF_vars(spawn[c] # "idle" /\ Spawn(c))
    /\ \A k \in Calls : WF_vars(Aggregate(k))

FairSpec == Spec /\ Fairness

-----------------------------------------------------------------------------
(* Properties                                                               *)

Aggregating(p) ==
    {k \in Calls : ParentOfCall(k) = p /\ call[k] \in {"looking", "injecting", "finishing"}}

\* The thread that was told the barrier is ready finds the group, whole, at each
\* of its three calls, and no other thread aggregates it too: the errors of
\* perform_barrier_aggregation are never met, although no lock is held between.
AggregationIsAlone ==
    \A p \in Parents : \A k \in Aggregating(p) :
        /\ Aggregating(p) = {k}
        /\ groups[p] # NoGroup
        /\ IsReady(groups[p])
        /\ call[k] # "looking" => copy[k] = groups[p]

\* A child's result is injected into the parent once, also when the call that
\* brings it is retried or the parent opens a second barrier.
ResultsInjectedOnce ==
    \A i, j \in DOMAIN injected :
        injected[i].results \cap injected[j].results # {} => i = j

\* The results injected together are as many as the injection says there are.
InjectionsAreWhole ==
    \A i \in DOMAIN injected :
        Cardinality(injected[i].results) = injected[i].total

\* A child that has registered is waited for: it is in the parent's group until
\* its result is injected, and finish_group never takes it away before.
RegisteredChildrenAreKept ==
    \A c \in Children : spawn[c] = "spawned" =>
        \/ groups[ParentOf[c]] # NoGroup /\ c \in groups[ParentOf[c]].registered
        \/ \E i \in DOMAIN injected : c \in injected[i].results

\* A barrier that became ready is finished, so that the parent can go on.
ReadyBarriersFinish ==
    \A p \in Parents :
        groups[p] # NoGroup /\ IsReady(groups[p]) /\ groups[p].registered # {}
            ~> groups[p] = NoGroup

-----------------------------------------------------------------------------
(* What the repository says of the barrier and the code does not do         *)

\* Once all children are done their results are injected: rounds is a hint, the
\* number of children is settled when results are absorbed (the comments in
\* spawn_child_cycle and perform_barrier_aggregation).
AllDone(p) ==
    /\ groups[p] # NoGroup
    /\ groups[p].registered # {}
    /\ groups[p].completed = groups[p].registered
    /\ \A c \in Children : ParentOf[c] = p => spawn[c] \notin {"scheduling", "registering"}

CompletedChildrenAreInjected ==
    \A p \in Parents : AllDone(p) ~> groups[p] = NoGroup

=============================================================================
