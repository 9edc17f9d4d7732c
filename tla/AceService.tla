----------------------------- MODULE AceService -----------------------------
(***************************************************************************)
(* The ACE service as bin/ace_service.rs assembles it: HTTP handlers that  *)
(* trigger a cycle or inject into one, the background task an injection    *)
(* leaves behind, and, under the service mutex, the orchestrator that      *)
(* drives the queued cycles of one tenant until none is left (engine.rs,   *)
(* runtime.rs, aggregator.rs, emitter.rs, outbox.rs) over the scheduler.   *)
(*                                                                         *)
(* A handler step ends where the code releases a lock or awaits; a drive   *)
(* is cut where it calls into another component, so that a crash and the   *)
(* handlers that need no service lock can come in between.                 *)
(*                                                                         *)
(* Abstractions.  A sync point is the list of the injections it carries:   *)
(* its kind follows from the lane and its one event is the cycle's final   *)
(* event.  A snapshot is the sync point and the status a handler stored.   *)
(* The outbox keeps the messages that tell how a cycle ended; the other    *)
(* awareness events of the batch are left out.  A checkpoint is its age:   *)
(* fresh within lane_cooldown, stale after it.  The HITL queue is empty in *)
(* this service (only a barrier aggregation fills it), so nothing is       *)
(* peeked from it or resolved in it.                                       *)
(***************************************************************************)
EXTENDS CycleScheduler, Retain

CONSTANTS
    Injections,      \* the requests to /injections, one per element
    TargetOf,        \* [Injections -> Cycles], the cycle_id of the request
    DbTenant,        \* the tenant the handlers assume when they read the database
    MergeMayFail,    \* ca.merge_delta may answer an error
    ForwardMayFail,  \* the outbox has a forwarder, which may answer an error
    MaxCrashes,      \* bound: how often the process dies
    Nobody,          \* the service mutex is free
    NoCycle,         \* no drive is in progress
    NoSnapshot

ASSUME ServiceAssumption ==
    /\ TargetOf \in [Injections -> Cycles]
    /\ Cycles \cap Injections = {}
    /\ Nobody \notin Cycles \cup Injections
    /\ NoCycle \notin Cycles
    /\ MergeMayFail \in BOOLEAN
    /\ ForwardMayFail \in BOOLEAN
    /\ MaxCrashes \in Nat

VARIABLES
    registry,    \* CallbackRegistry: the queue of sync points of each cycle
    syncSeen,    \* SyncPointAggregator.finalized_syncs
    finalized,   \* AceEngine.finalized
    outbox,      \* the queue of each tenant; this service never dequeues it
    checkpoint,  \* the Checkpointer's entry of each cycle
    holder,      \* who holds the service mutex
    phase,       \* where the drive of the holder stands
    current,     \* the cycle start_next returned
    taken,       \* the sync point the drive dequeued for it
    late,        \* the aggregator took it for a late arrival
    drove,       \* the drive has at least one outcome
    trigger,     \* the trigger_dialogue request of each cycle
    inject,      \* the post_injection request of each injection
    read,        \* the snapshot that request works on
    background,  \* the task that request spawned
    cache,       \* AppState.cycles
    db,          \* the snapshots in the database
    absorbed,    \* history: how often each injection was merged
    crashes      \* history: how often the process died

engineVars  == <<registry, syncSeen, finalized, outbox, checkpoint>>
driveVars   == <<holder, phase, current, taken, late, drove>>
requestVars == <<trigger, inject, read, background>>
storeVars   == <<cache, db>>
vars == <<schedulerVars, engineVars, driveVars, requestVars, storeVars,
          absorbed, crashes>>

SyncPoints == Seq(Injections)
Snapshots  == [sync : SyncPoints, status : Statuses]
Holders    == Cycles \cup Injections
Phases     == {"idle", "next", "dequeue", "absorb", "finalize"}
Ages       == {"none", "fresh", "stale"}

\* A trigger is lost when the process dies before it answered.
TriggerSteps == {"idle", "driving", "caching", "persisting", "done",
                 "rejected", "failed", "lost"}
InjectSteps  == {"idle", "loading", "submitting", "caching", "persisting", "done",
                 "notfound", "lost"}
TaskSteps    == {"none", "ready", "driving", "updating", "done"}

MessageTypes == {"LateSyncPoint", "Finalized", "Ended", "LateReceipt"}
Messages     == [type : MessageTypes, cycle : Cycles]

TenantOfHolder(h) == TenantOf[IF h \in Cycles THEN h ELSE TargetOf[h]]

EngineTypeOK ==
    /\ registry \in [Cycles -> Seq(SyncPoints)]
    /\ syncSeen \subseteq Cycles
    /\ finalized \subseteq Cycles
    /\ outbox \in [Tenants -> Seq(Messages)]
    /\ checkpoint \in [Cycles -> Ages]

\* A drive has a holder, and a cycle from start_next on.
DriveTypeOK ==
    /\ holder \in Holders \cup {Nobody}
    /\ phase \in Phases
    /\ phase = "idle" <=> holder = Nobody
    /\ current \in Cycles \cup {NoCycle}
    /\ phase \in {"idle", "next"} <=> current = NoCycle
    /\ taken \in SyncPoints
    /\ late \in BOOLEAN
    /\ drove \in BOOLEAN

RequestTypeOK ==
    /\ trigger \in [Cycles -> TriggerSteps]
    /\ inject \in [Injections -> InjectSteps]
    /\ read \in [Injections -> Snapshots \cup {NoSnapshot}]
    /\ \A i \in Injections :
          inject[i] \in {"submitting", "caching", "persisting"} => read[i] # NoSnapshot
    /\ background \in [Injections -> TaskSteps]

StoreTypeOK ==
    /\ cache \in [Cycles -> Snapshots \cup {NoSnapshot}]
    /\ db \in [Cycles -> Snapshots \cup {NoSnapshot}]

HistoryTypeOK ==
    /\ absorbed \in [Injections -> Nat]
    /\ crashes \in Nat

TypeOK ==
    /\ SchedulerTypeOK
    /\ EngineTypeOK
    /\ DriveTypeOK
    /\ RequestTypeOK
    /\ StoreTypeOK
    /\ HistoryTypeOK

EngineInit ==
    /\ registry = [c \in Cycles |-> <<>>]
    /\ syncSeen = {}
    /\ finalized = {}
    /\ outbox = [t \in Tenants |-> <<>>]
    /\ checkpoint = [c \in Cycles |-> "none"]

DriveInit ==
    /\ holder = Nobody
    /\ phase = "idle"
    /\ current = NoCycle
    /\ taken = <<>>
    /\ late = FALSE
    /\ drove = FALSE

Init ==
    /\ SchedulerInit
    /\ EngineInit
    /\ DriveInit
    /\ trigger = [c \in Cycles |-> "idle"]
    /\ inject = [i \in Injections |-> "idle"]
    /\ read = [i \in Injections |-> NoSnapshot]
    /\ background = [i \in Injections |-> "none"]
    /\ cache = [c \in Cycles |-> NoSnapshot]
    /\ db = [c \in Cycles |-> NoSnapshot]
    /\ absorbed = [i \in Injections |-> 0]
    /\ crashes = 0

-----------------------------------------------------------------------------
(* The parts of the engine the drive and the handlers go through.           *)

\* CallbackRegistry.enqueue
Enqueue(c, sync) == registry' = [registry EXCEPT ![c] = Append(@, sync)]

\* Checkpointer.ensure_lane_idle looks at one entry of the tenant and lane,
\* whichever the map yields first, so both answers are possible when a fresh
\* and a stale one are there.
LaneEntries(c, age) ==
    {d \in Cycles : /\ TenantOf[d] = TenantOf[c]
                    /\ LaneOf[d] = LaneOf[c]
                    /\ checkpoint[d] = age}

LaneMayBeIdle(c) == LaneEntries(c, "fresh") = {} \/ LaneEntries(c, "stale") # {}
LaneMayBeBusy(c) == LaneEntries(c, "fresh") # {}

\* Mutant: the checkpoints stay.
FinishNoCheckpoint(t) == UNCHANGED checkpoint

\* Checkpointer.finish drops every entry of the tenant.
FinishCheckpoints(t) ==
    checkpoint' = [c \in Cycles |-> IF TenantOf[c] = t THEN "none" ELSE checkpoint[c]]

\* The end of a cycle as Emitter.emit batches it: what the aggregator and
\* drive_once put into the emission, then the emitter's own messages.
EndBatch(c) ==
    (IF late THEN <<[type |-> "LateSyncPoint", cycle |-> c]>> ELSE <<>>)
        \o <<[type |-> "Finalized", cycle |-> c],
             [type |-> "Finalized", cycle |-> c],
             [type |-> "Ended", cycle |-> c]>>

ReceiptBatch(c) == <<[type |-> "LateReceipt", cycle |-> c]>>

\* OutboxReservation.commit puts the batch into the queue before it forwards,
\* and leaves it there when the forwarder fails.
CommitBatch(c, batch) == outbox' = [outbox EXCEPT ![TenantOf[c]] = @ \o batch]

-----------------------------------------------------------------------------
(* The drive, AceOrchestrator::drive_until_idle under the service mutex.    *)

Acquire(h) ==
    /\ holder = Nobody
    /\ holder' = h
    /\ phase' = "next"
    /\ UNCHANGED <<current, taken, late, drove>>

\* drive_until_idle returns, well or with an error, and the mutex is released.
Release(well) ==
    /\ holder' = Nobody
    /\ phase' = "idle"
    /\ current' = NoCycle
    /\ taken' = <<>>
    /\ late' = FALSE
    /\ drove' = FALSE
    /\ IF holder \in Cycles
       THEN /\ trigger' = [trigger EXCEPT ![holder] =
                              IF well THEN "caching" ELSE "failed"]
            /\ UNCHANGED background
       ELSE /\ background' = [background EXCEPT ![holder] =
                                 IF well /\ drove THEN "updating" ELSE "done"]
            /\ UNCHANGED trigger
    /\ UNCHANGED <<inject, read, storeVars, crashes>>

\* The rest of the cycle's drive_once is done: on to the next cycle.
NextCycle ==
    /\ phase' = "next"
    /\ current' = NoCycle
    /\ taken' = <<>>
    /\ late' = FALSE
    /\ drove' = TRUE
    /\ UNCHANGED <<holder, requestVars, storeVars, crashes>>

DriveStartNext ==
    LET t == TenantOfHolder(holder) IN
    /\ phase = "next"
    /\ StartNext(t)
    /\ current' = Head(pending[t])
    /\ phase' = "dequeue"
    /\ UNCHANGED <<holder, taken, late, drove,
                   engineVars, requestVars, storeVars, absorbed, crashes>>

DriveIdle ==
    /\ phase = "next"
    /\ pending[TenantOfHolder(holder)] = <<>>
    /\ Release(TRUE)
    /\ UNCHANGED <<schedulerVars, engineVars, absorbed>>

\* dequeue_blocking: the drive waits, with the mutex, until the registry has a
\* sync point of the cycle.
DriveDequeue ==
    /\ phase = "dequeue"
    /\ registry[current] # <<>>
    /\ taken' = Head(registry[current])
    /\ registry' = [registry EXCEPT ![current] = Tail(@)]
    /\ phase' = "absorb"
    /\ UNCHANGED <<holder, current, late, drove, schedulerVars,
                   syncSeen, finalized, outbox, checkpoint,
                   requestVars, storeVars, absorbed, crashes>>

\* absorb_sync_point and aggregate: a sync point seen before is merged again,
\* only its batch gets a late receipt.
DriveAbsorb ==
    /\ phase = "absorb"
    /\ MarkStatus(current, StatusAfterMerge(LaneToSyncKind(LaneOf[current]),
                                            status[current]))
    /\ late' = (current \in syncSeen)
    /\ syncSeen' = syncSeen \cup {current}
    /\ absorbed' = [i \in Injections |-> absorbed[i] + Occurrences(taken, i)]
    /\ phase' = "finalize"
    /\ UNCHANGED <<holder, current, taken, drove, registry, finalized, outbox,
                   checkpoint, requestVars, storeVars, crashes>>

\* The merge fails: the popped cycle is in no queue any more, and its status,
\* lane slot, round and checkpoint stay as they are.
DriveAbsorbFails ==
    /\ MergeMayFail
    /\ phase = "absorb"
    /\ MarkStatus(current, StatusBeforeMerge(LaneToSyncKind(LaneOf[current]),
                                             status[current]))
    /\ Release(FALSE)
    /\ UNCHANGED <<engineVars, absorbed>>

\* Mutant: the finalized set is not asked.
NeverFinal == FALSE

\* finalize_cycle asks the set of finalized cycles,
AlreadyFinal == current \in finalized

\* and registers the cycle in it.
RegisterFinal == finalized' = finalized \cup {current}

\* finalize_cycle of a cycle that is not final yet
DriveFinalize ==
    /\ phase = "finalize"
    /\ ~AlreadyFinal
    /\ RegisterFinal
    /\ CommitBatch(current, EndBatch(current))
    /\ FinishCheckpoints(TenantOf[current])
    /\ Finish(current, "Completed")
    /\ NextCycle
    /\ UNCHANGED <<registry, syncSeen, absorbed>>

\* finalize_cycle of a cycle that is: a receipt, and nothing is finished.
DriveFinalizeAgain ==
    /\ phase = "finalize"
    /\ AlreadyFinal
    /\ CommitBatch(current, ReceiptBatch(current))
    /\ NextCycle
    /\ UNCHANGED <<schedulerVars, registry, syncSeen, finalized, checkpoint, absorbed>>

\* Mutant: every error takes the cycle out of the finalized set.
DriveForwardFailsReopens ==
    /\ ForwardMayFail
    /\ phase = "finalize"
    /\ CommitBatch(current, IF AlreadyFinal
                            THEN ReceiptBatch(current) ELSE EndBatch(current))
    /\ finalized' = finalized \ {current}
    /\ Release(FALSE)
    /\ UNCHANGED <<schedulerVars, registry, syncSeen, checkpoint, absorbed>>

\* The forwarder fails after the batch is in the queue; the cycle is not final
\* (or was already).
DriveForwardFails ==
    /\ ForwardMayFail
    /\ phase = "finalize"
    /\ CommitBatch(current, IF AlreadyFinal
                            THEN ReceiptBatch(current) ELSE EndBatch(current))
    /\ Release(FALSE)
    /\ UNCHANGED <<schedulerVars, registry, syncSeen, finalized, checkpoint, absorbed>>

Drive ==
    \/ DriveStartNext     \/ DriveIdle         \/ DriveDequeue
    \/ DriveAbsorb        \/ DriveAbsorbFails  \/ DriveFinalize
    \/ DriveFinalizeAgain \/ DriveForwardFails

-----------------------------------------------------------------------------
(* trigger_dialogue                                                         *)

\* submit_trigger accepts the cycle, its sync point is queued by the driver of
\* the runtime and a second time by the handler, and the drive begins, all
\* without releasing the mutex.
TriggerSubmit(c) ==
    /\ trigger[c] = "idle"
    /\ LaneMayBeIdle(c)
    /\ Schedule(c)
    /\ checkpoint' = [checkpoint EXCEPT ![c] = "fresh"]
    /\ registry' = [registry EXCEPT ![c] = @ \o << <<>>, <<>> >>]
    /\ Acquire(c)
    /\ trigger' = [trigger EXCEPT ![c] = "driving"]
    /\ UNCHANGED <<syncSeen, finalized, outbox, inject, read, background,
                   storeVars, absorbed, crashes>>

TriggerRejected(c) ==
    /\ holder = Nobody
    /\ trigger[c] = "idle"
    /\ LaneMayBeBusy(c) \/ ~Admits(c)
    /\ trigger' = [trigger EXCEPT ![c] = "rejected"]
    /\ UNCHANGED <<schedulerVars, engineVars, driveVars, inject, read, background,
                   storeVars, absorbed, crashes>>

\* The snapshot has the schedule as it was accepted, not as the drive left it.
TriggerSnapshot(c) == [sync |-> <<>>, status |-> InitialStatus(LaneOf[c])]

TriggerCache(c) ==
    /\ trigger[c] = "caching"
    /\ cache' = [cache EXCEPT ![c] = TriggerSnapshot(c)]
    /\ trigger' = [trigger EXCEPT ![c] = "persisting"]
    /\ UNCHANGED <<schedulerVars, engineVars, driveVars, inject, read, background,
                   db, absorbed, crashes>>

\* The request succeeds whether or not the snapshot could be stored.
TriggerPersist(c) ==
    /\ trigger[c] = "persisting"
    /\ db' \in {db, [db EXCEPT ![c] = TriggerSnapshot(c)]}
    /\ trigger' = [trigger EXCEPT ![c] = "done"]
    /\ UNCHANGED <<schedulerVars, engineVars, driveVars, inject, read, background,
                   cache, absorbed, crashes>>

-----------------------------------------------------------------------------
(* post_injection and the task it spawns                                    *)

InjectRead(i) ==
    LET c == TargetOf[i] IN
    /\ inject[i] = "idle"
    /\ IF cache[c] # NoSnapshot
       THEN /\ inject' = [inject EXCEPT ![i] = "submitting"]
            /\ read' = [read EXCEPT ![i] = cache[c]]
       ELSE /\ inject' = [inject EXCEPT ![i] = "loading"]
            /\ UNCHANGED read
    /\ UNCHANGED <<schedulerVars, engineVars, driveVars, trigger, background,
                   storeVars, absorbed, crashes>>

\* The database is asked for the tenant the handler assumes, and what it has
\* overwrites what another handler has put into the cache meanwhile.
InjectLoad(i) ==
    LET c == TargetOf[i] IN
    /\ inject[i] = "loading"
    /\ IF TenantOf[c] = DbTenant /\ db[c] # NoSnapshot
       THEN /\ inject' = [inject EXCEPT ![i] = "submitting"]
            /\ read' = [read EXCEPT ![i] = db[c]]
            /\ cache' = [cache EXCEPT ![c] = db[c]]
       ELSE /\ inject' = [inject EXCEPT ![i] = "notfound"]
            /\ UNCHANGED <<read, cache>>
    /\ UNCHANGED <<schedulerVars, engineVars, driveVars, trigger, background,
                   db, absorbed, crashes>>

\* What the request makes of the snapshot it has read
InjectedSnapshot(i) == [read[i] EXCEPT !.sync = Append(@, i)]

\* Mutant: the cycle is queued again, its sync point is not.
InjectSubmitOnlyQueues(i) ==
    /\ holder = Nobody
    /\ inject[i] = "submitting"
    /\ Reschedule(TargetOf[i], read[i].status)
    /\ background' = [background EXCEPT ![i] = "ready"]
    /\ inject' = [inject EXCEPT ![i] = "caching"]
    /\ UNCHANGED <<engineVars, driveVars, trigger, read, storeVars, absorbed, crashes>>

InjectSubmit(i) ==
    LET c == TargetOf[i] IN
    /\ holder = Nobody
    /\ inject[i] = "submitting"
    /\ Reschedule(c, read[i].status)
    /\ Enqueue(c, InjectedSnapshot(i).sync)
    /\ background' = [background EXCEPT ![i] = "ready"]
    /\ inject' = [inject EXCEPT ![i] = "caching"]
    /\ UNCHANGED <<syncSeen, finalized, outbox, checkpoint, driveVars, trigger,
                   read, storeVars, absorbed, crashes>>

InjectCache(i) ==
    /\ inject[i] = "caching"
    /\ cache' = [cache EXCEPT ![TargetOf[i]] = InjectedSnapshot(i)]
    /\ inject' = [inject EXCEPT ![i] = "persisting"]
    /\ UNCHANGED <<schedulerVars, engineVars, driveVars, trigger, read, background,
                   db, absorbed, crashes>>

\* Mutant: what is stored is made of the snapshot the cache has by now.
InjectPersistFromCache(i) ==
    LET c == TargetOf[i] IN
    /\ inject[i] = "persisting"
    /\ db' \in {db, [db EXCEPT ![c] = [cache[c] EXCEPT !.sync = Append(@, i)]]}
    /\ inject' = [inject EXCEPT ![i] = "done"]
    /\ read' = [read EXCEPT ![i] = NoSnapshot]
    /\ UNCHANGED <<schedulerVars, engineVars, driveVars, trigger, background,
                   cache, absorbed, crashes>>

\* The answer is sent and a task of its own stores the snapshot, or fails to.
InjectPersist(i) ==
    /\ inject[i] = "persisting"
    /\ db' \in {db, [db EXCEPT ![TargetOf[i]] = InjectedSnapshot(i)]}
    /\ inject' = [inject EXCEPT ![i] = "done"]
    /\ read' = [read EXCEPT ![i] = NoSnapshot]
    /\ UNCHANGED <<schedulerVars, engineVars, driveVars, trigger, background,
                   cache, absorbed, crashes>>

\* Mutant: the task gives up when it finds the mutex taken.
TaskDriveTryLock(i) ==
    /\ background[i] = "ready"
    /\ IF holder = Nobody
       THEN Acquire(i) /\ background' = [background EXCEPT ![i] = "driving"]
       ELSE UNCHANGED driveVars /\ background' = [background EXCEPT ![i] = "done"]
    /\ UNCHANGED <<schedulerVars, engineVars, trigger, inject, read, storeVars,
                   absorbed, crashes>>

\* After its 10 ms sleep the task takes the mutex and drives the tenant.
TaskDrive(i) ==
    /\ background[i] = "ready"
    /\ Acquire(i)
    /\ background' = [background EXCEPT ![i] = "driving"]
    /\ UNCHANGED <<schedulerVars, engineVars, trigger, inject, read, storeVars,
                   absorbed, crashes>>

\* The status of the last outcome, always Completed with this runtime, goes
\* into the snapshot the cache has by now.
TaskUpdate(i) ==
    LET c == TargetOf[i] IN
    /\ background[i] = "updating"
    /\ cache' = IF cache[c] # NoSnapshot
                THEN [cache EXCEPT ![c].status = "Completed"] ELSE cache
    /\ background' = [background EXCEPT ![i] = "done"]
    /\ UNCHANGED <<schedulerVars, engineVars, driveVars, trigger, inject, read,
                   db, absorbed, crashes>>

-----------------------------------------------------------------------------
(* Time and failure                                                         *)

\* lane_cooldown has passed since the checkpoint was recorded.
CheckpointAges(c) ==
    /\ checkpoint[c] = "fresh"
    /\ checkpoint' = [checkpoint EXCEPT ![c] = "stale"]
    /\ UNCHANGED <<schedulerVars, registry, syncSeen, finalized, outbox,
                   driveVars, requestVars, storeVars, absorbed, crashes>>

ClarifyWaitElapses(t) ==
    /\ WaitElapses(t)
    /\ UNCHANGED <<engineVars, driveVars, requestVars, storeVars, absorbed, crashes>>

\* Everything but the database is in memory.
Crash ==
    /\ crashes < MaxCrashes
    /\ crashes' = crashes + 1
    /\ SchedulerReset
    /\ registry' = [c \in Cycles |-> <<>>]
    /\ syncSeen' = {}
    /\ finalized' = {}
    /\ outbox' = [t \in Tenants |-> <<>>]
    /\ checkpoint' = [c \in Cycles |-> "none"]
    /\ holder' = Nobody
    /\ phase' = "idle"
    /\ current' = NoCycle
    /\ taken' = <<>>
    /\ late' = FALSE
    /\ drove' = FALSE
    /\ trigger' = [c \in Cycles |->
                     IF trigger[c] \in {"driving", "caching", "persisting"}
                     THEN "lost" ELSE trigger[c]]
    /\ inject' = [i \in Injections |->
                    IF inject[i] \in {"loading", "submitting", "caching", "persisting"}
                    THEN "lost" ELSE inject[i]]
    /\ read' = [i \in Injections |-> NoSnapshot]
    /\ background' = [i \in Injections |-> "none"]
    /\ cache' = [c \in Cycles |-> NoSnapshot]
    /\ absorbed' = [i \in Injections |-> 0]
    /\ UNCHANGED db

-----------------------------------------------------------------------------
Trigger(c) ==
    TriggerSubmit(c) \/ TriggerRejected(c) \/ TriggerCache(c) \/ TriggerPersist(c)

Inject(i) ==
    \/ InjectRead(i)  \/ InjectLoad(i)    \/ InjectSubmit(i)
    \/ InjectCache(i) \/ InjectPersist(i)

Task(i) == TaskDrive(i) \/ TaskUpdate(i)

\* Nothing is under way and no request is left to come.
Finished ==
    /\ holder = Nobody
    /\ \A c \in Cycles : trigger[c] \notin {"idle", "driving", "caching", "persisting"}
    /\ \A i \in Injections :
          /\ inject[i] \in {"done", "notfound", "lost"}
          /\ background[i] \in {"none", "done"}
    /\ UNCHANGED vars

Next ==
    \/ Drive
    \/ \E c \in Cycles : Trigger(c) \/ CheckpointAges(c)
    \/ \E i \in Injections : Inject(i) \/ Task(i)
    \/ \E t \in Tenants : ClarifyWaitElapses(t)
    \/ Crash
    \/ Finished

Spec == Init /\ [][Next]_vars

\* The runtime keeps running the threads and tasks it has; nothing makes a
\* client send a request, time pass or the process die.
Fairness ==
    /\ WF_vars(Drive)
    /\ \A c \in Cycles : WF_vars(TriggerCache(c) \/ TriggerPersist(c))
    /\ \A i \in Injections :
          /\ WF_vars(InjectLoad(i) \/ InjectSubmit(i) \/ InjectCache(i) \/ InjectPersist(i))
          /\ WF_vars(Task(i))

FairSpec == Spec /\ Fairness

-----------------------------------------------------------------------------
(* Properties                                                               *)

\* The work a drive still has to find a sync point for
QueuedWork(c) ==
    Occurrences(pending[TenantOf[c]], c)
        + (IF phase = "dequeue" /\ current = c THEN 1 ELSE 0)

\* dequeue_blocking never waits: whatever fails or restarts, every queued copy
\* of a cycle has a sync point of its own in the registry.  If one were missing,
\* the drive would hold the service mutex for ever.
DriveNeverBlocks == \A c \in Cycles : QueuedWork(c) <= Len(registry[c])

\* Who will still pop the tenant's queue at least once
DrivesToCome(t) ==
    {i \in Injections : background[i] = "ready" /\ TenantOf[TargetOf[i]] = t}
        \cup {h \in {holder} : h # Nobody /\ TenantOfHolder(h) = t
                                /\ phase = "next" /\ ~drove}

\* A drive that fails leaves the rest of the queue behind.  There is always
\* another drive on its way for each cycle left, so none is stranded.
NothingIsStranded ==
    \A t \in Tenants : Len(pending[t]) <= Cardinality(DrivesToCome(t))

\* Clarifications the tenant got accepted and that have not come to their end
UnfinishedClarifies(t) ==
    {c \in Cycles : /\ TenantOf[c] = t /\ LaneOf[c] = "Clarify"
                    /\ trigger[c] \notin {"idle", "rejected"}
                    /\ c \notin finalized}

\* A tenant never owes more clarify rounds than it has unfinished
\* clarifications: finish() gives back what schedule() counted, although it is
\* called for every lane and for cycles that reschedule() never counted.
RoundsAreOwed ==
    \A t \in Tenants : rounds[t] <= Cardinality(UnfinishedClarifies(t))

\* A cycle that has come to its end no longer blocks its lane for a new one.
FinalCyclesHoldNoLane ==
    \A c \in finalized : checkpoint[c] = "none"

\* In the outbox, the receipts of a cycle's late arrivals come after its end
\* and no further end comes after them, whatever the forwarder answered.
ReceiptsFollowTheEnd ==
    \A t \in Tenants : \A k \in DOMAIN outbox[t] :
        outbox[t][k].type = "LateReceipt" =>
            /\ \E j \in 1..(k - 1) :
                  outbox[t][j] = [type |-> "Ended", cycle |-> outbox[t][k].cycle]
            /\ \A j \in (k + 1)..Len(outbox[t]) :
                  outbox[t][j].cycle = outbox[t][k].cycle
                      => outbox[t][j].type = "LateReceipt"

\* An injection the engine has been given, whatever became of the request since
Submitted == {i \in Injections : inject[i] \in {"caching", "persisting", "done", "lost"}}

\* A sync point of cycle c tells of injections into c that the engine was given,
\* and of each of them once.
Honest(given, c, sync) ==
    /\ \A k \in DOMAIN sync : sync[k] \in given /\ TargetOf[sync[k]] = c
    /\ \A j, k \in DOMAIN sync : sync[j] = sync[k] => j = k

HonestSnapshot(given, c, snapshot) ==
    snapshot # NoSnapshot => Honest(given, c, snapshot.sync)

\* The handlers read a snapshot, wait, write it back to the cache and store it,
\* in any order with each other, with the task's update, with a load from the
\* database and with stores that come late or fail.  These races may forget an
\* injection; no snapshot, queued sync point or drive ever tells one twice, to
\* another cycle, or before the engine has it.
SnapshotsInventNothing ==
    /\ \A c \in Cycles :
          /\ HonestSnapshot(Submitted, c, cache[c])
          /\ HonestSnapshot(Submitted, c, db[c])
          /\ \A k \in DOMAIN registry[c] : Honest(Submitted, c, registry[c][k])
    /\ \A i \in Injections : HonestSnapshot(Submitted, TargetOf[i], read[i])
    /\ current # NoCycle => Honest(Submitted, current, taken)

\* The contract of a cycle, as the state of the service implements it.
AtWork(c) ==
    \/ Occurrences(pending[TenantOf[c]], c) > 0
    \/ current = c /\ c \notin finalized

EndMessages == [type : {"Ended", "LateReceipt"}, cycle : Cycles]

Contract == INSTANCE CycleContract WITH
    stage <- [c \in Cycles |-> IF c \in finalized THEN "final"
                               ELSE IF AtWork(c) THEN "open" ELSE "absent"],
    log <- [t \in Tenants |-> Retain(outbox[t], EndMessages)]

\* The service implements the contract: every step of a handler, a task, the
\* drive or a crash is one of its steps or leaves its state alone.
ImplementsContract == Contract!ContractSpec

\* The mutex is released again after every drive.
MutexIsReleased == (holder # Nobody) ~> (holder = Nobody)

\* A cycle in the queue comes to its end, or the drive that popped it failed,
\* or the process died.
QueuedCyclesAreDriven ==
    \A c \in Cycles : AtWork(c) ~> ~AtWork(c)

-----------------------------------------------------------------------------
(* What the repository says of the service and the code does not do         *)

\* One Finalized message per cycle is ever in the outbox (test T2 and the event
\* schema: "Final" is unique).
OneFinalizedMessage ==
    \A t \in Tenants : \A j, k \in DOMAIN outbox[t] :
        outbox[t][j] = outbox[t][k] /\ outbox[t][j].type = "Finalized" => j = k

\* A sync point, and so what it injects, is absorbed once (the README's "sync
\* points are absorbed once").
InjectionsAbsorbedOnce == \A i \in Injections : absorbed[i] <= 1

\* An injection that was acknowledged reaches its cycle (the thin-waist API:
\* the request appends the injection to the cycle).
AcknowledgedInjectionsAreAbsorbed ==
    \A i \in Injections : inject[i] = "persisting" ~> absorbed[i] > 0

=============================================================================
