-------------------------- MODULE AceServiceProofs --------------------------
(***************************************************************************)
(* Type correctness and the safety invariants of AceService, for any       *)
(* number of tenants, cycles, injections and crashes, in both lane modes,  *)
(* with and without failures; and that it implements CycleContract: with   *)
(* the stage of a cycle and the log of a tenant read off its state as      *)
(* ImplementsContract does, its first states are the contract's, and every *)
(* step of it is one of the contract's or leaves the stage and the log     *)
(* alone.                                                                  *)
(***************************************************************************)
EXTENDS AceService, RetainTheorems

-----------------------------------------------------------------------------
(* How appending to a queue and taking its head change what is in it.       *)

LEMMA PositionsFinite ==
  ASSUME NEW S, NEW s \in Seq(S), NEW x
  PROVE  IsFiniteSet({k \in DOMAIN s : s[k] = x})
<1>1. IsFiniteSet(1..Len(s))
  BY FS_Interval
<1> QED
  BY <1>1, FS_Subset

LEMMA OccurrencesType ==
  ASSUME NEW S, NEW s \in Seq(S), NEW x
  PROVE  Occurrences(s, x) \in Nat
BY PositionsFinite, FS_CardinalityType DEF Occurrences

LEMMA OccurrencesOfEmpty == \A x : Occurrences(<<>>, x) = 0
BY FS_EmptySet DEF Occurrences

LEMMA OccurrencesOfAppend ==
  ASSUME NEW S, NEW s \in Seq(S), NEW x, NEW y \in S
  PROVE  Occurrences(Append(s, y), x) = Occurrences(s, x) + (IF y = x THEN 1 ELSE 0)
<1> DEFINE At(q) == {k \in DOMAIN q : q[k] = x}
<1>1. At(Append(s, y)) = IF y = x THEN At(s) \cup {Len(s) + 1} ELSE At(s)
  OBVIOUS
<1>2. Len(s) + 1 \notin At(s)
  OBVIOUS
<1>3. IsFiniteSet(At(s)) /\ Cardinality(At(s)) \in Nat
  BY PositionsFinite, FS_CardinalityType
<1>4. \A q : Occurrences(q, x) = Cardinality(At(q))
  BY DEF Occurrences
<1> HIDE DEF At
<1>5. Cardinality(At(s) \cup {Len(s) + 1}) = Cardinality(At(s)) + 1
  BY <1>2, <1>3, FS_AddElement
<1>6. CASE y = x
  BY <1>1, <1>4, <1>5, <1>6
<1>7. CASE y # x
  BY <1>1, <1>3, <1>4, <1>7
<1> QED
  BY <1>6, <1>7

LEMMA OccurrencesOfTail ==
  ASSUME NEW S, NEW s \in Seq(S), s # <<>>, NEW x
  PROVE  Occurrences(s, x) =
            Occurrences(Tail(s), x) + (IF Head(s) = x THEN 1 ELSE 0)
<1> DEFINE At(q) == {k \in DOMAIN q : q[k] = x}
           shift == [k \in At(Tail(s)) |-> k + 1]
           moved == At(s) \ {1}
<1>1. shift \in Bijection(At(Tail(s)), moved)
  <2>1. Tail(s) \in Seq(S) /\ Len(Tail(s)) = Len(s) - 1
    OBVIOUS
  <2>2. \A k \in DOMAIN Tail(s) : Tail(s)[k] = s[k + 1]
    OBVIOUS
  <2>3. shift \in [At(Tail(s)) -> moved]
    BY <2>1, <2>2
  <2>4. \A j, k \in At(Tail(s)) : shift[j] = shift[k] => j = k
    BY <2>1
  <2>5. \A m \in moved : \E k \in At(Tail(s)) : shift[k] = m
    <3> TAKE m \in moved
    <3>1. m - 1 \in At(Tail(s))
      BY <2>1, <2>2
    <3> QED
      BY <3>1
  <2> HIDE DEF At, shift, moved
  <2>6. shift \in Injection(At(Tail(s)), moved)
    BY <2>3, <2>4 DEF Injection, IsInjective
  <2>7. shift \in Surjection(At(Tail(s)), moved)
    BY <2>3, <2>5 DEF Surjection
  <2> QED
    BY <2>6, <2>7 DEF Bijection
<1>2. IsFiniteSet(At(s)) /\ IsFiniteSet(At(Tail(s)))
  <2>1. Tail(s) \in Seq(S)
    OBVIOUS
  <2> QED
    BY <2>1, PositionsFinite
<1>3. Cardinality(At(Tail(s))) = Cardinality(moved)
  <2> HIDE DEF At, moved, shift
  <2>1. ExistsBijection(At(Tail(s)), moved)
    BY <1>1 DEF ExistsBijection
  <2> QED
    BY <1>2, <2>1, FS_Bijection
<1>4. 1 \in At(s) <=> Head(s) = x
  OBVIOUS
<1>5. \A q : Occurrences(q, x) = Cardinality(At(q))
  BY DEF Occurrences
<1>6. Cardinality(moved) =
        IF 1 \in At(s) THEN Cardinality(At(s)) - 1 ELSE Cardinality(At(s))
  <2> HIDE DEF At
  <2> QED
    BY <1>2, FS_RemoveElement
<1> HIDE DEF At, moved
<1> QED
  BY <1>2, <1>3, <1>4, <1>5, <1>6, FS_CardinalityType

-----------------------------------------------------------------------------
(* Type correctness: first what each method of the scheduler preserves.     *)

LEMMA InitialStatusType == \A l \in Lanes : InitialStatus(l) \in Statuses
  BY DEF Lanes, InitialStatus, Statuses

LEMMA TenantOfCycle == \A c \in Cycles : TenantOf[c] \in Tenants /\ LaneOf[c] \in Lanes
  BY CyclesAssumption DEF CyclesAssumption

LEMMA TenantOfHolderType == \A h \in Holders : TenantOfHolder(h) \in Tenants
  BY TenantOfCycle, ServiceAssumption DEF ServiceAssumption, Holders, TenantOfHolder

LEMMA ScheduleType ==
  ASSUME SchedulerTypeOK, NEW c \in Cycles, Schedule(c)
  PROVE  SchedulerTypeOK'
  BY InitialStatusType, TenantOfCycle DEF SchedulerTypeOK, Schedule

LEMMA RescheduleType ==
  ASSUME SchedulerTypeOK, NEW c \in Cycles, NEW s \in Statuses, Reschedule(c, s)
  PROVE  SchedulerTypeOK'
  BY TenantOfCycle DEF SchedulerTypeOK, Reschedule

LEMMA StartNextType ==
  ASSUME SchedulerTypeOK, NEW t \in Tenants, StartNext(t)
  PROVE  SchedulerTypeOK' /\ Head(pending[t]) \in Cycles
  BY TenantOfCycle DEF SchedulerTypeOK, StartNext, Statuses

LEMMA FinishType ==
  ASSUME SchedulerTypeOK, NEW c \in Cycles, NEW s \in Statuses, Finish(c, s)
  PROVE  SchedulerTypeOK'
  BY TenantOfCycle DEF SchedulerTypeOK, Finish

LEMMA MarkStatusType ==
  ASSUME SchedulerTypeOK, NEW c \in Cycles, NEW s \in Statuses \cup {NoStatus},
         MarkStatus(c, s)
  PROVE  SchedulerTypeOK'
  BY DEF SchedulerTypeOK, MarkStatus

LEMMA WaitElapsesType ==
  ASSUME SchedulerTypeOK, NEW t \in Tenants, WaitElapses(t)
  PROVE  SchedulerTypeOK'
  BY DEF SchedulerTypeOK, WaitElapses

LEMMA SchedulerUnchanged ==
  ASSUME SchedulerTypeOK, UNCHANGED schedulerVars
  PROVE  SchedulerTypeOK'
  BY DEF SchedulerTypeOK, schedulerVars

(* Then the parts of the service a step leaves alone.                       *)

LEMMA EngineUnchanged ==
  ASSUME EngineTypeOK, UNCHANGED engineVars
  PROVE  EngineTypeOK'
  BY DEF EngineTypeOK, engineVars

LEMMA DriveUnchanged ==
  ASSUME DriveTypeOK, UNCHANGED driveVars
  PROVE  DriveTypeOK'
  BY DEF DriveTypeOK, driveVars

LEMMA RequestUnchanged ==
  ASSUME RequestTypeOK, UNCHANGED requestVars
  PROVE  RequestTypeOK'
  BY DEF RequestTypeOK, requestVars

LEMMA StoreUnchanged ==
  ASSUME StoreTypeOK, UNCHANGED storeVars
  PROVE  StoreTypeOK'
  BY DEF StoreTypeOK, storeVars

(* And the helpers of the drive.                                            *)

LEMMA AcquireType ==
  ASSUME DriveTypeOK, NEW h \in Holders, Acquire(h)
  PROVE  DriveTypeOK'
  BY ServiceAssumption DEF ServiceAssumption, DriveTypeOK, Acquire, Phases, Holders

LEMMA ReleaseType ==
  ASSUME TypeOK, holder # Nobody, NEW well \in BOOLEAN, Release(well)
  PROVE  DriveTypeOK' /\ RequestTypeOK' /\ StoreTypeOK'
<1>1. DriveTypeOK'
  <2>1. taken' \in SyncPoints
    BY DEF Release, SyncPoints
  <2> QED
    BY <2>1 DEF DriveTypeOK, Release, Phases
<1>2. RequestTypeOK'
  <2>1. holder \in Cycles \/ holder \in Injections
    BY DEF TypeOK, DriveTypeOK, Holders
  <2>2. trigger' \in [Cycles -> TriggerSteps]
    BY <2>1 DEF TypeOK, RequestTypeOK, Release, TriggerSteps
  <2>3. background' \in [Injections -> TaskSteps]
    BY <2>1 DEF TypeOK, RequestTypeOK, Release, TaskSteps
  <2> QED
    BY <2>2, <2>3 DEF TypeOK, RequestTypeOK, Release
<1>3. StoreTypeOK'
  BY DEF TypeOK, StoreTypeOK, Release, storeVars
<1> QED
  BY <1>1, <1>2, <1>3

LEMMA NextCycleType ==
  ASSUME TypeOK, phase = "finalize", NextCycle
  PROVE  DriveTypeOK' /\ RequestTypeOK' /\ StoreTypeOK'
<1>1. DriveTypeOK'
  <2>1. taken' \in SyncPoints
    BY DEF NextCycle, SyncPoints
  <2>2. holder # Nobody
    BY DEF TypeOK, DriveTypeOK
  <2> QED
    BY <2>1, <2>2 DEF TypeOK, DriveTypeOK, NextCycle, Phases
<1>2. RequestTypeOK' /\ StoreTypeOK'
  BY DEF TypeOK, RequestTypeOK, StoreTypeOK, NextCycle, requestVars, storeVars
<1> QED
  BY <1>1, <1>2

LEMMA BatchType ==
  ASSUME EngineTypeOK, NEW c \in Cycles, NEW batch \in Seq(Messages), CommitBatch(c, batch)
  PROVE  outbox' \in [Tenants -> Seq(Messages)]
<1>1. outbox[TenantOf[c]] \o batch \in Seq(Messages)
  BY TenantOfCycle DEF EngineTypeOK
<1> QED
  BY <1>1, TenantOfCycle DEF EngineTypeOK, CommitBatch

LEMMA EndBatchType == \A c \in Cycles : EndBatch(c) \in Seq(Messages)
<1> SUFFICES ASSUME NEW c \in Cycles PROVE EndBatch(c) \in Seq(Messages)
  OBVIOUS
<1> DEFINE message(type) == [type |-> type, cycle |-> c]
<1>1. \A type \in MessageTypes : message(type) \in Messages
  BY DEF Messages
<1>2. <<message("Finalized"), message("Finalized"), message("Ended")>> \in Seq(Messages)
  BY <1>1 DEF MessageTypes
<1>3. <<message("LateSyncPoint")>> \in Seq(Messages)
  BY <1>1 DEF MessageTypes
<1>4. <<>> \in Seq(Messages)
  OBVIOUS
<1> QED
  BY <1>2, <1>3, <1>4 DEF EndBatch

LEMMA ReceiptBatchType == \A c \in Cycles : ReceiptBatch(c) \in Seq(Messages)
  BY DEF ReceiptBatch, Messages, MessageTypes

LEMMA StatusMergeType ==
  ASSUME NEW k, NEW s \in Statuses \cup {NoStatus}
  PROVE  /\ StatusBeforeMerge(k, s) \in Statuses \cup {NoStatus}
         /\ StatusAfterMerge(k, s) \in Statuses \cup {NoStatus}
  BY DEF StatusBeforeMerge, StatusAfterMerge, Statuses

LEMMA TypeInit == Init => TypeOK
<1> SUFFICES ASSUME Init PROVE TypeOK
  OBVIOUS
<1>1. SchedulerTypeOK
  BY DEF Init, SchedulerInit, SchedulerTypeOK
<1>2. EngineTypeOK
  BY DEF Init, EngineInit, EngineTypeOK, SyncPoints, Messages, Ages
<1>3. DriveTypeOK
  <2>1. taken \in SyncPoints
    BY DEF Init, DriveInit, SyncPoints
  <2> QED
    BY <2>1 DEF Init, DriveInit, DriveTypeOK, Phases
<1>4. RequestTypeOK
  BY DEF Init, RequestTypeOK, TriggerSteps, InjectSteps, TaskSteps
<1>5. StoreTypeOK /\ HistoryTypeOK
  BY DEF Init, StoreTypeOK, HistoryTypeOK
<1> QED
  BY <1>1, <1>2, <1>3, <1>4, <1>5 DEF TypeOK

LEMMA DriveType ==
  ASSUME TypeOK, Drive
  PROVE  TypeOK'
<1> USE DEF TypeOK
<1>0. phase # "idle" /\ holder \in Holders /\ TenantOfHolder(holder) \in Tenants
  <2>1. phase # "idle"
    BY DEF Drive, DriveStartNext, DriveIdle, DriveDequeue, DriveAbsorb,
           DriveAbsorbFails, DriveFinalize, DriveFinalizeAgain, DriveForwardFails
  <2> QED
    BY <2>1, TenantOfHolderType DEF DriveTypeOK
<1>1. phase \notin {"idle", "next"} => current \in Cycles
  BY DEF DriveTypeOK
<1>2. CASE DriveStartNext
  <2>1. SchedulerTypeOK' /\ current' \in Cycles
    BY <1>0, <1>2, StartNextType DEF DriveStartNext
  <2>2. DriveTypeOK'
    BY <1>0, <1>2, <2>1, ServiceAssumption
       DEF DriveStartNext, DriveTypeOK, Phases, ServiceAssumption
  <2> QED
    BY <1>2, <2>1, <2>2, EngineUnchanged, RequestUnchanged, StoreUnchanged
       DEF DriveStartNext, HistoryTypeOK
<1>3. CASE DriveIdle
  <2>1. DriveTypeOK' /\ RequestTypeOK' /\ StoreTypeOK'
    BY <1>0, <1>3, ReleaseType DEF DriveIdle, DriveTypeOK
  <2> QED
    BY <1>3, <2>1, SchedulerUnchanged, EngineUnchanged
       DEF DriveIdle, Release, HistoryTypeOK
<1>4. CASE DriveDequeue
  <2>1. registry[current] \in Seq(SyncPoints) /\ registry[current] # <<>>
    BY <1>1, <1>4 DEF DriveDequeue, EngineTypeOK
  <2>2. Head(registry[current]) \in SyncPoints /\ Tail(registry[current]) \in Seq(SyncPoints)
    BY <2>1
  <2>3. EngineTypeOK'
    BY <1>1, <1>4, <2>2 DEF DriveDequeue, EngineTypeOK
  <2>4. DriveTypeOK'
    BY <1>4, <2>2 DEF DriveDequeue, DriveTypeOK, Phases
  <2> QED
    BY <1>4, <2>3, <2>4, SchedulerUnchanged, RequestUnchanged, StoreUnchanged
       DEF DriveDequeue, HistoryTypeOK
<1>5. CASE DriveAbsorb
  <2>1. SchedulerTypeOK'
    BY <1>1, <1>5, StatusMergeType, MarkStatusType DEF DriveAbsorb, SchedulerTypeOK
  <2>2. EngineTypeOK'
    BY <1>1, <1>5 DEF DriveAbsorb, EngineTypeOK
  <2>3. DriveTypeOK'
    BY <1>5 DEF DriveAbsorb, DriveTypeOK, Phases
  <2>4. HistoryTypeOK'
    BY <1>5, OccurrencesType DEF DriveAbsorb, HistoryTypeOK, DriveTypeOK, SyncPoints
  <2> QED
    BY <1>5, <2>1, <2>2, <2>3, <2>4, RequestUnchanged, StoreUnchanged DEF DriveAbsorb
<1>6. CASE DriveAbsorbFails
  <2>1. DriveTypeOK' /\ RequestTypeOK' /\ StoreTypeOK'
    BY <1>0, <1>6, ReleaseType DEF DriveAbsorbFails, DriveTypeOK
  <2>2. SchedulerTypeOK'
    BY <1>1, <1>6, StatusMergeType, MarkStatusType DEF DriveAbsorbFails, SchedulerTypeOK
  <2> QED
    BY <1>6, <2>1, <2>2, EngineUnchanged DEF DriveAbsorbFails, Release, HistoryTypeOK
<1>7. CASE DriveFinalize
  <2>1. DriveTypeOK' /\ RequestTypeOK' /\ StoreTypeOK'
    BY <1>7, NextCycleType DEF DriveFinalize
  <2>2. SchedulerTypeOK'
    BY <1>1, <1>7, FinishType DEF DriveFinalize, Statuses
  <2>3. outbox' \in [Tenants -> Seq(Messages)]
    BY <1>1, <1>7, BatchType, EndBatchType DEF DriveFinalize
  <2>4. EngineTypeOK'
    BY <1>1, <1>7, <2>3
       DEF DriveFinalize, EngineTypeOK, RegisterFinal, FinishCheckpoints, Ages
  <2> QED
    BY <1>7, <2>1, <2>2, <2>4 DEF DriveFinalize, NextCycle, HistoryTypeOK
<1>8. CASE DriveFinalizeAgain
  <2>1. DriveTypeOK' /\ RequestTypeOK' /\ StoreTypeOK'
    BY <1>8, NextCycleType DEF DriveFinalizeAgain
  <2>2. outbox' \in [Tenants -> Seq(Messages)]
    BY <1>1, <1>8, BatchType, ReceiptBatchType DEF DriveFinalizeAgain
  <2>3. EngineTypeOK'
    BY <1>8, <2>2 DEF DriveFinalizeAgain, EngineTypeOK
  <2> QED
    BY <1>8, <2>1, <2>3, SchedulerUnchanged
       DEF DriveFinalizeAgain, NextCycle, HistoryTypeOK
<1>9. CASE DriveForwardFails
  <2>1. DriveTypeOK' /\ RequestTypeOK' /\ StoreTypeOK'
    BY <1>0, <1>9, ReleaseType DEF DriveForwardFails, DriveTypeOK
  <2>2. outbox' \in [Tenants -> Seq(Messages)]
    BY <1>1, <1>9, BatchType, EndBatchType, ReceiptBatchType DEF DriveForwardFails
  <2>3. EngineTypeOK'
    BY <1>9, <2>2 DEF DriveForwardFails, EngineTypeOK
  <2> QED
    BY <1>9, <2>1, <2>3, SchedulerUnchanged DEF DriveForwardFails, Release, HistoryTypeOK
<1> QED
  BY <1>2, <1>3, <1>4, <1>5, <1>6, <1>7, <1>8, <1>9 DEF Drive

LEMMA SnapshotType ==
  /\ \A c \in Cycles : TriggerSnapshot(c) \in Snapshots
  /\ TypeOK => \A i \in Injections :
        read[i] # NoSnapshot => /\ InjectedSnapshot(i) \in Snapshots
                                /\ InjectedSnapshot(i).sync = Append(read[i].sync, i)
                                /\ read[i] \in Snapshots
<1>1. \A c \in Cycles : TriggerSnapshot(c) \in Snapshots
  <2>1. <<>> \in SyncPoints
    BY DEF SyncPoints
  <2> QED
    BY <2>1, InitialStatusType, TenantOfCycle DEF TriggerSnapshot, Snapshots
<1>2. ASSUME TypeOK, NEW i \in Injections, read[i] # NoSnapshot
      PROVE  /\ InjectedSnapshot(i) \in Snapshots
             /\ InjectedSnapshot(i).sync = Append(read[i].sync, i)
             /\ read[i] \in Snapshots
  <2>1. read[i] \in Snapshots
    BY <1>2 DEF TypeOK, RequestTypeOK
  <2>2. Append(read[i].sync, i) \in SyncPoints
    BY <2>1 DEF Snapshots, SyncPoints
  <2> QED
    BY <2>1, <2>2 DEF InjectedSnapshot, Snapshots
<1> QED
  BY <1>1, <1>2

LEMMA TriggerType ==
  ASSUME TypeOK, NEW c \in Cycles, Trigger(c)
  PROVE  TypeOK'
<1> USE DEF TypeOK
<1>1. CASE TriggerSubmit(c)
  <2>1. SchedulerTypeOK'
    BY <1>1, ScheduleType DEF TriggerSubmit
  <2>2. registry' \in [Cycles -> Seq(SyncPoints)]
    <3>1. << <<>>, <<>> >> \in Seq(SyncPoints)
      BY DEF SyncPoints
    <3>2. registry[c] \o << <<>>, <<>> >> \in Seq(SyncPoints)
      BY <3>1 DEF EngineTypeOK
    <3> QED
      BY <1>1, <3>2 DEF TriggerSubmit, EngineTypeOK
  <2>3. EngineTypeOK'
    BY <1>1, <2>2 DEF TriggerSubmit, EngineTypeOK, Ages
  <2>4. DriveTypeOK'
    BY <1>1, AcquireType DEF TriggerSubmit, Holders
  <2>5. RequestTypeOK'
    BY <1>1 DEF TriggerSubmit, RequestTypeOK, TriggerSteps
  <2> QED
    BY <1>1, <2>1, <2>3, <2>4, <2>5, StoreUnchanged DEF TriggerSubmit, HistoryTypeOK
<1>2. CASE TriggerRejected(c)
  <2>1. RequestTypeOK'
    BY <1>2 DEF TriggerRejected, RequestTypeOK, TriggerSteps
  <2> QED
    BY <1>2, <2>1, SchedulerUnchanged, EngineUnchanged, DriveUnchanged, StoreUnchanged
       DEF TriggerRejected, HistoryTypeOK
<1>3. CASE TriggerCache(c)
  <2>1. RequestTypeOK'
    BY <1>3 DEF TriggerCache, RequestTypeOK, TriggerSteps
  <2>2. StoreTypeOK'
    BY <1>3, SnapshotType DEF TriggerCache, StoreTypeOK
  <2> QED
    BY <1>3, <2>1, <2>2, SchedulerUnchanged, EngineUnchanged, DriveUnchanged
       DEF TriggerCache, HistoryTypeOK
<1>4. CASE TriggerPersist(c)
  <2>1. RequestTypeOK'
    BY <1>4 DEF TriggerPersist, RequestTypeOK, TriggerSteps
  <2>2. StoreTypeOK'
    BY <1>4, SnapshotType DEF TriggerPersist, StoreTypeOK
  <2> QED
    BY <1>4, <2>1, <2>2, SchedulerUnchanged, EngineUnchanged, DriveUnchanged
       DEF TriggerPersist, HistoryTypeOK
<1> QED
  BY <1>1, <1>2, <1>3, <1>4 DEF Trigger

LEMMA InjectType ==
  ASSUME TypeOK, NEW i \in Injections, Inject(i)
  PROVE  TypeOK'
<1> USE DEF TypeOK
<1>0. TargetOf[i] \in Cycles
  BY ServiceAssumption DEF ServiceAssumption
<1>1. CASE InjectRead(i)
  <2>1. RequestTypeOK'
    BY <1>0, <1>1 DEF InjectRead, RequestTypeOK, StoreTypeOK, InjectSteps
  <2> QED
    BY <1>1, <2>1, SchedulerUnchanged, EngineUnchanged, DriveUnchanged, StoreUnchanged
       DEF InjectRead, HistoryTypeOK
<1>2. CASE InjectLoad(i)
  <2>1. RequestTypeOK'
    BY <1>0, <1>2 DEF InjectLoad, RequestTypeOK, StoreTypeOK, InjectSteps
  <2>2. StoreTypeOK'
    BY <1>0, <1>2 DEF InjectLoad, StoreTypeOK
  <2> QED
    BY <1>2, <2>1, <2>2, SchedulerUnchanged, EngineUnchanged, DriveUnchanged
       DEF InjectLoad, HistoryTypeOK
<1>3. CASE InjectSubmit(i)
  <2>1. read[i] # NoSnapshot
    BY <1>3 DEF InjectSubmit, RequestTypeOK
  <2>2. read[i].status \in Statuses /\ InjectedSnapshot(i).sync \in SyncPoints
    BY <2>1, SnapshotType DEF Snapshots
  <2>3. SchedulerTypeOK'
    BY <1>0, <1>3, <2>2, RescheduleType DEF InjectSubmit
  <2>4. EngineTypeOK'
    <3>1. Append(registry[TargetOf[i]], InjectedSnapshot(i).sync) \in Seq(SyncPoints)
      BY <1>0, <2>2 DEF EngineTypeOK
    <3> QED
      BY <1>0, <1>3, <3>1 DEF InjectSubmit, Enqueue, EngineTypeOK
  <2>5. RequestTypeOK'
    BY <1>3, <2>1 DEF InjectSubmit, RequestTypeOK, InjectSteps, TaskSteps
  <2> QED
    BY <1>3, <2>3, <2>4, <2>5, DriveUnchanged, StoreUnchanged
       DEF InjectSubmit, HistoryTypeOK
<1>4. CASE InjectCache(i)
  <2>1. RequestTypeOK'
    BY <1>4 DEF InjectCache, RequestTypeOK, InjectSteps
  <2>2. StoreTypeOK'
    BY <1>0, <1>4, SnapshotType DEF InjectCache, StoreTypeOK, RequestTypeOK
  <2> QED
    BY <1>4, <2>1, <2>2, SchedulerUnchanged, EngineUnchanged, DriveUnchanged
       DEF InjectCache, HistoryTypeOK
<1>5. CASE InjectPersist(i)
  <2>1. RequestTypeOK'
    BY <1>5 DEF InjectPersist, RequestTypeOK, InjectSteps
  <2>2. StoreTypeOK'
    BY <1>0, <1>5, SnapshotType DEF InjectPersist, StoreTypeOK, RequestTypeOK
  <2> QED
    BY <1>5, <2>1, <2>2, SchedulerUnchanged, EngineUnchanged, DriveUnchanged
       DEF InjectPersist, HistoryTypeOK
<1> QED
  BY <1>1, <1>2, <1>3, <1>4, <1>5 DEF Inject

LEMMA TaskType ==
  ASSUME TypeOK, NEW i \in Injections, Task(i)
  PROVE  TypeOK'
<1> USE DEF TypeOK
<1>1. CASE TaskDrive(i)
  <2>1. RequestTypeOK'
    BY <1>1 DEF TaskDrive, RequestTypeOK, TaskSteps
  <2>2. DriveTypeOK'
    BY <1>1, AcquireType DEF TaskDrive, Holders
  <2> QED
    BY <1>1, <2>1, <2>2, SchedulerUnchanged, EngineUnchanged, StoreUnchanged
       DEF TaskDrive, HistoryTypeOK
<1>2. CASE TaskUpdate(i)
  <2>1. RequestTypeOK'
    BY <1>2 DEF TaskUpdate, RequestTypeOK, TaskSteps
  <2>2. StoreTypeOK'
    <3>1. \A s \in Snapshots : [s EXCEPT !.status = "Completed"] \in Snapshots
      BY DEF Snapshots, Statuses
    <3>2. TargetOf[i] \in Cycles
      BY ServiceAssumption DEF ServiceAssumption
    <3> QED
      BY <1>2, <3>1, <3>2 DEF TaskUpdate, StoreTypeOK
  <2> QED
    BY <1>2, <2>1, <2>2, SchedulerUnchanged, EngineUnchanged, DriveUnchanged
       DEF TaskUpdate, HistoryTypeOK
<1> QED
  BY <1>1, <1>2 DEF Task

LEMMA CrashType ==
  ASSUME TypeOK, Crash
  PROVE  TypeOK'
<1> USE DEF TypeOK
<1>1. SchedulerTypeOK'
  BY DEF Crash, SchedulerReset, SchedulerTypeOK
<1>2. EngineTypeOK'
  BY DEF Crash, EngineTypeOK, SyncPoints, Messages, Ages
<1>3. DriveTypeOK'
  <2>1. taken' \in SyncPoints
    BY DEF Crash, SyncPoints
  <2> QED
    BY <2>1 DEF Crash, DriveTypeOK, Phases
<1>4. RequestTypeOK'
  BY DEF Crash, RequestTypeOK, TriggerSteps, InjectSteps, TaskSteps
<1>5. StoreTypeOK' /\ HistoryTypeOK'
  BY DEF Crash, StoreTypeOK, HistoryTypeOK
<1> QED
  BY <1>1, <1>2, <1>3, <1>4, <1>5

LEMMA TypeStep == TypeOK /\ [Next]_vars => TypeOK'
<1> SUFFICES ASSUME TypeOK, [Next]_vars PROVE TypeOK'
  OBVIOUS
<1>1. CASE Drive
  BY <1>1, DriveType
<1>2. CASE \E c \in Cycles : Trigger(c)
  BY <1>2, TriggerType
<1>3. ASSUME NEW c \in Cycles, CheckpointAges(c) PROVE TypeOK'
  <2>1. EngineTypeOK'
    BY <1>3 DEF CheckpointAges, TypeOK, EngineTypeOK, Ages
  <2> QED
    BY <1>3, <2>1, SchedulerUnchanged, DriveUnchanged, RequestUnchanged, StoreUnchanged
       DEF CheckpointAges, TypeOK, HistoryTypeOK
<1>4. CASE \E i \in Injections : Inject(i) \/ Task(i)
  BY <1>4, InjectType, TaskType
<1>5. ASSUME NEW t \in Tenants, ClarifyWaitElapses(t) PROVE TypeOK'
  BY <1>5, WaitElapsesType, EngineUnchanged, DriveUnchanged, RequestUnchanged,
     StoreUnchanged DEF ClarifyWaitElapses, TypeOK, HistoryTypeOK
<1>6. CASE Crash
  BY <1>6, CrashType
<1>7. CASE Finished \/ UNCHANGED vars
  BY <1>7, SchedulerUnchanged, EngineUnchanged, DriveUnchanged, RequestUnchanged,
     StoreUnchanged DEF Finished, vars, TypeOK, HistoryTypeOK
<1> QED
  BY <1>1, <1>2, <1>3, <1>4, <1>5, <1>6, <1>7 DEF Next

\* Every variable keeps its type; what could break it is the saturating count
\* of the clarify rounds, the heads taken of queues, and a snapshot used by a
\* handler that never read one.
THEOREM TypeCorrect == Spec => []TypeOK
  BY TypeInit, TypeStep, PTL DEF Spec

-----------------------------------------------------------------------------
(* A cycle nobody has triggered is nowhere in the service.                  *)

Known(c) == trigger[c] # "idle"

\* Every cycle the queue, the drive, a snapshot or a request knows was
\* triggered, even when the trigger and everything in memory is lost by now.
OnlyTriggeredCycles ==
    /\ \A t \in Tenants : \A k \in DOMAIN pending[t] : Known(pending[t][k])
    /\ current # NoCycle => Known(current)
    /\ \A c \in finalized : Known(c)
    /\ \A c \in Cycles : cache[c] # NoSnapshot \/ db[c] # NoSnapshot => Known(c)
    /\ \A i \in Injections :
          inject[i] \in {"submitting", "caching", "persisting"} => Known(TargetOf[i])

LEMMA KnownForEver ==
  ASSUME TypeOK, [Next]_vars, NEW c \in Cycles, Known(c)
  PROVE  Known(c)'
<1> USE DEF Known
<1>0. trigger \in [Cycles -> TriggerSteps]
  BY DEF TypeOK, RequestTypeOK
<1>1. ASSUME NEW well \in BOOLEAN, Release(well) PROVE Known(c)'
  BY <1>0, <1>1 DEF Release
<1>2. CASE Drive
  BY <1>0, <1>1, <1>2 DEF Drive, DriveStartNext, DriveIdle, DriveDequeue, DriveAbsorb,
     DriveAbsorbFails, DriveFinalize, DriveFinalizeAgain, DriveForwardFails,
     NextCycle, requestVars
<1>3. CASE \E d \in Cycles : Trigger(d) \/ CheckpointAges(d)
  BY <1>0, <1>3 DEF Trigger, TriggerSubmit, TriggerRejected, TriggerCache, TriggerPersist,
     CheckpointAges, requestVars
<1>4. CASE \E i \in Injections : Inject(i) \/ Task(i)
  BY <1>0, <1>4 DEF Inject, InjectRead, InjectLoad, InjectSubmit, InjectCache,
     InjectPersist, Task, TaskDrive, TaskUpdate
<1>5. CASE Crash
  BY <1>0, <1>5 DEF Crash
<1>6. CASE (\E t \in Tenants : ClarifyWaitElapses(t)) \/ Finished \/ UNCHANGED vars
  BY <1>6 DEF ClarifyWaitElapses, Finished, vars, requestVars
<1> QED
  BY <1>2, <1>3, <1>4, <1>5, <1>6 DEF Next

LEMMA QueueOfKnownCycles ==
  ASSUME TypeOK, OnlyTriggeredCycles, [Next]_vars,
         NEW c \in Cycles, Known(c)',
         pending' = [pending EXCEPT ![TenantOf[c]] = Append(@, c)]
  PROVE  (\A t \in Tenants : \A k \in DOMAIN pending[t] : Known(pending[t][k]))'
<1> SUFFICES ASSUME NEW t \in Tenants, NEW k \in DOMAIN pending'[t]
             PROVE  trigger'[pending'[t][k]] # "idle"
  BY DEF Known
<1>1. pending[t] \in Seq(Cycles)
  BY DEF TypeOK, SchedulerTypeOK
<1>2. pending'[t] = IF t = TenantOf[c] THEN Append(pending[t], c) ELSE pending[t]
  BY TenantOfCycle DEF TypeOK, SchedulerTypeOK
<1>3. CASE k \in DOMAIN pending[t]
  <2>1. pending'[t][k] = pending[t][k] /\ pending[t][k] \in Cycles
    BY <1>1, <1>2, <1>3
  <2>2. Known(pending[t][k])
    BY <1>3 DEF OnlyTriggeredCycles
  <2> QED
    BY <2>1, <2>2, KnownForEver DEF Known
<1>4. CASE k \notin DOMAIN pending[t]
  <2>1. pending'[t][k] = c
    BY <1>1, <1>2, <1>4
  <2> QED
    BY <2>1 DEF Known
<1> QED
  BY <1>3, <1>4

LEMMA OnlyTriggeredStep == TypeOK /\ OnlyTriggeredCycles /\ [Next]_vars => OnlyTriggeredCycles'
<1> SUFFICES ASSUME TypeOK, OnlyTriggeredCycles, [Next]_vars PROVE OnlyTriggeredCycles'
  OBVIOUS
<1>0. \A c \in Cycles : Known(c) => Known(c)'
  BY KnownForEver
<1> DEFINE Queue   == \A t \in Tenants : \A k \in DOMAIN pending[t] : Known(pending[t][k])
           Drives  == current # NoCycle => Known(current)
           Final   == \A c \in finalized : Known(c)
           Stored  == \A c \in Cycles : cache[c] # NoSnapshot \/ db[c] # NoSnapshot => Known(c)
           Injects == \A i \in Injections :
              inject[i] \in {"submitting", "caching", "persisting"} => Known(TargetOf[i])
<1>1. Queue /\ Drives /\ Final /\ Stored /\ Injects
  BY DEF OnlyTriggeredCycles
<1>a. UNCHANGED pending => Queue'
  BY <1>0, <1>1 DEF TypeOK, SchedulerTypeOK, Known
<1>b. UNCHANGED current => Drives'
  BY <1>0, <1>1 DEF TypeOK, DriveTypeOK, Known
<1>c. UNCHANGED finalized => Final'
  BY <1>0, <1>1 DEF TypeOK, EngineTypeOK, Known
<1>d. UNCHANGED storeVars => Stored'
  BY <1>0, <1>1 DEF storeVars, Known
<1>e. UNCHANGED inject => Injects'
  BY <1>0, <1>1, ServiceAssumption DEF ServiceAssumption, Known
<1>all. Queue' /\ Drives' /\ Final' /\ Stored' /\ Injects' => OnlyTriggeredCycles'
  BY DEF OnlyTriggeredCycles
<1>drops. current' = NoCycle => Drives'
  OBVIOUS
<1>target. \A i \in Injections : TargetOf[i] \in Cycles
  BY ServiceAssumption DEF ServiceAssumption
<1> HIDE DEF Queue, Drives, Final, Stored, Injects
<1>2. CASE DriveStartNext
  <2>1. Queue' /\ Drives'
    <3> DEFINE t == TenantOfHolder(holder)
    <3>1. t \in Tenants /\ pending[t] \in Seq(Cycles) /\ pending[t] # <<>>
      <4>1. holder \in Holders
        BY <1>2 DEF DriveStartNext, TypeOK, DriveTypeOK
      <4> QED
        BY <1>2, <4>1, TenantOfHolderType
           DEF DriveStartNext, StartNext, TypeOK, SchedulerTypeOK
    <3> HIDE DEF t
    <3>2. pending' = [pending EXCEPT ![t] = Tail(@)] /\ current' = Head(pending[t])
      BY <1>2 DEF DriveStartNext, StartNext, t
    <3>3. Known(pending[t][1])
      BY <1>1, <3>1 DEF Queue
    <3>4. Drives'
      BY <1>0, <3>1, <3>2, <3>3 DEF Drives, Known
    <3>5. ASSUME NEW u \in Tenants, NEW k \in DOMAIN pending'[u]
          PROVE  \E j \in DOMAIN pending[u] : pending'[u][k] = pending[u][j]
      <4>1. pending[u] \in Seq(Cycles)
        BY DEF TypeOK, SchedulerTypeOK
      <4>2. CASE u = t
        <5>1. pending'[u] = Tail(pending[u])
          BY <3>1, <3>2, <4>2 DEF TypeOK, SchedulerTypeOK
        <5>2. k + 1 \in DOMAIN pending[u] /\ Tail(pending[u])[k] = pending[u][k + 1]
          BY <3>1, <3>5, <4>1, <4>2, <5>1
        <5> QED
          BY <5>1, <5>2
      <4>3. CASE u # t
        BY <3>2, <3>5, <4>3 DEF TypeOK, SchedulerTypeOK
      <4> QED
        BY <4>2, <4>3
    <3>6. \A u \in Tenants : \A j \in DOMAIN pending[u] :
             pending[u][j] \in Cycles /\ Known(pending[u][j])
      BY <1>1 DEF Queue, TypeOK, SchedulerTypeOK
    <3> QED
      BY <1>0, <3>4, <3>5, <3>6 DEF Queue, Known
  <2> QED
    BY <1>2, <1>c, <1>d, <1>e, <2>1, <1>all DEF DriveStartNext, engineVars, requestVars
<1>3. CASE DriveIdle \/ DriveAbsorbFails \/ DriveForwardFails
  BY <1>3, <1>a, <1>c, <1>d, <1>e, <1>drops, <1>all
     DEF DriveIdle, DriveAbsorbFails, DriveForwardFails, MarkStatus, Release,
         schedulerVars, engineVars
<1>4. CASE DriveDequeue \/ DriveAbsorb
  BY <1>4, <1>a, <1>b, <1>c, <1>d, <1>e, <1>all
     DEF DriveDequeue, DriveAbsorb, MarkStatus, schedulerVars, requestVars
<1>5. CASE DriveFinalize \/ DriveFinalizeAgain
  <2>1. current \in Cycles /\ Known(current)
    BY <1>1, <1>5 DEF Drives, DriveFinalize, DriveFinalizeAgain, TypeOK, DriveTypeOK
  <2>2. Final'
    <3>1. finalized' \subseteq finalized \cup {current}
      BY <1>5 DEF DriveFinalize, DriveFinalizeAgain, RegisterFinal
    <3> QED
      BY <1>0, <1>1, <2>1, <3>1 DEF Final, TypeOK, EngineTypeOK, Known
  <2> QED
    BY <1>5, <1>a, <1>d, <1>e, <1>drops, <1>all, <2>2
       DEF DriveFinalize, DriveFinalizeAgain, Finish, NextCycle, schedulerVars, requestVars
<1>6. ASSUME NEW c \in Cycles, Trigger(c) \/ CheckpointAges(c)
      PROVE  OnlyTriggeredCycles'
  <2>1. CASE TriggerSubmit(c)
    <3>1. Known(c)'
      BY <2>1 DEF TriggerSubmit, Known, TypeOK, RequestTypeOK
    <3>2. Queue'
      BY <2>1, <3>1, QueueOfKnownCycles DEF TriggerSubmit, Schedule, Queue
    <3> QED
      BY <2>1, <3>2, <1>b, <1>c, <1>d, <1>e, <1>all DEF TriggerSubmit, Acquire
  <2>2. CASE TriggerRejected(c) \/ CheckpointAges(c)
    BY <2>2, <1>a, <1>b, <1>c, <1>d, <1>e, <1>all
       DEF TriggerRejected, CheckpointAges, schedulerVars, engineVars, driveVars, requestVars
  <2>3. CASE TriggerCache(c) \/ TriggerPersist(c)
    <3>1. Known(c)
      BY <2>3 DEF TriggerCache, TriggerPersist, Known
    <3>2. \A d \in Cycles \ {c} : cache'[d] = cache[d] /\ db'[d] = db[d]
      BY <2>3 DEF TriggerCache, TriggerPersist, TypeOK, StoreTypeOK
    <3>3. Stored'
      BY <1>0, <1>1, <3>1, <3>2 DEF Stored, Known
    <3> QED
      BY <2>3, <3>3, <1>a, <1>b, <1>c, <1>e, <1>all
         DEF TriggerCache, TriggerPersist, schedulerVars, engineVars, driveVars
  <2> QED
    BY <1>6, <2>1, <2>2, <2>3 DEF Trigger
<1>7. ASSUME NEW i \in Injections, Inject(i) \/ Task(i)
      PROVE  OnlyTriggeredCycles'
  <2>1. CASE InjectRead(i) \/ InjectLoad(i)
    <3>1. inject'[i] = "submitting" => Known(TargetOf[i])
      BY <2>1, <1>1, <1>target
         DEF InjectRead, InjectLoad, Stored, TypeOK, RequestTypeOK
    <3>2. \A j \in Injections \ {i} : inject'[j] = inject[j]
      BY <2>1 DEF InjectRead, InjectLoad, TypeOK, RequestTypeOK
    <3>3. inject'[i] \in {"submitting", "loading", "notfound"}
      BY <2>1 DEF InjectRead, InjectLoad, TypeOK, RequestTypeOK
    <3>4. Injects'
      BY <1>0, <1>1, <1>target, <3>1, <3>2, <3>3 DEF Injects, Known
    <3>5. Stored'
      <4>1. \A d \in Cycles : cache'[d] \in {cache[d], db[d]} /\ db'[d] = db[d]
        BY <2>1, <1>target DEF InjectRead, InjectLoad, storeVars, TypeOK, StoreTypeOK
      <4> QED
        BY <1>0, <1>1, <4>1 DEF Stored, Known
    <3> QED
      BY <2>1, <3>4, <3>5, <1>a, <1>b, <1>c, <1>all
         DEF InjectRead, InjectLoad, schedulerVars, engineVars, driveVars
  <2>2. CASE InjectSubmit(i) \/ InjectCache(i) \/ InjectPersist(i)
    <3>1. Known(TargetOf[i])
      BY <2>2, <1>1 DEF InjectSubmit, InjectCache, InjectPersist, Injects
    <3>2. Known(TargetOf[i])'
      BY <1>0, <1>target, <3>1
    <3>3. Queue'
      BY <2>2, <1>a, <1>target, <3>2, QueueOfKnownCycles
         DEF InjectSubmit, InjectCache, InjectPersist, Reschedule, Queue, schedulerVars
    <3>4. Stored'
      <4>1. \A d \in Cycles \ {TargetOf[i]} : cache'[d] = cache[d] /\ db'[d] = db[d]
        BY <2>2 DEF InjectSubmit, InjectCache, InjectPersist, storeVars, TypeOK, StoreTypeOK
      <4> QED
        BY <1>0, <1>1, <3>2, <4>1 DEF Stored, Known
    <3>5. Injects'
      <4>1. \A j \in Injections \ {i} : inject'[j] = inject[j]
        BY <2>2 DEF InjectSubmit, InjectCache, InjectPersist, TypeOK, RequestTypeOK
      <4> QED
        BY <1>0, <1>1, <1>target, <3>2, <4>1 DEF Injects, Known
    <3> QED
      BY <2>2, <3>3, <3>4, <3>5, <1>b, <1>c, <1>all
         DEF InjectSubmit, InjectCache, InjectPersist, schedulerVars, engineVars, driveVars
  <2>3. CASE TaskDrive(i)
    BY <2>3, <1>a, <1>b, <1>c, <1>d, <1>e, <1>all
       DEF TaskDrive, Acquire, schedulerVars, engineVars
  <2>4. CASE TaskUpdate(i)
    <3>1. \A d \in Cycles : /\ cache'[d] # NoSnapshot => cache[d] # NoSnapshot
                            /\ db'[d] = db[d]
      BY <2>4, <1>target DEF TaskUpdate, TypeOK, StoreTypeOK
    <3>2. Stored'
      BY <1>0, <1>1, <3>1 DEF Stored
    <3> QED
      BY <2>4, <3>2, <1>a, <1>b, <1>c, <1>e, <1>all
         DEF TaskUpdate, schedulerVars, engineVars, driveVars
  <2> QED
    BY <1>7, <2>1, <2>2, <2>3, <2>4 DEF Inject, Task
<1>8. CASE Crash
  <2>1. Queue' /\ Drives' /\ Final'
    BY <1>8 DEF Crash, SchedulerReset, Queue, Drives, Final
  <2>2. Stored'
    BY <1>0, <1>1, <1>8 DEF Crash, Stored
  <2>3. Injects'
    BY <1>8 DEF Crash, Injects, TypeOK, RequestTypeOK
  <2> QED
    BY <2>1, <2>2, <2>3, <1>all
<1>9. CASE (\E t \in Tenants : ClarifyWaitElapses(t)) \/ Finished \/ UNCHANGED vars
  BY <1>9, <1>a, <1>b, <1>c, <1>d, <1>e, <1>all
     DEF ClarifyWaitElapses, WaitElapses, Finished, vars, schedulerVars, engineVars,
         driveVars, requestVars
<1> QED
  BY <1>2, <1>3, <1>4, <1>5, <1>6, <1>7, <1>8, <1>9 DEF Next, Drive

LEMMA OnlyTriggeredInit == Init => OnlyTriggeredCycles
BY DEF Init, SchedulerInit, EngineInit, DriveInit, OnlyTriggeredCycles

LEMMA OnlyTriggered == Spec => [](TypeOK /\ OnlyTriggeredCycles)
BY TypeInit, TypeStep, OnlyTriggeredInit, OnlyTriggeredStep, PTL DEF Spec

-----------------------------------------------------------------------------
LEMMA NoLaneHeldStep ==
  TypeOK /\ OnlyTriggeredCycles /\ FinalCyclesHoldNoLane /\ [Next]_vars
     => FinalCyclesHoldNoLane'
<1> SUFFICES ASSUME TypeOK, OnlyTriggeredCycles, FinalCyclesHoldNoLane, [Next]_vars
             PROVE  FinalCyclesHoldNoLane'
  OBVIOUS
<1> USE DEF FinalCyclesHoldNoLane
<1>1. CASE DriveFinalize
  <2>1. current \in Cycles
    BY <1>1 DEF DriveFinalize, TypeOK, DriveTypeOK
  <2> QED
    BY <1>1, <2>1 DEF DriveFinalize, RegisterFinal, FinishCheckpoints, TypeOK, EngineTypeOK
<1>2. ASSUME NEW c \in Cycles, TriggerSubmit(c) PROVE FinalCyclesHoldNoLane'
  <2>1. c \notin finalized
    BY <1>2 DEF TriggerSubmit, OnlyTriggeredCycles, Known
  <2> QED
    BY <1>2, <2>1 DEF TriggerSubmit, TypeOK, EngineTypeOK
<1>3. ASSUME NEW c \in Cycles, CheckpointAges(c) PROVE FinalCyclesHoldNoLane'
  BY <1>3 DEF CheckpointAges, TypeOK, EngineTypeOK
<1>4. CASE Crash
  BY <1>4 DEF Crash
<1>5. CASE UNCHANGED <<finalized, checkpoint>>
  BY <1>5
<1>6. CASE Drive
  BY <1>1, <1>5, <1>6 DEF Drive, DriveStartNext, DriveIdle, DriveDequeue, DriveAbsorb,
     DriveAbsorbFails, DriveFinalizeAgain, DriveForwardFails, engineVars
<1>7. ASSUME NEW c \in Cycles, Trigger(c) PROVE FinalCyclesHoldNoLane'
  BY <1>2, <1>5, <1>7 DEF Trigger, TriggerRejected, TriggerCache, TriggerPersist, engineVars
<1>8. ASSUME NEW i \in Injections, Inject(i) \/ Task(i) PROVE FinalCyclesHoldNoLane'
  BY <1>5, <1>8 DEF Inject, InjectRead, InjectLoad, InjectSubmit, InjectCache,
     InjectPersist, Task, TaskDrive, TaskUpdate, engineVars
<1>9. CASE (\E t \in Tenants : ClarifyWaitElapses(t)) \/ Finished \/ UNCHANGED vars
  BY <1>5, <1>9 DEF ClarifyWaitElapses, Finished, vars, engineVars
<1> QED
  BY <1>3, <1>4, <1>6, <1>7, <1>8, <1>9 DEF Next

\* A cycle that has come to its end holds no checkpoint: it never blocks the
\* lane of its tenant, because only a cycle nobody has triggered is recorded
\* and finish() erases the record with the rest of the tenant's.
THEOREM FinalCyclesFreeTheirLane == Spec => []FinalCyclesHoldNoLane
<1>1. Init => FinalCyclesHoldNoLane
  BY DEF Init, EngineInit, FinalCyclesHoldNoLane
<1> QED
  BY <1>1, NoLaneHeldStep, OnlyTriggered, PTL DEF Spec

-----------------------------------------------------------------------------
(* The drive finds a sync point for every cycle it pops.                    *)

\* The queue of a tenant has cycles of that tenant only.
QueuesAreOfTheirTenant ==
    \A t \in Tenants : \A k \in DOMAIN pending[t] : TenantOf[pending[t][k]] = t

InDrive(c) == IF phase = "dequeue" /\ current = c THEN 1 ELSE 0

LEMMA QueueAppend ==
  ASSUME TypeOK, QueuesAreOfTheirTenant, NEW c \in Cycles,
         pending' = [pending EXCEPT ![TenantOf[c]] = Append(@, c)]
  PROVE  /\ QueuesAreOfTheirTenant'
         /\ \A d \in Cycles :
               Occurrences(pending'[TenantOf[d]], d) =
                  Occurrences(pending[TenantOf[d]], d) + (IF c = d THEN 1 ELSE 0)
         /\ \A t \in Tenants :
               Len(pending'[t]) = Len(pending[t]) + (IF t = TenantOf[c] THEN 1 ELSE 0)
<1>1. \A t \in Tenants : pending[t] \in Seq(Cycles)
  BY DEF TypeOK, SchedulerTypeOK
<1>2. \A t \in Tenants :
         pending'[t] = IF t = TenantOf[c] THEN Append(pending[t], c) ELSE pending[t]
  BY TenantOfCycle DEF TypeOK, SchedulerTypeOK
<1>3. QueuesAreOfTheirTenant'
  <2> SUFFICES ASSUME NEW t \in Tenants, NEW k \in DOMAIN pending'[t]
               PROVE  TenantOf[pending'[t][k]] = t
    BY DEF QueuesAreOfTheirTenant
  <2> QED
    BY <1>1, <1>2 DEF QueuesAreOfTheirTenant
<1>4. ASSUME NEW d \in Cycles
      PROVE  Occurrences(pending'[TenantOf[d]], d) =
                Occurrences(pending[TenantOf[d]], d) + (IF c = d THEN 1 ELSE 0)
  <2>1. pending[TenantOf[d]] \in Seq(Cycles) /\ TenantOf[d] \in Tenants
    BY <1>1, TenantOfCycle
  <2>2. Occurrences(Append(pending[TenantOf[d]], c), d) =
           Occurrences(pending[TenantOf[d]], d) + (IF c = d THEN 1 ELSE 0)
    BY <2>1, OccurrencesOfAppend
  <2>3. Occurrences(pending[TenantOf[d]], d) \in Nat
    BY <2>1, OccurrencesType
  <2> QED
    BY <1>2, <2>1, <2>2, <2>3
<1>5. \A t \in Tenants :
         Len(pending'[t]) = Len(pending[t]) + (IF t = TenantOf[c] THEN 1 ELSE 0)
  <2> TAKE t \in Tenants
  <2>1. Len(Append(pending[t], c)) = Len(pending[t]) + 1 /\ Len(pending[t]) \in Nat
    BY <1>1
  <2>2. CASE t = TenantOf[c]
    BY <1>2, <2>1, <2>2
  <2>3. CASE t # TenantOf[c]
    BY <1>2, <2>1, <2>3
  <2> QED
    BY <2>2, <2>3
<1> QED
  BY <1>3, <1>4, <1>5

LEMMA QueuePop ==
  ASSUME TypeOK, QueuesAreOfTheirTenant, NEW t \in Tenants, StartNext(t)
  PROVE  LET c == Head(pending[t]) IN
         /\ c \in Cycles /\ TenantOf[c] = t
         /\ QueuesAreOfTheirTenant'
         /\ \A d \in Cycles :
               Occurrences(pending[TenantOf[d]], d) =
                  Occurrences(pending'[TenantOf[d]], d) + (IF c = d THEN 1 ELSE 0)
         /\ \A u \in Tenants :
               Len(pending[u]) = Len(pending'[u]) + (IF u = t THEN 1 ELSE 0)
<1> DEFINE c == Head(pending[t])
<1>1. \A u \in Tenants : pending[u] \in Seq(Cycles)
  BY DEF TypeOK, SchedulerTypeOK
<1>2. pending[t] # <<>>
  BY DEF StartNext
<1>3. \A u \in Tenants :
         pending'[u] = IF u = t THEN Tail(pending[u]) ELSE pending[u]
  BY DEF StartNext, TypeOK, SchedulerTypeOK
<1>4. c \in Cycles /\ TenantOf[c] = t
  <2>1. 1 \in DOMAIN pending[t] /\ c = pending[t][1]
    BY <1>1, <1>2
  <2> QED
    BY <1>1, <2>1 DEF QueuesAreOfTheirTenant
<1>5. QueuesAreOfTheirTenant'
  <2> SUFFICES ASSUME NEW u \in Tenants, NEW k \in DOMAIN pending'[u]
               PROVE  TenantOf[pending'[u][k]] = u
    BY DEF QueuesAreOfTheirTenant
  <2>1. CASE u = t
    <3>1. pending'[u] = Tail(pending[u]) /\ pending[u] # <<>>
      BY <1>2, <1>3, <2>1
    <3>2. k + 1 \in DOMAIN pending[u] /\ Tail(pending[u])[k] = pending[u][k + 1]
      BY <1>1, <3>1
    <3> QED
      BY <3>1, <3>2 DEF QueuesAreOfTheirTenant
  <2>2. CASE u # t
    BY <1>3, <2>2 DEF QueuesAreOfTheirTenant
  <2> QED
    BY <2>1, <2>2
<1>6. ASSUME NEW d \in Cycles
      PROVE  Occurrences(pending[TenantOf[d]], d) =
                Occurrences(pending'[TenantOf[d]], d) + (IF c = d THEN 1 ELSE 0)
  <2>1. TenantOf[d] \in Tenants /\ pending[TenantOf[d]] \in Seq(Cycles)
    BY <1>1, TenantOfCycle
  <2>2. CASE TenantOf[d] = t
    BY <1>2, <1>3, <2>1, <2>2, OccurrencesOfTail
  <2>3. CASE TenantOf[d] # t
    <3>1. c # d /\ pending'[TenantOf[d]] = pending[TenantOf[d]]
      BY <1>3, <1>4, <2>1, <2>3
    <3>2. Occurrences(pending[TenantOf[d]], d) \in Nat
      BY <2>1, OccurrencesType
    <3> HIDE DEF c
    <3> QED
      BY <3>1, <3>2
  <2> QED
    BY <2>2, <2>3
<1>7. \A u \in Tenants : Len(pending[u]) = Len(pending'[u]) + (IF u = t THEN 1 ELSE 0)
  <2> TAKE u \in Tenants
  <2>1. CASE u = t
    <3>1. pending'[u] = Tail(pending[u]) /\ pending[u] # <<>>
      BY <1>2, <1>3, <2>1
    <3>2. Len(pending[u]) = Len(Tail(pending[u])) + 1
      BY <1>1, <3>1
    <3> QED
      BY <2>1, <3>1, <3>2
  <2>2. CASE u # t
    <3>1. Len(pending[u]) \in Nat
      BY <1>1
    <3> QED
      BY <1>3, <2>2, <3>1
  <2> QED
    BY <2>1, <2>2
<1> QED
  BY <1>4, <1>5, <1>6, <1>7

LEMMA NeverBlocksStep ==
  TypeOK /\ QueuesAreOfTheirTenant /\ DriveNeverBlocks /\ [Next]_vars
     => QueuesAreOfTheirTenant' /\ DriveNeverBlocks'
<1> SUFFICES ASSUME TypeOK, QueuesAreOfTheirTenant, DriveNeverBlocks, [Next]_vars
             PROVE  QueuesAreOfTheirTenant' /\ DriveNeverBlocks'
  OBVIOUS
<1> DEFINE Queued(c) == Occurrences(pending[TenantOf[c]], c)
           Enough(c) == Queued(c) + InDrive(c) <= Len(registry[c])
<1>1. \A c \in Cycles : Enough(c)
  BY DEF DriveNeverBlocks, QueuedWork, InDrive
<1>2. (\A c \in Cycles : Enough(c)') => DriveNeverBlocks'
  BY DEF DriveNeverBlocks, QueuedWork, InDrive
<1>3. \A c \in Cycles : /\ Queued(c) \in Nat
                        /\ registry[c] \in Seq(SyncPoints)
                        /\ Len(registry[c]) \in Nat
  <2> SUFFICES ASSUME NEW c \in Cycles
               PROVE  Queued(c) \in Nat /\ registry[c] \in Seq(SyncPoints)
    OBVIOUS
  <2>1. pending[TenantOf[c]] \in Seq(Cycles)
    BY TenantOfCycle DEF TypeOK, SchedulerTypeOK
  <2> QED
    BY <2>1, OccurrencesType DEF TypeOK, EngineTypeOK
\* The steps that neither queue nor pop may end a drive but not begin a dequeue.
<1>4. ASSUME UNCHANGED <<pending, registry>>,
             phase' = "dequeue" => phase = "dequeue" /\ current' = current
      PROVE  QueuesAreOfTheirTenant' /\ DriveNeverBlocks'
  BY <1>1, <1>2, <1>3, <1>4 DEF InDrive, QueuesAreOfTheirTenant
<1>5. CASE DriveStartNext
  <2> DEFINE t == TenantOfHolder(holder)
             c == Head(pending[t])
  <2>1. t \in Tenants
    <3>1. holder \in Holders
      BY <1>5 DEF DriveStartNext, TypeOK, DriveTypeOK
    <3> QED
      BY <3>1, TenantOfHolderType
  <2>2. /\ QueuesAreOfTheirTenant'
        /\ \A d \in Cycles : Queued(d) = Queued(d)' + (IF c = d THEN 1 ELSE 0)
    BY <1>5, <2>1, QueuePop DEF DriveStartNext
  <2>3. /\ UNCHANGED registry
        /\ \A d \in Cycles : InDrive(d) = 0 /\ InDrive(d)' = IF c = d THEN 1 ELSE 0
    BY <1>5 DEF DriveStartNext, InDrive, engineVars
  <2>4. \A d \in Cycles : Queued(d)' \in Nat
    <3> SUFFICES ASSUME NEW d \in Cycles PROVE Occurrences(pending'[TenantOf[d]], d) \in Nat
      OBVIOUS
    <3>1. SchedulerTypeOK'
      BY TypeStep DEF TypeOK
    <3>2. pending'[TenantOf[d]] \in Seq(Cycles)
      BY <3>1, TenantOfCycle DEF SchedulerTypeOK
    <3> QED
      BY <3>2, OccurrencesType
  <2> HIDE DEF Queued, c, InDrive
  <2>5. \A d \in Cycles : Queued(d)' + InDrive(d)' <= Len(registry'[d])
    BY <1>1, <1>3, <2>2, <2>3, <2>4
  <2> QED
    BY <1>2, <2>2, <2>5 DEF Queued
<1>6. CASE DriveDequeue
  <2>1. current \in Cycles
    BY <1>6 DEF DriveDequeue, TypeOK, DriveTypeOK
  <2>2. \A d \in Cycles :
           Len(registry'[d]) = Len(registry[d]) - (IF d = current THEN 1 ELSE 0)
    BY <1>3, <1>6, <2>1 DEF DriveDequeue, TypeOK, EngineTypeOK
  <2>3. \A d \in Cycles : /\ InDrive(d) = IF d = current THEN 1 ELSE 0
                          /\ InDrive(d)' = 0
    BY <1>6 DEF DriveDequeue, InDrive
  <2>4. UNCHANGED pending
    BY <1>6 DEF DriveDequeue, schedulerVars
  <2>5. QueuesAreOfTheirTenant'
    BY <2>4 DEF QueuesAreOfTheirTenant
  <2>6. ASSUME NEW d \in Cycles PROVE Queued(d)' + InDrive(d)' <= Len(registry'[d])
    <3>1. /\ Queued(d) \in Nat /\ Len(registry[d]) \in Nat
          /\ Queued(d) + InDrive(d) <= Len(registry[d])
      BY <1>1, <1>3
    <3>2. Queued(d)' = Queued(d) /\ InDrive(d)' = 0
      BY <2>3, <2>4
    <3>3. CASE d = current
      <4>1. Len(registry'[d]) = Len(registry[d]) - 1 /\ InDrive(d) = 1
        BY <2>2, <2>3, <3>3
      <4> QED
        BY <3>1, <3>2, <4>1
    <3>4. CASE d # current
      <4>1. Len(registry'[d]) = Len(registry[d]) - 0
        BY <2>2, <3>4
      <4>2. InDrive(d) = 0
        BY <2>3, <3>4
      <4> QED
        BY <3>1, <3>2, <4>1, <4>2
    <3> QED
      BY <3>3, <3>4
  <2> QED
    BY <1>2, <2>5, <2>6
<1>7. ASSUME NEW c \in Cycles, NEW n \in {1, 2}, UNCHANGED <<phase, current>> \/ phase' = "next",
             pending' = [pending EXCEPT ![TenantOf[c]] = Append(@, c)],
             \A d \in Cycles :
                Len(registry'[d]) = Len(registry[d]) + (IF d = c THEN n ELSE 0)
      PROVE  QueuesAreOfTheirTenant' /\ DriveNeverBlocks'
  <2>1. /\ QueuesAreOfTheirTenant'
        /\ \A d \in Cycles : Queued(d)' = Queued(d) + (IF c = d THEN 1 ELSE 0)
    BY <1>7, QueueAppend
  <2>2. \A d \in Cycles : InDrive(d) \in {0, 1} /\ (InDrive(d)' = InDrive(d) \/ InDrive(d)' = 0)
    BY <1>7 DEF InDrive
  <2>3. ASSUME NEW d \in Cycles PROVE Queued(d)' + InDrive(d)' <= Len(registry'[d])
    <3>1. /\ Queued(d) \in Nat /\ Len(registry[d]) \in Nat
          /\ Queued(d) + InDrive(d) <= Len(registry[d])
      BY <1>1, <1>3
    <3>2. InDrive(d)' <= InDrive(d) /\ InDrive(d) \in {0, 1} /\ InDrive(d)' \in {0, 1}
      BY <2>2
    <3>3. CASE d = c
      <4>1. Queued(d)' = Queued(d) + 1 /\ Len(registry'[d]) = Len(registry[d]) + n
        BY <1>7, <2>1, <3>3
      <4> QED
        BY <3>1, <3>2, <4>1
    <3>4. CASE d # c
      <4>1. Queued(d)' = Queued(d) + 0 /\ Len(registry'[d]) = Len(registry[d]) + 0
        BY <1>7, <2>1, <3>4
      <4> QED
        BY <3>1, <3>2, <4>1
    <3> QED
      BY <3>3, <3>4
  <2> QED
    BY <1>2, <2>1, <2>3
<1>8. ASSUME NEW c \in Cycles, TriggerSubmit(c)
      PROVE  QueuesAreOfTheirTenant' /\ DriveNeverBlocks'
  <2>1. \A d \in Cycles :
           Len(registry'[d]) = Len(registry[d]) + (IF d = c THEN 2 ELSE 0)
    <3>1. << <<>>, <<>> >> \in Seq(SyncPoints) /\ Len(<< <<>>, <<>> >>) = 2
      BY DEF SyncPoints
    <3>2. Len(registry[c] \o << <<>>, <<>> >>) = Len(registry[c]) + 2
      BY <1>3, <3>1
    <3> QED
      BY <1>3, <1>8, <3>2 DEF TriggerSubmit, TypeOK, EngineTypeOK
  <2> QED
    BY <1>7, <1>8, <2>1 DEF TriggerSubmit, Schedule, Acquire
<1>9. ASSUME NEW i \in Injections, InjectSubmit(i)
      PROVE  QueuesAreOfTheirTenant' /\ DriveNeverBlocks'
  <2>1. TargetOf[i] \in Cycles
    BY ServiceAssumption DEF ServiceAssumption
  <2>2. \A d \in Cycles :
           Len(registry'[d]) = Len(registry[d]) + (IF d = TargetOf[i] THEN 1 ELSE 0)
    <3>1. InjectedSnapshot(i).sync \in SyncPoints
      BY <1>9, SnapshotType DEF InjectSubmit, TypeOK, RequestTypeOK, Snapshots
    <3> QED
      BY <1>3, <1>9, <2>1, <3>1 DEF InjectSubmit, Enqueue, TypeOK, EngineTypeOK
  <2> QED
    BY <1>7, <1>9, <2>1, <2>2 DEF InjectSubmit, Reschedule, driveVars
<1>10. CASE Crash
  <2>1. \A c \in Cycles : Queued(c)' = 0 /\ InDrive(c)' = 0 /\ Len(registry'[c]) = 0
    BY <1>10, TenantOfCycle, OccurrencesOfEmpty DEF Crash, SchedulerReset, InDrive
  <2>2. QueuesAreOfTheirTenant'
    BY <1>10 DEF Crash, SchedulerReset, QueuesAreOfTheirTenant
  <2> QED
    BY <1>2, <2>1, <2>2
<1>11. CASE Drive
  <2>1. CASE DriveIdle \/ DriveAbsorbFails \/ DriveForwardFails
    BY <1>4, <2>1 DEF DriveIdle, DriveAbsorbFails, DriveForwardFails, Release,
       MarkStatus, schedulerVars, engineVars
  <2>2. CASE DriveAbsorb
    BY <1>4, <2>2 DEF DriveAbsorb, MarkStatus
  <2>3. CASE DriveFinalize \/ DriveFinalizeAgain
    BY <1>4, <2>3 DEF DriveFinalize, DriveFinalizeAgain, NextCycle, Finish, schedulerVars
  <2> QED
    BY <1>5, <1>6, <1>11, <2>1, <2>2, <2>3 DEF Drive
<1>12. ASSUME NEW c \in Cycles, Trigger(c) \/ CheckpointAges(c)
      PROVE  QueuesAreOfTheirTenant' /\ DriveNeverBlocks'
  BY <1>4, <1>8, <1>12 DEF Trigger, TriggerRejected, TriggerCache, TriggerPersist,
     CheckpointAges, schedulerVars, engineVars, driveVars
<1>13. ASSUME NEW i \in Injections, Inject(i) \/ Task(i)
      PROVE  QueuesAreOfTheirTenant' /\ DriveNeverBlocks'
  BY <1>4, <1>9, <1>13 DEF Inject, InjectRead, InjectLoad, InjectCache, InjectPersist,
     Task, TaskDrive, TaskUpdate, Acquire, schedulerVars, engineVars, driveVars
<1>14. CASE (\E t \in Tenants : ClarifyWaitElapses(t)) \/ Finished \/ UNCHANGED vars
  <2>1. UNCHANGED <<pending, registry, phase, current>>
    BY <1>14 DEF ClarifyWaitElapses, WaitElapses, Finished, vars, schedulerVars,
       engineVars, driveVars
  <2> QED
    BY <1>4, <2>1
<1> QED
  BY <1>10, <1>11, <1>12, <1>13, <1>14 DEF Next

\* dequeue_blocking, called with the service mutex held, always finds a sync
\* point: whatever is triggered, injected, lost or fails, each queued copy of a
\* cycle has its own sync point in the registry.
THEOREM DrivesNeverBlock == Spec => []DriveNeverBlocks
<1>1. Init => QueuesAreOfTheirTenant /\ DriveNeverBlocks
  BY TenantOfCycle, OccurrencesOfEmpty
     DEF Init, SchedulerInit, EngineInit, DriveInit, QueuesAreOfTheirTenant,
         DriveNeverBlocks, QueuedWork
<1> QED
  BY <1>1, NeverBlocksStep, TypeInit, TypeStep, PTL DEF Spec
-----------------------------------------------------------------------------
(***************************************************************************)
(* What the snapshots tell.  The handlers read, wait and write back without *)
(* a lock that spans the three (ace_service.rs:547-720); whatever they      *)
(* overwrite, no snapshot and no sync point tells an injection twice, to    *)
(* another cycle, or before the engine was given it.                        *)
(***************************************************************************)

\* A request that works on a snapshot is not told by it yet: it was read before
\* the injection was submitted.
UntoldInRead ==
    \A i \in Injections :
        inject[i] \in {"submitting", "caching", "persisting"} =>
            \A k \in DOMAIN read[i].sync : read[i].sync[k] # i

\* Between two cycles the drive holds no sync point.
NothingLeftOver == current = NoCycle => taken = <<>>

\* The places SnapshotsInventNothing speaks of
CacheHonest == \A c \in Cycles : HonestSnapshot(Submitted, c, cache[c])
DbHonest    == \A c \in Cycles : HonestSnapshot(Submitted, c, db[c])
QueueHonest == \A c \in Cycles :
                  \A k \in DOMAIN registry[c] : Honest(Submitted, c, registry[c][k])
ReadHonest  == \A i \in Injections : HonestSnapshot(Submitted, TargetOf[i], read[i])
TakenHonest == current # NoCycle => Honest(Submitted, current, taken)

SnapshotInv ==
    /\ CacheHonest /\ DbHonest /\ QueueHonest /\ ReadHonest /\ TakenHonest
    /\ UntoldInRead
    /\ NothingLeftOver

-----------------------------------------------------------------------------
(* Honest sync points                                                       *)

LEMMA HonestEmpty == \A S, c : Honest(S, c, <<>>)
BY DEF Honest

LEMMA HonestGrows ==
  \A S, T, c, s : S \subseteq T /\ Honest(S, c, s) => Honest(T, c, s)
BY DEF Honest

LEMMA HonestSnapshotGrows ==
  \A S, T, c, snapshot :
     S \subseteq T /\ HonestSnapshot(S, c, snapshot) => HonestSnapshot(T, c, snapshot)
BY HonestGrows DEF HonestSnapshot

\* An injection the sync point does not tell may be appended to it.
LEMMA HonestAppend ==
  ASSUME NEW S, NEW c, NEW s \in SyncPoints, NEW i \in Injections,
         Honest(S, c, s), i \in S, TargetOf[i] = c,
         \A k \in DOMAIN s : s[k] # i
  PROVE  Honest(S, c, Append(s, i))
<1> DEFINE q == Append(s, i)
<1>1. /\ DOMAIN q = DOMAIN s \cup {Len(s) + 1}
      /\ q[Len(s) + 1] = i
      /\ \A k \in DOMAIN s : q[k] = s[k]
  BY DEF SyncPoints
<1> HIDE DEF q
<1>2. \A k \in DOMAIN q : q[k] \in S /\ TargetOf[q[k]] = c
  BY <1>1 DEF Honest
<1>3. \A j, k \in DOMAIN q : q[j] = q[k] => j = k
  BY <1>1 DEF Honest
<1>4. Honest(S, c, q)
  BY <1>2, <1>3 DEF Honest
<1> QED
  BY <1>4 DEF q

\* What a request makes of the snapshot it has read is honest once it is given
\* to the engine.
LEMMA InjectedIsHonest ==
  ASSUME TypeOK, SnapshotInv, NEW i \in Injections, NEW S, Submitted \subseteq S, i \in S,
         inject[i] \in {"submitting", "caching", "persisting"}
  PROVE  /\ HonestSnapshot(S, TargetOf[i], InjectedSnapshot(i))
         /\ Honest(S, TargetOf[i], InjectedSnapshot(i).sync)
<1>1. read[i] \in Snapshots /\ read[i] # NoSnapshot
  BY DEF TypeOK, RequestTypeOK
<1>2. Honest(S, TargetOf[i], read[i].sync)
  BY <1>1, HonestGrows DEF SnapshotInv, ReadHonest, HonestSnapshot
<1>3. \A k \in DOMAIN read[i].sync : read[i].sync[k] # i
  BY DEF SnapshotInv, UntoldInRead
<1>4. Honest(S, TargetOf[i], Append(read[i].sync, i))
  BY <1>1, <1>2, <1>3, HonestAppend DEF Snapshots
<1>5. InjectedSnapshot(i).sync = Append(read[i].sync, i)
  BY <1>1 DEF InjectedSnapshot, Snapshots
<1> QED
  BY <1>4, <1>5 DEF HonestSnapshot

\* Of one queue, appending an honest sync point and taking the head keep it.
LEMMA QueueAppends ==
  ASSUME NEW S, NEW c, NEW q \in Seq(SyncPoints), NEW s \in SyncPoints,
         \A k \in DOMAIN q : Honest(S, c, q[k]), Honest(S, c, s)
  PROVE  \A k \in DOMAIN Append(q, s) : Honest(S, c, Append(q, s)[k])
OBVIOUS

LEMMA QueueTail ==
  ASSUME NEW S, NEW c, NEW q \in Seq(SyncPoints), q # <<>>,
         \A k \in DOMAIN q : Honest(S, c, q[k])
  PROVE  /\ Honest(S, c, Head(q))
         /\ \A k \in DOMAIN Tail(q) : Honest(S, c, Tail(q)[k])
<1>1. \A k \in DOMAIN Tail(q) : k + 1 \in DOMAIN q /\ Tail(q)[k] = q[k + 1]
  OBVIOUS
<1>2. Head(q) = q[1] /\ 1 \in DOMAIN q
  OBVIOUS
<1> QED
  BY <1>1, <1>2
-----------------------------------------------------------------------------
(* Steps                                                                    *)

\* What a step leaves alone stays honest, for nothing submitted is taken back.
LEMMA CacheKept ==
  ASSUME CacheHonest, Submitted \subseteq Submitted', UNCHANGED cache PROVE CacheHonest'
BY HonestSnapshotGrows DEF CacheHonest

LEMMA DbKept ==
  ASSUME DbHonest, Submitted \subseteq Submitted', UNCHANGED db PROVE DbHonest'
BY HonestSnapshotGrows DEF DbHonest

LEMMA QueueKept ==
  ASSUME QueueHonest, Submitted \subseteq Submitted', UNCHANGED registry PROVE QueueHonest'
BY HonestGrows DEF QueueHonest

LEMMA ReadKept ==
  ASSUME ReadHonest, Submitted \subseteq Submitted', UNCHANGED read PROVE ReadHonest'
BY HonestSnapshotGrows DEF ReadHonest

LEMMA TakenKept ==
  ASSUME TakenHonest, NothingLeftOver, Submitted \subseteq Submitted',
         UNCHANGED <<current, taken>>
  PROVE  TakenHonest' /\ NothingLeftOver'
BY HonestGrows DEF TakenHonest, NothingLeftOver

LEMMA SnapshotsKept ==
  ASSUME SnapshotInv, UNCHANGED <<cache, db, registry, read, current, taken, inject>>
  PROVE  SnapshotInv'
<1>1. Submitted' = Submitted
  BY DEF Submitted
<1>2. UntoldInRead'
  BY DEF SnapshotInv, UntoldInRead
<1> QED
  BY <1>1, <1>2, CacheKept, DbKept, QueueKept, ReadKept, TakenKept DEF SnapshotInv

\* A drive moves one sync point from the queue of its cycle to its hands.
LEMMA DriveSnapshots ==
  ASSUME TypeOK, SnapshotInv, Drive PROVE SnapshotInv'
<1>0. /\ CacheHonest /\ DbHonest /\ QueueHonest /\ ReadHonest
      /\ TakenHonest /\ NothingLeftOver
      /\ registry \in [Cycles -> Seq(SyncPoints)]
  BY DEF SnapshotInv, TypeOK, EngineTypeOK
<1>1. UNCHANGED <<inject, read, cache, db>>
  BY DEF Drive, DriveStartNext, DriveIdle, DriveDequeue, DriveAbsorb, DriveAbsorbFails,
     DriveFinalize, DriveFinalizeAgain, DriveForwardFails, NextCycle, Release,
     requestVars, storeVars
<1>2. Submitted' = Submitted
  BY <1>1 DEF Submitted
<1>3. CacheHonest' /\ DbHonest' /\ ReadHonest'
  BY <1>0, <1>1, <1>2, CacheKept, DbKept, ReadKept
<1>4. UntoldInRead'
  BY <1>1 DEF SnapshotInv, UntoldInRead
\* The cycle start_next pops comes with nothing in hand,
<1>5. CASE DriveStartNext
  <2>1. taken = <<>> /\ UNCHANGED <<registry, taken>> /\ current' # NoCycle
    <3>1. TypeOK'
      BY DriveType
    <3> QED
      BY <1>0, <1>5, <3>1 DEF DriveStartNext, engineVars, NothingLeftOver, TypeOK, DriveTypeOK
  <2>2. TakenHonest' /\ NothingLeftOver'
    BY <2>1, HonestEmpty DEF TakenHonest, NothingLeftOver
  <2> QED
    BY <1>0, <1>2, <1>3, <1>4, <2>1, <2>2, QueueKept DEF SnapshotInv
\* dequeue_blocking takes the head of its queue,
<1>6. CASE DriveDequeue
  <2>1. /\ current \in Cycles /\ registry[current] \in Seq(SyncPoints)
        /\ registry[current] # <<>>
        /\ current' = current /\ current # NoCycle
        /\ taken' = Head(registry[current])
        /\ registry' = [registry EXCEPT ![current] = Tail(@)]
    BY <1>0, <1>6, ServiceAssumption DEF DriveDequeue, TypeOK, DriveTypeOK
  <2>2. \A k \in DOMAIN registry[current] : Honest(Submitted, current, registry[current][k])
    BY <1>0, <2>1 DEF QueueHonest
  <2>3. /\ Honest(Submitted, current, Head(registry[current]))
        /\ \A k \in DOMAIN Tail(registry[current]) :
              Honest(Submitted, current, Tail(registry[current])[k])
    BY <2>1, <2>2, QueueTail
  <2>4. QueueHonest'
    BY <1>0, <1>2, <2>1, <2>3 DEF QueueHonest
  <2>5. TakenHonest' /\ NothingLeftOver'
    BY <1>2, <2>1, <2>3 DEF TakenHonest, NothingLeftOver
  <2> QED
    BY <1>3, <1>4, <2>4, <2>5 DEF SnapshotInv
\* and whatever else it does drops what it took or keeps it.
<1>7. ASSUME UNCHANGED registry,
             UNCHANGED <<current, taken>> \/ (current' = NoCycle /\ taken' = <<>>)
      PROVE  SnapshotInv'
  <2>1. QueueHonest'
    BY <1>0, <1>2, <1>7, QueueKept
  <2>2. TakenHonest' /\ NothingLeftOver'
    <3>1. CASE UNCHANGED <<current, taken>>
      BY <1>0, <1>2, <3>1, TakenKept
    <3>2. CASE current' = NoCycle /\ taken' = <<>>
      BY <3>2 DEF TakenHonest, NothingLeftOver
    <3> QED
      BY <1>7, <3>1, <3>2
  <2> QED
    BY <1>3, <1>4, <2>1, <2>2 DEF SnapshotInv
<1>8. CASE DriveIdle \/ DriveAbsorbFails \/ DriveForwardFails
  BY <1>7, <1>8 DEF DriveIdle, DriveAbsorbFails, DriveForwardFails, Release, engineVars
<1>9. CASE DriveAbsorb \/ DriveFinalize \/ DriveFinalizeAgain
  BY <1>7, <1>9 DEF DriveAbsorb, DriveFinalize, DriveFinalizeAgain, NextCycle
<1> QED
  BY <1>5, <1>6, <1>8, <1>9 DEF Drive

\* A trigger writes sync points and snapshots that tell of nothing.
LEMMA TriggerSnapshots ==
  ASSUME TypeOK, SnapshotInv, NEW c \in Cycles, Trigger(c) PROVE SnapshotInv'
<1>0. /\ CacheHonest /\ DbHonest /\ QueueHonest /\ ReadHonest
      /\ TakenHonest /\ NothingLeftOver
      /\ registry \in [Cycles -> Seq(SyncPoints)]
      /\ cache \in [Cycles -> Snapshots \cup {NoSnapshot}]
      /\ db \in [Cycles -> Snapshots \cup {NoSnapshot}]
  BY DEF SnapshotInv, TypeOK, EngineTypeOK, StoreTypeOK
<1>1. UNCHANGED <<inject, read, current, taken>>
  BY DEF Trigger, TriggerSubmit, TriggerRejected, TriggerCache, TriggerPersist,
     Acquire, driveVars
<1>2. Submitted' = Submitted
  BY <1>1 DEF Submitted
<1>3. /\ ReadHonest' /\ TakenHonest' /\ NothingLeftOver' /\ UntoldInRead'
  BY <1>0, <1>1, <1>2, ReadKept, TakenKept DEF SnapshotInv, UntoldInRead
<1>4. HonestSnapshot(Submitted, c, TriggerSnapshot(c))
  BY HonestEmpty DEF HonestSnapshot, TriggerSnapshot
<1>5. CASE TriggerSubmit(c)
  <2>1. /\ UNCHANGED <<cache, db>>
        /\ registry' = [registry EXCEPT ![c] = @ \o << <<>>, <<>> >>]
    BY <1>5 DEF TriggerSubmit, storeVars
  <2>2. \A k \in DOMAIN registry[c] : Honest(Submitted, c, registry[c][k])
    BY <1>0 DEF QueueHonest
  <2>3. \A k \in DOMAIN (registry[c] \o << <<>>, <<>> >>) :
           Honest(Submitted, c, (registry[c] \o << <<>>, <<>> >>)[k])
    <3> DEFINE q == registry[c] \o << <<>>, <<>> >>
    <3>1. registry[c] \in Seq(SyncPoints)
      BY <1>0
    <3>2. \A k \in DOMAIN q : (k \in DOMAIN registry[c] /\ q[k] = registry[c][k]) \/ q[k] = <<>>
      BY <3>1
    <3> HIDE DEF q
    <3>3. \A k \in DOMAIN q : Honest(Submitted, c, q[k])
      BY <2>2, <3>2, HonestEmpty
    <3> QED
      BY <3>3 DEF q
  <2>4. QueueHonest'
    BY <1>0, <1>2, <2>1, <2>3 DEF QueueHonest
  <2> QED
    BY <1>0, <1>2, <1>3, <2>1, <2>4, CacheKept, DbKept DEF SnapshotInv
<1>6. CASE TriggerRejected(c)
  BY <1>1, <1>6, SnapshotsKept DEF TriggerRejected, engineVars, storeVars
<1>7. CASE TriggerCache(c)
  <2>1. UNCHANGED <<registry, db>> /\ cache' = [cache EXCEPT ![c] = TriggerSnapshot(c)]
    BY <1>7 DEF TriggerCache, engineVars
  <2>2. CacheHonest'
    BY <1>0, <1>2, <1>4, <2>1 DEF CacheHonest
  <2> QED
    BY <1>0, <1>2, <1>3, <2>1, <2>2, DbKept, QueueKept DEF SnapshotInv
<1>8. CASE TriggerPersist(c)
  <2>1. /\ UNCHANGED <<registry, cache>>
        /\ db' \in {db, [db EXCEPT ![c] = TriggerSnapshot(c)]}
    BY <1>8 DEF TriggerPersist, engineVars
  <2>2. DbHonest'
    BY <1>0, <1>2, <1>4, <2>1 DEF DbHonest
  <2> QED
    BY <1>0, <1>2, <1>3, <2>1, <2>2, CacheKept, QueueKept DEF SnapshotInv
<1> QED
  BY <1>5, <1>6, <1>7, <1>8 DEF Trigger

\* The handler of an injection: it reads before the engine has its injection,
\* and writes what it has read with the injection appended once it has.
LEMMA InjectSnapshots ==
  ASSUME TypeOK, SnapshotInv, NEW i \in Injections, Inject(i) PROVE SnapshotInv'
<1> DEFINE c == TargetOf[i]
<1>0. /\ CacheHonest /\ DbHonest /\ QueueHonest /\ ReadHonest
      /\ TakenHonest /\ NothingLeftOver /\ UntoldInRead
      /\ registry \in [Cycles -> Seq(SyncPoints)]
      /\ cache \in [Cycles -> Snapshots \cup {NoSnapshot}]
      /\ db \in [Cycles -> Snapshots \cup {NoSnapshot}]
      /\ read \in [Injections -> Snapshots \cup {NoSnapshot}]
      /\ inject \in [Injections -> InjectSteps]
      /\ c \in Cycles
  BY ServiceAssumption DEF SnapshotInv, TypeOK, EngineTypeOK, StoreTypeOK, RequestTypeOK
<1>1. UNCHANGED <<current, taken>>
  BY DEF Inject, InjectRead, InjectLoad, InjectSubmit, InjectCache, InjectPersist, driveVars
\* A snapshot read for an injection that is not submitted does not tell it.
<1>2. ASSUME NEW snapshot \in Snapshots, snapshot # NoSnapshot,
             HonestSnapshot(Submitted, c, snapshot),
             inject[i] \in {"idle", "loading"},
             inject' = [inject EXCEPT ![i] = "submitting"],
             read' = [read EXCEPT ![i] = snapshot]
      PROVE  Submitted' = Submitted /\ ReadHonest' /\ UntoldInRead'
  <2>1. Submitted' = Submitted /\ i \notin Submitted
    BY <1>0, <1>2 DEF Submitted
  <2>2. \A k \in DOMAIN snapshot.sync : snapshot.sync[k] # i
    BY <1>2, <2>1 DEF HonestSnapshot, Honest
  <2>3. ReadHonest'
    BY <1>0, <1>2, <2>1 DEF ReadHonest
  <2>4. UntoldInRead'
    BY <1>0, <1>2, <2>2 DEF UntoldInRead
  <2> QED
    BY <2>1, <2>3, <2>4
<1>3. CASE InjectRead(i)
  <2>1. UNCHANGED <<registry, cache, db>>
    BY <1>3 DEF InjectRead, engineVars, storeVars
  <2>2. CASE cache[c] # NoSnapshot
    <3>1. /\ inject[i] = "idle" /\ inject' = [inject EXCEPT ![i] = "submitting"]
          /\ read' = [read EXCEPT ![i] = cache[c]]
      BY <1>3, <2>2 DEF InjectRead
    <3>2. cache[c] \in Snapshots /\ HonestSnapshot(Submitted, c, cache[c])
      BY <1>0, <2>2 DEF CacheHonest
    <3>3. Submitted' = Submitted /\ ReadHonest' /\ UntoldInRead'
      BY <1>2, <2>2, <3>1, <3>2
    <3> QED
      BY <1>0, <1>1, <2>1, <3>3, CacheKept, DbKept, QueueKept, TakenKept DEF SnapshotInv
  <2>3. CASE cache[c] = NoSnapshot
    <3>1. /\ inject[i] = "idle" /\ inject' = [inject EXCEPT ![i] = "loading"]
          /\ UNCHANGED read
      BY <1>3, <2>3 DEF InjectRead
    <3>2. Submitted' = Submitted /\ UntoldInRead'
      BY <1>0, <3>1 DEF Submitted, UntoldInRead
    <3> QED
      BY <1>0, <1>1, <2>1, <3>1, <3>2, CacheKept, DbKept, QueueKept, ReadKept, TakenKept
         DEF SnapshotInv
  <2> QED
    BY <2>2, <2>3
<1>4. CASE InjectLoad(i)
  <2>1. UNCHANGED <<registry, db>> /\ inject[i] = "loading"
    BY <1>4 DEF InjectLoad, engineVars
  <2>2. CASE TenantOf[c] = DbTenant /\ db[c] # NoSnapshot
    <3>1. /\ inject' = [inject EXCEPT ![i] = "submitting"]
          /\ read' = [read EXCEPT ![i] = db[c]]
          /\ cache' = [cache EXCEPT ![c] = db[c]]
      BY <1>4, <2>2 DEF InjectLoad
    <3>2. db[c] \in Snapshots /\ HonestSnapshot(Submitted, c, db[c])
      BY <1>0, <2>2 DEF DbHonest
    <3>3. Submitted' = Submitted /\ ReadHonest' /\ UntoldInRead'
      BY <1>2, <2>1, <2>2, <3>1, <3>2
    <3>4. CacheHonest'
      BY <1>0, <3>1, <3>2, <3>3 DEF CacheHonest
    <3> QED
      BY <1>0, <1>1, <2>1, <3>3, <3>4, DbKept, QueueKept, TakenKept DEF SnapshotInv
  <2>3. CASE ~(TenantOf[c] = DbTenant /\ db[c] # NoSnapshot)
    <3>1. /\ inject' = [inject EXCEPT ![i] = "notfound"]
          /\ UNCHANGED <<read, cache>>
      BY <1>4, <2>3 DEF InjectLoad
    <3>2. Submitted' = Submitted /\ UntoldInRead'
      BY <1>0, <2>1, <3>1 DEF Submitted, UntoldInRead
    <3> QED
      BY <1>0, <1>1, <2>1, <3>1, <3>2, CacheKept, DbKept, QueueKept, ReadKept, TakenKept
         DEF SnapshotInv
  <2> QED
    BY <2>2, <2>3
<1>5. CASE InjectSubmit(i)
  <2>1. /\ UNCHANGED <<cache, db, read>> /\ inject[i] = "submitting"
        /\ inject' = [inject EXCEPT ![i] = "caching"]
        /\ registry' = [registry EXCEPT ![c] = Append(@, InjectedSnapshot(i).sync)]
    BY <1>5 DEF InjectSubmit, Enqueue, storeVars
  <2>2. Submitted \subseteq Submitted' /\ i \in Submitted'
    BY <1>0, <2>1 DEF Submitted
  <2>3. Honest(Submitted', c, InjectedSnapshot(i).sync)
    BY <2>1, <2>2, InjectedIsHonest
  <2>4. InjectedSnapshot(i).sync \in SyncPoints
    BY <1>0, <2>1, SnapshotType DEF TypeOK, RequestTypeOK, Snapshots
  <2>5. \A k \in DOMAIN registry[c] : Honest(Submitted', c, registry[c][k])
    BY <1>0, <2>2, HonestGrows DEF QueueHonest
  <2>6. \A k \in DOMAIN registry'[c] : Honest(Submitted', c, registry'[c][k])
    BY <1>0, <2>1, <2>3, <2>4, <2>5, QueueAppends
  <2>7. QueueHonest'
    BY <1>0, <2>1, <2>2, <2>6, HonestGrows DEF QueueHonest
  <2>8. UntoldInRead'
    BY <1>0, <2>1 DEF UntoldInRead
  <2> QED
    BY <1>0, <1>1, <2>1, <2>2, <2>7, <2>8, CacheKept, DbKept, ReadKept, TakenKept
       DEF SnapshotInv
<1>6. CASE InjectCache(i)
  <2>1. /\ UNCHANGED <<registry, db, read>> /\ inject[i] = "caching"
        /\ inject' = [inject EXCEPT ![i] = "persisting"]
        /\ cache' = [cache EXCEPT ![c] = InjectedSnapshot(i)]
    BY <1>6 DEF InjectCache, engineVars
  <2>2. Submitted' = Submitted /\ i \in Submitted
    BY <1>0, <2>1 DEF Submitted
  <2>3. HonestSnapshot(Submitted, c, InjectedSnapshot(i))
    BY <2>1, <2>2, InjectedIsHonest
  <2>4. CacheHonest'
    BY <1>0, <2>1, <2>2, <2>3 DEF CacheHonest
  <2>5. UntoldInRead'
    BY <1>0, <2>1 DEF UntoldInRead
  <2> QED
    BY <1>0, <1>1, <2>1, <2>2, <2>4, <2>5, DbKept, QueueKept, ReadKept, TakenKept
       DEF SnapshotInv
<1>7. CASE InjectPersist(i)
  <2>1. /\ UNCHANGED <<registry, cache>> /\ inject[i] = "persisting"
        /\ inject' = [inject EXCEPT ![i] = "done"]
        /\ read' = [read EXCEPT ![i] = NoSnapshot]
        /\ db' \in {db, [db EXCEPT ![c] = InjectedSnapshot(i)]}
    BY <1>7 DEF InjectPersist, engineVars
  <2>2. Submitted' = Submitted /\ i \in Submitted
    BY <1>0, <2>1 DEF Submitted
  <2>3. HonestSnapshot(Submitted, c, InjectedSnapshot(i))
    BY <2>1, <2>2, InjectedIsHonest
  <2>4. DbHonest'
    BY <1>0, <2>1, <2>2, <2>3 DEF DbHonest
  <2>5. ReadHonest' /\ UntoldInRead'
    BY <1>0, <2>1, <2>2 DEF ReadHonest, UntoldInRead, HonestSnapshot
  <2> QED
    BY <1>0, <1>1, <2>1, <2>2, <2>4, <2>5, CacheKept, QueueKept, TakenKept DEF SnapshotInv
<1> QED
  BY <1>3, <1>4, <1>5, <1>6, <1>7 DEF Inject

\* The task writes a status into the snapshot the cache has by now.
LEMMA TaskSnapshots ==
  ASSUME TypeOK, SnapshotInv, NEW i \in Injections, Task(i) PROVE SnapshotInv'
<1> DEFINE c == TargetOf[i]
<1>1. CASE TaskDrive(i)
  BY <1>1, SnapshotsKept DEF TaskDrive, Acquire, engineVars, storeVars
<1>2. CASE TaskUpdate(i)
  <2>0. cache \in [Cycles -> Snapshots \cup {NoSnapshot}] /\ c \in Cycles
    BY ServiceAssumption DEF TypeOK, StoreTypeOK
  <2>1. /\ UNCHANGED <<registry, current, taken, inject, read, db>>
        /\ cache' = IF cache[c] # NoSnapshot
                    THEN [cache EXCEPT ![c].status = "Completed"] ELSE cache
    BY <1>2 DEF TaskUpdate, engineVars, driveVars
  <2>2. Submitted' = Submitted
    BY <2>1 DEF Submitted
  <2>3. \A d \in Cycles : cache'[d] # NoSnapshot => cache[d] # NoSnapshot
                              /\ cache'[d].sync = cache[d].sync
    BY <2>0, <2>1 DEF Snapshots
  <2>4. CacheHonest'
    BY <2>2, <2>3 DEF SnapshotInv, CacheHonest, HonestSnapshot
  <2>5. UntoldInRead'
    BY <2>1 DEF SnapshotInv, UntoldInRead
  <2> QED
    BY <2>1, <2>2, <2>4, <2>5, DbKept, QueueKept, ReadKept, TakenKept DEF SnapshotInv
<1> QED
  BY <1>1, <1>2 DEF Task

\* A crash forgets everything but the database, which tells of nothing new.
LEMMA CrashSnapshots ==
  ASSUME TypeOK, SnapshotInv, Crash PROVE SnapshotInv'
<1>1. /\ UNCHANGED db /\ current' = NoCycle /\ taken' = <<>>
      /\ registry' = [d \in Cycles |-> <<>>]
      /\ cache' = [d \in Cycles |-> NoSnapshot]
      /\ read' = [i \in Injections |-> NoSnapshot]
      /\ inject' = [i \in Injections |->
                      IF inject[i] \in {"loading", "submitting", "caching", "persisting"}
                      THEN "lost" ELSE inject[i]]
  BY DEF Crash
<1>2. Submitted \subseteq Submitted'
  BY <1>1 DEF Submitted
<1>3. CacheHonest' /\ QueueHonest' /\ ReadHonest' /\ TakenHonest' /\ NothingLeftOver'
  BY <1>1 DEF CacheHonest, QueueHonest, ReadHonest, TakenHonest, NothingLeftOver,
     HonestSnapshot
<1>4. UntoldInRead'
  BY <1>1 DEF UntoldInRead
<1> QED
  BY <1>1, <1>2, <1>3, <1>4, DbKept DEF SnapshotInv

-----------------------------------------------------------------------------
LEMMA SnapshotInit == Init => SnapshotInv
BY HonestEmpty DEF Init, EngineInit, DriveInit, SnapshotInv, CacheHonest, DbHonest,
   QueueHonest, ReadHonest, TakenHonest, UntoldInRead, NothingLeftOver, HonestSnapshot

LEMMA SnapshotStep == TypeOK /\ SnapshotInv /\ [Next]_vars => SnapshotInv'
<1> SUFFICES ASSUME TypeOK, SnapshotInv, [Next]_vars PROVE SnapshotInv'
  OBVIOUS
<1>1. CASE Drive
  BY <1>1, DriveSnapshots
<1>2. ASSUME NEW c \in Cycles, Trigger(c) PROVE SnapshotInv'
  BY <1>2, TriggerSnapshots
<1>3. ASSUME NEW i \in Injections, Inject(i) \/ Task(i) PROVE SnapshotInv'
  BY <1>3, InjectSnapshots, TaskSnapshots
<1>4. CASE Crash
  BY <1>4, CrashSnapshots
<1>5. CASE \/ \E c \in Cycles : CheckpointAges(c)
           \/ \E t \in Tenants : ClarifyWaitElapses(t)
           \/ Finished
           \/ UNCHANGED vars
  BY <1>5, SnapshotsKept DEF CheckpointAges, ClarifyWaitElapses, Finished, vars,
     engineVars, driveVars, requestVars, storeVars
<1> QED
  BY <1>1, <1>2, <1>3, <1>4, <1>5 DEF Next

\* The races of the handlers over the cached and the stored snapshot may forget
\* an injection; they never tell one twice, to another cycle, or before the
\* engine has it, for any cycles, injections and crashes.
THEOREM SnapshotsAreHonest == Spec => []SnapshotsInventNothing
<1>1. SnapshotInv => SnapshotsInventNothing
  BY DEF SnapshotInv, SnapshotsInventNothing, CacheHonest, DbHonest, QueueHonest,
     ReadHonest, TakenHonest
<1> QED
  BY <1>1, SnapshotInit, SnapshotStep, TypeInit, TypeStep, PTL DEF Spec

-----------------------------------------------------------------------------
(***************************************************************************)
(* What a tenant is owed: its clarify rounds back, a drive for each cycle  *)
(* it has queued, and an outbox in which receipts follow ends.             *)
(***************************************************************************)

-----------------------------------------------------------------------------
(* Rounds.  Only finitely many cycles were ever triggered, so that the      *)
(* unfinished clarifications of a tenant can be counted.                    *)

Triggered == {c \in Cycles : Known(c)}

LEMMA UnfinishedIsFinite ==
  ASSUME IsFiniteSet(Triggered), NEW t \in Tenants
  PROVE  /\ IsFiniteSet(UnfinishedClarifies(t))
         /\ Cardinality(UnfinishedClarifies(t)) \in Nat
<1>1. UnfinishedClarifies(t) \in SUBSET Triggered
  BY DEF UnfinishedClarifies, Triggered, Known
<1>2. IsFiniteSet(UnfinishedClarifies(t))
  BY <1>1, FS_Subset
<1> QED
  BY <1>2, FS_CardinalityType

\* At most one trigger becomes known in a step.
LEMMA TriggeredStep ==
  ASSUME TypeOK, IsFiniteSet(Triggered), [Next]_vars
  PROVE  IsFiniteSet(Triggered')
<1>0. trigger \in [Cycles -> TriggerSteps]
  BY DEF TypeOK, RequestTypeOK
<1>1. ASSUME NEW c, \A d \in Cycles : trigger'[d] # "idle" => trigger[d] # "idle" \/ d = c
      PROVE  IsFiniteSet(Triggered')
  <2>1. IsFiniteSet(Triggered \cup {c})
    BY FS_AddElement
  <2>2. Triggered' \in SUBSET (Triggered \cup {c})
    BY <1>1 DEF Triggered, Known
  <2> QED
    BY <2>1, <2>2, FS_Subset
<1>2. CASE Drive
  <2>1. \A d \in Cycles : trigger'[d] # "idle" => trigger[d] # "idle" \/ d = holder
    BY <1>0, <1>2 DEF Drive, DriveStartNext, DriveIdle, DriveDequeue, DriveAbsorb,
       DriveAbsorbFails, DriveFinalize, DriveFinalizeAgain, DriveForwardFails,
       NextCycle, Release, requestVars
  <2> QED
    BY <1>1, <2>1
<1>3. ASSUME NEW c \in Cycles, Trigger(c) \/ CheckpointAges(c) PROVE IsFiniteSet(Triggered')
  <2>1. \A d \in Cycles : trigger'[d] # "idle" => trigger[d] # "idle" \/ d = c
    BY <1>0, <1>3 DEF Trigger, TriggerSubmit, TriggerRejected, TriggerCache, TriggerPersist,
       CheckpointAges, requestVars
  <2> QED
    BY <1>1, <2>1
<1>4. CASE UNCHANGED trigger
  BY <1>1, <1>4
<1>5. ASSUME NEW i \in Injections, Inject(i) \/ Task(i) PROVE UNCHANGED trigger
  BY <1>5 DEF Inject, InjectRead, InjectLoad, InjectSubmit, InjectCache,
     InjectPersist, Task, TaskDrive, TaskUpdate
<1>6. CASE Crash
  BY <1>0, <1>1, <1>6 DEF Crash
<1>7. CASE (\E t \in Tenants : ClarifyWaitElapses(t)) \/ Finished \/ UNCHANGED vars
  BY <1>4, <1>7 DEF ClarifyWaitElapses, Finished, vars, requestVars
<1> QED
  BY <1>2, <1>3, <1>4, <1>5, <1>6, <1>7 DEF Next

LEMMA RoundsStep ==
  ASSUME TypeOK, OnlyTriggeredCycles, IsFiniteSet(Triggered), RoundsAreOwed, [Next]_vars
  PROVE  RoundsAreOwed'
<1>0. /\ trigger \in [Cycles -> TriggerSteps] /\ rounds \in [Tenants -> Nat]
      /\ finalized \subseteq Cycles
  BY DEF TypeOK, RequestTypeOK, SchedulerTypeOK, EngineTypeOK
<1>1. IsFiniteSet(Triggered')
  BY TriggeredStep
<1> DEFINE Owed(t) == UnfinishedClarifies(t)
<1>2. \A t \in Tenants : /\ IsFiniteSet(Owed(t)) /\ Cardinality(Owed(t)) \in Nat
                         /\ rounds[t] \in Nat /\ rounds[t] <= Cardinality(Owed(t))
  BY <1>0, UnfinishedIsFinite DEF RoundsAreOwed
<1>3. \A t \in Tenants : IsFiniteSet(Owed(t)') /\ Cardinality(Owed(t)') \in Nat
  <2> SUFFICES ASSUME NEW t \in Tenants
               PROVE  IsFiniteSet(Owed(t)') /\ Cardinality(Owed(t)') \in Nat
    OBVIOUS
  <2>1. Owed(t)' \in SUBSET Triggered'
    BY DEF UnfinishedClarifies, Triggered, Known
  <2>2. IsFiniteSet(Owed(t)')
    BY <1>1, <2>1, FS_Subset
  <2> QED
    BY <2>2, FS_CardinalityType
\* Nobody finishes and no round is counted.
<1>4. ASSUME UNCHANGED <<rounds, finalized>>,
             \A c \in Cycles : trigger[c] \notin {"idle", "rejected"}
                                  => trigger'[c] \notin {"idle", "rejected"}
      PROVE  RoundsAreOwed'
  <2> SUFFICES ASSUME NEW t \in Tenants PROVE rounds'[t] <= Cardinality(Owed(t)')
    BY DEF RoundsAreOwed
  <2>1. Owed(t) \in SUBSET Owed(t)'
    BY <1>4 DEF UnfinishedClarifies
  <2>2. Cardinality(Owed(t)) <= Cardinality(Owed(t)')
    BY <1>3, <2>1, FS_Subset
  <2> HIDE DEF Owed
  <2> QED
    BY <1>2, <1>3, <1>4, <2>2
<1>5. ASSUME NEW c \in Cycles, TriggerSubmit(c) PROVE RoundsAreOwed'
  <2> DEFINE q == TenantOf[c]
  <2>1. /\ trigger[c] = "idle" /\ trigger' = [trigger EXCEPT ![c] = "driving"]
        /\ UNCHANGED finalized
        /\ rounds' = [rounds EXCEPT ![q] = IF LaneOf[c] = "Clarify" THEN @ + 1 ELSE @]
        /\ q \in Tenants
    BY <1>5, TenantOfCycle DEF TriggerSubmit, Schedule
  <2>2. c \notin finalized
    BY <2>1 DEF OnlyTriggeredCycles, Known
  <2>3. \A t \in Tenants : Owed(t)' = IF t = q /\ LaneOf[c] = "Clarify"
                                      THEN Owed(t) \cup {c} ELSE Owed(t)
    BY <1>0, <2>1, <2>2 DEF UnfinishedClarifies
  <2>4. \A t \in Tenants : c \notin Owed(t)
    BY <2>1 DEF UnfinishedClarifies
  <2> SUFFICES ASSUME NEW t \in Tenants PROVE rounds'[t] <= Cardinality(Owed(t)')
    BY DEF RoundsAreOwed
  <2> HIDE DEF Owed
  <2>5. CASE t = q /\ LaneOf[c] = "Clarify"
    <3>1. Cardinality(Owed(t)') = Cardinality(Owed(t)) + 1
      BY <1>2, <2>3, <2>4, <2>5, FS_AddElement
    <3>2. rounds'[t] = rounds[t] + 1
      BY <1>0, <2>1, <2>5
    <3> QED
      BY <1>2, <3>1, <3>2
  <2>6. CASE ~(t = q /\ LaneOf[c] = "Clarify")
    <3>1. rounds'[t] = rounds[t] /\ Owed(t)' = Owed(t)
      BY <1>0, <2>1, <2>3, <2>6
    <3> QED
      BY <1>2, <3>1
  <2> QED
    BY <2>5, <2>6
<1>6. CASE DriveFinalize
  <2> DEFINE q == TenantOf[current]
  <2>1. current \in Cycles /\ q \in Tenants
    BY <1>6, TenantOfCycle DEF DriveFinalize, TypeOK, DriveTypeOK
  <2>2. /\ UNCHANGED trigger /\ finalized' = finalized \cup {current}
        /\ rounds' = [rounds EXCEPT ![q] = IF @ > 0 THEN @ - 1 ELSE 0]
    BY <1>6 DEF DriveFinalize, NextCycle, RegisterFinal, Finish, requestVars
  <2>3. \A t \in Tenants : Owed(t)' = IF t = q THEN Owed(t) \ {current} ELSE Owed(t)
    BY <2>1, <2>2 DEF UnfinishedClarifies
  <2> SUFFICES ASSUME NEW t \in Tenants PROVE rounds'[t] <= Cardinality(Owed(t)')
    BY DEF RoundsAreOwed
  <2> HIDE DEF Owed
  <2>4. CASE t = q
    <3>1. Cardinality(Owed(t)') \in {Cardinality(Owed(t)), Cardinality(Owed(t)) - 1}
      BY <1>2, <2>3, <2>4, FS_RemoveElement
    <3>2. rounds'[t] = IF rounds[t] > 0 THEN rounds[t] - 1 ELSE 0
      BY <1>0, <2>1, <2>2, <2>4
    <3> QED
      BY <1>2, <1>3, <3>1, <3>2
  <2>5. CASE t # q
    <3>1. rounds'[t] = rounds[t] /\ Owed(t)' = Owed(t)
      BY <1>0, <2>1, <2>2, <2>3, <2>5
    <3> QED
      BY <1>2, <3>1
  <2> QED
    BY <2>4, <2>5
<1>7. CASE Crash
  <2>1. \A t \in Tenants : rounds'[t] = 0
    BY <1>7 DEF Crash, SchedulerReset
  <2> HIDE DEF Owed
  <2>2. \A t \in Tenants : rounds'[t] <= Cardinality(Owed(t)')
    BY <1>3, <2>1
  <2> QED
    BY <2>2 DEF RoundsAreOwed, Owed
<1>8. CASE Drive
  BY <1>0, <1>4, <1>6, <1>8 DEF Drive, DriveStartNext, DriveIdle, DriveDequeue, DriveAbsorb,
     DriveAbsorbFails, DriveFinalizeAgain, DriveForwardFails, StartNext, MarkStatus,
     NextCycle, Release, requestVars, schedulerVars, engineVars
<1>9. ASSUME NEW c \in Cycles, Trigger(c) \/ CheckpointAges(c) PROVE RoundsAreOwed'
  BY <1>0, <1>4, <1>5, <1>9 DEF Trigger, TriggerRejected, TriggerCache, TriggerPersist,
     CheckpointAges, requestVars, schedulerVars, engineVars
<1>10. ASSUME NEW i \in Injections, Inject(i) \/ Task(i) PROVE RoundsAreOwed'
  BY <1>4, <1>10 DEF Inject, InjectRead, InjectLoad, InjectSubmit, InjectCache,
     InjectPersist, Task, TaskDrive, TaskUpdate, Reschedule, schedulerVars, engineVars
<1>11. CASE (\E t \in Tenants : ClarifyWaitElapses(t)) \/ Finished \/ UNCHANGED vars
  BY <1>4, <1>11 DEF ClarifyWaitElapses, WaitElapses, Finished, vars, requestVars,
     schedulerVars, engineVars
<1> QED
  BY <1>7, <1>8, <1>9, <1>10, <1>11 DEF Next

\* A tenant never owes more clarify rounds than it has unfinished
\* clarifications, though finish() is called for every lane and for cycles that
\* reschedule() never counted: the clarify gate never rejects for a round whose
\* cycle has come to its end.
THEOREM TenantsOweTheirRounds == Spec => []RoundsAreOwed
<1>1. Init => IsFiniteSet(Triggered) /\ RoundsAreOwed
  <2> SUFFICES ASSUME Init PROVE IsFiniteSet(Triggered) /\ RoundsAreOwed
    OBVIOUS
  <2>1. Triggered = {}
    BY DEF Init, Triggered, Known
  <2>2. IsFiniteSet(Triggered)
    BY <2>1, FS_EmptySet
  <2>3. \A t \in Tenants : rounds[t] = 0 /\ Cardinality(UnfinishedClarifies(t)) \in Nat
    BY <2>2, UnfinishedIsFinite DEF Init, SchedulerInit
  <2> QED
    BY <2>2, <2>3 DEF RoundsAreOwed
<1>2. TypeOK /\ IsFiniteSet(Triggered) /\ [Next]_vars => IsFiniteSet(Triggered)'
  BY TriggeredStep
<1>3. TypeOK /\ OnlyTriggeredCycles /\ IsFiniteSet(Triggered) /\ RoundsAreOwed /\ [Next]_vars
         => RoundsAreOwed'
  BY RoundsStep
<1> QED
  BY <1>1, <1>2, <1>3, OnlyTriggered, PTL DEF Spec

-----------------------------------------------------------------------------
(* Drives.  The drives that will still pop the queue of a tenant are the    *)
(* tasks that are ready and, until its first start_next, the holder of the  *)
(* mutex; what a task has become tells the two apart.                       *)

Ready(t)    == {i \in Injections : background[i] = "ready" /\ TenantOf[TargetOf[i]] = t}
Starting(t) == holder # Nobody /\ TenantOfHolder(holder) = t /\ phase = "next" /\ ~drove

\* A task is spawned by the submission and is no longer ready when it has the
\* mutex; only finitely many are ready.
TasksInOrder ==
    /\ \A i \in Injections :
          inject[i] \in {"idle", "loading", "submitting"} => background[i] = "none"
    /\ holder \in Injections => background[holder] = "driving"
    /\ phase = "idle" => ~drove
    /\ IsFiniteSet({i \in Injections : background[i] = "ready"})

LEMMA DrivesCount ==
  ASSUME TypeOK, TasksInOrder, NEW t \in Tenants
  PROVE  /\ IsFiniteSet(Ready(t)) /\ Cardinality(Ready(t)) \in Nat
         /\ Cardinality(DrivesToCome(t)) =
               Cardinality(Ready(t)) + (IF Starting(t) THEN 1 ELSE 0)
<1>1. IsFiniteSet(Ready(t)) /\ Cardinality(Ready(t)) \in Nat
  <2>1. Ready(t) \in SUBSET {i \in Injections : background[i] = "ready"}
    BY DEF Ready
  <2> QED
    BY <2>1, FS_Subset, FS_CardinalityType DEF TasksInOrder
<1>2. CASE Starting(t)
  <2>1. DrivesToCome(t) = Ready(t) \cup {holder} /\ holder \notin Ready(t)
    BY <1>2 DEF DrivesToCome, Ready, Starting, TasksInOrder
  <2> QED
    BY <1>1, <1>2, <2>1, FS_AddElement
<1>3. CASE ~Starting(t)
  <2>1. DrivesToCome(t) = Ready(t)
    BY <1>3 DEF DrivesToCome, Ready, Starting
  <2> QED
    BY <1>1, <1>3, <2>1
<1> QED
  BY <1>1, <1>2, <1>3

LEMMA TasksStep == TypeOK /\ TasksInOrder /\ [Next]_vars => TasksInOrder'
<1> SUFFICES ASSUME TypeOK, TasksInOrder, [Next]_vars PROVE TasksInOrder'
  OBVIOUS
<1>0. /\ background \in [Injections -> TaskSteps] /\ inject \in [Injections -> InjectSteps]
      /\ Nobody \notin Injections /\ Nobody \notin Cycles /\ Cycles \cap Injections = {}
      /\ holder \in Cycles \cup Injections \cup {Nobody} /\ (phase = "idle" <=> holder = Nobody)
  BY ServiceAssumption
     DEF TypeOK, RequestTypeOK, DriveTypeOK, Holders, ServiceAssumption
<1> DEFINE AllReady == {i \in Injections : background[i] = "ready"}
\* What is ready stays so or is joined by at most one task.
<1>1. ASSUME NEW i, AllReady' \subseteq AllReady \cup {i} PROVE IsFiniteSet(AllReady')
  <2>1. IsFiniteSet(AllReady \cup {i})
    BY FS_AddElement DEF TasksInOrder
  <2> HIDE DEF AllReady
  <2> QED
    BY <1>1, <2>1, FS_Subset
<1>2. ASSUME UNCHANGED <<background, holder>>, phase' = "idle" => ~drove',
             \A i \in Injections : inject'[i] \in {"idle", "loading", "submitting"}
                                    => inject[i] \in {"idle", "loading", "submitting"}
      PROVE  TasksInOrder'
  BY <1>2 DEF TasksInOrder
<1>3. ASSUME NEW well \in BOOLEAN, holder # Nobody, Release(well) PROVE TasksInOrder'
  <2>1. AllReady' \subseteq AllReady \cup {Nobody}
    BY <1>0, <1>3 DEF Release
  <2>2. IsFiniteSet(AllReady')
    BY <1>1, <2>1
  <2> QED
    BY <1>0, <1>3, <2>2 DEF Release, TasksInOrder
<1>4. ASSUME NEW i \in Injections, InjectSubmit(i) PROVE TasksInOrder'
  <2>1. AllReady' \subseteq AllReady \cup {i}
    BY <1>0, <1>4 DEF InjectSubmit
  <2>2. IsFiniteSet(AllReady')
    BY <1>1, <2>1
  <2> QED
    BY <1>0, <1>4, <2>2 DEF InjectSubmit, TasksInOrder, driveVars
<1>5. ASSUME NEW i \in Injections, TaskDrive(i) \/ TaskUpdate(i) PROVE TasksInOrder'
  <2>1. AllReady' \subseteq AllReady \cup {i}
    BY <1>0, <1>5 DEF TaskDrive, TaskUpdate
  <2>2. IsFiniteSet(AllReady')
    BY <1>1, <2>1
  <2> QED
    BY <1>0, <1>5, <2>2 DEF TaskDrive, TaskUpdate, Acquire, TasksInOrder, driveVars
<1>6. ASSUME NEW c \in Cycles, TriggerSubmit(c) PROVE TasksInOrder'
  BY <1>0, <1>6 DEF TriggerSubmit, Acquire, TasksInOrder
<1>7. CASE Crash
  <2>1. AllReady' \subseteq AllReady \cup {Nobody}
    BY <1>7 DEF Crash
  <2>2. IsFiniteSet(AllReady')
    BY <1>1, <2>1
  <2> QED
    BY <1>0, <1>7, <2>2 DEF Crash, TasksInOrder
<1>8. CASE Drive
  <2>1. holder # Nobody
    BY <1>0, <1>8 DEF Drive, DriveStartNext, DriveIdle, DriveDequeue, DriveAbsorb,
       DriveAbsorbFails, DriveFinalize, DriveFinalizeAgain, DriveForwardFails
  <2>2. CASE DriveIdle \/ DriveAbsorbFails \/ DriveForwardFails
    BY <1>3, <2>1, <2>2 DEF DriveIdle, DriveAbsorbFails, DriveForwardFails
  <2>3. CASE DriveStartNext \/ DriveDequeue \/ DriveAbsorb
    BY <1>2, <2>3 DEF DriveStartNext, DriveDequeue, DriveAbsorb, requestVars
  <2>4. CASE DriveFinalize \/ DriveFinalizeAgain
    BY <1>2, <2>4 DEF DriveFinalize, DriveFinalizeAgain, NextCycle, requestVars
  <2> QED
    BY <1>8, <2>2, <2>3, <2>4 DEF Drive
<1>9. ASSUME NEW c \in Cycles, Trigger(c) \/ CheckpointAges(c) PROVE TasksInOrder'
  <2>1. CASE TriggerRejected(c) \/ TriggerCache(c) \/ TriggerPersist(c) \/ CheckpointAges(c)
    BY <1>2, <2>1 DEF TasksInOrder, TriggerRejected, TriggerCache, TriggerPersist,
       CheckpointAges, requestVars, driveVars
  <2> QED
    BY <1>6, <1>9, <2>1 DEF Trigger
<1>10. ASSUME NEW i \in Injections, Inject(i) \/ Task(i) PROVE TasksInOrder'
  <2>1. CASE InjectRead(i) \/ InjectLoad(i) \/ InjectCache(i) \/ InjectPersist(i)
    <3>1. UNCHANGED <<background, holder, phase, drove>>
      BY <2>1 DEF InjectRead, InjectLoad, InjectCache, InjectPersist, driveVars
    <3>2. \A j \in Injections : inject'[j] \in {"idle", "loading", "submitting"}
                                    => inject[j] \in {"idle", "loading", "submitting"}
      BY <1>0, <2>1 DEF InjectRead, InjectLoad, InjectCache, InjectPersist
    <3> QED
      BY <1>2, <3>1, <3>2 DEF TasksInOrder
  <2> QED
    BY <1>4, <1>5, <1>10, <2>1 DEF Inject, Task
<1>11. CASE (\E t \in Tenants : ClarifyWaitElapses(t)) \/ Finished \/ UNCHANGED vars
  BY <1>2, <1>11 DEF TasksInOrder, ClarifyWaitElapses, Finished, vars, requestVars, driveVars
<1> QED
  BY <1>7, <1>8, <1>9, <1>10, <1>11 DEF Next

LEMMA StrandedStep ==
  TypeOK /\ QueuesAreOfTheirTenant /\ TasksInOrder /\ NothingIsStranded /\ [Next]_vars
     => NothingIsStranded'
<1> SUFFICES ASSUME TypeOK, QueuesAreOfTheirTenant, TasksInOrder, NothingIsStranded, [Next]_vars
             PROVE  NothingIsStranded'
  OBVIOUS
<1>0. /\ background \in [Injections -> TaskSteps]
      /\ Nobody \notin Injections /\ Nobody \notin Cycles /\ Cycles \cap Injections = {}
      /\ holder \in Cycles \cup Injections \cup {Nobody} /\ (phase = "idle" <=> holder = Nobody)
      /\ \A i \in Injections : TargetOf[i] \in Cycles
  BY ServiceAssumption
     DEF TypeOK, RequestTypeOK, DriveTypeOK, Holders, ServiceAssumption
<1> DEFINE Count(t) == Cardinality(Ready(t)) + (IF Starting(t) THEN 1 ELSE 0)
           Enough(t) == Len(pending[t]) <= Count(t)
<1>1. TypeOK' /\ TasksInOrder'
  BY TypeStep, TasksStep
<1>2. \A t \in Tenants :
         /\ Enough(t) /\ Len(pending[t]) \in Nat /\ Cardinality(Ready(t)) \in Nat
         /\ IsFiniteSet(Ready(t))
  BY DrivesCount DEF NothingIsStranded, TypeOK, SchedulerTypeOK
<1>3. \A t \in Tenants : Len(pending'[t]) \in Nat /\ Cardinality(Ready(t)') \in Nat
  <2> SUFFICES ASSUME NEW t \in Tenants
               PROVE  Len(pending'[t]) \in Nat /\ Cardinality(Ready(t)') \in Nat
    OBVIOUS
  <2>1. pending'[t] \in Seq(Cycles)
    BY <1>1 DEF TypeOK, SchedulerTypeOK
  <2>2. IsFiniteSet(Ready(t)')
    <3>1. Ready(t)' \in SUBSET {i \in Injections : background'[i] = "ready"}
      BY DEF Ready
    <3> QED
      BY <1>1, <3>1, FS_Subset DEF TasksInOrder
  <2> QED
    BY <2>1, <2>2, FS_CardinalityType
<1>4. (\A t \in Tenants : Enough(t)') => NothingIsStranded'
  <2> SUFFICES ASSUME NEW t \in Tenants, Enough(t)'
               PROVE  Len(pending'[t]) <= Cardinality(DrivesToCome(t)')
    BY DEF NothingIsStranded
  <2>1. Cardinality(DrivesToCome(t)') = Count(t)'
    <3>1. CASE Starting(t)'
      <4>1. DrivesToCome(t)' = Ready(t)' \cup {holder'} /\ holder' \notin Ready(t)'
        BY <1>1, <3>1 DEF DrivesToCome, Ready, Starting, TasksInOrder
      <4>2. IsFiniteSet(Ready(t)')
        <5>1. Ready(t)' \in SUBSET {i \in Injections : background'[i] = "ready"}
          BY DEF Ready
        <5> QED
          BY <1>1, <5>1, FS_Subset DEF TasksInOrder
      <4> QED
        BY <3>1, <4>1, <4>2, FS_AddElement
    <3>2. CASE ~Starting(t)'
      <4>1. DrivesToCome(t)' = Ready(t)'
        BY <3>2 DEF DrivesToCome, Ready, Starting
      <4> QED
        BY <1>3, <3>2, <4>1
    <3> QED
      BY <3>1, <3>2
  <2> QED
    BY <2>1
\* Nothing is queued, the ready tasks stay, and no first start_next is missed.
<1>5. ASSUME UNCHANGED pending, \A t \in Tenants : Ready(t)' = Ready(t),
             \A t \in Tenants : Starting(t) => Starting(t)' \/ pending[t] = <<>>
      PROVE  NothingIsStranded'
  <2> SUFFICES ASSUME NEW t \in Tenants PROVE Enough(t)'
    BY <1>4
  <2>1. pending[t] = <<>> => Len(pending[t]) = 0
    OBVIOUS
  <2> HIDE DEF Ready, Starting
  <2> QED
    BY <1>2, <1>3, <1>5, <2>1
\* A submission queues one cycle and brings one drive with it.
<1>6. ASSUME NEW c \in Cycles, pending' = [pending EXCEPT ![TenantOf[c]] = Append(@, c)],
             \A t \in Tenants \ {TenantOf[c]} :
                Ready(t)' = Ready(t) /\ (Starting(t) => Starting(t)'),
             Count(TenantOf[c])' = Count(TenantOf[c]) + 1
      PROVE  NothingIsStranded'
  <2> SUFFICES ASSUME NEW t \in Tenants PROVE Enough(t)'
    BY <1>4
  <2>1. Len(pending'[t]) = Len(pending[t]) + (IF t = TenantOf[c] THEN 1 ELSE 0)
    BY <1>6, QueueAppend
  <2> HIDE DEF Ready, Starting
  <2>2. CASE t = TenantOf[c]
    BY <1>2, <1>6, <2>1, <2>2
  <2>3. CASE t # TenantOf[c]
    BY <1>2, <1>3, <1>6, <2>1, <2>3
  <2> QED
    BY <2>2, <2>3
<1>7. CASE DriveStartNext
  <2> DEFINE q == TenantOfHolder(holder)
  <2>1. q \in Tenants
    BY <1>0, <1>7, TenantOfHolderType DEF DriveStartNext, Holders
  <2> SUFFICES ASSUME NEW t \in Tenants PROVE Enough(t)'
    BY <1>4
  <2>2. Len(pending[t]) = Len(pending'[t]) + (IF t = q THEN 1 ELSE 0)
    BY <1>7, <2>1, QueuePop DEF DriveStartNext
  <2>3. Ready(t)' = Ready(t)
    BY <1>7 DEF DriveStartNext, Ready, requestVars
  <2>4. Starting(t) => t = q
    BY DEF Starting
  <2> HIDE DEF Ready, Starting, q
  <2>5. CASE t = q
    <3>1. Len(pending'[t]) = Len(pending[t]) - 1
      BY <1>2, <1>3, <2>2, <2>5
    <3> QED
      BY <1>2, <2>3, <3>1
  <2>6. CASE t # q
    <3>1. Len(pending'[t]) = Len(pending[t]) /\ ~Starting(t)
      BY <1>2, <1>3, <2>2, <2>4, <2>6
    <3> QED
      BY <1>2, <2>3, <3>1
  <2> QED
    BY <2>5, <2>6
<1>8. ASSUME NEW well \in BOOLEAN, holder # Nobody, Release(well), UNCHANGED pending,
             phase = "next" /\ ~drove => pending[TenantOfHolder(holder)] = <<>>
      PROVE  NothingIsStranded'
  <2>1. \A i \in Injections : background'[i] = "ready" <=> background[i] = "ready"
    BY <1>0, <1>8 DEF Release, TasksInOrder
  <2>2. \A t \in Tenants : Ready(t)' = Ready(t)
    BY <2>1 DEF Ready
  <2>3. \A t \in Tenants : Starting(t) => pending[t] = <<>>
    BY <1>8 DEF Starting
  <2> QED
    BY <1>5, <1>8, <2>2, <2>3
<1>9. CASE Drive
  <2>1. holder # Nobody
    BY <1>0, <1>9 DEF Drive, DriveStartNext, DriveIdle, DriveDequeue, DriveAbsorb,
       DriveAbsorbFails, DriveFinalize, DriveFinalizeAgain, DriveForwardFails
  <2>2. CASE DriveIdle \/ DriveAbsorbFails \/ DriveForwardFails
    BY <1>8, <2>1, <2>2 DEF DriveIdle, DriveAbsorbFails, DriveForwardFails, MarkStatus,
       schedulerVars
  <2>3. CASE DriveDequeue \/ DriveAbsorb
    BY <1>5, <2>3 DEF DriveDequeue, DriveAbsorb, MarkStatus, Ready, Starting,
       schedulerVars, requestVars
  <2>4. CASE DriveFinalize \/ DriveFinalizeAgain
    BY <1>5, <2>4 DEF DriveFinalize, DriveFinalizeAgain, Finish, NextCycle, Ready, Starting,
       schedulerVars, requestVars
  <2> QED
    BY <1>7, <1>9, <2>2, <2>3, <2>4 DEF Drive
<1>10. ASSUME NEW c \in Cycles, Trigger(c) \/ CheckpointAges(c) PROVE NothingIsStranded'
  <2>1. CASE TriggerSubmit(c)
    <3>1. \A t \in Tenants : ~Starting(t) /\ Ready(t)' = Ready(t)
      BY <2>1 DEF TriggerSubmit, Acquire, Starting, Ready
    <3>2. Starting(TenantOf[c])'
      BY <1>0, <2>1 DEF TriggerSubmit, Acquire, Starting, TenantOfHolder, TasksInOrder
    <3>3. Count(TenantOf[c])' = Count(TenantOf[c]) + 1
      <4> HIDE DEF Ready, Starting
      <4> QED
        BY <1>2, <3>1, <3>2, TenantOfCycle
    <3> QED
      BY <1>6, <2>1, <3>1, <3>3 DEF TriggerSubmit, Schedule
  <2>2. CASE TriggerRejected(c) \/ TriggerCache(c) \/ TriggerPersist(c) \/ CheckpointAges(c)
    <3>1. UNCHANGED <<pending, background, holder, phase, drove>>
      BY <2>2 DEF TriggerRejected, TriggerCache, TriggerPersist, CheckpointAges,
         schedulerVars, requestVars, driveVars
    <3> QED
      BY <1>5, <3>1 DEF Ready, Starting
  <2> QED
    BY <1>10, <2>1, <2>2 DEF Trigger
<1>11. ASSUME NEW i \in Injections, InjectSubmit(i) PROVE NothingIsStranded'
  <2> DEFINE q == TenantOf[TargetOf[i]]
  <2>1. i \notin Ready(q) /\ TargetOf[i] \in Cycles /\ q \in Tenants
    BY <1>0, <1>11, TenantOfCycle DEF InjectSubmit, TasksInOrder, Ready
  <2>2. \A t \in Tenants : Ready(t)' = IF t = q THEN Ready(t) \cup {i} ELSE Ready(t)
    BY <1>0, <1>11 DEF InjectSubmit, Ready
  <2>3. \A t \in Tenants : ~Starting(t) /\ ~Starting(t)'
    BY <1>11 DEF InjectSubmit, Starting, driveVars
  <2>4. Count(q)' = Count(q) + 1
    <3> HIDE DEF Ready, Starting
    <3>1. Cardinality(Ready(q)') = Cardinality(Ready(q)) + 1
      BY <1>2, <2>1, <2>2, FS_AddElement
    <3> QED
      BY <1>2, <2>1, <2>3, <3>1
  <2> QED
    BY <1>6, <1>11, <2>1, <2>2, <2>3, <2>4 DEF InjectSubmit, Reschedule
<1>12. ASSUME NEW i \in Injections, TaskDrive(i) PROVE NothingIsStranded'
  <2> DEFINE q == TenantOf[TargetOf[i]]
  <2>1. i \in Ready(q) /\ q \in Tenants /\ UNCHANGED pending
    BY <1>0, <1>12, TenantOfCycle DEF TaskDrive, Ready, schedulerVars
  <2>2. \A t \in Tenants : Ready(t)' = IF t = q THEN Ready(t) \ {i} ELSE Ready(t)
    BY <1>0, <1>12 DEF TaskDrive, Ready
  <2>3. \A t \in Tenants : ~Starting(t) /\ (Starting(t)' <=> t = q)
    BY <1>0, <1>12 DEF TaskDrive, Acquire, Starting, TenantOfHolder, TasksInOrder
  <2> SUFFICES ASSUME NEW t \in Tenants PROVE Enough(t)'
    BY <1>4
  <2> HIDE DEF Ready, Starting, q
  <2>4. CASE t = q
    <3>1. Cardinality(Ready(t)') = Cardinality(Ready(t)) - 1
      BY <1>2, <2>1, <2>2, <2>4, FS_RemoveElement
    <3> QED
      BY <1>2, <2>1, <2>3, <2>4, <3>1
  <2>5. CASE t # q
    BY <1>2, <2>1, <2>2, <2>3, <2>5
  <2> QED
    BY <2>4, <2>5
<1>13. ASSUME NEW i \in Injections, Inject(i) \/ Task(i) PROVE NothingIsStranded'
  <2>1. CASE InjectRead(i) \/ InjectLoad(i) \/ InjectCache(i) \/ InjectPersist(i)
    <3>1. UNCHANGED <<pending, background, holder, phase, drove>>
      BY <2>1 DEF InjectRead, InjectLoad, InjectCache, InjectPersist, schedulerVars, driveVars
    <3> QED
      BY <1>5, <3>1 DEF Ready, Starting
  <2>2. CASE TaskUpdate(i)
    <3>1. UNCHANGED <<pending, holder, phase, drove>>
      BY <2>2 DEF TaskUpdate, schedulerVars, driveVars
    <3>2. \A t \in Tenants : Ready(t)' = Ready(t)
      BY <1>0, <2>2 DEF TaskUpdate, Ready
    <3> QED
      BY <1>5, <3>1, <3>2 DEF Starting
  <2> QED
    BY <1>11, <1>12, <1>13, <2>1, <2>2 DEF Inject, Task
<1>14. CASE Crash
  <2> SUFFICES ASSUME NEW t \in Tenants PROVE Enough(t)'
    BY <1>4
  <2>1. Len(pending'[t]) = 0
    BY <1>14 DEF Crash, SchedulerReset
  <2> HIDE DEF Ready, Starting
  <2> QED
    BY <1>3, <2>1
<1>15. CASE (\E t \in Tenants : ClarifyWaitElapses(t)) \/ Finished \/ UNCHANGED vars
  <2>1. UNCHANGED <<pending, background, holder, phase, drove>>
    BY <1>15 DEF ClarifyWaitElapses, WaitElapses, Finished, vars, schedulerVars,
       requestVars, driveVars
  <2> QED
    BY <1>5, <2>1 DEF Ready, Starting
<1> QED
  BY <1>9, <1>10, <1>13, <1>14, <1>15 DEF Next

\* A drive that fails leaves the rest of the tenant's queue behind, but each
\* cycle left there has a drive of its own still to come: none is stranded.
THEOREM NoCycleIsStranded == Spec => []NothingIsStranded
<1>1. Init => QueuesAreOfTheirTenant /\ DriveNeverBlocks /\ TasksInOrder /\ NothingIsStranded
  <2> SUFFICES ASSUME Init
               PROVE  /\ QueuesAreOfTheirTenant /\ DriveNeverBlocks
                      /\ TasksInOrder /\ NothingIsStranded
    OBVIOUS
  <2>1. QueuesAreOfTheirTenant /\ DriveNeverBlocks
    BY TenantOfCycle, OccurrencesOfEmpty
       DEF Init, SchedulerInit, EngineInit, DriveInit, QueuesAreOfTheirTenant,
           DriveNeverBlocks, QueuedWork
  <2>2. TasksInOrder
    <3>1. {i \in Injections : background[i] = "ready"} = {}
      BY DEF Init
    <3>2. IsFiniteSet({i \in Injections : background[i] = "ready"})
      BY <3>1, FS_EmptySet
    <3>3. holder \notin Injections
      BY ServiceAssumption DEF Init, DriveInit, ServiceAssumption
    <3> QED
      BY <3>2, <3>3 DEF Init, DriveInit, TasksInOrder
  <2>3. NothingIsStranded
    <3> SUFFICES ASSUME NEW t \in Tenants
                 PROVE  Len(pending[t]) <= Cardinality(DrivesToCome(t))
      BY DEF NothingIsStranded
    <3>1. Len(pending[t]) = 0
      BY DEF Init, SchedulerInit
    <3>2. Cardinality(DrivesToCome(t)) =
             Cardinality(Ready(t)) + (IF Starting(t) THEN 1 ELSE 0)
          /\ Cardinality(Ready(t)) \in Nat
      BY <2>2, TypeInit, DrivesCount
    <3> QED
      BY <3>1, <3>2
  <2> QED
    BY <2>1, <2>2, <2>3
<1> QED
  BY <1>1, NeverBlocksStep, TasksStep, StrandedStep, TypeInit, TypeStep, PTL DEF Spec

-----------------------------------------------------------------------------
(* Receipts.  What the finalized set says of an outbox, and what an outbox  *)
(* says of the finalized set.                                               *)

EndOf(c) == [type |-> "Ended", cycle |-> c]

IsReceipt(m) == m.type = "LateReceipt"

\* The messages of a tenant are about its cycles, a final cycle has its end in
\* the outbox of its tenant, and only a final cycle has a receipt.
OutboxTellsWhatIsFinal ==
    /\ \A t \in Tenants : \A k \in DOMAIN outbox[t] : TenantOf[outbox[t][k].cycle] = t
    /\ \A c \in finalized : \E k \in DOMAIN outbox[TenantOf[c]] : outbox[TenantOf[c]][k] = EndOf(c)
    /\ \A t \in Tenants : \A k \in DOMAIN outbox[t] :
          IsReceipt(outbox[t][k]) => outbox[t][k].cycle \in finalized

OutboxInv == OutboxTellsWhatIsFinal /\ ReceiptsFollowTheEnd

LEMMA EndBatchTells ==
  ASSUME NEW c \in Cycles
  PROVE  /\ \A k \in DOMAIN EndBatch(c) :
               EndBatch(c)[k].cycle = c /\ ~IsReceipt(EndBatch(c)[k])
         /\ \E k \in DOMAIN EndBatch(c) : EndBatch(c)[k] = EndOf(c)
<1> DEFINE T == {m \in Messages : m.cycle = c /\ m.type # "LateReceipt"}
           first == IF late THEN <<[type |-> "LateSyncPoint", cycle |-> c]>> ELSE <<>>
           end == <<[type |-> "Finalized", cycle |-> c], [type |-> "Finalized", cycle |-> c],
                    [type |-> "Ended", cycle |-> c]>>
<1>1. EndBatch(c) = first \o end
  BY DEF EndBatch
<1>2. \A type \in {"LateSyncPoint", "Finalized", "Ended"} : [type |-> type, cycle |-> c] \in T
  BY DEF Messages, MessageTypes
<1>3. first \in Seq(T)
  <2> HIDE DEF T
  <2> QED
    BY <1>2
<1>4. end \in Seq(T)
  <2> HIDE DEF T
  <2> QED
    BY <1>2
<1>5. \E k \in DOMAIN end : end[k] = EndOf(c)
  <2>1. 3 \in DOMAIN end /\ end[3] = EndOf(c)
    BY DEF EndOf
  <2> QED
    BY <2>1
<1> HIDE DEF first, end, T
<1>6. /\ EndBatch(c) \in Seq(T)
      /\ \E k \in DOMAIN EndBatch(c) : EndBatch(c)[k] = EndOf(c)
  <2>1. first \o end \in Seq(T)
    BY <1>3, <1>4
  <2>2. PICK k \in DOMAIN end : end[k] = EndOf(c)
    BY <1>5
  <2>3. Len(first) + k \in DOMAIN (first \o end)
    BY <1>3, <1>4, <2>2
  <2>4. (first \o end)[Len(first) + k] = end[k]
    BY <1>3, <1>4, <2>2
  <2> QED
    BY <1>1, <2>1, <2>2, <2>3, <2>4
<1>7. \A k \in DOMAIN EndBatch(c) : EndBatch(c)[k] \in T
  BY <1>6
<1> QED
  BY <1>6, <1>7 DEF T, IsReceipt

\* A batch about one cycle may be added when it is the cycle's end and the
\* cycle was not final, or a receipt and it was.
LEMMA BatchKeepsOrder ==
  ASSUME TypeOK, OutboxInv, NEW c \in Cycles, NEW batch \in Seq(Messages),
         CommitBatch(c, batch),
         \A k \in DOMAIN batch : batch[k].cycle = c,
         \A k \in DOMAIN batch : IsReceipt(batch[k]) <=> c \in finalized,
         finalized' = finalized \/ finalized' = finalized \cup {c},
         c \in finalized' => \/ c \in finalized
                            \/ \E k \in DOMAIN batch : batch[k] = EndOf(c)
  PROVE  OutboxInv'
<1> DEFINE q == TenantOf[c]
           old == Len(outbox[q])
<1>1. /\ q \in Tenants /\ \A t \in Tenants : outbox[t] \in Seq(Messages)
      /\ finalized \subseteq Cycles
  BY TenantOfCycle DEF TypeOK, EngineTypeOK
<1>2. \A t \in Tenants \ {q} : outbox'[t] = outbox[t]
  BY DEF CommitBatch, TypeOK, EngineTypeOK
<1>3. outbox'[q] = outbox[q] \o batch
  BY <1>1 DEF CommitBatch, TypeOK, EngineTypeOK
<1>4. /\ old \in Nat /\ Len(outbox'[q]) = old + Len(batch)
      /\ DOMAIN outbox[q] = 1..old /\ DOMAIN batch = 1..Len(batch)
      /\ DOMAIN outbox'[q] = 1..(old + Len(batch))
      /\ \A k \in 1..old : outbox'[q][k] = outbox[q][k]
      /\ \A k \in (old + 1)..(old + Len(batch)) :
            k - old \in DOMAIN batch /\ outbox'[q][k] = batch[k - old]
      /\ \A k \in DOMAIN batch : outbox'[q][old + k] = batch[k]
  BY <1>1, <1>3
<1> HIDE DEF q, old
<1>5. \A k \in DOMAIN outbox'[q] : \/ k \in 1..old /\ outbox'[q][k] = outbox[q][k]
                                  \/ /\ k \in (old + 1)..(old + Len(batch))
                                     /\ outbox'[q][k].cycle = c
                                     /\ IsReceipt(outbox'[q][k]) <=> c \in finalized
  <2> SUFFICES ASSUME NEW k \in DOMAIN outbox'[q], k \notin 1..old
               PROVE  /\ k \in (old + 1)..(old + Len(batch))
                      /\ outbox'[q][k].cycle = c
                      /\ IsReceipt(outbox'[q][k]) <=> c \in finalized
    BY <1>4
  <2>1. k \in (old + 1)..(old + Len(batch))
    BY <1>1, <1>4
  <2>2. k - old \in DOMAIN batch /\ outbox'[q][k] = batch[k - old]
    BY <1>4, <2>1
  <2> QED
    BY <2>1, <2>2
<1>6. (\A t \in Tenants : \A k \in DOMAIN outbox[t] : TenantOf[outbox[t][k].cycle] = t)'
  <2> SUFFICES ASSUME NEW t \in Tenants, NEW k \in DOMAIN outbox'[t]
               PROVE  TenantOf[outbox'[t][k].cycle] = t
    OBVIOUS
  <2>1. CASE t = q /\ k \notin 1..old
    BY <1>5, <2>1 DEF q
  <2>2. CASE t # q \/ k \in 1..old
    <3>1. k \in DOMAIN outbox[t] /\ outbox'[t][k] = outbox[t][k]
      BY <1>2, <1>4, <2>2
    <3> QED
      BY <3>1 DEF OutboxInv, OutboxTellsWhatIsFinal
  <2> QED
    BY <2>1, <2>2
<1>7. (\A d \in finalized : \E k \in DOMAIN outbox[TenantOf[d]] : outbox[TenantOf[d]][k] = EndOf(d))'
  <2> SUFFICES ASSUME NEW d \in finalized'
               PROVE  \E k \in DOMAIN outbox'[TenantOf[d]] : outbox'[TenantOf[d]][k] = EndOf(d)
    BY DEF EndOf
  <2>1. CASE d \in finalized
    <3>1. PICK k \in DOMAIN outbox[TenantOf[d]] : outbox[TenantOf[d]][k] = EndOf(d)
      BY <2>1 DEF OutboxInv, OutboxTellsWhatIsFinal
    <3>2. TenantOf[d] \in Tenants
      BY <1>1, <2>1, TenantOfCycle
    <3>3. k \in DOMAIN outbox'[TenantOf[d]] /\ outbox'[TenantOf[d]][k] = EndOf(d)
      <4>1. CASE TenantOf[d] = q
        <5>1. k \in 1..old
          BY <1>4, <3>1, <4>1
        <5> QED
          BY <1>1, <1>4, <3>1, <4>1, <5>1
      <4>2. CASE TenantOf[d] # q
        BY <1>2, <3>1, <3>2, <4>2
      <4> QED
        BY <4>1, <4>2
    <3> QED
      BY <3>3
  <2>2. CASE d \notin finalized
    <3>1. d = c /\ \E k \in DOMAIN batch : batch[k] = EndOf(c)
      BY <2>2
    <3>2. PICK k \in DOMAIN batch : batch[k] = EndOf(c)
      BY <3>1
    <3>3. old + k \in DOMAIN outbox'[q] /\ outbox'[q][old + k] = EndOf(c)
      BY <1>4, <3>2
    <3> QED
      BY <3>1, <3>3 DEF q
  <2> QED
    BY <2>1, <2>2
<1>8. (\A t \in Tenants : \A k \in DOMAIN outbox[t] :
          IsReceipt(outbox[t][k]) => outbox[t][k].cycle \in finalized)'
  <2> SUFFICES ASSUME NEW t \in Tenants, NEW k \in DOMAIN outbox'[t], IsReceipt(outbox'[t][k])
               PROVE  outbox'[t][k].cycle \in finalized
    BY DEF IsReceipt
  <2>1. CASE t = q
    BY <1>4, <1>5, <2>1 DEF OutboxInv, OutboxTellsWhatIsFinal
  <2>2. CASE t # q
    BY <1>2, <2>2 DEF OutboxInv, OutboxTellsWhatIsFinal
  <2> QED
    BY <2>1, <2>2
<1>9. ReceiptsFollowTheEnd'
  <2> SUFFICES ASSUME NEW t \in Tenants, NEW k \in DOMAIN outbox'[t],
                      outbox'[t][k].type = "LateReceipt"
               PROVE  /\ \E j \in 1..(k - 1) : outbox'[t][j] = EndOf(outbox'[t][k].cycle)
                      /\ \A j \in (k + 1)..Len(outbox'[t]) :
                            outbox'[t][j].cycle = outbox'[t][k].cycle
                               => outbox'[t][j].type = "LateReceipt"
    BY DEF ReceiptsFollowTheEnd, EndOf
  <2>1. CASE t # q
    <3>1. outbox'[t] = outbox[t]
      BY <1>2, <2>1
    <3> QED
      BY <3>1 DEF OutboxInv, ReceiptsFollowTheEnd, EndOf
  <2>2. CASE t = q /\ k \in 1..old
    <3>1. outbox'[q][k] = outbox[q][k] /\ k \in DOMAIN outbox[q]
      BY <1>4, <2>2
    <3>2. /\ \E j \in 1..(k - 1) : outbox[q][j] = EndOf(outbox[q][k].cycle)
          /\ \A j \in (k + 1)..old :
                outbox[q][j].cycle = outbox[q][k].cycle => outbox[q][j].type = "LateReceipt"
          /\ outbox[q][k].cycle \in finalized
      <4>1. outbox[q][k].type = "LateReceipt"
        BY <2>2, <3>1
      <4>2. ReceiptsFollowTheEnd /\ OutboxTellsWhatIsFinal /\ old = Len(outbox[q])
        BY DEF OutboxInv, old
      <4>3. outbox[q][k].cycle \in finalized
        BY <1>1, <3>1, <4>1, <4>2 DEF OutboxTellsWhatIsFinal, IsReceipt
      <4> QED
        BY <1>1, <3>1, <4>1, <4>2, <4>3 DEF ReceiptsFollowTheEnd, EndOf
    <3>3. PICK j \in 1..(k - 1) : outbox[q][j] = EndOf(outbox[q][k].cycle)
      BY <3>2
    <3>4. j \in 1..old /\ outbox'[q][j] = outbox[q][j]
      BY <1>4, <2>2
    <3>5. \A i \in (k + 1)..Len(outbox'[q]) :
             outbox'[q][i].cycle = outbox[q][k].cycle => outbox'[q][i].type = "LateReceipt"
      <4> SUFFICES ASSUME NEW i \in (k + 1)..Len(outbox'[q]),
                          outbox'[q][i].cycle = outbox[q][k].cycle
                   PROVE  outbox'[q][i].type = "LateReceipt"
        OBVIOUS
      <4>1. i \in DOMAIN outbox'[q]
        BY <1>4, <2>2
      <4>2. CASE i \in 1..old
        <5>1. outbox'[q][i] = outbox[q][i] /\ i \in (k + 1)..old
          BY <1>4, <2>2, <4>2
        <5> QED
          BY <3>2, <5>1
      <4>3. CASE i \notin 1..old
        BY <1>5, <3>2, <4>1, <4>3 DEF IsReceipt
      <4> QED
        BY <4>2, <4>3
    <3> QED
      BY <2>2, <3>1, <3>3, <3>4, <3>5
  <2>3. CASE t = q /\ k \notin 1..old
    <3>1. k \in (old + 1)..(old + Len(batch)) /\ outbox'[q][k].cycle = c /\ c \in finalized
      BY <1>5, <2>3 DEF IsReceipt
    <3>2. PICK j \in 1..old : outbox[q][j] = EndOf(c)
      BY <1>4, <3>1 DEF OutboxInv, OutboxTellsWhatIsFinal, q
    <3>3. j \in 1..(k - 1) /\ outbox'[q][j] = EndOf(c)
      BY <1>4, <3>1, <3>2
    <3>4. \A i \in (k + 1)..Len(outbox'[q]) : outbox'[q][i].type = "LateReceipt"
      <4> SUFFICES ASSUME NEW i \in (k + 1)..Len(outbox'[q])
                   PROVE  outbox'[q][i].type = "LateReceipt"
        OBVIOUS
      <4>1. i \in DOMAIN outbox'[q] /\ i \notin 1..old
        BY <1>4, <3>1
      <4> QED
        BY <1>5, <3>1, <4>1 DEF IsReceipt
    <3> QED
      BY <2>3, <3>1, <3>3, <3>4
  <2> QED
    BY <2>1, <2>2, <2>3
<1> QED
  BY <1>6, <1>7, <1>8, <1>9 DEF OutboxInv, OutboxTellsWhatIsFinal

LEMMA OutboxStep == TypeOK /\ OutboxInv /\ [Next]_vars => OutboxInv'
<1> SUFFICES ASSUME TypeOK, OutboxInv, [Next]_vars PROVE OutboxInv'
  OBVIOUS
<1>1. ASSUME UNCHANGED <<outbox, finalized>> PROVE OutboxInv'
  BY <1>1 DEF OutboxInv, OutboxTellsWhatIsFinal, ReceiptsFollowTheEnd
<1>2. phase = "finalize" => current \in Cycles
  BY DEF TypeOK, DriveTypeOK
<1>3. CASE DriveFinalize
  BY <1>2, <1>3, BatchKeepsOrder, EndBatchTells, EndBatchType
     DEF DriveFinalize, AlreadyFinal, RegisterFinal
\* A receipt is a batch of its own.
<1>4. \A c \in Cycles : /\ ReceiptBatch(c) \in Seq(Messages)
                        /\ \A k \in DOMAIN ReceiptBatch(c) :
                              /\ ReceiptBatch(c)[k].cycle = c
                              /\ IsReceipt(ReceiptBatch(c)[k])
  <2> SUFFICES ASSUME NEW c \in Cycles
               PROVE  \A k \in DOMAIN ReceiptBatch(c) :
                         ReceiptBatch(c)[k].cycle = c /\ IsReceipt(ReceiptBatch(c)[k])
    BY ReceiptBatchType
  <2>1. DOMAIN ReceiptBatch(c) = {1}
    BY DEF ReceiptBatch
  <2>2. ReceiptBatch(c)[1] = [type |-> "LateReceipt", cycle |-> c]
    BY DEF ReceiptBatch
  <2> QED
    BY <2>1, <2>2 DEF IsReceipt
<1>5. CASE DriveFinalizeAgain
  BY <1>2, <1>4, <1>5, BatchKeepsOrder DEF DriveFinalizeAgain, AlreadyFinal
<1>6. CASE DriveForwardFails
  <2>1. CASE AlreadyFinal
    BY <1>2, <1>4, <1>6, <2>1, BatchKeepsOrder DEF DriveForwardFails, AlreadyFinal
  <2>2. CASE ~AlreadyFinal
    BY <1>2, <1>6, <2>2, BatchKeepsOrder, EndBatchTells, EndBatchType
       DEF DriveForwardFails, AlreadyFinal
  <2> QED
    BY <2>1, <2>2
<1>7. CASE Drive
  BY <1>1, <1>3, <1>5, <1>6, <1>7 DEF Drive, DriveStartNext, DriveIdle, DriveDequeue,
     DriveAbsorb, DriveAbsorbFails, engineVars
<1>8. ASSUME NEW c \in Cycles, Trigger(c) \/ CheckpointAges(c) PROVE OutboxInv'
  BY <1>1, <1>8 DEF Trigger, TriggerSubmit, TriggerRejected, TriggerCache, TriggerPersist,
     CheckpointAges, engineVars
<1>9. ASSUME NEW i \in Injections, Inject(i) \/ Task(i) PROVE OutboxInv'
  BY <1>1, <1>9 DEF Inject, InjectRead, InjectLoad, InjectSubmit, InjectCache,
     InjectPersist, Task, TaskDrive, TaskUpdate, engineVars
<1>10. CASE Crash
  BY <1>10 DEF Crash, OutboxInv, OutboxTellsWhatIsFinal, ReceiptsFollowTheEnd
<1>11. CASE (\E t \in Tenants : ClarifyWaitElapses(t)) \/ Finished \/ UNCHANGED vars
  BY <1>1, <1>11 DEF ClarifyWaitElapses, Finished, vars, engineVars
<1> QED
  BY <1>7, <1>8, <1>9, <1>10, <1>11 DEF Next

\* Whatever is injected late and however often a forward fails, the outbox of a
\* tenant has the receipt of a late arrival only after the end of its cycle,
\* and after a receipt nothing but receipts of that cycle.
THEOREM ReceiptsComeAfterTheEnd == Spec => []ReceiptsFollowTheEnd
<1>1. Init => OutboxInv
  BY DEF Init, EngineInit, OutboxInv, OutboxTellsWhatIsFinal, ReceiptsFollowTheEnd
<1>2. OutboxInv => ReceiptsFollowTheEnd
  BY DEF OutboxInv
<1> QED
  BY <1>1, <1>2, OutboxStep, TypeInit, TypeStep, PTL DEF Spec

-----------------------------------------------------------------------------
(* Moves of the stage and the log.                                          *)

\* The state of the contract, as the service has it
StageOf(c) == IF c \in finalized THEN "final" ELSE IF AtWork(c) THEN "open" ELSE "absent"
LogOf(t) == Retain(outbox[t], EndMessages)

\* How steps of the service look in the contract.
LEMMA ContractStutters ==
  ASSUME \A c \in Cycles : StageOf(c)' = StageOf(c),
         \A t \in Tenants : LogOf(t)' = LogOf(t)
  PROVE  UNCHANGED Contract!contractVars
BY DEF Contract!contractVars, StageOf, LogOf

LEMMA ContractMoves ==
  ASSUME NEW c \in Cycles, NEW s, StageOf(c)' = s,
         \A d \in Cycles : d # c => StageOf(d)' = StageOf(d),
         \A t \in Tenants : LogOf(t)' = LogOf(t)
  PROVE  /\ StageOf(c) = "absent" /\ s = "open" => Contract!Open(c)
         /\ StageOf(c) = "open" /\ s = "absent" /\ MergeMayFail => Contract!Drop(c)
BY DEF Contract!Open, Contract!Drop, StageOf, LogOf

LEMMA ContractWrites ==
  ASSUME NEW c \in Cycles, NEW s, StageOf(c)' = s, NEW type,
         \A d \in Cycles : d # c => StageOf(d)' = StageOf(d),
         \A t \in Tenants : LogOf(t)' = IF t = TenantOf[c]
                                        THEN Append(LogOf(t), [type |-> type, cycle |-> c])
                                        ELSE LogOf(t)
  PROVE  /\ type = "Ended" /\ StageOf(c) = "open" /\ s = "final" => Contract!Close(c)
         /\ type = "LateReceipt" /\ StageOf(c) = "final" /\ s = "final" => Contract!Late(c)
         /\ type = "Ended" /\ StageOf(c) = "open" /\ s \in {"absent", "open"} /\ ForwardMayFail
               => Contract!FailedClose(c)
BY DEF Contract!Close, Contract!Late, Contract!FailedClose, Contract!Write, Contract!Ended,
       Contract!Receipt, StageOf, LogOf

\* What a message adds to the contract's log: itself, if it tells of an end.
LEMMA LogAppend ==
  ASSUME NEW s \in Seq(Messages), NEW e \in Messages
  PROVE  Retain(Append(s, e), EndMessages) =
            IF e \in EndMessages THEN Append(Retain(s, EndMessages), e) ELSE Retain(s, EndMessages)
BY RetainAppend

LEMMA LogConcat ==
  ASSUME NEW s \in Seq(Messages), NEW t \in Seq(Messages)
  PROVE  Retain(s \o t, EndMessages) = Retain(s, EndMessages) \o Retain(t, EndMessages)
BY RetainConcat

LEMMA LogOfBatches ==
  ASSUME NEW c \in Cycles
  PROVE  /\ Retain(EndBatch(c), EndMessages) = <<[type |-> "Ended", cycle |-> c]>>
         /\ Retain(ReceiptBatch(c), EndMessages) = <<[type |-> "LateReceipt", cycle |-> c]>>
<1> DEFINE L == [type |-> "LateSyncPoint", cycle |-> c]
           F == [type |-> "Finalized", cycle |-> c]
           E == [type |-> "Ended", cycle |-> c]
           R == [type |-> "LateReceipt", cycle |-> c]
<1>1. L \in Messages /\ F \in Messages /\ E \in Messages /\ R \in Messages
  BY DEF Messages, MessageTypes
<1>2. L \notin EndMessages /\ F \notin EndMessages /\ E \in EndMessages /\ R \in EndMessages
  BY DEF EndMessages
<1>3. EndBatch(c) = (IF late THEN <<L>> ELSE <<>>) \o <<F, F, E>>
  BY DEF EndBatch
<1>4. ReceiptBatch(c) = <<R>>
  BY DEF ReceiptBatch
<1> HIDE DEF L, F, E, R
<1>5. /\ <<>> \in Seq(Messages) /\ <<L>> \in Seq(Messages) /\ <<F>> \in Seq(Messages)
      /\ <<F, F>> \in Seq(Messages) /\ <<F, F, E>> \in Seq(Messages)
  BY <1>1
<1>6. /\ <<L>> = Append(<<>>, L) /\ <<F>> = Append(<<>>, F) /\ <<F, F>> = Append(<<F>>, F)
      /\ <<F, F, E>> = Append(<<F, F>>, E) /\ <<R>> = Append(<<>>, R) /\ <<E>> = Append(<<>>, E)
  OBVIOUS
<1>7. Retain(<<>>, EndMessages) = <<>>
  BY RetainEmpty
<1>8. /\ Retain(<<L>>, EndMessages) = <<>> /\ Retain(<<F>>, EndMessages) = <<>>
      /\ Retain(<<R>>, EndMessages) = <<R>>
  <2>1. /\ Retain(Append(<<>>, L), EndMessages) = Retain(<<>>, EndMessages)
        /\ Retain(Append(<<>>, F), EndMessages) = Retain(<<>>, EndMessages)
        /\ Retain(Append(<<>>, R), EndMessages) = Append(Retain(<<>>, EndMessages), R)
    BY <1>1, <1>2, <1>5, LogAppend
  <2>2. QED
    BY <1>6, <1>7, <2>1
<1>9. Retain(<<F, F>>, EndMessages) = <<>>
  <2>1. Retain(Append(<<F>>, F), EndMessages) = Retain(<<F>>, EndMessages)
    BY <1>1, <1>2, <1>5, LogAppend
  <2>2. QED
    BY <1>6, <1>8, <2>1
<1>10. Retain(<<F, F, E>>, EndMessages) = <<E>>
  <2>1. Retain(Append(<<F, F>>, E), EndMessages) = Append(Retain(<<F, F>>, EndMessages), E)
    BY <1>1, <1>2, <1>5, LogAppend
  <2>2. QED
    BY <1>6, <1>9, <2>1
<1>11. /\ Retain(<<L>> \o <<F, F, E>>, EndMessages) = <<>> \o <<E>>
       /\ Retain(<<>> \o <<F, F, E>>, EndMessages) = <<>> \o <<E>>
  <2>1. /\ Retain(<<L>> \o <<F, F, E>>, EndMessages)
              = Retain(<<L>>, EndMessages) \o Retain(<<F, F, E>>, EndMessages)
        /\ Retain(<<>> \o <<F, F, E>>, EndMessages)
              = Retain(<<>>, EndMessages) \o Retain(<<F, F, E>>, EndMessages)
    BY <1>5, LogConcat
  <2>2. QED
    BY <1>7, <1>8, <1>10, <2>1
<1>12. <<>> \o <<E>> = <<E>>
  OBVIOUS
<1>13. Retain(EndBatch(c), EndMessages) = <<E>>
  <2>1. CASE late
    BY <1>3, <1>11, <1>12, <2>1
  <2>2. CASE ~late
    BY <1>3, <1>11, <1>12, <2>2
  <2>3. QED
    BY <2>1, <2>2
<1>14. QED
  BY <1>4, <1>8, <1>13 DEF E, R

LEMMA LogCommitted ==
  ASSUME TypeOK, NEW c \in Cycles, NEW batch \in Seq(Messages), CommitBatch(c, batch),
         NEW e \in Messages, Retain(batch, EndMessages) = <<e>>
  PROVE  \A t \in Tenants : LogOf(t)' = IF t = TenantOf[c] THEN Append(LogOf(t), e) ELSE LogOf(t)
<1> SUFFICES ASSUME NEW t \in Tenants
             PROVE  LogOf(t)' = IF t = TenantOf[c] THEN Append(LogOf(t), e) ELSE LogOf(t)
  OBVIOUS
<1>1. outbox \in [Tenants -> Seq(Messages)]
  BY DEF TypeOK, EngineTypeOK
<1>2. outbox'[t] = IF t = TenantOf[c] THEN outbox[t] \o batch ELSE outbox[t]
  BY <1>1 DEF CommitBatch
<1>3. LogOf(t)' = Retain(outbox'[t], EndMessages)
  BY DEF LogOf
<1>4. CASE t = TenantOf[c]
  <2>1. Retain(outbox[t] \o batch, EndMessages) = Retain(outbox[t], EndMessages) \o <<e>>
    BY <1>1, LogConcat
  <2>2. Retain(outbox[t], EndMessages) \in Seq(Messages)
    BY <1>1, RetainType
  <2>3. Retain(outbox[t], EndMessages) \o <<e>> = Append(Retain(outbox[t], EndMessages), e)
    <3> DEFINE r == Retain(outbox[t], EndMessages)
    <3>1. r \in Seq(Messages)
      BY <2>2
    <3> HIDE DEF r
    <3>2. r \o <<e>> = Append(r, e)
      BY <3>1
    <3>3. QED
      BY <3>2 DEF r
  <2>4. QED
    BY <1>2, <1>3, <1>4, <2>1, <2>3 DEF LogOf
<1>5. CASE t # TenantOf[c]
  BY <1>2, <1>3, <1>5 DEF LogOf
<1>6. QED
  BY <1>4, <1>5

-----------------------------------------------------------------------------
(* The steps that move the contract.                                        *)

ContractStep == [Contract!ContractNext]_(Contract!contractVars)

LEMMA SameContract ==
  ASSUME UNCHANGED <<pending, current, finalized, outbox>>
  PROVE  ContractStep
<1>1. /\ \A c \in Cycles : StageOf(c)' = StageOf(c)
      /\ \A t \in Tenants : LogOf(t)' = LogOf(t)
  BY DEF StageOf, LogOf, AtWork
<1> QED
  BY <1>1, ContractStutters DEF ContractStep

Queued(c) == Occurrences(pending[TenantOf[c]], c)

LEMMA QueuedType == ASSUME TypeOK, NEW c \in Cycles PROVE Queued(c) \in Nat
BY OccurrencesType, TenantOfCycle DEF TypeOK, SchedulerTypeOK, Queued

LEMMA StageIs ==
  \A c : StageOf(c) = IF c \in finalized THEN "final"
                      ELSE IF Queued(c) > 0 \/ current = c THEN "open" ELSE "absent"
BY DEF StageOf, AtWork, Queued

\* A cycle that joins the queue is open, if it is not final.
LEMMA QueuedOpens ==
  ASSUME TypeOK, QueuesAreOfTheirTenant, NEW c \in Cycles,
         pending' = [pending EXCEPT ![TenantOf[c]] = Append(@, c)],
         UNCHANGED <<current, finalized, outbox>>
  PROVE  ContractStep
<1>1. \A d \in Cycles : Queued(d)' = Queued(d) + (IF c = d THEN 1 ELSE 0)
  BY QueueAppend DEF Queued
<1>2. \A d \in Cycles : Queued(d) \in Nat
  BY QueuedType
<1>3. \A d \in Cycles : StageOf(d)' = IF d \in finalized THEN "final"
                         ELSE IF Queued(d)' > 0 \/ current = d THEN "open" ELSE "absent"
  BY DEF StageOf, AtWork, Queued
<1>4. \A d \in Cycles : d # c => StageOf(d)' = StageOf(d)
  BY <1>1, <1>2, <1>3, StageIs
<1>5. \A t \in Tenants : LogOf(t)' = LogOf(t)
  BY DEF LogOf
<1>6. Queued(c)' > 0
  BY <1>1, <1>2
<1>7. CASE StageOf(c) = "absent"
  <2>1. StageOf(c)' = "open"
    BY <1>3, <1>6, <1>7, StageIs
  <2>2. Contract!Open(c)
    BY <1>4, <1>5, <1>7, <2>1, ContractMoves
  <2> QED
    BY <2>2 DEF ContractStep, Contract!ContractNext
<1>8. CASE StageOf(c) # "absent"
  <2>1. StageOf(c)' = StageOf(c)
    BY <1>3, <1>6, <1>8, StageIs
  <2> QED
    BY <1>4, <1>5, <2>1, ContractStutters DEF ContractStep
<1> QED
  BY <1>7, <1>8

\* A cycle that leaves the queue is with the drive.
LEMMA PoppedStaysOpen ==
  ASSUME TypeOK, QueuesAreOfTheirTenant, DriveStartNext
  PROVE  ContractStep
<1> DEFINE t == TenantOfHolder(holder)
           c == Head(pending[t])
<1>1. t \in Tenants /\ current = NoCycle /\ StartNext(t) /\ current' = c
  BY TenantOfHolderType DEF TypeOK, DriveTypeOK, DriveStartNext
<1>2. /\ c \in Cycles
      /\ \A d \in Cycles : Queued(d) = Queued(d)' + (IF c = d THEN 1 ELSE 0)
  BY <1>1, QueuePop DEF Queued
<1>3. UNCHANGED <<finalized, outbox>>
  BY DEF DriveStartNext, engineVars
<1>4. \A d \in Cycles : Queued(d)' \in Nat
  <2>1. TypeOK'
    BY DriveType DEF Drive
  <2>2. \A d \in Cycles : pending'[TenantOf[d]] \in Seq(Cycles)
    BY <2>1, TenantOfCycle DEF TypeOK, SchedulerTypeOK
  <2> QED
    BY <2>2, OccurrencesType DEF Queued
<1>5. \A d \in Cycles : StageOf(d)' = IF d \in finalized THEN "final"
                         ELSE IF Queued(d)' > 0 \/ current' = d THEN "open" ELSE "absent"
  BY <1>3 DEF StageOf, AtWork, Queued
<1>6. NoCycle \notin Cycles
  BY ServiceAssumption DEF ServiceAssumption
<1> HIDE DEF c, t
<1>7. \A d \in Cycles : StageOf(d)' = StageOf(d)
  <2> SUFFICES ASSUME NEW d \in Cycles PROVE StageOf(d)' = StageOf(d)
    OBVIOUS
  <2>1. Queued(d)' \in Nat /\ Queued(d) = Queued(d)' + (IF c = d THEN 1 ELSE 0) /\ current # d
    BY <1>1, <1>2, <1>4, <1>6
  <2>2. (Queued(d) > 0 \/ current = d) <=> (Queued(d)' > 0 \/ current' = d)
    BY <1>1, <2>1
  <2> QED
    BY <1>5, <2>2, StageIs
<1>8. \A u \in Tenants : LogOf(u)' = LogOf(u)
  BY <1>3 DEF LogOf
<1> QED
  BY <1>7, <1>8, ContractStutters DEF ContractStep

\* A drive that lets go of its cycle: what the contract calls it then.
LEMMA LetGo ==
  ASSUME TypeOK, NEW c \in Cycles, current = c, current' = NoCycle, pending' = pending,
         finalized' = finalized \/ finalized' = finalized \cup {c}
  PROVE  /\ \A d \in Cycles : d # c => StageOf(d)' = StageOf(d)
         /\ StageOf(c) = IF c \in finalized THEN "final" ELSE "open"
         /\ c \in finalized' => StageOf(c)' = "final"
         /\ c \notin finalized' => StageOf(c)' \in {"absent", "open"}
<1>1. NoCycle \notin Cycles
  BY ServiceAssumption DEF ServiceAssumption
<1>2. \A d : StageOf(d)' = IF d \in finalized' THEN "final"
                         ELSE IF Queued(d) > 0 \/ current' = d THEN "open" ELSE "absent"
  BY DEF StageOf, AtWork, Queued
<1>3. ASSUME NEW d \in Cycles, d # c PROVE StageOf(d)' = StageOf(d)
  <2>1. (d \in finalized' <=> d \in finalized) /\ current' # d
    BY <1>1, <1>3
  <2> QED
    BY <1>2, <1>3, <2>1, StageIs
<1>4. StageOf(c) = IF c \in finalized THEN "final" ELSE "open"
  BY StageIs
<1>5. /\ c \in finalized' => StageOf(c)' = "final"
      /\ c \notin finalized' => StageOf(c)' \in {"absent", "open"}
  BY <1>2
<1> QED
  BY <1>3, <1>4, <1>5

LEMMA InFinalize ==
  ASSUME TypeOK, phase \in {"absorb", "finalize"}
  PROVE  current \in Cycles
BY DEF TypeOK, DriveTypeOK

LEMMA EndIsWritten ==
  ASSUME TypeOK, NEW c \in Cycles, CommitBatch(c, EndBatch(c))
  PROVE  \A t \in Tenants :
            LogOf(t)' = IF t = TenantOf[c] THEN Append(LogOf(t), [type |-> "Ended", cycle |-> c])
                        ELSE LogOf(t)
<1>1. [type |-> "Ended", cycle |-> c] \in Messages
  BY DEF Messages, MessageTypes
<1>2. EndBatch(c) \in Seq(Messages)
  BY EndBatchType
<1> QED
  BY <1>1, <1>2, LogOfBatches, LogCommitted

LEMMA ReceiptIsWritten ==
  ASSUME TypeOK, NEW c \in Cycles, CommitBatch(c, ReceiptBatch(c))
  PROVE  \A t \in Tenants :
            LogOf(t)' = IF t = TenantOf[c]
                        THEN Append(LogOf(t), [type |-> "LateReceipt", cycle |-> c])
                        ELSE LogOf(t)
<1>1. [type |-> "LateReceipt", cycle |-> c] \in Messages
  BY DEF Messages, MessageTypes
<1>2. ReceiptBatch(c) \in Seq(Messages)
  BY ReceiptBatchType
<1> QED
  BY <1>1, <1>2, LogOfBatches, LogCommitted

LEMMA FinalizeCloses ==
  ASSUME TypeOK, DriveFinalize
  PROVE  ContractStep
<1> SUFFICES ASSUME NEW c \in Cycles, current = c PROVE ContractStep
  BY InFinalize DEF DriveFinalize
<1>1. /\ c \notin finalized /\ finalized' = finalized \cup {c}
      /\ CommitBatch(c, EndBatch(c)) /\ pending' = pending /\ current' = NoCycle
  BY DEF DriveFinalize, AlreadyFinal, RegisterFinal, Finish, NextCycle
<1>2. /\ \A d \in Cycles : d # c => StageOf(d)' = StageOf(d)
      /\ StageOf(c) = "open" /\ StageOf(c)' = "final"
  BY <1>1, LetGo
<1>3. Contract!Close(c)
  BY <1>1, <1>2, EndIsWritten, ContractWrites
<1> QED
  BY <1>3 DEF ContractStep, Contract!ContractNext

LEMMA FinalizeAgainIsLate ==
  ASSUME TypeOK, DriveFinalizeAgain
  PROVE  ContractStep
<1> SUFFICES ASSUME NEW c \in Cycles, current = c PROVE ContractStep
  BY InFinalize DEF DriveFinalizeAgain
<1>1. /\ c \in finalized /\ finalized' = finalized
      /\ CommitBatch(c, ReceiptBatch(c)) /\ pending' = pending /\ current' = NoCycle
  BY DEF DriveFinalizeAgain, AlreadyFinal, NextCycle, schedulerVars
<1>2. /\ \A d \in Cycles : d # c => StageOf(d)' = StageOf(d)
      /\ StageOf(c) = "final" /\ StageOf(c)' = "final"
  BY <1>1, LetGo
<1>3. Contract!Late(c)
  BY <1>1, <1>2, ReceiptIsWritten, ContractWrites
<1> QED
  BY <1>3 DEF ContractStep, Contract!ContractNext

LEMMA ForwardFailsWrites ==
  ASSUME TypeOK, DriveForwardFails
  PROVE  ContractStep
<1> SUFFICES ASSUME NEW c \in Cycles, current = c PROVE ContractStep
  BY InFinalize DEF DriveForwardFails
<1>1. /\ finalized' = finalized /\ pending' = pending /\ current' = NoCycle
      /\ ForwardMayFail
      /\ CommitBatch(c, IF c \in finalized THEN ReceiptBatch(c) ELSE EndBatch(c))
  BY DEF DriveForwardFails, AlreadyFinal, Release, schedulerVars
<1>2. CASE c \in finalized
  <2>1. CommitBatch(c, ReceiptBatch(c))
    BY <1>1, <1>2
  <2>2. /\ \A d \in Cycles : d # c => StageOf(d)' = StageOf(d)
        /\ StageOf(c) = "final" /\ StageOf(c)' = "final"
    BY <1>1, <1>2, LetGo
  <2>3. Contract!Late(c)
    BY <2>1, <2>2, ReceiptIsWritten, ContractWrites
  <2> QED
    BY <2>3 DEF ContractStep, Contract!ContractNext
<1>3. CASE c \notin finalized
  <2>1. CommitBatch(c, EndBatch(c))
    BY <1>1, <1>3
  <2>2. /\ \A d \in Cycles : d # c => StageOf(d)' = StageOf(d)
        /\ StageOf(c) = "open" /\ StageOf(c)' \in {"absent", "open"}
    BY <1>1, <1>3, LetGo
  <2>3. Contract!FailedClose(c)
    BY <1>1, <2>1, <2>2, EndIsWritten, ContractWrites
  <2> QED
    BY <2>3 DEF ContractStep, Contract!ContractNext
<1> QED
  BY <1>2, <1>3

LEMMA AbsorbFailsDrops ==
  ASSUME TypeOK, DriveAbsorbFails
  PROVE  ContractStep
<1> SUFFICES ASSUME NEW c \in Cycles, current = c PROVE ContractStep
  BY InFinalize DEF DriveAbsorbFails
<1>1. /\ finalized' = finalized /\ pending' = pending /\ current' = NoCycle
      /\ MergeMayFail /\ outbox' = outbox
  BY DEF DriveAbsorbFails, MarkStatus, Release, engineVars
<1>2. /\ \A d \in Cycles : d # c => StageOf(d)' = StageOf(d)
      /\ StageOf(c) = IF c \in finalized THEN "final" ELSE "open"
      /\ c \in finalized => StageOf(c)' = "final"
      /\ c \notin finalized => StageOf(c)' \in {"absent", "open"}
  BY <1>1, LetGo
<1>3. \A t \in Tenants : LogOf(t)' = LogOf(t)
  BY <1>1 DEF LogOf
<1>4. CASE StageOf(c)' = StageOf(c)
  BY <1>2, <1>3, <1>4, ContractStutters DEF ContractStep
<1>5. CASE StageOf(c)' # StageOf(c)
  <2>1. StageOf(c) = "open" /\ StageOf(c)' = "absent"
    BY <1>2, <1>5
  <2>2. Contract!Drop(c)
    BY <1>1, <1>2, <1>3, <2>1, ContractMoves
  <2> QED
    BY <2>2 DEF ContractStep, Contract!ContractNext
<1> QED
  BY <1>4, <1>5

LEMMA CrashRestarts ==
  ASSUME Crash
  PROVE  ContractStep
<1>1. /\ pending' = [t \in Tenants |-> <<>>] /\ current' = NoCycle /\ finalized' = {}
      /\ outbox' = [t \in Tenants |-> <<>>]
  BY DEF Crash, SchedulerReset
<1>2. \A c \in Cycles : StageOf(c)' = "absent"
  <2> TAKE c \in Cycles
  <2>1. pending'[TenantOf[c]] = <<>> /\ current' # c /\ c \notin finalized'
    BY <1>1, TenantOfCycle, ServiceAssumption DEF ServiceAssumption
  <2>2. Occurrences(pending'[TenantOf[c]], c) = 0
    BY <2>1, OccurrencesOfEmpty
  <2> QED
    BY <2>1, <2>2 DEF StageOf, AtWork
<1>3. \A t \in Tenants : LogOf(t)' = <<>>
  BY <1>1, RetainEmpty DEF LogOf
<1>4. Contract!Restart
  BY <1>2, <1>3 DEF Contract!Restart, StageOf, LogOf
<1> QED
  BY <1>4 DEF ContractStep, Contract!ContractNext

\* Every step of the service is a step of the contract or none.
LEMMA ServiceStepsAreContractSteps ==
  TypeOK /\ QueuesAreOfTheirTenant /\ [Next]_vars => ContractStep
<1> SUFFICES ASSUME TypeOK, QueuesAreOfTheirTenant, [Next]_vars PROVE ContractStep
  OBVIOUS
<1>1. CASE Drive
  <2>1. CASE DriveIdle
    <3>1. current = NoCycle
      BY <2>1 DEF TypeOK, DriveTypeOK, DriveIdle
    <3> QED
      BY <2>1, <3>1, SameContract DEF DriveIdle, Release, schedulerVars, engineVars
  <2>2. CASE DriveDequeue
    BY <2>2, SameContract DEF DriveDequeue, schedulerVars
  <2>3. CASE DriveAbsorb
    BY <2>3, SameContract DEF DriveAbsorb, MarkStatus
  <2> QED
    BY <1>1, <2>1, <2>2, <2>3, PoppedStaysOpen, FinalizeCloses, FinalizeAgainIsLate,
       ForwardFailsWrites, AbsorbFailsDrops DEF Drive
<1>2. ASSUME NEW c \in Cycles, Trigger(c) PROVE ContractStep
  <2>1. CASE TriggerSubmit(c)
    <3>1. /\ pending' = [pending EXCEPT ![TenantOf[c]] = Append(@, c)]
          /\ UNCHANGED <<current, finalized, outbox>>
      BY <2>1 DEF TriggerSubmit, Schedule, Acquire
    <3> QED
      BY <3>1, QueuedOpens
  <2>2. CASE TriggerRejected(c)
    BY <2>2, SameContract DEF TriggerRejected, schedulerVars, engineVars, driveVars
  <2>3. CASE TriggerCache(c)
    BY <2>3, SameContract DEF TriggerCache, schedulerVars, engineVars, driveVars
  <2>4. CASE TriggerPersist(c)
    BY <2>4, SameContract DEF TriggerPersist, schedulerVars, engineVars, driveVars
  <2> QED
    BY <1>2, <2>1, <2>2, <2>3, <2>4 DEF Trigger
<1>3. ASSUME NEW c \in Cycles, CheckpointAges(c) PROVE ContractStep
  BY <1>3, SameContract DEF CheckpointAges, schedulerVars, driveVars
<1>4. ASSUME NEW i \in Injections, Inject(i) PROVE ContractStep
  <2>1. CASE InjectSubmit(i)
    <3>1. TargetOf[i] \in Cycles
      BY ServiceAssumption DEF ServiceAssumption
    <3>2. /\ pending' = [pending EXCEPT ![TenantOf[TargetOf[i]]] = Append(@, TargetOf[i])]
          /\ UNCHANGED <<current, finalized, outbox>>
      BY <2>1 DEF InjectSubmit, Reschedule, driveVars
    <3> QED
      BY <3>1, <3>2, QueuedOpens
  <2>2. CASE InjectRead(i)
    BY <2>2, SameContract DEF InjectRead, schedulerVars, engineVars, driveVars
  <2>3. CASE InjectLoad(i)
    BY <2>3, SameContract DEF InjectLoad, schedulerVars, engineVars, driveVars
  <2>4. CASE InjectCache(i)
    BY <2>4, SameContract DEF InjectCache, schedulerVars, engineVars, driveVars
  <2>5. CASE InjectPersist(i)
    BY <2>5, SameContract DEF InjectPersist, schedulerVars, engineVars, driveVars
  <2> QED
    BY <1>4, <2>1, <2>2, <2>3, <2>4, <2>5 DEF Inject
<1>5. ASSUME NEW i \in Injections, Task(i) PROVE ContractStep
  <2>1. CASE TaskDrive(i)
    BY <2>1, SameContract DEF TaskDrive, Acquire, schedulerVars, engineVars
  <2>2. CASE TaskUpdate(i)
    BY <2>2, SameContract DEF TaskUpdate, schedulerVars, engineVars, driveVars
  <2> QED
    BY <1>5, <2>1, <2>2 DEF Task
<1>6. ASSUME NEW t \in Tenants, ClarifyWaitElapses(t) PROVE ContractStep
  BY <1>6, SameContract DEF ClarifyWaitElapses, WaitElapses, engineVars, driveVars
<1>7. CASE Crash
  BY <1>7, CrashRestarts
<1>8. CASE UNCHANGED vars
  BY <1>8, SameContract DEF vars, schedulerVars, engineVars, driveVars
<1> QED
  BY <1>1, <1>2, <1>3, <1>4, <1>5, <1>6, <1>7, <1>8 DEF Next, Finished

LEMMA ContractBegins == Init => Contract!ContractInit
<1> SUFFICES ASSUME Init PROVE Contract!ContractInit
  OBVIOUS
<1>1. /\ pending = [t \in Tenants |-> <<>>] /\ current = NoCycle /\ finalized = {}
      /\ outbox = [t \in Tenants |-> <<>>]
  BY DEF Init, SchedulerInit, EngineInit, DriveInit
<1>2. \A c \in Cycles : StageOf(c) = "absent"
  <2> TAKE c \in Cycles
  <2>1. pending[TenantOf[c]] = <<>> /\ current # c /\ c \notin finalized
    BY <1>1, TenantOfCycle, ServiceAssumption DEF ServiceAssumption
  <2>2. Occurrences(pending[TenantOf[c]], c) = 0
    BY <2>1, OccurrencesOfEmpty
  <2> QED
    BY <2>1, <2>2 DEF StageOf, AtWork
<1>3. \A t \in Tenants : LogOf(t) = <<>>
  BY <1>1, RetainEmpty DEF LogOf
<1> QED
  BY <1>2, <1>3 DEF Contract!ContractInit, StageOf, LogOf

\* The service implements the contract of a cycle: whatever the handlers, the
\* tasks and the drive interleave, whatever fails and whenever the process dies,
\* a cycle that is being worked on ends once, with one message of its end in its
\* tenant's outbox, and afterwards it only leaves receipts (engine.rs, runtime.rs
\* and ace_service.rs against CycleContract).
THEOREM ServiceImplementsContract == Spec => ImplementsContract
<1>1. Init => QueuesAreOfTheirTenant /\ DriveNeverBlocks
  BY TenantOfCycle, OccurrencesOfEmpty
     DEF Init, SchedulerInit, EngineInit, DriveInit, QueuesAreOfTheirTenant,
         DriveNeverBlocks, QueuedWork
<1> QED
  BY <1>1, NeverBlocksStep, TypeInit, TypeStep, ContractBegins, ServiceStepsAreContractSteps, PTL
     DEF Spec, ImplementsContract, Contract!ContractSpec, ContractStep

===============================================================================
