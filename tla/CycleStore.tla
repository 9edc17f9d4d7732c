------------------------------ MODULE CycleStore ------------------------------
(***************************************************************************)
(* What becomes of the events of a cycle: finalize_cycle (engine.rs), the  *)
(* forwarder to the transactional store of Redis (outbox/redis.rs), and    *)
(* the rows persist_cycle writes (persistence/surreal.rs) from a thread    *)
(* that finalize_cycle starts and never joins.  The queue in memory, which *)
(* has the batch before anything is forwarded, is in AceService.           *)
(*                                                                         *)
(* The engine finalizes one cycle at a time (the service mutex); the       *)
(* writers run beside it and beside each other, one awaited call at a      *)
(* time, each of which may fail.  A crash takes everything but the rows    *)
(* and the store of the forwarder.                                         *)
(*                                                                         *)
(* External.  upsert_or_create writes the row of an id over the one that   *)
(* is there; enqueue of the transactional store keeps a message by its id. *)
(***************************************************************************)
EXTENDS CycleEvents, FiniteSets

CONSTANTS
    Cycles,        \* all of one tenant
    DriveShapes,   \* the shapes a drive may have
    MaxDrives,     \* bound: drives of each cycle
    MaxCrashes,    \* bound
    MaxFailures,   \* bound: failed writes and failed enqueues
    Idle

ASSUME StoreAssumption ==
    /\ DriveShapes \subseteq Shapes
    /\ ClientEvents \cap {"built", "none"} = {}
    /\ MaxDrives \in Nat /\ MaxCrashes \in Nat /\ MaxFailures \in Nat

VARIABLES
    finalized,   \* AceEngine.finalized
    finalizing,  \* the call of finalize_cycle that is in the engine, or Idle
    dispatched,  \* the messages in the store of the forwarder
    writers,     \* the threads that run persist_cycle
    dialogue,    \* rows of ace_dialogue_event: the final events stored
    awareness,   \* rows of ace_awareness_event, by event id
    emitted,     \* history: the emissions handed to finalize_cycle
    forwarded,   \* history: cycle and drive of the calls that returned Ok
    crashes, failures

engineSide == <<finalized, finalizing, dispatched, forwarded>>
writerSide == <<writers, dialogue, awareness>>
counts == <<crashes, failures>>
storeVars == <<engineSide, writerSide, emitted, counts>>

StoreInit ==
    /\ finalized = {}
    /\ finalizing = Idle
    /\ dispatched = {}
    /\ writers = {}
    /\ dialogue = {}
    /\ awareness = [id \in {} |-> 0]
    /\ emitted = {}
    /\ forwarded = {}
    /\ crashes = 0
    /\ failures = 0

-----------------------------------------------------------------------------
(* finalize_cycle                                                           *)

DrivesOf(c) == Cardinality({e \in emitted : e.cycle = c}) + 1

Drive(c, d, shape) == [cycle |-> c, drive |-> d, shape |-> shape]

\* Of a drive of a cycle that is final only the last event counts.
LateShapes == [last : {shape.last : shape \in DriveShapes}]
IsLate(e)  == e.shape \in LateShapes

ASSUME IdleAssumption ==
    Idle \notin [cycle : Cycles, drive : Nat, shape : DriveShapes \cup LateShapes]

EndOf(e)    == FinalEvent(e.cycle, e.drive, e.shape.last)
EventsOf(e) == Emission(e.cycle, e.drive, e.shape)
BatchOf(e)  == IF IsLate(e) THEN LateBatch(e.cycle, e.drive, e.shape.last)
               ELSE Batch(e.cycle, e.drive, e.shape)

\* A cycle that is not final is registered, its writer started and its batch
\* queued, all before anything is forwarded.  It may come again: rescheduled by
\* an injection, after a failure or after a restart.
FinalizeCycle(c) ==
    /\ finalizing = Idle /\ c \notin finalized /\ DrivesOf(c) <= MaxDrives
    /\ \E shape \in DriveShapes :
          LET e == Drive(c, DrivesOf(c), shape) IN
          /\ emitted' = emitted \cup {e}
          /\ writers' = writers \cup {[of |-> e, written |-> 0]}
          /\ finalizing' = e
    /\ finalized' = finalized \cup {c}
    /\ UNCHANGED <<dispatched, dialogue, awareness, forwarded, counts>>

\* A cycle that is final leaves a receipt in the outbox and no row.
FinalizeLate(c) ==
    /\ finalizing = Idle /\ c \in finalized /\ DrivesOf(c) <= MaxDrives
    /\ \E shape \in LateShapes :
          LET e == Drive(c, DrivesOf(c), shape) IN
          /\ emitted' = emitted \cup {e}
          /\ finalizing' = e
    /\ UNCHANGED <<finalized, dispatched, writerSide, forwarded, counts>>

Ids(batch, n) == {batch[k].id : k \in 1..n}

\* RedisOutboxForwarder::forward hands over the messages of its own tenant one by
\* one.  Nobody looks at its store meanwhile: all of them in one step,
ForwardAll ==
    /\ finalizing # Idle
    /\ dispatched' = dispatched \cup Ids(BatchOf(finalizing), Len(BatchOf(finalizing)))
    /\ forwarded' = forwarded \cup {finalizing}
    /\ finalizing' = Idle
    /\ UNCHANGED <<finalized, writerSide, emitted, counts>>

\* Mutant: the failed cycle stays registered.
UnregisterNever(e) == finalized

\* The cycle may be finalized again; its batch stays in the queue.
Unregister(e) == IF IsLate(e) THEN finalized ELSE finalized \ {e.cycle}

\* or, when one is refused, those before it: none of a batch of another tenant
\* than the one the forwarder is bound to.
ForwardFails ==
    /\ finalizing # Idle /\ failures < MaxFailures
    /\ failures' = failures + 1
    /\ \E n \in 0..(Len(BatchOf(finalizing)) - 1) :
          dispatched' = dispatched \cup Ids(BatchOf(finalizing), n)
    /\ finalized' = Unregister(finalizing)
    /\ finalizing' = Idle
    /\ UNCHANGED <<writerSide, emitted, forwarded, crashes>>

-----------------------------------------------------------------------------
(* persist_cycle                                                            *)

Stored(rows, e) ==
    [id \in DOMAIN rows \cup {e.id} |-> IF id = e.id THEN e ELSE rows[id]]

\* The dialogue row, then the awareness rows in the order of the emission.
Write(w) ==
    IF w.written = 0
    THEN dialogue' = dialogue \cup {EndOf(w.of).id} /\ UNCHANGED awareness
    ELSE awareness' = Stored(awareness, EventsOf(w.of)[w.written]) /\ UNCHANGED dialogue

WriterStep(w) ==
    /\ Write(w)
    /\ writers' = (writers \ {w})
                    \cup (IF w.written = Len(EventsOf(w.of)) THEN {}
                          ELSE {[w EXCEPT !.written = @ + 1]})
    /\ UNCHANGED <<engineSide, emitted, counts>>

\* Mutant: a row that cannot be written is left out.
WriterSkips(w) ==
    /\ failures < MaxFailures /\ w.written < Len(EventsOf(w.of))
    /\ writers' = (writers \ {w}) \cup {[w EXCEPT !.written = @ + 1]}
    /\ failures' = failures + 1
    /\ UNCHANGED <<engineSide, dialogue, awareness, emitted, crashes>>

\* A write that fails ends the thread; nobody writes the rest.
WriterFails(w) ==
    /\ failures < MaxFailures
    /\ writers' = writers \ {w}
    /\ failures' = failures + 1
    /\ UNCHANGED <<engineSide, dialogue, awareness, emitted, crashes>>

CrashStore ==
    /\ crashes < MaxCrashes
    /\ crashes' = crashes + 1
    /\ finalized' = {} /\ finalizing' = Idle /\ writers' = {}
    /\ UNCHANGED <<dispatched, dialogue, awareness, emitted, forwarded, failures>>

-----------------------------------------------------------------------------
StoreNext ==
    \/ \E c \in Cycles : FinalizeCycle(c) \/ FinalizeLate(c)
    \/ ForwardAll \/ ForwardFails
    \/ \E w \in writers : WriterStep(w) \/ WriterFails(w)
    \/ CrashStore

StoreSpec == StoreInit /\ [][StoreNext]_storeVars

-----------------------------------------------------------------------------
(* Properties                                                               *)

\* Whoever reads the table takes the Finalized row for the end of a cycle
\* (drive_once adds it for that).  A drive may write it over the row of an earlier
\* one, and a writer that is slow over that of a later one: in whatever order the
\* writers ran, failed or crashed, the row that is there comes from a drive whose
\* dialogue row is stored and whose other events each have a row.
FinalizedRowIsLast ==
    \A e \in emitted :
        (/\ ~IsLate(e)
         /\ EndOf(e).id \in DOMAIN awareness
         /\ awareness[EndOf(e).id] = EndOf(e)) =>
            /\ EndOf(e).id \in dialogue
            /\ \A n \in DOMAIN EventsOf(e) : EventsOf(e)[n].id \in DOMAIN awareness

\* A call of finalize_cycle that returned Ok has handed every message to the
\* store of the forwarder, and a cycle stays registered only by such a call: one
\* whose batch got stuck may be finalized again.
FinalCyclesWereForwarded ==
    /\ \A e \in forwarded : \A n \in DOMAIN BatchOf(e) : BatchOf(e)[n].id \in dispatched
    /\ \A c \in finalized :
          (finalizing = Idle \/ finalizing.cycle # c) =>
              \E e \in forwarded : e.cycle = c /\ ~IsLate(e)

\* README.md and docs/awareness_events_schema.md: awareness events are append
\* only.  No row is written over by another event.
AwarenessIsAppendOnly ==
    [][\A id \in DOMAIN awareness : id \in DOMAIN awareness' /\ awareness'[id] = awareness[id]]_storeVars

=============================================================================
