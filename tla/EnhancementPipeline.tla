-------------------------- MODULE EnhancementPipeline --------------------------
(***************************************************************************)
(* EventWriteCoordinator and EnhancementPipeline (tools/enhancement.rs).   *)
(* Writers store an event and then schedule its enhancement; one worker    *)
(* thread takes the jobs from a channel, tries each, and sends a job that  *)
(* failed back into the same channel until its attempts are used up.       *)
(* Dropping the pipeline sends Shutdown down that channel too.             *)
(*                                                                         *)
(* External.  The base store, the generator and the sink: each call of     *)
(* them succeeds or fails; rollback and mark_failed do as they are told.   *)
(***************************************************************************)
EXTENDS Integers, Sequences, FiniteSets

CONSTANTS
    Events, Writers,
    RetryBudgets,      \* the values of max_retries that writers pass
    MaxWrites          \* bound: calls of write_event

ASSUME PipelineAssumption == RetryBudgets \subseteq Nat /\ MaxWrites \in Nat

VARIABLES
    status,      \* EnhancementPipeline.state, by event
    queue,       \* the channel
    worker,      \* what the worker is about
    writer,      \* what each writer is about
    open,        \* the pipeline has not been dropped
    base,        \* external: the events in the base store
    persisted,   \* external: how often the sink persisted for each event
    rolledBack,  \* external: how often each event was rolled back
    writes

pipelineVars == <<status, queue, worker, writer, open, base, persisted, rolledBack, writes>>

Idle == [step |-> "idle"]
Shutdown == [shutdown |-> TRUE]
Job(e, attempts, most) == [shutdown |-> FALSE, event |-> e, attempts |-> attempts, most |-> most]
Settled == {"Succeeded", "RolledBack"}

PipelineInit ==
    /\ status = [e \in {} |-> 0]
    /\ queue = <<>>
    /\ worker = Idle
    /\ writer = [w \in Writers |-> Idle]
    /\ open = TRUE
    /\ base = {}
    /\ persisted = [e \in Events |-> 0]
    /\ rolledBack = [e \in Events |-> 0]
    /\ writes = 0

Becomes(e, is, attempts) ==
    status' = [x \in DOMAIN status \cup {e} |->
                 IF x = e THEN [is |-> is, attempts |-> attempts] ELSE status[x]]

-----------------------------------------------------------------------------
(* write_event                                                              *)

\* The base layer first; when it fails nothing else happens.
WriteBase(w, e, most) ==
    /\ writer[w] = Idle /\ open /\ writes < MaxWrites
    /\ writes' = writes + 1
    /\ \/ /\ base' = base \cup {e}
          /\ writer' = [writer EXCEPT ![w] = [step |-> "enqueue", event |-> e, most |-> most]]
       \/ UNCHANGED <<base, writer>>
    /\ UNCHANGED <<status, queue, worker, open, persisted, rolledBack>>

\* Mutant: an event that was scheduled before is scheduled again.
RefusedNever(w) == writer[w].most = 0

Refused(w) == writer[w].most = 0 \/ writer[w].event \in DOMAIN status

\* enqueue: refused without retries or when the event has a status, and the base
\* layer keeps what was written;
EnqueueRefused(w) ==
    /\ writer[w].step = "enqueue" /\ Refused(w)
    /\ writer' = [writer EXCEPT ![w] = Idle]
    /\ UNCHANGED <<status, queue, worker, open, base, persisted, rolledBack, writes>>

\* otherwise the status is taken in one lock scope
EnqueueMark(w) ==
    /\ writer[w].step = "enqueue" /\ ~Refused(w)
    /\ Becomes(writer[w].event, "Pending", 0)
    /\ writer' = [writer EXCEPT ![w].step = "send"]
    /\ UNCHANGED <<queue, worker, open, base, persisted, rolledBack, writes>>

\* and the job sent after it.
EnqueueSend(w) ==
    /\ writer[w].step = "send"
    /\ queue' = Append(queue, Job(writer[w].event, 0, writer[w].most))
    /\ writer' = [writer EXCEPT ![w] = Idle]
    /\ UNCHANGED <<status, worker, open, base, persisted, rolledBack, writes>>

-----------------------------------------------------------------------------
(* The worker                                                               *)

WorkerTake ==
    /\ worker = Idle /\ queue # <<>>
    /\ queue' = Tail(queue)
    /\ LET job == Head(queue) IN
       IF job.shutdown THEN worker' = [step |-> "gone"] /\ UNCHANGED status
       ELSE /\ worker' = [step |-> "running", job |-> [job EXCEPT !.attempts = @ + 1]]
            /\ Becomes(job.event, "Running", job.attempts + 1)
    /\ UNCHANGED <<writer, open, base, persisted, rolledBack, writes>>

WorkerSucceeds ==
    /\ worker.step = "running"
    /\ LET job == worker.job IN
       /\ persisted' = [persisted EXCEPT ![job.event] = @ + 1]
       /\ Becomes(job.event, "Succeeded", job.attempts)
    /\ worker' = Idle
    /\ UNCHANGED <<queue, writer, open, base, rolledBack, writes>>

WorkerGivesUp ==
    /\ worker.step = "running" /\ worker.job.attempts >= worker.job.most
    /\ LET job == worker.job IN
       /\ rolledBack' = [rolledBack EXCEPT ![job.event] = @ + 1]
       /\ Becomes(job.event, "RolledBack", job.attempts)
    /\ worker' = Idle
    /\ UNCHANGED <<queue, writer, open, base, persisted, writes>>

\* A job with attempts left is marked, and sent back after a pause.
WorkerRetries ==
    /\ worker.step = "running" /\ worker.job.attempts < worker.job.most
    /\ Becomes(worker.job.event, "Retrying", worker.job.attempts)
    /\ worker' = [worker EXCEPT !.step = "resend"]
    /\ UNCHANGED <<queue, writer, open, base, persisted, rolledBack, writes>>

\* Mutant: the job is not sent back.
WorkerForgets ==
    /\ worker.step = "resend"
    /\ worker' = Idle
    /\ UNCHANGED <<status, queue, writer, open, base, persisted, rolledBack, writes>>

\* The receiver is the worker's own: the send never fails, also behind a Shutdown.
WorkerResends ==
    /\ worker.step = "resend"
    /\ queue' = Append(queue, worker.job)
    /\ worker' = Idle
    /\ UNCHANGED <<status, writer, open, base, persisted, rolledBack, writes>>

WorkerStep ==
    WorkerTake \/ WorkerSucceeds \/ WorkerGivesUp \/ WorkerRetries \/ WorkerResends

\* The owner drops the pipeline when no writer is in it, and waits for the worker.
DropPipeline ==
    /\ open /\ \A w \in Writers : writer[w] = Idle
    /\ open' = FALSE
    /\ queue' = Append(queue, Shutdown)
    /\ UNCHANGED <<status, worker, writer, base, persisted, rolledBack, writes>>

-----------------------------------------------------------------------------
PipelineNext ==
    \/ \E w \in Writers : \/ \E e \in Events, most \in RetryBudgets : WriteBase(w, e, most)
                          \/ EnqueueRefused(w) \/ EnqueueMark(w) \/ EnqueueSend(w)
    \/ WorkerStep
    \/ DropPipeline

PipelineSpec == PipelineInit /\ [][PipelineNext]_pipelineVars

\* Threads run on; an attempt that is under way ends.
PipelineFairness ==
    /\ \A w \in Writers : WF_pipelineVars(EnqueueSend(w))
    /\ WF_pipelineVars(WorkerStep)

-----------------------------------------------------------------------------
(* Properties                                                               *)

Holders(e) ==
    Cardinality({n \in DOMAIN queue : ~queue[n].shutdown /\ queue[n].event = e})
      + Cardinality({w \in Writers : writer[w].step = "send" /\ writer[w].event = e})
      + (IF worker.step \in {"running", "resend"} /\ worker.job.event = e THEN 1 ELSE 0)

\* However writes, retries and the end of the pipeline interleave, an event that is
\* not settled has one job and a settled one none, and what became of it outside is
\* what its status says, done once.
OneJobPerEvent ==
    \A e \in Events :
        LET is == IF e \in DOMAIN status THEN status[e].is ELSE "none" IN
        /\ Holders(e) = IF is \in Settled \cup {"none"} THEN 0 ELSE 1
        /\ persisted[e] = IF is = "Succeeded" THEN 1 ELSE 0
        /\ rolledBack[e] = IF is = "RolledBack" THEN 1 ELSE 0
        /\ is # "none" => e \in base

\* An enhancement that was scheduled is settled, unless the pipeline is dropped:
\* then what is behind the Shutdown in the channel is lost with it.
EnhancementsSettle ==
    \A e \in Events :
        (e \in DOMAIN status) ~> ((e \in DOMAIN status /\ status[e].is \in Settled) \/ ~open)

=============================================================================
