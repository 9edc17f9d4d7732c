------------------------------ MODULE OutboxTable ------------------------------
(***************************************************************************)
(* The durable side of AcePersistence (persistence/mod.rs, surreal.rs) and *)
(* the RecoveryManager (recovery.rs): cycle snapshots, the checkpoint that *)
(* is saved together with outbox messages, the page of pending messages    *)
(* and the mark a message gets when it is sent.                            *)
(*                                                                         *)
(* Nothing in the repository calls the outbox methods: there is no relay   *)
(* (recover_pending_outbox answers with an empty list), so nothing is      *)
(* assumed of callers.  Saves run beside each other, any row may be marked *)
(* at any time.  One step is one awaited call of the database; any of them *)
(* may fail, and a crash takes the saves that were under way.  A call that *)
(* marks several rows is one step for each; where it ends early, the rest  *)
(* of its steps is not taken.                                              *)
(*                                                                         *)
(* Abstractions.  A snapshot is the type it was serialised from and the    *)
(* status in it; of a message only its id, its cycle and whether its       *)
(* payload can be decoded are kept; no mark names an event without a row.  *)
(***************************************************************************)
EXTENDS AceTypes, Integers, Sequences, FiniteSets, SequencesExt

CONSTANTS
    SavedCycles,
    Messages, CycleOf,   \* [Messages -> SavedCycles]
    OldMessages,         \* pending rows another version left, which cannot be decoded
    AskedLimit,          \* the limit list_pending_outbox is asked for
    Times,               \* readings of the clock, in whole seconds
    MaxSaves,            \* bound: saves begun
    MaxDbFailures,       \* bound
    MaxRestarts,         \* bound
    Nothing

ASSUME TableAssumption ==
    /\ IsFiniteSet(Messages) /\ OldMessages \subseteq Messages
    /\ CycleOf \in [Messages -> SavedCycles]
    /\ AskedLimit \in Nat /\ Times \subseteq Nat
    /\ MaxSaves \in Nat /\ MaxDbFailures \in Nat /\ MaxRestarts \in Nat
    /\ Nothing \notin [type : {"CycleSnapshot", "CycleSchedule"},
                       status : {"Running", "Completed"}]

VARIABLES
    snapshot,    \* rows of ace_cycle_snapshot, Nothing when there is none
    outbox,      \* rows of ace_outbox, by event id
    saving,      \* the saves under way
    acked,       \* history: the messages of the saves that returned Ok
    marked,      \* history: the messages marked after their row was last written
    saves, dbFailures, restarts

tableVars == <<snapshot, outbox, saving, acked, marked, saves, dbFailures, restarts>>

\* What an earlier run of the program left.
TableInit ==
    /\ snapshot = [c \in SavedCycles |->
                     IF \E m \in OldMessages : CycleOf[m] = c
                     THEN [type |-> "CycleSchedule", status |-> "Running"] ELSE Nothing]
    /\ outbox = [m \in OldMessages |-> [status |-> "pending", created_at |-> 0, readable |-> FALSE]]
    /\ saving = {}
    /\ acked = {}
    /\ marked = {}
    /\ saves = 0 /\ dbFailures = 0 /\ restarts = 0

RowSet(m, r) == [x \in DOMAIN outbox \cup {m} |-> IF x = m THEN r ELSE outbox[x]]

-----------------------------------------------------------------------------
(* Saving                                                                   *)

\* persist_cycle_snapshot, as the HTTP service calls it: its own snapshot type.
PersistSnapshot(c) ==
    /\ saves < MaxSaves
    /\ saves' = saves + 1
    /\ snapshot' = [snapshot EXCEPT ![c] = [type |-> "CycleSnapshot", status |-> "Running"]]
    /\ UNCHANGED <<outbox, saving, acked, marked, dbFailures, restarts>>

\* transactional_checkpoint_and_outbox: the messages of the cycle, any of them.
\* The time in the rows is read once, before the first write.
SaveBegin(c) ==
    /\ saves < MaxSaves
    /\ saves' = saves + 1
    /\ \E S \in SUBSET {m \in Messages : CycleOf[m] = c},
          status \in {"Running", "Completed"}, now \in Times :
          saving' = saving \cup
              {[nth |-> saves, cycle |-> c, status |-> status, checkpoint |-> FALSE,
                rows |-> SetToSeq(S), of |-> S, at |-> now]}
    /\ UNCHANGED <<snapshot, outbox, acked, marked, dbFailures, restarts>>

Going(s, t) == saving' = (saving \ {s}) \cup {t}

SaveCheckpoint(s) ==
    /\ ~s.checkpoint
    /\ snapshot' = [snapshot EXCEPT ![s.cycle] = [type |-> "CycleSchedule", status |-> s.status]]
    /\ Going(s, [s EXCEPT !.checkpoint = TRUE])
    /\ UNCHANGED <<outbox, acked, marked, saves, dbFailures, restarts>>

WriteMessage(s) ==
    /\ s.rows # <<>>
    /\ outbox' = RowSet(Head(s.rows),
                        [status |-> "pending", created_at |-> s.at, readable |-> TRUE])
    /\ marked' = marked \ {Head(s.rows)}
    /\ Going(s, [s EXCEPT !.rows = Tail(@)])
    /\ UNCHANGED <<snapshot, acked, saves, dbFailures, restarts>>

\* Mutant: the messages are written before the checkpoint.
SaveMessageEarly(s) == WriteMessage(s)

\* A message is written over the row it may have, sent or not.
SaveMessage(s) == s.checkpoint /\ WriteMessage(s)

SaveDone(s) ==
    /\ s.checkpoint /\ s.rows = <<>>
    /\ acked' = acked \cup s.of
    /\ saving' = saving \ {s}
    /\ UNCHANGED <<snapshot, outbox, marked, saves, dbFailures, restarts>>

\* A write that fails ends the save; what was written stays.
SaveFails(s) ==
    /\ dbFailures < MaxDbFailures
    /\ dbFailures' = dbFailures + 1
    /\ saving' = saving \ {s}
    /\ UNCHANGED <<snapshot, outbox, acked, marked, saves, restarts>>

-----------------------------------------------------------------------------
(* Marking                                                                  *)

Sent(m) == [outbox[m] EXCEPT !.status = "sent"]

\* Mutant: the mark is put on every message of the cycle.
MarkCycleSent(m) ==
    /\ outbox' = [x \in DOMAIN outbox |-> IF CycleOf[x] = CycleOf[m] THEN Sent(x) ELSE outbox[x]]
    /\ marked' = marked \cup {m}
    /\ UNCHANGED <<snapshot, saving, acked, saves, dbFailures, restarts>>

\* mark_outbox_sent at one row, whether it is still the one its caller knows.
MarkSent(m) ==
    /\ outbox' = RowSet(m, Sent(m))
    /\ marked' = marked \cup {m}
    /\ UNCHANGED <<snapshot, saving, acked, saves, dbFailures, restarts>>

Restart ==
    /\ restarts < MaxRestarts
    /\ restarts' = restarts + 1
    /\ saving' = {}
    /\ UNCHANGED <<snapshot, outbox, acked, marked, saves, dbFailures>>

-----------------------------------------------------------------------------
(* Listing                                                                  *)

Limit == CASE AskedLimit < 1 -> 1 [] AskedLimit > 500 -> 500 [] OTHER -> AskedLimit

Pending == {m \in DOMAIN outbox : outbox[m].status = "pending"}

Older(m, n) == outbox[m].created_at < outbox[n].created_at

\* The rows list_pending_outbox may select: the oldest, up to the limit; of the
\* same age, any.
Pages ==
    {P \in SUBSET Pending :
        /\ P = Pending \/ Cardinality(P) = Limit
        /\ Cardinality(P) <= Limit
        /\ \A m \in P, n \in Pending \ P : ~Older(n, m)}

\* What it answers of them: rows it cannot decode are skipped, after they were
\* counted.
Listed(P) == {m \in P : outbox[m].readable}

-----------------------------------------------------------------------------
(* RecoveryManager                                                          *)

Recoverable == {"Running", "AwaitingExternal", "Suspended"}

\* What recover_from_checkpoint answers, and cold_start_convergence after it: the
\* row has to be a CycleSchedule of a cycle that has not ended.  It changes nothing.
Answer(c) ==
    IF snapshot[c] = Nothing THEN "none"
    ELSE IF snapshot[c].type = "CycleSchedule" /\ snapshot[c].status \in Recoverable
    THEN "schedule" ELSE "error"

-----------------------------------------------------------------------------
TableNext ==
    \/ \E c \in SavedCycles : PersistSnapshot(c) \/ SaveBegin(c)
    \/ \E s \in saving : SaveCheckpoint(s) \/ SaveMessage(s) \/ SaveDone(s) \/ SaveFails(s)
    \/ \E m \in DOMAIN outbox : MarkSent(m)
    \/ Restart

TableSpec == TableInit /\ [][TableNext]_tableVars

-----------------------------------------------------------------------------
(* Properties                                                               *)

\* A message is never in the table without a checkpoint of its cycle, although the
\* two are not written in one transaction: after a crash between them, recovery
\* never takes a cycle with messages for one that was not there.
MessagesHaveACheckpoint ==
    \A m \in DOMAIN outbox : Answer(CycleOf[m]) # "none"

\* A message whose save was answered Ok, and whose row nobody marked since it was
\* written, is in whatever list_pending_outbox may answer: through saves that run
\* beside its own, failed, or were cut off by a restart, and marks of other rows.
\* There is one way out: a full page of rows that are no younger, rows that cannot
\* be decoded among them.
StoredMessagesAreListed ==
    \A m \in acked \ marked, P \in Pages :
        m \notin Listed(P) => Cardinality(P) = Limit /\ \A n \in P : ~Older(m, n)

=============================================================================
