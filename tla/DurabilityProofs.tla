---------------------------- MODULE DurabilityProofs ----------------------------
(***************************************************************************)
(* Proofs about what outlives a crash: OutboxTable, the checkpoints and    *)
(* the durable messages, and CycleStore, the events of a cycle.            *)
(***************************************************************************)
EXTENDS CycleStore, OutboxTable, RetainTheorems

-----------------------------------------------------------------------------
(* OutboxTable                                                              *)

Save == [nth : Nat, cycle : SavedCycles, status : {"Running", "Completed"}, checkpoint : BOOLEAN,
         rows : Seq(Messages), of : SUBSET Messages, at : Times]

Row == [status : {"pending", "sent"}, created_at : Nat, readable : BOOLEAN]

HasCheckpoint(c) == snapshot[c] # Nothing

\* A message that can be decoded and waits, or was marked since it was written.
Kept(m) == /\ m \in DOMAIN outbox
           /\ outbox[m].readable
           /\ m \notin marked => outbox[m].status = "pending"

\* What a save has yet to write and what it has written are all it is of, and no
\* row of the table is ahead of the checkpoint of its cycle.
SaveInv(s) ==
    /\ s \in Save
    /\ s.rows \in Seq({m \in Messages : CycleOf[m] = s.cycle})
    /\ s.checkpoint => HasCheckpoint(s.cycle)
    /\ \A m \in s.of : m \in ToSet(s.rows) \/ Kept(m)

TableInv ==
    /\ DOMAIN snapshot = SavedCycles
    /\ outbox \in [DOMAIN outbox -> Row] /\ DOMAIN outbox \subseteq Messages
    /\ saves \in Nat
    /\ \A m \in DOMAIN outbox : HasCheckpoint(CycleOf[m])
    /\ \A s \in saving : SaveInv(s)
    /\ \A m \in acked : Kept(m)

\* A finite set in some order is a sequence over it, and has all of it.
LEMMA SetToSeqIs ==
    ASSUME NEW S, IsFiniteSet(S)
    PROVE  SetToSeq(S) \in Seq(S) /\ S \subseteq ToSet(SetToSeq(S))
<1>1. Cardinality(S) \in Nat /\ ExistsBijection(1..Cardinality(S), S)
  BY FS_CardinalityType
<1>2. PICK f : f \in Bijection(1..Cardinality(S), S)
  BY <1>1 DEF ExistsBijection
<1>3. f \in [1..Cardinality(S) -> S] /\ IsInjective(f)
  BY <1>2 DEF Bijection, Injection, IsInjective
<1>4. SetToSeq(S) \in [1..Cardinality(S) -> S] /\ IsInjective(SetToSeq(S))
  BY <1>3 DEF SetToSeq
<1> DEFINE g == SetToSeq(S)
           R == {g[k] : k \in 1..Cardinality(S)}
<1> HIDE DEF g
<1>5. R \subseteq S
  BY <1>4 DEF g
<1>6. g \in Bijection(1..Cardinality(S), R)
  BY <1>4 DEF IsInjective, Bijection, Injection, Surjection, g
<1>7. IsFiniteSet(R) /\ Cardinality(R) = Cardinality(S)
  <2>1. IsFiniteSet(1..Cardinality(S)) /\ Cardinality(1..Cardinality(S)) = Cardinality(S)
    BY <1>1, FS_Interval
  <2>2. ExistsBijection(1..Cardinality(S), R)
    BY <1>6 DEF ExistsBijection
  <2>3. QED
    BY <1>1, <2>1, <2>2, FS_Bijection, FS_CountingElements
<1>8. R = S
  BY <1>5, <1>7, FS_Subset
<1>9. ToSet(g) = R
  BY <1>4 DEF ToSet, g
<1>10. QED
  BY <1>1, <1>4, <1>8, <1>9 DEF g

\* The elements of a sequence are the first and those after it.
LEMMA ToSetHeadTail ==
    ASSUME NEW S, NEW s \in Seq(S), s # <<>>
    PROVE  ToSet(s) = {Head(s)} \cup ToSet(Tail(s))
<1>1. /\ Len(s) \in Nat /\ Len(s) >= 1 /\ DOMAIN s = 1..Len(s) /\ Head(s) = s[1]
      /\ Tail(s) \in Seq(S) /\ Len(Tail(s)) = Len(s) - 1
      /\ DOMAIN Tail(s) = 1..(Len(s) - 1)
      /\ \A k \in 1..(Len(s) - 1) : Tail(s)[k] = s[k + 1]
  OBVIOUS
<1> DEFINE t == Tail(s)
<1> HIDE DEF t
<1>2. ASSUME NEW k \in 1..Len(s) PROVE s[k] \in {s[1]} \cup {t[j] : j \in 1..(Len(s) - 1)}
  <2>1. CASE k = 1
    BY <2>1
  <2>2. CASE k # 1
    <3>1. k - 1 \in 1..(Len(s) - 1) /\ (k - 1) + 1 = k
      BY <1>1, <2>2
    <3>2. t[k - 1] = s[k]
      BY <1>1, <3>1 DEF t
    <3>3. QED
      BY <3>1, <3>2
  <2>3. QED
    BY <2>1, <2>2
<1>3. \A k \in 1..(Len(s) - 1) : k + 1 \in 1..Len(s) /\ t[k] = s[k + 1]
  BY <1>1 DEF t
<1>4. 1 \in 1..Len(s)
  BY <1>1
<1>5. ToSet(s) = {s[k] : k \in 1..Len(s)} /\ ToSet(t) = {t[k] : k \in 1..(Len(s) - 1)}
  BY <1>1 DEF ToSet, t
<1>6. QED
  BY <1>1, <1>2, <1>3, <1>4, <1>5 DEF t

LEMMA TableInitial == TableInit => TableInv
<1> SUFFICES ASSUME TableInit PROVE TableInv
  OBVIOUS
<1>1. /\ snapshot = [c \in SavedCycles |->
                       IF \E m \in OldMessages : CycleOf[m] = c
                       THEN [type |-> "CycleSchedule", status |-> "Running"] ELSE Nothing]
      /\ outbox = [m \in OldMessages |->
                     [status |-> "pending", created_at |-> 0, readable |-> FALSE]]
      /\ saving = {} /\ acked = {} /\ saves = 0
  BY DEF TableInit
<1>2. \A m \in OldMessages : m \in Messages /\ CycleOf[m] \in SavedCycles
  BY TableAssumption
<1>3. [type |-> "CycleSchedule", status |-> "Running"] # Nothing
  BY TableAssumption
<1>4. \A m \in OldMessages : snapshot[CycleOf[m]] # Nothing
  BY <1>1, <1>2, <1>3
<1>5. outbox \in [OldMessages -> Row] /\ DOMAIN outbox = OldMessages
  BY <1>1 DEF Row
<1>6. QED
  BY <1>1, <1>2, <1>4, <1>5 DEF TableInv, HasCheckpoint

\* A step that writes no row: what was kept is.
LEMMA KeptStays ==
    ASSUME UNCHANGED <<outbox, marked>>, NEW m, Kept(m)
    PROVE  Kept(m)'
BY DEF Kept

\* A step that ends saves and writes nothing.
LEMMA SavingEnds ==
    ASSUME TableInv, UNCHANGED <<snapshot, outbox, marked, saves>>, saving' \subseteq saving,
           \A m \in acked' : Kept(m)
    PROVE  TableInv'
BY DEF TableInv, HasCheckpoint, SaveInv, Kept

LEMMA SnapshotStep ==
    ASSUME TableInv, NEW c \in SavedCycles,
           NEW r \in [type : {"CycleSnapshot", "CycleSchedule"}, status : {"Running", "Completed"}],
           snapshot' = [snapshot EXCEPT ![c] = r]
    PROVE  /\ DOMAIN snapshot' = SavedCycles
           /\ \A x \in SavedCycles : HasCheckpoint(x) => HasCheckpoint(x)'
           /\ HasCheckpoint(c)'
BY TableAssumption DEF TableInv, HasCheckpoint

LEMMA PersistSnapshotStep ==
    ASSUME TableInv, NEW c \in SavedCycles, PersistSnapshot(c) PROVE TableInv'
<1>1. /\ snapshot' = [snapshot EXCEPT ![c] = [type |-> "CycleSnapshot", status |-> "Running"]]
      /\ UNCHANGED <<outbox, saving, acked, marked>> /\ saves' = saves + 1
  BY DEF PersistSnapshot
<1>2. /\ DOMAIN snapshot' = SavedCycles
      /\ \A x \in SavedCycles : HasCheckpoint(x) => HasCheckpoint(x)'
  BY <1>1, SnapshotStep
<1>3. \A m \in DOMAIN outbox : CycleOf[m] \in SavedCycles
  BY TableAssumption DEF TableInv
<1>4. \A s \in saving : SaveInv(s)'
  <2>1. \A s \in saving : SaveInv(s) /\ s.cycle \in SavedCycles
    BY DEF TableInv, SaveInv, Save
  <2>2. QED
    BY <1>1, <1>2, <2>1, KeptStays DEF SaveInv
<1>5. QED
  BY <1>1, <1>2, <1>3, <1>4, KeptStays DEF TableInv

LEMMA SaveBeginStep ==
    ASSUME TableInv, NEW c \in SavedCycles, SaveBegin(c) PROVE TableInv'
<1>1. UNCHANGED <<snapshot, outbox, acked, marked>> /\ saves' = saves + 1
  BY DEF SaveBegin
<1>2. PICK S \in SUBSET {m \in Messages : CycleOf[m] = c}, status \in {"Running", "Completed"},
           now \in Times :
        saving' = saving \cup {[nth |-> saves, cycle |-> c, status |-> status, checkpoint |-> FALSE,
                                rows |-> SetToSeq(S), of |-> S, at |-> now]}
  BY DEF SaveBegin
<1>3. IsFiniteSet(S)
  BY TableAssumption, FS_Subset
<1>4. SetToSeq(S) \in Seq(S) /\ S \subseteq ToSet(SetToSeq(S))
  BY <1>3, SetToSeqIs
<1>5. SetToSeq(S) \in Seq({m \in Messages : CycleOf[m] = c}) /\ SetToSeq(S) \in Seq(Messages)
  BY <1>4
<1>0. PICK s : s = [nth |-> saves, cycle |-> c, status |-> status, checkpoint |-> FALSE,
                    rows |-> SetToSeq(S), of |-> S, at |-> now]
  OBVIOUS
<1>6. s \in Save /\ s.rows \in Seq({m \in Messages : CycleOf[m] = s.cycle}) /\ ~s.checkpoint
  BY <1>0, <1>2, <1>5 DEF Save, TableInv
<1>7. \A m \in s.of : m \in ToSet(s.rows)
  BY <1>0, <1>4
<1>8. SaveInv(s)'
  BY <1>6, <1>7 DEF SaveInv
<1>9. \A x \in saving : SaveInv(x)'
  BY <1>1, KeptStays DEF TableInv, SaveInv, HasCheckpoint
<1>10. \A x \in saving' : SaveInv(x)'
  BY <1>0, <1>2, <1>8, <1>9
<1>11. QED
  BY <1>1, <1>10, KeptStays DEF TableInv, HasCheckpoint

LEMMA SaveCheckpointStep ==
    ASSUME TableInv, NEW s \in saving, SaveCheckpoint(s) PROVE TableInv'
<1> DEFINE t == [s EXCEPT !.checkpoint = TRUE]
<1>1. /\ snapshot' = [snapshot EXCEPT ![s.cycle] = [type |-> "CycleSchedule", status |-> s.status]]
      /\ saving' = (saving \ {s}) \cup {t}
      /\ UNCHANGED <<outbox, acked, marked, saves>>
  BY DEF SaveCheckpoint, Going
<1>2. SaveInv(s)
  BY DEF TableInv
<1>3. s \in Save /\ s.cycle \in SavedCycles /\ s.status \in {"Running", "Completed"}
  BY <1>2 DEF SaveInv, Save
<1>4. /\ DOMAIN snapshot' = SavedCycles
      /\ \A x \in SavedCycles : HasCheckpoint(x) => HasCheckpoint(x)'
      /\ HasCheckpoint(s.cycle)'
  BY <1>1, <1>3, SnapshotStep
<1>5. t \in Save /\ t.rows = s.rows /\ t.cycle = s.cycle /\ t.of = s.of
  BY <1>3 DEF Save
<1> HIDE DEF t
<1>6. SaveInv(t)'
  BY <1>1, <1>2, <1>4, <1>5, KeptStays DEF SaveInv
<1>7. \A x \in saving : SaveInv(x)'
  <2>1. \A x \in saving : SaveInv(x) /\ x.cycle \in SavedCycles
    BY DEF TableInv, SaveInv, Save
  <2>2. QED
    BY <1>1, <1>4, <2>1, KeptStays DEF SaveInv
<1>8. \A m \in DOMAIN outbox : CycleOf[m] \in SavedCycles
  BY TableAssumption DEF TableInv
<1>9. QED
  BY <1>1, <1>4, <1>6, <1>7, <1>8, KeptStays DEF TableInv

\* The message at hand is kept as it is written, the others as they were.
LEMMA SaveMessageStep ==
    ASSUME TableInv, NEW s \in saving, SaveMessage(s) PROVE TableInv'
<1> DEFINE mine == {m \in Messages : CycleOf[m] = s.cycle}
           h == Head(s.rows)
           row == [status |-> "pending", created_at |-> s.at, readable |-> TRUE]
           t == [s EXCEPT !.rows = Tail(@)]
<1>1. /\ s.checkpoint /\ s.rows # <<>>
      /\ outbox' = RowSet(h, row) /\ marked' = marked \ {h}
      /\ saving' = (saving \ {s}) \cup {t}
      /\ UNCHANGED <<snapshot, acked, saves>>
  BY DEF SaveMessage, WriteMessage, Going
<1>2. /\ s \in Save /\ s.rows \in Seq(mine) /\ HasCheckpoint(s.cycle)
      /\ \A m \in s.of : m \in ToSet(s.rows) \/ Kept(m)
  BY <1>1 DEF TableInv, SaveInv
<1>3. h \in mine /\ Tail(s.rows) \in Seq(mine)
  BY <1>1, <1>2, HeadTailProperties
<1>4. ToSet(s.rows) = {h} \cup ToSet(Tail(s.rows))
  BY <1>1, <1>2, ToSetHeadTail
<1>5. t \in Save /\ t.rows = Tail(s.rows) /\ t.cycle = s.cycle /\ t.of = s.of /\ t.checkpoint
  <2>1. Tail(s.rows) \in Seq(Messages)
    BY <1>3
  <2>2. QED
    BY <1>1, <1>2, <2>1 DEF Save
<1>6. row \in Row /\ row.readable /\ row.status = "pending"
  BY <1>2, TableAssumption DEF Save, Row
<1> HIDE DEF h, row, t
<1>7. /\ DOMAIN outbox' = DOMAIN outbox \cup {h} /\ outbox'[h] = row
      /\ \A x \in DOMAIN outbox : x # h => outbox'[x] = outbox[x]
  <2>1. /\ DOMAIN RowSet(h, row) = DOMAIN outbox \cup {h} /\ RowSet(h, row)[h] = row
        /\ \A x \in DOMAIN outbox : x # h => RowSet(h, row)[x] = outbox[x]
    BY DEF RowSet
  <2> QED
    BY <1>1, <2>1
<1>8. /\ DOMAIN outbox' \subseteq Messages
      /\ \A m \in DOMAIN outbox' : HasCheckpoint(CycleOf[m])'
  BY <1>1, <1>2, <1>3, <1>7 DEF TableInv, HasCheckpoint
<1>9. outbox' \in [DOMAIN outbox' -> Row]
  <2>1. outbox' = [x \in DOMAIN outbox' |-> outbox'[x]]
    BY <1>1, <1>7 DEF RowSet
  <2>2. \A x \in DOMAIN outbox' : outbox'[x] \in Row
    BY <1>6, <1>7 DEF TableInv
  <2>3. QED
    BY <2>1, <2>2
<1>10. Kept(h)' /\ \A m : Kept(m) => Kept(m)'
  BY <1>1, <1>6, <1>7 DEF Kept
<1>11. SaveInv(t)'
  BY <1>1, <1>2, <1>3, <1>4, <1>5, <1>10 DEF SaveInv, HasCheckpoint
<1>12. \A x \in saving : SaveInv(x)'
  BY <1>1, <1>10 DEF TableInv, SaveInv, HasCheckpoint
<1>13. QED
  BY <1>1, <1>8, <1>9, <1>10, <1>11, <1>12 DEF TableInv

LEMMA SaveDoneStep ==
    ASSUME TableInv, NEW s \in saving, SaveDone(s) PROVE TableInv'
<1>1. /\ s.rows = <<>> /\ acked' = acked \cup s.of /\ saving' \subseteq saving
      /\ UNCHANGED <<snapshot, outbox, marked, saves>>
  BY DEF SaveDone
<1>2. \A m \in s.of : m \in ToSet(s.rows) \/ Kept(m)
  BY DEF TableInv, SaveInv
<1>3. ToSet(<<>>) = {}
  BY DEF ToSet
<1>4. \A m \in acked' : Kept(m)
  BY <1>1, <1>2, <1>3 DEF TableInv
<1>5. QED
  BY <1>1, <1>4, SavingEnds

\* A mark is put on one row, and told of.
LEMMA MarkSentStep ==
    ASSUME TableInv, NEW m \in DOMAIN outbox, MarkSent(m) PROVE TableInv'
<1>1. /\ outbox' = RowSet(m, Sent(m)) /\ marked' = marked \cup {m}
      /\ UNCHANGED <<snapshot, saving, acked, saves>>
  BY DEF MarkSent
<1>2. outbox[m] \in Row
  BY DEF TableInv
<1>3. Sent(m) \in Row /\ Sent(m).readable = outbox[m].readable
  BY <1>2 DEF Sent, Row
<1>4. /\ DOMAIN outbox' = DOMAIN outbox /\ outbox'[m] = Sent(m)
      /\ \A x \in DOMAIN outbox : x # m => outbox'[x] = outbox[x]
  <2>1. /\ DOMAIN RowSet(m, Sent(m)) = DOMAIN outbox \cup {m} /\ RowSet(m, Sent(m))[m] = Sent(m)
        /\ \A x \in DOMAIN outbox : x # m => RowSet(m, Sent(m))[x] = outbox[x]
    BY DEF RowSet
  <2> QED
    BY <1>1, <2>1
<1>5. outbox' \in [DOMAIN outbox' -> Row]
  <2>1. outbox' = [x \in DOMAIN outbox' |-> outbox'[x]]
    BY <1>1, <1>4 DEF RowSet
  <2>2. \A x \in DOMAIN outbox' : outbox'[x] \in Row
    BY <1>3, <1>4 DEF TableInv
  <2>3. QED
    BY <2>1, <2>2
<1>6. \A x : Kept(x) => Kept(x)'
  BY <1>1, <1>3, <1>4 DEF Kept
<1>7. QED
  BY <1>1, <1>4, <1>5, <1>6 DEF TableInv, SaveInv, HasCheckpoint

LEMMA TableStep == TableInv /\ [TableNext]_tableVars => TableInv'
<1> SUFFICES ASSUME TableInv, [TableNext]_tableVars PROVE TableInv'
  OBVIOUS
<1>1. ASSUME NEW c \in SavedCycles, PersistSnapshot(c) PROVE TableInv'
  BY <1>1, PersistSnapshotStep
<1>2. ASSUME NEW c \in SavedCycles, SaveBegin(c) PROVE TableInv'
  BY <1>2, SaveBeginStep
<1>3. ASSUME NEW s \in saving, SaveCheckpoint(s) PROVE TableInv'
  BY <1>3, SaveCheckpointStep
<1>4. ASSUME NEW s \in saving, SaveMessage(s) PROVE TableInv'
  BY <1>4, SaveMessageStep
<1>5. ASSUME NEW s \in saving, SaveDone(s) PROVE TableInv'
  BY <1>5, SaveDoneStep
<1>6. ASSUME NEW s \in saving, SaveFails(s) PROVE TableInv'
  BY <1>6, SavingEnds DEF SaveFails, TableInv
<1>7. ASSUME NEW m \in DOMAIN outbox, MarkSent(m) PROVE TableInv'
  BY <1>7, MarkSentStep
<1>8. CASE Restart
  BY <1>8, SavingEnds DEF Restart, TableInv
<1>9. CASE UNCHANGED tableVars
  BY <1>9 DEF tableVars, TableInv, SaveInv, Kept, HasCheckpoint
<1>10. QED
  BY <1>1, <1>2, <1>3, <1>4, <1>5, <1>6, <1>7, <1>8, <1>9 DEF TableNext

\* transactional_checkpoint_and_outbox is no transaction, and still no message is
\* in the table without a checkpoint of its cycle, for any messages, cycles,
\* saves beside each other, failures and restarts.
THEOREM NoMessageBeforeItsCheckpoint == TableSpec => []MessagesHaveACheckpoint
<1>1. TableInv => MessagesHaveACheckpoint
  BY DEF TableInv, HasCheckpoint, MessagesHaveACheckpoint, Answer
<1>2. QED
  BY <1>1, TableInitial, TableStep, PTL DEF TableSpec

\* A row that waits and is not in the page at hand has a full page before it.
LEMMA PageIsFull ==
    ASSUME NEW P \in Pages, NEW m \in Pending, m \notin P
    PROVE  Cardinality(P) = Limit /\ \A n \in P : ~Older(m, n)
BY DEF Pages

\* A message that was acknowledged and not marked since is in whatever the listing
\* may answer, or a full page of rows no younger is: for any messages, cycles,
\* times of the clock, rows that cannot be decoded, limits, failures and restarts.
THEOREM AcknowledgedMessagesAreListed == TableSpec => []StoredMessagesAreListed
<1>1. TableInv => StoredMessagesAreListed
  <2> SUFFICES ASSUME TableInv, NEW m \in acked \ marked, NEW P \in Pages, m \notin Listed(P)
               PROVE  Cardinality(P) = Limit /\ \A n \in P : ~Older(m, n)
    BY DEF StoredMessagesAreListed
  <2>1. m \in Pending /\ outbox[m].readable
    BY DEF TableInv, Kept, Pending
  <2>2. m \notin P
    BY <2>1 DEF Listed
  <2>3. QED
    BY <2>1, <2>2, PageIsFull
<1>2. QED
  BY <1>1, TableInitial, TableStep, PTL DEF TableSpec

-----------------------------------------------------------------------------
(* CycleEvents: the ids of an emission                                      *)

\* A sequence whose events have ids in I.
HasIds(s, I) == s \in Seq(ToSet(s)) /\ \A v \in ToSet(s) : v.id \in I

\* A sequence over some set is one over its elements.
LEMMA SeqOfElements ==
    ASSUME NEW S, NEW s \in Seq(S)
    PROVE  s \in Seq(ToSet(s)) /\ DOMAIN s = 1..Len(s) /\ Len(s) \in Nat
<1>1. Len(s) \in Nat /\ DOMAIN s = 1..Len(s) /\ s \in [1..Len(s) -> S]
  BY LenProperties
<1>2. s \in [1..Len(s) -> ToSet(s)]
  BY <1>1 DEF ToSet
<1>3. QED
  BY <1>1, <1>2

\* Sequences with such ids in a row.
LEMMA ConcatIds ==
    ASSUME NEW I, NEW s, HasIds(s, I), NEW t, HasIds(t, I)
    PROVE  HasIds(s \o t, I)
<1> DEFINE S == ToSet(s) \cup ToSet(t)
           r == s \o t
<1>1. s \in Seq(S) /\ t \in Seq(S)
  BY DEF HasIds
<1>2. r \in Seq(S)
  BY <1>1, ConcatProperties
<1>3. \A v \in S : v.id \in I
  BY DEF HasIds
<1> HIDE DEF r, S
<1>4. ToSet(r) \subseteq S
  BY <1>2, SeqElements
<1>5. r \in Seq(ToSet(r))
  BY <1>2, SeqOfElements
<1>6. QED
  BY <1>3, <1>4, <1>5 DEF HasIds, r

\* What is said of the events of a function over 1..n.
LEMMA MadeIds ==
    ASSUME NEW I, NEW n \in Nat, NEW s, DOMAIN s = 1..n, s = [k \in 1..n |-> s[k]],
           \A k \in 1..n : s[k].id \in I
    PROVE  HasIds(s, I)
<1>1. s \in [1..n -> ToSet(s)]
  BY DEF ToSet
<1>2. s \in Seq(ToSet(s))
  BY <1>1
<1>3. QED
  BY <1>2 DEF HasIds, ToSet

\* Every id but that of the end.
OtherIds(c, d) == {Counted(c, k) : k \in Int} \cup {Generated(c, d, n) : n \in Nat}

LEMMA NumberedIds ==
    ASSUME NEW c, NEW d, NEW from \in Int, NEW S, NEW types \in Seq(S), NEW k
    PROVE  HasIds(Numbered(c, from, types, k), OtherIds(c, d))
<1> DEFINE s == Numbered(c, from, types, k)
<1>1. DOMAIN types = 1..Len(types) /\ Len(types) \in Nat
  BY LenProperties
<1>2. s = [n \in 1..Len(types) |-> Event(Counted(c, from + n - 1), types[n], c, k)]
  BY <1>1 DEF Numbered
<1>3. ASSUME NEW n \in 1..Len(types) PROVE s[n].id \in OtherIds(c, d)
  <2>1. s[n].id = Counted(c, from + n - 1)
    BY <1>2 DEF Event
  <2>2. from + n - 1 \in Int
    BY <1>1
  <2>3. QED
    BY <2>1, <2>2 DEF OtherIds
<1>4. DOMAIN s = 1..Len(types) /\ s = [n \in 1..Len(types) |-> s[n]]
  BY <1>2
<1> HIDE DEF s
<1>5. HasIds(s, OtherIds(c, d))
  BY <1>1, <1>3, <1>4, MadeIds
<1>6. QED
  BY <1>5 DEF s

LEMMA DecisionIds ==
    ASSUME NEW c, NEW d, NEW switched \in BOOLEAN
    PROVE  HasIds(DecisionEvents(c, switched), OtherIds(c, d))
<1> DEFINE first == <<"AwarenessCycleStarted", "InferenceCycleStarted",
                      "AssessmentProduced", "DecisionRouted">>
           more  == IF switched THEN <<"RouteReconsidered", "RouteSwitched">> ELSE <<>>
           S == {"AwarenessCycleStarted", "InferenceCycleStarted", "AssessmentProduced",
                 "DecisionRouted", "RouteReconsidered", "RouteSwitched"}
<1>1. first \in Seq(S) /\ more \in Seq(S)
  <2>1. first \in Seq(S) /\ <<"RouteReconsidered", "RouteSwitched">> \in Seq(S) /\ <<>> \in Seq(S)
    OBVIOUS
  <2> HIDE DEF first, S
  <2>2. QED
    BY <2>1, Zenon
<1> HIDE DEF first, more, S
<1>2. first \o more \in Seq(S) /\ 0 \in Int
  BY <1>1, ConcatProperties
<1>3. HasIds(Numbered(c, 0, first \o more, 0), OtherIds(c, d))
  BY <1>2, NumberedIds
<1>4. QED
  BY <1>3 DEF DecisionEvents, first, more

LEMMA MergeIds ==
    ASSUME NEW c, NEW d, NEW kind
    PROVE  HasIds(MergeEvents(c, d, kind), OtherIds(c, d))
<1> DEFINE types == <<SyncPointEvent(kind), "EnvironmentSnapshotRecorded",
                      "ContextBuilt", "DeltaMerged">>
           S == {SyncPointEvent(kind), "EnvironmentSnapshotRecorded", "ContextBuilt", "DeltaMerged"}
<1>1. types \in Seq(S) /\ 1 \in Int
  OBVIOUS
<1> HIDE DEF types, S
<1>2. HasIds(Numbered(c, 1, types, d), OtherIds(c, d))
  BY <1>1, NumberedIds
<1>3. QED
  BY <1>2 DEF MergeEvents, types

\* The types of the reports are a sequence.
LEMMA ReportTypes ==
    ASSUME NEW shape \in Shapes
    PROVE  LET types == GatewayEvents(shape.gateway) \o InjectionEvents(shape.injected)
                          \o <<"SyncPointMerged", "DeltaPatchGenerated", "SyncPointReported">>
           IN  types \in Seq(ToSet(types))
<1> DEFINE tags == shape.gateway
           known == Retain(tags, ToSet(tags) \ {"unknown"})
           g == GatewayEvents(tags)
           j == InjectionEvents(shape.injected)
           last == <<"SyncPointMerged", "DeltaPatchGenerated", "SyncPointReported">>
           L == {"SyncPointMerged", "DeltaPatchGenerated", "SyncPointReported"}
           T == ToSet(g) \cup ToSet(j) \cup L
<1>1. PICK S : tags \in Seq(S)
  BY DEF Shapes
<1>2. PICK A : shape.injected \in Seq(A)
  BY DEF Shapes
<1>3. known \in Seq(S)
  BY <1>1, RetainType
<1>4. g = [n \in DOMAIN known |-> GatewayEvent(known[n])]
  BY DEF GatewayEvents
<1> HIDE DEF known
<1>5. g \in Seq(ToSet(g))
  <2>1. DOMAIN known = 1..Len(known) /\ Len(known) \in Nat
    BY <1>3, LenProperties
  <2>2. DOMAIN g = 1..Len(known) /\ g = [n \in 1..Len(known) |-> g[n]]
    BY <1>4, <2>1
  <2> HIDE DEF g
  <2>3. g \in [1..Len(known) -> ToSet(g)]
    BY <2>2 DEF ToSet
  <2>4. QED
    BY <2>1, <2>3
<1>6. j \in Seq(ToSet(j))
  <2> DEFINE a == shape.injected
  <2>1. DOMAIN a = 1..Len(a) /\ Len(a) \in Nat
    BY <1>2, LenProperties
  <2>2. DOMAIN j = DOMAIN a /\ j = [n \in DOMAIN a |-> j[n]]
    BY DEF InjectionEvents
  <2> HIDE DEF j, a
  <2>3. j \in [1..Len(a) -> ToSet(j)]
    BY <2>1, <2>2 DEF ToSet
  <2>4. QED
    BY <2>1, <2>3
<1>7. last \in Seq(L)
  OBVIOUS
<1> HIDE DEF g, j, last, L
<1>8. g \in Seq(T) /\ j \in Seq(T) /\ last \in Seq(T)
  BY <1>5, <1>6, <1>7
<1> HIDE DEF T
<1>9. (g \o j) \o last \in Seq(T)
  BY <1>8, ConcatProperties
<1>10. (g \o j) \o last \in Seq(ToSet((g \o j) \o last))
  BY <1>9, SeqOfElements
<1>11. QED
  BY <1>10 DEF g, j, last

LEMMA ReportIds ==
    ASSUME NEW c, NEW d, NEW shape \in Shapes
    PROVE  HasIds(ReportEvents(c, d, shape), OtherIds(c, d))
<1> DEFINE types == GatewayEvents(shape.gateway) \o InjectionEvents(shape.injected)
                      \o <<"SyncPointMerged", "DeltaPatchGenerated", "SyncPointReported">>
           s == ReportEvents(c, d, shape)
<1>1. types \in Seq(ToSet(types))
  BY ReportTypes
<1>2. s = [n \in DOMAIN types |-> Event(Generated(c, d, n), types[n], c, d)]
  BY DEF ReportEvents
<1> HIDE DEF types, s
<1>3. DOMAIN types = 1..Len(types) /\ Len(types) \in Nat
  BY <1>1, LenProperties
<1>4. DOMAIN s = 1..Len(types) /\ s = [n \in 1..Len(types) |-> s[n]]
  BY <1>2, <1>3
<1>5. \A n \in 1..Len(types) : s[n].id \in OtherIds(c, d)
  BY <1>2, <1>3 DEF Event, OtherIds
<1>6. HasIds(s, OtherIds(c, d))
  BY <1>3, <1>4, <1>5, MadeIds
<1>7. QED
  BY <1>6 DEF s

LEMMA LateIds ==
    ASSUME NEW c, NEW d, NEW late \in BOOLEAN
    PROVE  HasIds(LateEvents(c, d, late), OtherIds(c, d))
<1>1. CASE late
  <2> DEFINE e == Event(Generated(c, d, Late), "LateReceiptObserved", c, d)
  <2>1. LateEvents(c, d, late) = <<e>>
    BY <1>1 DEF LateEvents
  <2>2. e.id \in OtherIds(c, d)
    BY DEF Event, OtherIds, Late
  <2> HIDE DEF e
  <2>3. HasIds(<<e>>, OtherIds(c, d))
    BY <2>2 DEF HasIds, ToSet
  <2>4. QED
    BY <2>1, <2>3
<1>2. CASE ~late
  <2>1. LateEvents(c, d, late) = <<>>
    BY <1>2 DEF LateEvents
  <2>2. QED
    BY <2>1 DEF HasIds, ToSet
<1>3. QED
  BY <1>1, <1>2

\* An emission is what comes before its end, and the end.
Body(c, d, shape) ==
    DecisionEvents(c, shape.switched)
      \o LateEvents(c, d, shape.late) \o MergeEvents(c, d, shape.kind)
      \o ReportEvents(c, d, shape)

LEMMA BodyIds ==
    ASSUME NEW c, NEW d, NEW shape \in Shapes
    PROVE  HasIds(Body(c, d, shape), OtherIds(c, d))
<1> DEFINE a == DecisionEvents(c, shape.switched)
           b == LateEvents(c, d, shape.late)
           m == MergeEvents(c, d, shape.kind)
           r == ReportEvents(c, d, shape)
           I == OtherIds(c, d)
<1>1. shape.switched \in BOOLEAN /\ shape.late \in BOOLEAN
  BY DEF Shapes
<1>2. HasIds(a, I) /\ HasIds(b, I) /\ HasIds(m, I) /\ HasIds(r, I)
  BY <1>1, DecisionIds, LateIds, MergeIds, ReportIds
<1> HIDE DEF a, b, m, r, I
<1>3. HasIds(((a \o b) \o m) \o r, I)
  BY <1>2, ConcatIds
<1>4. QED
  BY <1>3 DEF Body, a, b, m, r, I

\* The last event of an emission has the id of the end, and only that one.
LEMMA EmissionIs ==
    ASSUME NEW c, NEW d, NEW shape \in Shapes
    PROVE  LET s == Emission(c, d, shape) IN
           /\ s \in Seq(ToSet(s)) /\ DOMAIN s = 1..Len(s) /\ Len(s) \in Nat /\ Len(s) # 0
           /\ s[Len(s)] = FinalEvent(c, d, shape.last)
           /\ \A n \in 1..(Len(s) - 1) : s[n].id \in OtherIds(c, d)
<1> DEFINE b == Body(c, d, shape)
           e == FinalEvent(c, d, shape.last)
           s == b \o <<e>>
           S == ToSet(b) \cup {e}
<1>1. Emission(c, d, shape) = s
  BY DEF Emission, Body
<1>2. b \in Seq(ToSet(b)) /\ \A v \in ToSet(b) : v.id \in OtherIds(c, d)
  BY BodyIds DEF HasIds
<1> HIDE DEF b, e
<1>3. b \in Seq(S) /\ <<e>> \in Seq(S) /\ Len(<<e>>) = 1 /\ <<e>>[1] = e
  BY <1>2
<1> HIDE DEF S
<1>4. /\ s \in Seq(S) /\ Len(s) = Len(b) + 1 /\ Len(b) \in Nat
      /\ \A n \in 1..(Len(b) + 1) : s[n] = IF n <= Len(b) THEN b[n] ELSE <<e>>[n - Len(b)]
  BY <1>3, ConcatProperties, LenProperties
<1> HIDE DEF s
<1>5. s \in Seq(ToSet(s)) /\ DOMAIN s = 1..Len(s) /\ Len(s) \in Nat /\ Len(s) # 0
  BY <1>4, SeqOfElements
<1>6. s[Len(s)] = e
  <2>1. s[Len(s)] = <<e>>[(Len(b) + 1) - Len(b)]
    BY <1>4
  <2>2. (Len(b) + 1) - Len(b) = 1
    BY <1>4
  <2>3. QED
    BY <1>3, <2>1, <2>2
<1>7. ASSUME NEW n \in 1..(Len(s) - 1) PROVE s[n].id \in OtherIds(c, d)
  <2>1. n \in 1..Len(b) /\ s[n] = b[n]
    BY <1>4
  <2>2. b[n] \in ToSet(b)
    BY <1>2, <2>1, LenProperties DEF ToSet
  <2>3. QED
    BY <1>2, <2>1, <2>2
<1>8. QED
  BY <1>1, <1>5, <1>6, <1>7 DEF e

\* The id of an end is that of no event of another kind, of whatever cycle and drive.
LEMMA FinalIdIsOfAnEnd ==
    ASSUME NEW c, NEW d, NEW last, NEW b, NEW k
    PROVE  FinalId(c, d, last) \notin OtherIds(b, k)
<1> DEFINE id == FinalId(c, d, last)
<1>1. id = [built |-> c] \/ id = [client |-> last] \/ id = Generated(c, d, -1)
  BY DEF FinalId, Final
<1>2. ASSUME NEW n \in Nat PROVE id # Generated(b, k, n)
  <2>1. "built" \notin DOMAIN Generated(b, k, n) /\ "client" \notin DOMAIN Generated(b, k, n)
    BY DEF Generated
  <2>2. Generated(c, d, -1) # Generated(b, k, n)
    BY DEF Generated
  <2>3. "built" \in DOMAIN [built |-> c] /\ "client" \in DOMAIN [client |-> last]
    OBVIOUS
  <2>4. QED
    BY <1>1, <2>1, <2>2, <2>3
<1>3. ASSUME NEW o PROVE id # Counted(b, o)
  <2>1. "offset" \in DOMAIN Counted(b, o)
    BY DEF Counted
  <2>2. "offset" \notin DOMAIN [built |-> c] /\ "offset" \notin DOMAIN [client |-> last]
    OBVIOUS
  <2>3. "offset" \notin DOMAIN Generated(c, d, -1)
    BY DEF Generated
  <2>4. QED
    BY <1>1, <2>1, <2>2, <2>3
<1> HIDE DEF id
<1>4. QED
  BY <1>2, <1>3 DEF OtherIds, id

\* An end tells which drive it is the end of.
LEMMA EndNamesItsDrive ==
    ASSUME NEW c, NEW d, NEW l, NEW b, NEW k, NEW m
    PROVE  /\ FinalEvent(c, d, l).id = FinalId(c, d, l)
           /\ FinalEvent(c, d, l) = FinalEvent(b, k, m) => c = b /\ d = k
<1>1. FinalEvent(c, d, l) = [id |-> FinalId(c, d, l), type |-> "Finalized", cycle |-> c, drive |-> d]
  BY DEF FinalEvent, Event
<1>2. FinalEvent(b, k, m) = [id |-> FinalId(b, k, m), type |-> "Finalized", cycle |-> b, drive |-> k]
  BY DEF FinalEvent, Event
<1>3. FinalEvent(c, d, l) = FinalEvent(b, k, m) => c = b /\ d = k
  <2> HAVE FinalEvent(c, d, l) = FinalEvent(b, k, m)
  <2>1. FinalEvent(c, d, l).cycle = c /\ FinalEvent(c, d, l).drive = d
    BY <1>1
  <2>2. FinalEvent(b, k, m).cycle = b /\ FinalEvent(b, k, m).drive = k
    BY <1>2
  <2>3. QED
    BY <2>1, <2>2
<1>4. QED
  BY <1>1, <1>3

-----------------------------------------------------------------------------
(* CycleStore                                                               *)

Drives == [cycle : Cycles, drive : Nat, shape : DriveShapes \cup LateShapes]

OfCycle(c) == {e \in emitted : e.cycle = c}
EndId(e)   == EndOf(e).id

\* The drives of a cycle are numbered: no two have the same number.
EmittedInv ==
    /\ emitted \subseteq Drives
    /\ IsFiniteSet(emitted)
    /\ \A e \in emitted : e.drive <= Cardinality(OfCycle(e.cycle))
    /\ \A e, f \in emitted : e.cycle = f.cycle /\ e.drive = f.drive => e = f

\* The call under way is the one that registered the cycle.
BeingFinalized(c) == finalizing # Idle /\ finalizing.cycle = c /\ ~IsLate(finalizing)

WasForwarded(c) == \E e \in forwarded : e.cycle = c /\ ~IsLate(e)

ForwardInv ==
    /\ finalizing # Idle => finalizing \in emitted
    /\ forwarded \subseteq emitted
    /\ \A c \in finalized : BeingFinalized(c) \/ WasForwarded(c)
    /\ \A e \in forwarded : \A n \in DOMAIN BatchOf(e) : BatchOf(e)[n].id \in dispatched

\* What a writer has behind it is stored; an end that is stored is one that was
\* emitted, so that none is there before its drive.
RowsInv ==
    /\ \A w \in writers :
          /\ w \in [of : emitted, written : Nat]
          /\ ~IsLate(w.of)
          /\ w.written <= Len(EventsOf(w.of))
          /\ w.written > 0 => EndId(w.of) \in dialogue
          /\ \A n \in 1..(w.written - 1) : EventsOf(w.of)[n].id \in DOMAIN awareness
    /\ \A id \in DOMAIN awareness, c \in Cycles, d \in Nat, last \in LastEvents :
          id = FinalId(c, d, last) /\ awareness[id] = FinalEvent(c, d, last) =>
              \E e \in emitted : e.cycle = c /\ e.drive = d
    /\ FinalizedRowIsLast

StoreInv == EmittedInv /\ ForwardInv /\ RowsInv

LEMMA StoreInitial == StoreInit => StoreInv
<1> SUFFICES ASSUME StoreInit PROVE StoreInv
  OBVIOUS
<1>1. /\ finalized = {} /\ finalizing = Idle /\ writers = {} /\ DOMAIN awareness = {}
      /\ emitted = {} /\ forwarded = {}
  BY DEF StoreInit
<1>2. EmittedInv
  BY <1>1, FS_EmptySet DEF EmittedInv
<1>3. QED
  BY <1>1, <1>2 DEF StoreInv, ForwardInv, RowsInv, FinalizedRowIsLast

\* No shape of a drive is that of a late receipt.
LEMMA ShapesAreNotLate == /\ \A x \in LateShapes : x \notin Shapes
                          /\ \A x \in DriveShapes \cup LateShapes : x.last \in LastEvents
<1>1. \A x \in LateShapes : "kind" \notin DOMAIN x
  BY DEF LateShapes
<1>2. \A x \in Shapes : "kind" \in DOMAIN x /\ x.last \in LastEvents
  BY DEF Shapes
<1>3. \A x \in LateShapes : \E y \in DriveShapes : x.last = y.last
  BY DEF LateShapes
<1>4. QED
  BY <1>1, <1>2, <1>3, StoreAssumption

\* A drive that comes has a number that none of its cycle has.
LEMMA EmitStep ==
    ASSUME EmittedInv, NEW c \in Cycles, NEW shape \in DriveShapes \cup LateShapes, NEW e,
           e = Drive(c, DrivesOf(c), shape), emitted' = emitted \cup {e}
    PROVE  /\ EmittedInv'
           /\ e \in Drives /\ e.cycle = c /\ e.drive \in Nat /\ e.shape = shape /\ e # Idle
           /\ \A f \in emitted : ~(f.cycle = c /\ f.drive = e.drive)
<1> DEFINE k == Cardinality(OfCycle(c))
<1>1. IsFiniteSet(OfCycle(c)) /\ k \in Nat
  BY FS_Subset, FS_CardinalityType DEF EmittedInv, OfCycle
<1>2. e = [cycle |-> c, drive |-> k + 1, shape |-> shape]
  BY DEF Drive, DrivesOf, OfCycle
<1>3. e \in Drives /\ e.cycle = c /\ e.drive = k + 1 /\ e.shape = shape
  BY <1>1, <1>2 DEF Drives
<1>4. e # Idle
  BY <1>3, IdleAssumption DEF Drives
<1>5. \A f \in emitted : f.drive \in Nat /\ f.drive <= Cardinality(OfCycle(f.cycle))
  BY DEF EmittedInv, Drives
<1>6. ASSUME NEW f \in emitted, f.cycle = c PROVE f.drive # e.drive
  <2>1. f.drive \in Nat /\ f.drive <= k
    BY <1>5, <1>6
  <2> HIDE DEF k
  <2>2. QED
    BY <1>1, <1>3, <2>1
<1>7. OfCycle(c)' = OfCycle(c) \cup {e} /\ e \notin OfCycle(c)
  <2>1. OfCycle(c)' = OfCycle(c) \cup {e}
    BY <1>3 DEF OfCycle
  <2>2. e \notin OfCycle(c)
    BY <1>3, <1>6 DEF OfCycle
  <2>3. QED
    BY <2>1, <2>2
<1>8. Cardinality(OfCycle(c)') = k + 1
  BY <1>1, <1>7, FS_AddElement
<1>9. \A b : b # c => OfCycle(b)' = OfCycle(b)
  BY <1>3 DEF OfCycle
<1>10. ASSUME NEW f \in emitted' PROVE f.drive <= Cardinality(OfCycle(f.cycle)')
  <2>1. CASE f = e
    <3>1. f.drive = k + 1 /\ Cardinality(OfCycle(f.cycle)') = k + 1
      BY <1>3, <1>8, <2>1
    <3> HIDE DEF k
    <3>2. QED
      BY <1>1, <3>1
  <2>2. CASE f # e /\ f.cycle = c
    <3>1. f.drive \in Nat /\ f.drive <= k /\ Cardinality(OfCycle(f.cycle)') = k + 1
      BY <1>5, <1>8, <2>2
    <3> HIDE DEF k
    <3>2. QED
      BY <1>1, <3>1
  <2>3. CASE f # e /\ f.cycle # c
    BY <1>5, <1>9, <2>3
  <2>4. QED
    BY <2>1, <2>2, <2>3
<1>11. ASSUME NEW f \in emitted', NEW g \in emitted', f.cycle = g.cycle, f.drive = g.drive
       PROVE  f = g
  BY <1>3, <1>6, <1>11 DEF EmittedInv
<1>12. EmittedInv'
  <2>1. emitted' \subseteq Drives
    BY <1>3 DEF EmittedInv
  <2>2. IsFiniteSet(emitted')
    BY FS_AddElement DEF EmittedInv
  <2>3. \A f \in emitted' : f.drive <= Cardinality(OfCycle(f.cycle)')
    BY <1>10
  <2>4. \A f, g \in emitted' : f.cycle = g.cycle /\ f.drive = g.drive => f = g
    BY <1>11
  <2> HIDE DEF k
  <2>5. QED
    BY <2>1, <2>2, <2>3, <2>4 DEF EmittedInv, OfCycle
<1>13. \A f \in emitted : ~(f.cycle = c /\ f.drive = e.drive)
  BY <1>6
<1>14. e.drive \in Nat
  BY <1>1, <1>3
<1>15. QED
  BY <1>3, <1>4, <1>12, <1>13, <1>14

\* A new drive of which nothing is stored yet.
LEMMA RowsAfterEmit ==
    ASSUME EmittedInv, RowsInv, NEW c \in Cycles, NEW shape \in DriveShapes \cup LateShapes, NEW e,
           e = Drive(c, DrivesOf(c), shape), emitted' = emitted \cup {e},
           UNCHANGED <<dialogue, awareness>>,
           writers' = writers \/ (shape \notin LateShapes /\ writers' = writers \cup {[of |-> e, written |-> 0]})
    PROVE  RowsInv'
<1>1. /\ e \in Drives /\ e.cycle = c /\ e.drive \in Nat /\ e.shape = shape
      /\ \A f \in emitted : ~(f.cycle = c /\ f.drive = e.drive)
  BY EmitStep
<1>2. ~(EndOf(e).id \in DOMAIN awareness /\ awareness[EndOf(e).id] = EndOf(e))
  <2>1. e.shape.last \in LastEvents /\ EndOf(e) = FinalEvent(c, e.drive, e.shape.last)
    BY <1>1, ShapesAreNotLate DEF EndOf
  <2>2. EndOf(e).id = FinalId(c, e.drive, e.shape.last)
    BY <2>1, EndNamesItsDrive
  <2>3. QED
    BY <1>1, <2>1, <2>2 DEF RowsInv
<1>3. FinalizedRowIsLast'
  <2> SUFFICES ASSUME NEW f \in emitted', ~IsLate(f), EndOf(f).id \in DOMAIN awareness',
                      awareness'[EndOf(f).id] = EndOf(f)
               PROVE  /\ EndOf(f).id \in dialogue'
                      /\ \A n \in DOMAIN EventsOf(f) : EventsOf(f)[n].id \in DOMAIN awareness'
    BY DEF FinalizedRowIsLast
  <2>1. f \in emitted
    BY <1>2
  <2>2. QED
    BY <2>1 DEF RowsInv, FinalizedRowIsLast
<1>4. \A id \in DOMAIN awareness', b \in Cycles, d \in Nat, last \in LastEvents :
          id = FinalId(b, d, last) /\ awareness'[id] = FinalEvent(b, d, last) =>
              \E f \in emitted' : f.cycle = b /\ f.drive = d
  BY DEF RowsInv
<1>5. ASSUME NEW w \in writers'
      PROVE  /\ w \in [of : emitted', written : Nat]
             /\ ~IsLate(w.of)
             /\ w.written <= Len(EventsOf(w.of))
             /\ w.written > 0 => EndId(w.of) \in dialogue'
             /\ \A n \in 1..(w.written - 1) : EventsOf(w.of)[n].id \in DOMAIN awareness'
  <2>1. CASE w \in writers
    BY <2>1 DEF RowsInv
  <2>2. CASE w \notin writers
    <3>1. w = [of |-> e, written |-> 0] /\ shape \notin LateShapes
      BY <1>5, <2>2
    <3>2. w.of = e /\ w.written = 0 /\ w \in [of : emitted', written : Nat]
      BY <3>1
    <3>3. shape \in Shapes
      BY <3>1, StoreAssumption
    <3>4. Len(EventsOf(e)) \in Nat
      BY <1>1, <3>3, EmissionIs DEF EventsOf
    <3>5. QED
      BY <1>1, <3>1, <3>2, <3>4 DEF IsLate
  <2>3. QED
    BY <2>1, <2>2
<1>6. QED
  BY <1>3, <1>4, <1>5 DEF RowsInv

LEMMA FinalizeCycleStep ==
    ASSUME StoreInv, NEW c \in Cycles, FinalizeCycle(c) PROVE StoreInv'
<1>1. PICK shape \in DriveShapes :
        LET e == Drive(c, DrivesOf(c), shape) IN
        /\ emitted' = emitted \cup {e}
        /\ writers' = writers \cup {[of |-> e, written |-> 0]}
        /\ finalizing' = e
  BY DEF FinalizeCycle
<1> DEFINE e == Drive(c, DrivesOf(c), shape)
<1>2. /\ finalized' = finalized \cup {c} /\ finalizing = Idle
      /\ UNCHANGED <<dispatched, dialogue, awareness, forwarded>>
  BY DEF FinalizeCycle
<1>3. shape \notin LateShapes
  BY ShapesAreNotLate, StoreAssumption
<1>4. EmittedInv' /\ e.cycle = c /\ e.shape = shape /\ e # Idle
  BY <1>1, EmitStep DEF StoreInv
<1>5. RowsInv'
  BY <1>1, <1>2, <1>3, RowsAfterEmit DEF StoreInv
<1>6. ForwardInv'
  <2>1. finalizing' \in emitted' /\ forwarded' \subseteq emitted'
    BY <1>1, <1>2 DEF StoreInv, ForwardInv
  <2>2. BeingFinalized(c)'
    BY <1>1, <1>3, <1>4 DEF BeingFinalized, IsLate
  <2>3. \A b \in finalized : WasForwarded(b)'
    BY <1>2 DEF StoreInv, ForwardInv, BeingFinalized, WasForwarded
  <2>4. QED
    BY <1>2, <2>1, <2>2, <2>3 DEF StoreInv, ForwardInv
<1>7. QED
  BY <1>4, <1>5, <1>6 DEF StoreInv

LEMMA FinalizeLateStep ==
    ASSUME StoreInv, NEW c \in Cycles, FinalizeLate(c) PROVE StoreInv'
<1>0. PICK shape \in LateShapes :
        LET e == Drive(c, DrivesOf(c), shape) IN
        emitted' = emitted \cup {e} /\ finalizing' = e
  BY DEF FinalizeLate
<1> DEFINE e == Drive(c, DrivesOf(c), shape)
<1>1. /\ emitted' = emitted \cup {e} /\ finalizing' = e /\ finalizing = Idle
      /\ UNCHANGED <<finalized, dispatched, writers, dialogue, awareness, forwarded>>
  BY <1>0 DEF FinalizeLate, writerSide
<1>2. EmittedInv'
  BY <1>1, EmitStep DEF StoreInv
<1>3. RowsInv'
  BY <1>1, RowsAfterEmit DEF StoreInv
<1>4. ForwardInv'
  <2>1. finalizing' \in emitted' /\ forwarded' \subseteq emitted'
    BY <1>1 DEF StoreInv, ForwardInv
  <2>2. \A b \in finalized : WasForwarded(b)'
    BY <1>1 DEF StoreInv, ForwardInv, BeingFinalized, WasForwarded
  <2>3. QED
    BY <1>1, <2>1, <2>2 DEF StoreInv, ForwardInv
<1>5. QED
  BY <1>2, <1>3, <1>4 DEF StoreInv

\* What is in a batch is what its ids say.
LEMMA BatchIs ==
    ASSUME NEW e \in Drives
    PROVE  DOMAIN BatchOf(e) = 1..Len(BatchOf(e))
<1>1. CASE IsLate(e)
  BY <1>1 DEF BatchOf, LateBatch
<1>2. CASE ~IsLate(e)
  <2> DEFINE s == Emission(e.cycle, e.drive, e.shape)
             t == <<FinalEvent(e.cycle, e.drive, e.shape.last),
                    Event(Generated(e.cycle, e.drive, Ended), "AwarenessCycleEnded",
                          e.cycle, e.drive)>>
             S == ToSet(s) \cup ToSet(t)
  <2>1. e.shape \in Shapes
    BY <1>2, StoreAssumption DEF Drives, IsLate
  <2>2. s \in Seq(ToSet(s))
    BY <2>1, EmissionIs
  <2>3. t \in Seq(ToSet(t))
    BY DEF ToSet
  <2> HIDE DEF s, t
  <2>4. s \in Seq(S) /\ t \in Seq(S)
    BY <2>2, <2>3
  <2> HIDE DEF S
  <2>5. DOMAIN (s \o t) = 1..Len(s \o t)
    BY <2>4, ConcatProperties, LenProperties
  <2>6. BatchOf(e) = s \o t
    BY <1>2 DEF BatchOf, Batch, s, t
  <2>7. QED
    BY <2>5, <2>6
<1>3. QED
  BY <1>1, <1>2

LEMMA ForwardAllStep == ASSUME StoreInv, ForwardAll PROVE StoreInv'
<1>1. /\ finalizing # Idle
      /\ dispatched' = dispatched \cup Ids(BatchOf(finalizing), Len(BatchOf(finalizing)))
      /\ forwarded' = forwarded \cup {finalizing} /\ finalizing' = Idle
      /\ UNCHANGED <<finalized, writers, dialogue, awareness, emitted>>
  BY DEF ForwardAll, writerSide
<1>2. EmittedInv' /\ RowsInv'
  BY <1>1 DEF StoreInv, EmittedInv, OfCycle, RowsInv, FinalizedRowIsLast
<1>3. finalizing \in emitted /\ finalizing \in Drives
  BY <1>1 DEF StoreInv, ForwardInv, EmittedInv
<1>4. \A n \in DOMAIN BatchOf(finalizing) : BatchOf(finalizing)[n].id \in dispatched'
  BY <1>1, <1>3, BatchIs DEF Ids
<1>5. \A b \in finalized : WasForwarded(b)'
  BY <1>1 DEF StoreInv, ForwardInv, BeingFinalized, WasForwarded
<1>6. ForwardInv'
  BY <1>1, <1>3, <1>4, <1>5 DEF StoreInv, ForwardInv
<1>7. QED
  BY <1>2, <1>6 DEF StoreInv

\* A cycle whose batch got stuck is not registered any more.
LEMMA ForwardFailsStep == ASSUME StoreInv, ForwardFails PROVE StoreInv'
<1>1. /\ finalizing # Idle /\ dispatched \subseteq dispatched'
      /\ finalized' = Unregister(finalizing) /\ finalizing' = Idle
      /\ UNCHANGED <<writers, dialogue, awareness, emitted, forwarded>>
  BY DEF ForwardFails, writerSide
<1>2. EmittedInv' /\ RowsInv'
  BY <1>1 DEF StoreInv, EmittedInv, OfCycle, RowsInv, FinalizedRowIsLast
<1>3. \A b \in finalized' : b \in finalized /\ ~BeingFinalized(b)
  BY <1>1 DEF Unregister, BeingFinalized
<1>4. \A b \in finalized' : WasForwarded(b)'
  BY <1>1, <1>3 DEF StoreInv, ForwardInv, WasForwarded
<1>5. ForwardInv'
  BY <1>1, <1>4 DEF StoreInv, ForwardInv
<1>6. QED
  BY <1>2, <1>5 DEF StoreInv

\* The parts of the invariant a writer does not touch.
LEMMA EngineStays ==
    ASSUME StoreInv, UNCHANGED <<engineSide, emitted>>, RowsInv'
    PROVE  StoreInv'
BY DEF StoreInv, EmittedInv, OfCycle, ForwardInv, BeingFinalized, WasForwarded, engineSide

\* The row of the end comes after all others of its emission.
LEMMA WriterRow ==
    ASSUME StoreInv, NEW w \in writers, WriterStep(w), w.written # 0
    PROVE  RowsInv'
<1> DEFINE s == EventsOf(w.of)
           n == w.written
           id == s[n].id
<1>1. /\ w \in [of : emitted, written : Nat] /\ ~IsLate(w.of)
      /\ n <= Len(s) /\ n \in Nat /\ EndId(w.of) \in dialogue
      /\ \A k \in 1..(n - 1) : s[k].id \in DOMAIN awareness
  BY DEF StoreInv, RowsInv
<1>2. w.of \in emitted /\ w.of \in Drives /\ w.of.shape \in Shapes
  BY <1>1, StoreAssumption DEF StoreInv, EmittedInv, Drives, IsLate
<1>3. /\ DOMAIN s = 1..Len(s) /\ Len(s) \in Nat
      /\ s[Len(s)] = EndOf(w.of)
      /\ \A k \in 1..(Len(s) - 1) : s[k].id \in OtherIds(w.of.cycle, w.of.drive)
  BY <1>2, EmissionIs DEF EventsOf, EndOf
<1>4. /\ awareness' = Stored(awareness, s[n]) /\ dialogue' = dialogue
      /\ writers' = (writers \ {w}) \cup (IF n = Len(s) THEN {} ELSE {[w EXCEPT !.written = @ + 1]})
      /\ emitted' = emitted
  BY DEF WriterStep, Write
<1>5. DOMAIN awareness' = DOMAIN awareness \cup {id}
  BY <1>4 DEF Stored
<1> HIDE DEF s
<1>6. \A k \in DOMAIN awareness' : awareness'[k] = IF k = id THEN s[n] ELSE awareness[k]
  BY <1>4 DEF Stored, s
<1>7. ASSUME NEW c, NEW d, NEW last, FinalId(c, d, last) = id,
             awareness'[id] = FinalEvent(c, d, last)
      PROVE  w.of.cycle = c /\ w.of.drive = d /\ n = Len(s)
  <2>1. n = Len(s)
    <3>1. CASE n # Len(s)
      <4>1. n \in 1..(Len(s) - 1)
        BY <1>1, <1>3, <3>1
      <4>2. id \in OtherIds(w.of.cycle, w.of.drive)
        BY <1>3, <4>1
      <4>3. QED
        BY <1>7, <4>2, FinalIdIsOfAnEnd
    <3>2. QED
      BY <3>1
  <2>2. FinalEvent(c, d, last) = EndOf(w.of)
    BY <1>3, <1>5, <1>6, <1>7, <2>1
  <2>3. QED
    BY <2>1, <2>2, EndNamesItsDrive DEF EndOf
<1>8. ASSUME NEW k \in DOMAIN awareness', NEW c \in Cycles, NEW d \in Nat, NEW last \in LastEvents,
             k = FinalId(c, d, last), awareness'[k] = FinalEvent(c, d, last)
      PROVE  \E e \in emitted' : e.cycle = c /\ e.drive = d
  <2>1. CASE k # id
    <3>1. k \in DOMAIN awareness /\ awareness[k] = FinalEvent(c, d, last)
      BY <1>5, <1>6, <1>8, <2>1
    <3>2. QED
      BY <1>4, <1>8, <3>1 DEF StoreInv, RowsInv
  <2>2. CASE k = id
    BY <1>2, <1>4, <1>7, <1>8, <2>2
  <2>3. QED
    BY <2>1, <2>2
<1>9. FinalizedRowIsLast'
  <2> SUFFICES ASSUME NEW e \in emitted', ~IsLate(e), EndOf(e).id \in DOMAIN awareness',
                      awareness'[EndOf(e).id] = EndOf(e)
               PROVE  /\ EndOf(e).id \in dialogue'
                      /\ \A k \in DOMAIN EventsOf(e) : EventsOf(e)[k].id \in DOMAIN awareness'
    BY DEF FinalizedRowIsLast
  <2>1. CASE EndOf(e).id # id
    <3>1. EndOf(e).id \in DOMAIN awareness /\ awareness[EndOf(e).id] = EndOf(e)
      BY <1>5, <1>6, <2>1
    <3>2. QED
      BY <1>4, <1>5, <3>1 DEF StoreInv, RowsInv, FinalizedRowIsLast
  <2>2. CASE EndOf(e).id = id
    <3>1. w.of.cycle = e.cycle /\ w.of.drive = e.drive /\ n = Len(s)
      <4>1. EndOf(e) = FinalEvent(e.cycle, e.drive, e.shape.last)
        BY DEF EndOf
      <4>2. EndOf(e).id = FinalId(e.cycle, e.drive, e.shape.last)
        BY <4>1, EndNamesItsDrive
      <4>3. QED
        BY <1>7, <2>2, <4>1, <4>2
    <3>2. e = w.of
      BY <1>2, <1>4, <3>1 DEF StoreInv, EmittedInv
    <3>3. ASSUME NEW k \in DOMAIN s PROVE s[k].id \in DOMAIN awareness'
      <4>1. k \in 1..(n - 1) \/ k = n
        BY <1>1, <1>3, <3>1
      <4>2. QED
        BY <1>1, <1>5, <4>1
    <3>4. QED
      BY <1>1, <1>4, <3>2, <3>3 DEF s, EndId
  <2>3. QED
    BY <2>1, <2>2
<1>10. ASSUME NEW x \in writers'
       PROVE  /\ x \in [of : emitted', written : Nat]
              /\ ~IsLate(x.of)
              /\ x.written <= Len(EventsOf(x.of))
              /\ x.written > 0 => EndId(x.of) \in dialogue'
              /\ \A k \in 1..(x.written - 1) : EventsOf(x.of)[k].id \in DOMAIN awareness'
  <2>1. CASE x \in writers
    BY <1>4, <1>5, <2>1 DEF StoreInv, RowsInv
  <2>2. CASE x \notin writers
    <3>1. x = [w EXCEPT !.written = @ + 1] /\ n # Len(s)
      BY <1>4, <1>10, <2>2
    <3>2. x.of = w.of /\ x.written = n + 1 /\ x \in [of : emitted', written : Nat]
      BY <1>1, <1>4, <3>1
    <3>3. x.written <= Len(s)
      BY <1>1, <1>3, <3>1, <3>2
    <3>4. ASSUME NEW k \in 1..(x.written - 1) PROVE s[k].id \in DOMAIN awareness'
      <4>1. k \in 1..(n - 1) \/ k = n
        BY <1>1, <3>2
      <4>2. QED
        BY <1>1, <1>5, <4>1
    <3>5. QED
      BY <1>1, <1>4, <3>2, <3>3, <3>4 DEF s
  <2>3. QED
    BY <2>1, <2>2
<1>11. QED
  BY <1>8, <1>9, <1>10 DEF RowsInv

LEMMA WriterStepKeeps == ASSUME StoreInv, NEW w \in writers, WriterStep(w) PROVE StoreInv'
<1>1. CASE w.written # 0
  <2>1. RowsInv'
    BY <1>1, WriterRow
  <2>2. QED
    BY <2>1, EngineStays DEF WriterStep
<1>2. CASE w.written = 0
  <2>1. /\ dialogue' = dialogue \cup {EndId(w.of)} /\ awareness' = awareness
        /\ writers' = (writers \ {w}) \cup (IF w.written = Len(EventsOf(w.of)) THEN {}
                                            ELSE {[w EXCEPT !.written = @ + 1]})
        /\ emitted' = emitted
    BY <1>2 DEF WriterStep, Write, EndId
  <2>2. w \in [of : emitted, written : Nat] /\ ~IsLate(w.of)
    BY DEF StoreInv, RowsInv
  <2>3. w.of.shape \in Shapes
    BY <2>2, StoreAssumption DEF StoreInv, EmittedInv, Drives, IsLate
  <2>4. Len(EventsOf(w.of)) \in Nat /\ Len(EventsOf(w.of)) # 0
    BY <2>3, EmissionIs DEF EventsOf
  <2>5. ASSUME NEW x \in writers'
        PROVE  /\ x \in [of : emitted', written : Nat]
               /\ ~IsLate(x.of)
               /\ x.written <= Len(EventsOf(x.of))
               /\ x.written > 0 => EndId(x.of) \in dialogue'
               /\ \A k \in 1..(x.written - 1) : EventsOf(x.of)[k].id \in DOMAIN awareness'
    <3>1. CASE x \in writers
      BY <2>1, <3>1 DEF StoreInv, RowsInv
    <3>2. CASE x \notin writers
      <4>1. x = [w EXCEPT !.written = @ + 1]
        BY <2>1, <2>5, <3>2
      <4>2. x.of = w.of /\ x.written = 1 /\ x \in [of : emitted', written : Nat]
        BY <1>2, <2>1, <2>2, <4>1
      <4>3. QED
        BY <2>1, <2>2, <2>4, <4>2
    <3>3. QED
      BY <3>1, <3>2
  <2>6. FinalizedRowIsLast'
    BY <2>1 DEF StoreInv, RowsInv, FinalizedRowIsLast
  <2>7. RowsInv'
    BY <2>1, <2>5, <2>6 DEF StoreInv, RowsInv
  <2>8. QED
    BY <2>7, EngineStays DEF WriterStep
<1>3. QED
  BY <1>1, <1>2

LEMMA StoreStep == StoreInv /\ [StoreNext]_storeVars => StoreInv'
<1> SUFFICES ASSUME StoreInv, [StoreNext]_storeVars PROVE StoreInv'
  OBVIOUS
<1>1. ASSUME NEW c \in Cycles, FinalizeCycle(c) PROVE StoreInv'
  BY <1>1, FinalizeCycleStep
<1>2. ASSUME NEW c \in Cycles, FinalizeLate(c) PROVE StoreInv'
  BY <1>2, FinalizeLateStep
<1>3. CASE ForwardAll
  BY <1>3, ForwardAllStep
<1>4. CASE ForwardFails
  BY <1>4, ForwardFailsStep
<1>5. ASSUME NEW w \in writers, WriterStep(w) PROVE StoreInv'
  BY <1>5, WriterStepKeeps
<1>6. ASSUME NEW w \in writers, WriterFails(w) PROVE StoreInv'
  <2>1. /\ writers' \subseteq writers /\ UNCHANGED <<engineSide, dialogue, awareness, emitted>>
    BY <1>6 DEF WriterFails
  <2>2. RowsInv'
    BY <2>1 DEF StoreInv, RowsInv, FinalizedRowIsLast
  <2>3. QED
    BY <2>1, <2>2, EngineStays
<1>7. CASE CrashStore
  <2>1. /\ finalized' = {} /\ finalizing' = Idle /\ writers' = {}
        /\ UNCHANGED <<dispatched, dialogue, awareness, emitted, forwarded>>
    BY <1>7 DEF CrashStore
  <2>2. EmittedInv' /\ RowsInv'
    BY <2>1 DEF StoreInv, EmittedInv, OfCycle, RowsInv, FinalizedRowIsLast
  <2>3. ForwardInv'
    BY <2>1 DEF StoreInv, ForwardInv
  <2>4. QED
    BY <2>2, <2>3 DEF StoreInv
<1>8. CASE UNCHANGED storeVars
  BY <1>8 DEF storeVars, engineSide, writerSide, StoreInv, EmittedInv, OfCycle, ForwardInv,
              BeingFinalized, WasForwarded, RowsInv, FinalizedRowIsLast
<1>9. QED
  BY <1>1, <1>2, <1>3, <1>4, <1>5, <1>6, <1>7, <1>8 DEF StoreNext

\* A Finalized row is never there without the dialogue row and all other rows of
\* the drive it comes from, whichever drives and writers went over it: for any
\* cycles, shapes of a drive, events of clients, failures and crashes.
THEOREM TheEndIsStoredLast == StoreSpec => []FinalizedRowIsLast
<1>1. StoreInv => FinalizedRowIsLast
  BY DEF StoreInv, RowsInv
<1>2. QED
  BY <1>1, StoreInitial, StoreStep, PTL DEF StoreSpec

\* A cycle stays registered as final only by a finalize_cycle that handed its
\* whole batch to the store of the forwarder, or by the one under way.
THEOREM FinalMeansForwarded == StoreSpec => []FinalCyclesWereForwarded
<1>1. StoreInv => FinalCyclesWereForwarded
  BY DEF StoreInv, ForwardInv, FinalCyclesWereForwarded, BeingFinalized, WasForwarded
<1>2. QED
  BY <1>1, StoreInitial, StoreStep, PTL DEF StoreSpec

===============================================================================
