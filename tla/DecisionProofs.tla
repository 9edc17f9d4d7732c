----------------------------- MODULE DecisionProofs -----------------------------
(***************************************************************************)
(* Proofs about what is decided, given out and linked beside a cycle: the  *)
(* autonomous session with its scenario stack (Autonomy), the identifiers  *)
(* (IdFactory) and the versions of the graph's entities (VersionChain).    *)
(***************************************************************************)
EXTENDS Autonomy, IdFactory, VersionChain, RetainTheorems

-----------------------------------------------------------------------------
(* Autonomy: the agenda                                                     *)

ItemStatuses == {"Pending", "InProgress"} \cup Settled
AgendaEntries == [item : Items, status : ItemStatuses]
Sessions == [autonomous : BOOLEAN, agenda : Seq(AgendaEntries), acs : Nat, idles : Nat,
             cost : Nat, stale : BOOLEAN]

\* Each entry of the agenda is more pressing than those behind it, or as pressing
\* and added earlier.
AgendaIsSorted ==
    \A m, n \in DOMAIN session.agenda : m < n =>
        LET i == session.agenda[m].item
            j == session.agenda[n].item IN
        \/ PriorityOf[i] < PriorityOf[j]
        \/ PriorityOf[i] = PriorityOf[j] /\ Precedes(added, i, j)

\* What is on the agenda was added once.
AgendaWasAdded ==
    \A n \in DOMAIN session.agenda : \E k \in DOMAIN added : added[k] = session.agenda[n].item

\* The count of idle cycles is that of the last ones of the trail.
IdlesAreLast ==
    /\ session.idles <= Len(trail)
    /\ \A k \in DOMAIN trail : k > Len(trail) - session.idles => trail[k]
    /\ session.idles < Len(trail) => ~trail[Len(trail) - session.idles]

SessionInv ==
    /\ session \in Sessions
    /\ trail \in Seq(BOOLEAN)
    /\ added \in Seq(Items)
    /\ session.acs = Len(trail)
    /\ IdlesAreLast
    /\ AgendaIsSorted
    /\ AgendaWasAdded

LEMMA SessionInitial == AutonomyInit => SessionInv
<1> SUFFICES ASSUME AutonomyInit PROVE SessionInv
  OBVIOUS
<1>1. /\ <<>> \in Seq(AgendaEntries) /\ <<>> \in Seq(BOOLEAN) /\ <<>> \in Seq(Items)
      /\ Len(<<>>) = 0 /\ DOMAIN <<>> = {}
  OBVIOUS
<1>2. session = [autonomous |-> FALSE, agenda |-> <<>>, acs |-> 0, idles |-> 0,
                 cost |-> 0, stale |-> FALSE]
  BY DEF AutonomyInit
<1>3. session \in Sessions
  <2>1. FALSE \in BOOLEAN /\ 0 \in Nat
    OBVIOUS
  <2> QED
    BY <1>1, <1>2, <2>1, Zenon DEF Sessions
<1>4. trail = <<>> /\ added = <<>>
  BY DEF AutonomyInit
<1>5. session.agenda = <<>> /\ session.acs = 0 /\ session.idles = 0
  BY <1>2
<1> QED
  BY <1>1, <1>3, <1>4, <1>5 DEF SessionInv, IdlesAreLast, AgendaIsSorted, AgendaWasAdded

\* Entering an item keeps the others, and only shifts those behind it.
LEMMA InsertAtIs ==
    ASSUME NEW q \in Seq(AgendaEntries), NEW e \in AgendaEntries, NEW at \in 0..Len(q)
    PROVE  LET r == InsertAt(q, at + 1, e) IN
           /\ r \in Seq(AgendaEntries)
           /\ Len(r) = Len(q) + 1
           /\ \A n \in 1..Len(r) :
                 r[n] = IF n <= at THEN q[n] ELSE IF n = at + 1 THEN e ELSE q[n - 1]
<1> DEFINE a == SubSeq(q, 1, at)
           b == SubSeq(q, at + 1, Len(q))
<1>1. Len(q) \in Nat /\ at \in Nat /\ at <= Len(q)
  BY LenProperties
<1>2. a \in Seq(AgendaEntries) /\ Len(a) = at /\ \A n \in 1..at : a[n] = q[n]
  BY <1>1, SubSeqProperties
<1>3. b \in Seq(AgendaEntries) /\ Len(b) = Len(q) - at /\ \A n \in 1..(Len(q) - at) : b[n] = q[at + n]
  BY <1>1, SubSeqProperties
<1>4. <<e>> \in Seq(AgendaEntries) /\ Len(<<e>>) = 1 /\ <<e>>[1] = e
  OBVIOUS
<1>5. InsertAt(q, at + 1, e) = a \o <<e>> \o b
  <2>1. (at + 1) - 1 = at
    BY <1>1
  <2> QED
    BY <2>1, Zenon DEF InsertAt
<1> HIDE DEF a, b
<1>6. /\ a \o <<e>> \in Seq(AgendaEntries)
      /\ Len(a \o <<e>>) = at + 1
      /\ \A n \in 1..(at + 1) : (a \o <<e>>)[n] = IF n <= at THEN q[n] ELSE e
  BY <1>1, <1>2, <1>4, ConcatProperties
<1> DEFINE ae == a \o <<e>>
<1> HIDE DEF ae
<1>7. /\ ae \in Seq(AgendaEntries) /\ Len(ae) = at + 1
      /\ \A n \in 1..(at + 1) : ae[n] = IF n <= at THEN q[n] ELSE e
  BY <1>6 DEF ae
<1>8. /\ ae \o b \in Seq(AgendaEntries)
      /\ Len(ae \o b) = Len(q) + 1
      /\ \A n \in 1..(Len(q) + 1) :
            (ae \o b)[n] = IF n <= at + 1 THEN ae[n] ELSE b[n - (at + 1)]
  BY <1>1, <1>3, <1>7, ConcatProperties
<1>9. \A n \in 1..(Len(q) + 1) :
         (ae \o b)[n] = IF n <= at THEN q[n] ELSE IF n = at + 1 THEN e ELSE q[n - 1]
  <2> TAKE n \in 1..(Len(q) + 1)
  <2>1. CASE n <= at + 1
    BY <1>1, <1>7, <1>8, <2>1
  <2>2. CASE n > at + 1
    <3>1. n - (at + 1) \in 1..(Len(q) - at) /\ at + (n - (at + 1)) = n - 1
      BY <1>1, <2>2
    <3>2. b[n - (at + 1)] = q[n - 1]
      BY <1>3, <3>1
    <3>3. (ae \o b)[n] = b[n - (at + 1)]
      BY <1>1, <1>8, <2>2
    <3>4. n \in Nat /\ ~(n <= at) /\ n # at + 1
      BY <1>1, <2>2
    <3> QED
      BY <3>2, <3>3, <3>4
  <2>3. n <= at + 1 \/ n > at + 1
    BY <1>1
  <2> QED
    BY <2>1, <2>2, <2>3, Zenon
<1>10. InsertAt(q, at + 1, e) = ae \o b
  BY <1>5 DEF ae
<1> DEFINE r == ae \o b
<1> HIDE DEF r
<1>11. /\ r \in Seq(AgendaEntries) /\ Len(r) = Len(q) + 1
       /\ \A n \in 1..Len(r) : r[n] = IF n <= at THEN q[n] ELSE IF n = at + 1 THEN e ELSE q[n - 1]
  BY <1>8, <1>9 DEF r
<1>12. InsertAt(q, at + 1, e) = r
  BY <1>10 DEF r
<1> QED
  BY <1>11, <1>12, Zenon

\* A set of positions that holds all that follow one of them is the last ones.
LEMMA LastPositions ==
    ASSUME NEW len \in Nat, NEW S \in SUBSET (1..len),
           \A m \in S, n \in 1..len : m < n => n \in S
    PROVE  Cardinality(S) \in 0..len /\ S = (len - Cardinality(S) + 1)..len
<1>1. CASE S = {}
  <2>1. Cardinality(S) = 0
    BY <1>1, FS_EmptySet
  <2> QED
    BY <1>1, <2>1
<1>2. CASE S # {}
  <2>1. S \in SUBSET Nat
    OBVIOUS
  <2>2. PICK first \in S : \A m \in S : first <= m
    BY <1>2, <2>1, LeastNatural
  <2>3. S = first..len
    <3>1. first \in 1..len /\ \A n \in 1..len : first < n => n \in S
      BY <2>2
    <3>2. \A n \in S : n \in first..len
      BY <2>2, <3>1
    <3>3. \A n \in first..len : n \in S
      BY <2>2, <3>1
    <3> QED
      BY <3>2, <3>3
  <2>4. first \in Int /\ len \in Int /\ first <= len
    BY <2>2
  <2>5. Cardinality(first..len) = len - first + 1
    BY <2>4, FS_Interval
  <2> QED
    BY <2>2, <2>3, <2>4, <2>5
<1> QED
  BY <1>1, <1>2

LEMMA AddedLast ==
    ASSUME SessionInv, NEW item \in Items, added' = Append(added, item)
    PROVE  /\ added' \in Seq(Items)
           /\ \E k \in DOMAIN added' : added'[k] = item
           /\ \A i : (\E k \in DOMAIN added : added[k] = i)
                        => (\E k \in DOMAIN added' : added'[k] = i) /\ Precedes(added', i, item)
           /\ \A i, j : Precedes(added, i, j) => Precedes(added', i, j)
<1>1. /\ added \in Seq(Items) /\ Len(added) \in Nat /\ DOMAIN added = 1..Len(added)
      /\ added' \in Seq(Items) /\ Len(added') = Len(added) + 1 /\ DOMAIN added' = 1..Len(added')
      /\ added'[Len(added) + 1] = item
      /\ \A k \in 1..Len(added) : added'[k] = added[k]
  <2>1. added \in Seq(Items) /\ Len(added) \in Nat /\ DOMAIN added = 1..Len(added)
    BY LenProperties DEF SessionInv
  <2>2. /\ added' \in Seq(Items) /\ Len(added') = Len(added) + 1
        /\ added'[Len(added) + 1] = item
        /\ \A k \in 1..Len(added) : added'[k] = added[k]
    BY <2>1, AppendProperties
  <2> QED
    BY <2>1, <2>2, LenProperties
<1>2. Len(added) + 1 \in DOMAIN added' /\ \A k \in DOMAIN added : k \in DOMAIN added' /\ k < Len(added) + 1
  BY <1>1
<1>3. \A i, j : Precedes(added, i, j) => Precedes(added', i, j)
  BY <1>1, <1>2 DEF Precedes
<1>4. \A i : (\E k \in DOMAIN added : added[k] = i)
                => (\E k \in DOMAIN added' : added'[k] = i) /\ Precedes(added', i, item)
  BY <1>1, <1>2 DEF Precedes
<1> QED
  BY <1>1, <1>2, <1>3, <1>4

\* An item comes to the agenda behind those as pressing and before the others.
LEMMA AgendaGrows ==
    ASSUME SessionInv, NEW item \in Items, AddAgendaItem(item)
    PROVE  SessionInv'
<1> DEFINE q == session.agenda
           behind == {n \in DOMAIN q : PriorityOf[q[n].item] > PriorityOf[item]}
           at == Len(q) - Cardinality(behind)
           e == [item |-> item, status |-> "Pending"]
           r == InsertAt(q, at + 1, e)
<1>1. q \in Seq(AgendaEntries) /\ DOMAIN q = 1..Len(q) /\ Len(q) \in Nat
  BY LenProperties DEF SessionInv, Sessions
<1>2. e \in AgendaEntries
  BY Zenon DEF AgendaEntries, ItemStatuses
<1>3. \A n \in DOMAIN q : q[n].item \in Items /\ PriorityOf[q[n].item] \in Nat
  <2> TAKE n \in DOMAIN q
  <2>1. q[n] \in AgendaEntries
    BY <1>1, ElementOfSeq
  <2> QED
    BY <2>1, AutonomyAssumption DEF AgendaEntries
<1>4. PriorityOf[item] \in Nat
  BY AutonomyAssumption
<1>5. at \in 0..Len(q) /\ behind = (at + 1)..Len(q)
  <2>1. behind \subseteq 1..Len(q)
    BY <1>1
  <2>2. \A m \in behind, n \in 1..Len(q) : m < n => n \in behind
    <3> SUFFICES ASSUME NEW m \in behind, NEW n \in 1..Len(q), m < n PROVE n \in behind
      OBVIOUS
    <3>1. m \in DOMAIN q /\ n \in DOMAIN q /\ PriorityOf[q[m].item] > PriorityOf[item]
      BY <1>1
    <3>2. PriorityOf[q[m].item] <= PriorityOf[q[n].item]
      <4>1. \/ PriorityOf[q[m].item] < PriorityOf[q[n].item]
            \/ PriorityOf[q[m].item] = PriorityOf[q[n].item]
        BY <3>1 DEF SessionInv, AgendaIsSorted
      <4> QED
        BY <1>3, <3>1, <4>1
    <3>3. PriorityOf[q[n].item] > PriorityOf[item]
      BY <1>3, <1>4, <3>1, <3>2
    <3> QED
      BY <3>1, <3>3
  <2>3. Cardinality(behind) \in 0..Len(q) /\ behind = (Len(q) - Cardinality(behind) + 1)..Len(q)
    <3> HIDE DEF behind, q
    <3> QED
      BY <1>1, <2>1, <2>2, LastPositions
  <2> HIDE DEF behind, q
  <2> QED
    BY <1>1, <2>3
<1>6. \A n \in DOMAIN q : IF n <= at THEN PriorityOf[q[n].item] <= PriorityOf[item]
                          ELSE PriorityOf[item] < PriorityOf[q[n].item]
  <2> TAKE n \in DOMAIN q
  <2>1. n \in behind <=> ~(n <= at)
    <3> HIDE DEF behind, q
    <3> QED
      BY <1>1, <1>5
  <2> HIDE DEF at
  <2> QED
    BY <1>3, <1>4, <2>1
<1>7. /\ r \in Seq(AgendaEntries) /\ Len(r) = Len(q) + 1
      /\ \A n \in 1..Len(r) :
            r[n] = IF n <= at THEN q[n] ELSE IF n = at + 1 THEN e ELSE q[n - 1]
  <2> HIDE DEF q, at, e
  <2> QED
    BY <1>1, <1>2, <1>5, InsertAtIs
<1>8. /\ session' = [session EXCEPT !.agenda = r]
      /\ trail' = trail /\ added' = Append(added, item)
  BY DEF AddAgendaItem
<1>9. e.item = item
  OBVIOUS
<1> HIDE DEF r, at, e
<1>10. /\ session' \in Sessions /\ session'.agenda = r
       /\ session'.acs = session.acs /\ session'.idles = session.idles
  BY <1>7, <1>8 DEF SessionInv, Sessions
<1>11. DOMAIN r = 1..Len(r) /\ Len(r) \in Nat
  BY <1>7, LenProperties
<1> DEFINE of(n) == IF n <= at THEN n ELSE n - 1
<1>12. \A n \in DOMAIN r : (n = at + 1 /\ r[n] = e) \/ (n # at + 1 /\ of(n) \in DOMAIN q /\ r[n] = q[of(n)])
  BY <1>1, <1>5, <1>7, <1>11
<1>13. /\ added' \in Seq(Items)
       /\ \E k \in DOMAIN added' : added'[k] = item
       /\ \A i : (\E k \in DOMAIN added : added[k] = i)
                    => (\E k \in DOMAIN added' : added'[k] = i) /\ Precedes(added', i, item)
       /\ \A i, j : Precedes(added, i, j) => Precedes(added', i, j)
  BY <1>8, AddedLast
<1>14. AgendaWasAdded'
  <2> SUFFICES ASSUME NEW n \in DOMAIN r PROVE \E k \in DOMAIN added' : added'[k] = r[n].item
    BY <1>10 DEF AgendaWasAdded
  <2>1. CASE n = at + 1
    <3>1. r[n] = e
      BY <1>12, <2>1
    <3> QED
      BY <1>9, <1>13, <3>1
  <2>2. CASE n # at + 1
    <3>1. of(n) \in DOMAIN q /\ r[n] = q[of(n)]
      BY <1>12, <2>2
    <3> HIDE DEF of
    <3>2. \E k \in DOMAIN added : added[k] = q[of(n)].item
      BY <3>1 DEF SessionInv, AgendaWasAdded
    <3> QED
      BY <1>13, <3>1, <3>2
  <2> QED
    BY <2>1, <2>2
<1>15. AgendaIsSorted'
  <2> SUFFICES ASSUME NEW m \in DOMAIN r, NEW n \in DOMAIN r, m < n
               PROVE  \/ PriorityOf[r[m].item] < PriorityOf[r[n].item]
                      \/ /\ PriorityOf[r[m].item] = PriorityOf[r[n].item]
                         /\ Precedes(added', r[m].item, r[n].item)
    BY <1>10 DEF AgendaIsSorted, Precedes
  <2>1. CASE m = at + 1
    <3>1. r[m].item = item /\ n # at + 1 /\ of(n) \in DOMAIN q /\ r[n] = q[of(n)] /\ ~(of(n) <= at)
      BY <1>1, <1>5, <1>7, <1>9, <1>11, <1>12, <2>1
    <3> HIDE DEF of
    <3> QED
      BY <1>6, <3>1
  <2>2. CASE n = at + 1
    <3>1. r[n].item = item /\ m # at + 1 /\ of(m) \in DOMAIN q /\ r[m] = q[of(m)] /\ of(m) <= at
      BY <1>1, <1>5, <1>7, <1>9, <1>11, <1>12, <2>2
    <3> HIDE DEF of
    <3>2. PriorityOf[r[m].item] <= PriorityOf[item] /\ PriorityOf[r[m].item] \in Nat
      BY <1>3, <1>6, <3>1
    <3>3. Precedes(added', r[m].item, item)
      BY <1>13, <3>1 DEF SessionInv, AgendaWasAdded
    <3> QED
      BY <1>4, <3>1, <3>2, <3>3
  <2>3. CASE m # at + 1 /\ n # at + 1
    <3>1. /\ of(m) \in DOMAIN q /\ r[m] = q[of(m)]
          /\ of(n) \in DOMAIN q /\ r[n] = q[of(n)]
      BY <1>12, <2>3
    <3>2. of(m) < of(n)
      BY <1>1, <1>5, <1>7, <1>11, <2>3
    <3> HIDE DEF of
    <3> QED
      BY <1>13, <3>1, <3>2 DEF SessionInv, AgendaIsSorted
  <2> QED
    BY <2>1, <2>2, <2>3
<1>16. IdlesAreLast'
  BY <1>8, <1>10 DEF SessionInv, IdlesAreLast
<1> QED
  BY <1>8, <1>10, <1>13, <1>14, <1>15, <1>16 DEF SessionInv

\* An item is marked where it stands.
LEMMA MarkKeeps ==
    ASSUME SessionInv, NEW item \in Items, NEW status \in ItemStatuses, MarkItem(item, status)
    PROVE  SessionInv'
<1> DEFINE q == session.agenda
           entry(n) == IF q[n].item = item THEN [q[n] EXCEPT !.status = status] ELSE q[n]
           r == [n \in DOMAIN q |-> entry(n)]
<1>1. q \in Seq(AgendaEntries) /\ DOMAIN q = 1..Len(q) /\ Len(q) \in Nat
  BY LenProperties DEF SessionInv, Sessions
<1>2. \A n \in DOMAIN q : entry(n) \in AgendaEntries /\ entry(n).item = q[n].item
  <2> TAKE n \in DOMAIN q
  <2>1. q[n] \in AgendaEntries
    BY <1>1, ElementOfSeq
  <2> QED
    BY <2>1 DEF AgendaEntries
<1>3. session' = [session EXCEPT !.agenda = r] /\ trail' = trail /\ added' = added
  BY DEF MarkItem
<1> HIDE DEF entry
<1>4. r \in Seq(AgendaEntries) /\ DOMAIN r = DOMAIN q /\ \A n \in DOMAIN q : r[n] = entry(n)
  <2>1. r \in Seq(AgendaEntries)
    BY <1>1, <1>2, IsASeq
  <2> QED
    BY <2>1
<1> HIDE DEF r
<1>5. /\ session' \in Sessions /\ session'.agenda = r
      /\ session'.acs = session.acs /\ session'.idles = session.idles
  BY <1>3, <1>4 DEF SessionInv, Sessions
<1>6. \A n \in DOMAIN r : r[n].item = q[n].item
  BY <1>2, <1>4
<1> HIDE DEF q
<1>7. AgendaIsSorted'
  <2>1. AgendaIsSorted /\ q = session.agenda
    BY DEF SessionInv, q
  <2> QED
    BY <1>3, <1>4, <1>5, <1>6, <2>1 DEF AgendaIsSorted
<1>8. AgendaWasAdded'
  <2>1. AgendaWasAdded /\ q = session.agenda
    BY DEF SessionInv, q
  <2> QED
    BY <1>3, <1>4, <1>5, <1>6, <2>1 DEF AgendaWasAdded
<1>9. IdlesAreLast'
  BY <1>3, <1>5 DEF SessionInv, IdlesAreLast
<1> QED
  BY <1>3, <1>5, <1>7, <1>8, <1>9 DEF SessionInv

-----------------------------------------------------------------------------
(* Autonomy: the limits                                                     *)

\* The counters follow the trail.
LEMMA RecordKeeps ==
    ASSUME SessionInv, NEW cost \in Costs, NEW idle \in BOOLEAN, RecordAcCompletion(cost, idle)
    PROVE  SessionInv'
<1>1. PICK acs \in Nat, spent \in Nat : acs = session.acs + 1 /\ spent = session.cost + cost
  BY AutonomyAssumption DEF SessionInv, Sessions
<1>2. PICK idles \in Nat : idles = IF idle THEN session.idles + 1 ELSE 0
  BY DEF SessionInv, Sessions
<1>3. /\ session' = [session EXCEPT !.acs = acs, !.cost = spent, !.stale = FALSE, !.idles = idles]
      /\ trail' = Append(trail, idle) /\ added' = added
  BY <1>1, <1>2, Zenon DEF RecordAcCompletion, Recorded
<1>4. /\ session' \in Sessions /\ session'.agenda = session.agenda
      /\ session'.acs = acs /\ session'.idles = idles
  BY <1>3 DEF SessionInv, Sessions
<1>5. /\ trail' \in Seq(BOOLEAN) /\ Len(trail') = Len(trail) + 1 /\ Len(trail) \in Nat
      /\ DOMAIN trail = 1..Len(trail) /\ DOMAIN trail' = 1..(Len(trail) + 1)
      /\ trail'[Len(trail) + 1] = idle
      /\ \A n \in 1..Len(trail) : trail'[n] = trail[n]
  <2>1. trail \in Seq(BOOLEAN) /\ Len(trail) \in Nat /\ DOMAIN trail = 1..Len(trail)
    BY LenProperties DEF SessionInv
  <2>2. /\ trail' \in Seq(BOOLEAN) /\ Len(trail') = Len(trail) + 1
        /\ trail'[Len(trail) + 1] = idle
        /\ \A n \in 1..Len(trail) : trail'[n] = trail[n]
    BY <1>3, <2>1, AppendProperties
  <2> QED
    BY <2>1, <2>2, LenProperties
<1>6. IdlesAreLast'
  <2>1. /\ session.idles \in Nat /\ session.idles <= Len(trail)
        /\ \A k \in DOMAIN trail : k > Len(trail) - session.idles => trail[k]
        /\ (session.idles < Len(trail) => ~trail[Len(trail) - session.idles])
    BY DEF SessionInv, IdlesAreLast, Sessions
  <2>2. CASE idle
    <3>1. session'.idles = session.idles + 1
      BY <1>2, <1>4, <2>2
    <3>2. ASSUME session'.idles < Len(trail') PROVE ~trail'[Len(trail') - session'.idles]
      <4>1. /\ Len(trail') - session'.idles = Len(trail) - session.idles
            /\ Len(trail) - session.idles \in 1..Len(trail)
            /\ session.idles < Len(trail)
        BY <1>5, <2>1, <3>1, <3>2
      <4>2. trail'[Len(trail) - session.idles] = trail[Len(trail) - session.idles]
        BY <1>5, <4>1
      <4> QED
        BY <2>1, <4>1, <4>2
    <3>3. ASSUME NEW k \in DOMAIN trail', k > Len(trail') - session'.idles PROVE trail'[k]
      <4>1. CASE k = Len(trail) + 1
        BY <1>5, <2>2, <4>1
      <4>2. CASE k # Len(trail) + 1
        <5>1. k \in DOMAIN trail /\ k > Len(trail) - session.idles
          BY <1>5, <2>1, <3>1, <3>3, <4>2
        <5> QED
          BY <1>5, <2>1, <5>1
      <4> QED
        BY <4>1, <4>2
    <3> QED
      BY <1>5, <2>1, <3>1, <3>2, <3>3 DEF IdlesAreLast
  <2>3. CASE ~idle
    <3>1. session'.idles = 0
      BY <1>2, <1>4, <2>3
    <3>2. Len(trail') - session'.idles = Len(trail) + 1
      BY <1>5, <3>1
    <3>3. ~trail'[Len(trail') - session'.idles]
      BY <1>5, <2>3, <3>2
    <3>4. \A k \in DOMAIN trail' : ~(k > Len(trail') - session'.idles)
      BY <1>5, <3>2
    <3> QED
      BY <1>5, <3>1, <3>3, <3>4 DEF IdlesAreLast
  <2> QED
    BY <2>2, <2>3
<1>7. session'.acs = Len(trail')
  BY <1>1, <1>4, <1>5 DEF SessionInv
<1>8. AgendaIsSorted' /\ AgendaWasAdded'
  BY <1>3, <1>4 DEF SessionInv, AgendaIsSorted, AgendaWasAdded, Precedes
<1> QED
  BY <1>3, <1>4, <1>5, <1>6, <1>7, <1>8 DEF SessionInv

\* The counters start again with the trail.
LEMMA EntersAutonomy ==
    ASSUME SessionInv, EnterAutonomous
    PROVE  SessionInv'
<1>1. /\ trail' = <<>> /\ added' = added
      /\ session' = [session EXCEPT !.autonomous = TRUE, !.acs = 0, !.idles = 0, !.stale = FALSE]
  BY DEF EnterAutonomous
<1>2. /\ session' \in Sessions /\ session'.agenda = session.agenda
      /\ session'.acs = 0 /\ session'.idles = 0
  BY <1>1 DEF SessionInv, Sessions
<1>3. trail' \in Seq(BOOLEAN) /\ Len(trail') = 0 /\ DOMAIN trail' = {}
  BY <1>1
<1>4. AgendaIsSorted' /\ AgendaWasAdded'
  BY <1>1, <1>2 DEF SessionInv, AgendaIsSorted, AgendaWasAdded, Precedes
<1>5. IdlesAreLast'
  BY <1>2, <1>3 DEF IdlesAreLast
<1> QED
  BY <1>1, <1>2, <1>3, <1>4, <1>5 DEF SessionInv

\* What changes neither the agenda nor the counters
LEMMA OthersKeep ==
    ASSUME SessionInv, trail' = trail, added' = added, session' \in Sessions,
           session'.agenda = session.agenda, session'.acs = session.acs, session'.idles = session.idles
    PROVE  SessionInv'
BY DEF SessionInv, IdlesAreLast, AgendaIsSorted, AgendaWasAdded, Precedes

LEMMA SessionStep == SessionInv /\ [SessionNext \/ ScenarioNext]_autonomyVars => SessionInv'
<1> SUFFICES ASSUME SessionInv, [SessionNext \/ ScenarioNext]_autonomyVars PROVE SessionInv'
  OBVIOUS
<1>1. CASE \E i \in Items : AddAgendaItem(i)
  BY <1>1, AgendaGrows
<1>2. CASE EnterAutonomous
  BY <1>2, EntersAutonomy
<1>3. CASE ExitAutonomous
  <2>1. session' = [session EXCEPT !.autonomous = FALSE] /\ added' = added /\ trail' = trail
    BY <1>3 DEF ExitAutonomous
  <2>2. /\ session' \in Sessions /\ session'.agenda = session.agenda /\ session'.acs = session.acs
        /\ session'.idles = session.idles
    BY <2>1 DEF SessionInv, Sessions
  <2> QED
    BY <2>1, <2>2, OthersKeep
<1>4. CASE IdleTimeoutElapses
  <2>1. session' = [session EXCEPT !.stale = TRUE] /\ added' = added /\ trail' = trail
    BY <1>4 DEF IdleTimeoutElapses
  <2>2. /\ session' \in Sessions /\ session'.agenda = session.agenda /\ session'.acs = session.acs
        /\ session'.idles = session.idles
    BY <2>1 DEF SessionInv, Sessions
  <2> QED
    BY <2>1, <2>2, OthersKeep
<1>5. ASSUME NEW i \in Items, NEW status \in Settled \cup {"InProgress"}, MarkItem(i, status)
      PROVE  SessionInv'
  BY <1>5, MarkKeeps DEF ItemStatuses
<1>6. ASSUME NEW cost \in Costs, NEW idle \in BOOLEAN, RecordAcCompletion(cost, idle)
      PROVE  SessionInv'
  BY <1>6, RecordKeeps
<1>7. CASE ScenarioNext \/ UNCHANGED autonomyVars
  <2>1. session' = session /\ added' = added /\ trail' = trail
    BY <1>7 DEF ScenarioNext, ClearStack, ApplyEvent, autonomyVars
  <2> QED
    BY <2>1, OthersKeep DEF SessionInv
<1> QED
  BY <1>1, <1>2, <1>3, <1>4, <1>5, <1>6, <1>7 DEF SessionNext

\* The counters tell the limits.
LEMMA IdlesTell ==
    ASSUME SessionInv, NEW n \in Int
    PROVE  session.idles >= n <=> LastWereIdle(n)
<1>1. /\ trail \in Seq(BOOLEAN) /\ Len(trail) \in Nat /\ DOMAIN trail = 1..Len(trail)
      /\ session.idles \in Nat /\ session.idles <= Len(trail)
      /\ \A k \in DOMAIN trail : k > Len(trail) - session.idles => trail[k]
      /\ (session.idles < Len(trail) => ~trail[Len(trail) - session.idles])
  BY LenProperties DEF SessionInv, Sessions, IdlesAreLast
<1>2. ASSUME session.idles >= n PROVE LastWereIdle(n)
  BY <1>1, <1>2 DEF LastWereIdle
<1>3. ASSUME ~(session.idles >= n) PROVE ~LastWereIdle(n)
  <2>1. CASE n > Len(trail)
    BY <1>1, <2>1 DEF LastWereIdle
  <2>2. CASE n <= Len(trail)
    <3>1. /\ Len(trail) - session.idles \in DOMAIN trail
          /\ Len(trail) - session.idles > Len(trail) - n
      BY <1>1, <1>3, <2>2
    <3>2. ~trail[Len(trail) - session.idles]
      BY <1>1, <1>3, <2>2
    <3> QED
      BY <3>1, <3>2 DEF LastWereIdle
  <2> QED
    BY <1>1, <2>1, <2>2
<1> QED
  BY <1>2, <1>3

LEMMA LimitsAreTold ==
    ASSUME SessionInv, NEW meaningful \in BOOLEAN
    PROVE  /\ AtALimit(meaningful) => Terminates(session, meaningful)
           /\ Terminates(session, meaningful) /\ Pending(session) # {} => AtALimit(meaningful)
<1>1. /\ session.acs = Len(trail) /\ session.idles \in Nat
      /\ MaxIdle \in Int /\ CheckerIdle - 1 \in Int /\ CheckerIdle \in Nat
  BY AutonomyAssumption DEF SessionInv, Sessions
<1>2. session.idles >= MaxIdle <=> LastWereIdle(MaxIdle)
  BY <1>1, IdlesTell
<1>3. session.idles >= CheckerIdle - 1 <=> LastWereIdle(CheckerIdle - 1)
  BY <1>1, IdlesTell
<1>4. session.idles + 1 >= CheckerIdle <=> session.idles >= CheckerIdle - 1
  BY <1>1
<1>5. Pending(session) # {} => ~AgendaExhausted(session)
  BY DEF Pending, AgendaExhausted, Settled
<1>6. Terminates(session, meaningful)
        <=> \/ AgendaExhausted(session) /\ session.agenda # <<>>
            \/ AtALimit(meaningful)
  BY <1>1, <1>2, <1>3, <1>4, Zenon DEF Terminates, AtALimit
<1> QED
  BY <1>5, <1>6, Zenon

\* The first pending item is the most pressing one.
LEMMA FirstIsMostPressing ==
    ASSUME SessionInv, Pending(session) # {}
    PROVE  /\ session.agenda[FirstPending(session)].item # NoItem
           /\ IsMostPressing(session.agenda[FirstPending(session)].item)
<1> DEFINE first == FirstPending(session)
<1>1. session.agenda \in Seq(AgendaEntries) /\ DOMAIN session.agenda = 1..Len(session.agenda)
      /\ Len(session.agenda) \in Nat
  BY LenProperties DEF SessionInv, Sessions
<1>2. Pending(session) \in SUBSET Nat /\ Pending(session) \subseteq DOMAIN session.agenda
  BY <1>1 DEF Pending
<1>3. \E n \in Pending(session) : \A m \in Pending(session) : n <= m
  BY <1>2, LeastNatural
<1>4. first \in Pending(session) /\ \A m \in Pending(session) : first <= m
  BY <1>3 DEF FirstPending
<1> HIDE DEF first
<1>5. session.agenda[first] \in AgendaEntries
  BY <1>1, <1>2, <1>4, ElementOfSeq
<1>6. session.agenda[first].item # NoItem
  BY <1>5, AutonomyAssumption DEF AgendaEntries
<1>7. IsMostPressing(session.agenda[first].item)
  <2> SUFFICES ASSUME NEW n \in Pending(session), n # first
               PROVE  LET item == session.agenda[first].item
                          other == session.agenda[n].item IN
                      \/ PriorityOf[item] < PriorityOf[other]
                      \/ PriorityOf[item] = PriorityOf[other] /\ Precedes(added, item, other)
    BY <1>4 DEF IsMostPressing
  <2>1. first < n
    BY <1>2, <1>4
  <2> QED
    BY <1>2, <1>4, <2>1 DEF SessionInv, AgendaIsSorted
<1> QED
  BY <1>6, <1>7 DEF first

LEMMA DecisionsAreBounded == SessionInv => AutonomyIsBounded
<1> SUFFICES ASSUME SessionInv, NEW signal \in Signals, NEW meaningful \in BOOLEAN,
                    NEW extension \in BOOLEAN
             PROVE  LET d == Decision(session, signal, meaningful, extension) IN
                    /\ d.goes => (session.autonomous /\ ~AtALimit(meaningful))
                    /\ d.item # NoItem => (d.goes /\ IsMostPressing(d.item))
                    /\ (session.autonomous /\ ~AtALimit(meaningful) /\ Pending(session) # {}) => d.goes
  BY DEF AutonomyIsBounded
<1> DEFINE item == IF Pending(session) = {} THEN NoItem ELSE session.agenda[FirstPending(session)].item
           end == [goes |-> FALSE, item |-> NoItem]
           withAgenda == [goes |-> item # NoItem, item |-> item]
           withExtension == [goes |-> TRUE, item |-> NoItem]
           d == Decision(session, signal, meaningful, extension)
<1>1. /\ item # NoItem <=> Pending(session) # {}
      /\ item # NoItem => IsMostPressing(item)
  BY FirstIsMostPressing
<1>2. d = IF ~session.autonomous \/ Terminates(session, meaningful) THEN end
          ELSE IF \/ signal = "ContinueWithExtension" /\ extension
                  \/ signal = "ContinueWithAgenda" /\ extension /\ item = NoItem
               THEN withExtension ELSE withAgenda
  BY DEF Decision
<1> HIDE DEF item, d
<1>3. /\ end.goes = FALSE /\ end.item = NoItem
      /\ withAgenda.goes = (item # NoItem) /\ withAgenda.item = item
      /\ withExtension.goes = TRUE /\ withExtension.item = NoItem
  OBVIOUS
<1> HIDE DEF end, withAgenda, withExtension
<1>4. /\ AtALimit(meaningful) => Terminates(session, meaningful)
      /\ Terminates(session, meaningful) /\ Pending(session) # {} => AtALimit(meaningful)
  BY LimitsAreTold
<1>5. CASE ~session.autonomous \/ Terminates(session, meaningful)
  BY <1>2, <1>3, <1>4, <1>5, Zenon DEF d
<1>6. CASE session.autonomous /\ ~Terminates(session, meaningful)
  <2>1. d = withExtension \/ d = withAgenda
    BY <1>2, <1>6, Zenon
  <2> QED
    BY <1>1, <1>3, <1>4, <1>6, <2>1, Zenon DEF d
<1> QED
  BY <1>5, <1>6, Zenon

-----------------------------------------------------------------------------
(* Autonomy: the scenario stack                                             *)

StackInv == stack \in Seq(Scenarios) /\ ScenarioIsTop

LEMMA StackInitial == AutonomyInit => StackInv
<1> SUFFICES ASSUME AutonomyInit PROVE StackInv
  OBVIOUS
<1>1. <<>> \in Seq(Scenarios) /\ Len(<<>>) = 0
  OBVIOUS
<1> QED
  BY <1>1, AutonomyAssumption DEF AutonomyInit, StackInv, ScenarioIsTop

\* An event pushes its scenario on a stack with room, takes the top off one that is
\* not empty, or changes nothing.
LEMMA EventKeepsTop ==
    ASSUME StackInv, NEW kind \in DOMAIN PushOf \cup PopEvents, ApplyEvent(kind)
    PROVE  StackInv'
<1>1. stack \in Seq(Scenarios) /\ Len(stack) \in Nat /\ Len(stack) <= MaxDepth
  BY LenProperties DEF StackInv, ScenarioIsTop
<1>2. CASE kind \in DOMAIN PushOf /\ Len(stack) < MaxDepth
  <2>1. stack' = Append(stack, PushOf[kind]) /\ scenario' = PushOf[kind]
    BY <1>2 DEF ApplyEvent
  <2>2. PushOf[kind] \in Scenarios
    BY <1>2 DEF PushOf, Scenarios
  <2>3. /\ stack' \in Seq(Scenarios) /\ Len(stack') = Len(stack) + 1
        /\ stack'[Len(stack) + 1] = PushOf[kind]
    BY <1>1, <2>1, <2>2, AppendProperties
  <2>4. stack' # <<>> /\ Last(stack') = scenario' /\ Len(stack') <= MaxDepth
    BY <1>1, <1>2, <2>1, <2>3, AutonomyAssumption DEF Last
  <2> QED
    BY <2>3, <2>4 DEF StackInv, ScenarioIsTop
<1>3. CASE ~(kind \in DOMAIN PushOf /\ Len(stack) < MaxDepth) /\ kind \in PopEvents /\ stack # <<>>
  <2>1. /\ stack' = SubSeq(stack, 1, Len(stack) - 1)
        /\ scenario' = IF Len(stack) = 1 THEN NoScenario ELSE stack[Len(stack) - 1]
        /\ began' = NoScenario
    BY <1>3 DEF ApplyEvent, Front
  <2>2. Len(stack) # 0
    BY <1>1, <1>3, EmptySeq
  <2> DEFINE k == Len(stack) - 1
  <2>3. /\ stack' \in Seq(Scenarios) /\ Len(stack') = k
        /\ \A n \in 1..k : stack'[n] = stack[n]
    <3>1. k \in Nat /\ k <= Len(stack) /\ 1 \in 1..(Len(stack) + 1) /\ k \in 0..Len(stack)
      BY <1>1, <2>2
    <3>2. stack' = SubSeq(stack, 1, k)
      BY <2>1
    <3> HIDE DEF k
    <3>3. /\ SubSeq(stack, 1, k) \in Seq(Scenarios)
          /\ Len(SubSeq(stack, 1, k)) = IF 1 <= k THEN k - 1 + 1 ELSE 0
          /\ \A i \in 1..(k - 1 + 1) : SubSeq(stack, 1, k)[i] = stack[1 + i - 1]
      BY <1>1, <3>1, SubSeqProperties
    <3> QED
      BY <3>1, <3>2, <3>3
  <2>4. CASE Len(stack) = 1
    <3>1. stack' = <<>> /\ scenario' = NoScenario /\ began' = NoScenario
      BY <2>1, <2>3, <2>4, EmptySeq
    <3>2. stack' \in Seq(Scenarios) /\ Len(stack') <= MaxDepth
      BY <2>3, <2>4, AutonomyAssumption
    <3> QED
      BY <3>1, <3>2 DEF StackInv, ScenarioIsTop
  <2>5. CASE Len(stack) # 1
    <3>1. Len(stack) - 1 \in 1..(Len(stack) - 1) /\ Len(stack') # 0
      BY <1>1, <2>2, <2>3, <2>5
    <3>2. stack' # <<>> /\ Last(stack') = scenario'
      BY <2>1, <2>3, <2>5, <3>1 DEF Last
    <3>3. Len(stack') <= MaxDepth
      BY <1>1, <2>3, AutonomyAssumption
    <3> QED
      BY <2>3, <3>2, <3>3 DEF StackInv, ScenarioIsTop
  <2> QED
    BY <2>4, <2>5
<1>4. CASE /\ ~(kind \in DOMAIN PushOf /\ Len(stack) < MaxDepth)
           /\ ~(kind \in PopEvents /\ stack # <<>>)
  BY <1>4 DEF ApplyEvent, StackInv, ScenarioIsTop
<1> QED
  BY <1>2, <1>3, <1>4

LEMMA StackStep == StackInv /\ [SessionNext \/ ScenarioNext]_autonomyVars => StackInv'
<1> SUFFICES ASSUME StackInv, [SessionNext \/ ScenarioNext]_autonomyVars PROVE StackInv'
  OBVIOUS
<1>1. CASE SessionNext \/ UNCHANGED autonomyVars
  <2>1. stack' = stack /\ scenario' = scenario /\ began' = began
    BY <1>1 DEF SessionNext, AddAgendaItem, MarkItem, EnterAutonomous, ExitAutonomous,
                IdleTimeoutElapses, RecordAcCompletion, autonomyVars
  <2> QED
    BY <2>1 DEF StackInv, ScenarioIsTop
<1>2. CASE ClearStack
  <2>1. stack' = <<>> /\ scenario' = NoScenario /\ began' = NoScenario
        /\ <<>> \in Seq(Scenarios) /\ Len(<<>>) = 0
    BY <1>2 DEF ClearStack
  <2> QED
    BY <2>1, AutonomyAssumption DEF StackInv, ScenarioIsTop
<1>3. CASE \E kind \in DOMAIN PushOf \cup PopEvents : ApplyEvent(kind)
  BY <1>3, EventKeepsTop
<1> QED
  BY <1>1, <1>2, <1>3 DEF ScenarioNext

\* For any agenda, limits and costs, and in any order of the session's methods: the
\* checker goes on only in the mode and short of every limit as the history since
\* the mode was entered tells it, names the pending item that is most pressing and
\* leaves none behind short of a limit (continuation.rs check_continuation); and in
\* any order of events the scenario is the top of the stack, whatever scenario the
\* session was made with (scenario_stack.rs apply_event).
THEOREM AutonomyEnds == AutonomySpec => []SessionsAreBounded
<1>1. SessionInv /\ StackInv => SessionsAreBounded
  BY DecisionsAreBounded DEF SessionsAreBounded, StackInv
<1> QED
  BY <1>1, SessionInitial, SessionStep, StackInitial, StackStep, PTL DEF AutonomySpec

-----------------------------------------------------------------------------
(* IdFactory: numbers in mixed base                                         *)

\* A number is written in one way as a multiple of b and a rest below b.
LEMMA Division ==
    ASSUME NEW a \in Nat, NEW b \in Nat, b > 0, NEW r \in 0..(b - 1)
    PROVE  (a * b + r) \div b = a /\ (a * b + r) % b = r
<1> DEFINE x == a * b + r
           q == x \div b
           p == x % b
<1>1. x \in Nat
  OBVIOUS
<1>2. q \in Int /\ p \in 0..(b - 1) /\ x = q * b + p
  <2> HIDE DEF x
  <2> QED
    BY <1>1
<1> HIDE DEF q, p
<1>3. a * b + r = q * b + p
  BY <1>2
<1>4. ASSUME q < a PROVE FALSE
  <2>1. PICK d \in Nat : a = q + 1 + d
    <3>1. a - q - 1 \in Nat /\ a = q + 1 + (a - q - 1)
      BY <1>2, <1>4
    <3> QED
      BY <3>1
  <2>2. a * b = q * b + b + d * b
    BY <1>2, <2>1
  <2>3. d * b >= 0
    OBVIOUS
  <2>4. a * b \in Int /\ q * b \in Int /\ d * b \in Int
    BY <1>2
  <2> QED
    BY <1>2, <1>3, <2>2, <2>3, <2>4
<1>5. ASSUME a < q PROVE FALSE
  <2>1. PICK d \in Nat : q = a + 1 + d
    <3>1. q - a - 1 \in Nat /\ q = a + 1 + (q - a - 1)
      BY <1>2, <1>5
    <3> QED
      BY <3>1
  <2>2. q * b = a * b + b + d * b
    BY <1>2, <2>1
  <2>3. d * b >= 0
    OBVIOUS
  <2>4. a * b \in Int /\ q * b \in Int /\ d * b \in Int
    BY <1>2
  <2> QED
    BY <1>2, <1>3, <2>2, <2>3, <2>4
<1>6. q = a
  BY <1>2, <1>4, <1>5
<1>7. p = r
  BY <1>2, <1>3, <1>6
<1> QED
  BY <1>6, <1>7 DEF q, p, x

\* An id is a number, and the three it was composed of are read back.
LEMMA ComponentsOfComposed ==
    ASSUME NEW t \in Nat, NEW s \in 0..MaxShard, NEW q \in 0..MaxSequence
    PROVE  /\ Compose(t, s, q) \in Nat
           /\ Components(Compose(t, s, q)) = [sequence |-> q, shard |-> s, timestamp |-> t]
<1> DEFINE a == MaxShard + 1
           b == MaxSequence + 1
           x == t * a + s
           raw == x * b + q
<1>1. a \in Nat /\ a > 0 /\ b \in Nat /\ b > 0 /\ s \in 0..(a - 1) /\ q \in 0..(b - 1)
  BY IdAssumption
<1>2. raw = Compose(t, s, q)
  BY DEF Compose
<1>3. Components(raw) = [sequence |-> raw % b, shard |-> (raw \div b) % a, timestamp |-> raw \div (b * a)]
  BY DEF Components
<1> HIDE DEF a, b
<1>4. x \in Nat /\ x \div a = t /\ x % a = s
  BY <1>1, Division
<1> HIDE DEF x
<1>5. raw \in Nat /\ raw \div b = x /\ raw % b = q
  BY <1>1, <1>4, Division
<1>6. raw \div (b * a) = t
  <2> DEFINE c == b * a
             r == s * b + q
  <2>1. c \in Nat /\ r \in Nat /\ raw = t * c + r
    <3>1. x * b = t * (b * a) + s * b
      BY <1>1 DEF x
    <3>2. c \in Nat /\ s * b \in Nat
      BY <1>1
    <3> QED
      BY <1>1, <3>1, <3>2
  <2>2. r < c /\ c > 0
    <3>1. PICK d \in Nat : a = s + 1 + d
      <4>1. a - s - 1 \in Nat /\ a = s + 1 + (a - s - 1)
        BY <1>1
      <4> QED
        BY <4>1
    <3>2. b * a = s * b + b + d * b
      BY <1>1, <3>1
    <3>3. d * b >= 0 /\ d * b \in Int /\ s * b \in Int /\ s * b >= 0
      BY <1>1
    <3> QED
      BY <1>1, <3>2, <3>3
  <2>3. r \in 0..(c - 1)
    BY <2>1, <2>2
  <2>4. (t * c + r) \div c = t
    <3> HIDE DEF c, r
    <3> QED
      BY <2>1, <2>2, <2>3, Division
  <2> QED
    BY <2>1, <2>4
<1> QED
  BY <1>2, <1>3, <1>4, <1>5, <1>6

\* A later time gives a larger id, and so does a later place in the same time.
LEMMA ComposedGrows ==
    ASSUME NEW t \in Nat, NEW q \in 0..MaxSequence, NEW u \in Nat, NEW p \in 0..MaxSequence,
           NEW s \in 0..MaxShard, t < u \/ (t = u /\ q < p)
    PROVE  Compose(t, s, q) < Compose(u, s, p)
<1> DEFINE a == MaxShard + 1
           b == MaxSequence + 1
           x == t * a + s
           y == u * a + s
<1>1. a \in Nat /\ a > 0 /\ b \in Nat /\ b > 0 /\ q \in 0..(b - 1) /\ p \in 0..(b - 1)
  BY IdAssumption
<1>2. Compose(t, s, q) = x * b + q /\ Compose(u, s, p) = y * b + p
  BY DEF Compose
<1> HIDE DEF a, b
<1>3. CASE t = u
  <2>1. x = y /\ x * b \in Int
    BY <1>1, <1>3
  <2> HIDE DEF x, y
  <2> QED
    BY <1>1, <1>2, <1>3, <2>1
<1>4. CASE t < u
  <2>1. PICK d \in Nat : u = t + 1 + d
    <3>1. u - t - 1 \in Nat /\ u = t + 1 + (u - t - 1)
      BY <1>4
    <3> QED
      BY <3>1
  <2>2. y = x + a + d * a
    BY <1>1, <2>1
  <2>3. d * a \in Nat /\ x \in Nat /\ y \in Nat
    BY <1>1
  <2> HIDE DEF x, y
  <2>4. y >= x + 1
    BY <1>1, <2>2, <2>3
  <2>5. PICK e \in Nat : y = x + 1 + e
    <3>1. y - x - 1 \in Nat /\ y = x + 1 + (y - x - 1)
      BY <2>3, <2>4
    <3> QED
      BY <3>1
  <2>6. y * b = x * b + b + e * b
    BY <1>1, <2>3, <2>5
  <2>7. e * b \in Nat /\ x * b \in Nat
    BY <1>1, <2>3
  <2> QED
    BY <1>1, <1>2, <2>6, <2>7
<1> QED
  BY <1>3, <1>4

-----------------------------------------------------------------------------
(* IdFactory: the text of a number                                          *)

DigitsStep(f, v) == IF v < 36 THEN <<v>> ELSE Append(f[v \div 36], v % 36)

AreDigitsUpTo(f, k) == f = [v \in 0..k |-> DigitsStep(f, v)]

\* The digits of the numbers up to any, as to_base36 divides them, exist.
LEMMA DigitsExist ==
    ASSUME NEW k \in Nat
    PROVE  \E f : AreDigitsUpTo(f, k)
<1> DEFINE Bad == {n \in Nat : ~ \E f : AreDigitsUpTo(f, n)}
<1>1. SUFFICES ASSUME Bad # {} PROVE FALSE
  OBVIOUS
<1>2. PICK n \in Bad : \A m \in Bad : n <= m
  BY <1>1, LeastNatural
<1>3. CASE n = 0
  <2> DEFINE f == [v \in 0..0 |-> <<v>>]
  <2>1. ASSUME NEW v \in 0..0 PROVE f[v] = DigitsStep(f, v)
    BY DEF DigitsStep
  <2> HIDE DEF f
  <2>2. f = [v \in 0..0 |-> DigitsStep(f, v)]
    <3>1. f = [v \in 0..0 |-> f[v]]
      BY DEF f
    <3> QED
      BY <2>1, <3>1
  <2> QED
    BY <1>2, <1>3, <2>2 DEF AreDigitsUpTo
<1>4. CASE n # 0
  <2>1. n - 1 \in Nat /\ n \in Nat
    BY <1>2, <1>4
  <2>2. n - 1 \notin Bad
    BY <1>2, <2>1
  <2>3. PICK f : AreDigitsUpTo(f, n - 1)
    BY <2>1, <2>2
  <2> DEFINE g == [v \in 0..n |-> IF v = n THEN DigitsStep(f, n) ELSE f[v]]
  <2>4. ASSUME NEW v \in 0..n PROVE g[v] = DigitsStep(g, v)
    <3>1. ASSUME v >= 36 PROVE v \div 36 \in 0..(n - 1) /\ g[v \div 36] = f[v \div 36]
      <4>1. v \div 36 \in 0..(n - 1)
        BY <2>1, <3>1
      <4> QED
        BY <2>1, <4>1
    <3>2. DigitsStep(g, v) = DigitsStep(f, v)
      <4>1. CASE v < 36
        BY <4>1 DEF DigitsStep
      <4>2. CASE v >= 36
        BY <3>1, <4>2 DEF DigitsStep
      <4> QED
        BY <2>1, <4>1, <4>2
    <3>3. CASE v = n
      BY <3>2, <3>3
    <3>4. CASE v # n
      <4>1. v \in 0..(n - 1) /\ g[v] = f[v]
        BY <2>1, <3>4
      <4>2. f[v] = DigitsStep(f, v)
        BY <2>3, <4>1 DEF AreDigitsUpTo
      <4> QED
        BY <3>2, <4>1, <4>2
    <3> QED
      BY <3>3, <3>4
  <2> HIDE DEF g
  <2>5. g = [v \in 0..n |-> DigitsStep(g, v)]
    <3>1. g = [v \in 0..n |-> g[v]]
      BY DEF g
    <3> QED
      BY <2>4, <3>1
  <2> QED
    BY <1>2, <2>5 DEF AreDigitsUpTo
<1> QED
  BY <1>3, <1>4

LEMMA Base36Is ==
    ASSUME NEW raw \in Nat
    PROVE  \E f : AreDigitsUpTo(f, raw) /\ Base36(raw) = f[raw]
<1> DEFINE F == CHOOSE f : f = [v \in 0..raw |-> DigitsStep(f, v)]
<1>1. F = [v \in 0..raw |-> DigitsStep(F, v)]
  BY DigitsExist DEF AreDigitsUpTo
<1>2. Base36(raw) = F[raw]
  BY DEF Base36, DigitsStep
<1> QED
  BY <1>1, <1>2 DEF AreDigitsUpTo

ValueStep(d, f, n) == IF n = 0 THEN 0 ELSE f[n - 1] * 36 + d[n]

IsValueUpTo(d, k, f) == f = [n \in 0..k |-> ValueStep(d, f, n)]

\* The values of the first digits, as from_base36 sums them, exist.
LEMMA ValueExists ==
    ASSUME NEW d, NEW k \in Nat
    PROVE  \E f : IsValueUpTo(d, k, f)
<1> DEFINE Bad == {n \in Nat : ~ \E f : IsValueUpTo(d, n, f)}
<1>1. SUFFICES ASSUME Bad # {} PROVE FALSE
  OBVIOUS
<1>2. PICK n \in Bad : \A m \in Bad : n <= m
  BY <1>1, LeastNatural
<1>3. CASE n = 0
  <2> DEFINE f == [m \in 0..0 |-> 0]
  <2>1. IsValueUpTo(d, 0, f)
    BY DEF IsValueUpTo, ValueStep
  <2> QED
    BY <1>2, <1>3, <2>1
<1>4. CASE n # 0
  <2>1. n - 1 \in Nat /\ n \in Nat
    BY <1>2, <1>4
  <2>2. n - 1 \notin Bad
    BY <1>2, <2>1
  <2>3. PICK f : IsValueUpTo(d, n - 1, f)
    BY <2>1, <2>2
  <2> DEFINE g == [m \in 0..n |-> IF m = n THEN ValueStep(d, f, n) ELSE f[m]]
  <2>4. ASSUME NEW m \in 0..n PROVE g[m] = ValueStep(d, g, m)
    <3>1. m # 0 => g[m - 1] = f[m - 1]
      BY <2>1
    <3>2. ValueStep(d, g, m) = ValueStep(d, f, m)
      BY <3>1 DEF ValueStep
    <3>3. CASE m = n
      BY <3>2, <3>3
    <3>4. CASE m # n
      <4>1. m \in 0..(n - 1) /\ g[m] = f[m]
        BY <2>1, <3>4
      <4>2. f[m] = ValueStep(d, f, m)
        BY <2>3, <4>1 DEF IsValueUpTo
      <4> QED
        BY <3>2, <4>1, <4>2
    <3> QED
      BY <3>3, <3>4
  <2> HIDE DEF g
  <2>5. g = [m \in 0..n |-> ValueStep(d, g, m)]
    <3>1. g = [m \in 0..n |-> g[m]]
      BY DEF g
    <3> QED
      BY <2>4, <3>1
  <2> QED
    BY <1>2, <2>5 DEF IsValueUpTo
<1> QED
  BY <1>3, <1>4

LEMMA FromBase36Is ==
    ASSUME NEW d, Len(d) \in Nat
    PROVE  \E f : IsValueUpTo(d, Len(d), f) /\ FromBase36(d) = f[Len(d)]
<1> DEFINE F == CHOOSE f : f = [n \in 0..Len(d) |-> ValueStep(d, f, n)]
<1>1. F = [n \in 0..Len(d) |-> ValueStep(d, F, n)]
  BY ValueExists DEF IsValueUpTo
<1>2. FromBase36(d) = F[Len(d)]
  BY DEF FromBase36, ValueStep
<1> QED
  BY <1>1, <1>2 DEF IsValueUpTo

\* The values of the first digits do not depend on the others.
LEMMA ValuesAgree ==
    ASSUME NEW d, NEW e, NEW k \in Nat, NEW m \in Nat, k <= m,
           \A n \in 1..k : d[n] = e[n],
           NEW f, IsValueUpTo(d, k, f), NEW g, IsValueUpTo(e, m, g)
    PROVE  \A n \in 0..k : f[n] = g[n]
<1> DEFINE Bad == {n \in 0..k : f[n] # g[n]}
<1>1. SUFFICES ASSUME Bad # {} PROVE FALSE
  OBVIOUS
<1>2. PICK n \in Bad : \A b \in Bad : n <= b
  <2>1. Bad \in SUBSET Nat
    OBVIOUS
  <2> HIDE DEF Bad
  <2> QED
    BY <1>1, <2>1, LeastNatural
<1>3. f[n] = ValueStep(d, f, n) /\ g[n] = ValueStep(e, g, n)
  <2>1. n \in 0..k /\ n \in 0..m
    BY <1>2
  <2> QED
    BY <2>1 DEF IsValueUpTo
<1>4. n # 0 => f[n - 1] = g[n - 1]
  <2>1. n # 0 => n - 1 \in 0..k /\ ~(n <= n - 1)
    BY <1>2
  <2> QED
    BY <1>2, <2>1
<1>5. n # 0 => d[n] = e[n]
  BY <1>2
<1>6. f[n] = g[n]
  BY <1>3, <1>4, <1>5 DEF ValueStep
<1> QED
  BY <1>2, <1>6

\* One more digit multiplies by 36 and adds it.
LEMMA FromBase36Append ==
    ASSUME NEW d \in Seq(0..35), NEW r \in 0..35
    PROVE  FromBase36(Append(d, r)) = FromBase36(d) * 36 + r
<1> DEFINE e == Append(d, r)
           k == Len(d)
           m == Len(e)
<1>1. k \in Nat /\ m = k + 1 /\ m \in Nat /\ e[m] = r /\ \A n \in 1..k : d[n] = e[n]
  BY AppendProperties, LenProperties
<1>2. PICK f : IsValueUpTo(d, Len(d), f) /\ FromBase36(d) = f[Len(d)]
  BY <1>1, FromBase36Is
<1>3. PICK g : IsValueUpTo(e, Len(e), g) /\ FromBase36(e) = g[Len(e)]
  BY <1>1, FromBase36Is
<1>4. IsValueUpTo(d, k, f) /\ IsValueUpTo(e, m, g) /\ FromBase36(d) = f[k] /\ FromBase36(e) = g[m]
  BY <1>2, <1>3
<1> HIDE DEF e, k, m
<1>5. \A n \in 0..k : f[n] = g[n]
  BY <1>1, <1>4, ValuesAgree
<1>6. g[m] = ValueStep(e, g, m)
  BY <1>1, <1>4 DEF IsValueUpTo
<1>7. m # 0 /\ m - 1 = k /\ f[k] = g[k]
  BY <1>1, <1>5
<1>8. g[m] = f[k] * 36 + r
  BY <1>1, <1>6, <1>7 DEF ValueStep
<1> QED
  BY <1>4, <1>8 DEF e

\* A number is read back from its text.
LEMMA TextRoundTrip ==
    ASSUME NEW raw \in Nat
    PROVE  FromBase36(Base36(raw)) = raw
<1>1. PICK f : AreDigitsUpTo(f, raw) /\ Base36(raw) = f[raw]
  BY Base36Is
<1> DEFINE Good(v) == f[v] \in Seq(0..35) /\ FromBase36(f[v]) = v
           Bad == {v \in 0..raw : ~Good(v)}
<1>2. ASSUME Bad # {} PROVE FALSE
  <2>1. Bad \in SUBSET Nat
    OBVIOUS
  <2>2. PICK v \in Bad : \A m \in Bad : v <= m
    <3> HIDE DEF Bad
    <3> QED
      BY <1>2, <2>1, LeastNatural
  <2>3. v \in 0..raw /\ f[v] = DigitsStep(f, v)
    BY <1>1, <2>2 DEF AreDigitsUpTo
  <2>4. CASE v < 36
    <3>1. f[v] = <<v>> /\ v \in 0..35
      BY <2>3, <2>4 DEF DigitsStep
    <3>2. <<>> \in Seq(0..35) /\ Len(<<>>) = 0 /\ Append(<<>>, v) = <<v>>
      OBVIOUS
    <3>3. FromBase36(<<>>) = 0
      <4>1. PICK g : IsValueUpTo(<<>>, Len(<<>>), g) /\ FromBase36(<<>>) = g[Len(<<>>)]
        BY <3>2, FromBase36Is
      <4>2. IsValueUpTo(<<>>, 0, g) /\ FromBase36(<<>>) = g[0]
        BY <3>2, <4>1
      <4> QED
        BY <4>2 DEF IsValueUpTo, ValueStep
    <3>4. FromBase36(<<v>>) = v
      <4>1. FromBase36(Append(<<>>, v)) = FromBase36(<<>>) * 36 + v
        BY <3>1, <3>2, FromBase36Append
      <4> QED
        BY <2>3, <3>2, <3>3, <4>1
    <3>5. <<v>> \in Seq(0..35)
      BY <3>1
    <3> QED
      BY <2>2, <3>1, <3>4, <3>5
  <2>5. CASE v >= 36
    <3> DEFINE u == v \div 36
               r == v % 36
    <3>1. u \in 0..raw /\ u < v /\ r \in 0..35 /\ v = u * 36 + r
      BY <2>3, <2>5
    <3>2. f[v] = Append(f[u], r)
      BY <2>3, <2>5 DEF DigitsStep
    <3> HIDE DEF u, r
    <3>3. Good(u)
      <4>1. u \notin Bad
        BY <2>2, <2>3, <3>1
      <4> QED
        BY <3>1, <4>1
    <3>4. f[v] \in Seq(0..35)
      BY <3>1, <3>2, <3>3, AppendProperties
    <3>5. FromBase36(f[v]) = u * 36 + r
      BY <3>1, <3>2, <3>3, FromBase36Append
    <3> QED
      BY <2>2, <3>1, <3>4, <3>5
  <2> QED
    BY <2>3, <2>4, <2>5
<1>3. Bad = {} /\ raw \in 0..raw
  <2> HIDE DEF Bad
  <2> QED
    BY <1>2
<1>4. Good(raw)
  BY <1>3
<1> QED
  BY <1>1, <1>4

-----------------------------------------------------------------------------
(* IdFactory: ids only grow                                                 *)

Factories == [made : BOOLEAN, shard : 0..MaxShard, last : Nat, sequence : 0..MaxSequence]

\* Made of a time and a place in it that the factory has come to.
IsFrom(id, f) ==
    \E t \in Nat, q \in 0..MaxSequence :
        /\ id = Compose(t, f.shard, q)
        /\ t < f.last \/ (t = f.last /\ q <= f.sequence)

\* Every id of the factory, which issues none before it is made, is not above where
\* the factory stands; so what it composes next is above them all.
IdInv ==
    /\ factory \in Factories /\ issued \in Seq(Nat) /\ millis \in Int
    /\ waiting => factory.made
    /\ ~factory.made => issued = <<>> /\ factory.shard = 0 /\ factory.last = 0 /\ factory.sequence = 0
    /\ \A n \in 1..Len(issued) : IsFrom(issued[n], factory)
    /\ \A m, n \in 1..Len(issued) : m < n => issued[m] < issued[n]

LEMMA FactoryIs ==
    ASSUME NEW shard \in 0..MaxShard
    PROVE  LET f == Factory(shard) IN
           /\ NoFactory \in Factories /\ ~NoFactory.made
           /\ f \in Factories /\ f.made /\ f.shard = shard
           /\ \A g \in {NoFactory, f} : g.last = 0 /\ g.sequence = 0
<1>1. PICK no, zero : no = FALSE /\ zero = 0 /\ no \in BOOLEAN /\ zero \in Nat
                      /\ zero \in 0..MaxShard /\ zero \in 0..MaxSequence
  <2>1. 0 \in 0..MaxShard /\ 0 \in 0..MaxSequence
    BY IdAssumption
  <2>2. FALSE \in BOOLEAN /\ 0 \in Nat
    OBVIOUS
  <2> QED
    BY <2>1, <2>2, Zenon
<1>2. NoFactory = [made |-> no, shard |-> zero, last |-> zero, sequence |-> zero]
  BY <1>1 DEF NoFactory
<1>3. NoFactory \in Factories /\ NoFactory.made = no /\ NoFactory.last = zero /\ NoFactory.sequence = zero
  BY <1>1, <1>2 DEF Factories
<1>4. PICK yes : yes = TRUE /\ yes \in BOOLEAN
  OBVIOUS
<1> DEFINE f == [NoFactory EXCEPT !.made = yes, !.shard = shard]
<1>5. /\ f \in Factories /\ f.made = yes /\ f.shard = shard
      /\ f.last = NoFactory.last /\ f.sequence = NoFactory.sequence
  BY <1>3, <1>4 DEF Factories
<1>6. Factory(shard) = f
  BY <1>4 DEF Factory
<1> QED
  BY <1>1, <1>3, <1>4, <1>5, <1>6

LEMMA IdInitial == IdInit => IdInv
<1> SUFFICES ASSUME IdInit PROVE IdInv
  OBVIOUS
<1>1. <<>> \in Seq(Nat) /\ Len(<<>>) = 0 /\ issued = <<>>
  BY DEF IdInit
<1>2. factory = NoFactory /\ millis \in Int /\ ~waiting /\ 0 \in 0..MaxShard
  BY IdAssumption DEF IdInit
<1>3. factory \in Factories /\ factory.shard = 0 /\ factory.last = 0 /\ factory.sequence = 0
  BY <1>2, FactoryIs DEF NoFactory
<1> QED
  BY <1>1, <1>2, <1>3 DEF IdInv

\* A factory that stands further, on the same shard, issues a larger id.
LEMMA IssueKeeps ==
    ASSUME IdInv, NEW f \in Factories, f.made, f.shard = factory.shard \/ issued = <<>>,
           factory.last < f.last \/ (factory.last = f.last /\ factory.sequence < f.sequence),
           Issue(f), millis' \in Int
    PROVE  IdInv'
<1>1. /\ factory \in Factories /\ issued \in Seq(Nat) /\ Len(issued) \in Nat
      /\ factory' = f
  BY LenProperties DEF IdInv, Issue
<1>2. /\ factory.last \in Nat /\ factory.sequence \in 0..MaxSequence /\ factory.shard \in 0..MaxShard
      /\ f.last \in Nat /\ f.sequence \in 0..MaxSequence /\ f.shard \in 0..MaxShard
  BY <1>1 DEF Factories
<1> DEFINE id == Compose(f.last, f.shard, f.sequence)
<1>3. id \in Nat
  BY <1>2, ComponentsOfComposed
<1>4. IsFrom(id, f)
  BY <1>2 DEF IsFrom
<1>5. issued' = Append(issued, id)
  BY DEF Issue
<1> HIDE DEF id
<1>6. /\ issued' \in Seq(Nat) /\ Len(issued') = Len(issued) + 1 /\ issued'[Len(issued) + 1] = id
      /\ \A n \in 1..Len(issued) : issued'[n] = issued[n]
  BY <1>1, <1>3, <1>5, AppendProperties
<1>7. ASSUME NEW n \in 1..Len(issued) PROVE IsFrom(issued[n], f) /\ issued[n] < id
  <2>1. IsFrom(issued[n], factory)
    BY DEF IdInv
  <2>2. issued # <<>>
    <3>1. Len(<<>>) = 0
      OBVIOUS
    <3> QED
      BY <1>1, <3>1
  <2>3. PICK t \in Nat, q \in 0..MaxSequence :
            /\ issued[n] = Compose(t, f.shard, q)
            /\ t < factory.last \/ (t = factory.last /\ q <= factory.sequence)
    BY <2>1, <2>2 DEF IsFrom
  <2>4. t < f.last \/ (t = f.last /\ q < f.sequence)
    BY <1>2, <2>3, IdAssumption
  <2>5. issued[n] < id
    BY <1>2, <2>3, <2>4, ComposedGrows DEF id
  <2>6. t < f.last \/ (t = f.last /\ q <= f.sequence)
    BY <1>2, <2>4, IdAssumption
  <2> QED
    BY <2>3, <2>5, <2>6 DEF IsFrom
<1>8. ASSUME NEW n \in 1..Len(issued') PROVE IsFrom(issued'[n], f)
  <2>1. n \in 1..Len(issued) \/ n = Len(issued) + 1
    BY <1>1, <1>6
  <2> QED
    BY <1>4, <1>6, <1>7, <2>1
<1>9. ASSUME NEW m \in 1..Len(issued'), NEW n \in 1..Len(issued'), m < n
      PROVE  issued'[m] < issued'[n]
  <2>1. m \in 1..Len(issued) /\ (n \in 1..Len(issued) \/ n = Len(issued) + 1)
    <3> DEFINE k == Len(issued)
    <3>1. k \in Nat /\ m \in 1..(k + 1) /\ n \in 1..(k + 1) /\ m < n
      BY <1>1, <1>6, <1>9
    <3> HIDE DEF k
    <3>2. m \in 1..k /\ (n \in 1..k \/ n = k + 1)
      BY <3>1
    <3> QED
      BY <3>2 DEF k
  <2> QED
    BY <1>6, <1>7, <1>9, <2>1 DEF IdInv
<1> QED
  BY <1>1, <1>6, <1>8, <1>9 DEF IdInv

\* The factory in use is the one that is made, or a first one of shard 0.
LEMMA MadeIs ==
    ASSUME IdInv
    PROVE  /\ Made \in Factories /\ Made.made
           /\ Made.shard = factory.shard /\ Made.last = factory.last /\ Made.sequence = factory.sequence
           /\ factory.made => Made = factory
<1>1. 0 \in 0..MaxShard
  BY IdAssumption
<1> QED
  BY <1>1, FactoryIs DEF Made, IdInv

\* A step that only puts a factory where there was none keeps it.
LEMMA MakingKeeps ==
    ASSUME IdInv, NEW f \in Factories, f.made, factory' = f,
           factory.made => f = factory,
           issued' = issued, millis' \in Int
    PROVE  IdInv'
<1>1. issued \in Seq(Nat) /\ (issued = <<>> => Len(issued) = 0)
  BY DEF IdInv
<1>2. CASE factory.made
  BY <1>1, <1>2 DEF IdInv
<1>3. CASE ~factory.made
  BY <1>1, <1>3 DEF IdInv
<1> QED
  BY <1>2, <1>3

LEMMA IdStep == IdInv /\ [IdNext]_idVars => IdInv'
<1> SUFFICES ASSUME IdInv, [IdNext]_idVars PROVE IdInv'
  OBVIOUS
<1>0. /\ factory \in Factories /\ issued \in Seq(Nat) /\ millis \in Int
      /\ factory.last \in Nat /\ factory.sequence \in 0..MaxSequence
  BY DEF IdInv, Factories
<1>1. CASE factory' = factory /\ (waiting' => factory.made) /\ issued' = issued /\ millis' \in Int
  BY <1>1 DEF IdInv
<1>2. CASE ClockMoves
  <2>1. millis' \in Int
    BY <1>2, IdAssumption DEF ClockMoves
  <2> QED
    BY <1>1, <1>2, <2>1 DEF ClockMoves, IdInv
<1>3. CASE NextId
  <2>1. millis \in Nat /\ millis' \in Int /\ millis >= factory.last
    BY <1>0, <1>3, MadeIs DEF NextId, NowIsUsable
  <2>2. Made \in Factories
    BY MadeIs
  <2>3. CASE millis > Made.last
    <3>1. PICK zero : zero = 0 /\ zero \in 0..MaxSequence
      BY IdAssumption
    <3> DEFINE f == [Made EXCEPT !.last = millis, !.sequence = zero]
    <3>2. Issue(f)
      BY <1>3, <2>3, <3>1 DEF NextId
    <3>3. f \in Factories /\ f.made = Made.made /\ f.shard = Made.shard /\ f.last = millis
      BY <2>1, <2>2, <3>1 DEF Factories
    <3> HIDE DEF f
    <3> QED
      BY <1>0, <2>1, <2>3, <3>2, <3>3, MadeIs, IssueKeeps
  <2>4. CASE ~(millis > Made.last) /\ Made.sequence < MaxSequence
    <3>1. PICK more : more = Made.sequence + 1 /\ more \in 0..MaxSequence
      BY <1>0, <2>4, MadeIs, IdAssumption
    <3> DEFINE f == [Made EXCEPT !.sequence = more]
    <3>2. Issue(f)
      BY <1>3, <2>4, <3>1 DEF NextId
    <3>3. /\ f \in Factories /\ f.made = Made.made /\ f.shard = Made.shard /\ f.last = Made.last
          /\ f.sequence = more
      BY <2>2, <3>1 DEF Factories
    <3> HIDE DEF f
    <3>4. factory.sequence < f.sequence
      BY <1>0, <3>1, <3>3, MadeIs
    <3> QED
      BY <1>0, <2>1, <3>2, <3>3, <3>4, MadeIs, IssueKeeps
  <2>5. CASE ~(millis > Made.last) /\ ~(Made.sequence < MaxSequence)
    <3>1. factory' = Made /\ issued' = issued
      BY <1>3, <2>5 DEF NextId
    <3> QED
      BY <2>1, <3>1, MadeIs, MakingKeeps
  <2> QED
    BY <2>3, <2>4, <2>5
<1>4. CASE NextIdFails
  BY <1>0, <1>4, MadeIs, MakingKeeps DEF NextIdFails
<1>5. CASE WaitEnds
  <2>1. CASE NowIsUsable
    <3>1. PICK zero : zero = 0 /\ zero \in 0..MaxSequence
      BY IdAssumption
    <3> DEFINE f == [factory EXCEPT !.last = millis, !.sequence = zero]
    <3>2. Issue(f) /\ millis > factory.last /\ millis' = millis /\ factory.made
      BY <1>5, <2>1, <3>1 DEF WaitEnds, IdInv
    <3>3. millis \in Nat
      BY <2>1 DEF NowIsUsable
    <3>4. f \in Factories /\ f.made = factory.made /\ f.shard = factory.shard /\ f.last = millis
      BY <1>0, <3>1, <3>3 DEF Factories
    <3> HIDE DEF f
    <3> QED
      BY <1>0, <3>2, <3>3, <3>4, IssueKeeps
  <2>2. CASE ~NowIsUsable
    BY <1>0, <1>1, <1>5, <2>2 DEF WaitEnds
  <2> QED
    BY <2>1, <2>2
<1>6. ASSUME NEW s \in Shards, Configure(s) PROVE IdInv'
  <2>1. s \in 0..MaxShard
    BY <1>6, IdAssumption DEF Configure
  <2>2. Factory(s) \in Factories /\ Factory(s).made
    BY <2>1, FactoryIs
  <2> QED
    BY <1>0, <1>6, <2>2, MakingKeeps DEF Configure
<1>7. ASSUME NEW s \in Shards, GenerateInShard(s) PROVE IdInv'
  BY <1>0, <1>1, <1>7 DEF GenerateInShard, IdInv
<1>8. CASE UNCHANGED idVars
  BY <1>0, <1>1, <1>8 DEF idVars, IdInv
<1> QED
  BY <1>2, <1>3, <1>4, <1>5, <1>6, <1>7, <1>8 DEF IdNext

\* However the clock is stepped and a millisecond fills up, the ids of the process's
\* factory only grow, and each is read back, from its number and from its text, as
\* the time, shard and sequence it was made of.
THEOREM IdsNeverRepeat == IdSpec => []IdsGrow
<1>1. IdInv => IdsGrow
  <2> SUFFICES ASSUME IdInv PROVE IdsGrow
    OBVIOUS
  <2>1. issued \in Seq(Nat) /\ factory \in Factories /\ DOMAIN issued = 1..Len(issued)
    BY LenProperties DEF IdInv
  <2>2. ASSUME NEW n \in DOMAIN issued
        PROVE  LET c == Components(issued[n]) IN
               /\ Compose(c.timestamp, c.shard, c.sequence) = issued[n]
               /\ c.shard = factory.shard /\ c.timestamp <= factory.last
               /\ FromBase36(Base36(issued[n])) = issued[n]
    <3>1. IsFrom(issued[n], factory)
      BY <2>1 DEF IdInv
    <3>2. PICK t \in Nat, q \in 0..MaxSequence :
              /\ issued[n] = Compose(t, factory.shard, q)
              /\ t < factory.last \/ (t = factory.last /\ q <= factory.sequence)
      BY <3>1 DEF IsFrom
    <3>3. factory.shard \in 0..MaxShard /\ factory.last \in Nat
      BY <2>1 DEF Factories
    <3>4. /\ Components(issued[n]) = [sequence |-> q, shard |-> factory.shard, timestamp |-> t]
          /\ issued[n] \in Nat
      BY <3>2, <3>3, ComponentsOfComposed
    <3>5. t <= factory.last
      BY <3>2, <3>3
    <3> QED
      BY <3>2, <3>4, <3>5, TextRoundTrip
  <2>3. \A m, n \in DOMAIN issued : m < n => issued[m] < issued[n]
    BY <2>1 DEF IdInv
  <2> QED
    BY <2>2, <2>3 DEF IdsGrow
<1> QED
  BY <1>1, IdInitial, IdStep, PTL DEF IdSpec

-----------------------------------------------------------------------------
(* VersionChain: walks end                                                  *)

\* Every version points to a known one or to none, and no version comes back to
\* itself: in any set there is one that points out of it.
LeadsOut(p) ==
    /\ \A x \in Known : entries[x][p] \in Known \cup {None}
    /\ \A S \in SUBSET Known : S # {} => \E x \in S : entries[x][p] \notin S

\* The ways along a pointer, which meet no version twice.
Ways(p) ==
    {w \in Seq(Known) : /\ w # <<>> /\ IsInjective(w)
                        /\ \A i \in 1..(Len(w) - 1) : entries[w[i]][p] = w[i + 1]}

\* A walk is what its steps make of its beginning, and stays where they stay.
LEMMA WalkIs ==
    ASSUME NEW p, NEW e, NEW V, <<e>> \in V, \A w \in V : Further(w, p) \in V,
           IsFiniteSet(Known)
    PROVE  LET k == Cardinality(Known) IN
           /\ k \in Nat
           /\ \E f \in [0..k -> V] :
                 /\ f[0] = <<e>> /\ \A n \in 1..k : f[n] = Further(f[n - 1], p)
                 /\ Walk(e, p) = f[k]
<1> DEFINE k == Cardinality(Known)
           F == [n \in 1..k |-> [w \in V |-> Further(w, p)]]
<1>1. k \in Nat
  BY FS_CardinalityType
<1>2. Walk(e, p) = LET g == CHOOSE h : h = [n \in 0..k |-> IF n = 0 THEN <<e>> ELSE Further(h[n - 1], p)]
                   IN  g[k]
  BY DEF Walk, k
<1> DEFINE g == CHOOSE h : h = [n \in 0..k |-> IF n = 0 THEN <<e>> ELSE Further(h[n - 1], p)]
<1> HIDE DEF k
<1>3. F \in [1..k -> [V -> V]]
  OBVIOUS
<1>4. PICK f \in [0..k -> V] : Iterates(f, <<e>>, k, F)
  BY <1>1, <1>3, FunctionsByRecursion
<1>5. f[0] = <<e>> /\ \A n \in 1..k : f[n] = Further(f[n - 1], p)
  <2>1. \A n \in 1..k : f[n - 1] \in V
    BY <1>1, <1>4
  <2>2. \A n \in 1..k : F[n][f[n - 1]] = Further(f[n - 1], p)
    BY <2>1
  <2> HIDE DEF F
  <2> QED
    BY <1>4, <2>2 DEF Iterates
<1>6. f = [n \in 0..k |-> IF n = 0 THEN <<e>> ELSE Further(f[n - 1], p)]
  <2>1. f = [n \in 0..k |-> f[n]]
    BY <1>4
  <2>2. \A n \in 0..k : n = 0 \/ n \in 1..k
    BY <1>1
  <2>3. \A n \in 0..k : f[n] = IF n = 0 THEN <<e>> ELSE Further(f[n - 1], p)
    BY <1>5, <2>2
  <2> QED
    BY <2>1, <2>3
<1>7. g = [n \in 0..k |-> IF n = 0 THEN <<e>> ELSE Further(g[n - 1], p)]
  BY <1>6
<1> HIDE DEF g
<1>8. DOMAIN g = 0..k /\ g[0] = <<e>> /\ \A n \in 1..k : g[n] = Further(g[n - 1], p)
  BY <1>1, <1>7
<1>9. \A n \in 0..(k - 1) : g[n] \in V => g[n + 1] \in V
  <2> SUFFICES ASSUME NEW n \in 0..(k - 1), g[n] \in V PROVE g[n + 1] \in V
    OBVIOUS
  <2>1. n + 1 \in 1..k /\ (n + 1) - 1 = n
    BY <1>1
  <2> QED
    BY <1>8, <2>1
<1>10. \A n \in 0..k : g[n] \in V
  <2>1. DOMAIN g = 0..k /\ g[0] \in V
    BY <1>8
  <2> QED
    BY <1>1, <1>9, <2>1, RecursionStays
<1>11. g \in [0..k -> V]
  <2>1. g = [n \in 0..k |-> g[n]]
    BY <1>7
  <2> QED
    BY <1>10, <2>1
<1>12. Walk(e, p) = g[k]
  BY <1>2 DEF g
<1> QED
  BY <1>1, <1>8, <1>11, <1>12 DEF k

\* One step of a walk.
LEMMA FurtherIs ==
    ASSUME NEW p, LeadsOut(p), None \notin Known, NEW w \in Ways(p)
    PROVE  LET l == w[Len(w)] IN
           /\ Len(w) \in Nat \ {0} /\ l \in Known /\ Last(w) = l
           /\ entries[l][p] = None => Further(w, p) = w
           /\ entries[l][p] # None => /\ Further(w, p) = Append(w, entries[l][p])
                                      /\ Further(w, p) \in Ways(p)
                                      /\ Len(Further(w, p)) = Len(w) + 1
<1> DEFINE l == w[Len(w)]
           x == entries[l][p]
<1>1. w \in Seq(Known) /\ w # <<>> /\ IsInjective(w)
      /\ \A i \in 1..(Len(w) - 1) : entries[w[i]][p] = w[i + 1]
  BY DEF Ways
<1>2. Len(w) \in Nat \ {0} /\ DOMAIN w = 1..Len(w)
  BY <1>1, EmptySeq, LenProperties
<1>3. l \in Known /\ Last(w) = l
  <2>1. Len(w) \in 1..Len(w)
    BY <1>2
  <2> QED
    BY <1>1, <2>1, ElementOfSeq DEF Last
<1>4. x \in Known \cup {None}
  BY <1>3 DEF LeadsOut
<1>5. Further(w, p) = IF x = None THEN w ELSE Append(w, x)
  BY <1>3 DEF Further
<1>6. ASSUME x # None PROVE Append(w, x) \in Ways(p) /\ Len(Append(w, x)) = Len(w) + 1
  <2> DEFINE a == Append(w, x)
  <2>1. x \in Known
    BY <1>4, <1>6
  <2>2. /\ a \in Seq(Known) /\ a # <<>> /\ Len(a) = Len(w) + 1
        /\ \A i \in 1..Len(w) : a[i] = w[i]
        /\ a[Len(w) + 1] = x
    BY <1>1, <2>1, AppendProperties
  <2>3. x \notin ToSet(w)
    <3> SUFFICES ASSUME x \in ToSet(w) PROVE FALSE
      OBVIOUS
    <3>1. ToSet(w) \in SUBSET Known /\ l \in ToSet(w)
      BY <1>1, <1>2, SeqElements DEF ToSet
    <3>2. PICK y \in ToSet(w) : entries[y][p] \notin ToSet(w)
      BY <3>1 DEF LeadsOut
    <3>3. PICK i \in 1..Len(w) : y = w[i]
      BY <1>2, <3>2 DEF ToSet
    <3>4. CASE i = Len(w)
      BY <3>2, <3>3, <3>4
    <3>5. CASE i # Len(w)
      <4>0. \A n \in Nat : i \in 1..n /\ i # n => i \in 1..(n - 1) /\ i + 1 \in 1..n
        OBVIOUS
      <4>1. i \in 1..(Len(w) - 1) /\ i + 1 \in 1..Len(w)
        BY <1>2, <3>3, <3>5, <4>0
      <4>2. entries[y][p] = w[i + 1]
        BY <1>1, <3>3, <4>1
      <4> QED
        BY <1>2, <3>2, <4>1, <4>2 DEF ToSet
    <3> QED
      BY <3>4, <3>5
  <2>4. DOMAIN a = 1..(Len(w) + 1)
    BY <2>2, LenProperties
  <2> HIDE DEF a, x
  <2>5. IsInjective(a)
    <3> SUFFICES ASSUME NEW i \in 1..(Len(w) + 1), NEW j \in 1..(Len(w) + 1), a[i] = a[j]
                 PROVE  i = j
      BY <2>4 DEF IsInjective
    <3>1. \A m \in 1..(Len(w) + 1) : m = Len(w) + 1 \/ (m \in 1..Len(w) /\ a[m] \in ToSet(w))
      BY <1>2, <2>2 DEF ToSet
    <3>2. CASE i = Len(w) + 1 \/ j = Len(w) + 1
      BY <2>2, <2>3, <3>1, <3>2
    <3>3. CASE i # Len(w) + 1 /\ j # Len(w) + 1
      <4>1. i \in 1..Len(w) /\ j \in 1..Len(w) /\ w[i] = w[j]
        BY <2>2, <3>1, <3>3
      <4> QED
        BY <1>1, <1>2, <4>1 DEF IsInjective
    <3> QED
      BY <3>2, <3>3
  <2>6. ASSUME NEW i \in 1..(Len(a) - 1) PROVE entries[a[i]][p] = a[i + 1]
    <3>1. i \in 1..Len(w) /\ a[i] = w[i]
      BY <1>2, <2>2
    <3>2. CASE i = Len(w)
      BY <2>2, <3>1, <3>2 DEF x
    <3>3. CASE i # Len(w)
      <4>1. \A n \in Nat : i \in 1..n /\ i # n => i \in 1..(n - 1) /\ i + 1 \in 1..n
        OBVIOUS
      <4>2. i \in 1..(Len(w) - 1) /\ i + 1 \in 1..Len(w)
        BY <1>2, <3>1, <3>3, <4>1
      <4> QED
        BY <1>1, <2>2, <3>1, <4>2
    <3> QED
      BY <3>2, <3>3
  <2> QED
    BY <2>2, <2>5, <2>6 DEF Ways, a
<1> QED
  BY <1>2, <1>3, <1>5, <1>6

\* A walk is a way from where it begins to a version that points nowhere: it has
\* taken as many steps as there are versions, or has come to its end before.
LEMMA WalkEnds ==
    ASSUME NEW p, LeadsOut(p), None \notin Known, IsFiniteSet(Known), NEW e \in Known
    PROVE  /\ Walk(e, p) \in Ways(p)
           /\ Last(Walk(e, p)) \in ToSet(Walk(e, p))
           /\ Last(Walk(e, p)) \in Known
           /\ entries[Last(Walk(e, p))][p] = None
           /\ e \in ToSet(Walk(e, p)) /\ Walk(e, p)[1] = e
<1> DEFINE V == {w \in Ways(p) : w[1] = e}
           k == Cardinality(Known)
<1>1. <<e>> \in V
  <2>1. <<e>> \in Seq(Known) /\ <<e>> # <<>> /\ Len(<<e>>) = 1 /\ <<e>>[1] = e /\ DOMAIN <<e>> = 1..1
    OBVIOUS
  <2>2. IsInjective(<<e>>)
    BY <2>1 DEF IsInjective
  <2>3. 1..(Len(<<e>>) - 1) = {}
    BY <2>1
  <2> QED
    BY <2>1, <2>2, <2>3 DEF Ways
<1>2. ASSUME NEW w \in V PROVE Further(w, p) \in V
  <2>1. w \in Ways(p) /\ w[1] = e /\ w \in Seq(Known)
    BY DEF Ways
  <2> DEFINE x == entries[w[Len(w)]][p]
  <2>2. /\ Len(w) \in Nat \ {0}
        /\ x = None => Further(w, p) = w
        /\ x # None => Further(w, p) = Append(w, x) /\ Further(w, p) \in Ways(p)
    BY <2>1, FurtherIs
  <2> HIDE DEF x
  <2>3. CASE x = None
    BY <2>1, <2>2, <2>3
  <2>4. CASE x # None
    <3>1. Append(w, x)[1] = w[1]
      <4>1. 1 \in 1..Len(w) /\ w[Len(w)] \in Known
        BY <2>1, <2>2, FurtherIs
      <4>2. x \in Known
        BY <2>4, <4>1 DEF LeadsOut, x
      <4> QED
        BY <2>1, <4>1, <4>2, AppendProperties
    <3> QED
      BY <2>1, <2>2, <2>4, <3>1
  <2> QED
    BY <2>3, <2>4
<1> HIDE DEF V, k
<1>3. /\ k \in Nat
      /\ \E f \in [0..k -> V] :
            /\ f[0] = <<e>> /\ \A n \in 1..k : f[n] = Further(f[n - 1], p)
            /\ Walk(e, p) = f[k]
  <2>1. \A w \in V : Further(w, p) \in V
    BY <1>2
  <2> QED
    BY <1>1, <2>1, WalkIs DEF k
<1>4. PICK f \in [0..k -> V] : /\ f[0] = <<e>> /\ \A n \in 1..k : f[n] = Further(f[n - 1], p)
                               /\ Walk(e, p) = f[k]
  BY <1>3
<1>5. \A n \in 0..k : f[n] \in Ways(p) /\ f[n][1] = e
  BY <1>4 DEF V
<1> DEFINE over(w) == entries[w[Len(w)]][p] = None
           T == {n \in 0..k : over(f[n]) \/ Len(f[n]) = n + 1}
<1>6. \A n \in 0..k : n \in T
  <2>1. 0 \in T
    <3>1. Len(f[0]) = 0 + 1 /\ 0 \in 0..k
      BY <1>3, <1>4
    <3> QED
      BY <3>1
  <2>2. ASSUME NEW n \in 0..(k - 1), n \in T PROVE n + 1 \in T
    <3>1. n + 1 \in 1..k /\ n + 1 \in 0..k /\ (n + 1) - 1 = n /\ n \in 0..k /\ n \in Nat
      BY <1>3
    <3>2. f[n + 1] = Further(f[n], p) /\ f[n] \in Ways(p)
      BY <1>4, <1>5, <3>1
    <3> DEFINE w == f[n]
               x == entries[w[Len(w)]][p]
    <3>3. /\ Len(w) \in Nat
          /\ x = None => Further(w, p) = w
          /\ x # None => Len(Further(w, p)) = Len(w) + 1
      BY <3>2, FurtherIs
    <3>4. x = None \/ Len(w) = n + 1
      BY <2>2
    <3> HIDE DEF w
    <3>5. x = None => over(f[n + 1])
      BY <3>2, <3>3 DEF w
    <3>6. x # None => Len(f[n + 1]) = (n + 1) + 1
      BY <3>1, <3>2, <3>3, <3>4 DEF w
    <3> QED
      BY <3>1, <3>5, <3>6
  <2> HIDE DEF T
  <2>3. \A n \in 0..(k - 1) : n \in T => n + 1 \in T
    BY <2>2
  <2> QED
    BY <1>3, <2>1, <2>3, NumbersUpTo
<1> DEFINE w == Walk(e, p)
<1>7. w \in Ways(p) /\ w[1] = e /\ (over(w) \/ Len(w) = k + 1)
  <2>1. k \in 0..k
    BY <1>3
  <2>2. k \in T
    BY <1>6, <2>1
  <2> QED
    BY <1>4, <1>5, <2>1, <2>2
<1> HIDE DEF w, over, T
<1>8. w \in Seq(Known) /\ IsInjective(w)
  BY <1>7 DEF Ways
<1>9. /\ Len(w) \in Nat \ {0} /\ w[Len(w)] \in Known /\ Last(w) = w[Len(w)]
  BY <1>7, FurtherIs
<1>10. Len(w) # k + 1
  <2>1. Cardinality(ToSet(w)) = Len(w) /\ ToSet(w) \in SUBSET Known
    BY <1>8, InjectiveLength, SeqElements
  <2>2. Cardinality(ToSet(w)) <= k
    BY <2>1, FS_Subset DEF k
  <2> QED
    BY <1>3, <2>1, <2>2
<1>11. DOMAIN w = 1..Len(w) /\ 1 \in 1..Len(w) /\ Len(w) \in 1..Len(w)
  BY <1>8, <1>9, LenProperties
<1>12. Last(w) \in ToSet(w) /\ e \in ToSet(w)
  BY <1>7, <1>9, <1>11 DEF ToSet
<1> QED
  BY <1>7, <1>9, <1>10, <1>12 DEF w, over

-----------------------------------------------------------------------------
(* VersionChain: lines                                                      *)

ChainEntries ==
    [supersedes : Entities \cup {None}, supersededBy : Entities \cup {None}, version : Nat,
     chain : Nat, current : BOOLEAN]

\* What stands at place n of a chain.
PlaceIn(chain, c, n) ==
    [supersedes |-> IF n = 1 THEN None ELSE chain[n - 1],
     supersededBy |-> IF n = Len(chain) THEN None ELSE chain[n + 1],
     version |-> n, chain |-> c, current |-> n = Len(chain)]

\* Every version has its place in its chain, and each place of a chain is that of one.
InLines ==
    /\ \A c \in DOMAIN chainIndex : \A n \in DOMAIN chainIndex[c] :
          /\ chainIndex[c][n] \in Known
          /\ entries[chainIndex[c][n]] = PlaceIn(chainIndex[c], c, n)
    /\ \A e \in Known : /\ entries[e].chain \in DOMAIN chainIndex
                         /\ \E n \in DOMAIN chainIndex[entries[e].chain] :
                               chainIndex[entries[e].chain][n] = e

ChainTypes ==
    /\ Known \in SUBSET Entities /\ IsFiniteSet(Known)
    /\ \A e \in Known : entries[e] \in ChainEntries
    /\ entries = [e \in Known |-> entries[e]]
    /\ chainIndex \in Seq(Seq(Entities))
    /\ reused \in BOOLEAN

ChainInv ==
    /\ ChainTypes
    /\ LeadsOut("supersedes") /\ LeadsOut("supersededBy")
    /\ ~reused => InLines

\* Where the two pointers lead.
LEMMA PointersLeadOut ==
    /\ LeadsOut("supersedes") <=>
          /\ \A x \in Known : entries[x].supersedes \in Known \cup {None}
          /\ \A S \in SUBSET Known : S # {} => \E x \in S : entries[x].supersedes \notin S
    /\ LeadsOut("supersededBy") <=>
          /\ \A x \in Known : entries[x].supersededBy \in Known \cup {None}
          /\ \A S \in SUBSET Known : S # {} => \E x \in S : entries[x].supersededBy \notin S
BY DEF LeadsOut

\* A version that is not known yet, or overwritten, by a root.
LEMMA RootIs ==
    ASSUME ChainTypes, NEW e \in Entities, RegisterRoot(e)
    PROVE  /\ Known' = Known \cup {e}
           /\ entries' = [x \in Known' |-> entries'[x]]
           /\ entries'[e] = Entry(None, 1, Len(chainIndex) + 1)
           /\ \A x \in Known \ {e} : entries'[x] = entries[x]
           /\ chainIndex' = Append(chainIndex, <<e>>)
           /\ reused' = (reused \/ e \in Known)
<1>1. entries' = [x \in Known \cup {e} |-> IF x = e THEN Entry(None, 1, Len(chainIndex) + 1)
                                         ELSE entries[x]]
  BY DEF RegisterRoot, With, Known
<1>2. Known' = Known \cup {e}
  BY <1>1 DEF Known
<1> QED
  BY <1>1, <1>2 DEF RegisterRoot

\* What an old version has become.
Superseded(entry, new) ==
    [supersedes |-> entry.supersedes, supersededBy |-> new, version |-> entry.version,
     chain |-> entry.chain, current |-> FALSE]

\* A version that replaces another one.
Replaces(new, old) ==
    /\ old \in Known /\ new # old /\ entries[old].supersededBy = None /\ new \notin Ancestors(old)
    /\ Known' = Known \cup {new}
    /\ entries' = [x \in Known' |-> entries'[x]]
    /\ entries'[new] = Entry(old, entries[old].version + 1, entries[old].chain)
    /\ entries'[old] = Superseded(entries[old], new)
    /\ \A x \in Known \ {new, old} : entries'[x] = entries[x]
    /\ chainIndex' = [chainIndex EXCEPT ![entries[old].chain] = Append(@, new)]
    /\ reused' = (reused \/ new \in Known)

\* What create_new_version does, or refuses.
LEMMA CreateIs ==
    ASSUME ChainTypes, LeadsOut("supersedes"), NEW new \in Entities, NEW old \in Entities,
           CreateVersion(new, old)
    PROVE  UNCHANGED <<entries, chainIndex, reused>> \/ Replaces(new, old)
<1>1. old \in Known
  BY DEF CreateVersion
<1>2. CASE entries[old].supersededBy # None \/ WouldCreateCycle(new, old)
  BY <1>2 DEF CreateVersion
<1>3. CASE entries[old].supersededBy = None /\ ~WouldCreateCycle(new, old)
  <2> DEFINE entry == Entry(old, entries[old].version + 1, entries[old].chain)
             older == [entries EXCEPT ![old].supersededBy = new, ![old].current = FALSE]
  <2>1. entries' = With(older, new, entry) /\ UNCHANGED conflicts
        /\ chainIndex' = [chainIndex EXCEPT ![entries[old].chain] = Append(@, new)]
        /\ reused' = (reused \/ new \in Known)
    BY <1>3 DEF CreateVersion
  <2>2. new \notin Ancestors(old) /\ new # old
    <3>1. old \in Ancestors(old)
      <4>1. None \notin Known
        BY VersionAssumption DEF ChainTypes
      <4> QED
        BY <1>1, <4>1, WalkEnds DEF ChainTypes, Ancestors
    <3> QED
      BY <1>3, <3>1 DEF WouldCreateCycle
  <2>3. /\ DOMAIN older = Known
        /\ older[old] = Superseded(entries[old], new)
        /\ \A x \in Known \ {old} : older[x] = entries[x]
    <3>1. entries[old] \in ChainEntries
      BY <1>1 DEF ChainTypes
    <3>2. PICK a, b \in Entities \cup {None}, c, d \in Nat, g \in BOOLEAN :
             entries[old] = [supersedes |-> a, supersededBy |-> b, version |-> c,
                             chain |-> d, current |-> g]
      BY <3>1 DEF ChainEntries
    <3> DEFINE first == [entries EXCEPT ![old].supersededBy = new]
    <3>3. first[old] = [supersedes |-> a, supersededBy |-> new, version |-> c,
                        chain |-> d, current |-> g]
          /\ DOMAIN first = Known /\ \A x \in Known \ {old} : first[x] = entries[x]
      BY <1>1, <3>2 DEF Known
    <3>4. older = [first EXCEPT ![old] = [first[old] EXCEPT !.current = FALSE]]
      OBVIOUS
    <3> HIDE DEF first
    <3>7. [first[old] EXCEPT !.current = FALSE]
            = [supersedes |-> a, supersededBy |-> new, version |-> c, chain |-> d, current |-> FALSE]
      <4> DEFINE no == FALSE
      <4>1. [first[old] EXCEPT !.current = no]
              = [supersedes |-> a, supersededBy |-> new, version |-> c, chain |-> d, current |-> no]
        <5> HIDE DEF no
        <5> QED
          BY <3>3
      <4> QED
        BY <4>1
    <3>5. older[old] = [supersedes |-> a, supersededBy |-> new, version |-> c,
                        chain |-> d, current |-> FALSE]
          /\ DOMAIN older = Known /\ \A x \in Known \ {old} : older[x] = first[x]
      BY <1>1, <3>3, <3>4, <3>7
    <3> HIDE DEF older
    <3>6. Superseded(entries[old], new) = [supersedes |-> a, supersededBy |-> new, version |-> c,
                                          chain |-> d, current |-> FALSE]
      BY <3>2 DEF Superseded
    <3> QED
      BY <3>3, <3>5, <3>6
  <2> HIDE DEF older, entry
  <2>4. entries' = [x \in Known \cup {new} |-> IF x = new THEN entry ELSE older[x]]
    BY <2>1, <2>3 DEF With
  <2>5. Known' = Known \cup {new}
    BY <2>4 DEF Known
  <2>6. entries'[new] = entry /\ \A x \in Known \ {new} : entries'[x] = older[x]
    BY <2>4
  <2>7. entries' = [x \in Known' |-> entries'[x]]
    BY <2>4, <2>5
  <2> QED
    BY <1>1, <1>3, <2>1, <2>2, <2>3, <2>5, <2>6, <2>7 DEF Replaces, entry
<1> QED
  BY <1>2, <1>3

\* No step makes a ring of pointers.
LEMMA RootLeadsOut ==
    ASSUME ChainTypes, LeadsOut("supersedes"), LeadsOut("supersededBy"),
           NEW e \in Entities, RegisterRoot(e)
    PROVE  LeadsOut("supersedes")' /\ LeadsOut("supersededBy")'
<1>1. /\ Known' = Known \cup {e}
      /\ entries'[e] = Entry(None, 1, Len(chainIndex) + 1)
      /\ \A x \in Known \ {e} : entries'[x] = entries[x]
  BY RootIs
<1>2. entries'[e].supersedes = None /\ entries'[e].supersededBy = None
  BY <1>1 DEF Entry
<1>3. None \notin Known'
  BY <1>1, VersionAssumption DEF ChainTypes
<1>4. /\ \A x \in Known' : entries'[x].supersedes \in Known' \cup {None}
      /\ \A S \in SUBSET Known' : S # {} => \E x \in S : entries'[x].supersedes \notin S
  <2>1. ASSUME NEW x \in Known' PROVE entries'[x].supersedes \in Known' \cup {None}
    <3>1. CASE x = e
      BY <1>2, <3>1
    <3>2. CASE x # e
      BY <1>1, <3>2, PointersLeadOut
    <3> QED
      BY <3>1, <3>2
  <2>2. ASSUME NEW S \in SUBSET Known', S # {} PROVE \E x \in S : entries'[x].supersedes \notin S
    <3>1. CASE e \in S
      BY <1>2, <1>3, <3>1
    <3>2. CASE e \notin S
      <4>1. S \in SUBSET Known
        BY <1>1, <3>2
      <4>2. PICK x \in S : entries[x].supersedes \notin S
        BY <2>2, <4>1, PointersLeadOut
      <4> QED
        BY <1>1, <3>2, <4>1, <4>2
    <3> QED
      BY <3>1, <3>2
  <2> QED
    BY <2>1, <2>2
<1>5. /\ \A x \in Known' : entries'[x].supersededBy \in Known' \cup {None}
      /\ \A S \in SUBSET Known' : S # {} => \E x \in S : entries'[x].supersededBy \notin S
  <2>1. ASSUME NEW x \in Known' PROVE entries'[x].supersededBy \in Known' \cup {None}
    <3>1. CASE x = e
      BY <1>2, <3>1
    <3>2. CASE x # e
      BY <1>1, <3>2, PointersLeadOut
    <3> QED
      BY <3>1, <3>2
  <2>2. ASSUME NEW S \in SUBSET Known', S # {} PROVE \E x \in S : entries'[x].supersededBy \notin S
    <3>1. CASE e \in S
      BY <1>2, <1>3, <3>1
    <3>2. CASE e \notin S
      <4>1. S \in SUBSET Known
        BY <1>1, <3>2
      <4>2. PICK x \in S : entries[x].supersededBy \notin S
        BY <2>2, <4>1, PointersLeadOut
      <4> QED
        BY <1>1, <3>2, <4>1, <4>2
    <3> QED
      BY <3>1, <3>2
  <2> QED
    BY <2>1, <2>2
<1> QED
  BY <1>4, <1>5 DEF LeadsOut

\* A version that replaces another is not among those that one goes back to, so a
\* set with it has one that points out of it: among those, or it itself.
LEMMA CreateLeadsOut ==
    ASSUME ChainTypes, LeadsOut("supersedes"), LeadsOut("supersededBy"),
           NEW new \in Entities, NEW old \in Entities, Replaces(new, old)
    PROVE  LeadsOut("supersedes")' /\ LeadsOut("supersededBy")'
<1>1. /\ old \in Known /\ new # old /\ new \notin Ancestors(old)
      /\ Known' = Known \cup {new}
      /\ entries'[new].supersedes = old /\ entries'[new].supersededBy = None
      /\ entries'[old].supersedes = entries[old].supersedes
      /\ entries'[old].supersededBy = new
      /\ \A x \in Known \ {new, old} : entries'[x] = entries[x]
  BY DEF Replaces, Entry, Superseded
<1>2. None \notin Known /\ None \notin Known'
  BY <1>1, VersionAssumption DEF ChainTypes
<1>3. \A x \in Known \ {new} : entries'[x].supersedes = entries[x].supersedes
  BY <1>1
<1>4. /\ \A x \in Known' : entries'[x].supersedes \in Known' \cup {None}
      /\ \A S \in SUBSET Known' : S # {} => \E x \in S : entries'[x].supersedes \notin S
  <2>1. ASSUME NEW x \in Known' PROVE entries'[x].supersedes \in Known' \cup {None}
    <3>1. CASE x = new
      BY <1>1, <3>1
    <3>2. CASE x # new
      BY <1>1, <1>3, <3>2, PointersLeadOut
    <3> QED
      BY <3>1, <3>2
  <2>2. ASSUME NEW S \in SUBSET Known', S # {} PROVE \E x \in S : entries'[x].supersedes \notin S
    <3>1. CASE new \notin S
      <4>1. S \in SUBSET Known
        BY <1>1, <3>1
      <4>2. PICK x \in S : entries[x].supersedes \notin S
        BY <2>2, <4>1, PointersLeadOut
      <4> QED
        BY <1>3, <3>1, <4>1, <4>2
    <3>2. CASE new \in S /\ old \notin S
      BY <1>1, <3>2
    <3>3. CASE new \in S /\ old \in S
      <4> DEFINE w == Walk(old, "supersedes")
                 T == S \cap ToSet(w)
      <4>1. /\ w \in Ways("supersedes") /\ Last(w) \in Known
            /\ entries[Last(w)]["supersedes"] = None
            /\ old \in ToSet(w) /\ new \notin ToSet(w)
        <5>1. IsFiniteSet(Known)
          BY DEF ChainTypes
        <5> QED
          BY <1>1, <1>2, <5>1, WalkEnds DEF Ancestors
      <4> HIDE DEF w
      <4>2. w \in Seq(Known) /\ \A i \in 1..(Len(w) - 1) : entries[w[i]]["supersedes"] = w[i + 1]
        BY <4>1 DEF Ways
      <4>3. ToSet(w) \in SUBSET Known /\ DOMAIN w = 1..Len(w) /\ Len(w) \in Nat /\ Last(w) = w[Len(w)]
        BY <4>2, SeqElements, LenProperties DEF Last
      <4>4. T \in SUBSET Known /\ T # {} /\ new \notin T
        BY <3>3, <4>1, <4>3
      <4>5. PICK x \in T : entries[x].supersedes \notin T
        BY <4>4, PointersLeadOut
      <4>6. PICK i \in 1..Len(w) : x = w[i]
        BY <4>3, <4>5 DEF ToSet
      <4>7. entries[x].supersedes \notin S
        <5>1. CASE i = Len(w)
          <6>1. entries[x].supersedes = None
            BY <4>1, <4>3, <4>6, <5>1
          <6> QED
            BY <1>2, <6>1
        <5>2. CASE i # Len(w)
          <6>1. \A n \in Nat : i \in 1..n /\ i # n => i \in 1..(n - 1) /\ i + 1 \in 1..n
            OBVIOUS
          <6>2. i \in 1..(Len(w) - 1) /\ i + 1 \in 1..Len(w)
            BY <4>3, <4>6, <5>2, <6>1
          <6>3. entries[x].supersedes = w[i + 1] /\ w[i + 1] \in ToSet(w)
            BY <4>2, <4>3, <4>6, <6>2 DEF ToSet
          <6> QED
            BY <4>5, <6>3
        <5> QED
          BY <5>1, <5>2
      <4> QED
        BY <1>3, <4>4, <4>5, <4>7
    <3> QED
      BY <3>1, <3>2, <3>3
  <2> QED
    BY <2>1, <2>2
<1>5. /\ \A x \in Known' : entries'[x].supersededBy \in Known' \cup {None}
      /\ \A S \in SUBSET Known' : S # {} => \E x \in S : entries'[x].supersededBy \notin S
  <2>1. ASSUME NEW x \in Known' PROVE entries'[x].supersededBy \in Known' \cup {None}
    <3>1. CASE x = new \/ x = old
      BY <1>1, <3>1
    <3>2. CASE x # new /\ x # old
      BY <1>1, <3>2, PointersLeadOut
    <3> QED
      BY <3>1, <3>2
  <2>2. ASSUME NEW S \in SUBSET Known', S # {} PROVE \E x \in S : entries'[x].supersededBy \notin S
    <3>1. CASE new \in S
      BY <1>1, <1>2, <3>1
    <3>2. CASE new \notin S
      <4>1. S \in SUBSET Known
        BY <1>1, <3>2
      <4>2. PICK x \in S : entries[x].supersededBy \notin S
        BY <2>2, <4>1, PointersLeadOut
      <4>3. CASE x = old
        BY <1>1, <3>2, <4>3
      <4>4. CASE x # old
        BY <1>1, <3>2, <4>1, <4>2, <4>4
      <4> QED
        BY <4>3, <4>4
    <3> QED
      BY <3>1, <3>2
  <2> QED
    BY <2>1, <2>2
<1> QED
  BY <1>4, <1>5 DEF LeadsOut

\* A new entry and one that is superseded are entries.
LEMMA EntriesAre ==
    /\ \A a \in Entities \cup {None}, v, c \in Nat : Entry(a, v, c) \in ChainEntries
    /\ \A x \in ChainEntries, new \in Entities : Superseded(x, new) \in ChainEntries
<1> DEFINE yes == TRUE
           no == FALSE
<1>1. yes \in BOOLEAN /\ no \in BOOLEAN
  OBVIOUS
<1>2. ASSUME NEW a \in Entities \cup {None}, NEW v \in Nat, NEW c \in Nat
      PROVE  Entry(a, v, c) \in ChainEntries
  <2>1. Entry(a, v, c) = [supersedes |-> a, supersededBy |-> None, version |-> v,
                          chain |-> c, current |-> yes]
    BY DEF Entry
  <2> HIDE DEF yes
  <2> QED
    BY <1>1, <2>1 DEF ChainEntries
<1>3. ASSUME NEW x \in ChainEntries, NEW new \in Entities
      PROVE  Superseded(x, new) \in ChainEntries
  <2>1. Superseded(x, new) = [supersedes |-> x.supersedes, supersededBy |-> new,
                              version |-> x.version, chain |-> x.chain, current |-> no]
    BY DEF Superseded
  <2> HIDE DEF no
  <2> QED
    BY <1>1, <2>1 DEF ChainEntries
<1> QED
  BY <1>2, <1>3

\* What a place tells.
LEMMA PlaceTells ==
    ASSUME NEW chain, NEW c, NEW n
    PROVE  /\ PlaceIn(chain, c, n).supersedes = IF n = 1 THEN None ELSE chain[n - 1]
           /\ PlaceIn(chain, c, n).supersededBy = IF n = Len(chain) THEN None ELSE chain[n + 1]
           /\ PlaceIn(chain, c, n).version = n
           /\ PlaceIn(chain, c, n).chain = c
           /\ PlaceIn(chain, c, n).current = (n = Len(chain))
BY DEF PlaceIn

\* Types, of a root.
LEMMA RootTypes ==
    ASSUME ChainTypes, NEW e \in Entities, RegisterRoot(e)
    PROVE  ChainTypes'
<1>1. /\ Known' = Known \cup {e}
      /\ entries' = [x \in Known' |-> entries'[x]]
      /\ entries'[e] = Entry(None, 1, Len(chainIndex) + 1)
      /\ \A x \in Known \ {e} : entries'[x] = entries[x]
      /\ chainIndex' = Append(chainIndex, <<e>>)
      /\ reused' = (reused \/ e \in Known)
  BY RootIs
<1>2. Known' \in SUBSET Entities /\ IsFiniteSet(Known')
  BY <1>1, FS_AddElement DEF ChainTypes
<1>3. chainIndex' \in Seq(Seq(Entities)) /\ Len(chainIndex) \in Nat
  <2>1. <<e>> \in Seq(Entities) /\ chainIndex \in Seq(Seq(Entities))
    BY DEF ChainTypes
  <2> QED
    BY <1>1, <2>1, AppendProperties, LenProperties
<1>4. ASSUME NEW x \in Known' PROVE entries'[x] \in ChainEntries
  <2>1. CASE x = e
    <3>1. Len(chainIndex) + 1 \in Nat
      BY <1>3
    <3> QED
      <4>1. Entry(None, 1, Len(chainIndex) + 1) \in ChainEntries
        BY <3>1, EntriesAre
      <4> QED
        BY <1>1, <2>1, <4>1
  <2>2. CASE x # e
    BY <1>1, <2>2 DEF ChainTypes
  <2> QED
    BY <2>1, <2>2
<1>5. reused' \in BOOLEAN
  BY <1>1 DEF ChainTypes
<1> QED
  BY <1>1, <1>2, <1>3, <1>4, <1>5 DEF ChainTypes

\* Types, of a replacement.
LEMMA CreateTypes ==
    ASSUME ChainTypes, NEW new \in Entities, NEW old \in Entities, Replaces(new, old)
    PROVE  ChainTypes'
<1>1. /\ old \in Known
      /\ Known' = Known \cup {new}
      /\ entries' = [x \in Known' |-> entries'[x]]
      /\ entries'[new] = Entry(old, entries[old].version + 1, entries[old].chain)
      /\ entries'[old] = Superseded(entries[old], new)
      /\ \A x \in Known \ {new, old} : entries'[x] = entries[x]
      /\ chainIndex' = [chainIndex EXCEPT ![entries[old].chain] = Append(@, new)]
      /\ reused' = (reused \/ new \in Known)
  BY DEF Replaces
<1>2. Known' \in SUBSET Entities /\ IsFiniteSet(Known')
  BY <1>1, FS_AddElement DEF ChainTypes
<1>3. /\ entries[old].supersedes \in Entities \cup {None} /\ entries[old].version \in Nat
      /\ entries[old].chain \in Nat
  BY <1>1 DEF ChainTypes, ChainEntries
<1>4. chainIndex' \in Seq(Seq(Entities))
  <2>1. chainIndex \in Seq(Seq(Entities)) /\ DOMAIN chainIndex = 1..Len(chainIndex)
    BY LenProperties DEF ChainTypes
  <2>2. CASE entries[old].chain \in DOMAIN chainIndex
    <3> DEFINE c == entries[old].chain
    <3>1. chainIndex[c] \in Seq(Entities)
      BY <2>1, <2>2, ElementOfSeq
    <3>2. Append(chainIndex[c], new) \in Seq(Entities)
      BY <3>1, AppendProperties
    <3>3. chainIndex' = [chainIndex EXCEPT ![c] = Append(chainIndex[c], new)]
      BY <1>1
    <3> QED
      BY <2>1, <2>2, <3>2, <3>3, ExceptSeq
  <2>3. CASE entries[old].chain \notin DOMAIN chainIndex
    <3>1. chainIndex' = chainIndex
      <4>1. chainIndex = [c \in DOMAIN chainIndex |-> chainIndex[c]]
        BY <2>1
      <4> QED
        BY <1>1, <2>3, <4>1
    <3> QED
      BY <2>1, <3>1
  <2> QED
    BY <2>2, <2>3
<1>5. ASSUME NEW x \in Known' PROVE entries'[x] \in ChainEntries
  <2>1. CASE x = new
    <3>1. old \in Entities /\ entries[old].version + 1 \in Nat
      BY <1>3
    <3> QED
      BY <1>1, <1>3, <2>1, <3>1, EntriesAre
  <2>2. CASE x = old /\ x # new
    <3>1. entries[old] \in ChainEntries
      BY <1>1 DEF ChainTypes
    <3> QED
      BY <1>1, <2>2, <3>1, EntriesAre
  <2>3. CASE x # old /\ x # new
    BY <1>1, <2>3 DEF ChainTypes
  <2> QED
    BY <2>1, <2>2, <2>3
<1>6. reused' \in BOOLEAN
  BY <1>1 DEF ChainTypes
<1> QED
  BY <1>1, <1>2, <1>4, <1>5, <1>6 DEF ChainTypes

\* A root is a line of its own.
LEMMA RootInLines ==
    ASSUME ChainTypes, InLines, NEW e \in Entities, e \notin Known, RegisterRoot(e)
    PROVE  InLines'
<1> DEFINE k == Len(chainIndex)
<1>1. /\ Known' = Known \cup {e}
      /\ entries'[e] = Entry(None, 1, k + 1)
      /\ \A x \in Known : entries'[x] = entries[x]
      /\ chainIndex' = Append(chainIndex, <<e>>)
  BY RootIs
<1>2. /\ k \in Nat /\ DOMAIN chainIndex = 1..k
      /\ \A c \in 1..k : chainIndex'[c] = chainIndex[c]
      /\ chainIndex'[k + 1] = <<e>>
      /\ DOMAIN chainIndex' = 1..(k + 1)
  <2>1. <<e>> \in Seq(Entities) /\ chainIndex \in Seq(Seq(Entities))
    BY DEF ChainTypes
  <2>2. Append(chainIndex, <<e>>) \in Seq(Seq(Entities)) /\ Len(Append(chainIndex, <<e>>)) = k + 1
    BY <2>1, AppendProperties
  <2> QED
    BY <1>1, <2>1, <2>2, AppendProperties, LenProperties
<1> HIDE DEF k
<1>3. ASSUME NEW c \in DOMAIN chainIndex', NEW n \in DOMAIN chainIndex'[c]
      PROVE  /\ chainIndex'[c][n] \in Known'
             /\ entries'[chainIndex'[c][n]] = PlaceIn(chainIndex'[c], c, n)
  <2>1. CASE c = k + 1
    <3>1. chainIndex'[c] = <<e>> /\ n = 1
      BY <1>2, <2>1
    <3>2. PlaceIn(<<e>>, k + 1, 1) = [supersedes |-> None, supersededBy |-> None, version |-> 1,
                                      chain |-> k + 1, current |-> TRUE]
      BY DEF PlaceIn
    <3>3. <<e>>[1] = e
      OBVIOUS
    <3> QED
      BY <1>1, <2>1, <3>1, <3>2, <3>3 DEF Entry
  <2>2. CASE c # k + 1
    <3>1. c \in DOMAIN chainIndex /\ chainIndex'[c] = chainIndex[c]
      BY <1>2, <2>2
    <3> QED
      BY <1>1, <3>1 DEF InLines
  <2> QED
    BY <2>1, <2>2
<1>4. ASSUME NEW x \in Known'
      PROVE  /\ entries'[x].chain \in DOMAIN chainIndex'
             /\ \E n \in DOMAIN chainIndex'[entries'[x].chain] : chainIndex'[entries'[x].chain][n] = x
  <2>1. CASE x = e
    <3>1. entries'[x].chain = k + 1 /\ k + 1 \in DOMAIN chainIndex'
      BY <1>1, <1>2, <2>1 DEF Entry
    <3>2. 1 \in DOMAIN <<e>> /\ <<e>>[1] = e
      OBVIOUS
    <3> QED
      BY <1>2, <2>1, <3>1, <3>2
  <2>2. CASE x # e
    <3>1. x \in Known /\ entries'[x] = entries[x]
      BY <1>1, <2>2
    <3>2. entries[x].chain \in DOMAIN chainIndex
          /\ \E n \in DOMAIN chainIndex[entries[x].chain] : chainIndex[entries[x].chain][n] = x
      BY <3>1 DEF InLines
    <3>3. entries[x].chain \in DOMAIN chainIndex' /\ chainIndex'[entries[x].chain] = chainIndex[entries[x].chain]
      BY <1>2, <3>2
    <3> QED
      BY <3>1, <3>2, <3>3
  <2> QED
    BY <2>1, <2>2
<1> QED
  BY <1>3, <1>4 DEF InLines

\* A replacement makes its line longer: what is not replaced is the end of a line.
LEMMA CreateInLines ==
    ASSUME ChainTypes, InLines, NEW new \in Entities, NEW old \in Entities, new \notin Known,
           Replaces(new, old)
    PROVE  InLines'
<1> DEFINE c0 == entries[old].chain
           chain == chainIndex[c0]
           k == Len(chain)
<1>1. /\ old \in Known /\ new # old /\ entries[old].supersededBy = None
      /\ Known' = Known \cup {new}
      /\ entries'[new] = Entry(old, entries[old].version + 1, c0)
      /\ entries'[old] = Superseded(entries[old], new)
      /\ \A x \in Known \ {old} : entries'[x] = entries[x]
      /\ chainIndex' = [chainIndex EXCEPT ![c0] = Append(chain, new)]
  BY DEF Replaces
<1>2. c0 \in DOMAIN chainIndex /\ \E n \in DOMAIN chain : chain[n] = old
  BY <1>1 DEF InLines
<1>3. /\ chain \in Seq(Entities) /\ k \in Nat /\ DOMAIN chain = 1..k
      /\ DOMAIN chainIndex' = DOMAIN chainIndex
      /\ chainIndex'[c0] = Append(chain, new)
      /\ \A c \in DOMAIN chainIndex \ {c0} : chainIndex'[c] = chainIndex[c]
  <2>1. chainIndex \in Seq(Seq(Entities)) /\ DOMAIN chainIndex = 1..Len(chainIndex)
    BY LenProperties DEF ChainTypes
  <2>2. chain \in Seq(Entities)
    BY <1>2, <2>1, ElementOfSeq
  <2> HIDE DEF chain
  <2> QED
    BY <1>1, <1>2, <2>1, <2>2, LenProperties
<1>4. \A n \in DOMAIN chain : chain[n] \in Known /\ entries[chain[n]] = PlaceIn(chain, c0, n)
  BY <1>2 DEF InLines
<1>5. PICK at \in DOMAIN chain : chain[at] = old
  BY <1>2
<1>6. None \notin Known
  BY VersionAssumption DEF ChainTypes
<1> HIDE DEF chain, k
<1>7. at = k
  <2> SUFFICES ASSUME at # k PROVE FALSE
    OBVIOUS
  <2>1. at + 1 \in DOMAIN chain
    BY <1>3, <1>5
  <2>2. entries[old].supersededBy = chain[at + 1]
    <3>1. PlaceIn(chain, c0, at).supersededBy = chain[at + 1]
      BY PlaceTells DEF k
    <3>2. entries[old] = PlaceIn(chain, c0, at)
      BY <1>4, <1>5
    <3> QED
      BY <3>1, <3>2, Zenon
  <2> QED
    BY <1>1, <1>4, <1>6, <2>1, <2>2
<1>8. k \in DOMAIN chain /\ chain[k] = old /\ entries[old] = PlaceIn(chain, c0, k) /\ entries[old].version = k
  <2>1. k \in DOMAIN chain /\ chain[k] = old /\ entries[old] = PlaceIn(chain, c0, k)
    BY <1>4, <1>5, <1>7
  <2>2. PlaceIn(chain, c0, k).version = k
    BY PlaceTells
  <2> QED
    BY <2>1, <2>2, Zenon
<1>9. \A n \in DOMAIN chain : chain[n] = old => n = k
  <2>1. \A n \in DOMAIN chain : PlaceIn(chain, c0, n).version = n
    BY PlaceTells
  <2> QED
    BY <1>4, <1>8, <2>1
<1> DEFINE longer == Append(chain, new)
<1>10. /\ Len(longer) = k + 1 /\ DOMAIN longer = 1..(k + 1)
       /\ \A n \in 1..k : longer[n] = chain[n]
       /\ longer[k + 1] = new
  <2>1. longer \in Seq(Entities)
    BY <1>3, AppendProperties
  <2> QED
    BY <1>3, <2>1, AppendProperties, LenProperties DEF k
<1> HIDE DEF longer, c0
<1>11. ASSUME NEW n \in DOMAIN longer
       PROVE  longer[n] \in Known' /\ entries'[longer[n]] = PlaceIn(longer, c0, n)
  <2>0. k \in Nat \ {0} /\ n \in 1..(k + 1)
    BY <1>3, <1>8, <1>10
  <2>1. CASE n = k + 1
    <3>1. PlaceIn(longer, c0, n) = [supersedes |-> old, supersededBy |-> None, version |-> k + 1,
                                    chain |-> c0, current |-> TRUE]
      <4>1. n # 1 /\ n - 1 \in 1..k /\ n - 1 = k /\ longer[n - 1] = old /\ n = Len(longer)
        BY <1>8, <1>10, <2>0, <2>1
      <4> QED
        BY <2>1, <4>1 DEF PlaceIn
    <3> QED
      BY <1>1, <1>8, <1>10, <2>1, <3>1 DEF Entry
  <2>2. CASE n = k
    <3>1. /\ longer[n] = old /\ n # Len(longer) /\ longer[n + 1] = new
          /\ n # 1 => longer[n - 1] = chain[n - 1]
      BY <1>8, <1>10, <2>0, <2>2
    <3>2. entries[old].supersedes = IF n = 1 THEN None ELSE chain[n - 1]
      BY <1>8, <2>2 DEF PlaceIn
    <3>3. Superseded(entries[old], new) = PlaceIn(longer, c0, n)
      <4>1. entries[old].version = n /\ entries[old].chain = c0
        BY <1>8, <2>2 DEF c0
      <4>2. Superseded(entries[old], new) =
              [supersedes |-> IF n = 1 THEN None ELSE chain[n - 1], supersededBy |-> new,
               version |-> n, chain |-> c0, current |-> FALSE]
        BY <3>2, <4>1, Zenon DEF Superseded
      <4>3. (n = Len(longer)) = FALSE
        BY <3>1
      <4>4. PlaceIn(longer, c0, n) =
              [supersedes |-> IF n = 1 THEN None ELSE longer[n - 1], supersededBy |-> new,
               version |-> n, chain |-> c0, current |-> FALSE]
        <5>1. (IF n = Len(longer) THEN None ELSE longer[n + 1]) = new
          BY <3>1
        <5> QED
          BY <4>3, <5>1, Zenon DEF PlaceIn
      <4>5. (IF n = 1 THEN None ELSE longer[n - 1]) = (IF n = 1 THEN None ELSE chain[n - 1])
        BY <3>1
      <4> QED
        BY <4>2, <4>4, <4>5, Zenon
    <3> QED
      BY <1>1, <3>1, <3>3
  <2>3. CASE n \in 1..(k - 1)
    <3>1. n \in DOMAIN chain /\ longer[n] = chain[n] /\ chain[n] # old
      BY <1>3, <1>9, <1>10, <2>0, <2>3
    <3>2. /\ longer[n + 1] = chain[n + 1] /\ (n # 1 => longer[n - 1] = chain[n - 1])
          /\ n # k /\ n # Len(longer)
      BY <1>10, <2>0, <2>3
    <3>3. PlaceIn(longer, c0, n) = PlaceIn(chain, c0, n)
      BY <3>2 DEF PlaceIn, k
    <3> QED
      BY <1>1, <1>4, <3>1, <3>3
  <2>4. n = k + 1 \/ n = k \/ n \in 1..(k - 1)
    BY <2>0
  <2> QED
    BY <2>1, <2>2, <2>3, <2>4
<1>12. ASSUME NEW c \in DOMAIN chainIndex', NEW n \in DOMAIN chainIndex'[c]
       PROVE  /\ chainIndex'[c][n] \in Known'
              /\ entries'[chainIndex'[c][n]] = PlaceIn(chainIndex'[c], c, n)
  <2>1. CASE c = c0
    BY <1>3, <1>11, <2>1 DEF longer
  <2>2. CASE c # c0
    <3>1. c \in DOMAIN chainIndex /\ chainIndex'[c] = chainIndex[c]
      BY <1>3, <2>2
    <3>2. chainIndex[c][n] \in Known /\ entries[chainIndex[c][n]] = PlaceIn(chainIndex[c], c, n)
      BY <3>1 DEF InLines
    <3>3. entries[chainIndex[c][n]].chain = c
      BY <3>2 DEF PlaceIn
    <3>4. chainIndex[c][n] # old
      BY <2>2, <3>3 DEF c0
    <3> QED
      BY <1>1, <3>1, <3>2, <3>4
  <2> QED
    BY <2>1, <2>2
<1>13. ASSUME NEW x \in Known'
       PROVE  /\ entries'[x].chain \in DOMAIN chainIndex'
              /\ \E n \in DOMAIN chainIndex'[entries'[x].chain] : chainIndex'[entries'[x].chain][n] = x
  <2>1. CASE x = new
    <3>1. entries'[x].chain = c0
      BY <1>1, <2>1 DEF Entry
    <3>2. k + 1 \in DOMAIN longer /\ longer[k + 1] = new
      BY <1>3, <1>10
    <3> QED
      BY <1>2, <1>3, <2>1, <3>1, <3>2 DEF longer
  <2>2. CASE x # new
    <3>1. x \in Known /\ entries'[x].chain = entries[x].chain
      BY <1>1, <2>2 DEF Superseded
    <3>2. PICK n \in DOMAIN chainIndex[entries[x].chain] : chainIndex[entries[x].chain][n] = x
      BY <3>1 DEF InLines
    <3>3. entries[x].chain \in DOMAIN chainIndex
      BY <3>1 DEF InLines
    <3>4. CASE entries[x].chain = c0
      <4>1. n \in 1..k /\ chain[n] = x
        BY <1>3, <3>2, <3>4 DEF chain
      <4>2. n \in DOMAIN longer /\ longer[n] = x
        BY <1>3, <1>10, <4>1
      <4> QED
        BY <1>3, <3>1, <3>3, <3>4, <4>2 DEF longer
    <3>5. CASE entries[x].chain # c0
      BY <1>3, <3>1, <3>2, <3>3, <3>5
    <3> QED
      BY <3>4, <3>5
  <2> QED
    BY <2>1, <2>2
<1> QED
  BY <1>12, <1>13 DEF InLines

\* The invariant is inductive.
LEMMA ChainInvHolds == ChainSpec => []ChainInv
<1>1. ChainInit => ChainInv
  <2> SUFFICES ASSUME ChainInit PROVE ChainInv
    OBVIOUS
  <2>1. entries = [e \in {} |-> 0] /\ chainIndex = <<>> /\ reused = FALSE /\ Known = {}
    BY DEF ChainInit, Known
  <2>2. IsFiniteSet({})
    BY FS_EmptySet
  <2>3. ChainTypes
    <3>1. <<>> \in Seq(Seq(Entities)) /\ entries = [e \in Known |-> entries[e]]
      BY <2>1
    <3> QED
      BY <2>1, <2>2, <3>1 DEF ChainTypes
  <2>4. LeadsOut("supersedes") /\ LeadsOut("supersededBy")
    BY <2>1 DEF LeadsOut
  <2>5. InLines
    <3>1. DOMAIN chainIndex = {}
      BY <2>1
    <3> QED
      BY <2>1, <3>1 DEF InLines
  <2> QED
    BY <2>3, <2>4, <2>5 DEF ChainInv
<1>2. ChainInv /\ [ChainNext]_chainVars => ChainInv'
  <2> SUFFICES ASSUME ChainInv, [ChainNext]_chainVars PROVE ChainInv'
    OBVIOUS
  <2>1. ChainTypes /\ LeadsOut("supersedes") /\ LeadsOut("supersededBy") /\ (~reused => InLines)
        /\ reused \in BOOLEAN
    BY DEF ChainInv, ChainTypes
  <2>2. CASE UNCHANGED <<entries, chainIndex, reused>>
    <3>1. Known' = Known /\ entries' = entries /\ chainIndex' = chainIndex /\ reused' = reused
      BY <2>2 DEF Known
    <3>2. ChainTypes'
      BY <2>1, <3>1 DEF ChainTypes
    <3>3. LeadsOut("supersedes")' /\ LeadsOut("supersededBy")'
      BY <2>1, <3>1 DEF LeadsOut
    <3>4. InLines => InLines'
      BY <3>1 DEF InLines
    <3> QED
      BY <2>1, <3>1, <3>2, <3>3, <3>4 DEF ChainInv
  <2>3. ASSUME NEW e \in Entities, RegisterRoot(e) PROVE ChainInv'
    <3>1. reused' = (reused \/ e \in Known)
      BY <2>1, <2>3, RootIs
    <3>2. ~reused' => InLines'
      BY <2>1, <2>3, <3>1, RootInLines
    <3> QED
      BY <2>1, <2>3, <3>2, RootTypes, RootLeadsOut DEF ChainInv
  <2>4. ASSUME NEW new \in Entities, NEW old \in Entities, CreateVersion(new, old) PROVE ChainInv'
    <3>1. CASE Replaces(new, old)
      <4>1. reused' = (reused \/ new \in Known)
        BY <3>1 DEF Replaces
      <4>2. ~reused' => InLines'
        BY <2>1, <3>1, <4>1, CreateInLines
      <4> QED
        BY <2>1, <3>1, <4>2, CreateTypes, CreateLeadsOut DEF ChainInv
    <3> QED
      BY <2>1, <2>2, <2>4, <3>1, CreateIs
  <2>5. CASE DetectConflicts \/ ClearConflicts
    BY <2>2, <2>5 DEF DetectConflicts, ClearConflicts
  <2>6. CASE UNCHANGED chainVars
    BY <2>2, <2>6 DEF chainVars
  <2> QED
    BY <2>3, <2>4, <2>5, <2>6 DEF ChainNext
<1> QED
  BY <1>1, <1>2, PTL DEF ChainSpec

-----------------------------------------------------------------------------
(* VersionChain: queries                                                    *)

\* A walk from a version of a line stays in the line.
LEMMA WalkInLine ==
    ASSUME ChainTypes, InLines, NEW p \in {"supersedes", "supersededBy"}, LeadsOut(p),
           NEW c \in DOMAIN chainIndex, NEW e \in ToSet(chainIndex[c])
    PROVE  \E n \in DOMAIN chainIndex[c] :
              /\ Last(Walk(e, p)) = chainIndex[c][n]
              /\ entries[chainIndex[c][n]][p] = None
<1> DEFINE chain == chainIndex[c]
           w == Walk(e, p)
<1>1. /\ \A n \in DOMAIN chain : chain[n] \in Known /\ entries[chain[n]] = PlaceIn(chain, c, n)
      /\ chain \in Seq(Entities) /\ Len(chain) \in Nat /\ DOMAIN chain = 1..Len(chain)
  <2>1. chainIndex \in Seq(Seq(Entities)) /\ c \in 1..Len(chainIndex)
    BY LenProperties DEF ChainTypes
  <2>2. chain \in Seq(Entities)
    BY <2>1, ElementOfSeq
  <2>3. \A n \in DOMAIN chain : chain[n] \in Known /\ entries[chain[n]] = PlaceIn(chain, c, n)
    BY DEF InLines
  <2> HIDE DEF chain
  <2> QED
    BY <2>2, <2>3, LenProperties
<1>2. None \notin Known /\ e \in Known
  BY <1>1, VersionAssumption DEF ChainTypes, ToSet
<1>3. /\ w \in Ways(p) /\ Last(w) \in Known /\ entries[Last(w)][p] = None /\ w[1] = e
  BY <1>2, WalkEnds DEF ChainTypes
<1> HIDE DEF w, chain
<1>4. /\ w \in Seq(Known) /\ w # <<>> /\ \A i \in 1..(Len(w) - 1) : entries[w[i]][p] = w[i + 1]
  BY <1>3 DEF Ways
<1>5. Len(w) \in Nat \ {0} /\ Last(w) = w[Len(w)]
  BY <1>4, EmptySeq DEF Last
<1>6. ASSUME NEW n \in DOMAIN chain, entries[chain[n]][p] \in Known
      PROVE  entries[chain[n]][p] \in ToSet(chain)
  <2>1. entries[chain[n]] = PlaceIn(chain, c, n) /\ n \in 1..Len(chain)
    BY <1>1
  <2>2. CASE p = "supersedes"
    <3>1. entries[chain[n]][p] = IF n = 1 THEN None ELSE chain[n - 1]
      BY <2>1, <2>2, PlaceTells
    <3>2. n # 1 /\ entries[chain[n]][p] = chain[n - 1]
      BY <1>2, <1>6, <3>1
    <3>3. n - 1 \in DOMAIN chain
      BY <1>1, <2>1, <3>2
    <3> QED
      BY <3>2, <3>3 DEF ToSet
  <2>3. CASE p = "supersededBy"
    <3>1. entries[chain[n]][p] = IF n = Len(chain) THEN None ELSE chain[n + 1]
      BY <2>1, <2>3, PlaceTells
    <3>2. n # Len(chain) /\ entries[chain[n]][p] = chain[n + 1]
      BY <1>2, <1>6, <3>1
    <3>3. n + 1 \in DOMAIN chain
      BY <1>1, <2>1, <3>2
    <3> QED
      BY <3>2, <3>3 DEF ToSet
  <2> QED
    BY <2>2, <2>3
<1> DEFINE k == Len(w) - 1
           T == {i \in 0..k : w[i + 1] \in ToSet(chain)}
<1>7. \A i \in 0..k : i \in T
  <2>1. k \in Nat /\ 0 \in T
    BY <1>3, <1>5 DEF chain
  <2>2. ASSUME NEW i \in 0..(k - 1), i \in T PROVE i + 1 \in T
    <3>1. i + 1 \in 0..k /\ i + 1 \in 1..(Len(w) - 1) /\ (i + 1) + 1 \in 1..Len(w)
      BY <1>5
    <3>2. entries[w[i + 1]][p] = w[(i + 1) + 1] /\ w[(i + 1) + 1] \in Known
      BY <1>4, <3>1, ElementOfSeq
    <3>3. PICK n \in DOMAIN chain : w[i + 1] = chain[n]
      BY <2>2 DEF ToSet
    <3> QED
      BY <1>6, <3>1, <3>2, <3>3
  <2> HIDE DEF T, k
  <2>3. \A i \in 0..(k - 1) : i \in T => i + 1 \in T
    BY <2>2
  <2> QED
    BY <2>1, <2>3, NumbersUpTo
<1>8. Last(w) \in ToSet(chain)
  <2>1. k \in 0..k /\ k + 1 = Len(w)
    BY <1>5
  <2>2. k \in T
    BY <1>7, <2>1
  <2> QED
    BY <1>5, <2>1, <2>2
<1> QED
  BY <1>3, <1>8 DEF ToSet, chain, w

\* The queries answer with the line.
LEMMA LineIsTold ==
    ASSUME ChainInv, ~reused, NEW e \in Known
    PROVE  LET chain == chainIndex[entries[e].chain] IN
           /\ chain \in Seq(Entities) /\ Len(chain) \in Nat \ {0}
           /\ \A n \in 1..Len(chain) : /\ chain[n] \in Known
                                       /\ entries[chain[n]] = PlaceIn(chain, entries[e].chain, n)
           /\ RootOf(e) = chain[1] /\ CurrentOf(e) = chain[Len(chain)]
           /\ HistoryOf(e) = chain
<1> DEFINE c == entries[e].chain
           chain == chainIndex[c]
           k == Len(chain)
<1>0. ChainTypes /\ InLines /\ LeadsOut("supersedes") /\ LeadsOut("supersededBy")
  BY DEF ChainInv
<1>1. c \in DOMAIN chainIndex /\ e \in ToSet(chain)
  BY <1>0 DEF InLines, ToSet
<1>2. /\ chain \in Seq(Entities) /\ k \in Nat /\ DOMAIN chain = 1..k
      /\ \A n \in 1..k : chain[n] \in Known /\ entries[chain[n]] = PlaceIn(chain, c, n)
  <2>1. chainIndex \in Seq(Seq(Entities)) /\ c \in 1..Len(chainIndex)
    BY <1>0, <1>1, LenProperties DEF ChainTypes
  <2>2. chain \in Seq(Entities)
    BY <2>1, ElementOfSeq
  <2>3. \A n \in DOMAIN chain : chain[n] \in Known /\ entries[chain[n]] = PlaceIn(chain, c, n)
    BY <1>0, <1>1 DEF InLines
  <2> HIDE DEF chain
  <2> QED
    BY <2>2, <2>3, LenProperties
<1>3. None \notin Known
  BY <1>0, VersionAssumption DEF ChainTypes
<1>4. \E n \in DOMAIN chain : /\ RootOf(e) = chain[n] /\ entries[chain[n]]["supersedes"] = None
  BY <1>0, <1>1, WalkInLine DEF RootOf
<1>5. \E n \in DOMAIN chain : /\ CurrentOf(e) = chain[n] /\ entries[chain[n]]["supersededBy"] = None
  BY <1>0, <1>1, WalkInLine DEF CurrentOf
<1> HIDE DEF chain, c
<1>6. \A n \in 1..k : /\ entries[chain[n]]["supersedes"] = IF n = 1 THEN None ELSE chain[n - 1]
                      /\ entries[chain[n]]["supersededBy"] = IF n = k THEN None ELSE chain[n + 1]
  <2> SUFFICES ASSUME NEW n \in 1..k
               PROVE  /\ entries[chain[n]].supersedes = IF n = 1 THEN None ELSE chain[n - 1]
                      /\ entries[chain[n]].supersededBy = IF n = k THEN None ELSE chain[n + 1]
    OBVIOUS
  <2>1. entries[chain[n]] = PlaceIn(chain, c, n)
    BY <1>2
  <2>2. /\ PlaceIn(chain, c, n).supersedes = IF n = 1 THEN None ELSE chain[n - 1]
        /\ PlaceIn(chain, c, n).supersededBy = IF n = k THEN None ELSE chain[n + 1]
    BY PlaceTells
  <2> QED
    BY <2>1, <2>2, Zenon
<1>7. RootOf(e) = chain[1] /\ k # 0
  <2>1. PICK n \in 1..k : RootOf(e) = chain[n] /\ entries[chain[n]]["supersedes"] = None
    BY <1>2, <1>4
  <2>2. n = 1
    <3> SUFFICES ASSUME n # 1 PROVE FALSE
      OBVIOUS
    <3>1. n - 1 \in 1..k
      BY <1>2, <2>1
    <3>2. chain[n - 1] = None
      BY <1>6, <2>1
    <3> QED
      BY <1>2, <1>3, <3>1, <3>2
  <2> QED
    BY <1>2, <2>1, <2>2
<1>8. CurrentOf(e) = chain[k]
  <2>1. PICK n \in 1..k : CurrentOf(e) = chain[n] /\ entries[chain[n]]["supersededBy"] = None
    BY <1>2, <1>5
  <2>2. n = k
    <3> SUFFICES ASSUME n # k PROVE FALSE
      OBVIOUS
    <3>1. n + 1 \in 1..k
      <4> HIDE DEF k
      <4> QED
        BY <1>2, <2>1
    <3>2. chain[n + 1] = None
      BY <1>6, <2>1
    <3> QED
      BY <1>2, <1>3, <3>1, <3>2
  <2> QED
    BY <2>1, <2>2
<1>9. HistoryOf(e) = chain
  <2> DEFINE w == Walk(chain[1], "supersededBy")
  <2>1. HistoryOf(e) = w
    BY <1>7 DEF HistoryOf
  <2>2. chain[1] \in Known
    BY <1>2, <1>7
  <2>3. w \in Ways("supersededBy") /\ entries[Last(w)]["supersededBy"] = None /\ w[1] = chain[1]
    <3> DEFINE r == chain[1]
    <3>1. r \in Known
      BY <2>2
    <3>2. IsFiniteSet(Known) /\ LeadsOut("supersededBy") /\ None \notin Known
      BY <1>0, <1>3 DEF ChainTypes
    <3> HIDE DEF r
    <3>3. /\ Walk(r, "supersededBy") \in Ways("supersededBy")
          /\ entries[Last(Walk(r, "supersededBy"))]["supersededBy"] = None
          /\ Walk(r, "supersededBy")[1] = r
      BY <3>1, <3>2, WalkEnds
    <3> QED
      BY <3>3 DEF r
  <2> HIDE DEF w
  <2>4. /\ w \in Seq(Known) /\ w # <<>>
        /\ \A i \in 1..(Len(w) - 1) : entries[w[i]]["supersededBy"] = w[i + 1]
    BY <2>3 DEF Ways
  <2>5. Len(w) \in Nat \ {0} /\ Last(w) = w[Len(w)]
    BY <2>4, EmptySeq DEF Last
  <2> DEFINE l == Len(w) - 1
             T == {i \in 0..l : i + 1 \in 1..k /\ w[i + 1] = chain[i + 1]}
  <2>6. \A i \in 0..l : i \in T
    <3>1. l \in Nat /\ 0 \in T
      BY <1>2, <1>7, <2>3, <2>5
    <3>2. ASSUME NEW i \in 0..(l - 1), i \in T PROVE i + 1 \in T
      <4>1. i + 1 \in 0..l /\ i + 1 \in 1..(Len(w) - 1) /\ (i + 1) + 1 \in 1..Len(w)
        BY <2>5
      <4>2. entries[w[i + 1]]["supersededBy"] = w[(i + 1) + 1] /\ w[(i + 1) + 1] \in Known
        BY <2>4, <4>1, ElementOfSeq
      <4>3. i + 1 \in 1..k /\ w[i + 1] = chain[i + 1]
        BY <3>2
      <4>4. i + 1 # k /\ w[(i + 1) + 1] = chain[(i + 1) + 1]
        BY <1>3, <1>6, <4>2, <4>3
      <4>5. (i + 1) + 1 \in 1..k
        <5>1. \A m \in Nat : \A j \in 1..m : j # m => j + 1 \in 1..m
          OBVIOUS
        <5>2. k \in Nat /\ i + 1 \in 1..k /\ i + 1 # k
          BY <1>2, <4>3, <4>4
        <5> HIDE DEF k
        <5> QED
          BY <5>1, <5>2
      <4> QED
        BY <4>1, <4>4, <4>5
    <3> HIDE DEF T, l
    <3>3. \A i \in 0..(l - 1) : i \in T => i + 1 \in T
      BY <3>2
    <3> QED
      BY <3>1, <3>3, NumbersUpTo
  <2>7. \A i \in 1..Len(w) : i \in 1..k /\ w[i] = chain[i]
    <3> SUFFICES ASSUME NEW i \in 1..Len(w) PROVE i \in 1..k /\ w[i] = chain[i]
      OBVIOUS
    <3>1. i - 1 \in 0..l /\ (i - 1) + 1 = i
      BY <2>5
    <3>2. i - 1 \in T
      BY <2>6, <3>1
    <3> QED
      BY <3>1, <3>2
  <2>8. Len(w) = k
    <3>1. Len(w) \in 1..Len(w)
      BY <2>5
    <3>2. Len(w) \in 1..k /\ entries[chain[Len(w)]]["supersededBy"] = None
      BY <2>3, <2>5, <2>7, <3>1
    <3> SUFFICES ASSUME Len(w) # k PROVE FALSE
      OBVIOUS
    <3>3. Len(w) + 1 \in 1..k
      BY <1>2, <3>2
    <3>4. chain[Len(w) + 1] = None
      BY <1>6, <3>2
    <3> QED
      BY <1>2, <1>3, <3>3, <3>4
  <2>9. w = chain
    <3>1. w \in Seq(Entities)
      BY <1>0, <2>4, SeqMonotonic DEF ChainTypes
    <3> QED
      BY <1>2, <2>7, <2>8, <3>1, SeqEqual
  <2> QED
    BY <2>1, <2>9
<1> QED
  BY <1>2, <1>7, <1>8, <1>9 DEF chain, c

\* Sorting a line by its versions leaves it as it is.
LEMMA LineIsSorted ==
    ASSUME ChainInv, ~reused, NEW e \in Known
    PROVE  VersionIds(e) = chainIndex[entries[e].chain]
<1> DEFINE c == entries[e].chain
           chain == chainIndex[c]
           k == Len(chain)
           g == CHOOSE h : h = [n \in 0..k |-> IF n = 0 THEN <<>> ELSE ByVersion(h[n - 1], chain[n])]
<1>1. VersionIds(e) = g[k]
  BY DEF VersionIds
<1>2. /\ chain \in Seq(Entities) /\ k \in Nat \ {0} /\ DOMAIN chain = 1..k
      /\ \A n \in 1..k : chain[n] \in Known /\ entries[chain[n]] = PlaceIn(chain, c, n)
  <2>1. /\ chain \in Seq(Entities) /\ k \in Nat \ {0}
        /\ \A n \in 1..k : chain[n] \in Known /\ entries[chain[n]] = PlaceIn(chain, c, n)
    BY LineIsTold
  <2> HIDE DEF chain
  <2> QED
    BY <2>1, LenProperties
<1> HIDE DEF chain, k, c
<1>3. \A n \in 1..k : entries[chain[n]].version = n
  <2>1. \A n \in 1..k : PlaceIn(chain, c, n).version = n
    BY PlaceTells
  <2> QED
    BY <1>2, <2>1
<1> DEFINE f == [n \in 0..k |-> SubSeq(chain, 1, n)]
<1>4. ASSUME NEW n \in 1..k PROVE ByVersion(f[n - 1], chain[n]) = f[n]
  <2> DEFINE s == SubSeq(chain, 1, n - 1)
             x == chain[n]
             A == {m \in DOMAIN s : entries[s[m]].version <= entries[x].version}
  <2>1. n - 1 \in 0..k /\ n \in 0..k /\ n \in Nat /\ n - 1 \in Nat /\ n \in 1..k
    BY <1>2
  <2>2. f[n - 1] = s /\ f[n] = SubSeq(chain, 1, n) /\ x \in Entities
    BY <1>2, <2>1, ElementOfSeq DEF k
  <2>3. s \in Seq(Entities) /\ Len(s) = n - 1 /\ \A m \in 1..(n - 1) : s[m] = chain[m]
    <3>1. \A m \in 1..(n - 1) : chain[m] \in Entities
      BY <1>2, <2>1, ElementOfSeq DEF k
    <3> QED
      BY <2>1, <3>1, SubSeqProperties
  <2> HIDE DEF s, f
  <2>4. DOMAIN s = 1..(n - 1)
    BY <2>3, LenProperties
  <2>5. A = 1..(n - 1)
    <3> SUFFICES ASSUME NEW m \in 1..(n - 1) PROVE entries[s[m]].version <= entries[x].version
      BY <2>4
    <3>1. m \in 1..k /\ m <= n
      BY <1>2, <2>1
    <3> QED
      BY <1>3, <2>1, <2>3, <3>1
  <2>6. Cardinality(A) = n - 1
    <3>1. Cardinality(1..(n - 1)) = IF 1 > n - 1 THEN 0 ELSE (n - 1) - 1 + 1
      BY <2>1, FS_Interval
    <3>2. Cardinality(1..(n - 1)) = n - 1
      BY <2>1, <3>1
    <3> QED
      BY <2>5, <3>2
  <2>7. ByVersion(s, x) = InsertAt(s, n, x)
    <3>1. 1 + Cardinality(A) = n
      BY <2>1, <2>6
    <3> QED
      BY <3>1 DEF ByVersion
  <2>8. InsertAt(s, n, x) = Append(s, x)
    <3>1. InsertAt(s, n, x) = SubSeq(s, 1, n - 1) \o <<x>> \o SubSeq(s, n, Len(s))
      BY DEF InsertAt
    <3>2. SubSeq(s, 1, n - 1) = s
      BY <2>3, SubSeqFull
    <3>3. SubSeq(s, n, Len(s)) = <<>>
      BY <2>1, <2>3, SubSeqEmpty
    <3>4. Append(s, x) \in Seq(Entities) /\ Append(s, x) = s \o <<x>>
      BY <2>2, <2>3, AppendProperties, AppendIsConcat
    <3>5. Append(s, x) \o <<>> = Append(s, x)
      BY <3>4, ConcatEmptySeq
    <3> QED
      BY <3>1, <3>2, <3>3, <3>4, <3>5
  <2>9. Append(s, x) = SubSeq(chain, 1, n)
    <3> DEFINE a == Append(s, x)
               b == SubSeq(chain, 1, n)
    <3>1. a \in Seq(Entities) /\ Len(a) = n /\ (\A m \in 1..(n - 1) : a[m] = s[m]) /\ a[n] = x
      BY <2>1, <2>2, <2>3, AppendProperties
    <3>2. b \in Seq(Entities) /\ Len(b) = n /\ \A m \in 1..n : b[m] = chain[m]
      <4>1. \A m \in 1..n : chain[m] \in Entities
        BY <1>2, <2>1, ElementOfSeq DEF k
      <4> QED
        BY <2>1, <4>1, SubSeqProperties
    <3> HIDE DEF a, b
    <3>3. \A m \in 1..n : a[m] = b[m]
      <4>1. \A m \in 1..n : m = n \/ m \in 1..(n - 1)
        BY <2>1
      <4> QED
        BY <2>3, <3>1, <3>2, <4>1
    <3>4. a = b
      BY <3>1, <3>2, <3>3, SeqEqual
    <3> QED
      BY <3>4 DEF a, b
  <2> QED
    BY <2>2, <2>7, <2>8, <2>9
<1>5. f = [n \in 0..k |-> IF n = 0 THEN <<>> ELSE ByVersion(f[n - 1], chain[n])]
  <2>1. f[0] = <<>>
    <3>1. SubSeq(chain, 1, 0) = <<>> /\ 0 \in 0..k
      BY <1>2, SubSeqEmpty
    <3> QED
      BY <3>1
  <2>2. \A n \in 0..k : n = 0 \/ n \in 1..k
    BY <1>2
  <2>3. f = [n \in 0..k |-> f[n]]
    OBVIOUS
  <2> HIDE DEF f
  <2>4. \A n \in 0..k : f[n] = IF n = 0 THEN <<>> ELSE ByVersion(f[n - 1], chain[n])
    BY <1>4, <2>1, <2>2
  <2> QED
    BY <2>3, <2>4
<1>6. g = [n \in 0..k |-> IF n = 0 THEN <<>> ELSE ByVersion(g[n - 1], chain[n])]
  <2> HIDE DEF f
  <2> QED
    BY <1>5
<1> HIDE DEF g
<1>7. g[0] = <<>> /\ f[0] = <<>> /\ \A n \in 1..k : g[n] = ByVersion(g[n - 1], chain[n])
  <2>1. 0 \in 0..k /\ \A n \in 1..k : n \in 0..k /\ n # 0
    BY <1>2
  <2>2. f[0] = <<>>
    <3> HIDE DEF f
    <3> QED
      BY <1>5, <2>1
  <2> HIDE DEF f
  <2> QED
    BY <1>6, <2>1, <2>2
<1> DEFINE T == {n \in 0..k : g[n] = f[n]}
<1>8. \A n \in 0..k : n \in T
  <2> HIDE DEF f
  <2>1. 0 \in T
    BY <1>2, <1>7
  <2>2. ASSUME NEW n \in 0..(k - 1), n \in T PROVE n + 1 \in T
    <3>1. n + 1 \in 1..k /\ n + 1 \in 0..k /\ (n + 1) - 1 = n
      BY <1>2
    <3>2. g[n + 1] = ByVersion(g[n], chain[n + 1])
      BY <1>7, <3>1
    <3>3. f[n + 1] = ByVersion(f[n], chain[n + 1])
      BY <1>4, <3>1
    <3> QED
      BY <2>2, <3>1, <3>2, <3>3
  <2> HIDE DEF T
  <2>3. \A n \in 0..(k - 1) : n \in T => n + 1 \in T
    BY <2>2
  <2> QED
    BY <1>2, <2>1, <2>3, NumbersUpTo
<1>9. g[k] = chain
  <2>1. k \in 0..k
    BY <1>2
  <2>2. g[k] = f[k]
    BY <1>8, <2>1
  <2>3. SubSeq(chain, 1, k) = chain
    BY <1>2, SubSeqFull DEF k
  <2> QED
    BY <2>1, <2>2, <2>3
<1> QED
  BY <1>1, <1>9 DEF chain, c

\* A version leads to its root and to the current one, no pointer leads nowhere, and
\* versions whose ids were given once form lines, which every query tells whole.
THEOREM VersionsHold == ChainSpec => []VersionsFormChains
<1>1. ChainInv => VersionsFormChains
  <2> SUFFICES ASSUME ChainInv PROVE VersionsFormChains
    OBVIOUS
  <2>1. /\ ChainTypes /\ LeadsOut("supersedes") /\ LeadsOut("supersededBy")
        /\ None \notin Known /\ IsFiniteSet(Known)
    BY VersionAssumption DEF ChainInv, ChainTypes
  <2>2. ASSUME NEW e \in Known
        PROVE  /\ entries[RootOf(e)].supersedes = None
               /\ entries[CurrentOf(e)].supersededBy = None
    <3>1. entries[RootOf(e)]["supersedes"] = None
      BY <2>1, WalkEnds DEF RootOf
    <3>2. entries[CurrentOf(e)]["supersededBy"] = None
      BY <2>1, WalkEnds DEF CurrentOf
    <3> QED
      BY <3>1, <3>2
  <2>3. Missing = {}
    BY <2>1, PointersLeadOut DEF Missing
  <2>4. ASSUME ~reused, NEW e \in Known
        PROVE  LET chain == chainIndex[entries[e].chain] IN
               /\ HistoryOf(e) = chain /\ VersionIds(e) = chain
               /\ \A n \in DOMAIN chain :
                     /\ entries[chain[n]].version = n
                     /\ entries[chain[n]].current = (chain[n] = CurrentOf(e))
    <3> DEFINE c == entries[e].chain
               chain == chainIndex[c]
    <3>1. /\ chain \in Seq(Entities) /\ Len(chain) \in Nat \ {0}
          /\ \A n \in 1..Len(chain) : chain[n] \in Known /\ entries[chain[n]] = PlaceIn(chain, c, n)
          /\ CurrentOf(e) = chain[Len(chain)]
          /\ HistoryOf(e) = chain
      BY <2>4, LineIsTold
    <3>2. VersionIds(e) = chain
      BY <2>4, LineIsSorted
    <3> HIDE DEF chain, c
    <3>3. ASSUME NEW n \in DOMAIN chain
          PROVE  /\ entries[chain[n]].version = n
                 /\ entries[chain[n]].current = (chain[n] = CurrentOf(e))
      <4>1. n \in 1..Len(chain) /\ Len(chain) \in 1..Len(chain)
        BY <3>1, LenProperties
      <4>2. \A m \in 1..Len(chain) : /\ entries[chain[m]].version = m
                                     /\ entries[chain[m]].current = (m = Len(chain))
        <5>1. \A m \in 1..Len(chain) : /\ PlaceIn(chain, c, m).version = m
                                       /\ PlaceIn(chain, c, m).current = (m = Len(chain))
          BY PlaceTells
        <5> SUFFICES ASSUME NEW m \in 1..Len(chain)
                     PROVE  /\ entries[chain[m]].version = m
                            /\ entries[chain[m]].current = (m = Len(chain))
          OBVIOUS
        <5>2. entries[chain[m]] = PlaceIn(chain, c, m)
          BY <3>1
        <5>3. /\ PlaceIn(chain, c, m).version = m
              /\ PlaceIn(chain, c, m).current = (m = Len(chain))
          BY <5>1
        <5> QED
          BY <5>2, <5>3, Zenon
      <4>3. (chain[n] = chain[Len(chain)]) <=> (n = Len(chain))
        BY <4>1, <4>2
      <4>4. (chain[n] = CurrentOf(e)) = (n = Len(chain))
        BY <3>1, <4>3
      <4> QED
        BY <4>1, <4>2, <4>4, Zenon
    <3> QED
      BY <3>1, <3>2, <3>3 DEF chain, c
  <2> QED
    BY <2>2, <2>3, <2>4 DEF VersionsFormChains
<1>2. ChainSpec => []ChainInv
  BY ChainInvHolds
<1> QED
  BY <1>1, <1>2, PTL

=============================================================================
