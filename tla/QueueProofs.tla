----------------------------- MODULE QueueProofs -----------------------------
(***************************************************************************)
(* Proofs about what waits beside the scheduler: DeferredInjections,       *)
(* Checkpointer, HitlQueue, and CollabBarrier, for any number of parents,  *)
(* children and threads.  The queues retain part of a sequence, and their  *)
(* proofs rest on what RetainTheorems says of that.                        *)
(***************************************************************************)
EXTENDS HitlQueue, DeferredInjections, Checkpointer, CollabBarrier, RetainTheorems

-----------------------------------------------------------------------------
(* DeferredInjections                                                       *)

\* What is over was enqueued once: an enqueued deferral is new to both histories.
DeferredInv ==
    /\ enqueued \in Seq(Deferrals)
    /\ triggered \subseteq ToSet(enqueued)
    /\ expired \subseteq ToSet(enqueued)
    /\ DeferralsEndOnce

LEMMA DeferredInitial == DeferredInit => DeferredInv
<1> SUFFICES ASSUME DeferredInit PROVE DeferredInv
  OBVIOUS
<1>1. enqueued = <<>> /\ pending = <<>> /\ triggered = {} /\ expired = {}
  BY DEF DeferredInit
<1>2. Retain(<<>>, Deferrals \ ({} \cup {})) = <<>> /\ <<>> \in Seq(Deferrals)
  BY RetainEmpty
<1>3. QED
  BY <1>1, <1>2, Zenon DEF DeferredInv, DeferralsEndOnce

\* What waits was enqueued and is not over.
LEMMA PendingElements ==
    ASSUME DeferredInv
    PROVE  /\ pending \in Seq(Deferrals)
           /\ ToSet(pending) = ToSet(enqueued) \cap (Deferrals \ (triggered \cup expired))
BY RetainType, RetainElements DEF DeferredInv, DeferralsEndOnce

\* A pass over the queue that takes what waits in S keeps the others in order.
LEMMA StillWaitingIs ==
    ASSUME DeferredInv, NEW S
    PROVE  StillWaiting(S) = Retain(enqueued, Deferrals \ ((triggered \cup expired) \cup S))
<1> DEFINE A == Deferrals \ (triggered \cup expired)
           B == Deferrals \ S
<1>1. pending = Retain(enqueued, A) /\ enqueued \in Seq(Deferrals)
  BY DEF DeferredInv, DeferralsEndOnce
<1>2. Retain(Retain(enqueued, A), B) = Retain(enqueued, A \cap B)
  BY <1>1, RetainTwice
<1>3. A \cap B = Deferrals \ ((triggered \cup expired) \cup S)
  OBVIOUS
<1>4. QED
  BY <1>1, <1>2, <1>3, Zenon DEF StillWaiting

LEMMA FireStep ==
    ASSUME DeferredInv, NEW S, S \subseteq ToSet(pending), Fire(S)
    PROVE  DeferredInv'
<1>1. /\ pending' = StillWaiting(S) /\ triggered' = triggered \cup S
      /\ enqueued' = enqueued /\ expired' = expired
  BY DEF Fire
<1>2. S \subseteq ToSet(enqueued) /\ S \cap expired = {}
  BY PendingElements
<1>3. Deferrals \ ((triggered \cup expired) \cup S) = Deferrals \ (triggered' \cup expired')
  BY <1>1
<1>4. pending' = Retain(enqueued', Deferrals \ (triggered' \cup expired'))
  BY <1>1, <1>3, StillWaitingIs, Zenon
<1>5. triggered' \cap expired' = {}
  BY <1>1, <1>2 DEF DeferredInv, DeferralsEndOnce
<1>6. triggered' \subseteq ToSet(enqueued') /\ expired' \subseteq ToSet(enqueued')
  BY <1>1, <1>2 DEF DeferredInv
<1>7. QED
  BY <1>1, <1>4, <1>5, <1>6, Zenon DEF DeferredInv, DeferralsEndOnce

LEMMA DeferredStep == DeferredInv /\ [DeferredNext]_deferredVars => DeferredInv'
<1> SUFFICES ASSUME DeferredInv, [DeferredNext]_deferredVars PROVE DeferredInv'
  OBVIOUS
<1>1. ASSUME NEW d \in Deferrals, EnqueueDeferred(d) PROVE DeferredInv'
  <2>1. /\ d \notin ToSet(enqueued)
        /\ pending' = Append(pending, d) /\ enqueued' = Append(enqueued, d)
        /\ triggered' = triggered /\ expired' = expired
    BY <1>1 DEF EnqueueDeferred
  <2>2. enqueued \in Seq(Deferrals)
    BY DEF DeferredInv
  <2>3. enqueued' \in Seq(Deferrals) /\ ToSet(enqueued') = ToSet(enqueued) \cup {d}
    BY <2>1, <2>2, AppendElements
  <2> DEFINE K == Deferrals \ (triggered \cup expired)
  <2>4. d \in K
    BY <2>1 DEF DeferredInv
  <2>5. pending = Retain(enqueued, K)
    BY DEF DeferredInv, DeferralsEndOnce
  <2> HIDE DEF K
  <2>6. Retain(Append(enqueued, d), K) =
          IF d \in K THEN Append(Retain(enqueued, K), d) ELSE Retain(enqueued, K)
    BY <2>2, RetainAppend
  <2>7. pending' = Retain(enqueued', K)
    BY <2>1, <2>4, <2>5, <2>6
  <2>8. QED
    BY <2>1, <2>3, <2>7 DEF DeferredInv, DeferralsEndOnce, K
<1>2. CASE ExpireOld
  <2>1. /\ pending' = StillWaiting(Expired) /\ expired' = expired \cup Expired
        /\ enqueued' = enqueued /\ triggered' = triggered
    BY <1>2 DEF ExpireOld
  <2>2. Expired \subseteq ToSet(enqueued) /\ Expired \cap triggered = {}
    BY PendingElements DEF Expired
  <2>3. Deferrals \ ((triggered \cup expired) \cup Expired)
          = Deferrals \ (triggered' \cup expired')
    BY <2>1
  <2>4. pending' = Retain(enqueued', Deferrals \ (triggered' \cup expired'))
    BY <2>1, <2>3, StillWaitingIs, Zenon
  <2>5. triggered' \cap expired' = {}
    BY <2>1, <2>2 DEF DeferredInv, DeferralsEndOnce
  <2>6. triggered' \subseteq ToSet(enqueued') /\ expired' \subseteq ToSet(enqueued')
    BY <2>1, <2>2 DEF DeferredInv
  <2>7. QED
    BY <2>1, <2>4, <2>5, <2>6, Zenon DEF DeferredInv, DeferralsEndOnce
<1>3. CASE CheckTime
  BY <1>3, FireStep DEF CheckTime, WaitingOn
<1>4. ASSUME NEW u \in Usages, CheckBudget(u) PROVE DeferredInv'
  BY <1>4, FireStep DEF CheckBudget, WaitingOn
<1>5. CASE CheckRouteChange
  BY <1>5, FireStep DEF CheckRouteChange, WaitingOn
<1>6. ASSUME NEW c \in Cycles, CheckCycleCompleted(c) PROVE DeferredInv'
  BY <1>6, FireStep DEF CheckCycleCompleted, WaitingOn
<1>7. CASE Tick
  BY <1>7 DEF Tick, DeferredInv, DeferralsEndOnce
<1>8. CASE UNCHANGED deferredVars
  BY <1>8 DEF deferredVars, DeferredInv, DeferralsEndOnce
<1>9. QED
  BY <1>1, <1>2, <1>3, <1>4, <1>5, <1>6, <1>7, <1>8 DEF DeferredNext

\* DeferredInjectionQueue hands a deferral out once, to the check that fires it or
\* to expire_old, and keeps the order of the others, for any deferrals, triggers
\* and times.
THEOREM DeferralsAreHandedOutOnce == DeferredSpec => []DeferralsEndOnce
<1>1. DeferredInv => DeferralsEndOnce
  BY DEF DeferredInv
<1>2. QED
  BY <1>1, DeferredInitial, DeferredStep, PTL DEF DeferredSpec

-----------------------------------------------------------------------------
(* Checkpointer                                                             *)

Times(c) == \A k \in DOMAIN c : c[k].last_accessed \in Nat /\ c[k].last_accessed <= clock

\* The queue has the keys of the map, each once, the least recently used first.
Paired(c, q) ==
    /\ q \in Seq(Keys)
    /\ ToSet(q) = DOMAIN c
    /\ IsInjective(q)
    /\ \A i, j \in DOMAIN q : i < j => c[q[i]].last_accessed <= c[q[j]].last_accessed

CacheInv ==
    /\ clock \in Nat
    /\ DOMAIN cache \subseteq Keys
    /\ Times(cache)
    /\ EnableLru => Paired(cache, lruQueue) /\ Len(lruQueue) <= MaxEntries
    /\ ~EnableLru => lruQueue = <<>>

\* Dropping the same keys from both keeps them paired.
LEMMA DropPaired ==
    ASSUME NEW c, NEW q, Paired(c, q), NEW gone
    PROVE  /\ Paired(Keep(c, Keys \ gone), Drop(q, gone))
           /\ Len(Drop(q, gone)) <= Len(q)
<1> DEFINE r == Drop(q, gone)
           d == Keep(c, Keys \ gone)
<1>1. /\ r = Retain(q, Keys \ gone) /\ q \in Seq(Keys) /\ ToSet(q) = DOMAIN c /\ IsInjective(q)
  BY DEF Drop, Paired
<1>2. r \in Seq(Keys) /\ Len(r) <= Len(q)
  BY <1>1, RetainType
<1>3. IsInjective(r)
  BY <1>1, RetainInjective
<1>4. ToSet(r) = ToSet(q) \cap (Keys \ gone)
  BY <1>1, RetainElements
<1>5. DOMAIN d = DOMAIN c \cap (Keys \ gone) /\ \A k \in DOMAIN d : d[k] = c[k]
  BY DEF Keep
<1>6. PICK h : Keeps(q, r, h)
  BY <1>1, RetainKeepsOrder
<1> HIDE DEF r, d
<1>7. DOMAIN r = 1..Len(r) /\ DOMAIN q = 1..Len(q)
  BY <1>1, <1>2, LenProperties
<1>8. ASSUME NEW i \in DOMAIN r, NEW j \in DOMAIN r, i < j
      PROVE  d[r[i]].last_accessed <= d[r[j]].last_accessed
  <2>1. r[i] \in DOMAIN d /\ r[j] \in DOMAIN d
    BY <1>1, <1>4, <1>5 DEF ToSet
  <2>2. h[i] \in DOMAIN q /\ h[j] \in DOMAIN q /\ h[i] < h[j] /\ r[i] = q[h[i]] /\ r[j] = q[h[j]]
    BY <1>6, <1>7, <1>8 DEF Keeps
  <2>3. c[q[h[i]]].last_accessed <= c[q[h[j]]].last_accessed
    BY <2>2 DEF Paired
  <2>4. d[r[i]] = c[q[h[i]]] /\ d[r[j]] = c[q[h[j]]]
    BY <1>5, <2>1, <2>2
  <2>5. QED
    BY <2>3, <2>4, Zenon
<1>9. Paired(d, r)
  BY <1>1, <1>2, <1>3, <1>4, <1>5, <1>8 DEF Paired
<1>10. QED
  BY <1>2, <1>9 DEF r, d

\* So does taking the front of the queue from both; what is taken was used no
\* later than what stays.
LEMMA FrontPaired ==
    ASSUME NEW c, NEW q, Paired(c, q), NEW n \in 0..Len(q)
    PROVE  LET d == Keep(c, DOMAIN c \ ToSet(SubSeq(q, 1, n))) IN
           /\ Paired(d, SubSeq(q, n + 1, Len(q)))
           /\ Len(SubSeq(q, n + 1, Len(q))) = Len(q) - n
           /\ \A g \in DOMAIN c \ DOMAIN d, k \in DOMAIN d :
                 c[g].last_accessed <= c[k].last_accessed
<1> DEFINE f == SubSeq(q, 1, n)
           r == SubSeq(q, n + 1, Len(q))
           d == Keep(c, DOMAIN c \ ToSet(f))
<1>1. /\ q \in Seq(Keys) /\ ToSet(q) = DOMAIN c
      /\ DOMAIN q = 1..Len(q) /\ Len(q) \in Nat
      /\ \A i \in 1..Len(q) : q[i] \in Keys
  BY LenProperties, ElementOfSeq DEF Paired
<1>2. /\ f \in Seq(Keys) /\ Len(f) = n /\ \A i \in 1..n : f[i] = q[i]
  <2>1. /\ SubSeq(q, 1, n) \in Seq(Keys)
        /\ Len(SubSeq(q, 1, n)) = IF 1 <= n THEN n - 1 + 1 ELSE 0
        /\ \A i \in 1..(n - 1 + 1) : SubSeq(q, 1, n)[i] = q[1 + i - 1]
    <3>1. 1 \in Int /\ n \in Int /\ \A i \in 1..n : q[i] \in Keys
      BY <1>1
    <3>2. QED
      BY <3>1, SubSeqProperties
  <2>2. QED
    BY <2>1
<1>3. /\ r \in Seq(Keys) /\ Len(r) = Len(q) - n /\ \A i \in 1..(Len(q) - n) : r[i] = q[n + i]
  <2>1. /\ SubSeq(q, n + 1, Len(q)) \in Seq(Keys)
        /\ Len(SubSeq(q, n + 1, Len(q))) = IF n + 1 <= Len(q) THEN Len(q) - (n + 1) + 1 ELSE 0
        /\ \A i \in 1..(Len(q) - (n + 1) + 1) : SubSeq(q, n + 1, Len(q))[i] = q[(n + 1) + i - 1]
    <3>1. n + 1 \in Int /\ Len(q) \in Int /\ \A i \in (n + 1)..Len(q) : q[i] \in Keys
      BY <1>1
    <3>2. QED
      BY <3>1, SubSeqProperties
  <2>2. Len(q) - (n + 1) + 1 = Len(q) - n
    BY <1>1
  <2> DEFINE l == Len(r)
  <2>3. l = Len(q) - n
    <3>1. l = IF n + 1 <= Len(q) THEN Len(q) - (n + 1) + 1 ELSE 0
      BY <2>1
    <3>2. Len(q) \in Nat /\ n \in Nat /\ n <= Len(q)
      BY <1>1
    <3> HIDE DEF l
    <3>3. QED
      BY <3>1, <3>2
  <2>4. ASSUME NEW i \in 1..(Len(q) - n) PROVE r[i] = q[n + i]
    <3>1. (n + 1) + i - 1 = n + i
      BY <1>1
    <3>2. r[i] = q[(n + 1) + i - 1]
      BY <2>1, <2>2
    <3>3. QED
      BY <3>1, <3>2
  <2>5. QED
    BY <2>1, <2>3, <2>4
<1>4. DOMAIN f = 1..n /\ DOMAIN r = 1..(Len(q) - n)
  BY <1>2, <1>3, LenProperties
<1>5. DOMAIN d = DOMAIN c \ ToSet(f) /\ \A k \in DOMAIN d : d[k] = c[k]
  BY DEF Keep
<1> HIDE DEF f, r, d
<1>6. ToSet(f) = {q[i] : i \in 1..n}
  BY <1>2, <1>4 DEF ToSet
<1>7. ToSet(r) = {q[i] : i \in (n + 1)..Len(q)}
  <2>1. ASSUME NEW x \in ToSet(r) PROVE x \in {q[i] : i \in (n + 1)..Len(q)}
    <3>1. PICK i \in 1..(Len(q) - n) : x = r[i]
      BY <1>4 DEF ToSet
    <3>2. x = q[n + i] /\ n + i \in (n + 1)..Len(q)
      BY <1>1, <1>3, <3>1
    <3>3. QED
      BY <3>2
  <2>2. ASSUME NEW j \in (n + 1)..Len(q) PROVE q[j] \in ToSet(r)
    <3>1. j - n \in 1..(Len(q) - n) /\ n + (j - n) = j
      BY <1>1
    <3>2. r[j - n] = q[j]
      BY <1>3, <3>1
    <3>3. QED
      BY <1>4, <3>1, <3>2 DEF ToSet
  <2>3. QED
    BY <2>1, <2>2
<1>8. \A i, j \in 1..Len(q) : q[i] = q[j] => i = j
  BY <1>1 DEF Paired, IsInjective
<1>9. DOMAIN c = {q[i] : i \in 1..Len(q)}
  BY <1>1 DEF ToSet
<1>10. ToSet(r) = DOMAIN d
  <2>1. ASSUME NEW x \in DOMAIN d PROVE x \in ToSet(r)
    <3>1. PICK i \in 1..Len(q) : x = q[i]
      BY <1>5, <1>9
    <3>2. i \notin 1..n
      BY <1>5, <1>6, <3>1
    <3>3. i \in (n + 1)..Len(q)
      BY <3>2
    <3>4. QED
      BY <1>7, <3>1, <3>3
  <2>2. ASSUME NEW i \in (n + 1)..Len(q) PROVE q[i] \in DOMAIN d
    <3>1. i \in 1..Len(q) /\ \A j \in 1..n : j \in 1..Len(q) /\ j # i
      OBVIOUS
    <3>2. q[i] \notin ToSet(f)
      BY <1>6, <1>8, <3>1
    <3>3. QED
      BY <1>5, <1>9, <3>1, <3>2
  <2>3. QED
    BY <1>7, <2>1, <2>2
<1>11. IsInjective(r)
  <2>1. ASSUME NEW i \in DOMAIN r, NEW j \in DOMAIN r, r[i] = r[j] PROVE i = j
    <3>1. n + i \in 1..Len(q) /\ n + j \in 1..Len(q) /\ q[n + i] = q[n + j]
      BY <1>1, <1>3, <1>4, <2>1
    <3>2. n + i = n + j
      BY <1>8, <3>1
    <3>3. QED
      BY <1>4, <3>2
  <2>2. QED
    BY <2>1 DEF IsInjective
<1>12. ASSUME NEW i \in DOMAIN r, NEW j \in DOMAIN r, i < j
       PROVE  d[r[i]].last_accessed <= d[r[j]].last_accessed
  <2>1. n + i \in DOMAIN q /\ n + j \in DOMAIN q /\ n + i < n + j
    BY <1>1, <1>4, <1>12
  <2>2. c[q[n + i]].last_accessed <= c[q[n + j]].last_accessed
    BY <2>1 DEF Paired
  <2>3. r[i] = q[n + i] /\ r[j] = q[n + j] /\ r[i] \in DOMAIN d /\ r[j] \in DOMAIN d
    BY <1>3, <1>4, <1>10 DEF ToSet
  <2>4. QED
    BY <1>5, <2>2, <2>3
<1>13. Paired(d, r)
  BY <1>3, <1>10, <1>11, <1>12 DEF Paired
<1>14. ASSUME NEW g \in DOMAIN c \ DOMAIN d, NEW k \in DOMAIN d
       PROVE  c[g].last_accessed <= c[k].last_accessed
  <2>1. PICK i \in 1..n : g = q[i]
    BY <1>5, <1>6
  <2>2. PICK j \in (n + 1)..Len(q) : k = q[j]
    BY <1>7, <1>10
  <2>3. i \in DOMAIN q /\ j \in DOMAIN q /\ i < j
    BY <1>1
  <2>4. c[q[i]].last_accessed <= c[q[j]].last_accessed
    BY <2>3 DEF Paired
  <2>5. QED
    BY <2>1, <2>2, <2>4
<1>15. QED
  BY <1>3, <1>13, <1>14 DEF d, f, r

\* A key that is used goes to the end of the queue.
LEMMA TouchPaired ==
    ASSUME NEW c, NEW q, Paired(c, q), NEW k \in Keys, NEW d, clock \in Nat, Times(c),
           DOMAIN d = DOMAIN c \cup {k}, d[k] = CacheEntry,
           \A j \in DOMAIN c \ {k} : d[j] = c[j],
           EnableLru
    PROVE  Paired(d, Touch(q, k)) /\ Len(Touch(q, k)) <= Len(q) + 1
<1> DEFINE p == Drop(q, {k})
           e == Keep(c, Keys \ {k})
           r == Append(p, k)
<1>1. Paired(e, p) /\ Len(p) <= Len(q)
  BY DropPaired
<1>2. DOMAIN e = DOMAIN c \ {k} /\ \A j \in DOMAIN e : e[j] = c[j]
  <2>1. DOMAIN c \subseteq Keys
    BY SeqElements DEF Paired
  <2>2. QED
    BY <2>1 DEF Keep
<1>3. Touch(q, k) = r
  BY DEF Touch
<1> HIDE DEF p, e, r
<1>4. p \in Seq(Keys) /\ q \in Seq(Keys)
  BY <1>1 DEF Paired
<1>5. /\ r \in Seq(Keys) /\ ToSet(r) = ToSet(p) \cup {k}
      /\ Len(r) = Len(p) + 1 /\ Len(p) \in Nat /\ Len(q) \in Nat
      /\ DOMAIN r = 1..(Len(p) + 1) /\ DOMAIN p = 1..Len(p)
      /\ r[Len(p) + 1] = k
      /\ \A i \in 1..Len(p) : r[i] = p[i]
  BY <1>4, AppendElements, AppendProperties, LenProperties DEF r
<1>6. ToSet(p) = DOMAIN c \ {k}
  BY <1>1, <1>2 DEF Paired
<1>7. \A i \in 1..Len(p) : p[i] \in DOMAIN c \ {k} /\ p[i] # k
  BY <1>5, <1>6 DEF ToSet
<1>8. IsInjective(r)
  <2>1. ASSUME NEW i \in DOMAIN r, NEW j \in DOMAIN r, r[i] = r[j] PROVE i = j
    <3>1. CASE i \in 1..Len(p) /\ j \in 1..Len(p)
      BY <1>1, <1>5, <2>1, <3>1 DEF Paired, IsInjective
    <3>2. CASE i = Len(p) + 1 \/ j = Len(p) + 1
      BY <1>5, <1>7, <2>1, <3>2
    <3>3. QED
      BY <1>5, <3>1, <3>2
  <2>2. QED
    BY <2>1 DEF IsInjective
<1>9. ASSUME NEW i \in DOMAIN r, NEW j \in DOMAIN r, i < j
      PROVE  d[r[i]].last_accessed <= d[r[j]].last_accessed
  <2>1. i \in 1..Len(p) /\ r[i] = p[i] /\ p[i] \in DOMAIN c \ {k}
    BY <1>5, <1>7, <1>9
  <2>2. d[r[i]] = c[p[i]]
    BY <2>1
  <2>3. CASE j \in 1..Len(p)
    <3>1. d[r[j]] = c[p[j]] /\ r[j] = p[j]
      BY <1>5, <1>7, <2>3
    <3>2. e[p[i]].last_accessed <= e[p[j]].last_accessed
      BY <1>1, <1>5, <1>9, <2>1, <2>3 DEF Paired
    <3>3. e[p[i]] = c[p[i]] /\ e[p[j]] = c[p[j]]
      BY <1>2, <1>7, <2>1, <2>3
    <3>4. QED
      BY <2>2, <3>1, <3>2, <3>3
  <2>4. CASE j = Len(p) + 1
    <3>1. d[r[j]].last_accessed = clock
      BY <1>5, <2>4 DEF CacheEntry
    <3>2. c[p[i]].last_accessed <= clock
      BY <2>1 DEF Times
    <3>3. QED
      BY <2>2, <3>1, <3>2
  <2>5. QED
    BY <1>5, <2>3, <2>4
<1>10. ToSet(r) = DOMAIN d
  BY <1>5, <1>6
<1>11. Len(r) <= Len(q) + 1
  BY <1>1, <1>5
<1>12. QED
  BY <1>3, <1>5, <1>8, <1>9, <1>10, <1>11 DEF Paired

\* evict_if_needed by age: what it evicts was last used before all it keeps.
LEMMA ExpirePaired ==
    ASSUME CacheInv
    PROVE  LET x == Expire([cache |-> cache, lru |-> lruQueue]) IN
           /\ DOMAIN x.cache \subseteq DOMAIN cache
           /\ \A k \in DOMAIN x.cache : x.cache[k] = cache[k]
           /\ \A g \in DOMAIN cache \ DOMAIN x.cache, k \in DOMAIN x.cache :
                 cache[g].last_accessed <= cache[k].last_accessed
           /\ EnableLru => Paired(x.cache, x.lru)
<1> DEFINE old == {k \in DOMAIN cache : clock - cache[k].last_accessed > TtlSeconds}
           x == Expire([cache |-> cache, lru |-> lruQueue])
<1>1. x.cache = Keep(cache, DOMAIN cache \ old) /\ x.lru = Drop(lruQueue, old)
  BY DEF Expire
<1>2. Keep(cache, DOMAIN cache \ old) = Keep(cache, Keys \ old)
  BY DEF Keep, CacheInv
<1>3. DOMAIN x.cache = DOMAIN cache \ old /\ \A k \in DOMAIN x.cache : x.cache[k] = cache[k]
  BY <1>1 DEF Keep
<1>4. ASSUME NEW g \in DOMAIN cache \ DOMAIN x.cache, NEW k \in DOMAIN x.cache
      PROVE  cache[g].last_accessed <= cache[k].last_accessed
  <2>1. g \in old /\ k \in DOMAIN cache /\ k \notin old
    BY <1>3
  <2>2. /\ clock - cache[g].last_accessed > TtlSeconds
        /\ ~(clock - cache[k].last_accessed > TtlSeconds)
    BY <2>1
  <2>3. /\ cache[g].last_accessed \in Nat /\ cache[k].last_accessed \in Nat
        /\ clock \in Nat /\ TtlSeconds \in Nat
    BY <2>1, CheckpointerAssumption DEF CacheInv, Times
  <2> HIDE DEF old, x
  <2>4. QED
    BY <2>2, <2>3
<1>5. EnableLru => Paired(x.cache, x.lru)
  BY <1>1, <1>2, DropPaired DEF CacheInv
<1>6. QED
  BY <1>3, <1>4, <1>5

\* evict_if_needed as a whole; there is room for one more after it.
LEMMA EvictPaired ==
    ASSUME CacheInv
    PROVE  LET s == MakeRoom(Expire([cache |-> cache, lru |-> lruQueue])) IN
           /\ DOMAIN s.cache \subseteq DOMAIN cache
           /\ \A k \in DOMAIN s.cache : s.cache[k] = cache[k]
           /\ \A g \in DOMAIN cache \ DOMAIN s.cache, k \in DOMAIN s.cache :
                 cache[g].last_accessed <= cache[k].last_accessed
           /\ EnableLru => Paired(s.cache, s.lru) /\ Len(s.lru) + 1 <= MaxEntries
           /\ ~EnableLru => s.lru = <<>>
<1> DEFINE x == Expire([cache |-> cache, lru |-> lruQueue])
           card == Cardinality(DOMAIN x.cache)
           over == IF EnableLru /\ card >= MaxEntries THEN card - MaxEntries + 1 ELSE 0
           n == IF over < Len(x.lru) THEN over ELSE Len(x.lru)
           s == MakeRoom(x)
<1>1. /\ DOMAIN x.cache \subseteq DOMAIN cache
      /\ \A k \in DOMAIN x.cache : x.cache[k] = cache[k]
      /\ \A g \in DOMAIN cache \ DOMAIN x.cache, k \in DOMAIN x.cache :
            cache[g].last_accessed <= cache[k].last_accessed
      /\ EnableLru => Paired(x.cache, x.lru)
  BY ExpirePaired
<1>2. /\ s.cache = Keep(x.cache, DOMAIN x.cache \ ToSet(SubSeq(x.lru, 1, n)))
      /\ s.lru = SubSeq(x.lru, n + 1, Len(x.lru))
  BY DEF MakeRoom
<1>3. DOMAIN s.cache \subseteq DOMAIN x.cache /\ \A k \in DOMAIN s.cache : s.cache[k] = x.cache[k]
  BY <1>2 DEF Keep
<1> HIDE DEF x, s
<1>4. CASE EnableLru
  <2>1. Paired(x.cache, x.lru)
    BY <1>1, <1>4
  <2>2. card = Len(x.lru) /\ Len(x.lru) \in Nat
    BY <2>1, InjectiveLength, LenProperties DEF Paired
  <2>3. n \in 0..Len(x.lru) /\ Len(x.lru) - n + 1 <= MaxEntries
    BY <1>4, <2>2, CheckpointerAssumption
  <2> HIDE DEF n
  <2>4. /\ Paired(s.cache, s.lru)
        /\ Len(s.lru) = Len(x.lru) - n
        /\ \A g \in DOMAIN x.cache \ DOMAIN s.cache, k \in DOMAIN s.cache :
              x.cache[g].last_accessed <= x.cache[k].last_accessed
    BY <1>2, <2>1, <2>3, FrontPaired
  <2>5. Len(s.lru) + 1 <= MaxEntries
    BY <2>3, <2>4
  <2>6. ASSUME NEW g \in DOMAIN cache \ DOMAIN s.cache, NEW k \in DOMAIN s.cache
        PROVE  cache[g].last_accessed <= cache[k].last_accessed
    <3>1. CASE g \in DOMAIN x.cache
      <4>1. x.cache[g].last_accessed <= x.cache[k].last_accessed
        BY <2>4, <2>6, <3>1
      <4>2. QED
        BY <1>1, <1>3, <3>1, <4>1
    <3>2. CASE g \notin DOMAIN x.cache
      BY <1>1, <1>3, <2>6, <3>2
    <3>3. QED
      BY <3>1, <3>2
  <2>7. QED
    BY <1>1, <1>3, <1>4, <2>4, <2>5, <2>6 DEF s, x
<1>5. CASE ~EnableLru
  <2>1. x.lru = <<>>
    <3>1. lruQueue = <<>>
      BY <1>5 DEF CacheInv
    <3>2. QED
      BY <3>1, RetainEmpty DEF x, Expire, Drop
  <2>2. n = 0
    <3>1. over = 0 /\ Len(x.lru) = 0
      BY <1>5, <2>1
    <3> HIDE DEF over
    <3>2. QED
      BY <3>1
  <2> HIDE DEF n
  <2>3. SubSeq(<<>>, 1, 0) = <<>> /\ ToSet(<<>>) = {}
    BY DEF ToSet
  <2>4. DOMAIN s.cache = DOMAIN x.cache
    <3>1. s.cache = Keep(x.cache, DOMAIN x.cache \ {})
      BY <1>2, <2>1, <2>2, <2>3
    <3>2. QED
      BY <3>1 DEF Keep
  <2>5. s.lru = <<>>
    BY <1>2, <2>1, <2>2
  <2>6. QED
    BY <1>1, <1>3, <1>5, <2>4, <2>5 DEF s, x
<1>6. QED
  BY <1>4, <1>5

LEMMA CacheInitial == CacheInit => CacheInv
<1> SUFFICES ASSUME CacheInit PROVE CacheInv
  OBVIOUS
<1>1. DOMAIN cache = {} /\ lruQueue = <<>> /\ clock = 0
  BY DEF CacheInit
<1>2. <<>> \in Seq(Keys) /\ ToSet(<<>>) = {} /\ Len(<<>>) = 0 /\ DOMAIN <<>> = {}
  BY DEF ToSet
<1>3. Paired(cache, <<>>)
  BY <1>1, <1>2 DEF Paired, IsInjective
<1>4. 0 <= MaxEntries
  BY CheckpointerAssumption
<1>5. QED
  BY <1>1, <1>2, <1>3, <1>4, Zenon DEF CacheInv, Times

\* record makes room and adds the key, at the end of the queue.
LEMMA RecordStep ==
    ASSUME CacheInv, NEW k \in Keys, Record(k)
    PROVE  /\ CacheInv'
           /\ \A g \in DOMAIN cache \ DOMAIN cache', j \in DOMAIN cache \cap DOMAIN cache' :
                 j # k => cache[g].last_accessed <= cache[j].last_accessed
<1> DEFINE s == MakeRoom(Expire([cache |-> cache, lru |-> lruQueue]))
<1>1. /\ DOMAIN s.cache \subseteq DOMAIN cache
      /\ \A j \in DOMAIN s.cache : s.cache[j] = cache[j]
      /\ \A g \in DOMAIN cache \ DOMAIN s.cache, j \in DOMAIN s.cache :
            cache[g].last_accessed <= cache[j].last_accessed
      /\ EnableLru => Paired(s.cache, s.lru) /\ Len(s.lru) + 1 <= MaxEntries
      /\ ~EnableLru => s.lru = <<>>
  BY EvictPaired
<1>2. /\ cache' = [j \in DOMAIN s.cache \cup {k} |->
                      IF j = k THEN CacheEntry ELSE s.cache[j]]
      /\ lruQueue' = Touch(s.lru, k)
      /\ clock' = clock
  BY DEF Record
<1> HIDE DEF s
<1>3. /\ DOMAIN cache' = DOMAIN s.cache \cup {k} /\ cache'[k] = CacheEntry
      /\ \A j \in DOMAIN s.cache \ {k} : cache'[j] = s.cache[j]
  BY <1>2
<1>4. clock \in Nat /\ Times(cache) /\ DOMAIN cache \subseteq Keys
  BY DEF CacheInv
<1>5. Times(s.cache)
  BY <1>1, <1>4 DEF Times
<1>6. Times(cache)'
  <2>1. ASSUME NEW j \in DOMAIN cache'
        PROVE  cache'[j].last_accessed \in Nat /\ cache'[j].last_accessed <= clock
    <3>1. CASE j = k
      BY <1>3, <1>4, <3>1 DEF CacheEntry
    <3>2. CASE j # k
      <4>1. j \in DOMAIN s.cache /\ cache'[j] = s.cache[j]
        BY <1>3, <2>1, <3>2
      <4>2. QED
        BY <1>5, <4>1 DEF Times
    <3>3. QED
      BY <3>1, <3>2
  <2>2. QED
    BY <1>2, <2>1 DEF Times
<1>7. ASSUME EnableLru PROVE Paired(cache', lruQueue') /\ Len(lruQueue') <= MaxEntries
  <2>1. Paired(s.cache, s.lru) /\ Len(s.lru) + 1 <= MaxEntries
    BY <1>1, <1>7
  <2>2. Paired(cache', Touch(s.lru, k)) /\ Len(Touch(s.lru, k)) <= Len(s.lru) + 1
    BY <1>3, <1>4, <1>5, <1>7, <2>1, TouchPaired
  <2>3. /\ Len(s.lru) \in Nat /\ Len(Touch(s.lru, k)) \in Nat /\ MaxEntries \in Nat
    BY <2>1, <2>2, LenProperties, CheckpointerAssumption DEF Paired
  <2>4. Len(Touch(s.lru, k)) <= MaxEntries
    BY <2>1, <2>2, <2>3
  <2>5. QED
    BY <1>2, <2>2, <2>4
<1>8. ~EnableLru => lruQueue' = <<>>
  BY <1>1, <1>2 DEF Touch
<1>9. CacheInv'
  BY <1>1, <1>2, <1>3, <1>4, <1>6, <1>7, <1>8 DEF CacheInv
<1>10. ASSUME NEW g \in DOMAIN cache \ DOMAIN cache',
              NEW j \in DOMAIN cache \cap DOMAIN cache', j # k
       PROVE  cache[g].last_accessed <= cache[j].last_accessed
  <2>1. g \in DOMAIN cache \ DOMAIN s.cache /\ j \in DOMAIN s.cache
    BY <1>3, <1>10
  <2>2. QED
    BY <1>1, <2>1
<1>11. QED
  BY <1>9, <1>10

\* get puts the key that is read at the end of the queue.
LEMMA FetchStep ==
    ASSUME CacheInv, NEW k \in Keys, Fetch(k)
    PROVE  CacheInv' /\ DOMAIN cache' = DOMAIN cache
<1>1. /\ k \in DOMAIN cache /\ cache' = [cache EXCEPT ![k] = CacheEntry]
      /\ lruQueue' = Touch(lruQueue, k) /\ clock' = clock
  BY DEF Fetch
<1>2. /\ DOMAIN cache' = DOMAIN cache \cup {k} /\ cache'[k] = CacheEntry
      /\ \A j \in DOMAIN cache \ {k} : cache'[j] = cache[j]
      /\ DOMAIN cache' = DOMAIN cache
  BY <1>1
<1>3. clock \in Nat /\ Times(cache) /\ DOMAIN cache \subseteq Keys
  BY DEF CacheInv
<1>4. Times(cache)'
  BY <1>1, <1>2, <1>3 DEF Times, CacheEntry
<1>5. ASSUME EnableLru PROVE Paired(cache', lruQueue') /\ Len(lruQueue') <= MaxEntries
  <2>1. Paired(cache, lruQueue) /\ Len(lruQueue) <= MaxEntries
    BY <1>5 DEF CacheInv
  <2>2. Paired(cache', Touch(lruQueue, k))
    BY <1>2, <1>3, <1>5, <2>1, TouchPaired
  <2>3. Len(Touch(lruQueue, k)) = Len(lruQueue)
    <3>1. /\ lruQueue \in Seq(Keys) /\ IsInjective(lruQueue) /\ ToSet(lruQueue) = DOMAIN cache
          /\ Touch(lruQueue, k) \in Seq(Keys) /\ IsInjective(Touch(lruQueue, k))
          /\ ToSet(Touch(lruQueue, k)) = DOMAIN cache
      BY <1>2, <2>1, <2>2 DEF Paired
    <3>2. QED
      BY <3>1, InjectiveLength
  <2>4. QED
    BY <1>1, <2>1, <2>2, <2>3
<1>6. ~EnableLru => lruQueue' = <<>>
  BY <1>1 DEF CacheInv, Touch
<1>7. QED
  BY <1>1, <1>2, <1>3, <1>4, <1>5, <1>6 DEF CacheInv

\* finish and invalidate drop keys from the map and the queue alike.
LEMMA GoneStep ==
    ASSUME CacheInv, NEW gone, cache' = Keep(cache, Keys \ gone),
           lruQueue' = Drop(lruQueue, gone), clock' = clock
    PROVE  CacheInv' /\ DOMAIN cache' \subseteq DOMAIN cache
<1>1. DOMAIN cache' \subseteq DOMAIN cache /\ \A k \in DOMAIN cache' : cache'[k] = cache[k]
  BY DEF Keep
<1>2. clock \in Nat /\ Times(cache) /\ DOMAIN cache \subseteq Keys
  BY DEF CacheInv
<1>3. Times(cache)'
  BY <1>1, <1>2 DEF Times
<1>4. ASSUME EnableLru PROVE Paired(cache', lruQueue') /\ Len(lruQueue') <= MaxEntries
  <2>1. Paired(cache, lruQueue) /\ Len(lruQueue) <= MaxEntries
    BY <1>4 DEF CacheInv
  <2>2. /\ Paired(Keep(cache, Keys \ gone), Drop(lruQueue, gone))
        /\ Len(Drop(lruQueue, gone)) <= Len(lruQueue)
    BY <2>1, DropPaired
  <2>3. Len(Drop(lruQueue, gone)) \in Nat /\ Len(lruQueue) \in Nat /\ MaxEntries \in Nat
    BY <2>1, <2>2, LenProperties, CheckpointerAssumption DEF Paired
  <2>4. Len(Drop(lruQueue, gone)) <= MaxEntries
    BY <2>1, <2>2, <2>3
  <2>5. QED
    BY <2>2, <2>4
<1>5. ~EnableLru => lruQueue' = <<>>
  BY RetainEmpty DEF CacheInv, Drop
<1>6. QED
  BY <1>1, <1>2, <1>3, <1>4, <1>5 DEF CacheInv

LEMMA ClockTickStep == ASSUME CacheInv, ClockTick PROVE CacheInv'
<1>1. clock' = clock + 1 /\ cache' = cache /\ lruQueue' = lruQueue /\ clock \in Nat
  BY DEF ClockTick, CacheInv
<1>2. Times(cache)'
  <2>1. ASSUME NEW k \in DOMAIN cache
        PROVE  cache[k].last_accessed \in Nat /\ cache[k].last_accessed <= clock + 1
    <3>1. cache[k].last_accessed \in Nat /\ cache[k].last_accessed <= clock
      BY DEF CacheInv, Times
    <3>2. QED
      BY <1>1, <3>1
  <2>2. QED
    BY <1>1, <2>1 DEF Times
<1>3. QED
  BY <1>1, <1>2 DEF CacheInv, Paired

LEMMA CacheStep == CacheInv /\ [CacheNext]_cacheVars => CacheInv'
<1> SUFFICES ASSUME CacheInv, [CacheNext]_cacheVars PROVE CacheInv'
  OBVIOUS
<1>1. ASSUME NEW k \in Keys, Record(k) PROVE CacheInv'
  BY <1>1, RecordStep
<1>2. ASSUME NEW k \in Keys, Fetch(k) PROVE CacheInv'
  BY <1>2, FetchStep
<1>3. ASSUME NEW k \in Keys, Invalidate(k) PROVE CacheInv'
  BY <1>3, GoneStep DEF Invalidate
<1>4. ASSUME NEW t \in CacheTenants, FinishTenant(t) PROVE CacheInv'
  BY <1>4, GoneStep DEF FinishTenant
<1>5. CASE ClockTick
  BY <1>5, ClockTickStep
<1>6. CASE UNCHANGED cacheVars
  BY <1>6 DEF cacheVars, CacheInv, Times, Paired
<1>7. QED
  BY <1>1, <1>2, <1>3, <1>4, <1>5, <1>6 DEF CacheNext

\* The queue and the map of the Checkpointer never part, for any keys, bounds and
\* times: each key once in the queue, no key without entry, and never more of
\* them than max_entries.
THEOREM LruIsPaired == CacheSpec => []LruMatchesCache
<1>1. CacheInv => LruMatchesCache
  BY DEF CacheInv, Paired, LruMatchesCache
<1>2. QED
  BY <1>1, CacheInitial, CacheStep, PTL DEF CacheSpec

\* A step of the Checkpointer that adds a key evicts what was used no later than
\* all it keeps, by age and by place in the queue alike.
THEOREM EvictionIsByAge == CacheSpec => EvictsTheStalest
<1> DEFINE Evicts == \A k \in Keys : k \notin DOMAIN cache /\ k \in DOMAIN cache' =>
          \A gone \in DOMAIN cache \ DOMAIN cache', kept \in DOMAIN cache \cap DOMAIN cache' :
              cache[gone].last_accessed <= cache[kept].last_accessed
<1>1. CacheInv /\ [CacheNext]_cacheVars => [Evicts]_cacheVars
  <2> SUFFICES ASSUME CacheInv, CacheNext PROVE Evicts
    OBVIOUS
  <2> SUFFICES ASSUME NEW k \in Keys, k \notin DOMAIN cache, k \in DOMAIN cache',
                      NEW g \in DOMAIN cache \ DOMAIN cache',
                      NEW j \in DOMAIN cache \cap DOMAIN cache'
               PROVE  cache[g].last_accessed <= cache[j].last_accessed
    OBVIOUS
  <2>1. ASSUME NEW r \in Keys, Record(r)
        PROVE  cache[g].last_accessed <= cache[j].last_accessed
    <3>1. r = k
      <4>1. DOMAIN cache' \subseteq DOMAIN cache \cup {r}
        BY <2>1, EvictPaired DEF Record
      <4>2. QED
        BY <4>1
    <3>2. QED
      BY <2>1, <3>1, RecordStep
  <2>2. ASSUME NEW r \in Keys, Fetch(r) PROVE FALSE
    BY <2>2, FetchStep
  <2>3. ASSUME NEW r \in Keys, Invalidate(r) PROVE FALSE
    BY <2>3, GoneStep DEF Invalidate
  <2>4. ASSUME NEW t \in CacheTenants, FinishTenant(t) PROVE FALSE
    BY <2>4, GoneStep DEF FinishTenant
  <2>5. CASE ClockTick
    BY <2>5 DEF ClockTick
  <2>6. QED
    BY <2>1, <2>2, <2>3, <2>4, <2>5 DEF CacheNext
<1>2. QED
  BY <1>1, CacheInitial, CacheStep, PTL DEF CacheSpec, EvictsTheStalest

-----------------------------------------------------------------------------
(* HitlQueue: the marks of tenants with a clarify cycle                     *)

MarksInv ==
    /\ active \subseteq Tenants
    /\ clarify \in [Tenants -> Nat]
    /\ MarkedTenantsHaveACycle

LEMMA MarksInitial == HitlInit => MarksInv
BY DEF HitlInit, MarksInv, MarkedTenantsHaveACycle

LEMMA MarksStep == MarksInv /\ [HitlNext]_hitlVars => MarksInv'
<1> SUFFICES ASSUME MarksInv, [HitlNext]_hitlVars PROVE MarksInv'
  OBVIOUS
<1>1. ASSUME active' = active, clarify' = clarify PROVE MarksInv'
  BY <1>1 DEF MarksInv, MarkedTenantsHaveACycle
<1>2. ASSUME NEW t \in Tenants, ClarifyScheduled(t) PROVE MarksInv'
  BY <1>2 DEF ClarifyScheduled, MarksInv, MarkedTenantsHaveACycle
<1>3. ASSUME NEW t \in Tenants, ClarifyFinalized(t) PROVE MarksInv'
  BY <1>3 DEF ClarifyFinalized, MarksInv, MarkedTenantsHaveACycle
<1>4. ASSUME NEW i \in Injections, Enqueue(i) PROVE MarksInv'
  BY <1>1, <1>4 DEF Enqueue
<1>5. ASSUME NEW c \in Callers,
             PollClone(c) \/ PollPop(c) \/ AbortRemove(c) \/ AbortGiveBack(c) \/ AbortRecord(c)
      PROVE  MarksInv'
  BY <1>1, <1>5 DEF PollClone, PollPop, AbortRemove, AbortGiveBack, AbortRecord
<1>6. ASSUME NEW t \in Tenants, MergeDecide(t) PROVE MarksInv'
  BY <1>1, <1>6 DEF MergeDecide
<1>7. CASE MergeResolve
  BY <1>1, <1>7 DEF MergeResolve
<1>8. CASE UNCHANGED hitlVars
  BY <1>1, <1>8 DEF hitlVars
<1>9. QED
  BY <1>2, <1>3, <1>4, <1>5, <1>6, <1>7, <1>8 DEF HitlNext

\* No tenant stays marked when its clarify cycles are over, for any tenants and
\* any number of such cycles.
THEOREM MarksEndWithTheCycle == HitlSpec => []MarkedTenantsHaveACycle
<1>1. MarksInv => MarkedTenantsHaveACycle
  BY DEF MarksInv
<1>2. QED
  BY <1>1, MarksInitial, MarksStep, PTL DEF HitlSpec

-----------------------------------------------------------------------------
(* HitlQueue: where an injection is                                         *)

Ways == {"polled", "aborted", "resolved"}

InQueue(i) == Cardinality(Places(heap, i))
Held(i)    == Cardinality(InHand(i))
Gone(i)    == Cardinality(left[i])

\* The count stands for the injections that have not been sent as well.
Counted(i) ==
    /\ IsFiniteSet(InHand(i))
    /\ InQueue(i) + Held(i) + Gone(i) = IF i \in sent THEN 1 ELSE 0

HitlInv ==
    /\ heap \in Seq(Injections)
    /\ sent \subseteq Injections
    /\ left \in [Injections -> SUBSET Ways]
    /\ DOMAIN caller = Callers
    /\ \A c \in Callers : caller[c].step = "aborting" => caller[c].inj \in Injections
    /\ \A i \in Injections : Counted(i)

LEMMA WaysFinite ==
    ASSUME NEW S \in SUBSET Ways
    PROVE  IsFiniteSet(S) /\ Cardinality(S) \in Nat
<1>1. IsFiniteSet(Ways)
  <2>1. IsFiniteSet({"polled"} \cup {"aborted"})
    BY FS_Singleton, FS_AddElement
  <2>2. IsFiniteSet(({"polled"} \cup {"aborted"}) \cup {"resolved"})
    BY <2>1, FS_AddElement
  <2>3. Ways = ({"polled"} \cup {"aborted"}) \cup {"resolved"}
    BY DEF Ways
  <2>4. QED
    BY <2>2, <2>3
<1>2. QED
  BY <1>1, FS_Subset, FS_CardinalityType

\* The three counts are numbers, so at most one of them is not zero.
LEMMA CountsAreNumbers ==
    ASSUME HitlInv, NEW i \in Injections
    PROVE  /\ InQueue(i) \in Nat /\ Held(i) \in Nat /\ Gone(i) \in Nat
           /\ IsFiniteSet(InHand(i)) /\ IsFiniteSet(left[i]) /\ IsFiniteSet(Places(heap, i))
BY WaysFinite, PlacesFinite, FS_CardinalityType DEF HitlInv, Counted, InQueue, Held, Gone

\* An injection in the queue is there once and nowhere else.
LEMMA QueuedIsThere ==
    ASSUME HitlInv, NEW i \in Queued
    PROVE  /\ i \in Injections /\ i \in sent
           /\ InQueue(i) = 1 /\ Held(i) = 0 /\ Gone(i) = 0 /\ left[i] = {}
<1>1. i \in Injections
  BY SeqElements DEF HitlInv, Queued
<1>2. /\ InQueue(i) \in Nat /\ Held(i) \in Nat /\ Gone(i) \in Nat
      /\ IsFiniteSet(left[i]) /\ IsFiniteSet(Places(heap, i))
  BY <1>1, CountsAreNumbers
<1>3. Places(heap, i) # {}
  BY DEF Queued, ToSet, Places
<1>4. InQueue(i) # 0
  BY <1>2, <1>3, FS_EmptySet DEF InQueue
<1>5. InQueue(i) + Held(i) + Gone(i) = IF i \in sent THEN 1 ELSE 0
  BY <1>1 DEF HitlInv, Counted
<1>6. i \in sent /\ InQueue(i) = 1 /\ Held(i) = 0 /\ Gone(i) = 0
  BY <1>2, <1>4, <1>5
<1>7. left[i] = {}
  BY <1>2, <1>6, FS_EmptySet DEF Gone
<1>8. QED
  BY <1>1, <1>6, <1>7

\* So is one in the hands of an abort.
LEMMA HeldIsThere ==
    ASSUME HitlInv, NEW c \in Callers, caller[c].step = "aborting"
    PROVE  LET i == caller[c].inj IN
           /\ i \in Injections /\ i \in sent
           /\ InQueue(i) = 0 /\ Held(i) = 1 /\ Gone(i) = 0 /\ left[i] = {}
<1> DEFINE i == caller[c].inj
<1>1. i \in Injections /\ c \in InHand(i)
  BY DEF HitlInv, InHand
<1> HIDE DEF i
<1>2. /\ InQueue(i) \in Nat /\ Held(i) \in Nat /\ Gone(i) \in Nat
      /\ IsFiniteSet(left[i]) /\ IsFiniteSet(InHand(i))
  BY <1>1, CountsAreNumbers
<1>3. Held(i) # 0
  BY <1>1, <1>2, FS_EmptySet DEF Held
<1>4. InQueue(i) + Held(i) + Gone(i) = IF i \in sent THEN 1 ELSE 0
  BY <1>1 DEF HitlInv, Counted
<1>5. i \in sent /\ InQueue(i) = 0 /\ Held(i) = 1 /\ Gone(i) = 0
  BY <1>2, <1>3, <1>4
<1>6. left[i] = {}
  BY <1>2, <1>5, FS_EmptySet DEF Gone
<1>7. QED
  BY <1>1, <1>5, <1>6 DEF i

\* What a caller does to the hands that hold i.
LEMMA HandAfter ==
    ASSUME HitlInv, NEW c \in Callers, NEW r, Holds(c, r), NEW i
    PROVE  InHand(i)' = IF r.step = "aborting" /\ r.inj = i
                        THEN InHand(i) \cup {c} ELSE InHand(i) \ {c}
<1>1. caller' = [caller EXCEPT ![c] = r] /\ DOMAIN caller = Callers
  BY DEF Holds, HitlInv
<1>2. caller'[c] = r /\ \A b \in Callers \ {c} : caller'[b] = caller[b]
  BY <1>1
<1>3. \A b \in Callers : b \in InHand(i)' <=>
        IF b = c THEN r.step = "aborting" /\ r.inj = i ELSE b \in InHand(i)
  BY <1>2 DEF InHand
<1>4. InHand(i)' \subseteq Callers /\ InHand(i) \subseteq Callers
  BY DEF InHand
<1>5. CASE r.step = "aborting" /\ r.inj = i
  BY <1>3, <1>4, <1>5
<1>6. CASE ~(r.step = "aborting" /\ r.inj = i)
  BY <1>3, <1>4, <1>6
<1>7. QED
  BY <1>5, <1>6

\* A step that leaves the hands, the queue or the history of i alone.
LEMMA SameHands == ASSUME UNCHANGED caller, NEW i PROVE InHand(i)' = InHand(i)
BY DEF InHand

LEMMA SameHistory ==
    ASSUME HitlInv, NEW i \in Injections, NEW how, Leaves(i, how), NEW j \in Injections, j # i
    PROVE  left'[j] = left[j] /\ left'[i] = left[i] \cup {how}
BY DEF Leaves, HitlInv

\* What is left of the queue without i.
LEMMA WithoutIs ==
    ASSUME HitlInv, NEW i
    PROVE  /\ Without(i) \in Seq(Injections)
           /\ \A j \in Injections :
                 Cardinality(Places(Without(i), j)) = IF j = i THEN 0 ELSE InQueue(j)
<1>1. heap \in Seq(Injections)
  BY DEF HitlInv
<1>2. ASSUME NEW j \in Injections
      PROVE  Cardinality(Places(Without(i), j)) = IF j = i THEN 0 ELSE InQueue(j)
  <2>1. Cardinality(Places(Without(i), j)) =
          IF j \in Injections \ {i} THEN Cardinality(Places(heap, j)) ELSE 0
    BY <1>1, RetainCount DEF Without
  <2>2. CASE j = i
    BY <2>1, <2>2
  <2>3. CASE j # i
    BY <2>1, <2>3 DEF InQueue
  <2>4. QED
    BY <2>2, <2>3
<1>3. QED
  BY <1>1, <1>2, RetainType DEF Without

LEMMA HitlInitial == HitlInit => HitlInv
<1> SUFFICES ASSUME HitlInit PROVE HitlInv
  OBVIOUS
<1>1. /\ heap = <<>> /\ sent = {} /\ left = [i \in Injections |-> {}]
      /\ caller = [c \in Callers |-> [step |-> "idle"]]
  BY DEF HitlInit
<1>2. ASSUME NEW i \in Injections PROVE Counted(i)
  <2>1. InHand(i) = {}
    BY <1>1 DEF InHand
  <2>2. Places(heap, i) = {}
    BY <1>1 DEF Places
  <2>3. left[i] = {}
    BY <1>1
  <2>4. InQueue(i) = 0 /\ Held(i) = 0 /\ Gone(i) = 0 /\ IsFiniteSet(InHand(i))
    BY <2>1, <2>2, <2>3, FS_EmptySet, Zenon DEF InQueue, Held, Gone
  <2>5. QED
    BY <1>1, <2>4 DEF Counted
<1>3. QED
  BY <1>1, <1>2 DEF HitlInv

\* A step that moves one injection: the counts of the others stay.
LEMMA OthersStay ==
    ASSUME HitlInv, NEW j \in Injections, IsFiniteSet(InHand(j)'),
           InQueue(j)' + Held(j)' + Gone(j)' = IF j \in sent' THEN 1 ELSE 0
    PROVE  Counted(j)'
BY DEF Counted

LEMMA EnqueueStep == ASSUME HitlInv, NEW i \in Injections, Enqueue(i) PROVE HitlInv'
<1>1. /\ i \notin sent /\ sent' = sent \cup {i} /\ heap' = Append(heap, i)
      /\ caller' = caller /\ left' = left
  BY DEF Enqueue
<1>2. heap' \in Seq(Injections)
  BY <1>1, AppendElements DEF HitlInv
<1>3. ASSUME NEW j \in Injections PROVE Counted(j)'
  <2>1. InQueue(j)' = InQueue(j) + (IF i = j THEN 1 ELSE 0)
    BY <1>1, CountAppend DEF HitlInv, InQueue
  <2>2. InHand(j)' = InHand(j) /\ Held(j)' = Held(j) /\ Gone(j)' = Gone(j)
    BY <1>1 DEF InHand, Held, Gone
  <2>3. /\ InQueue(j) \in Nat /\ Held(j) \in Nat /\ Gone(j) \in Nat /\ IsFiniteSet(InHand(j))
        /\ InQueue(j) + Held(j) + Gone(j) = IF j \in sent THEN 1 ELSE 0
    BY CountsAreNumbers DEF HitlInv, Counted
  <2>4. InQueue(j)' + Held(j)' + Gone(j)' = IF j \in sent' THEN 1 ELSE 0
    BY <1>1, <2>1, <2>2, <2>3
  <2>5. QED
    BY <2>2, <2>3, <2>4, OthersStay
<1>4. QED
  BY <1>1, <1>2, <1>3 DEF HitlInv

\* A caller that neither takes up nor puts down an injection.
LEMMA IdleHands ==
    ASSUME HitlInv, NEW c \in Callers, caller[c].step # "aborting",
           NEW r, Holds(c, r), r.step # "aborting"
    PROVE  /\ \A i \in Injections : InHand(i)' = InHand(i)
           /\ DOMAIN caller' = Callers
           /\ \A b \in Callers : caller'[b].step = "aborting" => caller'[b].inj \in Injections
<1>1. ASSUME NEW i \in Injections PROVE InHand(i)' = InHand(i)
  <2>1. InHand(i)' = InHand(i) \ {c}
    BY HandAfter
  <2>2. c \notin InHand(i)
    BY DEF InHand
  <2>3. QED
    BY <2>1, <2>2
<1>2. QED
  BY <1>1 DEF Holds, HitlInv

LEMMA PollCloneStep == ASSUME HitlInv, NEW c \in Callers, PollClone(c) PROVE HitlInv'
<1>1. /\ caller[c].step = "idle" /\ heap' = heap /\ sent' = sent /\ left' = left
  BY DEF PollClone
<1>2. PICK rank : Holds(c, [step |-> "polling", inj |-> None, actives |-> active, rank |-> rank])
  BY DEF PollClone
<1>3. /\ \A i \in Injections : InHand(i)' = InHand(i)
      /\ DOMAIN caller' = Callers
      /\ \A b \in Callers : caller'[b].step = "aborting" => caller'[b].inj \in Injections
  BY <1>1, <1>2, IdleHands
<1>4. \A i \in Injections : Counted(i)'
  BY <1>1, <1>3 DEF HitlInv, Counted, InQueue, Held, Gone
<1>5. QED
  BY <1>1, <1>3, <1>4 DEF HitlInv

\* An injection that leaves the queue for good.
LEMMA LeavesTheQueue ==
    ASSUME HitlInv, NEW i \in Queued, NEW how \in Ways,
           heap' = Without(i), Leaves(i, how), sent' = sent,
           \A j \in Injections : InHand(j)' = InHand(j)
    PROVE  /\ heap' \in Seq(Injections)
           /\ left' \in [Injections -> SUBSET Ways]
           /\ \A j \in Injections : Counted(j)'
<1>1. /\ i \in Injections /\ i \in sent
      /\ InQueue(i) = 1 /\ Held(i) = 0 /\ Gone(i) = 0 /\ left[i] = {}
  BY QueuedIsThere
<1>2. ASSUME NEW j \in Injections PROVE Counted(j)'
  <2>1. InQueue(j)' = IF j = i THEN 0 ELSE InQueue(j)
    BY WithoutIs DEF InQueue
  <2>2. Held(j)' = Held(j) /\ IsFiniteSet(InHand(j)')
    BY DEF HitlInv, Counted, Held
  <2>3. InQueue(j) + Held(j) + Gone(j) = IF j \in sent THEN 1 ELSE 0
    BY DEF HitlInv, Counted
  <2>4. CASE j = i
    <3>1. left'[i] = {how}
      BY <1>1 DEF Leaves, HitlInv
    <3>2. Gone(i)' = 1
      BY <3>1, FS_Singleton DEF Gone
    <3>3. InQueue(j)' + Held(j)' + Gone(j)' = 1
      BY <1>1, <2>1, <2>2, <2>4, <3>2
    <3>4. QED
      BY <1>1, <2>2, <2>4, <3>3, OthersStay
  <2>5. CASE j # i
    <3>1. Gone(j)' = Gone(j)
      BY <1>1, <2>5, SameHistory DEF Gone
    <3>2. InQueue(j)' + Held(j)' + Gone(j)' = IF j \in sent' THEN 1 ELSE 0
      BY <2>1, <2>2, <2>3, <2>5, <3>1
    <3>3. QED
      BY <2>2, <3>2, OthersStay
  <2>6. QED
    BY <2>4, <2>5
<1>3. left' \in [Injections -> SUBSET Ways]
  BY DEF Leaves, HitlInv
<1>4. QED
  BY <1>2, <1>3, WithoutIs

LEMMA PollPopStep == ASSUME HitlInv, NEW c \in Callers, PollPop(c) PROVE HitlInv'
<1>1. /\ caller[c].step = "polling" /\ Holds(c, [step |-> "idle"]) /\ sent' = sent
      /\ \/ \E i \in Queued : heap' = Without(i) /\ Leaves(i, "polled")
         \/ heap' = heap /\ left' = left
  BY DEF PollPop, Popped
<1>2. /\ \A i \in Injections : InHand(i)' = InHand(i)
      /\ DOMAIN caller' = Callers
      /\ \A b \in Callers : caller'[b].step = "aborting" => caller'[b].inj \in Injections
  BY <1>1, IdleHands
<1>3. ASSUME NEW i \in Queued, heap' = Without(i), Leaves(i, "polled") PROVE HitlInv'
  <2>1. /\ heap' \in Seq(Injections) /\ left' \in [Injections -> SUBSET Ways]
        /\ \A j \in Injections : Counted(j)'
    <3>1. "polled" \in Ways
      BY DEF Ways
    <3>2. QED
      BY <1>1, <1>2, <1>3, <3>1, LeavesTheQueue
  <2>2. QED
    BY <1>1, <1>2, <2>1 DEF HitlInv
<1>4. ASSUME heap' = heap, left' = left PROVE HitlInv'
  <2>1. \A i \in Injections : Counted(i)'
    BY <1>1, <1>2, <1>4 DEF HitlInv, Counted, InQueue, Held, Gone
  <2>2. QED
    BY <1>1, <1>2, <1>4, <2>1 DEF HitlInv
<1>5. QED
  BY <1>1, <1>3, <1>4

LEMMA AbortRemoveStep == ASSUME HitlInv, NEW c \in Callers, AbortRemove(c) PROVE HitlInv'
<1>1. caller[c].step = "idle" /\ sent' = sent /\ left' = left
  BY DEF AbortRemove
<1>2. PICK i \in Queued, t \in Tenants :
        heap' = Without(i) /\ Holds(c, [step |-> "aborting", inj |-> i, tenant |-> t])
  BY DEF AbortRemove
<1>3. i \in Injections /\ i \in sent /\ InQueue(i) = 1 /\ Held(i) = 0 /\ Gone(i) = 0
  BY QueuedIsThere
<1>4. ASSUME NEW j \in Injections PROVE Counted(j)'
  <2>1. InQueue(j)' = IF j = i THEN 0 ELSE InQueue(j)
    BY <1>2, WithoutIs DEF InQueue
  <2>2. Gone(j)' = Gone(j)
    BY <1>1 DEF Gone
  <2>3. /\ InQueue(j) + Held(j) + Gone(j) = IF j \in sent THEN 1 ELSE 0
        /\ IsFiniteSet(InHand(j)) /\ c \notin InHand(j)
    BY <1>1 DEF HitlInv, Counted, InHand
  <2>4. InHand(j)' = IF j = i THEN InHand(j) \cup {c} ELSE InHand(j) \ {c}
    BY <1>2, HandAfter
  <2>5. CASE j = i
    <3>1. InHand(j)' = InHand(j) \cup {c}
      BY <2>4, <2>5
    <3>2. IsFiniteSet(InHand(j)') /\ Held(j)' = Held(j) + 1
      BY <2>3, <3>1, FS_AddElement DEF Held
    <3>3. InQueue(j)' + Held(j)' + Gone(j)' = 1
      BY <1>3, <2>1, <2>2, <2>5, <3>2
    <3>4. QED
      BY <1>1, <1>3, <2>5, <3>2, <3>3, OthersStay
  <2>6. CASE j # i
    <3>1. InHand(j)' = InHand(j)
      BY <2>3, <2>4, <2>6
    <3>2. IsFiniteSet(InHand(j)') /\ Held(j)' = Held(j)
      BY <2>3, <3>1 DEF Held
    <3>3. InQueue(j)' + Held(j)' + Gone(j)' = IF j \in sent' THEN 1 ELSE 0
      BY <1>1, <2>1, <2>2, <2>3, <2>6, <3>2
    <3>4. QED
      BY <3>2, <3>3, OthersStay
  <2>7. QED
    BY <2>5, <2>6
<1>5. heap' \in Seq(Injections)
  BY <1>2, WithoutIs
<1>6. /\ DOMAIN caller' = Callers
      /\ \A b \in Callers : caller'[b].step = "aborting" => caller'[b].inj \in Injections
  BY <1>2, <1>3 DEF Holds, HitlInv
<1>7. QED
  BY <1>1, <1>4, <1>5, <1>6 DEF HitlInv

\* What an abort holds leaves its hands.
LEMMA HandEmptied ==
    ASSUME HitlInv, NEW c \in Callers, caller[c].step = "aborting", Holds(c, [step |-> "idle"]),
           NEW j \in Injections
    PROVE  /\ IsFiniteSet(InHand(j)')
           /\ Held(j)' = IF j = caller[c].inj THEN 0 ELSE Held(j)
<1> DEFINE i == caller[c].inj
<1>1. InHand(j)' = InHand(j) \ {c}
  <2>1. [step |-> "idle"].step # "aborting"
    OBVIOUS
  <2>2. QED
    BY <2>1, HandAfter
<1>2. IsFiniteSet(InHand(j)) /\ Held(j) \in Nat
  BY CountsAreNumbers
<1>3. CASE j = i
  <2>1. Held(j) = 1 /\ c \in InHand(j)
    BY <1>3, HeldIsThere DEF InHand
  <2>2. IsFiniteSet(InHand(j)') /\ Cardinality(InHand(j)') = Cardinality(InHand(j)) - 1
    BY <1>1, <1>2, <2>1, FS_RemoveElement
  <2>3. QED
    BY <1>3, <2>1, <2>2 DEF Held
<1>4. CASE j # i
  <2>1. InHand(j)' = InHand(j)
    BY <1>1, <1>4 DEF InHand
  <2>2. QED
    BY <1>2, <1>4, <2>1 DEF Held
<1>5. QED
  BY <1>3, <1>4

LEMMA AbortGiveBackStep == ASSUME HitlInv, NEW c \in Callers, AbortGiveBack(c) PROVE HitlInv'
<1> DEFINE i == caller[c].inj
<1>1. /\ caller[c].step = "aborting" /\ heap' = Append(heap, i) /\ Holds(c, [step |-> "idle"])
      /\ sent' = sent /\ left' = left
  BY DEF AbortGiveBack
<1>2. i \in Injections /\ i \in sent /\ InQueue(i) = 0 /\ Held(i) = 1 /\ Gone(i) = 0
  BY <1>1, HeldIsThere
<1>3. \A j \in Injections : IsFiniteSet(InHand(j)') /\ Held(j)' = IF j = i THEN 0 ELSE Held(j)
  BY <1>1, HandEmptied
<1>4. /\ DOMAIN caller' = Callers
      /\ \A b \in Callers : caller'[b].step = "aborting" => caller'[b].inj \in Injections
  BY <1>1 DEF Holds, HitlInv
<1> HIDE DEF i
<1>5. ASSUME NEW j \in Injections PROVE Counted(j)'
  <2>1. InQueue(j)' = InQueue(j) + (IF i = j THEN 1 ELSE 0)
    BY <1>1, <1>2, CountAppend DEF HitlInv, InQueue
  <2>2. Gone(j)' = Gone(j)
    BY <1>1 DEF Gone
  <2>3. /\ InQueue(j) \in Nat /\ Held(j) \in Nat /\ Gone(j) \in Nat
        /\ InQueue(j) + Held(j) + Gone(j) = IF j \in sent THEN 1 ELSE 0
    BY CountsAreNumbers DEF HitlInv, Counted
  <2>4. Held(j)' = IF j = i THEN 0 ELSE Held(j)
    BY <1>3
  <2>5. InQueue(j)' + Held(j)' + Gone(j)' = IF j \in sent' THEN 1 ELSE 0
    BY <1>1, <1>2, <2>1, <2>2, <2>3, <2>4
  <2>6. QED
    BY <1>3, <2>5, OthersStay
<1>6. heap' \in Seq(Injections)
  BY <1>1, <1>2, AppendElements DEF HitlInv
<1>7. QED
  BY <1>1, <1>4, <1>5, <1>6 DEF HitlInv

LEMMA AbortRecordStep == ASSUME HitlInv, NEW c \in Callers, AbortRecord(c) PROVE HitlInv'
<1> DEFINE i == caller[c].inj
<1>1. /\ caller[c].step = "aborting" /\ Leaves(i, "aborted") /\ Holds(c, [step |-> "idle"])
      /\ sent' = sent /\ heap' = heap
  BY DEF AbortRecord
<1>2. /\ i \in Injections /\ i \in sent /\ InQueue(i) = 0 /\ Held(i) = 1 /\ Gone(i) = 0
      /\ left[i] = {}
  BY <1>1, HeldIsThere
<1>3. \A j \in Injections : IsFiniteSet(InHand(j)') /\ Held(j)' = IF j = i THEN 0 ELSE Held(j)
  BY <1>1, HandEmptied
<1>4. /\ DOMAIN caller' = Callers
      /\ \A b \in Callers : caller'[b].step = "aborting" => caller'[b].inj \in Injections
  BY <1>1 DEF Holds, HitlInv
<1> HIDE DEF i
<1>5. ASSUME NEW j \in Injections PROVE Counted(j)'
  <2>1. InQueue(j)' = InQueue(j)
    BY <1>1 DEF InQueue
  <2>2. /\ InQueue(j) \in Nat /\ Held(j) \in Nat /\ Gone(j) \in Nat
        /\ InQueue(j) + Held(j) + Gone(j) = IF j \in sent THEN 1 ELSE 0
    BY CountsAreNumbers DEF HitlInv, Counted
  <2>3. Held(j)' = IF j = i THEN 0 ELSE Held(j)
    BY <1>3
  <2>4. Gone(j)' = IF j = i THEN 1 ELSE Gone(j)
    <3>1. CASE j = i
      <4>1. left'[j] = {"aborted"}
        BY <1>1, <1>2, <3>1 DEF Leaves, HitlInv
      <4>2. QED
        BY <3>1, <4>1, FS_Singleton DEF Gone
    <3>2. CASE j # i
      BY <1>1, <1>2, <3>2, SameHistory DEF Gone
    <3>3. QED
      BY <3>1, <3>2
  <2>5. InQueue(j)' + Held(j)' + Gone(j)' = IF j \in sent' THEN 1 ELSE 0
    BY <1>1, <1>2, <2>1, <2>2, <2>3, <2>4
  <2>6. QED
    BY <1>3, <2>5, OthersStay
<1>6. left' \in [Injections -> SUBSET Ways]
  <2>1. "aborted" \in Ways
    BY DEF Ways
  <2>2. QED
    BY <1>1, <2>1 DEF Leaves, HitlInv
<1>7. QED
  BY <1>1, <1>4, <1>5, <1>6 DEF HitlInv

\* resolve takes out what is still there.
LEMMA MergeResolveStep == ASSUME HitlInv, MergeResolve PROVE HitlInv'
<1> DEFINE i == Head(merge)
<1>1. /\ heap' = Without(i) /\ caller' = caller /\ sent' = sent
      /\ IF i \in Queued THEN Leaves(i, "resolved") ELSE UNCHANGED left
  BY DEF MergeResolve
<1> HIDE DEF i
<1>2. \A j \in Injections : InHand(j)' = InHand(j)
  BY <1>1, SameHands
<1>3. CASE i \in Queued
  <2>1. "resolved" \in Ways
    BY DEF Ways
  <2>2. /\ heap' \in Seq(Injections) /\ left' \in [Injections -> SUBSET Ways]
        /\ \A j \in Injections : Counted(j)'
    BY <1>1, <1>2, <1>3, <2>1, LeavesTheQueue
  <2>3. QED
    BY <1>1, <2>2 DEF HitlInv
<1>4. CASE i \notin Queued
  <2>1. heap \in Seq(Injections) /\ ToSet(heap) \subseteq Injections \ {i}
    BY <1>4, SeqElements DEF HitlInv, Queued
  <2>2. heap' = heap
    BY <1>1, <2>1, RetainAll DEF Without
  <2>3. left' = left
    BY <1>1, <1>4
  <2>4. \A j \in Injections : Counted(j)'
    BY <1>1, <1>2, <2>2, <2>3 DEF HitlInv, Counted, InQueue, Held, Gone
  <2>5. QED
    BY <1>1, <2>2, <2>3, <2>4 DEF HitlInv
<1>5. QED
  BY <1>3, <1>4

LEMMA HitlStep == HitlInv /\ [HitlNext]_hitlVars => HitlInv'
<1> SUFFICES ASSUME HitlInv, [HitlNext]_hitlVars PROVE HitlInv'
  OBVIOUS
<1>1. ASSUME UNCHANGED <<heap, sent, left, caller>> PROVE HitlInv'
  BY <1>1 DEF HitlInv, Counted, InQueue, Held, Gone, InHand
<1>2. ASSUME NEW i \in Injections, Enqueue(i) PROVE HitlInv'
  BY <1>2, EnqueueStep
<1>3. ASSUME NEW c \in Callers, PollClone(c) PROVE HitlInv'
  BY <1>3, PollCloneStep
<1>4. ASSUME NEW c \in Callers, PollPop(c) PROVE HitlInv'
  BY <1>4, PollPopStep
<1>5. ASSUME NEW c \in Callers, AbortRemove(c) PROVE HitlInv'
  BY <1>5, AbortRemoveStep
<1>6. ASSUME NEW c \in Callers, AbortGiveBack(c) PROVE HitlInv'
  BY <1>6, AbortGiveBackStep
<1>7. ASSUME NEW c \in Callers, AbortRecord(c) PROVE HitlInv'
  BY <1>7, AbortRecordStep
<1>8. CASE MergeResolve
  BY <1>8, MergeResolveStep
<1>9. ASSUME NEW t \in Tenants, MergeDecide(t) \/ ClarifyScheduled(t) \/ ClarifyFinalized(t)
      PROVE  HitlInv'
  BY <1>1, <1>9 DEF MergeDecide, ClarifyScheduled, ClarifyFinalized
<1>10. CASE UNCHANGED hitlVars
  BY <1>1, <1>10 DEF hitlVars
<1>11. QED
  BY <1>2, <1>3, <1>4, <1>5, <1>6, <1>7, <1>8, <1>9, <1>10 DEF HitlNext

\* Every injection sent is in one place, whatever callers, tenants and merges are
\* in the service at once: in the queue once, in the hands of one abort, or gone
\* one way.
THEOREM NoInjectionIsLost == HitlSpec => []InjectionsAreConserved
<1>1. HitlInv => InjectionsAreConserved
  <2> SUFFICES ASSUME HitlInv, NEW i \in sent
               PROVE  Cardinality({n \in DOMAIN heap : heap[n] = i})
                        + Cardinality(InHand(i)) + Cardinality(left[i]) = 1
    BY DEF InjectionsAreConserved
  <2>1. Counted(i)
    BY DEF HitlInv
  <2>2. QED
    BY <2>1 DEF Counted, InQueue, Held, Gone, Places
<1>2. QED
  BY <1>1, HitlInitial, HitlStep, PTL DEF HitlSpec

-----------------------------------------------------------------------------
(* CollabBarrier: the strengthening                                         *)

\* The children of a group are those of its parent whose spawn succeeded.
GroupsHoldSpawned ==
    \A p \in Parents : groups[p] # NoGroup =>
        \A c \in groups[p].registered : spawn[c] = "spawned" /\ ParentOf[c] = p

\* A result that was injected is of a child whose spawn succeeded; while the
\* child is still in a group, the call that injected it is about to finish it.
InjectedAreLeaving ==
    \A i \in DOMAIN injected : \A c \in injected[i].results :
        /\ c \in Children
        /\ spawn[c] = "spawned"
        /\ groups[ParentOf[c]] # NoGroup /\ c \in groups[ParentOf[c]].registered =>
              \E k \in Aggregating(ParentOf[c]) : call[k] = "finishing"

\* A call that is about to finish its group has injected the results.
FinishingHasInjected ==
    \A k \in Calls : call[k] = "finishing" =>
        \E i \in DOMAIN injected : injected[i].results = copy[k].completed

Inv ==
    /\ TypeOK
    /\ GroupsHoldSpawned
    /\ AggregationIsAlone
    /\ InjectedAreLeaving
    /\ FinishingHasInjected
    /\ ResultsInjectedOnce
    /\ InjectionsAreWhole
    /\ RegisteredChildrenAreKept

-----------------------------------------------------------------------------
(* CollabBarrier: groups                                                    *)

\* A ready group is full, and every child in it has completed.
LEMMA ReadyGroup ==
  ASSUME NEW g \in Groups, GroupOK(g), IsReady(g)
  PROVE  /\ g.completed = g.registered
         /\ Cardinality(g.registered) = g.expected
<1>1. IsFiniteSet(g.registered) /\ g.completed \in SUBSET g.registered
  BY DEF GroupOK, Groups
<1>2. Cardinality(g.registered) = Cardinality(g.completed)
  BY DEF IsReady
<1>3. g.registered = g.completed
  BY <1>1, <1>2, FS_Subset
<1> QED
  BY <1>2, <1>3 DEF IsReady

\* No child can register in a ready group, and none can complete again.
LEMMA ReadyIsClosed ==
  ASSUME NEW g \in Groups, GroupOK(g), IsReady(g), NEW c
  PROVE  ~Registrable(g, c) /\ ~Completable(g, c)
<1>1. g.expected \in Nat
  BY DEF Groups
<1> QED
  BY <1>1, ReadyGroup DEF Registrable, Completable

LEMMA RegisterKeepsGroup ==
  ASSUME NEW g \in Groups, GroupOK(g), NEW c \in Children, Registrable(g, c),
         NEW h, h = [g EXCEPT !.registered = @ \cup {c}]
  PROVE  h \in Groups /\ GroupOK(h)
<1>1. /\ h.registered = g.registered \cup {c}
      /\ h.completed = g.completed
      /\ h.expected = g.expected
      /\ h \in Groups
  BY DEF Groups
<1>2. IsFiniteSet(h.registered) /\ Cardinality(h.registered) = Cardinality(g.registered) + 1
  BY <1>1, FS_AddElement DEF GroupOK, Registrable
<1>3. Cardinality(g.registered) \in Nat /\ g.expected \in Nat
  BY FS_CardinalityType DEF GroupOK, Groups
<1> QED
  BY <1>1, <1>2, <1>3 DEF GroupOK, Registrable

LEMMA CompleteKeepsGroup ==
  ASSUME NEW g \in Groups, GroupOK(g), NEW c \in Children, Completable(g, c)
  PROVE  /\ Complete(g, c) \in Groups
         /\ GroupOK(Complete(g, c))
         /\ Complete(g, c).registered = g.registered
<1>1. /\ Complete(g, c).registered = g.registered
      /\ Complete(g, c).completed = g.completed \cup {c}
      /\ Complete(g, c).expected = g.expected
      /\ Complete(g, c) \in Groups
  BY DEF Groups, Complete
<1> QED
  BY <1>1 DEF GroupOK, Completable

LEMMA EmptyGroup ==
  ASSUME NEW n \in Nat
  PROVE  Group(n, {}, {}) \in Groups /\ GroupOK(Group(n, {}, {}))
  BY FS_EmptySet DEF Group, Groups, GroupOK

LEMMA ParentOfCallType == \A k \in Calls : ChildOf[k] \in Children /\ ParentOfCall(k) \in Parents
  BY BarrierAssumption DEF ParentOfCall

LEMMA NoGroupIsNone == NoGroup \notin Groups
  BY BarrierAssumption DEF Groups

-----------------------------------------------------------------------------
(* CollabBarrier: types                                                     *)

LEMMA BarrierTypeStep == TypeOK /\ AggregationIsAlone /\ [Next]_vars => TypeOK'
<1> SUFFICES ASSUME TypeOK, AggregationIsAlone, [Next]_vars PROVE TypeOK'
  OBVIOUS
<1> USE NoGroupIsNone, ParentOfCallType, BarrierAssumption
<1> DEFINE GroupsOK == \A p \in Parents : groups[p] # NoGroup => GroupOK(groups[p])
<1>1. ASSUME NEW c \in Children, Spawn(c) PROVE TypeOK'
  <2>1. CASE SpawnLook(c) \/ SpawnConflict(c) \/ SpawnSchedule(c) \/ SpawnOrphan(c)
    BY <2>1 DEF SpawnLook, SpawnConflict, SpawnSchedule, SpawnOrphan, SpawnStep, TypeOK,
       SpawnSteps
  <2>2. CASE SpawnCreate(c)
    <3>1. RoundsOf[c] \in Nat
      OBVIOUS
    <3>2. groups' \in [Parents -> Groups \cup {NoGroup}] /\ GroupsOK'
      BY <2>2, <3>1, EmptyGroup DEF SpawnCreate, TypeOK
    <3> QED
      BY <2>2, <3>2 DEF SpawnCreate, SpawnStep, TypeOK, SpawnSteps
  <2>3. CASE SpawnRegister(c)
    <3> DEFINE p == ParentOf[c]
               h == [groups[p] EXCEPT !.registered = @ \cup {c}]
    <3>1. p \in Parents /\ groups[p] \in Groups /\ GroupOK(groups[p]) /\ Registrable(groups[p], c)
      BY <2>3 DEF SpawnRegister, CanRegister, TypeOK
    <3>2. h \in Groups /\ GroupOK(h)
      BY <3>1, RegisterKeepsGroup
    <3>3. groups' = [groups EXCEPT ![p] = h]
      BY <2>3 DEF SpawnRegister
    <3>4. groups' \in [Parents -> Groups \cup {NoGroup}] /\ GroupsOK'
      BY <3>1, <3>2, <3>3 DEF TypeOK
    <3> QED
      BY <2>3, <3>4 DEF SpawnRegister, SpawnStep, TypeOK, SpawnSteps
  <2> QED
    BY <1>1, <2>1, <2>2, <2>3 DEF Spawn
<1>2. ASSUME NEW k \in Calls, Absorb(k) PROVE TypeOK'
  <2>1. CASE AbsorbComplete(k)
    <3> DEFINE p == ParentOfCall(k)
               h == Complete(groups[p], ChildOf[k])
    <3>1. /\ p \in Parents /\ groups[p] \in Groups /\ GroupOK(groups[p])
          /\ Completable(groups[p], ChildOf[k])
      BY <2>1 DEF AbsorbComplete, CanComplete, TypeOK
    <3>2. h \in Groups /\ GroupOK(h)
      BY <3>1, CompleteKeepsGroup
    <3>3. groups' = [groups EXCEPT ![p] = h]
      BY <2>1 DEF AbsorbComplete
    <3>4. groups' \in [Parents -> Groups \cup {NoGroup}] /\ GroupsOK'
      BY <3>1, <3>2, <3>3 DEF TypeOK
    <3> QED
      BY <2>1, <3>4 DEF AbsorbComplete, CallStep, Answer, TypeOK, CallSteps
  <2>2. CASE AbsorbRefused(k)
    BY <2>2 DEF AbsorbRefused, CallStep, TypeOK, CallSteps
  <2> QED
    BY <1>2, <2>1, <2>2 DEF Absorb
<1>3. ASSUME NEW k \in Calls, Aggregate(k) PROVE TypeOK'
  <2>1. CASE AggregateLook(k)
    BY <2>1 DEF AggregateLook, CallStep, TypeOK, CallSteps
  <2>2. CASE AggregateInject(k)
    <3>1. copy[k] \in Groups
      BY <2>2 DEF AggregateInject, CallStep, AggregationIsAlone, Aggregating, TypeOK
    <3>2. [parent |-> ParentOfCall(k), total |-> copy[k].expected,
           results |-> copy[k].completed] \in Aggregations
      BY <3>1 DEF Groups, Aggregations
    <3>3. injected' \in Seq(Aggregations)
      BY <2>2, <3>2 DEF AggregateInject, TypeOK
    <3> QED
      BY <2>2, <3>3 DEF AggregateInject, CallStep, TypeOK, CallSteps
  <2>3. CASE AggregateFinish(k)
    BY <2>3 DEF AggregateFinish, CallStep, TypeOK, CallSteps
  <2> QED
    BY <1>3, <2>1, <2>2, <2>3 DEF Aggregate
<1>4. CASE Finished \/ UNCHANGED vars
  BY <1>4 DEF Finished, vars, TypeOK
<1> QED
  BY <1>1, <1>2, <1>3, <1>4 DEF Next
-----------------------------------------------------------------------------
(* CollabBarrier: the steps of a spawn and of a call                        *)

\* A spawn changes at most the group of its parent, and not while that group is
\* aggregated: a ready group takes no further child.
LEMMA SpawnKeepsInv ==
  ASSUME Inv, NEW c \in Children, Spawn(c), TypeOK'
  PROVE  Inv'
<1> USE NoGroupIsNone, ParentOfCallType, BarrierAssumption
<1> DEFINE q == ParentOf[c]
<1>1. /\ call' = call /\ copy' = copy /\ injected' = injected
      /\ spawn \in [Children -> SpawnSteps]
      /\ spawn[c] # "spawned"
      /\ q \in Parents
  BY DEF Spawn, SpawnLook, SpawnCreate, SpawnConflict, SpawnSchedule, SpawnRegister,
     SpawnOrphan, SpawnStep, Inv, TypeOK
\* Only the group of the child's parent may change: it comes to be, or gets c.
<1>2. \/ groups' = groups /\ spawn'[c] # "spawned"
      \/ /\ groups[q] = NoGroup
         /\ groups' = [groups EXCEPT ![q] = Group(RoundsOf[c], {}, {})]
         /\ spawn'[c] # "spawned"
      \/ /\ CanRegister(q, c)
         /\ groups' = [groups EXCEPT ![q].registered = @ \cup {c}]
         /\ spawn'[c] = "spawned"
  BY <1>1 DEF Spawn, SpawnLook, SpawnCreate, SpawnConflict, SpawnSchedule, SpawnRegister,
     SpawnOrphan, SpawnStep
\* A registration keeps the children that were in the group.
<1>r. CanRegister(q, c) /\ groups' = [groups EXCEPT ![q].registered = @ \cup {c}] =>
         /\ groups[q] # NoGroup /\ groups'[q] # NoGroup
         /\ groups'[q].registered = groups[q].registered \cup {c}
  <2> SUFFICES ASSUME CanRegister(q, c), groups' = [groups EXCEPT ![q].registered = @ \cup {c}]
               PROVE  /\ groups[q] # NoGroup /\ groups'[q] # NoGroup
                      /\ groups'[q].registered = groups[q].registered \cup {c}
    OBVIOUS
  <2>1. groups[q] \in Groups /\ GroupOK(groups[q]) /\ Registrable(groups[q], c) /\ groups[q] # NoGroup
    BY <1>1 DEF CanRegister, Inv, TypeOK
  <2>2. groups'[q] = [groups[q] EXCEPT !.registered = @ \cup {c}]
    BY <1>1 DEF Inv, TypeOK
  <2> QED
    BY <2>1, <2>2, RegisterKeepsGroup DEF Groups
<1>3. \A d \in Children \ {c} : spawn'[d] = spawn[d]
  BY <1>1 DEF Spawn, SpawnLook, SpawnCreate, SpawnConflict, SpawnSchedule, SpawnRegister,
     SpawnOrphan, SpawnStep
<1>4. \A p \in Parents \ {q} : groups'[p] = groups[p]
  BY <1>1, <1>2 DEF Inv, TypeOK
<1>5. Aggregating(q) # {} => groups'[q] = groups[q] /\ groups[q] # NoGroup
  <2> SUFFICES ASSUME NEW k \in Aggregating(q)
               PROVE  groups'[q] = groups[q] /\ groups[q] # NoGroup
    OBVIOUS
  <2>1. groups[q] # NoGroup /\ groups[q] \in Groups /\ GroupOK(groups[q]) /\ IsReady(groups[q])
    BY <1>1 DEF Inv, TypeOK, AggregationIsAlone
  <2> QED
    BY <1>2, <2>1, ReadyIsClosed DEF CanRegister
<1>6. \A p \in Parents : Aggregating(p)' = Aggregating(p)
  BY <1>1 DEF Aggregating
<1>7. AggregationIsAlone'
  BY <1>1, <1>4, <1>5, <1>6 DEF AggregationIsAlone, Inv
<1>8. \A p \in Parents : groups'[p] # NoGroup =>
         \A d \in groups'[p].registered :
            \/ groups[p] # NoGroup /\ d \in groups[p].registered
            \/ d = c /\ p = q /\ spawn'[c] = "spawned"
  BY <1>1, <1>2, <1>4 DEF Inv, TypeOK, Group, Groups, CanRegister
<1>9. GroupsHoldSpawned'
  <2> SUFFICES ASSUME NEW p \in Parents, groups'[p] # NoGroup, NEW d \in groups'[p].registered
               PROVE  spawn'[d] = "spawned" /\ ParentOf[d] = p
    BY DEF GroupsHoldSpawned
  <2>1. CASE groups[p] # NoGroup /\ d \in groups[p].registered
    <3>1. spawn[d] = "spawned" /\ ParentOf[d] = p
      BY <2>1 DEF Inv, GroupsHoldSpawned
    <3>2. d \in Children
      BY <2>1 DEF Inv, TypeOK, Groups
    <3> QED
      BY <1>1, <1>3, <3>1, <3>2
  <2> QED
    BY <1>8, <2>1
<1>10. InjectedAreLeaving'
  BY <1>1, <1>3, <1>6, <1>8 DEF InjectedAreLeaving, Inv
<1>11. FinishingHasInjected' /\ ResultsInjectedOnce' /\ InjectionsAreWhole'
  BY <1>1 DEF Inv, FinishingHasInjected, ResultsInjectedOnce, InjectionsAreWhole
<1>12. RegisteredChildrenAreKept'
  <2> SUFFICES ASSUME NEW d \in Children, spawn'[d] = "spawned"
               PROVE  \/ groups'[ParentOf[d]] # NoGroup /\ d \in groups'[ParentOf[d]].registered
                      \/ \E i \in DOMAIN injected' : d \in injected'[i].results
    BY DEF RegisteredChildrenAreKept
  <2>1. CASE d = c
    BY <1>2, <1>r, <2>1
  <2>2. CASE d # c
    <3>1. \/ groups[ParentOf[d]] # NoGroup /\ d \in groups[ParentOf[d]].registered
          \/ \E i \in DOMAIN injected : d \in injected[i].results
      BY <1>3, <2>2 DEF Inv, RegisteredChildrenAreKept
    <3>2. groups[ParentOf[d]] # NoGroup /\ d \in groups[ParentOf[d]].registered =>
             groups'[ParentOf[d]] # NoGroup /\ d \in groups'[ParentOf[d]].registered
      BY <1>2, <1>4, <1>r
    <3> QED
      BY <1>1, <3>1, <3>2
  <2> QED
    BY <2>1, <2>2
<1> QED
  BY <1>7, <1>9, <1>10, <1>11, <1>12 DEF Inv
\* A completion finds no call aggregating the group, and may begin to.
LEMMA AbsorbKeepsInv ==
  ASSUME Inv, NEW k \in Calls, Absorb(k), TypeOK'
  PROVE  Inv'
<1> USE NoGroupIsNone, ParentOfCallType, BarrierAssumption
<1> DEFINE q == ParentOfCall(k)
           c == ChildOf[k]
<1>1. CASE AbsorbRefused(k)
  <2>1. /\ UNCHANGED <<groups, spawn, copy, injected>>
        /\ call[k] = "idle" /\ call' = [call EXCEPT ![k] = "refused"]
        /\ call \in [Calls -> CallSteps]
    BY <1>1 DEF AbsorbRefused, CallStep, Inv, TypeOK
  <2>2. \A p \in Parents : Aggregating(p)' = Aggregating(p)
    BY <2>1 DEF Aggregating, ParentOfCall
  <2>3. \A j \in Calls : call'[j] \in {"looking", "injecting", "finishing"} => call'[j] = call[j]
    BY <2>1
  <2>4. AggregationIsAlone'
    BY <2>1, <2>2, <2>3 DEF AggregationIsAlone, Inv, Aggregating
  <2>5. InjectedAreLeaving'
    BY <2>1, <2>2 DEF InjectedAreLeaving, Inv, Aggregating
  <2>6. FinishingHasInjected'
    BY <2>1, <2>3 DEF FinishingHasInjected, Inv
  <2> QED
    BY <2>1, <2>4, <2>5, <2>6 DEF Inv, GroupsHoldSpawned, ResultsInjectedOnce,
       InjectionsAreWhole, RegisteredChildrenAreKept
<1>2. CASE AbsorbComplete(k)
  <2> DEFINE g == groups[q]
             h == Complete(groups[q], c)
  <2>1. /\ UNCHANGED <<spawn, copy, injected>>
        /\ call[k] = "idle" /\ call' = [call EXCEPT ![k] = Answer(g, c)]
        /\ call \in [Calls -> CallSteps]
        /\ groups' = [groups EXCEPT ![q] = h]
        /\ q \in Parents /\ g \in Groups /\ GroupOK(g) /\ g # NoGroup
        /\ Completable(g, c)
    BY <1>2 DEF AbsorbComplete, CanComplete, CallStep, Inv, TypeOK
  <2>2. h \in Groups /\ h # NoGroup /\ h.registered = g.registered
    BY <2>1, CompleteKeepsGroup
  <2>3. groups'[q] = h /\ \A p \in Parents \ {q} : groups'[p] = groups[p]
    BY <2>1 DEF Inv, TypeOK
  <2>4. Aggregating(q) = {}
    <3> SUFFICES ASSUME NEW j \in Aggregating(q) PROVE FALSE
      OBVIOUS
    <3>1. IsReady(g)
      BY <2>1 DEF Inv, AggregationIsAlone
    <3> QED
      BY <2>1, <3>1, ReadyIsClosed
  <2>5. \A j \in Calls : j # k => call'[j] = call[j]
    BY <2>1
  <2>6. (call'[k] = "looking" /\ IsReady(h)) \/ call'[k] = "done"
    BY <2>1 DEF Answer
  <2>7. \A p \in Parents \ {q} : Aggregating(p)' = Aggregating(p)
    BY <2>5 DEF Aggregating, ParentOfCall
  <2>8. Aggregating(q)' = IF call'[k] = "looking" THEN {k} ELSE {}
    BY <2>4, <2>5, <2>6 DEF Aggregating, ParentOfCall
  <2>9. AggregationIsAlone'
    <3> SUFFICES ASSUME NEW p \in Parents, NEW j \in Aggregating(p)'
                 PROVE  /\ Aggregating(p)' = {j}
                        /\ groups'[p] # NoGroup
                        /\ IsReady(groups'[p])
                        /\ call'[j] # "looking" => copy'[j] = groups'[p]
      BY DEF AggregationIsAlone
    <3>1. CASE p = q
      BY <2>2, <2>3, <2>6, <2>8, <3>1
    <3>2. CASE p # q
      <4>1. j \in Aggregating(p) /\ j # k
        BY <2>7, <3>2 DEF Aggregating
      <4> QED
        BY <2>1, <2>3, <2>5, <2>7, <3>2, <4>1 DEF AggregationIsAlone, Inv, Aggregating
    <3> QED
      BY <3>1, <3>2
  <2>10. \A p \in Parents : /\ groups'[p] # NoGroup <=> groups[p] # NoGroup
                            /\ groups[p] # NoGroup => groups'[p].registered = groups[p].registered
    BY <2>1, <2>2, <2>3
  <2>11. InjectedAreLeaving'
    <3> SUFFICES ASSUME NEW i \in DOMAIN injected, NEW d \in injected[i].results
                 PROVE  /\ d \in Children
                        /\ spawn[d] = "spawned"
                        /\ groups'[ParentOf[d]] # NoGroup /\ d \in groups'[ParentOf[d]].registered =>
                              \E j \in Aggregating(ParentOf[d])' : call'[j] = "finishing"
      BY <2>1 DEF InjectedAreLeaving
    <3>1. /\ d \in Children /\ spawn[d] = "spawned" /\ ParentOf[d] \in Parents
          /\ groups[ParentOf[d]] # NoGroup /\ d \in groups[ParentOf[d]].registered =>
                \E j \in Aggregating(ParentOf[d]) : call[j] = "finishing"
      BY DEF InjectedAreLeaving, Inv
    <3>2. ASSUME NEW j \in Aggregating(ParentOf[d]), call[j] = "finishing"
          PROVE  j \in Aggregating(ParentOf[d])' /\ call'[j] = "finishing"
      BY <2>1, <2>5, <3>1, <3>2 DEF Aggregating, ParentOfCall
    <3> QED
      BY <2>10, <3>1, <3>2
  <2>12. FinishingHasInjected'
    BY <2>1, <2>5, <2>6 DEF FinishingHasInjected, Inv
  <2>13. GroupsHoldSpawned' /\ RegisteredChildrenAreKept'
    BY <2>1, <2>10 DEF Inv, GroupsHoldSpawned, RegisteredChildrenAreKept
  <2> QED
    BY <2>1, <2>9, <2>11, <2>12, <2>13 DEF Inv, ResultsInjectedOnce, InjectionsAreWhole
<1> QED
  BY <1>1, <1>2 DEF Absorb
\* The group a call aggregates is its alone, from the clone to the end.
LEMMA AggregateOwnsItsGroup ==
  ASSUME Inv, NEW k \in Calls, call[k] \in {"looking", "injecting", "finishing"}
  PROVE  LET q == ParentOfCall(k) IN
         /\ q \in Parents
         /\ Aggregating(q) = {k}
         /\ groups[q] \in Groups /\ groups[q] # NoGroup /\ IsReady(groups[q])
         /\ groups[q].completed = groups[q].registered
         /\ call[k] # "looking" => copy[k] = groups[q]
<1> DEFINE q == ParentOfCall(k)
<1>1. q \in Parents /\ k \in Aggregating(q)
  BY ParentOfCallType DEF Aggregating
<1>2. /\ Aggregating(q) = {k} /\ groups[q] # NoGroup /\ IsReady(groups[q])
      /\ call[k] # "looking" => copy[k] = groups[q]
  BY <1>1 DEF Inv, AggregationIsAlone
<1>3. groups[q] \in Groups /\ GroupOK(groups[q])
  BY <1>1, <1>2 DEF Inv, TypeOK
<1> QED
  BY <1>1, <1>2, <1>3, ReadyGroup

LEMMA LookKeepsInv ==
  ASSUME Inv, NEW k \in Calls, AggregateLook(k), TypeOK'
  PROVE  Inv'
<1> USE ParentOfCallType, BarrierAssumption
<1> DEFINE q == ParentOfCall(k)
<1>1. /\ call[k] = "looking" /\ q \in Parents
      /\ Aggregating(q) = {k} /\ groups[q] # NoGroup /\ IsReady(groups[q])
  BY AggregateOwnsItsGroup DEF AggregateLook, CallStep
<1>2. /\ UNCHANGED <<groups, spawn, injected>>
      /\ call' = [call EXCEPT ![k] = "injecting"]
      /\ copy' = [copy EXCEPT ![k] = groups[q]]
      /\ call \in [Calls -> CallSteps] /\ copy \in [Calls -> Groups \cup {NoGroup}]
  BY <1>1 DEF AggregateLook, CallStep, Inv, TypeOK
<1>3. \A p \in Parents : Aggregating(p)' = Aggregating(p)
  BY <1>1, <1>2 DEF Aggregating, ParentOfCall
<1>4. \A j \in Calls \ {k} : call'[j] = call[j] /\ copy'[j] = copy[j]
  BY <1>2
<1>5. AggregationIsAlone'
  <2> SUFFICES ASSUME NEW p \in Parents, NEW j \in Aggregating(p)
               PROVE  /\ Aggregating(p) = {j}
                      /\ groups[p] # NoGroup
                      /\ IsReady(groups[p])
                      /\ call'[j] # "looking" => copy'[j] = groups[p]
    BY <1>2, <1>3 DEF AggregationIsAlone
  <2>1. CASE j = k
    BY <1>1, <1>2, <2>1 DEF Aggregating
  <2>2. CASE j # k
    BY <1>4, <2>2 DEF AggregationIsAlone, Inv, Aggregating
  <2> QED
    BY <2>1, <2>2
<1>6. InjectedAreLeaving'
  <2> SUFFICES ASSUME NEW i \in DOMAIN injected, NEW d \in injected[i].results
               PROVE  /\ d \in Children
                      /\ spawn[d] = "spawned"
                      /\ groups[ParentOf[d]] # NoGroup /\ d \in groups[ParentOf[d]].registered =>
                            \E j \in Aggregating(ParentOf[d]) : call'[j] = "finishing"
    BY <1>2, <1>3 DEF InjectedAreLeaving
  <2>1. \A j \in Calls : call[j] = "finishing" => call'[j] = "finishing"
    BY <1>1, <1>4
  <2> QED
    BY <2>1 DEF InjectedAreLeaving, Inv, Aggregating
<1>7. FinishingHasInjected'
  BY <1>2, <1>4 DEF FinishingHasInjected, Inv
<1> QED
  BY <1>2, <1>5, <1>6, <1>7 DEF Inv, GroupsHoldSpawned, ResultsInjectedOnce,
     InjectionsAreWhole, RegisteredChildrenAreKept

LEMMA InjectKeepsInv ==
  ASSUME Inv, NEW k \in Calls, AggregateInject(k), TypeOK'
  PROVE  Inv'
<1> USE ParentOfCallType, BarrierAssumption
<1> DEFINE q == ParentOfCall(k)
           new == [parent |-> q, total |-> copy[k].expected, results |-> copy[k].completed]
<1>1. /\ call[k] = "injecting" /\ q \in Parents
      /\ Aggregating(q) = {k} /\ groups[q] # NoGroup /\ groups[q] \in Groups
      /\ IsReady(groups[q]) /\ groups[q].completed = groups[q].registered
      /\ copy[k] = groups[q]
  BY AggregateOwnsItsGroup DEF AggregateInject, CallStep
<1>2. /\ UNCHANGED <<groups, spawn, copy>>
      /\ call' = [call EXCEPT ![k] = "finishing"]
      /\ call \in [Calls -> CallSteps] /\ injected \in Seq(Aggregations)
      /\ injected' = Append(injected, new)
  BY DEF AggregateInject, CallStep, Inv, TypeOK
<1>3. /\ DOMAIN injected' = DOMAIN injected \cup {Len(injected) + 1}
      /\ Len(injected) + 1 \notin DOMAIN injected
      /\ \A i \in DOMAIN injected : injected'[i] = injected[i]
      /\ injected'[Len(injected) + 1] = new
  BY <1>2
<1>4. \A p \in Parents : Aggregating(p)' = Aggregating(p)
  BY <1>1, <1>2 DEF Aggregating, ParentOfCall
<1>5. \A j \in Calls \ {k} : call'[j] = call[j]
  BY <1>2
<1>6. AggregationIsAlone'
  BY <1>1, <1>2, <1>4, <1>5 DEF AggregationIsAlone, Inv, Aggregating
\* What is injected now was not before: only a finishing call leaves it in the group.
<1>7. \A d \in new.results :
         /\ d \in Children /\ spawn[d] = "spawned" /\ ParentOf[d] = q
         /\ \A i \in DOMAIN injected : d \notin injected[i].results
  <2> SUFFICES ASSUME NEW d \in groups[q].registered
               PROVE  /\ d \in Children /\ spawn[d] = "spawned" /\ ParentOf[d] = q
                      /\ \A i \in DOMAIN injected : d \notin injected[i].results
    BY <1>1
  <2>1. d \in Children /\ spawn[d] = "spawned" /\ ParentOf[d] = q
    BY <1>1 DEF Inv, GroupsHoldSpawned, Groups
  <2>2. ASSUME NEW i \in DOMAIN injected, d \in injected[i].results PROVE FALSE
    <3>1. PICK j \in Aggregating(q) : call[j] = "finishing"
      BY <1>1, <2>1, <2>2 DEF Inv, InjectedAreLeaving
    <3> QED
      BY <1>1, <3>1
  <2> QED
    BY <2>1, <2>2
<1>8. InjectedAreLeaving'
  <2> SUFFICES ASSUME NEW i \in DOMAIN injected', NEW d \in injected'[i].results
               PROVE  /\ d \in Children
                      /\ spawn[d] = "spawned"
                      /\ groups[ParentOf[d]] # NoGroup /\ d \in groups[ParentOf[d]].registered =>
                            \E j \in Aggregating(ParentOf[d])' : call'[j] = "finishing"
    BY <1>2 DEF InjectedAreLeaving
  <2>1. CASE i \in DOMAIN injected
    <3>1. /\ d \in Children /\ spawn[d] = "spawned" /\ ParentOf[d] \in Parents
          /\ groups[ParentOf[d]] # NoGroup /\ d \in groups[ParentOf[d]].registered =>
                \E j \in Aggregating(ParentOf[d]) : call[j] = "finishing"
      BY <1>3, <2>1 DEF InjectedAreLeaving, Inv
    <3>2. \A j \in Calls : call[j] = "finishing" => call'[j] = "finishing"
      BY <1>1, <1>5
    <3> QED
      BY <1>4, <3>1, <3>2 DEF Aggregating
  <2>2. CASE i = Len(injected) + 1
    <3>1. d \in Children /\ spawn[d] = "spawned" /\ ParentOf[d] = q
      BY <1>3, <1>7, <2>2
    <3>2. k \in Aggregating(q)' /\ call'[k] = "finishing"
      BY <1>1, <1>2, <1>4
    <3> QED
      BY <3>1, <3>2
  <2> QED
    BY <1>3, <2>1, <2>2
<1>9. FinishingHasInjected'
  <2> SUFFICES ASSUME NEW j \in Calls, call'[j] = "finishing"
               PROVE  \E i \in DOMAIN injected' : injected'[i].results = copy[j].completed
    BY <1>2 DEF FinishingHasInjected
  <2>1. CASE j = k
    BY <1>3, <2>1
  <2>2. CASE j # k
    BY <1>3, <1>5, <2>2 DEF FinishingHasInjected, Inv
  <2> QED
    BY <2>1, <2>2
<1>10. ResultsInjectedOnce'
  <2> SUFFICES ASSUME NEW i \in DOMAIN injected', NEW j \in DOMAIN injected',
                      NEW d \in injected'[i].results, d \in injected'[j].results
               PROVE  i = j
    BY DEF ResultsInjectedOnce
  <2>1. CASE i \in DOMAIN injected /\ j \in DOMAIN injected
    BY <1>3, <2>1 DEF Inv, ResultsInjectedOnce
  <2>2. CASE i \notin DOMAIN injected \/ j \notin DOMAIN injected
    BY <1>3, <1>7, <2>2
  <2> QED
    BY <2>1, <2>2
<1>11. InjectionsAreWhole'
  <2>1. Cardinality(new.results) = new.total
    BY <1>1 DEF IsReady
  <2> QED
    BY <1>3, <2>1 DEF Inv, InjectionsAreWhole
<1>12. RegisteredChildrenAreKept'
  BY <1>2, <1>3 DEF Inv, RegisteredChildrenAreKept
<1> QED
  BY <1>2, <1>6, <1>8, <1>9, <1>10, <1>11, <1>12 DEF Inv, GroupsHoldSpawned
\* The group that is removed has injected every child it held.
LEMMA FinishKeepsInv ==
  ASSUME Inv, NEW k \in Calls, AggregateFinish(k), TypeOK'
  PROVE  Inv'
<1> USE ParentOfCallType, BarrierAssumption
<1> DEFINE q == ParentOfCall(k)
<1>1. /\ call[k] = "finishing" /\ q \in Parents
      /\ Aggregating(q) = {k} /\ groups[q] # NoGroup /\ groups[q] \in Groups
      /\ groups[q].completed = groups[q].registered
      /\ copy[k] = groups[q]
  BY AggregateOwnsItsGroup DEF AggregateFinish, CallStep
<1>2. /\ UNCHANGED <<spawn, injected>>
      /\ call' = [call EXCEPT ![k] = "done"]
      /\ copy' = [copy EXCEPT ![k] = NoGroup]
      /\ groups' = [groups EXCEPT ![q] = NoGroup]
      /\ groups \in [Parents -> Groups \cup {NoGroup}]
      /\ call \in [Calls -> CallSteps] /\ copy \in [Calls -> Groups \cup {NoGroup}]
  BY DEF AggregateFinish, CallStep, Inv, TypeOK
<1>3. groups'[q] = NoGroup /\ \A p \in Parents \ {q} : groups'[p] = groups[p]
  BY <1>1, <1>2
<1>4. \A j \in Calls \ {k} : call'[j] = call[j] /\ copy'[j] = copy[j]
  BY <1>2
<1>5. call'[k] = "done"
  BY <1>2
<1>6. Aggregating(q)' = {}
  BY <1>1, <1>4, <1>5 DEF Aggregating, ParentOfCall
<1>7. \A p \in Parents \ {q} : Aggregating(p)' = Aggregating(p) /\ k \notin Aggregating(p)
  BY <1>4 DEF Aggregating, ParentOfCall
<1>8. AggregationIsAlone'
  <2> SUFFICES ASSUME NEW p \in Parents, NEW j \in Aggregating(p)'
               PROVE  /\ Aggregating(p)' = {j}
                      /\ groups'[p] # NoGroup
                      /\ IsReady(groups'[p])
                      /\ call'[j] # "looking" => copy'[j] = groups'[p]
    BY DEF AggregationIsAlone
  <2>1. p # q /\ j \in Aggregating(p) /\ j \in Calls \ {k}
    BY <1>6, <1>7 DEF Aggregating
  <2> QED
    BY <1>3, <1>4, <1>7, <2>1 DEF AggregationIsAlone, Inv
<1>9. GroupsHoldSpawned'
  BY <1>2, <1>3 DEF GroupsHoldSpawned, Inv
<1>10. InjectedAreLeaving'
  <2> SUFFICES ASSUME NEW i \in DOMAIN injected, NEW d \in injected[i].results
               PROVE  /\ d \in Children
                      /\ spawn[d] = "spawned"
                      /\ groups'[ParentOf[d]] # NoGroup /\ d \in groups'[ParentOf[d]].registered =>
                            \E j \in Aggregating(ParentOf[d])' : call'[j] = "finishing"
    BY <1>2 DEF InjectedAreLeaving
  <2>1. /\ d \in Children /\ spawn[d] = "spawned" /\ ParentOf[d] \in Parents
        /\ groups[ParentOf[d]] # NoGroup /\ d \in groups[ParentOf[d]].registered =>
              \E j \in Aggregating(ParentOf[d]) : call[j] = "finishing"
    BY DEF InjectedAreLeaving, Inv
  <2>2. CASE ParentOf[d] = q
    BY <1>3, <2>1, <2>2
  <2>3. CASE ParentOf[d] # q
    <3>1. ASSUME NEW j \in Aggregating(ParentOf[d]), call[j] = "finishing"
          PROVE  j \in Aggregating(ParentOf[d])' /\ call'[j] = "finishing"
      BY <1>4, <1>7, <2>1, <2>3, <3>1 DEF Aggregating
    <3> QED
      BY <1>3, <2>1, <2>3, <3>1
  <2> QED
    BY <2>2, <2>3
<1>11. FinishingHasInjected'
  BY <1>2, <1>4, <1>5 DEF FinishingHasInjected, Inv
<1>12. RegisteredChildrenAreKept'
  <2>1. PICK i \in DOMAIN injected : injected[i].results = groups[q].registered
    BY <1>1 DEF Inv, FinishingHasInjected
  <2> SUFFICES ASSUME NEW d \in Children, spawn[d] = "spawned"
               PROVE  \/ groups'[ParentOf[d]] # NoGroup /\ d \in groups'[ParentOf[d]].registered
                      \/ \E j \in DOMAIN injected : d \in injected[j].results
    BY <1>2 DEF RegisteredChildrenAreKept
  <2>2. \/ groups[ParentOf[d]] # NoGroup /\ d \in groups[ParentOf[d]].registered
        \/ \E j \in DOMAIN injected : d \in injected[j].results
    BY DEF Inv, RegisteredChildrenAreKept
  <2> QED
    BY <1>3, <2>1, <2>2
<1> QED
  BY <1>2, <1>8, <1>9, <1>10, <1>11, <1>12 DEF Inv, ResultsInjectedOnce, InjectionsAreWhole

-----------------------------------------------------------------------------
LEMMA InvInit == Init => Inv
<1> SUFFICES ASSUME Init PROVE Inv
  OBVIOUS
<1>1. TypeOK
  BY DEF Init, TypeOK, SpawnSteps, CallSteps
<1>2. AggregationIsAlone /\ FinishingHasInjected
  BY DEF Init, AggregationIsAlone, Aggregating, FinishingHasInjected
<1>3. GroupsHoldSpawned /\ InjectedAreLeaving /\ RegisteredChildrenAreKept
  BY DEF Init, GroupsHoldSpawned, InjectedAreLeaving, RegisteredChildrenAreKept
<1>4. ResultsInjectedOnce /\ InjectionsAreWhole
  BY DEF Init, ResultsInjectedOnce, InjectionsAreWhole
<1> QED
  BY <1>1, <1>2, <1>3, <1>4 DEF Inv

LEMMA InvStep == Inv /\ [Next]_vars => Inv'
<1> SUFFICES ASSUME Inv, [Next]_vars PROVE Inv'
  OBVIOUS
<1>0. TypeOK'
  BY BarrierTypeStep DEF Inv
<1>1. CASE \E c \in Children : Spawn(c)
  BY <1>0, <1>1, SpawnKeepsInv
<1>2. CASE \E k \in Calls : Absorb(k)
  BY <1>0, <1>2, AbsorbKeepsInv
<1>3. CASE \E k \in Calls : Aggregate(k)
  BY <1>0, <1>3, LookKeepsInv, InjectKeepsInv, FinishKeepsInv DEF Aggregate
<1>4. CASE Finished \/ UNCHANGED vars
  <2>1. /\ groups' = groups /\ spawn' = spawn /\ call' = call
        /\ copy' = copy /\ injected' = injected
    BY <1>4 DEF Finished, vars
  <2> QED
    BY <1>0, <2>1 DEF Inv, GroupsHoldSpawned, AggregationIsAlone, Aggregating,
       InjectedAreLeaving, FinishingHasInjected, ResultsInjectedOnce,
       InjectionsAreWhole, RegisteredChildrenAreKept
<1> QED
  BY <1>1, <1>2, <1>3, <1>4 DEF Next

\* Groups, calls, copies and injections keep their types (collab.rs:21-60): a
\* group never holds more children than it expects, nor a result of another.
THEOREM BarrierTypeCorrect == Spec => []TypeOK
<1>1. Inv => TypeOK
  BY DEF Inv
<1> QED
  BY InvInit, InvStep, <1>1, PTL DEF Spec

\* What perform_barrier_aggregation injects together holds as many results as
\* the group expected.
THEOREM InjectionsHoldTheWholeGroup == Spec => []InjectionsAreWhole
<1>1. Inv => InjectionsAreWhole
  BY DEF Inv
<1> QED
  BY InvInit, InvStep, <1>1, PTL DEF Spec

\* The barrier keeps its invariant: perform_barrier_aggregation is never met
\* without its group, and is alone with it, whatever threads spawn and absorb
\* meanwhile.
THEOREM AggregationsAreAlone == Spec => []AggregationIsAlone
<1>1. Inv => AggregationIsAlone
  BY DEF Inv
<1> QED
  BY InvInit, InvStep, <1>1, PTL DEF Spec

\* Every result is injected at most once, also when its call is retried.
THEOREM ResultsAreInjectedOnce == Spec => []ResultsInjectedOnce
<1>1. Inv => ResultsInjectedOnce
  BY DEF Inv
<1> QED
  BY InvInit, InvStep, <1>1, PTL DEF Spec

\* No registered child is forgotten, and what is injected together is whole.
THEOREM ChildrenAreKeptWhole == Spec => [](RegisteredChildrenAreKept /\ InjectionsAreWhole)
<1>1. Inv => RegisteredChildrenAreKept /\ InjectionsAreWhole
  BY DEF Inv
<1> QED
  BY InvInit, InvStep, <1>1, PTL DEF Spec

==============================================================================
