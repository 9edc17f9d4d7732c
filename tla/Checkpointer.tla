----------------------------- MODULE Checkpointer -----------------------------
(***************************************************************************)
(* Checkpointer (checkpointer.rs): the cache of the cycles that have been  *)
(* scheduled, with its two ways of eviction, by age and by least recent    *)
(* use.  Every method is one lock scope.                                   *)
(*                                                                         *)
(* Abstractions.  Time is a counter; of an entry only the last access is   *)
(* kept.  ensure_lane_idle, which only reads, is in AceService.            *)
(***************************************************************************)
EXTENDS Retain, FiniteSets, SequencesExt

CONSTANTS
    Keys,          \* tenant and cycle of an entry: [tenant, cycle]
    MaxEntries, TtlSeconds, EnableLru,     \* CacheEvictionPolicy
    MaxClock       \* bound of clock

ASSUME CheckpointerAssumption ==
    /\ MaxEntries \in Nat \ {0} /\ TtlSeconds \in Nat /\ EnableLru \in BOOLEAN

VARIABLES
    cache,       \* CheckpointerState.cache: the keys it has, with their entries
    lruQueue,    \* CheckpointerState.lru_queue, least recently used first
    clock

cacheVars == <<cache, lruQueue, clock>>

CacheInit ==
    /\ cache = [k \in {} |-> 0]
    /\ lruQueue = <<>>
    /\ clock = 0

CacheEntry == [last_accessed |-> clock]

Keep(entries, kept) == [k \in DOMAIN entries \cap kept |-> entries[k]]
Drop(queue, gone)   == Retain(queue, Keys \ gone)

\* Mutant: expired keys stay in the queue.
ExpireCacheOnly(s) ==
    LET old == {k \in DOMAIN s.cache : clock - s.cache[k].last_accessed > TtlSeconds} IN
    [cache |-> Keep(s.cache, DOMAIN s.cache \ old), lru |-> s.lru]

\* evict_if_needed, first by age,
Expire(s) ==
    LET old == {k \in DOMAIN s.cache : clock - s.cache[k].last_accessed > TtlSeconds} IN
    [cache |-> Keep(s.cache, DOMAIN s.cache \ old), lru |-> Drop(s.lru, old)]

\* Mutant: the queue is emptied from its other end.
MakeRoomBackwards(s) ==
    LET over == IF EnableLru /\ Cardinality(DOMAIN s.cache) >= MaxEntries
                THEN Cardinality(DOMAIN s.cache) - MaxEntries + 1 ELSE 0
        n    == IF over < Len(s.lru) THEN over ELSE Len(s.lru) IN
    [cache |-> Keep(s.cache, DOMAIN s.cache
                               \ ToSet(SubSeq(s.lru, Len(s.lru) - n + 1, Len(s.lru)))),
     lru   |-> SubSeq(s.lru, 1, Len(s.lru) - n)]

\* then from the front of the queue until there is room for one more.
MakeRoom(s) ==
    LET over == IF EnableLru /\ Cardinality(DOMAIN s.cache) >= MaxEntries
                THEN Cardinality(DOMAIN s.cache) - MaxEntries + 1 ELSE 0
        n    == IF over < Len(s.lru) THEN over ELSE Len(s.lru) IN
    [cache |-> Keep(s.cache, DOMAIN s.cache \ ToSet(SubSeq(s.lru, 1, n))),
     lru   |-> SubSeq(s.lru, n + 1, Len(s.lru))]

\* update_lru
Touch(queue, k) == IF EnableLru THEN Append(Drop(queue, {k}), k) ELSE queue

Record(k) ==
    LET s == MakeRoom(Expire([cache |-> cache, lru |-> lruQueue])) IN
    /\ cache' = [j \in DOMAIN s.cache \cup {k} |->
                    IF j = k THEN CacheEntry ELSE s.cache[j]]
    /\ lruQueue' = Touch(s.lru, k)
    /\ UNCHANGED clock

Fetch(k) ==
    /\ k \in DOMAIN cache
    /\ cache' = [cache EXCEPT ![k] = CacheEntry]
    /\ lruQueue' = Touch(lruQueue, k)
    /\ UNCHANGED clock

\* finish drops every entry of the tenant, not only the cycle's.
FinishTenant(t) ==
    LET gone == {k \in Keys : k.tenant = t} IN
    /\ cache' = Keep(cache, Keys \ gone)
    /\ lruQueue' = Drop(lruQueue, gone)
    /\ UNCHANGED clock

Invalidate(k) ==
    /\ cache' = Keep(cache, Keys \ {k})
    /\ lruQueue' = Drop(lruQueue, {k})
    /\ UNCHANGED clock

ClockTick ==
    /\ clock < MaxClock
    /\ clock' = clock + 1
    /\ UNCHANGED <<cache, lruQueue>>

CacheTenants == {k.tenant : k \in Keys}

CacheNext ==
    \/ \E k \in Keys : Record(k) \/ Fetch(k) \/ Invalidate(k)
    \/ \E t \in CacheTenants : FinishTenant(t)
    \/ ClockTick

CacheSpec == CacheInit /\ [][CacheNext]_cacheVars

-----------------------------------------------------------------------------
(* Properties                                                               *)

\* The queue and the map are kept side by side by five methods and never part:
\* each key once in the queue, no key without entry, never more than MaxEntries.
LruMatchesCache ==
    EnableLru =>
        /\ ToSet(lruQueue) = DOMAIN cache
        /\ IsInjective(lruQueue)
        /\ Len(lruQueue) <= MaxEntries

\* What a record evicts was last used no later than anything it keeps: the queue
\* tells the same order as the times in the entries.
EvictsTheStalest ==
    [][\A k \in Keys : k \notin DOMAIN cache /\ k \in DOMAIN cache' =>
          \A gone \in DOMAIN cache \ DOMAIN cache', kept \in DOMAIN cache \cap DOMAIN cache' :
              cache[gone].last_accessed <= cache[kept].last_accessed]_cacheVars

=============================================================================
