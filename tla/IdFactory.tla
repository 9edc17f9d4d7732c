------------------------------- MODULE IdFactory -------------------------------
(***************************************************************************)
(* Identifiers (core-models/ids.rs).  One factory per process, made on     *)
(* first use, hands out time, shard and sequence composed in one number;   *)
(* its mutex is held while it waits for the next millisecond.  The clock    *)
(* is the machine's: it may be stepped back.                               *)
(***************************************************************************)
EXTENDS Integers, Sequences

CONSTANTS
    MaxTimestamp, MaxShard, MaxSequence,   \* MAX_TIMESTAMP, MAX_SHARD_ID, MAX_SEQUENCE
    Shards,        \* shards that are asked for, some too large
    ClockValues,   \* what the clock may show, the epoch at 0
    MaxIds         \* bound: ids handed out

ASSUME IdAssumption ==
    /\ MaxTimestamp \in Nat /\ MaxShard \in Nat /\ MaxSequence \in Nat
    /\ Shards \subseteq Nat /\ ClockValues \subseteq Int

VARIABLES
    millis,
    factory,    \* GLOBAL_FACTORY: none, or its shard and FactoryState
    waiting,    \* a caller is in wait_for_next_millis, with the mutex
    issued,     \* history: the ids of the global factory, in order
    sharded     \* history: the ids made with try_generate_in_shard

idVars == <<millis, factory, waiting, issued, sharded>>

NoFactory == [made |-> FALSE, shard |-> 0, last |-> 0, sequence |-> 0]
Factory(shard) == [NoFactory EXCEPT !.made = TRUE, !.shard = shard]

\* compose_raw_id and validate_raw
Compose(timestamp, shard, sequence) ==
    (timestamp * (MaxShard + 1) + shard) * (MaxSequence + 1) + sequence
Components(raw) ==
    [sequence |-> raw % (MaxSequence + 1),
     shard |-> (raw \div (MaxSequence + 1)) % (MaxShard + 1),
     timestamp |-> raw \div ((MaxSequence + 1) * (MaxShard + 1))]

\* to_base36 and from_base36, on digits
Base36(raw) ==
    LET digits[v \in 0..raw] == IF v < 36 THEN <<v>> ELSE Append(digits[v \div 36], v % 36)
    IN  digits[raw]
FromBase36(digits) ==
    LET value[n \in 0..Len(digits)] == IF n = 0 THEN 0 ELSE value[n - 1] * 36 + digits[n]
    IN  value[Len(digits)]

NowIsUsable == millis \in 0..MaxTimestamp

IdInit ==
    /\ millis = 0
    /\ factory = NoFactory
    /\ waiting = FALSE
    /\ issued = <<>>
    /\ sharded = <<>>

Count == Len(issued) + Len(sharded)

\* The clock goes on or is stepped back.
ClockMoves ==
    /\ millis' \in ClockValues \ {millis}
    /\ UNCHANGED <<factory, waiting, issued, sharded>>

\* configure_global, refused when there is a factory
Configure(shard) ==
    /\ ~factory.made /\ shard <= MaxShard
    /\ factory' = Factory(shard)
    /\ UNCHANGED <<millis, waiting, issued, sharded>>

Made == IF factory.made THEN factory ELSE Factory(0)

Issue(f) ==
    /\ factory' = f
    /\ issued' = Append(issued, Compose(f.last, f.shard, f.sequence))

\* Mutant: a full millisecond starts again at its first sequence number.
NextIdWrapping ==
    /\ ~waiting /\ Count < MaxIds /\ NowIsUsable
    /\ millis >= Made.last
    /\ Issue([Made EXCEPT !.last = millis,
                          !.sequence = IF millis = Made.last /\ @ < MaxSequence THEN @ + 1 ELSE 0])
    /\ UNCHANGED <<millis, waiting, sharded>>

\* next_id: a full millisecond waits.
NextId ==
    /\ ~waiting /\ Count < MaxIds /\ NowIsUsable /\ millis >= Made.last
    /\ IF millis > Made.last
       THEN Issue([Made EXCEPT !.last = millis, !.sequence = 0]) /\ UNCHANGED waiting
       ELSE IF Made.sequence < MaxSequence
            THEN Issue([Made EXCEPT !.sequence = @ + 1]) /\ UNCHANGED waiting
       ELSE factory' = Made /\ waiting' = TRUE /\ UNCHANGED issued
    /\ UNCHANGED <<millis, sharded>>

\* next_id with a clock that is unusable, or behind the last id: an error, of a
\* factory that is made all the same.
NextIdFails ==
    /\ ~waiting /\ (~NowIsUsable \/ millis < Made.last)
    /\ factory' = Made
    /\ UNCHANGED <<millis, waiting, issued, sharded>>

\* wait_for_next_millis: ends when the clock is past, or is found unusable.
WaitEnds ==
    /\ waiting /\ (millis > factory.last \/ ~NowIsUsable)
    /\ waiting' = FALSE
    /\ IF NowIsUsable THEN Issue([factory EXCEPT !.last = millis, !.sequence = 0])
                      ELSE UNCHANGED <<factory, issued>>
    /\ UNCHANGED <<millis, sharded>>

\* try_generate_in_shard: a factory of its own for each call, which has issued
\* nothing at any time, so that one millisecond gives one id.
GenerateInShard(shard) ==
    /\ shard <= MaxShard /\ Count < MaxIds /\ NowIsUsable
    /\ sharded' = Append(sharded, Compose(millis, shard, IF millis = 0 THEN 1 ELSE 0))
    /\ UNCHANGED <<millis, factory, waiting, issued>>

IdNext ==
    \/ ClockMoves \/ NextId \/ NextIdFails \/ WaitEnds
    \/ \E s \in Shards : Configure(s) \/ GenerateInShard(s)

IdSpec == IdInit /\ [][IdNext]_idVars

-----------------------------------------------------------------------------
\* However the clock is stepped and a millisecond fills up, each id of the
\* process's factory is above all before it, and is read back, from its number and
\* from its text, as the time, shard and sequence it was made of.
IdsGrow ==
    /\ \A m, n \in DOMAIN issued : m < n => issued[m] < issued[n]
    /\ \A n \in DOMAIN issued :
          LET c == Components(issued[n]) IN
          /\ Compose(c.timestamp, c.shard, c.sequence) = issued[n]
          /\ c.shard = factory.shard /\ c.timestamp <= factory.last
          /\ FromBase36(Base36(issued[n])) = issued[n]

=============================================================================
