-------------------------------- MODULE Answers --------------------------------
(***************************************************************************)
(* The parts that answer: the version chains of entities (VersionChain),   *)
(* the fork router (Routing) and what is remembered of its decisions       *)
(* (DecisionMemory), and the graph's queries and store (GraphQueries).     *)
(* They share no state and no lock, so their steps interleave freely.      *)
(***************************************************************************)
EXTENDS VersionChain, Routing, DecisionMemory, GraphQueries

AnswersSpec == ChainSpec /\ RoutingSpec /\ MemorySpec /\ GraphSpec

\* A route is one the gates allow, a fingerprint is found again, a sticky decision
\* ends, a query is planned and answered for its tenant and within its scenario,
\* version chains are lines, and an appended event is never replaced.
AnswersAreLawful ==
    /\ RoutesAreLawful /\ FingerprintsAreFound /\ StickinessEnds
    /\ QueriesAreServed /\ VersionsFormChains /\ AppendsStay

================================================================================
