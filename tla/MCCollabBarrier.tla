--------------------------- MODULE MCCollabBarrier ---------------------------
(* Instances of CollabBarrier for TLC: parents that expect two children each. *)
EXTENDS CollabBarrier, TLC

CONSTANTS p1, p2, c1, c2, c3, c4, k1, k2, k3, k4, k5

MCParentOf == [c \in Children |-> IF c = c4 THEN p2 ELSE p1]
MCRoundsOf == [c \in Children |-> IF c = c4 THEN 1 ELSE 2]
\* k4 retries k1, k5 brings the result of c4
MCChildOf  == [k \in Calls |-> CASE k = k1 -> c1 [] k = k2 -> c2 [] k = k3 -> c3
                                 [] k = k4 -> c1 [] k = k5 -> c4]
=============================================================================
