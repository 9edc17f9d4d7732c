----------------------------- MODULE MCDurability -----------------------------
(***************************************************************************)
(* What outlives a crash: CycleStore (the events of a cycle) and           *)
(* OutboxTable (checkpoints and durable messages).  The engine uses the    *)
(* one and a library user the other; they touch different tables, so a     *)
(* behaviour runs one of them and leaves the other where it starts.        *)
(***************************************************************************)
EXTENDS CycleStore, OutboxTable

CONSTANTS cycleA, cycleB, m1, m2, m3, posted

VARIABLE side

MCCycleOf == (m1 :> cycleA) @@ (m2 :> cycleA) @@ (m3 :> cycleB)

\* A drive with an injection and a gateway's report, every kind of event, which
\* ends with the event built for the cycle; one of a sync point a client posted,
\* for whichever cycle; one whose sync point has no event.
Absorbing == [switched |-> TRUE, kind |-> "HitlAbsorb", last |-> "built", late |-> TRUE,
              injected |-> <<"Applied">>, gateway |-> <<"tool_called", "unknown">>]
Posted == [switched |-> FALSE, kind |-> "ClarifyAnswered", last |-> posted, late |-> FALSE,
           injected |-> <<>>, gateway |-> <<>>]
Reflection == [switched |-> FALSE, kind |-> "IcEnd", last |-> "none", late |-> FALSE,
               injected |-> <<>>, gateway |-> <<>>]

MCShapes   == {Absorbing, Posted}
MCOneShape == {Reflection}

vars == <<side, storeVars, tableVars>>

Init == side \in {"store", "table"} /\ StoreInit /\ TableInit

Next ==
    /\ UNCHANGED side
    /\ \/ side = "store" /\ StoreNext /\ UNCHANGED tableVars
       \/ side = "table" /\ TableNext /\ UNCHANGED storeVars

Spec == Init /\ [][Next]_vars

=============================================================================
