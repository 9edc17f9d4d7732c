------------------------------- MODULE MCQueues -------------------------------
(***************************************************************************)
(* The queues and the cache beside the scheduler: HitlQueue,               *)
(* DeferredInjections and Checkpointer.  They share no state and no lock,  *)
(* so a behaviour runs one of them and leaves the others where they start. *)
(***************************************************************************)
EXTENDS HitlQueue, DeferredInjections, Checkpointer

CONSTANTS t1, t2, urgent, first, second, minor,
          onBudget, onRoute, onTime, onCycle, onAny, c1, c2

VARIABLE part

MCTenantOf   == (urgent :> t1) @@ (first :> t1) @@ (second :> t1) @@ (minor :> t2)
MCPriorityOf == (urgent :> 0) @@ (first :> 1) @@ (second :> 1) @@ (minor :> 3)
MCRoleRankOf == (urgent :> 0) @@ (first :> 2) @@ (second :> 2) @@ (minor :> 5)
MCSubmitted  == (urgent :> 1) @@ (first :> 1) @@ (second :> 1) @@ (minor :> 0)

MCMaxClarify == (t1 :> 2) @@ (t2 :> 0)

MCTriggerOf ==
    (onBudget :> [on |-> "budget", threshold |-> 80]) @@ (onRoute :> [on |-> "route"])
      @@ (onTime :> [on |-> "time"]) @@ (onCycle :> [on |-> "cycle", cycle |-> c1])
      @@ (onAny :> [on |-> "any"])
MCExpiresAt ==
    (onBudget :> 1) @@ (onRoute :> 1) @@ (onTime :> 1) @@ (onCycle :> 2) @@ (onAny :> 0)

MCKeys == [tenant : {1, 2}, cycle : {1, 2}]

vars == <<part, hitlVars, deferredVars, cacheVars>>

Init ==
    /\ part \in {"hitl", "deferred", "checkpoints"}
    /\ HitlInit /\ DeferredInit /\ CacheInit

Next ==
    /\ UNCHANGED part
    /\ \/ part = "hitl" /\ HitlNext /\ UNCHANGED <<deferredVars, cacheVars>>
       \/ part = "deferred" /\ DeferredNext /\ UNCHANGED <<hitlVars, cacheVars>>
       \/ part = "checkpoints" /\ CacheNext /\ UNCHANGED <<hitlVars, deferredVars>>

Spec == Init /\ [][Next]_vars

=============================================================================
