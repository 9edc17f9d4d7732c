---------------------------- MODULE CycleContract ----------------------------
(***************************************************************************)
(* What the ACE service promises about one awareness cycle, with nothing   *)
(* of how it gets there: a cycle that is being worked on ends once, with   *)
(* one AwarenessCycleEnded message in the outbox of its tenant, and what   *)
(* reaches it afterwards only leaves a receipt of its late arrival.  The   *)
(* exceptions the code makes are the last three actions: work is dropped   *)
(* when a drive fails, an end may be recorded although the forwarder then  *)
(* fails, and a restart forgets everything.                                *)
(***************************************************************************)
EXTENDS Sequences

CONSTANTS
    Tenants, Cycles, TenantOf,
    MergeMayFail,    \* a drive may fail before the cycle's end is written
    ForwardMayFail   \* or after it

VARIABLES
    stage,   \* of each cycle: absent, open (work is queued or running), final
    log      \* of each tenant: the ends and the late receipts, oldest first

contractVars == <<stage, log>>

Stages == {"absent", "open", "final"}

Ended(c)   == [type |-> "Ended", cycle |-> c]
Receipt(c) == [type |-> "LateReceipt", cycle |-> c]
Entries    == [type : {"Ended", "LateReceipt"}, cycle : Cycles]

Write(c, entry) == log' = [log EXCEPT ![TenantOf[c]] = Append(@, entry)]

ContractInit ==
    /\ stage = [c \in Cycles |-> "absent"]
    /\ log = [t \in Tenants |-> <<>>]

Open(c) ==
    /\ stage[c] = "absent"
    /\ stage' = [stage EXCEPT ![c] = "open"]
    /\ UNCHANGED log

Close(c) ==
    /\ stage[c] = "open"
    /\ stage' = [stage EXCEPT ![c] = "final"]
    /\ Write(c, Ended(c))

Late(c) ==
    /\ stage[c] = "final"
    /\ Write(c, Receipt(c))
    /\ UNCHANGED stage

Drop(c) ==
    /\ MergeMayFail
    /\ stage[c] = "open"
    /\ stage' = [stage EXCEPT ![c] = "absent"]
    /\ UNCHANGED log

FailedClose(c) ==
    /\ ForwardMayFail
    /\ stage[c] = "open"
    /\ \E s \in {"absent", "open"} : stage' = [stage EXCEPT ![c] = s]
    /\ Write(c, Ended(c))

Restart ==
    /\ stage' = [c \in Cycles |-> "absent"]
    /\ log' = [t \in Tenants |-> <<>>]

ContractNext ==
    \/ \E c \in Cycles : \/ Open(c) \/ Close(c) \/ Late(c)
                         \/ Drop(c) \/ FailedClose(c)
    \/ Restart

ContractSpec == ContractInit /\ [][ContractNext]_contractVars

=============================================================================
