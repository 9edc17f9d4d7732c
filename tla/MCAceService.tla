---------------------------- MODULE MCAceService ----------------------------
(***************************************************************************)
(* Instances of AceService for TLC.  c1 and c2 are clarifications of the   *)
(* tenant whose database the handlers read, c3 is a cycle of another       *)
(* tenant in a lane that is not rationed.                                  *)
(***************************************************************************)
EXTENDS AceService, TLC

CONSTANTS c1, c2, c3, i1, i2, t1, t2

MCTenantOf == [c \in Cycles |-> IF c = c3 THEN t2 ELSE t1]
MCLaneOf   == [c \in Cycles |-> IF c = c3 THEN "SelfReason" ELSE "Clarify"]

AllIntoFirst == [i \in Injections |-> c1]
OneIntoEach  == [i \in Injections |-> IF i = i2 THEN c3 ELSE c1]

\* Sound under AllIntoFirst, which does not tell injections apart
InjectionSymmetry == Permutations(Injections)
=============================================================================
