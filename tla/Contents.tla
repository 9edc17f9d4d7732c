------------------------------- MODULE Contents -------------------------------
(***************************************************************************)
(* What becomes of contents: the run that assembles a bundle from items    *)
(* (ContextAssembly), the inverted index and the causal graph they are     *)
(* found by (ContextIndexes), and the two forms of an event they are taken *)
(* from (DialogueEvents).  They share no state and no lock, so their steps *)
(* interleave freely; an event is converted, or also has its snapshots     *)
(* recorded.                                                               *)
(***************************************************************************)
EXTENDS ContextAssembly, ContextIndexes, DialogueEvents

ContentsSpec == ContextSpec /\ IndexSpec /\ (ConvertSpec \/ NoteSpec)

\* A context bundle keeps what it must, its indexes answer for what was put into
\* them, and an event keeps what both its forms have a place for.
ContentIsKept ==
    /\ ContextIsLawful /\ PostingsAreStored /\ ChainsAreSound
    /\ EventsConvert

===============================================================================
