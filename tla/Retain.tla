-------------------------------- MODULE Retain --------------------------------
(***************************************************************************)
(* Vec::retain and VecDeque::retain (also filter, on iterators): what is   *)
(* in a set stays, in the order it had.  As a recursive function, so that  *)
(* it can be reasoned about; the operator of Sequences cannot.             *)
(***************************************************************************)
EXTENDS Integers, Sequences

Retain(s, kept) ==
    LET upTo[n \in 0..Len(s)] ==
            IF n = 0 THEN <<>>
            ELSE IF s[n] \in kept THEN Append(upTo[n - 1], s[n])
            ELSE upTo[n - 1]
    IN  upTo[Len(s)]

===============================================================================
