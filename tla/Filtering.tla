------------------------------- MODULE Filtering -------------------------------
(***************************************************************************)
(* The part of a sequence that is in a set: SelectSeq with a set for its   *)
(* test, defined by a recursive function so that it can be proved about.   *)
(***************************************************************************)
EXTENDS Integers, Sequences

\* The first n elements of a sequence, those outside the set left out.
Filter(s, S) ==
    LET upTo[n \in 0..Len(s)] ==
            IF n = 0 THEN <<>>
            ELSE IF s[n] \in S THEN Append(upTo[n - 1], s[n])
            ELSE upTo[n - 1]
    IN  upTo[Len(s)]
=============================================================================
