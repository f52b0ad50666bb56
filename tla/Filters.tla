------------------------------ MODULE Filters ------------------------------
(***************************************************************************)
(* Parts of a sequence, written as a recursive function so that the proofs *)
(* can say what they contain.                                              *)
(***************************************************************************)
EXTENDS Integers, Sequences

\* The elements of s at the positions in keep, in their order.
Filter(s, keep) ==
    LET kept[i \in 0..Len(s)] ==
            IF i = 0 THEN <<>>
            ELSE IF i \in keep THEN Append(kept[i - 1], s[i]) ELSE kept[i - 1]
    IN kept[Len(s)]
=============================================================================
