----------------------------- MODULE Selection -----------------------------
(***************************************************************************)
(* SelectSeq with a set in the place of the test, written as its loop: the *)
(* prover can unfold this one.                                             *)
(***************************************************************************)
EXTENDS Naturals, Sequences

\* The elements of s that are in S, in their order.
Only(s, S) ==
    LET kept[i \in 0..Len(s)] ==
            IF i = 0 THEN <<>>
            ELSE IF s[i] \in S THEN Append(kept[i - 1], s[i]) ELSE kept[i - 1]
    IN  kept[Len(s)]
=============================================================================
