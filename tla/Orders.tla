-------------------------------- MODULE Orders --------------------------------
(***************************************************************************)
(* Sorting the elements of a set, and choosing elements of a sequence.     *)
(* SetToSortSeq of the community modules rests on SortSeq, which has no    *)
(* definition that a prover could expand; nor has SelectSeq.               *)
(***************************************************************************)
EXTENDS Naturals, Sequences, FiniteSets

\* The elements of S that come before x, where the pairs of R are in order.
Preceding(S, R, x) == {y \in S : <<y, x>> \in R}

\* S sorted: at place k is the element that k - 1 others come before.
InOrder(S, R) == [k \in 1..Cardinality(S) |-> CHOOSE x \in S : Cardinality(Preceding(S, R, x)) = k - 1]

\* The elements of s that pass the test, in their order.
Chosen(s, Test(_)) ==
    LET kept[k \in 0..Len(s)] ==
            IF k = 0 THEN <<>>
            ELSE IF Test(s[k]) THEN Append(kept[k - 1], s[k]) ELSE kept[k - 1]
    IN kept[Len(s)]
===============================================================================
