--------------------------- MODULE SequenceFilter ---------------------------
(* Filtering a sequence, as Vec::retain and Iterator::filter do: what is     *)
(* kept keeps its order.  The kept elements are found by their rank among    *)
(* the kept positions and not by recursion over the sequence, so that facts  *)
(* about them can be proved for sequences of any length.                     *)
EXTENDS Naturals, Sequences, FiniteSets

Members(s) == {s[i] : i \in 1..Len(s)}

KeptAt(s, S) == {i \in 1..Len(s) : s[i] \in S}

\* How many positions of K are not above i.
Rank(K, i) == Cardinality({k \in K : k <= i})

Kept(s, S) ==
    LET K == KeptAt(s, S)
    IN  [n \in 1..Cardinality(K) |-> s[CHOOSE i \in K : Rank(K, i) = n]]
=============================================================================
