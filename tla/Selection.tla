------------------------------ MODULE Selection ------------------------------
(***************************************************************************)
(* What a loop or a query with a condition leaves of a sequence.           *)
(***************************************************************************)
EXTENDS Naturals, SequencesExt

\* The elements of a finite set of numbers, the smallest first.
Ascending(S) ==
    [n \in 1..Cardinality(S) |-> CHOOSE k \in S : Cardinality({j \in S : j <= k}) = n]

\* The elements of s at the positions in S, in their order.
Selected(s, S) ==
    LET order == Ascending(S)
    IN  [n \in DOMAIN order |-> s[order[n]]]

\* The elements of s that are in T, in their order.
Keep(s, T) == Selected(s, {k \in DOMAIN s : s[k] \in T})

=============================================================================
