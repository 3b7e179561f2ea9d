------------------------------- MODULE Lists -------------------------------
(* Filters of lists, as the stores of threads and of messages have them. *)
EXTENDS Integers, Sequences, FiniteSets

\* How many of the positions I are not after i.
Rank(I, i) == Cardinality({j \in I : j <= i})

\* The entries of s at the positions I, in their order.
Picked(s, I) == [k \in 1..Cardinality(I) |-> s[CHOOSE i \in I : Rank(I, i) = k]]
=============================================================================
