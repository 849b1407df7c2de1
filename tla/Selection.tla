----------------------------- MODULE Selection ------------------------------
(***************************************************************************)
(* What a loop keeps of a list that passes over some of its elements.      *)
(***************************************************************************)
EXTENDS Naturals, Sequences, FiniteSets

\* How many of the positions in P come before i or are i.
Rank(P, i) == Cardinality({j \in P : j <= i})

\* The elements of s at the positions in P, in order.
Selected(s, P) == [k \in 1..Cardinality(P) |-> s[CHOOSE i \in P : Rank(P, i) = k]]

\* The elements of s that are in S.
Only(s, S) == Selected(s, {i \in DOMAIN s : s[i] \in S})
=============================================================================
