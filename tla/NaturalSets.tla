---------------------------- MODULE NaturalSets ----------------------------
(***************************************************************************)
(* Finite sets of numbers as sequences, and what a sequence has at such    *)
(* positions: how the loops of both engines filter a vector.               *)
(***************************************************************************)
EXTENDS Integers, Sequences, FiniteSets

\* How many numbers of S are below i.
Rank(S, i) == Cardinality({j \in S : j < i})

\* The numbers of S from the least to the greatest.
Ascending(S) == [n \in 1..Cardinality(S) |-> CHOOSE i \in S : Rank(S, i) = n - 1]

\* The elements of es at the positions S, in the order of es.
Chosen(es, S) == [n \in 1..Cardinality(S) |-> es[Ascending(S)[n]]]
=============================================================================
