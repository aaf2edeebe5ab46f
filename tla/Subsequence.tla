---- MODULE Subsequence ----
(***************************************************************************)
(* A comprehension that keeps some elements of a list, as Python writes    *)
(* [x for x in s if p(x)].  SelectSeq of the standard module says the same *)
(* by recursion; this says it by counting, so that what it keeps can be    *)
(* proved for every sequence.                                              *)
(***************************************************************************)
EXTENDS Naturals, Sequences, FiniteSets

\* The elements of s at these places, in their order: the nth of them is the one that
\* has n of them up to it.
Those(s, places) ==
    LET Nth(i) == Cardinality({j \in places : j <= i})
    IN  [n \in 1..Cardinality(places) |-> s[CHOOSE i \in places : Nth(i) = n]]
====
