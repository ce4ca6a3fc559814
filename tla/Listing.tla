------------------------------ MODULE Listing -------------------------------
(***************************************************************************)
(* The two things the code does to the order of a list: sort and filter.   *)
(* Each is defined by where an element goes, without recursion, so that    *)
(* one can reason about it (SortSeq of the standard module TLC is one that *)
(* TLC alone can evaluate, and SelectSeq takes an operator).               *)
(***************************************************************************)
EXTENDS Naturals, FiniteSets

\* sort: the elements of S, each at the place that what comes before it leaves it.
Places(S, below)       == [k \in 1..Cardinality(S) |-> CHOOSE x \in S : Cardinality(below[x]) = k - 1]
Sorted(S, before(_, _)) == Places(S, [x \in S |-> {y \in S : before(y, x)}])

\* filter: what is at the indexes in S, in the order it was.
Kept(s, S) == LET at == Places(S, [i \in S |-> {j \in S : j < i}]) IN [k \in DOMAIN at |-> s[at[k]]]
=============================================================================
