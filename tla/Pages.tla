------------------------------- MODULE Pages --------------------------------
(***************************************************************************)
(* The pages providers answer with: messages and other items are numbered  *)
(* as they appear, and a page shows a bounded number of them, the newest   *)
(* or the oldest first.                                                    *)
(***************************************************************************)
EXTENDS Integers, FiniteSets

\* The n largest members of S, which is what a newest-first page shows.
Largest(S, n) == {x \in S : Cardinality({y \in S : y > x}) < n}
Smallest(S, n) == {x \in S : Cardinality({y \in S : y < x}) < n}
=============================================================================
