-------------------------- MODULE MCProactiveReview --------------------------
(* One user, with one thread in the general lane, as deployed, or with two. *)
EXTENDS ProactiveReview, TLC

CONSTANTS s1, s2, t1, t2, o1, o2, o3

Symmetry == Permutations(Slots) \union Permutations(Threads)
            \union Permutations(Sources)
=============================================================================
