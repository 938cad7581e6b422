---------------------------- MODULE MCRequestGuard ----------------------------
(* RequestGuard on small sets of requests. *)
EXTENDS RequestGuard, TLC

\* Requests of a kind are interchangeable, and so are the
\* events of a domain (safety only).
Symmetry ==
    Permutations(Puts) \union Permutations(Redeems)
        \union Permutations(Events \ Fantasy)
===============================================================================
