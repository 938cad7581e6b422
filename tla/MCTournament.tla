---------------------------- MODULE MCTournament ----------------------------
(* A request of a user with the request key and two of one without. *)
EXTENDS Tournament, TLC

CONSTANT keyed  \* the request of the user with the request key

UserOf == [e \in Entries |-> IF e = keyed THEN 1 ELSE 2]
SomePlaces == {1, 3}

\* A user's requests are interchangeable; values are only compared with each other.
Symmetry == Permutations(Values) \union Permutations(Entries \ {keyed})
=============================================================================
