------------------------------ MODULE MCDeposit ------------------------------
(* Deposit with a few interchangeable requests. *)
EXTENDS Deposit, TLC

Symmetry == Permutations(Handlers)
AllGateways == DOMAIN HandlersOf
=============================================================================
