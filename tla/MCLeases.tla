------------------------------ MODULE MCLeases ------------------------------
(* An instance of Leases for model checking. *)
EXTENDS Leases, TLC

Symmetry == Permutations(Clients) \cup Permutations(Tokens)
=============================================================================
