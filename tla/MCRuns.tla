------------------------------- MODULE MCRuns -------------------------------
(* Instances of Runs for model checking. *)
EXTENDS RunsInv, TLC

Symmetry == Permutations(Requests) \cup Permutations(Executions) \cup Permutations(Managers)
=============================================================================
