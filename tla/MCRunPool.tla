----------------------------- MODULE MCRunPool -----------------------------
(* Small instances of RunPool for TLC. *)
EXTENDS RunPool, TLC

MCSymmetry == Permutations(Checks) \cup Permutations(Runs) \cup Permutations(Sems)
=============================================================================
