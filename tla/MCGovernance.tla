----------------------------- MODULE MCGovernance -----------------------------
(* Governance for TLC. *)
EXTENDS Governance, TLC

Symm == Permutations(ActionID) \cup Permutations(Address)
=============================================================================
