------------------------------- MODULE MCLedger -------------------------------
(* Ledger for TLC. *)
EXTENDS Ledger, TLC

Symm == Permutations(Address)
=============================================================================
