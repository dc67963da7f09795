------------------------------- MODULE MCNodes --------------------------------
(* Nodes for TLC. *)
EXTENDS Nodes
=============================================================================
