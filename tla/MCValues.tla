------------------------------- MODULE MCValues -------------------------------
(* Values for TLC: two uploads with a chunk in common, and a small or empty file. *)
EXTENDS Values, TLC

CONSTANTS c1, c2, A, B, s

MCFiles == c1 :> {<<A, B, A>>, <<s>>, <<>>} @@ c2 :> {<<A, s>>}
MCMaxTries == c1 :> 1 @@ c2 :> 2
=============================================================================
