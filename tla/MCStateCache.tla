---------------------------- MODULE MCStateCache ----------------------------
(* The registry with a few addresses. *)
EXTENDS StateCache, TLC

CONSTANT MaxLocked      \* bound: stakes locked for one address

MCNext == Next /\ \A a \in Address : layer'.locked[a] <= MaxLocked

\* For properties of the states in which the cache is clean: once disturbed, a node
\* only finishes the verification it is at and decides what is undecided, until it
\* restarts.
WindUp ==
    \/ \E a \in Address : Execute(a)
    \/ \E b \in Block : VerifySucceeds(b) \/ Accept(b) \/ Reject(b)
    \/ Restart

MCUndisturbedSpec == Init /\ [][MCNext /\ (cache = "disturbed" => WindUp)]_vars

Interchangeable == Permutations(Address) \cup Permutations(Block)
=============================================================================
