------------------------------- MODULE MCIssue --------------------------------
(* Issue for TLC, in two parts of one instance: c1 asks once for anything in *)
(* any way, beside another account's transactions; or c2, a server, asks for *)
(* little, and again, while its signatures are sent again in two ways of     *)
(* writing, a window passes and the node is restarted.                       *)
EXTENDS Issue

CONSTANTS c1, c2, o

MCOutside == {[kind |-> "transfer", f |-> [x \in Struct["transfer"] |-> o], price |-> 1]}

MCAsks ==
    c1 :> Kind \X {"typed", "raw", "node"} @@
    c2 :> {<<"set", "typed">>, <<"transfer", "raw">>, <<"proof", "node">>, <<"claim", "raw">>}

MCTries == c1 :> 1 @@ c2 :> 2

MCStakerOf == c1 :> "route" @@ c2 :> "ser"

Began(c) == client'[c].tries > 0

MCNext ==
    /\ Next
    /\ Began(c1) => ~Began(c2) /\ now' <= 1 /\ restarts' = 0
    /\ \A t \in pool' : /\ t.by = Stranger => Began(c1)
                        /\ t.sig \in Recoded => t.by = c2

MCSpec == Init /\ [][MCNext]_vars
=============================================================================
