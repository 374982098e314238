----------------------------- MODULE MCSessions -----------------------------
(* Sessions for TLC: two servers and a client whose first call was given up  *)
(* while its request is still on its way, so that the second call may       *)
(* overtake the first.  The write of another client is on its way too.      *)
EXTENDS Sessions, TLC

CONSTANTS s1, s2, c1, c2

Calls == c1 :> <<"put", "cas">>

Delayed == {[to |-> s1, client |-> c1, seq |-> 1, op |-> "put"],
            [to |-> s2, client |-> c2, seq |-> 1, op |-> "put"]}
=============================================================================
