----------------------------- MODULE MCService -----------------------------
(* A small instance of Service: two PUTs to one key.                       *)
EXTENDS Service, TLC

CONSTANTS k1, v1, v2, c1, c2, q1, q2
CONSTANTS Crashes, Failures

MCBudget ==
    [d \in Disturbance |-> CASE d = "crash" -> Crashes
                             [] d = "fail" -> Failures
                             [] OTHER -> 0]

MCcmd == q1 :> [key |-> k1, val |-> v1, idem |-> c1]
           @@ q2 :> [key |-> k1, val |-> v2, idem |-> c2]

============================================================================
