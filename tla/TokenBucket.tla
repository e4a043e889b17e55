----------------------------- MODULE TokenBucket -----------------------------
(***************************************************************************)
(* What a rate limiter promises: a bucket for every client, full at first, *)
(* refilled as time passes and never above its size, and a request goes    *)
(* through exactly when the bucket of its client holds a token.  Nothing   *)
(* is ever forgotten.  Levels are in units: a request costs Cost of them   *)
(* and one tick of the clock adds Rate.                                    *)
(***************************************************************************)
EXTENDS Naturals

CONSTANTS Keys,  \* clients
          Burst, \* the size of a bucket
          Rate,  \* refilled in one tick
          Cost,  \* of a request
          None

VARIABLES level,  \* what the bucket of each client holds
          answer  \* the last request and whether it went through

vars == <<level, answer>>

Capped(x) == IF x > Burst THEN Burst ELSE x

Init == level = [k \in Keys |-> Burst] /\ answer = None

Refill ==
    /\ level' = [k \in Keys |-> Capped(level[k] + Rate)]
    /\ UNCHANGED answer

Request(k) ==
    /\ answer' = [key |-> k, ok |-> level[k] >= Cost]
    /\ level' = IF level[k] >= Cost THEN [level EXCEPT ![k] = @ - Cost] ELSE level

Next == Refill \/ \E k \in Keys : Request(k)

Spec == Init /\ [][Next]_vars
=============================================================================
