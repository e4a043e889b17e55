----------------------------- MODULE RateLimiter -----------------------------
(***************************************************************************)
(* The rate limiter of internal/middleware/ratelimit.go: a token bucket    *)
(* for every client address, created by its first request, refilled only   *)
(* when the client asks again, and dropped by the collection of garbage    *)
(* that a request starts when the last one is long enough ago.             *)
(*                                                                         *)
(* Allow runs under the mutex of the limiter and is one step.  It reads    *)
(* the clock just before it takes the mutex, so two requests may be served *)
(* in another order than that of their clocks; the difference is far below *)
(* a tick and is left out.  A bucket keeps what it has earned since its    *)
(* `last' (the ticks passed times rps) beside its tokens, up to its size,  *)
(* from which on more time makes no difference.  Units are those of        *)
(* TokenBucket.                                                            *)
(***************************************************************************)
EXTENDS Integers

CONSTANTS Keys,       \* client addresses
          Burst,      \* burst, in units
          Rate,       \* rps, in units for each tick
          Cost,       \* one token, in units
          GCInterval, \* rateLimiterGCInterval, in ticks
          MaxCredit,  \* bound: the longest window that is observed
          None

ASSUME LimitsAssumption ==
    /\ Burst \in Nat /\ Rate \in Nat /\ Cost \in Nat \ {0}
    /\ GCInterval \in Nat /\ MaxCredit \in Nat

Bucket == [tokens : 0..Burst, earned : 0..Burst]
ASSUME NoneAssumption == None \notin Bucket

VARIABLES buckets, \* RateLimiter.buckets
          sinceGC, \* the time since lastGC
          answer,  \* the last request and whether it went through
          spent,   \* for the properties: what each client was let through since some moment
          credit   \* for the properties: what a bucket earned since that moment

limiterVars == <<buckets, sinceGC, answer, spent, credit>>

LimiterTypeOK ==
    /\ buckets \in [Keys -> Bucket \cup {None}]
    /\ sinceGC \in 0..GCInterval + 1
    /\ answer \in [key : Keys, ok : BOOLEAN] \cup {None}
    /\ spent \in [Keys -> Nat]
    /\ credit \in Nat

LimiterInit ==
    /\ buckets = [k \in Keys |-> None]
    /\ sinceGC = 0
    /\ answer = None
    /\ spent = [k \in Keys |-> 0]
    /\ credit = 0

-----------------------------------------------------------------------------
\* Mutant: the refill is not capped at the burst.
BugCapped(x) == x

Capped(x) == IF x > Burst THEN Burst ELSE x

\* Mutant: every bucket that was idle is dropped.
BugRefilled(b) == b.earned > 0

\* gcLocked: a bucket that is full again says no more than none.
Refilled(b) == b.tokens + b.earned >= Burst

Collected ==
    [k \in Keys |-> IF buckets[k] # None /\ Refilled(buckets[k]) THEN None ELSE buckets[k]]

\* The buckets a request finds, after the garbage collection it starts.
Found == IF sinceGC > GCInterval THEN Collected ELSE buckets

\* The tokens of a client at the moment of its request.
Tokens(found, k) == IF found[k] = None THEN Burst ELSE Capped(found[k].tokens + found[k].earned)

Allow(k) ==
    /\ LET tokens == Tokens(Found, k)
           left == IF tokens < Cost THEN tokens ELSE tokens - Cost
       IN /\ buckets' = [Found EXCEPT ![k] = [tokens |-> left, earned |-> 0]]
          /\ answer' = [key |-> k, ok |-> tokens >= Cost]
          /\ spent' = [spent EXCEPT ![k] = @ + (tokens - left)]
    /\ sinceGC' = IF sinceGC > GCInterval THEN 0 ELSE sinceGC
    /\ UNCHANGED credit

\* One unit of time passes.
LimiterTick ==
    /\ credit + Rate <= MaxCredit
    /\ buckets' = [k \in Keys |-> IF buckets[k] = None THEN None
                                  ELSE [buckets[k] EXCEPT !.earned = Capped(@ + Rate)]]
    /\ sinceGC' = IF sinceGC > GCInterval THEN sinceGC ELSE sinceGC + 1
    /\ credit' = credit + Rate
    /\ UNCHANGED <<answer, spent>>

\* The window the properties look at begins anew, at any moment.
NewWindow ==
    /\ spent' = [k \in Keys |-> 0]
    /\ credit' = 0
    /\ UNCHANGED <<buckets, sinceGC, answer>>

-----------------------------------------------------------------------------
LimiterNext == LimiterTick \/ NewWindow \/ \E k \in Keys : Allow(k)

LimiterSpec == LimiterInit /\ [][LimiterNext]_limiterVars

-----------------------------------------------------------------------------
(* Properties *)

\* What the bucket of a client holds, whether it exists or not.
Level == [k \in Keys |-> Tokens(buckets, k)]

Ideal == INSTANCE TokenBucket WITH level <- Level

\* The limiter answers every request as buckets that are refilled all the time
\* and never dropped would: neither the lazy refill nor the collection of
\* garbage can be noticed by a client.
ImplementsTokenBucket == Ideal!Spec

\* In any stretch of time a client gets through at most the burst and what was
\* refilled meanwhile.
WindowBound == \A k \in Keys : spent[k] <= Burst + credit
=============================================================================
