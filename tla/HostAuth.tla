------------------------------ MODULE HostAuth ------------------------------
(***************************************************************************)
(* Request authentication between OAM and the host adapter                 *)
(* (internal/appliance/hostauth.go): SignRequest on OAM's side, and on the *)
(* host's VerifyRequest with its cache of nonces, as the adapter calls it  *)
(* for every request (hostfixture.authenticated).                          *)
(*                                                                         *)
(* A signed request may be delivered any number of times, at any later     *)
(* time, and altered on the way.  The verifier reads its clock before it   *)
(* enters the cache, so requests verified together may enter it in another *)
(* order than that of their clocks.                                        *)
(***************************************************************************)
EXTENDS Integers

CONSTANTS Nonces,    \* random nonces, one for each signed request
          Threads,   \* requests under verification
          Skew,      \* MaxClockSkew
          MaxAhead,  \* how far the signer's clock may be ahead of the verifier's
          MaxStall,  \* how long a verification takes from its clock to the cache
          MaxClock,  \* bound: the clock stops here
          None

(***************************************************************************)
(* Both ends are on one host, so the clocks are the same but for the       *)
(* scheduling of the two processes; MaxClockSkew has to absorb both.       *)
(***************************************************************************)
ASSUME TimesAssumption ==
    /\ Skew \in Nat /\ MaxAhead \in Nat /\ MaxStall \in Nat /\ MaxClock \in Nat
    /\ MaxAhead + MaxStall <= Skew
ASSUME NoneAssumption == None \notin Int /\ None \notin Nonces

VARIABLES clock,    \* the time
          signed,   \* the timestamp of each signed request
          job,      \* the nonce each verification is about, and the clock it read
          seen,     \* NonceCache.seen
          accepted, \* for the properties: how often a request was accepted
          replayed  \* for the properties: the requests refused as replays

vars == <<clock, signed, job, seen, accepted, replayed>>

Times == Int \cup {None}
Idle == [nonce |-> None, now |-> 0]

TypeOK ==
    /\ clock \in 0..MaxClock
    /\ signed \in [Nonces -> Times]
    /\ job \in [Threads -> [nonce : Nonces \cup {None}, now : 0..MaxClock]]
    /\ seen \in [Nonces -> (0..MaxClock) \cup {None}]
    /\ accepted \in [Nonces -> 0..2]
    /\ replayed \subseteq Nonces

Init ==
    /\ clock = 0
    /\ signed = [n \in Nonces |-> None]
    /\ job = [t \in Threads |-> Idle]
    /\ seen = [n \in Nonces |-> None]
    /\ accepted = [n \in Nonces |-> 0]
    /\ replayed = {}

-----------------------------------------------------------------------------
\* SignRequest: a fresh nonce and the signer's clock, in whole seconds.
SignRequest(n) ==
    /\ signed[n] = None
    /\ \E behind \in 0..1, ahead \in 0..MaxAhead :
          signed' = [signed EXCEPT ![n] = clock + ahead - behind]
    /\ UNCHANGED <<clock, job, seen, accepted, replayed>>

\* The timestamp is inside the window on both sides.
InWindow(now, ts) == now - ts <= Skew /\ ts - now <= Skew

\* Mutant: the nonce is recorded before the signature is checked.
BugVerifyRequest(t, n, intact) ==
    /\ job[t] = Idle /\ signed[n] # None
    /\ seen' = IF seen[n] = None THEN [seen EXCEPT ![n] = clock] ELSE seen
    /\ job' = IF intact /\ InWindow(clock, signed[n])
              THEN [job EXCEPT ![t] = [nonce |-> n, now |-> clock]] ELSE job
    /\ UNCHANGED <<clock, signed, accepted, replayed>>

\* VerifyRequest up to the cache: an altered request is refused for its
\* signature, an old one for its timestamp.
VerifyRequest(t, n, intact) ==
    /\ job[t] = Idle /\ signed[n] # None
    /\ job' = IF intact /\ InWindow(clock, signed[n])
              THEN [job EXCEPT ![t] = [nonce |-> n, now |-> clock]] ELSE job
    /\ UNCHANGED <<clock, signed, seen, accepted, replayed>>

\* Mutant: the entry goes one second early.
BugExpired(now, at) == now - at >= 2 * Skew

Expired(now, at) == now - at > 2 * Skew

Purged(now) == [n \in Nonces |-> IF seen[n] # None /\ Expired(now, seen[n]) THEN None ELSE seen[n]]

\* NonceCache.use, under its mutex, and the answer.
use(t) ==
    /\ job[t].nonce # None
    /\ LET n == job[t].nonce
           kept == Purged(job[t].now)
       IN IF kept[n] # None
          THEN seen' = kept /\ replayed' = replayed \cup {n} /\ UNCHANGED accepted
          ELSE /\ seen' = [kept EXCEPT ![n] = job[t].now]
               /\ accepted' = [accepted EXCEPT ![n] = IF @ = 2 THEN 2 ELSE @ + 1]
               /\ UNCHANGED replayed
    /\ job' = [job EXCEPT ![t] = Idle]
    /\ UNCHANGED <<clock, signed>>

\* One unit of time passes.
Tick ==
    /\ clock < MaxClock
    /\ \A t \in Threads : job[t].nonce # None => clock + 1 - job[t].now <= MaxStall
    /\ clock' = clock + 1
    /\ UNCHANGED <<signed, job, seen, accepted, replayed>>

-----------------------------------------------------------------------------
Next ==
    \/ Tick
    \/ \E n \in Nonces : SignRequest(n)
    \/ \E t \in Threads :
          use(t) \/ \E n \in Nonces, intact \in BOOLEAN : VerifyRequest(t, n, intact)

Spec == Init /\ [][Next]_vars

-----------------------------------------------------------------------------
(* Properties *)

\* A signed request is accepted at most once, however often it is delivered:
\* a nonce is forgotten only when its timestamp can no longer pass, for the
\* verifications that read an earlier clock as well ("the nonce makes it
\* single-use inside that bound").
AcceptedOnce == \A n \in Nonces : accepted[n] <= 1

\* A request is refused as a replay only if it was accepted before: one that
\* was altered or came too late does not spend the nonce of the real one.
RefusedOnlyIfUsed == \A n \in replayed : accepted[n] >= 1
=============================================================================
