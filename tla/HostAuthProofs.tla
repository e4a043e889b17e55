--------------------------- MODULE HostAuthProofs ---------------------------
(***************************************************************************)
(* Proofs about HostAuth, for any number of requests, verifications, and   *)
(* any window that absorbs the two kinds of delay (TimesAssumption).       *)
(*                                                                         *)
(* The argument: a verification reads a clock at which its request was     *)
(* already signed, so the timestamp is at most MaxAhead after it.  An      *)
(* entry is dropped by a clock more than two windows after that of its     *)
(* use, and every verification then under way read its clock at most       *)
(* MaxStall before: for each of them the timestamp is older than the       *)
(* window (Forgotten).                                                     *)
(***************************************************************************)
EXTENDS HostAuth, TLAPS

\* A timestamp comes from the signer's clock.
Signed == \A n \in Nonces : signed[n] # None => signed[n] <= clock + MaxAhead

\* A verification under way: its request was signed, its clock is recent and
\* the timestamp passed.
Waiting == \A t \in Threads : job[t].nonce # None =>
    /\ signed[job[t].nonce] # None
    /\ job[t].now <= clock /\ clock - job[t].now <= MaxStall
    /\ signed[job[t].nonce] - job[t].now <= MaxAhead
    /\ job[t].now - signed[job[t].nonce] <= Skew

\* An entry of the cache is the use of a request.
Cached == \A n \in Nonces : seen[n] # None =>
    /\ accepted[n] = 1 /\ signed[n] # None
    /\ seen[n] <= clock /\ signed[n] - seen[n] <= MaxAhead

\* A request whose use was forgotten can no longer pass.
Forgotten == \A n \in Nonces : accepted[n] # 0 /\ seen[n] = None =>
    signed[n] # None /\ clock - MaxStall > signed[n] + Skew

IInv == TypeOK /\ Signed /\ Waiting /\ Cached /\ Forgotten /\ AcceptedOnce /\ RefusedOnlyIfUsed

-----------------------------------------------------------------------------
LEMMA InitKeeps == Init => IInv
BY TimesAssumption, NoneAssumption
   DEF Init, Idle, IInv, TypeOK, Times, Signed, Waiting, Cached, Forgotten, AcceptedOnce, RefusedOnlyIfUsed

LEMMA SignKeeps == ASSUME IInv, NEW n \in Nonces, SignRequest(n) PROVE IInv'
<1>1. PICK behind \in 0..1, ahead \in 0..MaxAhead :
          signed' = [signed EXCEPT ![n] = clock + ahead - behind]
  BY DEF SignRequest
<1>2. UNCHANGED <<clock, job, seen, accepted, replayed>> /\ signed[n] = None
  BY DEF SignRequest
<1>3. TypeOK /\ TypeOK' /\ clock \in Int
  BY <1>1, <1>2, TimesAssumption DEF IInv, TypeOK, Times
<1>4. signed'[n] \in Int /\ signed'[n] <= clock + MaxAhead /\ \A k \in Nonces \ {n} : signed'[k] = signed[k]
  BY <1>1, <1>3, TimesAssumption DEF TypeOK
<1>5. Signed'
  BY <1>2, <1>4 DEF IInv, Signed
<1>6. Waiting'
  <2>1. \A t \in Threads : job[t].nonce \in Nonces \cup {None} /\ job[t].nonce # n
    BY <1>2, <1>3, NoneAssumption DEF IInv, TypeOK, Waiting
  <2> QED BY <1>2, <1>4, <2>1 DEF IInv, Waiting
<1>7. Cached' /\ Forgotten'
  BY <1>2, <1>4 DEF IInv, Cached, Forgotten
<1>8. AcceptedOnce' /\ RefusedOnlyIfUsed'
  BY <1>2 DEF IInv, AcceptedOnce, RefusedOnlyIfUsed
<1> QED BY <1>3, <1>5, <1>6, <1>7, <1>8 DEF IInv

LEMMA VerifyKeeps ==
    ASSUME IInv, NEW t \in Threads, NEW n \in Nonces, NEW intact \in BOOLEAN, VerifyRequest(t, n, intact)
    PROVE  IInv'
<1>1. UNCHANGED <<clock, signed, seen, accepted, replayed>> /\ signed[n] # None
  BY DEF VerifyRequest
<1>2. TypeOK /\ clock \in 0..MaxClock /\ signed[n] \in Int
  BY <1>1 DEF IInv, TypeOK, Times
<1>3. CASE job' = job
  BY <1>1, <1>3 DEF IInv, TypeOK, Signed, Waiting, Cached, Forgotten, AcceptedOnce, RefusedOnlyIfUsed
<1>4. CASE InWindow(clock, signed[n]) /\ job' = [job EXCEPT ![t] = [nonce |-> n, now |-> clock]]
  <2>1. TypeOK'
    BY <1>1, <1>2, <1>4 DEF TypeOK
  <2>2. job'[t].nonce = n /\ job'[t].now = clock /\ \A u \in Threads \ {t} : job'[u] = job[u]
    BY <1>2, <1>4 DEF TypeOK
  <2>3. Waiting'
    <3> SUFFICES ASSUME NEW u \in Threads, job'[u].nonce # None
                 PROVE  /\ signed[job'[u].nonce] # None
                        /\ job'[u].now <= clock /\ clock - job'[u].now <= MaxStall
                        /\ signed[job'[u].nonce] - job'[u].now <= MaxAhead
                        /\ job'[u].now - signed[job'[u].nonce] <= Skew
      BY <1>1 DEF Waiting
    <3>1. CASE u = t
      <4>1. signed[n] <= clock + MaxAhead /\ clock - signed[n] <= Skew
        BY <1>1, <1>4 DEF IInv, Signed, InWindow
      <4> QED BY <1>1, <1>2, <2>2, <3>1, <4>1, TimesAssumption
    <3>2. CASE u # t
      BY <2>2, <3>2 DEF IInv, Waiting
    <3> QED BY <3>1, <3>2
  <2>4. Signed' /\ Cached' /\ Forgotten' /\ AcceptedOnce' /\ RefusedOnlyIfUsed'
    BY <1>1 DEF IInv, Signed, Cached, Forgotten, AcceptedOnce, RefusedOnlyIfUsed
  <2> QED BY <2>1, <2>3, <2>4 DEF IInv
<1> QED BY <1>3, <1>4 DEF VerifyRequest

\* A request under verification was not forgotten, and an entry that is
\* dropped now belongs to none.
LEMMA UseKeeps == ASSUME IInv, NEW t \in Threads, use(t) PROVE IInv'
<1> DEFINE n == job[t].nonce
           now == job[t].now
           kept == Purged(now)
<1>1. /\ n \in Nonces /\ now \in 0..MaxClock /\ clock \in 0..MaxClock /\ TypeOK
      /\ signed \in [Nonces -> Times] /\ seen \in [Nonces -> (0..MaxClock) \cup {None}]
      /\ accepted \in [Nonces -> 0..2] /\ replayed \subseteq Nonces
      /\ None \notin Int
  BY NoneAssumption DEF IInv, TypeOK, use
<1>2. /\ signed[n] # None /\ now <= clock /\ clock - now <= MaxStall
      /\ signed[n] - now <= MaxAhead /\ now - signed[n] <= Skew
  BY DEF IInv, Waiting, use
<1>3. IF kept[n] # None
      THEN seen' = kept /\ replayed' = replayed \cup {n} /\ UNCHANGED accepted
      ELSE /\ seen' = [kept EXCEPT ![n] = now]
           /\ accepted' = [accepted EXCEPT ![n] = IF @ = 2 THEN 2 ELSE @ + 1]
           /\ UNCHANGED replayed
  BY DEF use
<1>4. job' = [job EXCEPT ![t] = Idle] /\ UNCHANGED <<clock, signed>>
  BY DEF use
<1>5. kept \in [Nonces -> (0..MaxClock) \cup {None}]
  BY <1>1 DEF Purged
<1>6. \A k \in Nonces : kept[k] # None => kept[k] = seen[k]
  BY DEF Purged
<1>7. \A k \in Nonces : seen[k] # None /\ kept[k] = None => now - seen[k] > 2 * Skew
  BY DEF Purged, Expired
<1>8. Waiting' /\ job' \in [Threads -> [nonce : Nonces \cup {None}, now : 0..MaxClock]]
  <2>1. job'[t] = Idle /\ \A u \in Threads \ {t} : job'[u] = job[u]
    BY <1>1, <1>4 DEF TypeOK
  <2>2. Waiting'
    BY <1>4, <2>1 DEF IInv, Waiting, Idle
  <2> QED BY <1>1, <1>4, <2>2, TimesAssumption DEF TypeOK, Idle
<1> HIDE DEF n, now, kept
<1>9. \A k \in Nonces : accepted[k] # 0 /\ kept[k] = None =>
                            signed[k] # None /\ clock - MaxStall > signed[k] + Skew
  <2> SUFFICES ASSUME NEW k \in Nonces, accepted[k] # 0, kept[k] = None
               PROVE  signed[k] # None /\ clock - MaxStall > signed[k] + Skew
    OBVIOUS
  <2>1. CASE seen[k] = None
    BY <2>1 DEF IInv, Forgotten
  <2>2. CASE seen[k] # None
    <3>1. signed[k] # None /\ signed[k] - seen[k] <= MaxAhead /\ now - seen[k] > 2 * Skew
      BY <1>7, <2>2 DEF IInv, Cached
    <3>2. signed[k] \in Int /\ seen[k] \in Int
      BY <1>1, <2>2, <3>1 DEF Times
    <3> QED BY <1>1, <1>2, <3>1, <3>2, TimesAssumption
  <2> QED BY <2>1, <2>2
<1>10. Signed'
  BY <1>4 DEF IInv, Signed
<1>11. CASE kept[n] # None
  <2>1. seen' = kept /\ replayed' = replayed \cup {n} /\ accepted' = accepted
    BY <1>3, <1>11
  <2>2. TypeOK'
    BY <1>1, <1>4, <1>5, <1>8, <2>1 DEF TypeOK
  <2>3. Cached' /\ Forgotten' /\ AcceptedOnce'
    BY <1>4, <1>6, <1>9, <2>1 DEF IInv, Cached, Forgotten, AcceptedOnce
  <2>4. accepted[n] = 1
    BY <1>1, <1>6, <1>11 DEF IInv, Cached
  <2>5. RefusedOnlyIfUsed'
    BY <2>1, <2>4 DEF IInv, RefusedOnlyIfUsed
  <2> QED BY <1>8, <1>10, <2>2, <2>3, <2>5 DEF IInv
<1>12. CASE kept[n] = None
  <2>1. accepted[n] = 0
    <3>1. signed[n] \in Int
      BY <1>1, <1>2 DEF Times
    <3> QED BY <1>1, <1>2, <1>9, <1>12, <3>1, TimesAssumption
  <2>2. /\ seen' = [kept EXCEPT ![n] = now]
        /\ accepted' = [accepted EXCEPT ![n] = 1] /\ replayed' = replayed
    BY <1>1, <1>3, <1>12, <2>1
  <2>3. TypeOK'
    BY <1>1, <1>4, <1>5, <1>8, <2>2 DEF TypeOK
  <2>4. /\ seen'[n] = now /\ accepted'[n] = 1
        /\ \A k \in Nonces \ {n} : seen'[k] = kept[k] /\ accepted'[k] = accepted[k]
    BY <1>1, <1>5, <2>2
  <2>5. now # None
    BY <1>1
  <2>6. Cached'
    BY <1>2, <1>4, <1>6, <2>4 DEF IInv, Cached
  <2>7. Forgotten'
    BY <1>4, <1>9, <2>4, <2>5 DEF Forgotten
  <2>8. AcceptedOnce' /\ RefusedOnlyIfUsed'
    BY <1>1, <2>2, <2>4 DEF IInv, AcceptedOnce, RefusedOnlyIfUsed
  <2> QED BY <1>8, <1>10, <2>3, <2>6, <2>7, <2>8 DEF IInv
<1> QED BY <1>11, <1>12

LEMMA TickKeeps == ASSUME IInv, Tick PROVE IInv'
<1>1. /\ clock \in 0..MaxClock /\ clock < MaxClock /\ clock' = clock + 1
      /\ UNCHANGED <<signed, job, seen, accepted, replayed>> /\ TypeOK /\ None \notin Int
  BY NoneAssumption DEF IInv, TypeOK, Tick
<1>2. TypeOK'
  BY <1>1, TimesAssumption DEF TypeOK
<1>3. Signed'
  BY <1>1, TimesAssumption DEF IInv, TypeOK, Times, Signed
<1>4. Waiting'
  BY <1>1, TimesAssumption DEF IInv, TypeOK, Waiting, Tick
<1>5. Cached'
  BY <1>1, TimesAssumption DEF IInv, TypeOK, Cached
<1>6. Forgotten'
  BY <1>1, TimesAssumption DEF IInv, TypeOK, Times, Forgotten
<1>7. AcceptedOnce' /\ RefusedOnlyIfUsed'
  BY <1>1 DEF IInv, AcceptedOnce, RefusedOnlyIfUsed
<1> QED BY <1>2, <1>3, <1>4, <1>5, <1>6, <1>7 DEF IInv

LEMMA NextKeeps == IInv /\ [Next]_vars => IInv'
<1> SUFFICES ASSUME IInv, [Next]_vars PROVE IInv'
  OBVIOUS
<1>1. CASE Next
  BY <1>1, TickKeeps, SignKeeps, UseKeeps, VerifyKeeps DEF Next
<1>2. CASE UNCHANGED vars
  BY <1>2 DEF vars, IInv, TypeOK, Signed, Waiting, Cached, Forgotten, AcceptedOnce, RefusedOnlyIfUsed
<1> QED BY <1>1, <1>2

LEMMA InductiveInvariant == Spec => []IInv
BY InitKeeps, NextKeeps, PTL DEF Spec

-----------------------------------------------------------------------------
(* The theorems *)

\* The clocks, the cache and the verifications stay in their types.
THEOREM NoncesTyped == Spec => []TypeOK
<1>1. IInv => TypeOK BY DEF IInv
<1> QED BY <1>1, InductiveInvariant, PTL

\* A signed request is accepted at most once (NonceCache.use and its purge).
THEOREM RequestAcceptedOnce == Spec => []AcceptedOnce
<1>1. IInv => AcceptedOnce BY DEF IInv
<1> QED BY <1>1, InductiveInvariant, PTL

\* A request that was not accepted before is never refused as a replay
\* (VerifyRequest checks the signature before it records the nonce).
THEOREM ReplayOnlyIfUsed == Spec => []RefusedOnlyIfUsed
<1>1. IInv => RefusedOnlyIfUsed BY DEF IInv
<1> QED BY <1>1, InductiveInvariant, PTL
=============================================================================
