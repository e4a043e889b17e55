--------------------------- MODULE ThrottlingProofs ---------------------------
(***************************************************************************)
(* Proofs about what slows a caller down: the rate limiter (RateLimiter),  *)
(* for any number of clients and any limits, and the lockout after failed  *)
(* logins (LoginLockout), for any number of requests and any times.        *)
(*                                                                         *)
(* The limiter: what a bucket would hold if it were refilled now (Level)   *)
(* is not changed by the collection of garbage, since only full buckets    *)
(* are dropped, nor by when the refill is computed, since capping twice is *)
(* capping once.  What a client got through in a window plus its level is  *)
(* at most the burst plus what was refilled (Balanced).                    *)
(*                                                                         *)
(* The count of the lockout: a request records a failure only for a wrong  *)
(* password or for a reauthentication (Blamed), and then the counter of    *)
(* the properties goes up as the count of the row does; a success clears   *)
(* both.                                                                   *)
(*                                                                         *)
(* Its duration: the loop of RecordFailedLogin has a value for any number  *)
(* of rounds (LoopExists), which is the power of two while it is below the *)
(* cap (LoopDoubles); both by a least counterexample.  While requests come *)
(* one at a time, the row that is written is the one that was read, but    *)
(* for its age (Planned).                                                  *)
(***************************************************************************)
EXTENDS RateLimiter, LoginLockout, WellFoundedInduction, TLAPS

-----------------------------------------------------------------------------
(* The rate limiter: the inductive invariant *)

Balanced == \A k \in Keys : spent[k] + Tokens(buckets, k) <= Burst + credit

IInv == LimiterTypeOK /\ Balanced

-----------------------------------------------------------------------------
(* The operators *)

\* The fields of a bucket.
LEMMA BucketTyped ==
    ASSUME NEW b \in Bucket
    PROVE  b.tokens \in 0..Burst /\ b.earned \in 0..Burst
BY DEF Bucket

\* What is capped is at most the burst.
LEMMA CappedBound == ASSUME NEW x \in Nat PROVE Capped(x) \in 0..Burst /\ Capped(x) <= x
BY LimitsAssumption DEF Capped

\* A bucket that is dropped would have been found full.
LEMMA CollectionUnnoticed ==
    ASSUME LimiterTypeOK, NEW k \in Keys
    PROVE  /\ Found \in [Keys -> Bucket \cup {None}]
           /\ Tokens(Found, k) = Tokens(buckets, k)
           /\ Tokens(buckets, k) \in 0..Burst
<1>1. buckets \in [Keys -> Bucket \cup {None}]
  BY DEF LimiterTypeOK
<1>2. Collected \in [Keys -> Bucket \cup {None}] /\ Found \in [Keys -> Bucket \cup {None}]
  BY <1>1 DEF Collected, Found
<1>3. CASE buckets[k] = None
  BY <1>2, <1>3, LimitsAssumption DEF Found, Collected, Tokens
<1>4. CASE buckets[k] # None
  <2>1. buckets[k] \in Bucket
    BY <1>1, <1>4
  <2>2. PICK x \in Nat : x = buckets[k].tokens + buckets[k].earned
    BY <2>1, LimitsAssumption DEF Bucket
  <2>3. Tokens(buckets, k) = Capped(x) /\ Refilled(buckets[k]) = (x >= Burst)
    BY <1>4, <2>2 DEF Tokens, Refilled
  <2>4. Found[k] = buckets[k] \/ (Found[k] = None /\ x >= Burst)
    BY <1>4, <2>3 DEF Found, Collected
  <2>5. CASE Found[k] = buckets[k]
    BY <1>2, <2>3, <2>5, CappedBound DEF Tokens
  <2>6. CASE Found[k] = None /\ x >= Burst
    BY <1>2, <2>3, <2>6, CappedBound, LimitsAssumption DEF Tokens, Capped
  <2> QED BY <2>4, <2>5, <2>6
<1> QED BY <1>2, <1>3, <1>4

\* Computing the refill at once or in parts is the same.
LEMMA LazyRefill ==
    ASSUME NEW a \in 0..Burst, NEW e \in 0..Burst
    PROVE  Capped(a + Capped(e + Rate)) = Capped(Capped(a + e) + Rate)
BY LimitsAssumption DEF Capped

-----------------------------------------------------------------------------
(* The steps, as those of an ideal bucket *)

\* Allow is a request to an ideal bucket.
LEMMA AllowIsRequest ==
    ASSUME LimiterTypeOK, NEW k \in Keys, Allow(k)
    PROVE  /\ LimiterTypeOK'
           /\ LET t == Tokens(buckets, k)
                  u == IF t >= Cost THEN t - Cost ELSE t
              IN /\ answer' = [key |-> k, ok |-> t >= Cost]
                 /\ Tokens(buckets', k) = u
                 /\ spent' = [spent EXCEPT ![k] = @ + (t - u)]
           /\ \A j \in Keys \ {k} : Tokens(buckets', j) = Tokens(buckets, j)
           /\ credit' = credit
<1>1. PICK t : t = Tokens(buckets, k)
  OBVIOUS
<1>2. t \in 0..Burst /\ Tokens(Found, k) = t /\ Found \in [Keys -> Bucket \cup {None}]
  BY <1>1, CollectionUnnoticed
<1>3. PICK u : u = IF t >= Cost THEN t - Cost ELSE t
  OBVIOUS
<1>4. u \in 0..Burst /\ u <= t /\ u = (IF t < Cost THEN t ELSE t - Cost)
  BY <1>2, <1>3, LimitsAssumption
<1>5. /\ buckets' = [Found EXCEPT ![k] = [tokens |-> u, earned |-> 0]]
      /\ answer' = [key |-> k, ok |-> t >= Cost]
      /\ spent' = [spent EXCEPT ![k] = @ + (t - u)]
      /\ sinceGC' = IF sinceGC > GCInterval THEN 0 ELSE sinceGC
      /\ credit' = credit
  BY <1>2, <1>4 DEF Allow
<1> DEFINE b == [tokens |-> u, earned |-> 0]
<1>6. b \in Bucket /\ b.tokens = u /\ b.earned = 0
  BY <1>4, LimitsAssumption DEF Bucket
<1>7. buckets' = [Found EXCEPT ![k] = b]
  BY <1>5
<1> HIDE DEF b
<1>8. /\ buckets' \in [Keys -> Bucket \cup {None}] /\ buckets'[k] = b
      /\ \A j \in Keys \ {k} : buckets'[j] = Found[j]
  BY <1>2, <1>6, <1>7
<1>9. Tokens(buckets', k) = u
  BY <1>4, <1>6, <1>8, NoneAssumption, LimitsAssumption DEF Tokens, Capped
<1>10. \A j \in Keys \ {k} : Tokens(buckets', j) = Tokens(buckets, j)
  <2> SUFFICES ASSUME NEW j \in Keys \ {k} PROVE Tokens(buckets', j) = Tokens(buckets, j)
    OBVIOUS
  <2>1. Tokens(buckets', j) = Tokens(Found, j)
    BY <1>8 DEF Tokens
  <2> QED BY <2>1, CollectionUnnoticed
<1>11. LimiterTypeOK'
  <2>1. answer' \in [key : Keys, ok : BOOLEAN] \cup {None}
    BY <1>5
  <2>2. spent' \in [Keys -> Nat] /\ sinceGC' \in 0..GCInterval + 1
    BY <1>2, <1>4, <1>5, LimitsAssumption DEF LimiterTypeOK
  <2> QED BY <1>5, <1>8, <2>1, <2>2 DEF LimiterTypeOK
<1> QED BY <1>1, <1>3, <1>5, <1>9, <1>10, <1>11

\* Time refills every ideal bucket.
LEMMA TickIsRefill ==
    ASSUME LimiterTypeOK, LimiterTick
    PROVE  /\ LimiterTypeOK'
           /\ \A k \in Keys : Tokens(buckets', k) = Capped(Tokens(buckets, k) + Rate)
           /\ UNCHANGED <<answer, spent>> /\ credit' = credit + Rate
<1>1. buckets \in [Keys -> Bucket \cup {None}]
  BY DEF LimiterTypeOK
<1>2. buckets' = [k \in Keys |-> IF buckets[k] = None THEN None
                                 ELSE [buckets[k] EXCEPT !.earned = Capped(@ + Rate)]]
  BY DEF LimiterTick
<1>3. ASSUME NEW k \in Keys
      PROVE  /\ buckets'[k] \in Bucket \cup {None}
             /\ Tokens(buckets', k) = Capped(Tokens(buckets, k) + Rate)
  <2>1. CASE buckets[k] = None
    BY <1>2, <2>1, LimitsAssumption DEF Tokens, Capped
  <2>2. CASE buckets[k] # None
    <3>1. PICK a \in 0..Burst, e \in 0..Burst : buckets[k] = [tokens |-> a, earned |-> e]
      BY <1>1, <2>2 DEF Bucket
    <3>2. buckets'[k] = [tokens |-> a, earned |-> Capped(e + Rate)]
      BY <1>2, <2>2, <3>1
    <3>3. Capped(e + Rate) \in 0..Burst
      BY LimitsAssumption, CappedBound
    <3>4. buckets'[k] \in Bucket
      BY <3>2, <3>3 DEF Bucket
    <3>5. Tokens(buckets', k) = Capped(a + Capped(e + Rate)) /\ Tokens(buckets, k) = Capped(a + e)
      BY <2>2, <3>1, <3>2, <3>4, NoneAssumption DEF Tokens
    <3> QED BY <3>4, <3>5, LazyRefill
  <2> QED BY <2>1, <2>2
<1>4. buckets' \in [Keys -> Bucket \cup {None}]
  BY <1>2, <1>3
<1>5. LimiterTypeOK'
  BY <1>4, LimitsAssumption DEF LimiterTypeOK, LimiterTick
<1> QED BY <1>3, <1>5 DEF LimiterTick

\* A new window leaves the buckets alone.
LEMMA NewWindowLeaves ==
    ASSUME LimiterTypeOK, NewWindow
    PROVE  LimiterTypeOK' /\ \A k \in Keys : Tokens(buckets', k) = Tokens(buckets, k)
BY DEF LimiterTypeOK, NewWindow, Tokens

-----------------------------------------------------------------------------
LEMMA InitKeeps == LimiterInit => IInv
BY LimitsAssumption DEF LimiterInit, IInv, LimiterTypeOK, Balanced, Tokens

LEMMA NextKeeps == IInv /\ [LimiterNext]_limiterVars => IInv'
<1> SUFFICES ASSUME IInv, [LimiterNext]_limiterVars PROVE IInv'
  OBVIOUS
<1>1. LimiterTypeOK /\ Balanced /\ spent \in [Keys -> Nat] /\ credit \in Nat
  BY DEF IInv, LimiterTypeOK
<1>2. \A k \in Keys : Tokens(buckets, k) \in 0..Burst
  BY <1>1, CollectionUnnoticed
<1>3. ASSUME NEW k \in Keys, Allow(k) PROVE IInv'
  <2>1. PICK t, u : /\ t = Tokens(buckets, k) /\ u = IF t >= Cost THEN t - Cost ELSE t
                    /\ Tokens(buckets', k) = u /\ spent' = [spent EXCEPT ![k] = @ + (t - u)]
    BY <1>1, <1>3, AllowIsRequest
  <2>2. t \in 0..Burst /\ u \in 0..Burst
    BY <1>2, <2>1, LimitsAssumption
  <2>3. /\ LimiterTypeOK' /\ credit' = credit
        /\ \A j \in Keys \ {k} : Tokens(buckets', j) = Tokens(buckets, j)
    BY <1>1, <1>3, AllowIsRequest
  <2>4. \A j \in Keys \ {k} : spent'[j] = spent[j]
    BY <1>1, <2>1
  <2>5. spent'[k] = spent[k] + (t - u)
    BY <1>1, <2>1
  <2>6. spent'[k] + u = spent[k] + t
    BY <1>1, <2>2, <2>5
  <2>7. Balanced'
    BY <1>1, <2>1, <2>3, <2>4, <2>6 DEF Balanced
  <2> QED BY <2>3, <2>7 DEF IInv
<1>4. CASE LimiterTick
  <2>1. /\ LimiterTypeOK' /\ UNCHANGED <<answer, spent>> /\ credit' = credit + Rate
        /\ \A k \in Keys : Tokens(buckets', k) = Capped(Tokens(buckets, k) + Rate)
    BY <1>1, <1>4, TickIsRefill
  <2>2. \A k \in Keys : Tokens(buckets', k) <= Tokens(buckets, k) + Rate
    BY <1>2, <2>1, CappedBound, LimitsAssumption
  <2>3. \A k \in Keys : Tokens(buckets', k) \in 0..Burst
    BY <1>2, <2>1, CappedBound, LimitsAssumption
  <2>4. Balanced'
    BY <1>1, <1>2, <2>1, <2>2, <2>3, LimitsAssumption DEF Balanced
  <2> QED BY <2>1, <2>4 DEF IInv
<1>5. CASE NewWindow
  <2>1. LimiterTypeOK' /\ \A k \in Keys : Tokens(buckets', k) = Tokens(buckets, k)
    BY <1>1, <1>5, NewWindowLeaves
  <2>2. Balanced'
    BY <1>2, <1>5, <2>1, LimitsAssumption DEF Balanced, NewWindow
  <2> QED BY <2>1, <2>2 DEF IInv
<1>6. CASE UNCHANGED limiterVars
  BY <1>6 DEF limiterVars, IInv, LimiterTypeOK, Balanced, Tokens
<1> QED BY <1>3, <1>4, <1>5, <1>6 DEF LimiterNext

LEMMA InductiveInvariant == LimiterSpec => []IInv
BY InitKeeps, NextKeeps, PTL DEF LimiterSpec

-----------------------------------------------------------------------------
(* The theorems *)

\* The buckets stay between empty and full.
THEOREM LimiterTyped == LimiterSpec => []LimiterTypeOK
<1>1. IInv => LimiterTypeOK BY DEF IInv
<1> QED BY <1>1, InductiveInvariant, PTL

\* In any stretch of time a client gets through at most the burst and what was
\* refilled meanwhile (Allow, gcLocked).
THEOREM LimiterWindowBound == LimiterSpec => []WindowBound
<1>1. IInv => WindowBound
  <2> SUFFICES ASSUME IInv, NEW k \in Keys PROVE spent[k] <= Burst + credit
    BY DEF WindowBound
  <2>1. Tokens(buckets, k) \in 0..Burst
    BY CollectionUnnoticed DEF IInv
  <2> QED BY <2>1, LimitsAssumption DEF IInv, LimiterTypeOK, Balanced
<1> QED BY <1>1, InductiveInvariant, PTL

\* The limiter answers as buckets would that are refilled all the time and
\* never dropped (Allow, gcLocked).
THEOREM LimiterImplementsTokenBucket == LimiterSpec => ImplementsTokenBucket
<1>1. LimiterInit => Ideal!Init
  BY DEF LimiterInit, Ideal!Init, Level, Tokens
<1>2. IInv /\ [LimiterNext]_limiterVars => [Ideal!Next]_Ideal!vars
  <2> SUFFICES ASSUME IInv, [LimiterNext]_limiterVars PROVE [Ideal!Next]_Ideal!vars
    OBVIOUS
  <2>1. LimiterTypeOK
    BY DEF IInv
  <2>2. ASSUME NEW k \in Keys, Allow(k) PROVE Ideal!Next
    <3>1. PICK t, u : /\ t = Tokens(buckets, k) /\ u = IF t >= Cost THEN t - Cost ELSE t
                      /\ Tokens(buckets', k) = u /\ answer' = [key |-> k, ok |-> t >= Cost]
      BY <2>1, <2>2, AllowIsRequest
    <3>2. \A j \in Keys \ {k} : Tokens(buckets', j) = Tokens(buckets, j)
      BY <2>1, <2>2, AllowIsRequest
    <3>3. Level[k] = t
      BY <3>1 DEF Level
    <3>4. Level' = IF Level[k] >= Cost THEN [Level EXCEPT ![k] = @ - Cost] ELSE Level
      BY <3>1, <3>2, <3>3 DEF Level
    <3>5. Ideal!Request(k)
      BY <3>1, <3>3, <3>4 DEF Ideal!Request
    <3> QED BY <3>5 DEF Ideal!Next
  <2>3. ASSUME LimiterTick PROVE Ideal!Next
    <3>1. \A k \in Keys : Tokens(buckets', k) = Capped(Tokens(buckets, k) + Rate)
      BY <2>1, <2>3, TickIsRefill
    <3>2. \A k \in Keys : Level[k] = Tokens(buckets, k)
      BY DEF Level
    <3>3. Level' = [k \in Keys |-> Capped(Level[k] + Rate)]
      BY <3>1, <3>2 DEF Level
    <3>4. Ideal!Refill
      BY <2>3, <3>3 DEF Ideal!Refill, Ideal!Capped, Capped, LimiterTick
    <3> QED BY <3>4 DEF Ideal!Next
  <2>4. ASSUME NewWindow PROVE UNCHANGED Ideal!vars
    BY <2>1, <2>4, NewWindowLeaves DEF Level, Ideal!vars, NewWindow
  <2>5. ASSUME UNCHANGED limiterVars PROVE UNCHANGED Ideal!vars
    BY <2>5 DEF limiterVars, Level, Tokens, Ideal!vars
  <2> QED BY <2>2, <2>3, <2>4, <2>5 DEF LimiterNext
<1> QED BY <1>1, <1>2, InductiveInvariant, PTL DEF LimiterSpec, ImplementsTokenBucket, Ideal!Spec

-----------------------------------------------------------------------------
(* The lockout *)

\* What the proof about the count needs of the types.
CountTyped ==
    /\ DOMAIN rec = {"count", "age", "blocked", "left"}
    /\ rec.count \in 0..MaxCount
    /\ pc \in [Threads -> PCs]
    /\ kind \in [Threads -> {"login", "reauth"}]
    /\ cause \in [Threads -> {"wrong", "error"}]
    /\ wrong \in 0..MaxCount

\* A request records a failure for a wrong password, or reauthenticates.
Blamed == \A t \in Threads :
    pc[t] \in {"read", "reset", "upsert"} => cause[t] = "wrong" \/ kind[t] = "reauth"

\* Nothing else is on record: a request begins with the cause "wrong".
Fresh == \A t \in Threads : pc[t] \in {"idle", "verify", "clear"} => cause[t] = "wrong"

\* The inductive invariant of the count.
CountInv == CountTyped /\ Blamed /\ Fresh /\ OnlyWrongCounted

-----------------------------------------------------------------------------
\* The first state.
LEMMA InitCounts == Init => CountInv
BY TimesAssumption DEF Init, NoRecord, CountInv, CountTyped, Blamed, Fresh,
       OnlyWrongCounted, PCs

\* A request that ends leaves nothing behind.
LEMMA ReturnCounts ==
    ASSUME CountInv, NEW t \in Threads, Return(t),
           DOMAIN rec' = {"count", "age", "blocked", "left"},
           rec'.count \in 0..MaxCount, wrong' \in 0..MaxCount, rec'.count <= wrong'
    PROVE  CountInv'
BY DEF Return, Goto, CountInv, CountTyped, Blamed, Fresh,
       OnlyWrongCounted, PCs

\* A failure that is recorded is one to count.
LEMMA RecordedCounts ==
    ASSUME CountInv, NEW t \in Threads, pc[t] \in {"read", "reset", "upsert"}, Counted(t)
    PROVE  wrong' = Least(wrong + 1, MaxCount) /\ wrong' \in 0..MaxCount /\ wrong' >= 1
<1> USE TimesAssumption
<1>1. cause[t] = "wrong" \/ kind[t] = "reauth"
  BY DEF CountInv, Blamed
<1>2. wrong' = Least(wrong + 1, MaxCount) /\ wrong \in 0..MaxCount
  BY <1>1 DEF Counted, CountInv, CountTyped
<1> QED BY <1>2 DEF Least

\* Every step of a request keeps what is counted.
LEMMA StepCounts ==
    ASSUME CountInv, NEW t \in Threads, Step(t) PROVE CountInv'
<1> USE TimesAssumption
<1>1. ASSUME Verified(t) \/ WrongPassword(t) PROVE CountInv'
  BY <1>1
     DEF Verified, WrongPassword, Goto, CountInv, CountTyped, Blamed,
         Fresh, OnlyWrongCounted, PCs
<1>2. ASSUME StoreError(t) PROVE CountInv'
  <2>1. CASE kind[t] = "login" /\ Return(t)
    BY <1>2, <2>1, ReturnCounts
       DEF StoreError, CountInv, CountTyped, OnlyWrongCounted
  <2>2. CASE kind[t] = "reauth" /\ Goto(t, "read")
    <3>1. cause' = [cause EXCEPT ![t] = "error"] /\ UNCHANGED <<rec, wrong, kind>>
      BY <1>2, <2>2 DEF StoreError, Return, Goto, CountInv, CountTyped
    <3> QED BY <2>2, <3>1
       DEF Goto, CountInv, CountTyped, Blamed, Fresh, OnlyWrongCounted,
           PCs
  <2> QED BY <1>2, <2>1, <2>2 DEF StoreError
<1>3. ASSUME ClearLoginAttempts(t) PROVE CountInv'
  BY <1>3, ReturnCounts DEF ClearLoginAttempts, NoRecord
<1>4. ASSUME GetLoginAttempt(t) PROVE CountInv'
  BY <1>4
     DEF GetLoginAttempt, Goto, CountInv, CountTyped, Blamed, Fresh,
         OnlyWrongCounted, PCs
<1>5. ASSUME ResetCount(t) PROVE CountInv'
  <2>1. wrong' = Least(wrong + 1, MaxCount) /\ wrong' \in 0..MaxCount /\ wrong' >= 1
    BY <1>5, RecordedCounts DEF ResetCount
  <2>2. /\ DOMAIN rec' = {"count", "age", "blocked", "left"}
        /\ rec'.count = (IF rec.count > 0 THEN 1 ELSE rec.count)
    BY <1>5 DEF ResetCount, CountInv, CountTyped
  <2>3. rec'.count \in 0..MaxCount /\ rec'.count <= wrong'
    BY <2>1, <2>2 DEF CountInv, CountTyped
  <2> QED BY <1>5, <2>1, <2>2, <2>3, ReturnCounts DEF ResetCount
<1>6. ASSUME UpsertAttempt(t) PROVE CountInv'
  <2>1. wrong' = Least(wrong + 1, MaxCount) /\ wrong' \in 0..MaxCount
    BY <1>6, RecordedCounts DEF UpsertAttempt
  <2>2. /\ DOMAIN rec' = {"count", "age", "blocked", "left"}
        /\ rec'.count = Least(rec.count + 1, MaxCount)
    BY <1>6 DEF UpsertAttempt
  <2>3. rec'.count \in 0..MaxCount /\ rec'.count <= wrong'
    BY <2>1, <2>2 DEF CountInv, CountTyped, OnlyWrongCounted, Least
  <2> QED BY <1>6, <2>1, <2>2, <2>3, ReturnCounts DEF UpsertAttempt
<1>7. ASSUME Abort(t) PROVE CountInv'
  BY <1>7, ReturnCounts DEF Abort, CountInv, CountTyped, OnlyWrongCounted
<1> QED BY <1>1, <1>2, <1>3, <1>4, <1>5, <1>6, <1>7 DEF Step

\* Every step does.
LEMMA NextCounts == CountInv /\ [Next]_vars => CountInv'
<1> USE KindsAssumption
<1> SUFFICES ASSUME CountInv, [Next]_vars PROVE CountInv'
  OBVIOUS
<1>1. ASSUME NEW t \in Threads, NEW k \in Kinds, Attempt(t, k) PROVE CountInv'
  BY <1>1
     DEF Attempt, Goto, CountInv, CountTyped, Blamed, Fresh,
         OnlyWrongCounted, PCs
<1>2. CASE Tick
  <2>1. DOMAIN rec' = DOMAIN rec /\ rec'.count = rec.count
    BY <1>2 DEF Tick, CountInv, CountTyped
  <2> QED BY <1>2, <2>1
     DEF Tick, CountInv, CountTyped, Blamed, Fresh, OnlyWrongCounted
<1>3. CASE UNCHANGED vars
  BY <1>3 DEF vars, CountInv, CountTyped, Blamed, Fresh, OnlyWrongCounted
<1> QED BY <1>1, <1>2, <1>3, StepCounts DEF Next

-----------------------------------------------------------------------------
\* Neither an outage of the store during a login nor a request that overlaps
\* with a success adds to the row: it counts at most the failures to count
\* since the last success (Login, RecordFailedLogin, ClearLoginAttempts).
THEOREM LockoutCountsOnlyWrong == Spec => []OnlyWrongCounted
<1>1. CountInv => OnlyWrongCounted BY DEF CountInv
<1> QED BY <1>1, InitCounts, NextCounts, PTL DEF Spec

-----------------------------------------------------------------------------
\* A set of numbers has a least one.
LEMMA LeastOf ==
    ASSUME NEW T, T \subseteq Nat, T # {}
    PROVE  \E x \in T : \A y \in T : x <= y
<1> DEFINE R == OpToRel(<, Nat)
<1>1. PICK x \in T : \A y \in T : ~ (<<y, x>> \in R)
  <2>1. IsWellFoundedOn(R, Nat)
    BY NatLessThanWellFounded DEF R
  <2> HIDE DEF R
  <2> QED BY <2>1, WFMin
<1>2. ASSUME NEW y \in T, y < x PROVE FALSE
  <2>1. y \in Nat /\ x \in Nat
    OBVIOUS
  <2>2. <<y, x>> \in R
    BY <1>2, <2>1 DEF OpToRel
  <2> QED BY <1>1, <2>2
<1>3. \A y \in T : y \in Nat
  OBVIOUS
<1> QED BY <1>2, <1>3

\* The loop of RecordFailedLogin: its first value, and each from the one before.
LoopValue(d, i) ==
    IF i = 1 THEN LockoutBase
    ELSE IF d[i - 1] < LockoutMax THEN 2 * d[i - 1] ELSE d[i - 1]

\* The loop runs for any number of rounds.
LEMMA LoopExists == ASSUME NEW m \in Nat PROVE \E d : d = [i \in 1..m |-> LoopValue(d, i)]
<1> SUFFICES ASSUME ~ \E d : d = [i \in 1..m |-> LoopValue(d, i)] PROVE FALSE
  OBVIOUS
<1> DEFINE T == {n \in Nat : ~ \E d : d = [i \in 1..n |-> LoopValue(d, i)]}
<1>1. T \subseteq Nat /\ T # {}
  OBVIOUS
<1>2. PICK n \in T : \A y \in T : n <= y
  <2> HIDE DEF T
  <2> QED BY <1>1, LeastOf
<1>3. n # 0
  <2> SUFFICES ASSUME n = 0 PROVE FALSE
    OBVIOUS
  <2>1. PICK d : d = [i \in 1..0 |-> 0]
    OBVIOUS
  <2>2. d = [i \in 1..0 |-> LoopValue(d, i)]
    BY <2>1
  <2> QED BY <2>2
<1>4. n - 1 \in Nat /\ n - 1 \notin T
  BY <1>2, <1>3
<1>5. PICK d : d = [i \in 1..(n - 1) |-> LoopValue(d, i)]
  BY <1>4
<1>6. PICK e : e = [i \in 1..n |-> LoopValue(d, i)]
  OBVIOUS
<1>7. ASSUME NEW i \in 1..n PROVE LoopValue(e, i) = LoopValue(d, i)
  <2>1. CASE i = 1
    BY <2>1 DEF LoopValue
  <2>2. CASE i # 1
    <3>1. i - 1 \in 1..(n - 1) /\ i - 1 \in 1..n
      BY <2>2
    <3>2. e[i - 1] = d[i - 1]
      BY <1>5, <1>6, <3>1
    <3> QED BY <3>2 DEF LoopValue
  <2> QED BY <2>1, <2>2
<1>8. e = [i \in 1..n |-> LoopValue(e, i)]
  <2> HIDE DEF LoopValue
  <2> QED BY <1>6, <1>7
<1> QED BY <1>8

\* The duration the constants describe.
Described(n) == Least(LockoutBase * 2 ^ (n - MaxFailed - 1), LockoutMax)

\* While the loop is below the cap it has the power of two.
Follows(x, i) ==
    /\ x \in Nat
    /\ LockoutBase * 2 ^ (i - 1) \in Nat
    /\ \/ x = LockoutBase * 2 ^ (i - 1)
       \/ x >= LockoutMax /\ LockoutBase * 2 ^ (i - 1) >= LockoutMax

\* The value of every round, by a least round that has another one.
LEMMA LoopDoubles ==
    ASSUME NEW m \in 1..MaxCount + 1, NEW d, d = [i \in 1..m |-> LoopValue(d, i)]
    PROVE  \A i \in 1..m : Follows(d[i], i)
<1> USE TimesAssumption
<1> SUFFICES ASSUME NEW j \in 1..m, ~ Follows(d[j], j) PROVE FALSE
  OBVIOUS
<1> DEFINE T == {i \in 1..m : ~ Follows(d[i], i)}
<1>1. T \subseteq Nat /\ T # {}
  OBVIOUS
<1>2. PICK n \in T : \A y \in T : n <= y
  <2> HIDE DEF T
  <2> QED BY <1>1, LeastOf
<1>3. n \in 1..m /\ ~ Follows(d[n], n) /\ d[n] = LoopValue(d, n) /\ m <= MaxCount + 1
  <2>1. n \in 1..m /\ ~ Follows(d[n], n)
    BY <1>2
  <2>2. d[n] = LoopValue(d, n)
    BY <2>1, Zenon
  <2> QED BY <2>1, <2>2
<1>4. CASE n = 1
  <2>1. 2 ^ (n - 1) = 1
    BY <1>4, PowersAssumption
  <2>2. d[n] = LockoutBase
    BY <1>3, <1>4 DEF LoopValue
  <2> QED BY <1>3, <2>1, <2>2 DEF Follows
<1>5. CASE n # 1
  <2>1. PICK k : k = n - 1
    OBVIOUS
  <2>2. k \in 1..m /\ k < n /\ k - 1 \in 0..MaxCount /\ (k - 1) + 1 = k /\ n - 1 = k
    BY <1>3, <1>5, <2>1
  <2>3. Follows(d[k], k)
    <3>1. k \notin T
      BY <1>2, <2>2
    <3> QED BY <2>2, <3>1
  <2>4. PICK p : p = 2 ^ (k - 1)
    OBVIOUS
  <2>5. p \in Nat /\ 2 ^ (n - 1) = 2 * p
    BY <2>2, <2>4, PowersAssumption
  <2>6. PICK b : b = LockoutBase * p
    OBVIOUS
  <2>7. LockoutBase * (2 * p) = 2 * b /\ b \in Nat
    BY <2>5, <2>6
  <2>8. PICK x : x = d[k]
    OBVIOUS
  <2>9. x \in Nat /\ (x = b \/ (x >= LockoutMax /\ b >= LockoutMax))
    BY <2>3, <2>4, <2>6, <2>8 DEF Follows
  <2>10. d[n] = IF x < LockoutMax THEN 2 * x ELSE x
    BY <1>3, <1>5, <2>1, <2>8 DEF LoopValue
  <2>11. PICK y : y = 2 * b
    OBVIOUS
  <2>12. LockoutBase * 2 ^ (n - 1) = y
    BY <2>5, <2>7, <2>11
  <2>13. d[n] \in Nat /\ y \in Nat /\ (d[n] = y \/ (d[n] >= LockoutMax /\ y >= LockoutMax))
    BY <2>7, <2>9, <2>10, <2>11
  <2>14. Follows(d[n], n)
    BY <2>12, <2>13 DEF Follows
  <2> QED BY <1>3, <2>14
<1> QED BY <1>4, <1>5

\* The loop computes the duration that the constants describe.
LEMMA DurationDescribed ==
    ASSUME NEW n \in MaxFailed + 1..MaxCount + 1
    PROVE  Duration(n) = Described(n) /\ Duration(n) \in 0..LockoutMax
<1> USE TimesAssumption, PowersAssumption
<1>1. PICK m : m = n - MaxFailed
  OBVIOUS
<1>2. m \in 1..MaxCount + 1 /\ m \in Nat /\ n - MaxFailed - 1 = m - 1
  BY <1>1
<1> DEFINE d == CHOOSE d : d = [i \in 1..m |-> LoopValue(d, i)]
<1>3. d = [i \in 1..m |-> LoopValue(d, i)]
  BY <1>2, LoopExists
<1>4. Duration(n) = Least(d[m], LockoutMax)
  BY <1>1 DEF Duration, LoopValue
<1> HIDE DEF d
<1>5. Follows(d[m], m)
  BY <1>2, <1>3, LoopDoubles
<1>6. PICK b : b = LockoutBase * 2 ^ (m - 1)
  OBVIOUS
<1>7. Described(n) = Least(b, LockoutMax)
  BY <1>2, <1>6 DEF Described
<1>8. PICK x : x = d[m]
  OBVIOUS
<1>9. x \in Nat /\ b \in Nat /\ (x = b \/ (x >= LockoutMax /\ b >= LockoutMax))
  BY <1>5, <1>6, <1>8 DEF Follows
<1> QED BY <1>4, <1>7, <1>8, <1>9 DEF Least
-----------------------------------------------------------------------------
\* A row is locked as the constants describe.
AsDescribed(r) ==
    /\ r.blocked <=> r.count > MaxFailed
    /\ r.left = IF r.count > MaxFailed THEN AtLeast0(Described(r.count) - r.age) ELSE 0

\* While requests come one at a time there is one at most ...
Alone == serial => \A t, u \in Threads : pc[t] # "idle" /\ pc[u] # "idle" => t = u

\* ... and the row is as it was when that one read it.
Planned == \A t \in Threads :
    pc[t] = "upsert" => /\ plan[t] \in 1..MaxCount + 1
                        /\ serial => plan[t] = rec.count + 1

\* The inductive invariant of the lockout.
LockInv == TypeOK /\ Alone /\ Planned /\ (serial => AsDescribed(rec))

\* The fields of a row.
LEMMA RowTyped == ASSUME NEW r \in Record
                  PROVE  /\ r.count \in 0..MaxCount /\ r.age \in 0..MaxAge
                         /\ r.blocked \in BOOLEAN /\ r.left \in 0..LockoutMax
BY DEF Record

\* A row that does not exist is not locked.
LEMMA NoRecordAsDescribed == NoRecord \in Record /\ AsDescribed(NoRecord)
<1> USE TimesAssumption
<1>1. NoRecord.count = 0 /\ NoRecord.blocked = FALSE /\ NoRecord.left = 0
  BY DEF NoRecord
<1>2. NoRecord \in Record
  BY DEF NoRecord, Record, MaxAge
<1> QED BY <1>1, <1>2 DEF AsDescribed

\* The first state.
LEMMA InitLocks == Init => LockInv
<1> USE TimesAssumption
<1> SUFFICES ASSUME Init PROVE LockInv
  OBVIOUS
<1>1. TypeOK
  BY NoRecordAsDescribed DEF Init, TypeOK, PCs
<1>2. Alone /\ Planned
  BY DEF Init, Alone, Planned
<1> QED BY <1>1, <1>2, NoRecordAsDescribed DEF Init, LockInv

\* A request ends, and has written the row or not.
LEMMA ReturnLocks ==
    ASSUME LockInv, NEW t \in Threads, pc[t] # "idle", Return(t), UNCHANGED serial,
           rec' \in Record, wrong' \in 0..MaxCount, serial => AsDescribed(rec')
    PROVE  LockInv'
<1> USE TimesAssumption
<1>1. TypeOK'
  BY DEF LockInv, TypeOK, Return, Goto, PCs
<1>2. \A u \in Threads : pc'[u] = IF u = t THEN "idle" ELSE pc[u]
  BY DEF LockInv, TypeOK, Return, Goto
<1>3. \A u \in Threads : u # t => plan'[u] = plan[u]
  BY DEF LockInv, TypeOK, Return, Goto
<1>4. Alone'
  BY <1>2 DEF LockInv, Alone
<1>5. Planned'
  BY <1>2, <1>3 DEF LockInv, Alone, Planned
<1>6. (serial => AsDescribed(rec))'
  OBVIOUS
<1> QED BY <1>1, <1>4, <1>5, <1>6 DEF LockInv

\* A request goes on, and leaves the row alone.
LEMMA GoOnLocks ==
    ASSUME LockInv, NEW t \in Threads, NEW l \in PCs, pc[t] # "idle", Goto(t, l),
           UNCHANGED <<rec, wrong, serial, lag, kind>>,
           cause' \in [Threads -> {"wrong", "error"}],
           \/ plan' = plan /\ l # "upsert"
           \/ plan' = [plan EXCEPT ![t] = rec.count + 1]
    PROVE  LockInv'
<1> USE TimesAssumption
<1>1. rec.count \in 0..MaxCount /\ rec \in Record
  BY RowTyped DEF LockInv, TypeOK
<1>2. TypeOK'
  <2>1. plan \in [Threads -> 0..MaxCount + 1] /\ rec.count + 1 \in 0..MaxCount + 1
    BY <1>1 DEF LockInv, TypeOK
  <2>2. plan' \in [Threads -> 0..MaxCount + 1]
    BY <2>1
  <2> QED BY <1>1, <2>2 DEF LockInv, TypeOK, Goto
<1>3. \A u \in Threads : pc'[u] = IF u = t THEN l ELSE pc[u]
  BY DEF LockInv, TypeOK, Goto
<1>4. \A u \in Threads : u # t => plan'[u] = plan[u]
  BY DEF LockInv, TypeOK
<1>5. l = "upsert" => plan'[t] = rec.count + 1
  BY DEF LockInv, TypeOK
<1>6. Alone'
  BY <1>3 DEF LockInv, Alone
<1>7. Planned'
  BY <1>1, <1>3, <1>4, <1>5 DEF LockInv, Planned
<1>8. (serial => AsDescribed(rec))'
  BY DEF LockInv
<1> QED BY <1>2, <1>6, <1>7, <1>8 DEF LockInv

\* What is counted for the properties stays within its bound.
LEMMA CountedTyped ==
    ASSUME LockInv, NEW t \in Threads, Counted(t) PROVE wrong' \in 0..MaxCount
BY TimesAssumption DEF LockInv, TypeOK, Counted, Least

\* The lockout written is the one that is described, also when the counter
\* stops.
LEMMA UpsertLocks ==
    ASSUME LockInv, NEW t \in Threads, UpsertAttempt(t) PROVE LockInv'
<1> USE TimesAssumption, CountAssumption, PowersAssumption
<1>1. PICK n : n = plan[t]
  OBVIOUS
<1>2. PICK g : g = lag[t]
  OBVIOUS
<1>3. n \in 1..MaxCount + 1 /\ g \in 0..MaxLag /\ rec.count \in 0..MaxCount
  BY <1>1, <1>2, RowTyped DEF LockInv, TypeOK, Planned, UpsertAttempt
<1>4. PICK left : left = IF n > MaxFailed THEN AtLeast0(Duration(n) - g) ELSE 0
  OBVIOUS
<1>5. PICK count : count = Least(rec.count + 1, MaxCount)
  OBVIOUS
<1>6. rec' = [count |-> count, age |-> g, blocked |-> n > MaxFailed, left |-> left]
  BY <1>1, <1>2, <1>4, <1>5 DEF UpsertAttempt, TooMany
<1>7. /\ rec'.count = count /\ rec'.age = g /\ rec'.blocked = (n > MaxFailed)
      /\ rec'.left = left
  BY <1>6
<1>8. left \in 0..LockoutMax
  <2>1. CASE n > MaxFailed
    <3>1. Duration(n) \in 0..LockoutMax
      BY <1>3, <2>1, DurationDescribed
    <3> QED BY <1>3, <1>4, <2>1, <3>1 DEF AtLeast0
  <2>2. CASE ~ (n > MaxFailed)
    BY <1>4, <2>2
  <2> QED BY <2>1, <2>2
<1>9. count \in 0..MaxCount /\ g \in 0..MaxAge
  BY <1>3, <1>5 DEF Least, MaxAge
<1>10. rec' \in Record
  <2>1. (n > MaxFailed) \in BOOLEAN
    OBVIOUS
  <2> QED BY <1>6, <1>8, <1>9, <2>1, Zenon DEF Record
<1>11. ASSUME serial PROVE AsDescribed(rec')
  <2>1. n = rec.count + 1
    BY <1>1, <1>11 DEF LockInv, Planned, UpsertAttempt
  <2>2. CASE ~ (n > MaxFailed)
    <3>1. ~ (count > MaxFailed)
      BY <1>3, <1>5, <2>1, <2>2 DEF Least
    <3> QED BY <1>4, <1>7, <2>2, <3>1 DEF AsDescribed
  <2>3. CASE n > MaxFailed
    <3>1. count > MaxFailed
      BY <1>3, <1>5, <2>1, <2>3 DEF Least
    <3>2. Duration(n) = Described(n)
      BY <1>3, <2>3, DurationDescribed
    <3>3. Described(n) = Described(count)
      <4>1. CASE count = n
        BY <4>1
      <4>2. CASE count # n
        <5>1. count = MaxCount /\ n = MaxCount + 1
          BY <1>3, <1>5, <2>1, <4>2 DEF Least
        <5>2. PICK k : k = MaxCount - MaxFailed - 1
          OBVIOUS
        <5>3. k \in 0..MaxCount /\ n - MaxFailed - 1 = k + 1 /\ count - MaxFailed - 1 = k
          BY <5>1, <5>2
        <5>4. PICK p : p = 2 ^ k
          OBVIOUS
        <5>5. p \in Nat /\ 2 ^ (k + 1) = 2 * p
          BY <5>3, <5>4
        <5>6. PICK b : b = LockoutBase * p
          OBVIOUS
        <5>7. b \in Nat /\ LockoutBase * (2 * p) = 2 * b
          BY <5>5, <5>6
        <5>8. b >= LockoutMax
          BY <5>2, <5>4, <5>6
        <5>9. Described(count) = Least(b,
        LockoutMax) /\ Described(n) = Least(2 * b, LockoutMax)
          BY <5>3, <5>4, <5>5, <5>6, <5>7 DEF Described
        <5> QED BY <5>7, <5>8, <5>9 DEF Least
      <4> QED BY <4>1, <4>2
    <3>4. left = AtLeast0(Described(count) - g)
      BY <1>4, <2>3, <3>2, <3>3
    <3> QED BY <1>7, <2>3, <3>1, <3>4 DEF AsDescribed
  <2> QED BY <2>2, <2>3
<1>12. wrong' \in 0..MaxCount
  BY CountedTyped DEF UpsertAttempt
<1> QED BY <1>10, <1>11, <1>12, ReturnLocks DEF UpsertAttempt

\* The count begins again at one, which is not above the limit.
LEMMA ResetLocks ==
    ASSUME LockInv, NEW t \in Threads, ResetCount(t) PROVE LockInv'
<1> USE TimesAssumption
<1>1. PICK g : g = lag[t]
  OBVIOUS
<1>2. g \in 0..MaxLag /\ rec \in Record
  BY <1>1 DEF LockInv, TypeOK
<1>3. PICK new : new = [count |-> 1, age |-> g, blocked |-> FALSE, left |-> 0]
  OBVIOUS
<1>4. new.count = 1 /\ new.blocked = FALSE /\ new.left = 0
  BY <1>3
<1>5. new \in Record
  BY <1>2, <1>3 DEF Record, MaxAge
<1>6. AsDescribed(new)
  BY <1>4 DEF AsDescribed
<1>7. rec' = new \/ rec' = rec
  BY <1>1, <1>3 DEF ResetCount
<1>8. rec' \in Record /\ (serial => AsDescribed(rec'))
  BY <1>2, <1>5, <1>6, <1>7 DEF LockInv
<1>9. wrong' \in 0..MaxCount
  BY CountedTyped DEF ResetCount
<1> QED BY <1>8, <1>9, ReturnLocks DEF ResetCount

\* Time takes as much from what is left as it adds to the age.
LEMMA TickLocks ==
    ASSUME LockInv, Tick PROVE LockInv'
<1> USE TimesAssumption, PowersAssumption
<1>1. PICK c, a, b, l : rec = [count |-> c, age |-> a, blocked |-> b, left |-> l]
                        /\ c \in 0..MaxCount /\ a \in 0..MaxAge
                        /\ b \in BOOLEAN /\ l \in 0..LockoutMax
  BY DEF LockInv, TypeOK, Record
<1>2. rec.count = c /\ rec.age = a /\ rec.blocked = b /\ rec.left = l
  BY <1>1
<1>3. PICK a1 : a1 = IF c = 0 THEN 0 ELSE Least(a + 1, MaxAge)
  OBVIOUS
<1>4. PICK l1 : l1 = AtLeast0(l - 1)
  OBVIOUS
<1>5. rec' = [count |-> c, age |-> a1, blocked |-> b, left |-> l1]
  BY <1>1, <1>3, <1>4 DEF Tick
<1>6. rec'.count = c /\ rec'.age = a1 /\ rec'.blocked = b /\ rec'.left = l1
  BY <1>5
<1>7. a1 \in 0..MaxAge /\ l1 \in 0..LockoutMax
  BY <1>1, <1>3, <1>4 DEF Least, AtLeast0, MaxAge
<1>8. rec' \in Record
  BY <1>1, <1>5, <1>7 DEF Record
<1>9. lag' \in [Threads -> 0..MaxLag]
  <2> SUFFICES ASSUME NEW t \in Threads
               PROVE  (IF pc[t] = "idle" THEN 0 ELSE lag[t] + 1) \in 0..MaxLag
    BY DEF Tick
  <2> QED BY DEF Tick, LockInv, TypeOK
<1>10. TypeOK'
  BY <1>8, <1>9 DEF LockInv, TypeOK, Tick
<1>11. Alone' /\ Planned'
  BY <1>2, <1>6 DEF LockInv, Alone, Planned, Tick
<1>12. ASSUME serial PROVE AsDescribed(rec')
  <2>1. b <=> c > MaxFailed
    BY <1>2, <1>12 DEF LockInv, AsDescribed
  <2>2. l = IF c > MaxFailed THEN AtLeast0(Described(c) - a) ELSE 0
    BY <1>2, <1>12 DEF LockInv, AsDescribed
  <2>3. CASE c > MaxFailed
    <3>1. PICK d : d = Described(c)
      OBVIOUS
    <3>2. d \in 0..LockoutMax
      BY <1>1, <2>3, <3>1, DurationDescribed
    <3>3. l1 = AtLeast0(d - a1)
      BY <1>1, <1>3, <1>4, <2>2, <2>3, <3>1, <3>2
         DEF AtLeast0, Least, MaxAge
    <3> QED BY <1>6, <2>1, <2>3, <3>1, <3>3 DEF AsDescribed
  <2>4. CASE ~ (c > MaxFailed)
    BY <1>4, <1>6, <2>1, <2>2, <2>4 DEF AsDescribed, AtLeast0
  <2> QED BY <2>3, <2>4
<1> QED BY <1>10, <1>11, <1>12 DEF LockInv, Tick

\* A request that begins is alone or ends the serial time.
LEMMA AttemptLocks ==
    ASSUME LockInv, NEW t \in Threads, NEW k \in Kinds, Attempt(t, k) PROVE LockInv'
<1> USE KindsAssumption
<1>1. TypeOK'
  BY DEF LockInv, TypeOK, Attempt, Goto, PCs
<1>2. \A u \in Threads : pc'[u] = IF u = t THEN "verify" ELSE pc[u]
  BY DEF LockInv, TypeOK, Attempt, Goto
<1>3. UNCHANGED <<rec, plan>> /\ (serial' => serial /\ \A u \in Threads : pc[u] = "idle")
  BY DEF Attempt
<1>4. Alone'
  BY <1>2, <1>3 DEF Alone
<1>5. Planned'
  BY <1>2, <1>3 DEF LockInv, Planned
<1> QED BY <1>1, <1>3, <1>4, <1>5 DEF LockInv

\* Every step of a request.
LEMMA StepLocks ==
    ASSUME LockInv, NEW t \in Threads, Step(t) PROVE LockInv'
<1>0. rec \in Record /\ wrong \in 0..MaxCount /\ cause \in [Threads -> {"wrong", "error"}]
      /\ (serial => AsDescribed(rec))
  BY DEF LockInv, TypeOK
<1>1. ASSUME Verified(t) \/ WrongPassword(t) PROVE LockInv'
  BY <1>0, <1>1, GoOnLocks DEF Verified, WrongPassword, PCs
<1>2. ASSUME StoreError(t) PROVE LockInv'
  <2>1. CASE kind[t] = "login" /\ Return(t)
    BY <1>0, <1>2, <2>1, ReturnLocks DEF StoreError
  <2>2. CASE /\ Goto(t, "read") /\ cause' = [cause EXCEPT ![t] = "error"]
             /\ UNCHANGED <<kind, lag, plan>>
    BY <1>0, <1>2, <2>2, GoOnLocks DEF StoreError, PCs
  <2> QED BY <1>2, <2>1, <2>2 DEF StoreError
<1>3. ASSUME ClearLoginAttempts(t) PROVE LockInv'
  BY <1>3, NoRecordAsDescribed, ReturnLocks, TimesAssumption DEF ClearLoginAttempts
<1>4. ASSUME GetLoginAttempt(t) PROVE LockInv'
  <2>1. PICK l \in {"reset", "upsert"} : Goto(t, l)
    BY <1>4 DEF GetLoginAttempt
  <2> QED BY <1>0, <1>4, <2>1, GoOnLocks DEF GetLoginAttempt, PCs
<1>5. ASSUME Abort(t) PROVE LockInv'
  BY <1>0, <1>5, ReturnLocks DEF Abort
<1> QED BY <1>1, <1>2, <1>3, <1>4, <1>5, UpsertLocks, ResetLocks DEF Step

\* Every step.
LEMMA NextLocks == LockInv /\ [Next]_vars => LockInv'
<1>1. ASSUME LockInv, UNCHANGED vars PROVE LockInv'
  BY <1>1 DEF vars, LockInv, TypeOK, Alone, Planned, AsDescribed
<1> QED BY <1>1, AttemptLocks, StepLocks, TickLocks DEF Next

\* Every value stays in its type; a lockout never exceeds its cap.
THEOREM LockoutTyped == Spec => []TypeOK
<1>1. LockInv => TypeOK BY DEF LockInv
<1> QED BY <1>1, InitLocks, NextLocks, PTL DEF Spec

\* As long as requests come one at a time, the row is locked exactly when the
\* count is above the limit, for the base doubled with every further failure,
\* up to the cap, from the last failure on (RecordFailedLogin, its loop).
THEOREM LockoutAsDescribed == Spec => []LockoutMatches
<1>1. LockInv => LockoutMatches
  BY DEF LockInv, AsDescribed, LockoutMatches, Described
<1> QED BY <1>1, InitLocks, NextLocks, PTL DEF Spec
=============================================================================
