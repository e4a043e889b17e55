------------------------- MODULE GatewayAccessProofs -------------------------
(***************************************************************************)
(* Proofs about GatewayAccess, for any paths, methods, rules and reserved  *)
(* endpoints.                                                              *)
(*                                                                         *)
(* The argument: the Gateway has the request only from the call of         *)
(* client.Do on (Received), and an answer exists only at the end           *)
(* (Answered).                                                             *)
(*                                                                         *)
(* The Gateway's router cleans a path before it reads it.  A path without  *)
(* dot segments is left as it is (CleanLeaves), which a canonical path     *)
(* guarantees and a plain endpoint keeps, so that the Gateway serves the   *)
(* very path that was classified (RoutedIsRel) for the very role and       *)
(* method (Checked, Built), and the rule the guard has seen (Guarded).     *)
(***************************************************************************)
EXTENDS GatewayAccess, SequenceTheorems, WellFoundedInduction, TLAPS

\* The Gateway has the request from the call of client.Do on.
Received ==
    /\ received \in BOOLEAN
    /\ pc \in {"idle", "access", "handler", "prepare", "send"} => ~ received
    /\ pc \in {"sent", "reading"} =>
          /\ received
          /\ reply \in [status : {200, 401}, marker : {"none", "oam"}]

\* There is an answer at the end only.
Answered == pc # "done" => resp = None

\* The inductive invariant of the types and the markers.
IInv == TypeOK /\ Received /\ Answered /\ OriginTruthful

-----------------------------------------------------------------------------
\* The server starts only with a token where the mode asks for one.
LEMMA IdentityTyped ==
    ASSUME NEW i \in Identities
    PROVE  i \in [mode : {"disabled", "service-token"}, token : BOOLEAN]
           /\ (i.token <=> i.mode = "service-token")
<1>1. PICK m \in {"disabled", "service-token", "unknown"}, t \in {"unset", "good", "malformed"},
           f \in {"unset", "good", "malformed", "unreadable"} :
           i = IdentityFromSources(m, t, f) /\ i # None
  BY DEF Identities
<1>2. \/ i = [mode |-> "disabled", token |-> FALSE]
      \/ i = [mode |-> "service-token", token |-> TRUE]
  BY <1>1 DEF IdentityFromSources, NewGatewayServiceIdentity
<1>3. CASE i = [mode |-> "disabled", token |-> FALSE]
  <2>1. i.mode = "disabled" /\ i.token = FALSE /\ i \in [mode : {"disabled", "service-token"}, token : BOOLEAN]
    BY <1>3
  <2> QED BY <2>1
<1>4. CASE i = [mode |-> "service-token", token |-> TRUE]
  <2>1. i.mode = "service-token" /\ i.token = TRUE /\ i \in [mode : {"disabled", "service-token"}, token : BOOLEAN]
    BY <1>4
  <2> QED BY <2>1
<1> QED BY <1>2, <1>3, <1>4

\* The first state.
LEMMA InitKeeps == Init => IInv
BY IdentityTyped
   DEF Init, Registered, IInv, TypeOK, PCs, Received, Answered, OriginTruthful

\* A request that arrives is one of those tried.
LEMMA ArriveKeeps == ASSUME IInv, Arrive PROVE IInv'
<1>1. PICK p \in Paths, m \in Methods, odd \in BOOLEAN, rule \in Rules \cup {None} :
          req' = [path |-> p, odd |-> odd, method |-> m, rule |-> rule]
  BY DEF Arrive
<1>2. req'.path \in Paths /\ req'.method \in Methods /\ req'.rule \in Rules \cup {None}
  BY <1>1
<1> QED BY <1>2
       DEF Arrive, IInv, TypeOK, PCs, Received, Answered, OriginTruthful

\* OAM's own refusal, before the Gateway has anything.
LEMMA RefuseKeeps ==
    ASSUME IInv, NEW status \in {400, 403, 404, 405, 409, 500, 503}, Refuse(status, "refused"),
           pc \in {"access", "handler", "prepare"},
           UNCHANGED <<version, reserved, identity, req, path, out, reply, received>>,
           role' = role, checked' \in Roles \cup {None}
    PROVE  IInv'
BY DEF Refuse, Answer, IInv, TypeOK, PCs, Received, Answered, OriginTruthful

\* RequireGatewayAccess refuses, or leaves the canonical path.
LEMMA AccessKeeps == ASSUME IInv, RequireGatewayAccess PROVE IInv'
<1>0. PICK c : c = CanonicalGatewayPath(req.path, req.odd)
  OBVIOUS
<1>1. PICK user \in {role, None} :
         /\ checked' = user
         /\ \/ user = None /\ Refuse(401, "refused") /\ UNCHANGED path
            \/ \E status \in {400, 403, 405} : Refuse(status, "refused") /\ UNCHANGED path
            \/ pc' = "handler" /\ path' = c /\ c # None /\ UNCHANGED resp
  BY <1>0 DEF RequireGatewayAccess, resolveCaller
<1>2. /\ pc = "access" /\ user \in Roles \cup {None}
      /\ UNCHANGED <<role, version, reserved, identity, req, out, reply, received>>
  BY DEF RequireGatewayAccess, IInv, TypeOK
<1>3. c # None => c.versioned \in BOOLEAN
  BY <1>0 DEF CanonicalGatewayPath
<1>4. CASE user = None /\ Refuse(401, "refused") /\ UNCHANGED path
  BY <1>1, <1>2, <1>4
     DEF Refuse, Answer, IInv, TypeOK, PCs, Received, Answered, OriginTruthful
<1>5. ASSUME NEW status \in {400, 403, 405}, Refuse(status, "refused"), UNCHANGED path PROVE IInv'
  BY <1>1, <1>2, <1>5, RefuseKeeps
<1>6. CASE pc' = "handler" /\ path' = c /\ c # None /\ UNCHANGED resp
  BY <1>1, <1>2, <1>3, <1>6
     DEF IInv, TypeOK, PCs, Received, Answered, OriginTruthful
<1> QED BY <1>1, <1>4, <1>5, <1>6

\* The outbound request is built on a version that was stored.
LEMMA FetchKeeps == ASSUME IInv, FetchInstance PROVE IInv'
<1>1. /\ pc = "handler" /\ checked \in Roles \cup {None}
      /\ UNCHANGED <<role, version, reserved, identity, req, path, reply, checked, received>>
  BY DEF FetchInstance, IInv, TypeOK
<1>2. ASSUME NEW status \in {400, 404, 500}, Refuse(status, "refused"), UNCHANGED out PROVE IInv'
  BY <1>1, <1>2, RefuseKeeps
<1>3. CASE /\ version \notin {Unparsable, None} /\ pc' = "prepare" /\ UNCHANGED resp
           /\ out' = [url |-> gatewayTargetURL(version, path), endpoint |-> version]
  <2>1. out'.endpoint \in Versions
    BY <1>3 DEF IInv, TypeOK
  <2> QED BY <1>1, <1>3, <2>1
         DEF IInv, TypeOK, PCs, Received, Answered, OriginTruthful
<1> QED BY <1>2, <1>3 DEF FetchInstance

\* It is sent or refused.
LEMMA PrepareKeeps == ASSUME IInv, Prepare PROVE IInv'
<1>1. /\ pc = "prepare" /\ checked \in Roles \cup {None}
      /\ UNCHANGED <<role, version, reserved, identity, req, path, out, reply, checked, received>>
  BY DEF Prepare, IInv, TypeOK
<1>2. ASSUME NEW status \in {400, 409, 500, 503}, Refuse(status, "refused") PROVE IInv'
  BY <1>1, <1>2, RefuseKeeps
<1>3. CASE pc' = "send" /\ UNCHANGED resp
  BY <1>1, <1>3 DEF IInv, TypeOK, PCs, Received, Answered, OriginTruthful
<1> QED BY <1>2, <1>3 DEF Prepare

\* The Gateway gets the request and answers.
LEMMA ReceivesKeeps == ASSUME IInv, GatewayReceives PROVE IInv'
BY DEF GatewayReceives, IInv, TypeOK, PCs, Received, Answered, OriginTruthful

\* An error of client.Do is answered by OAM.
LEMMA DoFailsKeeps == ASSUME IInv, DoFails PROVE IInv'
<1>1. PICK f : Refuse(classifyUpstreamError(f).status, classifyUpstreamError(f).says)
  BY DEF DoFails
<1>2. /\ classifyUpstreamError(f).status \in {502, 504}
      /\ classifyUpstreamError(f).says \notin {"refused", "relayed", "incomplete"}
  BY DEF classifyUpstreamError
<1>3. PICK status, says : /\ status \in {502, 504}
                         /\ says \notin {"refused", "relayed", "incomplete"}
                         /\ Refuse(status, says)
  BY <1>1, <1>2
<1> QED BY <1>3
       DEF DoFails, Refuse, Answer, IInv, TypeOK, PCs, Received, Answered, OriginTruthful

\* The header of the answer arrives.
LEMMA DoReturnsKeeps == ASSUME IInv, DoReturns PROVE IInv'
BY DEF DoReturns, IInv, TypeOK, PCs, Received, Answered, OriginTruthful

\* The answer is relayed, or OAM reports that it is cut short.
LEMMA ReadKeeps == ASSUME IInv, ReadResponse PROVE IInv'
<1>1. /\ pc = "reading" /\ received /\ reply.status \in {200, 401}
      /\ UNCHANGED <<role, version, reserved, identity, req, path, out, reply, checked, received>>
  BY DEF ReadResponse, IInv, Received
<1>2. CASE Refuse(502, "incomplete")
  BY <1>1, <1>2
     DEF Refuse, Answer, IInv, TypeOK, PCs, Received, Answered, OriginTruthful
<1>3. CASE Answer(reply.status, Relayed, "relayed")
  BY <1>1, <1>3
     DEF Answer, Relayed, IInv, TypeOK, PCs, Received, Answered, OriginTruthful
<1> QED BY <1>2, <1>3 DEF ReadResponse

\* The next request, and the changes others make.
LEMMA RestKeeps ==
    ASSUME IInv, Finish \/ UpdateUser \/ DeleteUser \/ UpdateInstance \/ UpdateFirmware
                   \/ DeleteInstance \/ UNCHANGED vars
    PROVE  IInv'
<1>1. CASE Finish
  BY <1>1 DEF Finish, Registered, IInv, TypeOK, PCs, Received, Answered, OriginTruthful
<1>2. CASE UpdateUser \/ DeleteUser
  BY <1>2 DEF UpdateUser, DeleteUser, IInv, TypeOK, PCs, Received, Answered, OriginTruthful
<1>3. CASE UpdateInstance \/ UpdateFirmware \/ DeleteInstance
  BY <1>3 DEF UpdateInstance, UpdateFirmware, DeleteInstance, Registered, IInv, TypeOK, PCs,
              Received, Answered, OriginTruthful
<1>4. CASE UNCHANGED vars
  BY <1>4 DEF vars, IInv, TypeOK, PCs, Received, Answered, OriginTruthful
<1> QED BY <1>1, <1>2, <1>3, <1>4

\* Every step.
LEMMA NextKeeps == IInv /\ [Next]_vars => IInv'
BY ArriveKeeps, AccessKeeps, FetchKeeps, PrepareKeeps, ReceivesKeeps, DoFailsKeeps,
   DoReturnsKeeps, ReadKeeps, RestKeeps DEF Next

\* So it holds always.
LEMMA InductiveInvariant == Spec => []IInv
BY InitKeeps, NextKeeps, PTL DEF Spec

-----------------------------------------------------------------------------
(* The theorems *)

\* The request and what is built from it stay in their types.
THEOREM GatewayTyped == Spec => []TypeOK
<1>1. IInv => TypeOK BY DEF IInv
<1> QED BY <1>1, InductiveInvariant, PTL

\* The marker of an error says who answered (MarkOAMOrigin, ForwardRequest), a
\* 401 of OAM's own means that resolveCaller found nobody, and a refusal that
\* the Gateway got nothing.
THEOREM GatewayOriginTruthful == Spec => []OriginTruthful
<1>1. IInv => OriginTruthful BY DEF IInv
<1> QED BY <1>1, InductiveInvariant, PTL

-----------------------------------------------------------------------------
(* How the Gateway's router reads a path *)

\* A set of numbers has a least one.
LEMMA LeastOf ==
    ASSUME NEW T, T \subseteq Nat, T # {}
    PROVE  \E x \in T : \A y \in T : x <= y
<1> DEFINE R == OpToRel(<, Nat)
<1>1. PICK x \in T : \A y \in T : ~ (<<y, x>> \in R)
  <2>1. IsWellFoundedOn(R, Nat)
    BY NatLessThanWellFounded DEF R
  <2> HIDE DEF R
  <2> QED BY <2>1, WFMin
<1>2. ASSUME NEW y \in T, y < x PROVE FALSE
  <2>1. y \in Nat /\ x \in Nat
    OBVIOUS
  <2>2. <<y, x>> \in R
    BY <1>2, <2>1 DEF OpToRel
  <2> QED BY <1>1, <2>2
<1>3. \A y \in T : y \in Nat
  OBVIOUS
<1> QED BY <1>2, <1>3

\* What the router has after i segments of s, from what it has before.
CleanValue(d, s, i) == IF i = 0 THEN <<>> ELSE CleanStep(d[i - 1], s[i])

\* A path without dot segments is read as it is written: after i segments the
\* router has its first i.
LEMMA CleanLeaves ==
    ASSUME NEW S, NEW s \in Seq(S), ~ HasDots(s)
    PROVE  Clean(s) = s
<1> DEFINE f == [i \in 0..Len(s) |-> SubSeq(s, 1, i)]
           d == CHOOSE d : d = [i \in 0..Len(s) |-> CleanValue(d, s, i)]
<1>1. Len(s) \in Nat /\ DOMAIN s = 1..Len(s) /\ \A i \in 1..Len(s) : s[i] \in S
  BY LenProperties
<1>2. \A i \in 1..Len(s) : s[i] \notin {"", ".", ".."}
  BY <1>1 DEF HasDots
<1>3. ASSUME NEW i \in 0..Len(s), NEW e, i # 0 => e[i - 1] = SubSeq(s, 1, i - 1)
      PROVE  CleanValue(e, s, i) = SubSeq(s, 1, i)
  <2>1. CASE i = 0
    <3>1. SubSeq(s, 1, 0) = <<>>
      BY SubSeqEmpty
    <3> QED BY <2>1, <3>1 DEF CleanValue
  <2>2. CASE i # 0
    <3>1. i \in 1..Len(s) /\ 1 \in 1..Len(s) /\ i - 1 \in Int /\ 1 \in Int
      BY <1>1, <2>2
    <3>2. s[i] \notin {"", ".", ".."} /\ s[i] \in S
      BY <1>1, <1>2, <3>1
    <3>3. CleanValue(e, s, i) = CleanStep(SubSeq(s, 1, i - 1), s[i])
      BY <1>3, <2>2 DEF CleanValue
    <3>4. CleanStep(SubSeq(s, 1, i - 1), s[i]) = Append(SubSeq(s, 1, i - 1), s[i])
      BY <3>2 DEF CleanStep
    <3>5. SubSeq(s, 1, i - 1) \in Seq(S)
      BY <1>1, <3>1, SubSeqProperties
    <3>6. SubSeq(s, 1, i) = SubSeq(s, 1, i - 1) \o <<s[i]>>
      BY <1>1, <3>1, SubSeqRecursiveSecond
    <3>7. Append(SubSeq(s, 1, i - 1), s[i]) = SubSeq(s, 1, i - 1) \o <<s[i]>>
      BY <3>2, <3>5, AppendIsConcat
    <3> QED BY <3>3, <3>4, <3>6, <3>7
  <2> QED BY <2>1, <2>2
<1>4. \E e : e = [i \in 0..Len(s) |-> CleanValue(e, s, i)]
  <2>1. \A i \in 0..Len(s) : CleanValue(f, s, i) = SubSeq(s, 1, i)
    <3> SUFFICES ASSUME NEW i \in 0..Len(s) PROVE CleanValue(f, s, i) = SubSeq(s, 1, i)
      OBVIOUS
    <3>1. i # 0 => i - 1 \in 0..Len(s)
      BY <1>1
    <3>2. i # 0 => f[i - 1] = SubSeq(s, 1, i - 1)
      BY <3>1, Zenon
    <3> HIDE DEF f
    <3> QED BY <1>3, <3>2
  <2>2. f = [i \in 0..Len(s) |-> CleanValue(f, s, i)]
    BY <2>1, Zenon
  <2> HIDE DEF f
  <2> QED BY <2>2
<1>5. d = [i \in 0..Len(s) |-> CleanValue(d, s, i)]
  BY <1>4, Zenon
<1>6. Clean(s) = d[Len(s)]
  BY DEF Clean, CleanValue
<1> HIDE DEF d, f
<1>7. \A i \in 0..Len(s) : d[i] = CleanValue(d, s, i)
  BY <1>5, Zenon
<1>8. \A i \in 0..Len(s) : d[i] = SubSeq(s, 1, i)
  <2> SUFFICES ASSUME NEW j \in 0..Len(s), d[j] # SubSeq(s, 1, j) PROVE FALSE
    OBVIOUS
  <2> DEFINE T == {i \in 0..Len(s) : d[i] # SubSeq(s, 1, i)}
  <2>1. T \subseteq Nat /\ T # {}
    <3>1. 0..Len(s) \subseteq Nat
      BY <1>1
    <3> QED BY <3>1, Zenon
  <2>2. PICK n \in T : \A y \in T : n <= y
    <3> HIDE DEF T
    <3> QED BY <2>1, LeastOf
  <2>3. n \in 0..Len(s) /\ d[n] # SubSeq(s, 1, n)
    BY <2>2, Zenon
  <2>4. n # 0 => d[n - 1] = SubSeq(s, 1, n - 1)
    <3> SUFFICES ASSUME n # 0 PROVE d[n - 1] = SubSeq(s, 1, n - 1)
      OBVIOUS
    <3>1. n - 1 \in 0..Len(s) /\ ~ (n <= n - 1)
      BY <1>1, <2>3
    <3>2. n - 1 \notin T
      <4> HIDE DEF T
      <4> QED BY <2>2, <3>1
    <3> QED BY <3>1, <3>2, Zenon
  <2>5. d[n] = SubSeq(s, 1, n)
    BY <1>3, <1>7, <2>3, <2>4, Zenon
  <2> QED BY <2>3, <2>5
<1>9. SubSeq(s, 1, Len(s)) = s
  BY SubSeqFull
<1>10. Len(s) \in 0..Len(s)
  BY <1>1
<1> QED BY <1>6, <1>8, <1>9, <1>10, Zenon

\* A sequence that ends in another element than it begins with keeps its
\* beginning without its end.
LEMMA FrontKeeps ==
    ASSUME NEW S, NEW w \in Seq(S), w # <<>>, w[Len(w)] # w[1]
    PROVE  Front(w) \in Seq(S) /\ Front(w) # <<>> /\ Front(w)[1] = w[1]
<1>1. Len(w) \in Nat /\ Len(w) # 0
  BY LenProperties, EmptySeq
<1>2. Len(w) # 1
  OBVIOUS
<1>3. PICK n \in Nat : n = Len(w) - 1 /\ n # 0 /\ n <= Len(w)
  <2>1. PICK l \in Nat : l = Len(w) /\ l # 0 /\ l # 1
    BY <1>1, <1>2, Zenon
  <2>2. PICK n \in Nat : n = l - 1 /\ n # 0 /\ n <= l
    BY <2>1
  <2> QED BY <2>1, <2>2, Zenon
<1>4. PICK x : x = SubSeq(w, 1, n)
  OBVIOUS
<1>5. \A i \in 1..n : w[i] \in S
  BY <1>1, <1>3, ElementOfSeq
<1>6. x \in Seq(S) /\ Len(x) = n /\ \A i \in 1..n : x[i] = w[i]
  <2>1. 1 \in Int /\ n \in Int /\ 1 <= n /\ n - 1 + 1 = n /\ \A i \in 1..n : 1 + i - 1 = i
    BY <1>3
  <2> QED BY <1>4, <1>5, <2>1, SubSeqProperties
<1>7. Front(w) = x
  BY <1>3, <1>4 DEF Front
<1>8. x # <<>> /\ x[1] = w[1]
  BY <1>3, <1>6, EmptySeq
<1> QED BY <1>6, <1>7, <1>8

\* A trailing slash is trimmed behind the root of the endpoint only.
LEMMA TrimKeeps ==
    ASSUME NEW S, NEW w \in Seq(S), w # <<>>, w[1] = "netlox"
    PROVE  TrimSlash(w) \in Seq(S) /\ TrimSlash(w) # <<>> /\ TrimSlash(w)[1] = "netlox"
<1>1. CASE Last(w) = ""
  <2>1. w[Len(w)] # w[1]
    BY <1>1 DEF Last
  <2>2. Front(w) \in Seq(S) /\ Front(w) # <<>> /\ Front(w)[1] = w[1]
    BY <2>1, FrontKeeps
  <2> QED BY <1>1, <2>2, Zenon DEF TrimSlash
<1>2. CASE Last(w) # ""
  BY <1>2, Zenon DEF TrimSlash
<1> QED BY <1>1, <1>2

\* So the path of every endpoint begins with it.
LEMMA BaseTyped ==
    ASSUME NEW S, "netlox" \in S, NEW v \in Seq(S)
    PROVE  Base(v) \in Seq(S) /\ Base(v) # <<>> /\ Base(v)[1] = "netlox"
<1>1. PICK a \in S : a = "netlox"
  OBVIOUS
<1>2. PICK w : w = <<a>> \o v
  OBVIOUS
<1>3. w \in Seq(S) /\ Len(w) = 1 + Len(v) /\ w[1] = a /\ Len(v) \in Nat
  BY <1>2
<1>4. w # <<>>
  BY <1>3, EmptySeq
<1>5. PICK x : x = TrimSlash(w)
  OBVIOUS
<1>6. x \in Seq(S) /\ x # <<>> /\ x[1] = "netlox"
  BY <1>1, <1>3, <1>4, <1>5, TrimKeeps
<1>7. Base(v) = TrimSlash(x)
  BY <1>1, <1>2, <1>5, Zenon DEF Base
<1> QED BY <1>6, <1>7, TrimKeeps

\* No segment of s is in D.
Free(s, D) == \A i \in 1..Len(s) : s[i] \notin D

\* pre is what gatewayTargetURL puts before the path r: the endpoint's path b,
\* of one or two segments, or b and the version.
Before(pre, b, r, root, one) ==
    /\ b[1] = root /\ root # one /\ Len(b) \in {1, 2}
    /\ \/ pre = b /\ (b[Len(b)] = one \/ (Len(r) # 0 => r[1] # one))
       \/ pre = Append(b, one) /\ b[Len(b)] # one

\* If the version is the second segment of url, r is what follows.
Follows(url, r, one) == Len(url) >= 2 /\ url[2] = one => SubSeq(url, 3, Len(url)) = r

\* One and two are not three, for the lengths of an endpoint's path.
LEMMA OneOrTwo == \A n \in {1, 2} : n # 3 /\ n \in {1, 2, 3}
  OBVIOUS

\* A path r put behind b, or behind b and the version, holds what they hold; and
\* if the version is its second segment, r is what follows.
LEMMA BehindBase ==
    ASSUME NEW S, NEW root, NEW one \in S, NEW D, NEW b \in Seq(S), NEW r \in Seq(S), NEW pre,
           Before(pre, b, r, root, one), one \notin D, Free(b, D), Free(r, D)
    PROVE  pre \o r \in Seq(S) /\ Free(pre \o r, D) /\ Follows(pre \o r, r, one)
<1>0. Len(b) # 3 /\ Len(b) \in {1, 2, 3}
  <2>1. Len(b) \in {1, 2}
    BY Zenon DEF Before
  <2> QED BY <2>1, OneOrTwo, Zenon
<1> USE DEF Free, Before, Follows
<1>1. /\ pre \in Seq(S) /\ Len(pre) \in {1, 2, 3}
      /\ \A i \in 1..Len(pre) : pre[i] \notin D
      /\ Len(pre) = 1 => (Len(r) # 0 => r[1] # one)
      /\ Len(pre) = 3 => pre[2] # one
  <2>1. CASE pre = b /\ (b[Len(b)] = one \/ (Len(r) # 0 => r[1] # one))
    <3>1. Len(b) = 1 => b[Len(b)] = root
      OBVIOUS
    <3>2. Len(b) = 1 => (Len(r) # 0 => r[1] # one)
      BY <2>1, <3>1, Zenon
    <3> QED BY <1>0, <2>1, <3>2, Zenon
  <2>2. CASE pre = Append(b, one) /\ b[Len(b)] # one
    <3>1. /\ pre \in Seq(S) /\ Len(pre) = Len(b) + 1 /\ pre[Len(b) + 1] = one
          /\ \A i \in 1..Len(b) : pre[i] = b[i]
      BY <2>2, AppendProperties
    <3>2. Len(pre) \in {2, 3} /\ (Len(pre) = 3 => Len(b) = 2)
      BY <3>1
    <3>3. Len(pre) = 3 => pre[2] # one
      BY <2>2, <3>1, <3>2
    <3>4. ASSUME NEW i \in 1..Len(pre) PROVE pre[i] \notin D
      <4>1. i \in 1..Len(b) \/ i = Len(b) + 1
        BY <3>1
      <4> QED BY <3>1, <4>1
    <3> QED BY <3>1, <3>2, <3>3, <3>4
  <2> QED BY <2>1, <2>2
<1>2. Len(r) \in Nat
  BY LenProperties
<1>3. PICK url : url = pre \o r
  OBVIOUS
<1>4. /\ url \in Seq(S) /\ Len(url) = Len(pre) + Len(r)
      /\ \A i \in 1..Len(pre) + Len(r) : url[i] = IF i <= Len(pre) THEN pre[i] ELSE r[i - Len(pre)]
  BY <1>1, <1>3, ConcatProperties
<1>5. ASSUME NEW i \in 1..Len(url) PROVE url[i] \notin D
  <2>1. CASE i <= Len(pre)
    <3>1. i \in 1..Len(pre) /\ url[i] = pre[i]
      BY <1>1, <1>2, <1>4, <2>1
    <3> QED BY <1>1, <3>1
  <2>2. CASE ~ (i <= Len(pre))
    <3>1. i - Len(pre) \in 1..Len(r) /\ url[i] = r[i - Len(pre)]
      BY <1>1, <1>2, <1>4, <2>2
    <3> QED BY <3>1
  <2> QED BY <2>1, <2>2
<1>6. ASSUME Len(url) >= 2, url[2] = one PROVE SubSeq(url, 3, Len(url)) = r
  <2>1. Len(pre) = 2
    <3>1. Len(pre) # 1
      BY <1>1, <1>2, <1>4, <1>6
    <3>2. Len(pre) # 3
      BY <1>1, <1>2, <1>4, <1>6
    <3> QED BY <1>1, <3>1, <3>2
  <2>2. CASE Len(r) = 0
    <3>1. SubSeq(url, 3, Len(url)) = <<>>
      BY <1>4, <2>1, <2>2, SubSeqEmpty
    <3>2. r = <<>>
      BY <2>2, EmptySeq
    <3> QED BY <3>1, <3>2
  <2>3. CASE Len(r) # 0
    <3>1. /\ 3 \in Len(pre) + 1..Len(pre) + Len(r) /\ 3 - Len(pre) = 1
          /\ Len(url) \in Len(pre) + 1..Len(pre) + Len(r) /\ Len(url) - Len(pre) = Len(r)
      BY <1>2, <1>4, <2>1, <2>3
    <3>2. SubSeq(pre \o r, 3, Len(url)) = SubSeq(r, 1, Len(r))
      BY <1>1, <3>1, SubSeqOfConcat2
    <3> QED BY <1>3, <3>2, SubSeqFull
  <2> QED BY <2>2, <2>3
<1> QED BY <1>3, <1>4, <1>5, <1>6

\* The path of a plain endpoint has one or two segments, and no dots.
LEMMA PlainBase ==
    ASSUME NEW S, NEW b \in Seq(S), b # <<>>, Len(b) <= 2, ~ HasDots(b)
    PROVE  Len(b) \in {1, 2} /\ \A i \in 1..Len(b) : b[i] \notin {"", ".", ".."}
<1>1. Len(b) \in Nat \ {0} /\ DOMAIN b = 1..Len(b)
  BY LenProperties, EmptySeq
<1>2. Len(b) \in {1, 2}
  BY <1>1
<1>3. \A i \in 1..Len(b) : b[i] \notin {"", ".", ".."}
  BY <1>1, Zenon DEF HasDots
<1> QED BY <1>2, <1>3

\* On a plain endpoint, what the Gateway serves of a request that OAM builds is
\* the path that OAM has checked.
LEMMA RoutedIsRel ==
    ASSUME NEW v \in Versions, Plain(v), NEW p, p.rel \in Seq(STRING), p.versioned \in BOOLEAN,
           ~ HasDots(p.rel), ~ p.versioned /\ p.rel # <<>> => p.rel[1] # "v1",
           IsServed(gatewayTargetURL(v, p))
    PROVE  Routed(gatewayTargetURL(v, p)) = p.rel
<1>1. PICK S : S = STRING \cup {"netlox", "v1"}
  OBVIOUS
<1>2. PICK r \in Seq(S) : r = p.rel
  <2>1. PICK A : A = STRING
    OBVIOUS
  <2>2. p.rel \in Seq(A) /\ A \subseteq S
    BY <1>1, <2>1, Zenon
  <2>3. p.rel \in Seq(S)
    BY <2>2, SeqMonotonic
  <2> QED BY <2>3
<1>3. v \in Seq(S) /\ "netlox" \in S /\ "v1" \in S
  <2>1. PICK A : A = STRING
    OBVIOUS
  <2>2. v \in Seq(A) /\ A \subseteq S
    BY <1>1, <2>1, VersionsAssumption, Zenon
  <2>3. v \in Seq(S)
    BY <2>2, SeqMonotonic
  <2>4. "netlox" \in S /\ "v1" \in S
    BY <1>1, Zenon
  <2> QED BY <2>3, <2>4
<1>4. PICK b \in Seq(S) : b = Base(v) /\ b # <<>> /\ b[1] = "netlox"
  BY <1>3, BaseTyped, Zenon
<1>5. Len(b) \in {1, 2} /\ \A i \in 1..Len(b) : b[i] \notin {"", ".", ".."}
  <2>1. Len(b) <= 2 /\ ~ HasDots(b)
    BY <1>4, Zenon DEF Plain
  <2> QED BY <1>4, <2>1, PlainBase, Zenon
<1>6. \A i \in 1..Len(r) : r[i] \notin {"", ".", ".."}
  <2>1. DOMAIN r = 1..Len(r)
    BY LenProperties
  <2> QED BY <1>2, <2>1, Zenon DEF HasDots
<1>7. PICK pre :
         /\ gatewayTargetURL(v, p) = pre \o r
         /\ \/ pre = b /\ (p.versioned => b[Len(b)] = "v1")
            \/ pre = Append(b, "v1") /\ b[Len(b)] # "v1"
  BY <1>2, <1>4, Zenon DEF gatewayTargetURL, Last
<1>8. ~ p.versioned => (Len(r) # 0 => r[1] # "v1")
  <2>1. Len(r) # 0 => r # <<>>
    BY EmptySeq, Zenon
  <2> QED BY <1>2, <2>1, Zenon
<1>9. PICK url : url = pre \o r
  OBVIOUS
<1>10. /\ url \in Seq(S)
       /\ \A i \in 1..Len(url) : url[i] \notin {"", ".", ".."}
       /\ Len(url) >= 2 /\ url[2] = "v1" => SubSeq(url, 3, Len(url)) = r
  <2>1. PICK root : root = "netlox"
    OBVIOUS
  <2>2. PICK one \in S : one = "v1"
    BY <1>3, Zenon
  <2>3. PICK D : D = {"", ".", ".."}
    OBVIOUS
  <2>4. root # one /\ one \notin D
    BY <2>1, <2>2, <2>3
  <2>5. Free(b, D) /\ Free(r, D)
    BY <1>5, <1>6, <2>3, Zenon DEF Free
  <2>6. Before(pre, b, r, root, one)
    BY <1>4, <1>5, <1>7, <1>8, <2>1, <2>2, <2>4, Zenon DEF Before
  <2>7. pre \o r \in Seq(S) /\ Free(pre \o r, D) /\ Follows(pre \o r, r, one)
    BY <2>4, <2>5, <2>6, BehindBase, Zenon
  <2> QED BY <1>9, <2>2, <2>3, <2>7, Zenon DEF Free, Follows
<1>11. Clean(url) = url
  <2>1. DOMAIN url = 1..Len(url)
    BY <1>10, LenProperties
  <2>2. ~ HasDots(url)
    BY <1>10, <2>1, Zenon DEF HasDots
  <2> QED BY <1>10, <2>2, CleanLeaves, Zenon
<1>12. /\ Len(url) >= 2 /\ url[2] = "v1"
       /\ Routed(gatewayTargetURL(v, p)) = SubSeq(url, 3, Len(url))
  BY <1>7, <1>9, <1>11, Zenon DEF IsServed, Routed
<1> QED BY <1>2, <1>10, <1>12, Zenon

-----------------------------------------------------------------------------
(* What the checks decide *)

\* Whoever passes RequireGatewayAccess may do what the classification stands
\* for.
LEMMA AllowedMayReach ==
    ASSUME NEW r \in Roles, NEW m, NEW rel \in Seq(STRING),
           Allowed(r, ClassifyGatewayRequest(m, rel))
    PROVE  MayReach(r, m, rel)
<1>1. PICK family : family = IF rel = <<>> THEN "" ELSE rel[1]
  OBVIOUS
<1>2. PICK sub : sub = IF Len(rel) > 1 THEN rel[2] ELSE ""
  OBVIOUS
<1> DEFINE read == m \in {"GET", "HEAD"}
<1>4. PICK access : access = ClassifyGatewayRequest(m, rel)
  OBVIOUS
<1> DEFINE standard == IF read THEN "authenticated" ELSE "operator"
<1>5. access =
      CASE family = "auth" -> "denied"
        [] family = "config" -> IF sub \in DocumentFamilies THEN "admin"
                                ELSE IF sub \in ConfigFamilies THEN standard ELSE "admin"
        [] family = "audit" -> IF ~ read THEN "admin"
                               ELSE IF sub = "status" /\ Len(rel) = 2 THEN "authenticated"
                               ELSE "operator"
        [] family \in {"logs", "log-archives"} -> IF read THEN "operator" ELSE "admin"
        [] OTHER -> IF family \in OperationalFamilies THEN standard ELSE "admin"
  BY <1>1, <1>2, <1>4 DEF ClassifyGatewayRequest
<1>6. Allowed(r, access)
  BY <1>4
<1>7. /\ access # "denied"
      /\ r = "viewer" => access = "authenticated"
      /\ r \in {"operator", "user"} => access \in {"authenticated", "operator"}
  BY <1>5, <1>6 DEF Allowed, Can
<1>8. Len(rel) \in Nat /\ (rel # <<>> => Len(rel) > 0)
  BY LenProperties, EmptySeq
<1> DEFINE ordinary == \/ family \in OperationalFamilies
                       \/ family = "config" /\ Len(rel) > 1 /\ rel[2] \in ConfigFamilies
           status == rel = <<"audit", "status">>
<1>9. family # "auth"
  BY <1>5, <1>7
<1>10. family = "audit" /\ sub = "status" /\ Len(rel) = 2 => status
  <2> SUFFICES ASSUME family = "audit", sub = "status", Len(rel) = 2 PROVE status
    OBVIOUS
  <2>1. rel # <<>> /\ rel[1] = "audit" /\ rel[2] = "status"
    BY <1>1, <1>2
  <2>2. rel \in [1..2 -> STRING]
    BY LenProperties
  <2> QED BY <2>1, <2>2
<1>11. sub \in ConfigFamilies => Len(rel) > 1 /\ rel[2] \in ConfigFamilies
  BY <1>2, FamiliesAssumption
<1>12. access = "authenticated" => read /\ (ordinary \/ status)
  BY <1>5, <1>10, <1>11
<1>13. access = "operator" => ordinary \/ (read /\ family \in {"audit", "logs", "log-archives"})
  BY <1>5, <1>11
<1>14. status => family = "audit"
  BY <1>1
<1> QED BY <1>1, <1>7, <1>9, <1>12, <1>13, <1>14 DEF MayReach

\* A rule that the guard lets pass takes over no reserved endpoint.
LEMMA UnmatchedSpares ==
    ASSUME NEW list \in ReservedLists, NEW rule \in Rules, NEW m \in {"POST", "PUT"}, NEW rel,
           rule # None, MentionsLoadBalancer(rel), ~ checkReservedEndpoint(list, m, rel, rule)
    PROVE  Captured(rule) \cap Protected(list) = {}
<1> SUFFICES ASSUME NEW e, e \in Captured(rule), e \in Protected(list) PROVE FALSE
  OBVIOUS
<1>1. PICK r \in list : e \in [ip : IF r.ip = Wildcard THEN Addresses ELSE {r.ip}, port : {r.port},
                               proto : IF r.proto = Absent THEN {"tcp", "udp"} ELSE {r.proto}]
  BY DEF Protected
<1>2. r.port \in Ports
  BY ListsAssumption DEF ReservedEndpoint
<1>3. /\ e.port = r.port
      /\ r.proto # Absent => e.proto = r.proto
      /\ r.ip # Wildcard => e.ip = r.ip
  BY <1>1
<1> DEFINE named == {rule.externalIP, rule.host} \ {Absent}
<1>4. /\ e.port = rule.port
      /\ rule.protocol # Absent => e.proto = rule.protocol
      /\ named # {} /\ named \cap {Wildcard, Garbled} = {} => e.ip \in named
  BY DEF Captured
<1>5. rule.port # None
  BY <1>2, <1>3, <1>4, NoneAssumption
<1>6. \A vip \in VIPs(rule) : ~ addrOverlaps(r.ip, vip)
  <2> SUFFICES ASSUME NEW vip \in VIPs(rule), addrOverlaps(r.ip, vip) PROVE FALSE
    OBVIOUS
  <2>1. MatchReservedEndpoint(list, vip, rule.port, rule.protocol)
    BY <1>3, <1>4 DEF MatchReservedEndpoint
  <2> QED BY <1>5, <2>1 DEF checkReservedEndpoint
<1>7. r.ip # Wildcard
  BY <1>6 DEF VIPs, addrOverlaps
<1>8. named # {}
  BY <1>6 DEF VIPs, addrOverlaps
<1>9. named \cap {Wildcard, Garbled} = {}
  BY <1>6 DEF VIPs, addrOverlaps
<1>10. e.ip \in named
  BY <1>4, <1>8, <1>9
<1>11. named \subseteq VIPs(rule)
  BY DEF VIPs
<1> QED BY <1>3, <1>6, <1>7, <1>10, <1>11 DEF addrOverlaps

-----------------------------------------------------------------------------
(* The request, from the check to the Gateway *)

\* What was checked is the role of that moment, the method, and the canonical
\* path that the rest of the handler uses.
Checked ==
    pc \in {"handler", "prepare", "send"} \/ received =>
       /\ checked \in Roles
       /\ path.rel \in Seq(STRING) /\ path.versioned \in BOOLEAN /\ ~ HasDots(path.rel)
       /\ ~ path.versioned /\ path.rel # <<>> => path.rel[1] # "v1"
       /\ Allowed(checked, ClassifyGatewayRequest(req.method, path.rel))

\* The URL is made of that path and of a version the instance had.
Built ==
    pc \in {"prepare", "send"} \/ received =>
       out.endpoint \in Versions /\ out.url = gatewayTargetURL(out.endpoint, path)

\* The rule that is sent has passed the guard.
Guarded ==
    pc = "send" \/ received => ~ checkReservedEndpoint(reserved, req.method, path.rel, req.rule)

\* The inductive invariant of the path and the rule.
RouteInv == Checked /\ Built /\ Guarded

\* The canonical path has no dot segments, and a version is taken off it.
LEMMA CanonicalClean ==
    ASSUME NEW segments \in Paths, NEW odd, NEW c,
           c = CanonicalGatewayPath(segments, odd), c # None
    PROVE  /\ c.rel \in Seq(STRING) /\ c.versioned \in BOOLEAN /\ ~ HasDots(c.rel)
           /\ ~ c.versioned /\ c.rel # <<>> => c.rel[1] # "v1"
<1>1. PICK A : A = STRING
  OBVIOUS
<1>2. segments \in Seq(A) /\ segments # <<>> /\ Len(segments) \in Nat \ {0}
      /\ \A i \in 1..Len(segments) : segments[i] \in A
  <2>1. segments \in Seq(A) /\ segments # <<>>
    BY <1>1, PathsAssumption, Zenon
  <2> QED BY <2>1, EmptySeq, ElementOfSeq
<1>3. Front(segments) \in Seq(A)
  <2>1. SubSeq(segments, 1, Len(segments) - 1) \in Seq(A)
    BY <1>2, SubSeqProperties
  <2> QED BY <2>1 DEF Front
<1>4. PICK t : t = IF Last(segments) = "" THEN Front(segments) ELSE segments
  OBVIOUS
<1>5. t \in Seq(A)
  BY <1>2, <1>3, <1>4
<1>6. /\ ~ HasDots(t)
      /\ c = IF t # <<>> /\ t[1] = "v1" THEN [rel |-> Tail(t), versioned |-> TRUE]
             ELSE [rel |-> t, versioned |-> FALSE]
  BY <1>4 DEF CanonicalGatewayPath, TrimSlash
<1>7. CASE t # <<>> /\ t[1] = "v1"
  <2>1. /\ Tail(t) \in Seq(A) /\ Len(Tail(t)) = Len(t) - 1
        /\ \A i \in 1..Len(Tail(t)) : Tail(t)[i] = t[i + 1]
    BY <1>5, <1>7, HeadTailProperties
  <2>2. DOMAIN t = 1..Len(t) /\ Len(t) \in Nat /\ DOMAIN Tail(t) = 1..Len(Tail(t))
    BY <1>5, <2>1, LenProperties
  <2>3. \A i \in 1..Len(Tail(t)) : i + 1 \in 1..Len(t)
    BY <2>1, <2>2
  <2>4. ~ HasDots(Tail(t))
    BY <1>6, <2>1, <2>2, <2>3 DEF HasDots
  <2>5. c.rel = Tail(t) /\ c.versioned = TRUE
    BY <1>6, <1>7
  <2> QED BY <1>1, <2>1, <2>4, <2>5
<1>8. CASE ~ (t # <<>> /\ t[1] = "v1")
  <2>1. c.rel = t /\ c.versioned = FALSE
    BY <1>6, <1>8
  <2> QED BY <1>1, <1>5, <1>6, <1>8, <2>1
<1> QED BY <1>7, <1>8

\* The first state.
LEMMA InitRoutes == Init => RouteInv
BY DEF Init, RouteInv, Checked, Built, Guarded

\* RequireGatewayAccess passes on what it has checked.
LEMMA AccessRoutes == ASSUME IInv, RouteInv, RequireGatewayAccess PROVE RouteInv'
<1>0. PICK c : c = CanonicalGatewayPath(req.path, req.odd)
  OBVIOUS
<1>1. PICK user \in {role, None} :
         /\ checked' = user
         /\ \/ pc' = "done"
            \/ /\ pc' = "handler" /\ path' = c /\ c # None /\ user # None
               /\ Allowed(user, ClassifyGatewayRequest(req.method, c.rel))
  BY <1>0 DEF RequireGatewayAccess, resolveCaller, Refuse, Answer
<1>2. /\ pc = "access" /\ user \in Roles \cup {None} /\ ~ received
      /\ UNCHANGED <<version, reserved, identity, req, out, received>> /\ req.path \in Paths
  BY DEF RequireGatewayAccess, IInv, TypeOK, Received
<1>3. CASE pc' = "done"
  BY <1>2, <1>3 DEF RouteInv, Checked, Built, Guarded
<1>4. CASE /\ pc' = "handler" /\ path' = c /\ c # None /\ user # None
           /\ Allowed(user, ClassifyGatewayRequest(req.method, c.rel))
  <2>1. /\ c.rel \in Seq(STRING) /\ c.versioned \in BOOLEAN /\ ~ HasDots(c.rel)
        /\ ~ c.versioned /\ c.rel # <<>> => c.rel[1] # "v1"
    BY <1>0, <1>2, <1>4, CanonicalClean
  <2> QED BY <1>1, <1>2, <1>4, <2>1 DEF RouteInv, Checked, Built, Guarded
<1> QED BY <1>1, <1>3, <1>4

\* The URL is built from it.
LEMMA FetchRoutes == ASSUME IInv, RouteInv, FetchInstance PROVE RouteInv'
<1>1. /\ pc = "handler" /\ ~ received /\ version \in Versions \cup {Unparsable, None}
      /\ UNCHANGED <<version, reserved, req, path, checked, received>>
  BY DEF FetchInstance, IInv, TypeOK, Received
<1>2. \/ pc' = "done"
      \/ /\ pc' = "prepare" /\ version \notin {Unparsable, None}
         /\ out' = [url |-> gatewayTargetURL(version, path), endpoint |-> version]
  BY DEF FetchInstance, Refuse, Answer
<1>3. CASE pc' = "done"
  BY <1>1, <1>3 DEF RouteInv, Checked, Built, Guarded
<1>4. CASE /\ pc' = "prepare" /\ version \notin {Unparsable, None}
           /\ out' = [url |-> gatewayTargetURL(version, path), endpoint |-> version]
  <2>1. PICK u : u = gatewayTargetURL(version, path)
    OBVIOUS
  <2>2. out'.url = u /\ out'.endpoint = version
    BY <1>4, <2>1
  <2>3. gatewayTargetURL(out'.endpoint, path') = u
    BY <1>1, <2>1, <2>2, Zenon
  <2>4. Checked' /\ Guarded'
    BY <1>1, <1>4 DEF RouteInv, Checked, Guarded
  <2>5. Built'
    BY <1>1, <1>4, <2>2, <2>3 DEF Built
  <2> QED BY <2>4, <2>5 DEF RouteInv
<1> QED BY <1>2, <1>3, <1>4

\* The guard looks at the rule.
LEMMA PrepareRoutes == ASSUME IInv, RouteInv, Prepare PROVE RouteInv'
<1>1. /\ pc = "prepare" /\ ~ received
      /\ UNCHANGED <<version, reserved, req, path, out, checked, received>>
  BY DEF Prepare, IInv, Received
<1>2. \/ pc' = "done"
      \/ pc' = "send" /\ ~ checkReservedEndpoint(reserved, req.method, path.rel, req.rule)
  BY DEF Prepare, Refuse, Answer
<1>3. CASE pc' = "done"
  BY <1>1, <1>3 DEF RouteInv, Checked, Built, Guarded
<1>4. CASE pc' = "send" /\ ~ checkReservedEndpoint(reserved, req.method, path.rel, req.rule)
  BY <1>1, <1>4 DEF RouteInv, Checked, Built, Guarded
<1> QED BY <1>2, <1>3, <1>4

\* From the call of client.Do on nothing of the request changes.
LEMMA SentRoutes ==
    ASSUME IInv, RouteInv, UNCHANGED <<reserved, req, path, out, checked>>,
           \/ pc = "send" /\ received' = TRUE
           \/ received' = received /\ pc' \notin {"handler", "prepare", "send"}
    PROVE  RouteInv'
BY DEF RouteInv, Checked, Built, Guarded, IInv, Received

\* Every step.
LEMMA NextRoutes == IInv /\ RouteInv /\ [Next]_vars => RouteInv'
<1> SUFFICES ASSUME IInv, RouteInv, [Next]_vars PROVE RouteInv'
  OBVIOUS
<1>1. CASE Arrive
  BY <1>1 DEF Arrive, IInv, Received, RouteInv, Checked, Built, Guarded
<1>2. CASE GatewayReceives
  BY <1>2, SentRoutes DEF GatewayReceives
<1>3. CASE DoFails \/ DoReturns \/ ReadResponse
  BY <1>3, SentRoutes DEF DoFails, DoReturns, ReadResponse, Refuse, Answer
<1>4. CASE Finish
  BY <1>4 DEF Finish, RouteInv, Checked, Built, Guarded
<1>5. CASE UpdateUser \/ DeleteUser \/ UpdateInstance \/ UpdateFirmware \/ DeleteInstance
  BY <1>5 DEF UpdateUser, DeleteUser, UpdateInstance, UpdateFirmware, DeleteInstance,
              RouteInv, Checked, Built, Guarded
<1>6. CASE UNCHANGED vars
  BY <1>6 DEF vars, RouteInv, Checked, Built, Guarded
<1> QED BY <1>1, <1>2, <1>3, <1>4, <1>5, <1>6, AccessRoutes, FetchRoutes, PrepareRoutes DEF Next

\* So both hold always.
LEMMA RoutesInvariant == Spec => [](IInv /\ RouteInv)
BY InductiveInvariant, InitRoutes, NextRoutes, PTL DEF Spec

-----------------------------------------------------------------------------
\* Whatever reaches the Gateway was checked, and on a plain endpoint it is, in
\* the reading of the Gateway's router, what the role the caller had at the check
\* may do (RequireGatewayAccess, CanonicalGatewayPath, gatewayTargetURL).
THEOREM GatewayRoutedAsAuthorized == Spec => []RoutedAsAuthorized
<1>1. IInv /\ RouteInv => RoutedAsAuthorized
  <2> SUFFICES ASSUME IInv, RouteInv, received
               PROVE  /\ checked # None
                      /\ Plain(out.endpoint) /\ IsServed(out.url) =>
                            MayReach(checked, req.method, Routed(out.url))
    BY DEF RoutedAsAuthorized
  <2>1. checked \in Roles /\ checked # None
    BY NoneAssumption DEF RouteInv, Checked
  <2>2. PICK v \in Versions : v = out.endpoint /\ out.url = gatewayTargetURL(v, path)
    BY DEF RouteInv, Built
  <2>3. /\ path.rel \in Seq(STRING) /\ path.versioned \in BOOLEAN /\ ~ HasDots(path.rel)
        /\ ~ path.versioned /\ path.rel # <<>> => path.rel[1] # "v1"
        /\ Allowed(checked, ClassifyGatewayRequest(req.method, path.rel))
    BY DEF RouteInv, Checked
  <2>4. Plain(out.endpoint) /\ IsServed(out.url) => Routed(out.url) = path.rel
    BY <2>2, <2>3, RoutedIsRel
  <2>5. MayReach(checked, req.method, path.rel)
    BY <2>1, <2>3, AllowedMayReach
  <2> QED BY <2>1, <2>4, <2>5
<1> QED BY <1>1, RoutesInvariant, PTL

\* A rule that reaches the Gateway through a plain endpoint takes over no
\* endpoint of the management plane (checkReservedEndpoint,
\* MatchReservedEndpoint).
THEOREM GatewayReservedKept == Spec => []ReservedKept
<1>1. IInv /\ RouteInv => ReservedKept
  <2> SUFFICES ASSUME IInv, RouteInv, received, Plain(out.endpoint), req.rule # None,
                      req.method \in {"POST", "PUT"}, IsServed(out.url), IsLoadBalancerPath(Routed(out.url))
               PROVE  Captured(req.rule) \cap Protected(reserved) = {}
    BY DEF ReservedKept
  <2>1. reserved \in ReservedLists /\ req.rule \in Rules
    BY DEF IInv, TypeOK, Received
  <2>2. PICK v \in Versions : v = out.endpoint /\ out.url = gatewayTargetURL(v, path)
    BY DEF RouteInv, Built
  <2>3. /\ path.rel \in Seq(STRING) /\ path.versioned \in BOOLEAN /\ ~ HasDots(path.rel)
        /\ ~ path.versioned /\ path.rel # <<>> => path.rel[1] # "v1"
    BY DEF RouteInv, Checked
  <2>4. Routed(out.url) = path.rel
    BY <2>2, <2>3, RoutedIsRel
  <2>5. MentionsLoadBalancer(path.rel)
    <3>1. PICK rel : rel = path.rel
      OBVIOUS
    <3>2. Len(rel) \in Nat /\ Len(rel) >= 2 /\ rel[1] = "config" /\ rel[1 + 1] = "loadbalancer"
      BY <2>3, <2>4, <3>1, LenProperties DEF IsLoadBalancerPath
    <3>3. 1 \in 1..Len(rel) - 1
      BY <3>2
    <3> QED BY <3>1, <3>2, <3>3 DEF MentionsLoadBalancer
  <2>6. ~ checkReservedEndpoint(reserved, req.method, path.rel, req.rule)
    BY DEF RouteInv, Guarded
  <2> QED BY <2>1, <2>5, <2>6, UnmatchedSpares
<1> QED BY <1>1, RoutesInvariant, PTL
=============================================================================
