---------------------------- MODULE GatewayAccess ----------------------------
(***************************************************************************)
(* A request through the instance proxy, from the route to the answer:     *)
(* RequireGatewayAccess (middleware/rbac.go) decides on the caller's role, *)
(* the method and the path; ProxyToLoxiLB and ForwardRequest build the     *)
(* outbound request, hold it against the reserved endpoints, send it with  *)
(* the service identity, and relay the answer or classify the error.       *)
(*                                                                         *)
(* A path is the sequence of its segments after the wildcard's first       *)
(* slash: <<"a", "">> is "/a/", <<"">> is "/".  The version in an          *)
(* instance's endpoint is the sequence of the segments that url.Parse      *)
(* reads in it: a registration accepts one plain segment only, a firmware  *)
(* update stores whatever it is given.                                     *)
(*                                                                         *)
(* Requests share nothing but the tables they read, so one request is      *)
(* followed at a time, while another administrator may change the caller's *)
(* role or the instance between any two of its steps.  The headers of a    *)
(* request are left out: which of them are copied depends on no state.     *)
(***************************************************************************)
EXTENDS Naturals, Sequences, SequencesExt

CONSTANTS DocumentFamilies,    \* gatewayDocumentFamilies
          ConfigFamilies,      \* gatewayConfigFamilies
          OperationalFamilies, \* gatewayOperationalFamilies
          Paths,               \* the paths that are tried, sequences of segments
          Methods,             \* the methods that are tried
          Versions,            \* the versions that are tried, sequences of segments
          Unparsable,          \* a version that makes url.Parse fail on the endpoint
          Addresses, Ports,    \* of load-balancer rules
          ReservedLists,       \* values of OAM_RESERVED_ENDPOINTS, parsed
          None

Roles == {"admin", "operator", "viewer", "user"}

Wildcard == "wildcard"         \* an unspecified address, 0.0.0.0 or ::
Garbled == "garbled"  \* an address net.ParseIP does not understand
Absent == "absent"

(***************************************************************************)
(* What the guard reads of a rule: the VIP, the address a full proxy       *)
(* binds, the port if it is one, and the protocol.                         *)
(***************************************************************************)
Rules == [externalIP : Addresses \cup {Wildcard, Garbled, Absent},
          host : Addresses \cup {Wildcard, Garbled, Absent},
          port : Ports \cup {None}, protocol : {"tcp", "udp", Absent}]
ReservedEndpoint == [ip : Addresses \cup {Wildcard}, port : Ports, proto : {"tcp", "udp", Absent}]

ASSUME ListsAssumption == \A list \in ReservedLists : list \subseteq ReservedEndpoint
ASSUME FamiliesAssumption ==
    /\ DocumentFamilies \cap ConfigFamilies = {}
    /\ "loadbalancer" \in ConfigFamilies /\ "" \notin ConfigFamilies
ASSUME PathsAssumption == \A p \in Paths : p \in Seq(STRING) /\ p # <<>>
ASSUME VersionsAssumption == \A v \in Versions : v \in Seq(STRING) /\ v # <<>>
ASSUME NoneAssumption == None \notin Roles /\ None \notin Ports

\* The path contains "config/loadbalancer" somewhere.
MentionsLoadBalancer(p) ==
    \E i \in 1..Len(p) - 1 : p[i] = "config" /\ p[i + 1] = "loadbalancer"

Failures == {"timeout", "canceled", "refused", "reset", "dns", "tls", "other"}

VARIABLES role,     \* the caller's role in the table, None once deleted
          version,  \* the version in the instance's endpoint, None once deleted
          reserved, \* config.ReservedEndpoints
          identity, \* the GatewayServiceIdentity of this process
          pc, req,  \* the request and where it is
          path,     \* CtxGatewayPath
          out,      \* the outbound request, None before it is built
          reply,    \* what the Gateway answered
          resp,     \* the answer to the caller
          checked,  \* for the properties: the role the request was checked against,
                    \* None if the caller was not resolved
          received  \* for the properties: the Gateway got the request

vars == <<role, version, reserved, identity, pc, req, path, out, reply, resp, checked, received>>

PCs == {"idle", "access", "handler", "prepare", "send", "sent", "reading", "done"}
Idle == [path |-> <<"">>, odd |-> FALSE, method |-> "GET", rule |-> None]

\* Mutant: dot segments are left for the Gateway to clean.
BugHasDots(segments) == \E i \in DOMAIN segments : segments[i] = ""

\* A segment that is empty, "." or "..".
HasDots(segments) == \E i \in DOMAIN segments : segments[i] \in {"", ".", ".."}

\* ValidateInstanceVersion: one segment that begins with a letter or a digit.
ValidateInstanceVersion(v) == Len(v) = 1 /\ ~ HasDots(v)

Registered == {v \in Versions : ValidateInstanceVersion(v)}

TypeOK ==
    /\ role \in Roles \cup {None} /\ checked \in Roles \cup {None}
    /\ version \in Versions \cup {Unparsable, None}
    /\ reserved \in ReservedLists
    /\ identity \in [mode : {"disabled", "service-token"}, token : BOOLEAN]
    /\ identity.token <=> identity.mode = "service-token"
    /\ pc \in PCs
    /\ pc # "idle" => /\ req.path \in Paths /\ req.method \in Methods
                      /\ req.rule \in Rules \cup {None}
    /\ path # None => path.versioned \in BOOLEAN
    /\ pc \in {"handler", "prepare", "send", "sent", "reading"} => path # None
    /\ pc \in {"prepare", "send", "sent", "reading"} => out.endpoint \in Versions
    /\ received \in BOOLEAN

-----------------------------------------------------------------------------
\* NewGatewayServiceIdentity: the token is TRUE if one is set, and a malformed
\* one is refused like a missing one.  None: the server does not start.
NewGatewayServiceIdentity(mode, token) ==
    IF mode = "disabled" /\ token = "unset" THEN [mode |-> mode, token |-> FALSE]
    ELSE IF mode = "service-token" /\ token = "good" THEN [mode |-> mode, token |-> TRUE]
    ELSE None

\* readGatewayServiceTokenFile, None if it cannot or may not be read.
ReadTokenFile(file) == IF file = "unreadable" THEN None ELSE file

\* gatewayServiceIdentityFromSources: a token from the environment or a file.
IdentityFromSources(mode, token, file) ==
    IF token # "unset" /\ file # "unset" THEN None
    ELSE IF file = "unset" THEN NewGatewayServiceIdentity(mode, token)
    ELSE IF mode # "service-token" \/ ReadTokenFile(file) = None THEN None
    ELSE NewGatewayServiceIdentity(mode, file)

Identities ==
    {IdentityFromSources(m, t, f) : m \in {"disabled", "service-token", "unknown"},
        t \in {"unset", "good", "malformed"}, f \in {"unset", "good", "malformed", "unreadable"}}
    \ {None}

Init ==
    /\ role \in Roles /\ version \in Registered
    /\ reserved \in ReservedLists /\ identity \in Identities
    /\ pc = "idle" /\ req = Idle
    /\ path = None /\ out = None /\ reply = None /\ resp = None
    /\ checked = None /\ received = FALSE

-----------------------------------------------------------------------------
\* strings.TrimSuffix(path, "/")
TrimSlash(segments) == IF Last(segments) = "" THEN Front(segments) ELSE segments

\* CanonicalGatewayPath: None is ErrGatewayPathInvalid.  odd says that the path
\* holds an encoded separator or a character that is not allowed.
CanonicalGatewayPath(segments, odd) ==
    LET trimmed == TrimSlash(segments) IN
    IF odd \/ HasDots(trimmed) THEN None
    ELSE IF trimmed # <<>> /\ trimmed[1] = "v1"
         THEN [rel |-> Tail(trimmed), versioned |-> TRUE]
         ELSE [rel |-> trimmed, versioned |-> FALSE]

\* The path of an endpoint, as the URL is built on it: a slash is trimmed from
\* the endpoint and another from its path.
Base(v) == TrimSlash(TrimSlash(<<"netlox">> \o v))

\* gatewayTargetURL, the path of it.
gatewayTargetURL(v, p) ==
    (IF p.versioned /\ Last(Base(v)) # "v1" THEN Append(Base(v), "v1") ELSE Base(v)) \o p.rel

GatewayMethodAllowed(method) == method \in {"GET", "HEAD", "POST", "PUT", "PATCH", "DELETE"}

\* ClassifyGatewayRequest
ClassifyGatewayRequest(method, rel) ==
    LET family == IF rel = <<>> THEN "" ELSE rel[1]
        sub == IF Len(rel) > 1 THEN rel[2] ELSE ""
        read == method \in {"GET", "HEAD"}
        standard == IF read THEN "authenticated" ELSE "operator"
    IN CASE family = "auth" -> "denied"
         [] family = "config" -> IF sub \in DocumentFamilies THEN "admin"
                                 ELSE IF sub \in ConfigFamilies THEN standard ELSE "admin"
         [] family = "audit" -> IF ~ read THEN "admin"
                                ELSE IF sub = "status" /\ Len(rel) = 2 THEN "authenticated"
                                ELSE "operator"
         [] family \in {"logs", "log-archives"} -> IF read THEN "operator" ELSE "admin"
         [] OTHER -> IF family \in OperationalFamilies THEN standard ELSE "admin"

\* Can, for the two capabilities of the proxy; the legacy role "user" is an
\* operator.
Can(r, action) ==
    \/ r = "admin"
    \/ r \in {"operator", "user"} /\ action = "gateway_write"

Allowed(r, access) ==
    CASE access = "authenticated" -> TRUE
      [] access = "operator" -> Can(r, "gateway_write")
      [] access = "admin" -> Can(r, "gateway_admin")
      [] OTHER -> FALSE

\* addrOverlaps: what is unspecified, missing or garbled is every address.
addrOverlaps(reservedIP, ruleIP) ==
    reservedIP = Wildcard \/ ruleIP \in {Wildcard, Garbled, Absent} \/ reservedIP = ruleIP

\* MatchReservedEndpoint
MatchReservedEndpoint(list, ip, port, proto) ==
    \E r \in list : /\ r.port = port
                    /\ r.proto = Absent \/ proto = Absent \/ r.proto = proto
                    /\ addrOverlaps(r.ip, ip)

\* Mutant: only the VIP is looked at.
BugVIPs(rule) == {rule.externalIP}

\* The addresses of a rule that are looked at: an omitted host is covered by
\* the VIP.
VIPs(rule) ==
    {rule.externalIP} \cup (IF rule.host = Absent /\ rule.externalIP # Absent
                            THEN {} ELSE {rule.host})

\* checkReservedEndpoint refuses the request; a port that parseRulePort does not
\* read is None.
checkReservedEndpoint(list, method, rel, rule) ==
    /\ rule # None /\ method \in {"POST", "PUT"} /\ MentionsLoadBalancer(rel)
    /\ rule.port # None
    /\ \E vip \in VIPs(rule) : MatchReservedEndpoint(list, vip, rule.port, rule.protocol)

\* classifyProxyError and classifyUpstreamError, for a failure of client.Do.
classifyUpstreamError(failure) ==
    CASE failure = "timeout" -> [status |-> 504, says |-> "timed out"]
      [] failure = "canceled" -> [status |-> 502, says |-> "cancelled"]
      [] failure = "refused" -> [status |-> 502, says |-> "unreachable"]
      [] failure = "reset" -> [status |-> 502, says |-> "reset"]
      [] failure = "dns" -> [status |-> 502, says |-> "unresolved"]
      [] failure = "tls" -> [status |-> 502, says |-> "tls"]
      [] OTHER -> [status |-> 502, says |-> "unreachable"]

-----------------------------------------------------------------------------
Answer(status, origin, says) ==
    /\ pc' = "done"
    /\ resp' = [status |-> status, origin |-> origin, says |-> says]

\* MarkOAMOrigin and the answer, as every refusal and error of OAM's ends.
Refuse(status, says) == Answer(status, "oam", says)

\* A request reaches the route; its token was accepted (TokenAuthMiddleware).
Arrive ==
    /\ pc = "idle"
    /\ \E p \in Paths, m \in Methods, odd \in BOOLEAN :
       \E rule \in IF m \in {"POST", "PUT"} /\ \E i \in DOMAIN p : p[i] = "loadbalancer"
                   THEN Rules \cup {None} ELSE {None} :
          req' = [path |-> p, odd |-> odd, method |-> m, rule |-> rule]
    /\ pc' = "access"
    /\ UNCHANGED <<role, version, reserved, identity, path, out, reply, resp, checked, received>>

\* resolveCaller, what it may come to: the caller's row, which is read for every
\* request, or nothing, if the row is gone or the database fails.
resolveCaller == {role, None}

\* RequireGatewayAccess
RequireGatewayAccess ==
    /\ pc = "access"
    /\ \E user \in resolveCaller :
       LET canonical == CanonicalGatewayPath(req.path, req.odd)
           refuse(status) == Refuse(status, "refused") /\ UNCHANGED path
       IN /\ IF user = None THEN refuse(401)
             ELSE IF ~ GatewayMethodAllowed(req.method) THEN refuse(405)
             ELSE IF canonical = None THEN refuse(400)
             ELSE IF ~ Allowed(user, ClassifyGatewayRequest(req.method, canonical.rel))
                  THEN refuse(403)
             ELSE pc' = "handler" /\ path' = canonical /\ UNCHANGED resp
          /\ checked' = user
    /\ UNCHANGED <<role, version, reserved, identity, req, out, reply, received>>

\* ProxyToLoxiLB and the start of ForwardRequest: the id is parsed, the instance
\* is read (any error of the database counts as a missing instance) and the URL
\* is built.
FetchInstance ==
    /\ pc = "handler"
    /\ \/ \E status \in {400, 404} : Refuse(status, "refused") /\ UNCHANGED out
       \/ version = Unparsable /\ Refuse(500, "refused") /\ UNCHANGED out
       \/ /\ version \notin {Unparsable, None}
          /\ pc' = "prepare"
          /\ out' = [url |-> gatewayTargetURL(version, path), endpoint |-> version]
          /\ UNCHANGED resp
    /\ UNCHANGED <<role, version, reserved, identity, req, path, reply, checked, received>>

\* Authorize has an identity to apply.  It always does in a process that
\* started: the check is repeated "as defence in depth".
Authorize(id) == id.mode = "disabled" \/ (id.mode = "service-token" /\ id.token)

\* The rest of ForwardRequest up to client.Do: the body is read, the guard
\* runs, the request is created and the identity applied.
Prepare ==
    /\ pc = "prepare"
    /\ \/ Refuse(400, "refused")
       \/ IF checkReservedEndpoint(reserved, req.method, path.rel, req.rule)
          THEN Refuse(409, "refused")
          ELSE \/ Refuse(500, "refused")
               \/ IF Authorize(identity) THEN pc' = "send" /\ UNCHANGED resp
                  ELSE Refuse(503, "refused")
    /\ UNCHANGED <<role, version, reserved, identity, req, path, out, reply, checked, received>>

\* The request reaches the Gateway, which answers or does not.
GatewayReceives ==
    /\ pc = "send"
    /\ pc' = "sent" /\ received' = TRUE
    /\ \E status \in {200, 401}, marker \in {"none", "oam"} :
          reply' = [status |-> status, marker |-> marker]
    /\ UNCHANGED <<role, version, reserved, identity, req, path, out, resp, checked>>

\* client.Do fails: before the Gateway has the request, or, by a timeout, a
\* lost connection or a caller who went away, after.
DoFails ==
    /\ pc \in {"send", "sent"}
    /\ \E f \in IF pc = "send" THEN Failures ELSE {"timeout", "canceled", "reset", "other"} :
          Refuse(classifyUpstreamError(f).status, classifyUpstreamError(f).says)
    /\ UNCHANGED <<role, version, reserved, identity, req, path, out, reply, checked, received>>

\* client.Do returns the header of the answer.
DoReturns ==
    /\ pc = "sent"
    /\ pc' = "reading"
    /\ UNCHANGED <<role, version, reserved, identity, req, path, out, reply, resp, checked, received>>

\* Mutant: the Gateway's own marker is relayed like any other header.
BugRelayed == reply.marker

\* The Gateway's headers are relayed but for the marker, which OAM sets itself.
Relayed == IF reply.status >= 400 THEN "gateway" ELSE "none"

\* The body is read to its end and relayed, or is cut short.
ReadResponse ==
    /\ pc = "reading"
    /\ \/ Refuse(502, "incomplete")
       \/ Answer(reply.status, Relayed, "relayed")
    /\ UNCHANGED <<role, version, reserved, identity, req, path, out, reply, checked, received>>

\* The next request, of any caller to any instance.
Finish ==
    /\ pc = "done"
    /\ pc' = "idle" /\ req' = Idle
    /\ path' = None /\ out' = None /\ reply' = None /\ resp' = None
    /\ checked' = None /\ received' = FALSE
    /\ role' \in Roles /\ version' \in Registered
    /\ UNCHANGED <<reserved, identity>>

\* Another administrator changes or deletes the caller: at any moment before
\* the request reads the row, after which it does not matter.  Accounts has
\* these operations step by step, here is what they do to the row.
UpdateUser ==
    /\ pc = "access" /\ role # None
    /\ role' \in Roles
    /\ UNCHANGED <<version, reserved, identity, pc, req, path, out, reply, resp, checked, received>>

DeleteUser ==
    /\ pc = "access" /\ role # None
    /\ role' = None
    /\ UNCHANGED <<version, reserved, identity, pc, req, path, out, reply, resp, checked, received>>

\* Likewise the instance, whose operations are in Instances.
\* UpdateLoxiLBInstance validates what it stores, UpdateLoxiLBInstanceFirmware
\* takes the version as it comes.
UpdateInstance ==
    /\ pc = "handler" /\ version # None
    /\ version' \in Registered
    /\ UNCHANGED <<role, reserved, identity, pc, req, path, out, reply, resp, checked, received>>

UpdateFirmware ==
    /\ pc = "handler" /\ version # None
    /\ version' \in Versions \cup {Unparsable}
    /\ UNCHANGED <<role, reserved, identity, pc, req, path, out, reply, resp, checked, received>>

DeleteInstance ==
    /\ pc = "handler" /\ version # None
    /\ version' = None
    /\ UNCHANGED <<role, reserved, identity, pc, req, path, out, reply, resp, checked, received>>

-----------------------------------------------------------------------------
Next ==
    \/ Arrive \/ RequireGatewayAccess \/ FetchInstance \/ Prepare
    \/ GatewayReceives \/ DoFails \/ DoReturns \/ ReadResponse \/ Finish
    \/ UpdateUser \/ DeleteUser \/ UpdateInstance \/ UpdateFirmware \/ DeleteInstance

Spec == Init /\ [][Next]_vars

-----------------------------------------------------------------------------
(* The Gateway, from how src/ uses it *)

\* Its router cleans a path ...
CleanStep(done, segment) ==
    IF segment \in {"", "."} THEN done
    ELSE IF segment = ".." THEN (IF done = <<>> THEN done ELSE Front(done))
    ELSE Append(done, segment)
Clean(segments) ==
    LET done[i \in 0..Len(segments)] ==
          IF i = 0 THEN <<>> ELSE CleanStep(done[i - 1], segments[i])
    IN done[Len(segments)]

\* ... and serves what is under the root of its API.
IsServed(url) == Len(Clean(url)) >= 2 /\ Clean(url)[1] = "netlox" /\ Clean(url)[2] = "v1"
Routed(url) == SubSeq(Clean(url), 3, Len(Clean(url)))

IsLoadBalancerPath(rel) == Len(rel) >= 2 /\ rel[1] = "config" /\ rel[2] = "loadbalancer"

\* The endpoints a rule takes over.
Captured(rule) ==
    [ip : LET named == {rule.externalIP, rule.host} \ {Absent} IN
          IF named = {} \/ named \cap {Wildcard, Garbled} # {} THEN Addresses ELSE named,
     port : {rule.port},
     proto : IF rule.protocol = Absent THEN {"tcp", "udp"} ELSE {rule.protocol}]

Protected(list) ==
    UNION {[ip : IF r.ip = Wildcard THEN Addresses ELSE {r.ip}, port : {r.port},
            proto : IF r.proto = Absent THEN {"tcp", "udp"} ELSE {r.proto}] : r \in list}

-----------------------------------------------------------------------------
(* Properties *)

\* What a role may reach on the Gateway, by the path the Gateway routes.
MayReach(r, method, rel) ==
    LET read == method \in {"GET", "HEAD"}
        top == IF rel = <<>> THEN "" ELSE rel[1]
        ordinary == \/ top \in OperationalFamilies
                    \/ top = "config" /\ Len(rel) > 1 /\ rel[2] \in ConfigFamilies
        status == rel = <<"audit", "status">>
    IN /\ top # "auth"
       /\ r = "viewer" => read /\ (ordinary \/ status)
       /\ r \in {"operator", "user"} =>
             ordinary \/ (read /\ top \in {"audit", "logs", "log-archives"})

\* An endpoint at the root of the Gateway's host or at one version below it.
\* Every registered version makes one, and so does a blank one or one with a
\* slash after it; a firmware update may store others.
Plain(v) == Len(Base(v)) <= 2 /\ ~ HasDots(Base(v))

\* OAM is the only boundary between a role and the Gateway: whatever reaches
\* the Gateway was checked, and in the reading of the Gateway's router it is
\* what the role the caller had at the check may do, provided the endpoint the
\* URL was built on is a plain one.  (On another endpoint the path is read from
\* another root than the one it was classified for.)
RoutedAsAuthorized ==
    received => /\ checked # None
                /\ Plain(out.endpoint) /\ IsServed(out.url) =>
                      MayReach(checked, req.method, Routed(out.url))

\* A rule that reaches the Gateway through a plain endpoint takes over no
\* endpoint of the management plane, by neither of its addresses and on no
\* protocol.  (The guard reads the path without the endpoint's.)
ReservedKept ==
    received /\ Plain(out.endpoint) /\ req.rule # None /\ req.method \in {"POST", "PUT"}
      /\ IsServed(out.url) /\ IsLoadBalancerPath(Routed(out.url)) =>
    Captured(req.rule) \cap Protected(reserved) = {}

\* The marker tells the truth: a failure marked "gateway" was answered by the
\* Gateway, one marked "oam" was not.  A 401 marked "oam", on which the console
\* ends the session, never stems from the Gateway: OAM itself did not resolve
\* the caller, who is gone or could not be looked up.  A refusal is OAM's own,
\* "nothing has been sent to the Gateway", and an answer reported as incomplete
\* was one.
OriginTruthful ==
    resp # None =>
       /\ resp.status >= 400 <=> resp.origin # "none"
       /\ resp.origin = "gateway" => received /\ resp.says = "relayed"
       /\ resp.origin = "oam" => resp.says # "relayed"
       /\ resp.origin = "oam" /\ resp.status = 401 => checked = None
       /\ resp.says = "refused" => ~ received
       /\ resp.says = "incomplete" => received
=============================================================================
