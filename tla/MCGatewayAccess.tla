--------------------------- MODULE MCGatewayAccess ---------------------------
(* Instances of GatewayAccess for TLC. *)
EXTENDS GatewayAccess

SomeSegments == {"", ".", "..", "v1", "auth", "config", "snapshot", "audit", "status", "logs",
                 "unlisted"}

\* Every path of up to two segments, and the longer ones in which a version, a
\* dot segment or a trailing slash changes the reading of the rest; those with
\* "loadbalancer" in them, which may carry a rule, where it matters what else is.
SomePaths ==
    {<<a>> : a \in SomeSegments} \cup {<<a, b>> : a, b \in SomeSegments} \cup
    {<<"loadbalancer">>} \cup {<<"loadbalancer", b>> : b \in {"", "config"}} \cup
    {<<a, "loadbalancer">> : a \in {"", "..", "v1", "config", "audit"}} \cup
    {<<a, b, c>> : a \in {"v1", "config"}, b \in {"..", "v1", "config", "loadbalancer"},
                   c \in {"", "..", "auth", "loadbalancer"}} \cup
    {<<"netlox", "v1", c>> : c \in {"auth", "status"}}

\* Registered versions, and what only a firmware update stores: a blank one,
\* slashes behind, dot segments, more than one segment.
SomeVersions ==
    {<<"v1">>, <<"v2">>, <<"">>, <<"v1", "", "">>, <<"..">>, <<"v1", "auth">>, <<"v1", "config">>}

\* One address on TCP, and every address on both protocols.
SomeLists ==
    {{[ip |-> "edge", port |-> 8443, proto |-> "tcp"]},
     {[ip |-> Wildcard, port |-> 8443, proto |-> Absent]}}
=============================================================================
