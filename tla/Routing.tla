------------------------------- MODULE Routing -------------------------------
(***************************************************************************)
(* The way of one TCP connection: the nftables chains buildNFTScript       *)
(* writes, the transparent proxy with DecidePath and routing.Engine, the   *)
(* SOCKS/HTTP listener, and the process's own dials, which pass the OUTPUT *)
(* chain like those of any local program and may come back.                *)
(*                                                                         *)
(* An address is the set of lists it is on: "private" (the default         *)
(* reserved ranges), "bypass" (EffectiveBypassNets), "tunnel"              *)
(* (TUNNEL_CIDRS), "server" (a tunnel endpoint) and "block"; "port" says   *)
(* that the port is the transparent proxy's own, which both chains leave   *)
(* alone.  Lists do not change while the connection is under way, and the  *)
(* table carries the sets of the engine (Gateway.tla is about when it      *)
(* does).                                                                  *)
(***************************************************************************)
EXTENDS Integers, FiniteSets

CONSTANTS
    Modes,          \* ROUTING_MODE: subset of {"exclude", "include"}
    Origins,        \* subset of {"lan", "local", "socks"}
    OutputEnable,   \* GATEWAY_OUTPUT_ENABLE values
    MaxHops         \* bound: times the connection enters the transparent proxy

ASSUME RoutingAssumption ==
    /\ Modes \subseteq {"exclude", "include"} /\ Modes # {}
    /\ Origins \subseteq {"lan", "local", "socks"} /\ Origins # {}
    /\ OutputEnable \subseteq BOOLEAN /\ OutputEnable # {}
    /\ MaxHops \in Nat

Tags == {"private", "bypass", "tunnel", "server", "block", "port"}

\* BypassCIDRs always contains the reserved ranges (config.go, mergeIPNets).
Addresses == {a \in SUBSET Tags : "private" \in a => "bypass" \in a}
Endpoints == {a \in Addresses : "server" \in a}

Backends == {"outline", "amnezia"}

\* Rules for names: "example.com" (domain) or "*.example.com" (suffix), and whether
\* the name is a subdomain of example.com or example.com itself.
NoRule == [kind |-> "none", sub |-> FALSE]
NameRules == {NoRule} \cup [kind : {"domain", "suffix"}, sub : BOOLEAN]
Lists == {"bypass", "block"}

VARIABLES
    mode, policy, output,   \* ROUTING_MODE, DIRECT_POLICY, GATEWAY_OUTPUT_ENABLE
    backend,                \* the tunnel in use; AmneziaWG dials through its interface
    endpoint,               \* the address the Outline tunnel dials
    nat,                    \* the host's own source address is a private one
    origin, dst,            \* where the connection comes from, and its destination
    byName, rules,          \* SOCKS: whether it names a host, and the rule of each list
                            \* that comes nearest to the name
    at,                     \* where it is now: a chain, a proxy, "sent" or "dropped"
    peer,                   \* the address the packet at hand is for
    via,                    \* what the proxy that sent it decided: "none" before that,
                            \* "direct", "tunnel" or "drop"
    hops                    \* times it entered the transparent proxy

world == <<mode, policy, output, backend, endpoint, nat, origin, dst, byName, rules>>
routeVars == <<world, at, peer, via, hops>>

-----------------------------------------------------------------------------
\* Mutation of MatchHost: a suffix rule is taken for subdomains only.
MatchSubdomains(r) == r.kind = (IF r.sub THEN "suffix" ELSE "domain")

\* Matcher.MatchHost of a name
MatchHost(r) == r.kind = "suffix" \/ (r.kind = "domain" /\ ~r.sub)

\* DomainsToResolve: the addresses of the rule's own host are on the list.
Resolves(r) == r.kind # "none" /\ ~r.sub

\* MatchBypass of the two managers: a name is matched against the rules, an address
\* against the networks and the resolved addresses.
Matched(l) == IF byName THEN MatchHost(rules[l]) ELSE l \in dst

\* Engine.Decide
Decide(a) ==
    IF "server" \in a \/ "bypass" \in a THEN "direct"
    ELSE IF mode = "exclude" \/ "tunnel" \in a THEN "tunnel"
    ELSE policy

\* Mutation of DecidePath: the block list is asked after the engine.
DecideThenBlock(a) ==
    IF Decide(a) = "tunnel" /\ "block" \in a THEN "drop" ELSE Decide(a)

\* EnginePathDecider.DecidePath
DecidePath(a) == IF "block" \in a THEN "drop" ELSE Decide(a)

\* BypassNets, the elements of @bypass.
InBypassSet(a) == "bypass" \in a \/ "server" \in a

\* The prerouting chain redirects all but what is for the transparent proxy's port
\* (wherever that is) or a reserved range.
PreroutingRedirects(a) == "port" \notin a /\ "private" \notin a

\* Mutation of OutputRedirects: @bypass is not exempted.
RedirectAllPublic(a) ==
    /\ output /\ "port" \notin a
    /\ ~(backend = "amnezia" /\ via = "tunnel")
    /\ ~nat /\ "private" \notin a
    /\ mode = "include" => "tunnel" \in a

\* The output chain (appendOutputRedirect); packets that leave by the AmneziaWG
\* interface or from a private source address are exempt.
OutputRedirects(a) ==
    /\ output /\ "port" \notin a
    /\ ~(backend = "amnezia" /\ via = "tunnel")
    /\ ~nat /\ "private" \notin a
    /\ IF mode = "include" THEN "tunnel" \in a ELSE ~InBypassSet(a)

-----------------------------------------------------------------------------
\* A connection is made; it begins at the chain or the listener of its origin.
RouteInit ==
    /\ mode \in Modes /\ policy \in {"direct", "drop"} /\ output \in OutputEnable
    /\ backend \in Backends /\ endpoint \in Endpoints /\ nat \in BOOLEAN
    /\ origin \in Origins /\ dst \in Addresses
    /\ byName \in IF origin = "socks" THEN BOOLEAN ELSE {FALSE}
    /\ rules \in [Lists -> IF byName THEN NameRules ELSE {NoRule}]
    /\ \A l \in Lists : Resolves(rules[l]) => l \in dst
    /\ at = CASE origin = "lan" -> "prerouting"
              [] origin = "local" -> "output"
              [] origin = "socks" -> "socks"
    /\ peer = dst /\ via = "none" /\ hops = 0

\* A dial of the process itself: to the destination, or to the tunnel's endpoint.
\* What AmneziaWG is asked for leaves by its interface with its own destination.
Dial(path, a) ==
    /\ via' = path
    /\ at' = "output"
    /\ peer' = IF path = "tunnel" /\ backend = "outline" THEN endpoint ELSE a

\* prerouting: to the transparent proxy, or forwarded by the kernel.
Prerouting ==
    /\ at = "prerouting"
    /\ at' = IF PreroutingRedirects(peer) THEN "transparent" ELSE "sent"
    /\ hops' = IF PreroutingRedirects(peer) THEN hops + 1 ELSE hops
    /\ UNCHANGED <<world, peer, via>>

\* output: redirected to the transparent proxy, or sent.
Output ==
    /\ at = "output"
    /\ \/ /\ OutputRedirects(peer) /\ hops < MaxHops
          /\ at' = "transparent"
          /\ hops' = hops + 1
       \/ /\ ~OutputRedirects(peer)
          /\ at' = "sent"
          /\ UNCHANGED hops
    /\ UNCHANGED <<world, peer, via>>

\* SOCKS5.handle and handleHTTP: block list, bypass list, else the tunnel.
SocksConnect ==
    /\ at = "socks"
    /\ \/ /\ Matched("block")
          /\ at' = "dropped" /\ via' = "drop"
          /\ UNCHANGED peer
       \/ /\ ~Matched("block")
          /\ Dial(IF Matched("bypass") THEN "direct" ELSE "tunnel", dst)
    /\ UNCHANGED <<world, hops>>

\* Transparent.handle, on the destination SO_ORIGINAL_DST gives.
Transparent ==
    /\ at = "transparent"
    /\ \/ /\ DecidePath(peer) = "drop"
          /\ at' = "dropped" /\ via' = "drop"
          /\ UNCHANGED peer
       \/ /\ DecidePath(peer) # "drop"
          /\ Dial(DecidePath(peer), peer)
    /\ UNCHANGED <<world, hops>>

RouteNext == Prerouting \/ Output \/ SocksConnect \/ Transparent

RouteSpec == RouteInit /\ [][RouteNext]_routeVars

-----------------------------------------------------------------------------
\* What docs/routing.md promises a destination ("Always bypass" and the two modes).
Promised ==
    IF "private" \in dst THEN "none"
    ELSE IF "block" \in dst THEN "drop"
    ELSE IF "bypass" \in dst \/ "server" \in dst THEN "direct"
    ELSE IF mode = "exclude" THEN "tunnel"
    ELSE IF "tunnel" \in dst THEN "tunnel" ELSE policy

\* In include mode the OUTPUT chain does not exempt @bypass; the statements
\* below are about the other configurations.
OutputExempts == mode = "exclude" \/ ~output

\* A forwarded LAN connection ends on the path of docs/routing.md:40-60: the
\* chains, DecidePath and the process's own dials agree with one another.  This is
\* said of every port but the transparent proxy's.
LanFollowsPolicy ==
    (/\ OutputExempts /\ origin = "lan" /\ at \in {"sent", "dropped"}
     /\ "port" \notin dst) => via = Promised

\* The same for every port: "Other TCP | REDIRECT -> transparent proxy ->
\* routing.Engine (VPN / Direct / Drop)" (docs/routing.md:23).
LanEveryPort ==
    (OutputExempts /\ origin = "lan" /\ at \in {"sent", "dropped"}) => via = Promised

\* The SOCKS column of docs/routing.md:29-33: a name is dropped if a block rule
\* is, or ends in, the name, else sent directly if a bypass rule does.
SocksPromise ==
    LET Covered(l) == IF byName THEN rules[l] \notin {NoRule, [kind |-> "domain", sub |-> TRUE]}
                                ELSE l \in dst
    IN  IF Covered("block") THEN "drop" ELSE IF Covered("bypass") THEN "direct" ELSE "tunnel"

\* The path the SOCKS listener chose is the one the connection takes: its dial
\* passes the OUTPUT chain, which decides by addresses, and is not redirected to
\* the transparent proxy for a second, different decision.  With OUTPUT enabled
\* this is said of names whose addresses the bypass list knows.
SocksFollowsRules ==
    (/\ OutputExempts /\ origin = "socks" /\ at \in {"sent", "dropped"}
     /\ output /\ Matched("bypass") => InBypassSet(dst))
      => via = SocksPromise

\* The same for every name: "SOCKS matches hostnames reliably" (docs/routing.md:35).
SocksReliable ==
    (OutputExempts /\ origin = "socks" /\ at \in {"sent", "dropped"}) => via = SocksPromise

\* A connection enters the transparent proxy at most once: the process's own
\* dials, which pass the OUTPUT chain, do not come back to it.
EntersOnce == OutputExempts => hops <= 1

\* "The outline-gate process must not be redirected" (gateway.go:227), in every
\* configuration.
NoLoop == hops <= 1

\* "Regardless of mode, the following never go through the tunnel: ... Resolved
\* Outline server IPv4" (docs/routing.md:7-15).
ServerNeverTunnelled == (at = "sent" /\ "server" \in dst) => via # "tunnel"

\* Block rules: "match -> drop (before bypass/tunnel)" (docs/routing.md:12).
BlockedDropped == (at = "sent" /\ "private" \notin dst) => "block" \notin dst
=============================================================================
