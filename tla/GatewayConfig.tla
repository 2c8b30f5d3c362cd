--------------------------- MODULE GatewayConfig ---------------------------
(***************************************************************************)
(* What a Stack may say about its routes, and the Caddy configuration the  *)
(* Controller generates from the routes of all Stacks: an ordered list, of *)
(* which Caddy serves the first route that matches.                        *)
(*                                                                         *)
(* A gateway is a record of tls and http (modes), routes and tcp; a route  *)
(* has hosts, canonical, tls, http and rules; a rule has matches, a        *)
(* rewrite and a backend; a Service has targets, its TCP ports, and job.   *)
(* A path is the sequence of its segments, and a request a record of host, *)
(* proto and path.  What does not choose a route is left out: caching,     *)
(* compression, trusted proxies, the rewritten path, upstream transports.  *)
(***************************************************************************)
EXTENDS Integers, Sequences, SequencesExt, FiniteSets

CONSTANTS Lower,      \* the hostnames that can be written, each with its lower case
          Wildcards,  \* hostnames that begin with *.
          Covers,     \* hostname |-> the hosts of requests that Caddy's matcher accepts
          LowerCase,  \* path segment |-> its lower case
          DeployPath, \* /v1/deploy
          Nothing

ReservedPorts == {80, 443} \union 2019..2021

(***************************************************************************)
(* validate_and_normalize.                                                 *)
(***************************************************************************)
Modes(gateway, route) ==
    [tls  |-> IF route.tls = Nothing THEN gateway.tls ELSE route.tls,
     http |-> IF route.http = Nothing THEN gateway.http ELSE route.http]

\* A prefix loses the slashes at its end: empty segments.
normalize_path_match(m) ==
    LET kept == {i \in DOMAIN m.path : \E j \in i..Len(m.path) : m.path[j] # ""}
    IN  IF m.kind = "prefix" THEN [m EXCEPT !.path = SubSeq(@, 1, Cardinality(kept))] ELSE m

validate_rewrite(rule) ==
    rule.rewrite \in {"strip_prefix", "replace_prefix"} =>
        rule.matches # <<>> /\ \A i \in DOMAIN rule.matches : rule.matches[i].kind = "prefix"

\* The port of a Service with one declared TCP target may be left out: 0.
ValidBackend(backend, services) ==
    IF backend.service # Nothing
    THEN /\ backend.host = Nothing /\ backend.service \in DOMAIN services
         /\ IF backend.port = 0 THEN Cardinality(services[backend.service].targets) = 1
            ELSE backend.port \in services[backend.service].targets
    ELSE backend.host # Nothing /\ backend.port # 0

normalize_backend(backend, services) ==
    IF backend.port # 0 THEN backend
    ELSE [backend EXCEPT !.port = CHOOSE p \in services[backend.service].targets : TRUE]

ValidTcp(tcp, services) ==
    /\ \A i \in DOMAIN tcp : /\ tcp[i].listen \notin ReservedPorts
                             /\ tcp[i].service \in DOMAIN services
                             /\ ~ services[tcp[i].service].job
                             /\ tcp[i].port \in services[tcp[i].service].targets
    /\ IsInjective([i \in DOMAIN tcp |-> tcp[i].listen])

ValidRoute(gateway, route, services) ==
    LET modes == Modes(gateway, route)
        fallbacks == {i \in DOMAIN route.rules : route.rules[i].matches = <<>>}
    IN  /\ route.hosts # <<>>
        /\ route.canonical # Nothing =>
             /\ Lower[route.canonical] \in {Lower[h] : h \in ToSet(route.hosts)}
             /\ route.canonical \notin Wildcards
        /\ ~ (modes.tls = "disabled" /\ modes.http = "disabled")
        /\ modes.http = "redirect" => modes.tls = "serve"
        /\ route.rules # <<>> /\ Cardinality(fallbacks) <= 1
        /\ \A i \in DOMAIN route.rules : /\ validate_rewrite(route.rules[i])
                                         /\ ValidBackend(route.rules[i].backend, services)

\* No hostname twice, in whatever case and whichever route.
Accepted(gateway, services) ==
    /\ ValidTcp(gateway.tcp, services)
    /\ \A i \in DOMAIN gateway.routes : ValidRoute(gateway, gateway.routes[i], services)
    /\ IsInjective([x \in UNION {{i} \X DOMAIN gateway.routes[i].hosts : i \in DOMAIN gateway.routes} |->
                      Lower[gateway.routes[x[1]].hosts[x[2]]]])

\* Of an accepted gateway.
validate_and_normalize(gateway, services) ==
    LET Rule(rule) == [rule EXCEPT !.matches = [i \in DOMAIN @ |-> normalize_path_match(@[i])],
                                   !.backend = normalize_backend(@, services)]
        Route(route) == [route EXCEPT !.hosts = [i \in DOMAIN @ |-> Lower[@[i]]],
                                      !.canonical = IF @ = Nothing THEN @ ELSE Lower[@],
                                      !.rules = [i \in DOMAIN @ |-> Rule(@[i])]]
    IN  [gateway EXCEPT !.routes = [i \in DOMAIN @ |-> Route(@[i])]]

Hostnames(gateway) == UNION {ToSet(gateway.routes[i].hosts) : i \in DOMAIN gateway.routes}
TcpPorts(gateway) == {gateway.tcp[i].listen : i \in DOMAIN gateway.tcp}
has_routes(gateway) == gateway.routes # <<>> \/ gateway.tcp # <<>>

(***************************************************************************)
(* generate.                                                               *)
(***************************************************************************)
\* path_pattern: a regex is the set of the paths it matches.
PathMatches(m, path) ==
    LET Same(p, q) == IF m.ignore_case
                      THEN [i \in DOMAIN p |-> LowerCase[p[i]]] = [i \in DOMAIN q |-> LowerCase[q[i]]]
                      ELSE p = q
    IN  CASE m.kind = "exact" -> Same(m.path, path)
          [] m.kind = "prefix" -> Len(m.path) <= Len(path) /\ Same(m.path, SubSeq(path, 1, Len(m.path)))
          [] m.kind = "regex" -> path \in m.path

\* Mutant of SortKey: prefixes in the order they were written.
SortKeyWritten(rules, rule, i) ==
    LET m == rules[rule].matches[i]
    IN  IF i = 0 THEN <<3, 0, rule, 0>>
        ELSE <<CASE m.kind = "exact" -> 0 [] m.kind = "prefix" -> 1 [] m.kind = "regex" -> 2,
               0, rule, i>>

\* The place of a rule's i-th match; i = 0 is a rule without matches.
SortKey(rules, rule, i) ==
    LET m == rules[rule].matches[i]
    IN  IF i = 0 THEN <<3, 0, rule, 0>>
        ELSE <<CASE m.kind = "exact" -> 0 [] m.kind = "prefix" -> 1 [] m.kind = "regex" -> 2,
               IF m.kind = "prefix" THEN -Len(m.path) ELSE 0, rule, i>>

Before(k, l) == \E i \in DOMAIN k : k[i] < l[i] /\ \A j \in 1..(i - 1) : k[j] = l[j]

Expanded(rules) ==
    UNION {IF rules[i].matches = <<>> THEN {<<i, 0>>} ELSE {i} \X DOMAIN rules[i].matches : i \in DOMAIN rules}

build_proxy_routes(stack, index, route, hosts, proto) ==
    LET rules == route.rules
        all == Expanded(rules)
        Key(e) == SortKey(rules, e[1], e[2])
    IN  [n \in 1..Cardinality(all) |->
           LET e == CHOOSE x \in all : Cardinality({y \in all : Before(Key(y), Key(x))}) = n - 1
           IN  [hosts |-> hosts, proto |-> proto,
                path |-> IF e[2] = 0 THEN Nothing ELSE rules[e[1]].matches[e[2]],
                handle |-> [do |-> "proxy", stack |-> stack, route |-> index, rule |-> e[1], match |-> e[2],
                            backend |-> rules[e[1]].backend]]]

\* A redirect to a host, or to the request's own.
redirect_route(hosts, proto, target, host) ==
    [hosts |-> hosts, proto |-> proto, path |-> Nothing,
     handle |-> [do |-> "redirect", proto |-> target, host |-> host]]

static_response(hosts, proto, path, code) ==
    [hosts |-> hosts, proto |-> proto, path |-> path, handle |-> [do |-> "status", code |-> code]]

RoutesOf(stack, index, gateway, route) ==
    LET modes == Modes(gateway, route)
        all == ToSet(route.hosts)
        proxied == IF route.canonical = Nothing THEN all ELSE {route.canonical}
        aliases == all \ proxied
        Serve(proto) ==
            (IF aliases # {} THEN <<redirect_route(aliases, proto, proto, route.canonical)>> ELSE <<>>)
            \o build_proxy_routes(stack, index, route, proxied, proto)
    IN  (IF modes.http = "redirect" THEN <<redirect_route(all, "http", "https", route.canonical)>> ELSE <<>>)
        \o (IF modes.tls = "serve" THEN Serve("https") ELSE <<>>)
        \o (IF modes.http = "serve" THEN Serve("http") ELSE <<>>)

\* Nothing as hosts, proto or path matches every request.
generate(order, routes) ==
    LET Stack(s) == FlattenSeq([i \in DOMAIN routes[s].routes |->
                                  RoutesOf(s, i, routes[s], routes[s].routes[i])])
        Served == SelectSeq(order, LAMBDA s : s \in DOMAIN routes)
    IN  [routes |-> FlattenSeq([n \in DOMAIN Served |-> Stack(Served[n])])
                    \o <<static_response(Nothing, Nothing, Nothing, 404)>>,
         skip |-> UNION {UNION {IF Modes(routes[s], routes[s].routes[i]).tls = "disabled"
                                THEN ToSet(routes[s].routes[i].hosts) ELSE {}
                                : i \in DOMAIN routes[s].routes} : s \in DOMAIN routes}]

\* config: the owner probe comes before the Stacks' routes.
config(order, routes) ==
    LET server == generate(order, routes)
    IN  [server EXCEPT !.routes = <<static_response(Nothing, "http", [kind |-> "exact", ignore_case |-> FALSE,
                                                     path |-> <<"gateway-owner">>], 200)>> \o @]

\* Mutant of config_with_deployment: the deployment routes follow the probe
\* and the Stacks' routes.
config_with_deploymentLast(order, routes, domain) ==
    LET server == config(order, routes)
        deploy == [kind |-> "prefix", ignore_case |-> FALSE, path |-> DeployPath]
    IN  [server EXCEPT
           !.routes = SubSeq(@, 1, Len(@) - 1) \o
              <<[hosts |-> IF domain = Nothing THEN Nothing ELSE {domain},
                 proto |-> IF domain = Nothing THEN "http" ELSE "https",
                 path |-> deploy, handle |-> [do |-> "deploy"]]>> \o <<@[Len(@)]>>,
           !.skip = @ \ {domain}]

\* The deployment routes come first, and answer everything under their path.
\* The deployment domain is taken out of the hosts without a certificate.
config_with_deployment(order, routes, domain) ==
    LET server == config(order, routes)
        deploy == [kind |-> "prefix", ignore_case |-> FALSE, path |-> DeployPath]
        denied == IF domain = Nothing THEN <<>> ELSE <<static_response(Nothing, "http", deploy, 403)>>
        proxy == [hosts |-> IF domain = Nothing THEN Nothing ELSE {domain},
                  proto |-> IF domain = Nothing THEN "http" ELSE "https",
                  path |-> deploy, handle |-> [do |-> "deploy"]]
    IN  [server EXCEPT !.routes = denied \o <<proxy, static_response(Nothing, Nothing, deploy, 404)>> \o @,
                       !.skip = @ \ {domain}]

(***************************************************************************)
(* Caddy.                                                                  *)
(***************************************************************************)
RequestMatches(route, request) ==
    /\ route.hosts = Nothing \/ \E h \in route.hosts : request.host \in Covers[h]
    /\ route.proto = Nothing \/ route.proto = request.proto
    /\ route.path = Nothing \/ PathMatches(route.path, request.path)

\* The handler of the first route that matches; the last one always does.
Response(server, request) ==
    server.routes[SelectInSeq(server.routes, LAMBDA route : RequestMatches(route, request))].handle

\* The request a client sends after a redirect.
Redirected(handle, request) ==
    [request EXCEPT !.proto = handle.proto, !.host = IF handle.host = Nothing THEN @ ELSE handle.host]

=============================================================================
