-------------------------- MODULE ClusterSettings --------------------------
(***************************************************************************)
(* The cluster's settings and the routes of its Stacks, from the commands  *)
(* that change them to the Agents and Gateways that use them: `config set` *)
(* and `config unset`, the update endpoint of the Controller, deployments  *)
(* and removals of Stacks, heartbeats, commits that fail, a Controller     *)
(* that stops and starts again, at another version perhaps, and recovery   *)
(* of a lost database from the snapshot a Gateway keeps.                   *)
(*                                                                         *)
(* Of the keys, those remain that differ in how they are checked or in     *)
(* what they reach: interval (of the image prune) and the initial and      *)
(* maximum backoff of image pulls go to the Agents, proxy to the image     *)
(* registry, and image, listen, domain and window (of the response cache)  *)
(* to the Gateways.  A listener is its port.  A heartbeat here ends with   *)
(* the Gateway applied: GatewayRuntime has the steps in between.           *)
(***************************************************************************)
EXTENDS GatewayConfig

CONSTANTS Nodes, Versions, Order,   \* Order: the Stacks by name
          Options,                  \* of serve: the advertised address and the deployment port
          Specs,                    \* the gateways and Services Stacks are deployed with
          Updates,                  \* what the update endpoint is sent
          CliUpdates,               \* the same, of one key, from config set and unset
          MaxDuration, MaxChanges, MaxFaults,
          Hosts, Paths              \* of the requests the properties look at

\* ClusterConfigUpdate has no field for managed_image.
ASSUME ManagedIsNoKey == \A u \in Updates \union CliUpdates : "managed" \notin DOMAIN u.set \union u.unset

VARIABLES mem,       \* the running Controller: settings, stacks, routes, gateway, its generation
          disk,      \* what it committed
          registry,  \* the proxy its image registry uses
          agents,    \* node |-> the policies its Agent follows
          gateways,  \* node |-> what its Gateway was last given, and reports
          version, options, \* of the Controller that runs, or ran last
          changes, faults

vars == <<mem, disk, registry, agents, gateways, version, options, changes, faults>>

Stacks == ToSet(Order)
NoUpdate == [set |-> <<>>, unset |-> {}]

(***************************************************************************)
(* Settings.                                                               *)
(***************************************************************************)
\* ClusterSettings::default, of a version.
Defaults(v) == [interval |-> 2, initial |-> 1, max |-> 2, proxy |-> Nothing, image |-> v, managed |-> TRUE,
                listen |-> {80, 443}, domain |-> Nothing, window |-> Nothing]

\* An exact name: neither a wildcard nor an address.
normalize_deploy_domain(name) ==
    IF name \in DOMAIN Lower /\ name \notin Wildcards THEN Lower[name] ELSE Nothing

valid_gateway_image(image) == image # ""
image_proxy_config(proxy) == proxy # ""
parse_config_u64(value, low, high) == value \in low..high

\* config_set_update: what the command refuses before it asks the Controller.
CliAccepts(u) ==
    /\ "interval" \in DOMAIN u.set => u.set.interval >= 1
    /\ "image" \in DOMAIN u.set => valid_gateway_image(u.set.image)
    /\ "proxy" \in DOMAIN u.set => image_proxy_config(u.set.proxy)
    /\ "domain" \in DOMAIN u.set => normalize_deploy_domain(u.set.domain) # Nothing
    /\ "window" \in DOMAIN u.set => parse_config_u64(u.set.window, 1, MaxDuration)
    /\ "listen" \in DOMAIN u.set => u.set.listen # {} /\ u.set.listen \cap 2019..2021 = {}

\* Without its image, a Gateway follows the version again.
Unset(cluster, unset, v) ==
    [k \in DOMAIN cluster |->
       IF k \in unset \/ (k = "managed" /\ "image" \in unset) THEN Defaults(v)[k] ELSE cluster[k]]

Set(cluster, set) ==
    [k \in DOMAIN cluster |->
       IF k = "managed" /\ "image" \in DOMAIN set THEN FALSE
       ELSE IF k \notin DOMAIN set THEN cluster[k]
       ELSE IF k = "domain" THEN normalize_deploy_domain(set[k]) ELSE set[k]]

\* Mutant of Valid: each key by itself.
ValidKeys(cluster) ==
    /\ cluster.listen # {} /\ cluster.interval > 0 /\ image_proxy_config(cluster.proxy)
    /\ cluster.window # Nothing => cluster.window \in 1..MaxDuration

\* The settings an update ends with.
Valid(cluster) ==
    /\ cluster.listen # {} /\ cluster.interval > 0 /\ image_proxy_config(cluster.proxy)
    /\ cluster.window # Nothing => cluster.window \in 1..MaxDuration
    /\ cluster.initial <= cluster.max

ConflictsWithUnset(u) == DOMAIN u.set \cap u.unset # {}

\* What is refused for itself, whatever the settings are.
WellFormed(u) ==
    /\ u # NoUpdate /\ ~ ConflictsWithUnset(u)
    /\ "image" \in DOMAIN u.set => valid_gateway_image(u.set.image)
    /\ "domain" \in DOMAIN u.set => normalize_deploy_domain(u.set.domain) # Nothing

(***************************************************************************)
(* Rendering and committing.                                               *)
(***************************************************************************)
\* The Gateways reach the Controller's storage and its deployment API where the
\* options of serve have them; nothing of those is stored.
rendered_gateway_config(cluster, routes, serve) ==
    [server |-> config_with_deployment(Order, routes, cluster.domain), controller |-> serve,
     listen |-> cluster.listen, window |-> cluster.window, tcp |-> UNION {TcpPorts(routes[s]) : s \in DOMAIN routes}]

\* Mutant of NextGeneration: only the routes are compared.
NextGenerationRoutes(rendered, routes) ==
    IF routes = mem.routes THEN mem.generation ELSE mem.generation + 1

\* next_gateway_snapshot.
NextGeneration(rendered, routes) ==
    IF rendered = mem.config /\ routes = mem.routes THEN mem.generation ELSE mem.generation + 1

Loaded(d, serve) ==
    [cluster |-> d.cluster, stacks |-> d.stacks, routes |-> d.routes, generation |-> d.generation,
     config |-> rendered_gateway_config(d.cluster, d.routes, serve)]

\* commit_locked: the database first, then what the heartbeats hand out.
Commit(cluster, stacks, routes) ==
    LET rendered == rendered_gateway_config(cluster, routes, options)
        next == [cluster |-> cluster, stacks |-> stacks, routes |-> routes,
                 generation |-> NextGeneration(rendered, routes)]
    IN  disk' = next /\ mem' = Loaded(next, options)

\* The commit fails, and the settings or the state are restored.
CommitFails == faults < MaxFaults /\ faults' = faults + 1 /\ UNCHANGED <<mem, disk>>

Changes == mem # Nothing /\ changes < MaxChanges /\ changes' = changes + 1

(***************************************************************************)
(* update_cluster_config and the command.                                  *)
(***************************************************************************)
\* Mutant of SetProxy: the registry is told before the commit.
SetProxyFirst(cluster, committed) == registry' = cluster.proxy

\* The registry is told after the commit.
SetProxy(cluster, committed) == registry' = IF committed THEN cluster.proxy ELSE registry

update_cluster_config(u) ==
    LET cluster == Set(Unset(mem.cluster, u.unset, version), u.set)
    IN  /\ Changes /\ WellFormed(u) /\ Valid(cluster) /\ cluster # mem.cluster
        /\ \/ Commit(cluster, mem.stacks, mem.routes) /\ SetProxy(cluster, TRUE) /\ UNCHANGED faults
           \/ CommitFails /\ SetProxy(cluster, FALSE)
        /\ UNCHANGED <<agents, gateways, version, options>>

ConfigCommand(u) == CliAccepts(u) /\ update_cluster_config(u)

(***************************************************************************)
(* Stacks.                                                                 *)
(***************************************************************************)
\* Mutant of Owners: only the Stacks deployed since the database began.
OwnersDeployed(stack) == {mem.stacks[s] : s \in DOMAIN mem.stacks \ {stack}}

\* A desired Stack and a served fragment both own their names.
Owners(stack) ==
    {mem.stacks[s] : s \in DOMAIN mem.stacks \ {stack}} \union
    {mem.routes[s] : s \in DOMAIN mem.routes \ {stack}}

validate_gateway_hostname_ownership(stack, gateway) ==
    \A other \in Owners(stack) : /\ Hostnames(other) \cap Hostnames(gateway) = {}
                                 /\ TcpPorts(other) \cap TcpPorts(gateway) = {}

validate_apply_locked(stack, gateway) ==
    /\ validate_gateway_hostname_ownership(stack, gateway)
    /\ TcpPorts(gateway) \cap mem.cluster.listen = {}

\* replace_stack_route.
Routed(routes, stack, gateway) ==
    [s \in IF has_routes(gateway) THEN DOMAIN routes \union {stack} ELSE DOMAIN routes \ {stack} |->
       IF s = stack THEN gateway ELSE routes[s]]

Apply(stack, gateway) ==
    /\ Changes /\ validate_apply_locked(stack, gateway)
    /\ \/ /\ Commit(mem.cluster, [s \in DOMAIN mem.stacks \union {stack} |->
                                    IF s = stack THEN gateway ELSE mem.stacks[s]],
                    Routed(mem.routes, stack, gateway))
          /\ UNCHANGED faults
       \/ CommitFails
    /\ UNCHANGED <<registry, agents, gateways, version, options>>

deploy(stack, spec) ==
    /\ Accepted(spec.gateway, spec.services)
    /\ Apply(stack, validate_and_normalize(spec.gateway, spec.services))

NoRoutes == [tls |-> "serve", http |-> "redirect", routes |-> <<>>, tcp |-> <<>>]

\* stack_is_active: a Stack that is only served, after a recovery, can be removed too.
remove_stack(stack) ==
    /\ mem # Nothing
    /\ stack \in DOMAIN mem.routes \union {s \in DOMAIN mem.stacks : has_routes(mem.stacks[s])}
    /\ Apply(stack, NoRoutes)

(***************************************************************************)
(* Heartbeats, restarts and recovery.                                      *)
(***************************************************************************)
Policy(cluster) == [interval |-> cluster.interval, initial |-> cluster.initial, max |-> cluster.max]

Given == [reports |-> mem.generation, generation |-> mem.generation, config |-> mem.config,
          routes |-> mem.routes, image |-> mem.cluster.image, listen |-> mem.cluster.listen]

Stale(n) == mem # Nothing /\ (agents[n] # Policy(mem.cluster) \/ gateways[n] # Given)

heartbeat(n) ==
    /\ Stale(n)
    /\ agents' = [agents EXCEPT ![n] = Policy(mem.cluster)]
    /\ gateways' = [gateways EXCEPT ![n] = Given]
    /\ UNCHANGED <<mem, disk, registry, version, options, changes, faults>>

Stop == /\ mem # Nothing /\ faults < MaxFaults /\ faults' = faults + 1
        /\ mem' = Nothing
        /\ UNCHANGED <<disk, registry, agents, gateways, version, options, changes>>

\* Mutant of refresh_managed_gateway_image: the image of the first start stays.
refresh_managed_gateway_imageNever(cluster, v) == cluster

refresh_managed_gateway_image(cluster, v) ==
    IF cluster.managed THEN [cluster EXCEPT !.image = v] ELSE cluster

\* Controller::new: another image is another generation; other options of serve,
\* which are rendered as well, are not.
Start(v, serve) ==
    LET cluster == refresh_managed_gateway_image(disk.cluster, v)
        next == [disk EXCEPT !.cluster = cluster,
                             !.generation = IF cluster # disk.cluster THEN @ + 1 ELSE @]
    IN  /\ mem = Nothing /\ disk # Nothing
        /\ disk' = next /\ mem' = Loaded(next, serve)
        /\ registry' = cluster.proxy /\ version' = v /\ options' = serve
        /\ UNCHANGED <<agents, gateways, changes, faults>>

LoseDisk == /\ disk # Nothing /\ mem = Nothing /\ faults < MaxFaults /\ faults' = faults + 1
            /\ disk' = Nothing
            /\ UNCHANGED <<mem, registry, agents, gateways, version, options, changes>>

\* init --recover on n's machine, at the version v: recover_gateway_config and
\* the import of the snapshot.  The nodes join again, with reports of their own.
Recover(n, v) ==
    /\ mem = Nothing /\ disk = Nothing /\ gateways[n].generation > 0
    /\ disk' = [cluster |-> [Defaults(v) EXCEPT !.listen = gateways[n].listen, !.image = gateways[n].image,
                                                !.managed = FALSE],
                stacks |-> <<>>, routes |-> gateways[n].routes, generation |-> gateways[n].generation]
    /\ version' = v
    /\ gateways' = [m \in Nodes |-> [gateways[m] EXCEPT !.reports = 0]]
    /\ UNCHANGED <<mem, registry, agents, options, changes, faults>>

(***************************************************************************)
(* The specification.                                                      *)
(***************************************************************************)
Init ==
    /\ version = CHOOSE v \in Versions : TRUE
    /\ options = CHOOSE o \in Options : TRUE
    /\ disk = [cluster |-> Defaults(version), stacks |-> <<>>, routes |-> <<>>, generation |-> 1]
    /\ mem = Loaded(disk, options) /\ registry = Nothing
    /\ agents = [n \in Nodes |-> Policy(disk.cluster)]
    /\ gateways = [n \in Nodes |-> [Given EXCEPT !.reports = 0, !.generation = 0]]
    /\ changes = 0 /\ faults = 0

Next ==
    \/ \E u \in Updates : update_cluster_config(u)
    \/ \E u \in CliUpdates : ConfigCommand(u)
    \/ \E s \in Stacks, spec \in Specs : deploy(s, spec)
    \/ \E s \in Stacks : remove_stack(s)
    \/ \E n \in Nodes : heartbeat(n)
    \/ Stop \/ LoseDisk
    \/ \E v \in Versions, serve \in Options : Start(v, serve)
    \/ \E n \in Nodes, v \in Versions : Recover(n, v)

Spec == Init /\ [][Next]_vars

\* Agents heartbeat forever, the service manager starts a Controller that
\* stopped, and the operator recovers one that lost its database: each is done,
\* or has nothing to do, again and again.
Told(n) == agents'[n] # agents[n] \/ gateways'[n] # gateways[n]
FairSpec == /\ Spec
            /\ \A n \in Nodes : []<>~ Stale(n) \/ []<><<Told(n)>>_vars
            /\ []<>(mem # Nothing \/ disk = Nothing)
            /\ []<>(disk # Nothing \/ \A n \in Nodes : gateways[n].generation = 0)

(***************************************************************************)
(* Properties.                                                             *)
(***************************************************************************)
Requests == [host : Hosts, proto : {"http", "https"}, path : Paths]
Answer(request) == Response(mem.config.server, request)

\* docs/applications.md: exact path, longest prefix, regex, no matches.
Precedes(m, l) ==
    CASE m.kind = "exact" -> l.kind # "exact"
      [] m.kind = "prefix" -> l.kind \in {"regex", "any"} \/ (l.kind = "prefix" /\ Len(m.path) > Len(l.path))
      [] m.kind = "regex" -> l.kind = "any"
      [] m.kind = "any" -> FALSE

MatchOf(rules, e) == IF e[2] = 0 THEN [kind |-> "any"] ELSE rules[e[1]].matches[e[2]]

\* A request is proxied by the rule of its route that comes first by the
\* documented precedence among those that match its path, in whatever order
\* the Stack's file has them: build_proxy_routes sorts the matches of all rules,
\* and Caddy serves the first.
RulePrecedence ==
    mem # Nothing => \A request \in Requests :
        Answer(request).do = "proxy" =>
            LET handle == Answer(request)
                rules == mem.routes[handle.stack].routes[handle.route].rules
            IN  ~ \E e \in Expanded(rules) :
                    /\ Precedes(MatchOf(rules, e), MatchOf(rules, <<handle.rule, handle.match>>))
                    /\ e[2] = 0 \/ PathMatches(MatchOf(rules, e), request.path)

\* Whatever the Stacks route, requests under /v1/deploy never reach one: they
\* reach the deployment API over HTTPS at the deployment domain when there is
\* one, which then gets its certificate even if a Stack serves the same host
\* without TLS, and over HTTP when there is none (config_with_deployment).
DeployReserved ==
    mem # Nothing => LET domain == mem.cluster.domain IN
        /\ \A request \in Requests :
             (Len(request.path) >= 2 /\ SubSeq(request.path, 1, 2) = DeployPath) =>
                /\ Answer(request).do \in {"deploy", "status"}
                /\ Answer(request).do = "deploy" <=>
                     IF domain = Nothing THEN request.proto = "http"
                     ELSE request.proto = "https" /\ request.host \in Covers[domain]
        /\ domain \notin mem.config.server.skip

\* A request gets what the precedence of rules and the reserved paths promise.
RequestsServed == RulePrecedence /\ DeployReserved

\* No hostname and no TCP port is routed by two Stacks, also when the routes
\* of one were imported by a recovery and its Stack was not deployed again
\* (validate_gateway_hostname_ownership).
RoutesOwned ==
    mem # Nothing => \A s, t \in DOMAIN mem.routes : s # t =>
        /\ Hostnames(mem.routes[s]) \cap Hostnames(mem.routes[t]) = {}
        /\ TcpPorts(mem.routes[s]) \cap TcpPorts(mem.routes[t]) = {}

\* The backoff an Agent follows never starts above its maximum, whichever keys
\* were set and unset in whichever order (update_cluster_config checks the
\* settings it ends with).
BackoffUsable == \A n \in Nodes : agents[n].initial <= agents[n].max

\* The Gateway image that nobody chose is the one of the Controller's version,
\* after any upgrades, updates and recoveries (managed_image and
\* refresh_managed_gateway_image).
ManagedFollows == mem # Nothing /\ mem.cluster.managed => mem.cluster.image = version

\* In whatever order settings, Stacks and versions change, what the Controller
\* hands out fits together.
SettingsSound == RoutesOwned /\ BackoffUsable /\ ManagedFollows

\* A Gateway that reports the desired generation runs the desired routes, and
\* the desired configuration as far as it is stored: what deployments, drains
\* and `gateway status` take the generation for (next_gateway_snapshot).  What
\* the options of serve add to the configuration has no part in the generation:
\* after a restart with others, a Gateway keeps the former ones until its next
\* heartbeat (SettingsReach), and its report does not show it.
GenerationTells ==
    mem # Nothing => \A n \in Nodes :
        gateways[n].reports = mem.generation =>
            /\ \A f \in DOMAIN mem.config \ {"controller"} : gateways[n].config[f] = mem.config[f]
            /\ gateways[n].routes = mem.routes

Settled == mem # Nothing => /\ registry = mem.cluster.proxy
                            /\ \A n \in Nodes : ~ Stale(n)

\* Agents, Gateways and the image registry come to use the settings and routes
\* of the Controller, also after updates whose commit failed (SetProxy,
\* heartbeat).
SettingsReach == []<>Settled

\* A redirect leads to the host that serves: following it once ends the
\* redirects ("redirects_aliases_to_the_canonical_hostname_in_one_hop").
OneHop ==
    mem # Nothing => \A request \in Requests :
        Answer(request).do = "redirect" => Answer(Redirected(Answer(request), request)).do # "redirect"

=============================================================================
