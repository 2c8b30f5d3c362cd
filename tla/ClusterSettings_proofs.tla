----------------------- MODULE ClusterSettings_proofs -----------------------
(***************************************************************************)
(* SettingsSound and GenerationTells, for any nodes, versions, options of  *)
(* serve, Stacks, updates and number of changes and faults.                *)
(*                                                                         *)
(* What the Controller hands out is what it committed, rendered with its   *)
(* options, so that the properties are about the database.  They must hold *)
(* of it while the Controller is down as well, and what a recovery imports *)
(* is what a Gateway was given: Sound and Apart are kept for the database  *)
(* and for the Gateways.  A report is never ahead of the database and, if  *)
(* it is level with it, belongs to the configuration the database renders, *)
(* with whatever options (Level); recovery resets the reports, because the *)
(* generation it imports may be older than what other Gateways have.       *)
(***************************************************************************)
EXTENDS ClusterSettings, TLAPS

KeyNames == {"interval", "initial", "max", "proxy", "image", "managed", "listen", "domain", "window"}

Sound(c) == DOMAIN c = KeyNames /\ c.initial <= c.max

Apart(routes) ==
    \A s, t \in DOMAIN routes : s # t => /\ Hostnames(routes[s]) \cap Hostnames(routes[t]) = {}
                                         /\ TcpPorts(routes[s]) \cap TcpPorts(routes[t]) = {}

Saved(d) ==
    /\ DOMAIN d = {"cluster", "stacks", "routes", "generation"}
    /\ d.generation \in Nat \ {0} /\ Sound(d.cluster) /\ Apart(d.routes)

Gave(g) ==
    /\ DOMAIN g = {"reports", "generation", "config", "routes", "image", "listen"}
    /\ g.reports \in Nat /\ g.generation \in Nat /\ Apart(g.routes)

Level(g, d) ==
    /\ g.reports <= d.generation
    /\ g.reports = d.generation => /\ \E o : g.config = rendered_gateway_config(d.cluster, d.routes, o)
                                   /\ g.routes = d.routes

SettingsInv ==
    /\ mem # Nothing => /\ mem = Loaded(disk, options)
                        /\ mem.cluster.managed => mem.cluster.image = version
    /\ mem # Nothing \/ disk # Nothing => Saved(disk) /\ \A n \in Nodes : Level(gateways[n], disk)
    /\ DOMAIN gateways = Nodes /\ \A n \in Nodes : Gave(gateways[n])
    /\ DOMAIN agents = Nodes /\ BackoffUsable

\* The invariant, spelt out for a running Controller.
LEMMA Running ==
  ASSUME SettingsInv, mem # Nothing
  PROVE  /\ mem.cluster = disk.cluster /\ mem.stacks = disk.stacks /\ mem.routes = disk.routes
         /\ mem.generation = disk.generation
         /\ mem.config = rendered_gateway_config(disk.cluster, disk.routes, options)
         /\ Saved(disk) /\ (mem.cluster.managed => mem.cluster.image = version)
  BY DEF SettingsInv, Loaded

\* What differs in the database is rendered differently, or the same, whatever
\* the options are.
LEMMA RenderedAlike ==
  ASSUME NEW c, NEW r, NEW d, NEW q, NEW o, NEW p,
         rendered_gateway_config(c, r, o) = rendered_gateway_config(d, q, o)
  PROVE  rendered_gateway_config(c, r, p) = rendered_gateway_config(d, q, p)
  BY DEF rendered_gateway_config

\* The options are one field of what is rendered.
LEMMA RenderedOptions ==
  ASSUME NEW c, NEW r, NEW o, NEW p,
         NEW f \in DOMAIN rendered_gateway_config(c, r, p) \ {"controller"}
  PROVE  rendered_gateway_config(c, r, o)[f] = rendered_gateway_config(c, r, p)[f]
  <1>1. f \in {"server", "listen", "window", "tcp"}
    BY DEF rendered_gateway_config
  <1>2. CASE f = "server"
    BY <1>2 DEF rendered_gateway_config
  <1>3. CASE f = "listen"
    BY <1>3 DEF rendered_gateway_config
  <1>4. CASE f = "window"
    BY <1>4 DEF rendered_gateway_config
  <1>5. CASE f = "tcp"
    BY <1>5 DEF rendered_gateway_config
  <1> QED  BY <1>1, <1>2, <1>3, <1>4, <1>5

\* A new cluster: nothing is stored or reported.
LEMMA InitSettings == Init => SettingsInv
  <1> SUFFICES ASSUME Init PROVE SettingsInv
    OBVIOUS
  <1> DEFINE c == Defaults(version)
  <1>1. DOMAIN c = KeyNames /\ c.initial = 1 /\ c.max = 2 /\ c.image = version
    BY DEF Defaults, KeyNames
  <1> HIDE DEF c
  <1>2. disk = [cluster |-> c, stacks |-> <<>>, routes |-> <<>>, generation |-> 1] /\ mem = Loaded(disk, options)
    BY DEF Init, c
  <1>3. Apart(<<>>)
    BY DEF Apart
  <1>4. Saved(disk) /\ disk.generation = 1 /\ disk.cluster = c
    BY <1>1, <1>2, <1>3 DEF Saved, Sound
  <1>5. /\ mem.cluster = c /\ mem.routes = <<>>
    BY <1>2 DEF Loaded
  <1>6. ASSUME NEW n \in Nodes PROVE Gave(gateways[n]) /\ Level(gateways[n], disk)
    <2>1. gateways[n] = [Given EXCEPT !.reports = 0, !.generation = 0]
      BY DEF Init
    <2>2. /\ DOMAIN gateways[n] = {"reports", "generation", "config", "routes", "image", "listen"}
          /\ gateways[n].reports = 0 /\ gateways[n].generation = 0 /\ gateways[n].routes = <<>>
      BY <2>1, <1>5 DEF Given
    <2> QED  BY <2>2, <1>3, <1>4 DEF Gave, Level
  <1>7. DOMAIN agents = Nodes /\ BackoffUsable
    BY <1>1, <1>2 DEF Init, BackoffUsable, Policy
  <1> QED  BY SMTT(30), <1>1, <1>2, <1>4, <1>5, <1>6, <1>7 DEF Init, SettingsInv

\* update_cluster_config: an image that is set is not managed any more, and one
\* that is unset is that of the version.
LEMMA Updated ==
  ASSUME NEW c, DOMAIN c = KeyNames, NEW u, "managed" \notin DOMAIN u.set \cup u.unset,
         c.managed => c.image = version
  PROVE  LET d == Set(Unset(c, u.unset, version), u.set)
         IN  DOMAIN d = KeyNames /\ (d.managed => d.image = version)
  <1> DEFINE b == Unset(c, u.unset, version)
             d == Set(b, u.set)
  <1>1. "managed" \in KeyNames /\ "image" \in KeyNames
    BY DEF KeyNames
  <1>2. Defaults(version)["managed"] = TRUE /\ Defaults(version)["image"] = version
    BY DEF Defaults
  <1>3. /\ DOMAIN b = KeyNames
        /\ b["managed"] = (IF "image" \in u.unset THEN TRUE ELSE c["managed"])
        /\ b["image"] = (IF "image" \in u.unset THEN version ELSE c["image"])
    BY Zenon, <1>1, <1>2 DEF Unset
  <1> HIDE DEF b
  <1>4. /\ DOMAIN d = KeyNames
        /\ d["managed"] = (IF "image" \in DOMAIN u.set THEN FALSE ELSE b["managed"])
        /\ "image" \notin DOMAIN u.set => d["image"] = b["image"]
    BY Zenon, <1>1, <1>3 DEF Set
  <1> HIDE DEF d
  <1>5. ASSUME d["managed"] PROVE d["image"] = version
    <2>1. "image" \notin DOMAIN u.set
      BY Zenon, <1>4, <1>5
    <2>2. CASE "image" \in u.unset
      BY SMTT(30), <1>3, <1>4, <2>1, <2>2
    <2>3. CASE "image" \notin u.unset
      BY <1>3, <1>4, <1>5, <2>1, <2>3
    <2> QED  BY <2>2, <2>3
  <1> QED  BY Zenon, <1>4, <1>5 DEF d, b

\* A commit: another configuration is another generation, so that no report is
\* level with it.
LEMMA CommitKeeps ==
  ASSUME SettingsInv, mem # Nothing, NEW cluster, NEW stacks, NEW routes, Commit(cluster, stacks, routes),
         Sound(cluster), cluster.managed => cluster.image = version, Apart(routes),
         UNCHANGED <<agents, gateways, version, options>>
  PROVE  SettingsInv'
  <1> DEFINE rendered == rendered_gateway_config(cluster, routes, options)
             generation == NextGeneration(rendered, routes)
  <1>1. disk' = [cluster |-> cluster, stacks |-> stacks, routes |-> routes, generation |-> generation]
        /\ mem' = Loaded(disk', options)
    BY DEF Commit
  <1>2. /\ mem.generation \in Nat \ {0} /\ mem.generation = disk.generation /\ mem.routes = disk.routes
        /\ mem.config = rendered_gateway_config(disk.cluster, disk.routes, options)
    BY Running DEF Saved
  <1>3. \/ generation = disk.generation + 1
        \/ generation = disk.generation /\ rendered = mem.config /\ routes = mem.routes
    BY <1>2 DEF NextGeneration
  <1>4. generation \in Nat \ {0}
    BY <1>2, <1>3
  <1> HIDE DEF generation
  <1>5. Saved(disk')
    BY <1>1, <1>4 DEF Saved
  <1>6. \A n \in Nodes : Level(gateways[n], disk')
    <2> SUFFICES ASSUME NEW n \in Nodes PROVE Level(gateways[n], disk')
      OBVIOUS
    <2>1. Level(gateways[n], disk) /\ gateways[n].reports \in Nat /\ disk.generation \in Nat
      BY Running, <1>2 DEF SettingsInv, Gave
    <2>2. disk'.generation = generation /\ disk'.cluster = cluster /\ disk'.routes = routes
      BY <1>1
    <2>3. CASE generation = disk.generation + 1
      <3>1. gateways[n].reports <= disk.generation
        BY <2>1 DEF Level
      <3>2. gateways[n].reports <= generation /\ gateways[n].reports # generation
        BY SMTT(30), <2>1, <2>3, <3>1
      <3> QED  BY <2>2, <3>2 DEF Level
    <2>4. CASE generation = disk.generation /\ rendered = mem.config /\ routes = mem.routes
      <3>1. \A o : rendered_gateway_config(cluster, routes, o) = rendered_gateway_config(disk.cluster, disk.routes, o)
        BY <1>2, <2>4, RenderedAlike
      <3> HIDE DEF rendered
      <3> QED  BY <1>2, <2>1, <2>2, <2>4, <3>1 DEF Level
    <2> QED  BY <1>3, <2>3, <2>4
  <1>7. mem'.cluster = cluster
    BY <1>1 DEF Loaded
  <1> QED  BY SMTT(30), <1>1, <1>5, <1>6, <1>7 DEF SettingsInv, BackoffUsable, Level, Gave

\* A commit that fails changes nothing.
LEMMA FailureKeeps ==
  ASSUME SettingsInv, UNCHANGED <<mem, disk, agents, gateways, version, options>>
  PROVE  SettingsInv'
  BY DEF SettingsInv, Saved, Level, Gave, BackoffUsable

\* A Stack that is routed shares no name with any other that is.
LEMMA ApplyKeeps == ASSUME SettingsInv, NEW stack, NEW gateway, Apply(stack, gateway) PROVE SettingsInv'
  <1> DEFINE routes == Routed(mem.routes, stack, gateway)
             stacks == [s \in DOMAIN mem.stacks \union {stack} |-> IF s = stack THEN gateway ELSE mem.stacks[s]]
  <1>1. /\ mem # Nothing /\ UNCHANGED <<agents, gateways, version, options>>
        /\ Commit(mem.cluster, stacks, routes) \/ UNCHANGED <<mem, disk>>
    BY DEF Apply, Changes, CommitFails
  <1>2. /\ Sound(mem.cluster) /\ (mem.cluster.managed => mem.cluster.image = version) /\ Apart(mem.routes)
    BY SMTT(30), <1>1, Running DEF Saved
  <1>3. \A s \in DOMAIN mem.routes \ {stack} :
           /\ Hostnames(mem.routes[s]) \cap Hostnames(gateway) = {}
           /\ TcpPorts(mem.routes[s]) \cap TcpPorts(gateway) = {}
    BY DEF Apply, validate_apply_locked, validate_gateway_hostname_ownership, Owners
  <1>4. \A s \in DOMAIN routes : \/ s = stack /\ routes[s] = gateway
                                 \/ s # stack /\ s \in DOMAIN mem.routes /\ routes[s] = mem.routes[s]
    BY DEF Routed
  <1> HIDE DEF routes, stacks
  <1>5. Apart(routes)
    BY <1>2, <1>3, <1>4 DEF Apart
  <1>6. CASE Commit(mem.cluster, stacks, routes)
    BY <1>1, <1>2, <1>5, <1>6, CommitKeeps
  <1>7. CASE UNCHANGED <<mem, disk>>
    BY SMTT(30), <1>1, <1>7, FailureKeeps
  <1> QED  BY SMTT(30), <1>1, <1>6, <1>7

\* update_cluster_config validates the merged settings before it commits them.
LEMMA UpdateKeeps ==
  ASSUME SettingsInv, NEW u \in Updates \cup CliUpdates, update_cluster_config(u) PROVE SettingsInv'
  <1> DEFINE cluster == Set(Unset(mem.cluster, u.unset, version), u.set)
  <1>1. /\ mem # Nothing /\ UNCHANGED <<agents, gateways, version, options>> /\ Valid(cluster)
        /\ Commit(cluster, mem.stacks, mem.routes) \/ UNCHANGED <<mem, disk>>
    BY Zenon DEF update_cluster_config, Changes, CommitFails
  <1>2. DOMAIN mem.cluster = KeyNames /\ (mem.cluster.managed => mem.cluster.image = version) /\ Apart(mem.routes)
    BY SMTT(30), <1>1, Running DEF Saved, Sound
  <1>3. DOMAIN cluster = KeyNames /\ (cluster.managed => cluster.image = version)
    BY SMTT(30), <1>2, Updated, ManagedIsNoKey
  <1> HIDE DEF cluster
  <1>4. Sound(cluster)
    BY <1>1, <1>3 DEF Sound, Valid
  <1>5. CASE Commit(cluster, mem.stacks, mem.routes)
    BY SMTT(30), <1>1, <1>2, <1>3, <1>4, <1>5, CommitKeeps
  <1>6. CASE UNCHANGED <<mem, disk>>
    BY SMTT(30), <1>1, <1>6, FailureKeeps
  <1> QED  BY <1>1, <1>5, <1>6

\* heartbeat: an Agent gets what was committed, and reports what it applied of it.
LEMMA HeartbeatKeeps == ASSUME SettingsInv, NEW n \in Nodes, heartbeat(n) PROVE SettingsInv'
  <1>1. mem # Nothing /\ UNCHANGED <<mem, disk, version, options>>
    BY DEF heartbeat, Stale
  <1>2. /\ mem.cluster = disk.cluster /\ mem.routes = disk.routes /\ mem.generation = disk.generation
        /\ mem.config = rendered_gateway_config(disk.cluster, disk.routes, options) /\ Saved(disk)
    BY <1>1, Running
  <1>3. /\ DOMAIN gateways' = Nodes /\ gateways'[n] = Given /\ \A m \in Nodes \ {n} : gateways'[m] = gateways[m]
        /\ DOMAIN agents' = Nodes /\ agents'[n] = Policy(mem.cluster) /\ \A m \in Nodes \ {n} : agents'[m] = agents[m]
    BY DEF heartbeat, SettingsInv
  <1>4. Gave(Given)
    BY <1>2 DEF Gave, Given, Saved
  <1>5. Level(Given, disk)
    BY SMTT(30), <1>2 DEF Level, Given, Saved
  <1>6. Policy(mem.cluster).initial <= Policy(mem.cluster).max
    BY <1>2 DEF Policy, Saved, Sound
  <1>7. \A m \in Nodes : Gave(gateways'[m]) /\ Level(gateways'[m], disk)
    BY <1>1, <1>3, <1>4, <1>5 DEF SettingsInv
  <1>8. \A m \in Nodes : agents'[m].initial <= agents'[m].max
    BY SMTT(30), <1>3, <1>6 DEF SettingsInv, BackoffUsable
  <1> HIDE DEF Given, Policy
  <1> QED  BY <1>1, <1>3, <1>7, <1>8 DEF SettingsInv, BackoffUsable, Level, Gave, Saved

\* Controller::new: another image is another generation.
LEMMA StartKeeps == ASSUME SettingsInv, NEW v, NEW serve, Start(v, serve) PROVE SettingsInv'
  <1> DEFINE cluster == refresh_managed_gateway_image(disk.cluster, v)
             generation == IF cluster # disk.cluster THEN disk.generation + 1 ELSE disk.generation
  <1>1. /\ Saved(disk) /\ disk # Nothing /\ version' = v /\ options' = serve /\ UNCHANGED <<agents, gateways>>
        /\ mem' = Loaded(disk', serve)
    BY DEF Start, SettingsInv
  <1>2. /\ DOMAIN disk' = {"cluster", "stacks", "routes", "generation"} /\ disk'.cluster = cluster
        /\ disk'.routes = disk.routes /\ disk'.generation = generation
    BY <1>1 DEF Start, Saved
  <1>3. Sound(cluster) /\ (cluster.managed => cluster.image = v)
    <2>1. Sound(disk.cluster)
      BY <1>1 DEF Saved
    <2>2. CASE disk.cluster.managed
      BY <2>1, <2>2 DEF refresh_managed_gateway_image, Sound, KeyNames
    <2>3. CASE ~disk.cluster.managed
      BY <2>1, <2>3 DEF refresh_managed_gateway_image
    <2> QED  BY <2>2, <2>3
  <1> HIDE DEF cluster
  <1>4. generation \in Nat \ {0} /\ generation >= disk.generation /\ disk.generation \in Nat
        /\ (generation = disk.generation => cluster = disk.cluster)
    BY <1>1 DEF Saved
  <1> HIDE DEF generation
  <1>5. Saved(disk')
    BY <1>1, <1>2, <1>3, <1>4 DEF Saved
  <1>6. \A n \in Nodes : Level(gateways[n], disk')
    <2> SUFFICES ASSUME NEW n \in Nodes PROVE Level(gateways[n], disk')
      OBVIOUS
    <2>1. Level(gateways[n], disk) /\ gateways[n].reports \in Nat
      BY <1>1 DEF SettingsInv, Gave
    <2>2. gateways[n].reports <= disk.generation
      BY <2>1 DEF Level
    <2>3. gateways[n].reports <= generation /\ (gateways[n].reports = generation => generation = disk.generation)
      BY SMTT(30), <1>4, <2>1, <2>2
    <2> QED  BY <1>2, <1>4, <2>1, <2>3 DEF Level
  <1>7. mem'.cluster = cluster
    BY <1>1, <1>2 DEF Loaded
  <1> QED  BY <1>1, <1>3, <1>5, <1>6, <1>7 DEF SettingsInv, BackoffUsable, Level, Gave

\* init --recover: the generation may be an old one, and nobody has reported yet.
LEMMA RecoverKeeps == ASSUME SettingsInv, NEW n \in Nodes, NEW v, Recover(n, v) PROVE SettingsInv'
  <1> DEFINE c == [Defaults(v) EXCEPT !.listen = gateways[n].listen, !.image = gateways[n].image, !.managed = FALSE]
  <1>1. /\ mem = Nothing /\ UNCHANGED <<mem, agents>> /\ Gave(gateways[n]) /\ gateways[n].generation > 0
        /\ disk' = [cluster |-> c, stacks |-> <<>>, routes |-> gateways[n].routes, generation |-> gateways[n].generation]
        /\ gateways' = [m \in Nodes |-> [gateways[m] EXCEPT !.reports = 0]]
    BY DEF Recover, SettingsInv
  <1>2. DOMAIN c = KeyNames /\ c.initial = 1 /\ c.max = 2
    BY DEF Defaults, KeyNames
  <1> HIDE DEF c
  <1>3. Saved(disk') /\ disk'.generation > 0 /\ disk'.generation \in Nat
    BY <1>1, <1>2 DEF Saved, Sound, Gave
  <1>4. ASSUME NEW m \in Nodes PROVE Gave(gateways'[m]) /\ gateways'[m].reports = 0
    <2>1. Gave(gateways[m]) /\ gateways'[m] = [gateways[m] EXCEPT !.reports = 0]
      BY <1>1 DEF SettingsInv
    <2> QED  BY <2>1 DEF Gave
  <1>5. \A m \in Nodes : Level(gateways'[m], disk')
    BY <1>3, <1>4 DEF Level
  <1>6. DOMAIN gateways' = Nodes
    BY <1>1
  <1> QED  BY <1>1, <1>3, <1>4, <1>5, <1>6 DEF SettingsInv, BackoffUsable, Level, Gave, Saved

\* Every step preserves the invariant.
LEMMA NextSettings == SettingsInv /\ [Next]_vars => SettingsInv'
  <1> SUFFICES ASSUME SettingsInv, [Next]_vars PROVE SettingsInv'
    OBVIOUS
  <1>1. CASE UNCHANGED vars
    BY <1>1, FailureKeeps DEF vars
  <1>2. CASE \E u \in Updates : update_cluster_config(u)
    BY <1>2, UpdateKeeps
  <1>3. CASE \E u \in CliUpdates : ConfigCommand(u)
    BY <1>3, UpdateKeeps DEF ConfigCommand
  <1>4. CASE \E s \in Stacks, spec \in Specs : deploy(s, spec)
    BY <1>4, ApplyKeeps DEF deploy
  <1>5. CASE \E s \in Stacks : remove_stack(s)
    BY SMTT(30), <1>5, ApplyKeeps DEF remove_stack
  <1>6. CASE \E n \in Nodes : heartbeat(n)
    BY SMTT(30), <1>6, HeartbeatKeeps
  <1>7. CASE Stop
    BY SMTT(30), <1>7 DEF Stop, SettingsInv, Saved, Level, Gave, BackoffUsable
  <1>8. CASE LoseDisk
    BY <1>8 DEF LoseDisk, SettingsInv, Gave, BackoffUsable
  <1>9. CASE \E v \in Versions, serve \in Options : Start(v, serve)
    BY SMTT(30), <1>9, StartKeeps
  <1>10. CASE \E n \in Nodes, v \in Versions : Recover(n, v)
    BY <1>10, RecoverKeeps
  <1> QED  BY <1>1, <1>2, <1>3, <1>4, <1>5, <1>6, <1>7, <1>8, <1>9, <1>10 DEF Next

\* The invariant holds throughout.
LEMMA SpecSettings == Spec => []SettingsInv
  BY InitSettings, NextSettings, PTL DEF Spec

\* In whatever order settings, Stacks and versions change, and however often the
\* Controller stops, fails to commit or is recovered: no name is routed by two
\* Stacks, no Agent backs off beyond its maximum, and a Gateway image nobody
\* chose is that of the version.
THEOREM SettingsFit == Spec => []SettingsSound
  <1>1. SettingsInv => SettingsSound
    <2> SUFFICES ASSUME SettingsInv PROVE SettingsSound
      BY SMTT(30)
    <2>1. RoutesOwned
      BY Running DEF RoutesOwned, Saved, Apart
    <2>2. BackoffUsable
      BY DEF SettingsInv
    <2>3. ManagedFollows
      BY DEF SettingsInv, ManagedFollows
    <2> QED  BY SMTT(30), <2>1, <2>2, <2>3 DEF SettingsSound
  <1> QED  BY <1>1, SpecSettings, PTL

\* next_gateway_snapshot: a Gateway that reports the desired generation runs the
\* desired routes and all of the desired configuration that is stored, also
\* across restarts at other versions and with other options of serve, failed
\* commits and recoveries from an old Gateway.
THEOREM GenerationsTell == Spec => []GenerationTells
  <1>1. SettingsInv => GenerationTells
    <2> SUFFICES ASSUME SettingsInv, mem # Nothing, NEW n \in Nodes, gateways[n].reports = mem.generation
                 PROVE  /\ \A f \in DOMAIN mem.config \ {"controller"} : gateways[n].config[f] = mem.config[f]
                        /\ gateways[n].routes = mem.routes
      BY DEF GenerationTells
    <2>1. /\ Level(gateways[n], disk) /\ mem.generation = disk.generation /\ mem.routes = disk.routes
          /\ mem.config = rendered_gateway_config(disk.cluster, disk.routes, options)
      BY Running DEF SettingsInv
    <2>2. PICK o : gateways[n].config = rendered_gateway_config(disk.cluster, disk.routes, o)
      BY <2>1 DEF Level
    <2>3. gateways[n].routes = mem.routes
      BY <2>1 DEF Level
    <2>4. \A f \in DOMAIN mem.config \ {"controller"} : gateways[n].config[f] = mem.config[f]
      BY <2>1, <2>2, RenderedOptions
    <2> QED  BY <2>3, <2>4
  <1> QED  BY <1>1, SpecSettings, PTL
=============================================================================
