------------------------------ MODULE MCStores ------------------------------
(***************************************************************************)
(* Six components side by side, each with its own variables and checked    *)
(* for safety: in a behaviour only the one that `part` names takes steps,  *)
(* and the others stay as they start, or have no state at all.             *)
(***************************************************************************)
EXTENDS KvLocks, TLC

CONSTANTS o1, o2, l1,         \* owners and a lock
          t1, g1, g2,         \* a task, Gateways
          c1, e1, e2,         \* a client, network interfaces
          d1, d2, m1, m2,     \* digests, machines
          none

\* Two owners compete for one lock name.
NamesMC == {l1}
OwnersMC == {o1, o2}
LeaseMC == o1 :> 2 @@ o2 :> 1

VARIABLES part,
          routes, generation, draining, drained, reports, sent, control, applying, caddy, report,
          objects, modified, stats,
          clock, counter, collector, moved, sample, latest, queue, batch, raw, rollups, error, stored, faults,
          bound, time, blobs, spec, rev, unpinned, tasks, unclaimed, past, client, tick, reply, pass, files, marks,
          containers, down,
          db, boxes, proc, used

drain == <<routes, generation, draining, drained, reports, sent, control, applying, caddy, report>>
keys == <<objects, modified, stats>>
host == <<clock, counter, collector, moved, sample, latest, queue, batch, raw, rollups, error, stored, faults>>
configs == <<bound, time, blobs, spec, rev, unpinned, tasks, unclaimed, past, client, tick, reply, pass, files, marks,
             containers, down>>
members == <<db, boxes, proc, used>>
all == <<part, vars, drain, keys, host, configs, members>>

TasksMC == {t1}
GatewaysMC == {g1, g2}
Drain == INSTANCE GatewayDrain WITH Tasks <- TasksMC, Gateways <- GatewaysMC, MaxConfigs <- 2

\* With a, a/a, a/a/a and their neighbours a.a, a0 and aa.
KeysMC == {<<4>>, <<4, 2, 4>>, <<4, 2, 4, 2, 4>>, <<4, 1, 4>>, <<4, 3>>, <<4, 4>>}
PathsMC == {<<>>, <<4>>, <<4, 2, 4>>, <<4, 3>>, <<4, 1>>}
ClientsMC == {c1}
Objects == INSTANCE KvObjects WITH Keys <- KeysMC, Paths <- PathsMC, Clients <- ClientsMC, MaxTime <- 3,
                                   Nothing <- none, clock <- modified

\* With buckets of two and of four periods: one interface for long enough to
\* fill the second, two for a shorter time.
TiersMC == << [res |-> 2, keep |-> 3], [res |-> 4, keep |-> 5] >>
InterfaceMC == {e1}
Host == INSTANCE Metrics WITH Interfaces <- InterfaceMC, RawKeep <- 2, FlushEvery <- 2, Tiers <- TiersMC,
                              QueueCapacity <- 1, BatchPoints <- 2, MaxTime <- 4, MaxMoved <- 1,
                              MaxFaults <- 1, Absent <- none
InterfacesMC == {e1, e2}
Pair == INSTANCE Metrics WITH Interfaces <- InterfacesMC, RawKeep <- 2, FlushEvery <- 2, Tiers <- TiersMC,
                              QueueCapacity <- 1, BatchPoints <- 2, MaxTime <- 3, MaxMoved <- 1,
                              MaxFaults <- 1, Absent <- none

\* Collections that race deploys and rollbacks; collections that race the Agent.
Collecting == [grace |-> 3, patience |-> 1, now |-> 4, rev |-> 2, agent |-> FALSE, rollback |-> TRUE,
               wants |-> {{d1}, {d1, d2}}]
Mounting == [grace |-> 1, patience |-> 0, now |-> 1, rev |-> 2, agent |-> TRUE, rollback |-> FALSE,
             wants |-> {{d1}, {d2}}]
DigestsMC == {d1, d2}
BoundsMC == {Collecting, Mounting}
Configs == INSTANCE ConfigBlobs WITH Digests <- DigestsMC, Bounds <- BoundsMC, now <- time

\* A Controller and an Agent, with room for a rejoin after a recovery; a crash on
\* the way to such a cluster.
Rejoin == [machines |-> {m1, m2}, ids |-> 4, changes |-> 0, faults |-> 0]
Crashed == [machines |-> {m1, m2}, ids |-> 2, changes |-> 1, faults |-> 1]
\* A change of the cluster on the way to, or during, a recovery.
Changed == [machines |-> {m1, m2}, ids |-> 3, changes |-> 1, faults |-> 0]
\* One machine that is recovered twice, with deployments between.
Twice == [machines |-> {m1}, ids |-> 3, changes |-> 2, faults |-> 2]
MachinesMC == {m1, m2}
FoundersMC == {m1}
InstancesMC == {Rejoin, Crashed, Changed, Twice}
Members == INSTANCE NodeLifecycle WITH Machines <- MachinesMC, Founders <- FoundersMC,
                                       Instances <- InstancesMC, FixedToken <- FALSE, Nothing <- none

PartsInit ==
    /\ part \in {"locks", "drain", "objects", "metrics", "pair", "configs", "members"}
    /\ Init /\ Drain!Init /\ Objects!Init
    /\ part # "drain" => routes = {}
    /\ IF part = "metrics" THEN Host!Init
       ELSE IF part = "pair" THEN Pair!Init
       ELSE /\ clock = none /\ counter = none /\ collector = none /\ moved = none /\ sample = none
            /\ latest = none /\ queue = none /\ batch = none /\ raw = none /\ rollups = none
            /\ error = none /\ stored = none /\ faults = none
    /\ IF part = "configs" THEN Configs!Init
       ELSE /\ bound = none /\ time = none /\ blobs = none /\ spec = none /\ rev = none /\ unpinned = none
            /\ tasks = none /\ unclaimed = none /\ past = none /\ client = none /\ tick = none
            /\ reply = none /\ pass = none /\ files = none /\ marks = none /\ containers = none /\ down = none
    /\ IF part = "members" THEN Members!Init
       ELSE db = none /\ boxes = none /\ proc = none /\ used = none

Locks == part = "locks" /\ Next /\ UNCHANGED <<part, drain, keys, host, configs, members>>
Drains == part = "drain" /\ Drain!Next /\ UNCHANGED <<part, vars, keys, host, configs, members>>
Trees == part = "objects" /\ Objects!Next /\ UNCHANGED <<part, vars, drain, host, configs, members>>
Hosts == part = "metrics" /\ Host!Next /\ UNCHANGED <<part, vars, drain, keys, configs, members>>
Pairs == part = "pair" /\ Pair!Next /\ UNCHANGED <<part, vars, drain, keys, configs, members>>
Blobs == part = "configs" /\ Configs!Next /\ UNCHANGED <<part, vars, drain, keys, host, members>>
Nodes == part = "members" /\ Members!Next /\ UNCHANGED <<part, vars, drain, keys, host, configs>>

PartsNext == Locks \/ Drains \/ Trees \/ Hosts \/ Pairs \/ Blobs \/ Nodes
PartsSpec == PartsInit /\ [][PartsNext]_all

\* The properties of the other components, stated with their modules.
NoTraffic == part = "drain" => Drain!NoTraffic
TreeKept == Objects!TreeKept
SeriesTrue == (part = "metrics" => Host!SeriesTrue) /\ (part = "pair" => Pair!SeriesTrue)
ContentsKept == part = "configs" => Configs!ContentsKept
RecoveryFits == part = "members" => Members!RecoveryFits
=============================================================================
