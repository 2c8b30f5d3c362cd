----------------------------- MODULE MCCluster -----------------------------
(* Small instances of Cluster: one service "web", converged at the start.  A *)
(* "pinned" service updates stop-first, publishes a port and runs at most    *)
(* once on a node.                                                           *)
EXTENDS Cluster

CONSTANTS n1, n2, web

ServicesMC == {web}
OrderMC == <<web>>
TaskIdsMC == 1 .. 6
NodesMC == {n1, n2}
GatewaysMC == {n1}

PortMC(kind) == IF kind = "pinned" THEN 80 ELSE 0

ServiceMC(kind, count, nodes) ==
    [revision |-> 1, replicas |-> count,
     max_surge |-> IF kind = "start-first" THEN 1 ELSE 0,
     max_per_node |-> IF kind = "pinned" THEN 1 ELSE 0,
     port |-> PortMC(kind), routed |-> TRUE, deleted |-> FALSE, matching |-> nodes]

TaskMC(i, kind) ==
    [service |-> web, revision |-> 1, slot |-> i - 1, node |-> IF i % 2 = 1 THEN n1 ELSE n2,
     desired |-> "Running", observed |-> "Healthy", port |-> PortMC(kind), drain |-> FALSE,
     applied |-> 1]

\* `count` replicas of a service of some kind on some nodes, which may be deployed
\* `gens` - 1 times or scaled to `scales`, with `left` faults.
Case(kind, count, nodes, gens, scales, kinds, left) ==
    [inner |-> [tasks |-> [i \in 1 .. count |-> TaskMC(i, kind)],
                services |-> [s \in ServicesMC |-> ServiceMC(kind, count, nodes)],
                nodes |-> nodes, live |-> nodes, unclaimed |-> EmptyFunction,
                routes |-> 1 .. count, gateway_generation |-> 1,
                gateway_reports |-> [g \in GatewaysMC |-> 1], generation |-> 1, status |-> "Healthy"],
     nodes |-> nodes, replicas |-> scales, deployments |-> gens, faults |-> kinds, left |-> left]

Both == {n1, n2}
One == {n1}

\* Rollouts: without faults, and with one lost message, failed commit or restart of
\* a node; restarts without a rollout.
Rollout(kind) == Case(kind, 2, Both, 2, {}, {}, 0)
Lost == Case("start-first", 1, Both, 2, {},
             {"heartbeat", "response", "commit", "gateway", "agent", "inventory"}, 1)
Restart == Case("start-first", 2, Both, 1, {}, {"controller", "agent"}, 2)
RolloutsMC == {Rollout("start-first"), Rollout("pinned"), Lost, Restart}

\* Deployments and scalings that supersede one another; a step of an Agent that
\* fails; a node that is lost, a container that fails or a label that changes.
Supersede == Case("start-first", 1, One, 3, {0, 2}, {}, 0)
Fails(kind) == Case(kind, 1, One, 2, {},
                    {"create", "remove", "inspect"} \cup (IF kind = "pinned" THEN {"container"} ELSE {}), 1)
Displaced == Case("start-first", 1, Both, 1, {}, {"timeout", "container", "label"}, 1)
DisturbancesMC == {Supersede, Lost, Fails("start-first"), Fails("pinned"), Displaced}

\* Where the code does otherwise than it says.
SupersededMC == {Case("start-first", 1, One, 3, {}, {}, 0)}
StopFirstMC == {Case("stop-first", 2, Both, 2, {}, {}, 0)}
InspectMC == {Case("start-first", 1, Both, 2, {}, {"inspect"}, 1)}
RestartedMC == {Case("start-first", 1, Both, 2, {}, {"controller"}, 1)}

\* Convergence, where the steps of a pass do not fail: a removal that failed is not
\* tried again while the input stays the same (run_with_runtime).
ConvergenceOfPasses == <>[]("remove" \notin scenario.faults => Serving)
=============================================================================
