---------------------------- MODULE GatewayDrain ----------------------------
(***************************************************************************)
(* What the Controller and the Gateways promise each other when a routed   *)
(* task is taken out of service, without the scheduler's reasons to do so: *)
(*                                                                         *)
(*   routes, generation   the routes of the Gateway configuration and its  *)
(*                        generation                                       *)
(*   draining             the tasks that drain and wait for the Gateways   *)
(*   drained              the tasks whose drain the Gateways have          *)
(*                        acknowledged: they stop after a while            *)
(*   reports              the generation each Gateway last reported, 0 for *)
(*                        none or an error                                 *)
(*   sent                 the report in a heartbeat that is under way      *)
(*   control, applying    the configuration the node was last told, and    *)
(*                        the one it is giving its Caddy                   *)
(*   caddy                the configuration Caddy serves                   *)
(*   report               what the node will report                        *)
(***************************************************************************)
EXTENDS Naturals

CONSTANTS Tasks, Gateways, MaxConfigs

VARIABLES routes, generation, draining, drained, reports, sent,
          control, applying, caddy, report

controller == <<routes, generation, draining, drained>>
node == <<control, applying, caddy, report>>
vars == <<controller, reports, sent, node>>

Config == [generation : Nat, routes : SUBSET Tasks]
NoConfig == [generation |-> 0, routes |-> {}]

\* A converged start: every Gateway serves the routes of generation 1.
Init ==
    /\ routes \in SUBSET Tasks /\ generation = 1
    /\ draining = {} /\ drained = {}
    /\ reports = [g \in Gateways |-> 1]
    /\ sent = [g \in Gateways |-> 0]
    /\ control = [g \in Gateways |-> [generation |-> 1, routes |-> routes]]
    /\ applying = [g \in Gateways |-> NoConfig]
    /\ caddy = control
    /\ report = [g \in Gateways |-> 1]

-----------------------------------------------------------------------------

\* next_gateway_snapshot: other routes, another generation.  A drained task is
\* not routed again.
Reroute ==
    /\ routes' \in SUBSET (Tasks \ drained')
    /\ generation' = IF routes' = routes THEN generation ELSE generation + 1
    /\ generation' <= MaxConfigs

\* What a handler of the Controller may do to the tasks: some begin to drain,
\* some are given up or removed.
Decide ==
    /\ draining' \in SUBSET Tasks
    /\ drained' \in SUBSET drained
    /\ draining' \cap drained = {}
    /\ Reroute

\* Mutant of AllReported: one Gateway speaks for all.
OneReported == \E g \in Gateways : reports'[g] = generation'

AllReported == \A g \in Gateways : reports'[g] = generation'

\* The same, and acknowledge_gateway_drains finds that every Gateway has
\* accepted the present routes: the tasks that drain are drained.
DecideAndAcknowledge ==
    /\ draining' = {}
    /\ drained' \in SUBSET Tasks
    /\ Reroute
    /\ AllReported

\* tick, apply_guarded, update_node_label and the heartbeats of the nodes that
\* are no Gateways.
Control ==
    /\ UNCHANGED <<reports, sent, node>>
    /\ Decide \/ DecideAndAcknowledge

\* A heartbeat of g, whose response may be lost.
HandleHeartbeat(g) ==
    /\ reports' = [reports EXCEPT ![g] = sent[g]]
    /\ Decide \/ DecideAndAcknowledge
    /\ sent' = [sent EXCEPT ![g] = 0]
    /\ control' \in {control, [control EXCEPT ![g] = [generation |-> generation', routes |-> routes']]}
    /\ UNCHANGED <<applying, caddy, report>>

SendHeartbeat(g) ==
    /\ sent' = [sent EXCEPT ![g] = report[g]]
    /\ UNCHANGED <<controller, reports, node>>

LoseHeartbeat(g) ==
    /\ sent' = [sent EXCEPT ![g] = 0]
    /\ UNCHANGED <<controller, reports, node>>

StartApply(g) ==
    /\ applying[g] = NoConfig /\ control[g] # NoConfig
    /\ applying' = [applying EXCEPT ![g] = control[g]]
    /\ UNCHANGED <<controller, reports, sent, control, caddy, report>>

FinishApply(g) ==
    /\ applying[g] # NoConfig
    /\ caddy' = [caddy EXCEPT ![g] = applying[g]]
    /\ report' = [report EXCEPT ![g] = applying[g].generation]
    /\ applying' = [applying EXCEPT ![g] = NoConfig]
    /\ UNCHANGED <<controller, reports, sent, control>>

ApplyFails(g) ==
    /\ applying[g] # NoConfig
    /\ caddy' \in {caddy, [caddy EXCEPT ![g] = applying[g]]}
    /\ report' = [report EXCEPT ![g] = 0]
    /\ applying' = [applying EXCEPT ![g] = NoConfig]
    /\ UNCHANGED <<controller, reports, sent, control>>

NodeRestart(g) ==
    /\ control' = [control EXCEPT ![g] = NoConfig]
    /\ applying' = [applying EXCEPT ![g] = NoConfig]
    /\ report' = [report EXCEPT ![g] = 0]
    /\ sent' = [sent EXCEPT ![g] = 0]
    /\ UNCHANGED <<controller, reports, caddy>>

Next ==
    \/ Control
    \/ \E g \in Gateways : \/ HandleHeartbeat(g) \/ SendHeartbeat(g) \/ LoseHeartbeat(g)
                           \/ StartApply(g) \/ FinishApply(g) \/ ApplyFails(g) \/ NodeRestart(g)

Spec == Init /\ [][Next]_vars

-----------------------------------------------------------------------------
(* Properties *)

\* The state keeps its shape, and a configuration without a generation has no
\* routes.
TypeOK ==
    /\ routes \in SUBSET Tasks /\ generation \in Nat \ {0}
    /\ draining \in SUBSET Tasks /\ drained \in SUBSET Tasks
    /\ reports \in [Gateways -> Nat] /\ sent \in [Gateways -> Nat] /\ report \in [Gateways -> Nat]
    /\ control \in [Gateways -> Config] /\ applying \in [Gateways -> Config]
    /\ caddy \in [Gateways -> Config]
    /\ \A g \in Gateways : \A k \in {control[g], applying[g]} : k.generation = 0 => k = NoConfig

\* No Caddy sends requests to a task whose drain was acknowledged, whatever
\* heartbeats, responses and restarts are lost or late: the container may stop
\* (acknowledge_gateway_drains).
NoTraffic == \A t \in drained : \A g \in Gateways : t \notin caddy[g].routes

\* A Caddy never goes back to an older configuration, even when a node restarts
\* or a configuration is replaced while it is being loaded (the Gateway part of
\* the heartbeat response, NodeSupervisor::run).
CaddyMovesForward ==
    [][\A g \in Gateways : caddy'[g].generation >= caddy[g].generation]_vars

-----------------------------------------------------------------------------
(* The inductive invariant behind NoTraffic *)

\* Two configurations of the present generation are the same.
Dated ==
    \A g \in Gateways : \A k \in {control[g], applying[g], caddy[g]} :
        k.generation <= generation /\ (k.generation = generation => k.routes = routes)

\* A configuration on its way to a Caddy is not older than what it replaces.
Ordered ==
    \A g \in Gateways :
        /\ applying[g].generation = 0 \/ caddy[g].generation <= applying[g].generation
        /\ control[g].generation = 0 \/ ( /\ caddy[g].generation <= control[g].generation
                                         /\ applying[g].generation <= control[g].generation )

\* A report names nothing newer than what Caddy serves.
Honest ==
    \A g \in Gateways : \A r \in {report[g], sent[g], reports[g]} : r <= caddy[g].generation

\* A drained task is in no configuration at all.
Forgotten ==
    \A t \in drained : /\ t \notin routes
                       /\ \A g \in Gateways : \A k \in {control[g], applying[g], caddy[g]} :
                             t \notin k.routes

Inv == TypeOK /\ Dated /\ Ordered /\ Honest /\ Forgotten

=============================================================================
