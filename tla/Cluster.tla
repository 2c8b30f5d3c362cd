------------------------------ MODULE Cluster ------------------------------
(***************************************************************************)
(* One Stack on a swarmlite cluster: the Controller behind its mutex, the  *)
(* Agent of every node and the Gateways.                                   *)
(*                                                                         *)
(*   inner       controller::Inner (tasks, services, routes ... )          *)
(*   heartbeat   what each Agent has sent and the Controller not handled   *)
(*   assignment  the input of an Agent's reconciliation loop               *)
(*   fresh       whether the loop has yet to take up that input            *)
(*   pass        the Agent's reconciliation pass that is under way         *)
(*   results     the reports of the last pass that finished                *)
(*   containers  the runtime's containers, per node and task id            *)
(*   control     the configuration a node was last told to give its Caddy  *)
(*   applying    the configuration that is being loaded                    *)
(*   caddy       the configuration Caddy serves                            *)
(*   report      the generation the node will report as loaded             *)
(*   scenario    what users may ask for, and what may still fail          *)
(*                                                                         *)
(* A handler of the Controller holds the mutex from start to end, so it is *)
(* one step.  Agents send a heartbeat at any time, and their passes change *)
(* one container at a time.  A route's upstream is a task id: each task    *)
(* has an address of its own.                                              *)
(***************************************************************************)
EXTENDS Scheduler

CONSTANTS
    Order,          \* the services in the order of their ids
    Gateways,       \* the nodes with gateway_enabled
    Scenarios       \* the small instances: a converged state to start from, the nodes,
                    \* the replica counts a user may ask for, a bound on the deployments,
                    \* the kinds of faults that may happen and a bound on their number

VARIABLES inner, heartbeat, assignment, fresh, pass, results, containers,
          control, applying, caddy, report, scenario

agent == <<heartbeat, assignment, fresh, pass, results>>
gateway == <<control, applying, caddy, report>>
vars == <<inner, agent, containers, gateway, scenario>>

None == [kind |-> "none"]
NoResults == [generation |-> 0, ids |-> {}, failed |-> {}, remove_failed |-> {}]
NoConfig == [generation |-> 0, routes |-> {}]
EmptyFunction == [id \in {} |-> id]

Fault(kind) ==
    /\ kind \in scenario.faults /\ scenario.left > 0
    /\ scenario' = [scenario EXCEPT !.left = @ - 1]

\* The labels of a task's container; the replica count is part of the hashed
\* specification.
Labels(c, id) ==
    LET t == c.tasks[id]
    IN  [service |-> t.service, revision |-> t.revision, slot |-> t.slot, port |-> t.port,
         replicas |-> c.services[t.service].replicas]

-----------------------------------------------------------------------------
(* Routes and deployments *)

RoutedTasks(c) == {id \in DOMAIN c.tasks : c.services[c.tasks[id].service].routed}

\* stack_fragment
Upstreams(c) ==
    {id \in RoutedTasks(c) : /\ c.tasks[id].desired = "Running"
                             /\ c.tasks[id].observed = "Healthy"
                             /\ c.tasks[id].node \in c.nodes}

\* next_gateway_snapshot: another configuration, another generation.
SetRoutes(c, routes) ==
    [c EXCEPT !.routes = routes,
              !.gateway_generation = IF routes = c.routes THEN @ ELSE @ + 1]

\* Mutant of RefreshRoutes: routes are recomputed whoever has been heard.
RefreshRoutesAtOnce(c) == SetRoutes(c, Upstreams(c))

\* refresh_ready_stack_routes: last-known-good upstreams stay until every node
\* with a running routed task has been heard.
RefreshRoutes(c) ==
    IF \A id \in RoutedTasks(c) : c.tasks[id].desired = "Running" => c.tasks[id].node \in c.nodes
    THEN SetRoutes(c, Upstreams(c))
    ELSE c

\* Mutant of GatewayReady: any accepted configuration will do.
GatewayAnswered(c) == Gateways # {} /\ \A g \in Gateways : c.gateway_reports[g] # 0

GatewayReady(c) ==
    Gateways # {} /\ \A g \in Gateways : c.gateway_reports[g] = c.gateway_generation

\* deployment_replacement_ready
ReplacementReady(c) ==
    /\ (\E s \in Services : c.services[s].routed) => GatewayReady(c)
    /\ \A s \in {x \in Services : ~c.services[x].deleted} :
          Cardinality({id \in CurrentIds(c, s) : /\ c.tasks[id].observed = "Healthy"
                                                 /\ c.tasks[id].applied = c.generation})
              >= c.services[s].replicas

\* Mutant of DeploymentIsHealthy: obsolete tasks are not looked at.
DeploymentIsReplaced(c) == ReplacementReady(c)

\* deployment_is_healthy
DeploymentIsHealthy(c) ==
    /\ ReplacementReady(c)
    /\ \A id \in DOMAIN c.tasks : \/ id \in CurrentIds(c, c.tasks[id].service)
                                  \/ c.tasks[id].observed = "Lost"
    /\ DOMAIN c.unclaimed = {}

\* refresh_stack_deployments.  "Active" is Reconciling, Stalled or Blocked.
RefreshDeployment(c) ==
    [c EXCEPT !.status = IF @ = "Active" /\ DeploymentIsHealthy(c) THEN "Healthy" ELSE @]

\* The tail of tick and heartbeat.
Settle(c, taken) == {RefreshDeployment(RefreshRoutes(d)) : d \in Reconcile(c, Order, taken)}

\* Mutant of AcknowledgeDrains: a drain starts its clock at once.
AcknowledgeAtOnce(c) ==
    [c EXCEPT !.tasks = [id \in DOMAIN c.tasks |->
        IF c.tasks[id].desired = "Draining" THEN [c.tasks[id] EXCEPT !.drain = TRUE]
        ELSE c.tasks[id]]]

\* acknowledge_gateway_drains
AcknowledgeDrains(c) ==
    IF GatewayReady(c)
    THEN [c EXCEPT !.tasks = [id \in DOMAIN c.tasks |->
            IF c.tasks[id].desired = "Draining" THEN [c.tasks[id] EXCEPT !.drain = TRUE]
            ELSE c.tasks[id]]]
    ELSE c

-----------------------------------------------------------------------------
(* The heartbeat handler, on the node n and the heartbeat h it sent *)

\* The report, the liveness stamp and the soft node record.
Heard(c, n, h) ==
    [c EXCEPT !.gateway_reports = IF n \in Gateways THEN [@ EXCEPT ![n] = h.report] ELSE @,
              !.live = @ \cup {n},
              !.nodes = @ \cup {n}]

\* Without an inventory nothing is known to have disappeared.
Inventory(c, n, h) ==
    IF h.inventory_error THEN c
    ELSE LET elsewhere == {id \in DOMAIN c.unclaimed : c.unclaimed[id].node # n}
             here == DOMAIN h.containers \ DOMAIN c.tasks
         IN  [c EXCEPT !.unclaimed = [id \in elsewhere \cup here |->
                 IF id \in here THEN [node |-> n, observed |-> h.containers[id].observed,
                                      labels |-> h.containers[id].labels]
                 ELSE c.unclaimed[id]]]

Unclaimed(c, n) == {id \in DOMAIN c.unclaimed : c.unclaimed[id].node = n}

\* Mutant of Missing: a failed inventory counts as an empty one.
MissingDespiteError(c, n, h) == On(c, n) \ DOMAIN h.containers

Missing(c, n, h) == IF h.inventory_error THEN {} ELSE On(c, n) \ DOMAIN h.containers
Disappeared(c, n, h) ==
    {id \in Missing(c, n, h) : /\ c.tasks[id].desired # "Stopped"
                               /\ c.tasks[id].observed \in {"Starting", "Healthy"}}
ReportedFailed(c, n, h) ==
    {id \in On(c, n) \cap DOMAIN h.containers : /\ c.tasks[id].desired = "Running"
                                              /\ h.containers[id].observed = "Failed"}
Removed(c, n, h) == {id \in Missing(c, n, h) : c.tasks[id].desired = "Stopped"}

\* Mutant of ObserveTasks: a task that was never seen is not looked up.
ObserveSeenTasks(c, n, h) ==
    [c EXCEPT !.tasks = [id \in DOMAIN c.tasks |->
        IF id \in On(c, n) \cap DOMAIN h.containers /\ c.tasks[id].observed # "Pending"
        THEN [c.tasks[id] EXCEPT !.observed = h.containers[id].observed] ELSE c.tasks[id]]]

ObserveTasks(c, n, h) ==
    [c EXCEPT !.tasks = [id \in DOMAIN c.tasks |->
        CASE id \in On(c, n) \cap DOMAIN h.containers ->
               [c.tasks[id] EXCEPT !.observed = h.containers[id].observed]
          [] id \in Disappeared(c, n, h) -> [c.tasks[id] EXCEPT !.observed = "Failed"]
          [] OTHER -> c.tasks[id]]]

\* apply_task_result and apply_unclaimed_task_result, for reports r of one
\* generation.  An error about the current revision, or about a removal, ends
\* the deployment unless the user has to act on it ("blocked").
ApplyResults(c, n, r, blocked) ==
    LET known == IF r.generation = c.generation THEN r.ids \cap On(c, n) ELSE {}
        failed == known \cap r.failed
        grave == (r.failed \cap Unclaimed(c, n))
                   \cup {id \in failed : \/ id \in r.remove_failed
                                         \/ c.tasks[id].revision
                                              = c.services[c.tasks[id].service].revision}
    IN  [c EXCEPT !.tasks = [id \in DOMAIN c.tasks |->
                      IF id \in failed
                      THEN [c.tasks[id] EXCEPT !.applied = 0, !.observed = "Failed"]
                      ELSE IF id \in known THEN [c.tasks[id] EXCEPT !.applied = r.generation]
                      ELSE c.tasks[id]],
                  !.status = IF @ = "Active" /\ r.generation = c.generation /\ grave # {} /\ ~blocked
                             THEN "Failed" ELSE @]

\* Everything up to reconcile; observed failures that no result explains are
\* applied as results of the present generation.
Digest(c, n, h, blocked) ==
    LET observed == (Disappeared(c, n, h) \cup ReportedFailed(c, n, h)) \ h.results.failed
        c1 == ObserveTasks(Inventory(Heard(c, n, h), n, h), n, h)
        c2 == ApplyResults(c1, n, h.results, blocked)
        c3 == ApplyResults(c2, n, [generation |-> c.generation, ids |-> observed,
                                   failed |-> observed, remove_failed |-> {}], FALSE)
    IN  [c3 EXCEPT !.tasks = Restrict(@, DOMAIN c.tasks \ Removed(c, n, h))]

\* The task part of the HeartbeatResponse.
Response(c, n) ==
    LET desired(d) == {id \in On(c, n) : c.tasks[id].desired = d}
    IN  [kind |-> "response", generation |-> c.generation,
         run |-> [id \in desired("Running") |-> Labels(c, id)], drain |-> desired("Draining"),
         remove |-> desired("Stopped")
                      \cup IF ReplacementReady(c) THEN Unclaimed(c, n) ELSE {}]

-----------------------------------------------------------------------------
(* The Controller *)

\* Ids that something outside the task table still refers to.
Taken ==
    inner.routes \cup UNION {control[g].routes \cup applying[g].routes \cup caddy[g].routes :
                              g \in Gateways}
      \cup UNION {DOMAIN containers[n] \cup results[n].ids \cup Unclaimed(inner, n) :
                    n \in Nodes}
      \cup UNION {h.results.ids \cup DOMAIN h.containers : h \in {heartbeat[n] : n \in Nodes} \ {None}}
      \cup UNION {DOMAIN a.run \cup a.drain \cup a.remove : a \in {assignment[n] : n \in Nodes} \ {None}}
      \cup UNION {p.ids : p \in {pass[n] : n \in Nodes} \ {None}}

\* Mutant of Receive: only a new generation wakes the loop.
ReceiveGeneration(n, response) ==
    /\ assignment' = [assignment EXCEPT ![n] = response]
    /\ fresh' = [fresh EXCEPT ![n] = \/ @ \/ assignment[n] = None
                                     \/ response.generation # assignment[n].generation]
    /\ control' = IF n \in Gateways
                  THEN [control EXCEPT ![n] = [generation |-> inner'.gateway_generation,
                                               routes |-> inner'.routes]]
                  ELSE control

\* What an Agent does with a response: a changed input wakes its loop, the
\* configuration goes to its Gateway.
Receive(n, response) ==
    /\ assignment' = [assignment EXCEPT ![n] = response]
    /\ fresh' = [fresh EXCEPT ![n] = @ \/ response # assignment[n]]
    /\ control' = IF n \in Gateways
                  THEN [control EXCEPT ![n] = [generation |-> inner'.gateway_generation,
                                               routes |-> inner'.routes]]
                  ELSE control

Handled(n) == heartbeat' = [heartbeat EXCEPT ![n] = None]

\* What Controller::heartbeat leaves before it acknowledges drains.
Handlings(n) ==
    UNION {Settle(Digest(inner, n, heartbeat[n], blocked), Taken) : blocked \in BOOLEAN}

Sent(n) == heartbeat[n].kind = "heartbeat"

\* Controller::heartbeat, and the Agent gets the response.
HandleHeartbeat(n) ==
    /\ Sent(n)
    /\ \E c \in Handlings(n) : inner' = AcknowledgeDrains(c)
    /\ Handled(n)
    /\ Receive(n, Response(inner', n))
    /\ UNCHANGED <<pass, results, containers, applying, caddy, report, scenario>>

\* The same, and the response is lost.
LoseResponse(n) ==
    /\ Sent(n)
    /\ Fault("response")
    /\ \E c \in Handlings(n) : inner' = AcknowledgeDrains(c)
    /\ Handled(n)
    /\ UNCHANGED <<assignment, fresh, pass, results, containers, gateway>>

\* One of the two commits fails and the Agent gets an error.  The first one
\* restores the state, of which reports and liveness stamps are no part.
FailCommit(n) ==
    /\ Sent(n)
    /\ Fault("commit")
    /\ \/ inner' = [Heard(inner, n, heartbeat[n]) EXCEPT !.nodes = inner.nodes]
       \/ inner' \in Handlings(n)
    /\ Handled(n)
    /\ UNCHANGED <<assignment, fresh, pass, results, containers, gateway>>

LoseHeartbeat(n) ==
    /\ Sent(n)
    /\ Fault("heartbeat")
    /\ Handled(n)
    /\ UNCHANGED <<inner, assignment, fresh, pass, results, containers, gateway>>

Draining(c) == {id \in DOMAIN c.tasks : c.tasks[id].desired = "Draining" /\ c.tasks[id].drain}

\* Controller::tick, at a time when some of the drain deadlines have passed.
Tick ==
    /\ \E expired \in SUBSET Draining(inner) :
          inner' \in Settle(FinishDrains(inner, expired), Taken)
    /\ inner' # inner
    /\ UNCHANGED <<agent, containers, gateway, scenario>>

\* recovery_task_priority
Priority(observed) ==
    CASE observed = "Healthy" -> 5 [] observed = "Starting" -> 4 [] observed = "Pending" -> 2
      [] observed = "Failed" -> 1 [] OTHER -> 0

AdoptedTask(u) ==
    [service |-> u.labels.service, revision |-> u.labels.revision, slot |-> u.labels.slot,
     node |-> u.node, desired |-> "Running", observed |-> u.observed, port |-> u.labels.port,
     drain |-> FALSE, applied |-> 0]

\* adopt_unclaimed_tasks for the service s: a slot that no task holds takes one
\* container that runs the service as it is specified now, the one furthest on.
Adopt(c, s) ==
    LET svc == c.services[s]
        held == {c.tasks[id].slot : id \in {i \in Of(c, s) : c.tasks[i].desired # "Stopped"}}
        candidates(slot) == {id \in DOMAIN c.unclaimed : c.unclaimed[id].labels =
            [service |-> s, revision |-> svc.revision, slot |-> slot, port |-> svc.port,
             replicas |-> svc.replicas]}
        best(slot) == {id \in candidates(slot) : \A other \in candidates(slot) :
            Priority(c.unclaimed[other].observed) <= Priority(c.unclaimed[id].observed)}
        slots == {slot \in (0 .. svc.replicas - 1) \ held : candidates(slot) # {}}
        choices == {f \in [slots -> DOMAIN c.unclaimed] : \A slot \in slots : f[slot] \in best(slot)}
    IN  {[c EXCEPT !.tasks = [id \in DOMAIN c.tasks \cup Range(f) |->
                                 IF id \in Range(f) THEN AdoptedTask(c.unclaimed[id]) ELSE c.tasks[id]],
                   !.unclaimed = Restrict(@, DOMAIN c.unclaimed \ Range(f))] : f \in choices}

AdoptUnclaimed(c) ==
    LET after[i \in 0 .. Len(Order)] ==
            IF i = 0 THEN {c}
            ELSE UNION {IF d.services[Order[i]].deleted THEN {d} ELSE Adopt(d, Order[i]) :
                          d \in after[i - 1]}
    IN  after[Len(Order)]

\* apply_guarded, for one changed service: the route fragment is replaced
\* whether or not every node has been heard.
Apply(service, s) ==
    /\ inner.generation < scenario.deployments
    /\ \E c \in AdoptUnclaimed([inner EXCEPT !.services[s] = service, !.generation = @ + 1,
                                             !.status = "Active"]) :
         \E d \in Reconcile(c, Order, Taken) :
            inner' = RefreshDeployment(SetRoutes(d, Upstreams(d)))
    /\ UNCHANGED <<agent, containers, gateway, scenario>>

\* A deployment of a changed specification.  With --replace it supersedes an
\* active one.
Deploy(s) == Apply([inner.services[s] EXCEPT !.revision = @ + 1], s)

\* A deployment of the specification that is there already.
Redeploy(s) == Apply(inner.services[s], s)

\* scale_service knows no --replace, and keeps the revision.
ScaleService(s, replicas) ==
    /\ inner.status # "Active"
    /\ replicas # inner.services[s].replicas
    /\ Apply([inner.services[s] EXCEPT !.replicas = replicas], s)

\* update_node_label: the constraint stops or starts matching n.
UpdateNodeLabel(n, s) ==
    /\ Fault("label")
    /\ LET matching == inner.services[s].matching
           toggled == IF n \in matching THEN matching \ {n} ELSE matching \cup {n}
       IN  inner' \in Reconcile([inner EXCEPT !.services[s].matching = toggled], Order, Taken)
    /\ UNCHANGED <<agent, containers, gateway>>

\* node_timeout_seconds pass without a heartbeat of n.
NodeTimeout(n) ==
    /\ n \in inner.live
    /\ Fault("timeout")
    /\ inner' = [inner EXCEPT !.live = @ \ {n}]
    /\ UNCHANGED <<agent, containers, gateway>>

\* Mutant of ControllerRestart: no node counts as live until it is heard.
ControllerRestartUnseeded ==
    /\ Fault("controller")
    /\ inner' = [inner EXCEPT
          !.tasks = [id \in DOMAIN inner.tasks |->
                       [inner.tasks[id] EXCEPT !.observed = "Pending", !.applied = 0]],
          !.nodes = {}, !.live = {},
          !.unclaimed = EmptyFunction, !.gateway_reports = [g \in Gateways |-> 0]]
    /\ heartbeat' = [n \in Nodes |-> None]
    /\ UNCHANGED <<assignment, fresh, pass, results, containers, gateway>>

\* Controller::new on the persisted state: what Agents observed, the soft node
\* records and the reports are gone, open drains start over, the nodes of the
\* known tasks count as live.
ControllerRestart ==
    /\ Fault("controller")
    /\ inner' = [inner EXCEPT
          !.tasks = [id \in DOMAIN inner.tasks |->
                       [inner.tasks[id] EXCEPT !.observed = "Pending", !.applied = 0,
                                               !.drain = @ /\ inner.tasks[id].desired # "Draining"]],
          !.nodes = {}, !.live = {inner.tasks[id].node : id \in DOMAIN inner.tasks},
          !.unclaimed = EmptyFunction, !.gateway_reports = [g \in Gateways |-> 0]]
    /\ heartbeat' = [n \in Nodes |-> None]
    /\ UNCHANGED <<assignment, fresh, pass, results, containers, gateway>>

-----------------------------------------------------------------------------
(* The Agent *)

\* The heartbeat loop first lists the containers ...
TakeInventory(n) ==
    /\ heartbeat[n] = None
    /\ heartbeat' = [heartbeat EXCEPT ![n] = [kind |-> "inventory", inventory_error |-> FALSE,
                             containers |-> containers[n], results |-> NoResults, report |-> 0]]
    /\ UNCHANGED <<inner, assignment, fresh, pass, results, containers, gateway, scenario>>

InventoryFails(n) ==
    /\ heartbeat[n] = None
    /\ Fault("inventory")
    /\ heartbeat' = [heartbeat EXCEPT ![n] = [kind |-> "inventory", inventory_error |-> TRUE,
                             containers |-> EmptyFunction, results |-> NoResults, report |-> 0]]
    /\ UNCHANGED <<inner, assignment, fresh, pass, results, containers, gateway>>

\* ... and then adds the results of the last pass and the Gateway's report.
SendHeartbeat(n) ==
    /\ heartbeat[n].kind = "inventory"
    /\ heartbeat' = [heartbeat EXCEPT ![n].kind = "heartbeat", ![n].results = results[n],
                                      ![n].report = IF n \in Gateways THEN report[n] ELSE 0]
    /\ UNCHANGED <<inner, assignment, fresh, pass, results, containers, gateway, scenario>>

\* The ids whose results a pass over the input a reports.
Expected(a) == DOMAIN a.run \cup a.drain \cup a.remove

\* prepare_reconcile_response: what the pass has to do, by the containers there
\* are when it starts.  A newer input only wakes the loop again.
StartPass(n) ==
    /\ fresh[n] /\ pass[n] = None
    /\ fresh' = [fresh EXCEPT ![n] = FALSE]
    /\ LET a == assignment[n]
           existing == DOMAIN containers[n]
       IN  pass' = [pass EXCEPT ![n] =
              [kind |-> "pass", generation |-> a.generation, ids |-> Expected(a),
               remove |-> a.remove \cap existing,
               repair |-> Restrict(a.run, {id \in DOMAIN a.run \cap existing :
                                             containers[n][id].observed = "Failed"}),
               create |-> Restrict(a.run, DOMAIN a.run \ existing),
               failed |-> {}, remove_failed |-> {}]]
    /\ UNCHANGED <<inner, heartbeat, assignment, results, containers, gateway, scenario>>

\* list_managed fails: every id of the input is reported as failed.
InspectFails(n) ==
    /\ fresh[n] /\ pass[n] = None
    /\ Fault("inspect")
    /\ fresh' = [fresh EXCEPT ![n] = FALSE]
    /\ results' = [results EXCEPT ![n] =
          [generation |-> assignment[n].generation, ids |-> Expected(assignment[n]),
           failed |-> Expected(assignment[n]), remove_failed |-> {}]]
    /\ UNCHANGED <<inner, heartbeat, assignment, pass, containers, gateway>>

\* The Agent's parts that a step of its pass leaves alone.
PassOnly == UNCHANGED <<inner, heartbeat, assignment, fresh, results, gateway>>

Busy(n) == pass[n] # None
Removals(n) == IF Busy(n) THEN pass[n].remove ELSE {}
\* Assignments come after the removals.
Repairs(n) == IF Busy(n) /\ pass[n].remove = {} THEN DOMAIN pass[n].repair ELSE {}
Creations(n) == IF Busy(n) /\ pass[n].remove = {} THEN DOMAIN pass[n].create ELSE {}

Without(f, id) == Restrict(f, DOMAIN f \ {id})
With(f, id, v) == [i \in DOMAIN f \cup {id} |-> IF i = id THEN v ELSE f[i]]

RemoveContainer(n, id) ==
    /\ id \in Removals(n)
    /\ containers' = [containers EXCEPT ![n] = Without(@, id)]
    /\ pass' = [pass EXCEPT ![n].remove = @ \ {id}]
    /\ UNCHANGED scenario
    /\ PassOnly

RemoveFails(n, id) ==
    /\ id \in Removals(n)
    /\ Fault("remove")
    /\ pass' = [pass EXCEPT ![n].remove = @ \ {id}, ![n].failed = @ \cup {id},
                            ![n].remove_failed = @ \cup {id}]
    /\ UNCHANGED containers
    /\ PassOnly

\* A container that does not run is started, one that runs and fails its
\* checks is replaced.
StartContainer(n, id) ==
    /\ id \in Repairs(n) \cap DOMAIN containers[n]
    /\ containers' = [containers EXCEPT ![n][id].observed = "Starting"]
    /\ pass' = [pass EXCEPT ![n].repair = Without(@, id)]
    /\ UNCHANGED scenario
    /\ PassOnly

ReplaceContainer(n, id) ==
    /\ id \in Repairs(n) \cap DOMAIN containers[n]
    /\ containers' = [containers EXCEPT ![n] = Without(@, id)]
    /\ pass' = [pass EXCEPT ![n].repair = Without(@, id),
                            ![n].create = With(@, id, pass[n].repair[id])]
    /\ UNCHANGED scenario
    /\ PassOnly

\* A container that failed may fail again at once.
RepairFails(n, id) ==
    /\ id \in Repairs(n)
    /\ pass' = [pass EXCEPT ![n].repair = Without(@, id), ![n].failed = @ \cup {id}]
    /\ UNCHANGED <<containers, scenario>>
    /\ PassOnly

\* Docker refuses a published port that another container of the node binds.
PortFree(n, port) == port = 0 \/ \A c \in Range(containers[n]) : c.labels.port # port

CreateContainer(n, id) ==
    /\ id \in Creations(n)
    /\ PortFree(n, pass[n].create[id].port)
    /\ containers' = [containers EXCEPT ![n] =
          With(@, id, [observed |-> "Starting", labels |-> pass[n].create[id]])]
    /\ pass' = [pass EXCEPT ![n].create = Without(@, id)]
    /\ UNCHANGED scenario
    /\ PassOnly

CreateFails(n, id) ==
    /\ id \in Creations(n)
    /\ \/ ~PortFree(n, pass[n].create[id].port) /\ UNCHANGED scenario
       \/ Fault("create")
    /\ pass' = [pass EXCEPT ![n].create = Without(@, id), ![n].failed = @ \cup {id}]
    /\ UNCHANGED containers
    /\ PassOnly

\* publish_reconcile_results: the map holds exactly this pass's reports.
FinishPass(n) ==
    /\ Busy(n)
    /\ pass[n].remove \cup DOMAIN pass[n].repair \cup DOMAIN pass[n].create = {}
    /\ results' = [results EXCEPT ![n] =
          [generation |-> pass[n].generation, ids |-> pass[n].ids,
           failed |-> pass[n].failed, remove_failed |-> pass[n].remove_failed]]
    /\ pass' = [pass EXCEPT ![n] = None]
    /\ UNCHANGED <<inner, heartbeat, assignment, fresh, containers, gateway, scenario>>

\* The node process restarts: its containers and its Caddy go on.
AgentRestart(n) ==
    /\ Fault("agent")
    /\ heartbeat' = [heartbeat EXCEPT ![n] = None]
    /\ assignment' = [assignment EXCEPT ![n] = None]
    /\ fresh' = [fresh EXCEPT ![n] = FALSE]
    /\ pass' = [pass EXCEPT ![n] = None]
    /\ results' = [results EXCEPT ![n] = NoResults]
    /\ control' = [g \in Gateways |-> IF g = n THEN NoConfig ELSE control[g]]
    /\ applying' = [g \in Gateways |-> IF g = n THEN NoConfig ELSE applying[g]]
    /\ report' = [g \in Gateways |-> IF g = n THEN 0 ELSE report[g]]
    /\ UNCHANGED <<inner, containers, caddy>>

-----------------------------------------------------------------------------
(* The runtime's containers and the Gateways *)

BecomeHealthy(n, id) ==
    /\ id \in DOMAIN containers[n] /\ containers[n][id].observed = "Starting"
    /\ containers' = [containers EXCEPT ![n][id].observed = "Healthy"]
    /\ UNCHANGED <<inner, agent, gateway, scenario>>

ContainerFails(n, id) ==
    /\ id \in DOMAIN containers[n] /\ containers[n][id].observed # "Failed"
    /\ Fault("container")
    /\ containers' = [containers EXCEPT ![n][id].observed = "Failed"]
    /\ UNCHANGED <<inner, agent, gateway>>

\* NodeSupervisor::run takes up a changed control ...
StartApply(g) ==
    /\ applying[g] = NoConfig
    /\ control[g].generation # 0 /\ report[g] # control[g].generation
    /\ applying' = [applying EXCEPT ![g] = control[g]]
    /\ UNCHANGED <<inner, agent, containers, control, caddy, report, scenario>>

\* ... and reports when Caddy has loaded it.
FinishApply(g) ==
    /\ applying[g] # NoConfig
    /\ caddy' = [caddy EXCEPT ![g] = applying[g]]
    /\ report' = [report EXCEPT ![g] = applying[g].generation]
    /\ applying' = [applying EXCEPT ![g] = NoConfig]
    /\ UNCHANGED <<inner, agent, containers, control, scenario>>

\* Mutant of ApplyFails: the failure is reported like a success.
ApplyFailsUnnoticed(g) ==
    /\ applying[g] # NoConfig
    /\ Fault("gateway")
    /\ caddy' \in {caddy, [caddy EXCEPT ![g] = applying[g]]}
    /\ report' = [report EXCEPT ![g] = applying[g].generation]
    /\ applying' = [applying EXCEPT ![g] = NoConfig]
    /\ UNCHANGED <<inner, agent, containers, control>>

\* A failed reconcile_gateway may or may not have loaded the configuration;
\* its report names no generation.
ApplyFails(g) ==
    /\ applying[g] # NoConfig
    /\ Fault("gateway")
    /\ caddy' \in {caddy, [caddy EXCEPT ![g] = applying[g]]}
    /\ report' = [report EXCEPT ![g] = 0]
    /\ applying' = [applying EXCEPT ![g] = NoConfig]
    /\ UNCHANGED <<inner, agent, containers, control>>

-----------------------------------------------------------------------------
(* The specification *)

\* Every task runs, every Gateway serves the routes.
Init ==
    /\ \E s \in Scenarios :
          /\ inner = s.inner
          /\ scenario = [nodes |-> s.nodes, replicas |-> s.replicas, deployments |-> s.deployments,
                         faults |-> s.faults, left |-> s.left]
    /\ heartbeat = [n \in Nodes |-> None]
    /\ assignment = [n \in Nodes |-> Response(inner, n)]
    /\ fresh = [n \in Nodes |-> FALSE]
    /\ pass = [n \in Nodes |-> None]
    /\ results = [n \in Nodes |-> [generation |-> inner.generation, ids |-> On(inner, n),
                                   failed |-> {}, remove_failed |-> {}]]
    /\ containers = [n \in Nodes |-> [id \in On(inner, n) |->
                       [observed |-> inner.tasks[id].observed, labels |-> Labels(inner, id)]]]
    /\ control = [g \in Gateways |-> [generation |-> inner.gateway_generation,
                                      routes |-> inner.routes]]
    /\ applying = [g \in Gateways |-> NoConfig]
    /\ caddy = control
    /\ report = [g \in Gateways |-> inner.gateway_generation]

User ==
    \E s \in Services : Deploy(s) \/ Redeploy(s) \/ \E r \in scenario.replicas : ScaleService(s, r)

HeartbeatStep(n) == TakeInventory(n) \/ SendHeartbeat(n) \/ HandleHeartbeat(n)

PassStep(n) ==
    \/ StartPass(n) \/ FinishPass(n)
    \/ \E id \in TaskIds : \/ RemoveContainer(n, id) \/ CreateContainer(n, id) \/ CreateFails(n, id)
                           \/ StartContainer(n, id) \/ ReplaceContainer(n, id) \/ RepairFails(n, id)

ContainerStep(n) == \E id \in TaskIds : BecomeHealthy(n, id)

GatewayStep(g) == StartApply(g) \/ FinishApply(g)

Failure ==
    \/ ControllerRestart
    \/ \E n \in scenario.nodes :
                        \/ LoseHeartbeat(n) \/ LoseResponse(n) \/ FailCommit(n)
                        \/ NodeTimeout(n) \/ AgentRestart(n)
                        \/ InventoryFails(n) \/ InspectFails(n)
                        \/ \E s \in Services : UpdateNodeLabel(n, s)
                        \/ \E id \in TaskIds : RemoveFails(n, id) \/ ContainerFails(n, id)
    \/ \E g \in Gateways : ApplyFails(g)

Next ==
    \/ User \/ Tick \/ Failure
    \/ \E n \in scenario.nodes : HeartbeatStep(n) \/ PassStep(n) \/ ContainerStep(n)
    \/ \E g \in Gateways : GatewayStep(g)

Spec == Init /\ [][Next]_vars

-----------------------------------------------------------------------------
(* Properties *)

\* The drain protocol that Controller, Agents and Gateways implement together:
\* "drain" is its acknowledgement.  The number bounds nothing here.
Drain == INSTANCE GatewayDrain WITH
    Tasks <- TaskIds, MaxConfigs <- 99,
    routes <- inner.routes, generation <- inner.gateway_generation,
    draining <- {id \in DOMAIN inner.tasks : inner.tasks[id].desired = "Draining"
                                              /\ ~inner.tasks[id].drain},
    drained <- {id \in DOMAIN inner.tasks : inner.tasks[id].drain},
    reports <- inner.gateway_reports,
    sent <- [g \in Gateways |-> IF heartbeat[g] = None THEN 0 ELSE heartbeat[g].report]

\* Whatever the scheduler decides, and whatever fails except the Controller
\* itself, draining follows the protocol of GatewayDrain (retire_task,
\* refresh_ready_stack_routes, acknowledge_gateway_drains, finish_drains).
ImplementsDrain == Drain!Spec

LabelRecord == [service : Services, revision : Nat, slot : Nat, port : Nat, replicas : Nat]
ContainerRecord == [observed : {"Starting", "Healthy", "Failed"}, labels : LabelRecord]
Config == [generation : Nat, routes : SUBSET TaskIds]

\* The state keeps its shape: task records, containers and configurations stay
\* in their domains, and no id is ever allocated beyond TaskIds.
TypeOK ==
    /\ DOMAIN inner.tasks \subseteq TaskIds
    /\ \A id \in DOMAIN inner.tasks : inner.tasks[id] \in TaskRecord
    /\ inner.services \in [Services -> ServiceRecord]
    /\ inner.nodes \subseteq Nodes /\ inner.live \subseteq Nodes
    /\ inner.routes \subseteq TaskIds /\ inner.status \in {"Active", "Healthy", "Failed"}
    /\ \A n \in Nodes : /\ DOMAIN containers[n] \subseteq TaskIds
                         /\ Range(containers[n]) \subseteq ContainerRecord
                         /\ heartbeat[n].kind \in {"none", "inventory", "heartbeat"}
                         /\ results[n].failed \subseteq results[n].ids
    /\ \A g \in Gateways : {control[g], applying[g], caddy[g]} \subseteq Config

Healthy(id) == \E n \in Nodes : id \in DOMAIN containers[n] /\ containers[n][id].observed = "Healthy"

\* An Agent never removes a healthy container that some Caddy still sends
\* requests to: Draining lasts until every Gateway has accepted the routes
\* without the task (retire_task, acknowledge_gateway_drains, finish_drains).
DrainBeforeRemove ==
    [][\A n \in Nodes : \A id \in DOMAIN containers[n] \ DOMAIN containers'[n] :
          containers[n][id].observed = "Healthy" => \A g \in Gateways : id \notin caddy[g].routes]_vars

\* A start-first rollout never leaves a Gateway with fewer healthy upstreams
\* than the service has replicas (old_to_keep in reconcile_service).
ServingCapacity ==
    \A s \in Services : inner.services[s].max_surge > 0 => \A g \in Gateways :
        Cardinality({id \in caddy[g].routes : Healthy(id)}) >= inner.services[s].replicas

\* A deployment that is declared healthy is: every Gateway serves exactly the
\* replicas of the current revision, they run, and nothing obsolete does
\* (deployment_is_healthy, which only sees what was reported).
HealthyIsReal ==
    [][(inner.status = "Active" /\ inner'.status = "Healthy") =>
          /\ \A g \in Gateways : caddy[g].routes = Upstreams(inner')
          /\ \A n \in Nodes : DOMAIN containers[n] = On(inner', n)
          /\ \A id \in DOMAIN inner'.tasks : Healthy(id)]_vars

\* A rollout runs at most max_surge containers above the replica count: a
\* retired container keeps its place until its removal is acknowledged
\* (occupying in reconcile_service).
SurgeBound ==
    \A s \in Services :
        Cardinality({id \in TaskIds : \E n \in Nodes : /\ id \in DOMAIN containers[n]
                                                       /\ containers[n][id].labels.service = s})
            <= inner.services[s].replicas + inner.services[s].max_surge

\* When Tick, PassStep, ContainerStep and GatewayStep are enabled.
TickDue ==
    \E expired \in SUBSET Draining(inner) : Settle(FinishDrains(inner, expired), Taken) # {inner}
PassDue(n) == fresh[n] \/ Busy(n)
StartingOn(n) == \E id \in DOMAIN containers[n] : containers[n][id].observed = "Starting"
ApplyDue(g) == applying[g] # NoConfig \/ (control[g].generation # 0 /\ report[g] # control[g].generation)

\* What the code's loops guarantee: heartbeats go on for ever; ticks, passes and
\* Gateways are weakly fair, and so are containers on their way to be healthy.
\* Each action is named by what only it changes: apart from it only the user and
\* faults, which cease, do.
Fairness ==
    /\ []<>~TickDue \/ []<><<inner' # inner /\ UNCHANGED <<agent, containers, gateway>>>>_vars
    /\ \A n \in Nodes :
          /\ []<><<n \in scenario.nodes => heartbeat[n]' # heartbeat[n]>>_vars
          /\ []<>~PassDue(n) \/ []<><<pass[n]' # pass[n]>>_vars
          /\ []<>~StartingOn(n) \/ []<><<containers[n]' # containers[n] /\ UNCHANGED pass>>_vars
    /\ \A g \in Gateways : []<>~ApplyDue(g) \/ []<><<applying[g]' # applying[g]>>_vars

FairSpec == Spec /\ Fairness

\* The cluster serves what the user asked for: as many healthy containers of
\* the current revision as the service has replicas, no other container, and
\* every Gateway routes to exactly these.
Serving ==
    /\ \A s \in Services : /\ Cardinality(CurrentIds(inner, s)) = inner.services[s].replicas
                           /\ Of(inner, s) = CurrentIds(inner, s)
    /\ \A n \in Nodes : DOMAIN containers[n] = On(inner, n)
    /\ \A id \in DOMAIN inner.tasks : Healthy(id)
    /\ \A g \in Gateways : caddy[g].routes = DOMAIN inner.tasks

\* Once deployments and faults cease, the cluster comes to serve what was
\* asked for, and stays there: the Controller's control_loop, the Agents'
\* heartbeat and reconciliation loops and the Gateways never wait for one
\* another in a circle.
Convergence == <>[]Serving

\* A stop-first rollout frees one slot at a time: "stop-first updates
\* deliberately free one slot before starting its replacement"
\* (reconcile_service).
OneSlotAtATime ==
    \A s \in Services : inner.services[s].max_surge = 0 =>
        Cardinality(RunningIds(inner, s)) >= inner.services[s].replicas - 1

\* No two tasks of the current revision that are to run share a slot, whether
\* schedule_task made them or adopt_unclaimed_tasks took them over.
UniqueSlots ==
    \A s \in Services : \A i, j \in CurrentIds(inner, s) :
        inner.tasks[i].slot = inner.tasks[j].slot => i = j

\* As long as no replica count is lowered and no label changed, an Agent
\* removes a healthy container only when a newer revision replaces it: lost
\* messages, failed inventories and restarts delete nothing (heartbeat,
\* reconcile_containers_with_progress).
OnlyObsoleteRemoved ==
    [][\A n \in Nodes : \A id \in DOMAIN containers[n] \ DOMAIN containers'[n] :
          containers[n][id].observed = "Healthy" =>
             containers[n][id].labels.revision < inner.services[containers[n][id].labels.service].revision]_vars

=============================================================================
