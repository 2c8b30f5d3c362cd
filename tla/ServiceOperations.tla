-------------------------- MODULE ServiceOperations --------------------------
(***************************************************************************)
(* Rolling restarts and "restart --pull" of a service: the Controller's    *)
(* operation records (controller/service_operations.rs), their place in    *)
(* deployments (controller/deployment.rs) and heartbeats, and the Agent's  *)
(* durable restart ledger (swarmlite-platform: runtime.rs, local_state.rs).*)
(*                                                                         *)
(* One Stack with one service.  An operation is a position in ctl.ops; a   *)
(* task keeps the number of its replica.  How a deployment rolls out is    *)
(* the subject of Cluster: here a task moves to the new revision in one    *)
(* step, and a deployment is healthy, stalled or failed.  An image that an *)
(* administrator's deployment resolves (Deployments) is known at once, and *)
(* the number of replicas does not change.                                 *)
(***************************************************************************)
EXTENDS Naturals, Sequences

CONSTANTS
    Nodes,         \* nodes that joined
    RestartWindow, \* stop_grace_period + 120 s
    PrepareWindow, \* 15 minutes
    RateWindow,    \* one second
    Retention,     \* 90 days
    Bounds         \* the small instances: the nodes, where the replicas run at
                   \* first, Agents that do not support operations, the
                   \* requests there may be, and bounds on time and events

VARIABLES
    bound,    \* which of Bounds, fixed from the start
    now,      \* unix_ms()
    registry, \* the image id the tag stands for
    ctl,      \* Controller: service, deployment, operations, tasks, live nodes
    token,    \* the deploy token: "active", "revoked"
    starting, \* start_prepared_service_operation, outside the mutex
    agent,    \* per Agent, volatile: input, pass, results, image results
    net,      \* per Agent: the heartbeat being put together or in flight
    ledger,   \* durable: service_operation_attempts, by operation and replica
    docker,   \* restart requests the daemons are handling
    cont,     \* the container of each replica
    asked,    \* history: restart requests issued, by operation and replica
    events    \* faults and requests so far

vars == <<bound, now, registry, ctl, token, starting, agent, net, ledger, docker,
          cont, asked, events>>

Replicas == DOMAIN bound.home
None == 0
Silent == [stage |-> "silent"]
Idle == [pc |-> "idle"]
NoRestart == [op |-> None]
Disturb == events < bound.events /\ events' = events + 1

-----------------------------------------------------------------------------
(* Operation records *)

active(o) == o.status \in {"queued", "running"}
deployment_active(c) == c.deployment.status \in {"reconciling", "stalled", "blocked"}

fail(o) == [o EXCEPT !.status = "failed", !.finished = now]
\* Mutant of succeed: the phase is taken for the status.
succeedPhase(o) == [o EXCEPT !.status = "complete", !.finished = now]

succeed(o) == [o EXCEPT !.status = "succeeded", !.finished = now]

\* ServiceOperationRecord::pins_images
pins_images(c, o) ==
    /\ o.kind = "pull"
    /\ \/ active(o)
       \/ o.dgen # None /\ ~c.deleted /\ c.rev = o.target

\* ServiceOperationRecord::restarting_task
restarting_task(o, r) == active(o) /\ o.kind = "restart" /\ ~o.tasks[r].completed

\* candidate_nodes: live nodes with a record; all of them must support operations.
candidate_nodes(c) == c.live \cap c.known
Unsupported(c) == candidate_nodes(c) \cap bound.old # {}

\* The first target that is not completed, in the order of op.tasks.
First(S) == CHOOSE r \in S : \A q \in S : r <= q
Pending(o) == {r \in Replicas : ~o.tasks[r].completed}
\* Mutant of Current: the next target does not wait for the health of this one.
CurrentUnstarted(o) ==
    LET unstarted == {r \in Replicas : ~o.tasks[r].restarted}
    IN  First(IF unstarted = {} THEN Pending(o) ELSE unstarted)

Current(o) == First(Pending(o))

\* Mutant of Timed: a target gets no deadline.
TimedNever(t) == t

Timed(t) == [t EXCEPT !.deadline = IF t.deadline = None THEN now + RestartWindow ELSE t.deadline]

\* advance_service_operations_locked, a restart: give the current target its
\* deadline, fail it, or complete it when it is seen healthy again.
AdvanceRestart(c, o) ==
    LET r == Current(o)
        t == o.tasks[r]
        task == c.tasks[r]
        unavailable == \/ t.node \notin c.live \/ task.desired # "running"
                       \/ task.container \notin {None, t.container}
        late == t.deadline # None /\ now >= t.deadline
        well == /\ t.restarted /\ task.container = t.container
                /\ task.image = t.image /\ task.observed = "healthy"
        next == [o EXCEPT !.tasks[r] = [Timed(t) EXCEPT !.completed = well]]
    IN  IF unavailable \/ late THEN fail(o)
        ELSE IF Pending(next) = {} THEN succeed(next) ELSE next

\* advance_service_operations_locked, a redeployment: follow its deployment, or
\* give up preparing its images.
AdvancePull(c, o) ==
    IF o.dgen # None
    THEN IF c.deployment.gen # o.dgen THEN fail(o)
         ELSE CASE c.deployment.status = "healthy" -> succeed(o)
                [] c.deployment.status = "failed" -> fail(o)
                [] OTHER -> o
    ELSE IF now > o.created + PrepareWindow THEN fail(o) ELSE o

AdvanceOne(c, o) ==
    LET o1 == IF ~pins_images(c, o) THEN o
              ELSE IF ~Unsupported(c) THEN [o EXCEPT !.prep = o.prep \cup candidate_nodes(c)]
              ELSE IF o.dgen = None THEN fail(o) ELSE o
        o2 == [o1 EXCEPT !.status = "running"]
    IN  IF ~active(o1) THEN o1
        ELSE IF o.kind = "restart" THEN AdvanceRestart(c, o2) ELSE AdvancePull(c, o2)

\* advance_service_operations_locked, its end: what is kept no longer is "gone".
Kept(c, o) ==
    IF ~active(o) /\ ~pins_images(c, o) /\ now >= o.finished + Retention
    THEN [o EXCEPT !.status = "gone"] ELSE o

Advance(c) ==
    [c EXCEPT !.ops = [i \in DOMAIN c.ops |->
        IF c.ops[i].status = "gone" THEN c.ops[i] ELSE Kept(c, AdvanceOne(c, c.ops[i]))]]

\* scheduler::reconcile leaves the tasks of a restarting service alone; other
\* tasks of dead nodes are stopped.
Reconcile(c) ==
    [c EXCEPT !.tasks = [r \in Replicas |->
        IF c.tasks[r].node \in c.live THEN c.tasks[r] ELSE [c.tasks[r] EXCEPT !.desired = "stopped"]]]

\* refresh_stack_deployments: all tasks run the current revision and are healthy.
Refresh(c) ==
    [c EXCEPT !.deployment.status =
        IF deployment_active(c) /\ (c.deleted \/ \A r \in Replicas :
              /\ c.tasks[r].rev = c.rev /\ c.tasks[r].desired = "running"
              /\ c.tasks[r].observed = "healthy")
        THEN "healthy" ELSE c.deployment.status]

Settle(c) == Advance(Refresh(Reconcile(Advance(c))))

-----------------------------------------------------------------------------
(* Requests *)

\* Mutant of Known: only operations that go on are looked up.
KnownActive(who, key) ==
    {i \in DOMAIN ctl.ops : /\ active(ctl.ops[i])
                            /\ ctl.ops[i].principal = who /\ ctl.ops[i].key = key}

\* submit_service_operation: the operation accepted under this key.
Known(who, key) ==
    {i \in DOMAIN ctl.ops : /\ ctl.ops[i].status # "gone"
                            /\ ctl.ops[i].principal = who /\ ctl.ops[i].key = key}

\* Mutant of Free: a deployment in progress does not matter.
FreeOfOperations(c) == \A i \in DOMAIN c.ops : ~active(c.ops[i])

Free(c) == (\A i \in DOMAIN c.ops : ~active(c.ops[i])) /\ ~deployment_active(c)

\* submit_service_operation: every replica must be a task of the current revision
\* that was seen on a live node whose Agent supports operations.
Executable(c) ==
    \A r \in Replicas :
        /\ c.tasks[r].rev = c.rev /\ c.tasks[r].desired = "running"
        /\ c.tasks[r].node \in (c.live \cap c.known) \ bound.old
        /\ c.tasks[r].container # None

Targets(c) ==
    [r \in Replicas |-> [node |-> c.tasks[r].node, container |-> c.tasks[r].container,
                         image |-> c.tasks[r].image, restarted |-> FALSE,
                         completed |-> FALSE, deadline |-> None]]

\* submit_service_operation, with deploy_principal: an administrator or the
\* bearer of a token that was not revoked, who may only redeploy.  A known key
\* gets the operation it was accepted with and changes nothing.
Submit(who, kind, key) ==
    /\ Len(ctl.ops) < bound.ops
    /\ who = "token" => token = "active" /\ kind = "pull"
    /\ Known(who, key) = {}
    /\ ~ctl.deleted /\ Free(ctl) /\ Executable(ctl)
    /\ \A i \in DOMAIN ctl.ops : ctl.ops[i].principal = who /\ ctl.ops[i].status # "gone"
                                   => now >= ctl.ops[i].created + RateWindow
    /\ kind = "pull" => ~Unsupported(ctl)
    /\ ctl' = [ctl EXCEPT
          !.generation = @ + 1,
          !.ops = Append(@,
             [kind |-> kind, status |-> "queued", principal |-> who, key |-> key,
              generation |-> ctl.generation + 1, dgen |-> None, created |-> now, finished |-> now,
              target |-> IF kind = "pull" THEN ctl.rev + 1 ELSE ctl.rev, image |-> ctl.image,
              tasks |-> Targets(ctl), prep |-> IF kind = "pull" THEN candidate_nodes(ctl) ELSE {},
              prepared |-> <<>>])]
    /\ UNCHANGED <<bound, now, registry, token, starting, agent, net, ledger, docker, cont, asked, events>>

\* revoke_deploy_token
Revoke ==
    /\ token = "active" /\ Disturb
    /\ token' = "revoked"
    /\ UNCHANGED <<bound, now, registry, ctl, starting, agent, net, ledger, docker, cont, asked>>

\* service_update_plan: a service that is the same is only verified and keeps its
\* revision.  changed is whatever else bumps it: another field of the service, its
\* routed ports, a forced update, or a new image that the deployment resolves.
Bumps(image, changed) == ctl.deleted \/ image # ctl.image \/ changed

\* apply_guarded, from an administrator's deployment: it fails the operations it
\* replaces.  With replace it also supersedes a deployment in progress.
Apply(replace, image, changed, deleted) ==
    /\ Disturb /\ starting.pc # "guarded"
    /\ replace \/ Free(ctl)
    /\ ctl' = Refresh(Reconcile([ctl EXCEPT
          !.generation = @ + 1, !.rev = IF ~deleted /\ Bumps(image, changed) THEN @ + 1 ELSE @,
          !.image = image, !.deleted = deleted,
          !.deployment = [gen |-> ctl.generation + 1, status |-> "reconciling"],
          !.ops = [i \in DOMAIN ctl.ops |->
                     IF active(ctl.ops[i]) THEN fail(ctl.ops[i]) ELSE ctl.ops[i]]]))
    /\ UNCHANGED <<bound, now, registry, token, starting, agent, net, ledger, docker, cont, asked>>

\* retry_stack_deployment: also its failed operation goes on.
Retry ==
    /\ Disturb /\ starting.pc # "guarded"
    /\ ~\E i \in DOMAIN ctl.ops : active(ctl.ops[i]) /\ ctl.ops[i].dgen = None
    /\ ctl.deployment.status \in {"stalled", "blocked", "failed"}
    /\ ctl' = [ctl EXCEPT
          !.generation = @ + 1, !.deployment.status = "reconciling",
          !.ops = [i \in DOMAIN ctl.ops |->
                     IF ctl.ops[i].dgen = ctl.deployment.gen /\ ctl.ops[i].status = "failed"
                     THEN [ctl.ops[i] EXCEPT !.status = "running"] ELSE ctl.ops[i]]]
    /\ UNCHANGED <<bound, now, registry, token, starting, agent, net, ledger, docker, cont, asked>>

\* refresh_stack_deployments: the deployment makes no progress, or fails.
DeploymentSuffers(status) ==
    /\ deployment_active(ctl) /\ Disturb
    /\ ctl' = Advance([ctl EXCEPT !.deployment.status = status])
    /\ UNCHANGED <<bound, now, registry, token, starting, agent, net, ledger, docker, cont, asked>>

-----------------------------------------------------------------------------
(* The Controller's loop *)

\* start_prepared_service_operation: an operation whose images are everywhere.
Ready(c) ==
    {i \in DOMAIN c.ops : /\ active(c.ops[i]) /\ c.ops[i].kind = "pull" /\ c.ops[i].dgen = None
                          /\ c.ops[i].prep # {} /\ c.ops[i].prep \subseteq DOMAIN c.ops[i].prepared}

\* tick: reconcile and commit, then unlock and look for a prepared operation.
Tick ==
    /\ starting = Idle
    /\ ctl' = Settle(ctl)
    /\ starting' \in IF Ready(ctl') = {} THEN {Idle}
                     ELSE {[pc |-> "found", op |-> i] : i \in Ready(ctl')}
    /\ <<ctl, starting>>' # <<ctl, starting>>
    /\ UNCHANGED <<bound, now, registry, token, agent, net, ledger, docker, cont, asked, events>>

\* What an operation was accepted for is still there.
Unchanged(c, o) == active(o) /\ o.dgen = None /\ o.target = c.rev + 1 /\ o.image = c.image

\* apply_prepared_service_operation: a first look under the mutex, then the
\* guard of the Stack.  A removed service fails the operation, if it is kept.
CheckPrepared ==
    /\ starting.pc = "found"
    /\ LET o == ctl.ops[starting.op]
       IN  IF ctl.deleted
           THEN /\ starting' = Idle
                /\ ctl' = [ctl EXCEPT !.ops[starting.op] = IF o.status = "gone" THEN o ELSE fail(o)]
           ELSE /\ starting' = IF Unchanged(ctl, o) THEN [pc |-> "guarded", op |-> starting.op] ELSE Idle
                /\ UNCHANGED ctl
    /\ UNCHANGED <<bound, now, registry, token, agent, net, ledger, docker, cont, asked, events>>

\* Mutant of StillAsAccepted: what was seen before the guard is believed.
StillAsAcceptedBefore(c, o) == ~deployment_active(c)

\* apply_guarded for a prepared operation: all is looked at again.
StillAsAccepted(c, o) ==
    /\ Unchanged(c, o) /\ ~deployment_active(c)
    /\ \A i \in DOMAIN c.ops : active(c.ops[i]) => c.ops[i] = o

ApplyPrepared ==
    /\ starting.pc = "guarded"
    /\ starting' = Idle
    /\ LET o == ctl.ops[starting.op]
           c == [ctl EXCEPT !.generation = @ + 1, !.rev = @ + 1,
                            !.deployment = [gen |-> ctl.generation + 1, status |-> "reconciling"],
                            !.ops[starting.op].dgen = ctl.generation + 1]
       IN  ctl' = IF StillAsAccepted(ctl, o) THEN Refresh(Reconcile(c)) ELSE ctl
    /\ UNCHANGED <<bound, now, registry, token, agent, net, ledger, docker, cont, asked, events>>

\* A deadline of an operation that goes on is still to come.
Awaited(o) ==
    /\ active(o) /\ o.dgen = None
    /\ IF o.kind = "pull" THEN now <= o.created + PrepareWindow
       ELSE \E r \in Replicas : o.tasks[r].deadline > now

ClockDue == \E i \in DOMAIN ctl.ops : Awaited(ctl.ops[i])

\* The clock is bounded, except that it reaches every deadline that was set.
Clock ==
    /\ now < bound.time \/ ClockDue
    /\ now' = now + 1
    /\ UNCHANGED <<bound, registry, ctl, token, starting, agent, net, ledger, docker, cont, asked, events>>

\* current_live_nodes
NodeTimesOut(n) ==
    /\ n \in ctl.live /\ Disturb
    /\ ctl' = [ctl EXCEPT !.live = @ \ {n}]
    /\ UNCHANGED <<bound, now, registry, token, starting, agent, net, ledger, docker, cont, asked>>

\* Controller::new: operations are durable; what was observed of tasks is not.
RestartController ==
    /\ Disturb
    /\ ctl' = [ctl EXCEPT !.known = {}, !.live = {ctl.tasks[r].node : r \in Replicas},
                          !.tasks = [r \in Replicas |-> [ctl.tasks[r] EXCEPT
                             !.container = None, !.image = None, !.observed = "pending"]]]
    /\ starting' = Idle
    /\ net' = [n \in Nodes |-> Silent]
    /\ UNCHANGED <<bound, now, registry, token, agent, ledger, docker, cont, asked>>

-----------------------------------------------------------------------------
(* Heartbeats *)

On(n) == {r \in Replicas : cont[r].node = n}

\* The Agent's loop lists the containers first and adds the results when it sends.
TakeInventory(n) ==
    /\ net[n] = Silent
    /\ net' = [net EXCEPT ![n] = [stage |-> "listed", inventory |->
                 [r \in On(n) |-> [container |-> cont[r].id, image |-> cont[r].image,
                                   observed |-> IF cont[r].healthy THEN "healthy" ELSE "starting"]]]]
    /\ UNCHANGED <<bound, now, registry, ctl, token, starting, agent, ledger, docker, cont, asked, events>>

SendHeartbeat(n) ==
    /\ net[n].stage = "listed"
    /\ net' = [net EXCEPT ![n] = [stage |-> "sent", inventory |-> net[n].inventory,
                                  results |-> agent[n].results, pulled |-> agent[n].pulled]]
    /\ UNCHANGED <<bound, now, registry, ctl, token, starting, agent, ledger, docker, cont, asked, events>>

Lose(n) ==
    /\ net[n].stage = "sent" /\ Disturb
    /\ net' = [net EXCEPT ![n] = Silent]
    /\ UNCHANGED <<bound, now, registry, ctl, token, starting, agent, ledger, docker, cont, asked>>

\* heartbeat: what the inventory says of the node's tasks.
Observed(c, n, inventory) ==
    [c EXCEPT !.live = @ \cup {n}, !.known = @ \cup {n},
              !.tasks = [r \in Replicas |->
                 IF c.tasks[r].node = n /\ r \in DOMAIN inventory
                 THEN [c.tasks[r] EXCEPT !.container = inventory[r].container,
                                         !.image = inventory[r].image,
                                         !.observed = inventory[r].observed]
                 ELSE c.tasks[r]]]

\* The operation a restart result belongs to.
Matches(c, n, x) ==
    {i \in DOMAIN c.ops : /\ active(c.ops[i]) /\ c.ops[i].kind = "restart"
                          /\ c.ops[i].generation = x.generation
                          /\ c.ops[i].tasks[x.replica].node = n
                          /\ c.ops[i].tasks[x.replica].deadline # None
                          /\ ~c.ops[i].tasks[x.replica].completed}

\* Mutant of Unseen: the health in this heartbeat counts.
UnseenNever(tasks, restarted) == tasks

\* The inventory may have been taken before the restart: health must be seen again.
Unseen(tasks, restarted) ==
    [r \in Replicas |-> IF r \in restarted THEN [tasks[r] EXCEPT !.observed = "starting"] ELSE tasks[r]]

\* heartbeat: the results of restarts.
Results(c, n, results) ==
    LET hit == {x \in results : Matches(c, n, x) # {}}
        Mine(i) == {x \in hit : i \in Matches(c, n, x)}
        restarted == {x.replica : x \in {y \in hit : y.ok /\ \A i \in Matches(c, n, y) :
                                                         ~c.ops[i].tasks[y.replica].restarted}}
    IN  [c EXCEPT
           !.ops = [i \in DOMAIN c.ops |->
              IF \E x \in Mine(i) : ~x.ok THEN fail(c.ops[i])
              ELSE [c.ops[i] EXCEPT !.tasks = [r \in Replicas |->
                      IF \E x \in Mine(i) : x.replica = r
                      THEN [c.ops[i].tasks[r] EXCEPT !.restarted = TRUE] ELSE c.ops[i].tasks[r]]]],
           !.tasks = Unseen(c.tasks, restarted)]

\* heartbeat: the results of image preparation, with None for an error.
Prepared(o, n, pulled) ==
    LET mine == {x \in pulled : x.generation = o.generation}
        x == CHOOSE x \in mine : TRUE
    IN  IF \/ o.kind # "pull" \/ n \notin o.prep \/ n \in DOMAIN o.prepared
           \/ mine = {} \/ o.status = "gone"
        THEN o
        ELSE IF x.image # None
        THEN [o EXCEPT !.prepared = [m \in DOMAIN o.prepared \cup {n} |->
                                        IF m = n THEN x.image ELSE o.prepared[m]]]
        ELSE IF o.dgen = None THEN fail(o) ELSE o

Pulled(c, n, pulled) ==
    [c EXCEPT !.ops = [i \in DOMAIN c.ops |-> Prepared(c.ops[i], n, pulled)]]

\* heartbeat: only the current target is to be executed.
Execute(o, r) == r = Current(o) /\ o.tasks[r].deadline # None

\* The response: the restart of a task on this node, and images to prepare.
Restarts(c, n) ==
    {p \in (DOMAIN c.ops) \X Replicas :
        /\ restarting_task(c.ops[p[1]], p[2]) /\ c.tasks[p[2]].node = n
        /\ Execute(c.ops[p[1]], p[2])}

Assignment(c, p) ==
    [op |-> p[1], replica |-> p[2], generation |-> c.ops[p[1]].generation,
     container |-> c.ops[p[1]].tasks[p[2]].container, image |-> c.ops[p[1]].tasks[p[2]].image,
     deadline |-> c.ops[p[1]].tasks[p[2]].deadline]

Images(c, n) ==
    {c.ops[i].generation : i \in {j \in DOMAIN c.ops :
        /\ c.ops[j].status # "gone" /\ pins_images(c, c.ops[j]) /\ n \notin bound.old
        /\ n \in c.ops[j].prep /\ n \notin DOMAIN c.ops[j].prepared}}

\* The Agent takes the response; a changed input wakes its loop.  Image results
\* are kept while they are asked for, task results until they are replaced.
Receive(n, restarts, images) ==
    agent' = [agent EXCEPT
        ![n].input = restarts, ![n].dirty = agent[n].dirty \/ restarts # agent[n].input,
        ![n].images = images, ![n].pulled = {x \in agent[n].pulled : x.generation \in images}]

HandleHeartbeat(n) ==
    /\ net[n].stage = "sent"
    /\ LET m == net[n]
           c == Settle(Pulled(Results(Observed(ctl, n, m.inventory), n, m.results), n, m.pulled))
       IN  /\ ctl' = c
           /\ \/ /\ Receive(n, {Assignment(c, p) : p \in Restarts(c, n)}, Images(c, n))
                 /\ UNCHANGED events
              \/ Disturb /\ UNCHANGED agent
    /\ net' = [net EXCEPT ![n] = Silent]
    /\ UNCHANGED <<bound, now, registry, token, starting, ledger, docker, cont, asked>>

-----------------------------------------------------------------------------
(* The Agent: restart_task and resolve_image *)

Result(a, ok) == [generation |-> a.generation, replica |-> a.replica, ok |-> ok]

\* The pass ends: publish_reconcile_results keeps this result.
Finish(n, a, ok) ==
    agent' = [agent EXCEPT ![n].pass = Idle, ![n].results = {Result(a, ok)}]

\* restart_task: inspect the target; it must be the container that was meant.
Inspect(n) ==
    /\ agent[n].pass = Idle /\ agent[n].dirty
    /\ IF agent[n].input = {}
       THEN agent' = [agent EXCEPT ![n].dirty = FALSE, ![n].results = {}]
       ELSE \E a \in agent[n].input :
               agent' = [agent EXCEPT ![n].dirty = FALSE,
                   ![n].pass = IF cont[a.replica].id = a.container /\ cont[a.replica].image = a.image
                               THEN [pc |-> "inspected", a |-> a, started |-> cont[a.replica].started]
                               ELSE [pc |-> "changed", a |-> a]]
    /\ UNCHANGED <<bound, now, registry, ctl, token, starting, net, ledger, docker, cont, asked, events>>

Reject(n) ==
    /\ agent[n].pass.pc = "changed"
    /\ Finish(n, agent[n].pass.a, FALSE)
    /\ UNCHANGED <<bound, now, registry, ctl, token, starting, net, ledger, docker, cont, asked, events>>

Key(a) == <<a.op, a.replica>>

\* Mutant of Claims: an attempt of which nothing is known is made again.
ClaimsAgain(a) == Key(a) \notin DOMAIN ledger \/ ledger[Key(a)].outcome = "none"

\* claim_service_restart: INSERT OR IGNORE.
Claims(a) == Key(a) \notin DOMAIN ledger

\* restart_task: claim the attempt, or report what is known of an earlier one.
Claim(n) ==
    /\ agent[n].pass.pc = "inspected"
    /\ LET a == agent[n].pass.a
           started == agent[n].pass.started
           row == ledger[Key(a)]
           ok == row.outcome = "succeeded" \/ (row.outcome = "none" /\ row.before # started)
       IN  IF Claims(a)
           THEN /\ ledger' = [k \in DOMAIN ledger \cup {Key(a)} |->
                                IF k = Key(a) THEN [before |-> started, outcome |-> "none"] ELSE ledger[k]]
                /\ agent' = [agent EXCEPT ![n].pass = [pc |-> "claimed", a |-> a, started |-> started]]
           ELSE /\ ledger' = [ledger EXCEPT ![Key(a)].outcome =
                                IF @ # "none" THEN @ ELSE IF ok THEN "succeeded" ELSE "unknown"]
                /\ Finish(n, a, ok)
    /\ UNCHANGED <<bound, now, registry, ctl, token, starting, net, docker, cont, asked, events>>

\* restart_task: an expired attempt is given up, any other is sent to the daemon.
Request(n) ==
    /\ agent[n].pass.pc = "claimed"
    /\ LET a == agent[n].pass.a
       IN  IF now >= a.deadline
           THEN /\ ledger' = [ledger EXCEPT ![Key(a)].outcome = "expired"]
                /\ Finish(n, a, FALSE)
                /\ UNCHANGED <<docker, asked>>
           ELSE /\ docker' = docker \cup {[replica |-> a.replica, container |-> a.container]}
                /\ asked' = [asked EXCEPT ![Key(a)] = @ + 1]
                /\ agent' = [agent EXCEPT ![n].pass = [pc |-> "requested", a |-> a, started |-> @.started]]
                /\ UNCHANGED ledger
    /\ UNCHANGED <<bound, now, registry, ctl, token, starting, net, cont, events>>

\* restart_task: the daemon answered or time is up; only a new start is success.
Confirm(n) ==
    /\ agent[n].pass.pc = "requested"
    /\ LET a == agent[n].pass.a
           well == /\ cont[a.replica].id = a.container /\ cont[a.replica].image = a.image
                   /\ cont[a.replica].started # agent[n].pass.started
       IN  /\ (\A q \in docker : q.replica # a.replica) \/ now >= a.deadline
           /\ \E ok \in {well, FALSE} :
                 /\ IF ok = well THEN UNCHANGED events ELSE Disturb
                 /\ ledger' = [ledger EXCEPT ![Key(a)].outcome = IF ok THEN "succeeded" ELSE "unknown"]
                 /\ Finish(n, a, ok)
    /\ UNCHANGED <<bound, now, registry, ctl, token, starting, net, docker, cont, asked>>

\* reconcile_images: resolve_image pulls the tag, or fails.
Pull(n) ==
    /\ agent[n].pass = Idle
    /\ \E g \in agent[n].images \ {x.generation : x \in agent[n].pulled} :
          \E image \in {registry, None} :
             /\ IF image = None THEN Disturb ELSE UNCHANGED events
             /\ agent' = [agent EXCEPT ![n].pulled = @ \cup {[generation |-> g, image |-> image]}]
    /\ UNCHANGED <<bound, now, registry, ctl, token, starting, net, ledger, docker, cont, asked>>

\* Another part of the input changes, and the loop runs again.
Wake(n) ==
    /\ ~agent[n].dirty /\ agent[n].input # {} /\ Disturb
    /\ agent' = [agent EXCEPT ![n].dirty = TRUE]
    /\ UNCHANGED <<bound, now, registry, ctl, token, starting, net, ledger, docker, cont, asked>>

NewAgent == [input |-> {}, dirty |-> FALSE, pass |-> Idle, results |-> {}, images |-> {}, pulled |-> {}]

\* run_with_runtime, after a crash: only the ledger is left.
RestartAgent(n) ==
    /\ agent[n] # NewAgent /\ Disturb
    /\ agent' = [agent EXCEPT ![n] = NewAgent]
    /\ net' = [net EXCEPT ![n] = Silent]
    /\ UNCHANGED <<bound, now, registry, ctl, token, starting, ledger, docker, cont, asked>>

-----------------------------------------------------------------------------
(* Daemons, containers and the registry *)

\* A restart request is carried out, or refused.
DaemonRestarts(q) ==
    /\ q \in docker
    /\ docker' = docker \ {q}
    /\ cont' = IF cont[q.replica].id = q.container
               THEN [cont EXCEPT ![q.replica].started = @ + 1, ![q.replica].healthy = FALSE] ELSE cont
    /\ UNCHANGED <<bound, now, registry, ctl, token, starting, agent, net, ledger, asked, events>>

DaemonRefuses(q) ==
    /\ q \in docker /\ Disturb
    /\ docker' = docker \ {q}
    /\ UNCHANGED <<bound, now, registry, ctl, token, starting, agent, net, ledger, cont, asked>>

BecomeHealthy(r) ==
    /\ ~cont[r].healthy
    /\ cont' = [cont EXCEPT ![r].healthy = TRUE, ![r].lastHealthy = cont[r].started]
    /\ UNCHANGED <<bound, now, registry, ctl, token, starting, agent, net, ledger, docker, asked, events>>

\* The container exits and its restart policy starts it again.
Crash(r) ==
    /\ Disturb
    /\ cont' = [cont EXCEPT ![r].started = @ + 1, ![r].healthy = FALSE]
    /\ UNCHANGED <<bound, now, registry, ctl, token, starting, agent, net, ledger, docker, asked>>

\* The tag moves to another image.
Push ==
    /\ Disturb
    /\ registry' = registry + 1
    /\ UNCHANGED <<bound, now, ctl, token, starting, agent, net, ledger, docker, cont, asked>>

\* The operation whose images the current revision must use.
Pinning(c) ==
    {i \in DOMAIN c.ops : c.ops[i].status # "gone" /\ c.ops[i].kind = "pull"
                           /\ c.ops[i].target = c.rev /\ c.ops[i].dgen # None}

\* Mutant of Placements: any live node will do.
PlacementsAnywhere(c) == {[node |-> n, image |-> registry] : n \in c.live \cap c.known}

\* schedule_task and the assignment: with a pinning operation only on nodes that
\* prepared the image, and with that image.
Placements(c) ==
    LET nodes == c.live \cap c.known
    IN  IF Pinning(c) = {} THEN {[node |-> n, image |-> registry] : n \in nodes}
        ELSE LET o == c.ops[CHOOSE i \in Pinning(c) : TRUE]
             IN  {[node |-> n, image |-> o.prepared[n]] :
                     n \in (nodes \cap DOMAIN o.prepared) \ bound.old}

\* A task is replaced by one of the current revision (see Cluster), which is seen
\* with a later heartbeat.
Replace(r) ==
    /\ ~ctl.deleted
    /\ ctl.tasks[r].rev # ctl.rev \/ ctl.tasks[r].desired # "running"
    /\ ~\E i \in DOMAIN ctl.ops : active(ctl.ops[i]) /\ ctl.ops[i].kind = "restart"
    /\ \E p \in Placements(ctl) :
          /\ cont' = [cont EXCEPT ![r] = [id |-> @.id + 1, node |-> p.node, image |-> p.image,
                                          started |-> 1, healthy |-> FALSE, lastHealthy |-> 0]]
          /\ ctl' = [ctl EXCEPT !.tasks[r] = [rev |-> ctl.rev, node |-> p.node, desired |-> "running",
                                              container |-> None, image |-> None, observed |-> "pending"]]
    /\ UNCHANGED <<bound, now, registry, token, starting, agent, net, ledger, docker, asked, events>>

-----------------------------------------------------------------------------

Init ==
    /\ bound \in Bounds
    /\ now = 0 /\ registry = 1
    /\ ctl = [rev |-> 1, image |-> 1, deleted |-> FALSE, generation |-> 1,
              deployment |-> [gen |-> 1, status |-> "healthy"], ops |-> <<>>,
              live |-> bound.nodes, known |-> bound.nodes,
              tasks |-> [r \in Replicas |-> [rev |-> 1, node |-> bound.home[r], desired |-> "running",
                                             container |-> 1, image |-> 1, observed |-> "healthy"]]]
    /\ token = "active" /\ starting = Idle
    /\ agent = [n \in Nodes |-> NewAgent]
    /\ net = [n \in Nodes |-> Silent]
    /\ ledger = <<>> /\ docker = {}
    /\ cont = [r \in Replicas |-> [id |-> 1, node |-> bound.home[r], image |-> 1, started |-> 1,
                                    healthy |-> TRUE, lastHealthy |-> 1]]
    /\ asked = [k \in (1..bound.ops) \X Replicas |-> 0]
    /\ events = 0

Requests ==
    \/ \E who \in bound.who, kind \in bound.kinds, key \in bound.keys : Submit(who, kind, key)
    \/ bound.deploys /\ \E replace, other, changed, deleted \in BOOLEAN :
          Apply(replace, IF other THEN 3 - ctl.image ELSE ctl.image, changed, deleted)
    \/ Retry \/ Revoke
    \/ \E status \in {"stalled", "failed"} : DeploymentSuffers(status)

Loop == Tick \/ CheckPrepared \/ ApplyPrepared

AgentStep(n) ==
    \/ TakeInventory(n) \/ SendHeartbeat(n) \/ HandleHeartbeat(n) \/ Lose(n)
    \/ Inspect(n) \/ Reject(n) \/ Claim(n) \/ Request(n) \/ Confirm(n) \/ Pull(n)
    \/ Wake(n) \/ RestartAgent(n)

Next ==
    \/ Requests \/ Loop \/ Clock \/ RestartController \/ Push
    \/ \E n \in bound.nodes : AgentStep(n) \/ NodeTimesOut(n)
    \/ \E r \in Replicas : BecomeHealthy(r) \/ Crash(r) \/ Replace(r)
    \/ \E q \in docker : DaemonRestarts(q) \/ DaemonRefuses(q)

Spec == Init /\ [][Next]_vars

Unstarted(i) == i \in DOMAIN ctl.ops /\ active(ctl.ops[i]) /\ ctl.ops[i].dgen = None

\* A tick would do something.
TickDue == starting = Idle /\ (Settle(ctl) # ctl \/ Ready(ctl) # {})

\* control_loop ticks for ever, what it started goes on, and time passes: weak
\* fairness, with the enabling conditions written out.  Tick, the steps behind
\* `starting` and the clock end what makes them due.
FairSpec == Spec /\ []<>~TickDue /\ []<>(starting = Idle) /\ []<>~ClockDue

-----------------------------------------------------------------------------
(* Properties *)

\* The values of the records.
TypeOK ==
    /\ ctl.deployment.status \in {"reconciling", "stalled", "blocked", "healthy", "failed"}
    /\ \A i \in DOMAIN ctl.ops :
          /\ ctl.ops[i].status \in {"queued", "running", "succeeded", "failed", "gone"}
          /\ ctl.ops[i].prep \subseteq Nodes /\ DOMAIN ctl.ops[i].prepared \subseteq ctl.ops[i].prep
    /\ \A n \in Nodes : agent[n].pass.pc \in {"idle", "inspected", "changed", "claimed", "requested"}
    /\ \A k \in DOMAIN ledger : ledger[k].outcome \in {"none", "succeeded", "unknown", "expired"}

\* A restart is sent to the daemon at most once for each task of an operation,
\* whatever crashes, is lost or is repeated (claim_service_restart).
RestartOnce == \A k \in DOMAIN asked : asked[k] <= 1

\* A restart rolls: the daemon is asked to restart a task only after the tasks
\* before it were restarted and seen healthy (heartbeat, RestartAssignment::execute).
RollingOrder ==
    \A k \in DOMAIN asked :
        asked[k] > 0 => \A q \in Replicas : q < k[2] => ctl.ops[k[1]].tasks[q].completed

\* A target counts as completed only if its container was healthy after the start
\* that followed the restart (heartbeat: "Require another fresh heartbeat").
CompletedWasHealthy ==
    \A i \in DOMAIN ctl.ops, r \in Replicas :
        ctl.ops[i].tasks[r].completed /\ cont[r].id = ctl.ops[i].tasks[r].container
            => cont[r].lastHealthy > ledger[<<i, r>>].before

\* A rolling restart restarts every task once, in order, and each only after the
\* one before it is healthy again.
RestartsRoll == RestartOnce /\ RollingOrder /\ CompletedWasHealthy

\* A Stack has at most one operation that goes on, and then a deployment goes on
\* only on its behalf (the UNIQUE active_stack of service_operations).
OneActive ==
    LET going == {i \in DOMAIN ctl.ops : active(ctl.ops[i])}
    IN  /\ \A i, j \in going : i = j
        /\ deployment_active(ctl) => \A i \in going : ctl.ops[i].dgen = ctl.deployment.gen

\* A principal's idempotency key names one operation as long as it is kept
\* (the UNIQUE request_key of service_operations).
KeyOnce ==
    \A i, j \in DOMAIN ctl.ops :
        /\ ctl.ops[i].principal = ctl.ops[j].principal /\ ctl.ops[i].key = ctl.ops[j].key
        /\ ctl.ops[i].status # "gone" /\ ctl.ops[j].status # "gone"
        => i = j

\* A Stack has one operation at a time, and a request makes one.
OperationsUnique == OneActive /\ KeyOnce

\* Tasks of the revision a redeployment made run the image its node prepared for
\* it, also when the tag has moved since (schedule_task, prepared_image_id).
PinnedImages ==
    \A i \in DOMAIN ctl.ops, r \in Replicas :
        /\ ctl.ops[i].status # "gone" /\ ctl.ops[i].dgen # None
        /\ ctl.tasks[r].rev = ctl.ops[i].target
        => /\ cont[r].node \in DOMAIN ctl.ops[i].prepared
           /\ cont[r].image = ctl.ops[i].prepared[cont[r].node]

\* An operation is deployed only while it goes on and the service still is what
\* it was accepted for, although it was found under an earlier hold of the mutex.
StartsAsAccepted ==
    [][\A i \in DOMAIN ctl.ops :
          ctl'.ops[i].dgen # ctl.ops[i].dgen
            => /\ active(ctl.ops[i]) /\ ~ctl.deleted
               /\ ctl'.rev = ctl.ops[i].target /\ ctl'.image = ctl.ops[i].image]_vars

\* Accepted operations end or become deployments, whatever the Agents do: each
\* target has a deadline, and so has the preparation of images.  Time and again
\* none is left that has neither ended nor been deployed.
OperationsMoveOn == []<>(\A i \in DOMAIN ctl.ops : ~Unstarted(i))
=============================================================================
