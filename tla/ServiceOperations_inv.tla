----------------------- MODULE ServiceOperations_inv ------------------------
(***************************************************************************)
(* The inductive invariant of the operations, and what their steps do, in  *)
(* the terms of the proofs.                                                *)
(*                                                                         *)
(* What the Controller knows of its operations only ages: an operation     *)
(* keeps its target, and an image that a node prepared, a target that was  *)
(* restarted or completed and a retired operation stay so (Persists);      *)
(* between the requests an operation also keeps its key and its            *)
(* deployment, and does not become active again (Ages).                    *)
(*                                                                         *)
(* The record is Sound: at most one operation goes on, under the           *)
(* deployment of its own generation (OneGoes), keys and generations are    *)
(* not reused (OneKey, GenOnce, DgenOnce), and all counters are behind the *)
(* record's (Counted), which is what makes the next generation and the     *)
(* next revision new.                                                      *)
(***************************************************************************)
EXTENDS ServiceOperations

\* What is assumed of the instances: replicas are numbered, there is one, and they run on
\* known nodes.
Fits ==
    \A b \in Bounds : /\ DOMAIN b.home \subseteq Nat /\ DOMAIN b.home # {}
                      /\ b.nodes \subseteq Nodes

\* The instance is one of those, and any of its replicas have a first.
BoundFits ==
    /\ Replicas \subseteq Nat /\ Replicas # {} /\ bound.nodes \subseteq Nodes
    /\ \A S \in SUBSET Replicas : S # {} => First(S) \in S /\ \A r \in S : First(S) <= r

\* A sequence, as a function.
IsSeq(s) == \E k \in Nat : s = [i \in 1..k |-> s[i]]

\* The fields of an operation; only a pull is deployed.
Formed(o) ==
    /\ DOMAIN o = {"kind", "status", "principal", "key", "generation", "dgen", "created", "finished",
                   "target", "image", "tasks", "prep", "prepared"}
    /\ DOMAIN o.tasks = Replicas
    /\ \A r \in Replicas :
          DOMAIN o.tasks[r] = {"node", "container", "image", "restarted", "completed", "deadline"}
    /\ o.dgen # None => o.kind = "pull"

\* An operation; a restart that goes on has a target left (advance_service_operations_locked).
OpShape(o) ==
    /\ Formed(o)
    /\ active(o) /\ o.kind = "restart" => Pending(o) # {}

\* The fields of the Controller's record.
CtlShape(c) ==
    /\ DOMAIN c = {"rev", "image", "deleted", "generation", "deployment", "ops", "live", "known", "tasks"}
    /\ DOMAIN c.deployment = {"gen", "status"}
    /\ DOMAIN c.tasks = Replicas
    /\ \A r \in Replicas :
          DOMAIN c.tasks[r] = {"rev", "node", "desired", "container", "image", "observed"}

\* Its operations.
OpsShape(c) == IsSeq(c.ops) /\ \A i \in DOMAIN c.ops : OpShape(c.ops[i])

\* What stays of an operation o that became p, whatever happens.
Persists(o, p) ==
    /\ p.kind = o.kind /\ p.generation = o.generation /\ p.target = o.target /\ p.image = o.image
    /\ o.status = "gone" => p.status = "gone"
    /\ active(p) /\ o.kind = "restart" => active(o)
    /\ \A n \in DOMAIN o.prepared : n \in DOMAIN p.prepared /\ p.prepared[n] = o.prepared[n]
    /\ \A r \in Replicas :
          /\ p.tasks[r].node = o.tasks[r].node /\ p.tasks[r].container = o.tasks[r].container
          /\ p.tasks[r].image = o.tasks[r].image
          /\ o.tasks[r].completed => p.tasks[r].completed
          /\ o.tasks[r].restarted => p.tasks[r].restarted

\* What stays of it unless it is deployed, retried or replaced.
Ages(o, p) ==
    /\ Persists(o, p)
    /\ p.principal = o.principal /\ p.key = o.key /\ p.dgen = o.dgen
    /\ active(p) => active(o)

\* What c shows of the targets that p has completed and o has not.
Earned(c, o, p) ==
    \A r \in Replicas :
        /\ p.tasks[r].restarted => o.tasks[r].restarted
        /\ p.tasks[r].completed /\ ~o.tasks[r].completed
              => /\ active(o) /\ o.kind = "restart" /\ o.tasks[r].restarted
                 /\ c.tasks[r].container = o.tasks[r].container /\ c.tasks[r].observed = "healthy"

\* A generation belongs to one operation.
GenOnce(c) == \A i, j \in DOMAIN c.ops : c.ops[i].generation = c.ops[j].generation => i = j

\* The record c became d without a new revision, deployment or operation.
CtlAges(c, d) ==
    /\ d.rev = c.rev /\ d.image = c.image /\ d.deleted = c.deleted /\ d.generation = c.generation
    /\ d.deployment.gen = c.deployment.gen
    /\ deployment_active(d) => deployment_active(c)
    /\ \A r \in Replicas : d.tasks[r].rev = c.tasks[r].rev /\ d.tasks[r].node = c.tasks[r].node
    /\ DOMAIN d.ops = DOMAIN c.ops
    /\ \A i \in DOMAIN c.ops : Ages(c.ops[i], d.ops[i])

\* An operation o that is accepted in c: its targets are the tasks that run.
Fresh(c, o) ==
    /\ o.dgen = None
    /\ \A r \in Replicas :
          /\ o.tasks[r].node = c.tasks[r].node /\ o.tasks[r].container = c.tasks[r].container
          /\ c.tasks[r].container # None /\ ~o.tasks[r].restarted /\ ~o.tasks[r].completed

\* The operations of c stay in d, and new ones are fresh.
OpsPersist(c, d) ==
    /\ \A i \in DOMAIN c.ops : i \in DOMAIN d.ops /\ Persists(c.ops[i], d.ops[i])
    /\ \A i \in DOMAIN d.ops : i \in DOMAIN c.ops \/ Fresh(c, d.ops[i])

\* Nothing is restarted or completed between c and d.
SameTargets(c, d) == \A i \in DOMAIN c.ops : d.ops[i].tasks = c.ops[i].tasks

\* Nor is anything heard of the tasks.
SameTasks(c, d) ==
    \A r \in Replicas : /\ d.tasks[r].rev = c.tasks[r].rev /\ d.tasks[r].node = c.tasks[r].node
                         /\ d.tasks[r].container = c.tasks[r].container
                         /\ d.tasks[r].observed = c.tasks[r].observed

\* Nor is an operation deployed.
SameDgens(c, d) == \A i \in DOMAIN c.ops : d.ops[i].dgen = c.ops[i].dgen

\* The operations that are deployed between c and d.
Deploys(c, d) ==
    \A i \in DOMAIN c.ops :
        d.ops[i].dgen # c.ops[i].dgen
          => /\ active(c.ops[i]) /\ ~c.deleted /\ c.ops[i].target = c.rev + 1
             /\ d.rev = c.ops[i].target /\ d.image = c.ops[i].image

\* What a step of the Controller does that is not a heartbeat.
CtlStep(c, d) ==
    /\ OpsPersist(c, d) /\ Deploys(c, d)
    /\ \A r \in Replicas :
          /\ d.tasks[r].rev = c.tasks[r].rev /\ d.tasks[r].node = c.tasks[r].node
          /\ d.tasks[r].container # None => /\ d.tasks[r].container = c.tasks[r].container
                                            /\ d.tasks[r].observed = c.tasks[r].observed
    /\ \A i \in DOMAIN c.ops : Earned(c, c.ops[i], d.ops[i])

\* No counter is ahead of the record's.
Counted(c) ==
    /\ c.generation \in Nat /\ c.rev \in Nat
    /\ c.deployment.gen \in Nat /\ c.deployment.gen # None /\ c.deployment.gen <= c.generation
    /\ \A r \in Replicas : c.tasks[r].rev \in Nat /\ c.tasks[r].rev <= c.rev
    /\ \A i \in DOMAIN c.ops :
          /\ c.ops[i].generation \in Nat /\ c.ops[i].generation <= c.generation
          /\ c.ops[i].dgen \in Nat /\ c.ops[i].dgen <= c.generation
          /\ c.ops[i].target \in Nat
          /\ c.ops[i].dgen # None => c.ops[i].target <= c.rev

\* A deployment and a revision belong to one operation.
DgenOnce(c) ==
    \A i, j \in DOMAIN c.ops :
        /\ c.ops[i].dgen # None /\ c.ops[j].dgen # None
        /\ c.ops[i].dgen = c.ops[j].dgen \/ c.ops[i].target = c.ops[j].target
        => i = j

\* One operation goes on, and only with its own deployment (the UNIQUE active_stack).
OneGoes(c) ==
    /\ \A i, j \in DOMAIN c.ops : active(c.ops[i]) /\ active(c.ops[j]) => i = j
    /\ \A i \in DOMAIN c.ops :
          active(c.ops[i]) /\ (c.ops[i].dgen # None \/ deployment_active(c))
            => c.ops[i].dgen = c.deployment.gen

\* A key names one operation of its principal (the UNIQUE request_key).
OneKey(c) ==
    \A i, j \in DOMAIN c.ops :
        /\ c.ops[i].principal = c.ops[j].principal /\ c.ops[i].key = c.ops[j].key
        /\ c.ops[i].status # "gone" /\ c.ops[j].status # "gone"
        => i = j

\* The inductive invariant of the Controller's record.
Sound(c) ==
    /\ CtlShape(c) /\ OpsShape(c) /\ GenOnce(c) /\ Counted(c) /\ DgenOnce(c) /\ OneGoes(c) /\ OneKey(c)

\* The steps of the Controller that are not heartbeats.
ControllerStep ==
    \/ \E who, kind, key : Submit(who, kind, key)
    \/ \E replace, image, changed, deleted : Apply(replace, image, changed, deleted)
    \/ Retry \/ \E status : DeploymentSuffers(status)
    \/ Tick \/ CheckPrepared \/ ApplyPrepared \/ RestartController
    \/ \E n : NodeTimesOut(n)

\* The containers: what was healthy last is not later than what started last, and the
\* Controller has them on the right nodes.
ContFits ==
    /\ DOMAIN cont = Replicas
    /\ \A r \in Replicas :
          /\ DOMAIN cont[r] = {"id", "node", "image", "started", "healthy", "lastHealthy"}
          /\ cont[r].id \in Nat /\ cont[r].id # None
          /\ cont[r].started \in Nat /\ cont[r].lastHealthy \in Nat
          /\ cont[r].lastHealthy <= cont[r].started
          /\ cont[r].healthy => cont[r].lastHealthy = cont[r].started
          /\ ctl.tasks[r].node = cont[r].node

\* The containers are the same, if started or healthy again.
ContStep ==
    \A r \in Replicas :
        /\ cont'[r].id = cont[r].id /\ cont'[r].node = cont[r].node /\ cont'[r].image = cont[r].image
        /\ cont'[r].started \in Nat /\ cont'[r].started >= cont[r].started
        /\ cont'[r].lastHealthy \in Nat /\ cont'[r].lastHealthy >= cont[r].lastHealthy

\* start_prepared_service_operation goes on with a pull that it found, of a Stack that was not
\* deleted under the guard.
Started ==
    /\ starting.pc \in {"idle", "found", "guarded"}
    /\ starting.pc # "idle" => /\ starting.op \in DOMAIN ctl.ops
                               /\ ctl.ops[starting.op].kind = "pull"
    /\ starting.pc = "guarded" => ~ctl.deleted

\* The target a restart goes on with is the first that is not completed.
CurrentIsFirst ==
    \A o : Pending(o) # {} => /\ Current(o) \in Pending(o)
                              /\ \A q \in Replicas : q < Current(o) => o.tasks[q].completed

\* The inductive invariant of the operations.
Inv == BoundFits /\ Sound(ctl) /\ Started /\ ContFits /\ PinnedImages

\* The steps of the containers.
ContainerStep == \E r, q : DaemonRestarts(q) \/ BecomeHealthy(r) \/ Crash(r)

\* The steps of the Agent of node n.
AgentsStep(n) ==
    \/ TakeInventory(n) \/ SendHeartbeat(n) \/ Lose(n)
    \/ Inspect(n) \/ Reject(n) \/ Claim(n) \/ Request(n) \/ Confirm(n) \/ Pull(n)
    \/ Wake(n) \/ RestartAgent(n)

\* The steps that change nothing the invariant speaks of.
OtherStep == Revoke \/ Clock \/ Push \/ (\E q : DaemonRefuses(q)) \/ UNCHANGED vars

\* What the heartbeat m of node n makes of the Controller's record.
Beats(n, m, d) ==
    /\ CtlShape(d) /\ OpsShape(d) /\ CtlAges(ctl, d)
    /\ \A r \in Replicas :
          IF ctl.tasks[r].node = n /\ r \in DOMAIN m.inventory
          THEN /\ d.tasks[r].container = m.inventory[r].container
               /\ d.tasks[r].observed \in {"starting", m.inventory[r].observed}
          ELSE /\ d.tasks[r].container = ctl.tasks[r].container
               /\ d.tasks[r].observed \in {"starting", ctl.tasks[r].observed}
    /\ \A i \in DOMAIN ctl.ops, r \in Replicas :
          /\ d.ops[i].tasks[r].restarted /\ ~ctl.ops[i].tasks[r].restarted
                => /\ d.tasks[r].observed = "starting"
                   /\ \E x \in m.results : /\ x.ok /\ x.replica = r /\ x.generation = ctl.ops[i].generation
                                           /\ ctl.ops[i].tasks[r].node = n
          /\ d.ops[i].tasks[r].completed /\ ~ctl.ops[i].tasks[r].completed
                => /\ active(ctl.ops[i]) /\ ctl.ops[i].kind = "restart" /\ ctl.ops[i].tasks[r].restarted
                   /\ d.tasks[r].container = ctl.ops[i].tasks[r].container
                   /\ d.tasks[r].observed = "healthy"

\* What replacing the task of r does.
Replaces(r) ==
    /\ Sound(ctl') /\ ctl'.ops = ctl.ops /\ ctl'.rev = ctl.rev /\ ctl'.deleted = ctl.deleted
    /\ ContFits'
    /\ \A q \in Replicas : q # r => cont'[q] = cont[q] /\ ctl'.tasks[q] = ctl.tasks[q]
    /\ cont'[r].id = cont[r].id + 1 /\ ctl'.tasks[r].container = None /\ ctl'.tasks[r].rev = ctl.rev
    /\ \A i \in DOMAIN ctl.ops : active(ctl.ops[i]) => ctl.ops[i].kind # "restart"
    /\ \A i \in Pinning(ctl) : /\ cont'[r].node \in DOMAIN ctl.ops[i].prepared
                               /\ cont'[r].image = ctl.ops[i].prepared[cont'[r].node]
=============================================================================
