# A TLA+ development of swarmlite

swarmlite runs Compose stacks on a few machines: one Controller with an SQLite database, an Agent on
every node, and Gateways (Caddy) in front of the containers. This directory models what is
concurrent, durable or hard to test in it. Modules are translated from the source; `PROJECT.json`
maps each definition to the lines it stands for, and lists the hazards each property is about.

## The system and its parts

The Controller keeps everything in `Inner` behind one mutex. Every second `tick` reconciles; so does
every heartbeat. An Agent lists its containers, sends them with the results of its last pass and
the report of its Gateway, and receives assignments, removals and a Gateway configuration. A
changed input wakes the Agent's reconciliation loop, whose passes remove, repair and create
containers. The node supervisor loads a changed configuration into Caddy and reports its generation.
A healthy routed task that has to go is first `Draining`: it leaves the routes, every Gateway
reports the new configuration, ten seconds pass, and only then is it `Stopped` and removed.

| Module | Models | Source (`src/crates/...`) |
| --- | --- | --- |
| `Scheduler` | `scheduler::reconcile` for services, as operators from cluster states to cluster states | `swarmlite-controller/src/scheduler.rs` |
| `Cluster` | Controller, Agents, containers and Gateways during rollouts | `controller/heartbeat.rs`, `deployment.rs`, `lifecycle.rs`, `gateway_control.rs`, `recovery.rs`, `nodes.rs`; `swarmlite-agent`, `swarmlite-node` |
| `GatewayDrain` | the drain handshake alone: the abstract specification of `Cluster` | `controller/gateway_control.rs`, `swarmlite-core/src/gateway.rs` |
| `Deployments` | the life of a deployment: image checks, status, stalls, retry, rollback, the waiting CLI | `controller/deployment.rs`, `heartbeat.rs`, `swarmlite-agent`, `swarmlite-cli` |
| `ServiceOperations` | rolling restarts and `restart --pull` with the Agent's restart ledger | `controller/service_operations.rs`, `swarmlite-platform` |
| `DeployTokens` | deploy tokens, submissions, idempotency keys, long polls | `controller/deploy_api.rs`, `service_operations.rs` |
| `Jobs` | triggers and executions of a job, the Agent's attempt ledger, deadline loop and daemon | `jobs.rs`, `controller/job_commands.rs`, `swarmlite-platform/src/local_state.rs` |
| `ClusterSettings`, `GatewayConfig` | settings, routes of Stacks and the Caddy configuration they become | `controller/cluster.rs`, `stacks.rs`, `swarmlite-stack`, `swarmlite-core`, `swarmlite-cli/src/cluster_cli.rs` |
| `DataSessions` | log sessions: commands, streams, offline nodes | `controller/commands.rs`, `sessions.rs` |
| `ConfigBlobs` | config files and the two collections that remove unused ones | `storage.rs`, `swarmlite-platform/src/config_files.rs`, `swarmlite-agent` |
| `NodeLifecycle` | `init`, `join`, `serve`, loss of a disk and `init --recover` | `swarmlite-node/src/lib.rs` |
| `KvLocks`, `KvObjects` | lock leases, and the flat table the Gateways read as a tree | `kv.rs`, `controller/kv_store.rs` |
| `Metrics` | counters, sampler, queue, writer, retention, rollups and queries | `controller/metrics.rs`, `swarmlite-core/src/metrics.rs`, `swarmlite-platform/src/metrics.rs` |
| `TaskRuntime` | `create_task`, `start_task` and `remove_task`, call by call | `swarmlite-platform/src/runtime.rs` |
| `GatewayRuntime` | blue/green replacement of a node's Gateway and its certificates | `swarmlite-platform/src/runtime.rs`, `swarmlite-node` |
| `ImagePulls` | pulls through the registry cache, its filling and collection | `swarmlite-registry/src/cache.rs`, `runtime.rs` |

A handler that holds the Controller's mutex throughout is one step. Whatever awaits outside of it,
is sent, is executed by a daemon or is written in more than one transaction is more than one, and
faults may come between. Faults are counted and bounded, by a constant or by the field of an
instance, and never assumed to be rare otherwise. The comment at the head of each module says what
it leaves out. Abstractions that hold throughout: ids are numbers or model values (where the code
orders by a random id, the model allows every order), contents are their digests, and a container's
work, request bodies and wording are left out.

## What is checked

TLC checks several components in one run where they do not interact: the `MC` module extends one of
them and instantiates the others with variables of their own, and a variable `part`, chosen at the
start, says which one takes steps. Such a run is the union of the components' state graphs, so each
component is explored on its own bounds and nothing is multiplied.

| Run | Components | Properties |
| --- | --- | --- |
| `stores` (`MCStores`) | `KvLocks`, `GatewayDrain`, `KvObjects`, `Metrics`, `ConfigBlobs`, `NodeLifecycle` | `MutualExclusion`, `StaleHolderIsFenced`, `TokensIncrease`; `NoTraffic`; `TreeKept`; `SeriesTrue`; `ContentsKept`; `RecoveryFits` |
| `runtimes` (`MCRuntimes`) | `TaskRuntime`, `GatewayRuntime`, `ImagePulls` | `RightContainer`; `StateKept`, `TrafficKept`; `ImagesRight`; `RuntimesSettle` |
| `requests` (`MCRequests`) | `ClusterSettings`, `Deployments`, `DataSessions`, `DeployTokens` | `RequestsServed`, `SettingsSound`, `GenerationTells`, `SettingsReach`; `CheckedImagesRun`, `StatusTells`; `CompleteWhenOk`; `KeysKept`, `TokenRules`; `ClientsAnswered` |
| `work` (`MCWork`) | `Jobs`, `ServiceOperations` | `ExecutedOnce`, `FinishedIsOver`, `JobsStop`; `RestartsRoll`, `OperationsUnique`, `PinnedImages`, `StartsAsAccepted`, `OperationsMoveOn` |
| `rollout` (`MCCluster`) | `Cluster` without faults, with one lost message, and with restarts | `ServingCapacity`, `SurgeBound`, `DrainBeforeRemove`, `HealthyIsReal`, `OnlyObsoleteRemoved`, `Convergence` |
| `disturbances` (`MCCluster`) | `Cluster` with superseding deployments, failing steps, lost nodes, changed labels | `UniqueSlots`, `ImplementsDrain`, `ConvergenceOfPasses` |

What they say:

- `MutualExclusion`, `StaleHolderIsFenced`, `TokensIncrease`: owners that use locks as
  `docs/kv-api.md` asks never both rely on one; who lost it holds a smaller token; tokens grow.
- `NoTraffic`: no Caddy routes to a task whose drain was acknowledged.
- `TreeKept`: list and stat agree with the tree the flat table stands for, step by step, and a recursive
  delete takes exactly the subtree of its key.
- `SeriesTrue`: every stored sample and rollup is what the counters did, over restarts and full queues.
- `ContentsKept`: no config content that is deployed, mounted or about to be mounted is collected. Excused
  are blobs that only a rollback, which pins nothing, refers to again, and at the Controller those of an
  unclaimed container, which may be reported when the blob is gone and does not need it any more.
- `RecoveryFits`: a recovered Controller serves the routes its Gateway kept, and no Agent rejects it
  for a generation it has seen before.
- `RightContainer`: calls for a task touch its own containers only, and report as started only what
  was assigned. `ImagesRight`: neither cache nor pull serves a partial or other image.
  `RuntimesSettle`: calls return, pulls end, Gateways converge (unless stale containers occupy both
  slots, `Stuck`, or the other Gateway answered).
- `StateKept`, `TrafficKept`: replacing a Gateway loses no certificate and never takes the last serving
  one away. Both have exemptions, which are named in `GatewayRuntime`. `StateKept` leaves out the
  certificates in `late`: those a Caddy stores when the Controller cannot be reached, after its push,
  beside a left-over candidate that needs no push any more, or as a candidate whose `/load` was not
  answered. `TrafficKept` leaves out operations in which
  `wait_gateway_admin_any` was answered by the other Gateway (`crossed`), and does not count as serving a
  candidate whose `/load` took effect and was not answered, since that one is discarded.
- `RequestsServed`: a request reaches the rule that precedence and reserved paths promise.
  `SettingsSound`, `SettingsReach`: what is handed out fits together and arrives. `GenerationTells`:
  a Gateway that reports the desired generation runs the desired routes and configuration, but for the
  advertised address and deployment port, which are options of `serve` and no part of the generation.
- `CheckedImagesRun`, `StatusTells`: a deployment that ends healthy runs what it checked, a command
  that returns success is right, conditions fit the status, and a task is replaced once.
- `CompleteWhenOk`: `swarmlite logs` without an error printed all of every log.
- `KeysKept`, `TokenRules`: a repeated request is not accepted twice; a token obtains only what it is
  bound to, while it is active. The run has one client, which repeats its requests; that clients may
  repeat at the same time is shown by the theorem only.
- `ClientsAnswered`: deploy commands, log clients and long polls return. Two states are excepted by name:
  Gateways that stay behind a routed Stack whose replicas are healthy (`GatewaysMissing`), and a node that
  waits for its own full frame queue (`Stuck`); see Observations.
- `ExecutedOnce`: an occurrence is one execution and an execution one start. `FinishedIsOver`: what
  the Controller takes for finished neither runs nor can start. The run has one host; that all starts
  are on one node is shown by the theorem. `JobsStop`: executions that are over time or unwanted stop,
  except where the Agent was blind to the container (`spent.blind`): its pass could not list the
  containers, or the daemon started one after `create_task` had given up.
- `RestartsRoll`, `OperationsUnique`, `PinnedImages`, `StartsAsAccepted`, `OperationsMoveOn`: a restart
  takes every task once, in order, each after the last is healthy; one operation at a time; tasks run
  the prepared image; an operation is deployed only as accepted; operations end or deploy.
- `ServingCapacity`, `SurgeBound`: a start-first rollout never leaves a Gateway with fewer healthy
  upstreams than replicas, nor runs more than replicas + `max_surge` containers. `DrainBeforeRemove`:
  no healthy container is removed while a Caddy routes to it. `HealthyIsReal`: a deployment declared
  healthy is. `OnlyObsoleteRemoved`: without a reason in the desired state no healthy container goes.
  `UniqueSlots`: current tasks share no slot. `ImplementsDrain`: `Cluster` implements `GatewayDrain`,
  under the mapping of the `INSTANCE` in `Cluster`. `Convergence`: once deployments and faults cease,
  the cluster serves what was asked for, for good; `ConvergenceOfPasses` leaves out a failing removal,
  which is never tried again (see below).

**Bounds.** Each is the least at which the interesting case happens. Two replicas on two nodes is the
least rollout that interleaves and has a choice of placement; three generations supersede a
deployment in every state it can be in; one fault meets every state of a rollout, and where
faults combine (a crash during the recovery of a crash, a lost message and a restart) there is an
instance with two. `Metrics` runs with one interface until the second tier has a bucket and with two
for a shorter time; `GatewayRuntime` with two changes and a fault and with one change and two faults,
where an answer that is lost after its call took effect counts as a fault; `ClusterSettings` with two
sets of options of `serve`; `Deployments` with a routed Stack among its instances; `DataSessions` with
none, one or both tasks of a node gone, and a queue of two frames (64 in the code), half of what both
need; `NodeLifecycle` with a rejoin, a crash on the way, a change during recovery, and two recoveries of
one machine; `DeployTokens` with two services, and with two bodies and lost answers; `Jobs` with one
execution and a fault, two occurrences, and three occurrences while the clock is set back. Model
values stand for ids that are only compared. The six task ids of `Cluster` suffice: `Min` in
`ScheduleTask` would fail if they ran out.

**Fairness.** Nothing is assumed of users and faults. Loops with a timer go on (heartbeats, `tick`,
the deadline loop, the clock), requests that were sent are answered or counted as lost, and a pass,
a call, a load or a transaction that began is carried on. This is weak fairness of those steps; as
heartbeats never let the state rest, most conditions are written with the enabling condition spelt
out (`[]<>~Due`, or a step of that kind infinitely often), which TLC checks much faster.
`CHECK_DEADLOCK` is off where a system may really stop: when its bounded changes are used up nothing
is due any more. `rollout` and `disturbances` check for deadlock.

## Findings

Six runs show where the code does not do what the repository says of it.

- `supersede_capacity`: old tasks are retired by id, not by health. Superseding a deployment whose
  task is not healthy yet can retire the one healthy upstream (`scheduler.rs:146`), against
  "Old healthy tasks remain routable until their replacements are healthy"
  (`docs/applications.md:240`).
- `stop_first_slots`: a stop-first update retires another old task at every reconciliation until a
  replacement exists (`scheduler.rs:153`), so all replicas may stop at once, against "deliberately
  free one slot" (`scheduler.rs:152`).
- `inspect_failure`: one failed `list_managed` before a pass is reported as the failure of every
  task, and healthy containers are replaced (`swarmlite-agent/src/lib.rs:832`), against "deletion
  happens only from an explicit desired-state change" (`docs/architecture.md:110`).
- `restart_rollout`: a Controller restart makes routed tasks Pending, and a rollout then stops them
  without a drain (`scheduler.rs:229`), against the same line of `docs/applications.md`.
- `canonical_loop`: a wildcard hostname that covers the canonical name of its route is redirected to
  itself for ever (`swarmlite-stack/src/lib.rs:607`), although a test is named
  "redirects_aliases_to_the_canonical_hostname_in_one_hop".
- `deployment_retry`: the Agent keeps the result of an image check for a generation, and a retry keeps
  the generation, so that a repaired image stays blocked (`swarmlite-agent/src/lib.rs:1059`), against
  "repair the dependency and retry it" (`docs/applications.md:224`).

### Observations

Met while modelling, and not kept as runs. The first five are violations of the properties above in
other instances of the same configurations.

- `SurgeBound` and `HealthyIsReal` with three generations: a stopped task is dropped by an inventory
  older than the container a pass is about to create (`heartbeat.rs:202`).
- `Convergence` with a pinned service and three generations: an unclaimed container holds the port
  its replacement waits for (`heartbeat.rs:593`).
- `ServingCapacity` after a Controller restart: a deployment before the nodes are heard, or a heartbeat
  without an inventory, replaces the recovered routes (`deployment.rs:534`, `heartbeat.rs:56`).
- `Convergence` with a failing removal: the removal is not tried again until the Agent's input changes
  (`swarmlite-agent/src/lib.rs:361`).
- `RecoveryFits` for recoveries with a token the operator fixes: nodes take the rebuilt Controller for
  the old one and keep a fence its generations are below (`swarmlite-node/src/lib.rs:663` and `724`;
  `docs/operations.md:405` says that recovery rotates the token).
- `release_lock` answers success when the row is gone, whatever the token (`kv.rs:298`), while
  `docs/kv-api.md:78` says that a stale token returns 409.
- A job's execution that is missing from an inventory becomes Unknown (`heartbeat.rs:163`) rather than
  acknowledged as removed, so its tombstone goes with the retention only; compare the comment at
  `jobs.rs:20`.
- TCP entry ports are compared with the listeners of the time of deployment. `config set gateway.listen`
  does not look at entry ports that are deployed, nor the Controller at 2019 to 2021, which the CLI
  refuses; `docs/applications.md:535` calls both reserved.
- `scale_service` looks its service up in two critical sections and expects in the second what it found
  in the first (`deployment.rs:186`).
- `rollback_stack` restores references, not the images they were resolved to (`deployment.rs:713`).
- The advertised address and the deployment port are rendered into the Gateway configuration
  (`gateway_control.rs:126`) and are not part of its generation. After a restart of `serve` with others the
  Gateways report the desired generation while they run the former ones. The next heartbeat of each node
  compares the whole answer and brings them (`SettingsReach`).
- A deployment with routes needs the Gateways (`deployment.rs:1420`). If one stays behind the generation or
  in error while all replicas are healthy, the results that nodes repeat keep the deadline away, the
  deployment stays reconciling, and the waiting command does not return (`swarmlite-cli/src/lib.rs:3384`).
- `run_data_session` queues two frames for every missing task before it reads from its queue of 64
  (`swarmlite-agent/src/lib.rs:585`). With more than 32 missing tasks in one session it blocks, and the
  client with it.
- If the answer of the `/load` that makes a node's first Gateway public is lost, that Gateway is discarded
  although it serves (`swarmlite-platform/src/runtime.rs:1152`); the next attempt makes another.
- Recovery imports the Gateway image of the snapshot as one that was chosen, so a recovered cluster
  stops following the version.

`ImplementsDrain` is not claimed across Controller restarts, because of `restart_rollout`.

## What is proved

TLAPS checks these for every value of the constants. `MCStores`, `MCRuntimes`, `MCRequests` and `MCWork`
evaluate the assumptions. A module that is instantiated rather than extended by its run has no
assumptions of its own; its theorems state theirs.

**`JobsController_proofs`** and **`Jobs_proofs`**, the steps of the Controller and those of the Agents and
daemons: `OnceForAll` (`ExecutedOnce`) and `FinishedForGood` (`FinishedIsOver`), for any nodes,
schedules, executions and events. Neither is inductive. `JobInv` ties each host to the ledger
(`HostFine`): a claim precedes the one request to create a container, a request to start is made by the
pass that claimed and only while nothing was started, and a container that runs or has exited was
started once. A pass, the deadline loop and a message on its way agree with that (`PassFine`,
`AgentFine`, `MessageFine`): in particular, what an inventory or the Controller calls finished was
started and does not run (`Over`), which no later step undoes. `HomeFine` says that a node's
authorizations and claims are of executions assigned to it, and that these never move: this makes one
start per host one start. `CursorFine` says that the cursor is past every occurrence that was
triggered, whatever the clock does. Assumptions (`JobsAssumption`): schedules have positive periods,
and the bounds are numbers.

**`Runtimes_proofs`**. `TaskRuntime`: `ContainersRight` (`RightContainer`), for any revisions, ids and
faults. What a call saw of a container remains true of its owner and revision (`Knows`), and a call
that acts has checked them (`CallFine`), so it does not matter who holds the name meanwhile.

`ImagePulls`: `ImagesAreRight` (`ImagesRight`), if there is an image and `NoImage` is none. The
cache is complete because `commit` compares the size where the registry named one, and because elsewhere
the stream of the registry client, which verifies the digest, fails at an early end (external). A pull
carries an image the reference named since the attempt began (`Carried`); a digest names one image for
ever (`Fixed`), so that it does not matter whether `prepared_images` or the runtime answers
`local_image_reference`; and `image_operations` keeps `prune_images` out until the container exists.

`ConfigBlobs`: `ConfigsAreKept` (`ContentsKept`), for any digests, revisions and faults. A blob that is
applied was pinned, hence unmarked at some time since the request began; a sweep that works with an
older copy of the references may mark it again, but with the time of its tick (`Pinned`), and the next
sweep finds the mark too young (`Spared`). Assumption (`BoundsFit`): neither a request nor a tick pauses
for half of the grace period, which is a week in the code. On the node, every mounted file was listed
by the pass or is in its assignment (`Seen`), which `gc_at` spares. The blobs of unclaimed containers are
spared as well, which the theorem does not need.

**`ClusterSettings_proofs`**: `SettingsFit` (`SettingsSound`) and `GenerationsTell` (`GenerationTells`), for
any nodes, versions, Stacks and updates. `SettingsInv` says that the Controller hands out what it
committed; that the database and what every Gateway keeps are sound, since a recovery turns the latter
into the former; and that no report is ahead of the database, nor level with it for another
configuration (`Level`). A commit that changes the rendering or the routes is a new generation; a start
at another version is one if the image changes, and a start with other options is none, so that
`GenerationTells` and `Level` leave out the field they fill; recovery, which may go back, starts with no reports.
Assumption (`ManagedIsNoKey`): no update names `managed_image`, as `ClusterConfigUpdate` has no such field.

**`Stores_proofs`**. `KvLocks`, for any names, owners, leases and bounds: `TypeCorrect`, `Fencing`
(`StaleHolderIsFenced`) and `TokensGrow` (`TokensIncrease`), with and without overlapping requests.
`FenceInv` says of every token an owner holds, or is told by a reply on its way, that the counter has
reached it and that a row of another owner has a larger one. `Exclusion`: `MutualExclusion` if
`~Overlap`. `ExclusionInv` says that an unexpired belief, or an unexpired reply on its way, is backed
by a row of the same owner and token that lasts as long (`BeliefsBacked`). That a late renewal never
shortens such a row needs `LeaseBound` (no row outlasts a fresh lease) and `OneMessage` (an owner has
one message open per lock), and that a release never takes it away needs `ReleasingDoesNotHold`.
Assumptions: leases are positive, bounds are numbers, the clock does not run backwards and is read
by all.

`DeployTokens`: `KeysAreKept` (`KeysKept`) and `TokensRule` (`TokenRules`), if `Nothing` is no client
and the retention is a number. What a submission found out with the mutex is true until it commits
(`CallFine`), since it keeps the mutex; a stored operation agrees with what was accepted and with its
token, which keeps its service (`OpFine`); and what is no longer stored was accepted a retention time
ago (`Forgotten`).

**`Gateways_proofs`**. `NodeLifecycle`: `RecoveryIsSafe` (`RecoveryFits`), for any machines, founders and
bounds. A token names one Controller, because `init` and recovery draw a new id for it (`Apart`,
`TokenFree`), so that the fence kept with a token compares generations of one row (`Fenced`), also when
a disk was lost and generations began again. The row of a Controller covers the snapshots in the
Gateways of its machine (`Routed`), since recovery takes the one that covers all and writes the row
before the settings that make the machine a Controller (`Recovering`). Assumption (`Apt`): tokens are
generated (the property fails for fixed ones, see above), and `Nothing` is no record.

`GatewayDrain`, for any tasks, Gateways and number of configurations: `DrainedTasksAreQuiet`
(`NoTraffic`) and `CaddyIsMonotone` (a Caddy never goes back to an older configuration). `NoTraffic`
is not inductive: a configuration on its way may still name the task. `Inv` adds that two
configurations of the present generation are equal (`Dated`), that what is on its way is not older
than what it replaces (`Ordered`), that a report names nothing newer than what Caddy serves
(`Honest`), and that a drained task is in no configuration at all (`Forgotten`). If all Gateways report
the present generation, `Honest` and `Dated` force every Caddy to serve the present routes, and
`Ordered` leaves nothing older in flight; that is the acknowledgement step.

**`ServiceOperations_proofs`**, for any nodes, replicas, clients and bounds: `OperationsAreUnique`
(`OperationsUnique`), `ImagesArePinned` (`PinnedImages`) and `OperationsStartAsAccepted`
(`StartsAsAccepted`), from the invariant `Inv` (`OperationsAreSound`), which is defined in
`ServiceOperations_inv` and which **`OperationSteps_proofs`** shows every step to keep. The operations only age: each
helper that requests, the control loop and the heartbeat call is shown once to keep an operation's
target, what was prepared, restarted and completed of it, and that it has ended (`Persists`, `Ages`).
The record is `Sound`: one operation goes on, under the deployment of its own generation (`OneGoes`),
and generations and revisions are ahead of all that were given out (`Counted`), so that the next
ones are new. `StartsAsAccepted` needs no more than the second look in `apply_guarded`; `PinnedImages`
needs that `schedule_task` places a task of a pulled revision on a prepared node only, and that such
a revision belongs to one operation.

The same module has `RestartsAreRolling` (`RestartsRoll`), in the same generality. The property is far
from inductive: a task is counted as done at the Controller, because of a message, because of a start
that a node saw. `Rolls` follows that evidence. The row of an attempt, written before the daemon is
asked, holds the start of the container that was seen then (`PassFits`, `RowFits`); an attempt that ends
well saw a later one (`Again`); its result says so however often it is sent, lost or delayed (`Told`),
since containers only start later or are replaced (`Grows`); and the heartbeat that next calls the task
healthy means the new start (`Well`), because a node has one heartbeat under way (`ListFits`). A target
is assigned when those before it are completed, which stays so (`Assigned`), and the row goes with the
only request its attempt makes (`Asked`).

Assumption of all four (`Fits`): replicas are numbered, there is one, and they run on known nodes.

**Only model-checked.**

- Every liveness property (`JobsStop`, `RuntimesSettle`, `SettingsReach`, `ClientsAnswered`,
  `OperationsMoveOn`, `Convergence`, `ConvergenceOfPasses`): fairness is beyond the prover.
- Everything about `Cluster`, the refinement included: its scheduler is built from recursive functions
  over the services and the tasks to create, and what those compute for every input needs induction
  over data, which the prover does not do. For the same reason `RequestsServed` (sorted rules),
  `SeriesTrue` (sums of samples) and `TreeKept` (paths).
- `CheckedImagesRun` and `StatusTells` (`Deployments` folds over the services of a Stack) and
  `CompleteWhenOk` (`DataSessions` flattens the streams of its nodes), which need the same induction.
- `StateKept` and `TrafficKept` of `GatewayRuntime`, which are within reach of the prover and not proved.

## What is not modelled

The Go client of the certificate locks in `caddy-storage` (the lock table it uses is `KvLocks`), the
response cache and the TCP proxy of the Gateway, the parsing of Compose files (its result enters as
the service record), the HTTP API and its clients, and of the CLI and UI all but the commands that wait
for a deployment and the checks of `config set`. Of the parts that are modelled, `PROJECT.json` says what is
left out: schema migrations, exec sessions, dynamic port numbers, statistics, removal of a Stack
during its rollout, and caching and transport options of the Caddy configuration.
