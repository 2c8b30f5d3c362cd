-------------------------------- MODULE Jobs --------------------------------
(***************************************************************************)
(* Scheduled and manual jobs: the Controller's trigger cursor and its      *)
(* executions (swarmlite-controller/src/jobs.rs, controller/job_commands.rs*)
(* and the job branches of controller/heartbeat.rs), the Agent's durable   *)
(* attempt ledger and stop intents (swarmlite-platform/src/local_state.rs, *)
(* runtime.rs), its passes and its deadline loop (swarmlite-agent), and    *)
(* the container daemon.                                                   *)
(*                                                                         *)
(* One job.  An execution is a number; a host runs one Agent.  All clocks  *)
(* are one clock, which may be set back.  Heartbeats, Agents, the          *)
(* Controller and the daemon may fail, bound.events times in all.             *)
(***************************************************************************)
EXTENDS Integers, Sequences, FiniteSets, FiniteSetsExt, Functions

CONSTANTS
    Nodes,      \* nodes that joined and advertise job support
    MaxTasks,   \* bound on the executions created
    Period,     \* Period[s]: schedule s fires at its multiples
    Minute,     \* an occurrence this late is skipped
    Grace,      \* stop_grace_period of the job, plus five seconds
    GraceCap,   \* the 30 seconds that bound the wait for old executions
    Window,     \* the five minutes a manual execution has to start
    Timeout,    \* timeout of the job
    KeepFinished, \* the 20 finished executions that are kept
    Bounds      \* the small instances: bounds on the executions, the clock, the
                \* events (faults and requests), and the nodes not cut off for good

ASSUME JobsAssumption ==
    /\ MaxTasks \in Nat /\ Period \in Seq(Nat \ {0}) /\ Period # <<>>
    /\ Grace \in Int /\ GraceCap \in Int /\ Window \in Int
    /\ \A b \in Bounds : b.tasks \in 0..MaxTasks /\ b.reachable \subseteq Nodes

VARIABLES
    bound,      \* which of Bounds, fixed from the start
    now,        \* unix_ms()
    ctl,        \* Controller, durable: the service, its cursor, its executions
    nodes,      \* Controller, volatile: live nodes, nodes with a record
    ledger,     \* per Agent, durable: job_attempts rows
    intent,     \* per Agent, durable: job-stop intents, by execution
    agent,      \* per Agent, volatile: input, results and the current pass
    net,        \* per Agent: the heartbeat in flight
    cont,       \* per host: the container of each execution
    docker,     \* per host: a create or start request being handled
    starts,     \* history: how often each execution's container was started
    spent       \* faults and operator requests so far; was a pass blind?

vars == <<bound, now, ctl, nodes, ledger, intent, agent, net, cont, docker, starts, spent>>

Ids == 1..MaxTasks
Schedules == DOMAIN Period
Manual == 0      \* JobSpec.schedule = None
Never == -1      \* last_scheduled_at_unix_ms = None
NoCursor == [schedule |-> Manual, last |-> Never, next |-> 0]
NoContainer == [state |-> "none", started |-> 0]
Silent == [silent |-> TRUE]
NoInput == [assign |-> {}, remove |-> {}]
Idle == [pc |-> "idle"]

\* Whatever goes wrong, or an operator asks for, is counted.
Disturb == spent.events < bound.events /\ spent' = [spent EXCEPT !.events = @ + 1]

-----------------------------------------------------------------------------
(* The Controller's reconciliation *)

\* JobSpec::next_after: the first occurrence after t, t itself excluded.
next_after(s, t) == ((t \div Period[s]) + 1) * Period[s]

\* "finished" is Succeeded or Failed: the exit code is left out.
is_job_terminal(o) == o \in {"finished", "cancelled", "timedout"}

\* reconcile, first loop: stop what was deleted or missed its window; an
\* execution on a node that is not live has an unknown state.
Expired(c, live) ==
    [c EXCEPT !.tasks = [i \in DOMAIN @ |->
        LET t == @[i]
            late == now >= t.deadline /\ t.observed \in {"pending", "unknown"}
        IN  [t EXCEPT !.desired = IF c.service.deleted \/ late THEN "stopped" ELSE @,
                      !.observed = IF t.node \notin live /\ ~is_job_terminal(@)
                                   THEN "unknown" ELSE @]]]

\* Mutant of MovedCursor: a changed schedule forgets what was consumed.
MovedCursorForgets(c) ==
    LET next == next_after(c.service.schedule, now)
    IN  [c EXCEPT !.cursor = [schedule |-> c.service.schedule, last |-> @.last, next |-> next]]

\* reconcile: a changed or suspended schedule only moves the cursor, and never
\* back over a consumed occurrence.
MovedCursor(c) ==
    LET base == Max({now, c.cursor.last})
        next == next_after(c.service.schedule, base)
        changed == c.cursor.schedule # c.service.schedule
    IN  [c EXCEPT !.cursor =
            [schedule |-> c.service.schedule, last |-> @.last,
             next |-> IF changed THEN next ELSE Max({next, @.next})]]

\* reconcile: the wait for the executions that are told to stop.
NotBefore(c, next) ==
    LET unfinished == {i \in DOMAIN c.tasks : ~is_job_terminal(c.tasks[i].observed)}
        grace == IF unfinished = {} THEN 0 ELSE Grace
    IN  now + Min({grace, GraceCap, (next - now) \div 2})

\* schedule_task for a job: fresh id, and any eligible node, as the tasks of
\* other services decide between them.
Execution(node, scheduled, notBefore, deadline, cron) ==
    [node |-> node, desired |-> "running", observed |-> "pending", seen |-> FALSE,
     runtime |-> "none", scheduled |-> scheduled, notBefore |-> notBefore,
     deadline |-> deadline, cron |-> cron]

Added(c, e) ==
    [c EXCEPT !.used = @ + 1, !.tasks = [i \in DOMAIN @ \cup {c.used + 1} |->
                                           IF i = c.used + 1 THEN e ELSE @[i]],
              !.fired = IF e.cron THEN Append(@, e.scheduled) ELSE @]

StopAll(tasks) == [i \in DOMAIN tasks |-> [tasks[i] EXCEPT !.desired = "stopped"]]

\* reconcile: a due occurrence is consumed; unless it is a minute late it stops
\* every earlier execution and, if a node is eligible, adds one.
Occurrence(c, eligible, node) ==
    LET scheduled == c.cursor.next
        next == next_after(c.service.schedule, now)
        consumed == [c EXCEPT !.cursor.next = next, !.cursor.last = scheduled]
        stopped == [consumed EXCEPT !.tasks = StopAll(@)]
    IN  IF now - scheduled >= Minute THEN consumed
        ELSE IF node \notin eligible THEN stopped
        ELSE Added(stopped, Execution(node, scheduled, NotBefore(c, next), next, TRUE))

\* reconcile, last loop: only the newest finished executions are kept.
Trimmed(c) ==
    LET finished == {i \in DOMAIN c.tasks : is_job_terminal(c.tasks[i].observed)}
        Newer(i) == {j \in finished : \/ c.tasks[j].scheduled > c.tasks[i].scheduled
                                      \/ c.tasks[j].scheduled = c.tasks[i].scheduled /\ j > i}
    IN  [c EXCEPT !.tasks = Restrict(@, {i \in DOMAIN @ :
            i \in finished => Cardinality(Newer(i)) < KeepFinished})]

Scheduled(c) == ~c.service.deleted /\ c.service.schedule # Manual
Due(c) ==
    /\ Scheduled(c) /\ c.cursor.schedule = c.service.schedule
    /\ ~c.service.suspend /\ c.cursor.next <= now

\* jobs::reconcile, called by scheduler::reconcile; "node" is the choice that
\* schedule_task makes among the eligible nodes.
Reconciled(c, live, known, node) ==
    LET e == Expired(c, live)
    IN  Trimmed(IF ~Scheduled(e) THEN e
                ELSE IF e.cursor.schedule # e.service.schedule \/ e.service.suspend
                THEN MovedCursor(e)
                ELSE IF Due(e) THEN Occurrence(e, live \cap known, node)
                ELSE e)

\* What the bounded model can follow: a fresh id is left when one is needed.
Candidates(eligible) == IF eligible = {} THEN Nodes ELSE eligible
Bounded(c) == Due(c) => c.used < bound.tasks

\* tick: reconcile and commit.  A failed commit restores the state.
Tick ==
    /\ Bounded(ctl)
    /\ \E n \in Candidates(nodes.live \cap nodes.known) :
          ctl' = Reconciled(ctl, nodes.live, nodes.known, n)
    /\ UNCHANGED <<bound, now, nodes, ledger, intent, agent, net, cont, docker, starts, spent>>

\* The clock runs, or is set back.
Clock ==
    /\ now < bound.time
    /\ now' = now + 1
    /\ UNCHANGED <<bound, ctl, nodes, ledger, intent, agent, net, cont, docker, starts, spent>>

ClockBack ==
    /\ now > 0 /\ Disturb
    /\ now' = now - 1
    /\ UNCHANGED <<bound, ctl, nodes, ledger, intent, agent, net, cont, docker, starts>>

\* current_live_nodes: a node has not been heard of for too long.
NodeTimesOut(n) ==
    /\ n \in nodes.live /\ Disturb
    /\ nodes' = [nodes EXCEPT !.live = @ \ {n}]
    /\ UNCHANGED <<bound, now, ctl, ledger, intent, agent, net, cont, docker, starts>>

\* apply_stack: the definition is replaced, deleted or restored, and reconciled.
Deploy ==
    /\ Disturb
    /\ \E service \in [schedule : Schedules \cup {Manual}, suspend : BOOLEAN, deleted : BOOLEAN] :
          /\ service # ctl.service
          /\ LET c == [ctl EXCEPT !.service = service]
             IN  /\ Bounded(c)
                 /\ \E n \in Candidates(nodes.live \cap nodes.known) :
                       ctl' = Reconciled(c, nodes.live, nodes.known, n)
    /\ UNCHANGED <<bound, now, nodes, ledger, intent, agent, net, cont, docker, starts>>

\* run_job: an unfinished execution refuses the request.
RunAllowed == \A i \in DOMAIN ctl.tasks : is_job_terminal(ctl.tasks[i].observed)

\* run_job: add a manual execution that starts now, within a bounded window.
RunJob ==
    /\ ~ctl.service.deleted /\ RunAllowed /\ Disturb /\ ctl.used < bound.tasks
    /\ \E n \in nodes.live \cap nodes.known :
          LET until == IF ctl.service.schedule = Manual THEN now + Window
                       ELSE Min({next_after(ctl.service.schedule, now), now + Window})
          IN  ctl' = Added(ctl, Execution(n, now, now, until, FALSE))
    /\ UNCHANGED <<bound, now, nodes, ledger, intent, agent, net, cont, docker, starts>>

\* cancel_job_task
CancelJob(i) ==
    /\ i \in DOMAIN ctl.tasks /\ Disturb
    /\ ctl' = [ctl EXCEPT !.tasks[i].desired = "stopped"]
    /\ UNCHANGED <<bound, now, nodes, ledger, intent, agent, net, cont, docker, starts>>

\* skip_missed, at startup.
SkipMissed(c) ==
    IF c.service.schedule # Manual /\ c.cursor # NoCursor /\ c.cursor.next <= now
    THEN [c EXCEPT !.cursor.next = next_after(c.service.schedule, now)] ELSE c

\* Controller::new: job evidence is persisted, container ids and nodes are not;
\* the nodes of known tasks count as live.
RestartController ==
    /\ Disturb
    /\ ctl' = SkipMissed([ctl EXCEPT !.tasks = [i \in DOMAIN @ |->
                                                  [@[i] EXCEPT !.seen = FALSE]]])
    /\ nodes' = [live |-> {ctl.tasks[i].node : i \in DOMAIN ctl.tasks}, known |-> {}]
    /\ net' = [n \in Nodes |-> Silent]
    /\ UNCHANGED <<bound, now, ledger, intent, agent, cont, docker, starts>>

-----------------------------------------------------------------------------
(* Heartbeats *)

\* Mutant of Observed: a container that does not run has finished.
ObservedIgnoresStart(n, i) == IF cont[n][i].state = "running" THEN "running" ELSE "finished"

\* list_managed: what the host shows of an execution's container.
Observed(n, i) ==
    LET running == cont[n][i].state = "running"
    IN  IF ~running /\ intent[n][i] = "timeout" THEN "timedout"
        ELSE IF ~running /\ intent[n][i] = "cancelled" THEN "cancelled"
        ELSE CASE running -> "running"
               [] cont[n][i].state = "created" -> "unknown"
               [] cont[n][i].state = "exited" -> "finished"

Present(n) == {i \in Ids : cont[n][i].state # "none"}
Inventory(n) == [i \in Present(n) |-> Observed(n, i)]

\* The Agent's loop: inventory (or its error) and the results of the last passes.
SendHeartbeat(n) ==
    /\ net[n] = Silent
    /\ net' = [net EXCEPT ![n] = [inventory |-> Inventory(n),
                                  error |-> FALSE, failed |-> agent[n].results]]
    /\ UNCHANGED <<bound, now, ctl, nodes, ledger, intent, agent, cont, docker, starts, spent>>

SendHeartbeatWithoutInventory(n) ==
    /\ net[n] = Silent /\ Disturb
    /\ net' = [net EXCEPT ![n] = [inventory |-> <<>>,
                                  error |-> TRUE, failed |-> agent[n].results]]
    /\ UNCHANGED <<bound, now, ctl, nodes, ledger, intent, agent, cont, docker, starts>>

\* A request may be lost.
Lose(n) ==
    /\ net[n] # Silent /\ Disturb
    /\ net' = [net EXCEPT ![n] = Silent]
    /\ UNCHANGED <<bound, now, ctl, nodes, ledger, intent, agent, cont, docker, starts>>

\* handle_heartbeat, the job branch of the loop over assigned tasks, and of the
\* loop over task_results.
Reported(t, i, m) ==
    LET t1 == IF i \in DOMAIN m.inventory
              THEN [t EXCEPT !.runtime = m.inventory[i], !.observed = m.inventory[i], !.seen = TRUE]
              ELSE IF ~m.error /\ t.seen /\ ~is_job_terminal(t.observed)
              THEN [t EXCEPT !.observed = "unknown"]
              ELSE t
    IN  IF i \in m.failed /\ i \notin DOMAIN m.inventory /\ ~is_job_terminal(t1.observed)
        THEN [t1 EXCEPT !.observed = "unknown"] ELSE t1

ToStop(c, n, m) ==
    {i \in DOMAIN c.tasks : c.tasks[i].node = n /\ c.tasks[i].desired = "stopped"}
        \cup (DOMAIN m.inventory \ DOMAIN c.tasks)

\* The part of HeartbeatResponse about jobs: executions in their start window,
\* executions to stop, and reported executions the Controller does not know.
Response(c, n, m) ==
    LET open == {i \in DOMAIN c.tasks :
                    /\ c.tasks[i].node = n /\ c.tasks[i].desired = "running"
                    /\ c.tasks[i].notBefore <= now /\ now < c.tasks[i].deadline}
    IN  [assign |-> {[id |-> i, runtime |-> c.tasks[i].runtime,
                      notBefore |-> c.tasks[i].notBefore,
                      deadline |-> c.tasks[i].deadline] : i \in open},
         remove |-> {[id |-> i, retain |-> i \in DOMAIN c.tasks /\ ~c.service.deleted] :
                        i \in ToStop(c, n, m)}]

\* run_with_runtime, on a response: authorize_jobs replaces all authorizations,
\* and the reconciliation loop is woken if its input changed.
Receive(n, input) ==
    /\ ledger' = [ledger EXCEPT ![n].authorized = {a.id : a \in input.assign}]
    /\ agent' = [agent EXCEPT ![n].input = input,
                              ![n].dirty = @ \/ agent[n].input # input]

\* handle_heartbeat: observe, reconcile, commit and answer.  The answer is taken
\* at once or lost.
HandleHeartbeat(n) ==
    /\ net[n] # Silent /\ Bounded(ctl)
    /\ LET m == net[n]
           up == [live |-> nodes.live \cup {n}, known |-> nodes.known \cup {n}]
           c == [ctl EXCEPT !.tasks = [i \in DOMAIN @ |->
                    IF @[i].node = n THEN Reported(@[i], i, m) ELSE @[i]]]
       IN  /\ nodes' = up
           /\ \E k \in Candidates(up.live \cap up.known) :
                 ctl' = Reconciled(c, up.live, up.known, k)
           /\ \/ Receive(n, Response(ctl', n, m)) /\ UNCHANGED spent
              \/ Disturb /\ UNCHANGED <<ledger, agent>>
    /\ net' = [net EXCEPT ![n] = Silent]
    /\ UNCHANGED <<bound, now, intent, cont, docker, starts>>

\* handle_heartbeat: the commit fails; the state is restored, liveness is not.
HeartbeatCommitFails(n) ==
    /\ net[n] # Silent /\ Disturb
    /\ nodes' = [nodes EXCEPT !.live = @ \cup {n}]
    /\ net' = [net EXCEPT ![n] = Silent]
    /\ UNCHANGED <<bound, now, ctl, ledger, intent, agent, cont, docker, starts>>

-----------------------------------------------------------------------------
(* The Agent's reconciliation passes *)

\* prepare_reconcile_response: take the latest input and list the containers.
\* A newer input cancels a preparation, never a pass.
Prepare(n) ==
    /\ agent[n].dirty /\ agent[n].pass.pc \in {"idle", "prepared"}
    /\ agent' = [agent EXCEPT ![n].dirty = FALSE,
                              ![n].pass = [pc |-> "prepared", input |-> agent[n].input,
                                           existing |-> Inventory(n)]]
    /\ UNCHANGED <<bound, now, ctl, nodes, ledger, intent, net, cont, docker, starts, spent>>

InputIds(input) == {a.id : a \in input.assign \cup input.remove}

\* prepare_reconcile_response: the listing fails, for every task of the input.
PrepareFails(n) ==
    /\ agent[n].dirty /\ agent[n].pass.pc \in {"idle", "prepared"}
    /\ spent.events < bound.events
    /\ spent' = [spent EXCEPT !.events = @ + 1, !.blind = TRUE]
    /\ agent' = [agent EXCEPT ![n].dirty = FALSE, ![n].pass = Idle,
                              ![n].results = InputIds(agent[n].input)]
    /\ UNCHANGED <<bound, now, ctl, nodes, ledger, intent, net, cont, docker, starts>>

\* stop_job: the reason recorded first stays.
StopIntent(old, reason) == IF old = "none" THEN reason ELSE old

Running(existing) == {i \in DOMAIN existing : existing[i] = "running"}

\* commit_reconcile_response: first all removals.  Running containers are told
\* to stop (stop_job), others are removed unless they are to be retained.
CommitRemovals(n) ==
    /\ agent[n].pass.pc = "prepared"
    /\ LET p == agent[n].pass
           stop == {r.id : r \in p.input.remove} \cap Running(p.existing)
           drop == {i \in DOMAIN p.existing \ stop :
                       \E r \in p.input.remove : r.id = i /\ ~r.retain}
       IN  /\ intent' = [intent EXCEPT ![n] = [i \in Ids |->
                            IF i \in stop THEN StopIntent(@[i], "cancelled") ELSE @[i]]]
           /\ cont' = [cont EXCEPT ![n] = [i \in Ids |-> IF i \in drop THEN NoContainer ELSE @[i]]]
           /\ agent' = [agent EXCEPT
                 ![n].stopping = @ \cup stop,
                 ![n].pass = [pc |-> "assign", failed |-> {},
                              todo |-> {a \in p.input.assign : a.id \notin DOMAIN p.existing}]]
    /\ UNCHANGED <<bound, now, ctl, nodes, ledger, net, docker, starts, spent>>

\* check_job_authorization
Authorized(n, a) == a.notBefore <= now /\ now < a.deadline /\ a.id \in ledger[n].authorized

AtStep(n, pc, a) == agent[n].pass.pc = pc /\ agent[n].pass.current = a
GoTo(n, pc, a) ==
    agent' = [agent EXCEPT ![n].pass = [pc |-> pc, current |-> a, todo |-> @.todo,
                                        failed |-> @.failed]]
\* The current execution is done with; "bad" says whether with an error.
Done(n, a, bad) ==
    agent' = [agent EXCEPT ![n].pass = [pc |-> "assign", todo |-> @.todo \ {a},
                                        failed |-> IF bad THEN @.failed \cup {a.id} ELSE @.failed]]

\* create_task, up to the image pull.
CreateTask(n, a) ==
    /\ agent[n].pass.pc = "assign" /\ a \in agent[n].pass.todo
    /\ IF Authorized(n, a) THEN GoTo(n, "pulling", a) ELSE Done(n, a, TRUE)
    /\ UNCHANGED <<bound, now, ctl, nodes, ledger, intent, net, cont, docker, starts, spent>>

\* Mutant of Claimable: a claim that was made before does not count.
ClaimableAgain(n, a) == Authorized(n, a)

\* claim_job: the row changes only if it is authorized and not claimed.
Claimable(n, a) == Authorized(n, a) /\ a.id \notin ledger[n].claimed

\* create_task: the image is there; claim the attempt and ask for the container.
Claim(n, a) ==
    /\ AtStep(n, "pulling", a)
    /\ IF Claimable(n, a)
       THEN /\ ledger' = [ledger EXCEPT ![n].claimed = @ \cup {a.id}]
            /\ docker' = [docker EXCEPT ![n][a.id] = "create"]
            /\ GoTo(n, "creating", a)
       ELSE Done(n, a, TRUE) /\ UNCHANGED <<ledger, docker>>
    /\ UNCHANGED <<bound, now, ctl, nodes, intent, net, cont, starts, spent>>

\* create_task: the container is there, or not; check again before the start.
Created(n, a) ==
    /\ AtStep(n, "creating", a) /\ docker[n][a.id] = "idle"
    /\ IF cont[n][a.id].state = "created" /\ Authorized(n, a)
       THEN GoTo(n, "starting", a) ELSE Done(n, a, TRUE)
    /\ UNCHANGED <<bound, now, ctl, nodes, ledger, intent, net, cont, docker, starts, spent>>

Start(n, a) ==
    /\ AtStep(n, "starting", a)
    /\ docker' = [docker EXCEPT ![n][a.id] = "start"]
    /\ GoTo(n, "started", a)
    /\ UNCHANGED <<bound, now, ctl, nodes, ledger, intent, net, cont, starts, spent>>

Started(n, a) ==
    /\ AtStep(n, "started", a) /\ docker[n][a.id] = "idle"
    /\ Done(n, a, cont[n][a.id].state \in {"none", "created"})
    /\ UNCHANGED <<bound, now, ctl, nodes, ledger, intent, net, cont, docker, starts, spent>>

\* reconcile_containers: the start window closes while create_task waits for the
\* image or for the daemon, which may still carry out the request.  The pull may
\* also fail.
GiveUp(n, a) ==
    /\ \/ /\ \E pc \in {"pulling", "creating", "started"} : AtStep(n, pc, a)
          /\ now >= a.deadline
          /\ spent' = [spent EXCEPT !.blind = @ \/ AtStep(n, "started", a)]
       \/ AtStep(n, "pulling", a) /\ Disturb
    /\ Done(n, a, TRUE)
    /\ UNCHANGED <<bound, now, ctl, nodes, ledger, intent, net, cont, docker, starts>>

\* publish_reconcile_results
EndPass(n) ==
    /\ agent[n].pass.pc = "assign" /\ agent[n].pass.todo = {}
    /\ LET p == agent[n].pass
       IN  agent' = [agent EXCEPT ![n].results = p.failed, ![n].pass = Idle]
    /\ UNCHANGED <<bound, now, ctl, nodes, ledger, intent, net, cont, docker, starts, spent>>

-----------------------------------------------------------------------------
(* The deadline loop, stops, and the container daemon *)

\* Mutant of Overdue: only stops that were begun are resumed.
OverdueResumes(n, i) == cont[n][i].state = "running" /\ intent[n][i] # "none"

Overdue(n, i) ==
    /\ cont[n][i].state = "running"
    /\ intent[n][i] # "none" \/ now >= cont[n][i].started + Timeout

\* job_deadline_loop: list; then stop what was overdue in the list.
DeadlineScan(n) ==
    /\ agent[n].overdue = {}
    /\ LET late == {i \in Ids : Overdue(n, i)}
       IN  /\ late # {}
           /\ agent' = [agent EXCEPT ![n].overdue = late]
    /\ UNCHANGED <<bound, now, ctl, nodes, ledger, intent, net, cont, docker, starts, spent>>

DeadlineStop(n) ==
    /\ agent[n].overdue # {}
    /\ intent' = [intent EXCEPT ![n] = [i \in Ids |->
                     IF i \in agent[n].overdue THEN StopIntent(@[i], "timeout") ELSE @[i]]]
    /\ agent' = [agent EXCEPT ![n].overdue = {}, ![n].stopping = @ \cup agent[n].overdue]
    /\ UNCHANGED <<bound, now, ctl, nodes, ledger, net, cont, docker, starts, spent>>

\* stop_job, the spawned task: the daemon stops the container, or cannot.
StopDone(n, i) ==
    /\ i \in agent[n].stopping
    /\ cont' = [cont EXCEPT ![n][i].state = IF @ = "running" THEN "exited" ELSE @]
    /\ agent' = [agent EXCEPT ![n].stopping = @ \ {i}]
    /\ UNCHANGED <<bound, now, ctl, nodes, ledger, intent, net, docker, starts, spent>>

StopFails(n, i) ==
    /\ i \in agent[n].stopping /\ Disturb
    /\ agent' = [agent EXCEPT ![n].stopping = @ \ {i}]
    /\ UNCHANGED <<bound, now, ctl, nodes, ledger, intent, net, cont, docker, starts>>

\* The daemon carries out a request, or fails it.
DaemonCreate(n, i) ==
    /\ docker[n][i] = "create"
    /\ cont' = [cont EXCEPT ![n][i].state = IF @ = "none" THEN "created" ELSE @]
    /\ docker' = [docker EXCEPT ![n][i] = "idle"]
    /\ UNCHANGED <<bound, now, ctl, nodes, ledger, intent, agent, net, starts, spent>>

DaemonStart(n, i) ==
    /\ docker[n][i] = "start"
    /\ docker' = [docker EXCEPT ![n][i] = "idle"]
    /\ IF cont[n][i].state = "created"
       THEN /\ cont' = [cont EXCEPT ![n][i] = [state |-> "running", started |-> now]]
            /\ starts' = [starts EXCEPT ![n][i] = @ + 1]
       ELSE UNCHANGED <<cont, starts>>
    /\ UNCHANGED <<bound, now, ctl, nodes, ledger, intent, agent, net, spent>>

DaemonFails(n, i) ==
    /\ docker[n][i] # "idle" /\ Disturb
    /\ docker' = [docker EXCEPT ![n][i] = "idle"]
    /\ UNCHANGED <<bound, now, ctl, nodes, ledger, intent, agent, net, cont, starts>>

\* The job ends by itself; or somebody removes the container on the host.
Exit(n, i) ==
    /\ cont[n][i].state = "running"
    /\ cont' = [cont EXCEPT ![n][i].state = "exited"]
    /\ UNCHANGED <<bound, now, ctl, nodes, ledger, intent, agent, net, docker, starts, spent>>

Disappear(n, i) ==
    /\ cont[n][i].state # "none" /\ Disturb
    /\ cont' = [cont EXCEPT ![n][i] = NoContainer]
    /\ UNCHANGED <<bound, now, ctl, nodes, ledger, intent, agent, net, docker, starts>>

NewAgent == [input |-> NoInput, dirty |-> FALSE, results |-> {},
             pass |-> Idle, overdue |-> {}, stopping |-> {}]

\* The Agent restarts: run_with_runtime revokes every authorization first.
RestartAgent(n) ==
    /\ Disturb
    /\ agent' = [agent EXCEPT ![n] = NewAgent]
    /\ ledger' = [ledger EXCEPT ![n].authorized = {}]
    /\ UNCHANGED <<bound, now, ctl, nodes, intent, net, cont, docker, starts>>

-----------------------------------------------------------------------------
Init ==
    /\ bound \in Bounds
    /\ now = 0
    /\ ctl = [service |-> [schedule |-> Max(Schedules), suspend |-> FALSE, deleted |-> FALSE],
              cursor |-> NoCursor, tasks |-> <<>>, used |-> 0, fired |-> <<>>]
    /\ nodes = [live |-> Nodes, known |-> Nodes]
    /\ ledger = [n \in Nodes |-> [authorized |-> {}, claimed |-> {}]]
    /\ intent = [n \in Nodes |-> [i \in Ids |-> "none"]]
    /\ agent = [n \in Nodes |-> NewAgent]
    /\ net = [n \in Nodes |-> Silent]
    /\ cont = [n \in Nodes |-> [i \in Ids |-> NoContainer]]
    /\ docker = [n \in Nodes |-> [i \in Ids |-> "idle"]]
    /\ starts = [n \in Nodes |-> [i \in Ids |-> 0]]
    /\ spent = [events |-> 0, blind |-> FALSE]

Todo(n) == IF agent[n].pass.pc \in {"idle", "prepared"} THEN {} ELSE agent[n].pass.todo

Pass(n) ==
    \/ Prepare(n) \/ CommitRemovals(n) \/ EndPass(n)
    \/ \E a \in Todo(n) : \/ CreateTask(n, a) \/ Claim(n, a) \/ Created(n, a)
                                 \/ Start(n, a) \/ Started(n, a) \/ GiveUp(n, a)

Daemon(n, i) == DaemonCreate(n, i) \/ DaemonStart(n, i) \/ StopDone(n, i)

Next ==
    \/ Clock \/ ClockBack \/ Tick \/ Deploy \/ RunJob \/ RestartController
    \/ \E i \in Ids : CancelJob(i)
    \/ \E n \in Nodes : NodeTimesOut(n)
    \/ \E n \in bound.reachable :
          \/ SendHeartbeat(n) \/ SendHeartbeatWithoutInventory(n)
          \/ Lose(n) \/ HandleHeartbeat(n) \/ HeartbeatCommitFails(n)
          \/ Pass(n) \/ PrepareFails(n) \/ DeadlineScan(n) \/ DeadlineStop(n) \/ RestartAgent(n)
          \/ \E i \in Ids : \/ Daemon(n, i) \/ StopFails(n, i) \/ DaemonFails(n, i) \/ Disappear(n, i) \/ Exit(n, i)

Spec == Init /\ [][Next]_vars

\* A step of the current pass, or of the next one, can be taken: it waits for the
\* daemon at most until the start window closes.
PassDue(n) ==
    LET p == agent[n].pass
    IN  IF p.pc \in {"creating", "started"}
        THEN docker[n][p.current.id] = "idle" \/ now >= p.current.deadline
        ELSE p.pc # "idle" \/ agent[n].dirty

ScanDue(n) == agent[n].overdue = {} /\ \E i \in Ids : Overdue(n, i)
AnswerDue(n) == net[n] # Silent /\ Bounded(ctl)
Connected(n) == n \in bound.reachable

\* The daemon has something to do, or the deadline loop something to stop.
HostDue(n) == agent[n].overdue # {} \/ agent[n].stopping # {} \/ \E i \in Ids : docker[n][i] # "idle"

\* Heartbeats are periodic and answered, the loops of an Agent run whenever there
\* is work, and the daemon carries out what it is asked: weak fairness of these
\* steps, with the enabling conditions written out.  An execution is created,
\* started and, but for faults, stopped once, so a host that does all it is asked
\* has nothing left to do at some time.
Progress(n) ==
    /\ []<>~(Connected(n) /\ net[n] = Silent)
    /\ []<>~(Connected(n) /\ AnswerDue(n))
    /\ []<>~ScanDue(n)
    /\ []<>~HostDue(n)
    /\ []<>~PassDue(n) \/ []<><<agent[n].pass' # agent[n].pass>>_agent

Fairness == WF_now(Clock) /\ \A n \in Nodes : Progress(n)

FairSpec == Spec /\ Fairness

-----------------------------------------------------------------------------
(* Properties *)

\* The cursor, the executions, the ledgers and the hosts keep their shape.
TypeOK ==
    /\ bound \in Bounds /\ now \in 0..bound.time
    /\ ctl.cursor.schedule \in Schedules \cup {Manual}
    /\ DOMAIN ctl.tasks \subseteq 1..ctl.used /\ ctl.used \in 0..bound.tasks
    /\ \A i \in DOMAIN ctl.tasks : /\ ctl.tasks[i].node \in Nodes
                                   /\ ctl.tasks[i].desired \in {"running", "stopped"}
    /\ nodes \in [live : SUBSET Nodes, known : SUBSET Nodes]
    /\ ledger \in [Nodes -> [authorized : SUBSET Ids, claimed : SUBSET Ids]]
    /\ intent \in [Nodes -> [Ids -> {"none", "timeout", "cancelled"}]]
    /\ docker \in [Nodes -> [Ids -> {"idle", "create", "start"}]]
    /\ \A n \in Nodes, i \in Ids :
          cont[n][i].state \in {"none", "created", "running", "exited"}

\* However Agents, the Controller and the daemon fail, the container of an
\* execution is started at most once, on one node (claim_job, create_task).
AtMostOneStart ==
    \A i \in Ids, n \in Nodes : /\ starts[n][i] <= 1
                                /\ \A m \in Nodes \ {n} : starts[n][i] + starts[m][i] <= 1

\* No occurrence is triggered twice, whatever is deployed, restarted or done to
\* the clock (jobs::reconcile, skip_missed).
OccurrenceOnce == IsInjective(ctl.fired)

\* What a schedule asks for is done at most once: an occurrence is one execution,
\* and an execution one start of a container.
ExecutedOnce == AtMostOneStart /\ OccurrenceOnce

\* An execution the Controller takes for finished neither runs nor can still be
\* started: run_job relies on it.
FinishedIsOver ==
    \A i \in DOMAIN ctl.tasks :
        LET n == ctl.tasks[i].node
        IN  is_job_terminal(ctl.tasks[i].observed) =>
                /\ cont[n][i].state \notin {"created", "running"}
                /\ docker[n][i] = "idle"

\* Containers are stopped when their time is up, whether or not anybody asked for
\* it: time and again, none runs past its time (job_deadline_loop).
Late(n, i) == cont[n][i].state = "running" /\ cont[n][i].started + Timeout <= bound.time
TimeoutStops == []<>(\A n \in Nodes, i \in Ids : ~Late(n, i))

\* An execution that is to be stopped does not go on running, unless the pass that
\* was to stop it could not see it run: its listing failed, or create_task had
\* given up on a start that the daemon carried out later (stop_job).
Unwanted(n, i) ==
    /\ i \in DOMAIN ctl.tasks
    /\ ctl.tasks[i].desired = "stopped" /\ ctl.tasks[i].node = n /\ cont[n][i].state = "running"
RequestStops == []<>(spent.blind \/ \A n \in Nodes, i \in Ids : ~Unwanted(n, i))

\* Executions that are over time or no longer wanted are stopped.
JobsStop == TimeoutStops /\ RequestStops

=============================================================================
