----------------------------- MODULE Deployments -----------------------------
(***************************************************************************)
(* The life of one stack's deployment: the plan a new deploy makes, the    *)
(* image check each node runs for it, the status the Controller derives    *)
(* from the nodes' reports, retry and rollback, and the CLI that waits.    *)
(*                                                                         *)
(* Every service has one replica on each node of Places.  The scheduler's  *)
(* rolling update (module Cluster) is reduced to replacing a task of an    *)
(* old revision at once; a task is named by its place and its revision.    *)
(* The Gateways run on a node of their own.                                *)
(***************************************************************************)
EXTENDS Naturals, FiniteSets, FiniteSetsExt

CONSTANTS Instances,     \* the sizes to check, see Bound
          HistoryLimit,  \* archived generations kept (20 in the code)
          Nothing        \* no response, no report

VARIABLES bound,    \* [places: pairs <<service, node>>, one replica on each; gens: deploys
                    \*  and rollbacks; retries; faults: registry and container failures,
                    \*  Agent restarts, Gateway errors; tips: images pushed under the tag;
                    \*  routed: the Stack has routes, so that its deployments wait for the
                    \*  Gateways (wait_for_gateway)]
          inner,    \* the Controller's state under its mutex; ready: every Gateway has
                    \* reported the generation the present routes make, without an error
          heard,    \* nodes heard from since the deployment last progressed
          registry, \* what a pull meets: "ok", "denied" (needs the operator), "down"
          tip,      \* the image the tag names in the registry
          local,    \* node -> the image the tag names on the node
          box,      \* place -> its container
          resp,     \* node -> the last heartbeat response that changed the input
          fresh,    \* node -> the reconciliation loop has not looked at resp yet
          doing,    \* node -> the response being committed
          image_results, image_progress, task_results, \* what the Agent repeats in each heartbeat
          cli,      \* a CLI waiting for a generation
          faults,
          proof     \* history: image tag at acceptance, retried with a registry that works

controller == <<inner, heard>>
world == <<bound, registry, tip, faults>>
agent == <<local, box, resp, fresh, doing, image_results, image_progress, task_results>>
vars == <<bound, inner, heard, registry, tip, local, box, resp, fresh, doing, image_results,
          image_progress, task_results, cli, faults, proof>>

Places == bound.places
Services == {p[1] : p \in Places}
Workers == {p[2] : p \in Places}
AllNodes == {p[2] : p \in UNION {i.places : i \in Instances}}
On(n) == {p \in Places : p[2] = n}

Complete(st) == st \in {"Unchanged", "Changed", "Skipped"}
Terminal(status) == status \in {"Healthy", "Failed", "Superseded"}
Active(status) == ~Terminal(status)

NoTask == [rev |-> 0, obs |-> "Pending", applied |-> 0, err |-> FALSE]
NoBox == [rev |-> 0, image |-> 0, health |-> "None"]

(***************************************************************************)
(* The Controller's operators on its state c.                              *)
(***************************************************************************)
\* Mutant of mark_deployment_progress: the deadline condition stays open.
mark_deployment_progressQuietly(c) ==
    IF c.dep.status = "Stalled" THEN [c EXCEPT !.dep.status = "Reconciling"] ELSE c

mark_deployment_progress(c) ==
    IF c.dep.status = "Stalled"
    THEN [c EXCEPT !.dep.status = "Reconciling", !.dep.open = @ \ {"deadline"}]
    ELSE c

\* A failure that needs the operator blocks the deployment, any other ends it.
Suffer(c, kind) ==
    IF Terminal(c.dep.status) THEN c
    ELSE IF kind = "denied"
         THEN [c EXCEPT !.dep.status = "Blocked", !.dep.open = @ \union {"user"}]
         ELSE [c EXCEPT !.dep.status = "Failed"]

\* A report counts for the task and the generation it was made for.
Matches(c, p, r) == r.rev = c.task[p].rev /\ r.gen = c.dep.gen

apply_task_result(c, p, r) ==
    IF ~Matches(c, p, r) THEN c
    ELSE LET d == IF Active(c.dep.status) THEN mark_deployment_progress(c) ELSE c
         IN  IF r.err = "none"
             THEN [d EXCEPT !.task[p].applied = r.gen, !.task[p].err = FALSE]
             ELSE Suffer([d EXCEPT !.task[p].applied = 0, !.task[p].err = TRUE,
                                   !.task[p].obs = "Failed"], r.err)

\* Services whose check node n still owes; a failed check is not complete.
Owed(c, n) ==
    {s \in Services : /\ ~Complete(c.dep.res[s].st)
                      /\ n \in DOMAIN c.dep.res[s].nodes
                      /\ ~Complete(c.dep.res[s].nodes[n])}

\* The services of which node n checks the image, for one tag.
image_assignments_for_node(c, n) == IF Active(c.dep.status) THEN Owed(c, n) ELSE {}

SetNode(res, n, st) == [res EXCEPT !.nodes = [@ EXCEPT ![n] = st]]

\* The check of a service is over when every node has answered.
Resolved(res, n, st) ==
    LET r == SetNode(res, n, st)
    IN  IF \A m \in DOMAIN r.nodes : Complete(r.nodes[m])
        THEN [r EXCEPT !.st = IF \E m \in DOMAIN r.nodes : r.nodes[m] = "Changed"
                              THEN "Changed" ELSE "Unchanged"]
        ELSE r

\* Mutant of apply_image_resolution_report: every repeat bumps the revision.
apply_image_resolution_reportAgain(c, n, r) ==
    LET res == [s \in Services |-> IF s \in r.services /\ n \in DOMAIN c.dep.res[s].nodes
                                   THEN Resolved(c.dep.res[s], n,
                                          IF s \in r.changed THEN "Changed" ELSE "Unchanged")
                                   ELSE c.dep.res[s]]
    IN  [c EXCEPT !.dep.res = res,
                  !.revision = [s \in Services |->
                                  IF s \in r.services /\ res[s].st = "Changed"
                                  THEN @[s] + 1 ELSE @[s]]]

apply_image_resolution_report(c, n, r) ==
    LET expected == Owed(c, n)
        failure == IF r.err # "none" THEN r.err
                   ELSE IF r.services # expected THEN "down" ELSE "none"
        failed == [s \in Services |-> IF s \in expected
                                      THEN [SetNode(c.dep.res[s], n, "Failed") EXCEPT !.st = "Failed"]
                                      ELSE c.dep.res[s]]
        answered == [s \in Services |->
                       IF s \in expected
                       THEN Resolved(c.dep.res[s], n, IF s \in r.changed THEN "Changed" ELSE "Unchanged")
                       ELSE c.dep.res[s]]
        bumps(s) == /\ s \in expected
                    /\ answered[s].st = "Changed"
                    /\ c.revision[s] = answered[s].base
    IN  IF r.gen # c.dep.gen \/ Terminal(c.dep.status) \/ expected = {} THEN c
        ELSE IF failure # "none" THEN mark_deployment_progress(Suffer([c EXCEPT !.dep.res = failed], failure))
        ELSE mark_deployment_progress(
               [c EXCEPT !.dep.res = answered,
                         !.revision = [s \in Services |-> IF bumps(s) THEN @[s] + 1 ELSE @[s]]])

\* scheduler::reconcile, reduced: tasks of an old revision are replaced.
Reconcile(c) ==
    [c EXCEPT !.task = [p \in Places |->
        IF @[p].rev = c.revision[p[1]] THEN @[p] ELSE [NoTask EXCEPT !.rev = c.revision[p[1]]]]]

\* Mutant of deployment_is_healthy: unfinished image checks are not waited for.
deployment_is_healthyUnchecked(c) ==
    \A p \in Places : /\ c.task[p].rev = c.revision[p[1]]
                      /\ c.task[p].obs = "Healthy"
                      /\ c.task[p].applied = c.dep.gen

deployment_is_healthy(c) ==
    /\ bound.routed => c.ready
    /\ \A s \in Services : Complete(c.dep.res[s].st)
    /\ \A p \in Places : /\ c.task[p].rev = c.revision[p[1]]
                         /\ c.task[p].obs = "Healthy"
                         /\ c.task[p].applied = c.dep.gen

\* The upstreams in the Stack's routes.
stack_fragment(c) == {<<p, c.task[p].rev>> : p \in {q \in Places : c.task[q].obs = "Healthy"}}

\* refresh_ready_stack_routes after a change from b to c: other routes are another
\* generation, which no Gateway has reported.
Rerouted(b, c) == [c EXCEPT !.ready = @ /\ (bound.routed => stack_fragment(b) = stack_fragment(c))]

refresh_stack_deployments(c, late) ==
    IF Terminal(c.dep.status) THEN c
    ELSE IF deployment_is_healthy(c) THEN [c EXCEPT !.dep.status = "Healthy", !.dep.open = {}]
    ELSE IF late /\ c.dep.status # "Stalled"
         THEN [c EXCEPT !.dep.status = "Stalled", !.dep.open = @ \union {"deadline"}]
    ELSE c

\* The tag's pull is under way on node n: the node's open checks show it, and
\* so does the service's check unless another node's has failed.
apply_image_progress(c, n, r) ==
    LET owed == Owed(c, n)
        shown(s) == LET m == SetNode(c.dep.res[s], n, "Pulling")
                    IN  [m EXCEPT !.st = IF \E k \in DOMAIN m.nodes : m.nodes[k] = "Failed"
                                         THEN "Failed" ELSE "Pulling"]
        d == [c EXCEPT !.dep.res = [s \in Services |-> IF s \in owed THEN shown(s) ELSE @[s]]]
    IN  IF r.gen # c.dep.gen \/ Terminal(c.dep.status) THEN c
        ELSE IF r.new THEN mark_deployment_progress(d) ELSE d

(***************************************************************************)
(* A heartbeat of node n: inventory, task results, image progress, image   *)
(* results, failures seen in the inventory, then scheduling and status.    *)
(***************************************************************************)
Observe(c, n) ==
    [c EXCEPT !.task = [p \in Places |->
        IF p[2] # n THEN @[p]
        ELSE IF box[p].rev = @[p].rev THEN [@[p] EXCEPT !.obs = box[p].health]
        ELSE IF @[p].obs \in {"Starting", "Healthy"} THEN [@[p] EXCEPT !.obs = "Failed"]
        ELSE @[p]]]

Reported(n) == {p \in On(n) : task_results[n] # Nothing}

\* Running tasks that the inventory shows failed or gone, and no result explains.
ObservedFailures(c, n) ==
    {p \in On(n) : /\ Observe(c, n).task[p].obs = "Failed"
                   /\ \/ box[p].rev = c.task[p].rev
                      \/ c.task[p].obs # "Failed"
                   /\ ~ (task_results[n] # Nothing /\ task_results[n][p].err # "none")}

Told(c, n) ==
    LET results == FoldSet(LAMBDA p, d : apply_task_result(d, p, task_results[n][p]),
                           Observe(c, n), Reported(n))
        progressed == IF image_progress[n] = Nothing THEN results
                      ELSE apply_image_progress(results, n, image_progress[n])
        resolved == IF image_results[n] = Nothing THEN progressed
                    ELSE apply_image_resolution_report(progressed, n, image_results[n])
        failure(p) == [rev |-> c.task[p].rev, gen |-> c.dep.gen, err |-> "down"]
        failed == FoldSet(LAMBDA p, d : apply_task_result(d, p, failure(p)), resolved,
                          ObservedFailures(c, n))
    IN  refresh_stack_deployments(Rerouted(c, Reconcile(failed)), FALSE)

\* What moves last_progress_at: any task result of this generation, however
\* often it is repeated, an image report still expected, newer pull progress.
Progresses(c, n) ==
    /\ Active(c.dep.status)
    /\ \/ \E p \in Reported(n) : Matches(c, p, task_results[n][p])
       \/ image_results[n] # Nothing /\ image_results[n].gen = c.dep.gen /\ Owed(c, n) # {}
       \/ image_progress[n] # Nothing /\ image_progress[n].new /\ image_progress[n].gen = c.dep.gen

\* The nodes' image was checked for this very revision: no second pull.
image_was_resolved_on_node(c, p) ==
    LET res == c.dep.res[p[1]]
    IN  /\ res.st = "Changed"
        /\ res.base + 1 = c.task[p].rev
        /\ p[2] \in DOMAIN res.nodes
        /\ Complete(res.nodes[p[2]])

Reply(c, n) ==
    [gen |-> c.dep.gen, retry |-> c.dep.retry, images |-> image_assignments_for_node(c, n),
     tasks |-> [p \in On(n) |-> c.task[p].rev],
     pinned |-> {p \in On(n) : image_was_resolved_on_node(c, p)}]

same_reconciliation_input(a, b) == [a EXCEPT !.pinned = {}] = [b EXCEPT !.pinned = {}]

Heartbeat(n, delivered) ==
    LET c == Told(inner, n)
        reply == Reply(c, n)
    IN  /\ inner' = c
        /\ heard' = IF Progresses(inner, n) THEN {} ELSE heard \union {n}
        /\ image_progress' = [image_progress EXCEPT ![n] =
                                IF @ = Nothing THEN @ ELSE [@ EXCEPT !.new = FALSE]]
        /\ IF delivered /\ (resp[n] = Nothing \/ ~same_reconciliation_input(resp[n], reply))
           THEN resp' = [resp EXCEPT ![n] = reply] /\ fresh' = [fresh EXCEPT ![n] = TRUE]
           ELSE UNCHANGED <<resp, fresh>>
        /\ UNCHANGED <<world, local, box, doing, image_results, task_results, cli, proof>>

\* A heartbeat of the Gateways' node: they have applied the desired generation, or
\* report an error.  The first is progress.
GatewayReports(applied) ==
    LET c == [inner EXCEPT !.ready = applied]
    IN  /\ bound.routed /\ applied # inner.ready
        /\ inner' = refresh_stack_deployments(IF applied THEN mark_deployment_progress(c) ELSE c, FALSE)
        /\ heard' = IF applied /\ Active(inner.dep.status) THEN {} ELSE heard
        /\ applied \/ faults < bound.faults
        /\ faults' = IF applied THEN faults ELSE faults + 1
        /\ UNCHANGED <<bound, registry, tip, agent, cli, proof>>

\* The deadline passes: it is longer than the interval between heartbeats.
Expire ==
    /\ heard = Workers
    /\ inner' = refresh_stack_deployments(inner, TRUE)
    /\ UNCHANGED <<heard, world, agent, cli, proof>>

(***************************************************************************)
(* The Agent's reconciliation loop.                                        *)
(***************************************************************************)
\* Mutant of MustResolve: a check made for an older generation counts too.
MustResolveOnce(n) == resp[n].images # {} /\ image_results[n] = Nothing

\* An image checked for this generation is not checked again.
MustResolve(n) ==
    /\ resp[n].images # {}
    /\ ~ (image_results[n] # Nothing /\ image_results[n].gen = resp[n].gen)

\* The pull starts and its progress is published.
Pull(n) ==
    /\ fresh[n] /\ doing[n] = Nothing /\ MustResolve(n)
    /\ ~ (image_progress[n] # Nothing /\ image_progress[n].gen = resp[n].gen)
    /\ image_progress' = [image_progress EXCEPT ![n] = [gen |-> resp[n].gen, new |-> TRUE]]
    /\ UNCHANGED <<controller, world, local, box, resp, fresh, doing, image_results,
                   task_results, cli, proof>>

\* reconcile_images: pull, then compare with the running containers' images.
reconcile_images(n) ==
    LET gone == \E s \in resp[n].images : box[<<s, n>>].rev # resp[n].tasks[<<s, n>>]
        err == IF registry # "ok" THEN registry ELSE IF gone THEN "down" ELSE "none"
    IN  [gen |-> resp[n].gen, err |-> err,
         services |-> IF err = "none" THEN resp[n].images ELSE {},
         changed |-> IF err = "none" THEN {s \in resp[n].images : box[<<s, n>>].image # tip} ELSE {}]

Kept(n) == IF image_results[n] # Nothing /\ resp[n].images # {} /\ image_results[n].gen = resp[n].gen
           THEN image_results[n] ELSE Nothing

prepare_reconcile_response(n) ==
    /\ fresh[n] /\ doing[n] = Nothing
    /\ fresh' = [fresh EXCEPT ![n] = FALSE]
    /\ doing' = [doing EXCEPT ![n] = resp[n]]
    /\ IF MustResolve(n)
       THEN /\ image_results' = [image_results EXCEPT ![n] = reconcile_images(n)]
            /\ local' = [local EXCEPT ![n] = IF registry = "ok" THEN tip ELSE @]
       ELSE /\ image_results' = [image_results EXCEPT ![n] = Kept(n)]
            /\ UNCHANGED local
    /\ image_progress' = [image_progress EXCEPT ![n] =
                            IF @ # Nothing /\ (resp[n].images = {} \/ @.gen # resp[n].gen) THEN Nothing ELSE @]
    /\ UNCHANGED <<controller, world, box, resp, task_results, cli, proof>>

\* The container is missing, of another revision, or has failed.
MustCreate(p, r) == box[p].rev # r.tasks[p] \/ box[p].health = "Failed"

Created(p, r) ==
    LET pulled == p \notin r.pinned
    IN  IF pulled /\ registry # "ok" THEN NoBox
        ELSE [rev |-> r.tasks[p], image |-> IF pulled THEN tip ELSE local[p[2]], health |-> "Starting"]

commit_reconcile_response(n) ==
    LET r == doing[n]
        create == {p \in On(n) : MustCreate(p, r)}
        next == [p \in Places |-> IF p \in create THEN Created(p, r) ELSE box[p]]
    IN  /\ r # Nothing
        /\ box' = next
        /\ local' = [local EXCEPT ![n] = IF registry = "ok" /\ create \ r.pinned # {} THEN tip ELSE @]
        /\ task_results' = [task_results EXCEPT ![n] =
               [p \in On(n) |-> [rev |-> r.tasks[p], gen |-> r.gen,
                                 err |-> IF next[p] = NoBox THEN registry ELSE "none"]]]
        /\ doing' = [doing EXCEPT ![n] = Nothing]
        /\ UNCHANGED <<controller, world, resp, fresh, image_results, image_progress, cli, proof>>

(***************************************************************************)
(* Containers, registry, Agent restarts.                                   *)
(***************************************************************************)
BecomesHealthy(p) ==
    /\ box[p].health = "Starting"
    /\ box' = [box EXCEPT ![p].health = "Healthy"]
    /\ UNCHANGED <<controller, world, local, resp, fresh, doing, image_results, image_progress,
                   task_results, cli, proof>>

ContainerFails(p) ==
    /\ faults < bound.faults /\ box[p].health \in {"Starting", "Healthy"}
    /\ box' = [box EXCEPT ![p].health = "Failed"]
    /\ faults' = faults + 1
    /\ UNCHANGED <<controller, bound, registry, tip, local, resp, fresh, doing, image_results,
                   image_progress, task_results, cli, proof>>

Outage(kind) ==
    /\ faults < bound.faults /\ registry = "ok"
    /\ registry' = kind /\ faults' = faults + 1
    /\ proof' = [proof EXCEPT !.retried = FALSE]
    /\ UNCHANGED <<controller, bound, tip, agent, cli>>

Repair ==
    /\ registry # "ok" /\ registry' = "ok"
    /\ UNCHANGED <<controller, bound, tip, faults, agent, cli, proof>>

MoveTag ==
    /\ tip < bound.tips /\ tip' = tip + 1
    /\ UNCHANGED <<controller, bound, registry, faults, agent, cli, proof>>

AgentRestart(n) ==
    /\ faults < bound.faults /\ faults' = faults + 1
    /\ resp' = [resp EXCEPT ![n] = Nothing]
    /\ fresh' = [fresh EXCEPT ![n] = FALSE]
    /\ doing' = [doing EXCEPT ![n] = Nothing]
    /\ image_results' = [image_results EXCEPT ![n] = Nothing]
    /\ image_progress' = [image_progress EXCEPT ![n] = Nothing]
    /\ task_results' = [task_results EXCEPT ![n] = Nothing]
    /\ UNCHANGED <<controller, bound, registry, tip, local, box, cli, proof>>

(***************************************************************************)
(* The operator's commands.  Each holds the mutex from its check to its    *)
(* commit; deploying_stacks keeps a second one of the stack out.           *)
(***************************************************************************)
\* Mutant of deployment_response: the generation asked for is ignored.
deployment_responseCurrent(c, g) == c.dep.status

\* What the CLI gets for a generation: the current one, an archived one, or 404.
deployment_response(c, g) ==
    IF g = c.dep.gen THEN c.dep.status
    ELSE IF g \in DOMAIN c.history THEN c.history[g].status ELSE "NotFound"

Archived(dep) == IF Active(dep.status) THEN "Superseded" ELSE dep.status

Pruned(h) == IF Cardinality(DOMAIN h) <= HistoryLimit THEN h
             ELSE [g \in DOMAIN h \ {Min(DOMAIN h)} |-> h[g]]

\* Nodes on which a service runs: the ones asked to check its image.
Targets(c, s) ==
    {n \in Workers : /\ <<s, n>> \in Places
                   /\ c.task[<<s, n>>].rev = c.revision[s]
                   /\ c.task[<<s, n>>].obs \in {"Starting", "Healthy"}}

NoCheck(c, s) == [st |-> "Skipped", base |-> c.revision[s], nodes |-> <<>>]

service_update_plan(c, s, spec, forced) ==
    IF s \in forced \/ c.spec[s] # spec[s] THEN "Reconcile"
    ELSE IF forced = {} THEN "ResolveImage" ELSE "VerifyOnly"

apply_guarded(c, spec, forced) ==
    LET plan == [s \in Services |-> service_update_plan(c, s, spec, forced)]
        check(s) == IF plan[s] # "ResolveImage" THEN NoCheck(c, s)
                    ELSE [st |-> IF Targets(c, s) = {} THEN "Unchanged" ELSE "Checking",
                          base |-> c.revision[s], nodes |-> [n \in Targets(c, s) |-> "Checking"]]
        old == [g \in DOMAIN c.history \union {c.dep.gen} |->
                  IF g = c.dep.gen THEN [status |-> Archived(c.dep), spec |-> c.spec] ELSE c.history[g]]
        d == [c EXCEPT !.dep = [gen |-> c.dep.gen + 1, status |-> "Reconciling", retry |-> 0,
                                open |-> {}, res |-> [s \in Services |-> check(s)]],
                       !.history = Pruned(old), !.spec = spec,
                       !.revision = [s \in Services |-> IF plan[s] = "Reconcile" THEN @[s] + 1 ELSE @[s]]]
    IN  refresh_stack_deployments(Rerouted(c, Reconcile(d)), FALSE)

\* A CLI that is not waiting yet waits for the generation it was answered.
Watching(g) == IF cli.pc = "waiting" THEN cli
               ELSE [pc |-> "waiting", gen |-> g, status |-> "Reconciling"]

Accept(spec, forced) ==
    /\ inner.dep.gen < bound.gens
    /\ inner' = apply_guarded(inner, spec, forced)
    /\ heard' = {}
    /\ cli' = Watching(inner.dep.gen + 1)
    /\ proof' = [tip |-> tip, retried |-> FALSE]
    /\ UNCHANGED <<world, agent>>

validate_apply_locked(replace) == Terminal(inner.dep.status) \/ replace

Deploy(changed, replace) ==
    /\ validate_apply_locked(replace)
    /\ Accept([s \in Services |-> IF s \in changed THEN 3 - inner.spec[s] ELSE inner.spec[s]], {})

force_update_service(s) == validate_apply_locked(FALSE) /\ Accept(inner.spec, {s})

rollback_stack == \E g \in DOMAIN inner.history : Accept(inner.history[g].spec, {})

retry_stack_deployment ==
    LET reset(st) == IF st = "Failed" THEN "Checking" ELSE st
        again(r) == [r EXCEPT !.st = reset(@), !.nodes = [n \in DOMAIN @ |-> reset(@[n])]]
    IN  /\ inner.dep.status \in {"Stalled", "Blocked", "Failed"}
        /\ inner.dep.retry < bound.retries
        /\ inner' = Rerouted(inner, [inner EXCEPT
              !.dep = [@ EXCEPT !.status = "Reconciling", !.retry = @ + 1, !.open = {},
                                !.res = [s \in Services |-> again(@[s])]],
              !.task = [p \in Places |-> IF @[p].err
                          THEN [@[p] EXCEPT !.err = FALSE, !.applied = 0, !.obs = "Pending"] ELSE @[p]]])
        /\ heard' = {}
        /\ cli' = Watching(inner.dep.gen)
        /\ proof' = [proof EXCEPT !.retried = registry = "ok"]
        /\ UNCHANGED <<world, agent>>

\* One answer to the CLI's long poll; it stops at anything but "reconciling".
wait_for_deployment ==
    LET status == deployment_response(inner, cli.gen)
    IN  /\ cli.pc = "waiting"
        /\ cli' = [cli EXCEPT !.status = status, !.pc = IF status = "Reconciling" THEN @ ELSE "done"]
        /\ UNCHANGED <<controller, world, agent, proof>>

Succeeded == cli.pc = "done" /\ cli.status = "Healthy"

Init ==
    LET done == [gen |-> 1, status |-> "Healthy", retry |-> 0, open |-> {},
                 res |-> [s \in Services |-> [st |-> "Skipped", base |-> 1, nodes |-> <<>>]]]
    IN  /\ bound \in Instances
        /\ inner = [dep |-> done, ready |-> TRUE, history |-> <<>>, revision |-> [s \in Services |-> 1],
                    spec |-> [s \in Services |-> 1],
                    task |-> [p \in Places |-> [rev |-> 1, obs |-> "Healthy", applied |-> 1, err |-> FALSE]]]
        /\ heard = {}
        /\ registry = "ok" /\ tip = 1 /\ faults = 0
        /\ local = [n \in Workers |-> 1]
        /\ box = [p \in Places |-> [rev |-> 1, image |-> 1, health |-> "Healthy"]]
        /\ resp = [n \in Workers |-> Reply(inner, n)]
        /\ fresh = [n \in Workers |-> FALSE]
        /\ doing = [n \in Workers |-> Nothing]
        /\ image_results = [n \in Workers |-> Nothing]
        /\ image_progress = [n \in Workers |-> Nothing]
        /\ task_results = [n \in Workers |-> [p \in On(n) |-> [rev |-> 1, gen |-> 1, err |-> "none"]]]
        /\ cli = [pc |-> "idle", gen |-> 0, status |-> "NotFound"]
        /\ proof = [tip |-> 1, retried |-> FALSE]

Beats == \E n \in Workers, delivered \in BOOLEAN : Heartbeat(n, delivered)
Works == \E n \in Workers : prepare_reconcile_response(n) \/ commit_reconcile_response(n)
Settles == \E p \in Places : BecomesHealthy(p)
Commands ==
    \/ \E changed \in SUBSET Services, replace \in BOOLEAN : Deploy(changed, replace)
    \/ \E s \in Services : force_update_service(s)
    \/ rollback_stack
    \/ retry_stack_deployment
Environment ==
    \/ \E p \in Places : ContainerFails(p)
    \/ \E kind \in {"denied", "down"} : Outage(kind)
    \/ Repair \/ MoveTag
    \/ \E applied \in BOOLEAN : GatewayReports(applied)
    \/ \E n \in Workers : AgentRestart(n) \/ Pull(n)

Next == Beats \/ Expire \/ Works \/ Settles \/ wait_for_deployment \/ Commands \/ Environment

Spec == Init /\ [][Next]_vars

(***************************************************************************)
(* Fairness: the Agents keep sending heartbeats and reconciling, time      *)
(* passes, the CLI polls, and a container that starts becomes healthy or   *)
(* fails.  A step, or two heartbeats, end the condition that it is due:    *)
(* infinitely often false says what weak fairness says.                    *)
(***************************************************************************)
BeatDue(n) ==
    /\ n \in Workers
    /\ \/ Told(inner, n) # inner
       \/ ~ (resp[n] # Nothing /\ same_reconciliation_input(resp[n], Reply(inner, n)))
       \/ ~Progresses(inner, n) /\ n \notin heard
ExpireDue == heard = Workers /\ refresh_stack_deployments(inner, TRUE) # inner
WorkDue == \E n \in Workers : fresh[n] \/ doing[n] # Nothing
WaitDue == cli.pc = "waiting" /\ deployment_response(inner, cli.gen) # "Reconciling"
SettleDue == \E p \in Places : box[p].health = "Starting"

Running ==
    /\ \A n \in AllNodes : []<>~BeatDue(n)
    /\ []<>~(ExpireDue \/ WaitDue)
    /\ []<>~WorkDue \/ []<><<doing' # doing>>_doing

FairSpec == Spec /\ Running /\ WF_vars(Settles)

(***************************************************************************)
(* Properties.                                                             *)
(***************************************************************************)
\* A deploy of an unchanged file that ends healthy has moved every service it
\* checked to the image the tag named when it was accepted, or a newer one
\* (apply_image_resolution_report, image_was_resolved_on_node, create_task).
CheckedImagesRun ==
    inner.dep.status = "Healthy" =>
        \A s \in Services, n \in Workers :
            n \in DOMAIN inner.dep.res[s].nodes => box[<<s, n>>].image >= proof.tip

\* The CLI reports success only for a generation that became healthy: a
\* generation that was replaced while it was waited for reads as superseded
\* (deployment_response, ensure_deployment_succeeded).
SuccessIsHealthy ==
    Succeeded => /\ cli.gen = inner.dep.gen => inner.dep.status = "Healthy"
                 /\ cli.gen \in DOMAIN inner.history => inner.history[cli.gen].status = "Healthy"

\* The conditions shown to the operator fit the status: a stalled deployment has
\* the open deadline condition, a blocked one the open user condition, and a
\* deployment that is working again or healthy has no open deadline condition
\* (refresh_stack_deployments, mark_deployment_progress, retry_stack_deployment).
ConditionsFit ==
    LET d == inner.dep
    IN  /\ d.status = "Stalled" => "deadline" \in d.open
        /\ d.status = "Blocked" => "user" \in d.open
        /\ d.status = "Healthy" => d.open = {}
        /\ d.status = "Reconciling" => "deadline" \notin d.open

\* However often the nodes repeat their reports, one deployment raises the
\* revision of a service at most once, so its tasks are replaced at most once
\* (apply_image_resolution_report, baseline_revision).
ReplacedOnce ==
    \A s \in Services : inner.revision[s] <= inner.dep.res[s].base + 1

\* Operators are told the truth, and their deployment is carried out once.
StatusTells == SuccessIsHealthy /\ ConditionsFit /\ ReplacedOnce

\* All that a deployment waits for is the Gateways.
GatewaysMissing == bound.routed /\ ~inner.ready /\ deployment_is_healthy([inner EXCEPT !.ready = TRUE])

\* A deploy, retry or rollback command that waits returns if the containers
\* settle, however reports and responses are lost or repeated
\* (wait_for_deployment, refresh_stack_deployments).  The one exception is a
\* routed Stack whose replicas are all healthy and whose Gateways stay behind the
\* generation or in error: the nodes repeat their task results, every repeat
\* counts as progress, so that the deadline never passes, and the command waits
\* for as long as that lasts.
CommandReturns == []<>(cli.pc # "waiting") \/ <>[]GatewaysMissing

\* A deployment that was retried after the registry was repaired does not stay
\* blocked (docs/applications.md: "repair the dependency and retry it").
RetryRepairs == ~<>[](inner.dep.status = "Blocked" /\ proof.retried)

=============================================================================
