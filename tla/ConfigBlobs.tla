---------------------------- MODULE ConfigBlobs ----------------------------
(***************************************************************************)
(* The config files of one Stack with one service: the CLI uploads the     *)
(* contents the Controller misses, the Controller keeps them in its blob   *)
(* table and collects those nothing refers to after a grace period, and    *)
(* one Agent downloads them into a cache, mounts them into containers, and *)
(* collects its cache in the same way.  A content is its digest.           *)
(***************************************************************************)
EXTENDS Integers, FiniteSets

CONSTANTS Digests, \* the SHA-256 digests of the config files
          Bounds   \* the instances: grace (CONFIG_GC_GRACE_PERIOD_SECONDS), patience
                   \* (how long a request or a tick stays between two of its steps),
                   \* the sets of configs deployed, and bounds on the clock,
                   \* the revisions, the rollbacks and the Agent's passes

VARIABLES bound,      \* the instance
          now,        \* the clock, shared by the Controller and the node
          blobs,      \* stack_config_blobs: digest -> unreferenced_since or Unmarked
          spec,       \* the digests in the service's specification
          rev,        \* the service's revision
          unpinned,   \* the digests a rollback restored without pinning their blobs
          tasks,      \* the Controller's tasks: revision -> config_digests, stopped
          unclaimed,  \* the reported containers without a task: revision -> config_digests
          past,       \* the specifications in the deployment history
          client,     \* the deploy request on its way
          tick,       \* the digests the control loop collected before it unlocked
          reply,      \* the newest heartbeat response at the Agent
          pass,       \* the Agent's reconciliation pass
          files,      \* the files in the Agent's cache
          marks,      \* gc-state.json: file -> candidate since
          containers, \* the task containers: revision -> mounted files
          down        \* the containers that are not running

vars == <<bound, now, blobs, spec, rev, unpinned, tasks, unclaimed, past, client, tick,
          reply, pass, files, marks, containers, down>>

controller == <<blobs, spec, rev, unpinned, tasks, unclaimed, past, tick>>
node == <<reply, pass, files, marks, containers, down>>

Unmarked == -1
None == [at |-> "none"]

----------------------------------------------------------------------------
(* The Controller's blob table. *)

referenced_config_digests(s, ts, us) ==
  s \cup UNION {ts[r].digests : r \in DOMAIN ts} \cup UNION {us[r] : r \in DOMAIN us}

put_config_blobs(table, ds) ==
  [d \in DOMAIN table \cup ds |-> IF d \in ds THEN Unmarked ELSE table[d]]

pin_config_blobs(table, ds) ==
  [d \in DOMAIN table |-> IF d \in ds THEN Unmarked ELSE table[d]]

gc_config_blobs(table, refs, at) ==
  LET expired == {d \in DOMAIN table \ refs :
                    table[d] # Unmarked /\ at - table[d] >= bound.grace}
  IN [d \in DOMAIN table \ expired |->
        CASE d \in refs -> Unmarked
          [] d \notin refs /\ table[d] = Unmarked -> at
          [] OTHER -> table[d]]

----------------------------------------------------------------------------
(* One deploy request: the CLI asks which digests are missing, and sends   *)
(* the contents of those; apply_stack looks the others up, stores, pins,   *)
(* and only then takes the mutex.                                          *)

CheckConfigs(want) ==
  /\ client = None
  /\ rev < bound.rev
  /\ client' = [at |-> "prepare", want |-> want,
                sent |-> want \ DOMAIN blobs, since |-> now]
  /\ UNCHANGED <<bound, now, controller, node>>

PrepareStackApply ==
  /\ client.at = "prepare"
  /\ client' = IF client.want \ client.sent \subseteq DOMAIN blobs
               THEN [client EXCEPT !.at = "put"] ELSE None
  /\ UNCHANGED <<bound, now, controller, node>>

PutConfigBlobs ==
  /\ client.at = "put"
  /\ blobs' = put_config_blobs(blobs, client.sent)
  /\ client' = [client EXCEPT !.at = "pin"]
  /\ UNCHANGED <<bound, now, spec, rev, unpinned, tasks, unclaimed, past, tick, node>>

\* Mutant: apply_stack does not pin what it did not store.
PinNothing ==
  /\ client.at = "pin"
  /\ client' = [client EXCEPT !.at = "apply"]
  /\ UNCHANGED <<bound, now, blobs, spec, rev, unpinned, tasks, unclaimed, past, tick, node>>

PinConfigBlobs ==
  /\ client.at = "pin"
  /\ IF client.want \subseteq DOMAIN blobs
     THEN /\ blobs' = pin_config_blobs(blobs, client.want)
          /\ client' = [client EXCEPT !.at = "apply"]
     ELSE /\ client' = None
          /\ UNCHANGED blobs
  /\ UNCHANGED <<bound, now, spec, rev, unpinned, tasks, unclaimed, past, tick, node>>

\* apply_guarded: the old specification goes to the history; a changed one is a new
\* revision, for which the scheduler adds a task with the new digests.  No unclaimed
\* container is adopted: the task of the present revision holds the slot.
Install(s) ==
  /\ rev < bound.rev
  /\ past' = past \cup {spec}
  /\ spec' = s
  /\ IF s = spec
     THEN UNCHANGED <<rev, tasks>>
     ELSE /\ rev' = rev + 1
          /\ tasks' = [r \in DOMAIN tasks \cup {rev + 1} |->
                      IF r = rev + 1 THEN [digests |-> s, stopped |-> FALSE] ELSE tasks[r]]

ApplyStack ==
  /\ client.at = "apply"
  /\ Install(client.want)
  /\ unpinned' = unpinned \ client.want
  /\ client' = None
  /\ UNCHANGED <<bound, now, blobs, unclaimed, tick, node>>

\* A conflict, or the CLI goes away.
ApplyFails ==
  /\ client.at = "apply"
  /\ client' = None
  /\ UNCHANGED <<bound, now, controller, node>>

\* rollback_stack applies a snapshot of the history; it pins nothing.
RollbackStack ==
  /\ bound.rollback
  /\ \E s \in past : Install(s) /\ unpinned' = unpinned \cup s
  /\ UNCHANGED <<bound, now, blobs, unclaimed, client, tick, node>>

\* The rolling update replaced an old task.
StopTask ==
  \E r \in DOMAIN tasks :
    /\ r < rev
    /\ ~tasks[r].stopped
    /\ tasks' = [tasks EXCEPT ![r].stopped = TRUE]
    /\ UNCHANGED <<bound, now, blobs, spec, rev, unpinned, unclaimed, past, client, tick, node>>

\* tick, under the mutex ...
TickCollects ==
  /\ tick = None
  /\ tick' = [at |-> "gc", refs |-> referenced_config_digests(spec, tasks, unclaimed),
            since |-> now]
  /\ UNCHANGED <<bound, now, blobs, spec, rev, unpinned, tasks, unclaimed, past, client, node>>

\* ... and after it released the mutex.
TickSweeps ==
  /\ tick.at = "gc"
  /\ blobs' = gc_config_blobs(blobs, tick.refs, tick.since)
  /\ tick' = None
  /\ UNCHANGED <<bound, now, spec, rev, unpinned, tasks, unclaimed, past, client, node>>

RestartController ==
  /\ tick' = None
  /\ client' = None
  /\ <<tick, client>> # <<None, None>>
  /\ UNCHANGED <<bound, now, blobs, spec, rev, unpinned, tasks, unclaimed, past, node>>

----------------------------------------------------------------------------
(* The Agent. *)

\* The inventory finishes stopped tasks without a container, and a container without a
\* task is unclaimed.  The response assigns the service's present specification to
\* every task that is left, and removes the stopped tasks and, when the Stack's
\* deployment is ready, the unclaimed ones.
Heartbeat ==
  LET ts == [r \in {r \in DOMAIN tasks : ~tasks[r].stopped \/ r \in DOMAIN containers}
               |-> tasks[r]]
      us == [r \in DOMAIN containers \ DOMAIN ts |-> containers[r]]
  IN \E ready \in BOOLEAN :
       LET new == [at |-> "reply", spec |-> spec,
                   tasks |-> {r \in DOMAIN ts : ~ts[r].stopped},
                   remove_tasks |-> {r \in DOMAIN ts : ts[r].stopped}
                                      \cup IF ready THEN DOMAIN us ELSE {}]
       IN /\ <<ts, us, new>> # <<tasks, unclaimed, reply>>
          /\ tasks' = ts
          /\ unclaimed' = us
          /\ reply' = new
          /\ UNCHANGED <<bound, now, blobs, spec, rev, unpinned, past, client, tick, pass, files,
                         marks, containers, down>>

assignment_requires_runtime_change(r) == r \notin DOMAIN containers \ down

Mounted == UNION {containers[r] : r \in DOMAIN containers}

\* prepare_reconcile_response lists the containers first.
BeginPass ==
  /\ pass = None
  /\ reply # None
  /\ bound.agent
  /\ pass' = [at |-> "prepare", reply |-> reply, existing |-> Mounted,
              wanted |-> IF \E r \in reply.tasks : assignment_requires_runtime_change(r)
                         THEN reply.spec ELSE {},
              errors |-> {}]
  /\ UNCHANGED <<bound, now, controller, client, reply, files, marks, containers, down>>

\* prepare_assignment_configs: a file that is not ready is downloaded.
PrepareConfig ==
  /\ pass.at = "prepare"
  /\ \E d \in pass.wanted :
       /\ files' = IF d \in DOMAIN blobs THEN files \cup {d} ELSE files
       /\ pass' = [pass EXCEPT !.wanted = @ \ {d},
                               !.errors = IF d \in files' THEN @ ELSE @ \cup {d}]
  /\ UNCHANGED <<bound, now, controller, client, reply, marks, containers, down>>

\* A newer response makes the loop drop what it prepared.
Abandon ==
  /\ pass.at = "prepare"
  /\ reply # pass.reply
  /\ pass' = None
  /\ UNCHANGED <<bound, now, controller, client, reply, files, marks, containers, down>>

\* reconcile_containers: what is to be removed goes, what needs a change is
\* created anew unless one of its configs failed.
CommitContainers ==
  /\ pass.at = "prepare" /\ pass.wanted = {}
  /\ LET kept == DOMAIN containers \ pass.reply.remove_tasks
         new == {r \in pass.reply.tasks : assignment_requires_runtime_change(r)}
         made == IF pass.errors = {} /\ pass.reply.spec \subseteq files THEN new ELSE {}
     IN /\ containers' = [r \in kept \cup made |->
                            IF r \in made THEN pass.reply.spec ELSE containers[r]]
        /\ down' = (down \cap kept) \ made
  /\ pass' = [pass EXCEPT !.at = "gc"]
  /\ UNCHANGED <<bound, now, controller, client, reply, files, marks>>

\* Mutant: only the assigned configs count.
referenced_config_cache_pathsAssigned(p) == p.reply.spec

referenced_config_cache_paths(p) == p.reply.spec \cup p.existing

\* gc_at: the files are removed before the marks are written; a file that
\* cannot be removed keeps its mark.
SweepCache ==
  /\ pass.at = "gc"
  /\ LET refs == referenced_config_cache_paths(pass)
         old == [f \in (DOMAIN marks \cap files) \ refs |-> marks[f]]
         due == {f \in DOMAIN old : now - old[f] >= bound.grace}
     IN \E stuck \in SUBSET due :
          LET gone == due \ stuck
          IN /\ files' = files \ gone
             /\ pass' = [at |-> "save",
                         marks |-> [f \in files \ (refs \cup gone) |->
                                      IF f \in DOMAIN old THEN old[f] ELSE now]]
  /\ UNCHANGED <<bound, now, controller, client, reply, marks, containers, down>>

SaveMarks ==
  /\ pass.at = "save"
  /\ marks' = pass.marks
  /\ pass' = None
  /\ UNCHANGED <<bound, now, controller, client, reply, files, containers, down>>

RestartAgent ==
  /\ pass # None
  /\ pass' = None
  /\ reply' = None
  /\ UNCHANGED <<bound, now, controller, client, files, marks, containers, down>>

Exit ==
  /\ \E r \in DOMAIN containers \ down : down' = down \cup {r}
  /\ UNCHANGED <<bound, now, controller, client, reply, pass, files, marks, containers>>

----------------------------------------------------------------------------
Held == {h \in {client, tick} : h # None}

Clock ==
  /\ now < bound.now
  /\ \A h \in Held : now - h.since < bound.patience
  /\ now' = now + 1
  /\ UNCHANGED <<bound, controller, client, node>>

Init ==
  /\ bound \in Bounds
  /\ now = 0
  /\ blobs = <<>>
  /\ spec = {}
  /\ rev = 0
  /\ unpinned = {}
  /\ tasks = <<>>
  /\ unclaimed = <<>>
  /\ past = {}
  /\ client = None
  /\ tick = None
  /\ reply = None
  /\ pass = None
  /\ files = {}
  /\ marks = <<>>
  /\ containers = <<>>
  /\ down = {}

Next ==
  \/ \E want \in bound.wants : CheckConfigs(want)
  \/ PrepareStackApply \/ PutConfigBlobs \/ PinConfigBlobs \/ ApplyStack \/ ApplyFails
  \/ RollbackStack \/ StopTask \/ TickCollects \/ TickSweeps \/ RestartController
  \/ Heartbeat \/ BeginPass \/ PrepareConfig \/ Abandon \/ CommitContainers
  \/ SweepCache \/ SaveMarks \/ RestartAgent \/ Exit
  \/ Clock

Spec == Init /\ [][Next]_vars

----------------------------------------------------------------------------
(* Properties. *)

\* Every blob that the service or one of its tasks refers to is in the table, however
\* the control loop's collection falls between apply_stack's look-up, store, pin and
\* commit (a digest that rollback_stack restored was not pinned, and is excused; an
\* unclaimed container may be reported after its blob is gone, and needs it no more).
BlobsKept == referenced_config_digests(spec, tasks, <<>>) \ unpinned \subseteq DOMAIN blobs

\* A file that is mounted into a task container stays in the Agent's cache: gc_at
\* sees it in the listed containers or in the assignment it was created from.
ConfigFilesStay == Mounted \subseteq files

\* Neither collection takes away the contents of a config file that is in use.
ContentsKept == BlobsKept /\ ConfigFilesStay
============================================================================
