----------------------------- MODULE Scheduler -----------------------------
(***************************************************************************)
(* The Controller's scheduler (crates/swarmlite-controller/src/            *)
(* scheduler.rs) as operators on a cluster state                           *)
(*                                                                         *)
(*   c.tasks      task records, a function on the ids in use               *)
(*   c.services   service records                                          *)
(*   c.nodes      the nodes whose soft record the Controller has           *)
(*   c.live       the nodes whose last heartbeat is recent enough          *)
(*   c.unclaimed  the reported containers without a task record            *)
(*                                                                         *)
(* Task and node ids are random: "the greatest ids" is any set of that     *)
(* size, a tie between nodes may go either way, and operators with such a  *)
(* choice return the set of their outcomes.  A new task takes an id that   *)
(* no task record has and that is not in "taken", the ids that the rest of *)
(* the system still refers to.  The state is one without jobs and without  *)
(* service operations.                                                     *)
(***************************************************************************)
EXTENDS Integers, Sequences, FiniteSets, FiniteSetsExt, Functions

CONSTANTS
    Nodes,
    TaskIds,
    Services

Desired == {"Running", "Draining", "Stopped"}
\* "Starting" also stands for Running: no code modelled here tells them apart.
Observed == {"Pending", "Starting", "Healthy", "Failed", "Lost"}

\* "drain" is drain_until_unix_ms.is_some(); "applied" the applied_generation
\* or 0; "port" the published port the spec asks for, or 0.
TaskRecord == [service : Services, revision : Nat, slot : Nat, node : Nodes,
               desired : Desired, observed : Observed, port : Nat,
               drain : BOOLEAN, applied : Nat]

\* "max_per_node" is 0 for no limit; "matching" is the set of nodes whose
\* labels satisfy the placement constraints.
ServiceRecord == [revision : Nat, replicas : Nat, max_surge : Nat, max_per_node : Nat,
                  port : Nat, routed : BOOLEAN, deleted : BOOLEAN, matching : SUBSET Nodes]

Monus(a, b) == IF a > b THEN a - b ELSE 0

-----------------------------------------------------------------------------
(* Views of the task table *)

Gone(t) == t.observed \in {"Failed", "Lost"}
Of(c, s) == {id \in DOMAIN c.tasks : c.tasks[id].service = s}
On(c, n) == {id \in DOMAIN c.tasks : c.tasks[id].node = n}
RunningIds(c, s) == {id \in Of(c, s) : c.tasks[id].desired = "Running"}
CurrentIds(c, s) == {id \in RunningIds(c, s) : c.tasks[id].revision = c.services[s].revision}
OldIds(c, s) == RunningIds(c, s) \ CurrentIds(c, s)
Reachable(c, ids) == {id \in ids : c.tasks[id].node \in c.live}

-----------------------------------------------------------------------------
(* Retiring *)

\* Mutant of GiveUp: only a task whose node is not live is given up.
GiveUpUnreachable(c) ==
    [c EXCEPT !.tasks = [id \in DOMAIN c.tasks |->
        LET t == c.tasks[id]
        IN  IF t.desired \in {"Running", "Draining"} /\ t.node \notin c.live
            THEN [t EXCEPT !.desired = "Stopped", !.observed = "Lost"] ELSE t]]

\* reconcile: a task whose node is not live, or that failed, is given up.
GiveUp(c) ==
    [c EXCEPT !.tasks = [id \in DOMAIN c.tasks |->
        LET t == c.tasks[id]
        IN  IF t.desired \in {"Running", "Draining"} /\ (t.node \notin c.live \/ Gone(t))
            THEN [t EXCEPT !.desired = "Stopped",
                           !.observed = IF t.node \notin c.live THEN "Lost" ELSE @]
            ELSE t]]

\* Mutant of Retired: a healthy routed task stops like any other.
RetiredAtOnce(t, routed) ==
    IF t.desired # "Running" THEN t ELSE [t EXCEPT !.desired = "Stopped", !.drain = FALSE]

\* retire_task: a healthy HTTP-routed task drains, any other one stops.
Retired(t, routed) ==
    IF t.desired # "Running" THEN t
    ELSE [t EXCEPT !.desired = IF routed /\ t.observed = "Healthy" THEN "Draining" ELSE "Stopped",
                   !.drain = FALSE]

Retire(c, s, ids) ==
    [c EXCEPT !.tasks = [id \in DOMAIN c.tasks |->
        IF id \in ids THEN Retired(c.tasks[id], c.services[s].routed) ELSE c.tasks[id]]]

\* finish_drains, for the drains whose deadline has passed.
FinishDrains(c, expired) ==
    [c EXCEPT !.tasks = [id \in DOMAIN c.tasks |->
        IF id \in expired /\ c.tasks[id].desired = "Draining" /\ c.tasks[id].drain
        THEN [c.tasks[id] EXCEPT !.desired = "Stopped"] ELSE c.tasks[id]]]

\* A node without a soft record is not a mismatch.
Misplaced(c, s) ==
    {id \in Of(c, s) : /\ c.tasks[id].revision = c.services[s].revision
                       /\ c.tasks[id].desired \in {"Running", "Draining"}
                       /\ c.tasks[id].node \in c.nodes \ c.services[s].matching}

\* The surplus of the current revision: any "replicas" tasks stay.
RetireSurplus(c, s) ==
    LET running == Reachable(c, CurrentIds(c, s))
        surplus == Monus(Cardinality(running), c.services[s].replicas)
    IN  {Retire(c, s, ids) : ids \in kSubset(surplus, running)}

\* Mutant of RetireOld: a replacement counts before it is healthy.
RetireOldEarly(c, s) ==
    LET old == Reachable(c, OldIds(c, s))
        keep == Monus(c.services[s].replicas, Cardinality(Reachable(c, CurrentIds(c, s))))
    IN  {Retire(c, s, ids) : ids \in kSubset(Monus(Cardinality(old), keep), old)}

\* Old tasks leave one by one as current ones become healthy.
RetireOld(c, s) ==
    LET old == Reachable(c, OldIds(c, s))
        healthy == {id \in Reachable(c, CurrentIds(c, s)) : c.tasks[id].observed = "Healthy"}
        keep == Monus(c.services[s].replicas, Cardinality(healthy))
    IN  {Retire(c, s, ids) : ids \in kSubset(Monus(Cardinality(old), keep), old)}

\* Mutant of StopFirst: max_surge = 0 gets no special treatment.
StopFirstForgotten(c, s) == {c}

\* max_surge = 0: an old task leaves before its replacement exists.
StopFirst(c, s) ==
    LET old == Reachable(c, OldIds(c, s))
    IN  IF /\ c.services[s].max_surge = 0
           /\ old # {}
           /\ Cardinality(Reachable(c, CurrentIds(c, s))) < c.services[s].replicas
        THEN {Retire(c, s, {id}) : id \in old}
        ELSE {c}

-----------------------------------------------------------------------------
(* Placing *)

\* node_has_replica_capacity: each running old task lends a start-first
\* replacement one slot above the limit.
HasCapacity(c, s, n) ==
    LET svc == c.services[s]
        active == {id \in Of(c, s) \cap On(c, n) : ~Gone(c.tasks[id])}
        old == active \cap OldIds(c, s)
    IN  \/ svc.max_per_node = 0
        \/ Cardinality(active) < svc.max_per_node
        \/ svc.max_surge > 0 /\ Cardinality(active) < svc.max_per_node + Cardinality(old)

\* used_ports: unclaimed containers keep their bindings too.
UsedPorts(c, n) ==
    {c.tasks[id].port : id \in {i \in On(c, n) : ~Gone(c.tasks[i])}}
        \cup {u.labels.port : u \in {v \in Range(c.unclaimed) : v.node = n}}
PortAvailable(c, s, n) == c.services[s].port = 0 \/ c.services[s].port \notin UsedPorts(c, n)

\* (same_revision, same_service, total), compared lexicographically.
Load(c, s, n) ==
    LET running(ids) == Cardinality({id \in ids \cap On(c, n) : c.tasks[id].desired = "Running"})
    IN  <<running(CurrentIds(c, s)), running(Of(c, s)), running(DOMAIN c.tasks)>>
Lighter(a, b) ==
    \/ a[1] < b[1]
    \/ a[1] = b[1] /\ (a[2] < b[2] \/ (a[2] = b[2] /\ a[3] < b[3]))

Candidates(c, s) ==
    {n \in c.nodes \cap c.live \cap c.services[s].matching :
        HasCapacity(c, s, n) /\ PortAvailable(c, s, n)}

\* Mutant of FreeSlots: only a healthy task holds its slot.
FreeSlotsOfHealthy(c, s) ==
    (0 .. c.services[s].replicas - 1)
        \ {c.tasks[id].slot : id \in {i \in CurrentIds(c, s) : c.tasks[i].observed = "Healthy"}}

FreeSlots(c, s) ==
    (0 .. c.services[s].replicas - 1) \ {c.tasks[id].slot : id \in CurrentIds(c, s)}

NewTask(c, s, n) ==
    [service |-> s, revision |-> c.services[s].revision, slot |-> Min(FreeSlots(c, s)),
     node |-> n, desired |-> "Running", observed |-> "Pending",
     port |-> c.services[s].port, drain |-> FALSE, applied |-> 0]

\* schedule_task: empty when no node or no slot is left.
ScheduleTask(c, s, taken) ==
    LET best == {n \in Candidates(c, s) :
                    \A m \in Candidates(c, s) : ~Lighter(Load(c, s, m), Load(c, s, n))}
        id == Min(TaskIds \ (DOMAIN c.tasks \cup taken))
    IN  IF FreeSlots(c, s) = {} THEN {}
        ELSE {[c EXCEPT !.tasks = [i \in DOMAIN c.tasks \cup {id} |->
                                      IF i = id THEN NewTask(c, s, n) ELSE c.tasks[i]]] :
                n \in best}

\* Mutant of Occupying: a retired container leaves its place at once.
OccupyingRunning(c, s) == {id \in Reachable(c, RunningIds(c, s)) : ~Gone(c.tasks[id])}

\* A retired container occupies its place until its removal is acknowledged.
Occupying(c, s) == {id \in Reachable(c, Of(c, s)) : ~Gone(c.tasks[id])}

ToCreate(c, s) ==
    LET svc == c.services[s]
        max_total == svc.replicas + IF Reachable(c, OldIds(c, s)) = {} THEN 0 ELSE svc.max_surge
        needed == Monus(svc.replicas, Cardinality(Reachable(c, CurrentIds(c, s))))
        can_create == Monus(max_total, Cardinality(Occupying(c, s)))
    IN  Min({needed, can_create})

CreateTasks(c, s, taken) ==
    LET created[i \in 0 .. ToCreate(c, s)] ==
            IF i = 0 THEN {c}
            ELSE UNION {LET next == ScheduleTask(d, s, taken)
                        IN  IF next = {} THEN {d} ELSE next : d \in created[i - 1]}
    IN  created[ToCreate(c, s)]

-----------------------------------------------------------------------------
(* Reconciliation *)

ReconcileService(c, s, taken) ==
    LET svc == c.services[s]
        retired == Retire(c, s, Misplaced(c, s))
    IN  IF svc.deleted \/ svc.replicas = 0
        THEN {Retire(c, s, Of(c, s))}
        ELSE UNION {UNION {UNION {CreateTasks(d3, s, taken) : d3 \in StopFirst(d2, s)} :
                             d2 \in RetireOld(d1, s)} : d1 \in RetireSurplus(retired, s)}

\* The services one after the other.
Reconcile(c, order, taken) ==
    LET after[i \in 0 .. Len(order)] ==
            IF i = 0 THEN {GiveUp(c)}
            ELSE UNION {ReconcileService(d, order[i], taken) : d \in after[i - 1]}
    IN  after[Len(order)]
=============================================================================
