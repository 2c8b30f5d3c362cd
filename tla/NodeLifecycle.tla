--------------------------- MODULE NodeLifecycle ---------------------------
(***************************************************************************)
(* The life of a cluster on a few machines: `swarmlite init`, `join` and   *)
(* `serve`, the loss of a Controller's disk and `init --recover`.  Each    *)
(* command holds the machine's lock and may be killed between two writes.  *)
(*                                                                         *)
(*   db      per machine, the SQLite file: node settings, the generation   *)
(*           its Agent fences with, and the control-plane row              *)
(*   boxes   per machine, what outlives the file: the cluster labels of    *)
(*           its containers, and the snapshots in its Gateway containers   *)
(*           (two while one Gateway replaces another)                      *)
(*   proc    per machine, the command that runs and what it has read       *)
(*   used    how many ids, tokens, changes and faults there have been, and *)
(*           the instance that bounds them                                 *)
(*                                                                         *)
(* Routes are the number of the change that made them, 0 for none.         *)
(***************************************************************************)
EXTENDS Naturals

CONSTANTS Machines,                        \* computers
          Founders,                        \* those on which somebody runs `init`
          Instances,                       \* records of a set of machines and bounds
          FixedToken,                      \* whether SWARMLITE_TOKEN is set
          Nothing

VARIABLES db, boxes, proc, used

vars == <<db, boxes, proc, used>>

Blank == [node |-> Nothing, fence |-> 0, cp |-> Nothing]
Off == [pc |-> "off"]

is_controller(settings) == settings.id = settings.controller

Serves(m) == proc[m].pc = "serve"
Controls(m) == Serves(m) /\ is_controller(db[m].node)

\* The Controller at c accepts the heartbeats of the Agent on m.
Connected(m, c) ==
    /\ Serves(m) /\ Controls(c) /\ db[m].node.home = c
    /\ db[m].node.token = db[c].node.token
    /\ db[m].node.id \in DOMAIN db[c].cp.members

\* The machine's containers, as far as the runtime can be asked.
ManagedClusterInventory(m, visible) ==
    IF visible THEN boxes[m].tasks \union {s.cluster : s \in boxes[m].gateways} ELSE {}

\* SWARMLITE_TOKEN or a generated token.
Token(n) == IF FixedToken THEN 1 ELSE n

\* One command at a time holds the machine's lock.
acquire_node_lock(m) == proc[m] = Off

Step(m, p) == proc' = [proc EXCEPT ![m] = p]
Draw == used.ids < used.of.ids /\ used' = [used EXCEPT !.ids = @ + 1]

(***************************************************************************)
(* init.                                                                   *)
(***************************************************************************)
\* A new cluster on a machine without settings, control plane or containers.
\* Cluster, node and token take the number of the command that drew them.
init(m, gw, visible) ==
    LET n == used.ids + 1
    IN  /\ m \in Founders /\ acquire_node_lock(m)
        /\ db[m].cp = Nothing /\ db[m].node = Nothing
        /\ ManagedClusterInventory(m, visible) = {}
        /\ Draw
        /\ db' = [db EXCEPT ![m] = [node |-> [cluster |-> n, id |-> n, controller |-> n, token |-> Token(n),
                                              home |-> m, gw |-> gw, cfg |-> 0],
                                    fence |-> 0, cp |-> Nothing]]
        /\ UNCHANGED <<boxes, proc>>

\* The one cluster the containers and the local state agree on.
recovery_cluster_ids(m, visible) ==
    ManagedClusterInventory(m, visible) \union
        (IF db[m].node = Nothing THEN {} ELSE {db[m].node.cluster})

\* init --recover, up to the point where the old file is in recovery-backup/.
archive_control_plane_state(m, visible) ==
    /\ acquire_node_lock(m)
    /\ \E c \in recovery_cluster_ids(m, visible) :
         /\ recovery_cluster_ids(m, visible) = {c}
         /\ Step(m, [pc |-> "archived", cluster |-> c])
    /\ db' = [db EXCEPT ![m] = Blank]
    /\ UNCHANGED <<boxes, used>>

\* The snapshot of the highest generation; none when two of them differ.
select_gateway_recovery_snapshot(found) ==
    LET latest == {s \in found : \A t \in found : t.gen <= s.gen}
    IN  IF \A s, t \in latest : s = t THEN latest ELSE {}

gateway_recovery_snapshots(m, cluster) == {s \in boxes[m].gateways : s.cluster = cluster}

\* Without a snapshot, or without an answer of the runtime, recovery ends here;
\* with one, the id of the new Controller is drawn.
load_gateway_recovery_snapshot(m) ==
    /\ proc[m].pc = "archived"
    /\ \/ /\ Draw
          /\ \E s \in select_gateway_recovery_snapshot(gateway_recovery_snapshots(m, proc[m].cluster)) :
               Step(m, [pc |-> "loaded", cluster |-> s.cluster, id |-> used.ids + 1, snapshot |-> s])
       \/ Step(m, Off) /\ UNCHANGED used
    /\ UNCHANGED <<db, boxes>>

\* Mutant of Imports: the settings are saved before the routes are imported.
ImportsLast(m, f, settings, row) == IF f.node = Nothing THEN [f EXCEPT !.node = settings]
                                    ELSE [f EXCEPT !.cp = row]

\* The two writes of recovery: first the control-plane row, then the settings.
Imports(m, f, settings, row) == IF f.cp = Nothing THEN [f EXCEPT !.cp = row]
                                ELSE [f EXCEPT !.node = settings]

initialize_from_gateway_recovery(m, gw) ==
    LET p == proc[m]
        settings == [cluster |-> p.cluster, id |-> p.id, controller |-> p.id, token |-> Token(p.id),
                     home |-> m, gw |-> gw, cfg |-> 0]
        row == [cluster |-> p.cluster, controller |-> p.id, gen |-> 1, members |-> <<>>, cfg |-> 0,
                gwgen |-> p.snapshot.gen, routes |-> p.snapshot.routes]
    IN  /\ p.pc = "loaded"
        /\ db' = [db EXCEPT ![m] = Imports(m, @, settings, row)]
        /\ IF db'[m].node # Nothing /\ db'[m].cp # Nothing
           THEN Step(m, Off)
           ELSE UNCHANGED proc
        /\ UNCHANGED <<boxes, used>>

(***************************************************************************)
(* serve.  The Controller keeps nothing that its row does not have.        *)
(***************************************************************************)
initialize_with_cluster(settings, row) ==
    IF row # Nothing THEN row
    ELSE [cluster |-> settings.cluster, controller |-> settings.controller, gen |-> 1,
          members |-> <<>>, cfg |-> settings.cfg, gwgen |-> 0, routes |-> 0]

\* Controller::new: a first Gateway generation, itself as a member, one commit.
Started(settings, row) ==
    LET r == initialize_with_cluster(settings, row)
        s == [r EXCEPT !.gwgen = IF @ = 0 THEN r.gen ELSE @,
                       !.members = IF settings.id \in DOMAIN @ THEN @
                                   ELSE [i \in DOMAIN @ \union {settings.id} |->
                                           IF i = settings.id THEN settings.gw ELSE @[i]]]
    IN  IF s = r THEN r ELSE [s EXCEPT !.gen = @ + 1]

same_cluster_identity(settings, row) ==
    row.cluster = settings.cluster /\ row.controller = settings.controller

\* A row of another identity is refused.
serve(m) ==
    LET n == db[m].node
    IN  /\ acquire_node_lock(m) /\ n # Nothing
        /\ IF is_controller(n)
           THEN /\ db[m].cp # Nothing => same_cluster_identity(n, db[m].cp)
                /\ db' = [db EXCEPT ![m].cp = Started(n, @)]
           ELSE UNCHANGED db
        /\ Step(m, [pc |-> "serve", control |-> Nothing])
        /\ UNCHANGED <<boxes, used>>

\* replace: one commit of the Controller on c.
Commit(c, row) ==
    LET next == [row EXCEPT !.gen = @ + 1]
    IN  Controls(c) /\ db' = [db EXCEPT ![c].cp = next]

Change == used.changes < used.of.changes /\ used' = [used EXCEPT !.changes = @ + 1]

\* A deployment changes the routes, and with them the Gateway generation.
Deploy(c) ==
    /\ Controls(c) /\ Change
    /\ Commit(c, [db[c].cp EXCEPT !.gwgen = @ + 1, !.routes = used.changes + 1])
    /\ UNCHANGED <<boxes, proc>>

update_node_gateway(c, i) ==
    /\ Controls(c) /\ Change
    /\ Commit(c, [db[c].cp EXCEPT !.members[i] = ~@])
    /\ UNCHANGED <<boxes, proc>>

update_cluster_config(c) ==
    /\ Controls(c) /\ Change
    /\ Commit(c, [db[c].cp EXCEPT !.cfg = @ + 1])
    /\ UNCHANGED <<boxes, proc>>

\* The Agent drops a response older than its fence, and stores the fence first.
heartbeat(m, c) ==
    LET row == db[c].cp
    IN  /\ Connected(m, c)
        /\ row.gen >= db[m].fence
        /\ db' = [db EXCEPT ![m].fence = row.gen]
        /\ Step(m, [pc |-> "serve",
                    control |-> [cfg |-> row.cfg, gw |-> row.members[db[m].node.id],
                                 gen |-> row.gwgen, routes |-> row.routes]])
        /\ UNCHANGED <<boxes, used>>

\* The supervisor saves the settings and reconciles the Gateway; a replacement
\* that is cut short leaves the old container beside the new one.
Supervise(m, whole) ==
    LET k == proc[m].control
        new == [cluster |-> db[m].node.cluster, gen |-> k.gen, routes |-> k.routes]
    IN  /\ Serves(m) /\ k # Nothing
        /\ db' = [db EXCEPT ![m].node = [@ EXCEPT !.gw = k.gw, !.cfg = k.cfg]]
        /\ boxes' = [boxes EXCEPT ![m] =
              [tasks |-> @.tasks \union {db[m].node.cluster},
               gateways |-> IF ~k.gw THEN {} ELSE IF whole THEN {new} ELSE @.gateways \union {new}]]
        /\ Step(m, [pc |-> "serve", control |-> Nothing])
        /\ UNCHANGED used

(***************************************************************************)
(* join.                                                                   *)
(***************************************************************************)
\* Mutant of Rebinds: the fence of the old Controller is kept.
RebindsNever(f, token) == f.node = Nothing

\* Old settings of another token, or none: the identity is drawn again.
Rebinds(f, token) == f.node = Nothing \/ f.node.token # token

detect_recovered_gateway(m, cluster, visible) ==
    visible /\ gateway_recovery_snapshots(m, cluster) # {}

\* The bootstrap is read and compared with the local state, which a new token
\* makes obsolete.
join(m, c, gw, visible) ==
    LET f == db[m]
        token == db[c].node.token
        cluster == db[c].cp.cluster
        kept == f.node # Nothing /\ ~Rebinds(f, token)
    IN  /\ acquire_node_lock(m) /\ Controls(c)
        /\ f.node # Nothing => f.node.cluster = cluster
        /\ db' = [db EXCEPT ![m] =
             IF ~kept /\ (f.node # Nothing \/ f.cp # Nothing) THEN Blank ELSE @]
        /\ IF kept THEN UNCHANGED used ELSE Draw
        /\ Step(m, [pc |-> "asked", home |-> c, token |-> token, cluster |-> cluster,
                    controller |-> db[c].cp.controller, cfg |-> db[c].cp.cfg, kept |-> kept,
                    id |-> IF kept THEN f.node.id ELSE used.ids + 1,
                    gw |-> gw \/ (kept /\ f.node.gw)
                           \/ detect_recovered_gateway(m, cluster, visible)])
        /\ UNCHANGED boxes

\* The Controller refuses a known node with another Gateway setting.
join_node(m) ==
    LET p == proc[m]
        c == p.home
        row == db[c].cp
        known == p.id \in DOMAIN row.members
    IN  /\ p.pc = "asked"
        /\ IF \/ ~ (Controls(c) /\ db[c].node.token = p.token)
              \/ p.id = row.controller
              \/ known /\ row.members[p.id] # p.gw
           THEN Step(m, Off) /\ UNCHANGED db
           ELSE /\ Step(m, [p EXCEPT !.pc = IF row.cfg = p.cfg /\ row.controller = p.controller
                                            THEN "answered" ELSE "changed"])
                /\ IF known THEN UNCHANGED db
                   ELSE Commit(c, [row EXCEPT !.members =
                          [i \in DOMAIN @ \union {p.id} |-> IF i = p.id THEN p.gw ELSE @[i]]])
        /\ UNCHANGED <<boxes, used>>

\* The answer is saved, unless the cluster's settings changed on the way.
Joined(m) ==
    LET p == proc[m]
        node == [cluster |-> p.cluster, id |-> p.id, controller |-> p.controller, token |-> p.token,
                 home |-> p.home, gw |-> p.gw, cfg |-> p.cfg]
        f == [db[m] EXCEPT !.node = node, !.fence = IF p.kept THEN @ ELSE 0]
    IN  /\ p.pc \in {"answered", "changed"}
        /\ IF p.pc = "changed" THEN UNCHANGED db ELSE db' = [db EXCEPT ![m] = f]
        /\ Step(m, Off)
        /\ UNCHANGED <<boxes, used>>

(***************************************************************************)
(* Stops and losses.                                                       *)
(***************************************************************************)
Stop(m) == proc[m] # Off /\ Step(m, Off) /\ UNCHANGED <<db, boxes, used>>

LoseDisk(m) ==
    /\ used.faults < used.of.faults
    /\ db' = [db EXCEPT ![m] = Blank] /\ db[m] # Blank
    /\ Step(m, Off)
    /\ used' = [used EXCEPT !.faults = @ + 1]
    /\ UNCHANGED boxes

Init ==
    /\ db = [m \in Machines |-> Blank]
    /\ boxes = [m \in Machines |-> [tasks |-> {}, gateways |-> {}]]
    /\ proc = [m \in Machines |-> Off]
    /\ used \in [ids : {0}, changes : {0}, faults : {0}, of : Instances]

Next ==
    \E m \in used.of.machines :
        \/ \E gw, visible \in BOOLEAN : init(m, gw, visible)
        \/ \E visible \in BOOLEAN : archive_control_plane_state(m, visible)
        \/ load_gateway_recovery_snapshot(m)
        \/ \E gw \in BOOLEAN : initialize_from_gateway_recovery(m, gw)
        \/ serve(m)
        \/ Deploy(m)
        \/ Controls(m) /\ \E i \in DOMAIN db[m].cp.members : update_node_gateway(m, i)
        \/ update_cluster_config(m)
        \/ \E c \in Machines : heartbeat(m, c)
        \/ \E whole \in BOOLEAN : Supervise(m, whole)
        \/ \E c \in Machines, gw, visible \in BOOLEAN : join(m, c, gw, visible)
        \/ join_node(m)
        \/ Joined(m)
        \/ Stop(m)
        \/ LoseDisk(m)

Spec == Init /\ [][Next]_vars

(***************************************************************************)
(* Properties.                                                             *)
(***************************************************************************)
\* The Controller is never behind the Gateway of its own machine: after a
\* recovery that was killed anywhere, too, it does not publish routes older
\* than the ones the Gateway serves, or none (init, select_gateway_recovery_snapshot,
\* initialize_from_gateway_recovery).
RoutesSurvive ==
    \A m \in Machines : Controls(m) =>
        \A s \in boxes[m].gateways :
            s.cluster = db[m].cp.cluster => /\ s.gen <= db[m].cp.gwgen
                                            /\ s.gen = db[m].cp.gwgen => s.routes = db[m].cp.routes

\* No Agent fences out the Controller it is connected to, so that it follows
\* a rebuilt Controller, whose generations start again (join, AgentFence).
FenceFits ==
    \A m, c \in Machines : Connected(m, c) => db[m].fence <= db[c].cp.gen

\* A recovered Controller takes up where the lost one left off, for its Gateway and
\* for its Agents.
RecoveryFits == RoutesSurvive /\ FenceFits
=============================================================================
