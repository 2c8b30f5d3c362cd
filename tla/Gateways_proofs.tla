-------------------------- MODULE Gateways_proofs --------------------------
(***************************************************************************)
(* What the Gateways serve survives the loss of a Controller               *)
(* (NodeLifecycle), and a drained task is in none of their configurations  *)
(* (GatewayDrain), for any machines, tasks and Gateways.                   *)
(*                                                                         *)
(* NodeLifecycle.  A token names one Controller, because init and its      *)
(* recovery draw a new id for it (Apart, TokenFree): so the fence that     *)
(* goes with the token compares generations of the same row (Fenced), also *)
(* when the disk was lost and the generations began again.  The row of a   *)
(* Controller covers the snapshots in the Gateways of its machine          *)
(* (Routed): recovery takes the one that covers all, and writes the row    *)
(* before the settings that make the machine a Controller (Recovering).    *)
(*                                                                         *)
(* GatewayDrain.  Its inductive invariant Inv is part of the model.        *)
(***************************************************************************)
EXTENDS NodeLifecycle, TLAPS

\* The fields of the node settings that matter.
IsSettings(n) ==
    /\ DOMAIN n = {"cluster", "id", "controller", "token", "home", "gw", "cfg"}
    /\ n.cluster \in Nat /\ n.id \in Nat /\ n.controller \in Nat /\ n.token \in Nat

\* A control-plane row; its generation starts at 1.
IsRow(r) ==
    /\ DOMAIN r = {"cluster", "controller", "gen", "members", "cfg", "gwgen", "routes"}
    /\ r.gen \in Nat \ {0} /\ r.gwgen \in Nat

\* What a heartbeat tells the supervisor.
IsControl(k) == DOMAIN k = {"cfg", "gw", "gen", "routes"} /\ k.gen \in Nat

\* Nothing is none of these, tokens are generated, and the instances fit.
Apt ==
    /\ ~IsSettings(Nothing) /\ ~IsRow(Nothing) /\ ~IsControl(Nothing)
    /\ ~FixedToken
    /\ \A i \in Instances : i.machines \subseteq Machines

\* The machine's settings are those of a Controller.
Head(f) == f.node # Nothing /\ is_controller(f.node)

\* The steps of a join that is under way.
Joining == {"asked", "answered", "changed"}

\* The snapshots of a cluster in Gateway containers b are not newer than these routes.
Covers(gen, routes, b, cluster) ==
    \A s \in b.gateways : s.cluster = cluster => s.gen <= gen /\ (s.gen = gen => s.routes = routes)

\* A file: the settings are drawn, a Controller is known by its token, and its row is its own.
FileGood(f, ids) ==
    /\ DOMAIN f = {"node", "fence", "cp"} /\ f.fence \in Nat
    /\ f.node # Nothing => /\ IsSettings(f.node) /\ f.node.id <= ids /\ f.node.cluster <= ids
                           /\ f.node.token = f.node.controller /\ f.node.token <= ids
    /\ f.cp # Nothing => IsRow(f.cp)
    /\ Head(f) /\ f.cp # Nothing => same_cluster_identity(f.node, f.cp)

\* The labels of the containers name clusters that were founded.
BoxGood(b, ids) ==
    /\ b.tasks \subseteq 0 .. ids
    /\ \A s \in b.gateways : s.cluster \in 0 .. ids /\ s.gen \in Nat

\* What a command has read, next to what is in the file.
Recovering(f, b, p, ids) ==
    /\ p.pc \in {"archived", "loaded"} => f.node = Nothing /\ f.fence = 0 /\ p.cluster \in 0 .. ids
    /\ p.pc = "archived" => f.cp = Nothing
    /\ p.pc = "loaded" => /\ p.id \in 0 .. ids /\ p.snapshot.gen \in Nat
                          /\ Covers(p.snapshot.gen, p.snapshot.routes, b, p.cluster)
                          /\ f.cp # Nothing => /\ f.cp.cluster = p.cluster /\ f.cp.controller = p.id
                                               /\ f.cp.gwgen = p.snapshot.gen /\ f.cp.routes = p.snapshot.routes

\* A Controller that serves has its row, and its own supervisor is not ahead of it.
Serving(f, p) ==
    p.pc = "serve" =>
        /\ f.node # Nothing
        /\ Head(f) => f.cp # Nothing
        /\ p.control # Nothing => IsControl(p.control)
        /\ p.control # Nothing /\ Head(f) =>
              p.control.gen <= f.cp.gwgen /\ (p.control.gen = f.cp.gwgen => p.control.routes = f.cp.routes)

\* A join that keeps the identity kept the token, and goes on from the settings it read.
JoinGood(f, p, ids) ==
    p.pc \in Joining =>
        /\ DOMAIN p = {"pc", "home", "token", "cluster", "controller", "cfg", "kept", "id", "gw"}
        /\ p.id \in 0 .. ids /\ p.cluster \in 0 .. ids /\ p.token \in 0 .. ids /\ p.controller = p.token
        /\ p.kept \in BOOLEAN /\ p.home \in Machines
        /\ p.kept => f.node # Nothing /\ f.node.id = p.id /\ f.node.token = p.token
        /\ ~p.kept => f.node = Nothing
        /\ p.pc = "answered" => p.id # p.controller

\* The row, or the lack of one, goes with the Gateways of the machine.
Routed(f, b) ==
    Head(f) => IF f.cp = Nothing THEN \A s \in b.gateways : s.cluster # f.node.cluster
               ELSE Covers(f.cp.gwgen, f.cp.routes, b, f.node.cluster)

\* Where a command may be.
Pcs == {"off", "archived", "loaded", "serve"} \cup Joining

\* What holds of one machine: its file f, its containers b and its command p.
Good(f, b, p, ids) ==
    /\ FileGood(f, ids) /\ BoxGood(b, ids) /\ p.pc \in Pcs
    /\ Recovering(f, b, p, ids) /\ Serving(f, p) /\ JoinGood(f, p, ids) /\ Routed(f, b)

\* The ids of a machine: in its file, and in the command that runs.
IdsOf(f, p) ==
    {i \in Nat : (f.node # Nothing /\ i = f.node.id) \/ (p.pc \in {"loaded"} \cup Joining /\ i = p.id)}

\* Nobody knows the token of a Controller that is being recovered.
TokenFree(p, g, q) ==
    p.pc = "loaded" => /\ g.node # Nothing => g.node.token # p.id
                       /\ q.pc \in Joining => q.token # p.id

\* No fence is ahead of the Controller whose token goes with it.
Fenced(f, g) ==
    f.node # Nothing /\ Head(g) /\ f.node.token = g.node.token
        => IF g.cp = Nothing THEN f.fence = 0 ELSE f.fence <= g.cp.gen

\* Two machines have no id in common.
Apart(f, p, g, q) == IdsOf(f, p) \cap IdsOf(g, q) = {}

\* The inductive invariant.
Inv ==
    /\ DOMAIN db = Machines /\ DOMAIN boxes = Machines /\ DOMAIN proc = Machines
    /\ DOMAIN used = {"ids", "changes", "faults", "of"} /\ used.ids \in Nat /\ used.of \in Instances
    /\ \A m \in Machines : Good(db[m], boxes[m], proc[m], used.ids)
    /\ \A m, c \in Machines : Fenced(db[m], db[c]) /\ TokenFree(proc[m], db[c], proc[c])
    /\ \A m, c \in Machines : m # c => Apart(db[m], proc[m], db[c], proc[c])

\* What holds between one machine and another, both ways round.
Near(f, p, g, q) ==
    /\ Fenced(f, g) /\ Fenced(g, f)
    /\ TokenFree(p, g, q) /\ TokenFree(q, f, p)
    /\ Apart(f, p, g, q)

\* The shape of the counters.
UsedShape(u) == DOMAIN u = {"ids", "changes", "faults", "of"} /\ u.ids \in Nat /\ u.of \in Instances

(***************************************************************************)
(* Frames.                                                                 *)
(***************************************************************************)
\* More ids may have been drawn.
LEMMA GoodGrows ==
  ASSUME NEW f, NEW b, NEW p, NEW i \in Nat, NEW j \in Nat, i <= j, Good(f, b, p, i)
  PROVE  Good(f, b, p, j)
  <1>1. FileGood(f, j)
    BY DEF Good, FileGood, IsSettings
  <1>2. BoxGood(b, j)
    BY DEF Good, BoxGood
  <1>3. Recovering(f, b, p, j)
    BY DEF Good, Recovering
  <1>4. JoinGood(f, p, j)
    BY DEF Good, JoinGood
  <1> QED  BY Zenon, <1>1, <1>2, <1>3, <1>4 DEF Good

\* A map that differs at machine m alone.
Only(old, new, m, e) ==
    DOMAIN new = Machines /\ new[m] = e /\ \A c \in Machines \ {m} : new[c] = old[c]

\* Writing at m is that; so is writing nothing.
LEMMA OnlyThere ==
  ASSUME NEW old, NEW new, NEW m \in Machines, NEW e, DOMAIN old = Machines,
         new = [old EXCEPT ![m] = e] \/ (new = old /\ e = old[m])
  PROVE  Only(old, new, m, e)
  BY Zenon DEF Only

\* A step of one machine.
LEMMA OneMachine ==
  ASSUME Inv, NEW m \in Machines, NEW f, NEW b, NEW p,
         Only(db, db', m, f), Only(boxes, boxes', m, b), Only(proc, proc', m, p),
         UsedShape(used'), used.ids <= used'.ids,
         Good(f, b, p, used'.ids), Fenced(f, f), TokenFree(p, f, p),
         \A c \in Machines \ {m} : Near(f, p, db[c], proc[c])
  PROVE  Inv'
  <1>1. /\ DOMAIN db' = Machines /\ DOMAIN boxes' = Machines /\ DOMAIN proc' = Machines
        /\ db'[m] = f /\ boxes'[m] = b /\ proc'[m] = p
        /\ \A c \in Machines \ {m} : db'[c] = db[c] /\ boxes'[c] = boxes[c] /\ proc'[c] = proc[c]
    BY Zenon DEF Only
  <1>2. \A c \in Machines : Good(db'[c], boxes'[c], proc'[c], used'.ids)
    <2> TAKE c \in Machines
    <2>1. CASE c = m
      BY Zenon, <1>1, <2>1
    <2>2. CASE c # m
      <3>1. Good(db[c], boxes[c], proc[c], used.ids) /\ used.ids \in Nat /\ used'.ids \in Nat
        BY Zenon DEF Inv, UsedShape
      <3>2. Good(db[c], boxes[c], proc[c], used'.ids)
        BY Zenon, <3>1, GoodGrows
      <3> QED  BY Zenon, <1>1, <2>2, <3>2
    <2> QED  BY Zenon, <2>1, <2>2
  <1>3. \A x, c \in Machines : Fenced(db'[x], db'[c]) /\ TokenFree(proc'[x], db'[c], proc'[c])
    <2> TAKE x, c \in Machines
    <2>1. CASE x = m /\ c = m
      BY Zenon, <1>1, <2>1
    <2>2. CASE x = m /\ c # m
      BY Zenon, <1>1, <2>2 DEF Near
    <2>3. CASE x # m /\ c = m
      BY Zenon, <1>1, <2>3 DEF Near
    <2>4. CASE x # m /\ c # m
      BY Zenon, <1>1, <2>4 DEF Inv
    <2> QED  BY Zenon, <2>1, <2>2, <2>3, <2>4
  <1>4. \A x, c \in Machines : x # c => Apart(db'[x], proc'[x], db'[c], proc'[c])
    <2> SUFFICES ASSUME NEW x \in Machines, NEW c \in Machines, x # c
                 PROVE  Apart(db'[x], proc'[x], db'[c], proc'[c])
      BY Zenon
    <2>1. CASE x = m
      BY Zenon, <1>1, <2>1 DEF Near
    <2>2. CASE c = m
      <3>1. Apart(f, p, db[x], proc[x])
        BY Zenon, <2>2 DEF Near
      <3> QED  BY Zenon, <1>1, <2>2, <3>1 DEF Apart
    <2>3. CASE x # m /\ c # m
      BY Zenon, <1>1, <2>3 DEF Inv
    <2> QED  BY Zenon, <2>1, <2>2, <2>3
  <1> QED  BY Zenon, <1>1, <1>2, <1>3, <1>4 DEF Inv, UsedShape

\* What machine c looks like from here: nothing of it is newer than the last draw.
LEMMA Old ==
  ASSUME Inv, NEW c \in Machines
  PROVE  /\ \A i \in IdsOf(db[c], proc[c]) : i <= used.ids
         /\ db[c].node # Nothing => db[c].node.token \in Nat /\ db[c].node.token <= used.ids
         /\ proc[c].pc \in Joining => proc[c].token \in Nat /\ proc[c].token <= used.ids
         /\ proc[c].pc = "loaded" => proc[c].id \in Nat /\ proc[c].id <= used.ids
         /\ used.ids \in Nat
  <1>1. Good(db[c], boxes[c], proc[c], used.ids) /\ used.ids \in Nat
    BY Zenon DEF Inv
  <1>2. FileGood(db[c], used.ids) /\ Recovering(db[c], boxes[c], proc[c], used.ids) /\ JoinGood(db[c], proc[c], used.ids)
    BY Zenon, <1>1 DEF Good
  <1>3. /\ db[c].node # Nothing => /\ db[c].node.token \in Nat /\ db[c].node.token <= used.ids
                                   /\ db[c].node.id <= used.ids
    BY Zenon, <1>2 DEF FileGood, IsSettings
  <1>4. proc[c].pc \in Joining => /\ proc[c].token \in Nat /\ proc[c].token <= used.ids
                                  /\ proc[c].id \in Nat /\ proc[c].id <= used.ids
    BY <1>1, <1>2 DEF JoinGood
  <1>5. proc[c].pc = "loaded" => proc[c].id \in Nat /\ proc[c].id <= used.ids
    BY <1>1, <1>2 DEF Recovering
  <1>6. \A i \in IdsOf(db[c], proc[c]) : i <= used.ids
    BY Zenon, <1>3, <1>4, <1>5 DEF IdsOf
  <1> QED  BY Zenon, <1>1, <1>3, <1>4, <1>5, <1>6

\* A token names one Controller.
LEMMA OneHead ==
  ASSUME Inv, NEW m \in Machines, NEW c \in Machines, Head(db[m]), Head(db[c]),
         db[m].node.token = db[c].node.token
  PROVE  m = c
  <1>1. FileGood(db[m], used.ids) /\ FileGood(db[c], used.ids)
    BY Zenon DEF Inv, Good
  <1>2. db[m].node.id = db[c].node.id /\ db[m].node.id \in Nat
    BY Zenon, <1>1 DEF FileGood, Head, is_controller, IsSettings
  <1>3. db[m].node.id \in IdsOf(db[m], proc[m]) /\ db[m].node.id \in IdsOf(db[c], proc[c])
    BY Zenon, <1>2 DEF IdsOf, Head
  <1> QED  BY Zenon, <1>3 DEF Inv, Apart

(***************************************************************************)
(* Commits, answers and stops.                                             *)
(***************************************************************************)
\* A commit of the Controller with file f, which leaves g.
Newer(f, g) ==
    /\ Head(f) /\ f.cp # Nothing
    /\ DOMAIN g = DOMAIN f /\ g.node = f.node /\ g.fence = f.fence
    /\ IsRow(g.cp) /\ same_cluster_identity(f.node, g.cp)
    /\ g.cp.gen >= f.cp.gen
    /\ g.cp.gwgen > f.cp.gwgen \/ (g.cp.gwgen = f.cp.gwgen /\ g.cp.routes = f.cp.routes)

\* The answer of join_node to a command p, which goes on as q.
Answers(p, q) ==
    /\ p.pc = "asked" /\ q.pc \in {"answered", "changed"} /\ DOMAIN q = DOMAIN p
    /\ q.id = p.id /\ q.cluster = p.cluster /\ q.token = p.token /\ q.controller = p.controller
    /\ q.kept = p.kept /\ q.home = p.home
    /\ q.pc = "answered" => p.id # p.controller

\* A later row covers what the earlier one covered.
LEMMA NewerGood ==
  ASSUME Apt, NEW f, NEW g, NEW b, NEW p, NEW i \in Nat, Newer(f, g), Good(f, b, p, i)
  PROVE  Good(g, b, p, i)
  <1>1. g.cp # Nothing /\ Head(g)
    BY Zenon DEF Newer, Apt, Head
  <1>2. FileGood(g, i)
    BY Zenon, <1>1 DEF Good, FileGood, Newer
  <1>3. Recovering(g, b, p, i) /\ JoinGood(g, p, i)
    BY Zenon, <1>1 DEF Good, Recovering, JoinGood, Newer, Head
  <1>4. Serving(g, p)
    BY <1>1 DEF Good, Serving, FileGood, Newer, IsRow, IsControl
  <1>5. Routed(g, b)
    BY <1>1 DEF Good, Routed, Covers, FileGood, BoxGood, Newer, IsRow
  <1> QED  BY Zenon, <1>2, <1>3, <1>4, <1>5 DEF Good

\* An answer, or the end of a command, is good for any file.
LEMMA AnswersGood ==
  ASSUME NEW f, NEW b, NEW p, NEW q, NEW i, Answers(p, q) \/ q = Off, Good(f, b, p, i)
  PROVE  Good(f, b, q, i)
  <1>1. CASE q = Off
    BY Zenon, <1>1 DEF Good, Off, Recovering, Serving, JoinGood, Pcs, Joining
  <1>2. CASE Answers(p, q)
    BY Zenon, <1>2 DEF Good, Answers, Recovering, Serving, JoinGood, Pcs, Joining
  <1> QED  BY Zenon, <1>1, <1>2

\* Commits, answers and stops preserve the invariant.
LEMMA Progress ==
  ASSUME Apt, Inv, UNCHANGED boxes, UsedShape(used'), used'.ids = used.ids,
         DOMAIN db' = Machines, DOMAIN proc' = Machines,
         \A x \in Machines : db'[x] = db[x] \/ Newer(db[x], db'[x]),
         \A x \in Machines : proc'[x] = proc[x] \/ proc'[x] = Off \/ Answers(proc[x], proc'[x])
  PROVE  Inv'
  <1>1. \A x \in Machines : Good(db'[x], boxes'[x], proc'[x], used'.ids)
    <2> TAKE x \in Machines
    <2>1. Good(db[x], boxes[x], proc[x], used.ids) /\ used.ids \in Nat
      BY Zenon DEF Inv
    <2>2. Good(db'[x], boxes[x], proc[x], used.ids)
      BY Zenon, <2>1, NewerGood
    <2>3. Good(db'[x], boxes[x], proc'[x], used.ids)
      BY Zenon, <2>2, AnswersGood
    <2> QED  BY Zenon, <2>3
  <1>2. \A x \in Machines : db'[x].node = db[x].node /\ db'[x].fence = db[x].fence
    BY Zenon DEF Newer
  <1>3. \A x \in Machines : /\ proc'[x].pc \in {"loaded"} \cup Joining => proc[x].pc \in {"loaded"} \cup Joining
                            /\ proc'[x].pc = "loaded" => proc[x].pc = "loaded"
                            /\ proc'[x].pc \in Joining => proc[x].pc \in Joining
                            /\ proc'[x].pc \in {"loaded"} \cup Joining => proc'[x].id = proc[x].id
                            /\ proc'[x].pc \in Joining => proc'[x].token = proc[x].token
    BY DEF Answers, Off, Joining
  <1>4. \A x, c \in Machines : TokenFree(proc'[x], db'[c], proc'[c])
    BY <1>2, <1>3 DEF Inv, TokenFree
  <1>5. \A x \in Machines : IdsOf(db'[x], proc'[x]) \subseteq IdsOf(db[x], proc[x])
    BY Zenon, <1>2, <1>3 DEF IdsOf
  <1>6. \A x, c \in Machines : x # c => Apart(db'[x], proc'[x], db'[c], proc'[c])
    BY Zenon, <1>5 DEF Inv, Apart
  <1>7. \A x, c \in Machines : Fenced(db'[x], db'[c])
    <2> TAKE x, c \in Machines
    <2>1. Fenced(db[x], db[c]) /\ FileGood(db[x], used.ids) /\ FileGood(db[c], used.ids)
      BY Zenon DEF Inv, Good
    <2>2. CASE db'[c] = db[c]
      BY Zenon, <1>2, <2>1, <2>2 DEF Fenced
    <2>3. CASE Newer(db[c], db'[c])
      <3>1. /\ db[c].cp # Nothing /\ db'[c].cp # Nothing /\ IsRow(db'[c].cp)
            /\ db'[c].cp.gen >= db[c].cp.gen
        BY Zenon, <2>3 DEF Newer, Apt
      <3>2. IsRow(db[c].cp) /\ db[x].fence \in Nat
        BY Zenon, <2>1, <3>1 DEF FileGood
      <3>3. Head(db'[c]) <=> Head(db[c])
        BY Zenon, <1>2 DEF Head
      <3> QED  BY <1>2, <2>1, <3>1, <3>2, <3>3 DEF Fenced, IsRow
    <2> QED  BY Zenon, <2>2, <2>3
  <1> QED  BY Zenon, <1>1, <1>4, <1>6, <1>7 DEF Inv, UsedShape

\* A killed command (Ctrl-C, a crash) preserves the invariant.
LEMMA StopKeeps == ASSUME Apt, Inv, NEW m \in Machines, Stop(m) PROVE Inv'
  BY Zenon, Progress DEF Stop, Step, Inv, UsedShape

\* replace: the Controller on c commits a row with the same or the next routes.
LEMMA CommitNewer ==
  ASSUME Apt, Inv, NEW c \in Machines, NEW row, Controls(c), Commit(c, row),
         IsRow(row), row.cluster = db[c].cp.cluster, row.controller = db[c].cp.controller,
         row.gen = db[c].cp.gen,
         row.gwgen > db[c].cp.gwgen \/ (row.gwgen = db[c].cp.gwgen /\ row.routes = db[c].cp.routes)
  PROVE  DOMAIN db' = Machines /\ \A x \in Machines : db'[x] = db[x] \/ Newer(db[x], db'[x])
  <1>1. FileGood(db[c], used.ids) /\ Head(db[c]) /\ db[c].cp # Nothing
    BY Zenon DEF Inv, Good, Serving, Controls, Serves, Head
  <1>2. same_cluster_identity(db[c].node, row)
    BY Zenon, <1>1 DEF FileGood, same_cluster_identity
  <1> DEFINE next == [row EXCEPT !.gen = @ + 1]
             g == [db[c] EXCEPT !.cp = next]
  <1>3. /\ DOMAIN g = DOMAIN db[c] /\ g.node = db[c].node /\ g.fence = db[c].fence
        /\ g.cp = next
    BY Zenon, <1>1 DEF FileGood
  <1>4. /\ IsRow(g.cp) /\ g.cp.gen = row.gen + 1 /\ g.cp.gwgen = row.gwgen /\ g.cp.routes = row.routes
        /\ g.cp.cluster = row.cluster /\ g.cp.controller = row.controller
    BY <1>3 DEF IsRow
  <1>5. Newer(db[c], g)
    BY <1>1, <1>2, <1>3, <1>4 DEF Newer, same_cluster_identity, IsRow
  <1>6. db' = [db EXCEPT ![c] = g]
    BY Zenon DEF Commit
  <1> QED  BY Zenon, <1>5, <1>6 DEF Inv

\* Counting a change draws no id.
LEMMA ChangeShape == ASSUME Inv, Change PROVE UsedShape(used') /\ used'.ids = used.ids
  BY Zenon DEF Inv, Change, UsedShape

\* What the Controller's row looks like while it serves.
LEMMA ControlsRow == ASSUME Inv, NEW c \in Machines, Controls(c) PROVE Head(db[c]) /\ IsRow(db[c].cp)
  BY Zenon DEF Inv, Good, Serving, FileGood, Controls, Serves, Head

\* A deployment preserves the invariant.
LEMMA DeployKeeps == ASSUME Apt, Inv, NEW c \in Machines, Deploy(c) PROVE Inv'
  <1> DEFINE row == [db[c].cp EXCEPT !.gwgen = @ + 1, !.routes = used.changes + 1]
  <1>1. Controls(c) /\ Commit(c, row) /\ Change /\ UNCHANGED <<boxes, proc>>
    BY Zenon DEF Deploy
  <1>2. /\ IsRow(row) /\ row.cluster = db[c].cp.cluster /\ row.controller = db[c].cp.controller
        /\ row.gen = db[c].cp.gen /\ row.gwgen > db[c].cp.gwgen
    BY <1>1, ControlsRow DEF IsRow
  <1>3. DOMAIN db' = Machines /\ \A x \in Machines : db'[x] = db[x] \/ Newer(db[x], db'[x])
    BY Zenon, <1>1, <1>2, CommitNewer
  <1> QED  BY Zenon, <1>1, <1>3, ChangeShape, Progress DEF Inv

\* update_node_gateway preserves the invariant.
LEMMA GatewayKeeps == ASSUME Apt, Inv, NEW c \in Machines, NEW i, update_node_gateway(c, i) PROVE Inv'
  <1> DEFINE row == [db[c].cp EXCEPT !.members[i] = ~@]
  <1>1. Controls(c) /\ Commit(c, row) /\ Change /\ UNCHANGED <<boxes, proc>>
    BY Zenon DEF update_node_gateway
  <1>2. /\ IsRow(row) /\ row.cluster = db[c].cp.cluster /\ row.controller = db[c].cp.controller
        /\ row.gen = db[c].cp.gen /\ row.gwgen = db[c].cp.gwgen /\ row.routes = db[c].cp.routes
    BY Zenon, <1>1, ControlsRow DEF IsRow
  <1>3. DOMAIN db' = Machines /\ \A x \in Machines : db'[x] = db[x] \/ Newer(db[x], db'[x])
    BY Zenon, <1>1, <1>2, CommitNewer
  <1> QED  BY Zenon, <1>1, <1>3, ChangeShape, Progress DEF Inv

\* update_cluster_config preserves the invariant.
LEMMA ConfigKeeps == ASSUME Apt, Inv, NEW c \in Machines, update_cluster_config(c) PROVE Inv'
  <1> DEFINE row == [db[c].cp EXCEPT !.cfg = @ + 1]
  <1>1. Controls(c) /\ Commit(c, row) /\ Change /\ UNCHANGED <<boxes, proc>>
    BY Zenon DEF update_cluster_config
  <1>2. /\ IsRow(row) /\ row.cluster = db[c].cp.cluster /\ row.controller = db[c].cp.controller
        /\ row.gen = db[c].cp.gen /\ row.gwgen = db[c].cp.gwgen /\ row.routes = db[c].cp.routes
    BY Zenon, <1>1, ControlsRow DEF IsRow
  <1>3. DOMAIN db' = Machines /\ \A x \in Machines : db'[x] = db[x] \/ Newer(db[x], db'[x])
    BY Zenon, <1>1, <1>2, CommitNewer
  <1> QED  BY Zenon, <1>1, <1>3, ChangeShape, Progress DEF Inv

\* The Controller's join_node preserves the invariant, refused or not.
LEMMA JoinNodeKeeps == ASSUME Apt, Inv, NEW m \in Machines, join_node(m) PROVE Inv'
  <1> DEFINE p == proc[m]
             c == p.home
             row == db[c].cp
             more == [row EXCEPT !.members =
                        [i \in DOMAIN @ \union {p.id} |-> IF i = p.id THEN p.gw ELSE @[i]]]
             q == [p EXCEPT !.pc = IF row.cfg = p.cfg /\ row.controller = p.controller
                                   THEN "answered" ELSE "changed"]
  <1>1. /\ p.pc = "asked" /\ UNCHANGED <<boxes, used>>
        /\ \/ Step(m, Off) /\ UNCHANGED db
           \/ Controls(c) /\ p.id # row.controller /\ Step(m, q) /\ (UNCHANGED db \/ Commit(c, more))
    BY Zenon DEF join_node
  <1>2. JoinGood(db[m], p, used.ids) /\ UsedShape(used) /\ UsedShape(used') /\ used'.ids = used.ids
    BY Zenon, <1>1 DEF Inv, Good, UsedShape
  <1>3. p.pc \in Joining /\ c \in Machines /\ DOMAIN p = {"pc", "home", "token", "cluster", "controller", "cfg", "kept", "id", "gw"}
    BY Zenon, <1>1, <1>2 DEF JoinGood, Joining
  <1>4. CASE Step(m, Off) /\ UNCHANGED db
    BY Zenon, <1>1, <1>2, <1>4, Progress DEF Step, Inv
  <1>5. CASE Controls(c) /\ p.id # row.controller /\ Step(m, q) /\ (UNCHANGED db \/ Commit(c, more))
    <2>1. Answers(p, q)
      BY Zenon, <1>1, <1>3, <1>5 DEF Answers
    <2>2. DOMAIN proc' = Machines /\ \A x \in Machines : proc'[x] = proc[x] \/ Answers(proc[x], proc'[x])
      BY Zenon, <1>5, <2>1 DEF Step, Inv
    <2>3. DOMAIN db' = Machines /\ \A x \in Machines : db'[x] = db[x] \/ Newer(db[x], db'[x])
      <3>1. CASE UNCHANGED db
        BY Zenon, <3>1 DEF Inv
      <3>2. CASE Commit(c, more)
        <4>1. IsRow(row)
          BY Zenon, <1>3, <1>5, ControlsRow
        <4>2. /\ IsRow(more) /\ more.cluster = row.cluster /\ more.controller = row.controller
              /\ more.gen = row.gen /\ more.gwgen = row.gwgen /\ more.routes = row.routes
          BY Zenon, <4>1 DEF IsRow
        <4> HIDE DEF more
        <4> QED  BY Zenon, <1>3, <1>5, <3>2, <4>2, CommitNewer
      <3> QED  BY Zenon, <1>5, <3>1, <3>2
    <2> QED  BY Zenon, <1>1, <1>2, <2>2, <2>3, Progress
  <1> QED  BY Zenon, <1>1, <1>4, <1>5

(***************************************************************************)
(* init and its recovery.                                                  *)
(***************************************************************************)
\* Drawing an id takes the next one.
LEMMA DrawShape == ASSUME Inv, Draw PROVE UsedShape(used') /\ used'.ids = used.ids + 1 /\ used.ids \in Nat
  BY DEF Inv, Draw, UsedShape

\* A machine whose file is blank is near to nobody, as long as its command has no id of its own.
LEMMA BlankNear ==
  ASSUME NEW p, NEW g, NEW q, p.pc \notin {"loaded"} \cup Joining
  PROVE  Near(Blank, p, g, q)
  BY Zenon DEF Near, Fenced, TokenFree, Apart, IdsOf, Blank, Head

\* A new cluster has an id, and with it a token, that nobody has seen.
LEMMA InitKeeps == ASSUME Apt, Inv, NEW m \in Machines, NEW gw, NEW v, init(m, gw, v) PROVE Inv'
  <1> DEFINE n == used.ids + 1
             node == [cluster |-> n, id |-> n, controller |-> n, token |-> Token(n), home |-> m, gw |-> gw, cfg |-> 0]
             f == [node |-> node, fence |-> 0, cp |-> Nothing]
  <1>1. proc[m] = Off /\ db' = [db EXCEPT ![m] = f] /\ UNCHANGED <<boxes, proc>> /\ Draw
    BY Zenon DEF init, acquire_node_lock
  <1>2. UsedShape(used') /\ used'.ids = n /\ used.ids \in Nat
    BY Zenon, <1>1, DrawShape
  <1>3. /\ IsSettings(node) /\ node.token = n /\ node.controller = n /\ node.id = n /\ node.cluster = n
        /\ node # Nothing
    BY <1>2 DEF IsSettings, Token, Apt
  <1>4. BoxGood(boxes[m], used.ids)
    BY Zenon DEF Inv, Good
  <1>5. Good(f, boxes[m], proc[m], n)
    <2>1. FileGood(f, n)
      BY <1>2, <1>3 DEF FileGood
    <2>2. BoxGood(boxes[m], n)
      BY <1>2, <1>4 DEF BoxGood
    <2>3. Routed(f, boxes[m])
      BY <1>2, <1>3, <1>4 DEF Routed, BoxGood
    <2> QED  BY <1>1, <2>1, <2>2, <2>3 DEF Good, Off, Recovering, Serving, JoinGood, Pcs, Joining
  <1>6. \A c \in Machines \ {m} : Near(f, proc[m], db[c], proc[c])
    <2> TAKE c \in Machines \ {m}
    <2>1. /\ \A i \in IdsOf(db[c], proc[c]) : i <= used.ids
          /\ db[c].node # Nothing => db[c].node.token \in Nat /\ db[c].node.token <= used.ids
          /\ proc[c].pc = "loaded" => proc[c].id \in Nat /\ proc[c].id <= used.ids
      BY Zenon, Old
    <2>2. Fenced(f, db[c]) /\ Fenced(db[c], f)
      BY <1>2, <1>3, <2>1 DEF Fenced, Head
    <2>3. TokenFree(proc[m], db[c], proc[c]) /\ TokenFree(proc[c], f, proc[m])
      BY <1>1, <1>2, <1>3, <2>1 DEF TokenFree, Off, Joining
    <2>4. Apart(f, proc[m], db[c], proc[c])
      <3>1. IdsOf(f, proc[m]) \subseteq {n}
        BY <1>1, <1>3 DEF IdsOf, Off, Joining
      <3>2. n \notin IdsOf(db[c], proc[c])
        BY <1>2, <2>1
      <3> QED  BY Zenon, <3>1, <3>2 DEF Apart
    <2> QED  BY Zenon, <2>2, <2>3, <2>4 DEF Near
  <1>7. Fenced(f, f) /\ TokenFree(proc[m], f, proc[m])
    BY <1>1 DEF Fenced, TokenFree, Off
  <1>8. Only(db, db', m, f) /\ Only(boxes, boxes', m, boxes[m]) /\ Only(proc, proc', m, proc[m])
    BY Zenon, <1>1, OnlyThere DEF Inv
  <1> HIDE DEF f
  <1>9. used.ids <= used'.ids
    BY <1>2
  <1> QED  BY Zenon, <1>2, <1>5, <1>6, <1>7, <1>8, <1>9, OneMachine

\* init --recover puts the file away: the machine has no settings, and fences nothing.
LEMMA ArchiveKeeps == ASSUME Apt, Inv, NEW m \in Machines, NEW v, archive_control_plane_state(m, v) PROVE Inv'
  <1>1. PICK c \in recovery_cluster_ids(m, v) : Step(m, [pc |-> "archived", cluster |-> c])
    BY Zenon DEF archive_control_plane_state
  <1> DEFINE p == [pc |-> "archived", cluster |-> c]
  <1>2. db' = [db EXCEPT ![m] = Blank] /\ UNCHANGED <<boxes, used>> /\ proc' = [proc EXCEPT ![m] = p]
    BY Zenon, <1>1 DEF archive_control_plane_state, Step
  <1>3. FileGood(db[m], used.ids) /\ BoxGood(boxes[m], used.ids) /\ used.ids \in Nat /\ UsedShape(used)
    BY Zenon DEF Inv, Good, UsedShape
  <1>4. c \in 0 .. used.ids
    <2>1. ManagedClusterInventory(m, v) \subseteq 0 .. used.ids
      BY Zenon, <1>3 DEF ManagedClusterInventory, BoxGood
    <2>2. db[m].node # Nothing => db[m].node.cluster \in 0 .. used.ids
      BY <1>3 DEF FileGood, IsSettings
    <2> QED  BY Zenon, <2>1, <2>2 DEF recovery_cluster_ids
  <1>5. Good(Blank, boxes[m], p, used.ids)
    BY Zenon, <1>3, <1>4 DEF Good, FileGood, Blank, Head, Recovering, Serving, JoinGood, Routed, Pcs, Joining
  <1>6. \A x \in Machines \ {m} : Near(Blank, p, db[x], proc[x])
    BY Zenon, BlankNear DEF Joining
  <1>7. Fenced(Blank, Blank) /\ TokenFree(p, Blank, p)
    BY Zenon DEF Fenced, TokenFree, Blank
  <1>8. Only(db, db', m, Blank) /\ Only(boxes, boxes', m, boxes[m]) /\ Only(proc, proc', m, p)
    BY Zenon, <1>2, OnlyThere DEF Inv
  <1>9. UsedShape(used') /\ used.ids <= used'.ids /\ used'.ids = used.ids
    BY <1>2, <1>3
  <1> HIDE DEF p
  <1> QED  BY Zenon, <1>5, <1>6, <1>7, <1>8, <1>9, OneMachine

\* The snapshot that is taken covers every snapshot of the cluster on the machine.
LEMMA SelectCovers ==
  ASSUME NEW m, NEW cluster,
         NEW s \in select_gateway_recovery_snapshot(gateway_recovery_snapshots(m, cluster))
  PROVE  s \in boxes[m].gateways /\ s.cluster = cluster /\ Covers(s.gen, s.routes, boxes[m], cluster)
  <1> DEFINE found == gateway_recovery_snapshots(m, cluster)
             latest == {t \in found : \A u \in found : u.gen <= t.gen}
  <1>1. s \in latest /\ \A t, u \in latest : t = u
    BY Zenon DEF select_gateway_recovery_snapshot
  <1>2. \A t \in found : t.gen <= s.gen /\ (t.gen = s.gen => t \in latest)
    BY Zenon, <1>1
  <1> QED  BY Zenon, <1>1, <1>2 DEF gateway_recovery_snapshots, Covers

\* The recovered Controller draws a new id, and covers every snapshot it found.
LEMMA LoadKeeps == ASSUME Apt, Inv, NEW m \in Machines, load_gateway_recovery_snapshot(m) PROVE Inv'
  <1> DEFINE found == select_gateway_recovery_snapshot(gateway_recovery_snapshots(m, proc[m].cluster))
             n == used.ids + 1
  <1>1. proc[m].pc = "archived" /\ UNCHANGED <<db, boxes>>
    BY Zenon DEF load_gateway_recovery_snapshot
  <1>2. CASE Step(m, Off) /\ UNCHANGED used
    BY Zenon, <1>1, <1>2, Progress DEF Step, Inv, UsedShape
  <1>3. CASE Draw /\ \E s \in found : Step(m, [pc |-> "loaded", cluster |-> s.cluster, id |-> n, snapshot |-> s])
    <2>1. PICK s \in found : Step(m, [pc |-> "loaded", cluster |-> s.cluster, id |-> n, snapshot |-> s])
      BY Zenon, <1>3
    <2> DEFINE p == [pc |-> "loaded", cluster |-> s.cluster, id |-> n, snapshot |-> s]
    <2>2. UsedShape(used') /\ used'.ids = n /\ used.ids \in Nat /\ used.ids <= used'.ids
      BY <1>3, DrawShape
    <2>3. /\ s \in boxes[m].gateways /\ s.cluster = proc[m].cluster
          /\ Covers(s.gen, s.routes, boxes[m], proc[m].cluster)
      BY Zenon, SelectCovers
    <2>4. Good(db[m], boxes[m], proc[m], used.ids)
      BY Zenon DEF Inv
    <2>5. db[m].node = Nothing /\ db[m].cp = Nothing /\ db[m].fence = 0
      BY Zenon, <1>1, <2>4 DEF Good, Recovering
    <2>6. s.gen \in Nat /\ s.cluster \in 0 .. n
      BY <2>2, <2>3, <2>4 DEF Good, BoxGood
    <2>7. Good(db[m], boxes[m], p, n)
      <3>1. FileGood(db[m], n)
        BY Zenon, <2>2, <2>4, <2>5 DEF Good, FileGood, Head
      <3>2. BoxGood(boxes[m], n)
        BY <2>2, <2>4 DEF Good, BoxGood
      <3>3. Recovering(db[m], boxes[m], p, n)
        BY <2>2, <2>3, <2>5, <2>6 DEF Recovering
      <3> QED  BY Zenon, <2>5, <3>1, <3>2, <3>3 DEF Good, Serving, JoinGood, Routed, Head, Pcs, Joining
    <2>8. \A c \in Machines \ {m} : Near(db[m], p, db[c], proc[c])
      <3> TAKE c \in Machines \ {m}
      <3>1. /\ \A i \in IdsOf(db[c], proc[c]) : i <= used.ids
            /\ db[c].node # Nothing => db[c].node.token \in Nat /\ db[c].node.token <= used.ids
            /\ proc[c].pc \in Joining => proc[c].token \in Nat /\ proc[c].token <= used.ids
        BY Zenon, Old
      <3>2. Fenced(db[m], db[c]) /\ Fenced(db[c], db[m])
        BY Zenon DEF Inv
      <3>3. TokenFree(p, db[c], proc[c])
        BY SMTT(30), <2>2, <3>1 DEF TokenFree
      <3>4. TokenFree(proc[c], db[m], p)
        BY Zenon, <2>5 DEF TokenFree, Joining
      <3>5. IdsOf(db[m], p) \subseteq {n}
        BY Zenon, <2>5 DEF IdsOf
      <3>6. n \notin IdsOf(db[c], proc[c])
        BY <2>2, <3>1
      <3> QED  BY Zenon, <3>2, <3>3, <3>4, <3>5, <3>6 DEF Near, Apart
    <2>9. Fenced(db[m], db[m]) /\ TokenFree(p, db[m], p)
      BY Zenon, <2>5 DEF Fenced, TokenFree, Joining
    <2>10. Only(db, db', m, db[m]) /\ Only(boxes, boxes', m, boxes[m]) /\ Only(proc, proc', m, p)
      BY Zenon, <1>1, <2>1, OnlyThere DEF Inv, Step
    <2> HIDE DEF p
    <2> QED  BY Zenon, <2>2, <2>7, <2>8, <2>9, <2>10, OneMachine
  <1> QED  BY Zenon, <1>2, <1>3 DEF load_gateway_recovery_snapshot

\* The row is imported before the settings are saved: no Controller of this id starts without
\* the routes it was recovered from.
LEMMA ImportKeeps ==
  ASSUME Apt, Inv, NEW m \in Machines, NEW gw, initialize_from_gateway_recovery(m, gw)
  PROVE  Inv'
  <1> DEFINE p == proc[m]
             settings == [cluster |-> p.cluster, id |-> p.id, controller |-> p.id, token |-> Token(p.id),
                          home |-> m, gw |-> gw, cfg |-> 0]
             row == [cluster |-> p.cluster, controller |-> p.id, gen |-> 1, members |-> <<>>, cfg |-> 0,
                     gwgen |-> p.snapshot.gen, routes |-> p.snapshot.routes]
  <1>1. /\ p.pc = "loaded" /\ db' = [db EXCEPT ![m] = Imports(m, db[m], settings, row)]
        /\ IF db'[m].node # Nothing /\ db'[m].cp # Nothing THEN Step(m, Off) ELSE UNCHANGED proc
        /\ UNCHANGED <<boxes, used>>
    BY Zenon DEF initialize_from_gateway_recovery
  <1>2. Good(db[m], boxes[m], p, used.ids) /\ UsedShape(used) /\ used.ids \in Nat /\ m \in DOMAIN db
    BY Zenon DEF Inv, UsedShape
  <1>3. FileGood(db[m], used.ids) /\ Recovering(db[m], boxes[m], p, used.ids) /\ BoxGood(boxes[m], used.ids)
    BY Zenon, <1>2 DEF Good
  <1>4. /\ DOMAIN db[m] = {"node", "fence", "cp"} /\ db[m].node = Nothing /\ db[m].fence = 0
        /\ p.id \in 0 .. used.ids /\ p.cluster \in 0 .. used.ids /\ p.snapshot.gen \in Nat
        /\ Covers(p.snapshot.gen, p.snapshot.routes, boxes[m], p.cluster)
    BY Zenon, <1>1, <1>3 DEF FileGood, Recovering
  <1>5. UsedShape(used') /\ used'.ids = used.ids /\ used.ids <= used'.ids
    BY <1>1, <1>2
  <1>6. \A c \in Machines : /\ Fenced(db[m], db[c]) /\ Fenced(db[c], db[m])
                            /\ TokenFree(p, db[c], proc[c]) /\ TokenFree(proc[c], db[m], p)
    BY Zenon DEF Inv
  <1>7. \A c \in Machines \ {m} : Apart(db[m], p, db[c], proc[c])
    BY Zenon DEF Inv
  <1>8. CASE db[m].cp = Nothing
    <2> DEFINE f == [db[m] EXCEPT !.cp = row]
    <2>1. /\ DOMAIN f = {"node", "fence", "cp"} /\ f.node = Nothing /\ f.fence = 0 /\ f.cp = row
      BY Zenon, <1>4
    <2>2. db' = [db EXCEPT ![m] = f] /\ db'[m] = f /\ UNCHANGED proc
      BY Zenon, <1>1, <1>2, <1>8, <2>1 DEF Imports
    <2>3. IsRow(row) /\ row.cluster = p.cluster /\ row.controller = p.id
      BY <1>4 DEF IsRow
    <2>4. Good(f, boxes[m], p, used.ids)
      <3>1. FileGood(f, used.ids)
        BY <2>1, <2>3 DEF FileGood, Head
      <3>2. Recovering(f, boxes[m], p, used.ids)
        BY Zenon, <1>1, <1>4, <2>1, <2>3 DEF Recovering
      <3> QED  BY Zenon, <1>1, <1>3, <2>1, <3>1, <3>2 DEF Good, Serving, JoinGood, Routed, Head, Pcs, Joining
    <2>5. \A c \in Machines \ {m} : Near(f, p, db[c], proc[c])
      BY Zenon, <1>6, <1>7, <1>4, <2>1 DEF Near, Fenced, TokenFree, Apart, IdsOf, Head
    <2>6. Fenced(f, f) /\ TokenFree(p, f, p)
      BY Zenon, <1>1, <2>1 DEF Fenced, TokenFree, Joining
    <2>7. Only(db, db', m, f) /\ Only(boxes, boxes', m, boxes[m]) /\ Only(proc, proc', m, p)
      BY Zenon, <1>1, <2>2, OnlyThere DEF Inv
    <2> HIDE DEF f
    <2> QED  BY Zenon, <1>5, <2>4, <2>5, <2>6, <2>7, OneMachine
  <1>9. CASE db[m].cp # Nothing
    <2> DEFINE f == [db[m] EXCEPT !.node = settings]
    <2>1. /\ DOMAIN f = {"node", "fence", "cp"} /\ f.node = settings /\ f.fence = 0 /\ f.cp = db[m].cp
      BY Zenon, <1>4
    <2>2. /\ IsSettings(settings) /\ settings # Nothing /\ settings.token = p.id /\ settings.id = p.id
          /\ settings.controller = p.id /\ settings.cluster = p.cluster
      BY SMTT(30), <1>4 DEF IsSettings, Token, Apt
    <2>3. db' = [db EXCEPT ![m] = f] /\ db'[m] = f /\ Step(m, Off)
      BY Zenon, <1>1, <1>2, <1>9, <2>1, <2>2 DEF Imports
    <2>4. /\ IsRow(f.cp) /\ f.cp.cluster = p.cluster /\ f.cp.controller = p.id
          /\ f.cp.gwgen = p.snapshot.gen /\ f.cp.routes = p.snapshot.routes
      BY Zenon, <1>1, <1>3, <1>9, <2>1 DEF FileGood, Recovering
    <2> HIDE DEF settings
    <2>5. Good(f, boxes[m], Off, used.ids)
      <3>1. FileGood(f, used.ids)
        BY <1>4, <2>1, <2>2, <2>4 DEF FileGood, same_cluster_identity
      <3>2. Routed(f, boxes[m])
        BY Zenon, <1>4, <1>9, <2>1, <2>2, <2>4 DEF Routed
      <3> QED  BY Zenon, <1>3, <3>1, <3>2 DEF Good, Recovering, Serving, JoinGood, Off, Pcs, Joining
    <2>6. \A c \in Machines \ {m} : Near(f, Off, db[c], proc[c])
      <3> TAKE c \in Machines \ {m}
      <3>1. Fenced(f, db[c]) /\ Fenced(db[c], f)
        BY Zenon, <1>1, <1>6, <2>1, <2>2 DEF Fenced, TokenFree, Head
      <3>2. IdsOf(f, Off) \subseteq IdsOf(db[m], p)
        BY Zenon, <1>1, <2>1, <2>2 DEF IdsOf, Off, Joining
      <3>3. Apart(f, Off, db[c], proc[c])
        BY Zenon, <1>7, <3>2 DEF Apart
      <3>4. TokenFree(Off, db[c], proc[c])
        BY Zenon DEF TokenFree, Off
      <3>5. p.id \in IdsOf(db[m], p)
        BY SMTT(30), <1>1, <1>4 DEF IdsOf
      <3>6. proc[c].pc = "loaded" => proc[c].id # p.id
        <4>1. proc[c].pc = "loaded" => proc[c].id \in IdsOf(db[c], proc[c])
          BY Zenon, Old DEF IdsOf
        <4> QED  BY Zenon, <1>7, <3>5, <4>1 DEF Apart
      <3>7. TokenFree(proc[c], f, Off)
        BY Zenon, <2>1, <2>2, <3>6 DEF TokenFree, Off, Joining
      <3> QED  BY Zenon, <3>1, <3>3, <3>4, <3>7 DEF Near
    <2>7. Fenced(f, f) /\ TokenFree(Off, f, Off)
      BY <2>1, <2>4 DEF Fenced, TokenFree, Off, IsRow
    <2>8. Only(db, db', m, f) /\ Only(boxes, boxes', m, boxes[m]) /\ Only(proc, proc', m, Off)
      BY Zenon, <1>1, <2>3, OnlyThere DEF Inv, Step
    <2> HIDE DEF f
    <2> QED  BY Zenon, <1>5, <2>5, <2>6, <2>7, <2>8, OneMachine
  <1> QED  BY Zenon, <1>8, <1>9

(***************************************************************************)
(* serve, its Agent and its supervisor.                                    *)
(***************************************************************************)
\* Controller::new keeps the identity and the routes, and gives a first row a
\* Gateway generation of its own.
LEMMA StartedFits ==
  ASSUME Apt, NEW settings, NEW row, IsSettings(settings), row # Nothing => IsRow(row),
         row # Nothing => same_cluster_identity(settings, row)
  PROVE  /\ IsRow(Started(settings, row)) /\ same_cluster_identity(settings, Started(settings, row))
         /\ row # Nothing => /\ Started(settings, row).gen >= row.gen
                             /\ Started(settings, row).routes = row.routes
                             /\ Started(settings, row).gwgen = IF row.gwgen = 0 THEN row.gen ELSE row.gwgen
  <1> DEFINE r == initialize_with_cluster(settings, row)
             s == [r EXCEPT !.gwgen = IF @ = 0 THEN r.gen ELSE @,
                            !.members = IF settings.id \in DOMAIN @ THEN @
                                        ELSE [i \in DOMAIN @ \union {settings.id} |->
                                                IF i = settings.id THEN settings.gw ELSE @[i]]]
             t == IF s = r THEN r ELSE [s EXCEPT !.gen = @ + 1]
  <1>1. IsRow(r) /\ same_cluster_identity(settings, r) /\ (row # Nothing => r = row)
    BY SMTT(30) DEF initialize_with_cluster, IsRow, same_cluster_identity
  <1>2. Started(settings, row) = t
    BY Zenon DEF Started
  <1> HIDE DEF r
  <1>3. /\ DOMAIN s = DOMAIN r /\ s.cluster = r.cluster /\ s.controller = r.controller /\ s.gen = r.gen
        /\ s.routes = r.routes /\ s.gwgen = IF r.gwgen = 0 THEN r.gen ELSE r.gwgen
    BY Zenon, <1>1 DEF IsRow
  <1> HIDE DEF s
  <1>4. /\ DOMAIN t = DOMAIN r /\ t.cluster = r.cluster /\ t.controller = r.controller
        /\ t.gen \in Nat \ {0} /\ t.gen >= r.gen /\ t.routes = r.routes
        /\ t.gwgen = IF r.gwgen = 0 THEN r.gen ELSE r.gwgen
    BY <1>1, <1>3 DEF IsRow
  <1> HIDE DEF t
  <1>5. IsRow(t) /\ same_cluster_identity(settings, t)
    BY Zenon, <1>1, <1>4 DEF IsRow, same_cluster_identity
  <1> QED  BY Zenon, <1>1, <1>2, <1>4, <1>5

\* Controller::new preserves the invariant: it never lowers a generation.
LEMMA ServeKeeps == ASSUME Apt, Inv, NEW m \in Machines, serve(m) PROVE Inv'
  <1> DEFINE n == db[m].node
             f == IF is_controller(n) THEN [db[m] EXCEPT !.cp = Started(n, db[m].cp)] ELSE db[m]
             p == [pc |-> "serve", control |-> Nothing]
  <1>1. proc[m] = Off /\ n # Nothing /\ UNCHANGED <<boxes, used>> /\ Step(m, p)
    BY Zenon DEF serve, acquire_node_lock
  <1>2. db' = [db EXCEPT ![m] = f] \/ (db' = db /\ f = db[m])
    BY Zenon DEF serve
  <1>3. /\ FileGood(db[m], used.ids) /\ BoxGood(boxes[m], used.ids) /\ Routed(db[m], boxes[m])
        /\ UsedShape(used) /\ used.ids \in Nat
    BY Zenon DEF Inv, Good, UsedShape
  <1>4. IsSettings(n) /\ (db[m].cp # Nothing => IsRow(db[m].cp)) /\ DOMAIN db[m] = {"node", "fence", "cp"}
    BY Zenon, <1>1, <1>3 DEF FileGood
  <1>5. is_controller(n) /\ db[m].cp # Nothing => same_cluster_identity(n, db[m].cp)
    BY Zenon, <1>1, <1>3 DEF FileGood, Head
  <1>6. DOMAIN f = {"node", "fence", "cp"} /\ f.node = n /\ f.fence = db[m].fence
    BY Zenon, <1>4
  <1>7. is_controller(n) =>
          /\ IsRow(f.cp) /\ same_cluster_identity(n, f.cp) /\ f.cp # Nothing
          /\ db[m].cp # Nothing => /\ f.cp.gen >= db[m].cp.gen /\ f.cp.routes = db[m].cp.routes
                                   /\ f.cp.gwgen >= db[m].cp.gwgen
                                   /\ f.cp.gwgen = db[m].cp.gwgen \/ (db[m].cp.gwgen = 0 /\ f.cp.gwgen > 0)
    <2> SUFFICES ASSUME is_controller(n)
                 PROVE  /\ IsRow(f.cp) /\ same_cluster_identity(n, f.cp) /\ f.cp # Nothing
                        /\ db[m].cp # Nothing => /\ f.cp.gen >= db[m].cp.gen /\ f.cp.routes = db[m].cp.routes
                                                 /\ f.cp.gwgen >= db[m].cp.gwgen
                                                 /\ f.cp.gwgen = db[m].cp.gwgen \/ (db[m].cp.gwgen = 0 /\ f.cp.gwgen > 0)
      BY Zenon
    <2>1. f.cp = Started(n, db[m].cp)
      BY Zenon, <1>4
    <2>2. /\ IsRow(Started(n, db[m].cp)) /\ same_cluster_identity(n, Started(n, db[m].cp))
          /\ db[m].cp # Nothing => /\ Started(n, db[m].cp).gen >= db[m].cp.gen
                                   /\ Started(n, db[m].cp).routes = db[m].cp.routes
                                   /\ Started(n, db[m].cp).gwgen = IF db[m].cp.gwgen = 0 THEN db[m].cp.gen ELSE db[m].cp.gwgen
      BY Zenon, <1>4, <1>5, StartedFits
    <2> HIDE DEF f
    <2> QED  BY SMTT(30), <1>4, <2>1, <2>2 DEF IsRow, Apt
  <1>8. ~is_controller(n) => f.cp = db[m].cp
    BY Zenon
  <1> HIDE DEF f
  <1>9. Head(f) <=> is_controller(n)
    BY Zenon, <1>1, <1>6 DEF Head
  <1>10. Head(db[m]) <=> is_controller(n)
    BY Zenon, <1>1 DEF Head
  <1>11. Good(f, boxes[m], p, used.ids)
    <2>1. FileGood(f, used.ids)
      BY Zenon, <1>1, <1>3, <1>4, <1>6, <1>7, <1>8, <1>9 DEF FileGood
    <2>2. Serving(f, p)
      BY Zenon, <1>1, <1>6, <1>7, <1>9 DEF Serving
    <2>3. Routed(f, boxes[m])
      <3> SUFFICES ASSUME Head(f)
                   PROVE  f.cp # Nothing /\ Covers(f.cp.gwgen, f.cp.routes, boxes[m], n.cluster)
        BY Zenon, <1>6 DEF Routed
      <3>1. CASE db[m].cp = Nothing
        BY Zenon, <1>3, <1>7, <1>9, <1>10, <3>1 DEF Routed, Covers
      <3>2. CASE db[m].cp # Nothing
        <4>1. Covers(db[m].cp.gwgen, db[m].cp.routes, boxes[m], n.cluster)
          BY Zenon, <1>3, <1>9, <1>10, <3>2 DEF Routed
        <4> QED  BY SMTT(30), <1>3, <1>4, <1>7, <1>9, <3>2, <4>1 DEF Covers, BoxGood, IsRow
      <3> QED  BY Zenon, <3>1, <3>2
    <2> QED  BY Zenon, <1>3, <2>1, <2>2, <2>3 DEF Good, Recovering, JoinGood, Pcs, Joining
  <1>12. \A c \in Machines : Fenced(db[c], f) /\ Fenced(f, db[c])
    <2> TAKE c \in Machines
    <2>1. Fenced(db[c], db[m]) /\ Fenced(db[m], db[c]) /\ FileGood(db[c], used.ids)
      BY Zenon DEF Inv, Good
    <2>2. Fenced(f, db[c])
      BY Zenon, <1>6, <2>1 DEF Fenced
    <2>3. Fenced(db[c], f)
      BY SMTT(30), <1>4, <1>6, <1>7, <1>9, <1>10, <2>1 DEF Fenced, IsRow, FileGood
    <2> QED  BY Zenon, <2>2, <2>3
  <1>13. Fenced(f, f)
    BY Zenon, <1>6, <1>12 DEF Fenced
  <1>14. \A c \in Machines \ {m} : Near(f, p, db[c], proc[c])
    <2> TAKE c \in Machines \ {m}
    <2>1. Apart(db[m], proc[m], db[c], proc[c]) /\ TokenFree(proc[c], db[m], proc[m])
      BY Zenon DEF Inv
    <2>2. IdsOf(f, p) \subseteq IdsOf(db[m], proc[m])
      BY Zenon, <1>1, <1>6 DEF IdsOf, Joining
    <2> QED  BY Zenon, <1>6, <1>12, <2>1, <2>2 DEF Near, Apart, TokenFree, Joining
  <1>15. TokenFree(p, f, p) /\ UsedShape(used') /\ used'.ids = used.ids /\ used.ids <= used'.ids
    BY <1>1, <1>3 DEF TokenFree
  <1>16. Only(db, db', m, f) /\ Only(boxes, boxes', m, boxes[m]) /\ Only(proc, proc', m, p)
    BY Zenon, <1>1, <1>2, OnlyThere DEF Inv, Step
  <1> HIDE DEF p
  <1> QED  BY Zenon, <1>11, <1>13, <1>14, <1>15, <1>16, OneMachine

\* A heartbeat raises the fence to the generation of the one Controller with this token.
LEMMA HeartbeatKeeps == ASSUME Apt, Inv, NEW m \in Machines, NEW c \in Machines, heartbeat(m, c) PROVE Inv'
  <1> DEFINE row == db[c].cp
             f == [db[m] EXCEPT !.fence = row.gen]
             k == [cfg |-> row.cfg, gw |-> row.members[db[m].node.id], gen |-> row.gwgen, routes |-> row.routes]
             p == [pc |-> "serve", control |-> k]
  <1>1. /\ Connected(m, c) /\ db' = [db EXCEPT ![m] = f] /\ Step(m, p) /\ UNCHANGED <<boxes, used>>
    BY Zenon DEF heartbeat
  <1>2. /\ Serves(m) /\ Controls(c) /\ db[m].node.token = db[c].node.token
    BY Zenon, <1>1 DEF Connected
  <1>3. /\ Good(db[m], boxes[m], proc[m], used.ids) /\ UsedShape(used) /\ used.ids \in Nat
    BY Zenon DEF Inv, UsedShape
  <1>4. Head(db[c]) /\ IsRow(row) /\ row # Nothing
    BY Zenon, <1>2, ControlsRow DEF Apt
  <1>5. FileGood(db[m], used.ids) /\ db[m].node # Nothing /\ (Head(db[m]) => db[m].cp # Nothing)
    BY Zenon, <1>2, <1>3 DEF Good, Serving, Serves
  <1>6. /\ DOMAIN f = {"node", "fence", "cp"} /\ f.node = db[m].node /\ f.cp = db[m].cp /\ f.fence = row.gen
    BY Zenon, <1>5 DEF FileGood
  <1>7. Head(f) <=> Head(db[m])
    BY Zenon, <1>6 DEF Head
  <1>8. Head(db[m]) => m = c
    BY Zenon, <1>2, <1>4, OneHead
  <1>9. IsControl(k) /\ k # Nothing /\ k.gen = row.gwgen /\ k.routes = row.routes
    BY SMTT(30), <1>4 DEF IsControl, IsRow, Apt
  <1> HIDE DEF f, k
  <1>10. Good(f, boxes[m], p, used.ids)
    <2>1. FileGood(f, used.ids)
      BY Zenon, <1>4, <1>5, <1>6, <1>7 DEF FileGood, IsRow
    <2>2. Serving(f, p)
      BY <1>4, <1>5, <1>6, <1>7, <1>8, <1>9 DEF Serving, IsRow
    <2>3. Routed(f, boxes[m])
      BY Zenon, <1>3, <1>6, <1>7 DEF Good, Routed
    <2> QED  BY Zenon, <1>3, <2>1, <2>2, <2>3 DEF Good, Recovering, JoinGood, Pcs, Joining
  <1>11. \A x \in Machines : Fenced(f, db[x]) /\ Fenced(db[x], f)
    <2> TAKE x \in Machines
    <2>1. Fenced(db[x], f)
      BY Zenon, <1>6, <1>7 DEF Inv, Fenced
    <2>2. Head(db[x]) /\ f.node.token = db[x].node.token => x = c
      BY Zenon, <1>2, <1>4, <1>6, OneHead
    <2>3. Fenced(f, db[x])
      BY <1>4, <1>6, <2>2 DEF Fenced, IsRow
    <2> QED  BY Zenon, <2>1, <2>3
  <1>12. Fenced(f, f)
    BY <1>4, <1>6, <1>7, <1>8 DEF Fenced, IsRow
  <1>13. \A x \in Machines \ {m} : Near(f, p, db[x], proc[x])
    <2> TAKE x \in Machines \ {m}
    <2>1. Apart(db[m], proc[m], db[x], proc[x]) /\ TokenFree(proc[x], db[m], proc[m])
      BY Zenon DEF Inv
    <2>2. IdsOf(f, p) \subseteq IdsOf(db[m], proc[m])
      BY Zenon, <1>6 DEF IdsOf, Joining
    <2> QED  BY Zenon, <1>6, <1>11, <2>1, <2>2 DEF Near, Apart, TokenFree, Joining
  <1>14. TokenFree(p, f, p) /\ UsedShape(used') /\ used'.ids = used.ids /\ used.ids <= used'.ids
    BY <1>1, <1>3 DEF TokenFree
  <1>15. Only(db, db', m, f) /\ Only(boxes, boxes', m, boxes[m]) /\ Only(proc, proc', m, p)
    BY Zenon, <1>1, OnlyThere DEF Inv, Step
  <1> HIDE DEF p
  <1> QED  BY Zenon, <1>10, <1>12, <1>13, <1>14, <1>15, OneMachine

\* The Gateway that the supervisor starts is not newer than the row it came from.
LEMMA SuperviseKeeps == ASSUME Apt, Inv, NEW m \in Machines, NEW whole, Supervise(m, whole) PROVE Inv'
  <1> DEFINE k == proc[m].control
             new == [cluster |-> db[m].node.cluster, gen |-> k.gen, routes |-> k.routes]
             node == [db[m].node EXCEPT !.gw = k.gw, !.cfg = k.cfg]
             f == [db[m] EXCEPT !.node = node]
             kept == IF ~k.gw THEN {} ELSE IF whole THEN {new} ELSE boxes[m].gateways \union {new}
             b == [tasks |-> boxes[m].tasks \union {db[m].node.cluster}, gateways |-> kept]
             p == [pc |-> "serve", control |-> Nothing]
  <1>1. /\ Serves(m) /\ k # Nothing /\ db' = [db EXCEPT ![m] = f] /\ boxes' = [boxes EXCEPT ![m] = b]
        /\ Step(m, p) /\ UNCHANGED used
    BY Zenon DEF Supervise
  <1>2. /\ Good(db[m], boxes[m], proc[m], used.ids) /\ UsedShape(used) /\ used.ids \in Nat
    BY Zenon DEF Inv, UsedShape
  <1>3. /\ FileGood(db[m], used.ids) /\ BoxGood(boxes[m], used.ids) /\ Routed(db[m], boxes[m])
        /\ db[m].node # Nothing /\ (Head(db[m]) => db[m].cp # Nothing) /\ IsControl(k)
        /\ Head(db[m]) => k.gen <= db[m].cp.gwgen /\ (k.gen = db[m].cp.gwgen => k.routes = db[m].cp.routes)
    BY Zenon, <1>1, <1>2 DEF Good, Serving, Serves
  <1>4. IsSettings(db[m].node) /\ DOMAIN db[m] = {"node", "fence", "cp"} /\ db[m].node.cluster \in 0 .. used.ids
    BY SMTT(30), <1>3 DEF FileGood, IsSettings
  <1>5. /\ IsSettings(node) /\ node.cluster = db[m].node.cluster /\ node.id = db[m].node.id
        /\ node.controller = db[m].node.controller /\ node.token = db[m].node.token /\ node # Nothing
    BY Zenon, <1>4 DEF IsSettings, Apt
  <1>6. DOMAIN f = {"node", "fence", "cp"} /\ f.node = node /\ f.cp = db[m].cp /\ f.fence = db[m].fence
    BY Zenon, <1>4
  <1> HIDE DEF node, f
  <1>7. Head(f) <=> Head(db[m])
    BY Zenon, <1>3, <1>5, <1>6 DEF Head, is_controller
  <1>8. kept \subseteq boxes[m].gateways \cup {new}
    BY Zenon
  <1> HIDE DEF kept
  <1>9. Good(f, b, p, used.ids)
    <2>1. FileGood(f, used.ids)
      BY Zenon, <1>3, <1>5, <1>6, <1>7 DEF FileGood, same_cluster_identity
    <2>2. BoxGood(b, used.ids)
      BY SMTT(30), <1>3, <1>4, <1>8 DEF BoxGood, IsControl
    <2>3. Routed(f, b)
      BY SMTT(30), <1>3, <1>5, <1>6, <1>7, <1>8 DEF Routed, Covers
    <2>4. Serving(f, p)
      BY Zenon, <1>3, <1>5, <1>6, <1>7 DEF Serving
    <2> QED  BY Zenon, <2>1, <2>2, <2>3, <2>4 DEF Good, Recovering, JoinGood, Pcs, Joining
  <1>10. \A x \in Machines : Fenced(f, db[x]) /\ Fenced(db[x], f)
    BY Zenon, <1>3, <1>5, <1>6, <1>7 DEF Inv, Fenced
  <1>11. Fenced(f, f)
    BY Zenon, <1>5, <1>6, <1>7, <1>10 DEF Fenced
  <1>12. \A x \in Machines \ {m} : Near(f, p, db[x], proc[x])
    <2> TAKE x \in Machines \ {m}
    <2>1. Apart(db[m], proc[m], db[x], proc[x]) /\ TokenFree(proc[x], db[m], proc[m])
      BY Zenon DEF Inv
    <2>2. IdsOf(f, p) \subseteq IdsOf(db[m], proc[m])
      BY Zenon, <1>3, <1>5, <1>6 DEF IdsOf, Joining
    <2> QED  BY Zenon, <1>3, <1>5, <1>6, <1>10, <2>1, <2>2 DEF Near, Apart, TokenFree, Joining
  <1>13. TokenFree(p, f, p) /\ UsedShape(used') /\ used'.ids = used.ids /\ used.ids <= used'.ids
    BY SMTT(30), <1>1, <1>2 DEF TokenFree
  <1>14. Only(db, db', m, f) /\ Only(boxes, boxes', m, b) /\ Only(proc, proc', m, p)
    BY Zenon, <1>1, OnlyThere DEF Inv, Step
  <1> HIDE DEF p, b
  <1> QED  BY Zenon, <1>9, <1>11, <1>12, <1>13, <1>14, OneMachine

(***************************************************************************)
(* join.                                                                   *)
(***************************************************************************)
\* A join draws a new id, or keeps the identity that goes with the token.
LEMMA JoinKeeps ==
  ASSUME Apt, Inv, NEW m \in Machines, NEW c \in Machines, NEW gw, NEW v, join(m, c, gw, v)
  PROVE  Inv'
  <1> DEFINE token == db[c].node.token
             cluster == db[c].cp.cluster
             kept == db[m].node # Nothing /\ ~Rebinds(db[m], token)
             f == IF ~kept /\ (db[m].node # Nothing \/ db[m].cp # Nothing) THEN Blank ELSE db[m]
             id == IF kept THEN db[m].node.id ELSE used.ids + 1
             p == [pc |-> "asked", home |-> c, token |-> token, cluster |-> cluster,
                   controller |-> db[c].cp.controller, cfg |-> db[c].cp.cfg, kept |-> kept, id |-> id,
                   gw |-> gw \/ (kept /\ db[m].node.gw) \/ detect_recovered_gateway(m, cluster, v)]
  <1>1. /\ proc[m] = Off /\ Controls(c) /\ db' = [db EXCEPT ![m] = f]
        /\ (IF kept THEN UNCHANGED used ELSE Draw) /\ Step(m, p) /\ UNCHANGED boxes
    BY Zenon DEF join, acquire_node_lock
  <1>2. /\ Good(db[m], boxes[m], proc[m], used.ids) /\ UsedShape(used) /\ used.ids \in Nat
        /\ FileGood(db[c], used.ids)
    BY Zenon DEF Inv, UsedShape, Good
  <1>3. /\ Head(db[c]) /\ IsRow(db[c].cp) /\ db[c].cp # Nothing
    BY Zenon, <1>1, ControlsRow DEF Apt
  <1>4. /\ token \in 0 .. used.ids /\ cluster \in 0 .. used.ids /\ db[c].cp.controller = token
    BY SMTT(30), <1>2, <1>3 DEF FileGood, Head, IsSettings, same_cluster_identity
  <1>5. UsedShape(used') /\ used.ids <= used'.ids /\ (~kept => used'.ids = used.ids + 1)
    BY SMTT(30), <1>1, <1>2, DrawShape
  <1>6. FileGood(db[m], used.ids) /\ Routed(db[m], boxes[m]) /\ BoxGood(boxes[m], used.ids)
    BY Zenon, <1>2 DEF Good
  <1>7. /\ kept => f = db[m] /\ db[m].node # Nothing /\ db[m].node.token = token
        /\ ~kept => f.node = Nothing /\ (f = Blank \/ f = db[m])
    BY Zenon DEF Rebinds, Blank
  <1>8. /\ kept => id = db[m].node.id /\ id \in 0 .. used.ids
        /\ ~kept => id = used.ids + 1
    BY SMTT(30), <1>6, <1>7 DEF FileGood, IsSettings
  <1>9. id \in 0 .. used'.ids
    BY SMTT(30), <1>2, <1>5, <1>8 DEF UsedShape
  <1>10. kept \in BOOLEAN
    BY Zenon DEF Rebinds
  <1> HIDE DEF f, id, kept
  <1>11. FileGood(f, used'.ids) /\ Routed(f, boxes[m])
    <2>1. FileGood(f, used.ids) /\ Routed(f, boxes[m])
      BY SMTT(30), <1>6, <1>7 DEF FileGood, Routed, Blank, Head
    <2> QED  BY SMTT(30), <1>2, <1>5, <2>1 DEF FileGood, IsSettings, UsedShape
  <1>12. Good(f, boxes[m], p, used'.ids)
    <2>1. BoxGood(boxes[m], used'.ids)
      BY SMTT(30), <1>2, <1>5, <1>6 DEF BoxGood, UsedShape
    <2>2. token \in 0 .. used'.ids /\ cluster \in 0 .. used'.ids
      BY SMTT(30), <1>2, <1>4, <1>5 DEF UsedShape
    <2>3. JoinGood(f, p, used'.ids)
      BY Zenon, <1>4, <1>7, <1>8, <1>9, <1>10, <2>2 DEF JoinGood
    <2> QED  BY Zenon, <1>11, <2>1, <2>3 DEF Good, Recovering, Serving, Pcs, Joining
  <1>13. \A x \in Machines : Fenced(f, db[x]) /\ Fenced(db[x], f)
    BY Zenon, <1>7 DEF Inv, Fenced, Head
  <1>14. Fenced(f, f)
    BY Zenon, <1>7 DEF Inv, Fenced
  <1>15. \A x \in Machines \ {m} : Near(f, p, db[x], proc[x])
    <2> TAKE x \in Machines \ {m}
    <2>1. Apart(db[m], proc[m], db[x], proc[x]) /\ TokenFree(proc[x], db[m], proc[m]) /\ TokenFree(proc[x], db[c], proc[c])
      BY Zenon DEF Inv
    <2>2. \A i \in IdsOf(db[x], proc[x]) : i <= used.ids
      BY Zenon, Old
    <2>3. IdsOf(f, p) \subseteq IdsOf(db[m], proc[m]) \cup (IF kept THEN {} ELSE {used.ids + 1})
      BY Zenon, <1>2, <1>7, <1>8 DEF IdsOf, Joining
    <2>4. Apart(f, p, db[x], proc[x])
      BY SMTT(30), <1>2, <2>1, <2>2, <2>3 DEF Apart
    <2>5. TokenFree(p, db[x], proc[x])
      BY Zenon DEF TokenFree
    <2>6. TokenFree(proc[x], f, p)
      BY Zenon, <1>3, <1>7, <2>1 DEF TokenFree, Joining, Head
    <2> QED  BY Zenon, <1>13, <2>4, <2>5, <2>6 DEF Near
  <1>16. TokenFree(p, f, p)
    BY Zenon DEF TokenFree
  <1>17. Only(db, db', m, f) /\ Only(boxes, boxes', m, boxes[m]) /\ Only(proc, proc', m, p)
    BY Zenon, <1>1, OnlyThere DEF Inv, Step
  <1> HIDE DEF p
  <1> QED  BY Zenon, <1>5, <1>12, <1>14, <1>15, <1>16, <1>17, OneMachine

\* What a join saves is no Controller, and its fence starts at 0 unless the identity is kept.
LEMMA JoinedKeeps == ASSUME Apt, Inv, NEW m \in Machines, Joined(m) PROVE Inv'
  <1> DEFINE p == proc[m]
             node == [cluster |-> p.cluster, id |-> p.id, controller |-> p.controller, token |-> p.token,
                      home |-> p.home, gw |-> p.gw, cfg |-> p.cfg]
             f == [db[m] EXCEPT !.node = node, !.fence = IF p.kept THEN @ ELSE 0]
  <1>1. Step(m, Off) /\ UNCHANGED <<boxes, used>> /\ p.pc \in {"answered", "changed"}
    BY Zenon DEF Joined
  <1>2. Good(db[m], boxes[m], p, used.ids) /\ UsedShape(used) /\ used.ids \in Nat
    BY Zenon DEF Inv, UsedShape
  <1>3. CASE p.pc = "changed"
    BY Zenon, <1>1, <1>2, <1>3, Progress DEF Joined, Step, Inv
  <1>4. CASE p.pc = "answered"
    <2>1. db' = [db EXCEPT ![m] = f]
      BY Zenon, <1>4 DEF Joined
    <2>2. FileGood(db[m], used.ids) /\ BoxGood(boxes[m], used.ids) /\ JoinGood(db[m], p, used.ids)
      BY Zenon, <1>2 DEF Good
    <2>3. /\ p.id \in 0 .. used.ids /\ p.cluster \in 0 .. used.ids /\ p.token \in 0 .. used.ids
          /\ p.controller = p.token /\ p.id # p.controller /\ p.kept \in BOOLEAN
          /\ p.kept => db[m].node # Nothing /\ db[m].node.id = p.id /\ db[m].node.token = p.token
      BY Zenon, <1>4, <2>2 DEF JoinGood, Joining
    <2>4. /\ IsSettings(node) /\ node.cluster = p.cluster /\ node.id = p.id /\ node.controller = p.token
          /\ node.token = p.token /\ node # Nothing
      BY SMTT(30), <2>3 DEF IsSettings, Apt
    <2>5. /\ DOMAIN f = {"node", "fence", "cp"} /\ f.node = node /\ f.cp = db[m].cp
          /\ f.fence = IF p.kept THEN db[m].fence ELSE 0
      BY Zenon, <2>2 DEF FileGood
    <2> HIDE DEF node, f
    <2>6. ~Head(f)
      BY Zenon, <2>3, <2>4, <2>5 DEF Head, is_controller
    <2>7. Good(f, boxes[m], Off, used.ids)
      <3>1. FileGood(f, used.ids)
        BY SMTT(30), <2>2, <2>3, <2>4, <2>5, <2>6 DEF FileGood
      <3> QED  BY Zenon, <2>2, <2>6, <3>1 DEF Good, Recovering, Serving, JoinGood, Routed, Off, Pcs, Joining
    <2>8. \A x \in Machines : Fenced(f, db[x]) /\ Fenced(db[x], f)
      <3> TAKE x \in Machines
      <3>1. Fenced(db[m], db[x]) /\ FileGood(db[x], used.ids)
        BY Zenon DEF Inv, Good
      <3>2. CASE p.kept
        BY Zenon, <2>3, <2>4, <2>5, <2>6, <3>1, <3>2 DEF Fenced
      <3>3. CASE ~p.kept
        BY SMTT(30), <2>5, <2>6, <3>1, <3>3 DEF Fenced, FileGood, IsRow
      <3> QED  BY Zenon, <3>2, <3>3
    <2>9. Fenced(f, f) /\ TokenFree(Off, f, Off)
      BY Zenon, <2>6 DEF Fenced, TokenFree, Off
    <2>10. \A x \in Machines \ {m} : Near(f, Off, db[x], proc[x])
      <3> TAKE x \in Machines \ {m}
      <3>1. Apart(db[m], p, db[x], proc[x]) /\ TokenFree(proc[x], db[m], p)
        BY Zenon DEF Inv
      <3>2. IdsOf(f, Off) \subseteq IdsOf(db[m], p)
        BY Zenon, <1>4, <2>4, <2>5 DEF IdsOf, Off, Joining
      <3>3. Apart(f, Off, db[x], proc[x])
        BY Zenon, <3>1, <3>2 DEF Apart
      <3>4. TokenFree(Off, db[x], proc[x]) /\ TokenFree(proc[x], f, Off)
        BY Zenon, <1>4, <2>4, <2>5, <3>1 DEF TokenFree, Off, Joining
      <3> QED  BY Zenon, <2>8, <3>3, <3>4 DEF Near
    <2>11. UsedShape(used') /\ used'.ids = used.ids /\ used.ids <= used'.ids
      BY SMTT(30), <1>1, <1>2
    <2>12. Only(db, db', m, f) /\ Only(boxes, boxes', m, boxes[m]) /\ Only(proc, proc', m, Off)
      BY Zenon, <1>1, <2>1, OnlyThere DEF Inv, Step
    <2> QED  BY Zenon, <2>7, <2>9, <2>10, <2>11, <2>12, OneMachine
  <1> QED  BY Zenon, <1>1, <1>3, <1>4

\* A lost disk leaves no settings, and a fence of 0.
LEMMA LoseKeeps == ASSUME Apt, Inv, NEW m \in Machines, LoseDisk(m) PROVE Inv'
  <1>1. /\ db' = [db EXCEPT ![m] = Blank] /\ Step(m, Off) /\ UNCHANGED boxes
        /\ used' = [used EXCEPT !.faults = @ + 1]
    BY Zenon DEF LoseDisk
  <1>2. BoxGood(boxes[m], used.ids) /\ used.ids \in Nat /\ UsedShape(used)
    BY Zenon DEF Inv, Good, UsedShape
  <1>3. UsedShape(used') /\ used'.ids = used.ids /\ used.ids <= used'.ids
    BY <1>1, <1>2 DEF UsedShape
  <1>4. Good(Blank, boxes[m], Off, used.ids)
    BY Zenon, <1>2 DEF Good, FileGood, Blank, Head, Recovering, Serving, JoinGood, Routed, Pcs, Joining, Off
  <1>5. \A x \in Machines \ {m} : Near(Blank, Off, db[x], proc[x])
    BY Zenon, BlankNear DEF Off, Joining
  <1>6. Fenced(Blank, Blank) /\ TokenFree(Off, Blank, Off)
    BY Zenon DEF Fenced, TokenFree, Blank, Off
  <1>7. Only(db, db', m, Blank) /\ Only(boxes, boxes', m, boxes[m]) /\ Only(proc, proc', m, Off)
    BY Zenon, <1>1, OnlyThere DEF Inv, Step
  <1> QED  BY Zenon, <1>3, <1>4, <1>5, <1>6, <1>7, OneMachine

(***************************************************************************)
(* The theorem.                                                            *)
(***************************************************************************)
\* The initial states satisfy the invariant.
LEMMA InitFits == ASSUME Apt, Init PROVE Inv
  <1>1. \A m \in Machines : db[m] = Blank /\ boxes[m] = [tasks |-> {}, gateways |-> {}] /\ proc[m] = Off
    BY Zenon DEF Init
  <1>2. /\ DOMAIN db = Machines /\ DOMAIN boxes = Machines /\ DOMAIN proc = Machines
        /\ DOMAIN used = {"ids", "changes", "faults", "of"} /\ used.ids = 0 /\ used.of \in Instances
    BY Zenon DEF Init
  <1>3. \A m \in Machines : Good(db[m], boxes[m], proc[m], 0)
    <2> TAKE m \in Machines
    <2>1. BoxGood(boxes[m], 0)
      BY <1>1 DEF BoxGood
    <2>2. FileGood(Blank, 0) /\ Routed(Blank, boxes[m])
      BY Zenon DEF FileGood, Routed, Blank, Head
    <2> QED  BY SMTT(30), <1>1, <2>1, <2>2 DEF Good, Recovering, Serving, JoinGood, Pcs, Joining, Off
  <1>4. \A m, c \in Machines : /\ Fenced(db[m], db[c]) /\ TokenFree(proc[m], db[c], proc[c])
                               /\ Apart(db[m], proc[m], db[c], proc[c])
    BY SMTT(30), <1>1 DEF Fenced, TokenFree, Apart, IdsOf, Blank, Off, Joining
  <1> QED  BY SMTT(30), <1>2, <1>3, <1>4 DEF Inv

\* Every step preserves the invariant.
LEMMA NodeStepKeeps == ASSUME Apt, Inv, [Next]_vars PROVE Inv'
  <1>1. CASE UNCHANGED vars
    BY Zenon, <1>1 DEF vars, Inv
  <1>2. CASE Next
    <2>1. PICK m \in used.of.machines :
            \/ \E gw, visible \in BOOLEAN : init(m, gw, visible)
            \/ \E visible \in BOOLEAN : archive_control_plane_state(m, visible)
            \/ load_gateway_recovery_snapshot(m)
            \/ \E gw \in BOOLEAN : initialize_from_gateway_recovery(m, gw)
            \/ serve(m)
            \/ Deploy(m)
            \/ \E i \in DOMAIN db[m].cp.members : update_node_gateway(m, i)
            \/ update_cluster_config(m)
            \/ \E c \in Machines : heartbeat(m, c)
            \/ \E whole \in BOOLEAN : Supervise(m, whole)
            \/ \E c \in Machines, gw, visible \in BOOLEAN : join(m, c, gw, visible)
            \/ join_node(m)
            \/ Joined(m)
            \/ Stop(m)
            \/ LoseDisk(m)
      BY Zenon, <1>2 DEF Next
    <2>2. m \in Machines
      BY Zenon DEF Apt, Inv
    <2> QED  BY Zenon, <2>1, <2>2, InitKeeps, ArchiveKeeps, LoadKeeps, ImportKeeps, ServeKeeps, DeployKeeps, GatewayKeeps,
                ConfigKeeps, HeartbeatKeeps, SuperviseKeeps, JoinKeeps, JoinNodeKeeps, JoinedKeeps, StopKeeps, LoseKeeps
  <1> QED  BY Zenon, <1>1, <1>2

\* The invariant implies that recovery fits.
LEMMA InvFits == ASSUME Apt, Inv PROVE RecoveryFits
  <1>1. RoutesSurvive
    <2> SUFFICES ASSUME NEW m \in Machines, Controls(m)
                 PROVE  \A s \in boxes[m].gateways :
                          s.cluster = db[m].cp.cluster => /\ s.gen <= db[m].cp.gwgen
                                                          /\ s.gen = db[m].cp.gwgen => s.routes = db[m].cp.routes
      BY Zenon DEF RoutesSurvive
    <2>1. Head(db[m]) /\ db[m].cp # Nothing
      BY Zenon, ControlsRow DEF Apt
    <2>2. FileGood(db[m], used.ids) /\ Routed(db[m], boxes[m])
      BY Zenon DEF Inv, Good
    <2> QED  BY Zenon, <2>1, <2>2 DEF FileGood, Routed, Covers, same_cluster_identity
  <1>2. FenceFits
    <2> SUFFICES ASSUME NEW m \in Machines, NEW c \in Machines, Connected(m, c)
                 PROVE  db[m].fence <= db[c].cp.gen
      BY Zenon DEF FenceFits
    <2>1. Head(db[c]) /\ db[c].cp # Nothing
      BY Zenon, ControlsRow DEF Apt, Connected
    <2>2. db[m].node # Nothing /\ db[m].node.token = db[c].node.token
      BY Zenon DEF Connected, Inv, Good, Serving, Serves
    <2> QED  BY Zenon, <2>1, <2>2 DEF Inv, Fenced
  <1> QED  BY Zenon, <1>1, <1>2 DEF RecoveryFits

\* For any machines, founders and bounds, with generated tokens: a Controller is never behind the
\* Gateway of its own machine, even after a recovery that was killed anywhere, and no Agent
\* fences out the Controller it is connected to (init, serve, join, AgentFence).
THEOREM RecoveryIsSafe == ASSUME Apt PROVE Spec => []RecoveryFits
  <1>1. Init => Inv
    BY Zenon, InitFits
  <1>2. Inv /\ [Next]_vars => Inv'
    BY Zenon, NodeStepKeeps
  <1>3. Inv => RecoveryFits
    BY Zenon, InvFits
  <1> QED  BY <1>1, <1>2, <1>3, PTL DEF Spec

(***************************************************************************)
(* Draining.                                                               *)
(***************************************************************************)
CONSTANTS Tasks, Gateways, MaxConfigs

VARIABLES routes, generation, draining, drained, reports, sent, control, applying, caddy, report

GD == INSTANCE GatewayDrain

\* The converged start satisfies the invariant.
LEMMA InitInv == GD!Init => GD!Inv
  <1>1. GD!Init => GD!TypeOK
    BY SMTT(30) DEF GD!Init, GD!TypeOK, GD!Config, GD!NoConfig
  <1>2. GD!Init => GD!Dated /\ GD!Ordered /\ GD!Honest /\ GD!Forgotten
    BY SMTT(30) DEF GD!Init, GD!Dated, GD!Ordered, GD!Honest, GD!Forgotten, GD!NoConfig
  <1> QED  BY Zenon, <1>1, <1>2 DEF GD!Inv

\* Rerouting never lowers the generation, and keeps it only with the routes.
LEMMA RerouteFacts ==
  ASSUME GD!TypeOK, GD!Reroute
  PROVE  /\ routes' \in SUBSET Tasks /\ generation' \in Nat \ {0}
         /\ routes' \cap drained' = {}
         /\ generation' >= generation
         /\ generation' = generation => routes' = routes
  BY DEF GD!TypeOK, GD!Reroute

\* A configuration that was dated right stays so when the Controller reroutes.
LEMMA RerouteDated ==
  ASSUME GD!TypeOK, GD!Reroute, NEW k \in GD!Config,
         k.generation <= generation, k.generation = generation => k.routes = routes
  PROVE  k.generation <= generation' /\ (k.generation = generation' => k.routes = routes')
  <1>1. /\ generation' \in Nat /\ generation' >= generation
        /\ generation' = generation => routes' = routes
    BY Zenon, RerouteFacts
  <1>2. generation \in Nat /\ k.generation \in Nat
    BY Zenon DEF GD!TypeOK, GD!Config
  <1> QED  BY <1>1, <1>2

\* When every Gateway has reported the present generation, every configuration
\* there is, up to the empty one, has the present routes.
LEMMA AcknowledgedRoutes ==
  ASSUME GD!Inv, GD!Reroute, NEW g \in Gateways, NEW r \in Nat,
         r = generation', r <= caddy[g].generation
  PROVE  /\ routes' = routes /\ caddy[g].routes = routes
         /\ control[g] = GD!NoConfig \/ control[g].routes = routes
         /\ applying[g] = GD!NoConfig \/ applying[g].routes = routes
  <1>1. caddy[g] \in GD!Config /\ control[g] \in GD!Config /\ applying[g] \in GD!Config
    BY Zenon DEF GD!Inv, GD!TypeOK
  <1>2. caddy[g].generation = generation /\ generation' = generation
    BY SMTT(30), <1>1, RerouteFacts DEF GD!Inv, GD!TypeOK, GD!Dated, GD!Config
  <1>3. control[g].generation = 0 \/ control[g].generation = generation
    BY SMTT(30), <1>1, <1>2 DEF GD!Inv, GD!TypeOK, GD!Dated, GD!Ordered, GD!Config
  <1>4. applying[g].generation = 0 \/ applying[g].generation = generation
    BY SMTT(30), <1>1, <1>2 DEF GD!Inv, GD!TypeOK, GD!Dated, GD!Ordered, GD!Config
  <1> QED  BY Zenon, <1>2, <1>3, <1>4, RerouteFacts DEF GD!Inv, GD!TypeOK, GD!Dated

\* What a handler of the Controller leaves: the configurations are dated by the
\* new generation, and the drained tasks are in none of them.
LEMMA ControllerStep ==
  ASSUME GD!Inv, GD!Decide \/ GD!DecideAndAcknowledge,
         reports' \in [Gateways -> Nat],
         \A g \in Gateways : reports'[g] <= caddy[g].generation
  PROVE  /\ routes' \in SUBSET Tasks /\ generation' \in Nat \ {0} /\ generation' >= generation
         /\ draining' \in SUBSET Tasks /\ drained' \in SUBSET Tasks
         /\ \A g \in Gateways : \A k \in {control[g], applying[g], caddy[g]} :
               /\ k.generation <= generation' /\ (k.generation = generation' => k.routes = routes')
               /\ \A t \in drained' : t \notin k.routes
         /\ \A t \in drained' : t \notin routes'
  <1> USE DEF GD!Inv
  <1>1. GD!Reroute
    BY Zenon DEF GD!Decide, GD!DecideAndAcknowledge
  <1>2. draining' \in SUBSET Tasks /\ drained' \in SUBSET Tasks
    BY Zenon DEF GD!Decide, GD!DecideAndAcknowledge, GD!TypeOK
  <1>3. ASSUME NEW g \in Gateways, NEW k \in {control[g], applying[g], caddy[g]}
        PROVE  k.generation <= generation' /\ (k.generation = generation' => k.routes = routes')
    <2>1. k \in GD!Config
      BY ZenonT(40), <1>3 DEF GD!TypeOK
    <2>2. k.generation <= generation /\ (k.generation = generation => k.routes = routes)
      BY Zenon, <1>3 DEF GD!Dated
    <2> QED  BY Zenon, <1>1, <2>1, <2>2, RerouteDated
  <1>4. ASSUME NEW g \in Gateways, NEW k \in {control[g], applying[g], caddy[g]}, NEW t \in drained'
        PROVE  t \notin k.routes
    <2>1. CASE GD!Decide
      BY Zenon, <1>4, <2>1 DEF GD!Decide, GD!Forgotten
    <2>2. CASE GD!DecideAndAcknowledge
      <3>1. reports'[g] \in Nat /\ reports'[g] = generation' /\ reports'[g] <= caddy[g].generation
        BY Zenon, <2>2 DEF GD!DecideAndAcknowledge, GD!AllReported
      <3>2. k = GD!NoConfig \/ k.routes = routes'
        BY Zenon, <1>1, <3>1, AcknowledgedRoutes
      <3>3. t \notin routes'
        BY Zenon, <1>1, RerouteFacts
      <3> QED  BY SMTT(30), <3>2, <3>3 DEF GD!NoConfig
    <2> QED  BY Zenon, <2>1, <2>2
  <1> QED  BY Zenon, <1>1, <1>2, <1>3, <1>4, RerouteFacts

\* A step of the Controller, and the response to the Gateway, keep the
\* invariant: the new configuration is the one of the new generation.
LEMMA ControlInv ==
  ASSUME GD!Inv, GD!Decide \/ GD!DecideAndAcknowledge,
         reports' \in [Gateways -> Nat], sent' \in [Gateways -> Nat],
         \A g \in Gateways : reports'[g] <= caddy[g].generation /\ sent'[g] <= caddy[g].generation,
         control' \in [Gateways -> GD!Config],
         \A g \in Gateways : \/ control'[g] = control[g]
                             \/ control'[g] = [generation |-> generation', routes |-> routes'],
         UNCHANGED <<applying, caddy, report>>
  PROVE  GD!Inv'
  <1>1. /\ routes' \in SUBSET Tasks /\ generation' \in Nat \ {0} /\ generation' >= generation
        /\ draining' \in SUBSET Tasks /\ drained' \in SUBSET Tasks
        /\ \A g \in Gateways : \A k \in {control[g], applying[g], caddy[g]} :
              /\ k.generation <= generation' /\ (k.generation = generation' => k.routes = routes')
              /\ \A t \in drained' : t \notin k.routes
        /\ \A t \in drained' : t \notin routes'
    BY Zenon, ControllerStep
  <1>2. GD!TypeOK'
    BY SMTT(30), <1>1 DEF GD!Inv, GD!TypeOK
  <1>3. GD!Dated'
    BY SMTT(30), <1>1 DEF GD!Inv, GD!TypeOK, GD!Dated
  <1>4. GD!Ordered'
    <2> SUFFICES ASSUME NEW g \in Gateways
        PROVE /\ applying[g].generation = 0 \/ caddy[g].generation <= applying[g].generation
              /\ control'[g].generation = 0 \/ ( /\ caddy[g].generation <= control'[g].generation
                                                /\ applying[g].generation <= control'[g].generation )
      BY Zenon DEF GD!Ordered
    <2>1. CASE control'[g] = control[g]
      BY Zenon, <2>1 DEF GD!Inv, GD!Ordered
    <2>2. CASE control'[g] = [generation |-> generation', routes |-> routes']
      BY SMTT(30), <1>1, <2>2 DEF GD!Inv, GD!Ordered
    <2> QED  BY Zenon, <2>1, <2>2
  <1>5. GD!Honest'
    BY Zenon DEF GD!Inv, GD!Honest
  <1>6. GD!Forgotten'
    BY SMTT(30), <1>1 DEF GD!Forgotten
  <1> QED  BY Zenon, <1>2, <1>3, <1>4, <1>5, <1>6 DEF GD!Inv

\* Every step keeps the invariant.
LEMMA NextInv == GD!Inv /\ [GD!Next]_(GD!vars) => GD!Inv'
  <1> SUFFICES ASSUME GD!Inv, [GD!Next]_(GD!vars) PROVE GD!Inv'
    BY Zenon
  <1>1. CASE GD!Control
    <2>1. GD!Decide \/ GD!DecideAndAcknowledge
      BY Zenon, <1>1 DEF GD!Control
    <2>2. UNCHANGED <<reports, sent, control, applying, caddy, report>>
      BY Zenon, <1>1 DEF GD!Control, GD!node
    <2>3. /\ reports' \in [Gateways -> Nat] /\ sent' \in [Gateways -> Nat]
          /\ control' \in [Gateways -> GD!Config]
          /\ \A g \in Gateways : reports'[g] <= caddy[g].generation /\ sent'[g] <= caddy[g].generation
      BY Zenon, <2>2 DEF GD!Inv, GD!TypeOK, GD!Honest
    <2> QED  BY Zenon, <2>1, <2>2, <2>3, ControlInv
  <1>2. ASSUME NEW h \in Gateways, GD!HandleHeartbeat(h)
        PROVE  GD!Inv'
    <2>1. GD!Decide \/ GD!DecideAndAcknowledge
      BY Zenon, <1>2 DEF GD!HandleHeartbeat
    <2>2. UNCHANGED <<applying, caddy, report>>
      BY Zenon, <1>2 DEF GD!HandleHeartbeat
    <2>3. /\ reports' \in [Gateways -> Nat] /\ sent' \in [Gateways -> Nat]
          /\ \A g \in Gateways : reports'[g] <= caddy[g].generation /\ sent'[g] <= caddy[g].generation
      BY SMTT(30), <1>2 DEF GD!HandleHeartbeat, GD!Inv, GD!TypeOK, GD!Honest, GD!Config
    <2>4. [generation |-> generation', routes |-> routes'] \in GD!Config
      BY Zenon, <2>1, RerouteFacts DEF GD!Inv, GD!Decide, GD!DecideAndAcknowledge, GD!Config
    <2>5. control' \in [Gateways -> GD!Config]
      BY Zenon, <1>2, <2>4 DEF GD!HandleHeartbeat, GD!Inv, GD!TypeOK
    <2>6. \A g \in Gateways : \/ control'[g] = control[g]
                              \/ control'[g] = [generation |-> generation', routes |-> routes']
      BY Zenon, <1>2 DEF GD!HandleHeartbeat, GD!Inv, GD!TypeOK
    <2> QED  BY Zenon, <2>1, <2>2, <2>3, <2>5, <2>6, ControlInv
  <1>3. ASSUME NEW h \in Gateways, GD!SendHeartbeat(h) \/ GD!LoseHeartbeat(h)
        PROVE  GD!Inv'
    <2> USE <1>3 DEF GD!SendHeartbeat, GD!LoseHeartbeat, GD!controller, GD!node
    <2>1. GD!TypeOK'
      BY SMTT(30) DEF GD!Inv, GD!TypeOK
    <2>2. GD!Dated' /\ GD!Ordered' /\ GD!Forgotten'
      BY SMTT(30) DEF GD!Inv, GD!Dated, GD!Ordered, GD!Forgotten
    <2>3. \A g \in Gateways : sent'[g] \in {sent[g], report[g], 0}
      BY Zenon DEF GD!Inv, GD!TypeOK
    <2>4. \A g \in Gateways : 0 <= caddy[g].generation
      BY SMTT(30) DEF GD!Inv, GD!TypeOK, GD!Config
    <2>5. GD!Honest'
      BY ZenonT(40), <2>3, <2>4 DEF GD!Inv, GD!Honest
    <2> QED  BY Zenon, <2>1, <2>2, <2>5 DEF GD!Inv
  <1>4. ASSUME NEW h \in Gateways, GD!StartApply(h)
        PROVE  GD!Inv'
    <2> USE <1>4 DEF GD!StartApply, GD!controller
    <2>1. GD!TypeOK'
      BY Zenon DEF GD!Inv, GD!TypeOK
    <2>2. GD!Dated' /\ GD!Forgotten' /\ GD!Honest'
      BY SMTT(30) DEF GD!Inv, GD!TypeOK, GD!Dated, GD!Forgotten, GD!Honest
    <2>3. GD!Ordered'
      BY SMTT(30) DEF GD!Inv, GD!TypeOK, GD!Ordered, GD!Config
    <2> QED  BY Zenon, <2>1, <2>2, <2>3 DEF GD!Inv
  <1>5. ASSUME NEW h \in Gateways, GD!FinishApply(h) \/ GD!ApplyFails(h)
        PROVE  GD!Inv'
    <2>1. /\ applying[h] \in GD!Config /\ applying[h] # GD!NoConfig /\ applying[h].generation # 0
          /\ caddy[h] \in GD!Config /\ control[h] \in GD!Config
      BY Zenon, <1>5 DEF GD!FinishApply, GD!ApplyFails, GD!Inv, GD!TypeOK
    <2>2. /\ UNCHANGED <<GD!controller, reports, sent, control>>
          /\ applying' = [applying EXCEPT ![h] = GD!NoConfig]
          /\ caddy' \in {caddy, [caddy EXCEPT ![h] = applying[h]]}
      BY Zenon, <1>5 DEF GD!FinishApply, GD!ApplyFails
    <2>3. /\ report' \in [Gateways -> Nat]
          /\ \A g \in Gateways : report'[g] = report[g] \/ report'[g] = 0
                                  \/ (g = h /\ report'[g] = caddy'[g].generation)
      BY SMTT(30), <1>5, <2>1 DEF GD!FinishApply, GD!ApplyFails, GD!Inv, GD!TypeOK, GD!Config
    <2>4. \A g \in Gateways : /\ applying'[g] = applying[g] \/ applying'[g] = GD!NoConfig
                              /\ \/ caddy'[g] = caddy[g]
                                 \/ g = h /\ caddy'[g] = applying[g] /\ applying'[g] = GD!NoConfig
      BY Zenon, <2>2 DEF GD!Inv, GD!TypeOK
    <2>5. GD!TypeOK'
      <3>1. GD!NoConfig \in GD!Config
        BY Zenon DEF GD!Config, GD!NoConfig
      <3>2. applying' \in [Gateways -> GD!Config] /\ caddy' \in [Gateways -> GD!Config]
        BY Zenon, <2>1, <2>2, <3>1 DEF GD!Inv, GD!TypeOK
      <3>3. \A g \in Gateways : \A k \in {control'[g], applying'[g]} :
               k.generation = 0 => k = GD!NoConfig
        BY ZenonT(40), <2>2, <2>4 DEF GD!Inv, GD!TypeOK
      <3> QED  BY Zenon, <2>2, <2>3, <3>2, <3>3 DEF GD!Inv, GD!TypeOK, GD!controller
    <2>6. GD!Dated' /\ GD!Forgotten'
      BY SMTT(30), <2>2, <2>4 DEF GD!Inv, GD!TypeOK, GD!Dated, GD!Forgotten, GD!NoConfig, GD!controller
    <2>7. \A g \in Gateways : /\ caddy[g].generation <= caddy'[g].generation
                              /\ caddy'[g].generation \in Nat
      BY SMTT(30), <2>1, <2>4 DEF GD!Inv, GD!TypeOK, GD!Ordered, GD!Config
    <2>8. GD!Ordered'
      <3> SUFFICES ASSUME NEW g \in Gateways
          PROVE /\ applying'[g].generation = 0 \/ caddy'[g].generation <= applying'[g].generation
                /\ control[g].generation = 0 \/ ( /\ caddy'[g].generation <= control[g].generation
                                                 /\ applying'[g].generation <= control[g].generation )
        BY Zenon, <2>2 DEF GD!Ordered
      <3>1. control[g].generation \in Nat
        BY Zenon DEF GD!Inv, GD!TypeOK, GD!Config
      <3> QED  BY SMTT(30), <2>4, <3>1 DEF GD!Inv, GD!Ordered, GD!NoConfig
    <2>9. GD!Honest'
      <3> SUFFICES ASSUME NEW g \in Gateways
          PROVE /\ report'[g] <= caddy'[g].generation
                /\ sent[g] <= caddy'[g].generation /\ reports[g] <= caddy'[g].generation
        BY Zenon, <2>2 DEF GD!Honest
      <3>1. /\ report[g] \in Nat /\ sent[g] \in Nat /\ reports[g] \in Nat
            /\ caddy[g].generation \in Nat
        BY Zenon DEF GD!Inv, GD!TypeOK, GD!Config
      <3> QED  BY SMTT(30), <2>3, <2>7, <3>1 DEF GD!Inv, GD!Honest
    <2> QED  BY Zenon, <2>5, <2>6, <2>8, <2>9 DEF GD!Inv
  <1>6. ASSUME NEW h \in Gateways, GD!NodeRestart(h)
        PROVE  GD!Inv'
    <2> USE <1>6 DEF GD!NodeRestart, GD!controller
    <2>1. GD!TypeOK'
      BY Zenon DEF GD!Inv, GD!TypeOK, GD!Config, GD!NoConfig
    <2>2. GD!Dated' /\ GD!Forgotten'
      BY SMTT(30) DEF GD!Inv, GD!TypeOK, GD!Dated, GD!Forgotten, GD!NoConfig
    <2>3. GD!Ordered'
      BY Zenon DEF GD!Inv, GD!TypeOK, GD!Ordered, GD!Config, GD!NoConfig
    <2>4. GD!Honest'
      BY SMTT(30) DEF GD!Inv, GD!TypeOK, GD!Honest, GD!Config
    <2> QED  BY Zenon, <2>1, <2>2, <2>3, <2>4 DEF GD!Inv
  <1>7. CASE UNCHANGED GD!vars
    BY SMTT(30), <1>7 DEF GD!vars, GD!controller, GD!node, GD!Inv, GD!TypeOK, GD!Dated, GD!Ordered, GD!Honest,
                GD!Forgotten
  <1> QED  BY Zenon, <1>1, <1>2, <1>3, <1>4, <1>5, <1>6, <1>7 DEF GD!Next

\* No Caddy ever sends requests to a task whose drain was acknowledged.
THEOREM DrainedTasksAreQuiet == GD!Spec => []GD!NoTraffic
  <1>1. GD!Inv => GD!NoTraffic
    BY Zenon DEF GD!Inv, GD!Forgotten, GD!NoTraffic
  <1> QED  BY InitInv, NextInv, <1>1, PTL DEF GD!Spec

\* No Caddy ever goes back to an older configuration.
THEOREM CaddyIsMonotone == GD!Spec => GD!CaddyMovesForward
  <1>1. GD!Inv /\ [GD!Next]_(GD!vars)
          => [\A g \in Gateways : caddy'[g].generation >= caddy[g].generation]_(GD!vars)
    <2> SUFFICES ASSUME GD!Inv, GD!Next, NEW g \in Gateways
                 PROVE  caddy'[g].generation >= caddy[g].generation
      BY Zenon DEF GD!vars
    <2>1. caddy[g] \in GD!Config /\ applying[g] \in GD!Config
      BY Zenon DEF GD!Inv, GD!TypeOK
    <2>2. CASE caddy'[g] = caddy[g]
      BY <2>1, <2>2 DEF GD!Config
    <2>3. CASE caddy'[g] = applying[g] /\ applying[g] # GD!NoConfig
      BY Zenon, <2>1, <2>3 DEF GD!Inv, GD!TypeOK, GD!Ordered, GD!Config
    <2>4. caddy'[g] = caddy[g] \/ (caddy'[g] = applying[g] /\ applying[g] # GD!NoConfig)
      BY SMTT(30) DEF GD!Inv, GD!TypeOK, GD!Next, GD!Control, GD!HandleHeartbeat, GD!SendHeartbeat, GD!LoseHeartbeat,
             GD!StartApply, GD!FinishApply, GD!ApplyFails, GD!NodeRestart, GD!node
    <2> QED  BY Zenon, <2>2, <2>3, <2>4
  <1> QED  BY InitInv, NextInv, <1>1, PTL DEF GD!Spec, GD!CaddyMovesForward
=============================================================================
