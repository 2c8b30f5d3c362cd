---------------------- MODULE ServiceOperations_proofs ----------------------
(***************************************************************************)
(* OperationsUnique, PinnedImages, StartsAsAccepted and RestartsRoll, for  *)
(* any nodes, replicas, clients and bounds.                                *)
(*                                                                         *)
(* The first three follow from the invariant Inv, which                    *)
(* OperationSteps_proofs shows to be kept. RestartsRoll needs another one, *)
(* Rolls, and most of this module shows that every kind of step keeps it.  *)
(*                                                                         *)
(* The evidence travels from the node's ledger to the Controller: the row  *)
(* of an attempt, written before the daemon is asked, holds the start of   *)
(* the container that was seen then (PassFits, RowFits). An attempt that   *)
(* ends well has seen a later start (Again); the result says so (Told) for *)
(* as long as it is sent again, lost or delayed, since containers only     *)
(* start later or are replaced (Grows) and rows keep the start they saw    *)
(* (Keeps). The Controller marks the target as restarted and its task as   *)
(* starting; the next report of a healthy container is then of the new     *)
(* start (Well), because the heartbeats under way belong to the target's   *)
(* node (ListFits), which has one at a time.                               *)
(*                                                                         *)
(* A target is assigned only when those before it are completed            *)
(* (Assigned), and this stays so, as operations persist. With the row      *)
(* comes the only request that the attempt will make (Asked).              *)
(*                                                                         *)
(* The predicates take the variables they speak of as parameters, the      *)
(* Controller's record c, the Agents g, the heartbeats w, the ledger l,    *)
(* the containers k and the requests s, so that they can be used of the    *)
(* values before and after a step.                                         *)
(***************************************************************************)
EXTENDS OperationSteps_proofs

\* The Controller assigned a, to restart a task of node n: the tasks before it
\* are completed.
Assigned(c, n, a) ==
    /\ a.op \in DOMAIN c.ops /\ a.replica \in Replicas
    /\ a.generation = c.ops[a.op].generation
    /\ a.container = c.ops[a.op].tasks[a.replica].container
    /\ c.ops[a.op].tasks[a.replica].node = n
    /\ \A q \in Replicas : q < a.replica => c.ops[a.op].tasks[q].completed

\* What the Agent of node n is to do and does.
AgentFits(c, n, g) ==
    /\ DOMAIN g = {"input", "dirty", "pass", "results", "images", "pulled"}
    /\ \A a \in g.input : Assigned(c, n, a)
    /\ g.pass.pc # "idle" => Assigned(c, n, g.pass.a)

\* All of the Agents.
Agents(c, g) == DOMAIN g = Nodes /\ \A n \in Nodes : AgentFits(c, n, g[n])

\* The container of target r of operation i, if it is still the one that k holds, was started
\* after the restart was claimed.
Again(c, l, k, i, r) ==
    /\ <<i, r>> \in DOMAIN l
    /\ k[r].id = c.ops[i].tasks[r].container => l[<<i, r>>].before < k[r].started

\* The container was also healthy after that.
Well(c, l, k, i, r) ==
    k[r].id = c.ops[i].tasks[r].container => l[<<i, r>>].before < k[r].lastHealthy

\* A pass knows a start of the container that is not later than its last one, nor
\* earlier than the claim; until it asks the daemon, nobody has.
PassFits(l, k, s, p) ==
    /\ p.pc \in {"idle", "changed", "inspected", "claimed", "requested"}
    /\ p.pc \in {"inspected", "claimed", "requested"} =>
          /\ p.started \in Nat
          /\ k[p.a.replica].id = p.a.container => p.started <= k[p.a.replica].started
          /\ Key(p.a) \in DOMAIN l => l[Key(p.a)].before <= p.started
    /\ p.pc \in {"claimed", "requested"} =>
          Key(p.a) \in DOMAIN l /\ l[Key(p.a)].before = p.started
    /\ p.pc = "claimed" /\ Key(p.a) \in DOMAIN s => s[Key(p.a)] = 0

\* All of the passes.
Passes(g, l, k, s) == \A n \in Nodes : PassFits(l, k, s, g[n].pass)

\* A row of the ledger belongs to a target.
RowFits(c, k, i, r, row) ==
    /\ i \in DOMAIN c.ops /\ r \in Replicas
    /\ DOMAIN row = {"before", "outcome"} /\ row.before \in Nat
    /\ k[r].id = c.ops[i].tasks[r].container =>
          /\ row.before <= k[r].started
          /\ row.outcome = "succeeded" => row.before < k[r].started

\* All of the ledger.
Rows(c, l, k) == \A x \in DOMAIN l : x = <<x[1], x[2]>> /\ RowFits(c, k, x[1], x[2], l[x])

\* The daemon was asked only for claimed attempts, once, and in order.
Asked(c, l, s) ==
    \A x \in DOMAIN s :
        /\ s[x] \in {0, 1}
        /\ s[x] = 1 => /\ x \in DOMAIN l
                       /\ \A q \in Replicas : q < x[2] => c.ops[x[1]].tasks[q].completed

\* A result of success is true.
Told(c, l, k, x) ==
    x.ok => \E i \in DOMAIN c.ops :
               c.ops[i].generation = x.generation /\ x.replica \in Replicas /\ Again(c, l, k, i, x.replica)

\* The results that Agents hold or sent are true.
Reports(c, l, k, g, w) ==
    \A n \in Nodes : /\ \A x \in g[n].results : Told(c, l, k, x)
                     /\ w[n].stage = "sent" => \A x \in w[n].results : Told(c, l, k, x)

\* What a heartbeat of node n says of the container of r, also if the Controller
\* knows that it was restarted.
ListFits(c, l, k, n, r, e) ==
    /\ r \in Replicas /\ e.container \in Nat /\ e.container <= k[r].id
    /\ e.container = k[r].id => k[r].node = n
    /\ \A i \in DOMAIN c.ops :
          /\ c.ops[i].tasks[r].restarted /\ c.ops[i].tasks[r].node = n
          /\ e.container = c.ops[i].tasks[r].container /\ e.observed = "healthy"
          => Well(c, l, k, i, r)

\* The heartbeat of node n.
WireFits(c, l, k, n, m) ==
    /\ m.stage \in {"silent", "listed", "sent"}
    /\ m.stage # "silent" => \A r \in DOMAIN m.inventory : ListFits(c, l, k, n, r, m.inventory[r])

\* All of the heartbeats.
Inventories(c, l, k, w) == DOMAIN w = Nodes /\ \A n \in Nodes : WireFits(c, l, k, n, w[n])

\* Target r of operation i, with what the Controller and the ledger know of it.
TargetFits(c, l, k, i, r) ==
    LET t == c.ops[i].tasks[r]
    IN  /\ t.container \in Nat /\ t.container # None /\ t.container <= k[r].id
        /\ k[r].id = t.container => k[r].node = t.node
        /\ active(c.ops[i]) /\ c.ops[i].kind = "restart" => t.node = c.tasks[r].node
        /\ t.completed => t.restarted /\ Well(c, l, k, i, r)
        /\ t.restarted => Again(c, l, k, i, r)
        /\ t.restarted /\ c.tasks[r].container = t.container /\ c.tasks[r].observed = "healthy"
              => Well(c, l, k, i, r)

\* All of the targets, and the tasks.
Targeted(c, l, k) ==
    /\ \A r \in Replicas : c.tasks[r].container \in Nat /\ c.tasks[r].container <= k[r].id
    /\ \A i \in DOMAIN c.ops, r \in Replicas : TargetFits(c, l, k, i, r)

\* The inductive invariant of the restarts.
Rolls(c, g, w, l, k, s) ==
    /\ Agents(c, g) /\ Passes(g, l, k, s) /\ Rows(c, l, k) /\ Asked(c, l, s)
    /\ Reports(c, l, k, g, w) /\ Inventories(c, l, k, w) /\ Targeted(c, l, k)

\* How containers change: they are replaced by later ones, or start later.
Grows(k, m) ==
    \A r \in Replicas :
        /\ k[r].id \in Nat /\ k[r].started \in Nat /\ k[r].lastHealthy \in Nat
        /\ m[r].id \in Nat /\ m[r].started \in Nat /\ m[r].lastHealthy \in Nat
        /\ \/ /\ m[r].id = k[r].id /\ m[r].node = k[r].node
              /\ k[r].started <= m[r].started /\ k[r].lastHealthy <= m[r].lastHealthy
           \/ k[r].id < m[r].id

\* How the ledger changes: an attempt stays claimed, with the start it saw.
Keeps(l, m) ==
    /\ \A x \in DOMAIN l : x \in DOMAIN m /\ m[x].before = l[x].before

-----------------------------------------------------------------------------

\* What is known of a target stays known.
LEMMA StaysAgain ==
    ASSUME NEW c, NEW d, NEW l, NEW m, NEW k, NEW h, OpsPersist(c, d), Keeps(l, m), Grows(k, h),
           Rows(c, l, k), NEW i \in DOMAIN c.ops, NEW r \in Replicas,
           c.ops[i].tasks[r].container \in Nat, c.ops[i].tasks[r].container <= k[r].id,
           Again(c, l, k, i, r)
    PROVE  /\ Again(d, m, h, i, r)
           /\ Well(c, l, k, i, r) => Well(d, m, h, i, r)
<1> DEFINE x == <<i, r>>
           t == c.ops[i].tasks[r]
<1>1. x \in DOMAIN l /\ (k[r].id = t.container => l[x].before < k[r].started)
  BY Zenon DEF Again
<1>2. x \in DOMAIN m /\ m[x].before = l[x].before
  BY <1>1, Zenon DEF Keeps
<1>3. d.ops[i].tasks[r].container = t.container
  BY Zenon DEF OpsPersist, Persists
<1>4. x[1] = i /\ x[2] = r
  BY Zenon
<1>5. l[x].before \in Nat
  BY <1>1, Zenon DEF Rows, RowFits
<1>6. /\ k[r].id \in Nat /\ k[r].started \in Nat /\ k[r].lastHealthy \in Nat
      /\ h[r].id \in Nat /\ h[r].started \in Nat /\ h[r].lastHealthy \in Nat
      /\ \/ /\ h[r].id = k[r].id
            /\ k[r].started <= h[r].started /\ k[r].lastHealthy <= h[r].lastHealthy
         \/ k[r].id < h[r].id
  BY Zenon DEF Grows
<1> HIDE DEF x, t
<1>7. t.container \in Nat /\ t.container <= k[r].id
  BY Zenon DEF t
<1>8. h[r].id = t.container => m[x].before < h[r].started
  BY <1>1, <1>2, <1>5, <1>6, <1>7
<1>9. ASSUME k[r].id = t.container => l[x].before < k[r].lastHealthy
      PROVE  h[r].id = t.container => m[x].before < h[r].lastHealthy
  BY <1>2, <1>5, <1>6, <1>7, <1>9
<1> QED
  BY <1>2, <1>3, <1>8, <1>9, Zenon DEF x, t, Again, Well

\* heartbeat: a result that is true stays true.
LEMMA StaysTold ==
    ASSUME NEW c, NEW d, NEW l, NEW m, NEW k, NEW h, OpsPersist(c, d), Keeps(l, m), Grows(k, h),
           Rows(c, l, k), Targeted(c, l, k), NEW x, Told(c, l, k, x)
    PROVE  Told(d, m, h, x)
<1> SUFFICES ASSUME x.ok PROVE Told(d, m, h, x)
  BY Zenon DEF Told
<1>1. PICK i \in DOMAIN c.ops :
          c.ops[i].generation = x.generation /\ x.replica \in Replicas /\ Again(c, l, k, i, x.replica)
  BY Zenon DEF Told
<1>2. c.ops[i].tasks[x.replica].container \in Nat /\ c.ops[i].tasks[x.replica].container <= k[x.replica].id
  BY <1>1, Zenon DEF Targeted, TargetFits
<1>3. Again(d, m, h, i, x.replica)
  BY <1>1, <1>2, StaysAgain, Zenon
<1>4. i \in DOMAIN d.ops /\ d.ops[i].generation = c.ops[i].generation
  BY <1>1, Zenon DEF OpsPersist, Persists
<1> QED
  BY <1>1, <1>3, <1>4, Zenon DEF Told

\* heartbeat: an assignment stays one.
LEMMA StaysAssigned ==
    ASSUME NEW c, NEW d, OpsPersist(c, d), NEW n, NEW a, Assigned(c, n, a) PROVE Assigned(d, n, a)
<1>1. a.op \in DOMAIN d.ops /\ Persists(c.ops[a.op], d.ops[a.op])
  BY Zenon DEF Assigned, OpsPersist
<1> QED
  BY <1>1, Zenon DEF Assigned, Persists

\* The ledger fits, also when the records age or the containers start again.
LEMMA StaysRows ==
    ASSUME NEW c, NEW d, NEW l, NEW k, NEW h, OpsPersist(c, d), Grows(k, h),
           Rows(c, l, k), Targeted(c, l, k)
    PROVE  Rows(d, l, h)
<1> SUFFICES ASSUME NEW x \in DOMAIN l PROVE x = <<x[1], x[2]>> /\ RowFits(d, h, x[1], x[2], l[x])
  BY Zenon DEF Rows
<1> DEFINE i == x[1]
           r == x[2]
<1>1. x = <<x[1], x[2]>> /\ RowFits(c, k, i, r, l[x])
  BY Zenon DEF Rows
<1> HIDE DEF i, r
<1>2. /\ i \in DOMAIN c.ops /\ r \in Replicas
      /\ DOMAIN l[x] = {"before", "outcome"} /\ l[x].before \in Nat
      /\ k[r].id = c.ops[i].tasks[r].container =>
            /\ l[x].before <= k[r].started
            /\ l[x].outcome = "succeeded" => l[x].before < k[r].started
  BY <1>1, Zenon DEF RowFits
<1>3. i \in DOMAIN d.ops /\ d.ops[i].tasks[r].container = c.ops[i].tasks[r].container
  BY <1>2, Zenon DEF OpsPersist, Persists
<1>4. c.ops[i].tasks[r].container \in Nat /\ c.ops[i].tasks[r].container <= k[r].id
  BY <1>2, Zenon DEF Targeted, TargetFits
<1>5. /\ k[r].id \in Nat /\ k[r].started \in Nat
      /\ h[r].id \in Nat /\ h[r].started \in Nat
      /\ \/ h[r].id = k[r].id /\ k[r].started <= h[r].started
         \/ k[r].id < h[r].id
  BY <1>2, Zenon DEF Grows
<1>6. h[r].id = c.ops[i].tasks[r].container =>
            /\ l[x].before <= h[r].started
            /\ l[x].outcome = "succeeded" => l[x].before < h[r].started
  BY <1>2, <1>4, <1>5
<1>7. RowFits(d, h, i, r, l[x])
  BY <1>2, <1>3, <1>6, Zenon DEF RowFits
<1> QED
  BY <1>1, <1>7, Zenon DEF i, r

\* So do the passes,
LEMMA StaysPasses ==
    ASSUME NEW c, NEW g, NEW l, NEW k, NEW h, NEW s, Grows(k, h),
           Agents(c, g), Passes(g, l, k, s), Targeted(c, l, k)
    PROVE  Passes(g, l, h, s)
<1> SUFFICES ASSUME NEW n \in Nodes PROVE PassFits(l, h, s, g[n].pass)
  BY Zenon DEF Passes
<1> DEFINE p == g[n].pass
           r == p.a.replica
<1>1. PassFits(l, k, s, p)
  BY Zenon DEF Passes
<1>2. p.pc # "idle" => Assigned(c, n, p.a)
  BY Zenon DEF Agents, AgentFits
<1> HIDE DEF p, r
<1>3. ASSUME p.pc \in {"inspected", "claimed", "requested"}, h[r].id = p.a.container
      PROVE  p.started <= h[r].started
  <2>1. Assigned(c, n, p.a) /\ p.started \in Nat /\ (k[r].id = p.a.container => p.started <= k[r].started)
    BY Zenon, <1>1, <1>2, <1>3 DEF PassFits, r
  <2>2. p.a.container \in Nat /\ p.a.container <= k[r].id /\ r \in Replicas
    BY <2>1, Zenon DEF Assigned, Targeted, TargetFits, r
  <2>3. /\ k[r].id \in Nat /\ k[r].started \in Nat
        /\ h[r].id \in Nat /\ h[r].started \in Nat
        /\ \/ h[r].id = k[r].id /\ k[r].started <= h[r].started
           \/ k[r].id < h[r].id
    BY <2>2, Zenon DEF Grows
  <2> QED
    BY <1>3, <2>1, <2>2, <2>3
<1>4. PassFits(l, h, s, p)
  BY <1>1, <1>3, Zenon DEF PassFits, r
<1> QED
  BY <1>4, Zenon DEF p

\* the requests,
LEMMA StaysAsked ==
    ASSUME NEW c, NEW d, NEW l, NEW k, NEW s, OpsPersist(c, d), Rows(c, l, k), Asked(c, l, s)
    PROVE  Asked(d, l, s)
<1> SUFFICES ASSUME NEW x \in DOMAIN s, s[x] = 1, NEW q \in Replicas, q < x[2]
             PROVE  d.ops[x[1]].tasks[q].completed
  BY Zenon DEF Asked
<1>1. x \in DOMAIN l /\ c.ops[x[1]].tasks[q].completed
  BY Zenon DEF Asked
<1>2. x[1] \in DOMAIN c.ops
  BY <1>1, Zenon DEF Rows, RowFits
<1> QED
  BY <1>1, <1>2, Zenon DEF OpsPersist, Persists

\* and all that the Agents keep.
LEMMA StaysKept ==
    ASSUME NEW c, NEW d, NEW g, NEW w, NEW l, NEW k, NEW h, NEW s, OpsPersist(c, d), Grows(k, h),
           Rolls(c, g, w, l, k, s)
    PROVE  /\ Agents(d, g) /\ Passes(g, l, h, s) /\ Rows(d, l, h) /\ Asked(d, l, s)
           /\ Reports(d, l, h, g, w)
<1>0. /\ Agents(c, g) /\ Passes(g, l, k, s) /\ Rows(c, l, k) /\ Asked(c, l, s)
      /\ Reports(c, l, k, g, w) /\ Inventories(c, l, k, w) /\ Targeted(c, l, k)
  BY Zenon DEF Rolls
<1>1. Agents(d, g)
  BY <1>0, StaysAssigned, Zenon DEF Agents, AgentFits
<1>2. Passes(g, l, h, s)
  BY <1>0, StaysPasses, Zenon
<1>3. Rows(d, l, h)
  BY <1>0, StaysRows, Zenon
<1>4. Asked(d, l, s)
  BY <1>0, StaysAsked, Zenon
<1>5. Keeps(l, l)
  BY Zenon DEF Keeps
<1>6. \A x : Told(c, l, k, x) => Told(d, l, h, x)
  BY <1>0, <1>5, StaysTold, Zenon
<1>7. Reports(d, l, h, g, w)
  BY <1>0, <1>6, Zenon DEF Reports
<1> QED
  BY <1>1, <1>2, <1>3, <1>4, <1>7, Zenon

-----------------------------------------------------------------------------
\* Steps of the Controller and of the containers.

\* The container of a target does not change, and neither does what is said of it.
LEMMA SameTarget ==
    ASSUME NEW c, NEW d, NEW l, NEW k, NEW i \in DOMAIN c.ops, NEW r \in Replicas, OpsPersist(c, d)
    PROVE  /\ Again(c, l, k, i, r) => Again(d, l, k, i, r)
           /\ Well(c, l, k, i, r) => Well(d, l, k, i, r)
<1>1. d.ops[i].tasks[r].container = c.ops[i].tasks[r].container
  BY Zenon DEF OpsPersist, Persists
<1> QED
  BY <1>1, Zenon DEF Again, Well

\* A step of the Controller that is not a heartbeat: the targets.
LEMMA ControllerTargets ==
    ASSUME NEW c, NEW d, NEW l, NEW k, CtlStep(c, d), Targeted(c, l, k),
           \A r \in Replicas : k[r].id \in Nat /\ c.tasks[r].node = k[r].node
    PROVE  Targeted(d, l, k)
<1>0. /\ OpsPersist(c, d)
      /\ \A r \in Replicas : d.tasks[r].node = c.tasks[r].node
      /\ \A r \in Replicas :
            d.tasks[r].container # None => /\ d.tasks[r].container = c.tasks[r].container
                                           /\ d.tasks[r].observed = c.tasks[r].observed
      /\ \A i \in DOMAIN c.ops : Earned(c, c.ops[i], d.ops[i])
  BY Zenon DEF CtlStep
<1>1. ASSUME NEW r \in Replicas PROVE d.tasks[r].container \in Nat /\ d.tasks[r].container <= k[r].id
  <2>1. c.tasks[r].container \in Nat /\ c.tasks[r].container <= k[r].id
    BY Zenon DEF Targeted
  <2>2. None \in Nat /\ None <= k[r].id
    BY DEF None
  <2> QED
    BY <1>0, <2>1, <2>2, Zenon
<1>2. ASSUME NEW i \in DOMAIN c.ops, NEW r \in Replicas PROVE TargetFits(d, l, k, i, r)
  <2> DEFINE t == c.ops[i].tasks[r]
             u == d.ops[i].tasks[r]
  <2>1. /\ t.container \in Nat /\ t.container # None /\ t.container <= k[r].id
        /\ k[r].id = t.container => k[r].node = t.node
        /\ active(c.ops[i]) /\ c.ops[i].kind = "restart" => t.node = c.tasks[r].node
        /\ t.completed => t.restarted /\ Well(c, l, k, i, r)
        /\ t.restarted => Again(c, l, k, i, r)
        /\ t.restarted /\ c.tasks[r].container = t.container /\ c.tasks[r].observed = "healthy"
              => Well(c, l, k, i, r)
    BY Zenon DEF Targeted, TargetFits
  <2>2. /\ u.container = t.container /\ u.node = t.node /\ d.ops[i].kind = c.ops[i].kind
        /\ active(d.ops[i]) /\ c.ops[i].kind = "restart" => active(c.ops[i])
        /\ t.restarted => u.restarted
    BY <1>0, Zenon DEF OpsPersist, Persists
  <2>3. /\ u.restarted => t.restarted
        /\ u.completed /\ ~t.completed
              => /\ t.restarted /\ c.tasks[r].container = t.container /\ c.tasks[r].observed = "healthy"
    BY <1>0, Zenon DEF Earned
  <2>4. /\ Again(c, l, k, i, r) => Again(d, l, k, i, r)
        /\ Well(c, l, k, i, r) => Well(d, l, k, i, r)
    BY <1>0, SameTarget, Zenon
  <2> HIDE DEF t
  <2>5. u.completed => u.restarted /\ Well(d, l, k, i, r)
    BY <2>1, <2>2, <2>3, <2>4, Zenon
  <2>6. u.restarted /\ d.tasks[r].container = u.container /\ d.tasks[r].observed = "healthy"
              => Well(d, l, k, i, r)
    BY <1>0, <2>1, <2>2, <2>3, <2>4, Zenon
  <2>7. active(d.ops[i]) /\ d.ops[i].kind = "restart" => u.node = d.tasks[r].node
    BY <1>0, <2>1, <2>2, Zenon
  <2> QED
    BY <2>1, <2>2, <2>3, <2>4, <2>5, <2>6, <2>7, Zenon DEF TargetFits
<1>3. ASSUME NEW i \in DOMAIN d.ops, i \notin DOMAIN c.ops, NEW r \in Replicas
      PROVE  TargetFits(d, l, k, i, r)
  <2>1. Fresh(c, d.ops[i])
    BY <1>0, <1>3, Zenon DEF OpsPersist
  <2>2. /\ d.ops[i].tasks[r].node = c.tasks[r].node /\ d.ops[i].tasks[r].container = c.tasks[r].container
        /\ c.tasks[r].container # None /\ ~d.ops[i].tasks[r].restarted /\ ~d.ops[i].tasks[r].completed
    BY <2>1, Zenon DEF Fresh
  <2>3. c.tasks[r].container \in Nat /\ c.tasks[r].container <= k[r].id
    BY Zenon DEF Targeted
  <2>4. k[r].node = c.tasks[r].node /\ d.tasks[r].node = c.tasks[r].node
    BY <1>0, Zenon
  <2> QED
    BY <2>2, <2>3, <2>4, Zenon DEF TargetFits
<1> QED
  BY <1>1, <1>2, <1>3, Zenon DEF Targeted

\* The same: the heartbeats under way.
LEMMA ControllerLists ==
    ASSUME NEW c, NEW d, NEW l, NEW k, NEW w, CtlStep(c, d), Inventories(c, l, k, w)
    PROVE  Inventories(d, l, k, w)
<1>1. ASSUME NEW n, NEW r, NEW e, ListFits(c, l, k, n, r, e) PROVE ListFits(d, l, k, n, r, e)
  <2>0. r \in Replicas
    BY <1>1, Zenon DEF ListFits
  <2> SUFFICES ASSUME NEW i \in DOMAIN d.ops, d.ops[i].tasks[r].restarted, d.ops[i].tasks[r].node = n,
                      e.container = d.ops[i].tasks[r].container, e.observed = "healthy"
               PROVE  Well(d, l, k, i, r)
    BY <1>1, Zenon DEF ListFits
  <2>1. i \in DOMAIN c.ops
    BY <2>0, Zenon DEF CtlStep, OpsPersist, Fresh
  <2>2. c.ops[i].tasks[r].restarted
    BY <2>0, <2>1, Zenon DEF CtlStep, Earned
  <2>3. /\ d.ops[i].tasks[r].node = c.ops[i].tasks[r].node
        /\ d.ops[i].tasks[r].container = c.ops[i].tasks[r].container
    BY <2>0, <2>1, Zenon DEF CtlStep, OpsPersist, Persists
  <2>4. Well(c, l, k, i, r)
    BY <1>1, <2>1, <2>2, <2>3, Zenon DEF ListFits
  <2> QED
    BY <2>0, <2>1, <2>4, SameTarget, Zenon DEF CtlStep
<1> QED
  BY <1>1, Zenon DEF Inventories, WireFits

\* The containers start or become healthy, and the task of a replica is replaced.
Moves(c, d, k, h) ==
    /\ d.ops = c.ops
    /\ \A r \in Replicas :
          \/ /\ h[r].id = k[r].id /\ h[r].node = k[r].node /\ d.tasks[r] = c.tasks[r]
          \/ /\ k[r].id < h[r].id /\ d.tasks[r].container = None
             /\ \A i \in DOMAIN c.ops : active(c.ops[i]) => c.ops[i].kind # "restart"

\* The targets stay right while containers move.
LEMMA MovesTargets ==
    ASSUME NEW c, NEW d, NEW l, NEW k, NEW h, Moves(c, d, k, h), Grows(k, h), Rows(c, l, k),
           Targeted(c, l, k)
    PROVE  Targeted(d, l, h)
<1>0. Keeps(l, l) /\ OpsPersist(c, d)
  BY Zenon DEF Keeps, Moves, OpsPersist, Persists
<1>1. ASSUME NEW r \in Replicas PROVE d.tasks[r].container \in Nat /\ d.tasks[r].container <= h[r].id
  <2>1. c.tasks[r].container \in Nat /\ c.tasks[r].container <= k[r].id
    BY Zenon DEF Targeted
  <2>2. h[r].id \in Nat
    BY Zenon DEF Grows
  <2>3. \/ h[r].id = k[r].id /\ d.tasks[r] = c.tasks[r]
        \/ d.tasks[r].container = None
    BY Zenon DEF Moves
  <2> QED
    BY <2>1, <2>2, <2>3 DEF None
<1>2. ASSUME NEW i \in DOMAIN c.ops, NEW r \in Replicas PROVE TargetFits(d, l, h, i, r)
  <2> DEFINE t == c.ops[i].tasks[r]
  <2>1. /\ t.container \in Nat /\ t.container # None /\ t.container <= k[r].id
        /\ k[r].id = t.container => k[r].node = t.node
        /\ active(c.ops[i]) /\ c.ops[i].kind = "restart" => t.node = c.tasks[r].node
        /\ t.completed => t.restarted /\ Well(c, l, k, i, r)
        /\ t.restarted => Again(c, l, k, i, r)
        /\ t.restarted /\ c.tasks[r].container = t.container /\ c.tasks[r].observed = "healthy"
              => Well(c, l, k, i, r)
    BY Zenon DEF Targeted, TargetFits
  <2>2. Again(c, l, k, i, r) => /\ Again(d, l, h, i, r)
                                /\ Well(c, l, k, i, r) => Well(d, l, h, i, r)
    BY <1>0, <2>1, StaysAgain, Zenon
  <2>3. d.ops[i] = c.ops[i]
    BY Zenon DEF Moves
  <2>4. k[r].id \in Nat /\ h[r].id \in Nat
    BY Zenon DEF Grows
  <2>5. CASE h[r].id = k[r].id /\ h[r].node = k[r].node /\ d.tasks[r] = c.tasks[r]
    <3> HIDE DEF t
    <3>1. /\ t.completed => t.restarted /\ Well(d, l, h, i, r)
          /\ t.restarted => Again(d, l, h, i, r)
          /\ t.restarted /\ d.tasks[r].container = t.container /\ d.tasks[r].observed = "healthy"
              => Well(d, l, h, i, r)
      BY <2>1, <2>2, <2>5, Zenon
    <3>2. /\ t.container \in Nat /\ t.container # None /\ t.container <= h[r].id
          /\ h[r].id = t.container => h[r].node = t.node
          /\ active(d.ops[i]) /\ d.ops[i].kind = "restart" => t.node = d.tasks[r].node
      BY <2>1, <2>3, <2>5, Zenon
    <3> QED
      BY <2>3, <3>1, <3>2, Zenon DEF TargetFits, t
  <2>6. CASE /\ k[r].id < h[r].id /\ d.tasks[r].container = None
             /\ \A j \in DOMAIN c.ops : active(c.ops[j]) => c.ops[j].kind # "restart"
    <3> HIDE DEF t
    <3>1. t.container <= h[r].id /\ h[r].id # t.container
      BY <2>1, <2>4, <2>6
    <3>2. Well(d, l, h, i, r)
      BY <2>3, <3>1, Zenon DEF Well, t
    <3>3. /\ t.completed => t.restarted
          /\ t.restarted => Again(d, l, h, i, r)
          /\ active(d.ops[i]) => d.ops[i].kind # "restart"
      BY <2>1, <2>2, <2>3, <2>6, Zenon
    <3> QED
      BY <2>1, <2>3, <3>1, <3>2, <3>3, Zenon DEF TargetFits, t
  <2> QED
    BY <2>5, <2>6, Zenon DEF Moves
<1> QED
  BY <1>1, <1>2, Zenon DEF Targeted, Moves

\* So do the heartbeats under way.
LEMMA MovesLists ==
    ASSUME NEW c, NEW d, NEW l, NEW k, NEW h, NEW w, Moves(c, d, k, h), Grows(k, h), Rows(c, l, k),
           Targeted(c, l, k), Inventories(c, l, k, w)
    PROVE  Inventories(d, l, h, w)
<1>0. Keeps(l, l) /\ OpsPersist(c, d) /\ d.ops = c.ops
  BY Zenon DEF Keeps, Moves, OpsPersist, Persists
<1>1. ASSUME NEW n, NEW r, NEW e, ListFits(c, l, k, n, r, e) PROVE ListFits(d, l, h, n, r, e)
  <2>0. /\ r \in Replicas /\ e.container \in Nat /\ e.container <= k[r].id
        /\ e.container = k[r].id => k[r].node = n
    BY <1>1, Zenon DEF ListFits
  <2>1. /\ k[r].id \in Nat /\ h[r].id \in Nat
        /\ (h[r].id = k[r].id /\ h[r].node = k[r].node) \/ k[r].id < h[r].id
    BY <2>0, Zenon DEF Grows
  <2>2. e.container <= h[r].id /\ (e.container = h[r].id => h[r].node = n)
    BY <2>0, <2>1
  <2>3. ASSUME NEW i \in DOMAIN d.ops, d.ops[i].tasks[r].restarted, d.ops[i].tasks[r].node = n,
               e.container = d.ops[i].tasks[r].container, e.observed = "healthy"
        PROVE  Well(d, l, h, i, r)
    <3>1. i \in DOMAIN c.ops /\ Well(c, l, k, i, r)
      BY <1>0, <1>1, <2>3, Zenon DEF ListFits
    <3>2. TargetFits(c, l, k, i, r)
      BY <2>0, <3>1, Zenon DEF Targeted
    <3>3. /\ c.ops[i].tasks[r].container \in Nat /\ c.ops[i].tasks[r].container <= k[r].id
          /\ Again(c, l, k, i, r)
      BY <1>0, <2>3, <3>2, Zenon DEF TargetFits
    <3> QED
      BY <1>0, <2>0, <3>1, <3>3, StaysAgain, Zenon
  <2> QED
    BY <2>0, <2>2, <2>3, Zenon DEF ListFits
<1> QED
  BY <1>1, Zenon DEF Inventories, WireFits

-----------------------------------------------------------------------------
\* Heartbeats.

\* append_service_operation_task_results: a Controller whose operations only age has the same operations, each of
\* which keeps its target.
LEMMA AgedOperations ==
    ASSUME NEW c, NEW d, CtlAges(c, d)
    PROVE  OpsPersist(c, d) /\ DOMAIN d.ops = DOMAIN c.ops
<1>1. DOMAIN d.ops = DOMAIN c.ops
  BY Zenon DEF CtlAges
<1>2. ASSUME NEW i \in DOMAIN c.ops
      PROVE  i \in DOMAIN d.ops /\ Persists(c.ops[i], d.ops[i])
  <2>1. Ages(c.ops[i], d.ops[i])
    BY Zenon DEF CtlAges
  <2> QED
    BY <1>1, <2>1, Zenon DEF Ages
<1> QED
  BY <1>1, <1>2, Zenon DEF OpsPersist

\* heartbeat: the targets, when the Controller has taken a heartbeat of node n.
LEMMA HeartbeatTargets ==
    ASSUME NEW n \in Nodes, NEW m, NEW d, NEW l, NEW k, Beats(n, m, d), GenOnce(ctl), Targeted(ctl, l, k),
           \A r \in DOMAIN m.inventory : ListFits(ctl, l, k, n, r, m.inventory[r]),
           \A x \in m.results : Told(ctl, l, k, x)
    PROVE  Targeted(d, l, k)
<1>0. CtlAges(ctl, d)
  BY Zenon DEF Beats
<1>1. OpsPersist(ctl, d) /\ DOMAIN d.ops = DOMAIN ctl.ops
  BY <1>0, AgedOperations, Zenon
<1>2. ASSUME NEW r \in Replicas
      PROVE  /\ d.tasks[r].node = ctl.tasks[r].node
             /\ IF ctl.tasks[r].node = n /\ r \in DOMAIN m.inventory
                THEN /\ d.tasks[r].container = m.inventory[r].container
                     /\ d.tasks[r].observed \in {"starting", m.inventory[r].observed}
                ELSE /\ d.tasks[r].container = ctl.tasks[r].container
                     /\ d.tasks[r].observed \in {"starting", ctl.tasks[r].observed}
  BY <1>0, Zenon DEF Beats, CtlAges
<1>3. ASSUME NEW r \in Replicas PROVE d.tasks[r].container \in Nat /\ d.tasks[r].container <= k[r].id
  BY <1>2, Zenon DEF Targeted, ListFits
<1>4. ASSUME NEW i \in DOMAIN ctl.ops, NEW r \in Replicas PROVE TargetFits(d, l, k, i, r)
  <2> DEFINE t == ctl.ops[i].tasks[r]
             u == d.ops[i].tasks[r]
  <2>1. /\ t.container \in Nat /\ t.container # None /\ t.container <= k[r].id
        /\ k[r].id = t.container => k[r].node = t.node
        /\ active(ctl.ops[i]) /\ ctl.ops[i].kind = "restart" => t.node = ctl.tasks[r].node
        /\ t.completed => t.restarted /\ Well(ctl, l, k, i, r)
        /\ t.restarted => Again(ctl, l, k, i, r)
        /\ t.restarted /\ ctl.tasks[r].container = t.container /\ ctl.tasks[r].observed = "healthy"
              => Well(ctl, l, k, i, r)
    BY Zenon DEF Targeted, TargetFits
  <2>2. /\ u.container = t.container /\ u.node = t.node /\ d.ops[i].kind = ctl.ops[i].kind
        /\ active(d.ops[i]) /\ ctl.ops[i].kind = "restart" => active(ctl.ops[i])
        /\ t.restarted => u.restarted
    BY <1>1, Zenon DEF OpsPersist, Persists
  <2>3. /\ u.restarted /\ ~t.restarted
              => /\ d.tasks[r].observed = "starting"
                 /\ \E x \in m.results : /\ x.ok /\ x.replica = r /\ x.generation = ctl.ops[i].generation
                                         /\ t.node = n
        /\ u.completed /\ ~t.completed
              => /\ t.restarted /\ d.tasks[r].container = t.container /\ d.tasks[r].observed = "healthy"
    BY ZenonT(40) DEF Beats
  <2>4. /\ Again(ctl, l, k, i, r) => Again(d, l, k, i, r)
        /\ Well(ctl, l, k, i, r) => Well(d, l, k, i, r)
    BY <1>1, SameTarget, Zenon
  <2>5. ASSUME u.restarted PROVE Again(ctl, l, k, i, r)
    <3>1. CASE t.restarted
      BY <2>1, <3>1, Zenon
    <3>2. CASE ~t.restarted
      <4>1. PICK x \in m.results : x.ok /\ x.replica = r /\ x.generation = ctl.ops[i].generation
        BY <2>3, <2>5, <3>2, Zenon
      <4>2. PICK j \in DOMAIN ctl.ops : ctl.ops[j].generation = x.generation /\ Again(ctl, l, k, j, x.replica)
        BY <4>1, Zenon DEF Told
      <4>3. ctl.ops[j].generation = ctl.ops[i].generation
        BY <4>1, <4>2, Zenon
      <4>4. j = i
        BY <4>2, <4>3, Zenon DEF GenOnce
      <4> QED
        BY <4>1, <4>2, <4>4, Zenon
    <3> QED
      BY <3>1, <3>2, Zenon
  <2>6. ASSUME t.restarted, d.tasks[r].container = t.container, d.tasks[r].observed = "healthy"
        PROVE  Well(ctl, l, k, i, r)
    <3>0. "healthy" # "starting"
      BY Zenon
    <3>1. CASE ctl.tasks[r].node = n /\ r \in DOMAIN m.inventory
      <4>1. m.inventory[r].container = t.container /\ m.inventory[r].observed = "healthy"
        BY <1>2, <2>6, <3>0, <3>1, Zenon
      <4>2. ListFits(ctl, l, k, n, r, m.inventory[r])
        BY <3>1, Zenon
      <4>3. ASSUME k[r].id = t.container PROVE t.node = n
        BY <2>1, <4>1, <4>2, <4>3, Zenon DEF ListFits
      <4>4. t.node = n => Well(ctl, l, k, i, r)
        BY <2>6, <4>1, <4>2, Zenon DEF ListFits
      <4> QED
        BY <4>3, <4>4, Zenon DEF Well
    <3>2. CASE ~(ctl.tasks[r].node = n /\ r \in DOMAIN m.inventory)
      <4>1. ctl.tasks[r].container = t.container /\ ctl.tasks[r].observed = "healthy"
        BY <1>2, <2>6, <3>0, <3>2, Zenon
      <4> QED
        BY <2>1, <2>6, <4>1, Zenon
    <3> QED
      BY <3>1, <3>2, Zenon
  <2> HIDE DEF t, u
  <2>7. "healthy" # "starting"
    BY Zenon
  <2>8. u.completed => u.restarted /\ Well(d, l, k, i, r)
    BY <2>1, <2>2, <2>3, <2>4, <2>6, Zenon
  <2>9. u.restarted => Again(d, l, k, i, r)
    BY <2>4, <2>5, Zenon
  <2>10. u.restarted /\ d.tasks[r].container = u.container /\ d.tasks[r].observed = "healthy"
              => Well(d, l, k, i, r)
    BY <2>2, <2>3, <2>4, <2>6, <2>7, Zenon
  <2>11. active(d.ops[i]) /\ d.ops[i].kind = "restart" => u.node = d.tasks[r].node
    BY <1>2, <2>1, <2>2, Zenon
  <2> QED
    BY <2>1, <2>2, <2>8, <2>9, <2>10, <2>11, Zenon DEF TargetFits, u
<1> QED
  BY <1>1, <1>3, <1>4, Zenon DEF Targeted

\* heartbeat: the heartbeats of the other nodes.
LEMMA HeartbeatLists ==
    ASSUME NEW n \in Nodes, NEW m, NEW d, NEW l, NEW k, Beats(n, m, d), NEW o, o # n, NEW r, NEW e,
           ListFits(ctl, l, k, o, r, e)
    PROVE  ListFits(d, l, k, o, r, e)
<1>0. r \in Replicas /\ CtlAges(ctl, d)
  BY Zenon DEF ListFits, Beats
<1>1. OpsPersist(ctl, d) /\ DOMAIN d.ops = DOMAIN ctl.ops
  BY <1>0, AgedOperations, Zenon
<1> SUFFICES ASSUME NEW i \in DOMAIN ctl.ops, d.ops[i].tasks[r].restarted, d.ops[i].tasks[r].node = o,
                    e.container = d.ops[i].tasks[r].container, e.observed = "healthy"
             PROVE  Well(d, l, k, i, r)
  BY <1>1, Zenon DEF ListFits
<1>2. /\ d.ops[i].tasks[r].node = ctl.ops[i].tasks[r].node
      /\ d.ops[i].tasks[r].container = ctl.ops[i].tasks[r].container
  BY <1>0, <1>1, Zenon DEF OpsPersist, Persists
<1>3. ctl.ops[i].tasks[r].restarted
  BY <1>0, <1>2, ZenonT(40) DEF Beats
<1>4. Well(ctl, l, k, i, r)
  BY <1>2, <1>3, Zenon DEF ListFits
<1> QED
  BY <1>0, <1>1, <1>4, SameTarget, Zenon

\* heartbeat: only the current target is to be executed, on the node of its task.
LEMMA AssignmentsFit ==
    ASSUME NEW d, NEW l, NEW k, CurrentIsFirst, OpsShape(d), Targeted(d, l, k), NEW n,
           NEW p \in Restarts(d, n)
    PROVE  Assigned(d, n, Assignment(d, p))
<1> DEFINE i == p[1]
           r == p[2]
           o == d.ops[i]
           a == Assignment(d, p)
<1>1. p \in (DOMAIN d.ops) \X Replicas /\ restarting_task(o, r) /\ d.tasks[r].node = n /\ Execute(o, r)
  BY Zenon DEF Restarts
<1>2. i \in DOMAIN d.ops /\ r \in Replicas
  BY Zenon, <1>1
<1>3. /\ a.op = i /\ a.replica = r /\ a.generation = o.generation /\ a.container = o.tasks[r].container
  BY Zenon DEF Assignment
<1>4. active(o) /\ o.kind = "restart" /\ r = Current(o)
  BY <1>1, Zenon DEF restarting_task, Execute
<1>5. o.tasks[r].node = n
  BY <1>1, <1>2, <1>4, Zenon DEF Targeted, TargetFits
<1>6. Pending(o) # {}
  BY <1>2, <1>4, Zenon DEF OpsShape, OpShape
<1>7. \A q \in Replicas : q < r => o.tasks[q].completed
  BY <1>4, <1>6, Zenon DEF CurrentIsFirst
<1> HIDE DEF a, i, r
<1> QED
  BY <1>2, <1>3, <1>5, <1>7, Zenon DEF Assigned, a

\* What the Agent keeps of its state when it takes a response.
LEMMA ReceiveFits ==
    ASSUME NEW n \in Nodes, DOMAIN agent = Nodes, NEW c, AgentFits(c, n, agent[n]), NEW restarts, NEW images,
           \A a \in restarts : Assigned(c, n, a), Receive(n, restarts, images)
    PROVE  /\ DOMAIN agent' = Nodes /\ \A o \in Nodes : o # n => agent'[o] = agent[o]
           /\ AgentFits(c, n, agent'[n])
           /\ agent'[n].pass = agent[n].pass /\ agent'[n].results = agent[n].results
<1> DEFINE dirty == agent[n].dirty \/ restarts # agent[n].input
           pulled == {x \in agent[n].pulled : x.generation \in images}
           new == [agent[n] EXCEPT !.input = restarts, !.dirty = dirty, !.images = images, !.pulled = pulled]
<1>1. agent' = [agent EXCEPT ![n] = new]
  BY Zenon DEF Receive
<1>2. DOMAIN agent[n] = {"input", "dirty", "pass", "results", "images", "pulled"}
  BY Zenon DEF AgentFits
<1>3. /\ DOMAIN new = DOMAIN agent[n] /\ new.input = restarts /\ new.pass = agent[n].pass
      /\ new.results = agent[n].results
  <2> HIDE DEF dirty, pulled
  <2> QED
    BY Zenon, <1>2
<1> HIDE DEF new
<1>4. agent'[n] = new /\ DOMAIN agent' = Nodes /\ \A o \in Nodes : o # n => agent'[o] = agent[o]
  BY <1>1, Zenon
<1>5. AgentFits(c, n, new)
  BY <1>3, Zenon DEF AgentFits
<1> QED
  BY <1>3, <1>4, <1>5, Zenon

\* Containers that stay are no earlier.
LEMMA ContGrows == ASSUME ContFits PROVE Grows(cont, cont)
  BY DEF ContFits, Grows

\* heartbeat: the whole of it keeps the invariant.
LEMMA RollsHeartbeat ==
    ASSUME Inv, Rolls(ctl, agent, net, ledger, cont, asked), NEW n \in Nodes, HandleHeartbeat(n),
           Sound(ctl'), OpsPersist(ctl, ctl'), Beats(n, net[n], ctl'), CurrentIsFirst
    PROVE  Rolls(ctl', agent', net', ledger', cont', asked')
<1>0. /\ Agents(ctl, agent) /\ Passes(agent, ledger, cont, asked) /\ Rows(ctl, ledger, cont)
      /\ Asked(ctl, ledger, asked) /\ Reports(ctl, ledger, cont, agent, net)
      /\ Inventories(ctl, ledger, cont, net) /\ Targeted(ctl, ledger, cont)
  BY Zenon DEF Rolls
<1>1. BoundFits /\ Sound(ctl) /\ ContFits /\ GenOnce(ctl)
  BY Zenon DEF Inv, Sound
<1>2. /\ UNCHANGED <<ledger, cont, asked>> /\ net[n].stage = "sent" /\ net' = [net EXCEPT ![n] = Silent]
  BY Zenon DEF HandleHeartbeat
<1>4. Silent.stage = "silent" /\ "silent" # "sent"
  BY Zenon DEF Silent
<1>5. DOMAIN net' = Nodes /\ net'[n] = Silent /\ \A o \in Nodes : o # n => net'[o] = net[o]
  BY <1>0, <1>2, Zenon DEF Inventories
<1>6. /\ Agents(ctl', agent) /\ Passes(agent, ledger, cont, asked) /\ Rows(ctl', ledger, cont)
      /\ Asked(ctl', ledger, asked) /\ Reports(ctl', ledger, cont, agent, net)
  BY <1>1, ContGrows, StaysKept, Zenon
<1>7. Targeted(ctl', ledger, cont)
  <2>1. \A r \in DOMAIN net[n].inventory : ListFits(ctl, ledger, cont, n, r, net[n].inventory[r])
    BY <1>0, <1>2, <1>4, Zenon DEF Inventories, WireFits
  <2>2. \A x \in net[n].results : Told(ctl, ledger, cont, x)
    BY <1>0, <1>2, Zenon DEF Reports
  <2> QED
    BY <1>0, <1>1, <2>1, <2>2, HeartbeatTargets, Zenon
<1>8. Inventories(ctl', ledger, cont, net')
  <2> SUFFICES ASSUME NEW o \in Nodes PROVE WireFits(ctl', ledger, cont, o, net'[o])
    BY <1>5, Zenon DEF Inventories
  <2>1. CASE o = n
    BY <1>4, <1>5, <2>1, Zenon DEF WireFits
  <2>2. CASE o # n
    <3>1. net'[o] = net[o] /\ WireFits(ctl, ledger, cont, o, net[o])
      BY <1>0, <1>5, <2>2, Zenon DEF Inventories
    <3>2. \A r, e : ListFits(ctl, ledger, cont, o, r, e) => ListFits(ctl', ledger, cont, o, r, e)
      BY <2>2, HeartbeatLists, Zenon
    <3> QED
      BY <3>1, <3>2, Zenon DEF WireFits
  <2> QED
    BY <2>1, <2>2, Zenon
<1>9. /\ DOMAIN agent' = Nodes /\ \A o \in Nodes : AgentFits(ctl', o, agent'[o])
      /\ \A o \in Nodes : agent'[o].pass = agent[o].pass /\ agent'[o].results = agent[o].results
  <2>1. \/ Receive(n, {Assignment(ctl', p) : p \in Restarts(ctl', n)}, Images(ctl', n))
        \/ UNCHANGED agent
    BY Zenon DEF HandleHeartbeat
  <2>2. CASE UNCHANGED agent
    BY <1>6, <2>2, Zenon DEF Agents
  <2>3. CASE Receive(n, {Assignment(ctl', p) : p \in Restarts(ctl', n)}, Images(ctl', n))
    <3>1. \A a \in {Assignment(ctl', p) : p \in Restarts(ctl', n)} : Assigned(ctl', n, a)
      <4>1. OpsShape(ctl')
        BY Zenon DEF Sound
      <4>2. \A p \in Restarts(ctl', n) : Assigned(ctl', n, Assignment(ctl', p))
        BY <1>1, <1>7, <4>1, AssignmentsFit, Zenon
      <4> QED
        BY <4>2, Zenon
    <3>2. DOMAIN agent = Nodes /\ \A o \in Nodes : AgentFits(ctl', o, agent[o])
      BY <1>6, Zenon DEF Agents
    <3>3. /\ DOMAIN agent' = Nodes /\ \A o \in Nodes : o # n => agent'[o] = agent[o]
          /\ AgentFits(ctl', n, agent'[n])
          /\ agent'[n].pass = agent[n].pass /\ agent'[n].results = agent[n].results
      BY <2>3, <3>1, <3>2, ReceiveFits, Zenon
    <3> QED
      BY <3>2, <3>3, Zenon
  <2> QED
    BY <2>1, <2>2, <2>3, Zenon
<1>10. Agents(ctl', agent') /\ Passes(agent', ledger, cont, asked)
  BY <1>6, <1>9, Zenon DEF Agents, Passes
<1>11. Reports(ctl', ledger, cont, agent', net')
  BY <1>4, <1>5, <1>6, <1>9, Zenon DEF Reports
<1> QED
  BY <1>2, <1>6, <1>7, <1>8, <1>10, <1>11, Zenon DEF Rolls

\* The other steps of the Controller keep the invariant.
LEMMA RollsController ==
    ASSUME Inv, Rolls(ctl, agent, net, ledger, cont, asked), ControllerStep, CtlStep(ctl, ctl')
    PROVE  Rolls(ctl', agent', net', ledger', cont', asked')
<1>0. /\ Agents(ctl, agent) /\ Passes(agent, ledger, cont, asked) /\ Rows(ctl, ledger, cont)
      /\ Asked(ctl, ledger, asked) /\ Reports(ctl, ledger, cont, agent, net)
      /\ Inventories(ctl, ledger, cont, net) /\ Targeted(ctl, ledger, cont)
  BY Zenon DEF Rolls
<1>1. BoundFits /\ Sound(ctl) /\ Started /\ ContFits
  BY Zenon DEF Inv
<1>2. UNCHANGED <<agent, ledger, cont, asked>> /\ (UNCHANGED net \/ net' = [n \in Nodes |-> Silent])
  BY Zenon DEF ControllerStep, Submit, Apply, Retry, DeploymentSuffers, Tick, CheckPrepared,
       ApplyPrepared, RestartController, NodeTimesOut
<1>4. OpsPersist(ctl, ctl')
  BY Zenon DEF CtlStep
<1>5. /\ Agents(ctl', agent) /\ Passes(agent, ledger, cont, asked) /\ Rows(ctl', ledger, cont)
      /\ Asked(ctl', ledger, asked) /\ Reports(ctl', ledger, cont, agent, net)
  BY <1>1, <1>4, ContGrows, StaysKept, Zenon
<1>6. Targeted(ctl', ledger, cont)
  <2>1. \A r \in Replicas : cont[r].id \in Nat /\ ctl.tasks[r].node = cont[r].node
    BY <1>1, Zenon DEF ContFits
  <2> QED
    BY <1>0, <2>1, ControllerTargets, Zenon
<1>7. Inventories(ctl', ledger, cont, net)
  BY <1>0, ControllerLists, Zenon
<1>8. Inventories(ctl', ledger, cont, net') /\ Reports(ctl', ledger, cont, agent, net')
  <2>1. CASE net' = [n \in Nodes |-> Silent]
    <3>1. Silent.stage = "silent" /\ "silent" # "sent"
      BY Zenon DEF Silent
    <3>2. DOMAIN net' = Nodes /\ \A n \in Nodes : net'[n] = Silent
      BY <2>1, Zenon
    <3> QED
      BY <1>5, <3>1, <3>2, Zenon DEF Inventories, WireFits, Reports
  <2> QED
    BY <1>2, <1>5, <1>7, <2>1, Zenon
<1> QED
  BY <1>2, <1>5, <1>6, <1>8, Zenon DEF Rolls

\* Containers that move, while the Agents do nothing, keep the invariant.
LEMMA RollsMoves ==
    ASSUME Rolls(ctl, agent, net, ledger, cont, asked), UNCHANGED <<agent, net, ledger, asked>>,
           Moves(ctl, ctl', cont, cont'), Grows(cont, cont')
    PROVE  Rolls(ctl', agent', net', ledger', cont', asked')
<1>0. /\ Agents(ctl, agent) /\ Passes(agent, ledger, cont, asked) /\ Rows(ctl, ledger, cont)
      /\ Asked(ctl, ledger, asked) /\ Reports(ctl, ledger, cont, agent, net)
      /\ Inventories(ctl, ledger, cont, net) /\ Targeted(ctl, ledger, cont)
  BY Zenon DEF Rolls
<1>1. OpsPersist(ctl, ctl')
  BY Zenon DEF Moves, OpsPersist, Persists
<1>2. /\ Agents(ctl', agent) /\ Passes(agent, ledger, cont', asked) /\ Rows(ctl', ledger, cont')
      /\ Asked(ctl', ledger, asked) /\ Reports(ctl', ledger, cont', agent, net)
  BY <1>1, StaysKept, Zenon
<1>3. Targeted(ctl', ledger, cont') /\ Inventories(ctl', ledger, cont', net)
  BY <1>0, MovesTargets, MovesLists, Zenon
<1> QED
  BY <1>2, <1>3, Zenon DEF Rolls

\* The daemon restarts a container, or one becomes healthy or crashes.
LEMMA RollsContainers ==
    ASSUME Inv, Rolls(ctl, agent, net, ledger, cont, asked),
           UNCHANGED <<ctl, agent, net, ledger, asked>>, ContStep
    PROVE  Rolls(ctl', agent', net', ledger', cont', asked')
<1>1. ContFits
  BY Zenon DEF Inv
<1>3. Moves(ctl, ctl', cont, cont')
  BY Zenon DEF Moves, ContStep
<1>4. Grows(cont, cont')
  BY Zenon, <1>1 DEF ContFits, ContStep, Grows
<1> QED
  BY <1>3, <1>4, RollsMoves, Zenon

\* schedule_task replaces no task of a restart that goes on.
LEMMA RollsReplace ==
    ASSUME Inv, Rolls(ctl, agent, net, ledger, cont, asked), NEW r \in Replicas, Replace(r), Replaces(r)
    PROVE  Rolls(ctl', agent', net', ledger', cont', asked')
<1>1. BoundFits /\ Sound(ctl) /\ ContFits
  BY Zenon DEF Inv
<1>2. UNCHANGED <<agent, net, ledger, asked, bound>>
  BY Zenon DEF Replace
<1>4. Replicas' = Replicas
  BY <1>2, Zenon DEF Replicas
<1>5. ASSUME NEW q \in Replicas
      PROVE  /\ cont[q].id \in Nat /\ cont[q].started \in Nat /\ cont[q].lastHealthy \in Nat
             /\ cont'[q].id \in Nat /\ cont'[q].started \in Nat /\ cont'[q].lastHealthy \in Nat
  BY <1>1, <1>4, Zenon DEF Replaces, ContFits
<1>6. ASSUME NEW q \in Replicas
      PROVE  q # r => cont'[q] = cont[q] /\ ctl'.tasks[q] = ctl.tasks[q]
  BY Zenon DEF Replaces
<1>7. cont[r].id < cont'[r].id
  BY <1>5 DEF Replaces
<1>8. Moves(ctl, ctl', cont, cont')
  BY <1>6, <1>7, Zenon DEF Moves, Replaces
<1>9. Grows(cont, cont')
  <2> SUFFICES ASSUME NEW q \in Replicas
               PROVE  \/ /\ cont'[q].id = cont[q].id /\ cont'[q].node = cont[q].node
                         /\ cont[q].started <= cont'[q].started /\ cont[q].lastHealthy <= cont'[q].lastHealthy
                      \/ cont[q].id < cont'[q].id
    BY <1>5, Zenon DEF Grows
  <2>1. cont[q].started <= cont[q].started /\ cont[q].lastHealthy <= cont[q].lastHealthy
    BY <1>5
  <2> QED
    BY <1>6, <1>7, <2>1, Zenon
<1> QED
  BY <1>2, <1>8, <1>9, RollsMoves, Zenon

-----------------------------------------------------------------------------
\* Steps of the Agents.

\* Only row x of the ledger, or of the requests, differs.
SameBut(l, m, x) ==
    \A y : y # x => (y \in DOMAIN m <=> y \in DOMAIN l) /\ (y \in DOMAIN l => m[y] = l[y])

\* claim_service_restart: the pass of another Agent is about another row.
LEMMA OtherPass ==
    ASSUME NEW l, NEW m, NEW k, NEW s, NEW z, NEW n, NEW o, o # n, NEW a, NEW p,
           Assigned(ctl, n, a), p.pc # "idle" => Assigned(ctl, o, p.a), PassFits(l, k, s, p),
           SameBut(l, m, Key(a)), SameBut(s, z, Key(a))
    PROVE  PassFits(m, k, z, p)
<1>1. CASE p.pc = "idle"
  BY Zenon, <1>1 DEF PassFits
<1>2. CASE p.pc # "idle"
  <2>1. Key(p.a) # Key(a)
    <3> SUFFICES ASSUME Key(p.a) = Key(a) PROVE FALSE
      BY Zenon
    <3>1. p.a.op = a.op /\ p.a.replica = a.replica
      BY Zenon DEF Key
    <3> QED
      BY <1>2, <3>1, Zenon DEF Assigned
  <2>2. /\ Key(p.a) \in DOMAIN m <=> Key(p.a) \in DOMAIN l
        /\ Key(p.a) \in DOMAIN l => m[Key(p.a)] = l[Key(p.a)]
        /\ Key(p.a) \in DOMAIN z <=> Key(p.a) \in DOMAIN s
        /\ Key(p.a) \in DOMAIN s => z[Key(p.a)] = s[Key(p.a)]
    BY <2>1, Zenon DEF SameBut
  <2> QED
    BY <2>2, Zenon DEF PassFits
<1> QED
  BY <1>1, <1>2, Zenon

\* An attempt that is claimed or ends does not change what is known of targets.
LEMMA LedgerKeeps ==
    ASSUME NEW c, NEW l, NEW m, NEW k, NEW g, NEW w, Rows(c, l, k), Targeted(c, l, k), Keeps(l, m), Grows(k, k),
           Inventories(c, l, k, w), Reports(c, l, k, g, w)
    PROVE  Targeted(c, m, k) /\ Inventories(c, m, k, w) /\ Reports(c, m, k, g, w)
<1>0. OpsPersist(c, c)
  BY Zenon DEF OpsPersist, Persists
<1>1. ASSUME NEW i \in DOMAIN c.ops, NEW r \in Replicas, Again(c, l, k, i, r)
      PROVE  Again(c, m, k, i, r) /\ (Well(c, l, k, i, r) => Well(c, m, k, i, r))
  <2>1. c.ops[i].tasks[r].container \in Nat /\ c.ops[i].tasks[r].container <= k[r].id
    BY Zenon DEF Targeted, TargetFits
  <2> QED
    BY <1>0, <1>1, <2>1, StaysAgain, Zenon
<1>2. Targeted(c, m, k)
  <2> SUFFICES ASSUME NEW i \in DOMAIN c.ops, NEW r \in Replicas PROVE TargetFits(c, m, k, i, r)
    BY Zenon DEF Targeted
  <2>1. TargetFits(c, l, k, i, r)
    BY Zenon DEF Targeted
  <2> QED
    BY <1>1, <2>1, Zenon DEF TargetFits
<1>3. ASSUME NEW n, NEW r, NEW e, ListFits(c, l, k, n, r, e) PROVE ListFits(c, m, k, n, r, e)
  <2>0. r \in Replicas
    BY <1>3, Zenon DEF ListFits
  <2>1. \A i \in DOMAIN c.ops : c.ops[i].tasks[r].restarted => Again(c, l, k, i, r)
    BY <2>0, Zenon DEF Targeted, TargetFits
  <2> QED
    BY <1>1, <1>3, <2>0, <2>1, Zenon DEF ListFits
<1>4. Inventories(c, m, k, w)
  BY <1>3, Zenon DEF Inventories, WireFits
<1>5. \A x : Told(c, l, k, x) => Told(c, m, k, x)
  BY <1>0, StaysTold, Zenon
<1>6. Reports(c, m, k, g, w)
  BY <1>5, Zenon DEF Reports
<1> QED
  BY <1>2, <1>4, <1>6, Zenon

\* What a step of the Agent of n has to show to keep the invariant.
LEMMA RollsAgent ==
    ASSUME Inv, Rolls(ctl, agent, net, ledger, cont, asked), UNCHANGED <<ctl, cont>>, NEW n \in Nodes, NEW new,
           agent' = [agent EXCEPT ![n] = new], AgentFits(ctl, n, new),
           \A x \in new.results : Told(ctl, ledger', cont, x),
           PassFits(ledger', cont, asked', new.pass),
           \A o \in Nodes : o # n => PassFits(ledger', cont, asked', agent[o].pass),
           Keeps(ledger, ledger'), Rows(ctl, ledger', cont), Asked(ctl, ledger', asked'),
           UNCHANGED net \/ net' = [net EXCEPT ![n] = Silent]
    PROVE  Rolls(ctl', agent', net', ledger', cont', asked')
<1>0. /\ Agents(ctl, agent) /\ Rows(ctl, ledger, cont) /\ Reports(ctl, ledger, cont, agent, net)
      /\ Inventories(ctl, ledger, cont, net) /\ Targeted(ctl, ledger, cont)
  BY Zenon DEF Rolls
<1>1. Grows(cont, cont)
  BY ContGrows, Zenon DEF Inv
<1>2. /\ Targeted(ctl, ledger', cont) /\ Inventories(ctl, ledger', cont, net)
      /\ Reports(ctl, ledger', cont, agent, net)
  BY <1>0, <1>1, LedgerKeeps, Zenon
<1>3. DOMAIN agent' = Nodes /\ agent'[n] = new /\ \A o \in Nodes : o # n => agent'[o] = agent[o]
  BY <1>0, Zenon DEF Agents
<1>4. Agents(ctl, agent') /\ Passes(agent', ledger', cont, asked')
  BY <1>0, <1>3, Zenon DEF Agents, Passes
<1>5. Inventories(ctl, ledger', cont, net') /\ \A o \in Nodes : net'[o].stage = "sent" => net'[o] = net[o]
  <2>1. CASE UNCHANGED net
    BY <1>2, <2>1, Zenon
  <2>2. CASE net' = [net EXCEPT ![n] = Silent]
    <3>1. Silent.stage = "silent" /\ "silent" # "sent"
      BY Zenon DEF Silent
    <3>2. DOMAIN net' = Nodes /\ net'[n] = Silent /\ \A o \in Nodes : o # n => net'[o] = net[o]
      BY <1>0, <2>2, Zenon DEF Inventories
    <3>3. WireFits(ctl, ledger', cont, n, net'[n])
      BY <3>1, <3>2, Zenon DEF WireFits
    <3> QED
      BY <1>2, <3>1, <3>2, <3>3, Zenon DEF Inventories
  <2> QED
    BY <2>1, <2>2, Zenon
<1>6. Reports(ctl, ledger', cont, agent', net')
  <2> SUFFICES ASSUME NEW o \in Nodes
               PROVE  /\ \A x \in agent'[o].results : Told(ctl, ledger', cont, x)
                      /\ net'[o].stage = "sent" => \A x \in net'[o].results : Told(ctl, ledger', cont, x)
    BY Zenon DEF Reports
  <2>1. /\ \A x \in agent[o].results : Told(ctl, ledger', cont, x)
        /\ net[o].stage = "sent" => \A x \in net[o].results : Told(ctl, ledger', cont, x)
    BY <1>2, Zenon DEF Reports
  <2> QED
    BY <1>3, <1>5, <2>1, Zenon
<1> QED
  BY <1>2, <1>4, <1>5, <1>6, Zenon DEF Rolls

\* The Agent changes neither the ledger nor the requests.
LEMMA RollsAlone ==
    ASSUME Inv, Rolls(ctl, agent, net, ledger, cont, asked), UNCHANGED <<ctl, cont, ledger, asked>>,
           NEW n \in Nodes, NEW new,
           agent' = [agent EXCEPT ![n] = new], AgentFits(ctl, n, new),
           \A x \in new.results : Told(ctl, ledger, cont, x),
           PassFits(ledger, cont, asked, new.pass),
           UNCHANGED net \/ net' = [net EXCEPT ![n] = Silent]
    PROVE  Rolls(ctl', agent', net', ledger', cont', asked')
<1>0. Passes(agent, ledger, cont, asked) /\ Rows(ctl, ledger, cont) /\ Asked(ctl, ledger, asked)
  BY Zenon DEF Rolls
<1>1. Keeps(ledger, ledger')
  BY Zenon DEF Keeps
<1>2. \A o \in Nodes : o # n => PassFits(ledger', cont, asked', agent[o].pass)
  BY <1>0, Zenon DEF Passes
<1>3. /\ \A x \in new.results : Told(ctl, ledger', cont, x)
      /\ PassFits(ledger', cont, asked', new.pass)
      /\ Rows(ctl, ledger', cont) /\ Asked(ctl, ledger', asked')
  BY <1>0, Zenon
<1> QED
  BY <1>1, <1>2, <1>3, RollsAgent, Zenon

\* What is known of the Agent of n and its pass.
LEMMA AgentKnown ==
    ASSUME Rolls(ctl, agent, net, ledger, cont, asked), NEW n \in Nodes
    PROVE  /\ AgentFits(ctl, n, agent[n]) /\ DOMAIN agent = Nodes
           /\ DOMAIN agent[n] = {"input", "dirty", "pass", "results", "images", "pulled"}
           /\ PassFits(ledger, cont, asked, agent[n].pass)
           /\ \A x \in agent[n].results : Told(ctl, ledger, cont, x)
           /\ agent[n].pass.pc # "idle" => Assigned(ctl, n, agent[n].pass.a)
           /\ \A a \in agent[n].input : Assigned(ctl, n, a)
<1>1. Agents(ctl, agent) /\ Passes(agent, ledger, cont, asked) /\ Reports(ctl, ledger, cont, agent, net)
  BY Zenon DEF Rolls
<1> QED
  BY <1>1, Zenon DEF Agents, AgentFits, Passes, Reports

\* An Agent without a pass is fine.
LEMMA IdleFits == ASSUME NEW l, NEW k, NEW s PROVE Idle.pc = "idle" /\ PassFits(l, k, s, Idle)
  BY Zenon DEF Idle, PassFits

\* publish_reconcile_results: the Agent is idle, and what it tells is true.
LEMMA FinishFits ==
    ASSUME NEW n \in Nodes, AgentFits(ctl, n, agent[n]), NEW a, NEW ok, Finish(n, a, ok)
    PROVE  \E new : /\ agent' = [agent EXCEPT ![n] = new] /\ AgentFits(ctl, n, new)
                    /\ new.pass = Idle /\ new.results = {Result(a, ok)}
<1> DEFINE new == [agent[n] EXCEPT !.pass = Idle, !.results = {Result(a, ok)}]
<1>1. agent' = [agent EXCEPT ![n] = new]
  BY Zenon DEF Finish
<1>2. DOMAIN agent[n] = {"input", "dirty", "pass", "results", "images", "pulled"}
  BY Zenon DEF AgentFits
<1>3. /\ DOMAIN new = DOMAIN agent[n] /\ new.input = agent[n].input /\ new.pass = Idle
      /\ new.results = {Result(a, ok)}
  BY Zenon, <1>2
<1> HIDE DEF new
<1>4. AgentFits(ctl, n, new)
  BY <1>3, IdleFits, Zenon DEF AgentFits
<1> QED
  BY <1>1, <1>3, <1>4, Zenon

\* The fields of a result.
LEMMA ResultIs ==
    ASSUME NEW a, NEW ok
    PROVE  /\ Result(a, ok).ok => ok
           /\ Result(a, ok).replica = a.replica /\ Result(a, ok).generation = a.generation
<1>1. Result(a, ok).ok => ok
  BY Zenon DEF Result
<1>2. Result(a, ok).replica = a.replica /\ Result(a, ok).generation = a.generation
  BY Zenon DEF Result
<1> QED
  BY <1>1, <1>2, Zenon

\* What the Agent says of an assignment is true if the target was started again.
LEMMA ResultTold ==
    ASSUME NEW l, NEW n, NEW a, NEW ok, Assigned(ctl, n, a), ok => Again(ctl, l, cont, a.op, a.replica)
    PROVE  \A x \in {Result(a, ok)} : Told(ctl, l, cont, x)
<1>1. a.op \in DOMAIN ctl.ops /\ a.replica \in Replicas /\ ctl.ops[a.op].generation = a.generation
  BY Zenon DEF Assigned
<1>2. /\ Result(a, ok).ok => ok
      /\ Result(a, ok).replica = a.replica /\ Result(a, ok).generation = a.generation
  BY ResultIs, Zenon
<1>3. Told(ctl, l, cont, Result(a, ok))
  BY <1>1, <1>2, Zenon DEF Told
<1> QED
  BY <1>3, Zenon

\* restart_task: the container is inspected, and its start remembered.
LEMMA RollsInspect ==
    ASSUME Inv, Rolls(ctl, agent, net, ledger, cont, asked), NEW n \in Nodes, Inspect(n)
    PROVE  Rolls(ctl', agent', net', ledger', cont', asked')
<1>0. /\ AgentFits(ctl, n, agent[n]) /\ PassFits(ledger, cont, asked, agent[n].pass)
      /\ DOMAIN agent[n] = {"input", "dirty", "pass", "results", "images", "pulled"}
      /\ \A x \in agent[n].results : Told(ctl, ledger, cont, x)
      /\ \A a \in agent[n].input : Assigned(ctl, n, a)
      /\ agent[n].pass.pc # "idle" => Assigned(ctl, n, agent[n].pass.a)
  BY AgentKnown, Zenon
<1>1. UNCHANGED <<ctl, cont, ledger, asked, net>>
  BY Zenon DEF Inspect
<1>2. CASE agent[n].input = {}
  <2> DEFINE new == [agent[n] EXCEPT !.dirty = FALSE, !.results = {}]
  <2>1. agent' = [agent EXCEPT ![n] = new]
    BY <1>2, Zenon DEF Inspect
  <2>2. /\ DOMAIN new = DOMAIN agent[n] /\ new.input = agent[n].input /\ new.pass = agent[n].pass
        /\ new.results = {}
    BY Zenon, <1>0
  <2> HIDE DEF new
  <2>3. AgentFits(ctl, n, new)
    BY <1>0, <2>2, Zenon DEF AgentFits
  <2> QED
    BY <1>0, <1>1, <2>1, <2>2, <2>3, RollsAlone, Zenon
<1>3. CASE agent[n].input # {}
  <2>1. PICK a \in agent[n].input :
            agent' = [agent EXCEPT ![n].dirty = FALSE,
                ![n].pass = IF cont[a.replica].id = a.container /\ cont[a.replica].image = a.image
                            THEN [pc |-> "inspected", a |-> a, started |-> cont[a.replica].started]
                            ELSE [pc |-> "changed", a |-> a]]
    BY <1>3, Zenon DEF Inspect
  <2> DEFINE seen == [pc |-> "inspected", a |-> a, started |-> cont[a.replica].started]
             other == [pc |-> "changed", a |-> a]
             pass == IF cont[a.replica].id = a.container /\ cont[a.replica].image = a.image
                     THEN seen ELSE other
             new == [agent[n] EXCEPT !.dirty = FALSE, !.pass = pass]
  <2>2. agent' = [agent EXCEPT ![n] = new]
    BY <2>1, Zenon
  <2>3. /\ DOMAIN new = DOMAIN agent[n] /\ new.input = agent[n].input /\ new.results = agent[n].results
        /\ new.pass = pass
    <3> HIDE DEF pass
    <3> QED
      BY Zenon, <1>0
  <2> HIDE DEF new
  <2>4. Assigned(ctl, n, a)
    BY <1>0, Zenon
  <2>5. seen.pc = "inspected" /\ seen.a = a /\ seen.started = cont[a.replica].started
    BY Zenon
  <2>6. other.pc = "changed" /\ other.a = a
    BY Zenon
  <2> HIDE DEF seen, other
  <2>7. PassFits(ledger, cont, asked, other)
    BY Zenon, <2>6 DEF PassFits
  <2>8. ASSUME cont[a.replica].id = a.container PROVE PassFits(ledger, cont, asked, seen)
    <3>1. /\ a.op \in DOMAIN ctl.ops /\ a.replica \in Replicas
          /\ a.container = ctl.ops[a.op].tasks[a.replica].container
      BY <2>4, Zenon DEF Assigned
    <3>2. cont[a.replica].started \in Nat
      BY <3>1, Zenon DEF Inv, ContFits
    <3>3. Key(a)[1] = a.op /\ Key(a)[2] = a.replica
      BY Zenon DEF Key
    <3>4. Rows(ctl, ledger, cont)
      BY Zenon DEF Rolls
    <3>5. Key(a) \in DOMAIN ledger => ledger[Key(a)].before <= cont[a.replica].started
      BY <2>8, <3>1, <3>3, <3>4, Zenon DEF Rows, RowFits
    <3> QED
      BY <2>5, <3>2, <3>5 DEF PassFits
  <2>9. PassFits(ledger, cont, asked, pass) /\ pass.a = a
    BY <2>5, <2>6, <2>7, <2>8, Zenon
  <2> HIDE DEF pass
  <2>10. AgentFits(ctl, n, new)
    BY <1>0, <2>3, <2>4, <2>9, Zenon DEF AgentFits
  <2> QED
    BY <1>0, <1>1, <2>2, <2>3, <2>9, <2>10, RollsAlone, Zenon
<1> QED
  BY <1>2, <1>3, Zenon

\* restart_task: the target changed, and the attempt is not made.
LEMMA RollsReject ==
    ASSUME Inv, Rolls(ctl, agent, net, ledger, cont, asked), NEW n \in Nodes, Reject(n)
    PROVE  Rolls(ctl', agent', net', ledger', cont', asked')
<1>0. /\ AgentFits(ctl, n, agent[n])
      /\ agent[n].pass.pc # "idle" => Assigned(ctl, n, agent[n].pass.a)
  BY AgentKnown, Zenon
<1>1. UNCHANGED <<ctl, cont, ledger, asked, net>> /\ Finish(n, agent[n].pass.a, FALSE)
  BY Zenon DEF Reject
<1>2. Assigned(ctl, n, agent[n].pass.a)
  BY Zenon, <1>0 DEF Reject
<1>3. PICK new : /\ agent' = [agent EXCEPT ![n] = new] /\ AgentFits(ctl, n, new)
                 /\ new.pass = Idle /\ new.results = {Result(agent[n].pass.a, FALSE)}
  <2> DEFINE a == agent[n].pass.a
  <2> HIDE DEF a
  <2>1. Finish(n, a, FALSE)
    BY <1>1, Zenon DEF a
  <2>2. \E new : /\ agent' = [agent EXCEPT ![n] = new] /\ AgentFits(ctl, n, new)
                 /\ new.pass = Idle /\ new.results = {Result(a, FALSE)}
    BY <1>0, <2>1, FinishFits, Zenon
  <2> QED
    BY <2>2, Zenon DEF a
<1>4. \A x \in new.results : Told(ctl, ledger, cont, x)
  BY <1>2, <1>3, ResultTold, Zenon
<1>5. PassFits(ledger, cont, asked, new.pass)
  BY <1>3, IdleFits, Zenon
<1> QED
  BY <1>1, <1>3, <1>4, <1>5, RollsAlone, Zenon

\* Steps that leave the pass and its results alone, and the crash of an Agent.
LEMMA RollsQuiet ==
    ASSUME Inv, Rolls(ctl, agent, net, ledger, cont, asked), NEW n \in Nodes,
           Pull(n) \/ Wake(n) \/ RestartAgent(n)
    PROVE  Rolls(ctl', agent', net', ledger', cont', asked')
<1>0. /\ AgentFits(ctl, n, agent[n]) /\ PassFits(ledger, cont, asked, agent[n].pass)
      /\ DOMAIN agent[n] = {"input", "dirty", "pass", "results", "images", "pulled"}
      /\ \A x \in agent[n].results : Told(ctl, ledger, cont, x)
  BY AgentKnown, Zenon
<1>1. UNCHANGED <<ctl, cont, ledger, asked>>
  BY Zenon DEF Pull, Wake, RestartAgent
<1>2. CASE Pull(n) \/ Wake(n)
  <2>1. PICK pulled, dirty : agent' = [agent EXCEPT ![n] = [agent[n] EXCEPT !.pulled = pulled, !.dirty = dirty]]
    <3>1. ASSUME NEW x
          PROVE  [agent[n] EXCEPT !.pulled = x] = [agent[n] EXCEPT !.pulled = x, !.dirty = agent[n].dirty]
      BY Zenon, <1>0
    <3>2. [agent[n] EXCEPT !.dirty = TRUE] = [agent[n] EXCEPT !.pulled = agent[n].pulled, !.dirty = TRUE]
      BY Zenon, <1>0
    <3>3. CASE Wake(n)
      <4>1. agent' = [agent EXCEPT ![n] = [agent[n] EXCEPT !.dirty = TRUE]]
        BY <3>3, Zenon DEF Wake
      <4> QED
        BY <3>2, <4>1, Zenon
    <3>4. CASE Pull(n)
      <4>1. \E g, image : agent' = [agent EXCEPT ![n].pulled = @ \cup {[generation |-> g, image |-> image]}]
        BY <3>4, Zenon DEF Pull
      <4>2. PICK x : agent' = [agent EXCEPT ![n] = [agent[n] EXCEPT !.pulled = x]]
        BY <4>1, Zenon
      <4>3. [agent[n] EXCEPT !.pulled = x] = [agent[n] EXCEPT !.pulled = x, !.dirty = agent[n].dirty]
        BY <3>1, Zenon
      <4> QED
        BY <4>2, <4>3, Zenon
    <3> QED
      BY <1>2, <3>3, <3>4, Zenon
  <2> DEFINE new == [agent[n] EXCEPT !.pulled = pulled, !.dirty = dirty]
  <2>2. /\ DOMAIN new = DOMAIN agent[n] /\ new.input = agent[n].input /\ new.pass = agent[n].pass
        /\ new.results = agent[n].results
    BY Zenon, <1>0
  <2> HIDE DEF new
  <2>3. AgentFits(ctl, n, new)
    BY <1>0, <2>2, Zenon DEF AgentFits
  <2>4. UNCHANGED net
    BY <1>2, Zenon DEF Pull, Wake
  <2> QED
    BY <1>0, <1>1, <2>1, <2>2, <2>3, <2>4, RollsAlone, Zenon DEF new
<1>3. CASE RestartAgent(n)
  <2>1. agent' = [agent EXCEPT ![n] = NewAgent] /\ net' = [net EXCEPT ![n] = Silent]
    BY <1>3, Zenon DEF RestartAgent
  <2>2. /\ DOMAIN NewAgent = {"input", "dirty", "pass", "results", "images", "pulled"}
        /\ NewAgent.input = {} /\ NewAgent.pass = Idle /\ NewAgent.results = {}
    BY Zenon DEF NewAgent
  <2>3. AgentFits(ctl, n, NewAgent)
    BY <2>2, IdleFits, Zenon DEF AgentFits
  <2>4. PassFits(ledger, cont, asked, NewAgent.pass)
    BY <2>2, IdleFits, Zenon
  <2> QED
    BY <1>1, <2>1, <2>2, <2>3, <2>4, RollsAlone, Zenon
<1> QED
  BY <1>2, <1>3, Zenon

\* finish_service_restart: the outcome of row x is noted.
LEMMA OutcomeFits ==
    ASSUME NEW x \in DOMAIN ledger, NEW v, ledger' = [ledger EXCEPT ![x] = [ledger[x] EXCEPT !.outcome = v]],
           Rows(ctl, ledger, cont), Asked(ctl, ledger, asked),
           v = "succeeded" => Again(ctl, ledger, cont, x[1], x[2])
    PROVE  /\ Keeps(ledger, ledger') /\ SameBut(ledger, ledger', x) /\ SameBut(asked, asked, x)
           /\ Rows(ctl, ledger', cont) /\ Asked(ctl, ledger', asked)
<1> DEFINE row == [ledger[x] EXCEPT !.outcome = v]
<1>1. x = <<x[1], x[2]>> /\ RowFits(ctl, cont, x[1], x[2], ledger[x])
  BY Zenon DEF Rows
<1>2. DOMAIN ledger[x] = {"before", "outcome"}
  BY <1>1, Zenon DEF RowFits
<1>3. DOMAIN row = {"before", "outcome"} /\ row.before = ledger[x].before /\ row.outcome = v
  BY Zenon, <1>2
<1> HIDE DEF row
<1>4. /\ DOMAIN ledger' = DOMAIN ledger /\ ledger'[x] = row
      /\ \A y \in DOMAIN ledger : y # x => ledger'[y] = ledger[y]
  BY Zenon DEF row
<1>5. Keeps(ledger, ledger')
  BY <1>3, <1>4, Zenon DEF Keeps
<1>6. SameBut(ledger, ledger', x) /\ SameBut(asked, asked, x)
  BY <1>4, Zenon DEF SameBut
<1>7. Asked(ctl, ledger', asked)
  BY <1>4, Zenon DEF Asked
<1>8. v = "succeeded" /\ cont[x[2]].id = ctl.ops[x[1]].tasks[x[2]].container
         => row.before < cont[x[2]].started
  BY <1>1, <1>3, Zenon DEF Again
<1>9. RowFits(ctl, cont, x[1], x[2], row)
  BY <1>1, <1>3, <1>8, Zenon DEF RowFits
<1>10. Rows(ctl, ledger', cont)
  BY <1>1, <1>4, <1>9, Zenon DEF Rows
<1> QED
  BY <1>5, <1>6, <1>7, <1>10, Zenon

\* The key of an attempt is its operation and its replica.
LEMMA KeyIs == ASSUME NEW a PROVE Key(a) = <<a.op, a.replica>> /\ Key(a)[1] = a.op /\ Key(a)[2] = a.replica
  BY Zenon DEF Key

\* The passes of the other Agents are about other rows.
LEMMA OtherPasses ==
    ASSUME Rolls(ctl, agent, net, ledger, cont, asked), NEW n \in Nodes, NEW a, Assigned(ctl, n, a),
           NEW m, NEW z, SameBut(ledger, m, Key(a)), SameBut(asked, z, Key(a))
    PROVE  \A o \in Nodes : o # n => PassFits(m, cont, z, agent[o].pass)
<1> SUFFICES ASSUME NEW o \in Nodes, o # n PROVE PassFits(m, cont, z, agent[o].pass)
  BY Zenon
<1> DEFINE p == agent[o].pass
<1>1. PassFits(ledger, cont, asked, p) /\ (p.pc # "idle" => Assigned(ctl, o, p.a))
  BY AgentKnown, Zenon
<1> HIDE DEF p
<1>2. PassFits(m, cont, z, p)
  BY <1>1, OtherPass, Zenon
<1> QED
  BY <1>2, Zenon DEF p

\* restart_task: the pass ends with an outcome.
LEMMA RollsEnds ==
    ASSUME Inv, Rolls(ctl, agent, net, ledger, cont, asked), UNCHANGED <<ctl, cont, net, asked>>,
           NEW n \in Nodes, NEW a, Assigned(ctl, n, a), Key(a) \in DOMAIN ledger, NEW v,
           ledger' = [ledger EXCEPT ![Key(a)] = [ledger[Key(a)] EXCEPT !.outcome = v]],
           NEW ok, Finish(n, a, ok),
           ok \/ v = "succeeded" => Again(ctl, ledger, cont, a.op, a.replica)
    PROVE  Rolls(ctl', agent', net', ledger', cont', asked')
<1>0. Rows(ctl, ledger, cont) /\ Asked(ctl, ledger, asked) /\ Targeted(ctl, ledger, cont)
  BY Zenon DEF Rolls
<1>1. AgentFits(ctl, n, agent[n])
  BY AgentKnown, Zenon
<1>2. /\ Keeps(ledger, ledger') /\ SameBut(ledger, ledger', Key(a)) /\ SameBut(asked, asked, Key(a))
      /\ Rows(ctl, ledger', cont) /\ Asked(ctl, ledger', asked)
  BY <1>0, KeyIs, OutcomeFits, Zenon
<1>3. \A o \in Nodes : o # n => PassFits(ledger', cont, asked, agent[o].pass)
  BY <1>2, OtherPasses, Zenon
<1>4. PICK new : /\ agent' = [agent EXCEPT ![n] = new] /\ AgentFits(ctl, n, new)
                 /\ new.pass = Idle /\ new.results = {Result(a, ok)}
  BY <1>1, FinishFits, Zenon
<1>5. ok => Again(ctl, ledger', cont, a.op, a.replica)
  <2> SUFFICES ASSUME Again(ctl, ledger, cont, a.op, a.replica)
               PROVE  Again(ctl, ledger', cont, a.op, a.replica)
    BY Zenon
  <2> QED
    BY <1>2, Zenon DEF Again, Keeps
<1>6. \A x \in new.results : Told(ctl, ledger', cont, x)
  BY <1>4, <1>5, ResultTold, Zenon
<1>7. PassFits(ledger', cont, asked', new.pass)
  BY <1>4, IdleFits, Zenon
<1>8. \A o \in Nodes : o # n => PassFits(ledger', cont, asked', agent[o].pass)
  BY <1>3, Zenon
<1>9. Asked(ctl, ledger', asked')
  BY <1>2, Zenon
<1> QED
  BY <1>2, <1>4, <1>6, <1>7, <1>8, <1>9, RollsAgent, Zenon

\* What a pass that is at work knows.
LEMMA PassKnown ==
    ASSUME Inv, Rolls(ctl, agent, net, ledger, cont, asked), NEW n \in Nodes,
           agent[n].pass.pc \in {"inspected", "claimed", "requested"}
    PROVE  LET p == agent[n].pass
               a == p.a
           IN  /\ Assigned(ctl, n, a) /\ p.started \in Nat /\ cont[a.replica].started \in Nat
               /\ cont[a.replica].id = a.container => p.started <= cont[a.replica].started
               /\ Key(a) \in DOMAIN ledger => /\ ledger[Key(a)].before \in Nat
                                              /\ ledger[Key(a)].before <= p.started
               /\ a.op \in DOMAIN ctl.ops /\ a.replica \in Replicas
               /\ a.container = ctl.ops[a.op].tasks[a.replica].container
<1> DEFINE p == agent[n].pass
           a == p.a
<1>1. PassFits(ledger, cont, asked, p) /\ (p.pc # "idle" => Assigned(ctl, n, a))
  BY AgentKnown, Zenon
<1>2. p.pc # "idle"
  BY Zenon
<1> HIDE DEF p
<1>3. /\ p.started \in Nat
      /\ cont[a.replica].id = a.container => p.started <= cont[a.replica].started
      /\ Key(a) \in DOMAIN ledger => ledger[Key(a)].before <= p.started
  BY <1>1, Zenon DEF PassFits, p
<1>4. /\ Assigned(ctl, n, a) /\ a.op \in DOMAIN ctl.ops /\ a.replica \in Replicas
      /\ a.container = ctl.ops[a.op].tasks[a.replica].container
  BY <1>1, <1>2, Zenon DEF Assigned
<1>5. Key(a) \in DOMAIN ledger => ledger[Key(a)].before \in Nat
  BY Zenon DEF Rolls, Rows, RowFits
<1>6. cont[a.replica].started \in Nat
  BY <1>4, Zenon DEF Inv, ContFits
<1> QED
  BY <1>3, <1>4, <1>5, <1>6, Zenon DEF p

\* claim_service_restart: the row is written with the start that was seen, before anything is asked.
LEMMA RollsClaims ==
    ASSUME Inv, Rolls(ctl, agent, net, ledger, cont, asked), NEW n \in Nodes, Claim(n), Claims(agent[n].pass.a)
    PROVE  Rolls(ctl', agent', net', ledger', cont', asked')
<1> DEFINE p == agent[n].pass
           a == p.a
           x == Key(a)
           row == [before |-> p.started, outcome |-> "none"]
           pass == [pc |-> "claimed", a |-> a, started |-> p.started]
           new == [agent[n] EXCEPT !.pass = pass]
<1>0. Rows(ctl, ledger, cont) /\ Asked(ctl, ledger, asked)
  BY Zenon DEF Rolls
<1>1. p.pc = "inspected" /\ UNCHANGED <<ctl, cont, net, asked>>
  BY Zenon DEF Claim
<1>2. /\ Assigned(ctl, n, a) /\ p.started \in Nat
      /\ cont[a.replica].id = a.container => p.started <= cont[a.replica].started
      /\ a.op \in DOMAIN ctl.ops /\ a.replica \in Replicas
      /\ a.container = ctl.ops[a.op].tasks[a.replica].container
  BY <1>1, PassKnown, Zenon
<1>3. /\ ledger' = [k \in DOMAIN ledger \cup {x} |-> IF k = x THEN row ELSE ledger[k]]
      /\ agent' = [agent EXCEPT ![n] = new] /\ x \notin DOMAIN ledger
  BY Zenon DEF Claim, Claims
<1>4. /\ AgentFits(ctl, n, agent[n])
      /\ DOMAIN agent[n] = {"input", "dirty", "pass", "results", "images", "pulled"}
      /\ \A y \in agent[n].results : Told(ctl, ledger, cont, y)
  BY AgentKnown, Zenon
<1>5. DOMAIN row = {"before", "outcome"} /\ row.before = p.started /\ row.outcome = "none"
  BY Zenon
<1>6. pass.pc = "claimed" /\ pass.a = a /\ pass.started = p.started
  BY Zenon
<1>7. /\ DOMAIN new = DOMAIN agent[n] /\ new.input = agent[n].input /\ new.results = agent[n].results
      /\ new.pass = pass
  <2> HIDE DEF pass
  <2> QED
    BY Zenon, <1>4
<1> HIDE DEF row, pass, new, a, x
<1>8. /\ DOMAIN ledger' = DOMAIN ledger \cup {x} /\ ledger'[x] = row
      /\ \A y \in DOMAIN ledger : ledger'[y] = ledger[y]
  BY <1>3, Zenon
<1>9. x = <<a.op, a.replica>> /\ x[1] = a.op /\ x[2] = a.replica
  BY KeyIs, Zenon DEF x
<1>10. Keeps(ledger, ledger') /\ SameBut(ledger, ledger', x) /\ SameBut(asked, asked, x)
  BY <1>8, Zenon DEF Keeps, SameBut
<1>11. Rows(ctl, ledger', cont)
  <2>1. row.outcome # "succeeded"
    BY Zenon, <1>5
  <2>2. RowFits(ctl, cont, a.op, a.replica, row)
    BY <1>2, <1>5, <2>1, Zenon DEF RowFits
  <2> QED
    BY <1>0, <1>8, <1>9, <2>2, Zenon DEF Rows
<1>12. Asked(ctl, ledger', asked)
  BY <1>0, <1>8, Zenon DEF Asked
<1>13. PassFits(ledger', cont, asked, pass)
  <2>1. x \in DOMAIN asked => asked[x] = 0
    BY Zenon, <1>0, <1>3 DEF Asked
  <2>2. ledger'[x].before = p.started /\ p.started <= p.started /\ x \in DOMAIN ledger'
    BY SMTT(30), <1>2, <1>5, <1>8
  <2> QED
    BY Zenon, <1>2, <1>6, <2>1, <2>2 DEF PassFits, x
<1>14. AgentFits(ctl, n, new)
  BY <1>2, <1>4, <1>6, <1>7, Zenon DEF AgentFits
<1>15. \A o \in Nodes : o # n => PassFits(ledger', cont, asked, agent[o].pass)
  BY <1>2, <1>10, OtherPasses, Zenon DEF x
<1>16. \A y \in new.results : Told(ctl, ledger', cont, y)
  <2>1. OpsPersist(ctl, ctl) /\ Grows(cont, cont) /\ Targeted(ctl, ledger, cont)
    BY ContGrows, Zenon DEF OpsPersist, Persists, Inv, Rolls
  <2>2. \A y : Told(ctl, ledger, cont, y) => Told(ctl, ledger', cont, y)
    BY <1>0, <1>10, <2>1, StaysTold, Zenon
  <2> QED
    BY <1>4, <1>7, <2>2, Zenon
<1>17. /\ PassFits(ledger', cont, asked', new.pass) /\ Asked(ctl, ledger', asked')
       /\ \A o \in Nodes : o # n => PassFits(ledger', cont, asked', agent[o].pass)
  BY <1>1, <1>7, <1>12, <1>13, <1>15, Zenon
<1> QED
  BY <1>1, <1>3, <1>10, <1>11, <1>14, <1>16, <1>17, RollsAgent, Zenon

\* restart_task: after an earlier claim, only what is known of its outcome is told.
LEMMA RollsClaimed ==
    ASSUME Inv, Rolls(ctl, agent, net, ledger, cont, asked), NEW n \in Nodes, Claim(n), ~Claims(agent[n].pass.a)
    PROVE  Rolls(ctl', agent', net', ledger', cont', asked')
<1> DEFINE p == agent[n].pass
           a == p.a
           x == Key(a)
           row == ledger[x]
           ok == row.outcome = "succeeded" \/ (row.outcome = "none" /\ row.before # p.started)
           v == IF row.outcome # "none" THEN row.outcome ELSE IF ok THEN "succeeded" ELSE "unknown"
<1>0. Rows(ctl, ledger, cont)
  BY Zenon DEF Rolls
<1>1. p.pc = "inspected" /\ UNCHANGED <<ctl, cont, net, asked>>
  BY Zenon DEF Claim
<1>2. /\ Assigned(ctl, n, a) /\ p.started \in Nat /\ cont[a.replica].started \in Nat
      /\ cont[a.replica].id = a.container => p.started <= cont[a.replica].started
      /\ x \in DOMAIN ledger => row.before \in Nat /\ row.before <= p.started
      /\ a.container = ctl.ops[a.op].tasks[a.replica].container
  BY <1>1, PassKnown, Zenon
<1>3. x \in DOMAIN ledger
  BY Zenon DEF Claims
<1>4. ledger' = [ledger EXCEPT ![x] = [ledger[x] EXCEPT !.outcome = v]] /\ Finish(n, a, ok)
  BY Zenon DEF Claim
<1>5. x = <<a.op, a.replica>> /\ x[1] = a.op /\ x[2] = a.replica
  BY KeyIs, Zenon
<1>6. RowFits(ctl, cont, a.op, a.replica, row)
  BY <1>0, <1>3, <1>5, Zenon DEF Rows
<1>7. ASSUME ok PROVE Again(ctl, ledger, cont, a.op, a.replica)
  <2>1. CASE row.outcome = "succeeded"
    BY <1>3, <1>5, <1>6, <2>1, Zenon DEF RowFits, Again
  <2>2. CASE row.before # p.started
    <3> HIDE DEF a, x, p, row
    <3>1. cont[a.replica].id = a.container => row.before < cont[a.replica].started
      BY <1>2, <1>3, <2>2
    <3> QED
      BY <1>2, <1>3, <1>5, <3>1, Zenon DEF Again, row
  <2> QED
    BY <1>7, <2>1, <2>2, Zenon
<1>8. v = "succeeded" => ok
  <2>1. "unknown" # "succeeded"
    BY Zenon
  <2> HIDE DEF row
  <2> QED
    BY <2>1, Zenon
<1> HIDE DEF ok, v, a, p
<1> QED
  BY <1>1, <1>2, <1>3, <1>4, <1>7, <1>8, RollsEnds, Zenon

\* restart_task: the daemon is asked, once, or the attempt is too late.
LEMMA RollsRequest ==
    ASSUME Inv, Rolls(ctl, agent, net, ledger, cont, asked), NEW n \in Nodes, Request(n)
    PROVE  Rolls(ctl', agent', net', ledger', cont', asked')
<1> DEFINE p == agent[n].pass
           a == p.a
           x == Key(a)
           pass == [pc |-> "requested", a |-> a, started |-> p.started]
           new == [agent[n] EXCEPT !.pass = pass]
<1>0. Rows(ctl, ledger, cont) /\ Asked(ctl, ledger, asked)
  BY Zenon DEF Rolls
<1>1. p.pc = "claimed" /\ UNCHANGED <<ctl, cont, net>>
  BY Zenon DEF Request
<1>2. /\ Assigned(ctl, n, a) /\ p.started \in Nat
      /\ cont[a.replica].id = a.container => p.started <= cont[a.replica].started
  BY <1>1, PassKnown, Zenon
<1>3. PassFits(ledger, cont, asked, p)
  BY AgentKnown, Zenon
<1>4. /\ x \in DOMAIN ledger /\ ledger[x].before = p.started
      /\ x \in DOMAIN asked => asked[x] = 0
  BY Zenon, <1>1, <1>3 DEF PassFits
<1>5. x = <<a.op, a.replica>> /\ x[1] = a.op /\ x[2] = a.replica
  BY KeyIs, Zenon
<1>6. CASE now >= a.deadline
  <2>1. /\ ledger' = [ledger EXCEPT ![x] = [ledger[x] EXCEPT !.outcome = "expired"]]
        /\ Finish(n, a, FALSE) /\ UNCHANGED asked
    BY <1>6, Zenon DEF Request
  <2>2. "expired" # "succeeded"
    BY Zenon
  <2> HIDE DEF a
  <2> QED
    BY <1>1, <1>2, <1>4, <2>1, <2>2, RollsEnds, Zenon
<1>7. CASE ~(now >= a.deadline)
  <2>1. /\ asked' = [asked EXCEPT ![x] = @ + 1] /\ UNCHANGED ledger
        /\ agent' = [agent EXCEPT ![n] = new]
    BY <1>7, Zenon DEF Request
  <2>2. /\ AgentFits(ctl, n, agent[n])
        /\ DOMAIN agent[n] = {"input", "dirty", "pass", "results", "images", "pulled"}
        /\ \A y \in agent[n].results : Told(ctl, ledger, cont, y)
    BY AgentKnown, Zenon
  <2>3. pass.pc = "requested" /\ pass.a = a /\ pass.started = p.started
    BY Zenon
  <2>4. /\ DOMAIN new = DOMAIN agent[n] /\ new.input = agent[n].input /\ new.results = agent[n].results
        /\ new.pass = pass
    <3> HIDE DEF pass
    <3> QED
      BY Zenon, <2>2
  <2> HIDE DEF pass, new, a, x
  <2>5. DOMAIN asked' = DOMAIN asked /\ \A y \in DOMAIN asked : y # x => asked'[y] = asked[y]
    BY <2>1, Zenon
  <2>6. x \in DOMAIN asked => asked'[x] = 1
    BY <1>4, <2>1
  <2>7. SameBut(ledger, ledger, x) /\ SameBut(asked, asked', x) /\ Keeps(ledger, ledger)
    BY <2>5, Zenon DEF SameBut, Keeps
  <2>8. Asked(ctl, ledger, asked')
    <3> SUFFICES ASSUME NEW y \in DOMAIN asked
                 PROVE  /\ asked'[y] \in {0, 1}
                        /\ asked'[y] = 1 => /\ y \in DOMAIN ledger
                                            /\ \A q \in Replicas : q < y[2] => ctl.ops[y[1]].tasks[q].completed
      BY <2>5, Zenon DEF Asked
    <3>1. CASE y = x
      BY <1>2, <1>4, <1>5, <2>6, <3>1, Zenon DEF Assigned
    <3>2. CASE y # x
      BY <1>0, <2>5, <3>2, Zenon DEF Asked
    <3> QED
      BY <3>1, <3>2, Zenon
  <2>9. PassFits(ledger, cont, asked', pass)
    <3>1. p.started <= p.started
      BY <1>2
    <3> QED
      BY Zenon, <1>2, <1>4, <2>3, <3>1 DEF PassFits, x
  <2>10. AgentFits(ctl, n, new)
    BY <1>2, <2>2, <2>3, <2>4, Zenon DEF AgentFits
  <2>11. \A o \in Nodes : o # n => PassFits(ledger, cont, asked', agent[o].pass)
    BY <1>2, <2>7, OtherPasses, Zenon DEF x
  <2>12. /\ PassFits(ledger', cont, asked', new.pass) /\ Asked(ctl, ledger', asked')
         /\ Keeps(ledger, ledger') /\ Rows(ctl, ledger', cont)
         /\ \A o \in Nodes : o # n => PassFits(ledger', cont, asked', agent[o].pass)
         /\ \A y \in new.results : Told(ctl, ledger', cont, y)
    BY <1>0, <2>1, <2>2, <2>4, <2>7, <2>8, <2>9, <2>11, Zenon
  <2> QED
    BY <1>1, <2>1, <2>10, <2>12, RollsAgent, Zenon
<1> QED
  BY <1>6, <1>7, Zenon

\* restart_task: only a start later than the one in the ledger is success.
LEMMA RollsConfirm ==
    ASSUME Inv, Rolls(ctl, agent, net, ledger, cont, asked), NEW n \in Nodes, Confirm(n)
    PROVE  Rolls(ctl', agent', net', ledger', cont', asked')
<1> DEFINE p == agent[n].pass
           a == p.a
           x == Key(a)
           well == /\ cont[a.replica].id = a.container /\ cont[a.replica].image = a.image
                   /\ cont[a.replica].started # agent[n].pass.started
<1>1. p.pc = "requested" /\ UNCHANGED <<ctl, cont, net, asked>>
  BY Zenon DEF Confirm
<1>2. /\ Assigned(ctl, n, a) /\ p.started \in Nat /\ cont[a.replica].started \in Nat
      /\ cont[a.replica].id = a.container => p.started <= cont[a.replica].started
      /\ a.container = ctl.ops[a.op].tasks[a.replica].container
  BY <1>1, PassKnown, Zenon
<1>3. PassFits(ledger, cont, asked, p)
  BY AgentKnown, Zenon
<1>4. x \in DOMAIN ledger /\ ledger[x].before = p.started
  BY Zenon, <1>1, <1>3 DEF PassFits
<1>5. x = <<a.op, a.replica>>
  BY KeyIs, Zenon
<1>6. PICK ok \in {well, FALSE} :
          /\ ledger' = [ledger EXCEPT ![x].outcome = IF ok THEN "succeeded" ELSE "unknown"]
          /\ Finish(n, a, ok)
  BY Zenon DEF Confirm
<1> DEFINE v == IF ok THEN "succeeded" ELSE "unknown"
<1>7. ledger' = [ledger EXCEPT ![x] = [ledger[x] EXCEPT !.outcome = v]]
  BY <1>6, Zenon
<1>8. v = "succeeded" => ok
  <2>1. "unknown" # "succeeded"
    BY Zenon
  <2> QED
    BY <2>1, Zenon
<1>9. ok => well
  BY <1>6, Zenon
<1>10. ASSUME well PROVE Again(ctl, ledger, cont, a.op, a.replica)
  <2>1. /\ cont[a.replica].id = a.container /\ cont[a.replica].started # p.started
    BY <1>10, Zenon
  <2> HIDE DEF a, x, p, well
  <2>2. ledger[x].before < cont[a.replica].started
    BY SMTT(30), <1>2, <1>4, <2>1
  <2> QED
    BY <1>4, <1>5, <2>2, Zenon DEF Again
<1> HIDE DEF well, v, a
<1>11. ok \/ v = "succeeded" => Again(ctl, ledger, cont, a.op, a.replica)
  BY <1>8, <1>9, <1>10, Zenon
<1> QED
  BY <1>1, <1>2, <1>4, <1>6, <1>7, <1>11, RollsEnds, Zenon

\* A heartbeat of node n that says m keeps the invariant if m is right.
LEMMA RollsNet ==
    ASSUME Rolls(ctl, agent, net, ledger, cont, asked), UNCHANGED <<ctl, agent, ledger, cont, asked>>,
           NEW n \in Nodes, NEW m, net' = [net EXCEPT ![n] = m], WireFits(ctl, ledger, cont, n, m),
           m.stage = "sent" => \A x \in m.results : Told(ctl, ledger, cont, x)
    PROVE  Rolls(ctl', agent', net', ledger', cont', asked')
<1>0. /\ Agents(ctl, agent) /\ Passes(agent, ledger, cont, asked) /\ Rows(ctl, ledger, cont)
      /\ Asked(ctl, ledger, asked) /\ Reports(ctl, ledger, cont, agent, net)
      /\ Inventories(ctl, ledger, cont, net) /\ Targeted(ctl, ledger, cont)
  BY Zenon DEF Rolls
<1>1. DOMAIN net' = Nodes /\ net'[n] = m /\ \A o \in Nodes : o # n => net'[o] = net[o]
  BY <1>0, Zenon DEF Inventories
<1>2. Inventories(ctl, ledger, cont, net')
  BY <1>0, <1>1, Zenon DEF Inventories
<1>3. Reports(ctl, ledger, cont, agent, net')
  BY <1>0, <1>1, Zenon DEF Reports
<1> QED
  BY <1>0, <1>2, <1>3, Zenon DEF Rolls

\* Heartbeats that are put together, sent or lost keep the invariant.
LEMMA RollsWire ==
    ASSUME Inv, Rolls(ctl, agent, net, ledger, cont, asked), NEW n \in Nodes,
           TakeInventory(n) \/ SendHeartbeat(n) \/ Lose(n)
    PROVE  Rolls(ctl', agent', net', ledger', cont', asked')
<1>0. /\ Reports(ctl, ledger, cont, agent, net) /\ Inventories(ctl, ledger, cont, net)
      /\ Targeted(ctl, ledger, cont)
  BY Zenon DEF Rolls
<1>1. UNCHANGED <<ctl, agent, ledger, cont, asked>>
  BY Zenon DEF TakeInventory, SendHeartbeat, Lose
<1>2. CASE Lose(n)
  <2>1. Silent.stage = "silent" /\ "silent" # "sent"
    BY Zenon DEF Silent
  <2>2. WireFits(ctl, ledger, cont, n, Silent)
    BY <2>1, Zenon DEF WireFits
  <2>3. net' = [net EXCEPT ![n] = Silent]
    BY <1>2, Zenon DEF Lose
  <2> QED
    BY <1>1, <2>1, <2>2, <2>3, RollsNet, Zenon
<1>3. CASE SendHeartbeat(n)
  <2> DEFINE m == [stage |-> "sent", inventory |-> net[n].inventory,
                   results |-> agent[n].results, pulled |-> agent[n].pulled]
  <2>1. net' = [net EXCEPT ![n] = m] /\ net[n].stage = "listed"
    BY <1>3, Zenon DEF SendHeartbeat
  <2>2. m.stage = "sent" /\ m.inventory = net[n].inventory /\ m.results = agent[n].results
    BY Zenon
  <2> HIDE DEF m
  <2>3. net[n].stage # "silent"
    BY Zenon, <2>1
  <2>4. WireFits(ctl, ledger, cont, n, m)
    BY <1>0, <2>2, <2>3, Zenon DEF Inventories, WireFits
  <2>5. \A x \in m.results : Told(ctl, ledger, cont, x)
    BY <1>0, <2>2, Zenon DEF Reports
  <2> QED
    BY <1>1, <2>1, <2>4, <2>5, RollsNet, Zenon
<1>4. CASE TakeInventory(n)
  <2> DEFINE entry(r) == [container |-> cont[r].id, image |-> cont[r].image,
                          observed |-> IF cont[r].healthy THEN "healthy" ELSE "starting"]
             list == [r \in On(n) |-> entry(r)]
             m == [stage |-> "listed", inventory |-> list]
  <2>1. net' = [net EXCEPT ![n] = m]
    BY <1>4, Zenon DEF TakeInventory
  <2>2. m.stage = "listed" /\ m.inventory = list
    <3> HIDE DEF list
    <3> QED
      BY Zenon
  <2>3. DOMAIN list = On(n) /\ \A r \in On(n) : list[r] = entry(r)
    BY Zenon
  <2> HIDE DEF m, list
  <2>4. ASSUME NEW r \in On(n) PROVE ListFits(ctl, ledger, cont, n, r, entry(r))
    <3>1. r \in Replicas /\ cont[r].node = n
      BY Zenon DEF On
    <3>2. entry(r).container = cont[r].id /\ (entry(r).observed = "healthy" => cont[r].healthy)
      BY Zenon
    <3>3. /\ cont[r].id \in Nat /\ cont[r].id <= cont[r].id
          /\ cont[r].healthy => cont[r].lastHealthy = cont[r].started
      BY <3>1 DEF Inv, ContFits
    <3> HIDE DEF entry
    <3>4. ASSUME NEW i \in DOMAIN ctl.ops, ctl.ops[i].tasks[r].restarted, entry(r).observed = "healthy"
          PROVE  Well(ctl, ledger, cont, i, r)
      <4>1. Again(ctl, ledger, cont, i, r)
        BY <1>0, <3>1, <3>4, Zenon DEF Targeted, TargetFits
      <4> QED
        BY <3>2, <3>3, <3>4, <4>1, Zenon DEF Again, Well
    <3> QED
      BY <3>1, <3>2, <3>3, <3>4, Zenon DEF ListFits
  <2>5. WireFits(ctl, ledger, cont, n, m)
    <3>1. m.stage \in {"silent", "listed", "sent"}
      BY Zenon, <2>2
    <3>2. \A r \in DOMAIN m.inventory : ListFits(ctl, ledger, cont, n, r, m.inventory[r])
      BY <2>2, <2>3, <2>4, Zenon
    <3> QED
      BY <3>1, <3>2, Zenon DEF WireFits
  <2>6. m.stage # "sent"
    BY Zenon, <2>2
  <2> QED
    BY <1>1, <2>1, <2>5, <2>6, RollsNet, Zenon
<1> QED
  BY <1>2, <1>3, <1>4, Zenon

\* The steps of an Agent keep the invariant.
LEMMA RollsAgents ==
    ASSUME Inv, Rolls(ctl, agent, net, ledger, cont, asked), NEW n \in Nodes, AgentsStep(n)
    PROVE  Rolls(ctl', agent', net', ledger', cont', asked')
<1>1. CASE TakeInventory(n) \/ SendHeartbeat(n) \/ Lose(n)
  BY <1>1, RollsWire, Zenon
<1>2. CASE Inspect(n)
  BY <1>2, RollsInspect, Zenon
<1>3. CASE Reject(n)
  BY <1>3, RollsReject, Zenon
<1>4. CASE Claim(n)
  BY <1>4, RollsClaims, RollsClaimed, Zenon
<1>5. CASE Request(n)
  BY <1>5, RollsRequest, Zenon
<1>6. CASE Confirm(n)
  BY <1>6, RollsConfirm, Zenon
<1>7. CASE Pull(n) \/ Wake(n) \/ RestartAgent(n)
  BY <1>7, RollsQuiet, Zenon
<1> QED
  BY <1>1, <1>2, <1>3, <1>4, <1>5, <1>6, <1>7, Zenon DEF AgentsStep

\* The invariant of the next state, read in the next state.
LEMMA PrimeRolls ==
    ASSUME bound' = bound, Rolls(ctl', agent', net', ledger', cont', asked')
    PROVE  Rolls(ctl, agent, net, ledger, cont, asked)'
<1>0. Replicas' = Replicas
  BY Zenon DEF Replicas
<1>1. /\ Agents(ctl', agent') /\ Passes(agent', ledger', cont', asked') /\ Rows(ctl', ledger', cont')
      /\ Asked(ctl', ledger', asked') /\ Reports(ctl', ledger', cont', agent', net')
      /\ Inventories(ctl', ledger', cont', net') /\ Targeted(ctl', ledger', cont')
  BY Zenon DEF Rolls
<1>2. Agents(ctl, agent)'
  <2>1. ASSUME NEW n \in Nodes, NEW a, Assigned(ctl', n, a) PROVE Assigned(ctl, n, a)'
    BY <1>0, <2>1, Zenon DEF Assigned
  <2>2. ASSUME NEW n \in Nodes PROVE AgentFits(ctl, n, agent[n])'
    BY <1>1, <2>1, Zenon DEF Agents, AgentFits
  <2> QED
    BY <1>1, <2>2, Zenon DEF Agents
<1>3. Passes(agent, ledger, cont, asked)'
  BY <1>1, Zenon DEF Passes, PassFits
<1>4. Rows(ctl, ledger, cont)'
  BY <1>0, <1>1, Zenon DEF Rows, RowFits
<1>5. Asked(ctl, ledger, asked)'
  BY <1>0, <1>1, Zenon DEF Asked
<1>6. Reports(ctl, ledger, cont, agent, net)'
  BY <1>0, <1>1, Zenon DEF Reports, Told, Again
<1>7. Inventories(ctl, ledger, cont, net)'
  BY <1>0, <1>1, ZenonT(40) DEF Inventories, WireFits, ListFits, Well
<1>8. Targeted(ctl, ledger, cont)'
  BY <1>0, <1>1, Zenon DEF Targeted, TargetFits, Again, Well
<1> QED
  BY <1>2, <1>3, <1>4, <1>5, <1>6, <1>7, <1>8, Zenon DEF Rolls

\* Nothing is restarted at first.
LEMMA RollsInit ==
    ASSUME Init PROVE Rolls(ctl, agent, net, ledger, cont, asked)
<1>1. /\ agent = [n \in Nodes |-> NewAgent] /\ net = [n \in Nodes |-> Silent] /\ ledger = <<>>
      /\ asked = [k \in (1..bound.ops) \X Replicas |-> 0]
      /\ cont = [r \in Replicas |-> [id |-> 1, node |-> bound.home[r], image |-> 1, started |-> 1,
                                     healthy |-> TRUE, lastHealthy |-> 1]]
  BY Zenon DEF Init
<1>2. /\ ctl.ops = <<>>
      /\ ctl.tasks = [r \in Replicas |-> [rev |-> 1, node |-> bound.home[r], desired |-> "running",
                                          container |-> 1, image |-> 1, observed |-> "healthy"]]
  BY Zenon DEF Init
<1>3. DOMAIN ctl.ops = {} /\ DOMAIN ledger = {}
  BY <1>1, <1>2
<1>4. \A r \in Replicas : ctl.tasks[r].container = 1 /\ cont[r].id = 1
  BY <1>1, <1>2
<1>5. /\ DOMAIN NewAgent = {"input", "dirty", "pass", "results", "images", "pulled"}
      /\ NewAgent.input = {} /\ NewAgent.results = {} /\ NewAgent.pass.pc = "idle"
  BY Zenon DEF NewAgent, Idle
<1>6. Silent.stage = "silent" /\ "silent" # "sent"
  BY Zenon DEF Silent
<1>7. Agents(ctl, agent)
  BY <1>1, <1>5, Zenon DEF Agents, AgentFits
<1>8. Passes(agent, ledger, cont, asked)
  <2>1. PassFits(ledger, cont, asked, NewAgent.pass)
    BY Zenon, <1>5 DEF PassFits
  <2> QED
    BY <1>1, <2>1, Zenon DEF Passes
<1>9. Rows(ctl, ledger, cont)
  BY <1>3, Zenon DEF Rows
<1>10. Asked(ctl, ledger, asked)
  BY <1>1 DEF Asked
<1>11. Reports(ctl, ledger, cont, agent, net)
  BY <1>1, <1>5, <1>6, Zenon DEF Reports
<1>12. Inventories(ctl, ledger, cont, net)
  <2>1. ASSUME NEW n \in Nodes PROVE WireFits(ctl, ledger, cont, n, Silent)
    BY Zenon, <1>6 DEF WireFits
  <2> QED
    BY <1>1, <2>1, Zenon DEF Inventories
<1>13. Targeted(ctl, ledger, cont)
  BY <1>3, <1>4 DEF Targeted
<1> QED
  BY <1>7, <1>8, <1>9, <1>10, <1>11, <1>12, <1>13, Zenon DEF Rolls

\* The invariant says what a rolling restart promises.
LEMMA RollsSuffices ==
    ASSUME Rolls(ctl, agent, net, ledger, cont, asked) PROVE RestartsRoll
<1>0. Asked(ctl, ledger, asked) /\ Targeted(ctl, ledger, cont)
  BY Zenon DEF Rolls
<1>1. RestartOnce
  BY <1>0 DEF Asked, RestartOnce
<1>2. RollingOrder
  <2> SUFFICES ASSUME NEW k \in DOMAIN asked, asked[k] > 0
               PROVE  \A q \in Replicas : q < k[2] => ctl.ops[k[1]].tasks[q].completed
    BY Zenon DEF RollingOrder
  <2>1. asked[k] = 1
    BY <1>0 DEF Asked
  <2> QED
    BY <1>0, <2>1, Zenon DEF Asked
<1>3. CompletedWasHealthy
  <2> SUFFICES ASSUME NEW i \in DOMAIN ctl.ops, NEW r \in Replicas,
                      ctl.ops[i].tasks[r].completed, cont[r].id = ctl.ops[i].tasks[r].container
               PROVE  cont[r].lastHealthy > ledger[<<i, r>>].before
    BY Zenon DEF CompletedWasHealthy
  <2>1. ledger[<<i, r>>].before < cont[r].lastHealthy
    BY <1>0, Zenon DEF Targeted, TargetFits, Well
  <2> QED
    BY Zenon, <2>1
<1> QED
  BY <1>1, <1>2, <1>3, Zenon DEF RestartsRoll

\* The bounds of a run stay.
LEMMA BoundStays ==
    ASSUME [Next]_vars PROVE bound' = bound
<1>1. CASE ControllerStep
  BY <1>1, Zenon DEF ControllerStep, Submit, Apply, Retry, DeploymentSuffers, Tick, CheckPrepared,
       ApplyPrepared, RestartController, NodeTimesOut
<1>2. CASE ContainerStep
  BY <1>2, Zenon DEF ContainerStep, DaemonRestarts, BecomeHealthy, Crash
<1>3. CASE OtherStep
  BY <1>3, Zenon DEF OtherStep, Revoke, Clock, Push, DaemonRefuses, vars
<1>4. ASSUME NEW n \in bound.nodes, AgentsStep(n) \/ HandleHeartbeat(n)
      PROVE  bound' = bound
  BY <1>4, Zenon DEF AgentsStep, HandleHeartbeat, TakeInventory, SendHeartbeat, Lose, Inspect, Reject,
       Claim, Request, Confirm, Pull, Wake, RestartAgent
<1>5. ASSUME NEW r \in Replicas, Replace(r) PROVE bound' = bound
  BY <1>5, Zenon DEF Replace
<1> QED
  BY <1>1, <1>2, <1>3, <1>4, <1>5, Steps, Zenon

\* Every step keeps the invariant.
LEMMA RollsNext ==
    ASSUME Inv, Rolls(ctl, agent, net, ledger, cont, asked), [Next]_vars
    PROVE  Rolls(ctl, agent, net, ledger, cont, asked)'
<1>0. bound' = bound /\ bound.nodes \subseteq Nodes /\ BoundFits /\ Sound(ctl) /\ Started /\ ContFits
  BY BoundStays, Zenon DEF Inv, BoundFits
<1> SUFFICES Rolls(ctl', agent', net', ledger', cont', asked')
  BY <1>0, PrimeRolls, Zenon
<1>1. CASE ControllerStep
  BY <1>0, <1>1, ControllerSteps, RollsController, Zenon
<1>2. CASE ContainerStep
  <2>1. UNCHANGED <<ctl, agent, net, ledger, asked>> /\ ContStep
    BY <1>0, <1>2, ContainersStep, Zenon DEF ContainerStep
  <2> QED
    BY <2>1, RollsContainers, Zenon
<1>3. CASE OtherStep
  <2>1. UNCHANGED <<ctl, agent, net, ledger, cont, asked>>
    BY <1>3, Zenon DEF OtherStep, Revoke, Clock, Push, DaemonRefuses, vars
  <2> QED
    BY <2>1, Zenon
<1>4. ASSUME NEW n \in bound.nodes, AgentsStep(n) \/ HandleHeartbeat(n)
      PROVE  Rolls(ctl', agent', net', ledger', cont', asked')
  <2>1. CASE AgentsStep(n)
    BY <1>0, <2>1, RollsAgents, Zenon
  <2>2. CASE HandleHeartbeat(n)
    <3>1. Sound(ctl') /\ OpsPersist(ctl, ctl') /\ Beats(n, net[n], ctl')
      BY <1>0, <2>2, HeartbeatSound, Zenon
    <3>2. CurrentIsFirst
      BY <1>0, CurrentIsPending, Zenon DEF CurrentIsFirst
    <3> QED
      BY <1>0, <2>2, <3>1, <3>2, RollsHeartbeat, Zenon
  <2> QED
    BY <1>4, <2>1, <2>2, Zenon
<1>5. ASSUME NEW r \in Replicas, Replace(r)
      PROVE  Rolls(ctl', agent', net', ledger', cont', asked')
  <2>1. Replaces(r)
    BY <1>0, <1>5, ReplaceSound, Zenon
  <2> QED
    BY <1>5, <2>1, RollsReplace, Zenon
<1> QED
  BY <1>1, <1>2, <1>3, <1>4, <1>5, Steps, Zenon

-----------------------------------------------------------------------------

\* That the numbers are well ordered.
WF == INSTANCE WellFoundedInduction

\* The order of the replicas.
Smaller == {p \in Nat \X Nat : p[1] < p[2]}

\* It is the usual one.
LEMMA SmallerIsLess == \A x, y \in Nat : <<y, x>> \notin Smaller => x <= y
  BY DEF Smaller

\* A set of replicas has a least one.
LEMMA Least ==
    ASSUME NEW S, S \subseteq Nat, S # {}
    PROVE  First(S) \in S /\ \A x \in S : First(S) <= x
<1>1. WF!OpToRel(<, Nat) = Smaller
  BY Zenon DEF WF!OpToRel, Smaller
<1>2. WF!IsWellFoundedOn(Smaller, Nat)
  BY <1>1, WF!NatLessThanWellFounded, Zenon
<1>3. \E x \in S : \A y \in S : <<y, x>> \notin Smaller
  BY <1>2, WF!WFMin, Zenon
<1>4. \E x \in S : \A y \in S : x <= y
  BY <1>3, SmallerIsLess, Zenon
<1> QED
  BY <1>4, Zenon DEF First

\* The invariant holds at first.
LEMMA InvInit == ASSUME Fits, Init PROVE Inv
<1>1. BoundFits
  <2>1. Replicas \subseteq Nat /\ Replicas # {} /\ bound.nodes \subseteq Nodes
    BY Zenon DEF Init, Fits, Replicas
  <2>2. ASSUME NEW S \in SUBSET Replicas, S # {}
        PROVE  First(S) \in S /\ \A r \in S : First(S) <= r
    BY <2>1, <2>2, Least, Zenon
  <2> QED
    BY <2>1, <2>2, Zenon DEF BoundFits
<1>2. /\ DOMAIN ctl = {"rev", "image", "deleted", "generation", "deployment", "ops", "live", "known", "tasks"}
      /\ ctl.rev = 1 /\ ctl.generation = 1 /\ ctl.ops = <<>>
      /\ ctl.deployment = [gen |-> 1, status |-> "healthy"]
      /\ ctl.tasks = [r \in Replicas |-> [rev |-> 1, node |-> bound.home[r], desired |-> "running",
                                          container |-> 1, image |-> 1, observed |-> "healthy"]]
  BY Zenon DEF Init
<1>3. ctl.deployment.gen = 1 /\ DOMAIN ctl.deployment = {"gen", "status"}
  BY <1>2
<1>4. /\ DOMAIN ctl.tasks = Replicas
      /\ \A r \in Replicas :
            /\ DOMAIN ctl.tasks[r] = {"rev", "node", "desired", "container", "image", "observed"}
            /\ ctl.tasks[r].rev = 1 /\ ctl.tasks[r].node = bound.home[r]
            /\ ctl.tasks[r].container = 1
  BY <1>2
<1>5. DOMAIN ctl.ops = {}
  BY <1>2
<1>6. Sound(ctl)
  <2>1. CtlShape(ctl)
    BY <1>2, <1>3, <1>4, Zenon DEF CtlShape
  <2>2. IsSeq(ctl.ops)
    <3>1. ctl.ops = [i \in 1..0 |-> ctl.ops[i]]
      BY <1>2
    <3> QED
      BY Zenon, <3>1 DEF IsSeq
  <2>3. OpsShape(ctl) /\ GenOnce(ctl) /\ DgenOnce(ctl) /\ OneGoes(ctl) /\ OneKey(ctl)
    BY <1>5, <2>2, Zenon DEF OpsShape, GenOnce, DgenOnce, OneGoes, OneKey
  <2>4. Counted(ctl)
    BY <1>2, <1>3, <1>4, <1>5 DEF Counted, None
  <2> QED
    BY <2>1, <2>3, <2>4, Zenon DEF Sound
<1>7. Started
  BY Zenon DEF Init, Idle, Started
<1>8. ContFits
  <2>1. cont = [r \in Replicas |-> [id |-> 1, node |-> bound.home[r], image |-> 1, started |-> 1,
                                    healthy |-> TRUE, lastHealthy |-> 1]]
    BY Zenon DEF Init
  <2> QED
    BY <1>4, <2>1 DEF ContFits, None
<1>9. PinnedImages
  BY <1>5, Zenon DEF PinnedImages
<1> QED
  BY <1>1, <1>6, <1>7, <1>8, <1>9, Zenon DEF Inv

\* For any nodes, replicas and bounds: the records of the operations stay sound, whatever requests,
\* heartbeats, crashes and restarts interleave.
THEOREM OperationsAreSound == ASSUME Fits PROVE Spec => []Inv
<1>1. Init => Inv
  BY InvInit, Zenon
<1>2. Inv /\ [Next]_vars => Inv'
  BY InvNext, Zenon
<1> QED
  BY <1>1, <1>2, PTL DEF Spec

\* For any nodes, replicas and bounds: a Stack has one operation that goes on, and only its own
\* deployment with it, and a key names one operation (submit_service_operation; the UNIQUE
\* active_stack and request_key of service_operations).
THEOREM OperationsAreUnique == ASSUME Fits PROVE Spec => []OperationsUnique
<1>1. ASSUME Inv PROVE OperationsUnique
  <2>1. OneGoes(ctl) /\ OneKey(ctl)
    BY <1>1, Zenon DEF Inv, Sound
  <2>2. OneActive
    BY Zenon, <2>1 DEF OneGoes, OneActive
  <2>3. KeyOnce
    BY <2>1, Zenon DEF OneKey, KeyOnce
  <2> QED
    BY <2>2, <2>3, Zenon DEF OperationsUnique
<1> QED
  BY <1>1, OperationsAreSound, PTL

\* For any nodes, replicas and bounds: a task of a revision that a pull deployed runs the image
\* which its own node reported as prepared for it (heartbeat, schedule_task).
THEOREM ImagesArePinned == ASSUME Fits PROVE Spec => []PinnedImages
<1>1. Inv => PinnedImages
  BY Zenon DEF Inv
<1> QED
  BY <1>1, OperationsAreSound, PTL

\* For any nodes, replicas and bounds: an operation is deployed only while it is active and its
\* Stack exists, as the revision and with the image it was accepted with
\* (apply_prepared_service_operation, apply_guarded).
THEOREM OperationsStartAsAccepted == ASSUME Fits PROVE Spec => StartsAsAccepted
<1>1. ASSUME Inv, [Next]_vars
      PROVE  [\A i \in DOMAIN ctl.ops :
                 ctl'.ops[i].dgen # ctl.ops[i].dgen
                   => /\ active(ctl.ops[i]) /\ ~ctl.deleted
                      /\ ctl'.rev = ctl.ops[i].target /\ ctl'.image = ctl.ops[i].image]_vars
  <2>1. Deploys(ctl, ctl')
    BY <1>1, InvNext, Zenon
  <2> QED
    BY <2>1, Zenon DEF Deploys
<1> QED
  BY <1>1, OperationsAreSound, PTL DEF Spec, StartsAsAccepted

\* For any nodes, replicas and bounds, whatever crashes, is lost, repeated or late: a rolling restart
\* asks the daemon at most once for each task, after the tasks before it are completed, and a task is
\* completed only if its container was healthy after the start that followed the claim (heartbeat,
\* restart_task, claim_service_restart).
THEOREM RestartsAreRolling == ASSUME Fits PROVE Spec => []RestartsRoll
<1> DEFINE I == Rolls(ctl, agent, net, ledger, cont, asked)
<1>1. Init => I
  BY RollsInit, Zenon
<1>2. Inv /\ I /\ [Next]_vars => I'
  BY RollsNext, Zenon
<1>3. I => RestartsRoll
  BY RollsSuffices, Zenon
<1> HIDE DEF I
<1> QED
  BY <1>1, <1>2, <1>3, OperationsAreSound, PTL DEF Spec
=============================================================================
