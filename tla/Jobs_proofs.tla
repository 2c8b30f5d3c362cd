----------------------------- MODULE Jobs_proofs -----------------------------
(***************************************************************************)
(* ExecutedOnce and FinishedIsOver, for any nodes, schedules and number of *)
(* executions and events: the invariant of JobsController_proofs is also   *)
(* preserved by the Agents and the daemons of their hosts, and implies     *)
(* both.                                                                   *)
(***************************************************************************)
EXTENDS JobsController_proofs

-----------------------------------------------------------------------------
(* Steps of an Agent *)

\* What a pass holds at each of its steps.
LEMMA PassKinds ==
  ASSUME NEW p \in Passes
  PROVE  /\ p.pc = "prepared" => p.input \in Inputs /\ p.existing \in Listings
         /\ p.pc \notin {"idle", "prepared"} => p.todo \in SUBSET Assigns /\ p.failed \in SUBSET Ids
         /\ p.pc \in {"pulling", "creating", "starting", "started"} => p.current \in Assigns
  BY DEF Passes, Idle, Prepared, Between, Within

\* Nothing is required of a pass between two calls.
LEMMA OtherPass == ASSUME NEW n, NEW p, p.pc \notin {"prepared", "creating", "starting"} PROVE PassFine(n, p)
  BY DEF PassFine, PassGood

\* A step that only changes the pass.
LEMMA PassStep ==
  ASSUME JobInv, NEW n \in Nodes, NEW p \in Passes, agent' = [agent EXCEPT ![n].pass = p],
         UNCHANGED <<bound, now, ctl, nodes, ledger, intent, net, cont, docker, starts>>, PassFine(n, p)
  PROVE  JobInv'
  <1> DEFINE a == [agent[n] EXCEPT !.pass = p]
  <1>1. agent \in [Nodes -> Agents] /\ agent[n] \in Agents
    BY DEF JobInv, Types
  <1>2. a \in Agents /\ a.pass = p /\ a.overdue = agent[n].overdue
    BY <1>1 DEF Agents
  <1>3. agent' = [agent EXCEPT ![n] = a]
    BY <1>1
  <1> HIDE DEF a
  <1>4. AgentFine(n, a)
    BY <1>2 DEF JobInv, AgentFine
  <1> QED  BY Zenon, <1>2, <1>3, <1>4, AgentStep

\* What GoTo and Done make of a pass that is under way.
LEMMA GoToFacts ==
  ASSUME Types, NEW n \in Nodes, NEW x \in Assigns, NEW pc \in {"pulling", "creating", "starting", "started"},
         agent[n].pass.pc \notin {"idle", "prepared"}, GoTo(n, pc, x)
  PROVE  \E p \in Passes : p.pc = pc /\ p.current = x /\ agent' = [agent EXCEPT ![n].pass = p]
  <1>1. agent[n].pass \in Passes
    BY DEF Types, Agents
  <1> DEFINE q == agent[n].pass
             p == [pc |-> pc, current |-> x, todo |-> q.todo, failed |-> q.failed]
  <1>2. q.todo \in SUBSET Assigns /\ q.failed \in SUBSET Ids
    BY <1>1, PassKinds
  <1>3. p \in Within
    BY <1>2 DEF Within
  <1>4. agent' = [agent EXCEPT ![n].pass = p]
    BY DEF GoTo, Types
  <1> QED  BY Zenon, <1>3, <1>4 DEF Passes

\* An assignment is done with: the pass goes on to the next.
LEMMA DoneFacts ==
  ASSUME Types, NEW n \in Nodes, NEW x \in Assigns, NEW bad,
         agent[n].pass.pc \notin {"idle", "prepared"}, Done(n, x, bad)
  PROVE  \E p \in Passes : p.pc = "assign" /\ agent' = [agent EXCEPT ![n].pass = p]
  <1>1. agent[n].pass \in Passes
    BY DEF Types, Agents
  <1> DEFINE q == agent[n].pass
             failed == IF bad THEN q.failed \cup {x.id} ELSE q.failed
             p == [pc |-> "assign", todo |-> q.todo \ {x}, failed |-> failed]
  <1>2. q.todo \in SUBSET Assigns /\ q.failed \in SUBSET Ids
    BY Zenon, <1>1, PassKinds
  <1>3. failed \in SUBSET Ids
    BY Zenon, <1>2 DEF Assigns
  <1>4. agent' = [agent EXCEPT ![n].pass = p]
    BY DEF Done, Types
  <1> HIDE DEF failed
  <1>5. p \in Between
    BY <1>2, <1>3 DEF Between
  <1> QED  BY Zenon, <1>4, <1>5 DEF Passes

\* Being done with an assignment, well or badly, changes the pass alone.
LEMMA DoneKeeps ==
  ASSUME JobInv, NEW n \in Nodes, NEW x \in Assigns, NEW bad,
         agent[n].pass.pc \notin {"idle", "prepared"}, Done(n, x, bad),
         UNCHANGED <<bound, now, ctl, nodes, ledger, intent, net, cont, docker, starts>>
  PROVE  JobInv'
  <1>1. PICK p \in Passes : p.pc = "assign" /\ agent' = [agent EXCEPT ![n].pass = p]
    BY DoneFacts DEF JobInv
  <1>2. PassFine(n, p)
    BY <1>1 DEF PassFine, PassGood
  <1> QED  BY Zenon, <1>1, <1>2, PassStep

\* A pass begins with an inventory of what runs now, or fails to.
LEMMA PrepareKeeps ==
  ASSUME JobInv, NEW n \in Nodes, Prepare(n) \/ PrepareFails(n) PROVE JobInv'
  <1>1. agent \in [Nodes -> Agents] /\ agent[n] \in Agents /\ agent[n].input \in Inputs
    BY DEF JobInv, Types, Agents
  <1>2. CASE Prepare(n)
    <2> DEFINE e == Inventory(n)
               p == [pc |-> "prepared", input |-> agent[n].input, existing |-> e]
               a == [agent[n] EXCEPT !.dirty = FALSE, !.pass = p]
    <2>1. e \in Listings /\ \A i \in DOMAIN e : e[i] = "running" => Was(n, i)
      BY InventoryFacts
    <2> HIDE DEF e
    <2>2. p \in Passes
      BY <1>1, <2>1 DEF Passes, Prepared
    <2>3. p.pc = "prepared" /\ p.existing = e
      OBVIOUS
    <2>4. agent' = [agent EXCEPT ![n] = a]
      BY Zenon, <1>1, <1>2 DEF Prepare, e
    <2> HIDE DEF p
    <2>5. a \in Agents /\ a.pass = p /\ a.overdue = agent[n].overdue
      BY Zenon, <1>1, <2>2 DEF Agents
    <2> HIDE DEF a
    <2>6. AgentFine(n, a)
      <3>1. PassFine(n, p)
        BY <2>1, <2>3 DEF PassFine, PassGood, Was
      <3> QED  BY Zenon, <2>5, <3>1 DEF JobInv, AgentFine
    <2> QED  BY Zenon, <1>2, <2>4, <2>5, <2>6, AgentStep DEF Prepare
  <1>3. CASE PrepareFails(n)
    <2> DEFINE r == InputIds(agent[n].input)
               a == [agent[n] EXCEPT !.dirty = FALSE, !.pass = Idle, !.results = r]
    <2>1. r \subseteq Ids
      BY <1>1 DEF InputIds, Inputs, Assigns
    <2>2. agent' = [agent EXCEPT ![n] = a]
      BY Zenon, <1>1, <1>3 DEF PrepareFails
    <2>3. Idle \in Passes
      BY DEF Passes
    <2> HIDE DEF r
    <2>4. a \in Agents /\ a.pass = Idle /\ a.overdue = agent[n].overdue
      BY Zenon, <1>1, <2>1, <2>3 DEF Agents
    <2> HIDE DEF a
    <2>5. AgentFine(n, a)
      <3>1. PassFine(n, Idle)
        BY OtherPass DEF Idle
      <3> QED  BY Zenon, <2>4, <3>1 DEF JobInv, AgentFine
    <2> QED  BY Zenon, <1>3, <2>2, <2>4, <2>5, AgentStep DEF PrepareFails
  <1> QED  BY <1>2, <1>3

\* create_task after its checks: no step but Claim and Start asks the daemon.
LEMMA CreateKeeps ==
  ASSUME JobInv, NEW n \in Nodes, NEW x \in Todo(n),
         CreateTask(n, x) \/ Created(n, x) \/ Started(n, x) \/ GiveUp(n, x)
  PROVE  JobInv'
  <1>1. Types /\ agent[n].pass \in Passes /\ agent[n].pass.pc \notin {"idle", "prepared"}
    BY Zenon DEF JobInv, Types, Agents, Todo
  <1>2. x \in Assigns
    BY <1>1, PassKinds DEF Todo
  <1>3. UNCHANGED <<bound, now, ctl, nodes, ledger, intent, net, cont, docker, starts>>
    BY Zenon DEF CreateTask, Created, Started, GiveUp
  <1>4. CASE \E bad : Done(n, x, bad)
    BY <1>1, <1>2, <1>3, <1>4, DoneKeeps
  <1>5. CASE CreateTask(n, x) /\ GoTo(n, "pulling", x)
    <2>1. PICK p \in Passes : p.pc = "pulling" /\ p.current = x /\ agent' = [agent EXCEPT ![n].pass = p]
      BY <1>1, <1>2, <1>5, GoToFacts
    <2>2. PassFine(n, p)
      BY <2>1 DEF PassFine, PassGood
    <2> QED  BY Zenon, <1>3, <2>1, <2>2, PassStep
  <1>6. CASE Created(n, x) /\ GoTo(n, "starting", x)
    <2>1. PICK p \in Passes : p.pc = "starting" /\ p.current = x /\ agent' = [agent EXCEPT ![n].pass = p]
      BY <1>1, <1>2, <1>6, GoToFacts
    <2>2. PassFine(n, agent[n].pass)
      BY DEF JobInv, AgentFine
    <2>3. PassFine(n, p)
      BY <1>6, <2>1, <2>2 DEF PassFine, PassGood, Created, AtStep
    <2> QED  BY Zenon, <1>3, <2>1, <2>3, PassStep
  <1> QED  BY Zenon, <1>4, <1>5, <1>6 DEF CreateTask, Created, Started, GiveUp

\* A pass ends, the deadline loop looks, or a stop fails: no container changes.
LEMMA EndKeeps ==
  ASSUME JobInv, NEW n \in Nodes, EndPass(n) \/ DeadlineScan(n) \/ \E i \in Ids : StopFails(n, i)
  PROVE  JobInv'
  <1>1. agent \in [Nodes -> Agents] /\ agent[n] \in Agents /\ agent[n].pass \in Passes
    BY DEF JobInv, Types, Agents
  <1>2. CASE EndPass(n)
    <2> DEFINE r == agent[n].pass.failed
               a == [agent[n] EXCEPT !.results = r, !.pass = Idle]
    <2>1. r \subseteq Ids /\ Idle \in Passes
      BY <1>1, <1>2, PassKinds DEF EndPass, Passes
    <2>2. agent' = [agent EXCEPT ![n] = a]
      BY Zenon, <1>1, <1>2 DEF EndPass
    <2> HIDE DEF r
    <2>3. a \in Agents /\ a.pass = Idle /\ a.overdue = agent[n].overdue
      BY Zenon, <1>1, <2>1 DEF Agents
    <2> HIDE DEF a
    <2>4. AgentFine(n, a)
      <3>1. PassFine(n, Idle)
        BY OtherPass DEF Idle
      <3> QED  BY Zenon, <2>3, <3>1 DEF JobInv, AgentFine
    <2> QED  BY Zenon, <1>2, <2>2, <2>3, <2>4, AgentStep DEF EndPass
  <1>3. CASE DeadlineScan(n)
    <2> DEFINE late == {i \in Ids : Overdue(n, i)}
               a == [agent[n] EXCEPT !.overdue = late]
    <2>1. \A i \in late : i \in Ids /\ Was(n, i)
      BY Zenon DEF Overdue, JobInv, HostFine, HostGood, Was
    <2>2. agent' = [agent EXCEPT ![n] = a]
      BY <1>1, <1>3 DEF DeadlineScan
    <2> HIDE DEF late
    <2>3. a \in Agents /\ a.pass = agent[n].pass /\ a.overdue = late
      BY <1>1, <2>1 DEF Agents
    <2> HIDE DEF a
    <2>4. AgentFine(n, a)
      BY Zenon, <2>1, <2>3 DEF JobInv, AgentFine
    <2> QED  BY <1>3, <2>2, <2>3, <2>4, AgentStep DEF DeadlineScan
  <1>4. ASSUME NEW i \in Ids, StopFails(n, i) PROVE JobInv'
    <2> DEFINE s == agent[n].stopping \ {i}
               a == [agent[n] EXCEPT !.stopping = s]
    <2>1. s \subseteq Ids
      BY <1>1 DEF Agents
    <2>2. agent' = [agent EXCEPT ![n] = a]
      BY <1>1, <1>4 DEF StopFails
    <2> HIDE DEF s
    <2>3. a \in Agents /\ a.pass = agent[n].pass /\ a.overdue = agent[n].overdue
      BY <1>1, <2>1 DEF Agents
    <2> HIDE DEF a
    <2>4. AgentFine(n, a)
      BY <2>3 DEF JobInv, AgentFine
    <2> QED  BY Zenon, <1>4, <2>2, <2>3, <2>4, AgentStep DEF StopFails
  <1> QED  BY <1>2, <1>3, <1>4

-----------------------------------------------------------------------------
(* Steps on a host *)

\* A step about one execution on a host, that does not touch the ledger.
LEMMA OneStep ==
  ASSUME JobInv, NEW n \in Nodes, NEW i \in Ids, UNCHANGED <<bound, now, ctl, nodes, ledger, intent, net>>,
         Types', agent'[n].pass = agent[n].pass, agent'[n].overdue = agent[n].overdue,
         \A m \in Nodes \ {n} : /\ agent'[m] = agent[m] /\ cont'[m] = cont[m]
                                /\ docker'[m] = docker[m] /\ starts'[m] = starts[m],
         \A j \in Ids \ {i} : /\ cont'[n][j] = cont[n][j] /\ docker'[n][j] = docker[n][j]
                              /\ starts'[n][j] = starts[n][j],
         HostFine(n, i)', PassFine(n, agent[n].pass)',
         Was(n, i) => Was(n, i)', Over(n, i) => Over(n, i)'
  PROVE  JobInv'
  <1>1. \A j \in Ids : HostFine(n, j)'
    <2> SUFFICES ASSUME NEW j \in Ids \ {i} PROVE HostFine(n, j)'
      BY Zenon
    <2>1. HostFine(n, j)
      BY Zenon DEF JobInv
    <2> QED  BY Zenon, <2>1 DEF HostFine, Was
  <1>2. \A j \in Ids : (Was(n, j) => Was(n, j)') /\ (Over(n, j) => Over(n, j)')
    BY Zenon DEF Was, Over
  <1>3. agent[n].overdue \subseteq Ids /\ \A j \in agent[n].overdue : Was(n, j)
    BY DEF JobInv, Types, Agents, AgentFine
  <1>4. AgentFine(n, agent[n])'
    BY Zenon, <1>2, <1>3 DEF AgentFine
  <1>5. Mine(n)' \subseteq Mine(n)
    BY DEF Mine
  <1>6. \A m \in Nodes \ {n} : ledger'[m] = ledger[m] /\ intent'[m] = intent[m]
    OBVIOUS
  <1> QED  BY Zenon, <1>1, <1>2, <1>4, <1>5, <1>6, HostStep

\* The daemon creates the container of a claim, late or not, before any start.
LEMMA DaemonCreateKeeps == ASSUME JobInv, NEW n \in Nodes, NEW i \in Ids, DaemonCreate(n, i) PROVE JobInv'
  <1>1. Types /\ HostFine(n, i) /\ PassFine(n, agent[n].pass)
    BY Zenon DEF JobInv, AgentFine
  <1>2. docker[n][i] = "create" /\ cont[n][i].state = "none" /\ cont[n][i] \in Boxes /\ starts[n][i] = 0
    BY <1>1 DEF DaemonCreate, HostFine, HostGood, Types
  <1> DEFINE b == [cont[n][i] EXCEPT !.state = "created"]
  <1>3. b \in Boxes /\ b.state = "created"
    BY <1>2 DEF Boxes
  <1>4. cont' = [cont EXCEPT ![n][i] = b]
    BY <1>1, <1>2 DEF DaemonCreate, Types
  <1> HIDE DEF b
  <1>5. /\ cont' \in [Nodes -> [Ids -> Boxes]] /\ cont'[n][i] = b
        /\ \A m \in Nodes \ {n} : cont'[m] = cont[m]
        /\ \A j \in Ids \ {i} : cont'[n][j] = cont[n][j]
    BY <1>1, <1>3, <1>4 DEF Types
  <1>6. /\ docker' \in [Nodes -> [Ids -> {"idle", "create", "start"}]] /\ docker'[n][i] = "idle"
        /\ \A m \in Nodes \ {n} : docker'[m] = docker[m]
        /\ \A j \in Ids \ {i} : docker'[n][j] = docker[n][j]
    BY <1>1 DEF DaemonCreate, Types
  <1>7. UNCHANGED <<bound, now, ctl, nodes, ledger, intent, agent, net, starts>>
    BY DEF DaemonCreate
  <1>8. Types'
    BY <1>1, <1>5, <1>6, <1>7 DEF Types
  <1>9. HostFine(n, i)'
    BY Zenon, <1>1, <1>2, <1>3, <1>5, <1>6, <1>7 DEF HostFine, HostGood, Was
  <1>10. PassFine(n, agent[n].pass)'
    <2>1. agent[n].pass \in Passes /\ \A x \in Assigns : x.id \in Ids
      BY <1>1 DEF Types, Agents, Assigns
    <2>2. agent[n].pass.pc \in {"creating", "starting"} => agent[n].pass.current.id \in Ids
      BY Zenon, <2>1, PassKinds
    <2> QED  BY Zenon, <1>1, <1>6, <1>7, <2>2 DEF PassFine, PassGood, Was
  <1>11. (Was(n, i) => Was(n, i)') /\ (Over(n, i) => Over(n, i)')
    <2>1. starts'[n][i] = 0
      BY SMTT(30), <1>2, <1>7
    <2> QED  BY SMTT(30), <1>2, <2>1 DEF Was, Over
  <1> QED  BY Zenon, <1>5, <1>6, <1>7, <1>8, <1>9, <1>10, <1>11, OneStep

\* The daemon starts a container that was not started before.
LEMMA DaemonStartKeeps == ASSUME JobInv, NEW n \in Nodes, NEW i \in Ids, DaemonStart(n, i) PROVE JobInv'
  <1>1. Types /\ HostFine(n, i) /\ PassFine(n, agent[n].pass) /\ now \in Int
    BY Zenon DEF JobInv, AgentFine, Types
  <1>2. docker[n][i] = "start" /\ cont[n][i] \in Boxes /\ starts[n][i] = 0
    <2>1. docker[n][i] = "start"
      BY Zenon DEF DaemonStart
    <2>2. cont[n][i] \in Boxes
      BY <1>1 DEF Types
    <2> QED  BY <1>1, <2>1, <2>2 DEF HostFine, HostGood
  <1>3. /\ docker' \in [Nodes -> [Ids -> {"idle", "create", "start"}]] /\ docker'[n][i] = "idle"
        /\ \A m \in Nodes \ {n} : docker'[m] = docker[m]
        /\ \A j \in Ids \ {i} : docker'[n][j] = docker[n][j]
    BY <1>1 DEF DaemonStart, Types
  <1>4. UNCHANGED <<bound, now, ctl, nodes, ledger, intent, agent, net>>
    BY DEF DaemonStart
  <1>5. /\ cont' \in [Nodes -> [Ids -> Boxes]] /\ starts' \in [Nodes -> [Ids -> Nat]]
        /\ \A m \in Nodes \ {n} : cont'[m] = cont[m] /\ starts'[m] = starts[m]
        /\ \A j \in Ids \ {i} : cont'[n][j] = cont[n][j] /\ starts'[n][j] = starts[n][j]
        /\ \/ cont'[n][i].state = "running" /\ starts'[n][i] = 1
           \/ cont'[n][i] = cont[n][i] /\ starts'[n][i] = 0
    <2>1. CASE cont[n][i].state = "created"
      <3> DEFINE b == [state |-> "running", started |-> now]
      <3>1. b \in Boxes /\ b.state = "running"
        BY <1>1 DEF Boxes
      <3>2. cont' = [cont EXCEPT ![n][i] = b] /\ starts' = [starts EXCEPT ![n][i] = 1]
        BY <1>1, <1>2, <2>1 DEF DaemonStart, Types
      <3> HIDE DEF b
      <3>3. /\ cont' \in [Nodes -> [Ids -> Boxes]] /\ cont'[n][i] = b
            /\ \A m \in Nodes \ {n} : cont'[m] = cont[m]
            /\ \A j \in Ids \ {i} : cont'[n][j] = cont[n][j]
        BY <1>1, <3>1, <3>2 DEF Types
      <3>4. /\ starts' \in [Nodes -> [Ids -> Nat]] /\ starts'[n][i] = 1
            /\ \A m \in Nodes \ {n} : starts'[m] = starts[m]
            /\ \A j \in Ids \ {i} : starts'[n][j] = starts[n][j]
        BY <1>1, <3>2 DEF Types
      <3> QED  BY Zenon, <3>1, <3>3, <3>4
    <2>2. CASE cont[n][i].state # "created"
      BY <1>1, <1>2, <2>2 DEF DaemonStart, Types
    <2> QED  BY <2>1, <2>2
  <1>6. Types'
    BY <1>1, <1>3, <1>4, <1>5 DEF Types
  <1>7. HostFine(n, i)'
    BY Zenon, <1>1, <1>2, <1>3, <1>4, <1>5 DEF HostFine, HostGood, Was
  <1>8. PassFine(n, agent[n].pass)'
    <2>1. agent[n].pass \in Passes /\ \A x \in Assigns : x.id \in Ids
      BY <1>1 DEF Types, Agents, Assigns
    <2>2. agent[n].pass.pc \in {"creating", "starting"} =>
             agent[n].pass.current.id \in Ids /\ agent[n].pass.current.id # i
      BY Zenon, <1>1, <1>2, <2>1, PassKinds DEF PassFine, PassGood
    <2>3. agent[n].pass.pc = "prepared" => DOMAIN agent[n].pass.existing \subseteq Ids
      BY <2>1, PassKinds, Maps
    <2>4. \A j \in Ids : Was(n, j) => Was(n, j)'
      BY <1>2, <1>5 DEF Was
    <2>5. agent'[n].pass = agent[n].pass /\ ledger' = ledger
      BY <1>4
    <2>6. ASSUME agent[n].pass.pc \in {"creating", "starting"}
          PROVE  /\ starts'[n][agent[n].pass.current.id] = starts[n][agent[n].pass.current.id]
                 /\ docker'[n][agent[n].pass.current.id] = docker[n][agent[n].pass.current.id]
      BY Zenon, <1>3, <1>5, <2>2, <2>6
    <2> QED  BY Zenon, <1>1, <2>3, <2>4, <2>5, <2>6 DEF PassFine, PassGood, Was
  <1>9. (Was(n, i) => Was(n, i)') /\ (Over(n, i) => Over(n, i)')
    BY <1>2 DEF Was, Over
  <1> QED  BY Zenon, <1>3, <1>4, <1>5, <1>6, <1>7, <1>8, <1>9, OneStep

\* The other steps about one execution: no request is made and none is started.
LEMMA HostKeeps ==
  ASSUME JobInv, NEW n \in Nodes, NEW i \in Ids,
         StopDone(n, i) \/ DaemonFails(n, i) \/ Exit(n, i) \/ Disappear(n, i)
  PROVE  JobInv'
  <1>1. Types /\ HostFine(n, i) /\ PassFine(n, agent[n].pass)
    BY Zenon DEF JobInv, AgentFine
  <1>2. cont[n][i] \in Boxes /\ agent[n] \in Agents
    BY <1>1 DEF Types
  <1>3. UNCHANGED <<bound, now, ctl, nodes, ledger, intent, net, starts>>
    BY DEF StopDone, DaemonFails, Exit, Disappear
  <1>4. PICK b \in Boxes : /\ cont' = [cont EXCEPT ![n][i] = b]
                           /\ b.state = cont[n][i].state \/ b.state = "none"
                              \/ (b.state = "exited" /\ cont[n][i].state = "running")
    <2>1. [cont[n][i] EXCEPT !.state = "exited"] \in Boxes /\ [cont[n][i] EXCEPT !.state = "exited"].state = "exited"
      BY <1>2 DEF Boxes
    <2>2. NoContainer \in Boxes /\ NoContainer.state = "none"
      BY DEF NoContainer, Boxes
    <2>3. cont = [cont EXCEPT ![n][i] = cont[n][i]]
      BY <1>1 DEF Types
    <2>4. CASE StopDone(n, i)
      <3>1. CASE cont[n][i].state = "running"
        <4>1. cont' = [cont EXCEPT ![n][i] = [cont[n][i] EXCEPT !.state = "exited"]]
          BY <1>1, <2>4, <3>1 DEF StopDone, Types
        <4> QED  BY Zenon, <2>1, <3>1, <4>1
      <3>2. CASE cont[n][i].state # "running"
        <4>1. cont' = cont
          BY <1>1, <1>2, <2>4, <3>2 DEF StopDone, Types, Boxes
        <4> QED  BY <1>2, <2>3, <4>1
      <3> QED  BY <3>1, <3>2
    <2>5. CASE DaemonFails(n, i)
      BY <1>2, <2>3, <2>5 DEF DaemonFails
    <2>6. CASE Exit(n, i)
      <3>1. cont' = [cont EXCEPT ![n][i] = [cont[n][i] EXCEPT !.state = "exited"]] /\ cont[n][i].state = "running"
        BY <1>1, <2>6 DEF Exit, Types
      <3> QED  BY Zenon, <2>1, <3>1
    <2>7. CASE Disappear(n, i)
      BY Zenon, <2>2, <2>7 DEF Disappear
    <2> QED  BY <2>4, <2>5, <2>6, <2>7
  <1>5. /\ cont' \in [Nodes -> [Ids -> Boxes]] /\ cont'[n][i] = b
        /\ \A m \in Nodes \ {n} : cont'[m] = cont[m]
        /\ \A j \in Ids \ {i} : cont'[n][j] = cont[n][j]
    BY <1>1, <1>4 DEF Types
  <1>6. /\ docker' \in [Nodes -> [Ids -> {"idle", "create", "start"}]]
        /\ docker'[n][i] = docker[n][i] \/ docker'[n][i] = "idle"
        /\ \A m \in Nodes \ {n} : docker'[m] = docker[m]
        /\ \A j \in Ids \ {i} : docker'[n][j] = docker[n][j]
    <2>1. docker \in [Nodes -> [Ids -> {"idle", "create", "start"}]]
      BY <1>1 DEF Types
    <2>2. docker' = docker \/ docker' = [docker EXCEPT ![n][i] = "idle"]
      BY DEF StopDone, DaemonFails, Exit, Disappear
    <2> QED  BY <2>1, <2>2
  <1>7. /\ agent' \in [Nodes -> Agents] /\ \A m \in Nodes \ {n} : agent'[m] = agent[m]
        /\ agent'[n].pass = agent[n].pass /\ agent'[n].overdue = agent[n].overdue
    <2>1. CASE StopDone(n, i)
      <3> DEFINE s == agent[n].stopping \ {i}
                 a == [agent[n] EXCEPT !.stopping = s]
      <3>1. s \subseteq Ids
        BY <1>2 DEF Agents
      <3>2. agent' = [agent EXCEPT ![n] = a]
        BY <1>1, <1>2, <2>1 DEF StopDone, Types
      <3> HIDE DEF s
      <3>3. a \in Agents /\ a.pass = agent[n].pass /\ a.overdue = agent[n].overdue
        BY <1>2, <3>1 DEF Agents
      <3> HIDE DEF a
      <3> QED  BY <1>1, <3>2, <3>3 DEF Types
    <2>2. CASE ~StopDone(n, i)
      BY <1>1, <2>2 DEF DaemonFails, Exit, Disappear, Types
    <2> QED  BY <2>1, <2>2
  <1>8. Types'
    BY <1>1, <1>3, <1>5, <1>6, <1>7 DEF Types
  <1>9. HostFine(n, i)'
    BY Zenon, <1>1, <1>2, <1>3, <1>4, <1>5, <1>6 DEF HostFine, HostGood, Was, Boxes
  <1>10. PassFine(n, agent[n].pass)'
    <2>1. agent[n].pass \in Passes /\ \A x \in Assigns : x.id \in Ids
      BY <1>1 DEF Types, Agents, Assigns
    <2>2. agent[n].pass.pc \in {"creating", "starting"} => agent[n].pass.current.id \in Ids
      BY Zenon, <2>1, PassKinds
    <2>3. \A j \in Ids : docker'[n][j] = docker[n][j] \/ docker'[n][j] = "idle"
      BY <1>6
    <2>4. agent'[n].pass = agent[n].pass /\ ledger' = ledger /\ starts' = starts
      BY <1>3, <1>7
    <2>5. PassGood(agent[n].pass, ledger[n].claimed, starts[n], docker[n]) =>
             PassGood(agent[n].pass, ledger[n].claimed, starts[n], docker'[n])
      BY Zenon, <2>2, <2>3 DEF PassGood
    <2> QED  BY Zenon, <1>1, <2>4, <2>5 DEF PassFine
  <1>11. (Was(n, i) => Was(n, i)') /\ (Over(n, i) => Over(n, i)')
    BY <1>3, <1>4, <1>5 DEF Was, Over
  <1> QED  BY Zenon, <1>3, <1>5, <1>6, <1>7, <1>8, <1>9, <1>10, <1>11, OneStep

\* The attempt is claimed before the container is asked for: a claim that was not
\* made before, of an execution that has no container and never had one.
LEMMA ClaimKeeps == ASSUME JobInv, NEW n \in Nodes, NEW x \in Todo(n), Claim(n, x) PROVE JobInv'
  <1>1. Types /\ agent[n].pass \in Passes /\ agent[n].pass.pc \notin {"idle", "prepared"}
    BY Zenon DEF JobInv, Types, Agents, Todo
  <1>2. x \in Assigns /\ x.id \in Ids
    BY <1>1, PassKinds DEF Todo, Assigns
  <1> DEFINE i == x.id
  <1>3. CASE ~Claimable(n, x)
    BY Zenon, <1>1, <1>2, <1>3, DoneKeeps DEF Claim
  <1>4. CASE Claimable(n, x)
    <2>1. PICK p \in Passes : p.pc = "creating" /\ p.current = x /\ agent' = [agent EXCEPT ![n].pass = p]
      BY <1>1, <1>2, <1>4, GoToFacts DEF Claim
    <2>2. /\ i \in ledger[n].authorized /\ starts[n][i] = 0 /\ cont[n][i].state = "none"
          /\ docker[n][i] = "idle" /\ intent[n][i] = "none"
      <3>1. i \in ledger[n].authorized /\ i \notin ledger[n].claimed
        BY Zenon, <1>4 DEF Claimable, Authorized
      <3>2. HostFine(n, i)
        BY Zenon, <1>2 DEF JobInv
      <3> QED  BY SMTT(30), <3>1, <3>2 DEF HostFine, HostGood
    <2>3. /\ ledger' = [ledger EXCEPT ![n].claimed = @ \cup {i}] /\ docker' = [docker EXCEPT ![n][i] = "create"]
          /\ UNCHANGED <<bound, now, ctl, nodes, intent, net, cont, starts>>
      BY <1>4 DEF Claim
    <2> HIDE DEF i
    <2>4. i \in Ids /\ x.id = i
      BY <1>2 DEF i
    <2>5. /\ agent' \in [Nodes -> Agents] /\ agent'[n].pass = p /\ agent'[n].overdue = agent[n].overdue
          /\ \A m \in Nodes \ {n} : agent'[m] = agent[m]
      <3> DEFINE a == [agent[n] EXCEPT !.pass = p]
      <3>0. agent[n] \in Agents
        BY Zenon, <1>1 DEF Types
      <3>1. a \in Agents /\ a.pass = p /\ a.overdue = agent[n].overdue
        BY <3>0 DEF Agents
      <3>2. agent' = [agent EXCEPT ![n] = a]
        BY <1>1, <2>1 DEF Types
      <3> HIDE DEF a
      <3> QED  BY Zenon, <1>1, <3>1, <3>2 DEF Types
    <2>6. /\ ledger' \in [Nodes -> Rows] /\ \A m \in Nodes \ {n} : ledger'[m] = ledger[m]
          /\ ledger'[n].authorized = ledger[n].authorized /\ ledger'[n].claimed = ledger[n].claimed \cup {i}
      <3> DEFINE s == ledger[n].claimed \cup {i}
      <3>1. s \subseteq Ids /\ ledger[n] \in Rows
        BY <1>1, <2>4 DEF Types, Rows
      <3>2. ledger' = [ledger EXCEPT ![n].claimed = s]
        BY <1>1, <2>3 DEF Types
      <3> HIDE DEF s
      <3>3. /\ ledger' \in [Nodes -> Rows] /\ \A m \in Nodes \ {n} : ledger'[m] = ledger[m]
            /\ ledger'[n].authorized = ledger[n].authorized /\ ledger'[n].claimed = s
        BY Zenon, <1>1, <3>1, <3>2 DEF Types, Rows
      <3> QED  BY <3>3 DEF s
    <2>7. /\ docker' \in [Nodes -> [Ids -> {"idle", "create", "start"}]] /\ docker'[n][i] = "create"
          /\ \A m \in Nodes \ {n} : docker'[m] = docker[m]
          /\ \A j \in Ids \ {i} : docker'[n][j] = docker[n][j]
      BY <1>1, <2>3, <2>4 DEF Types
    <2>8. Types'
      BY <1>1, <2>3, <2>5, <2>6, <2>7 DEF Types
    <2>9. ASSUME NEW j \in Ids PROVE HostFine(n, j)'
      <3>1. HostFine(n, j)
        BY DEF JobInv
      <3>2. CASE j = i
        BY <2>2, <2>3, <2>6, <2>7, <3>2 DEF HostFine, HostGood, Was
      <3>3. CASE j # i
        BY <2>3, <2>6, <2>7, <3>1, <3>3 DEF HostFine, HostGood, Was
      <3> QED  BY <3>2, <3>3
    <2>10. AgentFine(n, agent[n])'
      <3>1. i \in ledger'[n].claimed /\ starts'[n][i] = 0 /\ docker'[n][i] # "start"
        BY <2>2, <2>3, <2>6, <2>7
      <3>2. PassGood(p, ledger'[n].claimed, starts'[n], docker'[n])
        BY <2>1, <2>4, <3>1 DEF PassGood
      <3>3. \A j \in agent'[n].overdue : Was(n, j)'
        BY <2>3, <2>5 DEF JobInv, AgentFine, Was
      <3> QED  BY Zenon, <2>5, <3>2, <3>3 DEF AgentFine, PassFine
    <2>11. Mine(n)' \subseteq Mine(n)
      BY <2>2, <2>6 DEF Mine
    <2>12. \A j \in Ids : Over(n, j) => Over(n, j)'
      BY <2>3 DEF Over
    <2> QED  BY Zenon, <2>3, <2>5, <2>6, <2>7, <2>8, <2>9, <2>10, <2>11, <2>12, HostStep
  <1> QED  BY <1>3, <1>4

\* A pass asks the daemon to start the container it has claimed, before any start.
LEMMA StartKeeps == ASSUME JobInv, NEW n \in Nodes, NEW x \in Todo(n), Start(n, x) PROVE JobInv'
  <1>1. Types /\ agent[n].pass \in Passes /\ agent[n].pass.pc \notin {"idle", "prepared"}
    BY Zenon DEF JobInv, Types, Agents, Todo
  <1>2. x \in Assigns /\ x.id \in Ids
    BY <1>1, PassKinds DEF Todo, Assigns
  <1>3. PICK p \in Passes : p.pc = "started" /\ agent' = [agent EXCEPT ![n].pass = p]
    BY <1>1, <1>2, GoToFacts DEF Start
  <1> DEFINE i == x.id
  <1>4. i \in ledger[n].claimed /\ starts[n][i] = 0 /\ docker[n][i] = "idle"
    <2>1. PassFine(n, agent[n].pass)
      BY Zenon DEF JobInv, AgentFine
    <2>2. agent[n].pass.pc = "starting" /\ agent[n].pass.current = x
      BY Zenon DEF Start, AtStep
    <2> QED  BY <2>1, <2>2 DEF PassFine, PassGood
  <1>5. /\ docker' = [docker EXCEPT ![n][i] = "start"]
        /\ UNCHANGED <<bound, now, ctl, nodes, ledger, intent, net, cont, starts>>
    BY DEF Start
  <1> HIDE DEF i
  <1>6. i \in Ids
    BY <1>2 DEF i
  <1>7. /\ agent' \in [Nodes -> Agents] /\ agent'[n].pass = p /\ agent'[n].overdue = agent[n].overdue
        /\ \A m \in Nodes \ {n} : agent'[m] = agent[m]
    <2> DEFINE a == [agent[n] EXCEPT !.pass = p]
    <2>0. agent[n] \in Agents
      BY Zenon, <1>1 DEF Types
    <2>1. a \in Agents /\ a.pass = p /\ a.overdue = agent[n].overdue
      BY <2>0 DEF Agents
    <2>2. agent' = [agent EXCEPT ![n] = a]
      BY <1>1, <1>3 DEF Types
    <2> HIDE DEF a
    <2> QED  BY Zenon, <1>1, <2>1, <2>2 DEF Types
  <1>8. /\ docker' \in [Nodes -> [Ids -> {"idle", "create", "start"}]] /\ docker'[n][i] = "start"
        /\ \A m \in Nodes \ {n} : docker'[m] = docker[m]
        /\ \A j \in Ids \ {i} : docker'[n][j] = docker[n][j]
    BY Zenon, <1>1, <1>5, <1>6 DEF Types
  <1>9. Types'
    BY Zenon, <1>1, <1>5, <1>7, <1>8 DEF Types
  <1>10. ASSUME NEW j \in Ids PROVE HostFine(n, j)'
    <2>1. HostFine(n, j)
      BY DEF JobInv
    <2>2. CASE j = i
      BY Zenon, <1>4, <1>5, <1>8, <2>1, <2>2 DEF HostFine, HostGood, Was
    <2>3. CASE j # i
      BY Zenon, <1>5, <1>8, <2>1, <2>3 DEF HostFine, HostGood, Was
    <2> QED  BY <2>2, <2>3
  <1>11. AgentFine(n, agent[n])'
    <2>1. PassGood(p, ledger'[n].claimed, starts'[n], docker'[n])
      BY <1>3 DEF PassGood
    <2>2. \A j \in agent'[n].overdue : Was(n, j)'
      BY <1>5, <1>7 DEF JobInv, AgentFine, Was
    <2> QED  BY Zenon, <1>7, <2>1, <2>2 DEF AgentFine, PassFine
  <1>12. Mine(n)' \subseteq Mine(n) /\ \A j \in Ids : Over(n, j) => Over(n, j)'
    BY <1>5 DEF Mine, Over
  <1> QED  BY Zenon, <1>5, <1>7, <1>8, <1>9, <1>10, <1>11, <1>12, HostStep

\* Removals and the deadline loop record an intent to stop for containers that
\* were seen to run.
LEMMA IntentKeeps ==
  ASSUME JobInv, NEW n \in Nodes, NEW a \in Agents,
         intent' \in [Nodes -> [Ids -> {"none", "timeout", "cancelled"}]],
         \A m \in Nodes \ {n} : intent'[m] = intent[m],
         \A i \in Ids : intent'[n][i] # "none" => Was(n, i),
         cont' \in [Nodes -> [Ids -> Boxes]], \A m \in Nodes \ {n} : cont'[m] = cont[m],
         \A i \in Ids : cont'[n][i] = NoContainer \/ cont'[n][i] = cont[n][i],
         agent' = [agent EXCEPT ![n] = a],
         a.overdue \subseteq agent[n].overdue, a.pass.pc \in {"idle", "assign"} \/ a.pass = agent[n].pass,
         UNCHANGED <<bound, now, ctl, nodes, ledger, net, docker, starts>>
  PROVE  JobInv'
  <1>1. Types
    BY Zenon DEF JobInv
  <1>4. agent' \in [Nodes -> Agents] /\ agent'[n] = a /\ \A m \in Nodes \ {n} : agent'[m] = agent[m]
    BY Zenon, <1>1 DEF Types
  <1>5. Types'
    BY Zenon, <1>1, <1>4 DEF Types
  <1>6. ASSUME NEW i \in Ids PROVE HostFine(n, i)' /\ (Over(n, i) => Over(n, i)')
    <2>1. HostFine(n, i) /\ NoContainer.state = "none"
      BY Zenon DEF JobInv, NoContainer
    <2>2. cont'[n][i].state = "none" \/ cont'[n][i].state = cont[n][i].state
      BY Zenon, <2>1
    <2>3. intent'[n][i] # "none" => Was(n, i)
      OBVIOUS
    <2> QED  BY Zenon, <2>1, <2>2, <2>3 DEF HostFine, HostGood, Over, Was
  <1>7. AgentFine(n, agent[n])'
    <2>1. AgentFine(n, agent[n])
      BY Zenon DEF JobInv
    <2>2. (\A i \in a.overdue : Was(n, i)')
      BY Zenon, <2>1 DEF AgentFine, Was
    <2>3. PassFine(n, a.pass)
      BY Zenon, <2>1 DEF AgentFine, PassFine, PassGood
    <2> QED  BY Zenon, <1>4, <2>2, <2>3 DEF AgentFine, PassFine, PassGood, Was
  <1>8. Mine(n)' \subseteq Mine(n)
    BY DEF Mine
  <1>9. \A m \in Nodes \ {n} : ledger'[m] = ledger[m] /\ docker'[m] = docker[m] /\ starts'[m] = starts[m]
    OBVIOUS
  <1> QED  BY Zenon, <1>4, <1>5, <1>6, <1>7, <1>8, <1>9, HostStep

\* The intents a stop of some containers leaves.
LEMMA IntentFacts ==
  ASSUME JobInv, NEW n \in Nodes, NEW stop, \A i \in stop : Was(n, i), NEW reason \in {"timeout", "cancelled"},
         intent' = [intent EXCEPT ![n] = [i \in Ids |->
                       IF i \in stop THEN StopIntent(intent[n][i], reason) ELSE intent[n][i]]]
  PROVE  /\ intent' \in [Nodes -> [Ids -> {"none", "timeout", "cancelled"}]]
         /\ \A m \in Nodes \ {n} : intent'[m] = intent[m]
         /\ \A i \in Ids : intent'[n][i] # "none" => Was(n, i)
  <1>1. intent \in [Nodes -> [Ids -> {"none", "timeout", "cancelled"}]]
    BY DEF JobInv, Types
  <1>2. \A i \in Ids : intent[n][i] # "none" => Was(n, i)
    <2>1. \A i \in Ids : HostFine(n, i)
      BY Zenon DEF JobInv
    <2> QED  BY Zenon, <2>1 DEF HostFine, HostGood, Was
  <1> QED  BY <1>1, <1>2 DEF StopIntent

\* The removals of a pass: a claim outlives its container.
LEMMA CommitKeeps == ASSUME JobInv, NEW n \in Nodes, CommitRemovals(n) PROVE JobInv'
  <1> DEFINE p == agent[n].pass
             stop == {r.id : r \in p.input.remove} \cap Running(p.existing)
             drop == {i \in DOMAIN p.existing \ stop : \E r \in p.input.remove : r.id = i /\ ~r.retain}
             todo == {a \in p.input.assign : a.id \notin DOMAIN p.existing}
             q == [pc |-> "assign", failed |-> {}, todo |-> todo]
             s == agent[n].stopping \cup stop
             a == [agent[n] EXCEPT !.stopping = s, !.pass = q]
  <1>1. /\ Types /\ agent \in [Nodes -> Agents] /\ agent[n] \in Agents /\ p \in Passes /\ p.pc = "prepared"
        /\ intent \in [Nodes -> [Ids -> {"none", "timeout", "cancelled"}]] /\ cont \in [Nodes -> [Ids -> Boxes]]
    BY DEF JobInv, Types, Agents, CommitRemovals
  <1>2. p.input \in Inputs /\ p.existing \in Listings /\ DOMAIN p.existing \subseteq Ids
    BY Zenon, <1>1, PassKinds, Maps
  <1>3. stop \subseteq Ids /\ \A i \in stop : Was(n, i)
    <2>1. PassFine(n, p)
      BY Zenon DEF JobInv, AgentFine
    <2> QED  BY <1>1, <1>2, <2>1 DEF Running, PassFine, PassGood, Was
  <1>4. todo \subseteq Assigns
    BY Zenon, <1>2 DEF Inputs
  <1>5. /\ intent' = [intent EXCEPT ![n] = [i \in Ids |->
                        IF i \in stop THEN StopIntent(intent[n][i], "cancelled") ELSE intent[n][i]]]
        /\ cont' = [cont EXCEPT ![n] = [i \in Ids |-> IF i \in drop THEN NoContainer ELSE cont[n][i]]]
        /\ agent' = [agent EXCEPT ![n].stopping = @ \cup stop, ![n].pass = q]
        /\ UNCHANGED <<bound, now, ctl, nodes, ledger, net, docker, starts>>
    BY Zenon, <1>1 DEF CommitRemovals
  <1> HIDE DEF stop, drop, todo
  <1>6. q \in Passes /\ q.pc = "assign"
    BY <1>4 DEF Passes, Between
  <1> HIDE DEF q
  <1>7. s \subseteq Ids
    BY <1>1, <1>3 DEF Agents
  <1>8. agent' = [agent EXCEPT ![n] = a]
    BY Zenon, <1>1, <1>5
  <1> HIDE DEF s
  <1>9. a \in Agents /\ a.pass = q /\ a.overdue = agent[n].overdue
    BY Zenon, <1>1, <1>6, <1>7 DEF Agents
  <1> HIDE DEF a
  <1>10. /\ intent' \in [Nodes -> [Ids -> {"none", "timeout", "cancelled"}]]
         /\ \A m \in Nodes \ {n} : intent'[m] = intent[m]
         /\ \A i \in Ids : intent'[n][i] # "none" => Was(n, i)
    BY Zenon, <1>3, <1>5, IntentFacts
  <1>11. /\ cont' \in [Nodes -> [Ids -> Boxes]] /\ \A m \in Nodes \ {n} : cont'[m] = cont[m]
         /\ \A i \in Ids : cont'[n][i] = NoContainer \/ cont'[n][i] = cont[n][i]
    <2>1. NoContainer \in Boxes
      BY DEF NoContainer, Boxes
    <2> QED  BY <1>1, <1>5, <2>1
  <1> QED  BY Zenon, <1>5, <1>6, <1>8, <1>9, <1>10, <1>11, IntentKeeps

\* The deadline loop stops a container that was started, and says why.
LEMMA DeadlineKeeps == ASSUME JobInv, NEW n \in Nodes, DeadlineStop(n) PROVE JobInv'
  <1> DEFINE stop == agent[n].overdue
             s == agent[n].stopping \cup stop
             a == [agent[n] EXCEPT !.overdue = {}, !.stopping = s]
  <1>1. /\ Types /\ agent \in [Nodes -> Agents] /\ agent[n] \in Agents
        /\ intent \in [Nodes -> [Ids -> {"none", "timeout", "cancelled"}]] /\ cont \in [Nodes -> [Ids -> Boxes]]
    BY DEF JobInv, Types
  <1>2. stop \subseteq Ids /\ \A i \in stop : Was(n, i)
    BY <1>1 DEF Agents, JobInv, AgentFine
  <1>3. /\ intent' = [intent EXCEPT ![n] = [i \in Ids |->
                        IF i \in stop THEN StopIntent(intent[n][i], "timeout") ELSE intent[n][i]]]
        /\ UNCHANGED <<bound, now, ctl, nodes, ledger, net, docker, starts>> /\ cont' = cont
    BY <1>1 DEF DeadlineStop
  <1>4. /\ intent' \in [Nodes -> [Ids -> {"none", "timeout", "cancelled"}]]
        /\ \A m \in Nodes \ {n} : intent'[m] = intent[m]
        /\ \A i \in Ids : intent'[n][i] # "none" => Was(n, i)
    BY Zenon, <1>2, <1>3, IntentFacts
  <1>5. s \subseteq Ids
    BY <1>1, <1>2 DEF Agents
  <1>6. agent' = [agent EXCEPT ![n] = a]
    BY Zenon, <1>1 DEF DeadlineStop
  <1> HIDE DEF s
  <1>7. a \in Agents /\ a.pass = agent[n].pass /\ a.overdue = {}
    BY Zenon, <1>1, <1>5 DEF Agents
  <1> HIDE DEF a
  <1> QED  BY Zenon, <1>1, <1>3, <1>4, <1>6, <1>7, IntentKeeps

\* The Agent restarts with its ledger; requests to the daemon may still be open.
LEMMA RestartAgentKeeps == ASSUME JobInv, NEW n \in Nodes, RestartAgent(n) PROVE JobInv'
  <1>1. Types /\ ledger \in [Nodes -> Rows] /\ agent \in [Nodes -> Agents]
    BY DEF JobInv, Types
  <1>2. NewAgent \in Agents /\ NewAgent.overdue = {} /\ NewAgent.pass = Idle
    BY Zenon DEF NewAgent, Agents, NoInput, Inputs, Passes
  <1>3. /\ agent' = [agent EXCEPT ![n] = NewAgent] /\ ledger' = [ledger EXCEPT ![n].authorized = {}]
        /\ UNCHANGED <<bound, now, ctl, nodes, intent, net, cont, docker, starts>>
    BY DEF RestartAgent
  <1>4. agent' \in [Nodes -> Agents] /\ agent'[n] = NewAgent /\ \A m \in Nodes \ {n} : agent'[m] = agent[m]
    BY <1>1, <1>2, <1>3
  <1>5. /\ ledger' \in [Nodes -> Rows] /\ \A m \in Nodes \ {n} : ledger'[m] = ledger[m]
        /\ ledger'[n].authorized = {} /\ ledger'[n].claimed = ledger[n].claimed
    BY <1>1, <1>3 DEF Rows
  <1>6. Types'
    BY <1>1, <1>3, <1>4, <1>5 DEF Types
  <1>7. AgentFine(n, agent[n])'
    BY <1>2, <1>4 DEF AgentFine, PassFine, PassGood, Idle
  <1>8. \A i \in Ids : HostFine(n, i)'
    <2> SUFFICES ASSUME NEW i \in Ids PROVE HostFine(n, i)'
      BY Zenon
    <2>1. HostFine(n, i)
      BY Zenon DEF JobInv
    <2> QED  BY SMTT(30), <1>3, <1>5, <2>1 DEF HostFine
  <1>9. Mine(n)' \subseteq Mine(n) /\ \A i \in Ids : Over(n, i) => Over(n, i)'
    BY <1>3, <1>5 DEF Mine, Over
  <1> QED  BY Zenon, <1>3, <1>4, <1>5, <1>6, <1>7, <1>8, <1>9, HostStep

-----------------------------------------------------------------------------
\* Every step preserves the invariant.
LEMMA NextJobInv == JobInv /\ [Next]_vars => JobInv'
  <1> SUFFICES ASSUME JobInv, [Next]_vars PROVE JobInv'
    OBVIOUS
  <1>1. CASE UNCHANGED vars
    <2>1. /\ now \in Int /\ nodes \in [live : SUBSET Nodes, known : SUBSET Nodes]
          /\ net \in [Nodes -> {Silent} \cup Messages] /\ \A n \in Nodes : MessageFine(n, net[n])
          /\ Good(ctl) /\ CtlFine(ctl) /\ HomeFine(ctl)
      BY GoodNow DEF JobInv, Types
    <2>2. UNCHANGED <<bound, now, ctl, nodes, ledger, intent, agent, net, cont, docker, starts>>
      BY <1>1 DEF vars
    <2> QED  BY <2>1, <2>2, ControllerStep
  <1>2. CASE Clock \/ ClockBack \/ \E n \in Nodes : NodeTimesOut(n)
    BY <1>2, WorldKeeps
  <1>3. CASE Tick
    BY <1>3, TickKeeps
  <1>4. CASE Deploy
    BY <1>4, DeployKeeps
  <1>5. CASE RunJob
    BY <1>5, RunJobKeeps
  <1>6. CASE RestartController
    BY <1>6, RestartControllerKeeps
  <1>7. CASE \E i \in Ids : CancelJob(i)
    BY <1>7, CancelKeeps
  <1>8. ASSUME NEW n \in bound.reachable,
               \/ SendHeartbeat(n) \/ SendHeartbeatWithoutInventory(n)
               \/ Lose(n) \/ HandleHeartbeat(n) \/ HeartbeatCommitFails(n)
               \/ Pass(n) \/ PrepareFails(n) \/ DeadlineScan(n) \/ DeadlineStop(n) \/ RestartAgent(n)
               \/ \E i \in Ids : Daemon(n, i) \/ StopFails(n, i) \/ DaemonFails(n, i) \/ Disappear(n, i) \/ Exit(n, i)
        PROVE  JobInv'
    <2>1. n \in Nodes
      BY Zenon, JobsAssumption DEF JobInv, Types
    <2>2. CASE Lose(n) \/ HeartbeatCommitFails(n)
      BY Zenon, <2>1, <2>2, WorldKeeps
    <2>3. CASE SendHeartbeat(n) \/ SendHeartbeatWithoutInventory(n)
      BY <2>1, <2>3, SendKeeps
    <2>4. CASE HandleHeartbeat(n)
      BY <2>1, <2>4, HandleKeeps
    <2>5. CASE Prepare(n) \/ PrepareFails(n)
      BY <2>1, <2>5, PrepareKeeps
    <2>6. CASE CommitRemovals(n)
      BY <2>1, <2>6, CommitKeeps
    <2>7. CASE EndPass(n) \/ DeadlineScan(n) \/ \E i \in Ids : StopFails(n, i)
      BY <2>1, <2>7, EndKeeps
    <2>8. ASSUME NEW x \in Todo(n), CreateTask(n, x) \/ Created(n, x) \/ Started(n, x) \/ GiveUp(n, x) PROVE JobInv'
      BY <2>1, <2>8, CreateKeeps
    <2>9. ASSUME NEW x \in Todo(n), Claim(n, x) PROVE JobInv'
      BY <2>1, <2>9, ClaimKeeps
    <2>10. ASSUME NEW x \in Todo(n), Start(n, x) PROVE JobInv'
      BY Zenon, <2>1, <2>10, StartKeeps
    <2>11. CASE DeadlineStop(n)
      BY <2>1, <2>11, DeadlineKeeps
    <2>12. CASE RestartAgent(n)
      BY <2>1, <2>12, RestartAgentKeeps
    <2>13. ASSUME NEW i \in Ids, DaemonCreate(n, i) PROVE JobInv'
      BY <2>1, <2>13, DaemonCreateKeeps
    <2>14. ASSUME NEW i \in Ids, DaemonStart(n, i) PROVE JobInv'
      BY <2>1, <2>14, DaemonStartKeeps
    <2>15. ASSUME NEW i \in Ids, StopDone(n, i) \/ DaemonFails(n, i) \/ Exit(n, i) \/ Disappear(n, i) PROVE JobInv'
      BY <2>1, <2>15, HostKeeps
    <2> QED  BY Zenon, <1>8, <2>2, <2>3, <2>4, <2>5, <2>6, <2>7, <2>8, <2>9, <2>10, <2>11, <2>12, <2>13, <2>14, <2>15
             DEF Pass, Daemon
  <1> QED  BY Zenon, <1>1, <1>2, <1>3, <1>4, <1>5, <1>6, <1>7, <1>8 DEF Next

\* The invariant holds throughout.
LEMMA SpecJobInv == Spec => []JobInv
  BY InitJobInv, NextJobInv, PTL DEF Spec

\* claim_job, create_task, jobs::reconcile, skip_missed: whatever fails, restarts,
\* is lost, deployed or done to the clock, an occurrence of the schedule makes at
\* most one execution, and the container of an execution is started at most once,
\* on one node; for any nodes, schedules, executions and number of events.
THEOREM OnceForAll == Spec => []ExecutedOnce
  <1>1. JobInv => ExecutedOnce
    <2> SUFFICES ASSUME JobInv PROVE ExecutedOnce
      OBVIOUS
    <2>1. ASSUME NEW i \in Ids, NEW n \in Nodes PROVE starts[n][i] \in {0, 1} /\ (starts[n][i] = 1 => i \in Mine(n))
      BY DEF JobInv, HostFine, HostGood, Mine
    <2>2. AtMostOneStart
      BY <2>1 DEF AtMostOneStart, JobInv, HomeFine
    <2>3. OccurrenceOnce
      <3>1. ctl.fired \in Seq(Int) /\ \A j, k \in DOMAIN ctl.fired : j < k => ctl.fired[j] < ctl.fired[k]
        BY DEF JobInv, Types, Ctls, CursorFine
      <3>2. \A j, k \in DOMAIN ctl.fired : ctl.fired[j] = ctl.fired[k] => j = k
        <4> SUFFICES ASSUME NEW j \in DOMAIN ctl.fired, NEW k \in DOMAIN ctl.fired, ctl.fired[j] = ctl.fired[k]
                     PROVE  j = k
          BY Zenon
        <4>1. j \in Int /\ k \in Int /\ ctl.fired[j] \in Int
          BY SMTT(30), <3>1
        <4> QED  BY SMTT(30), <3>1, <4>1
      <3> QED  BY <3>2 DEF OccurrenceOnce, IsInjective
    <2> QED  BY <2>2, <2>3 DEF ExecutedOnce
  <1> QED  BY <1>1, SpecJobInv, PTL

\* run_job: an execution the Controller takes for finished does not run and can
\* no longer be started, although heartbeats are delayed, containers disappear
\* and requests to the daemon outlive the pass that made them.
THEOREM FinishedForGood == Spec => []FinishedIsOver
  <1>1. JobInv => FinishedIsOver
    <2> SUFFICES ASSUME JobInv, NEW i \in DOMAIN ctl.tasks, is_job_terminal(ctl.tasks[i].observed)
                 PROVE  /\ cont[ctl.tasks[i].node][i].state \notin {"created", "running"}
                        /\ docker[ctl.tasks[i].node][i] = "idle"
      BY DEF FinishedIsOver
    <2> DEFINE n == ctl.tasks[i].node
    <2> SUFFICES cont[n][i].state \notin {"created", "running"} /\ docker[n][i] = "idle"
      OBVIOUS
    <2>1. n \in Nodes /\ i \in Ids
      BY Maps DEF JobInv, Types, Ctls, Executions
    <2>2. Over(n, i) /\ HostFine(n, i)
      BY Zenon, <2>1 DEF JobInv, CtlFine
    <2>3. docker[n][i] \in {"idle", "create", "start"}
      BY <2>1 DEF JobInv, Types
    <2> HIDE DEF n
    <2>4. starts[n][i] = 1 /\ cont[n][i].state # "running"
      BY Zenon, <2>2 DEF Over
    <2> QED  BY SMTT(30), <2>2, <2>3, <2>4 DEF HostFine, HostGood
  <1> QED  BY <1>1, SpecJobInv, PTL

=============================================================================
