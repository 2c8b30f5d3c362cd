------------------------ MODULE JobsController_proofs ------------------------
(***************************************************************************)
(* The invariant of Jobs, and that it holds at the start and is preserved  *)
(* by the Controller.                                                      *)
(*                                                                         *)
(* On a host, the claim in the ledger is what everything follows from: it  *)
(* is made once, before the one create request, so that a container that   *)
(* was started, once, can be neither created nor started again (HostFine). *)
(* A node claims only what it was authorized to, that is, what was         *)
(* assigned to it, and an execution keeps its node (HomeFine).  Evidence   *)
(* that an execution is finished, in an inventory or at the Controller, is *)
(* a container that was started and has stopped (Over).  Occurrences are   *)
(* consumed in increasing order: the cursor moves past what was triggered  *)
(* whatever the clock does (CursorFine).                                   *)
(***************************************************************************)
EXTENDS Jobs, TLAPS

Words == {"none", "pending", "unknown", "running", "finished", "cancelled", "timedout"}
Executions == [node : Nodes, desired : {"running", "stopped"}, observed : Words, seen : BOOLEAN,
               runtime : Words, scheduled : Int, notBefore : Int, deadline : Int, cron : BOOLEAN]
TaskMaps == UNION {[D -> Executions] : D \in SUBSET Ids}
Listings == UNION {[D -> Words] : D \in SUBSET Ids}
Services == [schedule : Schedules \cup {Manual}, suspend : BOOLEAN, deleted : BOOLEAN]
Cursors == [schedule : Schedules \cup {Manual}, last : Int, next : Int]
Ctls == [service : Services, cursor : Cursors, tasks : TaskMaps, used : Nat, fired : Seq(Int)]

Assigns == [id : Ids, runtime : Words, notBefore : Int, deadline : Int]
Inputs == [assign : SUBSET Assigns, remove : SUBSET [id : Ids, retain : BOOLEAN]]
Prepared == [pc : {"prepared"}, input : Inputs, existing : Listings]
Between == [pc : {"assign"}, todo : SUBSET Assigns, failed : SUBSET Ids]
Within == [pc : {"pulling", "creating", "starting", "started"}, current : Assigns,
           todo : SUBSET Assigns, failed : SUBSET Ids]
Passes == {Idle} \cup Prepared \cup Between \cup Within
Agents == [input : Inputs, dirty : BOOLEAN, results : SUBSET Ids, pass : Passes,
           overdue : SUBSET Ids, stopping : SUBSET Ids]
Messages == [inventory : Listings, error : BOOLEAN, failed : SUBSET Ids]
Rows == [authorized : SUBSET Ids, claimed : SUBSET Ids]
Boxes == [state : {"none", "created", "running", "exited"}, started : Int]

Types ==
    /\ bound \in Bounds /\ now \in Int
    /\ ctl \in Ctls /\ nodes \in [live : SUBSET Nodes, known : SUBSET Nodes]
    /\ ledger \in [Nodes -> Rows]
    /\ intent \in [Nodes -> [Ids -> {"none", "timeout", "cancelled"}]]
    /\ agent \in [Nodes -> Agents]
    /\ net \in [Nodes -> {Silent} \cup Messages]
    /\ cont \in [Nodes -> [Ids -> Boxes]]
    /\ docker \in [Nodes -> [Ids -> {"idle", "create", "start"}]]
    /\ starts \in [Nodes -> [Ids -> Nat]]

\* A container was started: it is not again.
Was(n, i) == starts[n][i] = 1
Over(n, i) == starts[n][i] = 1 /\ cont[n][i].state # "running"

\* Of execution i: whether the ledger has its claim, how often it was started, its
\* container, the request that is open at the daemon, and the reason to stop it.
HostGood(i, claimed, count, state, asked, why) ==
    /\ count \in {0, 1}
    /\ i \notin claimed => count = 0 /\ state = "none" /\ asked = "idle"
    /\ asked = "create" => count = 0 /\ state = "none"
    /\ asked = "start" => count = 0
    /\ state = "created" => count = 0
    /\ state \in {"running", "exited"} => count = 1
    /\ why # "none" => count = 1
HostFine(n, i) ==
    HostGood(i, ledger[n].claimed, starts[n][i], cont[n][i].state, docker[n][i], intent[n][i])

PassGood(p, claimed, count, asked) ==
    /\ p.pc = "prepared" =>
          \A i \in DOMAIN p.existing : p.existing[i] = "running" => count[i] = 1
    /\ p.pc = "creating" => /\ p.current.id \in claimed
                            /\ count[p.current.id] = 0 /\ asked[p.current.id] # "start"
    /\ p.pc = "starting" => /\ p.current.id \in claimed
                            /\ count[p.current.id] = 0 /\ asked[p.current.id] = "idle"
PassFine(n, p) == PassGood(p, ledger[n].claimed, starts[n], docker[n])

AgentFine(n, a) == (\A i \in a.overdue : Was(n, i)) /\ PassFine(n, a.pass)

MessageFine(n, m) ==
    m # Silent => \A i \in DOMAIN m.inventory : is_job_terminal(m.inventory[i]) => Over(n, i)

CtlFine(c) ==
    /\ c.used <= MaxTasks /\ DOMAIN c.tasks \subseteq 1..c.used
    /\ \A i \in DOMAIN c.tasks : is_job_terminal(c.tasks[i].observed) => Over(c.tasks[i].node, i)

\* What a node was ever allowed to start is its own.
Mine(n) == ledger[n].authorized \cup ledger[n].claimed
HomeFine(c) ==
    /\ \A n \in Nodes : \A i \in Mine(n) :
          i <= c.used /\ (i \in DOMAIN c.tasks => c.tasks[i].node = n)
    /\ \A n, m \in Nodes : n # m => Mine(n) \cap Mine(m) = {}

CursorFine(c) ==
    /\ c.cursor.last < c.cursor.next
    /\ \A k \in DOMAIN c.fired : c.fired[k] <= c.cursor.last
    /\ \A j, k \in DOMAIN c.fired : j < k => c.fired[j] < c.fired[k]

JobInv ==
    /\ Types
    /\ \A n \in Nodes : /\ AgentFine(n, agent[n]) /\ MessageFine(n, net[n])
                        /\ \A i \in Ids : HostFine(n, i)
    /\ CtlFine(ctl) /\ CursorFine(ctl) /\ HomeFine(ctl)

-----------------------------------------------------------------------------
(* The operators the Controller's state is built with *)

\* The later of two times, as the cursor takes it, is not before either.
LEMMA Larger ==
  ASSUME NEW a \in Int, NEW b \in Int
  PROVE  Max({a, b}) \in Int /\ Max({a, b}) >= a /\ Max({a, b}) >= b
  <1>1. \E x \in {a, b} : \A y \in {a, b} : x >= y
    OBVIOUS
  <1> QED  BY <1>1 DEF Max

\* The earlier of two or three times is a time.
LEMMA Smallest ==
  ASSUME NEW a \in Int, NEW b \in Int
  PROVE  Min({a, b}) \in Int /\ \A c \in Int : Min({a, b, c}) \in Int
  <1>1. \E x \in {a, b} : \A y \in {a, b} : x <= y
    OBVIOUS
  <1>2. \A c \in Int : \E x \in {a, b, c} : \A y \in {a, b, c} : x <= y
    OBVIOUS
  <1>3. Min({a, b}) \in Int
    BY <1>1 DEF Min
  <1>4. ASSUME NEW c \in Int PROVE Min({a, b, c}) \in Int
    BY <1>2 DEF Min
  <1> QED  BY <1>3, <1>4

\* Every schedule has a positive period.
LEMMA Periods == Schedules \subseteq Nat \ {0} /\ Schedules # {} /\ \A s \in Schedules : Period[s] \in Nat \ {0}
  <1>1. Schedules = 1..Len(Period) /\ Len(Period) \in Nat \ {0}
    BY JobsAssumption DEF Schedules
  <1>2. \A s \in 1..Len(Period) : Period[s] \in Nat \ {0}
    BY JobsAssumption
  <1> QED  BY <1>1, <1>2

\* The job begins with the last of the schedules.
LEMMA LastSchedule == Max(Schedules) \in Schedules
  <1>1. Schedules = 1..Len(Period) /\ Len(Period) \in Nat \ {0}
    BY JobsAssumption DEF Schedules
  <1>2. Len(Period) \in Schedules /\ \A y \in Schedules : Len(Period) >= y
    BY <1>1
  <1> QED  BY <1>2 DEF Max

\* The next occurrence is later.
LEMMA NextAfter ==
  ASSUME NEW s \in Schedules, NEW t \in Int
  PROVE  next_after(s, t) \in Int /\ t < next_after(s, t)
  <1>1. Period[s] \in Nat \ {0}
    BY Periods
  <1> DEFINE p == Period[s]  q == t \div p
  <1>2. q \in Int /\ t < (q + 1) * p
    BY <1>1
  <1> QED  BY <1>1, <1>2 DEF next_after

\* What the maps from ids to executions, and the inventories, are made of.
LEMMA Maps ==
  /\ \A f \in TaskMaps : f \in [DOMAIN f -> Executions] /\ DOMAIN f \subseteq Ids
  /\ \A D \in SUBSET Ids : \A f \in [D -> Executions] : f \in TaskMaps
  /\ \A f \in Listings : f \in [DOMAIN f -> Words] /\ DOMAIN f \subseteq Ids
  /\ \A D \in SUBSET Ids : \A f \in [D -> Words] : f \in Listings
  BY DEF TaskMaps, Listings

\* A well-formed state of the Controller, and one that comes of another without
\* evidence of its own: executions keep their nodes, and new ones have new numbers.
Good(c) == c \in Ctls /\ CursorFine(c) /\ c.used <= MaxTasks /\ DOMAIN c.tasks \subseteq 1..c.used

Follows(c, d) ==
    /\ c.used <= d.used
    /\ \A i \in DOMAIN d.tasks :
          \/ /\ i \in DOMAIN c.tasks /\ d.tasks[i].node = c.tasks[i].node
             /\ is_job_terminal(d.tasks[i].observed) => is_job_terminal(c.tasks[i].observed)
          \/ i > c.used /\ ~is_job_terminal(d.tasks[i].observed)

\* What one part of a reconciliation keeps, and the next does, both keep.
LEMMA FollowsTwice ==
  ASSUME NEW c, NEW d, NEW e, Good(c), Good(d), Good(e), Follows(c, d), Follows(d, e)
  PROVE  Follows(c, e)
  <1>1. c.used \in Nat /\ d.used \in Nat /\ e.used \in Nat
    BY DEF Good, Ctls
  <1>2. DOMAIN e.tasks \subseteq Nat /\ DOMAIN d.tasks \subseteq Nat
    BY <1>1 DEF Good
  <1> QED  BY <1>1, <1>2 DEF Follows

\* Doing nothing keeps everything.
LEMMA FollowsItself == ASSUME NEW c, Good(c) PROVE Follows(c, c)
  BY DEF Good, Ctls, Follows

\* A change of the executions one by one, that finishes none.
LEMMA TasksFacts ==
  ASSUME NEW c, Good(c), NEW ts, ts \in [DOMAIN c.tasks -> Executions],
         \A i \in DOMAIN c.tasks :
            /\ ts[i].node = c.tasks[i].node
            /\ is_job_terminal(ts[i].observed) => is_job_terminal(c.tasks[i].observed)
  PROVE  LET d == [c EXCEPT !.tasks = ts]
         IN  Good(d) /\ Follows(c, d) /\ d.service = c.service /\ d.cursor = c.cursor /\ d.used = c.used
  <1> DEFINE d == [c EXCEPT !.tasks = ts]
  <1>1. c \in Ctls /\ c.tasks \in TaskMaps
    BY DEF Good, Ctls
  <1>2. ts \in TaskMaps
    BY Zenon, <1>1, Maps
  <1>3. d \in Ctls /\ d.tasks = ts /\ d.service = c.service /\ d.cursor = c.cursor /\ d.used = c.used /\ d.fired = c.fired
    BY <1>1, <1>2 DEF Ctls
  <1>4. DOMAIN d.tasks = DOMAIN c.tasks
    BY <1>3
  <1> HIDE DEF d
  <1>5. Good(d)
    BY <1>3, <1>4 DEF Good, CursorFine
  <1>6. Follows(c, d)
    BY <1>3, <1>4, <1>1 DEF Follows, Ctls
  <1> QED  BY <1>3, <1>5, <1>6 DEF d

\* Executions that are late are to stop, and those on silent nodes unknown: none is finished by that.
LEMMA ExpiredFacts ==
  ASSUME NEW c, Good(c), NEW live
  PROVE  LET d == Expired(c, live)
         IN  Good(d) /\ Follows(c, d) /\ d.service = c.service /\ d.cursor = c.cursor /\ d.used = c.used
  <1> DEFINE Change(t) ==
        LET late == now >= t.deadline /\ t.observed \in {"pending", "unknown"}
        IN  [t EXCEPT !.desired = IF c.service.deleted \/ late THEN "stopped" ELSE @,
                      !.observed = IF t.node \notin live /\ ~is_job_terminal(@)
                                   THEN "unknown" ELSE @]
             ts == [i \in DOMAIN c.tasks |-> Change(c.tasks[i])]
  <1>1. \A i \in DOMAIN c.tasks : c.tasks[i] \in Executions
    BY Maps DEF Good, Ctls
  <1>2. \A t \in Executions : /\ Change(t) \in Executions /\ Change(t).node = t.node
                              /\ is_job_terminal(Change(t).observed) => is_job_terminal(t.observed)
    <2> SUFFICES ASSUME NEW t \in Executions
                 PROVE  /\ Change(t) \in Executions /\ Change(t).node = t.node
                        /\ is_job_terminal(Change(t).observed) => is_job_terminal(t.observed)
      BY Zenon
    <2> DEFINE want == IF c.service.deleted \/ (now >= t.deadline /\ t.observed \in {"pending", "unknown"})
                       THEN "stopped" ELSE t.desired
               said == IF t.node \notin live /\ ~is_job_terminal(t.observed) THEN "unknown" ELSE t.observed
    <2>1. want \in {"running", "stopped"} /\ said \in Words
      BY DEF Executions, Words
    <2>2. is_job_terminal(said) => is_job_terminal(t.observed)
      BY DEF is_job_terminal
    <2>3. Change(t) = [t EXCEPT !.desired = want, !.observed = said]
      BY DEF Executions
    <2> HIDE DEF want, said, Change
    <2>4. Change(t) \in Executions
      BY Zenon, <2>1, <2>3 DEF Executions
    <2>5. Change(t).node = t.node /\ Change(t).observed = said
      BY <2>3 DEF Executions
    <2> QED  BY Zenon, <2>2, <2>4, <2>5
  <1>3. Expired(c, live) = [c EXCEPT !.tasks = ts]
    BY DEF Expired, Good, Ctls
  <1> HIDE DEF Change
  <1>4. ts \in [DOMAIN c.tasks -> Executions]
    BY <1>1, <1>2
  <1>5. \A i \in DOMAIN c.tasks :
            /\ ts[i].node = c.tasks[i].node
            /\ is_job_terminal(ts[i].observed) => is_job_terminal(c.tasks[i].observed)
    BY <1>1, <1>2
  <1> HIDE DEF ts
  <1> QED  BY <1>3, <1>4, <1>5, TasksFacts

\* A change of the cursor that stays beyond the last occurrence.
LEMMA CursorFacts ==
  ASSUME NEW c, Good(c), NEW u \in Cursors, c.cursor.last <= u.last, u.last < u.next
  PROVE  LET d == [c EXCEPT !.cursor = u]
         IN  /\ Good(d) /\ Follows(c, d) /\ d.service = c.service /\ d.cursor = u
             /\ d.used = c.used /\ d.tasks = c.tasks /\ d.fired = c.fired
  <1> DEFINE d == [c EXCEPT !.cursor = u]
  <1>1. c \in Ctls /\ c.cursor.last \in Int /\ u.last \in Int
    BY DEF Good, Ctls, Cursors
  <1>2. /\ d \in Ctls /\ d.tasks = c.tasks /\ d.service = c.service /\ d.cursor = u
        /\ d.used = c.used /\ d.fired = c.fired
    BY Zenon, <1>1 DEF Ctls
  <1> HIDE DEF d
  <1>3. \A k \in DOMAIN c.fired : c.fired[k] \in Int
    BY <1>1 DEF Ctls
  <1>4. CursorFine(d)
    BY <1>1, <1>2, <1>3 DEF Good, CursorFine
  <1>5. Good(d)
    BY <1>2, <1>4 DEF Good
  <1>6. Follows(c, d)
    BY <1>1, <1>2 DEF Follows, Ctls
  <1> QED  BY <1>2, <1>5, <1>6 DEF d

\* The cursor moves beyond the last occurrence, also if the clock was set back.
LEMMA MovedCursorFacts ==
  ASSUME NEW c, Good(c), Scheduled(c), now \in Int
  PROVE  Good(MovedCursor(c)) /\ Follows(c, MovedCursor(c))
  <1>1. c.service.schedule \in Schedules /\ c.cursor.last \in Int /\ c.cursor.next \in Int /\ c \in Ctls
    BY DEF Good, Ctls, Cursors, Services, Scheduled
  <1> DEFINE base == Max({now, c.cursor.last})
             next == next_after(c.service.schedule, base)
             later == IF c.cursor.schedule # c.service.schedule THEN next ELSE Max({next, c.cursor.next})
             u == [schedule |-> c.service.schedule, last |-> c.cursor.last, next |-> later]
  <1>2. base \in Int /\ base >= c.cursor.last
    BY Zenon, <1>1, Larger
  <1> HIDE DEF base
  <1>3. next \in Int /\ base < next
    BY <1>1, <1>2, NextAfter
  <1> HIDE DEF next
  <1>4. later \in Int /\ c.cursor.last < later
    <2>1. Max({next, c.cursor.next}) \in Int /\ Max({next, c.cursor.next}) >= next
      BY Zenon, <1>1, <1>3, Larger
    <2>2. c.cursor.last < next
      BY <1>1, <1>2, <1>3
    <2> QED  BY <1>1, <1>3, <2>1, <2>2
  <1>5. MovedCursor(c) = [c EXCEPT !.cursor = u]
    BY <1>1 DEF MovedCursor, base, next, Ctls
  <1> HIDE DEF later
  <1>6. u \in Cursors /\ u.last = c.cursor.last /\ u.next = later
    BY <1>1, <1>4 DEF Cursors
  <1> HIDE DEF u
  <1> QED  BY <1>1, <1>4, <1>5, <1>6, CursorFacts

\* A new execution gets the next number.
LEMMA AddedFacts ==
  ASSUME NEW c, Good(c), c.used < MaxTasks, NEW e \in Executions, ~is_job_terminal(e.observed),
         e.cron => e.scheduled = c.cursor.last /\ \A k \in DOMAIN c.fired : c.fired[k] < c.cursor.last
  PROVE  Good(Added(c, e)) /\ Follows(c, Added(c, e))
  <1> DEFINE id == c.used + 1
             ts == [i \in DOMAIN c.tasks \cup {id} |-> IF i = id THEN e ELSE c.tasks[i]]
             fs == IF e.cron THEN Append(c.fired, e.scheduled) ELSE c.fired
             d == [c EXCEPT !.used = id, !.tasks = ts, !.fired = fs]
  <1>1. /\ c \in Ctls /\ c.used \in Nat /\ c.tasks \in TaskMaps /\ c.fired \in Seq(Int)
        /\ DOMAIN c.tasks \subseteq 1..c.used /\ c.cursor.last \in Int
    BY DEF Good, Ctls, Cursors
  <1>2. id \in Ids /\ id \in Nat /\ id \notin DOMAIN c.tasks /\ id <= MaxTasks /\ c.used < id
    BY <1>1, JobsAssumption DEF Ids
  <1>3. c.tasks \in [DOMAIN c.tasks -> Executions] /\ DOMAIN c.tasks \subseteq Ids
    BY <1>1, Maps
  <1>4. ts \in [DOMAIN c.tasks \cup {id} -> Executions]
    BY <1>3
  <1>5. ts \in TaskMaps
    BY <1>2, <1>3, <1>4, Maps
  <1>6. e.scheduled \in Int /\ e.cron \in BOOLEAN
    BY DEF Executions
  <1>7. /\ fs \in Seq(Int)
        /\ \A k \in DOMAIN fs : fs[k] <= c.cursor.last
        /\ \A j, k \in DOMAIN fs : j < k => fs[j] < fs[k]
    <2>1. CASE e.cron
      <3>1. fs = Append(c.fired, e.scheduled) /\ Len(c.fired) \in Nat /\ DOMAIN c.fired = 1..Len(c.fired)
        BY <1>1, <2>1
      <3>2. /\ fs \in Seq(Int) /\ DOMAIN fs = 1..(Len(c.fired) + 1) /\ fs[Len(c.fired) + 1] = c.cursor.last
            /\ \A k \in 1..Len(c.fired) : fs[k] = c.fired[k] /\ fs[k] \in Int
        BY <1>1, <1>6, <2>1, <3>1
      <3> HIDE DEF fs
      <3>3. \A k \in DOMAIN fs : k \in 1..Len(c.fired) \/ k = Len(c.fired) + 1
        BY <3>1, <3>2
      <3>4. \A k \in DOMAIN fs : fs[k] <= c.cursor.last
        BY <1>1, <2>1, <3>1, <3>2, <3>3
      <3>5. ASSUME NEW j \in DOMAIN fs, NEW k \in DOMAIN fs, j < k PROVE fs[j] < fs[k]
        <4>1. j \in 1..Len(c.fired)
          BY <3>1, <3>2, <3>5
        <4> QED  BY <2>1, <3>1, <3>2, <3>3, <3>5, <4>1 DEF Good, CursorFine
      <3> QED  BY <3>2, <3>4, <3>5
    <2>2. CASE ~e.cron
      BY <1>1, <2>2 DEF Good, CursorFine
    <2> QED  BY Zenon, <2>1, <2>2
  <1>8. Added(c, e) = d
    BY <1>1 DEF Added, Ctls
  <1>9. DOMAIN ts = DOMAIN c.tasks \cup {id} /\ ts[id] = e /\ \A i \in DOMAIN c.tasks : ts[i] = c.tasks[i]
    BY <1>2
  <1> HIDE DEF ts, fs, id
  <1>10. /\ d \in Ctls /\ d.used = id /\ d.tasks = ts /\ d.fired = fs /\ d.cursor = c.cursor
    BY Zenon, <1>1, <1>2, <1>5, <1>7 DEF Ctls
  <1> HIDE DEF d
  <1>11. DOMAIN d.tasks \subseteq 1..d.used
    BY <1>1, <1>2, <1>9, <1>10
  <1>12. Good(d)
    BY <1>2, <1>7, <1>10, <1>11 DEF Good, CursorFine
  <1>13. Follows(c, d)
    BY <1>1, <1>2, <1>9, <1>10 DEF Follows
  <1> QED  BY <1>8, <1>12, <1>13

\* Stopping every execution finishes none and moves none.
LEMMA StopAllFacts ==
  ASSUME NEW c, Good(c)
  PROVE  LET d == [c EXCEPT !.tasks = StopAll(c.tasks)]
         IN  Good(d) /\ Follows(c, d) /\ d.service = c.service /\ d.cursor = c.cursor /\ d.used = c.used /\ d.fired = c.fired
  <1> DEFINE ts == StopAll(c.tasks)
  <1>1. \A i \in DOMAIN c.tasks : c.tasks[i] \in Executions
    BY Maps DEF Good, Ctls
  <1>2. \A t \in Executions : LET s == [t EXCEPT !.desired = "stopped"]
                              IN  s \in Executions /\ s.node = t.node /\ s.observed = t.observed
    BY DEF Executions
  <1>3. ts \in [DOMAIN c.tasks -> Executions]
    BY <1>1, <1>2 DEF StopAll
  <1>4. \A i \in DOMAIN c.tasks :
            /\ ts[i].node = c.tasks[i].node
            /\ is_job_terminal(ts[i].observed) => is_job_terminal(c.tasks[i].observed)
    BY <1>1, <1>2 DEF StopAll
  <1>5. [c EXCEPT !.tasks = ts].fired = c.fired
    BY DEF Good, Ctls
  <1> HIDE DEF ts
  <1> QED  BY <1>3, <1>4, <1>5, TasksFacts DEF ts

\* A due occurrence is triggered at most once: the cursor is beyond what was.
LEMMA OccurrenceFacts ==
  ASSUME NEW c, Good(c), Due(c), c.used < MaxTasks, now \in Int, NEW eligible, eligible \subseteq Nodes, NEW node
  PROVE  Good(Occurrence(c, eligible, node)) /\ Follows(c, Occurrence(c, eligible, node))
  <1>1. /\ c.service.schedule \in Schedules /\ c.cursor.last \in Int /\ c.cursor.next \in Int
        /\ c \in Ctls /\ c.cursor \in Cursors /\ c.cursor.next <= now /\ c.cursor.last < c.cursor.next
    BY DEF Good, Ctls, Cursors, Services, Scheduled, Due, CursorFine
  <1> DEFINE next == next_after(c.service.schedule, now)
             u == [c.cursor EXCEPT !.next = next, !.last = c.cursor.next]
             consumed == [c EXCEPT !.cursor = u]
             stopped == [consumed EXCEPT !.tasks = StopAll(consumed.tasks)]
             wait == NotBefore(c, next)
             e == Execution(node, c.cursor.next, wait, next, TRUE)
  <1>2. next \in Int /\ now < next
    BY <1>1, NextAfter
  <1> HIDE DEF next
  <1>3. u \in Cursors /\ u.last = c.cursor.next /\ u.next = next
    BY Zenon, <1>1, <1>2 DEF Cursors
  <1> HIDE DEF u
  <1>4. /\ Good(consumed) /\ Follows(c, consumed) /\ consumed.cursor = u /\ consumed.used = c.used
        /\ consumed.tasks = c.tasks /\ consumed.fired = c.fired
    BY <1>1, <1>2, <1>3, CursorFacts
  <1>5. consumed = [c EXCEPT !.cursor.next = next, !.cursor.last = c.cursor.next]
    BY Zenon, <1>1 DEF u, Ctls, Cursors
  <1>6. CASE now - c.cursor.next >= Minute
    BY Zenon, <1>4, <1>5, <1>6 DEF Occurrence, next
  <1> HIDE DEF consumed
  <1>7. /\ Good(stopped) /\ Follows(consumed, stopped) /\ stopped.cursor = u /\ stopped.used = c.used
        /\ stopped.fired = c.fired
    BY <1>4, StopAllFacts
  <1> HIDE DEF stopped
  <1>8. Follows(c, stopped)
    BY <1>4, <1>7, FollowsTwice
  <1>9. CASE ~(now - c.cursor.next >= Minute) /\ node \notin eligible
    BY <1>5, <1>7, <1>8, <1>9 DEF Occurrence, next, stopped
  <1>10. CASE ~(now - c.cursor.next >= Minute) /\ node \in eligible
    <2>1. wait \in Int
      <3> DEFINE grace == IF {i \in DOMAIN c.tasks : ~is_job_terminal(c.tasks[i].observed)} = {} THEN 0 ELSE Grace
                 half == (next - now) \div 2
      <3>1. grace \in Int /\ half \in Int /\ GraceCap \in Int
        BY <1>2, JobsAssumption
      <3>2. wait = now + Min({grace, GraceCap, half})
        BY DEF NotBefore
      <3> HIDE DEF grace, half, wait
      <3>3. Min({grace, GraceCap, half}) \in Int
        BY Zenon, <3>1, Smallest
      <3> QED  BY <3>2, <3>3
    <2> HIDE DEF wait
    <2>2. e \in Executions /\ e.observed = "pending" /\ e.cron = TRUE /\ e.scheduled = c.cursor.next
      BY <1>1, <1>2, <1>10, <2>1 DEF Execution, Executions, Words
    <2> HIDE DEF e
    <2>3. \A k \in DOMAIN stopped.fired : stopped.fired[k] < stopped.cursor.last
      <3>1. \A k \in DOMAIN c.fired : c.fired[k] \in Int /\ c.fired[k] <= c.cursor.last
        BY DEF Good, Ctls, CursorFine
      <3> QED  BY <1>1, <1>3, <1>7, <3>1
    <2>4. Good(Added(stopped, e)) /\ Follows(stopped, Added(stopped, e))
      BY <1>3, <1>7, <2>2, <2>3, AddedFacts DEF is_job_terminal
    <2>5. Follows(c, Added(stopped, e))
      BY <1>7, <1>8, <2>4, FollowsTwice
    <2>6. Occurrence(c, eligible, node) = Added(stopped, e)
      BY Zenon, <1>5, <1>10 DEF Occurrence, next, stopped, e, wait
    <2> QED  BY <2>4, <2>5, <2>6
  <1> QED  BY <1>6, <1>9, <1>10

\* Retention forgets executions; those it keeps are as they were.
LEMMA TrimmedFacts ==
  ASSUME NEW c, Good(c)
  PROVE  Good(Trimmed(c)) /\ Follows(c, Trimmed(c))
  <1>1. c \in Ctls /\ c.tasks \in TaskMaps /\ c.used \in Nat
    BY DEF Good, Ctls
  <1>2. c.tasks \in [DOMAIN c.tasks -> Executions] /\ DOMAIN c.tasks \subseteq Ids
    BY <1>1, Maps
  <1>3. PICK K \in SUBSET DOMAIN c.tasks : Trimmed(c) = [c EXCEPT !.tasks = Restrict(c.tasks, K)]
    BY Zenon, <1>1 DEF Trimmed, Ctls
  <1> DEFINE ts == Restrict(c.tasks, K)
             d == [c EXCEPT !.tasks = ts]
  <1>4. ts \in [K -> Executions] /\ DOMAIN ts = K /\ \A i \in K : ts[i] = c.tasks[i]
    BY <1>2 DEF Restrict
  <1> HIDE DEF ts
  <1>5. ts \in TaskMaps
    BY <1>2, <1>4, Maps
  <1>6. d \in Ctls /\ d.tasks = ts /\ d.cursor = c.cursor /\ d.used = c.used /\ d.fired = c.fired
    BY <1>1, <1>5 DEF Ctls
  <1> HIDE DEF d
  <1>7. Good(d)
    BY <1>4, <1>6 DEF Good, CursorFine
  <1>8. Follows(c, d)
    BY <1>1, <1>4, <1>6 DEF Follows
  <1> QED  BY <1>3, <1>7, <1>8 DEF d, ts

\* A whole reconciliation of the Controller: new ids are fresh, old ones keep node and outcome.
LEMMA ReconciledFacts ==
  ASSUME NEW c, Good(c), now \in Int, bound \in Bounds, Bounded(c),
         NEW live, NEW known, live \subseteq Nodes, NEW node
  PROVE  Good(Reconciled(c, live, known, node)) /\ Follows(c, Reconciled(c, live, known, node))
  <1> DEFINE e == Expired(c, live)
             d == IF ~Scheduled(e) THEN e
                  ELSE IF e.cursor.schedule # e.service.schedule \/ e.service.suspend
                  THEN MovedCursor(e)
                  ELSE IF Due(e) THEN Occurrence(e, live \cap known, node)
                  ELSE e
  <1>1. Good(e) /\ Follows(c, e) /\ e.service = c.service /\ e.cursor = c.cursor /\ e.used = c.used
    BY ExpiredFacts
  <1>2. Reconciled(c, live, known, node) = Trimmed(d)
    BY DEF Reconciled
  <1> HIDE DEF e
  <1>3. Good(d) /\ Follows(e, d)
    <2>1. Follows(e, e)
      BY <1>1, FollowsItself
    <2>2. ASSUME Scheduled(e) PROVE Good(MovedCursor(e)) /\ Follows(e, MovedCursor(e))
      BY <1>1, <2>2, MovedCursorFacts
    <2>3. ASSUME Due(e) PROVE /\ Good(Occurrence(e, live \cap known, node))
                              /\ Follows(e, Occurrence(e, live \cap known, node))
      <3>1. Due(c)
        BY <1>1, <2>3 DEF Due, Scheduled
      <3>2. c.used < bound.tasks /\ bound.tasks \in 0..MaxTasks /\ c.used \in Nat
        BY <3>1, JobsAssumption DEF Bounded, Good, Ctls
      <3>3. e.used < MaxTasks
        BY <1>1, <3>2, JobsAssumption
      <3>4. live \cap known \subseteq Nodes
        OBVIOUS
      <3> QED  BY <1>1, <2>3, <3>3, <3>4, OccurrenceFacts
    <2> QED  BY <1>1, <2>1, <2>2, <2>3
  <1> HIDE DEF d
  <1>4. Good(Trimmed(d)) /\ Follows(d, Trimmed(d))
    BY <1>3, TrimmedFacts
  <1>5. Follows(c, d)
    BY <1>1, <1>3, FollowsTwice
  <1>6. Follows(c, Trimmed(d))
    BY <1>3, <1>4, <1>5, FollowsTwice
  <1> QED  BY <1>2, <1>4, <1>6

\* What follows a state with true evidence has it too.
LEMMA FollowedFacts ==
  ASSUME Types, NEW c, NEW d, Good(c), Good(d), Follows(c, d), CtlFine(c), HomeFine(c)
  PROVE  CtlFine(d) /\ HomeFine(d)
  <1>1. CtlFine(d)
    BY DEF CtlFine, Follows, Good
  <1>2. \A n \in Nodes : Mine(n) \subseteq Ids
    BY DEF Types, Rows, Mine
  <1>3. c.used \in Nat /\ d.used \in Nat /\ Ids \subseteq Nat
    BY DEF Good, Ctls, Ids
  <1>4. ASSUME NEW n \in Nodes, NEW i \in Mine(n)
        PROVE  i <= d.used /\ (i \in DOMAIN d.tasks => d.tasks[i].node = n)
    <2>1. i \in Nat /\ i <= c.used /\ (i \in DOMAIN c.tasks => c.tasks[i].node = n)
      BY Zenon, <1>2, <1>3 DEF HomeFine
    <2> QED  BY <1>3, <2>1 DEF Follows
  <1>5. HomeFine(d)
    BY <1>4 DEF HomeFine
  <1> QED  BY <1>1, <1>5

\* The invariant implies what the reconciliation needs.
LEMMA GoodNow == JobInv => Good(ctl)
  BY DEF JobInv, Types, CtlFine, Good

-----------------------------------------------------------------------------
(* Steps of the Controller leave the hosts alone, and steps on a host the      *)
(* others and the Controller.                                                  *)

\* A step that changes the Controller and messages only.
LEMMA ControllerStep ==
  ASSUME JobInv, UNCHANGED <<bound, ledger, intent, agent, cont, docker, starts>>,
         now' \in Int, nodes' \in [live : SUBSET Nodes, known : SUBSET Nodes],
         net' \in [Nodes -> {Silent} \cup Messages], \A n \in Nodes : MessageFine(n, net'[n]),
         Good(ctl'), CtlFine(ctl'), HomeFine(ctl')
  PROVE  JobInv'
  <1>1. Types'
    BY DEF JobInv, Types, Good
  <1>2. \A n \in Nodes : AgentFine(n, agent[n])'
    BY DEF JobInv, AgentFine, PassFine, Was
  <1>3. \A n \in Nodes : MessageFine(n, net[n])'
    BY DEF MessageFine, Over
  <1>4. \A n \in Nodes, i \in Ids : HostFine(n, i)'
    BY DEF JobInv, HostFine, Was
  <1>5. CtlFine(ctl)' /\ CursorFine(ctl)'
    BY DEF CtlFine, Over, Good, CursorFine
  <1>6. HomeFine(ctl)'
    BY DEF HomeFine, Mine
  <1> QED  BY Zenon, <1>1, <1>2, <1>3, <1>4, <1>5, <1>6 DEF JobInv

\* A step of one host: the others, and what the Controller knows of them, are as they were.
LEMMA HostStep ==
  ASSUME JobInv, NEW n \in Nodes, UNCHANGED <<bound, now, ctl, nodes, net>>, Types',
         \A m \in Nodes \ {n} : /\ agent'[m] = agent[m] /\ ledger'[m] = ledger[m]
                                /\ intent'[m] = intent[m] /\ cont'[m] = cont[m]
                                /\ docker'[m] = docker[m] /\ starts'[m] = starts[m],
         Mine(n)' \subseteq Mine(n), AgentFine(n, agent[n])',
         \A i \in Ids : HostFine(n, i)',
         \A i \in Ids : Over(n, i) => Over(n, i)'
  PROVE  JobInv'
  <1>1. \A m \in Nodes : AgentFine(m, agent[m])'
    <2> SUFFICES ASSUME NEW m \in Nodes \ {n} PROVE AgentFine(m, agent[m])'
      OBVIOUS
    <2>1. AgentFine(m, agent[m])
      BY DEF JobInv
    <2>2. /\ agent'[m] = agent[m] /\ ledger'[m] = ledger[m]
          /\ docker'[m] = docker[m] /\ starts'[m] = starts[m]
      OBVIOUS
    <2>3. PassFine(m, agent[m].pass)'
      BY Zenon, <2>1, <2>2 DEF AgentFine, PassFine
    <2>4. \A i \in agent'[m].overdue : Was(m, i)'
      BY Zenon, <2>1, <2>2 DEF AgentFine, Was
    <2> QED  BY Zenon, <2>3, <2>4 DEF AgentFine
  <1>2. \A m \in Nodes, i \in Ids : HostFine(m, i)'
    <2> SUFFICES ASSUME NEW m \in Nodes \ {n}, NEW i \in Ids PROVE HostFine(m, i)'
      OBVIOUS
    <2> QED  BY DEF JobInv, HostFine, Was
  <1>3. \A m \in Nodes, i \in Ids : Over(m, i) => Over(m, i)'
    <2> SUFFICES ASSUME NEW m \in Nodes \ {n}, NEW i \in Ids PROVE Over(m, i) => Over(m, i)'
      OBVIOUS
    <2> QED  BY DEF Over
  <1>4. \A m \in Nodes : MessageFine(m, net[m])'
    <2> SUFFICES ASSUME NEW m \in Nodes, net[m] # Silent, NEW i \in DOMAIN net[m].inventory,
                        is_job_terminal(net[m].inventory[i])
                 PROVE  Over(m, i)'
      BY DEF MessageFine, is_job_terminal
    <2>1. i \in Ids
      BY Maps DEF JobInv, Types, Messages
    <2>2. Over(m, i)
      BY DEF JobInv, MessageFine
    <2> QED  BY <1>3, <2>1, <2>2
  <1>5. CtlFine(ctl)'
    <2> SUFFICES ASSUME NEW i \in DOMAIN ctl.tasks, is_job_terminal(ctl.tasks[i].observed)
                 PROVE  Over(ctl.tasks[i].node, i)'
      BY DEF JobInv, CtlFine, is_job_terminal
    <2>1. i \in Ids /\ ctl.tasks[i] \in Executions
      BY Maps DEF JobInv, Types, Ctls
    <2>2. Over(ctl.tasks[i].node, i) /\ ctl.tasks[i].node \in Nodes
      BY Zenon, <2>1 DEF JobInv, CtlFine, Executions
    <2> QED  BY Zenon, <1>3, <2>1, <2>2
  <1>6. CursorFine(ctl)'
    BY Zenon DEF JobInv, CursorFine
  <1>7. HomeFine(ctl)'
    <2>1. \A m \in Nodes : Mine(m)' \subseteq Mine(m)
      BY DEF Mine
    <2> QED  BY Zenon, <2>1 DEF JobInv, HomeFine
  <1> QED  BY <1>1, <1>2, <1>4, <1>5, <1>6, <1>7 DEF JobInv

\* A step of an Agent that changes nothing but what the Agent remembers.
LEMMA AgentStep ==
  ASSUME JobInv, NEW n \in Nodes, NEW a \in Agents, agent' = [agent EXCEPT ![n] = a],
         UNCHANGED <<bound, now, ctl, nodes, ledger, intent, net, cont, docker, starts>>,
         AgentFine(n, a)
  PROVE  JobInv'
  <1>1. Types'
    BY DEF JobInv, Types
  <1>2. agent'[n] = a /\ \A m \in Nodes \ {n} : agent'[m] = agent[m]
    BY DEF JobInv, Types
  <1>3. AgentFine(n, agent[n])'
    BY <1>2 DEF AgentFine, PassFine, Was
  <1>4. \A i \in Ids : HostFine(n, i)'
    BY DEF JobInv, HostFine, Was
  <1>5. \A i \in Ids : Over(n, i) => Over(n, i)'
    BY DEF Over
  <1>6. Mine(n)' \subseteq Mine(n)
    BY DEF Mine
  <1> QED  BY <1>1, <1>2, <1>3, <1>4, <1>5, <1>6, HostStep

-----------------------------------------------------------------------------
\* At the start nothing was triggered, claimed or started.
LEMMA InitJobInv == Init => JobInv
  <1> SUFFICES ASSUME Init PROVE JobInv
    BY Zenon
  <1>1. ctl = [service |-> [schedule |-> Max(Schedules), suspend |-> FALSE, deleted |-> FALSE],
               cursor |-> NoCursor, tasks |-> <<>>, used |-> 0, fired |-> <<>>]
    BY Zenon DEF Init
  <1>2. bound \in Bounds /\ now = 0 /\ nodes = [live |-> Nodes, known |-> Nodes]
    BY Zenon DEF Init
  <1>3. /\ ledger = [n \in Nodes |-> [authorized |-> {}, claimed |-> {}]]
        /\ cont = [n \in Nodes |-> [i \in Ids |-> NoContainer]]
    BY Zenon DEF Init
  <1>4. agent = [n \in Nodes |-> NewAgent] /\ net = [n \in Nodes |-> Silent]
    BY Zenon DEF Init
  <1>5. /\ intent = [n \in Nodes |-> [i \in Ids |-> "none"]]
        /\ docker = [n \in Nodes |-> [i \in Ids |-> "idle"]]
        /\ starts = [n \in Nodes |-> [i \in Ids |-> 0]]
    BY Zenon DEF Init
  <1>6. \A n \in Nodes : ledger[n].claimed = {} /\ ledger[n].authorized = {}
    BY Zenon, <1>3
  <1>7. ctl \in Ctls
    <2>1. ctl.service \in Services
      BY Zenon, <1>1, LastSchedule DEF Services
    <2>2. ctl.cursor \in Cursors
      BY <1>1 DEF Cursors, NoCursor, Never
    <2>3. ctl.tasks \in TaskMaps
      <3>1. <<>> \in [{} -> Executions]
        BY SMT
      <3> QED  BY Zenon, <1>1, <3>1, Maps
    <2>4. ctl.used \in Nat /\ ctl.fired \in Seq(Int)
      BY <1>1
    <2> QED  BY Zenon, <1>1, <2>1, <2>2, <2>3, <2>4 DEF Ctls
  <1>8. NewAgent \in Agents /\ NewAgent.overdue = {} /\ NewAgent.pass = Idle
    BY Zenon DEF NewAgent, Agents, NoInput, Inputs, Passes
  <1>9. ledger \in [Nodes -> Rows] /\ cont \in [Nodes -> [Ids -> Boxes]]
    BY <1>3 DEF Rows, Boxes, NoContainer
  <1>10. Types
    BY <1>2, <1>4, <1>5, <1>7, <1>8, <1>9 DEF Types
  <1>11. \A n \in Nodes : AgentFine(n, agent[n])
    BY <1>4, <1>8 DEF AgentFine, PassFine, PassGood, Idle
  <1>12. \A n \in Nodes : MessageFine(n, net[n])
    BY Zenon, <1>4 DEF MessageFine
  <1>13. \A n \in Nodes, j \in Ids : HostFine(n, j)
    BY Zenon, <1>3, <1>5, <1>6 DEF HostFine, HostGood, NoContainer
  <1>14. CtlFine(ctl)
    BY <1>1, <1>2, JobsAssumption DEF CtlFine
  <1>15. CursorFine(ctl)
    BY <1>1 DEF CursorFine, NoCursor, Never
  <1>16. HomeFine(ctl)
    BY Zenon, <1>6 DEF HomeFine, Mine
  <1> QED
    BY Zenon, <1>10, <1>11, <1>12, <1>13, <1>14, <1>15, <1>16 DEF JobInv

\* Each step of the Controller, and of the messages it gets, keeps the invariant.
LEMMA ReconcileStep ==
  ASSUME JobInv, UNCHANGED <<bound, now, nodes, ledger, intent, agent, net, cont, docker, starts>>,
         NEW c, Good(c), CtlFine(c), HomeFine(c), Bounded(c), NEW n,
         ctl' = Reconciled(c, nodes.live, nodes.known, n)
  PROVE  JobInv'
  <1>1. Types /\ now \in Int /\ bound \in Bounds /\ nodes.live \subseteq Nodes
    <2>1. Types
      BY Zenon DEF JobInv
    <2> QED  BY <2>1 DEF Types
  <1>2. Good(ctl') /\ Follows(c, ctl')
    BY <1>1, ReconciledFacts
  <1>3. CtlFine(ctl') /\ HomeFine(ctl')
    BY Zenon, <1>1, <1>2, FollowedFacts
  <1> QED  BY Zenon, <1>1, <1>2, <1>3, ControllerStep DEF JobInv, Types

\* tick: the Controller reconciles and commits.
LEMMA TickKeeps == ASSUME JobInv, Tick PROVE JobInv'
  BY Zenon, GoodNow, ReconcileStep DEF Tick, JobInv

\* The Stack is deployed with another schedule, suspended or without the job.
LEMMA DeployKeeps == ASSUME JobInv, Deploy PROVE JobInv'
  <1>1. PICK service \in Services, n \in Candidates(nodes.live \cap nodes.known) :
           /\ Bounded([ctl EXCEPT !.service = service])
           /\ ctl' = Reconciled([ctl EXCEPT !.service = service], nodes.live, nodes.known, n)
    BY Zenon DEF Deploy, Services
  <1> DEFINE c == [ctl EXCEPT !.service = service]
  <1>2. /\ c \in Ctls /\ c.cursor = ctl.cursor /\ c.tasks = ctl.tasks
        /\ c.used = ctl.used /\ c.fired = ctl.fired
    BY GoodNow DEF Good, Ctls
  <1>3. Bounded(c) /\ ctl' = Reconciled(c, nodes.live, nodes.known, n)
    BY <1>1
  <1> HIDE DEF c
  <1>4. Good(c) /\ CtlFine(c) /\ HomeFine(c)
    BY Zenon, <1>2, GoodNow DEF Good, CtlFine, HomeFine, CursorFine, JobInv
  <1> QED  BY <1>3, <1>4, ReconcileStep DEF Deploy

\* An execution is asked for by hand.
LEMMA RunJobKeeps == ASSUME JobInv, RunJob PROVE JobInv'
  <1>1. PICK n \in nodes.live \cap nodes.known :
           ctl' = Added(ctl, Execution(n, now, now, IF ctl.service.schedule = Manual THEN now + Window
                       ELSE Min({next_after(ctl.service.schedule, now), now + Window}), FALSE))
    BY Zenon DEF RunJob
  <1> DEFINE until == IF ctl.service.schedule = Manual THEN now + Window
                      ELSE Min({next_after(ctl.service.schedule, now), now + Window})
             e == Execution(n, now, now, until, FALSE)
  <1>2. /\ Types /\ now \in Int /\ n \in Nodes /\ bound.tasks \in 0..MaxTasks /\ Window \in Int /\ ctl \in Ctls
        /\ ctl.used \in Nat /\ MaxTasks \in Nat
    BY JobsAssumption DEF JobInv, Types, Ctls
  <1>3. until \in Int
    <2>1. CASE ctl.service.schedule = Manual
      BY <1>2, <2>1
    <2>2. CASE ctl.service.schedule # Manual
      <3>1. next_after(ctl.service.schedule, now) \in Int
        BY <1>2, <2>2, NextAfter DEF Ctls, Services
      <3>2. now + Window \in Int
        BY <1>2
      <3>3. Min({next_after(ctl.service.schedule, now), now + Window}) \in Int
        BY <3>1, <3>2, Smallest
      <3> QED  BY <2>2, <3>3
    <2> QED  BY <2>1, <2>2
  <1>4. ctl' = Added(ctl, e)
    BY <1>1
  <1> HIDE DEF until
  <1>5. e \in Executions /\ e.observed = "pending" /\ e.cron = FALSE
    BY Zenon, <1>2, <1>3 DEF Execution, Executions, Words
  <1> HIDE DEF e
  <1>6. ctl.used < MaxTasks
    BY <1>2 DEF RunJob
  <1>7. Good(ctl') /\ Follows(ctl, ctl')
    BY Zenon, <1>4, <1>5, <1>6, GoodNow, AddedFacts DEF is_job_terminal
  <1>8. CtlFine(ctl') /\ HomeFine(ctl')
    BY <1>2, <1>7, GoodNow, FollowedFacts DEF JobInv
  <1> QED  BY Zenon, <1>2, <1>7, <1>8, ControllerStep DEF RunJob, JobInv, Types

\* A change of the executions one by one.
LEMMA TasksStep ==
  ASSUME JobInv, NEW ts, ts \in [DOMAIN ctl.tasks -> Executions],
         \A i \in DOMAIN ctl.tasks :
            /\ ts[i].node = ctl.tasks[i].node
            /\ is_job_terminal(ts[i].observed) => is_job_terminal(ctl.tasks[i].observed)
  PROVE  LET d == [ctl EXCEPT !.tasks = ts]
         IN  Good(d) /\ CtlFine(d) /\ HomeFine(d) /\ d.service = ctl.service /\ d.cursor = ctl.cursor
  <1> DEFINE d == [ctl EXCEPT !.tasks = ts]
  <1>1. Good(d) /\ Follows(ctl, d) /\ d.service = ctl.service /\ d.cursor = ctl.cursor
    BY Zenon, GoodNow, TasksFacts
  <1> HIDE DEF d
  <1>2. CtlFine(d) /\ HomeFine(d)
    BY <1>1, GoodNow, FollowedFacts DEF JobInv
  <1> QED  BY <1>1, <1>2 DEF d

\* An execution is cancelled.
LEMMA CancelKeeps == ASSUME JobInv, NEW k \in Ids, CancelJob(k) PROVE JobInv'
  <1> DEFINE ts == [ctl.tasks EXCEPT ![k].desired = "stopped"]
  <1>1. ctl.tasks \in [DOMAIN ctl.tasks -> Executions] /\ ctl \in Ctls /\ k \in DOMAIN ctl.tasks
    BY Maps DEF JobInv, Types, Ctls, CancelJob
  <1>2. ctl.tasks[k] \in Executions
    BY <1>1
  <1> DEFINE t == [ctl.tasks[k] EXCEPT !.desired = "stopped"]
  <1>3. t \in Executions /\ t.node = ctl.tasks[k].node /\ t.observed = ctl.tasks[k].observed
    BY <1>2 DEF Executions
  <1>4. ts = [ctl.tasks EXCEPT ![k] = t]
    OBVIOUS
  <1> HIDE DEF t
  <1>5. /\ ts \in [DOMAIN ctl.tasks -> Executions]
        /\ \A i \in DOMAIN ctl.tasks : ts[i].node = ctl.tasks[i].node /\ ts[i].observed = ctl.tasks[i].observed
    BY <1>1, <1>3, <1>4
  <1>6. ctl' = [ctl EXCEPT !.tasks = ts]
    BY <1>1 DEF CancelJob, Ctls
  <1> HIDE DEF ts
  <1>7. Good(ctl') /\ CtlFine(ctl') /\ HomeFine(ctl')
    BY Zenon, <1>5, <1>6, TasksStep
  <1> QED  BY <1>7, ControllerStep DEF CancelJob, JobInv, Types

\* The Controller restarts and knows what it stored.
LEMMA RestartControllerKeeps == ASSUME JobInv, RestartController PROVE JobInv'
  <1> DEFINE ts == [i \in DOMAIN ctl.tasks |-> [ctl.tasks[i] EXCEPT !.seen = FALSE]]
             c == [ctl EXCEPT !.tasks = ts]
  <1>1. ctl.tasks \in [DOMAIN ctl.tasks -> Executions] /\ ctl \in Ctls
    BY Maps DEF JobInv, Types, Ctls
  <1>2. \A t \in Executions : LET s == [t EXCEPT !.seen = FALSE]
                              IN  s \in Executions /\ s.node = t.node /\ s.observed = t.observed
    BY Zenon DEF Executions
  <1>3. /\ ts \in [DOMAIN ctl.tasks -> Executions]
        /\ \A i \in DOMAIN ctl.tasks : ts[i].node = ctl.tasks[i].node /\ ts[i].observed = ctl.tasks[i].observed
    BY <1>1, <1>2
  <1>4. ctl' = SkipMissed(c)
    BY <1>1 DEF RestartController, Ctls
  <1> HIDE DEF ts
  <1>5. Good(c) /\ CtlFine(c) /\ HomeFine(c)
    BY <1>3, TasksStep
  <1> HIDE DEF c
  <1>6. Good(ctl') /\ Follows(c, ctl')
    <2>1. CASE c.service.schedule # Manual /\ c.cursor # NoCursor /\ c.cursor.next <= now
      <3> DEFINE next == next_after(c.service.schedule, now)
                 u == [c.cursor EXCEPT !.next = next]
      <3>1. /\ c \in Ctls /\ c.cursor \in Cursors /\ c.cursor.last \in Int /\ c.cursor.next \in Int
            /\ c.cursor.last < c.cursor.next /\ c.service.schedule \in Schedules /\ now \in Int
        BY Zenon, <1>5, <2>1 DEF Good, CursorFine, Ctls, Cursors, Services, JobInv, Types
      <3>2. next \in Int /\ now < next
        BY <3>1, NextAfter
      <3>3. SkipMissed(c) = [c EXCEPT !.cursor = u]
        BY <2>1, <3>1 DEF SkipMissed, Ctls
      <3> HIDE DEF next
      <3>4. u \in Cursors /\ u.last = c.cursor.last /\ u.next = next
        BY <3>1, <3>2 DEF Cursors
      <3> HIDE DEF u
      <3> QED  BY <1>4, <1>5, <2>1, <3>1, <3>2, <3>3, <3>4, CursorFacts
    <2>2. CASE ~(c.service.schedule # Manual /\ c.cursor # NoCursor /\ c.cursor.next <= now)
      BY Zenon, <1>4, <1>5, <2>2, FollowsItself DEF SkipMissed
    <2> QED  BY <2>1, <2>2
  <1>7. CtlFine(ctl') /\ HomeFine(ctl')
    BY <1>5, <1>6, FollowedFacts DEF JobInv
  <1>8. /\ nodes' \in [live : SUBSET Nodes, known : SUBSET Nodes]
        /\ net' \in [Nodes -> {Silent} \cup Messages] /\ \A n \in Nodes : MessageFine(n, net'[n])
    BY <1>1 DEF RestartController, MessageFine, Executions
  <1> QED  BY <1>6, <1>7, <1>8, ControllerStep DEF RestartController, JobInv, Types

\* The clock moves, a node times out, a message is lost or does not get through.
LEMMA WorldKeeps ==
  ASSUME JobInv, \/ Clock \/ ClockBack
                 \/ \E n \in Nodes : NodeTimesOut(n) \/ Lose(n) \/ HeartbeatCommitFails(n)
  PROVE  JobInv'
  <1>1. /\ now \in Int /\ nodes \in [live : SUBSET Nodes, known : SUBSET Nodes]
        /\ net \in [Nodes -> {Silent} \cup Messages] /\ \A n \in Nodes : MessageFine(n, net[n])
        /\ Good(ctl) /\ CtlFine(ctl) /\ HomeFine(ctl)
    BY GoodNow DEF JobInv, Types
  <1>2. CASE Clock
    BY <1>1, <1>2, ControllerStep DEF Clock
  <1>3. CASE ClockBack
    BY <1>1, <1>3, ControllerStep DEF ClockBack
  <1>4. ASSUME NEW n \in Nodes, NodeTimesOut(n) PROVE JobInv'
    BY <1>1, <1>4, ControllerStep DEF NodeTimesOut
  <1>5. ASSUME NEW n \in Nodes, Lose(n) \/ HeartbeatCommitFails(n) PROVE JobInv'
    <2>1. /\ net' \in [Nodes -> {Silent} \cup Messages] /\ \A m \in Nodes : net'[m] \in {net[m], Silent}
          /\ nodes' \in [live : SUBSET Nodes, known : SUBSET Nodes]
      BY <1>1, <1>5 DEF Lose, HeartbeatCommitFails
    <2>2. \A m \in Nodes : MessageFine(m, net'[m])
      BY <1>1, <2>1 DEF MessageFine
    <2> QED  BY <1>1, <1>5, <2>1, <2>2, ControllerStep DEF Lose, HeartbeatCommitFails
  <1> QED  BY Zenon, <1>2, <1>3, <1>4, <1>5

\* An inventory shows what is there: a container it takes for finished was
\* started and does not run.
LEMMA InventoryFacts ==
  ASSUME JobInv, NEW n \in Nodes
  PROVE  /\ Inventory(n) \in Listings
         /\ \A i \in DOMAIN Inventory(n) :
               /\ Inventory(n)[i] = "running" => Was(n, i)
               /\ is_job_terminal(Inventory(n)[i]) => Over(n, i)
  <1>1. Present(n) \subseteq Ids /\ DOMAIN Inventory(n) = Present(n)
    BY Zenon DEF Present, Inventory
  <1>2. ASSUME NEW i \in Present(n)
        PROVE  /\ Observed(n, i) \in Words
               /\ Observed(n, i) = "running" => Was(n, i)
               /\ is_job_terminal(Observed(n, i)) => Over(n, i)
    <2>1. /\ cont[n][i].state \in {"created", "running", "exited"}
          /\ intent[n][i] \in {"none", "timeout", "cancelled"} /\ HostFine(n, i)
      BY <1>1 DEF JobInv, Types, Boxes, Present
    <2>2. CASE cont[n][i].state = "running"
      BY <2>1, <2>2 DEF Observed, Words, HostFine, HostGood, Was, is_job_terminal
    <2>3. CASE cont[n][i].state # "running" /\ intent[n][i] # "none"
      BY <2>1, <2>3 DEF Observed, Words, HostFine, HostGood, is_job_terminal, Over, Was
    <2>4. CASE cont[n][i].state = "created" /\ intent[n][i] = "none"
      BY <2>1, <2>4 DEF Observed, Words, is_job_terminal
    <2>5. CASE cont[n][i].state = "exited" /\ intent[n][i] = "none"
      BY <2>1, <2>5 DEF Observed, Words, HostFine, HostGood, Over, Was
    <2> QED  BY <2>1, <2>2, <2>3, <2>4, <2>5
  <1>3. Inventory(n) \in [Present(n) -> Words] /\ \A i \in Present(n) : Inventory(n)[i] = Observed(n, i)
    BY <1>2 DEF Inventory
  <1>4. Inventory(n) \in Listings
    BY Zenon, <1>1, <1>3, Maps
  <1> QED  BY <1>1, <1>2, <1>3, <1>4

\* An inventory that is sent calls finished what was started and has stopped.
LEMMA SendKeeps ==
  ASSUME JobInv, NEW n \in Nodes, SendHeartbeat(n) \/ SendHeartbeatWithoutInventory(n) PROVE JobInv'
  <1>1. /\ now \in Int /\ nodes \in [live : SUBSET Nodes, known : SUBSET Nodes]
        /\ net \in [Nodes -> {Silent} \cup Messages] /\ \A m \in Nodes : MessageFine(m, net[m])
        /\ Good(ctl) /\ CtlFine(ctl) /\ HomeFine(ctl) /\ agent[n].results \subseteq Ids
    BY GoodNow DEF JobInv, Types, Agents
  <1>2. PICK v \in {Inventory(n), <<>>}, e \in BOOLEAN :
           net' = [net EXCEPT ![n] = [inventory |-> v, error |-> e, failed |-> agent[n].results]]
    BY Zenon DEF SendHeartbeat, SendHeartbeatWithoutInventory
  <1>3. v \in Listings /\ \A i \in DOMAIN v : is_job_terminal(v[i]) => Over(n, i)
    <2>1. <<>> \in [{} -> Words] /\ DOMAIN <<>> = {}
      OBVIOUS
    <2>2. <<>> \in Listings
      BY Zenon, <2>1, Maps
    <2> QED  BY <1>2, <2>1, <2>2, InventoryFacts
  <1> DEFINE msg == [inventory |-> v, error |-> e, failed |-> agent[n].results]
  <1>4. msg \in Messages /\ msg.inventory = v
    BY <1>1, <1>3 DEF Messages
  <1>5. net' = [net EXCEPT ![n] = msg]
    BY Zenon, <1>2
  <1> HIDE DEF msg
  <1>6. MessageFine(n, msg)
    BY Zenon, <1>3, <1>4 DEF MessageFine
  <1>7. net' \in [Nodes -> {Silent} \cup Messages] /\ \A m \in Nodes : MessageFine(m, net'[m])
    BY <1>1, <1>4, <1>5, <1>6
  <1> QED  BY Zenon, <1>1, <1>7, ControllerStep DEF SendHeartbeat, SendHeartbeatWithoutInventory

\* What a heartbeat says about the executions of its node.
LEMMA ReportedFacts ==
  ASSUME NEW t \in Executions, NEW i, NEW m \in Messages
  PROVE  /\ Reported(t, i, m) \in Executions /\ Reported(t, i, m).node = t.node
         /\ is_job_terminal(Reported(t, i, m).observed) =>
               is_job_terminal(t.observed) \/ (i \in DOMAIN m.inventory /\ is_job_terminal(m.inventory[i]))
  <1> DEFINE t1 == IF i \in DOMAIN m.inventory
              THEN [t EXCEPT !.runtime = m.inventory[i], !.observed = m.inventory[i], !.seen = TRUE]
              ELSE IF ~m.error /\ t.seen /\ ~is_job_terminal(t.observed)
              THEN [t EXCEPT !.observed = "unknown"]
              ELSE t
  <1>1. i \in DOMAIN m.inventory => m.inventory[i] \in Words
    BY Maps DEF Messages
  <1>2. ASSUME NEW w \in Words
        PROVE  /\ [t EXCEPT !.runtime = w, !.observed = w, !.seen = TRUE] \in Executions
               /\ [t EXCEPT !.runtime = w, !.observed = w, !.seen = TRUE].node = t.node
               /\ [t EXCEPT !.runtime = w, !.observed = w, !.seen = TRUE].observed = w
    BY Zenon DEF Executions
  <1>3. \A s \in Executions : LET u == [s EXCEPT !.observed = "unknown"]
                              IN  u \in Executions /\ u.node = s.node /\ ~is_job_terminal(u.observed)
    BY DEF Executions, Words, is_job_terminal
  <1>4. /\ t1 \in Executions /\ t1.node = t.node
        /\ is_job_terminal(t1.observed) =>
              is_job_terminal(t.observed) \/ (i \in DOMAIN m.inventory /\ is_job_terminal(m.inventory[i]))
    <2>1. CASE i \in DOMAIN m.inventory
      BY Zenon, <1>1, <1>2, <2>1
    <2>2. CASE i \notin DOMAIN m.inventory /\ ~m.error /\ t.seen /\ ~is_job_terminal(t.observed)
      BY <1>3, <2>2
    <2>3. CASE i \notin DOMAIN m.inventory /\ ~(~m.error /\ t.seen /\ ~is_job_terminal(t.observed))
      BY <2>3
    <2> QED  BY <2>1, <2>2, <2>3
  <1>5. Reported(t, i, m) = IF i \in m.failed /\ i \notin DOMAIN m.inventory /\ ~is_job_terminal(t1.observed)
                            THEN [t1 EXCEPT !.observed = "unknown"] ELSE t1
    BY DEF Reported
  <1> HIDE DEF t1
  <1> QED  BY <1>3, <1>4, <1>5

\* The Controller's state once it has observed a heartbeat.
LEMMA ObserveFacts ==
  ASSUME JobInv, NEW n \in Nodes, net[n] # Silent
  PROVE  LET c == [ctl EXCEPT !.tasks = [i \in DOMAIN ctl.tasks |->
                     IF ctl.tasks[i].node = n THEN Reported(ctl.tasks[i], i, net[n]) ELSE ctl.tasks[i]]]
         IN  Good(c) /\ CtlFine(c) /\ HomeFine(c) /\ (Bounded(ctl) => Bounded(c))
  <1> DEFINE ts == [i \in DOMAIN ctl.tasks |->
                     IF ctl.tasks[i].node = n THEN Reported(ctl.tasks[i], i, net[n]) ELSE ctl.tasks[i]]
             c == [ctl EXCEPT !.tasks = ts]
  <1>1. ctl.tasks \in [DOMAIN ctl.tasks -> Executions] /\ ctl \in Ctls /\ net[n] \in Messages /\ Good(ctl)
    BY Zenon, Maps, GoodNow DEF JobInv, Types, Ctls
  <1>2. ts \in [DOMAIN ctl.tasks -> Executions]
    BY Zenon, <1>1, ReportedFacts
  <1>3. ASSUME NEW i \in DOMAIN ctl.tasks
        PROVE  /\ ts[i].node = ctl.tasks[i].node
               /\ is_job_terminal(ts[i].observed) => Over(ts[i].node, i)
    <2>1. is_job_terminal(ctl.tasks[i].observed) => Over(ctl.tasks[i].node, i)
      BY Zenon DEF JobInv, CtlFine
    <2>2. \A j \in DOMAIN net[n].inventory : is_job_terminal(net[n].inventory[j]) => Over(n, j)
      BY DEF JobInv, MessageFine
    <2>3. ctl.tasks[i] \in Executions
      BY Zenon, <1>1
    <2>4. CASE ctl.tasks[i].node = n
      BY <1>1, <2>1, <2>2, <2>3, <2>4, ReportedFacts
    <2>5. CASE ctl.tasks[i].node # n
      BY <2>1, <2>5
    <2> QED  BY Zenon, <2>4, <2>5
  <1>4. DOMAIN ts = DOMAIN ctl.tasks /\ ts \in TaskMaps
    BY Zenon, <1>1, <1>2, Maps DEF Ctls
  <1> HIDE DEF ts
  <1>5. /\ c \in Ctls /\ c.tasks = ts /\ c.cursor = ctl.cursor /\ c.used = ctl.used /\ c.fired = ctl.fired
        /\ c.service = ctl.service
    BY Zenon, <1>1, <1>4 DEF Ctls
  <1> HIDE DEF c
  <1>6. Good(c)
    BY Zenon, <1>1, <1>4, <1>5 DEF Good, CursorFine
  <1>7. CtlFine(c)
    BY Zenon, <1>3, <1>4, <1>5 DEF CtlFine, JobInv
  <1>8. HomeFine(c)
    BY Zenon, <1>3, <1>4, <1>5 DEF HomeFine, JobInv
  <1>9. Bounded(ctl) => Bounded(c)
    BY <1>5 DEF Bounded, Due, Scheduled
  <1> QED  BY Zenon, <1>6, <1>7, <1>8, <1>9 DEF c, ts
\* The Controller assigns to a node executions of that node only.
LEMMA ResponseFacts ==
  ASSUME NEW c \in Ctls, now \in Int, NEW n \in Nodes, NEW m \in Messages
  PROVE  /\ Response(c, n, m) \in Inputs
         /\ \A i \in {x.id : x \in Response(c, n, m).assign} :
               i \in Ids /\ i \in DOMAIN c.tasks /\ c.tasks[i].node = n
  <1> DEFINE open == {i \in DOMAIN c.tasks :
                        /\ c.tasks[i].node = n /\ c.tasks[i].desired = "running"
                        /\ c.tasks[i].notBefore <= now /\ now < c.tasks[i].deadline}
             one(i) == [id |-> i, runtime |-> c.tasks[i].runtime, notBefore |-> c.tasks[i].notBefore,
                        deadline |-> c.tasks[i].deadline]
             assign == {one(i) : i \in open}
             remove == {[id |-> i, retain |-> i \in DOMAIN c.tasks /\ ~c.service.deleted] : i \in ToStop(c, n, m)}
  <1>1. c.tasks \in [DOMAIN c.tasks -> Executions] /\ DOMAIN c.tasks \subseteq Ids
    BY Maps DEF Ctls
  <1>2. DOMAIN m.inventory \subseteq Ids
    BY Maps DEF Messages
  <1>3. ToStop(c, n, m) \subseteq Ids
    BY Zenon, <1>1, <1>2 DEF ToStop
  <1>4. \A i \in open : one(i) \in Assigns /\ one(i).id = i
    BY <1>1 DEF Executions, Assigns
  <1>5. Response(c, n, m) = [assign |-> assign, remove |-> remove]
    BY Zenon DEF Response
  <1>6. assign \subseteq Assigns /\ \A x \in assign : x.id \in open
    BY <1>4
  <1>7. remove \subseteq [id : Ids, retain : BOOLEAN]
    <2> DEFINE keep(i) == i \in DOMAIN c.tasks /\ ~c.service.deleted
    <2>1. \A i : keep(i) \in BOOLEAN
      OBVIOUS
    <2>2. remove = {[id |-> i, retain |-> keep(i)] : i \in ToStop(c, n, m)}
      OBVIOUS
    <2> HIDE DEF keep, remove
    <2> QED  BY <1>3, <2>1, <2>2
  <1>8. \A i \in open : i \in Ids /\ i \in DOMAIN c.tasks /\ c.tasks[i].node = n
    BY <1>1
  <1> HIDE DEF assign, remove, open
  <1>9. Response(c, n, m) \in Inputs /\ Response(c, n, m).assign = assign
    BY <1>5, <1>6, <1>7 DEF Inputs
  <1> QED  BY <1>6, <1>8, <1>9

\* A heartbeat is handled; if the answer arrives, its authorizations replace those
\* the node had: executions of its own, as the Controller never moves one.
LEMMA HandleKeeps == ASSUME JobInv, NEW n \in Nodes, HandleHeartbeat(n) PROVE JobInv'
  <1> DEFINE m == net[n]
             live == nodes.live \cup {n}
             known == nodes.known \cup {n}
             ts == [i \in DOMAIN ctl.tasks |->
                      IF ctl.tasks[i].node = n THEN Reported(ctl.tasks[i], i, m) ELSE ctl.tasks[i]]
             c == [ctl EXCEPT !.tasks = ts]
  <1>1. /\ Types /\ now \in Int /\ bound \in Bounds /\ live \subseteq Nodes /\ known \subseteq Nodes
        /\ ctl \in Ctls /\ m \in Messages /\ net \in [Nodes -> {Silent} \cup Messages]
        /\ \A k \in Nodes : MessageFine(k, net[k])
    BY DEF JobInv, Types, HandleHeartbeat
  <1>2. /\ nodes' = [live |-> live, known |-> known] /\ net' = [net EXCEPT ![n] = Silent]
        /\ \E k : ctl' = Reconciled(c, live, known, k)
        /\ Receive(n, Response(ctl', n, m)) \/ UNCHANGED <<ledger, agent>>
        /\ UNCHANGED <<bound, now, intent, cont, docker, starts>>
        /\ net[n] # Silent /\ Bounded(ctl)
    BY Zenon, <1>1 DEF HandleHeartbeat, Ctls
  <1>3. Good(c) /\ CtlFine(c) /\ HomeFine(c) /\ Bounded(c)
    BY <1>2, ObserveFacts
  <1> HIDE DEF c
  <1>4. Good(ctl') /\ Follows(c, ctl')
    BY Zenon, <1>1, <1>2, <1>3, ReconciledFacts
  <1>5. CtlFine(ctl') /\ HomeFine(ctl')
    BY <1>1, <1>3, <1>4, FollowedFacts
  <1>6. /\ net' \in [Nodes -> {Silent} \cup Messages] /\ \A k \in Nodes : MessageFine(k, net'[k])
    BY Zenon, <1>1, <1>2 DEF MessageFine
  <1>7. nodes' \in [live : SUBSET Nodes, known : SUBSET Nodes]
    BY <1>1, <1>2
  <1>8. CASE UNCHANGED <<ledger, agent>>
    BY Zenon, <1>1, <1>2, <1>4, <1>5, <1>6, <1>7, <1>8, ControllerStep
  <1>9. CASE Receive(n, Response(ctl', n, m))
    <2> DEFINE r == Response(ctl', n, m)
               own == {x.id : x \in r.assign}
               a == [agent[n] EXCEPT !.input = r, !.dirty = @ \/ agent[n].input # r]
    <2>1. r \in Inputs /\ \A i \in own : i \in Ids /\ i \in DOMAIN ctl'.tasks /\ ctl'.tasks[i].node = n
      <3>1. ctl' \in Ctls
        BY <1>4 DEF Good
      <3> QED  BY Zenon, <1>1, <3>1, ResponseFacts
    <2> HIDE DEF r
    <2>2. /\ ledger' = [ledger EXCEPT ![n].authorized = own]
          /\ agent' = [agent EXCEPT ![n].input = r, ![n].dirty = @ \/ agent[n].input # r]
      BY <1>9 DEF Receive, r
    <2>3. agent[n] \in Agents /\ agent \in [Nodes -> Agents] /\ ledger \in [Nodes -> Rows] /\ ledger[n] \in Rows
      BY <1>1 DEF Types
    <2>4. a \in Agents /\ a.pass = agent[n].pass /\ a.overdue = agent[n].overdue
      BY Zenon, <2>1, <2>3 DEF Agents
    <2>5. agent' = [agent EXCEPT ![n] = a]
      BY Zenon, <2>2, <2>3 DEF Agents
    <2> HIDE DEF a
    <2>6. agent' \in [Nodes -> Agents] /\ \A k \in Nodes : /\ agent'[k].pass = agent[k].pass
                                                          /\ agent'[k].overdue = agent[k].overdue
      BY <2>3, <2>4, <2>5
    <2>7. /\ ledger' \in [Nodes -> Rows] /\ ledger'[n].authorized = own
          /\ \A k \in Nodes : ledger'[k].claimed = ledger[k].claimed
          /\ \A k \in Nodes \ {n} : ledger'[k] = ledger[k]
      <3>1. own \subseteq Ids
        BY <2>1
      <3> HIDE DEF own
      <3> QED  BY <2>2, <2>3, <3>1 DEF Rows
    <2> HIDE DEF own
    <2>8. Types'
      BY Zenon, <1>1, <1>2, <1>4, <1>6, <1>7, <2>6, <2>7 DEF Types, Good
    <2>9. \A k \in Nodes : AgentFine(k, agent[k])'
      BY Zenon, <1>2, <2>6, <2>7 DEF JobInv, AgentFine, PassFine, Was
    <2>10. \A k \in Nodes : MessageFine(k, net[k])'
      BY Zenon, <1>2, <1>6 DEF MessageFine, Over
    <2>11. \A k \in Nodes, i \in Ids : HostFine(k, i)'
      BY Zenon, <1>2, <2>7 DEF JobInv, HostFine, Was
    <2>12. CtlFine(ctl)' /\ CursorFine(ctl)'
      BY Zenon, <1>2, <1>4, <1>5 DEF Good, CtlFine, CursorFine, Over
    <2>13. HomeFine(ctl)'
      <3>1. \A k \in Nodes \ {n} : Mine(k)' = Mine(k)
        BY <2>7 DEF Mine
      <3>2. Mine(n)' \subseteq own \cup Mine(n)
        BY <2>7 DEF Mine
      <3>3. \A i \in own : i <= ctl'.used /\ i \in DOMAIN ctl'.tasks /\ ctl'.tasks[i].node = n
        BY <2>1, <1>4 DEF Good, own
      <3>4. ASSUME NEW k \in Nodes, NEW i \in Mine(k)'
            PROVE  i <= ctl'.used /\ (i \in DOMAIN ctl'.tasks => ctl'.tasks[i].node = k)
        BY <1>5, <3>1, <3>2, <3>3, <3>4 DEF HomeFine
      <3>5. ASSUME NEW k \in Nodes \ {n}, NEW i \in Mine(k)', i \in Mine(n)' PROVE FALSE
        BY <1>5, <3>1, <3>2, <3>3, <3>5 DEF HomeFine
      <3>6. ASSUME NEW k \in Nodes \ {n}, NEW l \in Nodes \ {n}, k # l PROVE Mine(k)' \cap Mine(l)' = {}
        BY <1>5, <3>1, <3>6 DEF HomeFine
      <3> QED  BY <3>4, <3>5, <3>6 DEF HomeFine
    <2> QED  BY Zenon, <2>8, <2>9, <2>10, <2>11, <2>12, <2>13 DEF JobInv
  <1> QED  BY Zenon, <1>2, <1>8, <1>9

=============================================================================
