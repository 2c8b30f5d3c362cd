----------------------- MODULE OperationSteps_proofs ------------------------
(***************************************************************************)
(* Every step of the operations keeps their invariant Inv.                 *)
(*                                                                         *)
(* Every helper that the requests, the control loop and the heartbeat call *)
(* is shown to age the records once, so that an action only has to account *)
(* for what it adds. A task that runs the revision of a pull was placed by *)
(* schedule_task on a node that had prepared the image.                    *)
(***************************************************************************)
EXTENDS ServiceOperations_inv, TLAPS

-----------------------------------------------------------------------------

\* fail ages an operation.
LEMMA FailAges ==
    ASSUME NEW o, OpShape(o), o.status # "gone"
    PROVE  OpShape(fail(o)) /\ Ages(o, fail(o)) /\ fail(o).status = "failed" /\ ~active(fail(o))
  BY Zenon DEF OpShape, Formed, Ages, Persists, fail, active

\* succeed ages an operation.
LEMMA SucceedAges ==
    ASSUME NEW o, OpShape(o), o.status # "gone"
    PROVE  OpShape(succeed(o)) /\ Ages(o, succeed(o)) /\ ~active(succeed(o))
  BY Zenon DEF OpShape, Formed, Ages, Persists, succeed, active

\* Doing nothing ages an operation.
LEMMA AgesRefl == ASSUME NEW o PROVE Ages(o, o)
  BY Zenon DEF Ages, Persists

\* Ageing twice is ageing.
LEMMA AgesTrans ==
    ASSUME NEW o, NEW p, NEW q, Ages(o, p), Ages(p, q) PROVE Ages(o, q)
  BY ZenonT(40) DEF Ages, Persists

\* Ageing twice is ageing, for the record.
LEMMA CtlAgesTrans ==
    ASSUME NEW c, NEW d, NEW e, CtlAges(c, d), CtlAges(d, e) PROVE CtlAges(c, e)
  BY Zenon, AgesTrans DEF CtlAges

\* The target a restart goes on with is the first that is not completed.
LEMMA CurrentIsPending ==
    ASSUME NEW o, BoundFits, Pending(o) # {}
    PROVE  Current(o) \in Pending(o) /\ \A q \in Replicas : q < Current(o) => o.tasks[q].completed
<1>1. Pending(o) \subseteq Replicas /\ Pending(o) \subseteq Nat
  BY Zenon DEF Pending, BoundFits
<1>2. Current(o) \in Pending(o) /\ \A q \in Pending(o) : Current(o) <= q
  BY <1>1, Zenon DEF Current, BoundFits
<1>3. ASSUME NEW q \in Replicas, q < Current(o), ~o.tasks[q].completed PROVE FALSE
  <2>1. q \in Pending(o)
    BY Zenon, <1>3 DEF Pending
  <2>2. Current(o) \in Nat /\ q \in Nat
    BY Zenon, <1>1, <1>2, <2>1
  <2> QED
    BY <1>2, <1>3, <2>1, <2>2
<1> QED
  BY <1>2, <1>3, Zenon

\* advance_service_operations_locked ages a restart.
LEMMA RestartAges ==
    ASSUME NEW c, NEW o, BoundFits, OpShape(o), active(o), o.kind = "restart"
    PROVE  OpShape(AdvanceRestart(c, o)) /\ Ages(o, AdvanceRestart(c, o))
<1> DEFINE r == Current(o)
           t == o.tasks[r]
           task == c.tasks[r]
           unavailable == \/ t.node \notin c.live \/ task.desired # "running"
                          \/ task.container \notin {None, t.container}
           late == t.deadline # None /\ now >= t.deadline
           well == /\ t.restarted /\ task.container = t.container
                   /\ task.image = t.image /\ task.observed = "healthy"
           u == [Timed(t) EXCEPT !.completed = well]
           next == [o EXCEPT !.tasks[r] = u]
<1>0. o.status # "gone"
  BY Zenon DEF active
<1>1. r \in Replicas /\ ~t.completed
  <2>1. Pending(o) # {}
    BY Zenon DEF OpShape, Formed
  <2> QED
    BY <2>1, CurrentIsPending, Zenon DEF Pending
<1>2. /\ DOMAIN u = DOMAIN t /\ u.node = t.node /\ u.container = t.container /\ u.image = t.image
      /\ u.restarted = t.restarted
  BY Zenon, <1>1 DEF OpShape, Formed, Timed
<1>3. /\ DOMAIN next = DOMAIN o /\ DOMAIN next.tasks = Replicas
      /\ next.tasks[r] = u /\ \A q \in Replicas : q # r => next.tasks[q] = o.tasks[q]
      /\ next.kind = o.kind /\ next.principal = o.principal /\ next.key = o.key
      /\ next.generation = o.generation /\ next.dgen = o.dgen /\ next.target = o.target
      /\ next.image = o.image /\ next.status = o.status /\ next.prepared = o.prepared
  BY Zenon, <1>1 DEF OpShape, Formed
<1>4. Ages(o, next) /\ next.status # "gone"
  <2> HIDE DEF next, u
  <2> QED
    BY <1>0, <1>1, <1>2, <1>3, Zenon DEF Ages, Persists, active
<1>5. Formed(next)
  <2>1. \A q \in Replicas :
            DOMAIN next.tasks[q] = {"node", "container", "image", "restarted", "completed", "deadline"}
    <3> HIDE DEF next, u
    <3> QED
      BY <1>1, <1>2, <1>3, Zenon DEF OpShape, Formed
  <2> HIDE DEF next, u
  <2> QED
    BY <1>3, <2>1, Zenon DEF OpShape, Formed
<1>6. Formed(succeed(next)) /\ ~active(succeed(next)) /\ Ages(next, succeed(next))
  <2> HIDE DEF next, u
  <2> QED
    BY Zenon, <1>4, <1>5 DEF Formed, Ages, Persists, succeed, active
<1>7. AdvanceRestart(c, o) = IF unavailable \/ late THEN fail(o)
                             ELSE IF Pending(next) = {} THEN succeed(next) ELSE next
  BY Zenon DEF AdvanceRestart
<1> HIDE DEF next, unavailable, late
<1>8. CASE unavailable \/ late
  BY <1>0, <1>7, <1>8, FailAges, Zenon
<1>9. CASE ~(unavailable \/ late) /\ Pending(next) = {}
  <2>1. Ages(o, succeed(next))
    BY <1>4, <1>6, AgesTrans, Zenon
  <2>2. OpShape(succeed(next))
    BY <1>6, Zenon DEF OpShape
  <2> QED
    BY <1>7, <1>9, <2>1, <2>2, Zenon
<1>10. CASE ~(unavailable \/ late) /\ Pending(next) # {}
  BY <1>4, <1>5, <1>7, <1>10, Zenon DEF OpShape
<1> QED
  BY <1>8, <1>9, <1>10, Zenon

\* advance_service_operations_locked ages a pull.
LEMMA PullAges ==
    ASSUME NEW c, NEW o, OpShape(o), o.status # "gone"
    PROVE  OpShape(AdvancePull(c, o)) /\ Ages(o, AdvancePull(c, o))
  BY FailAges, SucceedAges, AgesRefl, Zenon DEF AdvancePull

\* advance_service_operations_locked ages an operation.
LEMMA OneAges ==
    ASSUME NEW c, NEW o, BoundFits, OpShape(o), o.status # "gone"
    PROVE  OpShape(AdvanceOne(c, o)) /\ Ages(o, AdvanceOne(c, o))
<1> DEFINE more == [o EXCEPT !.prep = o.prep \cup candidate_nodes(c)]
           o1 == IF ~pins_images(c, o) THEN o
                 ELSE IF ~Unsupported(c) THEN more
                 ELSE IF o.dgen = None THEN fail(o) ELSE o
           o2 == [o1 EXCEPT !.status = "running"]
<1>1. OpShape(more) /\ Ages(o, more) /\ more.status = o.status
  BY Zenon DEF OpShape, Formed, Ages, Persists, active, Pending
<1>2. OpShape(o1) /\ Ages(o, o1)
  <2> HIDE DEF more
  <2> QED
    BY <1>1, FailAges, AgesRefl, Zenon
<1>3. ASSUME active(o1) PROVE OpShape(o2) /\ Ages(o1, o2) /\ active(o2)
  <2> HIDE DEF o1
  <2> QED
    BY Zenon, <1>2, <1>3 DEF OpShape, Formed, Ages, Persists, active, Pending
<1>4. o1.kind = o.kind /\ (active(o1) => o2.kind = o.kind)
  BY <1>2, <1>3, Zenon DEF Ages, Persists
<1>5. AdvanceOne(c, o) = IF ~active(o1) THEN o1
                         ELSE IF o.kind = "restart" THEN AdvanceRestart(c, o2) ELSE AdvancePull(c, o2)
  BY Zenon DEF AdvanceOne
<1>6. ASSUME active(o1) PROVE o2.status # "gone"
  BY Zenon, <1>3, <1>6 DEF active
<1> HIDE DEF o1, o2
<1>10. ASSUME active(o1), NEW q, Ages(o2, q) PROVE Ages(o, q)
  <2>1. Ages(o1, q)
    BY <1>3, <1>10, AgesTrans, Zenon
  <2> QED
    BY <1>2, <2>1, AgesTrans, Zenon
<1>7. CASE ~active(o1)
  BY <1>2, <1>5, <1>7, Zenon
<1>8. CASE active(o1) /\ o.kind = "restart"
  <2>1. OpShape(AdvanceRestart(c, o2)) /\ Ages(o2, AdvanceRestart(c, o2))
    BY <1>3, <1>4, <1>8, RestartAges, Zenon
  <2> QED
    BY <1>5, <1>8, <1>10, <2>1, Zenon
<1>9. CASE active(o1) /\ o.kind # "restart"
  <2>1. OpShape(AdvancePull(c, o2)) /\ Ages(o2, AdvancePull(c, o2))
    BY <1>3, <1>6, <1>9, PullAges, Zenon
  <2> QED
    BY <1>5, <1>9, <1>10, <2>1, Zenon
<1> QED
  BY <1>7, <1>8, <1>9, Zenon

\* Retiring an operation after its retention ages it.
LEMMA KeptAges ==
    ASSUME NEW c, NEW o, OpShape(o) PROVE OpShape(Kept(c, o)) /\ Ages(o, Kept(c, o))
<1> DEFINE gone == [o EXCEPT !.status = "gone"]
<1>1. OpShape(gone) /\ Ages(o, gone)
  BY Zenon DEF OpShape, Formed, Ages, Persists, active
<1>2. Kept(c, o) = gone \/ Kept(c, o) = o
  BY Zenon DEF Kept
<1> QED
  BY <1>1, <1>2, AgesRefl, Zenon

\* Nothing is earned where no target changes.
LEMMA SameEarned ==
    ASSUME NEW c, NEW o, NEW p, p.tasks = o.tasks PROVE Earned(c, o, p)
  BY Zenon DEF Earned

\* advance_service_operations_locked completes a target of a restart only if it was restarted and
\* its container is healthy.
LEMMA RestartEarned ==
    ASSUME NEW c, NEW o, BoundFits, OpShape(o), active(o), o.kind = "restart"
    PROVE  Earned(c, o, AdvanceRestart(c, o))
<1> DEFINE r == Current(o)
           t == o.tasks[r]
           task == c.tasks[r]
           unavailable == \/ t.node \notin c.live \/ task.desired # "running"
                          \/ task.container \notin {None, t.container}
           late == t.deadline # None /\ now >= t.deadline
           well == /\ t.restarted /\ task.container = t.container
                   /\ task.image = t.image /\ task.observed = "healthy"
           u == [Timed(t) EXCEPT !.completed = well]
           next == [o EXCEPT !.tasks[r] = u]
<1>1. r \in Replicas
  <2>1. Pending(o) # {}
    BY Zenon DEF OpShape
  <2> QED
    BY <2>1, CurrentIsPending, Zenon DEF Pending
<1>2. u.restarted = t.restarted /\ u.completed = well
  BY Zenon, <1>1 DEF OpShape, Formed, Timed
<1>3. /\ next.tasks[r] = u /\ \A q \in Replicas : q # r => next.tasks[q] = o.tasks[q]
      /\ "tasks" \in DOMAIN next /\ "tasks" \in DOMAIN o
  BY Zenon, <1>1 DEF OpShape, Formed
<1>4. Earned(c, o, next)
  <2> HIDE DEF next, u
  <2> QED
    BY <1>2, <1>3, Zenon DEF Earned
<1>5. AdvanceRestart(c, o) = IF unavailable \/ late THEN fail(o)
                             ELSE IF Pending(next) = {} THEN succeed(next) ELSE next
  BY Zenon DEF AdvanceRestart
<1>6. fail(o).tasks = o.tasks /\ succeed(next).tasks = next.tasks
  <2> HIDE DEF next
  <2> QED
    BY Zenon, <1>3 DEF fail, succeed
<1>7. Earned(c, o, fail(o)) /\ Earned(c, o, succeed(next))
  <2> HIDE DEF next
  <2> QED
    BY <1>4, <1>6, Zenon DEF Earned
<1> HIDE DEF next, unavailable, late
<1> QED
  BY <1>4, <1>5, <1>7, Zenon

\* So it does for any operation.
LEMMA OneEarned ==
    ASSUME NEW c, NEW o, BoundFits, OpShape(o), o.status # "gone"
    PROVE  Earned(c, o, AdvanceOne(c, o))
<1> DEFINE more == [o EXCEPT !.prep = o.prep \cup candidate_nodes(c)]
           o1 == IF ~pins_images(c, o) THEN o
                 ELSE IF ~Unsupported(c) THEN more
                 ELSE IF o.dgen = None THEN fail(o) ELSE o
           o2 == [o1 EXCEPT !.status = "running"]
<1>1. more.tasks = o.tasks /\ more.kind = o.kind /\ fail(o).tasks = o.tasks /\ fail(o).kind = o.kind
      /\ more.status = o.status /\ ~active(fail(o))
      /\ DOMAIN more = DOMAIN o /\ DOMAIN fail(o) = DOMAIN o /\ more.dgen = o.dgen /\ fail(o).dgen = o.dgen
  BY Zenon DEF OpShape, Formed, fail, active
<1>2. o1.tasks = o.tasks /\ o1.kind = o.kind /\ DOMAIN o1 = DOMAIN o /\ (active(o1) => active(o))
      /\ o1.dgen = o.dgen
  <2> HIDE DEF more
  <2> QED
    BY <1>1, Zenon DEF active
<1>3. o2.tasks = o1.tasks /\ o2.kind = o1.kind /\ DOMAIN o2 = DOMAIN o1 /\ active(o2)
      /\ o2.dgen = o1.dgen
  <2> HIDE DEF o1
  <2> QED
    BY Zenon, <1>2 DEF OpShape, Formed, active
<1>4. AdvanceOne(c, o) = IF ~active(o1) THEN o1
                         ELSE IF o.kind = "restart" THEN AdvanceRestart(c, o2) ELSE AdvancePull(c, o2)
  BY Zenon DEF AdvanceOne
<1>5. CASE ~active(o1)
  <2> HIDE DEF o1
  <2> QED
    BY <1>2, <1>4, <1>5, SameEarned, Zenon
<1>6. CASE active(o1) /\ o.kind = "restart"
  <2>1. OpShape(o2)
    <3> HIDE DEF o1, o2
    <3>1. Pending(o2) = Pending(o)
      BY <1>2, <1>3, Zenon DEF Pending
    <3> QED
      BY <1>2, <1>3, <1>6, <3>1, ZenonT(40) DEF OpShape, Formed
  <2> HIDE DEF o1, o2
  <2>2. Earned(c, o2, AdvanceRestart(c, o2))
    BY <1>2, <1>3, <1>6, <2>1, RestartEarned, Zenon
  <2> QED
    BY <1>2, <1>3, <1>4, <1>6, <2>2, Zenon DEF Earned
<1>7. CASE active(o1) /\ o.kind # "restart"
  <2> HIDE DEF o1, o2
  <2>1. fail(o2).tasks = o2.tasks /\ succeed(o2).tasks = o2.tasks
    BY Zenon, <1>2, <1>3 DEF OpShape, Formed, fail, succeed
  <2>2. AdvancePull(c, o2).tasks = o2.tasks
    BY <2>1, Zenon DEF AdvancePull
  <2> QED
    BY <1>2, <1>3, <1>4, <1>7, <2>2, SameEarned, Zenon
<1> QED
  BY <1>5, <1>6, <1>7, Zenon

\* Retiring an operation completes nothing.
LEMMA KeptEarned ==
    ASSUME NEW c, NEW o, OpShape(o) PROVE Kept(c, o).tasks = o.tasks
  BY Zenon DEF Kept, OpShape, Formed

-----------------------------------------------------------------------------
\* The Controller's record.

\* advance_service_operations_locked changes only the operations.
LEMMA AdvanceFields ==
    ASSUME NEW c, CtlShape(c)
    PROVE  /\ CtlShape(Advance(c)) /\ DOMAIN Advance(c).ops = DOMAIN c.ops
           /\ Advance(c).rev = c.rev /\ Advance(c).image = c.image /\ Advance(c).deleted = c.deleted
           /\ Advance(c).generation = c.generation /\ Advance(c).deployment = c.deployment
           /\ Advance(c).tasks = c.tasks /\ Advance(c).live = c.live /\ Advance(c).known = c.known
           /\ Advance(c).ops = [i \in DOMAIN c.ops |->
                 IF c.ops[i].status = "gone" THEN c.ops[i] ELSE Kept(c, AdvanceOne(c, c.ops[i]))]
  BY Zenon DEF Advance, CtlShape

\* advance_service_operations_locked ages the record.
LEMMA AdvanceAges ==
    ASSUME NEW c, BoundFits, CtlShape(c), OpsShape(c)
    PROVE  /\ CtlShape(Advance(c)) /\ OpsShape(Advance(c)) /\ CtlAges(c, Advance(c))
           /\ Advance(c).tasks = c.tasks /\ Advance(c).live = c.live /\ Advance(c).known = c.known
           /\ \A i \in DOMAIN c.ops : Earned(c, c.ops[i], Advance(c).ops[i])
<1> DEFINE d == Advance(c)
<1>1. /\ CtlShape(d) /\ DOMAIN d.ops = DOMAIN c.ops
      /\ d.rev = c.rev /\ d.image = c.image /\ d.deleted = c.deleted
      /\ d.generation = c.generation /\ d.deployment = c.deployment /\ d.tasks = c.tasks
      /\ d.live = c.live /\ d.known = c.known
      /\ d.ops = [i \in DOMAIN c.ops |->
                    IF c.ops[i].status = "gone" THEN c.ops[i] ELSE Kept(c, AdvanceOne(c, c.ops[i]))]
  BY AdvanceFields, Zenon
<1> HIDE DEF d
<1>2. ASSUME NEW i \in DOMAIN c.ops
      PROVE  OpShape(d.ops[i]) /\ Ages(c.ops[i], d.ops[i]) /\ Earned(c, c.ops[i], d.ops[i])
  <2>0. OpShape(c.ops[i])
    BY Zenon DEF OpsShape
  <2>1. CASE c.ops[i].status = "gone"
    <3>1. d.ops[i] = c.ops[i]
      BY <1>1, <2>1, Zenon
    <3> QED
      BY <2>0, <3>1, AgesRefl, SameEarned, Zenon
  <2>2. CASE c.ops[i].status # "gone"
    <3> DEFINE p == AdvanceOne(c, c.ops[i])
    <3>1. d.ops[i] = Kept(c, p)
      BY <1>1, <2>2, Zenon
    <3>2. OpShape(p) /\ Ages(c.ops[i], p) /\ Earned(c, c.ops[i], p)
      BY <2>0, <2>2, OneAges, OneEarned, Zenon
    <3> HIDE DEF p
    <3>3. OpShape(Kept(c, p)) /\ Ages(p, Kept(c, p)) /\ Kept(c, p).tasks = p.tasks
      BY <3>2, KeptAges, KeptEarned, Zenon
    <3>4. Ages(c.ops[i], Kept(c, p))
      BY <3>2, <3>3, AgesTrans, Zenon
    <3> QED
      BY <3>1, <3>2, <3>3, <3>4, Zenon DEF Earned
  <2> QED
    BY <2>1, <2>2, Zenon
<1>3. IsSeq(d.ops)
  <2>1. PICK k \in Nat : c.ops = [i \in 1..k |-> c.ops[i]]
    BY Zenon DEF OpsShape, IsSeq
  <2>2. DOMAIN c.ops = 1..k
    BY <2>1, Zenon
  <2>3. d.ops = [i \in 1..k |-> d.ops[i]]
    BY Zenon, <1>1, <2>2
  <2> QED
    BY <2>3, Zenon DEF IsSeq
<1>4. OpsShape(d)
  BY <1>1, <1>2, <1>3, Zenon DEF OpsShape
<1>5. CtlAges(c, d)
  BY <1>1, <1>2, Zenon DEF CtlAges, deployment_active
<1> QED
  BY <1>1, <1>2, <1>4, <1>5, Zenon DEF d

\* reconcile ages the record.
LEMMA ReconcileAges ==
    ASSUME NEW c, CtlShape(c), OpsShape(c)
    PROVE  /\ CtlShape(Reconcile(c)) /\ OpsShape(Reconcile(c)) /\ CtlAges(c, Reconcile(c))
           /\ Reconcile(c).ops = c.ops /\ Reconcile(c).live = c.live /\ Reconcile(c).known = c.known
           /\ Reconcile(c).deployment = c.deployment
           /\ \A r \in Replicas : /\ Reconcile(c).tasks[r].container = c.tasks[r].container
                                  /\ Reconcile(c).tasks[r].observed = c.tasks[r].observed
<1> DEFINE d == Reconcile(c)
           stopped(r) == [c.tasks[r] EXCEPT !.desired = "stopped"]
<1>1. /\ DOMAIN d = DOMAIN c /\ d.rev = c.rev /\ d.image = c.image /\ d.deleted = c.deleted
      /\ d.generation = c.generation /\ d.deployment = c.deployment
      /\ d.live = c.live /\ d.known = c.known /\ d.ops = c.ops
      /\ d.tasks = [r \in Replicas |-> IF c.tasks[r].node \in c.live THEN c.tasks[r] ELSE stopped(r)]
  BY Zenon DEF Reconcile, CtlShape
<1>2. ASSUME NEW r \in Replicas
      PROVE  /\ DOMAIN stopped(r) = DOMAIN c.tasks[r] /\ stopped(r).rev = c.tasks[r].rev
             /\ stopped(r).node = c.tasks[r].node /\ stopped(r).container = c.tasks[r].container
             /\ stopped(r).observed = c.tasks[r].observed
  BY Zenon DEF CtlShape
<1> HIDE DEF d, stopped
<1>3. ASSUME NEW r \in Replicas
      PROVE  /\ DOMAIN d.tasks[r] = DOMAIN c.tasks[r] /\ d.tasks[r].rev = c.tasks[r].rev
             /\ d.tasks[r].node = c.tasks[r].node /\ d.tasks[r].container = c.tasks[r].container
             /\ d.tasks[r].observed = c.tasks[r].observed
  <2>1. d.tasks[r] = c.tasks[r] \/ d.tasks[r] = stopped(r)
    BY <1>1, Zenon
  <2> QED
    BY <1>2, <2>1, Zenon
<1>4. DOMAIN d.tasks = Replicas
  BY <1>1, Zenon
<1>5. CtlShape(d)
  BY <1>1, <1>3, <1>4, Zenon DEF CtlShape
<1>6. OpsShape(d) /\ CtlAges(c, d)
  BY <1>1, <1>3, AgesRefl, Zenon DEF CtlAges, OpsShape, deployment_active
<1> QED
  BY <1>1, <1>3, <1>5, <1>6, Zenon DEF d

\* refresh_stack_deployments ages the record.
LEMMA RefreshAges ==
    ASSUME NEW c, CtlShape(c), OpsShape(c)
    PROVE  /\ CtlShape(Refresh(c)) /\ OpsShape(Refresh(c)) /\ CtlAges(c, Refresh(c))
           /\ Refresh(c).ops = c.ops /\ Refresh(c).live = c.live /\ Refresh(c).known = c.known
           /\ Refresh(c).tasks = c.tasks
<1> DEFINE d == Refresh(c)
<1>1. /\ DOMAIN d = DOMAIN c /\ d.rev = c.rev /\ d.image = c.image /\ d.deleted = c.deleted
      /\ d.generation = c.generation /\ d.tasks = c.tasks /\ d.live = c.live /\ d.known = c.known
      /\ d.ops = c.ops /\ d.deployment.gen = c.deployment.gen
      /\ DOMAIN d.deployment = DOMAIN c.deployment
      /\ d.deployment.status = "healthy" \/ d.deployment.status = c.deployment.status
  BY Zenon DEF Refresh, CtlShape
<1> HIDE DEF d
<1>2. CtlShape(d) /\ OpsShape(d)
  BY <1>1, Zenon DEF CtlShape, OpsShape
<1>3. deployment_active(d) => deployment_active(c)
  BY Zenon, <1>1 DEF deployment_active
<1>4. CtlAges(c, d)
  BY <1>1, <1>3, AgesRefl, Zenon DEF CtlAges
<1> QED
  BY <1>1, <1>2, <1>4, Zenon DEF d

\* What follows every change of the record ages it.
LEMMA SettleAges ==
    ASSUME NEW c, BoundFits, CtlShape(c), OpsShape(c)
    PROVE  /\ CtlShape(Settle(c)) /\ OpsShape(Settle(c)) /\ CtlAges(c, Settle(c))
           /\ Settle(c).live = c.live /\ Settle(c).known = c.known
           /\ \A r \in Replicas : /\ Settle(c).tasks[r].container = c.tasks[r].container
                                  /\ Settle(c).tasks[r].observed = c.tasks[r].observed
           /\ \A i \in DOMAIN c.ops : Earned(c, c.ops[i], Settle(c).ops[i])
<1> DEFINE c1 == Advance(c)
           c2 == Reconcile(c1)
           c3 == Refresh(c2)
           c4 == Advance(c3)
<1>1. /\ CtlShape(c1) /\ OpsShape(c1) /\ CtlAges(c, c1)
      /\ c1.tasks = c.tasks /\ c1.live = c.live /\ c1.known = c.known
      /\ \A i \in DOMAIN c.ops : Earned(c, c.ops[i], c1.ops[i])
  BY AdvanceAges, Zenon
<1> HIDE DEF c1
<1>2. /\ CtlShape(c2) /\ OpsShape(c2) /\ CtlAges(c1, c2)
      /\ c2.ops = c1.ops /\ c2.live = c1.live /\ c2.known = c1.known
      /\ \A r \in Replicas : /\ c2.tasks[r].container = c1.tasks[r].container
                             /\ c2.tasks[r].observed = c1.tasks[r].observed
  BY <1>1, ReconcileAges, Zenon
<1> HIDE DEF c2
<1>3. /\ CtlShape(c3) /\ OpsShape(c3) /\ CtlAges(c2, c3)
      /\ c3.ops = c2.ops /\ c3.live = c2.live /\ c3.known = c2.known /\ c3.tasks = c2.tasks
  BY <1>2, RefreshAges, Zenon
<1> HIDE DEF c3
<1>4. /\ CtlShape(c4) /\ OpsShape(c4) /\ CtlAges(c3, c4)
      /\ c4.tasks = c3.tasks /\ c4.live = c3.live /\ c4.known = c3.known
      /\ \A i \in DOMAIN c3.ops : Earned(c3, c3.ops[i], c4.ops[i])
  BY <1>3, AdvanceAges, Zenon
<1> HIDE DEF c4
<1>5. CtlAges(c, c4)
  <2>1. CtlAges(c, c2)
    BY <1>1, <1>2, CtlAgesTrans, Zenon
  <2>2. CtlAges(c, c3)
    BY <2>1, <1>3, CtlAgesTrans, Zenon
  <2> QED
    BY <2>2, <1>4, CtlAgesTrans, Zenon
<1>6. \A r \in Replicas : /\ c4.tasks[r].container = c.tasks[r].container
                          /\ c4.tasks[r].observed = c.tasks[r].observed
                          /\ c3.tasks[r].container = c.tasks[r].container
                          /\ c3.tasks[r].observed = c.tasks[r].observed
  BY <1>1, <1>2, <1>3, <1>4, Zenon
<1>7. ASSUME NEW i \in DOMAIN c.ops PROVE Earned(c, c.ops[i], c4.ops[i])
  <2>1. Earned(c, c.ops[i], c1.ops[i])
    BY <1>1, Zenon
  <2>2. Ages(c.ops[i], c1.ops[i]) /\ i \in DOMAIN c3.ops
    BY <1>1, <1>2, <1>3, Zenon DEF CtlAges
  <2>3. Earned(c3, c1.ops[i], c4.ops[i])
    BY <1>2, <1>3, <1>4, <2>2, Zenon
  <2>4. /\ active(c1.ops[i]) => active(c.ops[i])
        /\ c1.ops[i].kind = c.ops[i].kind
        /\ \A r \in Replicas : c1.ops[i].tasks[r].container = c.ops[i].tasks[r].container
    BY <2>2, Zenon DEF Ages, Persists
  <2> QED
    BY <1>6, <2>1, <2>3, <2>4, Zenon DEF Earned
<1>8. Settle(c) = c4
  BY Zenon DEF Settle, c1, c2, c3, c4
<1> QED
  BY <1>1, <1>2, <1>3, <1>4, <1>5, <1>6, <1>7, <1>8, Zenon

\* heartbeat: the inventory of node n updates the node's own tasks.
LEMMA ObservedAges ==
    ASSUME NEW c, NEW n, NEW inventory, CtlShape(c), OpsShape(c)
    PROVE  LET d == Observed(c, n, inventory)
           IN  /\ CtlShape(d) /\ OpsShape(d) /\ CtlAges(c, d)
               /\ d.ops = c.ops /\ d.live = c.live \cup {n} /\ d.known = c.known \cup {n}
               /\ \A r \in Replicas :
                     IF c.tasks[r].node = n /\ r \in DOMAIN inventory
                     THEN /\ d.tasks[r].container = inventory[r].container
                          /\ d.tasks[r].observed = inventory[r].observed
                     ELSE d.tasks[r] = c.tasks[r]
<1> DEFINE d == Observed(c, n, inventory)
           seen(r) == [c.tasks[r] EXCEPT !.container = inventory[r].container,
                          !.image = inventory[r].image, !.observed = inventory[r].observed]
<1>1. /\ DOMAIN d = DOMAIN c /\ d.rev = c.rev /\ d.image = c.image /\ d.deleted = c.deleted
      /\ d.generation = c.generation /\ d.deployment = c.deployment
      /\ d.live = c.live \cup {n} /\ d.known = c.known \cup {n} /\ d.ops = c.ops
      /\ d.tasks = [r \in Replicas |-> IF c.tasks[r].node = n /\ r \in DOMAIN inventory
                                       THEN seen(r) ELSE c.tasks[r]]
  BY Zenon DEF Observed, CtlShape
<1>2. ASSUME NEW r \in Replicas
      PROVE  /\ DOMAIN seen(r) = DOMAIN c.tasks[r] /\ seen(r).rev = c.tasks[r].rev
             /\ seen(r).node = c.tasks[r].node /\ seen(r).container = inventory[r].container
             /\ seen(r).observed = inventory[r].observed
  BY Zenon DEF CtlShape
<1> HIDE DEF d, seen
<1>3. ASSUME NEW r \in Replicas
      PROVE  /\ DOMAIN d.tasks[r] = DOMAIN c.tasks[r] /\ d.tasks[r].rev = c.tasks[r].rev
             /\ d.tasks[r].node = c.tasks[r].node
             /\ IF c.tasks[r].node = n /\ r \in DOMAIN inventory
                THEN /\ d.tasks[r].container = inventory[r].container
                     /\ d.tasks[r].observed = inventory[r].observed
                ELSE d.tasks[r] = c.tasks[r]
  BY <1>1, <1>2, ZenonT(40)
<1>4. DOMAIN d.tasks = Replicas
  BY <1>1, Zenon
<1>5. CtlShape(d)
  BY <1>1, <1>3, <1>4, Zenon DEF CtlShape
<1>6. OpsShape(d) /\ CtlAges(c, d)
  BY <1>1, <1>3, AgesRefl, Zenon DEF CtlAges, OpsShape, deployment_active
<1> QED
  BY <1>1, <1>3, <1>5, <1>6, Zenon DEF d

\* heartbeat: a result marks the targets of its generation on its node as restarted, and their
\* tasks as starting.
LEMMA ResultsAges ==
    ASSUME NEW c, NEW n, NEW results, CtlShape(c), OpsShape(c), GenOnce(c)
    PROVE  LET d == Results(c, n, results)
           IN  /\ CtlShape(d) /\ OpsShape(d) /\ CtlAges(c, d)
               /\ d.live = c.live /\ d.known = c.known
               /\ \A r \in Replicas : /\ d.tasks[r].container = c.tasks[r].container
                                      /\ \/ d.tasks[r].observed = "starting"
                                         \/ d.tasks[r].observed = c.tasks[r].observed
               /\ \A i \in DOMAIN c.ops, r \in Replicas :
                     /\ d.ops[i].tasks[r].completed = c.ops[i].tasks[r].completed
                     /\ d.ops[i].tasks[r].restarted /\ ~c.ops[i].tasks[r].restarted
                           => /\ \E x \in results : x.ok /\ x.replica = r /\ i \in Matches(c, n, x)
                              /\ d.tasks[r].observed = "starting"
<1> DEFINE hit == {x \in results : Matches(c, n, x) # {}}
           Mine(i) == {x \in hit : i \in Matches(c, n, x)}
           restarted == {x.replica : x \in {y \in hit : y.ok /\ \A i \in Matches(c, n, y) :
                                                            ~c.ops[i].tasks[y.replica].restarted}}
           done(i, r) == [c.ops[i].tasks[r] EXCEPT !.restarted = TRUE]
           told(i) == [c.ops[i] EXCEPT !.tasks = [r \in Replicas |->
                          IF \E x \in Mine(i) : x.replica = r THEN done(i, r) ELSE c.ops[i].tasks[r]]]
           again(r) == [c.tasks[r] EXCEPT !.observed = "starting"]
           d == Results(c, n, results)
<1>1. /\ DOMAIN d = DOMAIN c /\ d.rev = c.rev /\ d.image = c.image /\ d.deleted = c.deleted
      /\ d.generation = c.generation /\ d.deployment = c.deployment
      /\ d.live = c.live /\ d.known = c.known
      /\ d.ops = [i \in DOMAIN c.ops |-> IF \E x \in Mine(i) : ~x.ok THEN fail(c.ops[i]) ELSE told(i)]
      /\ d.tasks = [r \in Replicas |-> IF r \in restarted THEN again(r) ELSE c.tasks[r]]
  BY Zenon DEF Results, Unseen, CtlShape
<1>2. ASSUME NEW r \in Replicas
      PROVE  /\ DOMAIN again(r) = DOMAIN c.tasks[r] /\ again(r).rev = c.tasks[r].rev
             /\ again(r).node = c.tasks[r].node /\ again(r).container = c.tasks[r].container
             /\ again(r).observed = "starting"
  BY Zenon DEF CtlShape
<1>3. ASSUME NEW i \in DOMAIN c.ops, NEW r \in Replicas
      PROVE  /\ DOMAIN done(i, r) = DOMAIN c.ops[i].tasks[r]
             /\ done(i, r).node = c.ops[i].tasks[r].node
             /\ done(i, r).container = c.ops[i].tasks[r].container
             /\ done(i, r).image = c.ops[i].tasks[r].image
             /\ done(i, r).completed = c.ops[i].tasks[r].completed
             /\ done(i, r).restarted
  BY DEF OpsShape, OpShape, Formed
<1> HIDE DEF done
<1>4. ASSUME NEW i \in DOMAIN c.ops
      PROVE  /\ DOMAIN told(i) = DOMAIN c.ops[i] /\ told(i).kind = c.ops[i].kind
             /\ told(i).principal = c.ops[i].principal /\ told(i).key = c.ops[i].key
             /\ told(i).generation = c.ops[i].generation /\ told(i).dgen = c.ops[i].dgen
             /\ told(i).target = c.ops[i].target /\ told(i).image = c.ops[i].image
             /\ told(i).status = c.ops[i].status /\ told(i).prepared = c.ops[i].prepared
             /\ told(i).tasks = [r \in Replicas |->
                   IF \E x \in Mine(i) : x.replica = r THEN done(i, r) ELSE c.ops[i].tasks[r]]
  <2> HIDE DEF Mine
  <2> QED
    BY Zenon DEF OpsShape, OpShape, Formed
<1> HIDE DEF told, Mine, again, d, restarted
<1>5. ASSUME NEW i \in DOMAIN c.ops
      PROVE  /\ OpShape(told(i)) /\ Ages(c.ops[i], told(i))
             /\ \A r \in Replicas :
                   /\ told(i).tasks[r].completed = c.ops[i].tasks[r].completed
                   /\ told(i).tasks[r].restarted /\ ~c.ops[i].tasks[r].restarted
                         => \E x \in Mine(i) : x.replica = r
  <2>0. OpShape(c.ops[i])
    BY Zenon DEF OpsShape
  <2>90. told(i).tasks = [r \in Replicas |->
            IF \E x \in Mine(i) : x.replica = r THEN done(i, r) ELSE c.ops[i].tasks[r]]
    BY Zenon, <1>4
  <2>1. ASSUME NEW r \in Replicas
        PROVE  /\ DOMAIN told(i).tasks[r] = DOMAIN c.ops[i].tasks[r]
               /\ told(i).tasks[r].node = c.ops[i].tasks[r].node
               /\ told(i).tasks[r].container = c.ops[i].tasks[r].container
               /\ told(i).tasks[r].image = c.ops[i].tasks[r].image
               /\ told(i).tasks[r].completed = c.ops[i].tasks[r].completed
               /\ c.ops[i].tasks[r].restarted => told(i).tasks[r].restarted
               /\ told(i).tasks[r].restarted /\ ~c.ops[i].tasks[r].restarted
                     => \E x \in Mine(i) : x.replica = r
    <3>1. \/ told(i).tasks[r] = c.ops[i].tasks[r]
          \/ told(i).tasks[r] = done(i, r) /\ \E x \in Mine(i) : x.replica = r
      BY <2>90, Zenon
    <3>2. CASE told(i).tasks[r] = c.ops[i].tasks[r]
      BY Zenon, <3>2
    <3>3. CASE told(i).tasks[r] = done(i, r) /\ \E x \in Mine(i) : x.replica = r
      BY SMTT(30), <1>3, <3>3
    <3> QED
      BY <3>1, <3>2, <3>3, Zenon
  <2>2. DOMAIN told(i).tasks = Replicas
    BY <2>90, Zenon
  <2>3. Pending(told(i)) = Pending(c.ops[i])
    BY <2>1, Zenon DEF Pending
  <2>4. Formed(told(i))
    BY <1>4, <2>0, <2>1, <2>2, Zenon DEF OpShape, Formed
  <2>5. OpShape(told(i))
    BY <1>4, <2>0, <2>3, <2>4, Zenon DEF OpShape, active
  <2>6. Ages(c.ops[i], told(i))
    BY <1>4, <2>1, Zenon DEF Ages, Persists, active
  <2> QED
    BY <2>1, <2>5, <2>6, Zenon
<1>6. ASSUME NEW i \in DOMAIN c.ops, NEW x \in Mine(i) PROVE c.ops[i].status # "gone"
  BY Zenon, <1>6 DEF Mine, hit, Matches, active
<1>7. ASSUME NEW i \in DOMAIN c.ops
      PROVE  /\ OpShape(d.ops[i]) /\ Ages(c.ops[i], d.ops[i])
             /\ \A r \in Replicas :
                   /\ d.ops[i].tasks[r].completed = c.ops[i].tasks[r].completed
                   /\ d.ops[i].tasks[r].restarted /\ ~c.ops[i].tasks[r].restarted
                         => \E x \in Mine(i) : x.replica = r /\ x.ok
  <2>0. OpShape(c.ops[i])
    BY Zenon DEF OpsShape
  <2>1. CASE \E x \in Mine(i) : ~x.ok
    <3>1. d.ops[i] = fail(c.ops[i])
      BY <1>1, <2>1, Zenon
    <3>2. c.ops[i].status # "gone"
      BY <1>6, <2>1, Zenon
    <3>3. fail(c.ops[i]).tasks = c.ops[i].tasks
      BY Zenon, <2>0 DEF fail, OpShape, Formed
    <3>4. OpShape(fail(c.ops[i])) /\ Ages(c.ops[i], fail(c.ops[i]))
      BY <2>0, <3>2, FailAges, Zenon
    <3> QED
      BY <3>1, <3>3, <3>4, Zenon
  <2>2. CASE ~ \E x \in Mine(i) : ~x.ok
    <3>1. d.ops[i] = told(i)
      BY <1>1, <2>2, Zenon
    <3> QED
      BY <1>5, <2>2, <3>1
  <2> QED
    BY <2>1, <2>2, Zenon
<1>8. ASSUME NEW r \in Replicas
      PROVE  /\ DOMAIN d.tasks[r] = DOMAIN c.tasks[r] /\ d.tasks[r].rev = c.tasks[r].rev
             /\ d.tasks[r].node = c.tasks[r].node /\ d.tasks[r].container = c.tasks[r].container
             /\ r \in restarted => d.tasks[r].observed = "starting"
             /\ r \notin restarted => d.tasks[r].observed = c.tasks[r].observed
  <2>1. d.tasks[r] = IF r \in restarted THEN again(r) ELSE c.tasks[r]
    BY <1>1, Zenon
  <2> QED
    BY <1>2, <2>1, Zenon
<1>9. ASSUME NEW i \in DOMAIN c.ops, NEW r \in Replicas, NEW x \in Mine(i), x.replica = r, x.ok,
             ~c.ops[i].tasks[r].restarted
      PROVE  r \in restarted
  <2>1. \A j \in Matches(c, n, x) : j = i
    BY <1>9, Zenon DEF Mine, hit, Matches, GenOnce
  <2> QED
    BY <1>9, <2>1, Zenon DEF restarted, Mine
<1>10. IsSeq(d.ops)
  <2>1. PICK k \in Nat : c.ops = [i \in 1..k |-> c.ops[i]]
    BY Zenon DEF OpsShape, IsSeq
  <2>2. DOMAIN c.ops = 1..k
    BY <2>1, Zenon
  <2>3. d.ops = [i \in 1..k |-> d.ops[i]]
    <3>1. d.ops = [i \in 1..k |-> IF \E x \in Mine(i) : ~x.ok THEN fail(c.ops[i]) ELSE told(i)]
      BY <1>1, <2>2, Zenon
    <3> QED
      BY <3>1, Zenon
  <2> QED
    BY <2>3, Zenon DEF IsSeq
<1>11. DOMAIN d.ops = DOMAIN c.ops /\ DOMAIN d.tasks = Replicas
  BY <1>1, Zenon
<1>12. CtlShape(d)
  BY <1>1, <1>8, <1>11, Zenon DEF CtlShape
<1>13. OpsShape(d)
  BY <1>7, <1>10, <1>11, Zenon DEF OpsShape
<1>14. CtlAges(c, d)
  BY <1>1, <1>7, <1>8, <1>11, Zenon DEF CtlAges, deployment_active
<1>15. ASSUME NEW i \in DOMAIN c.ops, NEW r \in Replicas,
              d.ops[i].tasks[r].restarted, ~c.ops[i].tasks[r].restarted
       PROVE  /\ \E x \in results : x.ok /\ x.replica = r /\ i \in Matches(c, n, x)
              /\ d.tasks[r].observed = "starting"
  <2>1. PICK x \in Mine(i) : x.replica = r /\ x.ok
    BY <1>7, <1>15, Zenon
  <2>2. r \in restarted
    BY <1>9, <1>15, <2>1, Zenon
  <2> QED
    BY <1>8, <2>1, <2>2, Zenon DEF Mine
<1> QED
  BY <1>1, <1>7, <1>8, <1>12, <1>13, <1>14, <1>15, ZenonT(40) DEF d

\* heartbeat: an operation learns which image its node prepared, and keeps what it knew.
LEMMA PreparedAges ==
    ASSUME NEW o, NEW n, NEW pulled, OpShape(o)
    PROVE  /\ OpShape(Prepared(o, n, pulled)) /\ Ages(o, Prepared(o, n, pulled))
           /\ Prepared(o, n, pulled).tasks = o.tasks
<1> DEFINE x == CHOOSE x \in {x \in pulled : x.generation = o.generation} : TRUE
           more == [m \in DOMAIN o.prepared \cup {n} |-> IF m = n THEN x.image ELSE o.prepared[m]]
           p == [o EXCEPT !.prepared = more]
<1>1. \/ Prepared(o, n, pulled) = o
      \/ Prepared(o, n, pulled) = p /\ n \notin DOMAIN o.prepared
      \/ Prepared(o, n, pulled) = fail(o) /\ o.status # "gone"
  BY Zenon DEF Prepared
<1>2. \A m \in DOMAIN o.prepared : n \notin DOMAIN o.prepared => m \in DOMAIN more /\ more[m] = o.prepared[m]
  BY Zenon
<1>3. /\ DOMAIN p = DOMAIN o /\ p.kind = o.kind /\ p.principal = o.principal /\ p.key = o.key
      /\ p.generation = o.generation /\ p.dgen = o.dgen /\ p.target = o.target /\ p.image = o.image
      /\ p.status = o.status /\ p.tasks = o.tasks /\ p.prepared = more
  <2> HIDE DEF more
  <2> QED
    BY Zenon DEF OpShape, Formed
<1> HIDE DEF p, more
<1>4. OpShape(p)
  <2>1. Pending(p) = Pending(o)
    BY <1>3, Zenon DEF Pending
  <2> QED
    BY <1>3, <2>1, Zenon DEF OpShape, Formed, active
<1>5. ASSUME n \notin DOMAIN o.prepared PROVE Ages(o, p)
  BY <1>2, <1>3, <1>5, Zenon DEF Ages, Persists, active
<1>6. fail(o).tasks = o.tasks
  BY Zenon DEF fail, OpShape, Formed
<1> QED
  BY <1>1, <1>3, <1>4, <1>5, <1>6, FailAges, AgesRefl, Zenon

\* heartbeat: the prepared images age the record.
LEMMA PulledAges ==
    ASSUME NEW c, NEW n, NEW pulled, CtlShape(c), OpsShape(c)
    PROVE  LET d == Pulled(c, n, pulled)
           IN  /\ CtlShape(d) /\ OpsShape(d) /\ CtlAges(c, d)
               /\ d.live = c.live /\ d.known = c.known /\ d.tasks = c.tasks
               /\ \A i \in DOMAIN c.ops : d.ops[i].tasks = c.ops[i].tasks
<1> DEFINE d == Pulled(c, n, pulled)
<1>1. /\ DOMAIN d = DOMAIN c /\ d.rev = c.rev /\ d.image = c.image /\ d.deleted = c.deleted
      /\ d.generation = c.generation /\ d.deployment = c.deployment
      /\ d.live = c.live /\ d.known = c.known /\ d.tasks = c.tasks
      /\ d.ops = [i \in DOMAIN c.ops |-> Prepared(c.ops[i], n, pulled)]
  BY Zenon DEF Pulled, CtlShape
<1> HIDE DEF d
<1>2. ASSUME NEW i \in DOMAIN c.ops
      PROVE  OpShape(d.ops[i]) /\ Ages(c.ops[i], d.ops[i]) /\ d.ops[i].tasks = c.ops[i].tasks
  <2>1. d.ops[i] = Prepared(c.ops[i], n, pulled) /\ OpShape(c.ops[i])
    BY <1>1, Zenon DEF OpsShape
  <2>2. /\ OpShape(Prepared(c.ops[i], n, pulled)) /\ Ages(c.ops[i], Prepared(c.ops[i], n, pulled))
        /\ Prepared(c.ops[i], n, pulled).tasks = c.ops[i].tasks
    BY <2>1, PreparedAges, Zenon
  <2> QED
    BY <2>1, <2>2, Zenon
<1>3. IsSeq(d.ops)
  <2>1. PICK k \in Nat : c.ops = [i \in 1..k |-> c.ops[i]]
    BY Zenon DEF OpsShape, IsSeq
  <2>2. DOMAIN c.ops = 1..k
    BY <2>1, Zenon
  <2>3. d.ops = [i \in 1..k |-> d.ops[i]]
    <3>1. d.ops = [i \in 1..k |-> Prepared(c.ops[i], n, pulled)]
      BY <1>1, <2>2, Zenon
    <3> QED
      BY <3>1, Zenon
  <2> QED
    BY <2>3, Zenon DEF IsSeq
<1>4. DOMAIN d.ops = DOMAIN c.ops
  BY <1>1, Zenon
<1>5. CtlShape(d)
  BY <1>1, Zenon DEF CtlShape
<1>6. OpsShape(d)
  BY <1>2, <1>3, <1>4, Zenon DEF OpsShape
<1>7. CtlAges(c, d)
  BY <1>1, <1>2, <1>4, Zenon DEF CtlAges, deployment_active
<1> QED
  BY <1>1, <1>2, <1>5, <1>6, <1>7, Zenon DEF d

-----------------------------------------------------------------------------
\* What ageing keeps.

\* Ageing keeps generations apart.
LEMMA AgesGenOnce ==
    ASSUME NEW c, NEW d, GenOnce(c), CtlAges(c, d) PROVE GenOnce(d)
<1>1. /\ DOMAIN d.ops = DOMAIN c.ops
      /\ \A i \in DOMAIN c.ops : d.ops[i].generation = c.ops[i].generation
  BY Zenon DEF CtlAges, Ages, Persists
<1> QED
  BY Zenon, <1>1 DEF GenOnce

\* Ageing keeps the counters behind the record.
LEMMA AgesCounted ==
    ASSUME NEW c, NEW d, Counted(c), CtlAges(c, d) PROVE Counted(d)
<1>1. /\ d.rev = c.rev /\ d.generation = c.generation /\ d.deployment.gen = c.deployment.gen
      /\ \A r \in Replicas : d.tasks[r].rev = c.tasks[r].rev
      /\ DOMAIN d.ops = DOMAIN c.ops
      /\ \A i \in DOMAIN c.ops : /\ d.ops[i].generation = c.ops[i].generation
                                 /\ d.ops[i].dgen = c.ops[i].dgen /\ d.ops[i].target = c.ops[i].target
  BY Zenon DEF CtlAges, Ages, Persists
<1> QED
  BY Zenon, <1>1 DEF Counted

\* Ageing keeps deployments apart.
LEMMA AgesDgenOnce ==
    ASSUME NEW c, NEW d, DgenOnce(c), CtlAges(c, d) PROVE DgenOnce(d)
<1>1. /\ DOMAIN d.ops = DOMAIN c.ops
      /\ \A i \in DOMAIN c.ops : d.ops[i].dgen = c.ops[i].dgen /\ d.ops[i].target = c.ops[i].target
  BY Zenon DEF CtlAges, Ages, Persists
<1> QED
  BY Zenon, <1>1 DEF DgenOnce

\* Ageing keeps one operation active.
LEMMA AgesOneGoes ==
    ASSUME NEW c, NEW d, OneGoes(c), CtlAges(c, d) PROVE OneGoes(d)
<1>1. /\ DOMAIN d.ops = DOMAIN c.ops /\ d.deployment.gen = c.deployment.gen
      /\ deployment_active(d) => deployment_active(c)
      /\ \A i \in DOMAIN c.ops : d.ops[i].dgen = c.ops[i].dgen /\ (active(d.ops[i]) => active(c.ops[i]))
  BY Zenon DEF CtlAges, Ages, Persists
<1> QED
  BY Zenon, <1>1 DEF OneGoes

\* Ageing keeps keys apart.
LEMMA AgesOneKey ==
    ASSUME NEW c, NEW d, OneKey(c), CtlAges(c, d) PROVE OneKey(d)
<1>1. /\ DOMAIN d.ops = DOMAIN c.ops
      /\ \A i \in DOMAIN c.ops : /\ d.ops[i].principal = c.ops[i].principal /\ d.ops[i].key = c.ops[i].key
                                 /\ c.ops[i].status = "gone" => d.ops[i].status = "gone"
  BY Zenon DEF CtlAges, Ages, Persists
<1> QED
  BY Zenon, <1>1 DEF OneKey

\* Ageing keeps the record sound.
LEMMA AgesSound ==
    ASSUME NEW c, NEW d, Sound(c), CtlAges(c, d), CtlShape(d), OpsShape(d) PROVE Sound(d)
  BY AgesGenOnce, AgesCounted, AgesDgenOnce, AgesOneGoes, AgesOneKey, Zenon DEF Sound

-----------------------------------------------------------------------------
\* The actions.

\* An interval and its successor.
LEMMA Upto == \A k \in Nat : k + 1 \notin 1..k /\ 1..(k + 1) = 1..k \cup {k + 1}
  OBVIOUS

\* Append adds one element at the end.
LEMMA AppendIs ==
    ASSUME NEW s, IsSeq(s), NEW e
    PROVE  /\ IsSeq(Append(s, e)) /\ Len(s) + 1 \notin DOMAIN s
           /\ DOMAIN Append(s, e) = DOMAIN s \cup {Len(s) + 1}
           /\ Append(s, e)[Len(s) + 1] = e
           /\ \A i \in DOMAIN s : Append(s, e)[i] = s[i]
<1>1. PICK k \in Nat : s = [i \in 1..k |-> s[i]]
  BY Zenon DEF IsSeq
<1> DEFINE S == {s[i] : i \in 1..k} \cup {e}
           t == [i \in 1..(k + 1) |-> IF i = k + 1 THEN e ELSE s[i]]
<1>2. s \in Seq(S) /\ Len(s) = k
  BY <1>1
<1>3. t \in Seq(S) /\ Len(t) = k + 1
  BY <1>1
<1>4. Append(s, e) = t
  BY <1>1, <1>2, <1>3
<1>5. /\ k + 1 \in Nat /\ k + 1 \notin 1..k /\ 1..(k + 1) = 1..k \cup {k + 1}
  BY Upto
<1>6. /\ DOMAIN t = 1..(k + 1) /\ t = [i \in 1..(k + 1) |-> t[i]]
      /\ \A i \in 1..(k + 1) : t[i] = IF i = k + 1 THEN e ELSE s[i]
  BY Zenon
<1> HIDE DEF t, S
<1>7. DOMAIN s = 1..k
  BY <1>1, Zenon
<1>8. IsSeq(t)
  BY <1>5, <1>6, Zenon DEF IsSeq
<1>9. t[k + 1] = e /\ \A i \in 1..k : t[i] = s[i]
  BY <1>5, <1>6, Zenon
<1> QED
  BY <1>2, <1>4, <1>5, <1>6, <1>7, <1>8, <1>9, Zenon

\* An operation persists while nothing happens.
LEMMA SamePersists == ASSUME NEW o PROVE Persists(o, o)
  BY Zenon DEF Persists

\* Ageing is persisting.
LEMMA AgesPersist == ASSUME NEW c, NEW d, CtlAges(c, d) PROVE OpsPersist(c, d)
  BY Zenon DEF CtlAges, OpsPersist, Ages

\* Ageing deploys nothing.
LEMMA AgesDgens == ASSUME NEW c, NEW d, CtlAges(c, d) PROVE SameDgens(c, d)
  BY Zenon DEF CtlAges, SameDgens, Ages

\* reconcile and refresh_stack_deployments keep the record sound.
LEMMA SettledSound ==
    ASSUME NEW c, Sound(c)
    PROVE  LET d == Refresh(Reconcile(c))
           IN  Sound(d) /\ d.ops = c.ops /\ CtlAges(c, d) /\ SameTasks(c, d)
<1> DEFINE c1 == Reconcile(c)
           d == Refresh(c1)
<1>1. CtlShape(c) /\ OpsShape(c)
  BY Zenon DEF Sound
<1>2. CtlShape(c1) /\ OpsShape(c1) /\ CtlAges(c, c1) /\ c1.ops = c.ops /\ SameTasks(c, c1)
  BY <1>1, ReconcileAges, ZenonT(40) DEF SameTasks, CtlAges
<1> HIDE DEF c1
<1>3. CtlShape(d) /\ OpsShape(d) /\ CtlAges(c1, d) /\ d.ops = c1.ops /\ d.tasks = c1.tasks
  BY <1>2, RefreshAges, Zenon
<1> HIDE DEF d
<1>4. CtlAges(c, d)
  BY <1>2, <1>3, CtlAgesTrans, Zenon
<1>5. Sound(d)
  BY <1>3, <1>4, AgesSound, Zenon
<1>6. SameTasks(c, d)
  BY <1>2, <1>3, Zenon DEF SameTasks
<1> QED
  BY <1>2, <1>3, <1>4, <1>5, <1>6, Zenon DEF c1, d

\* submit_service_operation: a new operation has a new key, and none goes on besides it.
LEMMA SubmitSound ==
    ASSUME BoundFits, Sound(ctl), NEW who, NEW kind, NEW key, Submit(who, kind, key)
    PROVE  /\ Sound(ctl') /\ OpsPersist(ctl, ctl') /\ SameTargets(ctl, ctl') /\ SameDgens(ctl, ctl')
           /\ SameTasks(ctl, ctl')
<1> DEFINE j == Len(ctl.ops) + 1
           e == [kind |-> kind, status |-> "queued", principal |-> who, key |-> key,
                 generation |-> ctl.generation + 1, dgen |-> None, created |-> now, finished |-> now,
                 target |-> IF kind = "pull" THEN ctl.rev + 1 ELSE ctl.rev, image |-> ctl.image,
                 tasks |-> Targets(ctl), prep |-> IF kind = "pull" THEN candidate_nodes(ctl) ELSE {},
                 prepared |-> <<>>]
<1>0. /\ CtlShape(ctl) /\ OpsShape(ctl) /\ GenOnce(ctl) /\ Counted(ctl) /\ DgenOnce(ctl)
      /\ OneGoes(ctl) /\ OneKey(ctl)
  BY Zenon DEF Sound
<1>1. ctl' = [ctl EXCEPT !.generation = @ + 1, !.ops = Append(@, e)]
  BY Zenon DEF Submit
<1>2. /\ e.kind = kind /\ e.status = "queued" /\ e.principal = who /\ e.key = key
      /\ e.generation = ctl.generation + 1 /\ e.dgen = None /\ e.tasks = Targets(ctl)
      /\ e.target = (IF kind = "pull" THEN ctl.rev + 1 ELSE ctl.rev)
      /\ DOMAIN e = {"kind", "status", "principal", "key", "generation", "dgen", "created", "finished",
                     "target", "image", "tasks", "prep", "prepared"}
  BY Zenon
<1>91. /\ e.generation \in Nat /\ e.generation = ctl.generation + 1 /\ e.target \in Nat
  BY SMTT(30), <1>0, <1>2 DEF Counted
<1>3. OpShape(e)
  <2>1. /\ DOMAIN Targets(ctl) = Replicas
        /\ \A r \in Replicas :
              /\ DOMAIN Targets(ctl)[r] = {"node", "container", "image", "restarted", "completed", "deadline"}
              /\ ~Targets(ctl)[r].completed
    BY Zenon DEF Targets
  <2> HIDE DEF e
  <2>2. Pending(e) # {}
    BY <1>2, <2>1, Zenon DEF Pending, BoundFits
  <2> QED
    BY <1>2, <2>1, <2>2, Zenon DEF OpShape, Formed
<1> HIDE DEF e
<1>4. /\ DOMAIN ctl' = DOMAIN ctl /\ ctl'.rev = ctl.rev /\ ctl'.deployment = ctl.deployment
      /\ ctl'.generation = ctl.generation + 1 /\ ctl'.tasks = ctl.tasks
      /\ ctl'.ops = Append(ctl.ops, e)
  BY Zenon, <1>0, <1>1 DEF CtlShape
<1>5. /\ IsSeq(ctl'.ops) /\ j \notin DOMAIN ctl.ops /\ DOMAIN ctl'.ops = DOMAIN ctl.ops \cup {j}
      /\ ctl'.ops[j] = e /\ \A i \in DOMAIN ctl.ops : ctl'.ops[i] = ctl.ops[i]
  <2>1. IsSeq(ctl.ops)
    BY <1>0, Zenon DEF OpsShape
  <2>2. /\ IsSeq(Append(ctl.ops, e)) /\ j \notin DOMAIN ctl.ops
        /\ DOMAIN Append(ctl.ops, e) = DOMAIN ctl.ops \cup {j}
        /\ Append(ctl.ops, e)[j] = e
        /\ \A i \in DOMAIN ctl.ops : Append(ctl.ops, e)[i] = ctl.ops[i]
    BY <2>1, AppendIs, Zenon
  <2> QED
    BY <1>4, <2>2, Zenon
<1> HIDE DEF j
<1>6. CtlShape(ctl')
  BY <1>0, <1>4, Zenon DEF CtlShape
<1>7. OpsShape(ctl')
  BY <1>0, <1>3, <1>5, Zenon DEF OpsShape
<1>8. \A i \in DOMAIN ctl.ops : ctl.ops[i].generation # e.generation
  BY <1>0, <1>2 DEF Counted
<1>9. GenOnce(ctl')
  BY Zenon, <1>0, <1>5, <1>8 DEF GenOnce
<1>10. Counted(ctl')
  <2>1. /\ ctl'.generation \in Nat /\ ctl'.rev \in Nat
        /\ ctl'.deployment.gen \in Nat /\ ctl'.deployment.gen # None /\ ctl'.deployment.gen <= ctl'.generation
        /\ \A r \in Replicas : ctl'.tasks[r].rev \in Nat /\ ctl'.tasks[r].rev <= ctl'.rev
    BY <1>0, <1>4 DEF Counted
  <2>2. ASSUME NEW i \in DOMAIN ctl'.ops
        PROVE  /\ ctl'.ops[i].generation \in Nat /\ ctl'.ops[i].generation <= ctl'.generation
               /\ ctl'.ops[i].dgen \in Nat /\ ctl'.ops[i].dgen <= ctl'.generation
               /\ ctl'.ops[i].target \in Nat
               /\ ctl'.ops[i].dgen # None => ctl'.ops[i].target <= ctl'.rev
    <3>1. CASE i = j
      BY <1>0, <1>2, <1>91, <1>4, <1>5, <3>1 DEF Counted, None
    <3>2. CASE i \in DOMAIN ctl.ops
      <4>1. ctl'.ops[i] = ctl.ops[i]
        BY <1>5, <3>2, Zenon
      <4>2. /\ ctl.generation \in Nat
            /\ ctl.ops[i].generation \in Nat /\ ctl.ops[i].generation <= ctl.generation
            /\ ctl.ops[i].dgen \in Nat /\ ctl.ops[i].dgen <= ctl.generation
            /\ ctl.ops[i].target \in Nat
            /\ ctl.ops[i].dgen # None => ctl.ops[i].target <= ctl.rev
        BY <1>0, <3>2, Zenon DEF Counted
      <4> QED
        BY <1>4, <4>1, <4>2
    <3> QED
      BY <1>5, <3>1, <3>2, Zenon
  <2> QED
    BY <2>1, <2>2, Zenon DEF Counted
<1>11. DgenOnce(ctl')
  BY <1>0, <1>2, <1>5 DEF DgenOnce
<1>12. Free(ctl) /\ Known(who, key) = {}
  BY Zenon DEF Submit
<1>13. OneGoes(ctl')
  <2>1. \A i \in DOMAIN ctl.ops : ~active(ctl'.ops[i])
    BY <1>5, <1>12, Zenon DEF Free
  <2>2. ~deployment_active(ctl')
    BY <1>4, <1>12, Zenon DEF Free, deployment_active
  <2> QED
    BY <1>2, <1>5, <2>1, <2>2, Zenon DEF OneGoes
<1>14. OneKey(ctl')
  <2>1. \A i \in DOMAIN ctl.ops :
            ~ (ctl.ops[i].status # "gone" /\ ctl.ops[i].principal = who /\ ctl.ops[i].key = key)
    BY <1>12, Zenon DEF Known
  <2> QED
    BY <1>0, <1>2, <1>5, <2>1 DEF OneKey
<1>15. OpsPersist(ctl, ctl') /\ SameTargets(ctl, ctl') /\ SameDgens(ctl, ctl') /\ SameTasks(ctl, ctl')
  <2>1. Executable(ctl)
    BY Zenon DEF Submit
  <2>2. \A r \in Replicas :
            /\ Targets(ctl)[r].node = ctl.tasks[r].node /\ Targets(ctl)[r].container = ctl.tasks[r].container
            /\ ~Targets(ctl)[r].restarted /\ ~Targets(ctl)[r].completed
    BY Zenon DEF Targets
  <2>3. Fresh(ctl, e)
    BY <1>2, <2>1, <2>2, Zenon DEF Fresh, Executable
  <2> QED
    BY <1>4, <1>5, <2>3, SamePersists, Zenon DEF OpsPersist, SameTargets, SameDgens, SameTasks
<1> QED
  BY <1>15, <1>6, <1>7, <1>9, <1>10, <1>11, <1>13, <1>14, Zenon DEF Sound

\* apply_guarded: an operation that is replaced fails, and the record stays sound.
LEMMA ApplySound ==
    ASSUME BoundFits, Sound(ctl), NEW replace, NEW image, NEW changed, NEW deleted,
           Apply(replace, image, changed, deleted)
    PROVE  /\ Sound(ctl') /\ OpsPersist(ctl, ctl') /\ SameTargets(ctl, ctl') /\ SameDgens(ctl, ctl')
           /\ SameTasks(ctl, ctl')
<1> DEFINE ops == [i \in DOMAIN ctl.ops |-> IF active(ctl.ops[i]) THEN fail(ctl.ops[i]) ELSE ctl.ops[i]]
           rev == IF ~deleted /\ Bumps(image, changed) THEN ctl.rev + 1 ELSE ctl.rev
           dep == [gen |-> ctl.generation + 1, status |-> "reconciling"]
           c == [ctl EXCEPT !.generation = @ + 1, !.rev = IF ~deleted /\ Bumps(image, changed) THEN @ + 1 ELSE @,
                            !.image = image, !.deleted = deleted, !.deployment = dep, !.ops = ops]
<1>0. /\ CtlShape(ctl) /\ OpsShape(ctl) /\ GenOnce(ctl) /\ Counted(ctl) /\ DgenOnce(ctl)
      /\ OneGoes(ctl) /\ OneKey(ctl)
  BY Zenon DEF Sound
<1>1. ctl' = Refresh(Reconcile(c))
  BY Zenon DEF Apply
<1>2. /\ DOMAIN c = DOMAIN ctl /\ c.generation = ctl.generation + 1 /\ c.rev = rev
      /\ c.deployment = dep /\ c.ops = ops /\ c.tasks = ctl.tasks
  <2> HIDE DEF ops, dep
  <2> QED
    BY Zenon, <1>0 DEF CtlShape
<1>3. dep.gen = ctl.generation + 1 /\ DOMAIN dep = {"gen", "status"}
  BY Zenon
<1> HIDE DEF c, dep
<1>4. ASSUME NEW i \in DOMAIN ctl.ops
      PROVE  /\ OpShape(ops[i]) /\ Ages(ctl.ops[i], ops[i]) /\ ~active(ops[i])
             /\ ops[i].tasks = ctl.ops[i].tasks
  <2>0. OpShape(ctl.ops[i])
    BY <1>0, Zenon DEF OpsShape
  <2>1. CASE active(ctl.ops[i])
    <3>1. ctl.ops[i].status # "gone"
      BY Zenon, <2>1 DEF active
    <3>2. ops[i] = fail(ctl.ops[i])
      BY <2>1, Zenon
    <3>3. fail(ctl.ops[i]).tasks = ctl.ops[i].tasks
      BY Zenon, <2>0 DEF fail, OpShape, Formed
    <3> HIDE DEF ops
    <3> QED
      BY <2>0, <3>1, <3>2, <3>3, FailAges, Zenon
  <2>2. CASE ~active(ctl.ops[i])
    <3>1. ops[i] = ctl.ops[i]
      BY <2>2, Zenon
    <3> HIDE DEF ops
    <3> QED
      BY <2>0, <2>2, <3>1, AgesRefl, Zenon
  <2> QED
    BY <2>1, <2>2, Zenon
<1>5. IsSeq(ops)
  <2>1. PICK k \in Nat : ctl.ops = [i \in 1..k |-> ctl.ops[i]]
    BY <1>0, Zenon DEF OpsShape, IsSeq
  <2>2. DOMAIN ctl.ops = 1..k
    BY <2>1, Zenon
  <2>3. ops = [i \in 1..k |-> ops[i]]
    BY <2>2, Zenon
  <2> HIDE DEF ops
  <2> QED
    BY <2>3, Zenon DEF IsSeq
<1>6. DOMAIN ops = DOMAIN ctl.ops
  BY Zenon
<1> HIDE DEF ops
<1>7. CtlShape(c)
  BY <1>0, <1>2, <1>3, Zenon DEF CtlShape
<1>8. OpsShape(c)
  BY <1>2, <1>4, <1>5, <1>6, Zenon DEF OpsShape
<1>9. \A i \in DOMAIN ctl.ops :
          /\ ops[i].generation = ctl.ops[i].generation /\ ops[i].dgen = ctl.ops[i].dgen
          /\ ops[i].target = ctl.ops[i].target
          /\ ops[i].principal = ctl.ops[i].principal /\ ops[i].key = ctl.ops[i].key
          /\ ctl.ops[i].status = "gone" => ops[i].status = "gone"
  BY <1>4, Zenon DEF Ages, Persists
<1>10. GenOnce(c)
  BY Zenon, <1>0, <1>2, <1>6, <1>9 DEF GenOnce
<1>11. DgenOnce(c)
  BY <1>0, <1>2, <1>6, <1>9 DEF DgenOnce
<1>12. OneGoes(c)
  BY <1>2, <1>4, <1>6, Zenon DEF OneGoes
<1>13. OneKey(c)
  BY <1>0, <1>2, <1>6, <1>9 DEF OneKey
<1>14. Counted(c)
  <2>1. /\ c.generation \in Nat /\ c.rev \in Nat /\ ctl.rev <= c.rev /\ ctl.rev \in Nat
        /\ ctl.generation <= c.generation /\ ctl.generation \in Nat
        /\ c.deployment.gen \in Nat /\ c.deployment.gen # None /\ c.deployment.gen <= c.generation
    BY <1>0, <1>2, <1>3 DEF Counted, None
  <2>2. \A r \in Replicas : c.tasks[r].rev \in Nat /\ c.tasks[r].rev <= c.rev
    BY <1>0, <1>2, <2>1 DEF Counted
  <2>3. ASSUME NEW i \in DOMAIN c.ops
        PROVE  /\ c.ops[i].generation \in Nat /\ c.ops[i].generation <= c.generation
               /\ c.ops[i].dgen \in Nat /\ c.ops[i].dgen <= c.generation
               /\ c.ops[i].target \in Nat
               /\ c.ops[i].dgen # None => c.ops[i].target <= c.rev
    <3>1. /\ c.ops[i].generation = ctl.ops[i].generation /\ c.ops[i].dgen = ctl.ops[i].dgen
          /\ c.ops[i].target = ctl.ops[i].target /\ i \in DOMAIN ctl.ops
      BY <1>2, <1>6, <1>9, Zenon
    <3>2. /\ ctl.ops[i].generation \in Nat /\ ctl.ops[i].generation <= ctl.generation
          /\ ctl.ops[i].dgen \in Nat /\ ctl.ops[i].dgen <= ctl.generation
          /\ ctl.ops[i].target \in Nat
          /\ ctl.ops[i].dgen # None => ctl.ops[i].target <= ctl.rev
      BY <1>0, <3>1, Zenon DEF Counted
    <3> QED
      BY <2>1, <3>1, <3>2
  <2> QED
    BY <2>1, <2>2, <2>3, Zenon DEF Counted
<1>15. Sound(c)
  BY <1>7, <1>8, <1>10, <1>11, <1>12, <1>13, <1>14, Zenon DEF Sound
<1>16. Sound(ctl') /\ ctl'.ops = ops /\ SameTasks(c, ctl')
  BY <1>1, <1>2, <1>15, SettledSound, Zenon
<1>17. SameTasks(ctl, ctl')
  BY <1>2, <1>16, Zenon DEF SameTasks
<1> QED
  BY <1>4, <1>6, <1>16, <1>17, Zenon DEF OpsPersist, SameTargets, SameDgens, Ages

\* retry_stack_deployment: an operation goes on again only with its own deployment.
LEMMA RetrySound ==
    ASSUME BoundFits, Sound(ctl), Retry
    PROVE  /\ Sound(ctl') /\ OpsPersist(ctl, ctl') /\ SameTargets(ctl, ctl') /\ SameDgens(ctl, ctl')
           /\ SameTasks(ctl, ctl')
<1> DEFINE back(i) == [ctl.ops[i] EXCEPT !.status = "running"]
           goes(i) == ctl.ops[i].dgen = ctl.deployment.gen /\ ctl.ops[i].status = "failed"
           ops == [i \in DOMAIN ctl.ops |-> IF goes(i) THEN back(i) ELSE ctl.ops[i]]
<1>0. /\ CtlShape(ctl) /\ OpsShape(ctl) /\ GenOnce(ctl) /\ Counted(ctl) /\ DgenOnce(ctl)
      /\ OneGoes(ctl) /\ OneKey(ctl)
  BY Zenon DEF Sound
<1>1. ctl' = [ctl EXCEPT !.generation = @ + 1, !.deployment.status = "reconciling", !.ops = ops]
  BY Zenon DEF Retry
<1>2. /\ DOMAIN ctl' = DOMAIN ctl /\ ctl'.generation = ctl.generation + 1 /\ ctl'.rev = ctl.rev
      /\ DOMAIN ctl'.deployment = {"gen", "status"} /\ ctl'.deployment.gen = ctl.deployment.gen
      /\ ctl'.ops = ops /\ ctl'.tasks = ctl.tasks
  <2> HIDE DEF ops
  <2> QED
    BY Zenon, <1>0, <1>1 DEF CtlShape
<1>92. ctl.deployment.gen # None
  BY <1>0, Zenon DEF Counted
<1>3. ASSUME NEW i \in DOMAIN ctl.ops
      PROVE  /\ OpShape(ops[i]) /\ Persists(ctl.ops[i], ops[i])
             /\ ops[i].tasks = ctl.ops[i].tasks /\ ops[i].dgen = ctl.ops[i].dgen
             /\ ops[i].principal = ctl.ops[i].principal /\ ops[i].key = ctl.ops[i].key
             /\ active(ops[i]) => goes(i) \/ active(ctl.ops[i])
             /\ ops[i].status = "gone" <=> ctl.ops[i].status = "gone"
  <2>0. OpShape(ctl.ops[i])
    BY <1>0, Zenon DEF OpsShape
  <2>1. CASE goes(i)
    <3>1. ops[i] = back(i)
      BY <2>1, Zenon
    <3>2. ctl.ops[i].kind # "restart" /\ ctl.ops[i].status = "failed"
      BY <1>92, <2>0, <2>1, Zenon DEF OpShape, Formed
    <3>3. OpShape(back(i)) /\ Persists(ctl.ops[i], back(i))
      BY Zenon, <2>0, <3>2 DEF OpShape, Formed, Persists
    <3>4. /\ back(i).tasks = ctl.ops[i].tasks /\ back(i).dgen = ctl.ops[i].dgen
          /\ back(i).principal = ctl.ops[i].principal /\ back(i).key = ctl.ops[i].key
          /\ back(i).status = "running"
      BY Zenon, <2>0 DEF OpShape, Formed
    <3> HIDE DEF ops, back
    <3>5. back(i).status # "gone" /\ ctl.ops[i].status # "gone"
      BY Zenon, <3>2, <3>4
    <3> QED
      BY <2>1, <3>1, <3>3, <3>4, <3>5, Zenon
  <2>2. CASE ~goes(i)
    <3>1. ops[i] = ctl.ops[i]
      BY <2>2, Zenon
    <3> HIDE DEF ops
    <3> QED
      BY <2>0, <3>1, SamePersists, Zenon
  <2> QED
    BY <2>1, <2>2, Zenon
<1>4. IsSeq(ops)
  <2>1. PICK k \in Nat : ctl.ops = [i \in 1..k |-> ctl.ops[i]]
    BY <1>0, Zenon DEF OpsShape, IsSeq
  <2>2. DOMAIN ctl.ops = 1..k
    BY <2>1, Zenon
  <2>3. ops = [i \in 1..k |-> ops[i]]
    BY <2>2, Zenon
  <2> HIDE DEF ops
  <2> QED
    BY <2>3, Zenon DEF IsSeq
<1>5. DOMAIN ops = DOMAIN ctl.ops
  BY Zenon
<1> HIDE DEF ops
<1>6. CtlShape(ctl')
  BY <1>0, <1>2, Zenon DEF CtlShape
<1>7. OpsShape(ctl')
  BY <1>2, <1>3, <1>4, <1>5, Zenon DEF OpsShape
<1>8. \A i \in DOMAIN ctl.ops :
          /\ ops[i].generation = ctl.ops[i].generation /\ ops[i].dgen = ctl.ops[i].dgen
          /\ ops[i].target = ctl.ops[i].target
          /\ ops[i].principal = ctl.ops[i].principal /\ ops[i].key = ctl.ops[i].key
          /\ ctl.ops[i].status = "gone" => ops[i].status = "gone"
  BY <1>3, Zenon DEF Persists
<1>9. GenOnce(ctl')
  BY Zenon, <1>0, <1>2, <1>5, <1>8 DEF GenOnce
<1>10. DgenOnce(ctl')
  BY <1>0, <1>2, <1>5, <1>8 DEF DgenOnce
<1>11. OneKey(ctl')
  BY <1>0, <1>2, <1>5, <1>8 DEF OneKey
<1>12. OneGoes(ctl')
  <2>1. ASSUME NEW i \in DOMAIN ctl.ops, active(ops[i]) PROVE ctl.ops[i].dgen = ctl.deployment.gen
    <3>1. CASE goes(i)
      BY <3>1, Zenon
    <3>2. CASE active(ctl.ops[i])
      <4>1. ctl.ops[i].dgen # None
        BY <3>2, Zenon DEF Retry
      <4> QED
        BY <1>0, <3>2, <4>1, Zenon DEF OneGoes
    <3> QED
      BY <1>3, <2>1, <3>1, <3>2, Zenon
  <2>2. ASSUME NEW i \in DOMAIN ctl.ops, NEW j \in DOMAIN ctl.ops, active(ops[i]), active(ops[j]) PROVE i = j
    <3>1. ctl.ops[i].dgen = ctl.deployment.gen /\ ctl.ops[j].dgen = ctl.deployment.gen
      BY <2>1, <2>2, Zenon
    <3> QED
      BY Zenon, <1>0, <1>92, <3>1 DEF DgenOnce
  <2>3. \A i \in DOMAIN ctl.ops : active(ops[i]) => ops[i].dgen = ctl'.deployment.gen
    BY <1>2, <1>8, <2>1, Zenon
  <2> QED
    BY <1>2, <1>5, <2>2, <2>3, Zenon DEF OneGoes
<1>13. Counted(ctl')
  <2>1. /\ ctl'.generation \in Nat /\ ctl'.rev \in Nat /\ ctl.generation \in Nat
        /\ ctl.generation <= ctl'.generation
        /\ ctl'.deployment.gen \in Nat /\ ctl'.deployment.gen # None /\ ctl'.deployment.gen <= ctl'.generation
    BY <1>0, <1>2 DEF Counted
  <2>2. \A r \in Replicas : ctl'.tasks[r].rev \in Nat /\ ctl'.tasks[r].rev <= ctl'.rev
    BY <1>0, <1>2, Zenon DEF Counted
  <2>3. ASSUME NEW i \in DOMAIN ctl'.ops
        PROVE  /\ ctl'.ops[i].generation \in Nat /\ ctl'.ops[i].generation <= ctl'.generation
               /\ ctl'.ops[i].dgen \in Nat /\ ctl'.ops[i].dgen <= ctl'.generation
               /\ ctl'.ops[i].target \in Nat
               /\ ctl'.ops[i].dgen # None => ctl'.ops[i].target <= ctl'.rev
    <3>1. /\ ctl'.ops[i].generation = ctl.ops[i].generation /\ ctl'.ops[i].dgen = ctl.ops[i].dgen
          /\ ctl'.ops[i].target = ctl.ops[i].target /\ i \in DOMAIN ctl.ops
      BY <1>2, <1>5, <1>8, Zenon
    <3>2. /\ ctl.ops[i].generation \in Nat /\ ctl.ops[i].generation <= ctl.generation
          /\ ctl.ops[i].dgen \in Nat /\ ctl.ops[i].dgen <= ctl.generation
          /\ ctl.ops[i].target \in Nat
          /\ ctl.ops[i].dgen # None => ctl.ops[i].target <= ctl.rev
      BY <1>0, <3>1, Zenon DEF Counted
    <3> QED
      BY <1>2, <2>1, <3>1, <3>2
  <2> QED
    BY <2>1, <2>2, <2>3, Zenon DEF Counted
<1>14. OpsPersist(ctl, ctl') /\ SameTargets(ctl, ctl') /\ SameDgens(ctl, ctl') /\ SameTasks(ctl, ctl')
  BY <1>2, <1>3, <1>5, Zenon DEF OpsPersist, SameTargets, SameDgens, SameTasks
<1> QED
  BY <1>6, <1>7, <1>9, <1>10, <1>11, <1>12, <1>13, <1>14, Zenon DEF Sound

\* A deployment that stalls or fails keeps the record sound.
LEMMA SuffersSound ==
    ASSUME BoundFits, Sound(ctl), NEW status, DeploymentSuffers(status)
    PROVE  /\ Sound(ctl') /\ OpsPersist(ctl, ctl') /\ SameDgens(ctl, ctl') /\ SameTasks(ctl, ctl')
           /\ \A i \in DOMAIN ctl.ops : Earned(ctl, ctl.ops[i], ctl'.ops[i])
<1> DEFINE c == [ctl EXCEPT !.deployment.status = status]
<1>0. CtlShape(ctl) /\ OpsShape(ctl)
  BY Zenon DEF Sound
<1>1. ctl' = Advance(c) /\ deployment_active(ctl)
  BY Zenon DEF DeploymentSuffers
<1>2. /\ DOMAIN c = DOMAIN ctl /\ c.generation = ctl.generation /\ c.rev = ctl.rev
      /\ c.image = ctl.image /\ c.deleted = ctl.deleted
      /\ DOMAIN c.deployment = {"gen", "status"} /\ c.deployment.gen = ctl.deployment.gen
      /\ c.ops = ctl.ops /\ c.tasks = ctl.tasks
  BY Zenon, <1>0 DEF CtlShape
<1> HIDE DEF c
<1>3. CtlShape(c) /\ OpsShape(c)
  BY <1>0, <1>2, Zenon DEF CtlShape, OpsShape
<1>4. CtlAges(ctl, c)
  BY <1>1, <1>2, AgesRefl, Zenon DEF CtlAges
<1>5. /\ CtlShape(ctl') /\ OpsShape(ctl') /\ CtlAges(c, ctl') /\ ctl'.tasks = c.tasks
      /\ \A i \in DOMAIN c.ops : Earned(c, c.ops[i], ctl'.ops[i])
  BY <1>1, <1>3, AdvanceAges, Zenon
<1>6. CtlAges(ctl, ctl')
  BY <1>4, <1>5, CtlAgesTrans, Zenon
<1>7. Sound(ctl') /\ OpsPersist(ctl, ctl') /\ SameDgens(ctl, ctl')
  BY <1>5, <1>6, AgesSound, AgesPersist, AgesDgens, Zenon
<1>8. ASSUME NEW i \in DOMAIN ctl.ops PROVE Earned(ctl, ctl.ops[i], ctl'.ops[i])
  <2>1. Earned(c, ctl.ops[i], ctl'.ops[i])
    BY <1>2, <1>5, Zenon
  <2> QED
    BY <1>2, <2>1, Zenon DEF Earned
<1> QED
  BY <1>2, <1>5, <1>7, <1>8, Zenon DEF SameTasks

\* tick keeps the record sound.
LEMMA TickSound ==
    ASSUME BoundFits, Sound(ctl), Tick
    PROVE  /\ Sound(ctl') /\ OpsPersist(ctl, ctl') /\ SameDgens(ctl, ctl') /\ SameTasks(ctl, ctl')
           /\ CtlAges(ctl, ctl')
           /\ \A i \in DOMAIN ctl.ops : Earned(ctl, ctl.ops[i], ctl'.ops[i])
<1>1. CtlShape(ctl) /\ OpsShape(ctl) /\ ctl' = Settle(ctl)
  BY Zenon DEF Sound, Tick
<1>2. /\ CtlShape(ctl') /\ OpsShape(ctl') /\ CtlAges(ctl, ctl')
      /\ \A r \in Replicas : /\ ctl'.tasks[r].container = ctl.tasks[r].container
                             /\ ctl'.tasks[r].observed = ctl.tasks[r].observed
      /\ \A i \in DOMAIN ctl.ops : Earned(ctl, ctl.ops[i], ctl'.ops[i])
  BY <1>1, SettleAges, Zenon
<1>3. Sound(ctl') /\ OpsPersist(ctl, ctl') /\ SameDgens(ctl, ctl')
  BY <1>2, AgesSound, AgesPersist, AgesDgens, Zenon
<1>4. SameTasks(ctl, ctl')
  BY <1>2, Zenon DEF SameTasks, CtlAges
<1> QED
  BY <1>2, <1>3, <1>4, Zenon

\* heartbeat: the record after the inventory, the results, the images and what follows them.
LEMMA HeartbeatAges ==
    ASSUME NEW n, NEW m, BoundFits, Sound(ctl)
    PROVE  Beats(n, m, Settle(Pulled(Results(Observed(ctl, n, m.inventory), n, m.results), n, m.pulled)))
<1> DEFINE c1 == Observed(ctl, n, m.inventory)
           c2 == Results(c1, n, m.results)
           c3 == Pulled(c2, n, m.pulled)
           d == Settle(c3)
           seen(r) == ctl.tasks[r].node = n /\ r \in DOMAIN m.inventory
<1>0. CtlShape(ctl) /\ OpsShape(ctl) /\ GenOnce(ctl)
  BY Zenon DEF Sound
<1>1. /\ CtlShape(c1) /\ OpsShape(c1) /\ CtlAges(ctl, c1) /\ c1.ops = ctl.ops
      /\ \A r \in Replicas :
            IF seen(r) THEN /\ c1.tasks[r].container = m.inventory[r].container
                            /\ c1.tasks[r].observed = m.inventory[r].observed
            ELSE c1.tasks[r] = ctl.tasks[r]
  BY <1>0, ObservedAges
<1> HIDE DEF c1
<1>2. GenOnce(c1)
  BY <1>0, <1>1, AgesGenOnce, ZenonT(40)
<1>3. /\ CtlShape(c2) /\ OpsShape(c2) /\ CtlAges(c1, c2)
      /\ \A r \in Replicas : /\ c2.tasks[r].container = c1.tasks[r].container
                             /\ \/ c2.tasks[r].observed = "starting"
                                \/ c2.tasks[r].observed = c1.tasks[r].observed
      /\ \A i \in DOMAIN c1.ops, r \in Replicas :
            /\ c2.ops[i].tasks[r].completed = c1.ops[i].tasks[r].completed
            /\ c2.ops[i].tasks[r].restarted /\ ~c1.ops[i].tasks[r].restarted
                  => /\ \E x \in m.results : x.ok /\ x.replica = r /\ i \in Matches(c1, n, x)
                     /\ c2.tasks[r].observed = "starting"
  BY SMTT(30), <1>1, <1>2, ResultsAges
<1> HIDE DEF c2
<1>4. /\ CtlShape(c3) /\ OpsShape(c3) /\ CtlAges(c2, c3) /\ c3.tasks = c2.tasks
      /\ \A i \in DOMAIN c2.ops : c3.ops[i].tasks = c2.ops[i].tasks
  BY SMTT(30), <1>3, PulledAges
<1> HIDE DEF c3
<1>6. /\ CtlShape(d) /\ OpsShape(d) /\ CtlAges(c3, d)
      /\ \A r \in Replicas : /\ d.tasks[r].container = c3.tasks[r].container
                             /\ d.tasks[r].observed = c3.tasks[r].observed
      /\ \A i \in DOMAIN c3.ops : Earned(c3, c3.ops[i], d.ops[i])
  BY <1>4, SettleAges, Zenon
<1> HIDE DEF d
<1>7. CtlAges(ctl, c3)
  <2>1. CtlAges(ctl, c2)
    BY <1>1, <1>3, CtlAgesTrans, Zenon
  <2> QED
    BY <2>1, <1>4, CtlAgesTrans, Zenon
<1>8. CtlAges(ctl, d)
  BY <1>6, <1>7, CtlAgesTrans, Zenon
<1>9. ASSUME NEW r \in Replicas
      PROVE  /\ IF seen(r)
                THEN /\ d.tasks[r].container = m.inventory[r].container
                     /\ d.tasks[r].observed \in {"starting", m.inventory[r].observed}
                ELSE /\ d.tasks[r].container = ctl.tasks[r].container
                     /\ d.tasks[r].observed \in {"starting", ctl.tasks[r].observed}
             /\ d.tasks[r].container = c2.tasks[r].container
             /\ d.tasks[r].observed = c2.tasks[r].observed
  <2>1. d.tasks[r].container = c2.tasks[r].container /\ d.tasks[r].observed = c2.tasks[r].observed
    BY <1>4, <1>6, Zenon
  <2>2. /\ c2.tasks[r].container = c1.tasks[r].container
        /\ \/ c2.tasks[r].observed = "starting"
           \/ c2.tasks[r].observed = c1.tasks[r].observed
    BY <1>3, Zenon
  <2>3. IF seen(r) THEN /\ c1.tasks[r].container = m.inventory[r].container
                        /\ c1.tasks[r].observed = m.inventory[r].observed
        ELSE c1.tasks[r] = ctl.tasks[r]
    BY <1>1, Zenon
  <2> HIDE DEF seen
  <2> QED
    BY <2>1, <2>2, <2>3, Zenon
<1>10. ASSUME NEW i \in DOMAIN ctl.ops, NEW r \in Replicas
       PROVE  /\ i \in DOMAIN c1.ops /\ i \in DOMAIN c2.ops /\ i \in DOMAIN c3.ops
              /\ c1.ops[i] = ctl.ops[i] /\ c3.ops[i].tasks = c2.ops[i].tasks
              /\ Earned(c3, c3.ops[i], d.ops[i]) /\ Ages(ctl.ops[i], c3.ops[i])
              /\ c2.ops[i].tasks[r].completed = ctl.ops[i].tasks[r].completed
  <2>1. DOMAIN c1.ops = DOMAIN ctl.ops /\ DOMAIN c2.ops = DOMAIN ctl.ops /\ DOMAIN c3.ops = DOMAIN ctl.ops
    BY <1>1, <1>3, <1>4, Zenon DEF CtlAges
  <2>2. Ages(ctl.ops[i], c3.ops[i])
    BY <1>7, Zenon DEF CtlAges
  <2>3. i \in DOMAIN c1.ops /\ i \in DOMAIN c2.ops /\ i \in DOMAIN c3.ops
    BY <2>1, Zenon
  <2>4. c1.ops[i] = ctl.ops[i] /\ c3.ops[i].tasks = c2.ops[i].tasks /\ Earned(c3, c3.ops[i], d.ops[i])
    BY <1>1, <1>4, <1>6, <2>3, Zenon
  <2>5. c2.ops[i].tasks[r].completed = c1.ops[i].tasks[r].completed
    BY <1>3, <2>3, ZenonT(40)
  <2> QED
    BY <2>2, <2>3, <2>4, <2>5, Zenon
<1>11. ASSUME NEW i \in DOMAIN ctl.ops, NEW r \in Replicas,
              d.ops[i].tasks[r].restarted, ~ctl.ops[i].tasks[r].restarted
       PROVE  /\ d.tasks[r].observed = "starting"
              /\ \E x \in m.results : /\ x.ok /\ x.replica = r /\ x.generation = ctl.ops[i].generation
                                      /\ ctl.ops[i].tasks[r].node = n
  <2>1. c2.ops[i].tasks[r].restarted
    <3>1. Earned(c3, c3.ops[i], d.ops[i]) /\ c3.ops[i].tasks = c2.ops[i].tasks
      BY <1>10, Zenon
    <3> QED
      BY <1>11, <3>1, Zenon DEF Earned
  <2>2. i \in DOMAIN c1.ops /\ c1.ops[i] = ctl.ops[i]
    BY <1>10, Zenon
  <2>3. /\ \E x \in m.results : x.ok /\ x.replica = r /\ i \in Matches(c1, n, x)
        /\ c2.tasks[r].observed = "starting"
    BY <1>3, <1>11, <2>1, <2>2, Zenon
  <2>4. PICK x \in m.results : x.ok /\ x.replica = r /\ i \in Matches(c1, n, x)
    BY <2>3, Zenon
  <2>5. x.generation = ctl.ops[i].generation /\ ctl.ops[i].tasks[r].node = n
    BY <2>2, <2>4, Zenon DEF Matches
  <2> QED
    BY <1>9, <2>3, <2>4, <2>5, Zenon
<1>12. ASSUME NEW i \in DOMAIN ctl.ops, NEW r \in Replicas,
              d.ops[i].tasks[r].completed, ~ctl.ops[i].tasks[r].completed
       PROVE  /\ active(ctl.ops[i]) /\ ctl.ops[i].kind = "restart" /\ ctl.ops[i].tasks[r].restarted
              /\ d.tasks[r].container = ctl.ops[i].tasks[r].container
              /\ d.tasks[r].observed = "healthy"
  <2>1. /\ Earned(c3, c3.ops[i], d.ops[i]) /\ c3.ops[i].tasks = c2.ops[i].tasks
        /\ c2.ops[i].tasks[r].completed = ctl.ops[i].tasks[r].completed
        /\ Ages(ctl.ops[i], c3.ops[i]) /\ i \in DOMAIN c1.ops /\ c1.ops[i] = ctl.ops[i]
    BY <1>10, Zenon
  <2>2. /\ active(c3.ops[i]) /\ c3.ops[i].kind = "restart" /\ c3.ops[i].tasks[r].restarted
        /\ c3.tasks[r].container = c3.ops[i].tasks[r].container
        /\ c3.tasks[r].observed = "healthy"
    BY <1>12, <2>1, Zenon DEF Earned
  <2>3. /\ active(ctl.ops[i]) /\ ctl.ops[i].kind = "restart"
        /\ c3.ops[i].tasks[r].container = ctl.ops[i].tasks[r].container
    BY <2>1, <2>2, Zenon DEF Ages, Persists
  <2>4. c2.tasks[r].observed # "starting"
    BY Zenon, <1>4, <2>2
  <2>5. ctl.ops[i].tasks[r].restarted
    BY <1>3, <2>1, <2>2, <2>4, Zenon
  <2> QED
    BY <1>6, <2>2, <2>3, <2>5, Zenon
<1>13. Beats(n, m, d)
  BY <1>6, <1>8, <1>9, <1>11, <1>12, Zenon DEF Beats
<1> QED
  BY <1>13, Zenon DEF c1, c2, c3, d

\* heartbeat keeps the record sound.
LEMMA HeartbeatSound ==
    ASSUME BoundFits, Sound(ctl), NEW n, HandleHeartbeat(n)
    PROVE  /\ Sound(ctl') /\ OpsPersist(ctl, ctl') /\ SameDgens(ctl, ctl')
           /\ Beats(n, net[n], ctl')
<1>1. Beats(n, net[n], ctl')
  BY HeartbeatAges, Zenon DEF HandleHeartbeat
<1>2. CtlShape(ctl') /\ OpsShape(ctl') /\ CtlAges(ctl, ctl')
  BY <1>1, Zenon DEF Beats
<1> QED
  BY <1>1, <1>2, AgesSound, AgesPersist, AgesDgens, Zenon

\* current_live_nodes: a node that times out leaves the operations alone.
LEMMA TimesOutAges ==
    ASSUME Sound(ctl), NEW n, NodeTimesOut(n)
    PROVE  /\ CtlShape(ctl') /\ OpsShape(ctl') /\ CtlAges(ctl, ctl')
           /\ ctl'.ops = ctl.ops /\ ctl'.tasks = ctl.tasks
<1>0. CtlShape(ctl) /\ OpsShape(ctl)
  BY Zenon DEF Sound
<1>1. ctl' = [ctl EXCEPT !.live = @ \ {n}]
  BY Zenon DEF NodeTimesOut
<1>2. /\ DOMAIN ctl' = DOMAIN ctl /\ ctl'.generation = ctl.generation /\ ctl'.rev = ctl.rev
      /\ ctl'.image = ctl.image /\ ctl'.deleted = ctl.deleted /\ ctl'.deployment = ctl.deployment
      /\ ctl'.ops = ctl.ops /\ ctl'.tasks = ctl.tasks
  BY Zenon, <1>0, <1>1 DEF CtlShape
<1>3. CtlShape(ctl') /\ OpsShape(ctl')
  BY <1>0, <1>2, Zenon DEF CtlShape, OpsShape
<1>4. CtlAges(ctl, ctl')
  BY <1>2, AgesRefl, Zenon DEF CtlAges, deployment_active
<1> QED
  BY <1>2, <1>3, <1>4, Zenon

\* Controller::new: after a restart the operations are the committed ones.
LEMMA RestartCtlAges ==
    ASSUME Sound(ctl), RestartController
    PROVE  /\ CtlShape(ctl') /\ OpsShape(ctl') /\ CtlAges(ctl, ctl') /\ ctl'.ops = ctl.ops
           /\ \A r \in Replicas : ctl'.tasks[r].container = None /\ ctl'.tasks[r].observed = "pending"
<1> DEFINE blank(r) == [ctl.tasks[r] EXCEPT !.container = None, !.image = None, !.observed = "pending"]
<1>0. CtlShape(ctl) /\ OpsShape(ctl)
  BY Zenon DEF Sound
<1>1. ctl' = [ctl EXCEPT !.known = {}, !.live = {ctl.tasks[r].node : r \in Replicas},
                         !.tasks = [r \in Replicas |-> blank(r)]]
  BY Zenon DEF RestartController
<1>2. ASSUME NEW r \in Replicas
      PROVE  /\ DOMAIN blank(r) = DOMAIN ctl.tasks[r] /\ blank(r).rev = ctl.tasks[r].rev
             /\ blank(r).node = ctl.tasks[r].node /\ blank(r).container = None
             /\ blank(r).observed = "pending"
  BY Zenon, <1>0 DEF CtlShape
<1> HIDE DEF blank
<1>3. /\ DOMAIN ctl' = DOMAIN ctl /\ ctl'.generation = ctl.generation /\ ctl'.rev = ctl.rev
      /\ ctl'.image = ctl.image /\ ctl'.deleted = ctl.deleted /\ ctl'.deployment = ctl.deployment
      /\ ctl'.ops = ctl.ops /\ ctl'.tasks = [r \in Replicas |-> blank(r)]
  BY Zenon, <1>0, <1>1 DEF CtlShape
<1>4. DOMAIN ctl'.tasks = Replicas /\ \A r \in Replicas : ctl'.tasks[r] = blank(r)
  BY <1>3, Zenon
<1>5. CtlShape(ctl') /\ OpsShape(ctl')
  BY <1>0, <1>2, <1>3, <1>4, Zenon DEF CtlShape, OpsShape
<1>6. CtlAges(ctl, ctl')
  BY <1>2, <1>3, <1>4, AgesRefl, ZenonT(40) DEF CtlAges, deployment_active
<1> QED
  BY <1>2, <1>3, <1>4, <1>5, <1>6, Zenon

\* apply_prepared_service_operation: the checks before the commit age the record.
LEMMA CheckAges ==
    ASSUME Sound(ctl), Started, CheckPrepared
    PROVE  /\ CtlShape(ctl') /\ OpsShape(ctl') /\ CtlAges(ctl, ctl') /\ SameTargets(ctl, ctl')
           /\ ctl'.tasks = ctl.tasks
<1> DEFINE s == starting.op
           o == ctl.ops[s]
           p == IF o.status = "gone" THEN o ELSE fail(o)
<1>0. CtlShape(ctl) /\ OpsShape(ctl)
  BY Zenon DEF Sound
<1>1. CASE UNCHANGED ctl
  BY <1>0, <1>1, AgesRefl, Zenon DEF CtlAges, SameTargets
<1>2. CASE ctl' = [ctl EXCEPT !.ops[s] = p]
  <2>1. s \in DOMAIN ctl.ops /\ OpShape(o)
    BY Zenon, <1>0 DEF CheckPrepared, Started, OpsShape
  <2>2. OpShape(p) /\ Ages(o, p) /\ p.tasks = o.tasks
    <3>1. fail(o).tasks = o.tasks
      BY Zenon, <2>1 DEF fail, OpShape, Formed
    <3> QED
      BY <2>1, <3>1, FailAges, AgesRefl, Zenon
  <2> HIDE DEF s, o, p
  <2>3. /\ DOMAIN ctl' = DOMAIN ctl /\ ctl'.generation = ctl.generation /\ ctl'.rev = ctl.rev
        /\ ctl'.image = ctl.image /\ ctl'.deleted = ctl.deleted /\ ctl'.deployment = ctl.deployment
        /\ ctl'.ops = [ctl.ops EXCEPT ![s] = p] /\ ctl'.tasks = ctl.tasks
    BY Zenon, <1>0, <1>2 DEF CtlShape
  <2>4. /\ DOMAIN ctl'.ops = DOMAIN ctl.ops /\ ctl'.ops[s] = p
        /\ \A i \in DOMAIN ctl.ops : i # s => ctl'.ops[i] = ctl.ops[i]
    BY <2>1, <2>3, Zenon
  <2>5. ASSUME NEW i \in DOMAIN ctl.ops
        PROVE  OpShape(ctl'.ops[i]) /\ Ages(ctl.ops[i], ctl'.ops[i]) /\ ctl'.ops[i].tasks = ctl.ops[i].tasks
    <3>1. CASE i = s
      BY <2>2, <2>4, <3>1, Zenon DEF o
    <3>2. CASE i # s
      BY <1>0, <2>4, <3>2, AgesRefl, Zenon DEF OpsShape
    <3> QED
      BY <3>1, <3>2, Zenon
  <2>6. IsSeq(ctl'.ops)
    BY Zenon, <1>0, <2>3 DEF OpsShape, IsSeq
  <2>7. CtlShape(ctl') /\ OpsShape(ctl')
    BY <1>0, <2>3, <2>4, <2>5, <2>6, Zenon DEF CtlShape, OpsShape
  <2>8. CtlAges(ctl, ctl') /\ SameTargets(ctl, ctl')
    BY <2>3, <2>4, <2>5, Zenon DEF CtlAges, SameTargets, deployment_active
  <2> QED
    BY <2>3, <2>7, <2>8, Zenon
<1> QED
  BY <1>1, <1>2, Zenon DEF CheckPrepared

\* apply_guarded for a prepared operation: it is deployed as the next revision, under a new
\* generation, with the image it was accepted with.
LEMMA ApplyPreparedSound ==
    ASSUME BoundFits, Sound(ctl), Started, ApplyPrepared
    PROVE  /\ Sound(ctl') /\ OpsPersist(ctl, ctl') /\ SameTargets(ctl, ctl') /\ SameTasks(ctl, ctl')
           /\ Deploys(ctl, ctl')
<1> DEFINE s == starting.op
           o == ctl.ops[s]
           g == ctl.generation + 1
           p == [o EXCEPT !.dgen = g]
           dep == [gen |-> g, status |-> "reconciling"]
           c == [ctl EXCEPT !.generation = @ + 1, !.rev = @ + 1, !.deployment = dep, !.ops[s].dgen = g]
<1>0. /\ CtlShape(ctl) /\ OpsShape(ctl) /\ GenOnce(ctl) /\ Counted(ctl) /\ DgenOnce(ctl)
      /\ OneGoes(ctl) /\ OneKey(ctl)
  BY Zenon DEF Sound
<1>1. ctl' = IF StillAsAccepted(ctl, o) THEN Refresh(Reconcile(c)) ELSE ctl
  BY Zenon DEF ApplyPrepared
<1>2. CASE ~StillAsAccepted(ctl, o)
  <2>1. ctl' = ctl
    BY <1>1, <1>2, Zenon
  <2> QED
    BY <2>1, SamePersists, Zenon DEF OpsPersist, SameTargets, SameTasks, Deploys
<1>3. CASE StillAsAccepted(ctl, o)
  <2>1. s \in DOMAIN ctl.ops /\ o.kind = "pull" /\ ~ctl.deleted
    BY Zenon DEF ApplyPrepared, Started
  <2>2. /\ active(o) /\ o.dgen = None /\ o.target = ctl.rev + 1 /\ o.image = ctl.image
    BY <1>3, Zenon DEF StillAsAccepted, Unchanged
  <2>3. OpShape(o)
    BY <1>0, <2>1, Zenon DEF OpsShape
  <2>4. /\ DOMAIN p = DOMAIN o /\ p.dgen = g /\ p.kind = o.kind /\ p.generation = o.generation
        /\ p.target = o.target /\ p.image = o.image /\ p.status = o.status /\ p.prepared = o.prepared
        /\ p.tasks = o.tasks /\ p.principal = o.principal /\ p.key = o.key
    BY Zenon, <2>3 DEF OpShape, Formed
  <2>5. dep.gen = g /\ DOMAIN dep = {"gen", "status"}
    BY Zenon
  <2>6. /\ DOMAIN c = DOMAIN ctl /\ c.generation = g /\ c.rev = ctl.rev + 1 /\ c.image = ctl.image
        /\ c.deployment = dep /\ c.tasks = ctl.tasks /\ c.ops = [ctl.ops EXCEPT ![s] = p]
    <3> HIDE DEF dep, s
    <3>1. /\ DOMAIN c = DOMAIN ctl /\ c.generation = g /\ c.rev = ctl.rev + 1 /\ c.image = ctl.image
          /\ c.deployment = dep /\ c.tasks = ctl.tasks
      BY Zenon, <1>0 DEF CtlShape
    <3>2. c.ops = [ctl.ops EXCEPT ![s].dgen = g]
      <4> HIDE DEF g
      <4> QED
        BY Zenon, <1>0 DEF CtlShape
    <3> HIDE DEF c
    <3>3. c.ops = [ctl.ops EXCEPT ![s] = p]
      BY <3>2, Zenon
    <3> QED
      BY <3>1, <3>3, Zenon
  <2> HIDE DEF c, dep, p, o, s
  <2>7. /\ DOMAIN c.ops = DOMAIN ctl.ops /\ c.ops[s] = p
        /\ \A i \in DOMAIN ctl.ops : i # s => c.ops[i] = ctl.ops[i]
    BY <2>1, <2>6, Zenon
  <2>8. OpShape(p) /\ Persists(o, p)
    <3>1. Pending(p) = Pending(o)
      BY <2>4, Zenon DEF Pending
    <3>2. Formed(p)
      BY <2>1, <2>3, <2>4, Zenon DEF OpShape, Formed
    <3> QED
      BY <2>3, <2>4, <3>1, <3>2, Zenon DEF OpShape, Persists, active
  <2>9. CtlShape(c)
    BY <1>0, <2>5, <2>6, Zenon DEF CtlShape
  <2>10. OpsShape(c)
    <3>1. IsSeq(c.ops)
      BY Zenon, <1>0, <2>6 DEF OpsShape, IsSeq
    <3> QED
      BY <1>0, <2>7, <2>8, <3>1, Zenon DEF OpsShape
  <2>11. \A i \in DOMAIN ctl.ops :
            /\ c.ops[i].generation = ctl.ops[i].generation /\ c.ops[i].target = ctl.ops[i].target
            /\ c.ops[i].principal = ctl.ops[i].principal /\ c.ops[i].key = ctl.ops[i].key
            /\ c.ops[i].status = ctl.ops[i].status /\ c.ops[i].tasks = ctl.ops[i].tasks
            /\ c.ops[i].dgen = IF i = s THEN g ELSE ctl.ops[i].dgen
    <3> HIDE DEF g
    <3> QED
      BY <2>4, <2>7, Zenon DEF o
  <2>12. GenOnce(c)
    BY Zenon, <1>0, <2>7, <2>11 DEF GenOnce
  <2>13. OneKey(c)
    BY <1>0, <2>7, <2>11 DEF OneKey
  <2>14. /\ ctl.generation \in Nat /\ ctl.rev \in Nat /\ g \in Nat /\ g # None
    BY <1>0 DEF Counted, None
  <2>15. \A i \in DOMAIN ctl.ops : ctl.ops[i].dgen # g
    BY <1>0 DEF Counted
  <2>16. \A i \in DOMAIN ctl.ops : ctl.ops[i].dgen # None => ctl.ops[i].target # o.target
    BY <1>0, <2>2 DEF Counted
  <2>17. DgenOnce(c)
    <3> SUFFICES ASSUME NEW i \in DOMAIN ctl.ops, NEW j \in DOMAIN ctl.ops,
                        c.ops[i].dgen # None, c.ops[j].dgen # None,
                        c.ops[i].dgen = c.ops[j].dgen \/ c.ops[i].target = c.ops[j].target
                 PROVE  i = j
      BY <2>7, Zenon DEF DgenOnce
    <3> HIDE DEF g
    <3>1. CASE i # s /\ j # s
      BY ZenonT(40), <1>0, <2>11, <3>1 DEF DgenOnce
    <3>2. CASE i = s /\ j # s
      BY <2>11, <2>15, <2>16, <3>2, Zenon DEF o
    <3>3. CASE i # s /\ j = s
      BY <2>11, <2>15, <2>16, <3>3, Zenon DEF o
    <3> QED
      BY <3>1, <3>2, <3>3, Zenon
  <2>18. OneGoes(c)
    <3> HIDE DEF g
    <3>1. \A i \in DOMAIN ctl.ops : active(ctl.ops[i]) => i = s
      BY <1>0, <2>1, <2>2, Zenon DEF OneGoes, o
    <3>2. \A i \in DOMAIN c.ops : active(c.ops[i]) => i = s
      BY <2>7, <2>11, <3>1, Zenon DEF active
    <3>3. c.ops[s].dgen = c.deployment.gen
      BY <2>1, <2>5, <2>6, <2>11, Zenon
    <3> QED
      BY <3>2, <3>3, Zenon DEF OneGoes
  <2>19. Counted(c)
    <3>1. /\ c.generation \in Nat /\ c.rev \in Nat /\ ctl.rev <= c.rev /\ ctl.generation <= c.generation
          /\ c.deployment.gen \in Nat /\ c.deployment.gen # None /\ c.deployment.gen <= c.generation
      BY <2>5, <2>6, <2>14
    <3>2. \A r \in Replicas : c.tasks[r].rev \in Nat /\ c.tasks[r].rev <= c.rev
      BY <1>0, <2>6, <2>14 DEF Counted
    <3>3. ASSUME NEW i \in DOMAIN ctl.ops
          PROVE  /\ c.ops[i].generation \in Nat /\ c.ops[i].generation <= c.generation
                 /\ c.ops[i].dgen \in Nat /\ c.ops[i].dgen <= c.generation
                 /\ c.ops[i].target \in Nat
                 /\ c.ops[i].dgen # None => c.ops[i].target <= c.rev
      <4>1. /\ ctl.ops[i].generation \in Nat /\ ctl.ops[i].generation <= ctl.generation
            /\ ctl.ops[i].dgen \in Nat /\ ctl.ops[i].dgen <= ctl.generation
            /\ ctl.ops[i].target \in Nat
            /\ ctl.ops[i].dgen # None => ctl.ops[i].target <= ctl.rev
        BY <1>0, Zenon DEF Counted
      <4>2. /\ c.ops[i].generation = ctl.ops[i].generation /\ c.ops[i].target = ctl.ops[i].target
            /\ c.ops[i].dgen = IF i = s THEN g ELSE ctl.ops[i].dgen
        BY <2>11, Zenon
      <4>3. i = s => ctl.ops[i].target = ctl.rev + 1
        BY <2>2, Zenon DEF o
      <4> QED
        BY <2>6, <2>14, <3>1, <4>1, <4>2, <4>3
    <3> QED
      BY <2>7, <3>1, <3>2, <3>3, Zenon DEF Counted
  <2>20. Sound(c)
    BY <2>9, <2>10, <2>12, <2>13, <2>17, <2>18, <2>19, Zenon DEF Sound
  <2>21. ctl' = Refresh(Reconcile(c))
    BY <1>1, <1>3, Zenon
  <2>22. Sound(ctl') /\ ctl'.ops = c.ops /\ CtlAges(c, ctl') /\ SameTasks(c, ctl')
    BY <2>20, <2>21, SettledSound, Zenon
  <2>23. OpsPersist(ctl, ctl') /\ SameTargets(ctl, ctl') /\ SameTasks(ctl, ctl')
    <3>1. \A i \in DOMAIN ctl.ops : Persists(ctl.ops[i], c.ops[i])
      BY <2>7, <2>8, SamePersists, Zenon DEF o
    <3>2. OpsPersist(ctl, ctl')
      BY <2>7, <2>22, <3>1, Zenon DEF OpsPersist
    <3>3. SameTargets(ctl, ctl')
      BY <2>11, <2>22, Zenon DEF SameTargets
    <3>4. SameTasks(ctl, ctl')
      BY <2>6, <2>22, Zenon DEF SameTasks
    <3> QED
      BY <3>2, <3>3, <3>4, Zenon
  <2>24. ctl'.rev = ctl.rev + 1 /\ ctl'.image = ctl.image
    BY <2>6, <2>22, Zenon DEF CtlAges
  <2>25. \A i \in DOMAIN ctl.ops : ctl'.ops[i].dgen # ctl.ops[i].dgen => i = s
    BY <2>11, <2>22, Zenon
  <2> QED
    BY <2>1, <2>2, <2>22, <2>23, <2>24, <2>25, Zenon DEF o, Deploys
<1> QED
  BY <1>2, <1>3, Zenon

-----------------------------------------------------------------------------
\* The containers.

\* The containers after one of them is started, becomes healthy or crashes.
LEMMA OneContainer ==
    ASSUME ContFits, NEW r, NEW new, cont' = [cont EXCEPT ![r] = new], UNCHANGED <<bound, ctl>>,
           r \in Replicas =>
             /\ DOMAIN new = DOMAIN cont[r] /\ new.id = cont[r].id /\ new.node = cont[r].node
             /\ new.image = cont[r].image
             /\ new.started \in Nat /\ new.started >= cont[r].started
             /\ new.lastHealthy \in Nat /\ new.lastHealthy >= cont[r].lastHealthy
             /\ new.lastHealthy <= new.started
             /\ new.healthy => new.lastHealthy = new.started
    PROVE  ContFits' /\ ContStep
<1>1. Replicas' = Replicas
  BY Zenon DEF Replicas
<1>2. DOMAIN cont' = Replicas
  BY Zenon DEF ContFits
<1>3. ASSUME NEW q \in Replicas
      PROVE  /\ cont'[q].id = cont[q].id /\ cont'[q].node = cont[q].node /\ cont'[q].image = cont[q].image
             /\ cont'[q].started \in Nat /\ cont'[q].started >= cont[q].started
             /\ cont'[q].lastHealthy \in Nat /\ cont'[q].lastHealthy >= cont[q].lastHealthy
             /\ DOMAIN cont'[q] = {"id", "node", "image", "started", "healthy", "lastHealthy"}
             /\ cont'[q].id \in Nat /\ cont'[q].id # None
             /\ cont'[q].lastHealthy <= cont'[q].started
             /\ cont'[q].healthy => cont'[q].lastHealthy = cont'[q].started
             /\ ctl'.tasks[q].node = cont'[q].node
  <2>0. /\ DOMAIN cont[q] = {"id", "node", "image", "started", "healthy", "lastHealthy"}
        /\ cont[q].id \in Nat /\ cont[q].id # None
        /\ cont[q].started \in Nat /\ cont[q].lastHealthy \in Nat
        /\ cont[q].lastHealthy <= cont[q].started
        /\ cont[q].healthy => cont[q].lastHealthy = cont[q].started
        /\ ctl.tasks[q].node = cont[q].node
    BY Zenon DEF ContFits
  <2>1. CASE q = r
    <3>1. cont'[q] = new
      BY <2>1, Zenon DEF ContFits
    <3> QED
      BY <2>0, <2>1, <3>1, Zenon
  <2>2. CASE q # r
    <3>1. cont'[q] = cont[q]
      BY <2>2, Zenon DEF ContFits
    <3>2. cont[q].started >= cont[q].started /\ cont[q].lastHealthy >= cont[q].lastHealthy
      BY <2>0
    <3> QED
      BY <2>0, <3>1, <3>2, Zenon
  <2> QED
    BY <2>1, <2>2, Zenon
<1>4. ContStep
  BY <1>3, Zenon DEF ContStep
<1>5. ContFits'
  BY <1>1, <1>2, <1>3, Zenon DEF ContFits
<1> QED
  BY <1>4, <1>5, Zenon

\* What the daemon and the containers do leaves the records alone.
LEMMA ContainersStep ==
    ASSUME ContFits, NEW r, NEW q, DaemonRestarts(q) \/ BecomeHealthy(r) \/ Crash(r)
    PROVE  UNCHANGED <<bound, ctl, starting, agent, net, ledger, asked>> /\ ContFits' /\ ContStep
<1>0. UNCHANGED <<bound, ctl, starting, agent, net, ledger, asked>>
  BY Zenon DEF DaemonRestarts, BecomeHealthy, Crash
<1> DEFINE again(s) == [cont[s] EXCEPT !.started = @ + 1, !.healthy = FALSE]
           well(s) == [cont[s] EXCEPT !.healthy = TRUE, !.lastHealthy = cont[s].started]
<1>1. ASSUME NEW s \in Replicas
      PROVE  /\ DOMAIN again(s) = DOMAIN cont[s] /\ again(s).id = cont[s].id /\ again(s).node = cont[s].node
             /\ again(s).image = cont[s].image
             /\ again(s).started \in Nat /\ again(s).started >= cont[s].started
             /\ again(s).lastHealthy \in Nat /\ again(s).lastHealthy >= cont[s].lastHealthy
             /\ again(s).lastHealthy <= again(s).started
             /\ again(s).healthy => again(s).lastHealthy = again(s).started
  BY DEF ContFits
<1>2. ASSUME NEW s \in Replicas
      PROVE  /\ DOMAIN well(s) = DOMAIN cont[s] /\ well(s).id = cont[s].id /\ well(s).node = cont[s].node
             /\ well(s).image = cont[s].image
             /\ well(s).started \in Nat /\ well(s).started >= cont[s].started
             /\ well(s).lastHealthy \in Nat /\ well(s).lastHealthy >= cont[s].lastHealthy
             /\ well(s).lastHealthy <= well(s).started
             /\ well(s).healthy => well(s).lastHealthy = well(s).started
  BY DEF ContFits
<1>3. CASE BecomeHealthy(r)
  <2>1. cont' = [cont EXCEPT ![r] = well(r)]
    BY <1>3, Zenon DEF BecomeHealthy
  <2> HIDE DEF well
  <2> QED
    BY <1>0, <1>2, <2>1, OneContainer, Zenon
<1>4. CASE Crash(r)
  <2>1. cont' = [cont EXCEPT ![r] = again(r)]
    BY <1>4, Zenon DEF Crash
  <2> HIDE DEF again
  <2> QED
    BY <1>0, <1>1, <2>1, OneContainer, Zenon
<1>5. CASE DaemonRestarts(q)
  <2>1. CASE cont[q.replica].id = q.container
    <3>1. cont' = [cont EXCEPT ![q.replica] = again(q.replica)]
      BY <1>5, <2>1, Zenon DEF DaemonRestarts
    <3> HIDE DEF again
    <3> QED
      BY <1>0, <1>1, <3>1, OneContainer, Zenon
  <2>2. CASE cont[q.replica].id # q.container
    <3>1. cont' = cont
      BY <1>5, <2>2, Zenon DEF DaemonRestarts
    <3>2. Replicas' = Replicas
      BY Zenon, <1>0 DEF Replicas
    <3>3. ContFits'
      BY <1>0, <3>1, <3>2, Zenon DEF ContFits
    <3>4. ContStep
      BY <3>1 DEF ContFits, ContStep
    <3> QED
      BY <1>0, <3>3, <3>4, Zenon
  <2> QED
    BY <2>1, <2>2, Zenon
<1> QED
  BY <1>3, <1>4, <1>5, Zenon

-----------------------------------------------------------------------------
\* The steps of the Controller.

\* Where no deployment is set, none starts.
LEMMA SameDeploys == ASSUME NEW c, NEW d, SameDgens(c, d) PROVE Deploys(c, d)
  BY Zenon DEF SameDgens, Deploys

\* Where no target changes, nothing is earned.
LEMMA SameTargetsEarn ==
    ASSUME NEW c, NEW d, SameTargets(c, d) PROVE \A i \in DOMAIN c.ops : Earned(c, c.ops[i], d.ops[i])
  BY SameEarned, Zenon DEF SameTargets

\* A step of the Controller that hears nothing of the tasks.
LEMMA SameTasksStep ==
    ASSUME NEW c, NEW d, OpsPersist(c, d), Deploys(c, d), SameTasks(c, d),
           \A i \in DOMAIN c.ops : Earned(c, c.ops[i], d.ops[i])
    PROVE  CtlStep(c, d)
  BY Zenon DEF CtlStep, SameTasks

\* Every step of the Controller that is not a heartbeat keeps the record sound.
LEMMA ControllerSteps ==
    ASSUME BoundFits, Sound(ctl), Started, ControllerStep
    PROVE  Sound(ctl') /\ CtlStep(ctl, ctl')
<1>1. ASSUME NEW who, NEW kind, NEW key, Submit(who, kind, key) PROVE Sound(ctl') /\ CtlStep(ctl, ctl')
  <2>1. /\ Sound(ctl') /\ OpsPersist(ctl, ctl') /\ SameTargets(ctl, ctl') /\ SameDgens(ctl, ctl')
        /\ SameTasks(ctl, ctl')
    BY <1>1, SubmitSound, Zenon
  <2> QED
    BY <2>1, SameDeploys, SameTargetsEarn, SameTasksStep, Zenon
<1>2. ASSUME NEW replace, NEW image, NEW changed, NEW deleted,
             Apply(replace, image, changed, deleted)
      PROVE  Sound(ctl') /\ CtlStep(ctl, ctl')
  <2>1. /\ Sound(ctl') /\ OpsPersist(ctl, ctl') /\ SameTargets(ctl, ctl') /\ SameDgens(ctl, ctl')
        /\ SameTasks(ctl, ctl')
    BY <1>2, ApplySound, Zenon
  <2> QED
    BY <2>1, SameDeploys, SameTargetsEarn, SameTasksStep, Zenon
<1>3. CASE Retry
  <2>1. /\ Sound(ctl') /\ OpsPersist(ctl, ctl') /\ SameTargets(ctl, ctl') /\ SameDgens(ctl, ctl')
        /\ SameTasks(ctl, ctl')
    BY <1>3, RetrySound, Zenon
  <2> QED
    BY <2>1, SameDeploys, SameTargetsEarn, SameTasksStep, Zenon
<1>4. ASSUME NEW status, DeploymentSuffers(status) PROVE Sound(ctl') /\ CtlStep(ctl, ctl')
  BY <1>4, SuffersSound, SameDeploys, SameTasksStep, Zenon
<1>5. CASE Tick
  BY <1>5, TickSound, SameDeploys, SameTasksStep, Zenon
<1>6. CASE CheckPrepared
  <2>1. /\ CtlShape(ctl') /\ OpsShape(ctl') /\ CtlAges(ctl, ctl') /\ SameTargets(ctl, ctl')
        /\ ctl'.tasks = ctl.tasks
    BY <1>6, CheckAges, Zenon
  <2>2. SameTasks(ctl, ctl')
    BY <2>1, Zenon DEF SameTasks
  <2>3. Sound(ctl') /\ OpsPersist(ctl, ctl') /\ SameDgens(ctl, ctl')
    BY <2>1, AgesSound, AgesPersist, AgesDgens, Zenon
  <2> QED
    BY <2>1, <2>2, <2>3, SameDeploys, SameTargetsEarn, SameTasksStep, Zenon
<1>7. CASE ApplyPrepared
  <2>1. /\ Sound(ctl') /\ OpsPersist(ctl, ctl') /\ SameTargets(ctl, ctl') /\ SameTasks(ctl, ctl')
        /\ Deploys(ctl, ctl')
    BY <1>7, ApplyPreparedSound, Zenon
  <2> QED
    BY <2>1, SameTargetsEarn, SameTasksStep, Zenon
<1>8. CASE RestartController
  <2>1. /\ CtlShape(ctl') /\ OpsShape(ctl') /\ CtlAges(ctl, ctl') /\ ctl'.ops = ctl.ops
        /\ \A r \in Replicas : ctl'.tasks[r].container = None
    BY <1>8, RestartCtlAges, Zenon
  <2>2. Sound(ctl') /\ OpsPersist(ctl, ctl') /\ Deploys(ctl, ctl')
    BY <2>1, AgesSound, AgesPersist, AgesDgens, SameDeploys, Zenon
  <2>3. \A i \in DOMAIN ctl.ops : Earned(ctl, ctl.ops[i], ctl'.ops[i])
    BY <2>1, SameEarned, Zenon
  <2>4. \A r \in Replicas : ctl'.tasks[r].rev = ctl.tasks[r].rev /\ ctl'.tasks[r].node = ctl.tasks[r].node
    BY <2>1, Zenon DEF CtlAges
  <2> QED
    BY <2>1, <2>2, <2>3, <2>4, Zenon DEF CtlStep
<1>9. ASSUME NEW n, NodeTimesOut(n) PROVE Sound(ctl') /\ CtlStep(ctl, ctl')
  <2>1. /\ CtlShape(ctl') /\ OpsShape(ctl') /\ CtlAges(ctl, ctl') /\ ctl'.ops = ctl.ops
        /\ ctl'.tasks = ctl.tasks
    BY <1>9, TimesOutAges, Zenon
  <2>2. SameTasks(ctl, ctl')
    BY <2>1, Zenon DEF SameTasks
  <2>3. Sound(ctl') /\ OpsPersist(ctl, ctl') /\ Deploys(ctl, ctl')
    BY <2>1, AgesSound, AgesPersist, AgesDgens, SameDeploys, Zenon
  <2>4. \A i \in DOMAIN ctl.ops : Earned(ctl, ctl.ops[i], ctl'.ops[i])
    BY <2>1, SameEarned, Zenon
  <2> QED
    BY <2>2, <2>3, <2>4, SameTasksStep, Zenon
<1> QED
  BY <1>1, <1>2, <1>3, <1>4, <1>5, <1>6, <1>7, <1>8, <1>9, Zenon DEF ControllerStep

\* schedule_task: a placement is on a node that prepared the image, with that image.
LEMMA PlacementsPin ==
    ASSUME Sound(ctl), NEW p \in Placements(ctl), NEW i \in Pinning(ctl)
    PROVE  p.node \in DOMAIN ctl.ops[i].prepared /\ p.image = ctl.ops[i].prepared[p.node]
<1> DEFINE j == CHOOSE j \in Pinning(ctl) : TRUE
           nodes == ctl.live \cap ctl.known
           o == ctl.ops[j]
<1>1. Pinning(ctl) # {} /\ j \in Pinning(ctl)
  BY Zenon
<1>2. i \in DOMAIN ctl.ops /\ j \in DOMAIN ctl.ops
  BY <1>1, Zenon DEF Pinning
<1>3. /\ ctl.ops[i].dgen # None /\ ctl.ops[j].dgen # None /\ ctl.ops[i].target = ctl.ops[j].target
  BY <1>1, Zenon DEF Pinning
<1>4. DgenOnce(ctl)
  BY Zenon DEF Sound
<1>5. i = j
  BY Zenon, <1>2, <1>3, <1>4 DEF DgenOnce
<1>6. p \in {[node |-> n, image |-> o.prepared[n]] : n \in (nodes \cap DOMAIN o.prepared) \ bound.old}
  BY <1>1, Zenon DEF Placements
<1>7. PICK n \in (nodes \cap DOMAIN o.prepared) \ bound.old : p = [node |-> n, image |-> o.prepared[n]]
  BY <1>6, Zenon
<1>8. p.node = n /\ p.image = o.prepared[n] /\ n \in DOMAIN o.prepared
  <2> HIDE DEF o, nodes
  <2> QED
    BY Zenon, <1>7
<1> HIDE DEF j
<1> QED
  BY <1>5, <1>8, Zenon

\* schedule_task: a replaced task has a new container, where and as the operation prepared it.
LEMMA ReplaceSound ==
    ASSUME BoundFits, Sound(ctl), ContFits, NEW r \in Replicas, Replace(r)
    PROVE  Replaces(r)
<1>0. /\ CtlShape(ctl) /\ OpsShape(ctl) /\ GenOnce(ctl) /\ Counted(ctl) /\ DgenOnce(ctl)
      /\ OneGoes(ctl) /\ OneKey(ctl)
  BY Zenon DEF Sound
<1>1. PICK p \in Placements(ctl) :
          /\ cont' = [cont EXCEPT ![r] = [id |-> @.id + 1, node |-> p.node, image |-> p.image,
                                          started |-> 1, healthy |-> FALSE, lastHealthy |-> 0]]
          /\ ctl' = [ctl EXCEPT !.tasks[r] = [rev |-> ctl.rev, node |-> p.node, desired |-> "running",
                                              container |-> None, image |-> None, observed |-> "pending"]]
  BY Zenon DEF Replace
<1> DEFINE new == [id |-> cont[r].id + 1, node |-> p.node, image |-> p.image,
                   started |-> 1, healthy |-> FALSE, lastHealthy |-> 0]
           task == [rev |-> ctl.rev, node |-> p.node, desired |-> "running",
                    container |-> None, image |-> None, observed |-> "pending"]
<1>2. cont' = [cont EXCEPT ![r] = new] /\ ctl' = [ctl EXCEPT !.tasks[r] = task]
  BY <1>1, Zenon
<1>3. UNCHANGED <<bound, starting>> /\ Replicas' = Replicas
  BY Zenon DEF Replace, Replicas
<1>4. /\ DOMAIN new = {"id", "node", "image", "started", "healthy", "lastHealthy"}
      /\ new.id = cont[r].id + 1 /\ new.node = p.node /\ new.image = p.image
      /\ new.started = 1 /\ ~new.healthy /\ new.lastHealthy = 0
  BY Zenon
<1>5. /\ DOMAIN task = {"rev", "node", "desired", "container", "image", "observed"}
      /\ task.rev = ctl.rev /\ task.node = p.node /\ task.container = None
  BY Zenon
<1> HIDE DEF new, task
<1>6. /\ DOMAIN ctl' = DOMAIN ctl /\ ctl'.ops = ctl.ops /\ ctl'.rev = ctl.rev /\ ctl'.deleted = ctl.deleted
      /\ ctl'.generation = ctl.generation /\ ctl'.deployment = ctl.deployment
      /\ ctl'.tasks = [ctl.tasks EXCEPT ![r] = task]
  BY Zenon, <1>0, <1>2 DEF CtlShape
<1>7. /\ DOMAIN ctl'.tasks = Replicas /\ ctl'.tasks[r] = task
      /\ \A q \in Replicas : q # r => ctl'.tasks[q] = ctl.tasks[q]
  BY <1>0, <1>6, Zenon DEF CtlShape
<1>8. /\ DOMAIN cont' = Replicas /\ cont'[r] = new
      /\ \A q \in Replicas : q # r => cont'[q] = cont[q]
  BY <1>2, Zenon DEF ContFits
<1>9. Sound(ctl')
  <2>1. CtlShape(ctl')
    BY <1>0, <1>5, <1>6, <1>7, Zenon DEF CtlShape
  <2>2. Counted(ctl')
    <3>1. ctl.rev \in Nat /\ ctl.rev <= ctl.rev
      BY <1>0 DEF Counted
    <3>2. \A q \in Replicas : ctl'.tasks[q].rev \in Nat /\ ctl'.tasks[q].rev <= ctl.rev
      BY <1>0, <1>5, <1>7, <3>1, Zenon DEF Counted
    <3> QED
      BY <1>0, <1>6, <3>2, Zenon DEF Counted
  <2>3. OpsShape(ctl') /\ GenOnce(ctl') /\ DgenOnce(ctl') /\ OneKey(ctl')
    BY <1>0, <1>6 DEF OpsShape, GenOnce, DgenOnce, OneKey
  <2>4. OneGoes(ctl')
    BY Zenon, <1>0, <1>6 DEF OneGoes, deployment_active
  <2> QED
    BY <2>1, <2>2, <2>3, <2>4, Zenon DEF Sound
<1>10. ContFits'
  <2>1. /\ cont[r].id \in Nat /\ cont[r].id # None
    BY Zenon DEF ContFits
  <2>2. new.id \in Nat /\ new.id # None /\ new.started \in Nat /\ new.lastHealthy \in Nat
        /\ new.lastHealthy <= new.started
    BY <1>4, <2>1 DEF None
  <2>3. ASSUME NEW q \in Replicas
        PROVE  /\ DOMAIN cont'[q] = {"id", "node", "image", "started", "healthy", "lastHealthy"}
               /\ cont'[q].id \in Nat /\ cont'[q].id # None
               /\ cont'[q].started \in Nat /\ cont'[q].lastHealthy \in Nat
               /\ cont'[q].lastHealthy <= cont'[q].started
               /\ cont'[q].healthy => cont'[q].lastHealthy = cont'[q].started
               /\ ctl'.tasks[q].node = cont'[q].node
    <3>1. CASE q = r
      BY <1>4, <1>5, <1>7, <1>8, <2>2, <3>1, Zenon
    <3>2. CASE q # r
      <4>1. cont'[q] = cont[q] /\ ctl'.tasks[q] = ctl.tasks[q]
        BY <1>7, <1>8, <3>2, Zenon
      <4> QED
        BY <4>1, Zenon DEF ContFits
    <3> QED
      BY <3>1, <3>2, Zenon
  <2> QED
    BY <1>3, <1>8, <2>3, Zenon DEF ContFits
<1>11. \A i \in Pinning(ctl) : /\ cont'[r].node \in DOMAIN ctl.ops[i].prepared
                               /\ cont'[r].image = ctl.ops[i].prepared[cont'[r].node]
  BY <1>1, <1>4, <1>8, PlacementsPin, Zenon
<1>12. \A i \in DOMAIN ctl.ops : active(ctl.ops[i]) => ctl.ops[i].kind # "restart"
  BY Zenon DEF Replace
<1> QED
  BY <1>4, <1>5, <1>6, <1>7, <1>8, <1>9, <1>10, <1>11, <1>12, Zenon DEF Replaces

-----------------------------------------------------------------------------
\* The invariant of the operations.

\* What is sound of the state after a step is sound there.
LEMMA PrimeSound ==
    ASSUME bound' = bound, BoundFits, Sound(ctl') PROVE BoundFits' /\ Sound(ctl)'
<1>1. Replicas' = Replicas
  BY Zenon DEF Replicas
<1>2. /\ CtlShape(ctl') /\ OpsShape(ctl') /\ GenOnce(ctl') /\ Counted(ctl') /\ DgenOnce(ctl')
      /\ OneGoes(ctl') /\ OneKey(ctl')
  BY Zenon DEF Sound
<1>3. CtlShape(ctl)'
  BY <1>1, <1>2, Zenon DEF CtlShape
<1>4. OpsShape(ctl)'
  <2>1. ASSUME NEW i \in DOMAIN ctl'.ops PROVE OpShape(ctl.ops[i])'
    <3>1. OpShape(ctl'.ops[i])
      BY <1>2, Zenon DEF OpsShape
    <3>2. Pending(ctl.ops[i])' = Pending(ctl'.ops[i])
      BY <1>1, Zenon DEF Pending
    <3>3. Formed(ctl.ops[i])'
      BY <1>1, <3>1, Zenon DEF OpShape, Formed
    <3> QED
      BY <3>1, <3>2, <3>3, Zenon DEF OpShape
  <2> QED
    BY <1>2, <2>1, Zenon DEF OpsShape
<1>5. Counted(ctl)'
  BY <1>1, <1>2, Zenon DEF Counted
<1>6. GenOnce(ctl)' /\ DgenOnce(ctl)' /\ OneGoes(ctl)' /\ OneKey(ctl)'
  BY <1>2, Zenon
<1>7. BoundFits'
  BY <1>1, Zenon DEF BoundFits
<1> QED
  BY <1>3, <1>4, <1>5, <1>6, <1>7, Zenon DEF Sound

\* A task that keeps its revision keeps the image that was prepared for it.
LEMMA PinnedStep ==
    ASSUME bound' = bound, Sound(ctl), PinnedImages, OpsPersist(ctl, ctl'), Deploys(ctl, ctl'),
           \A r \in Replicas : /\ ctl'.tasks[r].rev = ctl.tasks[r].rev
                               /\ cont'[r].node = cont[r].node /\ cont'[r].image = cont[r].image
    PROVE  PinnedImages'
<1>1. Replicas' = Replicas
  BY Zenon DEF Replicas
<1> SUFFICES ASSUME NEW i \in DOMAIN ctl'.ops, NEW r \in Replicas,
                    ctl'.ops[i].status # "gone", ctl'.ops[i].dgen # None,
                    ctl'.tasks[r].rev = ctl'.ops[i].target
             PROVE  /\ cont'[r].node \in DOMAIN ctl'.ops[i].prepared
                    /\ cont'[r].image = ctl'.ops[i].prepared[cont'[r].node]
  BY <1>1, Zenon DEF PinnedImages
<1>2. i \in DOMAIN ctl.ops /\ Persists(ctl.ops[i], ctl'.ops[i])
  BY Zenon DEF OpsPersist, Fresh
<1>3. /\ ctl'.ops[i].target = ctl.ops[i].target
      /\ ctl.ops[i].status # "gone"
      /\ \A n \in DOMAIN ctl.ops[i].prepared : /\ n \in DOMAIN ctl'.ops[i].prepared
                                               /\ ctl'.ops[i].prepared[n] = ctl.ops[i].prepared[n]
  BY <1>2, Zenon DEF Persists
<1>4. CASE ctl.ops[i].dgen # None
  BY <1>2, <1>3, <1>4, ZenonT(40) DEF PinnedImages
<1>5. CASE ctl.ops[i].dgen = None
  <2>1. ctl.ops[i].target = ctl.rev + 1
    BY <1>2, <1>5, Zenon DEF Deploys
  <2>2. ctl.tasks[r].rev \in Nat /\ ctl.tasks[r].rev <= ctl.rev /\ ctl.rev \in Nat
    BY Zenon DEF Sound, Counted
  <2>3. ctl.tasks[r].rev # ctl.ops[i].target
    BY <2>1, <2>2
  <2> QED
    BY <1>3, <2>3, Zenon
<1> QED
  BY <1>4, <1>5, Zenon

\* What start_prepared_service_operation found stays there.
LEMMA StartedStep ==
    ASSUME Started, OpsPersist(ctl, ctl'), starting' = starting,
           starting.pc = "guarded" => ctl'.deleted = ctl.deleted
    PROVE  Started'
<1>1. ASSUME starting.pc # "idle"
      PROVE  starting.op \in DOMAIN ctl'.ops /\ ctl'.ops[starting.op].kind = "pull"
  BY <1>1, Zenon DEF Started, OpsPersist, Persists
<1> QED
  BY <1>1, Zenon DEF Started

\* What start_prepared_service_operation found stays there in a step of the Controller.
LEMMA ControllerStarted ==
    ASSUME BoundFits, Sound(ctl), Started, CtlStep(ctl, ctl'), ControllerStep
    PROVE  Started'
<1>0. OpsPersist(ctl, ctl') /\ CtlShape(ctl)
  BY Zenon DEF CtlStep, Sound
<1>1. ASSUME NEW who, NEW kind, NEW key, Submit(who, kind, key) PROVE Started'
  <2>1. starting' = starting
    BY <1>1, Zenon DEF Submit
  <2>2. \E ops : ctl' = [ctl EXCEPT !.generation = @ + 1, !.ops = ops]
    BY <1>1, Zenon DEF Submit
  <2>3. ctl'.deleted = ctl.deleted
    BY Zenon, <1>0, <2>2 DEF CtlShape
  <2> QED
    BY <1>0, <2>1, <2>3, StartedStep, Zenon
<1>2. ASSUME NEW replace, NEW image, NEW changed, NEW deleted,
             Apply(replace, image, changed, deleted)
      PROVE  Started'
  <2>1. starting' = starting /\ starting.pc # "guarded"
    BY <1>2, Zenon DEF Apply
  <2> QED
    BY <1>0, <2>1, StartedStep, Zenon
<1>3. CASE Retry
  <2>1. starting' = starting /\ starting.pc # "guarded"
    BY <1>3, Zenon DEF Retry
  <2> QED
    BY <1>0, <2>1, StartedStep, Zenon
<1>4. ASSUME NEW status, DeploymentSuffers(status) PROVE Started'
  <2>1. starting' = starting /\ ctl' = Advance([ctl EXCEPT !.deployment.status = status])
    BY <1>4, Zenon DEF DeploymentSuffers
  <2>2. ctl'.deleted = ctl.deleted
    BY Zenon, <1>0, <2>1 DEF CtlShape, Advance
  <2> QED
    BY <1>0, <2>1, <2>2, StartedStep, Zenon
<1>5. CASE Tick
  <2>1. starting' \in IF Ready(ctl') = {} THEN {Idle} ELSE {[pc |-> "found", op |-> i] : i \in Ready(ctl')}
    BY <1>5, Zenon DEF Tick
  <2>2. CASE starting' = Idle
    <3>1. starting'.pc = "idle"
      BY Zenon, <2>2 DEF Idle
    <3> QED
      BY Zenon, <3>1 DEF Started
  <2>3. CASE starting' # Idle
    <3>1. PICK i \in Ready(ctl') : starting' = [pc |-> "found", op |-> i]
      BY <2>1, <2>3, Zenon
    <3>2. starting'.pc = "found" /\ starting'.op = i
      BY Zenon, <3>1
    <3>3. i \in DOMAIN ctl'.ops /\ ctl'.ops[i].kind = "pull"
      BY <3>1, Zenon DEF Ready
    <3> QED
      BY Zenon, <3>2, <3>3 DEF Started
  <2> QED
    BY <2>2, <2>3, Zenon
<1>6. CASE CheckPrepared
  <2>1. CASE starting'.pc = "idle"
    BY Zenon, <2>1 DEF Started
  <2>2. CASE starting'.pc # "idle"
    <3>0. Idle.pc = "idle"
      BY Zenon DEF Idle
    <3>1. /\ ~ctl.deleted /\ ctl' = ctl /\ starting' = [pc |-> "guarded", op |-> starting.op]
          /\ starting.pc = "found"
      BY <1>6, <2>2, <3>0, Zenon DEF CheckPrepared
    <3>2. starting'.pc = "guarded" /\ starting'.op = starting.op
      BY Zenon, <3>1
    <3>3. starting.op \in DOMAIN ctl.ops /\ ctl.ops[starting.op].kind = "pull"
      BY Zenon, <3>1 DEF Started
    <3> QED
      BY Zenon, <3>1, <3>2, <3>3 DEF Started
  <2> QED
    BY <2>1, <2>2, Zenon
<1>7. CASE ApplyPrepared \/ RestartController
  <2>1. starting' = Idle
    BY <1>7, Zenon DEF ApplyPrepared, RestartController
  <2>2. starting'.pc = "idle"
    BY Zenon, <2>1 DEF Idle
  <2> QED
    BY Zenon, <2>2 DEF Started
<1>8. ASSUME NEW n, NodeTimesOut(n) PROVE Started'
  <2>1. starting' = starting
    BY <1>8, Zenon DEF NodeTimesOut
  <2>2. CtlAges(ctl, ctl')
    BY <1>8, TimesOutAges, Zenon
  <2>3. ctl'.deleted = ctl.deleted
    BY <2>2, Zenon DEF CtlAges
  <2> QED
    BY <1>0, <2>1, <2>3, StartedStep, Zenon
<1> QED
  BY <1>1, <1>2, <1>3, <1>4, <1>5, <1>6, <1>7, <1>8, Zenon DEF ControllerStep

\* The containers do not change with the Controller's records, which keep their nodes.
LEMMA ContKept ==
    ASSUME ContFits, UNCHANGED <<bound, cont>>,
           \A r \in Replicas : ctl'.tasks[r].node = ctl.tasks[r].node
    PROVE  ContFits'
<1>1. Replicas' = Replicas
  BY Zenon DEF Replicas
<1> QED
  BY <1>1, Zenon DEF ContFits

\* The steps, sorted by what they change.
LEMMA Steps ==
    ASSUME [Next]_vars
    PROVE  \/ ControllerStep \/ ContainerStep \/ OtherStep
           \/ \E n \in bound.nodes : AgentsStep(n) \/ HandleHeartbeat(n)
           \/ \E r \in Replicas : Replace(r)
<1>1. CASE Requests
  BY <1>1, Zenon DEF Requests, ControllerStep, OtherStep
<1>2. CASE Loop
  BY <1>2, Zenon DEF Loop, ControllerStep
<1>3. CASE Clock \/ RestartController \/ Push
  BY <1>3, Zenon DEF OtherStep, ControllerStep
<1>4. ASSUME NEW n \in bound.nodes, AgentStep(n) \/ NodeTimesOut(n)
      PROVE  ControllerStep \/ \E m \in bound.nodes : AgentsStep(m) \/ HandleHeartbeat(m)
  BY <1>4, Zenon DEF AgentStep, ControllerStep, AgentsStep
<1>5. ASSUME NEW r \in Replicas, BecomeHealthy(r) \/ Crash(r)
      PROVE  ContainerStep
  BY <1>5, Zenon DEF ContainerStep
<1>6. ASSUME NEW q \in docker, DaemonRestarts(q) \/ DaemonRefuses(q)
      PROVE  ContainerStep \/ OtherStep
  BY <1>6, Zenon DEF ContainerStep, OtherStep
<1>7. CASE UNCHANGED vars
  BY <1>7, Zenon DEF OtherStep
<1> QED
  BY <1>1, <1>2, <1>3, <1>4, <1>5, <1>6, <1>7, Zenon DEF Next

\* The records of the Controller do not change in a step of another part.
LEMMA SameCtl ==
    ASSUME Inv, UNCHANGED <<bound, ctl, starting>>,
           \A r \in Replicas : cont'[r].node = cont[r].node /\ cont'[r].image = cont[r].image
    PROVE  BoundFits' /\ Sound(ctl)' /\ Started' /\ PinnedImages' /\ OpsPersist(ctl, ctl') /\ Deploys(ctl, ctl')
<1>0. BoundFits /\ Sound(ctl) /\ Started /\ PinnedImages
  BY Zenon DEF Inv
<1>1. OpsPersist(ctl, ctl') /\ Deploys(ctl, ctl')
  BY SamePersists, Zenon DEF OpsPersist, Deploys
<1>2. Sound(ctl')
  BY <1>0, Zenon
<1>3. BoundFits' /\ Sound(ctl)'
  BY <1>0, <1>2, PrimeSound, Zenon
<1>4. PinnedImages'
  BY <1>0, <1>1, PinnedStep, Zenon
<1>5. Started'
  BY <1>0, <1>1, StartedStep, Zenon
<1> QED
  BY <1>1, <1>3, <1>4, <1>5, Zenon

\* Every step keeps the invariant, and deploys operations only as they were accepted.
LEMMA InvNext ==
    ASSUME Inv, [Next]_vars PROVE Inv' /\ OpsPersist(ctl, ctl') /\ Deploys(ctl, ctl')
<1>0. BoundFits /\ Sound(ctl) /\ Started /\ ContFits /\ PinnedImages
  BY Zenon DEF Inv
<1>1. CASE ControllerStep
  <2>1. UNCHANGED <<bound, cont>>
    BY <1>1, Zenon DEF ControllerStep, Submit, Apply, Retry, DeploymentSuffers, Tick, CheckPrepared,
         ApplyPrepared, RestartController, NodeTimesOut
  <2>2. Sound(ctl') /\ CtlStep(ctl, ctl')
    BY <1>0, <1>1, ControllerSteps, Zenon
  <2>3. /\ OpsPersist(ctl, ctl') /\ Deploys(ctl, ctl')
        /\ \A r \in Replicas : ctl'.tasks[r].rev = ctl.tasks[r].rev /\ ctl'.tasks[r].node = ctl.tasks[r].node
    BY <2>2, Zenon DEF CtlStep
  <2>4. BoundFits' /\ Sound(ctl)'
    BY <1>0, <2>1, <2>2, PrimeSound, Zenon
  <2>5. Started'
    BY <1>0, <1>1, <2>2, ControllerStarted, Zenon
  <2>6. ContFits'
    BY <1>0, <2>1, <2>3, ContKept, Zenon
  <2>7. PinnedImages'
    BY <1>0, <2>1, <2>3, PinnedStep, Zenon
  <2> QED
    BY <2>3, <2>4, <2>5, <2>6, <2>7, Zenon DEF Inv
<1>2. CASE ContainerStep
  <2>1. UNCHANGED <<bound, ctl, starting>> /\ ContFits' /\ ContStep
    BY <1>0, <1>2, ContainersStep, Zenon DEF ContainerStep
  <2>2. \A r \in Replicas : cont'[r].node = cont[r].node /\ cont'[r].image = cont[r].image
    BY <2>1, Zenon DEF ContStep
  <2> QED
    BY <2>1, <2>2, SameCtl, Zenon DEF Inv
<1>3. CASE OtherStep \/ \E n \in bound.nodes : AgentsStep(n)
  <2>1. UNCHANGED <<bound, ctl, starting, cont>>
    BY <1>3, ZenonT(40) DEF OtherStep, AgentsStep, Revoke, Clock, Push, DaemonRefuses, vars, TakeInventory,
         SendHeartbeat, Lose, Inspect, Reject, Claim, Request, Confirm, Pull, Wake, RestartAgent
  <2>2. ContFits'
    BY <1>0, <2>1, ContKept, Zenon
  <2> QED
    BY <2>1, <2>2, SameCtl, Zenon DEF Inv
<1>4. ASSUME NEW n \in bound.nodes, HandleHeartbeat(n)
      PROVE  Inv' /\ OpsPersist(ctl, ctl') /\ Deploys(ctl, ctl')
  <2>1. UNCHANGED <<bound, starting, cont>>
    BY <1>4, Zenon DEF HandleHeartbeat
  <2>2. /\ Sound(ctl') /\ OpsPersist(ctl, ctl') /\ SameDgens(ctl, ctl') /\ Beats(n, net[n], ctl')
    BY <1>0, <1>4, HeartbeatSound, Zenon
  <2>3. CtlAges(ctl, ctl') /\ Deploys(ctl, ctl')
    BY <2>2, SameDeploys, Zenon DEF Beats
  <2>4. /\ ctl'.deleted = ctl.deleted
        /\ \A r \in Replicas : ctl'.tasks[r].rev = ctl.tasks[r].rev /\ ctl'.tasks[r].node = ctl.tasks[r].node
    BY <2>3, Zenon DEF CtlAges
  <2>5. BoundFits' /\ Sound(ctl)'
    BY <1>0, <2>1, <2>2, PrimeSound, Zenon
  <2>6. Started'
    BY <1>0, <2>1, <2>2, <2>4, StartedStep, Zenon
  <2>7. ContFits'
    BY <1>0, <2>1, <2>4, ContKept, Zenon
  <2>8. PinnedImages'
    BY <1>0, <2>1, <2>2, <2>3, <2>4, PinnedStep, Zenon
  <2> QED
    BY <2>2, <2>3, <2>5, <2>6, <2>7, <2>8, Zenon DEF Inv
<1>5. ASSUME NEW r \in Replicas, Replace(r)
      PROVE  Inv' /\ OpsPersist(ctl, ctl') /\ Deploys(ctl, ctl')
  <2>0. UNCHANGED <<bound, starting>> /\ Replicas' = Replicas
    BY <1>5, Zenon DEF Replace, Replicas
  <2>1. Replaces(r)
    BY <1>0, <1>5, ReplaceSound, Zenon
  <2>2. /\ Sound(ctl') /\ ctl'.ops = ctl.ops /\ ctl'.deleted = ctl.deleted /\ ContFits'
    BY <2>1, Zenon DEF Replaces
  <2>3. OpsPersist(ctl, ctl') /\ Deploys(ctl, ctl')
    BY <2>2, SamePersists, Zenon DEF OpsPersist, Deploys
  <2>4. BoundFits' /\ Sound(ctl)' /\ Started'
    BY <1>0, <2>0, <2>2, <2>3, PrimeSound, StartedStep, Zenon
  <2>5. PinnedImages'
    <3> SUFFICES ASSUME NEW i \in DOMAIN ctl.ops, NEW q \in Replicas,
                        ctl.ops[i].status # "gone", ctl.ops[i].dgen # None,
                        ctl'.tasks[q].rev = ctl.ops[i].target
                 PROVE  /\ cont'[q].node \in DOMAIN ctl.ops[i].prepared
                        /\ cont'[q].image = ctl.ops[i].prepared[cont'[q].node]
      BY <2>0, <2>2, ZenonT(40) DEF PinnedImages
    <3>1. CASE q # r
      <4>1. cont'[q] = cont[q] /\ ctl'.tasks[q] = ctl.tasks[q]
        BY <2>1, <3>1, Zenon DEF Replaces
      <4> QED
        BY <1>0, <4>1, Zenon DEF PinnedImages
    <3>2. CASE q = r
      <4>1. ctl'.tasks[q].rev = ctl.rev
        BY <2>1, <3>2, Zenon DEF Replaces
      <4>2. ctl.ops[i].kind = "pull"
        BY <1>0, Zenon DEF Sound, OpsShape, OpShape, Formed
      <4>3. i \in Pinning(ctl)
        BY <4>1, <4>2, Zenon DEF Pinning
      <4> QED
        BY <2>1, <3>2, <4>3, Zenon DEF Replaces
    <3> QED
      BY <3>1, <3>2, Zenon
  <2> QED
    BY <2>2, <2>3, <2>4, <2>5, Zenon DEF Inv
<1> QED
  BY <1>1, <1>2, <1>3, <1>4, <1>5, Steps, Zenon
=============================================================================
