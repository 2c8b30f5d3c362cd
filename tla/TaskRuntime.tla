---------------------------- MODULE TaskRuntime ----------------------------
(***************************************************************************)
(* One task on one node: the container runtime calls behind create_task,   *)
(* start_task and remove_task.  A container has a name, which depends on   *)
(* the task only, and an id.  The name can be taken: by an earlier attempt *)
(* whose request the runtime still had, by an older revision of the task,  *)
(* or by a container that is not the task's at all.                        *)
(***************************************************************************)
EXTENDS Naturals, FiniteSets

CONSTANTS Revisions, \* the revisions the task is assigned at
          Ids,       \* container ids, in the order the runtime gives them out
          MaxFaults, \* bound on failed calls, Agent restarts and foreign containers
          Nobody     \* no container

VARIABLES revision, \* the revision of the assignment
          holder,   \* the container that has the name
          next,     \* the next container id
          late,     \* create requests of an Agent that stopped meanwhile
          busy,     \* another process holds the host port
          call,     \* the runtime call that runs
          result,   \* how the last one ended, and with which container
          born,     \* history: what each container was created as
          touched,  \* history: containers that were started or removed
          faults

vars == <<revision, holder, next, late, busy, call, result, born, touched, faults>>
world == <<revision, late, busy>>

None == [id |-> 0, own |-> FALSE, revision |-> Nobody, up |-> FALSE]
Idle == [at |-> "idle", kind |-> "none", revision |-> Nobody, attempt |-> 0, look |-> 0, seen |-> None]

Fails == faults < MaxFaults /\ faults' = faults + 1
Works == UNCHANGED faults
At(x) == call.at = x
Go(x) == call' = [call EXCEPT !.at = x] /\ UNCHANGED result
Ends(ok, id) ==
  call' = Idle /\ result' = [kind |-> call.kind, ok |-> ok, id |-> id, revision |-> call.revision]

\* The daemon creates a container under the name, labelled by task_labels.
Creates(own, rev) ==
  /\ holder = None /\ next \in Ids
  /\ holder' = [id |-> next, own |-> own, revision |-> rev, up |-> FALSE]
  /\ born' = [born EXCEPT ![next] = [own |-> own, revision |-> rev]]
  /\ next' = next + 1

\* Mutant: the calls go to whatever has the name.
ReachesName(id) == holder # None

\* A call by id reaches the container only while it has that id.
Reaches(id) == holder # None /\ holder.id = id
Remove(id) ==
  /\ holder' = IF Reaches(id) THEN None ELSE holder
  /\ touched' = IF Reaches(id) THEN touched \cup {holder.id} ELSE touched

----------------------------------------------------------------------------
(* The world: assignments, other processes, delayed requests, exits. *)

Assign ==
  /\ \E r \in Revisions : r > revision /\ revision' = r
  /\ UNCHANGED <<holder, next, late, busy, call, result, born, touched, faults>>

Foreign ==
  /\ Fails /\ Creates(FALSE, Nobody)
  /\ UNCHANGED <<world, call, result, touched>>

Vanishes ==
  /\ Fails /\ holder # None
  /\ holder' = None
  /\ UNCHANGED <<world, next, call, result, born, touched>>

Exits ==
  /\ Fails /\ holder.up
  /\ holder' = [holder EXCEPT !.up = FALSE]
  /\ UNCHANGED <<world, next, call, result, born, touched>>

PortTaken ==
  /\ IF busy THEN Works ELSE Fails
  /\ busy' = ~busy
  /\ UNCHANGED <<revision, holder, next, late, call, result, born, touched>>

\* The Agent stops in the middle of a call; a create request may be carried out later.
RestartAgent ==
  /\ Fails /\ call # Idle
  /\ call' = Idle
  /\ late' \in {late} \cup (IF At("create") THEN {late \cup {call.revision}} ELSE {})
  /\ UNCHANGED <<revision, holder, next, busy, result, born, touched>>

LateCreate ==
  /\ \E r \in late : late' = late \ {r} /\ (Creates(TRUE, r) \/ UNCHANGED <<holder, next, born>>)
  /\ UNCHANGED <<revision, busy, call, result, touched, faults>>

----------------------------------------------------------------------------
(* A pass over the assignments calls the runtime for what list_managed saw. *)

Begin ==
  /\ call = Idle
  /\ \E kind \in {"create", "start", "remove"}, seen \in {None, holder} :
        /\ kind = "create" => seen = None
        /\ kind # "create" => seen # None /\ seen.own
        /\ kind = "start" => ~seen.up /\ seen.revision = revision
        /\ kind = "remove" => seen.revision # revision
        /\ call' = [Idle EXCEPT !.kind = kind, !.revision = revision, !.seen = seen,
                                !.at = IF kind = "start" THEN "restart" ELSE kind]
  /\ UNCHANGED <<revision, holder, next, late, busy, result, born, touched, faults>>

\* Mutant: the count begins again.
RetryAgain ==
  call' = [call EXCEPT !.at = "create", !.attempt = IF @ < 2 THEN @ + 1 ELSE 1] /\ UNCHANGED result

Retry ==
  IF call.attempt < 2
  THEN call' = [call EXCEPT !.at = "create", !.attempt = @ + 1] /\ UNCHANGED result
  ELSE Ends(FALSE, 0)

Create ==
  /\ At("create")
  /\ \/ /\ Creates(TRUE, call.revision) /\ Works
        /\ call' = [call EXCEPT !.at = "start", !.seen = holder'] /\ UNCHANGED result
     \/ /\ holder # None /\ Works
        /\ call' = [call EXCEPT !.at = "inspect", !.look = 0] /\ UNCHANGED result
        /\ UNCHANGED <<holder, next, born>>
     \/ busy /\ Works /\ Retry /\ UNCHANGED <<holder, next, born>>
     \/ /\ Fails \/ (next \notin Ids /\ Works)  \* no ids left: the bound ends the call
        /\ Ends(FALSE, 0) /\ UNCHANGED <<holder, next, born>>
  /\ UNCHANGED <<world, touched>>

\* The new container: a failed start removes it again.
StartNew ==
  /\ At("start")
  /\ \/ /\ Reaches(call.seen.id) /\ ~busy
        /\ holder' = [holder EXCEPT !.up = TRUE] /\ touched' = touched \cup {holder.id}
        /\ Ends(TRUE, call.seen.id) /\ Works
     \/ busy /\ Works /\ Remove(call.seen.id) /\ Retry
     \/ ~Reaches(call.seen.id) /\ Works /\ Ends(FALSE, 0) /\ UNCHANGED <<holder, touched>>
     \/ Fails /\ Ends(FALSE, 0) /\ (Remove(call.seen.id) \/ UNCHANGED <<holder, touched>>)
  /\ UNCHANGED <<world, next, born>>

----------------------------------------------------------------------------
(* recover_task_name_conflict *)

Inspect ==
  /\ At("inspect")
  /\ \/ /\ holder # None /\ Works
        /\ call' = [call EXCEPT !.at = "judge", !.seen = holder] /\ UNCHANGED result
     \/ /\ holder = None /\ call.look < 2 /\ Works
        /\ call' = [call EXCEPT !.look = @ + 1] /\ UNCHANGED result
     \/ holder = None /\ call.look = 2 /\ Works /\ Retry
     \/ Fails /\ Ends(FALSE, 0)
  /\ UNCHANGED <<world, holder, next, born, touched>>

\* Mutant: an older revision of the task is adopted.
SameSpecAny == TRUE

Own == call.seen.own
SameSpec == call.seen.revision = call.revision

Judge ==
  /\ At("judge")
  /\ \/ ~Own /\ Ends(FALSE, 0)
     \/ Own /\ ~SameSpec /\ Go("replace")
     \/ Own /\ SameSpec /\ call.seen.up /\ Ends(TRUE, call.seen.id)
     \/ Own /\ SameSpec /\ ~call.seen.up /\ Go("adopt")
  /\ Works /\ UNCHANGED <<world, holder, next, born, touched>>

RemoveStale ==
  /\ At("replace")
  /\ \/ Remove(call.seen.id) /\ Works /\ Retry
     \/ Fails /\ Ends(FALSE, 0) /\ UNCHANGED <<holder, touched>>
  /\ UNCHANGED <<world, next, born>>

StartExisting ==
  /\ At("adopt")
  /\ \/ /\ Reaches(call.seen.id) /\ (holder.up \/ ~busy)
        /\ holder' = [holder EXCEPT !.up = TRUE] /\ touched' = touched \cup {holder.id}
        /\ Ends(TRUE, call.seen.id) /\ Works
     \/ ~Reaches(call.seen.id) /\ Works /\ Retry /\ UNCHANGED <<holder, touched>>
     \/ busy /\ Works /\ Remove(call.seen.id) /\ Retry
     \/ Fails /\ Ends(FALSE, 0) /\ (Remove(call.seen.id) \/ UNCHANGED <<holder, touched>>)
  /\ UNCHANGED <<world, next, born>>

----------------------------------------------------------------------------
(* start_task and remove_task of a container the inventory listed. *)

StartTask ==
  /\ At("restart")
  /\ \/ /\ Reaches(call.seen.id) /\ (holder.up \/ ~busy)
        /\ holder' = [holder EXCEPT !.up = TRUE] /\ touched' = touched \cup {holder.id}
        /\ Ends(TRUE, call.seen.id) /\ Works
     \/ (busy \/ ~Reaches(call.seen.id)) /\ Works /\ Ends(FALSE, 0) /\ UNCHANGED <<holder, touched>>
     \/ Fails /\ Ends(FALSE, 0) /\ UNCHANGED <<holder, touched>>
  /\ UNCHANGED <<world, next, born>>

RemoveTask ==
  /\ At("remove")
  /\ \/ Remove(call.seen.id) /\ Works /\ Ends(TRUE, call.seen.id)
     \/ Fails /\ Ends(FALSE, 0) /\ UNCHANGED <<holder, touched>>
  /\ UNCHANGED <<world, next, born>>

----------------------------------------------------------------------------
Init ==
  /\ revision \in Revisions
  /\ holder = None /\ next = 1 /\ late = {} /\ busy = FALSE
  /\ call = Idle
  /\ result = [kind |-> "none", ok |-> FALSE, id |-> 0, revision |-> Nobody]
  /\ born = [i \in Ids |-> [own |-> FALSE, revision |-> Nobody]]
  /\ touched = {} /\ faults = 0

Call == Create \/ StartNew \/ Inspect \/ Judge \/ RemoveStale \/ StartExisting \/ StartTask \/ RemoveTask

Next ==
  \/ Assign \/ Foreign \/ Vanishes \/ Exits \/ PortTaken \/ RestartAgent \/ LateCreate
  \/ Begin \/ Call

Spec == Init /\ [][Next]_vars

\* The runtime answers every call: weak fairness of Call, which can always be taken
\* while there is a call, and changes it.
FairSpec == Spec /\ ([]<>(call = Idle) \/ []<><<call' # call>>_vars)

----------------------------------------------------------------------------
\* A container under the task's name that is not the task's is never started or
\* removed, although it can take the name between any two calls.
ForeignUntouched == \A i \in touched : born[i].own

\* When create_task or start_task succeeds, the container it created, adopted or
\* started is one of the assigned revision, whatever request left it behind.
StartedAsAssigned ==
  result.ok /\ result.kind \in {"create", "start"} =>
    born[result.id].own /\ born[result.id].revision = result.revision

\* The calls for a task start and remove its own containers only, and what they
\* report as started is what the assignment asks for.
RightContainer == ForeignUntouched /\ StartedAsAssigned

\* create_task, start_task and remove_task end: a busy host port and a name that
\* is taken again and again are retried a bounded number of times.
CallEnds == call # Idle ~> call = Idle
=============================================================================
