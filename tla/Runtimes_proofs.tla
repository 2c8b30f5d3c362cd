-------------------------- MODULE Runtimes_proofs ---------------------------
(***************************************************************************)
(* The containers of a node are the assigned ones, of the right image,     *)
(* with their config files.                                                *)
(*                                                                         *)
(* TaskRuntime. RightContainer, for any revisions, ids and number of       *)
(* faults. What a call saw is an earlier state of some container, and      *)
(* containers keep the owner and the revision they were created with       *)
(* (Knows); a call that is about to start or remove one has found it to be *)
(* the task's, and of the assigned revision where it starts it (CallFine). *)
(* That holds however the name changes hands in between, since a call      *)
(* reaches the container with the id it saw or none.                       *)
(*                                                                         *)
(* ImagePulls. A pull in flight carries an image that the reference named  *)
(* since the attempt began (Carried), from the manifest until the relayed  *)
(* image is tagged. For a digest the image never changes, so that what     *)
(* prepared_images and the runtime hold is that image, too (Fixed): this   *)
(* is what makes the image that create_task finds the one that was pulled, *)
(* even if a pull around the proxy succeeds after one through it.          *)
(*                                                                         *)
(* ConfigBlobs. The control loop copies the references, unlocks, and       *)
(* sweeps with the copy, while a request looks up, stores, pins and        *)
(* applies. A blob that is applied was pinned, hence unmarked at some time *)
(* since the request began; a sweep under way may mark it again, but with  *)
(* the time of its tick (Pinned), which is too young for the next sweep to *)
(* remove as long as the two take less than the grace period together      *)
(* (Spared). On the node, every mounted file was listed by the pass or is  *)
(* in its assignment (Seen), which gc_at spares.                           *)
(***************************************************************************)
EXTENDS TaskRuntime, Integers, TLAPS

Labels == Revisions \cup {Nobody}
Births == [Ids -> [own : BOOLEAN, revision : Labels]]
Containers == [id : Nat, own : BOOLEAN, revision : Labels, up : BOOLEAN]
Kinds == {"none", "create", "start", "remove"}
Steps == {"idle", "create", "start", "inspect", "judge", "replace", "adopt", "restart", "remove"}
Calls == [at : Steps, kind : Kinds, revision : Labels, attempt : Nat, look : Nat, seen : Containers]
Results == [kind : Kinds, ok : BOOLEAN, id : Nat, revision : Labels]

\* The steps of a call that act on the container it saw; those that start it.
Acting == {"start", "replace", "adopt", "restart", "remove"}
Starting == {"start", "adopt", "restart"}

\* A container c, as it is or was, among the births b before id n.
Knows(c, n, b) ==
  /\ c \in Containers
  /\ c # None => /\ c.id \in Ids /\ c.id < n
                 /\ b[c.id] = [own |-> c.own, revision |-> c.revision]

\* Before a call acts on a container it has checked it.
CallFine(c, n, b) ==
  /\ c \in Calls /\ Knows(c.seen, n, b)
  /\ c.at \in Acting => c.seen # None /\ c.seen.own
  /\ c.at \in Starting => c.seen.revision = c.revision
  /\ c.at = "remove" => c.kind = "remove"

\* What was started is as assigned.
ResultFine(r, n, b) ==
  /\ r \in Results
  /\ r.ok /\ r.kind \in {"create", "start"} =>
       r.id \in Ids /\ r.id < n /\ b[r.id].own /\ b[r.id].revision = r.revision

TouchedFine(t, n, b) == t \subseteq Ids \cap Nat /\ \A i \in t : i < n /\ b[i].own

TaskInv ==
  /\ next \in Nat \ {0} /\ born \in Births
  /\ revision \in Revisions /\ late \subseteq Labels
  /\ Knows(holder, next, born)
  /\ CallFine(call, next, born)
  /\ ResultFine(result, next, born)
  /\ TouchedFine(touched, next, born)

-----------------------------------------------------------------------------
\* Nothing is required of an idle call, or of a name nobody holds.
LEMMA IdleFine ==
  ASSUME NEW n \in Nat, NEW b
  PROVE  Knows(None, n, b) /\ CallFine(Idle, n, b)
  <1>1. None \in Containers
    BY DEF None, Containers, Labels
  <1>2. Idle \in Calls /\ Idle.seen = None
    BY <1>1 DEF Idle, Calls, Labels, Steps, Kinds
  <1>3. Idle.at = "idle"
    BY DEF Idle
  <1> QED  BY <1>1, <1>2, <1>3 DEF Knows, CallFine, Acting, Starting

\* What is known stays known while containers are only added.
LEMMA Grows ==
  ASSUME NEW n \in Nat, NEW m \in Nat, n <= m, NEW b, NEW d,
         \A i \in Ids : i \in Nat /\ i < n => d[i] = b[i]
  PROVE  /\ \A c : Knows(c, n, b) => Knows(c, m, d)
         /\ \A c : CallFine(c, n, b) => CallFine(c, m, d)
         /\ \A r : ResultFine(r, n, b) => ResultFine(r, m, d)
         /\ \A t : TouchedFine(t, n, b) => TouchedFine(t, m, d)
  <1>1. \A c : Knows(c, n, b) => Knows(c, m, d)
    BY DEF Knows, Containers
  <1>2. \A c : CallFine(c, n, b) => CallFine(c, m, d)
    BY <1>1 DEF CallFine
  <1>3. \A r : ResultFine(r, n, b) => ResultFine(r, m, d)
    BY DEF ResultFine, Results
  <1>4. \A t : TouchedFine(t, n, b) => TouchedFine(t, m, d)
    BY DEF TouchedFine
  <1> QED  BY <1>1, <1>2, <1>3, <1>4

\* At the start nothing was called, started or removed.
LEMMA InitTaskInv == Init => TaskInv
  <1> SUFFICES ASSUME Init PROVE TaskInv
    OBVIOUS
  <1>1. Knows(None, 1, born) /\ CallFine(Idle, 1, born)
    BY IdleFine
  <1>2. result \in Results
    BY DEF Init, Results, Labels, Kinds
  <1>3. born \in Births
    BY DEF Init, Births, Labels
  <1> QED  BY <1>1, <1>2, <1>3 DEF Init, TaskInv, ResultFine, TouchedFine

-----------------------------------------------------------------------------
\* Creates gives the name to a new container.
LEMMA CreatesFacts ==
  ASSUME TaskInv, NEW own \in BOOLEAN, NEW rev \in Labels, Creates(own, rev)
  PROVE  /\ next' \in Nat \ {0} /\ next <= next' /\ born' \in Births
         /\ \A i \in Ids : i \in Nat /\ i < next => born'[i] = born[i]
         /\ Knows(holder', next', born') /\ holder' # None
         /\ holder'.own = own /\ holder'.revision = rev
  <1> USE DEF Creates
  <1>1. next \in Nat \ {0} /\ next \in Ids /\ born \in Births
    BY DEF TaskInv
  <1>2. born' \in Births /\ born'[next] = [own |-> own, revision |-> rev]
    BY <1>1 DEF Births
  <1>3. \A i \in Ids : i \in Nat /\ i < next => born'[i] = born[i]
    BY <1>1 DEF Births
  <1>4. holder' \in Containers
    BY <1>1 DEF Containers
  <1>5. holder' # None
    BY <1>1 DEF None
  <1> QED  BY <1>1, <1>2, <1>3, <1>4, <1>5 DEF Knows

\* A call acts on nothing but the container it saw, which is the task's.
LEMMA RemoveFacts ==
  ASSUME TaskInv, call.at \in Acting, Remove(call.seen.id)
  PROVE  Knows(holder', next, born) /\ TouchedFine(touched', next, born)
  <1>1. Knows(None, next, born)
    BY IdleFine DEF TaskInv
  <1>2. CASE Reaches(call.seen.id)
    <2>1. holder.id = call.seen.id /\ born[holder.id].own /\ holder.id \in Ids \cap Nat /\ holder.id < next
      BY <1>2 DEF Reaches, TaskInv, Knows, CallFine, Containers
    <2> QED  BY <1>1, <1>2, <2>1 DEF Remove, TaskInv, TouchedFine
  <1>3. CASE ~Reaches(call.seen.id)
    BY <1>3 DEF Remove, TaskInv
  <1> QED  BY <1>2, <1>3

\* A start reaches the container that was inspected, which is the task's own and of its revision.
LEMMA StartFacts ==
  ASSUME TaskInv, call.at \in Starting, Reaches(call.seen.id),
         holder' = [holder EXCEPT !.up = TRUE], touched' = touched \cup {holder.id}
  PROVE  /\ Knows(holder', next, born) /\ TouchedFine(touched', next, born)
         /\ call.seen.id \in Ids \cap Nat /\ call.seen.id < next
         /\ born[call.seen.id].own /\ born[call.seen.id].revision = call.revision
  <1>1. holder \in Containers /\ holder # None /\ holder.id = call.seen.id
    BY DEF Reaches, TaskInv, Knows
  <1>2. /\ call.seen.own /\ call.seen # None /\ call.seen.revision = call.revision
        /\ call.seen \in Containers /\ call.seen.id \in Ids /\ call.seen.id < next
        /\ born[call.seen.id] = [own |-> call.seen.own, revision |-> call.seen.revision]
    BY DEF TaskInv, CallFine, Knows, Acting, Starting
  <1>3. call.seen.id \in Ids \cap Nat /\ born[call.seen.id].own /\ born[call.seen.id].revision = call.revision
    BY <1>2 DEF Containers
  <1>4. /\ holder' \in Containers /\ holder'.id = holder.id
        /\ holder'.own = holder.own /\ holder'.revision = holder.revision
    BY Zenon, <1>1 DEF Containers
  <1>5. Knows(holder', next, born)
    BY <1>1, <1>4 DEF TaskInv, Knows
  <1>6. TouchedFine(touched', next, born)
    BY <1>1, <1>2, <1>3 DEF TaskInv, TouchedFine
  <1> QED  BY <1>2, <1>3, <1>5, <1>6

\* How a call ends, and how it is tried again.
LEMMA EndsFacts ==
  ASSUME TaskInv, NEW ok \in BOOLEAN, NEW id \in Nat, Ends(ok, id),
         ok => \/ call.kind = "remove"
               \/ id \in Ids /\ id < next /\ born[id].own /\ born[id].revision = call.revision
  PROVE  CallFine(call', next, born) /\ ResultFine(result', next, born)
  <1>1. call' = Idle /\ result' = [kind |-> call.kind, ok |-> ok, id |-> id, revision |-> call.revision]
    BY DEF Ends
  <1>2. call.kind \in Kinds /\ call.revision \in Labels /\ next \in Nat
    BY DEF TaskInv, CallFine, Calls
  <1>3. result' \in Results
    BY <1>1, <1>2 DEF Results
  <1>4. ResultFine(result', next, born)
    BY <1>1, <1>3 DEF ResultFine
  <1> QED  BY <1>1, <1>2, <1>4, IdleFine

\* A name conflict is tried again, or reported.
LEMMA RetryFacts ==
  ASSUME TaskInv, Retry
  PROVE  CallFine(call', next, born) /\ ResultFine(result', next, born)
  <1>1. CASE call.attempt < 2
    <2>1. call \in Calls /\ call' = [call EXCEPT !.at = "create", !.attempt = @ + 1] /\ result' = result
      BY <1>1 DEF Retry, TaskInv, CallFine
    <2> DEFINE more == call.attempt + 1
    <2>5. more \in Nat /\ call' = [call EXCEPT !.at = "create", !.attempt = more]
      BY <2>1 DEF Calls
    <2>6. "create" \in Steps
      BY DEF Steps
    <2> HIDE DEF more
    <2>2. call' \in Calls /\ call'.seen = call.seen /\ call'.at = "create"
      BY Zenon, <2>1, <2>5, <2>6 DEF Calls
    <2>3. Knows(call.seen, next, born) /\ ResultFine(result, next, born)
      BY DEF TaskInv, CallFine
    <2>4. CallFine(call', next, born)
      BY <2>2, <2>3 DEF CallFine, Acting, Starting
    <2> QED  BY <2>1, <2>3, <2>4
  <1>2. CASE ~(call.attempt < 2)
    BY Zenon, <1>2, EndsFacts DEF Retry
  <1> QED  BY <1>1, <1>2

\* A call gets to its next step with what it has checked.
LEMMA GoFacts ==
  ASSUME TaskInv, NEW x \in Steps, Go(x),
         x \in Acting => call.seen # None /\ call.seen.own,
         x \in Starting => call.seen.revision = call.revision,
         x # "remove"
  PROVE  CallFine(call', next, born) /\ ResultFine(result', next, born)
  <1>1. call \in Calls /\ call' = [call EXCEPT !.at = x] /\ result' = result
    BY DEF Go, TaskInv, CallFine
  <1>2. /\ call' \in Calls /\ call'.seen = call.seen /\ call'.at = x
        /\ call'.revision = call.revision
    BY <1>1 DEF Calls
  <1>3. Knows(call.seen, next, born) /\ ResultFine(result, next, born)
    BY DEF TaskInv, CallFine
  <1>4. CallFine(call', next, born)
    BY <1>2, <1>3 DEF CallFine
  <1> QED  BY <1>1, <1>3, <1>4

\* A step that creates no container keeps the invariant if its new parts are fine.
LEMMA KeptFacts ==
  ASSUME TaskInv, UNCHANGED <<next, born>>,
         revision' \in Revisions, late' \subseteq Labels,
         Knows(holder', next, born), CallFine(call', next, born),
         ResultFine(result', next, born), TouchedFine(touched', next, born)
  PROVE  TaskInv'
  BY DEF TaskInv

\* The same for one that does.
LEMMA CreatedFacts ==
  ASSUME TaskInv, NEW own \in BOOLEAN, NEW rev \in Labels, Creates(own, rev),
         revision' \in Revisions, late' \subseteq Labels, UNCHANGED touched,
         CallFine(call', next', born'), UNCHANGED result
  PROVE  TaskInv'
  <1>1. /\ next' \in Nat \ {0} /\ next <= next' /\ born' \in Births
        /\ \A i \in Ids : i \in Nat /\ i < next => born'[i] = born[i]
        /\ Knows(holder', next', born')
    BY CreatesFacts
  <1>2. next \in Nat /\ next' \in Nat /\ ResultFine(result, next, born) /\ TouchedFine(touched, next, born)
    BY <1>1 DEF TaskInv
  <1>3. ResultFine(result, next', born') /\ TouchedFine(touched, next', born')
    BY <1>1, <1>2, Grows
  <1> QED  BY <1>1, <1>3 DEF TaskInv

-----------------------------------------------------------------------------
\* Every step of a call, of the daemon and of others preserves the invariant.
LEMMA NextTaskInv == TaskInv /\ [Next]_vars => TaskInv'
  <1> SUFFICES ASSUME TaskInv, [Next]_vars PROVE TaskInv'
    OBVIOUS
  <1>0. /\ next \in Nat /\ revision \in Revisions /\ late \subseteq Labels
        /\ Knows(holder, next, born) /\ CallFine(call, next, born)
        /\ ResultFine(result, next, born) /\ TouchedFine(touched, next, born)
        /\ Knows(None, next, born) /\ CallFine(Idle, next, born)
    BY IdleFine DEF TaskInv
  <1>1. CASE Assign
    BY <1>0, <1>1, KeptFacts DEF Assign
  <1>2. CASE Foreign
    <2>1. Nobody \in Labels /\ FALSE \in BOOLEAN
      BY DEF Labels
    <2>2. Creates(FALSE, Nobody) /\ UNCHANGED <<revision, late, call, result, touched>>
      BY Zenon, <1>2 DEF Foreign, world
    <2>3. /\ next' \in Nat /\ next <= next'
          /\ \A i \in Ids : i \in Nat /\ i < next => born'[i] = born[i]
      BY Zenon, <2>1, <2>2, CreatesFacts
    <2>4. CallFine(call, next', born')
      BY <1>0, <2>3, Grows
    <2> QED  BY Zenon, <1>0, <2>1, <2>2, <2>4, CreatedFacts
  <1>3. CASE Vanishes
    BY <1>0, <1>3, KeptFacts DEF Vanishes, world
  <1>4. CASE Exits
    <2>1. /\ holder' \in Containers /\ holder'.id = holder.id /\ holder # None
          /\ holder'.own = holder.own /\ holder'.revision = holder.revision
      BY Zenon, <1>0, <1>4 DEF Exits, Knows, Containers, None
    <2>2. Knows(holder', next, born)
      BY <1>0, <2>1 DEF Knows
    <2> QED  BY <1>0, <1>4, <2>2, KeptFacts DEF Exits, world
  <1>5. CASE PortTaken
    BY <1>0, <1>5, KeptFacts DEF PortTaken
  <1>6. CASE RestartAgent
    <2>1. late' \subseteq Labels
      BY <1>0, <1>6 DEF RestartAgent, CallFine, Calls
    <2> QED  BY <1>0, <1>6, <2>1, KeptFacts DEF RestartAgent
  <1>7. CASE LateCreate
    <2> PICK r \in late : late' = late \ {r} /\ (Creates(TRUE, r) \/ UNCHANGED <<holder, next, born>>)
      BY Zenon, <1>7 DEF LateCreate
    <2>1. r \in Labels /\ late' \subseteq Labels /\ UNCHANGED <<revision, call, result, touched>>
      BY <1>0, <1>7 DEF LateCreate
    <2>2. CASE Creates(TRUE, r)
      <3>1. /\ next' \in Nat /\ next <= next'
            /\ \A i \in Ids : i \in Nat /\ i < next => born'[i] = born[i]
        BY Zenon, <2>1, <2>2, CreatesFacts
      <3>2. CallFine(call, next', born')
        BY <1>0, <3>1, Grows
      <3> QED  BY Zenon, <1>0, <2>1, <2>2, <3>2, CreatedFacts
    <2>3. CASE UNCHANGED <<holder, next, born>>
      BY <1>0, <2>1, <2>3, KeptFacts
    <2> QED  BY Zenon, <2>2, <2>3
  <1>8. CASE Begin
    <2> PICK kind \in {"create", "start", "remove"}, seen \in {None, holder} :
          /\ kind = "create" => seen = None
          /\ kind # "create" => seen # None /\ seen.own
          /\ kind = "start" => ~seen.up /\ seen.revision = revision
          /\ kind = "remove" => seen.revision # revision
          /\ call' = [Idle EXCEPT !.kind = kind, !.revision = revision, !.seen = seen,
                                  !.at = IF kind = "start" THEN "restart" ELSE kind]
      BY Zenon, <1>8 DEF Begin
    <2>1. Knows(seen, next, born) /\ seen \in Containers
      BY <1>0 DEF Knows
    <2>2. /\ call'.seen = seen /\ call'.revision = revision /\ call'.kind = kind
          /\ call'.at = (IF kind = "start" THEN "restart" ELSE kind)
      BY DEF Idle
    <2>3. call' \in Calls
      BY Zenon, <1>0, <2>1 DEF Idle, Calls, Steps, Kinds, Labels
    <2>4. CallFine(call', next, born)
      BY <2>1, <2>2, <2>3 DEF CallFine, Acting, Starting
    <2> QED  BY <1>0, <1>8, <2>4, KeptFacts DEF Begin
  <1>9. CASE Create
    <2>1. UNCHANGED <<revision, late, touched>> /\ call.at = "create" /\ call \in Calls /\ call.revision \in Labels
      BY <1>0, <1>9 DEF Create, world, At, CallFine, Calls
    <2>2. CASE Creates(TRUE, call.revision) /\ call' = [call EXCEPT !.at = "start", !.seen = holder'] /\ UNCHANGED result
      <3>1. /\ Knows(holder', next', born') /\ holder' # None
            /\ holder'.own /\ holder'.revision = call.revision
        BY Zenon, <2>1, <2>2, CreatesFacts
      <3>2. call' \in Calls /\ call'.at = "start" /\ call'.seen = holder' /\ call'.revision = call.revision
        BY Zenon, <2>1, <2>2, <3>1 DEF Calls, Steps, Knows
      <3>3. CallFine(call', next', born')
        BY <3>1, <3>2 DEF CallFine
      <3> QED  BY Zenon, <1>0, <2>1, <2>2, <3>3, CreatedFacts
    <2>3. CASE UNCHANGED <<holder, next, born, result>> /\ call' = [call EXCEPT !.at = "inspect", !.look = 0]
      <3>1. call' \in Calls /\ call'.at = "inspect" /\ call'.seen = call.seen
        BY Zenon, <2>1, <2>3 DEF Calls, Steps
      <3>2. CallFine(call', next, born)
        BY <1>0, <3>1 DEF CallFine, Acting, Starting
      <3> QED  BY <1>0, <2>1, <2>3, <3>2, KeptFacts
    <2>4. CASE UNCHANGED <<holder, next, born>> /\ Retry
      BY <1>0, <2>1, <2>4, RetryFacts, KeptFacts
    <2>5. CASE UNCHANGED <<holder, next, born>> /\ Ends(FALSE, 0)
      BY Zenon, <1>0, <2>1, <2>5, EndsFacts, KeptFacts
    <2> QED  BY Zenon, <1>9, <2>2, <2>3, <2>4, <2>5 DEF Create
  <1>10. CASE StartNew
    <2>1. UNCHANGED <<revision, late, next, born>> /\ call.at \in Acting /\ call.at \in Starting
      BY <1>10 DEF StartNew, world, At, Acting, Starting
    <2>2. CASE /\ Reaches(call.seen.id) /\ holder' = [holder EXCEPT !.up = TRUE]
               /\ touched' = touched \cup {holder.id} /\ Ends(TRUE, call.seen.id)
      BY Zenon, <1>0, <2>1, <2>2, StartFacts, EndsFacts, KeptFacts
    <2>3. CASE Remove(call.seen.id) /\ Retry
      BY <1>0, <2>1, <2>3, RemoveFacts, RetryFacts, KeptFacts
    <2>4. CASE Ends(FALSE, 0) /\ UNCHANGED <<holder, touched>>
      BY Zenon, <1>0, <2>1, <2>4, EndsFacts, KeptFacts
    <2>5. CASE Ends(FALSE, 0) /\ Remove(call.seen.id)
      BY Zenon, <1>0, <2>1, <2>5, EndsFacts, RemoveFacts, KeptFacts
    <2> QED  BY Zenon, <1>10, <2>2, <2>3, <2>4, <2>5 DEF StartNew
  <1>11. CASE Inspect
    <2>1. UNCHANGED <<revision, late, next, born, holder, touched>> /\ call \in Calls /\ holder \in Containers
      BY <1>0, <1>11 DEF Inspect, world, CallFine, Knows
    <2>2. CASE call' = [call EXCEPT !.at = "judge", !.seen = holder] /\ UNCHANGED result
      <3>1. call' \in Calls /\ call'.at = "judge" /\ call'.seen = holder
        BY Zenon, <2>1, <2>2 DEF Calls, Steps
      <3>2. CallFine(call', next, born)
        BY <1>0, <3>1 DEF CallFine, Acting, Starting
      <3> QED  BY <1>0, <2>1, <2>2, <3>2, KeptFacts
    <2>3. CASE call' = [call EXCEPT !.look = @ + 1] /\ UNCHANGED result
      <3>1. /\ call' \in Calls /\ call'.at = call.at /\ call'.seen = call.seen
            /\ call'.kind = call.kind /\ call'.revision = call.revision
        BY <2>1, <2>3 DEF Calls
      <3>2. CallFine(call', next, born)
        BY <1>0, <3>1 DEF CallFine
      <3> QED  BY <1>0, <2>1, <2>3, <3>2, KeptFacts
    <2>4. CASE Retry
      BY <1>0, <2>1, <2>4, RetryFacts, KeptFacts
    <2>5. CASE Ends(FALSE, 0)
      BY Zenon, <1>0, <2>1, <2>5, EndsFacts, KeptFacts
    <2> QED  BY Zenon, <1>11, <2>2, <2>3, <2>4, <2>5 DEF Inspect
  <1>12. CASE Judge
    <2>1. UNCHANGED <<revision, late, next, born, holder, touched>>
      BY <1>12 DEF Judge, world
    <2>2. CASE ~Own /\ Ends(FALSE, 0)
      BY Zenon, <1>0, <2>1, <2>2, EndsFacts, KeptFacts
    <2>3. CASE Own /\ Go("replace")
      <3>1. call.seen # None /\ call.seen.own
        BY <2>3 DEF Own, None
      <3> QED  BY <1>0, <2>1, <2>3, <3>1, GoFacts, KeptFacts DEF Steps, Starting
    <2>4. CASE Own /\ SameSpec /\ Ends(TRUE, call.seen.id)
      <3>0. Knows(call.seen, next, born)
        BY Zenon, <1>0 DEF CallFine
      <3>1. call.seen # None /\ call.seen.own /\ call.seen.revision = call.revision
        BY <2>4 DEF Own, None, SameSpec
      <3>2. /\ call.seen.id \in Ids \cap Nat /\ call.seen.id < next
            /\ born[call.seen.id].own /\ born[call.seen.id].revision = call.revision
        BY <3>0, <3>1 DEF Knows, Containers
      <3> QED  BY Zenon, <1>0, <2>1, <2>4, <3>2, EndsFacts, KeptFacts
    <2>5. CASE Own /\ SameSpec /\ Go("adopt")
      <3>1. call.seen # None /\ call.seen.own /\ call.seen.revision = call.revision
        BY <2>5 DEF Own, None, SameSpec
      <3> QED  BY <1>0, <2>1, <2>5, <3>1, GoFacts, KeptFacts DEF Steps
    <2> QED  BY Zenon, <1>12, <2>2, <2>3, <2>4, <2>5 DEF Judge
  <1>13. CASE RemoveStale
    <2>1. UNCHANGED <<revision, late, next, born>> /\ call.at \in Acting
      BY <1>13 DEF RemoveStale, world, At, Acting
    <2>2. CASE Remove(call.seen.id) /\ Retry
      BY <1>0, <2>1, <2>2, RemoveFacts, RetryFacts, KeptFacts
    <2>3. CASE Ends(FALSE, 0) /\ UNCHANGED <<holder, touched>>
      BY Zenon, <1>0, <2>1, <2>3, EndsFacts, KeptFacts
    <2> QED  BY Zenon, <1>13, <2>2, <2>3 DEF RemoveStale
  <1>14. CASE StartExisting
    <2>1. UNCHANGED <<revision, late, next, born>> /\ call.at \in Acting /\ call.at \in Starting
      BY <1>14 DEF StartExisting, world, At, Acting, Starting
    <2>2. CASE /\ Reaches(call.seen.id) /\ holder' = [holder EXCEPT !.up = TRUE]
               /\ touched' = touched \cup {holder.id} /\ Ends(TRUE, call.seen.id)
      BY Zenon, <1>0, <2>1, <2>2, StartFacts, EndsFacts, KeptFacts
    <2>3. CASE Retry /\ UNCHANGED <<holder, touched>>
      BY <1>0, <2>1, <2>3, RetryFacts, KeptFacts
    <2>4. CASE Remove(call.seen.id) /\ Retry
      BY <1>0, <2>1, <2>4, RemoveFacts, RetryFacts, KeptFacts
    <2>5. CASE Ends(FALSE, 0) /\ UNCHANGED <<holder, touched>>
      BY Zenon, <1>0, <2>1, <2>5, EndsFacts, KeptFacts
    <2>6. CASE Ends(FALSE, 0) /\ Remove(call.seen.id)
      BY Zenon, <1>0, <2>1, <2>6, EndsFacts, RemoveFacts, KeptFacts
    <2> QED  BY Zenon, <1>14, <2>2, <2>3, <2>4, <2>5, <2>6 DEF StartExisting
  <1>15. CASE StartTask
    <2>1. UNCHANGED <<revision, late, next, born>> /\ call.at \in Acting /\ call.at \in Starting
      BY <1>15 DEF StartTask, world, At, Acting, Starting
    <2>2. CASE /\ Reaches(call.seen.id) /\ holder' = [holder EXCEPT !.up = TRUE]
               /\ touched' = touched \cup {holder.id} /\ Ends(TRUE, call.seen.id)
      BY Zenon, <1>0, <2>1, <2>2, StartFacts, EndsFacts, KeptFacts
    <2>3. CASE Ends(FALSE, 0) /\ UNCHANGED <<holder, touched>>
      BY Zenon, <1>0, <2>1, <2>3, EndsFacts, KeptFacts
    <2> QED  BY Zenon, <1>15, <2>2, <2>3 DEF StartTask
  <1>16. CASE RemoveTask
    <2>1. /\ UNCHANGED <<revision, late, next, born>> /\ call.at \in Acting
          /\ call.kind = "remove" /\ call.seen.id \in Nat
      BY <1>0, <1>16 DEF RemoveTask, world, At, Acting, CallFine, Knows, Containers
    <2>2. CASE Remove(call.seen.id) /\ Ends(TRUE, call.seen.id)
      BY Zenon, <1>0, <2>1, <2>2, RemoveFacts, EndsFacts, KeptFacts
    <2>3. CASE Ends(FALSE, 0) /\ UNCHANGED <<holder, touched>>
      BY Zenon, <1>0, <2>1, <2>3, EndsFacts, KeptFacts
    <2> QED  BY Zenon, <1>16, <2>2, <2>3 DEF RemoveTask
  <1>17. CASE UNCHANGED vars
    BY <1>0, <1>17, KeptFacts DEF vars
  <1> QED  BY <1>1, <1>2, <1>3, <1>4, <1>5, <1>6, <1>7, <1>8, <1>9, <1>10, <1>11, <1>12,
              <1>13, <1>14, <1>15, <1>16, <1>17 DEF Next, Call

\* Whatever takes the task's name between two calls of create_task, start_task or
\* remove_task, they start and remove the task's own containers only, and what
\* they report as started has the assigned revision.
THEOREM ContainersRight == Spec => []RightContainer
  <1>1. TaskInv => RightContainer
    BY DEF TaskInv, ResultFine, TouchedFine, RightContainer, ForeignUntouched, StartedAsAssigned
  <1> QED  BY <1>1, InitTaskInv, NextTaskInv, PTL DEF Spec

(***************************************************************************)
(* The images of a task (ImagePulls).                                      *)
(***************************************************************************)
CONSTANTS Images, Chunks, Attempts, MaxMoves, NoImage

VARIABLES byTag, policy, upstream, moves, proxy, objects, expired, leased, sweep, writer, litter,
          pull, local, temp, container, prepared, named

IP == INSTANCE ImagePulls

\* The steps of a pull that has an image, the ones of an attempt, and all of them.
Carrying == {"blob", "open", "read", "fetch", "stream", "pulled", "tag"}
Pulling == Carrying \cup {"probe", "manifest", "fallback", "direct", "failed"}
PullSteps == Pulling \cup {"idle", "done", "error", "created"}

\* A pull in flight carries an image that the reference named since the attempt began.
Carried ==
    /\ pull.at \in Carrying => pull.image \in named /\ pull.image # NoImage
    /\ pull.at = "tag" => temp = pull.image
    /\ pull.at \in Pulling => upstream \in named /\ pull.attempt > 0

\* A digest names one image, which is all that prepared_images and the runtime hold.
Fixed ==
    ~byTag => /\ prepared \in {NoImage, upstream} /\ local \in {NoImage, upstream}
              /\ named \subseteq {upstream}

\* A tag is never remembered as prepared.
ByName == byTag => prepared = NoImage

\* The inductive invariant of the pull.
PullInv ==
    /\ DOMAIN pull = {"at", "attempt", "image", "size"} /\ pull.at \in PullSteps /\ pull.attempt \in Nat
    /\ upstream \in Images /\ named \subseteq Images /\ byTag \in BOOLEAN
    /\ Carried /\ Fixed /\ ByName /\ IP!PulledIsNamed

(***************************************************************************)
(* The cache.                                                              *)
(***************************************************************************)
\* A manifest is stored whole.
LEMMA StoreWhole == ASSUME IP!CacheComplete, NEW o, IP!Store(o) PROVE IP!CacheComplete'
  BY DEF IP!CacheComplete, IP!Store

\* commit refuses a file without the expected size; what is not checked is whole.
LEMMA CommitWhole ==
  ASSUME IP!CacheComplete, NEW written, IP!Commit(written), written = Chunks \/ writer.sized
  PROVE  IP!CacheComplete'
  BY Zenon DEF IP!CacheComplete, IP!Commit, IP!Commits

\* The cache is complete while its objects do not change.
LEMMA SameObjects == ASSUME IP!CacheComplete, objects' = objects PROVE IP!CacheComplete'
  BY Zenon DEF IP!CacheComplete

\* commit is the only way in, and it checks that an object is whole.
LEMMA CacheStep == IP!CacheComplete /\ [IP!Next]_(IP!vars) => IP!CacheComplete'
  <1> SUFFICES ASSUME IP!CacheComplete, [IP!Next]_(IP!vars) PROVE IP!CacheComplete'
    BY Zenon
  <1>1. CASE IP!Probe
    BY Zenon, <1>1, StoreWhole, SameObjects DEF IP!Probe, IP!cache
  <1>2. CASE IP!ServeManifest
    BY Zenon, <1>2, StoreWhole, SameObjects DEF IP!ServeManifest
  <1>3. CASE IP!StreamBlob
    BY Zenon, <1>3, CommitWhole, SameObjects DEF IP!StreamBlob
  <1>4. CASE IP!StreamFails
    BY Zenon, <1>4, CommitWhole, SameObjects DEF IP!StreamFails
  <1>5. CASE IP!GcSweeps
    BY Zenon, <1>5 DEF IP!GcSweeps, IP!CacheComplete
  <1>6. CASE \/ IP!Begin \/ IP!FindBlob \/ IP!OpenBlob \/ IP!ReadBlob \/ IP!MissBlob \/ IP!FetchBlob
             \/ IP!HandleFails \/ IP!RelayFails
             \/ IP!FallBack \/ IP!PullDirect \/ IP!Pulled \/ IP!Tag \/ IP!Create \/ IP!Retry \/ IP!GiveUp
             \/ IP!Push \/ IP!SetProxy
             \/ IP!Expire \/ IP!GcBegins \/ IP!Prune \/ IP!PullAgain \/ IP!RestartAgent \/ UNCHANGED IP!vars
    <2>1. objects' = objects
      BY Zenon, <1>6 DEF IP!Begin, IP!FindBlob, IP!OpenBlob, IP!ReadBlob, IP!MissBlob, IP!FetchBlob, IP!HandleFails,
                  IP!RelayFails, IP!FallBack,
                  IP!PullDirect, IP!Pulled, IP!Tag, IP!Create, IP!Retry, IP!GiveUp, IP!Push, IP!SetProxy,
                  IP!Expire, IP!GcBegins, IP!Prune,
                  IP!PullAgain, IP!RestartAgent, IP!cache, IP!vars
    <2> QED  BY Zenon, <2>1, SameObjects
  <1> QED  BY Zenon, <1>1, <1>2, <1>3, <1>4, <1>5, <1>6 DEF IP!Next, IP!PullStep

(***************************************************************************)
(* The pull.                                                               *)
(***************************************************************************)
\* There are images, and NoImage is none of them.
Named == Images # {} /\ NoImage \notin Images

\* Nothing is pulled at the start.
LEMMA InitPull == ASSUME Named, IP!Init PROVE PullInv
  <1>1. upstream \in Images
    BY Zenon DEF Named, IP!Init
  <1> QED  BY Zenon, <1>1 DEF IP!Init, PullInv, Carried, Fixed, ByName, IP!PulledIsNamed, PullSteps, Pulling, Carrying,
                       IP!At

\* What a step does that only moves the pull on, from and to steps of an attempt.
LEMMA Moves ==
  ASSUME PullInv, NEW step \in PullSteps \ {"done", "tag"}, pull.at # "idle" \/ step = "idle",
         DOMAIN pull' = DOMAIN pull, pull'.at = step, pull'.attempt = pull.attempt,
         step \in Carrying => pull'.image \in named /\ pull'.image # NoImage,
         step \in Pulling => pull.at \in Pulling,
         UNCHANGED <<byTag, upstream, named, local, prepared>>
  PROVE  PullInv'
  BY Zenon DEF PullInv, Carried, Fixed, ByName, IP!PulledIsNamed, PullSteps, IP!At

\* A step of the cache alone.
LEMMA SamePull ==
  ASSUME PullInv, UNCHANGED <<pull, byTag, upstream, named, local, prepared, temp>>
  PROVE  PullInv'
  BY Zenon DEF PullInv, Carried, Fixed, ByName, IP!PulledIsNamed, IP!At, IP!LocalImage

\* What GoTo does.
LEMMA GoToFacts ==
  ASSUME PullInv, NEW step, IP!GoTo(step)
  PROVE  DOMAIN pull' = DOMAIN pull /\ pull'.at = step /\ pull'.attempt = pull.attempt /\ pull'.image = pull.image
  BY Zenon DEF IP!GoTo, PullInv

\* An attempt begins: what the reference names from now on counts.
LEMMA PullBeginKeeps == ASSUME Named, PullInv, IP!Begin PROVE PullInv'
  <1> USE DEF PullSteps, Pulling, Carrying
  <1>1. /\ UNCHANGED <<byTag, upstream, local, prepared, temp>> /\ named' = {upstream}
        /\ DOMAIN pull' = DOMAIN pull
    BY Zenon DEF IP!Begin, IP!runtime, PullInv
  <1>2. \/ pull'.at = "done" /\ pull'.attempt = 0 /\ pull'.image = IP!LocalImage
        \/ pull'.at = "error" /\ pull'.attempt = 0
        \/ pull'.at = "probe" /\ pull'.attempt = 1
    BY Zenon DEF IP!Begin, PullInv
  <1>3. IP!LocalImage' = IP!LocalImage
    BY Zenon, <1>1 DEF IP!LocalImage
  <1> QED  BY <1>1, <1>2, <1>3 DEF PullInv, Carried, Fixed, ByName, IP!PulledIsNamed, IP!At

\* proxy_reference: the relay answers, or the pull goes to the registry itself.
LEMMA ProbeKeeps == ASSUME PullInv, IP!Probe PROVE PullInv'
  <1>1. UNCHANGED <<byTag, upstream, named, local, prepared>> /\ pull.at = "probe"
        /\ (IP!GoTo("manifest") \/ IP!GoTo("direct"))
    BY Zenon DEF IP!Probe, IP!registry, IP!runtime, IP!At
  <1> QED  BY Zenon, <1>1, GoToFacts, Moves DEF PullSteps, Pulling, Carrying

\* A manifest is served: the upstream's present one, also from the cache.
LEMMA ServeKeeps == ASSUME Named, PullInv, IP!ServeManifest PROVE PullInv'
  <1>1. UNCHANGED <<byTag, upstream, named, local, prepared>> /\ pull.at = "manifest"
    BY Zenon DEF IP!ServeManifest, IP!registry, IP!runtime, IP!At
  <1>2. pull' = [pull EXCEPT !.at = "blob", !.image = upstream]
    BY Zenon DEF IP!ServeManifest, IP!CachedManifest
  <1>3. DOMAIN pull' = DOMAIN pull /\ pull'.at = "blob" /\ pull'.attempt = pull.attempt /\ pull'.image = upstream
    BY Zenon, <1>2 DEF PullInv
  <1>4. upstream \in named /\ upstream # NoImage
    BY Zenon, <1>1 DEF PullInv, Carried, Pulling, Named
  <1> QED  BY Zenon, <1>1, <1>3, <1>4, Moves DEF PullSteps, Pulling, Carrying

\* The steps of the relay with the image it has.
LEMMA BlobKeeps ==
  ASSUME PullInv, \/ IP!FindBlob \/ IP!OpenBlob \/ IP!ReadBlob \/ IP!MissBlob \/ IP!FetchBlob \/ IP!StreamBlob
  PROVE  PullInv'
  <1>1. UNCHANGED <<byTag, upstream, named, local, prepared>> /\ pull.at \in Carrying
    BY Zenon DEF IP!FindBlob, IP!OpenBlob, IP!ReadBlob, IP!MissBlob, IP!FetchBlob, IP!StreamBlob, IP!registry,
           IP!runtime, IP!At, Carrying
  <1>2. /\ DOMAIN pull' = DOMAIN pull /\ pull'.attempt = pull.attempt /\ pull'.image = pull.image
        /\ pull'.at \in {"open", "read", "fetch", "pulled", "failed", "stream"}
    BY Zenon DEF IP!FindBlob, IP!OpenBlob, IP!ReadBlob, IP!MissBlob, IP!FetchBlob, IP!StreamBlob, IP!GoTo,
                 PullInv, IP!At
  <1>3. pull.image \in named /\ pull.image # NoImage
    BY Zenon, <1>1 DEF PullInv, Carried
  <1> QED  BY Zenon, <1>1, <1>2, <1>3, Moves DEF PullSteps, Pulling, Carrying

\* What fails falls back, and what is over starts again.
LEMMA FailureKeeps ==
  ASSUME PullInv, \/ IP!StreamFails \/ IP!HandleFails \/ IP!RelayFails \/ IP!FallBack \/ IP!GiveUp
                  \/ IP!PullAgain
  PROVE  PullInv'
  <1>1. UNCHANGED <<byTag, upstream, named, local, prepared>>
    BY Zenon DEF IP!StreamFails, IP!HandleFails, IP!RelayFails, IP!FallBack, IP!GiveUp, IP!PullAgain, IP!registry,
           IP!runtime
  <1>2. \/ pull.at \in Pulling /\ (IP!GoTo("fallback") \/ IP!GoTo("direct") \/ IP!GoTo("error"))
        \/ pull.at # "idle" /\ IP!GoTo("idle")
    BY Zenon DEF IP!StreamFails, IP!HandleFails, IP!RelayFails, IP!FallBack, IP!GiveUp, IP!PullAgain, IP!At, Pulling,
           Carrying
  <1> QED  BY <1>1, <1>2, GoToFacts, Moves DEF PullSteps, Pulling, Carrying

\* The runtime names the relayed image.
LEMMA PulledKeeps == ASSUME PullInv, IP!Pulled PROVE PullInv'
  <1>1. UNCHANGED <<byTag, upstream, named, local,
        prepared>> /\ pull.at = "pulled" /\ IP!GoTo("tag") /\ temp' = pull.image
    BY Zenon DEF IP!Pulled, IP!registry, IP!At
  <1> QED  BY <1>1, GoToFacts DEF PullInv, Carried, Fixed, ByName, IP!PulledIsNamed, PullSteps, Pulling, Carrying,
                                  IP!At

\* A pull that succeeds: what create_task finds is what was pulled.
LEMMA DoneKeeps ==
  ASSUME PullInv, pull.at \in Pulling, DOMAIN pull' = DOMAIN pull, pull'.at = "done",
        pull'.attempt = pull.attempt,
         pull'.image \in named, pull'.image = IP!LocalImage', UNCHANGED <<byTag, upstream, named>>,
         byTag => prepared' = prepared,
         ~byTag => prepared' \in {NoImage, upstream} /\ local' \in {NoImage, upstream}
  PROVE  PullInv'
  BY Zenon DEF PullInv, Carried, Fixed, ByName, IP!PulledIsNamed, PullSteps, Pulling, Carrying, IP!At

\* Without the cache, the runtime pulls what the upstream names now.
LEMMA DirectKeeps == ASSUME Named, PullInv, IP!PullDirect PROVE PullInv'
  <1>1. UNCHANGED <<byTag, upstream, named, prepared>> /\ pull.at = "direct" /\ pull.at \in Pulling
    BY Zenon DEF IP!PullDirect, IP!registry, IP!At, Pulling
  <1>2. CASE local' = upstream /\ pull' = [pull EXCEPT !.at = "done", !.image = upstream]
    <2>1. DOMAIN pull' = DOMAIN pull /\ pull'.at = "done" /\ pull'.attempt = pull.attempt /\ pull'.image = upstream
      BY Zenon, <1>2 DEF PullInv
    <2>2. upstream \in named
      BY Zenon, <1>1 DEF PullInv, Carried
    <2>3. prepared \in {NoImage, upstream}
      BY Zenon DEF PullInv, Fixed, ByName
    <2>4. IP!LocalImage' = upstream
      BY Zenon, <1>1, <1>2, <2>3 DEF IP!LocalImage
    <2> QED  BY Zenon, <1>1, <1>2, <2>1, <2>2, <2>3, <2>4, DoneKeeps
  <1>3. CASE IP!GoTo("failed") /\ UNCHANGED local
    BY Zenon, <1>1, <1>3, GoToFacts, Moves DEF PullSteps, Pulling, Carrying
  <1> QED  BY Zenon, <1>2, <1>3 DEF IP!PullDirect

\* The image that was pulled gets the name of the reference.
LEMMA TagKeeps == ASSUME PullInv, IP!Tag PROVE PullInv'
  <1>1. UNCHANGED <<byTag, upstream, named>> /\ pull.at = "tag" /\ pull.at \in Pulling
    BY Zenon DEF IP!Tag, IP!registry, IP!At, Pulling, Carrying
  <1>2. temp = pull.image /\ temp \in named /\ temp # NoImage
    BY Zenon, <1>1 DEF PullInv, Carried, Carrying
  <1>3. CASE byTag /\ IP!GoTo("failed") /\ UNCHANGED <<local, prepared>>
    BY <1>1, <1>3, GoToFacts, Moves DEF PullSteps, Pulling, Carrying
  <1>4. CASE pull' = [pull EXCEPT !.at = "done", !.image = temp]
             /\ ((byTag /\ local' = temp /\ UNCHANGED prepared)
                                                                \/ (~byTag /\ prepared' = temp /\ UNCHANGED local))
    <2>1. DOMAIN pull' = DOMAIN pull /\ pull'.at = "done" /\ pull'.attempt = pull.attempt /\ pull'.image = temp
      BY Zenon, <1>4 DEF PullInv
    <2>2. CASE byTag /\ local' = temp /\ UNCHANGED prepared
      <3>1. IP!LocalImage' = temp
        BY Zenon, <2>2 DEF IP!LocalImage, PullInv, ByName
      <3> QED  BY Zenon, <1>1, <1>2, <2>1, <2>2, <3>1, DoneKeeps
    <2>3. CASE ~byTag /\ prepared' = temp /\ UNCHANGED local
      <3>1. temp = upstream /\ local \in {NoImage, upstream}
        BY Zenon, <1>2, <2>3 DEF PullInv, Fixed
      <3>2. IP!LocalImage' = temp
        BY Zenon, <1>2, <2>3 DEF IP!LocalImage
      <3> QED  BY Zenon, <1>1, <1>2, <2>1, <2>3, <3>1, <3>2, DoneKeeps
    <2> QED  BY Zenon, <1>4, <2>2, <2>3
  <1>5. \/ byTag /\ IP!GoTo("failed") /\ UNCHANGED <<local, prepared>>
        \/ /\ pull' = [pull EXCEPT !.at = "done", !.image = temp]
           /\ \/ byTag /\ local' = temp /\ UNCHANGED prepared
              \/ ~byTag /\ prepared' = temp /\ UNCHANGED local
    BY Zenon DEF IP!Tag
  <1> QED  BY Zenon, <1>3, <1>4, <1>5

\* An attempt is given up and another begins.
LEMMA RetryKeeps == ASSUME PullInv, IP!Retry PROVE PullInv'
  <1>1. UNCHANGED <<byTag, upstream, local, prepared>> /\ pull.at = "failed" /\ named' = {upstream}
    BY Zenon DEF IP!Retry, IP!runtime, IP!At
  <1>2. DOMAIN pull' = DOMAIN pull /\ pull'.at = "probe" /\ pull'.attempt \in {pull.attempt, pull.attempt + 1}
    BY Zenon DEF IP!Retry, PullInv
  <1>3. pull.attempt \in Nat /\ pull.attempt > 0
    BY Zenon, <1>1 DEF PullInv, Carried, Pulling
  <1> QED  BY <1>1, <1>2, <1>3 DEF PullInv, Carried, Fixed, ByName, IP!PulledIsNamed, PullSteps, Pulling, Carrying,
                                   IP!At

\* create_task takes the image the pull left.
LEMMA CreateKeeps == ASSUME PullInv, IP!Create PROVE PullInv'
  <1>1. UNCHANGED <<byTag, upstream, named, local, prepared>> /\ pull.at = "done" /\ IP!GoTo("created")
    BY Zenon DEF IP!Create, IP!registry, IP!At
  <1> QED  BY Zenon, <1>1, GoToFacts, Moves DEF PullSteps, Pulling, Carrying

\* The tag moves upstream.
LEMMA PushKeeps == ASSUME PullInv, IP!Push PROVE PullInv'
  <1> PICK i \in Images : upstream' = i /\ named' = named \cup {i}
    BY Zenon DEF IP!Push
  <1>1. byTag /\ UNCHANGED <<byTag, pull, local, temp, prepared>>
    BY Zenon DEF IP!Push, IP!runtime
  <1> QED  BY Zenon, <1>1 DEF PullInv, Carried, Fixed, ByName, IP!PulledIsNamed, IP!LocalImage, IP!At

\* image_operations: no prune between a pull and create_task.
LEMMA PruneKeeps == ASSUME PullInv, IP!Prune PROVE PullInv'
  <1>1. /\ UNCHANGED <<byTag, upstream, named, pull>> /\ pull.at \in {"idle", "error", "created"}
        /\ local' \in {local, NoImage} /\ prepared' \in {prepared, NoImage}
    BY Zenon DEF IP!Prune, IP!Unlocked
  <1> QED  BY Zenon, <1>1 DEF PullInv, Carried, Fixed, ByName, IP!PulledIsNamed, PullSteps, Pulling, Carrying, IP!At

\* The Agent restarts and forgets prepared_images.
LEMMA RestartKeeps == ASSUME PullInv, IP!RestartAgent PROVE PullInv'
  <1>1. UNCHANGED <<byTag, upstream, named, local>> /\ prepared' = NoImage /\ IP!GoTo("idle")
    BY Zenon DEF IP!RestartAgent
  <1> QED  BY <1>1, GoToFacts DEF PullInv, Carried, Fixed, ByName, IP!PulledIsNamed, PullSteps, Pulling, Carrying,
                                  IP!At

\* Every step preserves the invariant.
LEMMA PullStepKeeps == ASSUME Named, PullInv, [IP!Next]_(IP!vars) PROVE PullInv'
  <1>1. CASE IP!SetProxy \/ IP!Expire \/ IP!GcBegins \/ IP!GcSweeps \/ UNCHANGED IP!vars
    <2>1. UNCHANGED <<pull, byTag, upstream, named, local, prepared, temp>>
      BY Zenon, <1>1 DEF IP!SetProxy, IP!Expire, IP!GcBegins, IP!GcSweeps, IP!registry, IP!runtime, IP!vars
    <2> QED  BY Zenon, <2>1, SamePull
  <1> QED
    BY Zenon, <1>1, PullBeginKeeps, ProbeKeeps, ServeKeeps, BlobKeeps, FailureKeeps, PulledKeeps, DirectKeeps,
       TagKeeps, RetryKeeps, CreateKeeps, PushKeeps, PruneKeeps, RestartKeeps DEF IP!Next, IP!PullStep

\* However writers, readers, the collector, retries, fallbacks, moves of the tag,
\* prunes and restarts interleave: a file of the image proxy's cache is whole, and
\* a pull that succeeds leaves, where create_task looks for it, an image that the
\* reference named during the attempt (commit, pull_image_once, image_operations).
THEOREM ImagesAreRight ==
  ASSUME Images # {}, NoImage \notin Images
  PROVE  IP!Spec => []IP!ImagesRight
  <1>1. IP!Init => IP!CacheComplete /\ PullInv
    <2>1. IP!Init => IP!CacheComplete
      BY DEF IP!Init, IP!CacheComplete
    <2> QED  BY Zenon, <2>1, InitPull DEF Named
  <1>2. IP!CacheComplete /\ PullInv /\ [IP!Next]_(IP!vars) => IP!CacheComplete' /\ PullInv'
    BY Zenon, CacheStep, PullStepKeeps DEF Named
  <1>3. IP!CacheComplete /\ PullInv => IP!ImagesRight
    BY Zenon DEF PullInv, IP!ImagesRight
  <1> QED  BY <1>1, <1>2, <1>3, PTL DEF IP!Spec

(***************************************************************************)
(* Its config files (ConfigBlobs).                                         *)
(***************************************************************************)
CONSTANTS Digests, Bounds

VARIABLES bound, now, blobs, spec, rev, unpinned, tasks, unclaimed, past, client, tick, reply, pass, files,
          marks, containers, down

CB == INSTANCE ConfigBlobs

\* A request or a tick stays less than half the grace period between two of its steps.
BoundsFit ==
    \A b \in Bounds : b.grace \in Nat /\ b.patience \in Nat /\ 2 * b.patience < b.grace

\* The digests whose blobs must not be collected.
Needed(s, ts, excused) == CB!referenced_config_digests(s, ts, <<>>) \ excused

\* A copy of the references is at most `patience` old.
Young(h, at) == h # CB!None => h.since \in Nat /\ h.since <= at /\ at <= h.since + bound.patience

\* The shape of the state.
BlobShape ==
    /\ bound \in Bounds /\ now \in Nat
    /\ client = CB!None \/ ( /\ client.at \in {"prepare", "put", "pin", "apply"}
                          /\ DOMAIN client = {"at", "want", "sent", "since"} )
    /\ tick = CB!None \/ tick.at = "gc"
    /\ \A d \in DOMAIN blobs : blobs[d] \in Int
    /\ \A r \in DOMAIN tasks : DOMAIN tasks[r] = {"digests", "stopped"}
    /\ Young(client, now) /\ Young(tick, now)

\* What a request has pinned was marked, if at all, by a tick that was under way
\* when the request began.
Pinned(c, table) ==
    c.at = "apply" => \A d \in c.want : /\ d \in DOMAIN table
                                        /\ table[d] = CB!Unmarked \/ table[d] >= c.since - bound.patience

\* The tick under way does not expire what was applied since it collected.
Spared(k, table, needed) ==
    k # CB!None => \A d \in needed \ k.refs : table[d] = CB!Unmarked \/ k.since - table[d] < bound.grace

\* The inductive invariant of the blobs.
BlobInv ==
    /\ BlobShape
    /\ Pinned(client, blobs)
    /\ Needed(spec, tasks, unpinned) \subseteq DOMAIN blobs
    /\ Spared(tick, blobs, Needed(spec, tasks, unpinned))

\* The pass has seen every mounted file: in a container it listed, or in the
\* assignment from which it made one.
Seen(p, mounted) ==
    /\ p.at = "prepare" => mounted \subseteq p.existing
    /\ p.at = "gc" => mounted \subseteq p.reply.spec \cup p.existing

\* The shape of a pass.
PassShape(p) ==
    p.at \in {"prepare", "gc"} => DOMAIN p = {"at", "reply", "existing", "wanted", "errors"}

\* The inductive invariant of the cache.
CacheInv == PassShape(pass) /\ Seen(pass, CB!Mounted) /\ CB!ConfigFilesStay

(***************************************************************************)
(* The blob table.                                                         *)
(***************************************************************************)
\* A sweep keeps what it does not find expired, and marks with the time of its tick.
LEMMA SweepKeeps ==
  ASSUME NEW table, NEW refs, NEW at, NEW d \in DOMAIN table,
         d \in refs \/ table[d] = CB!Unmarked \/ ~(at - table[d] >= bound.grace)
  PROVE  /\ d \in DOMAIN CB!gc_config_blobs(table, refs, at)
         /\ CB!gc_config_blobs(table, refs, at)[d] \in {CB!Unmarked, at, table[d]}
  BY Zenon DEF CB!gc_config_blobs

\* What a sweep leaves is unmarked, or marked with a time.
LEMMA SweepMarks ==
  ASSUME NEW table, NEW refs, NEW at \in Nat, \A d \in DOMAIN table : table[d] \in Int
  PROVE  \A d \in DOMAIN CB!gc_config_blobs(table, refs, at) : CB!gc_config_blobs(table, refs, at)[d] \in Int
  BY DEF CB!gc_config_blobs, CB!Unmarked

\* What is needed only shrinks, and the rest stays: the invariant holds.
LEMMA FewerNeeded ==
  ASSUME BlobInv, UNCHANGED <<bound, now, blobs>>, client' \in {client, CB!None}, tick' \in {tick, CB!None},
         \A r \in DOMAIN tasks' : DOMAIN tasks'[r] = {"digests", "stopped"},
         Needed(spec, tasks, unpinned)' \subseteq Needed(spec, tasks, unpinned)
  PROVE  BlobInv'
  BY DEF BlobInv, BlobShape, Young, Pinned, Spared, CB!None

\* Blobs that are stored or pinned are unmarked, the others stay as they were.
LEMMA MoreUnmarked ==
  ASSUME BlobInv, UNCHANGED <<bound, now, spec, tasks, unpinned, tick>>,
         DOMAIN blobs \subseteq DOMAIN blobs',
         \A d \in DOMAIN blobs' : blobs'[d] = CB!Unmarked \/ (d \in DOMAIN blobs /\ blobs'[d] = blobs[d]),
         client' = CB!None \/ ( /\ client'.at \in {"put", "pin", "apply"} /\ client'.since = client.since
                             /\ DOMAIN client' = {"at", "want", "sent", "since"} /\ client # CB!None),
         Pinned(client', blobs')
  PROVE  BlobInv'
  <1>1. BlobShape'
    BY DEF BlobInv, BlobShape, Young, CB!Unmarked, CB!None
  <1>2. Needed(spec, tasks, unpinned)' \subseteq DOMAIN blobs'
    BY DEF BlobInv, Needed, CB!referenced_config_digests
  <1>3. Spared(tick, blobs, Needed(spec, tasks, unpinned))'
    BY DEF BlobInv, Spared, Needed, CB!referenced_config_digests
  <1>4. Pinned(client, blobs)'
    BY Zenon DEF Pinned
  <1> QED  BY Zenon, <1>1, <1>2, <1>3, <1>4 DEF BlobInv

\* check_configs only looks the digests up.
LEMMA CheckKeeps == ASSUME BoundsFit, BlobInv, NEW want, CB!CheckConfigs(want) PROVE BlobInv'
  BY DEF BoundsFit, BlobInv, BlobShape, Young, Pinned, Spared, CB!None, CB!CheckConfigs, CB!controller, Needed,
         CB!referenced_config_digests

\* prepare_stack_apply reads, and preserves the invariant.
LEMMA PrepareKeeps == ASSUME BlobInv, CB!PrepareStackApply PROVE BlobInv'
  BY DEF BlobInv, BlobShape, Young, Pinned, Spared, CB!None, CB!PrepareStackApply, CB!controller, Needed,
         CB!referenced_config_digests

\* put_config_blobs clears the marks of what it writes.
LEMMA PutKeeps == ASSUME BlobInv, CB!PutConfigBlobs PROVE BlobInv'
  <1>1. /\ DOMAIN blobs \subseteq DOMAIN blobs'
        /\ \A d \in DOMAIN blobs' : blobs'[d] = CB!Unmarked \/ (d \in DOMAIN blobs /\ blobs'[d] = blobs[d])
    BY Zenon DEF CB!PutConfigBlobs, CB!put_config_blobs
  <1>2. client # CB!None /\ DOMAIN client = {"at", "want", "sent", "since"}
    BY DEF BlobInv, BlobShape, CB!PutConfigBlobs, CB!None
  <1> QED  BY Zenon, <1>1, <1>2, MoreUnmarked DEF CB!PutConfigBlobs, Pinned

\* pin_config_blobs clears the marks of what the request names.
LEMMA PinKeeps == ASSUME BlobInv, CB!PinConfigBlobs PROVE BlobInv'
  <1>1. client # CB!None /\ DOMAIN client = {"at", "want", "sent", "since"}
    BY DEF BlobInv, BlobShape, CB!PinConfigBlobs, CB!None
  <1>2. CASE client.want \subseteq DOMAIN blobs
    <2>1. /\ DOMAIN blobs' = DOMAIN blobs
          /\ \A d \in DOMAIN blobs' : blobs'[d] = IF d \in client.want THEN CB!Unmarked ELSE blobs[d]
      BY Zenon, <1>2 DEF CB!PinConfigBlobs, CB!pin_config_blobs
    <2>2. /\ client'.at = "apply" /\ client'.since = client.since /\ client'.want = client.want
          /\ DOMAIN client' = {"at", "want", "sent", "since"}
      BY Zenon, <1>1, <1>2 DEF CB!PinConfigBlobs
    <2>3. Pinned(client', blobs')
      BY Zenon, <1>2, <2>1, <2>2 DEF Pinned
    <2> QED  BY Zenon, <1>1, <1>2, <2>1, <2>2, <2>3, MoreUnmarked DEF CB!PinConfigBlobs
  <1>3. CASE ~(client.want \subseteq DOMAIN blobs)
    BY <1>3, FewerNeeded DEF CB!PinConfigBlobs, BlobInv, BlobShape, Needed, CB!referenced_config_digests
  <1> QED  BY Zenon, <1>2, <1>3

\* A new specification adds its own digests to what is referred to, at most.
LEMMA InstallAdds ==
  ASSUME NEW s, CB!Install(s), BlobShape
  PROVE  /\ CB!referenced_config_digests(spec, tasks, <<>>)'
               \subseteq CB!referenced_config_digests(spec, tasks, <<>>) \cup s
         /\ \A r \in DOMAIN tasks' : DOMAIN tasks'[r] = {"digests", "stopped"}
  BY DEF CB!Install, CB!referenced_config_digests, BlobShape

\* What a request applies is pinned, and the tick under way spares it.
LEMMA ApplyKeeps == ASSUME BoundsFit, BlobInv, CB!ApplyStack PROVE BlobInv'
  <1>1. /\ client # CB!None /\ client' = CB!None /\ UNCHANGED <<bound, now, blobs, tick>>
        /\ CB!Install(client.want) /\ unpinned' = unpinned \ client.want
    BY DEF CB!ApplyStack, CB!None
  <1>2. Needed(spec, tasks, unpinned)' \subseteq Needed(spec, tasks, unpinned) \cup client.want
    BY Zenon, <1>1, InstallAdds DEF Needed, BlobInv
  <1>3. \A d \in client.want : /\ d \in DOMAIN blobs /\ blobs[d] \in Int
                               /\ blobs[d] = CB!Unmarked \/ blobs[d] >= client.since - bound.patience
    BY Zenon DEF BlobInv, Pinned, BlobShape, CB!ApplyStack
  <1>4. tick # CB!None => \A d \in client.want : blobs[d] = CB!Unmarked \/ tick.since - blobs[d] < bound.grace
    BY <1>1, <1>3 DEF BlobInv, BlobShape, Young, BoundsFit
  <1>5. Spared(tick, blobs, Needed(spec, tasks, unpinned))'
    BY Zenon, <1>1, <1>2, <1>4 DEF BlobInv, Spared
  <1>6. BlobShape'
    BY Zenon, <1>1, InstallAdds DEF BlobInv, BlobShape, Young, CB!None
  <1>7. Needed(spec, tasks, unpinned)' \subseteq DOMAIN blobs'
    BY Zenon, <1>1, <1>2, <1>3 DEF BlobInv
  <1> QED  BY Zenon, <1>1, <1>5, <1>6, <1>7 DEF BlobInv, Pinned, CB!None

\* rollback_stack restores what it does not pin, which is excused.
LEMMA RollbackKeeps == ASSUME BlobInv, CB!RollbackStack PROVE BlobInv'
  <1> PICK s \in past : CB!Install(s) /\ unpinned' = unpinned \cup s
    BY Zenon DEF CB!RollbackStack
  <1>1. Needed(spec, tasks, unpinned)' \subseteq Needed(spec, tasks, unpinned)
    BY Zenon, InstallAdds DEF Needed, BlobInv
  <1> QED  BY Zenon, <1>1, InstallAdds, FewerNeeded DEF CB!RollbackStack, BlobInv

\* A task that stops needs less.
LEMMA StopKeeps == ASSUME BlobInv, CB!StopTask PROVE BlobInv'
  <1> PICK r \in DOMAIN tasks : tasks' = [tasks EXCEPT ![r].stopped = TRUE]
    BY Zenon DEF CB!StopTask
  <1>1. /\ DOMAIN tasks' = DOMAIN tasks
        /\ \A q \in DOMAIN tasks : /\ tasks'[q].digests = tasks[q].digests
                                   /\ DOMAIN tasks'[q] = {"digests", "stopped"}
    BY Zenon DEF BlobInv, BlobShape
  <1>2. Needed(spec, tasks, unpinned)' \subseteq Needed(spec, tasks, unpinned)
    BY <1>1 DEF Needed, CB!referenced_config_digests, CB!StopTask
  <1> QED  BY Zenon, <1>1, <1>2, FewerNeeded DEF CB!StopTask

\* The inventory only finishes tasks.
LEMMA HeartbeatKeeps == ASSUME BlobInv, CB!Heartbeat PROVE BlobInv'
  <1>1. /\ DOMAIN tasks' \subseteq DOMAIN tasks
        /\ \A q \in DOMAIN tasks' : tasks'[q] = tasks[q]
    BY Zenon DEF CB!Heartbeat
  <1>2. Needed(spec, tasks, unpinned)' \subseteq Needed(spec, tasks, unpinned)
    BY SMTT(30), <1>1 DEF Needed, CB!referenced_config_digests, CB!Heartbeat
  <1> QED  BY Zenon, <1>1, <1>2, FewerNeeded DEF CB!Heartbeat, BlobInv, BlobShape

\* The tick copies the references of this moment.
LEMMA CollectKeeps == ASSUME BoundsFit, BlobInv, CB!TickCollects PROVE BlobInv'
  BY SMTT(30) DEF BoundsFit, BlobInv, BlobShape, Young, Pinned, Spared, CB!None, CB!TickCollects, Needed,
         CB!referenced_config_digests

\* The sweep is as old as patience allows: what it marks stays fresh for the
\* request under way, and what it removes nobody needs.
LEMMA SweepStepKeeps == ASSUME BoundsFit, BlobInv, CB!TickSweeps PROVE BlobInv'
  <1>1. /\ tick # CB!None /\ tick' = CB!None /\ UNCHANGED <<bound, now, spec, unpinned, tasks, client>>
        /\ blobs' = CB!gc_config_blobs(blobs, tick.refs, tick.since) /\ tick.since \in Nat
    BY SMTT(30) DEF CB!TickSweeps, CB!None, BlobInv, BlobShape, Young
  <1>2. \A d \in DOMAIN blobs : blobs[d] \in Int
    BY Zenon DEF BlobInv, BlobShape
  <1>3. BlobShape'
    BY Zenon, <1>1, <1>2, SweepMarks DEF BlobInv, BlobShape, Young, CB!None
  <1>4. Needed(spec, tasks, unpinned)' = Needed(spec, tasks, unpinned)
    BY Zenon, <1>1
  <1>5. Needed(spec, tasks, unpinned) \subseteq DOMAIN blobs'
    <2> SUFFICES ASSUME NEW d \in Needed(spec, tasks, unpinned) PROVE d \in DOMAIN blobs'
      BY Zenon
    <2>1. d \in DOMAIN blobs /\ bound.grace \in Nat
      BY Zenon DEF BlobInv, BlobShape, BoundsFit
    <2>2. d \in tick.refs \/ blobs[d] = CB!Unmarked \/ ~(tick.since - blobs[d] >= bound.grace)
      BY SMTT(30), <1>1, <1>2, <2>1 DEF BlobInv, Spared
    <2> QED  BY Zenon, <1>1, <2>1, <2>2, SweepKeeps
  <1>6. Pinned(client, blobs')
    <2> SUFFICES ASSUME client.at = "apply", NEW d \in client.want
                 PROVE  /\ d \in DOMAIN blobs'
                        /\ blobs'[d] = CB!Unmarked \/ blobs'[d] >= client.since - bound.patience
      BY Zenon DEF Pinned
    <2>1. /\ d \in DOMAIN blobs /\ blobs[d] \in Int
          /\ blobs[d] = CB!Unmarked \/ blobs[d] >= client.since - bound.patience
      BY Zenon DEF BlobInv, Pinned, BlobShape
    <2>2. /\ client # CB!None /\ client.since \in Nat /\ now \in Nat /\ bound.patience \in Nat /\ bound.grace \in Nat
          /\ client.since <= now /\ now <= client.since + bound.patience
          /\ tick.since <= now /\ now <= tick.since + bound.patience /\ 2 * bound.patience < bound.grace
      BY SMTT(30), <1>1 DEF BlobInv, BlobShape, Young, BoundsFit, CB!None
    <2>3. blobs[d] = CB!Unmarked \/ ~(tick.since - blobs[d] >= bound.grace)
      BY SMTT(30), <1>1, <2>1, <2>2
    <2>4. d \in DOMAIN blobs' /\ blobs'[d] \in {CB!Unmarked, tick.since, blobs[d]}
      BY Zenon, <1>1, <2>1, <2>3, SweepKeeps
    <2>5. tick.since >= client.since - bound.patience
      BY <1>1, <2>2
    <2> QED  BY Zenon, <2>1, <2>4, <2>5
  <1> QED  BY Zenon, <1>1, <1>3, <1>4, <1>5, <1>6 DEF BlobInv, Spared, Pinned

\* Time passes only while no step is due.
LEMMA ClockKeeps == ASSUME BoundsFit, BlobInv, CB!Clock PROVE BlobInv'
  <1>1. UNCHANGED <<bound, blobs, spec, unpinned, tasks, client, tick>> /\ now' = now + 1
    BY Zenon DEF CB!Clock, CB!controller
  <1>2. /\ client # CB!None => now - client.since < bound.patience
        /\ tick # CB!None => now - tick.since < bound.patience
    BY Zenon DEF CB!Clock, CB!Held
  <1>3. BlobShape'
    BY SMTT(30), <1>1, <1>2 DEF BlobInv, BlobShape, Young, BoundsFit
  <1> QED  BY SMTT(30), <1>1, <1>3 DEF BlobInv, Pinned, Spared, Needed, CB!referenced_config_digests

\* Every step preserves the invariant of the blob table.
LEMMA BlobStepKeeps == ASSUME BoundsFit, BlobInv, [CB!Next]_(CB!vars) PROVE BlobInv'
  <1>1. CASE CB!ApplyFails \/ CB!RestartController
    BY ZenonT(40), <1>1, FewerNeeded DEF CB!ApplyFails, CB!RestartController, CB!controller, BlobInv, BlobShape,
                                    Needed,
       CB!referenced_config_digests
  <1>2. CASE \/ CB!BeginPass \/ CB!PrepareConfig \/ CB!Abandon \/ CB!CommitContainers \/ CB!SweepCache
             \/ CB!SaveMarks
             \/ CB!RestartAgent \/ CB!Exit \/ UNCHANGED CB!vars
    <2>1. UNCHANGED <<bound, now, blobs, spec, unpinned, tasks, client, tick>>
      BY Zenon, <1>2 DEF CB!BeginPass, CB!PrepareConfig, CB!Abandon, CB!CommitContainers, CB!SweepCache,
                         CB!SaveMarks, CB!RestartAgent, CB!Exit,
         CB!vars, CB!controller
    <2> QED  BY ZenonT(40), <2>1, FewerNeeded DEF BlobInv, BlobShape, Needed, CB!referenced_config_digests
  <1> QED
    BY Zenon, <1>1, <1>2, CheckKeeps, PrepareKeeps, PutKeeps, PinKeeps, ApplyKeeps, RollbackKeeps, StopKeeps,
       HeartbeatKeeps, CollectKeeps, SweepStepKeeps, ClockKeeps DEF CB!Next

(***************************************************************************)
(* The Agent's cache.                                                      *)
(***************************************************************************)
\* Nothing that the cache's collection depends on changes, but that a pass ends.
LEMMA SameCache ==
  ASSUME CacheInv, UNCHANGED <<files, containers>>, pass' = pass \/ pass'.at \in {"none", "save"}
  PROVE  CacheInv'
  BY Zenon DEF CacheInv, PassShape, Seen, CB!ConfigFilesStay, CB!Mounted

\* A pass begins with the reply of the moment.
LEMMA BeginKeeps == ASSUME CacheInv, CB!BeginPass PROVE CacheInv'
  <1>1. files' = files /\ containers' = containers
    BY SMTT(30) DEF CB!BeginPass
  <1>2. /\ pass'.at = "prepare" /\ pass'.existing = CB!Mounted
        /\ DOMAIN pass' = {"at", "reply", "existing", "wanted", "errors"}
    BY SMTT(30) DEF CB!BeginPass
  <1>3. CB!Mounted' = CB!Mounted
    BY SMTT(30), <1>1 DEF CB!Mounted
  <1> QED
    BY SMTT(30), <1>1, <1>2, <1>3 DEF CacheInv, PassShape, Seen, CB!ConfigFilesStay

\* prepare_config writes a file and removes none.
LEMMA PrepareFileKeeps == ASSUME CacheInv, CB!PrepareConfig PROVE CacheInv'
  BY DEF CacheInv, PassShape, Seen, CB!ConfigFilesStay, CB!Mounted, CB!PrepareConfig

\* A container that is created mounts files of its assignment, which are there.
LEMMA CommitKeeps == ASSUME CacheInv, CB!CommitContainers PROVE CacheInv'
  <1>1. \A r \in DOMAIN containers' : \/ r \in DOMAIN containers /\ containers'[r] = containers[r]
                                      \/ containers'[r] = pass.reply.spec /\ pass.reply.spec \subseteq files
    BY Zenon DEF CB!CommitContainers
  <1>2. /\ files' = files /\ pass.at = "prepare" /\ pass'.at = "gc" /\ pass'.reply = pass.reply
        /\ pass'.existing = pass.existing /\ DOMAIN pass' = DOMAIN pass
        /\ DOMAIN pass = {"at", "reply", "existing", "wanted", "errors"}
    BY Zenon DEF CB!CommitContainers, CacheInv, PassShape
  <1>3. CB!Mounted' \subseteq CB!Mounted \cup pass.reply.spec /\ CB!Mounted' \subseteq files
    BY Zenon, <1>1 DEF CB!Mounted, CacheInv, CB!ConfigFilesStay
  <1> QED  BY Zenon, <1>2, <1>3 DEF CacheInv, PassShape, Seen, CB!ConfigFilesStay

\* gc_at removes no file that the pass has seen.
LEMMA CollectCacheKeeps == ASSUME CacheInv, CB!SweepCache PROVE CacheInv'
  <1>1. /\ files \cap CB!referenced_config_cache_paths(pass) \subseteq files'
        /\ UNCHANGED containers /\ pass.at = "gc" /\ pass'.at = "save"
    BY SMTT(30) DEF CB!SweepCache
  <1> QED  BY Zenon, <1>1 DEF CacheInv, PassShape, Seen, CB!ConfigFilesStay, CB!Mounted,
                              CB!referenced_config_cache_paths

\* Every step preserves the invariant of the cache.
LEMMA CacheStepKeeps == ASSUME CacheInv, [CB!Next]_(CB!vars) PROVE CacheInv'
  <1>1. CASE \/ \E want \in bound.wants : CB!CheckConfigs(want)
             \/ CB!PrepareStackApply \/ CB!PutConfigBlobs \/ CB!PinConfigBlobs \/ CB!ApplyStack \/ CB!ApplyFails
             \/ CB!RollbackStack \/ CB!StopTask \/ CB!TickCollects \/ CB!TickSweeps \/ CB!RestartController
             \/ CB!Heartbeat \/ CB!Exit \/ CB!Clock \/ UNCHANGED CB!vars
    <2>1. UNCHANGED <<files, containers, pass>>
      BY Zenon, <1>1 DEF CB!CheckConfigs, CB!PrepareStackApply, CB!PutConfigBlobs, CB!PinConfigBlobs,
                         CB!ApplyStack, CB!ApplyFails,
         CB!RollbackStack, CB!StopTask, CB!TickCollects, CB!TickSweeps, CB!RestartController, CB!Heartbeat,
         CB!Exit, CB!Clock, CB!vars, CB!node
    <2> QED  BY Zenon, <2>1, SameCache
  <1>2. CASE CB!Abandon \/ CB!SaveMarks \/ CB!RestartAgent
    BY SMTT(30), <1>2, SameCache DEF CB!Abandon, CB!SaveMarks, CB!RestartAgent, CB!None
  <1> QED
    BY Zenon, <1>1, <1>2, BeginKeeps, PrepareFileKeeps, CommitKeeps, CollectCacheKeeps DEF CB!Next

\* However the control loop's collection falls between the steps of apply_stack,
\* a rollback, stops and restarts, and the Agent's collection between those of its
\* passes: a blob that a service or a task refers to stays in the Controller's
\* table, and a mounted file in the Agent's cache, if no request or tick takes half
\* of the grace period (gc_config_blobs, pin_config_blobs, gc_at).
THEOREM ConfigsAreKept ==
  ASSUME BoundsFit
  PROVE  CB!Spec => []CB!ContentsKept
  <1>1. CB!Init => BlobInv /\ CacheInv
    <2>1. CB!Init => BlobInv
      BY SMTT(30) DEF CB!Init, BlobInv, BlobShape, Young, Pinned, Spared, Needed, CB!referenced_config_digests, CB!None
    <2>2. CB!Init => CacheInv
      BY SMTT(30) DEF CB!Init, CacheInv, PassShape, Seen, CB!ConfigFilesStay, CB!Mounted, CB!None
    <2> QED  BY Zenon, <2>1, <2>2
  <1>2. BlobInv /\ CacheInv /\ [CB!Next]_(CB!vars) => BlobInv' /\ CacheInv'
    BY Zenon, BlobStepKeeps, CacheStepKeeps
  <1>3. BlobInv /\ CacheInv => CB!ContentsKept
    BY Zenon DEF BlobInv, CacheInv, CB!ContentsKept, CB!BlobsKept, Needed
  <1> QED  BY <1>1, <1>2, <1>3, PTL DEF CB!Spec
=============================================================================
