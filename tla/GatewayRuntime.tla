--------------------------- MODULE GatewayRuntime ---------------------------
(***************************************************************************)
(* The Gateway of one node: at most two containers, one per blue/green     *)
(* slot, that the node process creates, configures, replaces and removes   *)
(* through the container runtime and through each Gateway's admin API.     *)
(* Every call can fail, the answer to a call of the admin API that took    *)
(* effect can be lost, the node process can stop between any two of them,  *)
(* and a Gateway can restart on its own.                                   *)
(***************************************************************************)
EXTENDS Naturals, FiniteSets

CONSTANTS Specs,      \* the image and runtime settings a Gateway can be wanted with
          Certs,      \* the certificates that can be issued
          MaxChanges, \* bound on the changes the Controller makes
          MaxFaults,  \* bound on failed calls, restarts and failed uploads
          Absent      \* no container in a slot

VARIABLES want,     \* what the Controller's heartbeat response says
          changes,
          faults,
          control,  \* the NodeControl the Agent published last
          wake,     \* control_rx.changed() is due
          settings, \* settings.gateway_enabled
          tried,    \* gateway_reconciled
          report,   \* the GatewayReport: the applied generation, whether an error;
                    \* crossed (history): another Gateway answered for the wanted one
          box,      \* the Gateway container of each slot
          newer,    \* the slot whose container was created last
          volume,   \* the slot's volumes: certificates and recovery snapshot
          manifest, \* the certificate manifest the Controller holds
          kv,       \* certificates the Controller's KV store holds
          issued,   \* history: every certificate stored by a Gateway
          late,     \* history: stored only locally, by a restarted Gateway after its push, by one
                    \* that a left-over candidate is to replace without a new push, or by a
                    \* candidate whose /load took effect without an answer
          op        \* the reconcile_gateway call that runs

vars == <<want, changes, faults, control, wake, settings, tried, report, box, newer, volume,
          manifest, kv, issued, late, op>>
node == <<control, wake, settings, tried, report>>
data == <<volume, manifest, kv, issued, late>>
boxes == <<box, newer>>
budget == <<want, changes, faults>>

Slots == {"blue", "green"}
opposite(s) == IF s = "blue" THEN "green" ELSE "blue"
Active == 2019
Staged == 2020

None == [spec |-> Absent, up |-> FALSE, admin |-> Staged, public |-> 0, quiet |-> FALSE]
Empty == [certs |-> {}, snapshot |-> 0]
Idle == [at |-> "idle", slot |-> "blue", want |-> [enabled |-> FALSE, spec |-> Absent, gen |-> 0],
         staged |-> FALSE, fresh |-> FALSE, port |-> Active, crossed |-> FALSE,
         pushed |-> FALSE, made |-> FALSE, public |-> FALSE, lost |-> FALSE, removed |-> FALSE]

Exists(s) == box[s].spec # Absent
Existing == {s \in Slots : Exists(s)}
\* The Gateways whose admin API listens on port p: the calls to p reach one of them.
AdminAt(p) == {s \in Existing : box[s].up /\ box[s].admin = p}
Others == Existing \ {op.slot}

Fails == faults < MaxFaults /\ faults' = faults + 1 /\ UNCHANGED <<want, changes>>
Works == UNCHANGED budget

----------------------------------------------------------------------------
(* The world around the node process. *)

Change ==
  /\ changes < MaxChanges
  /\ \E e \in BOOLEAN, sp \in Specs, g \in {want.gen, want.gen + 1} :
        /\ want' = [enabled |-> e, spec |-> sp, gen |-> g]
        /\ want' # want
  /\ changes' = changes + 1
  /\ UNCHANGED <<faults, node, boxes, data, op>>

\* A public Gateway stores a certificate in its volume and then, best effort,
\* in the Controller's KV store (storage.go, Store).
Issue ==
  /\ \E s \in Existing, c \in Certs \ issued :
        /\ box[s].up /\ box[s].public > 0 /\ ~box[s].quiet
        /\ volume' = [volume EXCEPT ![s].certs = @ \cup {c}]
        /\ issued' = issued \cup {c}
        /\ \/ /\ kv' = kv \cup {c} /\ Works
              /\ UNCHANGED late
           \/ /\ UNCHANGED kv /\ Fails
              /\ late' = IF Existing # {s} \/ op.pushed \/ op.lost \/ op.at = "purge"
                         THEN late \cup {c} ELSE late
  /\ UNCHANGED <<node, boxes, manifest, op>>

\* Restart policy unless-stopped: Caddy resumes the configuration it saved; the
\* replacement barrier is in memory only.
RestartGateway ==
  /\ \E s \in Existing :
        /\ box[s].up /\ box[s].quiet
        /\ box' = [box EXCEPT ![s].quiet = FALSE]
  /\ Fails
  /\ UNCHANGED <<node, newer, data, op>>

----------------------------------------------------------------------------
(* The Agent's heartbeat publishes the response; see GatewayRetryState. *)

\* Mutant: an error is not a reason to apply again.
NeedsApplyReported == want.enabled /\ report.gen # 0 /\ report.gen # want.gen

NeedsApply == IF want.enabled THEN report.err \/ report.gen # want.gen ELSE report.err

BeatDue == (control # want \/ NeedsApply) /\ ~(wake /\ control = want)

Heartbeat ==
  /\ BeatDue
  /\ control' = want
  /\ wake' = TRUE
  /\ UNCHANGED <<budget, settings, tried, report, boxes, data, op>>

RestartNode ==
  /\ Fails
  /\ op' = Idle
  /\ wake' = FALSE
  /\ control' = [control EXCEPT !.gen = 0]
  /\ tried' = FALSE
  /\ report' = [gen |-> 0, err |-> FALSE, crossed |-> FALSE]
  /\ UNCHANGED <<settings, boxes, data>>

----------------------------------------------------------------------------
(* The supervisor takes a control update and reconciles the Gateway. *)

At(x) == op.at = x /\ UNCHANGED <<control, wake, settings, tried>>
Go(x) == op' = [op EXCEPT !.at = x] /\ UNCHANGED report
Ok == /\ op' = Idle
      /\ report' = [gen |-> IF op.want.enabled THEN op.want.gen ELSE 0, err |-> FALSE,
                    crossed |-> op.crossed]
Err == op' = Idle /\ report' = [gen |-> 0, err |-> TRUE, crossed |-> FALSE]

SkipsDisabled == ~control.enabled /\ ~settings /\ tried

\* The Gateways of the wanted image and settings.
Desired == {s \in Existing : box[s].spec = control.spec}

Begins(at, s) ==
  /\ op' = [Idle EXCEPT !.at = at, !.slot = s, !.want = control,
                        !.staged = Existing # {s} /\ newer = s]
  /\ UNCHANGED report

\* Two stale Gateways block the replacement.
Replaces ==
  IF Existing = Slots THEN Err
  ELSE Begins("clean", IF Existing = {} THEN "blue"
                       ELSE opposite(CHOOSE s \in Existing : TRUE))

reconcile_gateway ==
  \/ ~control.enabled /\ Begins("commit", "blue")
  \/ control.enabled /\ \E s \in Desired : Begins("start", s)
  \/ control.enabled /\ Desired = {} /\ Replaces

Take ==
  /\ op.at = "idle" /\ wake
  /\ wake' = FALSE
  /\ settings' = control.enabled
  /\ IF SkipsDisabled
     THEN UNCHANGED <<faults, tried, report, op>>
     ELSE /\ tried' = TRUE
          /\ \/ reconcile_gateway /\ UNCHANGED faults
             \/ faults < MaxFaults /\ faults' = faults + 1 /\ Err
  /\ UNCHANGED <<want, changes, control, boxes, data>>

----------------------------------------------------------------------------
(* A Gateway of the wanted image and settings exists: start it, prepare it *)
(* when it is not public yet, configure it and remove the other one.       *)

Start ==
  /\ At("start")
  /\ \/ /\ Works
        /\ box' = [box EXCEPT ![op.slot].up = TRUE]
        /\ op' = [op EXCEPT !.at = "wait", !.fresh = ~box[op.slot].up]
        /\ UNCHANGED report
     \/ Fails /\ ~box[op.slot].up /\ Err /\ UNCHANGED box
  /\ UNCHANGED <<newer, data>>

\* The first port that answers: a Gateway that was just started may not yet.
AnyPort ==
  LET ready(p) == {s \in AdminAt(p) : ~(op.fresh /\ s = op.slot)} # {}
  IN IF ready(Active) THEN {Active} ELSE {p \in {Active, Staged} : AdminAt(p) # {}}

Wait ==
  /\ At("wait")
  /\ \/ \E p \in (IF op.staged THEN {Staged} ELSE AnyPort) :
           /\ AdminAt(p) # {}
           /\ op' = [op EXCEPT !.at = "prepare", !.port = p,
                                !.crossed = AdminAt(p) # {op.slot}]
           /\ UNCHANGED report
     \/ (IF op.staged THEN AdminAt(Staged) = {} ELSE AnyPort = {}) /\ Err
  /\ Works /\ UNCHANGED <<boxes, data>>

\* restore_gateway_certificates: exactly the manifest, which only a replacement requires.
Restored(s, required) ==
  \/ manifest.known /\ volume' = [volume EXCEPT ![s].certs = manifest.certs]
  \/ ~manifest.known /\ ~required /\ UNCHANGED volume

Resumed(s) == box' = [box EXCEPT ![s].quiet = FALSE]

PrepareDesired ==
  /\ At("prepare")
  /\ \E s \in AdminAt(op.port) :
        \/ /\ box[s].public = 0
           /\ Restored(s, Others # {})
           /\ Works /\ Go("apply") /\ UNCHANGED box
        \/ /\ box[s].public = 0 /\ ~manifest.known /\ Others # {}
           /\ Works /\ Err /\ UNCHANGED <<volume, box>>
        \/ /\ box[s].public > 0
           /\ Resumed(s)
           /\ Works /\ Go("apply") /\ UNCHANGED volume
        \/ /\ box[s].public = 0
           /\ volume' = [volume EXCEPT ![s].certs = {}]
           /\ Fails /\ Err /\ UNCHANGED box
        \/ Fails /\ Err /\ UNCHANGED <<volume, box>>
  /\ UNCHANGED <<newer, manifest, kv, issued, late>>

\* POST /load: a new configuration, with a new storage that has no barrier.
Loaded(s, port) == box' = [box EXCEPT ![s].public = op.want.gen, ![s].admin = port, ![s].quiet = FALSE]

ApplyDesired ==
  /\ At("apply")
  /\ \/ \E s \in AdminAt(op.port) :
           /\ Loaded(s, IF op.staged THEN Staged ELSE Active)
           /\ (Works /\ Go("persist")) \/ (Fails /\ Err)
     \/ Fails /\ Err /\ UNCHANGED box
  /\ UNCHANGED <<newer, data>>

\* Mutant: the snapshot goes to the other container.
PersistElsewhere(s) == volume' = [volume EXCEPT ![opposite(s)].snapshot = op.want.gen]

persist_gateway_recovery_snapshot_to(s) ==
  volume' = [volume EXCEPT ![s].snapshot = op.want.gen]

PersistDesired ==
  /\ At("persist")
  /\ \/ persist_gateway_recovery_snapshot_to(op.slot) /\ Works /\ Go("retire")
     \/ Fails /\ Err /\ UNCHANGED volume
  /\ UNCHANGED <<boxes, manifest, kv, issued, late>>

\* remove_gateway: stop, then remove.  A failed removal leaves it stopped, or running.
Removed(s) == box' = [box EXCEPT ![s] = None]
RemovalFails(s) ==
  \E up \in {box[s].up, FALSE} : box' = [box EXCEPT ![s].up = up, ![s].quiet = @ /\ up]
VolumesRemoved(s) == volume' = [volume EXCEPT ![s] = Empty]

RetireStale ==
  /\ At("retire")
  /\ \/ Others = {} /\ Works /\ Go("promote") /\ UNCHANGED <<box, volume>>
     \/ \E s \in Others :
           \/ Removed(s) /\ Works /\ Go("promote") /\ VolumesRemoved(s)
           \/ Removed(s) /\ Fails /\ Go("promote") /\ UNCHANGED volume
           \/ RemovalFails(s) /\ Fails /\ Err /\ UNCHANGED volume
  /\ UNCHANGED <<newer, manifest, kv, issued, late>>

\* move_gateway_admin: read the configuration, load it again with the active port.
Moved(s) == box' = [box EXCEPT ![s].admin = Active, ![s].quiet = FALSE]

PromoteDesired ==
  /\ At("promote")
  /\ \/ ~op.staged /\ Works /\ Ok /\ UNCHANGED box
     \/ op.staged /\ (\E s \in AdminAt(Staged) : Moved(s)) /\ ((Works /\ Ok) \/ (Fails /\ Err))
     \/ op.staged /\ Fails /\ Err /\ UNCHANGED box
  /\ UNCHANGED <<newer, data>>

----------------------------------------------------------------------------
(* replace_gateway: a candidate in the other slot takes over. *)

Clean ==
  /\ At("clean")
  /\ \/ VolumesRemoved(op.slot) /\ Works /\ Go("normalize")
     \/ Fails /\ Err /\ UNCHANGED volume
  /\ UNCHANGED <<boxes, manifest, kv, issued, late>>

Normalize ==
  /\ At("normalize")
  /\ \/ /\ \A s \in Others : box[s].up => box[s].admin = Active
        /\ Works /\ Go("push") /\ UNCHANGED box
     \/ /\ \E s \in Others : box[s].up /\ box[s].admin = Staged /\ Moved(s)
        /\ (Works /\ Go("push")) \/ (Fails /\ Err)
     \/ Fails /\ Err /\ UNCHANGED box
  /\ UNCHANGED <<newer, data>>

\* Mutant: the manifest is committed, the certificates are not.
PushedManifest(s) == UNCHANGED kv /\ manifest' = [known |-> TRUE, certs |-> {}]

\* pushCertificateSnapshot: every local certificate, then the manifest, then the barrier.
Pushed(s) ==
  /\ kv' = kv \cup volume[s].certs
  /\ manifest' = [known |-> TRUE, certs |-> volume[s].certs]

Push ==
  /\ At("push")
  /\ \/ Others = {} /\ Works /\ Go("create") /\ UNCHANGED <<box, kv, manifest>>
     \/ /\ Others # {}
        /\ \E s \in AdminAt(Active) :
              Pushed(s) /\ box' = [box EXCEPT ![s].quiet = TRUE]
        /\ op' = [op EXCEPT !.at = "create", !.pushed = TRUE]
        /\ Works /\ UNCHANGED report
     \/ /\ Others # {} /\ AdminAt(Active) = {}
        /\ Works /\ Go("abort") /\ UNCHANGED <<box, kv, manifest>>
     \/ /\ Others # {}
        /\ \E s \in AdminAt(Active) :
              \/ UNCHANGED <<kv, manifest, box>>
              \/ Pushed(s) /\ \E q \in {box[s].quiet, TRUE} : box' = [box EXCEPT ![s].quiet = q]
        /\ Fails /\ Go("abort")
  /\ UNCHANGED <<newer, volume, issued, late>>

create_gateway(up) ==
  /\ box' = [box EXCEPT ![op.slot] = [None EXCEPT !.spec = op.want.spec, !.up = up]]
  /\ newer' = op.slot

Create ==
  /\ At("create")
  /\ \/ /\ create_gateway(TRUE)
        /\ op' = [op EXCEPT !.at = "restore", !.made = TRUE]
        /\ Works /\ UNCHANGED report
     \/ /\ UNCHANGED boxes \/ \E up \in BOOLEAN : create_gateway(up)
        /\ Fails /\ Go("abort")
  /\ UNCHANGED data

RestoreCandidate ==
  /\ At("restore")
  /\ \/ Restored(op.slot, Others # {}) /\ Works /\ Go("snapshot")
     \/ ~manifest.known /\ Others # {} /\ Works /\ Go("abort") /\ UNCHANGED volume
     \/ Fails /\ Go("abort") /\ UNCHANGED volume
  /\ UNCHANGED <<boxes, manifest, kv, issued, late>>

\* Mutant: the old Gateway is retired before the candidate is public.
PersistThenRetire ==
  /\ At("snapshot") /\ persist_gateway_recovery_snapshot_to(op.slot) /\ Works /\ Go("takeover")
  /\ UNCHANGED <<boxes, manifest, kv, issued, late>>

PersistCandidate ==
  /\ At("snapshot")
  /\ \/ persist_gateway_recovery_snapshot_to(op.slot) /\ Works /\ Go("load")
     \/ Fails /\ Go("abort") /\ UNCHANGED volume
  /\ UNCHANGED <<boxes, manifest, kv, issued, late>>

\* A candidate that is public unanswered is discarded all the same.
LoadCandidate ==
  /\ At("load")
  /\ \/ /\ Loaded(op.slot, Staged)
        /\ \/ op' = [op EXCEPT !.at = "takeover", !.public = TRUE] /\ Works
           \/ op' = [op EXCEPT !.at = "abort", !.lost = TRUE] /\ Fails
        /\ UNCHANGED report
     \/ Fails /\ Go("abort") /\ UNCHANGED box
  /\ UNCHANGED <<newer, data>>

RetireOld ==
  /\ At("takeover")
  /\ \/ /\ Others = {} \/ \E s \in Others : Removed(s)
        /\ Others = {} => UNCHANGED box
        /\ op' = [op EXCEPT !.at = "finish", !.removed = TRUE]
        /\ Works /\ UNCHANGED report
     \/ \E s \in Others : RemovalFails(s) /\ Fails /\ Go("abort")
  /\ UNCHANGED <<newer, data>>

PromoteCandidate ==
  /\ At("finish")
  /\ \/ /\ Moved(op.slot) /\ Ok
        /\ \/ VolumesRemoved(opposite(op.slot)) /\ Works
           \/ Fails /\ UNCHANGED volume
     \/ /\ Moved(op.slot) \/ UNCHANGED box
        /\ Fails /\ Go("abort") /\ UNCHANGED volume
  /\ UNCHANGED <<newer, manifest, kv, issued, late>>

\* What replace_gateway does after an error.
Abort ==
  /\ At("abort")
  /\ \/ op.pushed /\ ~op.removed /\ (\E s \in AdminAt(Active) : Resumed(s)) /\ Works
     \/ op.pushed /\ ~op.removed /\ AdminAt(Active) = {} /\ Works /\ UNCHANGED box
     \/ op.pushed /\ ~op.removed /\ Fails /\ UNCHANGED box
     \/ ~(op.pushed /\ ~op.removed) /\ Works /\ UNCHANGED box
  /\ IF op.public THEN Err ELSE Go("discard")
  /\ IF op.public /\ op.removed THEN VolumesRemoved(opposite(op.slot)) ELSE UNCHANGED volume
  /\ UNCHANGED <<newer, manifest, kv, issued, late>>

Discard ==
  /\ At("discard")
  /\ \/ op.made /\ Removed(op.slot) /\ VolumesRemoved(op.slot) /\ Works
     \/ op.made /\ RemovalFails(op.slot) /\ Fails /\ UNCHANGED volume
     \/ ~op.made /\ ~Exists(op.slot) /\ VolumesRemoved(op.slot) /\ Works /\ UNCHANGED box
     \/ ~op.made /\ Exists(op.slot) /\ Works /\ UNCHANGED <<box, volume>>
  /\ Err
  /\ UNCHANGED <<newer, manifest, kv, issued, late>>

----------------------------------------------------------------------------
(* The Gateway is disabled: commit the certificates, then remove it all. *)

PublicAdmin == {p \in {Staged, Active} : \E s \in AdminAt(p) : box[s].public > 0}

Commit ==
  /\ At("commit")
  /\ \/ Existing = {} /\ Works /\ Go("purge") /\ UNCHANGED <<box, kv, manifest>>
     \/ \E s \in AdminAt(IF Staged \in PublicAdmin THEN Staged ELSE Active) :
           /\ PublicAdmin # {}
           /\ Pushed(s) /\ box' = [box EXCEPT ![s].quiet = TRUE]
           /\ (Works /\ Go("purge")) \/ (Fails /\ Err)
     \* The helper container reads the volume; a running Gateway is stopped in between.
     \/ \E s \in Existing :
           /\ PublicAdmin = {}
           /\ (\E t \in Existing : box[t].up) => box[s].up
           /\ Pushed(s) /\ box' = [box EXCEPT ![s].up = FALSE, ![s].quiet = FALSE]
           /\ Works /\ Go("purge")
     \/ /\ Existing # {} /\ Fails /\ Err /\ UNCHANGED <<box, kv, manifest>>
  /\ UNCHANGED <<newer, volume, issued, late>>

Purge ==
  /\ At("purge")
  /\ \/ \E s \in Existing :
           \/ Removed(s) /\ Works /\ Go("purge")
           \/ RemovalFails(s) /\ Fails /\ Err
     \/ Existing = {} /\ Works /\ Go("volumes") /\ UNCHANGED box
  /\ UNCHANGED <<newer, data>>

PurgeVolumes ==
  /\ At("volumes")
  /\ \/ volume' = [s \in Slots |-> Empty] /\ Works /\ Ok
     \/ Fails /\ Err /\ UNCHANGED volume
  /\ UNCHANGED <<boxes, manifest, kv, issued, late>>

----------------------------------------------------------------------------
Init ==
  /\ \E sp \in Specs : want = [enabled |-> TRUE, spec |-> sp, gen |-> 1]
  /\ changes = 0 /\ faults = 0
  /\ control = [want EXCEPT !.gen = 0]
  /\ wake = FALSE /\ settings = TRUE /\ tried = FALSE
  /\ report = [gen |-> 0, err |-> FALSE, crossed |-> FALSE]
  /\ box = [s \in Slots |-> None] /\ newer = "blue"
  /\ volume = [s \in Slots |-> Empty]
  /\ manifest = [known |-> FALSE, certs |-> {}]
  /\ kv = {} /\ issued = {} /\ late = {}
  /\ op = Idle

Reconcile ==
  \/ Take \/ Start \/ Wait \/ PrepareDesired \/ ApplyDesired \/ PersistDesired \/ RetireStale
  \/ PromoteDesired \/ Clean \/ Normalize \/ Push \/ Create \/ RestoreCandidate
  \/ PersistCandidate \/ LoadCandidate \/ RetireOld \/ PromoteCandidate \/ Abort \/ Discard
  \/ Commit \/ Purge \/ PurgeVolumes

Next == Change \/ Issue \/ RestartGateway \/ Heartbeat \/ RestartNode \/ Reconcile

Spec == Init /\ [][Next]_vars

\* Heartbeats go on and the node process takes its steps; calls stop failing.  Weak
\* fairness of Heartbeat and of Reconcile, with what enables them written out: a
\* heartbeat is not due again before the supervisor took the last one, and all steps
\* of a reconciliation but the removals, of which there are two, change op or wake.
Due == op # Idle \/ wake
FairSpec == Spec /\ []<>~BeatDue /\ ([]<>~Due \/ []<><<<<op, wake>>' # <<op, wake>>>>_vars)

----------------------------------------------------------------------------
\* A candidate does not count before its /load is answered.
Serving == \E s \in Existing : box[s].up /\ box[s].public > 0 /\ ~(op.lost /\ s = op.slot)

\* "A failed preparation leaves the old Gateway serving": whatever fails and in
\* whatever order the wanted image and settings change, reconciling an enabled
\* Gateway never takes the last serving one away (unless the other Gateway answered
\* for the wanted one when wait_gateway_admin_any looked for it).
TrafficKept == [][Serving /\ op.want.enabled /\ ~op.crossed => Serving']_vars

\* A certificate that a Gateway stored survives every replacement and removal: a
\* Gateway container or the Controller's KV store has it (late excepted: a failed
\* upload in the three windows that the barrier does not close).
CertificatesKept ==
  \A c \in issued \ late : c \in kv \/ \E s \in Existing : c \in volume[s].certs

\* What the node reported as applied can be recovered: some Gateway container
\* holds a recovery snapshot at least as new.
SnapshotKept ==
  report.gen > 0 /\ op.want.enabled => \E s \in Existing : volume[s].snapshot >= report.gen

\* Replacing and removing Gateways loses neither certificates nor the means of
\* recovery.
StateKept == CertificatesKept /\ SnapshotKept

Stuck == \E s \in Existing : box[s].spec # want.spec /\ (~box[s].up \/ Existing = Slots)
Settled == \E s \in Slots : /\ Existing = {s} /\ box[s].spec = want.spec /\ box[s].up
                           /\ box[s].public = want.gen /\ box[s].admin = Active
\* Once calls stop failing, an enabled Gateway is replaced, configured and back
\* on the active admin port (unless stale containers block it, see Stuck, or the
\* other Gateway answered in its place).
GatewayConverges == <>[](want.enabled => Settled \/ Stuck \/ report.crossed)

=============================================================================
