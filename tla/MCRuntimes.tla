----------------------------- MODULE MCRuntimes -----------------------------
(***************************************************************************)
(* What a node does to its container runtime, three components side by     *)
(* side: the Gateway, the container of a task, and the pull of an image    *)
(* through the registry proxy.  In a behaviour only the one that `part`    *)
(* names takes steps, and the others stay as they start.                   *)
(***************************************************************************)
EXTENDS TaskRuntime

CONSTANTS s1, s2, \* Gateway specs
          c1,     \* a certificate
          i1, i2, \* images
          none

VARIABLES part,
          want, changes, trouble, control, wake, settings, tried, report, box, newer, volume,
          manifest, kv, issued, missed, op,
          byTag, policy, upstream, moves, proxy, objects, expired, leased, sweep, writer, litter,
          pull, local, temp, container, prepared, named

gateway == <<want, changes, trouble, control, wake, settings, tried, report, box, newer, volume,
             manifest, kv, issued, missed, op>>
image == <<byTag, policy, upstream, moves, proxy, objects, expired, leased, sweep, writer, litter,
           pull, local, temp, container, prepared, named>>
all == <<part, vars, gateway, image>>

SpecsMC == {s1, s2}
CertsMC == {c1}
\* A Gateway that is changed twice, and one with two faults.
Gateway == INSTANCE GatewayRuntime WITH Specs <- SpecsMC, Certs <- CertsMC, MaxChanges <- 2, MaxFaults <- 1,
                                        Absent <- none, faults <- trouble, late <- missed
Troubled == INSTANCE GatewayRuntime WITH Specs <- SpecsMC, Certs <- CertsMC, MaxChanges <- 1, MaxFaults <- 2,
                                         Absent <- none, faults <- trouble, late <- missed

\* The task is assigned at two revisions.
RevisionsMC == {1, 2}
IdsMC == 1..4

ImagesMC == {i1, i2}
\* A pull that is tried twice, and one during which more happens.
Image == INSTANCE ImagePulls WITH Images <- ImagesMC, Chunks <- 2, Attempts <- 2, MaxMoves <- 1, NoImage <- none
Moving == INSTANCE ImagePulls WITH Images <- ImagesMC, Chunks <- 2, Attempts <- 1, MaxMoves <- 2, NoImage <- none

PartsInit ==
    /\ part \in {"gateway", "troubled", "task", "image", "moving"}
    /\ Init /\ Gateway!Init /\ Image!Init
    /\ part \notin {"gateway", "troubled"} => want.spec = s1
    /\ part # "task" => revision = 1
    /\ part \notin {"image", "moving"} => byTag /\ proxy /\ policy = "always"

Tasks == part = "task" /\ Next /\ UNCHANGED <<part, gateway, image>>
Gateways == part = "gateway" /\ Gateway!Next /\ UNCHANGED <<part, vars, image>>
Troubles == part = "troubled" /\ Troubled!Next /\ UNCHANGED <<part, vars, image>>
Images == part = "image" /\ Image!Next /\ UNCHANGED <<part, vars, gateway>>
Moves == part = "moving" /\ Moving!Next /\ UNCHANGED <<part, vars, gateway>>

PartsNext == Tasks \/ Gateways \/ Troubles \/ Images \/ Moves

PartsSpec == PartsInit /\ [][PartsNext]_all

\* The fairness of the modules: while the component that runs has something to
\* do it goes on, and heartbeats are sent.
Due == \/ part \in {"gateway", "troubled"} /\ Gateway!Due
       \/ part = "task" /\ call # Idle
       \/ part \in {"image", "moving"} /\ ~Image!Over
PartsFairSpec ==
    /\ PartsSpec
    /\ []<>~(part \in {"gateway", "troubled"} /\ Gateway!BeatDue)
    /\ []<>~Due \/ []<><<<<op, wake, call, pull>>' # <<op, wake, call, pull>>>>_all

\* The properties of the other components, stated with their modules.
StateKept == part \in {"gateway", "troubled"} => Gateway!StateKept
TrafficKept == Gateway!TrafficKept
ImagesRight == Image!ImagesRight

\* Whatever a node does to its container runtime comes to an end: the Gateway is
\* as wanted, a call for a task returns, and so does the pull of an image.
RuntimesSettle ==
    /\ part \in {"gateway", "troubled"} => Gateway!GatewayConverges
    /\ CallEnds
    /\ Image!PullEnds
=============================================================================
