----------------------------- MODULE MCRequests -----------------------------
(***************************************************************************)
(* What the Controller is asked for, four components side by side: cluster *)
(* settings and routes, deployments, log sessions and the deployment API   *)
(* with its tokens.  In a behaviour only the one that `part` names takes   *)
(* steps, and the others have no state but what the properties look at.    *)
(***************************************************************************)
EXTENDS MCClusterSettings

CONSTANTS n1, n2, s1, s2, \* nodes; services, or the logs of their tasks
          t1, c1, k1      \* a token, a client, a key

VARIABLES part,
          bound, inner, heard, upstream, tip, local, box, resp, fresh, doing, image_results,
          image_progress, task_results, cli, failures, proof,
          polls, home, live, gone, creator, session, expiring, queue, command, waiter, agent, stream,
          made, client,
          now, offered, tokens, ops, mutex, call, last, accepted, lost

deployments == <<bound, inner, heard, upstream, tip, local, box, resp, fresh, doing, image_results,
                 image_progress, task_results, cli, failures, proof>>
sessions == <<polls, home, live, gone, creator, session, expiring, queue, command, waiter, agent, stream,
              made, client>>
api == <<now, offered, tokens, ops, mutex, call, last, accepted, lost>>
all == <<part, vars, deployments, sessions, api>>

\* One service on one node with up to three generations, the same with a fault,
\* a retry and a moving tag, two services on one node, one service on two nodes,
\* one that is routed.
Alone == {<<s1, n1>>}
Chain == [places |-> Alone, gens |-> 3, retries |-> 0, faults |-> 0, tips |-> 1, routed |-> FALSE]
Faulty == [places |-> Alone, gens |-> 2, retries |-> 1, faults |-> 1, tips |-> 2, routed |-> FALSE]
Shared == [places |-> {<<s1, n1>>, <<s2, n1>>}, gens |-> 2, retries |-> 0, faults |-> 0, tips |-> 2, routed |-> FALSE]
Spread == [places |-> {<<s1, n1>>, <<s1, n2>>}, gens |-> 2, retries |-> 0, faults |-> 0, tips |-> 2, routed |-> FALSE]
Served == [places |-> Alone, gens |-> 2, retries |-> 1, faults |-> 1, tips |-> 1, routed |-> TRUE]
DeploymentsMC == {Chain, Faulty, Shared, Spread, Served}
Deploying == INSTANCE Deployments WITH Instances <- DeploymentsMC, HistoryLimit <- 1,
                                       registry <- upstream, faults <- failures

\* A task on an offline node, whose command may be delivered twice; two tasks on one
\* node, of which none, one or both have a container.
Offline == [home |-> s1 :> n1 @@ s2 :> n2, live |-> {n1}, gone |-> {}, polls |-> 2]
Together(absent) == [home |-> s1 :> n1 @@ s2 :> n1, live |-> {n1}, gone |-> absent, polls |-> 1]
NodesMC == {n1, n2}
LogsMC == {s1, s2}
SessionsMC == {Offline, Together({}), Together({s1}), Together(LogsMC)}
Logs == INSTANCE DataSessions WITH Nodes <- NodesMC, Streams <- LogsMC, Queue <- 1, Socket <- 2, MaxData <- 1,
                                   Instances <- SessionsMC

\* Requests for either of two services; requests with either of two bodies, whose
\* answers may be lost.
TokensMC == {t1}
ClientsMC == {c1}
KeysMC == {k1}
OneMC == {s1}
Bearers == INSTANCE DeployTokens WITH
            Services <- LogsMC, Tokens <- TokensMC, Clients <- ClientsMC, Keys <- KeysMC, Sources <- OneMC,
            Life <- 2, Retention <- 2, Wait <- 1, MaxTime <- 3, MaxOps <- 2, MaxLost <- 0,
            live <- offered, inner <- mutex
Bodies == INSTANCE DeployTokens WITH
            Services <- OneMC, Tokens <- TokensMC, Clients <- ClientsMC, Keys <- KeysMC, Sources <- LogsMC,
            Life <- 2, Retention <- 2, Wait <- 1, MaxTime <- 3, MaxOps <- 2, MaxLost <- 1,
            live <- offered, inner <- mutex

PartsInit ==
    /\ part \in {"settings", "deployments", "sessions", "tokens", "bodies"}
    /\ IF part = "settings" THEN Init
       ELSE /\ mem = Nothing /\ disk = Nothing /\ registry = Nothing /\ gateways = Nothing
            /\ agents = [n \in Nodes |-> [initial |-> 0, max |-> 0]]
            /\ version = Nothing /\ options = Nothing /\ changes = 0 /\ faults = 0
    /\ IF part = "deployments" THEN Deploying!Init
       ELSE /\ bound = [routed |-> FALSE] /\ inner = Nothing /\ heard = Nothing /\ upstream = Nothing /\ tip = Nothing
            /\ local = Nothing /\ box = Nothing /\ resp = Nothing /\ fresh = Nothing /\ doing = Nothing
            /\ image_results = Nothing /\ image_progress = Nothing /\ task_results = Nothing
            /\ cli = [pc |-> "idle"] /\ failures = Nothing /\ proof = Nothing
    /\ IF part = "sessions" THEN Logs!Init
       ELSE /\ polls = Nothing /\ home = Nothing /\ live = Nothing /\ gone = Nothing
            /\ creator = Nothing /\ session = Nothing /\ expiring = Nothing /\ queue = Nothing
            /\ command = Nothing /\ waiter = Nothing /\ agent = Nothing
            /\ stream = [n \in NodesMC |-> [at |-> "none"]] /\ made = Nothing /\ client = [at |-> "idle"]
    /\ CASE part = "tokens" -> Bearers!Init
         [] part = "bodies" -> Bodies!Init
         [] OTHER -> /\ now = Nothing /\ offered = Nothing /\ tokens = Nothing /\ ops = Nothing
                     /\ mutex = Nothing /\ call = [c \in ClientsMC |-> [pc |-> "idle"]]
                     /\ last = Nothing /\ accepted = <<>> /\ lost = Nothing

Settings == part = "settings" /\ Next /\ UNCHANGED <<part, deployments, sessions, api>>
Deploys == part = "deployments" /\ Deploying!Next /\ UNCHANGED <<part, vars, sessions, api>>
Reads == part = "sessions" /\ Logs!Next /\ UNCHANGED <<part, vars, deployments, api>>
Asks == part = "tokens" /\ Bearers!Next /\ UNCHANGED <<part, vars, deployments, sessions>>
AsksTwice == part = "bodies" /\ Bodies!Next /\ UNCHANGED <<part, vars, deployments, sessions>>

PartsNext == Settings \/ Deploys \/ Reads \/ Asks \/ AsksTwice
PartsSpec == PartsInit /\ [][PartsNext]_all

\* The fairness of the modules; the conjuncts of those that do not run hold.
Api == part \in {"tokens", "bodies"}
Here(p, due) == part = p /\ due
PartsFairSpec ==
    /\ PartsSpec
    /\ []<>~ ( \/ Here("deployments", Deploying!BeatDue(n1))
               \/ Here("settings", mem = Nothing /\ disk # Nothing)
               \/ Api /\ Bearers!CommitDue )
    /\ []<>~ ( \/ Here("deployments", Deploying!BeatDue(n2))
               \/ Here("settings", disk = Nothing /\ \E n \in Nodes : gateways[n].generation # 0)
               \/ Api /\ now < 3 )
    /\ []<>~ ( \/ Here("deployments", Deploying!ExpireDue \/ Deploying!WaitDue)
               \/ Api /\ Bearers!PollDue(c1) )
    /\ []<>~ ( \/ Here("deployments", Deploying!SettleDue)
               \/ Here("sessions", Logs!ProgressDue) )
    /\ \/ []<>~ ( \/ Here("deployments", Deploying!WorkDue)
                  \/ Here("settings", \E n \in Nodes : Stale(n)) )
       \/ []<><<doing' # doing \/ Here("settings", \E n \in Nodes : Told(n))>>_all

\* The properties of the other components, stated with their modules.
CheckedImagesRun == part = "deployments" => Deploying!CheckedImagesRun
StatusTells == part = "deployments" => Deploying!StatusTells
CompleteWhenOk == part = "sessions" => Logs!CompleteWhenOk
KeysKept == Bearers!KeysKept
TokenRules == Bearers!TokenRules

\* Whoever waits for the Controller is answered: a command that waits for its
\* deployment, a client that reads logs and a long poll.
ClientsAnswered == Deploying!CommandReturns /\ Logs!ClientFinishes /\ Bearers!PollAnswered
=============================================================================
