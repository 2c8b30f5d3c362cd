------------------------------- MODULE MCWork -------------------------------
(***************************************************************************)
(* Work that is done once: jobs and service operations, side by side.  In  *)
(* a behaviour only the one that `part` names takes steps.  Both keep      *)
(* their Agents, ledgers and daemons in the same variables; the others     *)
(* have no state, in the other part, but what the properties look at.      *)
(***************************************************************************)
EXTENDS Jobs

VARIABLES part, registry, operations, token, starting, replicas, asked, events

shared == <<bound, now, ledger, agent, net, docker>>
onlyJobs == <<ctl, nodes, intent, cont, starts, spent>>
onlyOperations == <<registry, operations, token, starting, replicas, asked, events>>
all == <<part, shared, onlyJobs, onlyOperations>>

\* Jobs: one execution with a fault, two occurrences without one, and three
\* occurrences on a node that is cut off while the clock is set back and the
\* schedule is changed.
HostMC == {"n1"}
PeriodMC == <<3, 2>>
JobsMC ==
    {[tasks |-> 1, events |-> 1, time |-> 3, reachable |-> HostMC],
     [tasks |-> 2, events |-> 0, time |-> 4, reachable |-> HostMC],
     [tasks |-> 3, events |-> 3, time |-> 4, reachable |-> {}]}

Base == [nodes |-> {"n1"}, home |-> <<"n1">>, old |-> {}, who |-> {"admin"}, kinds |-> {"restart"},
         keys |-> {"k"}, ops |-> 1, deploys |-> FALSE, time |-> 0, events |-> 0]

\* Restarts: of two tasks on a node with a fault, of two tasks on two nodes, and
\* twice under one key.
Restarts1 == [Base EXCEPT !.home = <<"n1", "n1">>, !.events = 1]
Restarts2 == [Base EXCEPT !.nodes = {"n1", "n2"}, !.home = <<"n1", "n2">>]
Restarts3 == [Base EXCEPT !.ops = 2, !.time = 3]

\* Redeployments: with two faults or deployments, on two nodes, and with an Agent
\* that does not support them.
Pulls1 == [Base EXCEPT !.kinds = {"pull"}, !.events = 2, !.deploys = TRUE]
Pulls2 == [Base EXCEPT !.kinds = {"pull"}, !.nodes = {"n1", "n2"}, !.who = {"token"},
                       !.events = 1, !.deploys = TRUE]
Pulls3 == [Pulls2 EXCEPT !.old = {"n2"}]

NodesMC == {"n1", "n2"}
OperationsMC == {Restarts1, Restarts2, Restarts3, Pulls1, Pulls2, Pulls3}
Operation == INSTANCE ServiceOperations WITH
          Nodes <- NodesMC, RestartWindow <- 1, PrepareWindow <- 1, RateWindow <- 1, Retention <- 2,
          Bounds <- OperationsMC, ctl <- operations, cont <- replicas

WorkInit ==
    \/ /\ part = "jobs" /\ Init
       /\ registry = 0 /\ operations = [ops |-> <<>>] /\ token = 0 /\ starting = Operation!Idle
       /\ replicas = 0 /\ asked = <<>> /\ events = 0
    \/ /\ part = "operations" /\ Operation!Init
       /\ ctl = [tasks |-> <<>>, fired |-> <<>>] /\ nodes = 0 /\ intent = 0 /\ spent = [blind |-> FALSE]
       /\ starts = [n \in Nodes |-> [i \in Ids |-> 0]]
       /\ cont = [n \in Nodes |-> [i \in Ids |-> NoContainer]]

JobStep == part = "jobs" /\ Next /\ UNCHANGED <<part, onlyOperations>>
OperationStep == part = "operations" /\ Operation!Next /\ UNCHANGED <<part, onlyJobs>>

WorkNext == JobStep \/ OperationStep
WorkSpec == WorkInit /\ [][WorkNext]_all

\* The fairness of the modules, conjunct by conjunct.
WorkFairSpec ==
    /\ WorkSpec
    /\ []<>~ (IF part = "jobs" THEN now < bound.time ELSE Operation!ClockDue)
    /\ []<>~ (IF part = "jobs" THEN Connected("n1") /\ net["n1"] = Silent ELSE Operation!TickDue)
    /\ []<>~ (IF part = "jobs" THEN Connected("n1") /\ AnswerDue("n1") ELSE starting # Operation!Idle)
    /\ []<>~ (part = "jobs" /\ ScanDue("n1"))
    /\ []<>~ (part = "jobs" /\ HostDue("n1"))
    /\ \/ []<>~ (part = "jobs" /\ PassDue("n1"))
       \/ []<><<part = "jobs" /\ agent["n1"].pass' # agent["n1"].pass>>_agent

\* The properties of ServiceOperations.
RestartsRoll == part = "operations" => Operation!RestartsRoll
OperationsUnique == part = "operations" => Operation!OperationsUnique
PinnedImages == part = "operations" => Operation!PinnedImages
StartsAsAccepted == Operation!StartsAsAccepted
OperationsMoveOn == Operation!OperationsMoveOn
=============================================================================
