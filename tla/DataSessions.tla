---------------------------- MODULE DataSessions ----------------------------
(***************************************************************************)
(* `swarmlite logs`: the Controller registers a data session, tells the    *)
(* live nodes by a command to open a data stream to it, and passes their   *)
(* frames to the client that attaches.  Offline nodes, commands that time  *)
(* out and streams that break are reported by frames of the Controller.    *)
(* One session is followed from its creation to its end.                   *)
(***************************************************************************)
EXTENDS Naturals, Sequences, SequencesExt, FiniteSets

CONSTANTS Nodes,    \* the nodes
          Streams,  \* the tasks whose logs are read
          Queue,    \* SESSION_QUEUE_FRAMES
          Socket,   \* AGENT_DATA_QUEUE_FRAMES and what a connection holds
          MaxData,  \* bound on the data frames of a stream
          Instances \* the nodes of the tasks, the live nodes, the tasks whose
                    \* container is gone, and a bound on the deliveries of a command

VARIABLES polls,    \* how often a command may be delivered
          home,     \* home[s]: the node of a task
          live,     \* the nodes that are live when the session is created
          gone,     \* the tasks without a container, or whose node cannot list them
          creator,  \* create_log_session: where it is, the frames it has to send
          session,  \* the session: open, client_attached, attached_nodes
          expiring, \* expire_unattached found no client
          queue,    \* the session's channel
          command,  \* the command of each node in the broker
          waiter,   \* the task that waits for a node's result
          agent,    \* the command loop of each node
          stream,   \* each node's data stream: state, the frames it has to queue before
                    \* it sends any, frames in flight, what the Controller read of it,
                    \* frames the Controller still has to send
          made,     \* the frames each node made for a stream
          client    \* the CLI: state, frames received, streams that failed

vars == <<polls, home, live, gone, creator, session, expiring, queue, command, waiter, agent,
          stream, made, client>>

Data(s, n) == [id |-> s, kind |-> "data", sequence |-> n]
Error(s, n) == [id |-> s, kind |-> "error", sequence |-> n]
End(s, n) == [id |-> s, kind |-> "end", sequence |-> n]

On(n) == {s \in Streams : home[s] = n}
Asked == {n \in live : On(n) # {}}

\* The frames that end a set of streams after what `read` says was passed on.
\* Mutant: the streams end as if nothing had happened.
GiveUpQuietly(ss, read) ==
  FlattenSeq([i \in 1..Cardinality(ss) |->
    LET s == SetToSeq(ss)[i] IN <<End(s, read[s])>>])

GiveUp(ss, read) ==
  FlattenSeq([i \in 1..Cardinality(ss) |->
    LET s == SetToSeq(ss)[i] IN <<Error(s, read[s]), End(s, read[s] + 1)>>])

NoFrames == [s \in Streams |-> 0]

\* The receiver of the channel exists: the session or its client holds it.
Received == IF session.attached THEN client.at = "attached" ELSE session.open

CanSend == Received => Len(queue) < Queue

Send(f) == queue' = IF Received THEN Append(queue, f) ELSE queue

----------------------------------------------------------------------------
(* create_log_session *)

\* register; the offline nodes' streams are reported before the response.
Create ==
  /\ creator.at = "idle"
  /\ session' = [session EXCEPT !.open = TRUE]
  /\ creator' = [at |-> "offline",
                 left |-> GiveUp({s \in Streams : home[s] \notin live}, NoFrames)]
  /\ UNCHANGED <<polls, home, live, gone, expiring, queue, command, waiter, agent, stream, made, client>>

\* register refuses when MAX_ACTIVE_DATA_SESSIONS are active.
Refuse ==
  /\ creator.at = "idle"
  /\ creator' = [creator EXCEPT !.at = "refused"]
  /\ UNCHANGED <<polls, home, live, gone, session, expiring, queue, command, waiter, agent, stream, made,
                 client>>

ReportOffline ==
  /\ creator.at = "offline" /\ creator.left # <<>>
  /\ CanSend
  /\ Send(Head(creator.left))
  /\ creator' = [creator EXCEPT !.left = Tail(@)]
  /\ UNCHANGED <<polls, home, live, gone, session, expiring, command, waiter, agent, stream, made, client>>

\* enqueue for every node, one waiting task each, and the response.
EnqueueAll ==
  /\ creator = [at |-> "offline", left |-> <<>>]
  /\ creator' = [creator EXCEPT !.at = "done"]
  /\ command' = [n \in Nodes |-> IF n \in Asked THEN "queued" ELSE "gone"]
  /\ waiter' = [n \in Nodes |-> IF n \in Asked THEN [at |-> "waiting", left |-> <<>>]
                                               ELSE waiter[n]]
  /\ UNCHANGED <<polls, home, live, gone, session, expiring, queue, agent, stream, made, client>>

Blocked == creator.at = "offline" /\ creator.left # <<>> /\ ~CanSend

\* SESSION_ATTACH_TIMEOUT passed: the test and the cancellation are two
\* critical sections.
ExpireUnattached ==
  /\ session.open /\ ~session.attached /\ ~expiring
  /\ creator.at = "done" \/ Blocked
  /\ expiring' = TRUE
  /\ UNCHANGED <<polls, home, live, gone, creator, session, queue, command, waiter, agent, stream, made,
                 client>>

Cancel ==
  /\ expiring /\ session.open
  /\ session' = [session EXCEPT !.open = FALSE]
  /\ expiring' = FALSE
  /\ UNCHANGED <<polls, home, live, gone, creator, queue, command, waiter, agent, stream, made, client>>

----------------------------------------------------------------------------
(* The command broker and the waiting tasks. *)

\* take_ready: a command that was not dispatched, or whose delivery lease expired.
Poll(n) ==
  /\ command[n] \in {"queued", "dispatched"}
  /\ agent[n].at = "idle" /\ agent[n].polls < polls
  /\ command' = [command EXCEPT ![n] = "dispatched"]
  /\ agent' = [agent EXCEPT ![n].at = "execute", ![n].polls = @ + 1]
  /\ UNCHANGED <<polls, home, live, gone, creator, session, expiring, queue, waiter, stream, made, client>>

\* execute_command: connect_data_websocket, answered by attach_agent.
Attach(n) ==
  /\ agent[n].at = "execute"
  /\ session.open /\ n \notin session.nodes
  /\ session' = [session EXCEPT !.nodes = @ \cup {n}]
  /\ agent' = [agent EXCEPT ![n].at = "opened"]
  /\ stream' = [stream EXCEPT ![n].at = "open", ![n].missing = GiveUp(On(n) \cap gone, NoFrames)]
  /\ UNCHANGED <<polls, home, live, gone, creator, expiring, queue, command, waiter, made, client>>

\* The session is gone, the node is attached already, or the connection fails.
AttachFails(n) ==
  /\ agent[n].at = "execute"
  /\ agent' = [agent EXCEPT ![n].at = "refused"]
  /\ UNCHANGED <<polls, home, live, gone, creator, session, expiring, queue, command, waiter, stream, made,
                 client>>

\* publish_command_result and complete: an answer nobody waits for is dropped.
Publish(n) ==
  /\ agent[n].at \in {"opened", "refused"}
  /\ agent' = [agent EXCEPT ![n].at = "idle"]
  /\ command' = [command EXCEPT ![n] = "gone"]
  /\ waiter' = IF command[n] = "gone" THEN waiter
               ELSE [waiter EXCEPT ![n] =
                       IF agent[n].at = "opened" THEN [at |-> "done", left |-> <<>>]
                       ELSE [at |-> "report", left |-> GiveUp(On(n), NoFrames)]]
  /\ UNCHANGED <<polls, home, live, gone, creator, session, expiring, queue, stream, made, client>>

\* Mutant: the command is withdrawn, and nobody ends the streams.
TimeOutSilent(n) ==
  /\ waiter[n].at = "waiting"
  /\ waiter' = [waiter EXCEPT ![n] = [at |-> "done", left |-> <<>>]]
  /\ command' = [command EXCEPT ![n] = "gone"]
  /\ UNCHANGED <<polls, home, live, gone, creator, session, expiring, queue, agent, stream, made, client>>

\* DATA_COMMAND_TIMEOUT passed: the command is withdrawn from the broker.
TimeOut(n) ==
  /\ waiter[n].at = "waiting"
  /\ waiter' = [waiter EXCEPT ![n] = [at |-> "report", left |-> GiveUp(On(n), NoFrames)]]
  /\ command' = [command EXCEPT ![n] = "gone"]
  /\ UNCHANGED <<polls, home, live, gone, creator, session, expiring, queue, agent, stream, made, client>>

Report(n) ==
  /\ waiter[n].at = "report" /\ waiter[n].left # <<>>
  /\ CanSend
  /\ Send(Head(waiter[n].left))
  /\ waiter' = [waiter EXCEPT ![n].left = Tail(@)]
  /\ UNCHANGED <<polls, home, live, gone, creator, session, expiring, command, agent, stream, made, client>>

----------------------------------------------------------------------------
(* The node's side of a data stream and AgentDataAttachment::serve. *)

\* run_data_session, before it sends anything: the streams of tasks that are not
\* there are ended by frames in the channel it reads from only afterwards.
QueueMissing(n) ==
  /\ stream[n].at = "open" /\ stream[n].missing # <<>> /\ Len(stream[n].wire) < Socket
  /\ LET f == Head(stream[n].missing)
     IN /\ made' = [made EXCEPT ![f.id] = Append(@, f)]
        /\ stream' = [stream EXCEPT ![n].missing = Tail(@), ![n].wire = Append(@, f)]
  /\ UNCHANGED <<polls, home, live, gone, creator, session, expiring, queue, command, waiter, agent, client>>

\* The channel is full and nobody reads from it.
Stuck(n) == stream[n].at = "open" /\ stream[n].missing # <<>> /\ Len(stream[n].wire) >= Socket

\* stream_agent_data: data, possibly an error, and the end.
Produce(n) ==
  /\ stream[n].at = "open" /\ Len(stream[n].wire) < Socket
  /\ \E s \in On(n) \ gone :
       LET k == Len(made[s])
           last == IF k = 0 THEN "data" ELSE made[s][k].kind
       IN \E f \in CASE last = "end" -> {}
                     [] last = "error" -> {End(s, k)}
                     [] OTHER -> {End(s, k), Error(s, k)}
                                 \cup {Data(s, k) : i \in 1..(IF k < MaxData THEN 1 ELSE 0)} :
            /\ made' = [made EXCEPT ![s] = Append(@, f)]
            /\ stream' = [stream EXCEPT ![n].wire = Append(@, f)]
  /\ UNCHANGED <<polls, home, live, gone, creator, session, expiring, queue, command, waiter, agent, client>>

\* serve passes a frame on, and returns when the session's channel is closed or every
\* stream has ended.  A node's frames arrive in the sequence they were made in.
Forward(n) ==
  /\ stream[n].at = "open" /\ stream[n].missing = <<>> /\ stream[n].wire # <<>> /\ session.open
  /\ CanSend
  /\ LET f == Head(stream[n].wire)
         ended == stream[n].ended \cup (IF f.kind = "end" THEN {f.id} ELSE {})
     IN /\ Send(f)
        /\ stream' = [stream EXCEPT
                        ![n].wire = Tail(@),
                        ![n].read[f.id] = f.sequence + 1,
                        ![n].ended = ended,
                        ![n].at = IF ~Received \/ ended = On(n) THEN "over" ELSE "open"]
  /\ UNCHANGED <<polls, home, live, gone, creator, session, expiring, command, waiter, agent, made, client>>

\* The connection breaks: what was on it is lost, and the Controller ends the
\* streams that had not ended.
Break(n) ==
  /\ stream[n].at = "open" /\ session.open
  /\ stream' = [stream EXCEPT
                  ![n].at = "broken", ![n].missing = <<>>, ![n].wire = <<>>,
                  ![n].left = GiveUp(On(n) \ stream[n].ended, stream[n].read)]
  /\ UNCHANGED <<polls, home, live, gone, creator, session, expiring, queue, command, waiter, agent, made,
                 client>>

ReportBroken(n) ==
  /\ stream[n].at = "broken" /\ stream[n].left # <<>>
  /\ CanSend
  /\ Send(Head(stream[n].left))
  /\ stream' = [stream EXCEPT ![n].left = Tail(@)]
  /\ UNCHANGED <<polls, home, live, gone, creator, session, expiring, command, waiter, agent, made, client>>

\* The cancelled session ends the stream.
StreamCancelled(n) ==
  /\ stream[n].at = "open" /\ ~session.open
  /\ stream' = [stream EXCEPT ![n].at = "over", ![n].missing = <<>>, ![n].wire = <<>>]
  /\ UNCHANGED <<polls, home, live, gone, creator, session, expiring, queue, command, waiter, agent, made,
                 client>>

\* The Agent stops: its command loop starts again, its data stream breaks.
RestartAgent(n) ==
  /\ agent[n].at # "idle"
  /\ agent' = [agent EXCEPT ![n].at = "idle"]
  /\ stream' = IF stream[n].at = "open" /\ session.open
               THEN [stream EXCEPT
                       ![n].at = "broken", ![n].missing = <<>>, ![n].wire = <<>>,
                       ![n].left = GiveUp(On(n) \ stream[n].ended, stream[n].read)]
               ELSE stream
  /\ UNCHANGED <<polls, home, live, gone, creator, session, expiring, queue, command, waiter, made, client>>

----------------------------------------------------------------------------
(* The client: attach_client, ClientDataAttachment::serve and receive_logs. *)

AttachClient ==
  /\ creator.at = "done" /\ client.at = "idle"
  /\ IF session.open
     THEN /\ session' = [session EXCEPT !.attached = TRUE]
          /\ client' = [client EXCEPT !.at = "attached"]
     ELSE /\ client' = [client EXCEPT !.at = "failed"]
          /\ UNCHANGED session
  /\ UNCHANGED <<polls, home, live, gone, creator, expiring, queue, command, waiter, agent, stream, made>>

InSequence(f) == f.sequence = Len(client.got[f.id])

Ended(got) == {s \in Streams : \E i \in 1..Len(got[s]) : got[s][i].kind = "end"}

Receive ==
  /\ client.at = "attached" /\ session.open /\ queue # <<>>
  /\ queue' = Tail(queue)
  /\ LET f == Head(queue)
         got == [client.got EXCEPT ![f.id] = Append(@, f)]
         failed == client.failed \cup (IF f.kind = "error" THEN {f.id} ELSE {})
         over == Ended(got) = Streams
     IN client' = IF ~InSequence(f) THEN [client EXCEPT !.at = "failed"]
                  ELSE [at |-> CASE ~over -> "attached"
                                 [] over /\ failed = {} -> "ok"
                                 [] OTHER -> "failed",
                        got |-> got, failed |-> failed]
  /\ UNCHANGED <<polls, home, live, gone, creator, session, expiring, command, waiter, agent, stream, made>>

\* The client's connection breaks, or it is stopped.
ClientLeaves ==
  /\ client.at = "attached"
  /\ client' = [client EXCEPT !.at = "failed"]
  /\ UNCHANGED <<polls, home, live, gone, creator, session, expiring, queue, command, waiter, agent, stream,
                 made>>

\* "data session closed before all streams completed"
ClientCancelled ==
  /\ client.at = "attached" /\ ~session.open
  /\ client' = [client EXCEPT !.at = "failed"]
  /\ UNCHANGED <<polls, home, live, gone, creator, session, expiring, queue, command, waiter, agent, stream,
                 made>>

\* serve ends with the client and cancels the session.
ServeEnds ==
  /\ client.at \in {"ok", "failed"} /\ session.attached /\ session.open
  /\ session' = [session EXCEPT !.open = FALSE]
  /\ UNCHANGED <<polls, home, live, gone, creator, expiring, queue, command, waiter, agent, stream, made,
                 client>>

----------------------------------------------------------------------------
Init ==
  /\ \E i \in Instances : home = i.home /\ live = i.live /\ gone = i.gone /\ polls = i.polls
  /\ creator = [at |-> "idle", left |-> <<>>]
  /\ session = [open |-> FALSE, attached |-> FALSE, nodes |-> {}]
  /\ expiring = FALSE
  /\ queue = <<>>
  /\ command = [n \in Nodes |-> "gone"]
  /\ waiter = [n \in Nodes |-> [at |-> "done", left |-> <<>>]]
  /\ agent = [n \in Nodes |-> [at |-> "idle", polls |-> 0]]
  /\ stream = [n \in Nodes |-> [at |-> "none", missing |-> <<>>, wire |-> <<>>, read |-> NoFrames,
                                ended |-> {}, left |-> <<>>]]
  /\ made = [s \in Streams |-> <<>>]
  /\ client = [at |-> "idle", got |-> [s \in Streams |-> <<>>], failed |-> {}]

\* What goes on without anybody's doing, and what may be awaited.
Progress ==
  /\ client.at \in {"idle", "attached"}
  /\ \/ ReportOffline \/ EnqueueAll \/ Cancel \/ AttachClient \/ Receive \/ ClientCancelled
     \/ \E n \in Nodes : Report(n) \/ QueueMissing(n) \/ Produce(n) \/ Forward(n) \/ ReportBroken(n)
                         \/ StreamCancelled(n) \/ Publish(n) \/ TimeOut(n)

\* An instance ends with its client.
Next ==
  \/ Progress
  \/ /\ client.at \in {"idle", "attached"}
     /\ \/ Create \/ Refuse \/ ExpireUnattached \/ ClientLeaves
        \/ \E n \in Nodes : Poll(n) \/ Attach(n) \/ AttachFails(n) \/ Break(n)
                            \/ RestartAgent(n)
  \/ ServeEnds

Spec == Init /\ [][Next]_vars

\* What enables Progress.
ProgressDue ==
  /\ client.at \in {"idle", "attached"}
  /\ \/ creator.at = "offline" /\ (creator.left = <<>> \/ CanSend)
     \/ expiring /\ session.open
     \/ creator.at = "done" /\ client.at = "idle"
     \/ client.at = "attached" /\ (~session.open \/ queue # <<>>)
     \/ \E n \in Nodes :
          \/ waiter[n].at = "waiting"
          \/ waiter[n].at = "report" /\ waiter[n].left # <<>> /\ CanSend
          \/ agent[n].at \in {"opened", "refused"}
          \/ stream[n].at = "broken" /\ stream[n].left # <<>> /\ CanSend
          \/ stream[n].at = "open" /\
               \/ ~session.open
               \/ stream[n].missing = <<>> /\ stream[n].wire # <<>> /\ CanSend
               \/ Len(stream[n].wire) < Socket /\ On(n) \ Ended(made) # {}

\* Tasks run, channels and connections move, and the waiting task's timer fires: weak
\* fairness of Progress, which cannot be taken for ever.
FairSpec == Spec /\ []<>~ProgressDue

----------------------------------------------------------------------------
(* Properties. *)

\* When `swarmlite logs` ends without an error, it has printed exactly the frames the
\* nodes made for each task, to the last: no broken stream, no late answer to a
\* command and no second delivery is taken for the end of a log.
CompleteWhenOk == client.at = "ok" => client.got = made

\* A client that is attached comes to an end, whatever breaks: every stream is
\* ended by its node or, for it, by the Controller (logs without --follow).  The
\* one exception is a node with more frames for missing tasks than its channel
\* holds: it waits for itself, its connection stays up, and the client waits for
\* as long as that lasts (run_data_session).
ClientFinishes == client.at = "attached" ~> (client.at \in {"ok", "failed"} \/ \E n \in Nodes : Stuck(n))

============================================================================
