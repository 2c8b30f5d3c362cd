---------------------------- MODULE DeployTokens ----------------------------
(***************************************************************************)
(* The deployment API of the Controller: deploy tokens, each bound to one  *)
(* service and revoked or expired at some time, the requests that submit   *)
(* an operation with one of them, and the long polls for an operation's    *)
(* status.  What an operation does is the subject of ServiceOperations;    *)
(* here it is accepted, gets on at its own pace, ends and is forgotten     *)
(* after the retention time.                                               *)
(*                                                                         *)
(* The handlers of tokens and operations hold the mutex `inner`, but a     *)
(* submission checks its token three times: before the body is parsed and  *)
(* without the mutex, again with it, and in the transaction that stores    *)
(* the operation.  Time passes in between.                                 *)
(***************************************************************************)
EXTENDS Integers, FiniteSets

CONSTANTS Services, Tokens, Clients, Keys,
          Sources,      \* the requests' bodies: audit metadata
          Life,         \* how long a token with an expiry lives
          Retention,    \* 90 days
          Wait,         \* the longest poll
          MaxTime, MaxOps, MaxLost,
          Nothing

VARIABLES now,
          live,         \* services that exist
          tokens,       \* deploy_tokens: id |-> [service, expires, revoked, secret]
          ops,          \* service_operations: id |-> record
          inner,        \* who holds the mutex across steps, or Nothing
          call,         \* of each client: where its request is
          last,         \* the last token check that let something through
          accepted,     \* every operation ever accepted: id |-> [principal, key, at]
          lost

vars == <<now, live, tokens, ops, inner, call, last, accepted, lost>>

Idle == [pc |-> "idle"]

\* DeployToken::active
active(t) == t \in DOMAIN tokens /\ tokens[t].revoked = Nothing
             /\ ~ (tokens[t].expires # Nothing /\ now >= tokens[t].expires)

\* Whose a bearer is: the secret is the token's own, so that only whether it is
\* active is left to check.
deploy_principal(t) == active(t)

\* "never", or some time ahead.
expiry_from_duration == {Nothing, now + Life}

Free == inner = Nothing

(***************************************************************************)
(* Administration.                                                         *)
(***************************************************************************)
\* The service must exist.
create_deploy_token(t, s) ==
    /\ Free /\ t \notin DOMAIN tokens /\ s \in live
    /\ \E expires \in expiry_from_duration :
         tokens' = [u \in DOMAIN tokens \union {t} |->
                      IF u = t THEN [service |-> s, expires |-> expires, revoked |-> Nothing, secret |-> TRUE]
                      ELSE tokens[u]]
    /\ UNCHANGED <<now, live, ops, inner, call, last, accepted, lost>>

\* Revoking again keeps the first time.
revoke_deploy_token(t) ==
    /\ Free /\ t \in DOMAIN tokens
    /\ tokens' = [tokens EXCEPT ![t].secret = FALSE,
                                ![t].revoked = IF @ = Nothing THEN now ELSE @]
    /\ UNCHANGED <<now, live, ops, inner, call, last, accepted, lost>>

\* Its stack is deployed without it.
RemoveService(s) ==
    /\ Free /\ s \in live /\ live' = live \ {s}
    /\ UNCHANGED <<now, tokens, ops, inner, call, last, accepted, lost>>

(***************************************************************************)
(* Submitting an operation.                                                *)
(***************************************************************************)
Answer(c, what) == call' = [call EXCEPT ![c] = what]

\* A client asks for a redeployment.
Call(c) ==
    /\ call[c] = Idle
    /\ \E t \in DOMAIN tokens, s \in Services, k \in Keys, b \in Sources :
         Answer(c, [pc |-> "sent", token |-> t, target |-> s, key |-> k, source |-> b])
    /\ UNCHANGED <<now, live, tokens, ops, inner, last, accepted, lost>>

\* submit: the check without the mutex.
submit(c) ==
    /\ call[c].pc = "sent"
    /\ Answer(c, IF deploy_principal(call[c].token) THEN [call[c] EXCEPT !.pc = "checked"] ELSE Idle)
    /\ UNCHANGED <<now, live, tokens, ops, inner, last, accepted, lost>>

Known(r) == {o \in DOMAIN ops : ops[o].principal = r.token /\ ops[o].key = r.key}

\* The 1 second between two operations of a principal is one unit of time.
RateLimited(r) == \E o \in DOMAIN ops : ops[o].principal = r.token /\ now - ops[o].created < 1

Busy(r) == \E o \in DOMAIN ops : ops[o].service = r.target /\ ops[o].status = "running"

\* submit_service_operation up to the commit, with the mutex.  The answer to
\* a key that is known is the first operation's, whether or not the service
\* is still there.
submit_service_operation(c) ==
    LET r == call[c]
    IN  /\ r.pc = "checked" /\ Free
        /\ \/ /\ ~ deploy_principal(r.token) \/ tokens[r.token].service # r.target
              /\ Answer(c, Idle) /\ UNCHANGED <<inner, last>>
           \/ /\ deploy_principal(r.token) /\ tokens[r.token].service = r.target
              /\ \/ \E o \in Known(r) :
                      IF ops[o].source = r.source
                      THEN /\ Answer(c, [pc |-> "told", token |-> r.token, op |-> o, seen |-> ops[o].revision])
                           /\ last' = [token |-> r.token, at |-> now, op |-> o]
                           /\ UNCHANGED inner
                      ELSE Answer(c, Idle) /\ UNCHANGED <<inner, last>>
                 \/ /\ Known(r) = {} /\ Cardinality(DOMAIN accepted) < MaxOps
                    /\ IF r.target \notin live \/ Busy(r) \/ RateLimited(r)
                       THEN Answer(c, Idle) /\ UNCHANGED inner
                       ELSE Answer(c, [r EXCEPT !.pc = "accepting"]) /\ inner' = c
                    /\ UNCHANGED last
        /\ UNCHANGED <<now, live, tokens, ops, accepted, lost>>

\* Mutant of CredentialActive: the check with the mutex is trusted.
CredentialActiveTrusted(t) == TRUE

\* write_operations: the token's row in the transaction.
CredentialActive(t) == active(t)

\* commit_locked: the operation is stored, or the request fails.
Commit(c) ==
    LET r == call[c]
        o == Cardinality(DOMAIN accepted) + 1
    IN  /\ r.pc = "accepting"
        /\ inner' = Nothing
        /\ \/ /\ CredentialActive(r.token)
              /\ ops' = [p \in DOMAIN ops \union {o} |->
                           IF p = o THEN [principal |-> r.token, key |-> r.key, source |-> r.source,
                                          service |-> r.target, status |-> "running", revision |-> 1,
                                          created |-> now, finished |-> Nothing]
                           ELSE ops[p]]
              /\ accepted' = [p \in DOMAIN accepted \union {o} |->
                                IF p = o THEN [principal |-> r.token, key |-> r.key, service |-> r.target, at |-> now]
                                ELSE accepted[p]]
              /\ last' = [token |-> r.token, at |-> now, op |-> o]
              /\ Answer(c, [pc |-> "told", token |-> r.token, op |-> o, seen |-> 1])
              /\ UNCHANGED lost
           \/ /\ ~ CredentialActive(r.token) \/ lost < MaxLost
              /\ lost' = IF CredentialActive(r.token) THEN lost + 1 ELSE lost
              /\ Answer(c, Idle) /\ UNCHANGED <<ops, accepted, last>>
        /\ UNCHANGED <<now, live, tokens>>

\* A response is lost, or the client gives up: it is where it began, and may
\* repeat its request.
Lose(c) ==
    /\ call[c].pc = "told" /\ lost < MaxLost
    /\ lost' = lost + 1 /\ Answer(c, Idle)
    /\ UNCHANGED <<now, live, tokens, ops, inner, last, accepted>>

(***************************************************************************)
(* Operations.                                                             *)
(***************************************************************************)
\* advance_service_operations_locked: one gets on or ends, and the revision
\* says so.
Advance(o) ==
    /\ Free /\ ops[o].status = "running"
    /\ \/ ops[o].revision < 2 /\ ops' = [ops EXCEPT ![o].revision = @ + 1]
       \/ ops' = [ops EXCEPT ![o].revision = @ + 1, ![o].status = "over", ![o].finished = now]
    /\ UNCHANGED <<now, live, tokens, inner, call, last, accepted, lost>>

\* Mutant of Removable: as soon as it ended.
RemovableOver(o) == ops[o].status = "over"

\* From when it ended.
Removable(o) == ops[o].status = "over" /\ now - ops[o].finished >= Retention

Forget ==
    /\ Free /\ \E o \in DOMAIN ops : Removable(o)
    /\ ops' = [o \in {p \in DOMAIN ops : ~ Removable(p)} |-> ops[o]]
    /\ UNCHANGED <<now, live, tokens, inner, call, last, accepted, lost>>

\* The client waits for its operation.
Poll(c) ==
    /\ call[c].pc = "told" /\ now + Wait <= MaxTime
    /\ Answer(c, [pc |-> "polling", token |-> call[c].token, op |-> call[c].op,
                  seen |-> call[c].seen, until |-> now + Wait])
    /\ UNCHANGED <<now, live, tokens, ops, inner, last, accepted, lost>>

\* Of its own operations, while the token is active.
MayRead(r) == deploy_principal(r.token) /\ r.op \in DOMAIN ops /\ ops[r.op].principal = r.token

\* Mutant of Over: only a change ends the wait.
OverChanged(r) == ops[r.op].revision # r.seen \/ ops[r.op].status = "over"

Over(r) == ops[r.op].revision # r.seen \/ ops[r.op].status = "over" \/ now >= r.until

\* get_service_operation: one turn of its loop.
get_service_operation(c) ==
    LET r == call[c]
    IN  /\ r.pc = "polling" /\ Free
        /\ IF ~ MayRead(r) THEN Answer(c, Idle) /\ UNCHANGED last
           ELSE /\ Over(r)
                /\ Answer(c, IF ops[r.op].status = "over" THEN Idle
                             ELSE [pc |-> "told", token |-> r.token, op |-> r.op, seen |-> ops[r.op].revision])
                /\ last' = [token |-> r.token, at |-> now, op |-> r.op]
        /\ UNCHANGED <<now, live, tokens, ops, inner, accepted, lost>>

\* The Controller stops and starts again: what is stored remains.
Restart ==
    /\ lost < MaxLost /\ lost' = lost + 1
    /\ inner' = Nothing /\ call' = [c \in Clients |-> Idle]
    /\ UNCHANGED <<now, live, tokens, ops, last, accepted>>

Tick ==
    /\ now < MaxTime /\ now' = now + 1
    /\ UNCHANGED <<live, tokens, ops, inner, call, last, accepted, lost>>

Init ==
    /\ now = 0 /\ live = Services /\ tokens = <<>> /\ ops = <<>> /\ inner = Nothing
    /\ call = [c \in Clients |-> Idle] /\ last = Nothing /\ accepted = <<>> /\ lost = 0

Next == \/ \E t \in Tokens, s \in Services : create_deploy_token(t, s)
        \/ \E t \in Tokens : revoke_deploy_token(t)
        \/ \E s \in Services : RemoveService(s)
        \/ \E c \in Clients : Call(c) \/ submit(c) \/ submit_service_operation(c) \/ Commit(c)
                             \/ Lose(c) \/ Poll(c) \/ get_service_operation(c)
        \/ \E o \in 1..MaxOps : o \in DOMAIN ops /\ Advance(o)
        \/ Forget \/ Restart \/ Tick

Spec == Init /\ [][Next]_vars

\* Time passes, a commit returns, and a poll that can be answered is, because the
\* mutex is fair: each of these steps ends the condition that it is due.
PollDue(c) == call[c].pc = "polling" /\ (~ MayRead(call[c]) \/ Over(call[c]))
CommitDue == \E c \in Clients : call[c].pc = "accepting"
FairSpec == /\ Spec
            /\ []<>(now = MaxTime) /\ []<>~CommitDue
            /\ \A c \in Clients : []<>~PollDue(c)

(***************************************************************************)
(* Properties.                                                             *)
(***************************************************************************)
\* Whatever a token obtains, an operation that is accepted or the status of
\* one, it obtains while it is active, and of an operation it submitted to the
\* service it is bound to: also when it expires while its request waits for
\* the mutex or the transaction, or is revoked during a long poll
\* (deploy_principal, write_operations, get_service_operation).
TokenRules ==
    [][last' # last => /\ active(last'.token)
                       /\ ops'[last'.op].principal = last'.token
                       /\ ops'[last'.op].service = tokens[last'.token].service]_vars

\* A request that is repeated is not accepted a second time within the
\* retention time, whatever happened to the first response, to the service or
\* to the Controller (submit_service_operation, advance_service_operations_locked).
KeysKept ==
    \A o, p \in DOMAIN accepted :
        o < p /\ accepted[o].principal = accepted[p].principal /\ accepted[o].key = accepted[p].key
        => accepted[p].at - accepted[o].at >= Retention

\* A long poll is answered, whether or not its operation ever gets on
\* (get_service_operation).
PollAnswered == \A c \in Clients : call[c].pc = "polling" ~> call[c].pc # "polling"
=============================================================================
