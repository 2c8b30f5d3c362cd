------------------------------ MODULE KvLocks ------------------------------
(***************************************************************************)
(* The expiring locks of the Controller's key/value store                  *)
(* (crates/swarmlite-controller/src/kv.rs, controller/kv_store.rs) and the *)
(* clients that docs/kv-api.md describes.                                  *)
(*                                                                         *)
(* A request reaches its handler, which reads the clock, and only later    *)
(* executes its SQLite transaction: other requests, and time, pass in      *)
(* between.  Requests and replies may be lost.  The handler's clock is     *)
(* assumed not to run backwards, and clients to read the same clock.       *)
(***************************************************************************)
EXTENDS Integers, FiniteSets

CONSTANTS
    Names,      \* lock names
    Owners,     \* owner_id values
    Lease,      \* Lease[o]: the lease_millis that owner o always asks for
    Overlap,    \* may an owner send while an earlier request of its own for
                \* the same lock is still unanswered and undecided?
    MaxTime,    \* bound on the clock
    MaxToken,   \* bound on the number of grants
    MaxInFlight \* bound on the messages in flight

ASSUME LeaseAssumption == Lease \in [Owners -> Nat \ {0}]
ASSUME OverlapAssumption == Overlap \in BOOLEAN
ASSUME BoundsAssumption == MaxTime \in Nat /\ MaxToken \in Nat /\ MaxInFlight \in Nat

VARIABLES
    now,                \* unix_ms()
    locks,              \* table kv_locks: name -> row, or NoLock
    next_fencing_token, \* kv_meta.next_fencing_token
    msgs,               \* requests being handled and replies on their way
    held,               \* what each owner believes it holds, with its deadline
    granted             \* history: every token handed out, and to whom

vars == <<now, locks, next_fencing_token, msgs, held, granted>>

NotHeld == [token |-> 0, until |-> 0]

Row == [owner : Owners, token : Nat \ {0}, until : Nat]
NoLock == [token |-> 0]
Grant == [token : Nat, owner : Owners, name : Names]
Ops == {"acquire", "renew", "release"}

\* A request that has reached its handler.  "at" is the time the handler read.
Request == [kind : {"request"}, op : Ops, owner : Owners, name : Names,
            token : Nat, at : Nat]
\* "ok" is Acquired / 200, otherwise Busy / 409.
Reply == [kind : {"reply"}, op : Ops, owner : Owners, name : Names,
          token : Nat, until : Nat, ok : BOOLEAN]

\* The table, the messages and what owners believe keep their shape: no row
\* without a token, no deadline before the epoch (acquire_lock, renew_lock).
TypeOK ==
    /\ now \in Nat
    /\ locks \in [Names -> Row \cup {NoLock}]
    /\ next_fencing_token \in Nat
    /\ msgs \subseteq (Request \cup Reply)
    /\ held \in [Owners -> [Names -> [token : Nat, until : Nat]]]
    /\ granted \subseteq Grant

Init ==
    /\ now = 0
    /\ locks = [n \in Names |-> NoLock]
    /\ next_fencing_token = 0
    /\ msgs = {}
    /\ held = [o \in Owners |-> [n \in Names |-> NotHeld]]
    /\ granted = {}

-----------------------------------------------------------------------------
(* The table *)

Exists(n) == locks[n].token # 0
Live(n, at) == Exists(n) /\ locks[n].until > at

LeaseDeadline(o, at) == at + Lease[o]

\* acquire_lock: another owner's live lease answers Busy and changes nothing.
AcquireBusy(o, n, at) == Live(n, at) /\ locks[n].owner # o

\* acquire_lock: the owner of a live lease keeps its token and gets a new deadline.
AcquireAgain(o, n, at) ==
    /\ Live(n, at) /\ locks[n].owner = o
    /\ locks' = [locks EXCEPT ![n].until = LeaseDeadline(o, at)]
    /\ UNCHANGED <<next_fencing_token, granted>>

\* Mutant of AcquireFree: an expired row keeps its token.
AcquireFreeKeepsToken(o, n, at) ==
    LET token == IF Exists(n) THEN locks[n].token ELSE next_fencing_token + 1
    IN  /\ ~Live(n, at)
        /\ next_fencing_token < MaxToken
        /\ next_fencing_token' = next_fencing_token + 1
        /\ locks' = [locks EXCEPT ![n] = [owner |-> o, token |-> token,
                                          until |-> LeaseDeadline(o, at)]]
        /\ granted' = granted \cup {[token |-> token, owner |-> o, name |-> n]}

\* Mutant of AcquireFree: tokens are counted per row.
AcquireFreeCountsPerRow(o, n, at) ==
    LET token == IF Exists(n) THEN locks[n].token + 1 ELSE 1
    IN  /\ ~Live(n, at)
        /\ next_fencing_token < MaxToken
        /\ next_fencing_token' = next_fencing_token + 1
        /\ locks' = [locks EXCEPT ![n] = [owner |-> o, token |-> token,
                                          until |-> LeaseDeadline(o, at)]]
        /\ granted' = granted \cup {[token |-> token, owner |-> o, name |-> n]}

\* acquire_lock: a free or expired lock goes to the caller under a fresh token.
AcquireFree(o, n, at) ==
    /\ ~Live(n, at)
    /\ next_fencing_token < MaxToken
    /\ next_fencing_token' = next_fencing_token + 1
    /\ locks' = [locks EXCEPT ![n] = [owner |-> o, token |-> next_fencing_token',
                                      until |-> LeaseDeadline(o, at)]]
    /\ granted' = granted \cup {[token |-> next_fencing_token', owner |-> o, name |-> n]}

\* Mutant of RenewMatches: any live row is renewed, whoever owns it now.
RenewMatchesName(r) == Live(r.name, r.at)

\* renew_lock: the WHERE clause of the UPDATE.
RenewMatches(r) ==
    Live(r.name, r.at) /\ locks[r.name].owner = r.owner /\ locks[r.name].token = r.token

\* release_lock: a missing row counts as a match; expiry is not looked at.
ReleaseMatches(r) ==
    ~Exists(r.name) \/ (locks[r.name].owner = r.owner /\ locks[r.name].token = r.token)

-----------------------------------------------------------------------------
(* Clients and their messages *)

Holds(o, n) == held[o][n].token # 0
Pending(o, n) == {m \in msgs : m.owner = o /\ m.name = n}

\* The handlers of kv_store.rs read the clock when a request arrives.
Send(op, o, n, token) ==
    /\ Overlap \/ Pending(o, n) = {}
    /\ Cardinality(msgs) < MaxInFlight
    /\ msgs' = msgs \cup {[kind |-> "request", op |-> op, owner |-> o, name |-> n,
                           token |-> token, at |-> now]}

Acquire(o, n) ==
    /\ Send("acquire", o, n, 0)
    /\ UNCHANGED <<now, locks, next_fencing_token, held, granted>>

Renew(o, n) ==
    /\ Holds(o, n)
    /\ Send("renew", o, n, held[o][n].token)
    /\ UNCHANGED <<now, locks, next_fencing_token, held, granted>>

\* An owner that releases stops relying on the lock before the request leaves.
Release(o, n) ==
    /\ Holds(o, n)
    /\ Send("release", o, n, held[o][n].token)
    /\ held' = [held EXCEPT ![o][n] = NotHeld]
    /\ UNCHANGED <<now, locks, next_fencing_token, granted>>

Answer(r, token, until, ok) ==
    msgs' = (msgs \ {r}) \cup {[kind |-> "reply", op |-> r.op, owner |-> r.owner,
                                name |-> r.name, token |-> token, until |-> until,
                                ok |-> ok]}

ExecuteAcquire(r) ==
    /\ r.op = "acquire"
    /\ \/ /\ AcquireBusy(r.owner, r.name, r.at)
          /\ Answer(r, 0, 0, FALSE)
          /\ UNCHANGED <<locks, next_fencing_token, granted>>
       \/ /\ AcquireAgain(r.owner, r.name, r.at) \/ AcquireFree(r.owner, r.name, r.at)
          /\ Answer(r, locks'[r.name].token, locks'[r.name].until, TRUE)
    /\ UNCHANGED <<now, held>>

\* The reply carries no deadline: the owner derives it from the clock it read.
ExecuteRenew(r) ==
    /\ r.op = "renew"
    /\ locks' = IF RenewMatches(r)
                THEN [locks EXCEPT ![r.name].until = LeaseDeadline(r.owner, r.at)]
                ELSE locks
    /\ Answer(r, r.token, LeaseDeadline(r.owner, r.at), RenewMatches(r))
    /\ UNCHANGED <<now, next_fencing_token, held, granted>>

ExecuteRelease(r) ==
    /\ r.op = "release"
    /\ locks' = IF ReleaseMatches(r) THEN [locks EXCEPT ![r.name] = NoLock] ELSE locks
    /\ Answer(r, r.token, 0, ReleaseMatches(r))
    /\ UNCHANGED <<now, next_fencing_token, held, granted>>

\* docs/kv-api.md: an owner holds what it acquired until the deadline it knows,
\* and "must stop assuming ownership if renewal fails".
Receive(m) ==
    /\ m.kind = "reply"
    /\ msgs' = msgs \ {m}
    /\ held' = CASE m.op = "acquire" /\ m.ok ->
                      [held EXCEPT ![m.owner][m.name] = [token |-> m.token, until |-> m.until]]
                 [] m.op = "renew" /\ m.token = held[m.owner][m.name].token ->
                      [held EXCEPT ![m.owner][m.name] =
                           IF m.ok THEN [token |-> m.token, until |-> m.until] ELSE NotHeld]
                 [] OTHER -> held
    /\ UNCHANGED <<now, locks, next_fencing_token, granted>>

\* A dropped request, a reply nobody waits for any more, a Controller restart
\* before the transaction: the table is durable and the message is gone.
Lose(m) ==
    /\ msgs' = msgs \ {m}
    /\ UNCHANGED <<now, locks, next_fencing_token, held, granted>>

\* An owner that crashes forgets; its requests stay in flight.
Crash(o) ==
    /\ \E n \in Names : Holds(o, n)
    /\ held' = [held EXCEPT ![o] = [n \in Names |-> NotHeld]]
    /\ UNCHANGED <<now, locks, next_fencing_token, msgs, granted>>

Tick ==
    /\ now < MaxTime
    /\ now' = now + 1
    /\ UNCHANGED <<locks, next_fencing_token, msgs, held, granted>>

Next ==
    \/ \E o \in Owners, n \in Names : Acquire(o, n) \/ Renew(o, n) \/ Release(o, n)
    \/ \E r \in msgs : r.kind = "request" /\ ExecuteAcquire(r)
    \/ \E r \in msgs : r.kind = "request" /\ ExecuteRenew(r)
    \/ \E r \in msgs : r.kind = "request" /\ ExecuteRelease(r)
    \/ \E m \in msgs : Receive(m) \/ Lose(m)
    \/ \E o \in Owners : Crash(o)
    \/ Tick

Spec == Init /\ [][Next]_vars

-----------------------------------------------------------------------------
(* Properties *)

Believes(o, n) == Holds(o, n) /\ now < held[o][n].until

\* Two owners never rely on the same lock at once: an owner that has not
\* outlived the deadline of its last successful acquire_lock or renew_lock is
\* the only one.  It rests on the Busy branch of acquire_lock, on the deadline
\* test of renew_lock and on the token test of release_lock, and holds for
\* owners that do not overlap their own requests.
MutualExclusion ==
    \A n \in Names : \A o, p \in Owners : Believes(o, n) /\ Believes(p, n) => o = p

\* Fencing: an owner whose lock was taken over holds a token strictly below
\* that of the present row, however late its requests and replies are.  A
\* resource that refuses tokens smaller than one it has seen is safe.
StaleHolderIsFenced ==
    \A n \in Names : \A o \in Owners :
        Holds(o, n) /\ Exists(n) /\ locks[n].owner # o
            => held[o][n].token < locks[n].token

\* acquire_lock never hands out a token that is not above every earlier one,
\* not even after the row was released or has expired.
TokensIncrease ==
    [][\A g \in granted' \ granted : \A h \in granted : h.token < g.token]_vars
=============================================================================
