--------------------------- MODULE Stores_proofs ----------------------------
(***************************************************************************)
(* What the Controller stores for its clients. The key/value locks, for    *)
(* any owners, names and leases.                                           *)
(*                                                                         *)
(* DeployTokens. KeysKept and TokenRules, for any services, tokens,        *)
(* clients, keys and retention time.                                       *)
(*                                                                         *)
(* A request that is being accepted holds the mutex, so that what was      *)
(* found out about it with the mutex still holds when it is committed: its *)
(* key is not known and its token is bound to its target (CallFine). An    *)
(* operation that is stored agrees with what was accepted, and with the    *)
(* token of its principal, which keeps its service (OpFine); one that is   *)
(* no longer stored was accepted a retention time ago (Forgotten).         *)
(***************************************************************************)
EXTENDS KvLocks, FiniteSetTheorems, TLAPS

-----------------------------------------------------------------------------
(* Fencing, whatever the owners do *)

\* A token t that o holds, or is about to learn it holds, for n.
Fenced(o, n, t) ==
    /\ t <= next_fencing_token
    /\ t # 0 /\ Exists(n) /\ locks[n].owner # o => t < locks[n].token

GrantReply(m) == m.kind = "reply" /\ m.op = "acquire" /\ m.ok

FenceInv ==
    /\ TypeOK
    /\ \A n \in Names : Exists(n) => locks[n].token <= next_fencing_token
    /\ \A g \in granted : g.token <= next_fencing_token
    /\ \A o \in Owners, n \in Names : Fenced(o, n, held[o][n].token)
    /\ \A m \in msgs : GrantReply(m) => Fenced(m.owner, m.name, m.token)

-----------------------------------------------------------------------------
(* Mutual exclusion, for owners that do not overlap their requests *)

\* The row of n is o's, under token t, and lasts at least until d.
Backed(o, n, t, d) ==
    Exists(n) /\ locks[n].owner = o /\ locks[n].token = t /\ d <= locks[n].until

OneMessage ==
    \A m1, m2 \in msgs : m1.owner = m2.owner /\ m1.name = m2.name => m1 = m2

\* No row, and no row seen by a request of its owner, outlasts a fresh lease.
LeaseBound ==
    /\ \A n \in Names : Exists(n) => locks[n].until <= now + Lease[locks[n].owner]
    /\ \A m \in msgs : m.kind = "request" =>
          /\ m.at <= now
          /\ Exists(m.name) /\ locks[m.name].owner = m.owner
                => locks[m.name].until <= m.at + Lease[m.owner]

BeliefsBacked ==
    /\ \A o \in Owners, n \in Names :
          Believes(o, n) => Backed(o, n, held[o][n].token, held[o][n].until)
    /\ \A m \in msgs :
          m.kind = "reply" /\ m.op \in {"acquire", "renew"} /\ m.ok /\ now < m.until
             => Backed(m.owner, m.name, m.token, m.until)

ReleasingDoesNotHold ==
    \A m \in msgs : m.kind = "request" /\ m.op = "release"
                      => held[m.owner][m.name] = NotHeld

ExclusionInv == TypeOK /\ OneMessage /\ LeaseBound /\ BeliefsBacked /\ ReleasingDoesNotHold
-----------------------------------------------------------------------------
(* Type correctness *)

\* The empty table is well typed.
LEMMA InitType == Init => TypeOK
  BY LeaseAssumption DEF Init, TypeOK, NotHeld, NoLock

\* An answer replaces a request by a well-formed reply.
LEMMA AnswerType ==
    ASSUME TypeOK, NEW r \in Request, NEW token \in Nat, NEW until \in Nat,
           NEW ok \in BOOLEAN, Answer(r, token, until, ok)
    PROVE  msgs' \subseteq (Request \cup Reply)
  BY DEF TypeOK, Answer, Request, Reply

\* Every step of the lock service and its clients keeps the types.
LEMMA NextType == TypeOK /\ [Next]_vars => TypeOK'
<1> SUFFICES ASSUME TypeOK, [Next]_vars PROVE TypeOK'
  BY Zenon
<1> USE LeaseAssumption DEF TypeOK
<1>1. ASSUME NEW o \in Owners, NEW n \in Names, Acquire(o, n) PROVE TypeOK'
  BY <1>1 DEF Acquire, Send, Request, Ops
<1>2. ASSUME NEW o \in Owners, NEW n \in Names, Renew(o, n) PROVE TypeOK'
  BY <1>2 DEF Renew, Send, Request, Ops
<1>3. ASSUME NEW o \in Owners, NEW n \in Names, Release(o, n) PROVE TypeOK'
  BY <1>3 DEF Release, Send, Request, Ops, NotHeld
<1>4. ASSUME NEW r \in msgs, r.kind = "request", ExecuteAcquire(r) PROVE TypeOK'
  <2>1. r \in Request
    BY Zenon, <1>4 DEF Request, Reply
  <2>2. CASE AcquireBusy(r.owner, r.name, r.at) /\ Answer(r, 0, 0, FALSE)
             /\ UNCHANGED <<locks, next_fencing_token, granted>>
    <3>1. msgs' \subseteq (Request \cup Reply)
      BY Zenon, <2>1, <2>2, AnswerType
    <3> QED
      BY Zenon, <1>4, <2>2, <3>1 DEF ExecuteAcquire
  <2>3. CASE AcquireAgain(r.owner, r.name, r.at)
             /\ Answer(r, locks'[r.name].token, locks'[r.name].until, TRUE)
    <3>1. locks[r.name] \in Row
      BY <2>1, <2>3 DEF AcquireAgain, Live, Exists, NoLock, Request
    <3>2. locks'[r.name] \in Row /\ locks' \in [Names -> Row \cup {NoLock}]
      <4>1. r.name \in Names /\ LeaseDeadline(r.owner, r.at) \in Nat
        BY <2>1 DEF LeaseDeadline, Request
      <4>2. [locks[r.name] EXCEPT !.until = LeaseDeadline(r.owner, r.at)] \in Row
        BY Zenon, <3>1, <4>1 DEF Row
      <4> QED
        BY Zenon, <2>3, <4>1, <4>2 DEF AcquireAgain
    <3>3. msgs' \subseteq (Request \cup Reply)
      BY Zenon, <2>1, <2>3, <3>2, AnswerType DEF Row
    <3> QED
      BY Zenon, <1>4, <2>3, <3>2, <3>3 DEF ExecuteAcquire, AcquireAgain
  <2>4. CASE AcquireFree(r.owner, r.name, r.at)
             /\ Answer(r, locks'[r.name].token, locks'[r.name].until, TRUE)
    <3>2. locks'[r.name] \in Row /\ locks' \in [Names -> Row \cup {NoLock}]
      BY <2>1, <2>4 DEF AcquireFree, LeaseDeadline, Row, Request
    <3>3. granted' \subseteq Grant
      BY <2>1, <2>4 DEF AcquireFree, Grant, Request
    <3>4. msgs' \subseteq (Request \cup Reply)
      BY Zenon, <2>1, <2>4, <3>2, AnswerType DEF Row
    <3> QED
      BY <1>4, <2>4, <3>2, <3>3, <3>4 DEF ExecuteAcquire, AcquireFree
  <2> QED
    BY Zenon, <1>4, <2>2, <2>3, <2>4 DEF ExecuteAcquire
<1>5. ASSUME NEW r \in msgs, r.kind = "request", ExecuteRenew(r) PROVE TypeOK'
  <2>1. r \in Request
    BY Zenon, <1>5 DEF Request, Reply
  <2>2. locks' \in [Names -> Row \cup {NoLock}]
    BY <1>5, <2>1 DEF ExecuteRenew, RenewMatches, Live, Exists, NoLock, LeaseDeadline, Row, Request
  <2>3. RenewMatches(r) \in BOOLEAN
    BY Zenon DEF RenewMatches
  <2>4. msgs' \subseteq (Request \cup Reply)
    <3>1. LeaseDeadline(r.owner, r.at) \in Nat /\ r.token \in Nat
      BY <2>1 DEF LeaseDeadline, Request
    <3> QED
      BY <1>5, <2>1, <2>3, <3>1, AnswerType DEF ExecuteRenew
  <2> QED
    BY Zenon, <1>5, <2>2, <2>4 DEF ExecuteRenew
<1>6. ASSUME NEW r \in msgs, r.kind = "request", ExecuteRelease(r) PROVE TypeOK'
  <2>1. r \in Request
    BY Zenon, <1>6 DEF Request, Reply
  <2>2. locks' \in [Names -> Row \cup {NoLock}]
    BY Zenon, <1>6, <2>1 DEF ExecuteRelease, Request
  <2>3. ReleaseMatches(r) \in BOOLEAN
    BY Zenon DEF ReleaseMatches
  <2>4. msgs' \subseteq (Request \cup Reply)
    BY <1>6, <2>1, <2>3, AnswerType DEF ExecuteRelease, Request
  <2> QED
    BY Zenon, <1>6, <2>2, <2>4 DEF ExecuteRelease
<1>7. ASSUME NEW m \in msgs, Receive(m) PROVE TypeOK'
  <2>1. m \in Reply
    BY Zenon, <1>7 DEF Receive, Request, Reply
  <2>2. held' \in [Owners -> [Names -> [token : Nat, until : Nat]]]
    BY Zenon, <1>7, <2>1 DEF Receive, Reply, NotHeld
  <2> QED
    BY Zenon, <1>7, <2>2 DEF Receive
<1>8. ASSUME NEW m \in msgs, Lose(m) PROVE TypeOK'
  BY Zenon, <1>8 DEF Lose
<1>9. ASSUME NEW o \in Owners, Crash(o) PROVE TypeOK'
  BY Zenon, <1>9 DEF Crash, NotHeld
<1>10. CASE Tick
  BY <1>10 DEF Tick
<1>11. CASE UNCHANGED vars
  BY Zenon, <1>11 DEF vars
<1> QED
  BY Zenon, <1>1, <1>2, <1>3, <1>4, <1>5, <1>6, <1>7, <1>8, <1>9, <1>10, <1>11 DEF Next

\* Every reachable state of the lock service and its clients is well-typed.
THEOREM TypeCorrect == Spec => []TypeOK
  BY InitType, NextType, PTL DEF Spec

-----------------------------------------------------------------------------
(* Proofs of fencing *)

\* Nobody holds a token at the start.
LEMMA InitFence == Init => FenceInv
  BY InitType DEF Init, FenceInv, Fenced, NotHeld, NoLock, Exists

\* A token stays fenced when rows and the counter do not change.
LEMMA FencedUnchanged ==
    ASSUME UNCHANGED <<locks, next_fencing_token>>, NEW o, NEW n, NEW t, Fenced(o, n, t)
    PROVE  Fenced(o, n, t)'
  BY Zenon DEF Fenced, Exists

\* What a granted acquisition, a renewal or a release makes of a row: it goes,
\* it keeps owner and token, or it gets the next token.
LEMMA RowStep ==
    ASSUME TypeOK, NEW r \in Request,
           \/ AcquireAgain(r.owner, r.name, r.at)
           \/ AcquireFree(r.owner, r.name, r.at)
           \/ ExecuteRenew(r)
           \/ ExecuteRelease(r),
           NEW n \in Names
    PROVE  /\ next_fencing_token' \in {next_fencing_token, next_fencing_token + 1}
           /\ \/ ~Exists(n)'
              \/ /\ Exists(n)
                 /\ locks'[n].owner = locks[n].owner /\ locks'[n].token = locks[n].token
              \/ /\ locks'[n].token = next_fencing_token + 1
                 /\ next_fencing_token' = next_fencing_token + 1
<1>1. r.name \in Names /\ locks \in [Names -> Row \cup {NoLock}]
  BY Zenon DEF Request, TypeOK
<1>2. CASE AcquireAgain(r.owner, r.name, r.at)
  <2>1. locks' = [locks EXCEPT ![r.name].until = LeaseDeadline(r.owner, r.at)]
        /\ next_fencing_token' = next_fencing_token
    BY Zenon, <1>2 DEF AcquireAgain
  <2>2. Exists(r.name)
    BY Zenon, <1>2 DEF AcquireAgain, Live
  <2>3. locks[r.name] \in Row
    BY <1>1, <2>2 DEF Exists, NoLock
  <2> QED
    BY Zenon, <1>1, <2>1, <2>2, <2>3 DEF Exists, Row
<1>3. CASE AcquireFree(r.owner, r.name, r.at)
  BY Zenon, <1>1, <1>3 DEF AcquireFree, Exists
<1>4. CASE ExecuteRenew(r)
  <2>1. next_fencing_token' = next_fencing_token
    BY Zenon, <1>4 DEF ExecuteRenew
  <2>2. CASE locks' = locks
    BY Zenon, <2>1, <2>2 DEF Exists
  <2>3. CASE RenewMatches(r)
    <3>1. locks' = [locks EXCEPT ![r.name].until = LeaseDeadline(r.owner, r.at)]
      BY Zenon, <1>4, <2>3 DEF ExecuteRenew
    <3>2. Exists(r.name)
      BY Zenon, <2>3 DEF RenewMatches, Live
    <3>3. locks[r.name] \in Row
      BY <1>1, <3>2 DEF Exists, NoLock
    <3> QED
      BY Zenon, <1>1, <2>1, <3>1, <3>2, <3>3 DEF Exists, Row
  <2> QED
    BY Zenon, <1>4, <2>2, <2>3 DEF ExecuteRenew
<1>5. CASE ExecuteRelease(r)
  <2>1. locks' \in {locks, [locks EXCEPT ![r.name] = NoLock]}
        /\ next_fencing_token' = next_fencing_token
    BY Zenon, <1>5 DEF ExecuteRelease
  <2> QED
    BY <1>1, <2>1 DEF Exists, NoLock
<1> QED
  BY Zenon, <1>2, <1>3, <1>4, <1>5

\* Such a step keeps every token of another owner below the row's: the one
\* that raises a row's token takes a token above all.
LEMMA FencedKept ==
    ASSUME FenceInv, TypeOK', NEW r \in Request,
           \/ AcquireAgain(r.owner, r.name, r.at)
           \/ AcquireFree(r.owner, r.name, r.at)
           \/ ExecuteRenew(r)
           \/ ExecuteRelease(r),
           NEW o \in Owners, NEW n \in Names, NEW t \in Nat, Fenced(o, n, t)
    PROVE  Fenced(o, n, t)'
<1>1. TypeOK /\ next_fencing_token \in Nat /\ t <= next_fencing_token
  BY Zenon DEF FenceInv, TypeOK, Fenced
<1>2. t <= next_fencing_token'
  BY <1>1, RowStep
<1>3. t # 0 /\ Exists(n)' /\ locks'[n].owner # o => t < locks'[n].token
  BY <1>1, RowStep DEF Fenced
<1> QED
  BY Zenon, <1>2, <1>3 DEF Fenced, Exists

\* Steps that leave the table alone: messages and beliefs move, and a belief
\* comes only from a grant reply, from a renewal of the same token, or is none.
LEMMA FenceQuiet ==
    ASSUME FenceInv, TypeOK', UNCHANGED <<locks, next_fencing_token, granted>>,
           \A m \in msgs' : GrantReply(m) => m \in msgs,
           \A o \in Owners, n \in Names :
              \/ held'[o][n].token \in {0, held[o][n].token}
              \/ \E m \in msgs : GrantReply(m) /\ m.owner = o /\ m.name = n
                                 /\ held'[o][n].token = m.token
    PROVE  FenceInv'
<1>1. ASSUME NEW o \in Owners, NEW n \in Names PROVE Fenced(o, n, held[o][n].token)'
  <2>1. Fenced(o, n, held'[o][n].token)
    <3>1. CASE held'[o][n].token = 0
      BY <3>1 DEF Fenced, FenceInv, TypeOK
    <3> QED
      BY <3>1 DEF FenceInv
  <2> QED
    BY Zenon, <2>1 DEF Fenced, Exists
<1>2. ASSUME NEW m \in msgs', GrantReply(m) PROVE Fenced(m.owner, m.name, m.token)'
  BY Zenon, <1>2 DEF FenceInv, Fenced, Exists
<1>3. \A n \in Names : (Exists(n) => locks[n].token <= next_fencing_token)'
  BY Zenon DEF FenceInv, Exists
<1>4. (\A g \in granted : g.token <= next_fencing_token)'
  BY Zenon DEF FenceInv
<1> QED
  BY Zenon, <1>1, <1>2, <1>3, <1>4 DEF FenceInv, GrantReply

\* A granted acquisition, a renewal and a release.
LEMMA FenceExecute ==
    ASSUME FenceInv, TypeOK', NEW r \in Request,
           \/ AcquireAgain(r.owner, r.name, r.at)
           \/ AcquireFree(r.owner, r.name, r.at)
           \/ ExecuteRenew(r)
           \/ ExecuteRelease(r),
           held' = held,
           \A m \in msgs' \ msgs : GrantReply(m) =>
               /\ AcquireAgain(r.owner, r.name, r.at) \/ AcquireFree(r.owner, r.name, r.at)
               /\ m.owner = r.owner /\ m.name = r.name /\ m.token = locks'[r.name].token
    PROVE  FenceInv'
<1>1. (\A n \in Names : Exists(n) => locks[n].token <= next_fencing_token)'
  <2> SUFFICES ASSUME NEW n \in Names, Exists(n)'
               PROVE  locks'[n].token <= next_fencing_token'
    BY Zenon DEF Exists
  <2>1. TypeOK /\ next_fencing_token \in Nat
    BY Zenon DEF FenceInv, TypeOK
  <2>2. Exists(n) => locks[n].token <= next_fencing_token /\ locks[n].token \in Nat
    BY <2>1 DEF FenceInv, TypeOK, Row, NoLock
  <2> QED
    BY <2>1, <2>2, RowStep
<1>2. (\A g \in granted : g.token <= next_fencing_token)'
  BY DEF FenceInv, TypeOK, AcquireAgain, AcquireFree, ExecuteRenew, ExecuteRelease, Grant
<1>3. ASSUME NEW o \in Owners, NEW n \in Names PROVE Fenced(o, n, held[o][n].token)'
  <2>1. held[o][n].token \in Nat /\ Fenced(o, n, held[o][n].token)
    BY Zenon DEF FenceInv, TypeOK
  <2>2. PICK t \in Nat : t = held[o][n].token
    BY Zenon, <2>1
  <2>3. Fenced(o, n, t)'
    BY Zenon, <2>1, <2>2, FencedKept
  <2> QED
    BY Zenon, <2>2, <2>3 DEF Fenced
<1>4. ASSUME NEW m \in msgs', GrantReply(m) PROVE Fenced(m.owner, m.name, m.token)'
  <2>1. m.owner \in Owners /\ m.name \in Names /\ m.token \in Nat
    BY Zenon, <1>4 DEF TypeOK, Request, Reply
  <2>2. CASE m \in msgs
    BY Zenon, <1>4, <2>1, <2>2, FencedKept DEF FenceInv
  <2>3. CASE m \notin msgs
    BY <1>1, <1>4, <2>1, <2>3 DEF Fenced, AcquireAgain, AcquireFree, Live, Exists,
       FenceInv, TypeOK, Row, Request, NoLock
  <2> QED
    BY Zenon, <2>2, <2>3
<1> QED
  BY Zenon, <1>1, <1>2, <1>3, <1>4 DEF FenceInv, GrantReply

\* Every step preserves the fencing invariant: acquire_lock draws tokens from one counter.
LEMMA NextFence == FenceInv /\ [Next]_vars => FenceInv'
<1> SUFFICES ASSUME FenceInv, [Next]_vars PROVE FenceInv'
  BY Zenon
<1>0. TypeOK /\ TypeOK'
  BY Zenon, NextType DEF FenceInv
<1>1. ASSUME NEW o \in Owners, NEW n \in Names, Acquire(o, n) PROVE FenceInv'
  BY <1>0, <1>1, FenceQuiet DEF Acquire, Send, GrantReply
<1>2. ASSUME NEW o \in Owners, NEW n \in Names, Renew(o, n) PROVE FenceInv'
  BY <1>0, <1>2, FenceQuiet DEF Renew, Send, GrantReply
<1>3. ASSUME NEW o \in Owners, NEW n \in Names, Release(o, n) PROVE FenceInv'
  <2>1. \A p \in Owners, q \in Names : held'[p][q].token \in {0, held[p][q].token}
    BY Zenon, <1>0, <1>3 DEF Release, NotHeld, TypeOK
  <2> QED
    BY <1>0, <1>3, <2>1, FenceQuiet DEF Release, Send, GrantReply
<1>4. ASSUME NEW r \in msgs, r.kind = "request", ExecuteAcquire(r) PROVE FenceInv'
  <2>1. r \in Request
    BY Zenon, <1>0, <1>4 DEF TypeOK, Request, Reply
  <2>2. CASE Answer(r, 0, 0, FALSE) /\ UNCHANGED <<locks, next_fencing_token, granted>>
    BY <1>0, <1>4, <2>2, FenceQuiet DEF ExecuteAcquire, Answer, GrantReply
  <2>3. CASE /\ AcquireAgain(r.owner, r.name, r.at) \/ AcquireFree(r.owner, r.name, r.at)
             /\ Answer(r, locks'[r.name].token, locks'[r.name].until, TRUE)
    <3>1. held' = held
      BY Zenon, <1>4 DEF ExecuteAcquire
    <3>2. \A m \in msgs' \ msgs :
             m.owner = r.owner /\ m.name = r.name /\ m.token = locks'[r.name].token
      BY <2>3 DEF Answer
    <3> QED
      BY Zenon, <1>0, <2>1, <2>3, <3>1, <3>2, FenceExecute
  <2> QED
    BY Zenon, <1>4, <2>2, <2>3 DEF ExecuteAcquire
<1>5. ASSUME NEW r \in msgs, r.kind = "request", ExecuteRenew(r) PROVE FenceInv'
  <2>1. r \in Request
    BY Zenon, <1>0, <1>5 DEF TypeOK, Request, Reply
  <2>2. held' = held /\ \A m \in msgs' \ msgs : ~GrantReply(m)
    BY <1>5 DEF ExecuteRenew, Answer, GrantReply
  <2> QED
    BY Zenon, <1>0, <1>5, <2>1, <2>2, FenceExecute
<1>6. ASSUME NEW r \in msgs, r.kind = "request", ExecuteRelease(r) PROVE FenceInv'
  <2>1. r \in Request
    BY Zenon, <1>0, <1>6 DEF TypeOK, Request, Reply
  <2>2. held' = held /\ \A m \in msgs' \ msgs : ~GrantReply(m)
    BY <1>6 DEF ExecuteRelease, Answer, GrantReply
  <2> QED
    BY Zenon, <1>0, <1>6, <2>1, <2>2, FenceExecute
<1>7. ASSUME NEW m \in msgs, Receive(m) PROVE FenceInv'
  <2>1. m \in Reply
    BY Zenon, <1>0, <1>7 DEF Receive, TypeOK, Request, Reply
  <2>2. ASSUME NEW o \in Owners, NEW n \in Names
        PROVE  \/ held'[o][n].token \in {0, held[o][n].token}
               \/ GrantReply(m) /\ m.owner = o /\ m.name = n /\ held'[o][n].token = m.token
    <3>1. \/ held' = held
          \/ held' = [held EXCEPT ![m.owner][m.name] = NotHeld]
          \/ /\ held' = [held EXCEPT ![m.owner][m.name] = [token |-> m.token, until |-> m.until]]
             /\ GrantReply(m) \/ m.token = held[m.owner][m.name].token
      BY Zenon, <1>7 DEF Receive, GrantReply
    <3>2. held'[o][n] = held[o][n] \/ (o = m.owner /\ n = m.name)
      BY <1>0, <3>1 DEF TypeOK
    <3>3. CASE o = m.owner /\ n = m.name
      <4>1. \/ held'[o][n] = held[o][n]
            \/ held'[o][n] = NotHeld
            \/ /\ held'[o][n] = [token |-> m.token, until |-> m.until]
               /\ GrantReply(m) \/ m.token = held[o][n].token
        BY <1>0, <3>1, <3>3 DEF TypeOK
      <4> QED
        BY SMTT(30), <3>3, <4>1 DEF NotHeld
    <3> QED
      BY Zenon, <3>2, <3>3
  <2>3. UNCHANGED <<locks, next_fencing_token, granted>> /\ msgs' = msgs \ {m}
    BY Zenon, <1>7 DEF Receive
  <2>4. \A x \in msgs' : GrantReply(x) => x \in msgs
    BY Zenon, <2>3
  <2> QED
    BY <1>0, <2>2, <2>3, <2>4, FenceQuiet
<1>8. ASSUME NEW m \in msgs, Lose(m) PROVE FenceInv'
  BY Zenon, <1>0, <1>8, FenceQuiet DEF Lose
<1>9. ASSUME NEW o \in Owners, Crash(o) PROVE FenceInv'
  <2>1. \A p \in Owners, q \in Names : held'[p][q].token \in {0, held[p][q].token}
    BY Zenon, <1>0, <1>9 DEF Crash, NotHeld, TypeOK
  <2> QED
    BY Zenon, <1>0, <1>9, <2>1, FenceQuiet DEF Crash
<1>10. CASE Tick
  BY Zenon, <1>0, <1>10, FenceQuiet DEF Tick
<1>11. CASE UNCHANGED vars
  BY Zenon, <1>0, <1>11, FenceQuiet DEF vars
<1> QED
  BY Zenon, <1>1, <1>2, <1>3, <1>4, <1>5, <1>6, <1>7, <1>8, <1>9, <1>10, <1>11 DEF Next

\* The fencing invariant holds throughout.
LEMMA FenceInvariant == Spec => []FenceInv
  BY InitFence, NextFence, PTL DEF Spec

\* Whatever the owners send, repeat or delay, an owner whose lock went to
\* another holds a token below the row's.
THEOREM Fencing == Spec => []StaleHolderIsFenced
<1>1. FenceInv => StaleHolderIsFenced
  BY Zenon DEF FenceInv, StaleHolderIsFenced, Fenced, Holds
<1> QED
  BY <1>1, FenceInvariant, PTL

\* acquire_lock hands out each new token above all the earlier ones.
THEOREM TokensGrow == Spec => TokensIncrease
<1> DEFINE Above == \A g \in granted' \ granted : \A h \in granted : h.token < g.token
<1>1. FenceInv /\ [Next]_vars => [Above]_vars
  <2> SUFFICES ASSUME FenceInv, [Next]_vars PROVE Above \/ UNCHANGED vars
    BY Zenon
  <2>1. CASE granted' = granted
    BY Zenon, <2>1
  <2>2. ASSUME NEW r \in msgs, AcquireFree(r.owner, r.name, r.at) PROVE Above
    BY <2>2 DEF AcquireFree, FenceInv, TypeOK, Grant
  <2> QED
    BY Zenon, <2>1, <2>2 DEF Next, vars, Acquire, Renew, Release, ExecuteAcquire, ExecuteRenew,
       ExecuteRelease, AcquireAgain, Receive, Lose, Crash, Tick
<1> QED
  BY <1>1, FenceInvariant, PTL DEF Spec, TokensIncrease

-----------------------------------------------------------------------------
(* Proofs of mutual exclusion *)

\* Nobody believes to hold a lock at the start.
LEMMA InitExclusion == Init => ExclusionInv
  BY InitType DEF Init, ExclusionInv, OneMessage, LeaseBound, BeliefsBacked,
     ReleasingDoesNotHold, Believes, Holds, NotHeld, NoLock, Exists

\* A request leaves: it is the owner's only one, and it reads the clock last.
LEMMA SendExclusion ==
    ASSUME ExclusionInv, TypeOK', ~Overlap, NEW op \in Ops, NEW o \in Owners, NEW n \in Names,
           NEW token \in Nat, Send(op, o, n, token),
           UNCHANGED <<now, locks, next_fencing_token>>,
           \/ held' = held /\ op # "release"
           \/ held' = [held EXCEPT ![o][n] = NotHeld]
    PROVE  ExclusionInv'
<1>1. OneMessage'
  BY DEF ExclusionInv, OneMessage, Send, Pending
<1>2. LeaseBound'
  BY DEF ExclusionInv, TypeOK, LeaseBound, Send, Exists
<1>3. \A p \in Owners, q \in Names : held'[p][q] \in {NotHeld, held[p][q]}
  BY DEF ExclusionInv, TypeOK
<1>4. BeliefsBacked'
  <2>1. \A m \in msgs' : m.kind = "reply" => m \in msgs
    BY DEF Send
  <2> QED
    BY <1>3, <2>1 DEF ExclusionInv, BeliefsBacked, Backed, Believes, Holds, Exists, NotHeld
<1>5. ReleasingDoesNotHold'
  <2>1. op = "release" => held'[o][n] = NotHeld
    BY DEF ExclusionInv, TypeOK
  <2> QED
    BY <1>3, <2>1 DEF ExclusionInv, ReleasingDoesNotHold, Send, TypeOK, Request, Reply
<1> QED
  BY Zenon, <1>1, <1>2, <1>4, <1>5 DEF ExclusionInv

\* A message or a belief goes away, or time passes: nothing has to be shown anew.
LEMMA QuietExclusion ==
    ASSUME ExclusionInv, TypeOK', msgs' \subseteq msgs, locks' = locks, now' >= now,
           \A o \in Owners, n \in Names : held'[o][n] \in {NotHeld, held[o][n]}
    PROVE  ExclusionInv'
<1>1. OneMessage' /\ ReleasingDoesNotHold'
  BY Zenon DEF ExclusionInv, OneMessage, ReleasingDoesNotHold, TypeOK, Request, Reply
<1>2. LeaseBound'
  <2>1. ASSUME NEW n \in Names, Exists(n)'
        PROVE  locks'[n].until <= now' + Lease[locks'[n].owner]
    <3>1. locks[n] \in Row
      BY <2>1 DEF ExclusionInv, TypeOK, NoLock, Exists
    <3>2. Lease[locks[n].owner] \in Nat
      BY Zenon, <3>1, LeaseAssumption DEF Row
    <3>3. locks[n].until <= now + Lease[locks[n].owner]
      BY Zenon, <2>1 DEF ExclusionInv, LeaseBound, Exists
    <3> QED
      BY <3>1, <3>2, <3>3 DEF ExclusionInv, TypeOK, Row
  <2>2. ASSUME NEW m \in msgs', m.kind = "request"
        PROVE  /\ m.at <= now'
               /\ Exists(m.name)' /\ locks'[m.name].owner = m.owner
                    => locks'[m.name].until <= m.at + Lease[m.owner]
    <3>1. m \in Request
      BY Zenon, <2>2 DEF ExclusionInv, TypeOK, Request, Reply
    <3>2. m \in msgs /\ m.at <= now
      BY Zenon, <2>2 DEF ExclusionInv, LeaseBound
    <3>3. m.at <= now'
      BY <3>1, <3>2 DEF ExclusionInv, TypeOK, Request
    <3> QED
      BY Zenon, <2>2, <3>2, <3>3 DEF ExclusionInv, LeaseBound, Exists
  <2> QED
    BY Zenon, <2>1, <2>2 DEF LeaseBound
<1>3. BeliefsBacked'
  <2>1. ASSUME NEW o \in Owners, NEW n \in Names, Believes(o, n)'
        PROVE  Backed(o, n, held[o][n].token, held[o][n].until)'
    <3>1. held'[o][n] = held[o][n]
      BY <2>1 DEF Believes, Holds, NotHeld
    <3>2. Believes(o, n)
      BY <2>1, <3>1 DEF Believes, Holds, ExclusionInv, TypeOK
    <3> QED
      BY <3>1, <3>2 DEF ExclusionInv, BeliefsBacked, Backed, Exists
  <2>2. ASSUME NEW m \in msgs', m.kind = "reply", m.op \in {"acquire", "renew"}, m.ok,
               now' < m.until
        PROVE  Backed(m.owner, m.name, m.token, m.until)'
    <3>1. m \in Reply /\ now < m.until
      BY <2>2 DEF ExclusionInv, TypeOK, Request, Reply
    <3> QED
      BY Zenon, <2>2, <3>1 DEF ExclusionInv, BeliefsBacked, Backed, Exists
  <2> QED
    BY Zenon, <2>1, <2>2 DEF BeliefsBacked
<1> QED
  BY Zenon, <1>1, <1>2, <1>3 DEF ExclusionInv

\* A request that succeeded, or a refused one: its owner's only message for the
\* lock becomes the answer.
LEMMA AnswerExclusion ==
    ASSUME ExclusionInv, TypeOK', NEW r \in msgs, r \in Request, NEW token, NEW until, NEW ok,
           Answer(r, token, until, ok), UNCHANGED <<now, held>>,
           \* other locks are left alone, and no row outlasts a fresh lease
           \A n \in Names : n # r.name => locks'[n] = locks[n],
           Exists(r.name)' => locks'[r.name].until <= now + Lease[locks'[r.name].owner],
           \* what another owner's pending request will find
           Exists(r.name)' => locks'[r.name].owner = r.owner \/ locks'[r.name] = locks[r.name],
           \* whoever relied on the lock, or is about to, still may
           \A o \in Owners, t \in Nat, d \in Nat :
              now < d /\ Backed(o, r.name, t, d)
              /\ (o # r.owner \/ held[o][r.name] # NotHeld) => Backed(o, r.name, t, d)',
           ok /\ r.op \in {"acquire", "renew"} => Backed(r.owner, r.name, token, until)'
    PROVE  ExclusionInv'
<1> DEFINE new == [kind |-> "reply", op |-> r.op, owner |-> r.owner, name |-> r.name,
                   token |-> token, until |-> until, ok |-> ok]
<1>1. \A m \in msgs' : m = new \/ (m \in msgs /\ m # r)
  BY Zenon DEF Answer
<1>2. ASSUME NEW m \in msgs', m # new PROVE m.owner # r.owner \/ m.name # r.name
  BY Zenon, <1>1, <1>2 DEF ExclusionInv, OneMessage
<1>3. OneMessage'
  BY <1>1, <1>2 DEF ExclusionInv, OneMessage
<1>4. ReleasingDoesNotHold'
  BY <1>1 DEF ExclusionInv, ReleasingDoesNotHold
<1>5. LeaseBound'
  <2>1. ASSUME NEW n \in Names, Exists(n)'
        PROVE  locks'[n].until <= now' + Lease[locks'[n].owner]
    BY Zenon, <2>1 DEF ExclusionInv, LeaseBound, Exists
  <2>2. ASSUME NEW m \in msgs', m.kind = "request"
        PROVE  /\ m.at <= now'
               /\ Exists(m.name)' /\ locks'[m.name].owner = m.owner
                    => locks'[m.name].until <= m.at + Lease[m.owner]
    <3>1. m \in msgs /\ m # new /\ m.name \in Names
      BY <1>1, <2>2 DEF TypeOK, Request, Reply
    <3> QED
      BY ZenonT(40), <1>2, <2>2, <3>1 DEF ExclusionInv, LeaseBound, Exists
  <2> QED
    BY Zenon, <2>1, <2>2 DEF LeaseBound
<1>6. BeliefsBacked'
  <2>1. ASSUME NEW o \in Owners, NEW n \in Names, Believes(o, n)'
        PROVE  Backed(o, n, held[o][n].token, held[o][n].until)'
    <3>1. Believes(o, n) /\ held[o][n] # NotHeld /\ now < held[o][n].until
      BY <2>1 DEF Believes, Holds, NotHeld
    <3>2. Backed(o, n, held[o][n].token, held[o][n].until)
      BY Zenon, <3>1 DEF ExclusionInv, BeliefsBacked
    <3>3. held[o][n].token \in Nat /\ held[o][n].until \in Nat
      BY Zenon DEF ExclusionInv, TypeOK
    <3>4. PICK t \in Nat, d \in Nat : t = held[o][n].token /\ d = held[o][n].until
      BY Zenon, <3>3
    <3>5. Backed(o, n, t, d)'
      BY <3>1, <3>2, <3>4 DEF Backed, Exists
    <3> QED
      BY Zenon, <3>4, <3>5 DEF Backed
  <2>2. ASSUME NEW m \in msgs', m.kind = "reply", m.op \in {"acquire", "renew"}, m.ok,
               now' < m.until
        PROVE  Backed(m.owner, m.name, m.token, m.until)'
    <3>1. CASE m = new
      BY Zenon, <2>2, <3>1
    <3>2. CASE m # new
      <4>1. m \in msgs /\ m \in Reply
        BY Zenon, <1>1, <2>2, <3>2 DEF TypeOK, Request, Reply
      <4>2. Backed(m.owner, m.name, m.token, m.until)
        BY Zenon, <2>2, <4>1 DEF ExclusionInv, BeliefsBacked
      <4>3. CASE m.name = r.name
        BY Zenon, <1>2, <2>2, <3>2, <4>1, <4>2, <4>3 DEF Reply
      <4>4. CASE m.name # r.name
        BY Zenon, <4>1, <4>2, <4>4 DEF Backed, Exists, Reply
      <4> QED
        BY Zenon, <4>3, <4>4
    <3> QED
      BY Zenon, <3>1, <3>2
  <2> QED
    BY Zenon, <2>1, <2>2 DEF BeliefsBacked
<1> QED
  BY Zenon, <1>3, <1>4, <1>5, <1>6 DEF ExclusionInv

\* Every step preserves exclusion if an owner has one request open per lock.
LEMMA NextExclusion == ASSUME ~Overlap PROVE ExclusionInv /\ [Next]_vars => ExclusionInv'
<1> SUFFICES ASSUME ExclusionInv, [Next]_vars PROVE ExclusionInv'
  BY Zenon
<1>0. TypeOK /\ TypeOK'
  BY Zenon, NextType DEF ExclusionInv
<1>a. ASSUME NEW r \in msgs, r.kind = "request" PROVE r \in Request /\ r.at <= now
  BY Zenon, <1>0, <1>a DEF ExclusionInv, LeaseBound, TypeOK, Request, Reply
<1>1. ASSUME NEW o \in Owners, NEW n \in Names, Acquire(o, n) PROVE ExclusionInv'
  BY Zenon, <1>0, <1>1, SendExclusion DEF Acquire, Ops
<1>2. ASSUME NEW o \in Owners, NEW n \in Names, Renew(o, n) PROVE ExclusionInv'
  <2>1. held[o][n].token \in Nat
    BY Zenon, <1>0 DEF TypeOK
  <2> QED
    BY Zenon, <1>0, <1>2, <2>1, SendExclusion DEF Renew, Ops
<1>3. ASSUME NEW o \in Owners, NEW n \in Names, Release(o, n) PROVE ExclusionInv'
  <2>1. held[o][n].token \in Nat
    BY Zenon, <1>0 DEF TypeOK
  <2> QED
    BY Zenon, <1>0, <1>3, <2>1, SendExclusion DEF Release, Ops
<1>4. ASSUME NEW r \in msgs, r.kind = "request", ExecuteAcquire(r) PROVE ExclusionInv'
  <2>1. r \in Request /\ r.at <= now /\ r.at \in Nat /\ now \in Nat /\ UNCHANGED <<now, held>>
        /\ r.name \in Names /\ r.owner \in Owners /\ Lease[r.owner] \in Nat
    BY Zenon, <1>0, <1>4, <1>a, LeaseAssumption DEF ExecuteAcquire, TypeOK, Request
  <2>2. CASE Answer(r, 0, 0, FALSE) /\ locks' = locks
    <3>1. Exists(r.name) => locks[r.name].until <= now + Lease[locks[r.name].owner]
      BY Zenon, <2>1 DEF ExclusionInv, LeaseBound
    <3> QED
      BY Zenon, <1>0, <2>1, <2>2, <3>1, AnswerExclusion DEF Backed, Exists
  <2>3. CASE AcquireAgain(r.owner, r.name, r.at)
             /\ Answer(r, locks'[r.name].token, locks'[r.name].until, TRUE)
    <3>1. locks[r.name] \in Row /\ locks[r.name].owner = r.owner
          /\ locks[r.name].until <= r.at + Lease[r.owner]
      BY <1>0, <1>4, <2>1, <2>3 DEF AcquireAgain, Live, Exists, ExclusionInv, LeaseBound,
         TypeOK, NoLock
    <3>2. /\ locks'[r.name] = [locks[r.name] EXCEPT !.until = r.at + Lease[r.owner]]
          /\ \A n \in Names : n # r.name => locks'[n] = locks[n]
      BY Zenon, <1>0, <2>1, <2>3 DEF AcquireAgain, LeaseDeadline, TypeOK
    <3>3. /\ locks'[r.name].owner = r.owner
          /\ locks'[r.name].token = locks[r.name].token /\ locks[r.name].token # 0
          /\ locks'[r.name].until = r.at + Lease[r.owner]
      BY Zenon, <3>1, <3>2 DEF Row
    <3>4. \A o \in Owners, t \in Nat, d \in Nat :
             Backed(o, r.name, t, d) => Backed(o, r.name, t, d)'
      BY <2>1, <3>1, <3>3 DEF Backed, Exists, Row
    <3>5. locks'[r.name].token \in Nat /\ locks'[r.name].until \in Nat
      BY <1>0, <2>1, <3>3 DEF TypeOK, Row, NoLock
    <3>5a. PICK t \in Nat, d \in Nat : t = locks'[r.name].token /\ d = locks'[r.name].until
      BY Zenon, <3>5
    <3>5b. Backed(r.owner, r.name, t, d)'
      BY <3>3, <3>5a DEF Backed, Exists
    <3>5c. Answer(r, t, d, TRUE)
      BY Zenon, <2>3, <3>5a DEF Answer
    <3>5d. locks'[r.name].until <= now + Lease[locks'[r.name].owner]
      BY <2>1, <3>3
    <3> QED
      BY Zenon, <1>0, <2>1, <3>2, <3>3, <3>4, <3>5b, <3>5c, <3>5d, AnswerExclusion
  <2>4. CASE AcquireFree(r.owner, r.name, r.at)
             /\ Answer(r, locks'[r.name].token, locks'[r.name].until, TRUE)
    <3>1. ~Live(r.name, r.at)
      BY Zenon, <2>4 DEF AcquireFree
    <3>2. /\ \A n \in Names : n # r.name => locks'[n] = locks[n]
          /\ locks'[r.name].owner = r.owner /\ locks'[r.name].token # 0
          /\ locks'[r.name].until = r.at + Lease[r.owner]
      BY <1>0, <2>1, <2>4 DEF AcquireFree, LeaseDeadline, TypeOK
    <3>3. \A o \in Owners, t \in Nat, d \in Nat : ~(now < d /\ Backed(o, r.name, t, d))
      BY <1>0, <2>1, <3>1 DEF Backed, Live, Exists, TypeOK, Row, NoLock
    <3>4. locks'[r.name].token \in Nat /\ locks'[r.name].until \in Nat
      BY <1>0, <2>1, <3>2 DEF TypeOK, Row, NoLock
    <3>4a. PICK t \in Nat, d \in Nat : t = locks'[r.name].token /\ d = locks'[r.name].until
      BY Zenon, <3>4
    <3>4b. Backed(r.owner, r.name, t, d)'
      BY <3>2, <3>4a DEF Backed, Exists
    <3>4c. Answer(r, t, d, TRUE)
      BY Zenon, <2>4, <3>4a DEF Answer
    <3>4d. locks'[r.name].until <= now + Lease[locks'[r.name].owner]
      BY <2>1, <3>2
    <3> QED
      BY Zenon, <1>0, <2>1, <3>2, <3>3, <3>4b, <3>4c, <3>4d, AnswerExclusion
  <2> QED
    BY Zenon, <1>4, <2>2, <2>3, <2>4 DEF ExecuteAcquire
<1>5. ASSUME NEW r \in msgs, r.kind = "request", ExecuteRenew(r) PROVE ExclusionInv'
  <2>1. r \in Request /\ r.at <= now /\ r.at \in Nat /\ now \in Nat /\ UNCHANGED <<now, held>>
        /\ r.name \in Names /\ r.owner \in Owners /\ Lease[r.owner] \in Nat
    BY Zenon, <1>0, <1>5, <1>a, LeaseAssumption DEF ExecuteRenew, TypeOK, Request
  <2>2. CASE ~RenewMatches(r)
    <3>1. Exists(r.name) => locks[r.name].until <= now + Lease[locks[r.name].owner]
      BY Zenon, <2>1 DEF ExclusionInv, LeaseBound
    <3>2. locks' = locks /\ Answer(r, r.token, LeaseDeadline(r.owner, r.at), FALSE)
      <4>1. RenewMatches(r) = FALSE
        BY Zenon, <2>2 DEF RenewMatches
      <4> QED
        BY Zenon, <1>5, <4>1 DEF ExecuteRenew
    <3> QED
      BY Zenon, <1>0, <2>1, <3>1, <3>2, AnswerExclusion DEF Backed, Exists
  <2>3. CASE RenewMatches(r)
    <3>1. locks[r.name] \in Row /\ locks[r.name].owner = r.owner /\ locks[r.name].token = r.token
          /\ locks[r.name].until <= r.at + Lease[r.owner]
      <4>1. Exists(r.name) /\ locks[r.name].owner = r.owner /\ locks[r.name].token = r.token
        BY Zenon, <2>3 DEF RenewMatches, Live
      <4>2. locks[r.name] \in Row
        BY <1>0, <2>1, <4>1 DEF TypeOK, Exists, NoLock
      <4>3. locks[r.name].until <= r.at + Lease[r.owner]
        BY Zenon, <1>5, <4>1 DEF ExclusionInv, LeaseBound
      <4> QED
        BY Zenon, <4>1, <4>2, <4>3
    <3>2. /\ locks'[r.name] = [locks[r.name] EXCEPT !.until = r.at + Lease[r.owner]]
          /\ \A n \in Names : n # r.name => locks'[n] = locks[n]
      BY Zenon, <1>0, <1>5, <2>1, <2>3 DEF ExecuteRenew, LeaseDeadline, TypeOK
    <3>3. /\ locks'[r.name].owner = r.owner
          /\ locks'[r.name].token = r.token /\ r.token # 0
          /\ locks'[r.name].until = r.at + Lease[r.owner]
      BY Zenon, <3>1, <3>2 DEF Row
    <3>4. \A o \in Owners, t \in Nat, d \in Nat :
             Backed(o, r.name, t, d) => Backed(o, r.name, t, d)'
      BY <2>1, <3>1, <3>3 DEF Backed, Exists, Row
    <3>5. Backed(r.owner, r.name, r.token, LeaseDeadline(r.owner, r.at))'
      BY <2>1, <3>3 DEF Backed, Exists, LeaseDeadline
    <3>6. Answer(r, r.token, LeaseDeadline(r.owner, r.at), TRUE)
      <4>1. RenewMatches(r) = TRUE
        BY Zenon, <2>3 DEF RenewMatches
      <4> QED
        BY Zenon, <1>5, <4>1 DEF ExecuteRenew
    <3>7. locks'[r.name].until <= now + Lease[locks'[r.name].owner]
      BY <2>1, <3>3
    <3> QED
      BY Zenon, <1>0, <2>1, <3>2, <3>3, <3>4, <3>5, <3>6, <3>7, AnswerExclusion
  <2> QED
    BY Zenon, <2>2, <2>3
<1>6. ASSUME NEW r \in msgs, r.kind = "request", ExecuteRelease(r) PROVE ExclusionInv'
  <2>1. r \in Request /\ UNCHANGED <<now, held>> /\ r.name \in Names /\ r.op = "release"
        /\ held[r.owner][r.name] = NotHeld
    BY Zenon, <1>0, <1>6, <1>a DEF ExecuteRelease, Request, ExclusionInv, ReleasingDoesNotHold
  <2>2. Exists(r.name) => locks[r.name].until <= now + Lease[locks[r.name].owner]
    BY Zenon, <2>1 DEF ExclusionInv, LeaseBound
  <2>3. locks' \in {locks, [locks EXCEPT ![r.name] = NoLock]}
    BY Zenon, <1>6 DEF ExecuteRelease
  <2>4. /\ \A n \in Names : n # r.name => locks'[n] = locks[n]
        /\ Exists(r.name)' => locks'[r.name] = locks[r.name]
    BY <1>0, <2>1, <2>3 DEF Exists, NoLock, TypeOK
  <2>5. ASSUME NEW o \in Owners, NEW t \in Nat, NEW d \in Nat, Backed(o, r.name, t, d),
               o # r.owner
        PROVE  Backed(o, r.name, t, d)'
    BY Zenon, <1>6, <2>5 DEF ExecuteRelease, ReleaseMatches, Backed, Exists
  <2>6. PICK ok \in BOOLEAN : Answer(r, r.token, 0, ok)
    BY Zenon, <1>6 DEF ExecuteRelease, ReleaseMatches
  <2> QED
    BY Zenon, <1>0, <2>1, <2>2, <2>4, <2>5, <2>6, AnswerExclusion DEF Exists
<1>7. ASSUME NEW m \in msgs, Receive(m) PROVE ExclusionInv'
  <2>1. m \in Reply /\ m.owner \in Owners /\ m.name \in Names
    BY Zenon, <1>0, <1>7 DEF Receive, TypeOK, Request, Reply
  <2>2. CASE \A o \in Owners, n \in Names : held'[o][n] \in {NotHeld, held[o][n]}
    <3>1. msgs' \subseteq msgs /\ locks' = locks /\ now' = now
      BY Zenon, <1>7 DEF Receive
    <3>2. now' >= now
      BY <1>0, <3>1 DEF TypeOK
    <3> QED
      BY Zenon, <1>0, <2>2, <3>1, <3>2, QuietExclusion
  <2>3. CASE /\ m.op \in {"acquire", "renew"} /\ m.ok
             /\ held' = [held EXCEPT ![m.owner][m.name] =
                           [token |-> m.token, until |-> m.until]]
    <3>1. \A o \in Owners, n \in Names :
             (o # m.owner \/ n # m.name) => held'[o][n] = held[o][n]
      BY Zenon, <1>0, <2>3 DEF TypeOK
    <3>2. held'[m.owner][m.name] = [token |-> m.token, until |-> m.until]
      BY Zenon, <1>0, <2>1, <2>3 DEF TypeOK
    <3>3. msgs' = msgs \ {m} /\ UNCHANGED <<now, locks>>
      BY Zenon, <1>7 DEF Receive
    <3>4. OneMessage' /\ LeaseBound'
      BY Zenon, <3>3 DEF ExclusionInv, OneMessage, LeaseBound, Exists
    <3>5. ReleasingDoesNotHold'
      <4>1. ASSUME NEW x \in msgs', x.kind = "request", x.op = "release"
            PROVE  held'[x.owner][x.name] = NotHeld
        <5>1. x \in msgs /\ x # m
          BY Zenon, <3>3, <4>1
        <5>2. x.owner \in Owners /\ x.name \in Names
          BY Zenon, <1>0, <5>1 DEF TypeOK, Request, Reply
        <5>3. x.owner # m.owner \/ x.name # m.name
          BY Zenon, <5>1 DEF ExclusionInv, OneMessage
        <5>4. held[x.owner][x.name] = NotHeld
          BY Zenon, <4>1, <5>1 DEF ExclusionInv, ReleasingDoesNotHold
        <5> QED
          BY Zenon, <3>1, <5>2, <5>3, <5>4
      <4> QED
        BY Zenon, <4>1 DEF ReleasingDoesNotHold
    <3>6. now < m.until => Backed(m.owner, m.name, m.token, m.until)
      BY Zenon, <1>7, <2>3 DEF Receive, ExclusionInv, BeliefsBacked
    <3>7. BeliefsBacked'
      <4>1. ASSUME NEW o \in Owners, NEW n \in Names, Believes(o, n)'
            PROVE  Backed(o, n, held[o][n].token, held[o][n].until)'
        <5>1. CASE o = m.owner /\ n = m.name
          BY <3>2, <3>3, <3>6, <4>1, <5>1 DEF Believes, Backed, Exists
        <5>2. CASE o # m.owner \/ n # m.name
          BY <3>1, <3>3, <4>1, <5>2 DEF ExclusionInv, BeliefsBacked, Believes, Holds, Backed, Exists
        <5> QED
          BY Zenon, <5>1, <5>2
      <4>2. ASSUME NEW x \in msgs', x.kind = "reply", x.op \in {"acquire", "renew"}, x.ok,
                   now' < x.until
            PROVE  Backed(x.owner, x.name, x.token, x.until)'
        BY Zenon, <3>3, <4>2 DEF ExclusionInv, BeliefsBacked, Backed, Exists
      <4> QED
        BY Zenon, <4>1, <4>2 DEF BeliefsBacked
    <3> QED
      BY Zenon, <1>0, <3>4, <3>5, <3>7 DEF ExclusionInv
  <2> QED
    BY Zenon, <1>0, <1>7, <2>1, <2>2, <2>3 DEF Receive, TypeOK
<1>8. ASSUME NEW m \in msgs, Lose(m) PROVE ExclusionInv'
  BY <1>0, <1>8, QuietExclusion DEF Lose, TypeOK
<1>9. ASSUME NEW o \in Owners, Crash(o) PROVE ExclusionInv'
  <2>1. \A p \in Owners, q \in Names : held'[p][q] \in {NotHeld, held[p][q]}
    BY Zenon, <1>0, <1>9 DEF Crash, TypeOK
  <2> QED
    BY <1>0, <1>9, <2>1, QuietExclusion DEF Crash, TypeOK
<1>10. CASE Tick
  BY <1>0, <1>10, QuietExclusion DEF Tick, TypeOK
<1>11. CASE UNCHANGED vars
  BY <1>0, <1>11, QuietExclusion DEF vars, TypeOK
<1> QED
  BY Zenon, <1>1, <1>2, <1>3, <1>4, <1>5, <1>6, <1>7, <1>8, <1>9, <1>10, <1>11 DEF Next

\* Owners that wait for one request on a lock before sending the next never
\* rely on it at the same time: the Busy branch of acquire_lock, the deadline
\* and token tests of renew_lock and the token test of release_lock suffice,
\* whatever is lost or late.
THEOREM Exclusion == ASSUME ~Overlap PROVE Spec => []MutualExclusion
<1>1. ExclusionInv => MutualExclusion
  BY DEF ExclusionInv, BeliefsBacked, Backed, MutualExclusion
<1>2. ExclusionInv /\ [Next]_vars => ExclusionInv'
  BY Zenon, NextExclusion
<1> QED
  BY <1>1, <1>2, InitExclusion, PTL DEF Spec

(***************************************************************************)
(* The deploy tokens and the operations they start (DeployTokens).         *)
(***************************************************************************)
CONSTANTS Services, Tokens, Clients, Keys, Sources, Life, Retention, Wait, Horizon, MaxOps, MaxLost,
          Nothing

VARIABLES time, live, tokens, ops, inner, call, last, accepted, lost

DT == INSTANCE DeployTokens WITH now <- time, MaxTime <- Horizon

\* The accepted submissions, which number the operations, are counted with FiniteSets.
LEMMA SameCardinality == ASSUME NEW S PROVE DT!Cardinality(S) = Cardinality(S)
  BY Zenon DEF DT!Cardinality, Cardinality

TokenFields == {"service", "expires", "revoked", "secret"}
OpFields == {"principal", "key", "source", "service", "status", "revision", "created", "finished"}
RequestFields == {"pc", "token", "target", "key", "source"}

OpFine(o) ==
    /\ DOMAIN ops[o] = OpFields
    /\ ops[o].principal = accepted[o].principal /\ ops[o].key = accepted[o].key
    /\ ops[o].principal \in DOMAIN tokens /\ ops[o].service = tokens[ops[o].principal].service
    /\ ops[o].status = "over" => ops[o].finished \in Nat /\ ops[o].finished >= accepted[o].at

CallFine(c) ==
    /\ call[c].pc \in {"sent", "checked", "accepting"} => DOMAIN call[c] = RequestFields
    /\ call[c].pc = "accepting" =>
          /\ inner = c /\ DT!Known(call[c]) = {}
          /\ call[c].token \in DOMAIN tokens /\ tokens[call[c].token].service = call[c].target

Forgotten == \A o \in DOMAIN accepted \ DOMAIN ops : time - accepted[o].at >= Retention

TokenInv ==
    /\ time \in Nat /\ DOMAIN call = Clients
    /\ \A t \in DOMAIN tokens : DOMAIN tokens[t] = TokenFields
    /\ \E n \in Nat : DOMAIN accepted = 1..n
    /\ \A o \in DOMAIN accepted : accepted[o].at \in Nat /\ accepted[o].at <= time
    /\ DOMAIN ops \subseteq DOMAIN accepted /\ \A o \in DOMAIN ops : OpFine(o)
    /\ \A c \in Clients : CallFine(c)
    /\ Forgotten /\ DT!KeysKept

\* Nobody is a client who holds the mutex while it is free.
Apt == Nothing \notin Clients /\ Retention \in Int

\* The empty store has no operations to disagree with.
LEMMA InitTokens == DT!Init => TokenInv
  <1> SUFFICES ASSUME DT!Init PROVE TokenInv
    BY Zenon
  <1>1. DOMAIN accepted = {} /\ DOMAIN ops = {} /\ DOMAIN tokens = {}
    BY DEF DT!Init
  <1>2. 0 \in Nat /\ 1..0 = {}
    OBVIOUS
  <1>3. \A c \in Clients : CallFine(c)
    BY Zenon DEF DT!Init, CallFine, DT!Idle
  <1> QED  BY Zenon, <1>1, <1>2, <1>3 DEF DT!Init, TokenInv, Forgotten, DT!KeysKept

\* While the mutex is free, no request is between its checks and its commit.
LEMMA NoAccepting == ASSUME Apt, TokenInv, DT!Free PROVE \A c \in Clients : call[c].pc # "accepting"
  BY Zenon DEF Apt, TokenInv, CallFine, DT!Free

(***************************************************************************)
(* Steps of one request, of the tokens, and of the operations.             *)
(***************************************************************************)
\* A step that leaves the store alone.
LEMMA CallStep ==
  ASSUME TokenInv, UNCHANGED <<time, tokens, ops, accepted>>, DOMAIN call' = Clients,
         \A c \in Clients : CallFine(c)'
  PROVE  TokenInv'
  BY Zenon DEF TokenInv, OpFine, Forgotten, DT!KeysKept

\* A request is answered or gets on, short of being accepted.
LEMMA AnswerStep ==
  ASSUME TokenInv, NEW c \in Clients, NEW r, DT!Answer(c, r), UNCHANGED <<time, tokens, ops, accepted, inner>>,
         r.pc \in {"sent", "checked"} => DOMAIN r = RequestFields, r.pc # "accepting"
  PROVE  TokenInv'
  <1>1. DOMAIN call' = Clients /\ call'[c] = r /\ \A d \in Clients \ {c} : call'[d] = call[d]
    BY Zenon DEF DT!Answer, TokenInv
  <1>2. \A d \in Clients : CallFine(d)'
    BY <1>1 DEF TokenInv, CallFine, DT!Known
  <1> QED  BY Zenon, <1>1, <1>2, CallStep

\* A token keeps the service it is bound to.
LEMMA TokensStep ==
  ASSUME Apt, TokenInv, DT!Free, UNCHANGED <<time, ops, inner, call, accepted>>,
         DOMAIN tokens \subseteq DOMAIN tokens',
         \A t \in DOMAIN tokens' : DOMAIN tokens'[t] = TokenFields,
         \A t \in DOMAIN tokens : tokens'[t].service = tokens[t].service
  PROVE  TokenInv'
  <1>1. \A o \in DOMAIN ops : OpFine(o)'
    BY Zenon DEF TokenInv, OpFine
  <1>2. \A c \in Clients : CallFine(c)'
    BY Zenon, NoAccepting DEF TokenInv, CallFine
  <1> QED  BY Zenon, <1>1, <1>2 DEF TokenInv, Forgotten, DT!KeysKept

\* create_deploy_token: the other tokens are as they were.
LEMMA CreateKeeps == ASSUME Apt, TokenInv, NEW t, NEW s, DT!create_deploy_token(t, s) PROVE TokenInv'
  <1>1. DT!Free /\ UNCHANGED <<time, ops, inner, call, accepted>> /\ t \notin DOMAIN tokens
    BY Zenon DEF DT!create_deploy_token
  <1>2. PICK e : tokens' = [u \in DOMAIN tokens \union {t} |->
                   IF u = t THEN [service |-> s, expires |-> e, revoked |-> Nothing,
                   secret |-> TRUE] ELSE tokens[u]]
    BY Zenon DEF DT!create_deploy_token
  <1>3. /\ DOMAIN tokens' = DOMAIN tokens \union {t} /\ DOMAIN tokens'[t] = TokenFields
        /\ \A u \in DOMAIN tokens : tokens'[u] = tokens[u]
    BY Zenon, <1>1, <1>2 DEF TokenFields
  <1>4. \A u \in DOMAIN tokens' : DOMAIN tokens'[u] = TokenFields
    BY Zenon, <1>3 DEF TokenInv
  <1> QED  BY Zenon, <1>1, <1>3, <1>4, TokensStep

\* revoke_deploy_token: the row stays, with its service.
LEMMA RevokeKeeps == ASSUME Apt, TokenInv, NEW t, DT!revoke_deploy_token(t) PROVE TokenInv'
  <1>1. DT!Free /\ UNCHANGED <<time, ops, inner, call, accepted>> /\ t \in DOMAIN tokens
    BY Zenon DEF DT!revoke_deploy_token
  <1>2. DOMAIN tokens[t] = TokenFields
    BY Zenon, <1>1 DEF TokenInv
  <1>3. /\ DOMAIN tokens' = DOMAIN tokens /\ \A u \in DOMAIN tokens \ {t} : tokens'[u] = tokens[u]
        /\ DOMAIN tokens'[t] = TokenFields /\ tokens'[t].service = tokens[t].service
    BY Zenon, <1>1, <1>2 DEF DT!revoke_deploy_token, TokenFields
  <1>4. \A u \in DOMAIN tokens' : DOMAIN tokens'[u] = TokenFields /\ tokens'[u].service = tokens[u].service
    BY Zenon, <1>3 DEF TokenInv
  <1> QED  BY Zenon, <1>1, <1>3, <1>4, TokensStep

\* The requests that are not accepted, and the polls.
LEMMA RequestKeeps ==
  ASSUME TokenInv, NEW c \in Clients, DT!Call(c) \/ DT!submit(c) \/ DT!Lose(c) \/ DT!Poll(c)
                                                 \/ DT!get_service_operation(c)
  PROVE  TokenInv'
  <1>1. DT!Idle.pc = "idle"
    BY Zenon DEF DT!Idle
  <1>2. UNCHANGED <<time, tokens, ops, accepted, inner>>
    BY Zenon DEF DT!Call, DT!submit, DT!Lose, DT!Poll, DT!get_service_operation
  <1>3. CASE DT!Call(c)
    <2>1. PICK t, s, k, b : DT!Answer(c, [pc |-> "sent", token |-> t, target |-> s, key |-> k, source |-> b])
      BY Zenon, <1>3 DEF DT!Call
    <2> DEFINE r == [pc |-> "sent", token |-> t, target |-> s, key |-> k, source |-> b]
    <2>2. r.pc = "sent" /\ DOMAIN r = RequestFields /\ DT!Answer(c, r)
      BY Zenon, <2>1 DEF RequestFields
    <2> HIDE DEF r
    <2> QED  BY Zenon, <1>2, <2>2, AnswerStep
  <1>4. CASE DT!submit(c)
    <2>1. DOMAIN call[c] = RequestFields
      BY Zenon, <1>4 DEF DT!submit, TokenInv, CallFine
    <2> DEFINE r == [call[c] EXCEPT !.pc = "checked"]
    <2>2. r.pc = "checked" /\ DOMAIN r = RequestFields
      BY Zenon, <2>1 DEF RequestFields
    <2>3. DT!Answer(c, r) \/ DT!Answer(c, DT!Idle)
      BY Zenon, <1>4 DEF DT!submit
    <2> HIDE DEF r
    <2> QED  BY Zenon, <1>1, <1>2, <2>2, <2>3, AnswerStep
  <1>5. CASE DT!Lose(c)
    BY Zenon, <1>1, <1>2, <1>5, AnswerStep DEF DT!Lose
  <1>6. CASE DT!Poll(c)
    <2> DEFINE r == [pc |-> "polling", token |-> call[c].token, op |-> call[c].op,
                     seen |-> call[c].seen, until |-> time + Wait]
    <2>1. r.pc = "polling" /\ DT!Answer(c, r)
      BY Zenon, <1>6 DEF DT!Poll
    <2> HIDE DEF r
    <2> QED  BY Zenon, <1>2, <2>1, AnswerStep
  <1>7. CASE DT!get_service_operation(c)
    <2> DEFINE r == [pc |-> "told", token |-> call[c].token, op |-> call[c].op,
                    seen |-> ops[call[c].op].revision]
    <2>1. r.pc = "told"
      BY Zenon
    <2>2. DT!Answer(c, r) \/ DT!Answer(c, DT!Idle)
      BY Zenon, <1>7 DEF DT!get_service_operation
    <2> HIDE DEF r
    <2> QED  BY Zenon, <1>1, <1>2, <2>1, <2>2, AnswerStep
  <1> QED  BY Zenon, <1>3, <1>4, <1>5, <1>6, <1>7

\* submit_service_operation: with the mutex, the key is not known and the token
\* is bound to the target.
LEMMA SubmitKeeps == ASSUME Apt, TokenInv, NEW c \in Clients, DT!submit_service_operation(c) PROVE TokenInv'
  <1>1. /\ UNCHANGED <<time, tokens, ops, accepted>> /\ DT!Free /\ DOMAIN call[c] = RequestFields
        /\ call[c].pc = "checked" /\ DT!Idle.pc = "idle"
    BY Zenon DEF DT!submit_service_operation, TokenInv, CallFine, DT!Idle
  <1>2. CASE DT!Answer(c, DT!Idle) /\ UNCHANGED inner
    BY Zenon, <1>1, <1>2, AnswerStep
  <1>3. CASE UNCHANGED inner /\ \E o \in DT!Known(call[c]) :
                DT!Answer(c, [pc |-> "told", token |-> call[c].token, op |-> o, seen |-> ops[o].revision])
    <2> PICK o \in DT!Known(call[c]) :
          DT!Answer(c, [pc |-> "told", token |-> call[c].token, op |-> o, seen |-> ops[o].revision])
      BY Zenon, <1>3
    <2> DEFINE r == [pc |-> "told", token |-> call[c].token, op |-> o, seen |-> ops[o].revision]
    <2>1. r.pc = "told" /\ DT!Answer(c, r)
      BY Zenon
    <2> HIDE DEF r
    <2> QED  BY Zenon, <1>1, <1>3, <2>1, AnswerStep
  <1>4. CASE /\ DT!Answer(c, [call[c] EXCEPT !.pc = "accepting"]) /\ inner' = c /\ DT!Known(call[c]) = {}
             /\ DT!deploy_principal(call[c].token) /\ tokens[call[c].token].service = call[c].target
    <2> DEFINE r == [call[c] EXCEPT !.pc = "accepting"]
    <2>1. /\ DOMAIN r = RequestFields /\ r.pc = "accepting" /\ r.token = call[c].token /\ r.key = call[c].key
          /\ r.target = call[c].target
      BY Zenon, <1>1 DEF RequestFields
    <2>2. DT!Answer(c, r)
      BY Zenon, <1>4
    <2> HIDE DEF r
    <2>3. DOMAIN call' = Clients /\ call'[c] = r /\ \A d \in Clients \ {c} : call'[d] = call[d]
      BY Zenon, <2>2 DEF DT!Answer, TokenInv
    <2>4. DT!Known(call[c])' = {}
      BY Zenon, <1>1, <1>4, <2>1, <2>3 DEF DT!Known
    <2>5. call[c].token \in DOMAIN tokens
      BY Zenon, <1>4 DEF DT!deploy_principal, DT!active
    <2>6. CallFine(c)'
      BY Zenon, <1>1, <1>4, <2>1, <2>3, <2>4, <2>5 DEF CallFine
    <2>7. \A d \in Clients \ {c} : CallFine(d)'
      BY Zenon, <1>1, <2>3, NoAccepting DEF TokenInv, CallFine
    <2> QED  BY Zenon, <1>1, <2>3, <2>6, <2>7, CallStep
  <1> QED  BY Zenon, <1>2, <1>3, <1>4 DEF DT!submit_service_operation

\* An operation that is accepted is the newest; its key's earlier ones are gone,
\* and were accepted a retention time ago.
LEMMA AcceptKeeps ==
  ASSUME Apt, TokenInv, NEW c \in Clients, NEW o, o = DT!Cardinality(DOMAIN accepted) + 1, NEW a, NEW p,
         call[c].pc = "accepting", inner' = Nothing, UNCHANGED <<time, tokens>>,
         DOMAIN call' = Clients, call'[c].pc = "told", \A d \in Clients \ {c} : call'[d] = call[d],
         DOMAIN p = OpFields, p.principal = call[c].token, p.key = call[c].key, p.service = call[c].target,
         p.status = "running", a.principal = call[c].token, a.key = call[c].key, a.at = time,
         DOMAIN ops' = DOMAIN ops \union {o}, ops'[o] = p, \A q \in DOMAIN ops \ {o} : ops'[q] = ops[q],
         DOMAIN accepted' = DOMAIN accepted \union {o}, accepted'[o] = a,
         \A q \in DOMAIN accepted \ {o} : accepted'[q] = accepted[q]
  PROVE  TokenInv'
  <1>1. PICK n \in Nat : DOMAIN accepted = 1..n
    BY Zenon DEF TokenInv
  <1>2. o = n + 1
    <2>1. DT!Cardinality(1..n) = n
      BY SameCardinality, FS_Interval, n >= 0
    <2> QED  BY Zenon, <1>1, <2>1
  <1>3. DOMAIN accepted' = 1..(n + 1) /\ o \notin DOMAIN accepted /\ \A q \in DOMAIN accepted : q < o
    BY <1>1, <1>2
  <1>4. CallFine(c) /\ time \in Nat
    BY Zenon DEF TokenInv
  <1>5. \A q \in DOMAIN ops' : OpFine(q)'
    <2>1. OpFine(o)'
      BY Zenon, <1>4 DEF OpFine, CallFine
    <2>2. ASSUME NEW q \in DOMAIN ops PROVE OpFine(q)'
      <3>1. q \in DOMAIN accepted /\ q # o /\ OpFine(q)
        BY Zenon, <1>3 DEF TokenInv
      <3>2. ops'[q] = ops[q] /\ accepted'[q] = accepted[q]
        BY Zenon, <2>2, <3>1
      <3> QED  BY Zenon, <3>1, <3>2 DEF OpFine
    <2> QED  BY Zenon, <2>1, <2>2
  <1>6. \A d \in Clients : CallFine(d)'
    <2> SUFFICES ASSUME NEW d \in Clients \ {c} PROVE CallFine(d)'
      BY Zenon DEF CallFine
    <2>1. call[d].pc # "accepting"
      BY Zenon, <1>4 DEF TokenInv, CallFine
    <2> QED  BY Zenon, <2>1 DEF TokenInv, CallFine
  <1>7. \A q \in DOMAIN accepted' : accepted'[q].at \in Nat /\ accepted'[q].at <= time
    BY <1>3, <1>4 DEF TokenInv
  <1>8. Forgotten'
    BY Zenon, <1>3 DEF TokenInv, Forgotten
  <1>9. DT!KeysKept'
    <2> SUFFICES ASSUME NEW q \in DOMAIN accepted', NEW u \in DOMAIN accepted', q < u,
                        accepted'[q].principal = accepted'[u].principal, accepted'[q].key = accepted'[u].key
                 PROVE  accepted'[u].at - accepted'[q].at >= Retention
      BY Zenon DEF DT!KeysKept
    <2>1. q # o /\ q \in DOMAIN accepted /\ accepted'[q] = accepted[q]
      BY <1>1, <1>2, <1>3
    <2>2. CASE u = o
      <3>1. q \notin DOMAIN ops
        BY <1>4, <2>1, <2>2 DEF TokenInv, OpFine, CallFine, DT!Known
      <3> QED  BY Zenon, <2>1, <2>2, <3>1 DEF TokenInv, Forgotten
    <2>3. CASE u # o
      <3>1. u \in DOMAIN accepted /\ accepted'[u] = accepted[u]
        BY Zenon, <2>3
      <3> QED  BY Zenon, <2>1, <3>1 DEF TokenInv, DT!KeysKept
    <2> QED  BY Zenon, <2>2, <2>3
  <1>10. DOMAIN ops' \subseteq DOMAIN accepted'
    BY Zenon DEF TokenInv
  <1>11. \E m \in Nat : DOMAIN accepted' = 1..m
    BY <1>3
  <1> QED  BY Zenon, <1>5, <1>6, <1>7, <1>8, <1>9, <1>10, <1>11 DEF TokenInv

\* commit_locked: the operation is stored, or the request fails.
LEMMA CommitKeeps == ASSUME Apt, TokenInv, NEW c \in Clients, DT!Commit(c) PROVE TokenInv'
  <1> DEFINE r == call[c]
             o == DT!Cardinality(DOMAIN accepted) + 1
             p == [principal |-> r.token, key |-> r.key, source |-> r.source, service |-> r.target,
                   status |-> "running", revision |-> 1, created |-> time, finished |-> Nothing]
             a == [principal |-> r.token, key |-> r.key, service |-> r.target, at |-> time]
             w == [pc |-> "told", token |-> r.token, op |-> o, seen |-> 1]
  <1>1. call[c].pc = "accepting" /\ inner' = Nothing /\ UNCHANGED <<time, tokens>>
    BY Zenon DEF DT!Commit
  <1>2. \/ /\ ops' = [q \in DOMAIN ops \union {o} |-> IF q = o THEN p ELSE ops[q]]
           /\ accepted' = [q \in DOMAIN accepted \union {o} |-> IF q = o THEN a ELSE accepted[q]]
           /\ DT!Answer(c, w)
        \/ DT!Answer(c, DT!Idle) /\ UNCHANGED <<ops, accepted>>
    BY Zenon DEF DT!Commit
  <1>3. /\ DOMAIN p = OpFields /\ p.principal = r.token /\ p.key = r.key /\ p.service = r.target /\ p.status = "running"
        /\ a.principal = r.token /\ a.key = r.key /\ a.at = time /\ w.pc = "told" /\ DT!Idle.pc = "idle"
    BY Zenon DEF OpFields, DT!Idle
  <1> HIDE DEF p, a, w, o
  <1>4. CASE /\ ops' = [q \in DOMAIN ops \union {o} |-> IF q = o THEN p ELSE ops[q]]
             /\ accepted' = [q \in DOMAIN accepted \union {o} |-> IF q = o THEN a ELSE accepted[q]]
             /\ DT!Answer(c, w)
    <2>1. DOMAIN call' = Clients /\ call'[c] = w /\ \A d \in Clients \ {c} : call'[d] = call[d]
      BY Zenon, <1>4 DEF DT!Answer, TokenInv
    <2>2. /\ DOMAIN ops' = DOMAIN ops \union {o} /\ ops'[o] = p /\ \A q \in DOMAIN ops \ {o} : ops'[q] = ops[q]
      BY Zenon, <1>4
    <2>3. /\ DOMAIN accepted' = DOMAIN accepted \union {o} /\ accepted'[o] = a
          /\ \A q \in DOMAIN accepted \ {o} : accepted'[q] = accepted[q]
      BY Zenon, <1>4
    <2>4. o = DT!Cardinality(DOMAIN accepted) + 1
      BY Zenon DEF o
    <2> QED  BY Zenon, <1>1, <1>3, <2>1, <2>2, <2>3, <2>4, AcceptKeeps
  <1>5. CASE DT!Answer(c, DT!Idle) /\ UNCHANGED <<ops, accepted>>
    <2>1. DOMAIN call' = Clients /\ call'[c] = DT!Idle /\ \A d \in Clients \ {c} : call'[d] = call[d]
      BY Zenon, <1>5 DEF DT!Answer, TokenInv
    <2>2. \A d \in Clients \ {c} : call[d].pc # "accepting"
      BY Zenon, <1>1 DEF TokenInv, CallFine
    <2>3. \A d \in Clients : CallFine(d)'
      BY Zenon, <1>3, <2>1, <2>2 DEF TokenInv, CallFine
    <2> QED  BY Zenon, <1>1, <1>5, <2>1, <2>3, CallStep
  <1> QED  BY Zenon, <1>2, <1>4, <1>5

\* advance_service_operations_locked: what ends, ends time, after it was accepted.
LEMMA AdvanceKeeps == ASSUME Apt, TokenInv, NEW o \in DOMAIN ops, DT!Advance(o) PROVE TokenInv'
  <1>1. /\ DT!Free /\ UNCHANGED <<time, tokens, inner, call, accepted>> /\ OpFine(o) /\ time \in Nat
        /\ ops[o].status = "running"
    BY Zenon DEF DT!Advance, TokenInv
  <1>2. /\ DOMAIN ops' = DOMAIN ops /\ \A q \in DOMAIN ops \ {o} : ops'[q] = ops[q]
        /\ DOMAIN ops'[o] = OpFields /\ ops'[o].principal = ops[o].principal /\ ops'[o].key = ops[o].key
        /\ ops'[o].service = ops[o].service
        /\ ops'[o].status = "running" \/ ops'[o].finished = time
    BY <1>1 DEF DT!Advance, OpFine, OpFields
  <1>3. \A q \in DOMAIN ops' : OpFine(q)'
    <2>1. accepted[o].at <= time
      BY Zenon DEF TokenInv
    <2>2. OpFine(o)'
      BY Zenon, <1>1, <1>2, <2>1 DEF TokenInv, OpFine
    <2>3. \A q \in DOMAIN ops \ {o} : OpFine(q)'
      BY ZenonT(40), <1>1, <1>2 DEF TokenInv, OpFine
    <2> QED  BY Zenon, <1>2, <2>2, <2>3
  <1>4. \A c \in Clients : CallFine(c)'
    BY Zenon, <1>1, NoAccepting DEF TokenInv, CallFine
  <1> QED  BY Zenon, <1>1, <1>2, <1>3, <1>4 DEF TokenInv, Forgotten, DT!KeysKept

\* What is forgotten ended a retention time ago, and was accepted before that.
LEMMA ForgetKeeps == ASSUME Apt, TokenInv, DT!Forget PROVE TokenInv'
  <1>1. DT!Free /\ UNCHANGED <<time, tokens, inner, call, accepted>> /\ time \in Nat
    BY Zenon DEF DT!Forget, TokenInv
  <1>2. DOMAIN ops' = {o \in DOMAIN ops : ~ DT!Removable(o)} /\ \A o \in DOMAIN ops' : ops'[o] = ops[o]
    BY Zenon DEF DT!Forget
  <1>3. \A o \in DOMAIN ops' : OpFine(o)'
    BY Zenon, <1>1, <1>2 DEF TokenInv, OpFine
  <1>4. \A c \in Clients : CallFine(c)'
    BY Zenon, <1>1, NoAccepting DEF TokenInv, CallFine
  <1>5. Forgotten'
    <2> SUFFICES ASSUME NEW o \in DOMAIN accepted, o \notin DOMAIN ops' PROVE time - accepted[o].at >= Retention
      BY Zenon, <1>1 DEF Forgotten
    <2>1. CASE o \notin DOMAIN ops
      BY Zenon, <2>1 DEF TokenInv, Forgotten
    <2>2. CASE o \in DOMAIN ops
      <3>1. ops[o].status = "over" /\ time - ops[o].finished >= Retention
        BY Zenon, <1>2, <2>2 DEF DT!Removable
      <3>2. ops[o].finished \in Nat /\ ops[o].finished >= accepted[o].at /\ accepted[o].at \in Nat
        BY Zenon, <2>2, <3>1 DEF TokenInv, OpFine
      <3> QED  BY <1>1, <3>1, <3>2 DEF Apt
    <2> QED  BY Zenon, <2>1, <2>2
  <1> QED  BY Zenon, <1>1, <1>2, <1>3, <1>4, <1>5 DEF TokenInv, DT!KeysKept

\* Time passes: what was forgotten only gets older.
LEMMA TickKeeps == ASSUME Apt, TokenInv, DT!Tick PROVE TokenInv'
  <1>1. time' = time + 1 /\ time \in Nat /\ UNCHANGED <<tokens, ops, inner, call, accepted>>
    BY Zenon DEF DT!Tick, TokenInv
  <1>2. \A o \in DOMAIN accepted : accepted[o].at \in Nat /\ accepted[o].at <= time'
    BY <1>1 DEF TokenInv
  <1>3. Forgotten'
    BY <1>1, <1>2 DEF TokenInv, Forgotten, Apt
  <1> QED  BY <1>1, <1>2, <1>3 DEF TokenInv, DT!KeysKept, OpFine, CallFine, DT!Known

\* Every step preserves the invariant.
LEMMA NextTokens == ASSUME Apt, TokenInv, [DT!Next]_(DT!vars) PROVE TokenInv'
  <1>1. CASE UNCHANGED DT!vars \/ \E s \in Services : DT!RemoveService(s)
    <2>1. UNCHANGED <<time, tokens, ops, inner, call, accepted>>
      BY Zenon, <1>1 DEF DT!vars, DT!RemoveService
    <2>2. DOMAIN call' = Clients /\ \A c \in Clients : CallFine(c)'
      BY <2>1 DEF TokenInv, CallFine, DT!Known
    <2> QED  BY Zenon, <2>1, <2>2, CallStep
  <1>2. CASE \E t \in Tokens, s \in Services : DT!create_deploy_token(t, s)
    BY Zenon, <1>2, CreateKeeps
  <1>3. CASE \E t \in Tokens : DT!revoke_deploy_token(t)
    BY Zenon, <1>3, RevokeKeeps
  <1>4. ASSUME NEW c \in Clients, DT!Call(c) \/ DT!submit(c) \/ DT!submit_service_operation(c) \/ DT!Commit(c)
                                  \/ DT!Lose(c) \/ DT!Poll(c) \/ DT!get_service_operation(c)
        PROVE  TokenInv'
    BY Zenon, <1>4, RequestKeeps, SubmitKeeps, CommitKeeps
  <1>5. CASE \E o \in 1..MaxOps : o \in DOMAIN ops /\ DT!Advance(o)
    BY Zenon, <1>5, AdvanceKeeps
  <1>6. CASE DT!Forget
    BY Zenon, <1>6, ForgetKeeps
  <1>7. CASE DT!Restart
    <2>1. UNCHANGED <<time, tokens, ops,
          accepted>> /\ call' = [c \in Clients |-> DT!Idle] /\ DT!Idle.pc = "idle"
      BY Zenon, <1>7 DEF DT!Restart, DT!Idle
    <2>2. DOMAIN call' = Clients /\ \A c \in Clients : CallFine(c)'
      BY Zenon, <2>1 DEF CallFine
    <2> QED  BY Zenon, <2>1, <2>2, CallStep
  <1>8. CASE DT!Tick
    BY Zenon, <1>8, TickKeeps
  <1> QED  BY Zenon, <1>1, <1>2, <1>3, <1>4, <1>5, <1>6, <1>7, <1>8 DEF DT!Next

\* submit_service_operation, advance_service_operations_locked: whatever is lost,
\* repeated, restarted, revoked or removed, a principal's key is accepted again
\* only a retention time later.
THEOREM KeysAreKept ==
  ASSUME Nothing \notin Clients, Retention \in Int
  PROVE  DT!Spec => []DT!KeysKept
  <1>1. TokenInv /\ [DT!Next]_(DT!vars) => TokenInv'
    BY Zenon, NextTokens DEF Apt
  <1>2. TokenInv => DT!KeysKept
    BY Zenon DEF TokenInv
  <1> QED  BY InitTokens, <1>1, <1>2, PTL DEF DT!Spec

\* deploy_principal, write_operations, get_service_operation: whatever a token
\* obtains, it obtains while it is active, and of an operation it submitted to the
\* service it is bound to, however its expiry or revocation interleaves with the
\* steps of a request.
THEOREM TokensRule ==
  ASSUME Nothing \notin Clients, Retention \in Int
  PROVE  DT!Spec => DT!TokenRules
  <1>1. TokenInv /\ [DT!Next]_(DT!vars) => TokenInv'
    BY Zenon, NextTokens DEF Apt
  <1>2. TokenInv /\ [DT!Next]_(DT!vars) =>
          [last' # last => /\ DT!active(last'.token)
                           /\ ops'[last'.op].principal = last'.token
                           /\ ops'[last'.op].service = tokens[last'.token].service]_(DT!vars)
    <2> SUFFICES ASSUME TokenInv, DT!Next, last' # last
                 PROVE  /\ DT!active(last'.token) /\ ops'[last'.op].principal = last'.token
                        /\ ops'[last'.op].service = tokens[last'.token].service
      BY Zenon
    <2>1. \A o \in DOMAIN ops : ops[o].service = tokens[ops[o].principal].service
      BY Zenon DEF TokenInv, OpFine
    <2>2. PICK c \in Clients : DT!submit_service_operation(c) \/ DT!Commit(c) \/ DT!get_service_operation(c)
      BY Zenon DEF DT!Next, DT!create_deploy_token, DT!revoke_deploy_token, DT!RemoveService, DT!Call,
                   DT!submit, DT!Lose, DT!Poll, DT!Advance,
             DT!Forget, DT!Restart, DT!Tick
    <2>3. CASE DT!submit_service_operation(c)
      <3>1. PICK o \in DT!Known(call[c]) : last' = [token |-> call[c].token, at |-> time, op |-> o]
        BY Zenon, <2>3 DEF DT!submit_service_operation
      <3>2. DT!active(call[c].token) /\ ops' = ops
        BY Zenon, <2>3 DEF DT!submit_service_operation, DT!deploy_principal
      <3> QED  BY Zenon, <2>1, <3>1, <3>2 DEF DT!Known
    <2>4. CASE DT!Commit(c)
      <3> DEFINE o == DT!Cardinality(DOMAIN accepted) + 1
      <3>1. last' = [token |-> call[c].token, at |-> time, op |-> o] /\ DT!active(call[c].token)
        BY <2>4 DEF DT!Commit, DT!CredentialActive
      <3>2. ops'[o].principal = call[c].token /\ ops'[o].service = call[c].target
        BY SMTT(30), <2>4, <3>1 DEF DT!Commit
      <3>3. tokens[call[c].token].service = call[c].target
        BY Zenon, <2>4 DEF DT!Commit, TokenInv, CallFine
      <3> HIDE DEF o
      <3> QED  BY Zenon, <3>1, <3>2, <3>3
    <2>5. CASE DT!get_service_operation(c)
      <3>1. /\ last' = [token |-> call[c].token, at |-> time, op |-> call[c].op]
            /\ DT!MayRead(call[c]) /\ ops' = ops
        BY Zenon, <2>5 DEF DT!get_service_operation
      <3> QED  BY Zenon, <2>1, <3>1 DEF DT!MayRead, DT!deploy_principal
    <2> QED  BY Zenon, <2>2, <2>3, <2>4, <2>5
  <1> QED  BY InitTokens, <1>1, <1>2, PTL DEF DT!Spec, DT!TokenRules
=============================================================================
