--------------------------- MODULE LdapConnection ---------------------------
(***************************************************************************)
(* One client connection of the LDAP server: PoolClientHandler.__call__    *)
(* (app/__main__.py) and the Session it serves (ldap_protocol/dialogue.py).*)
(*                                                                         *)
(* Three kinds of asyncio tasks share the Session:                         *)
(*  - the connection task, which looks the network policy up, gathers the  *)
(*    other tasks and, on their first exception, runs Session.__aexit__;   *)
(*  - the reader, which parses messages and puts requests in the queue;    *)
(*  - the workers, which take requests, run their handlers and write the   *)
(*    responses.                                                           *)
(* gather() does not cancel the siblings of a task that raised: the reader *)
(* and the workers go on while the connection task is in __aexit__.  A     *)
(* step of the specification is what a task does between two awaits.       *)
(***************************************************************************)
EXTENDS Naturals, Sequences, FiniteSets

CONSTANTS
  Workers,    \* the response workers of the connection (num_workers of them)
  Requests,   \* the well-formed messages the client may send, each once
  Malformed,  \* the messages from_bytes rejects
  Kind,       \* Kind[r], the operation of request r
  Account,    \* Account[r], the user the bind request r names, or NoUser
  Users,
  NoUser,     \* the session has no user (None)
  NoWorker,   \* nobody holds the session lock
  NoRequest,  \* a worker waiting in queue.get()
  Offered     \* Offered[mode], the messages a client of that mode may send

\* Handlers fall into five groups by what they do to the session: "update"
\* stands for the handlers that read ldap_session.user without its lock
\* (add, modify, modify DN, delete and the extended requests).
Kinds == {"bind", "unbind", "search", "update", "abandon"}

\* A client pipelines its messages or waits for each answer before it sends
\* the next one.
Modes == {"pipelining", "waiting"}

ASSUME ConnectionAssumption ==
  /\ IsFiniteSet(Workers) /\ Workers # {}
  /\ NoWorker \notin Workers
  /\ NoRequest \notin Requests
  /\ Requests \cap Malformed = {}
  /\ Kind \in [Requests -> Kinds]
  /\ Account \in [Requests -> Users \cup {NoUser}]
  /\ NoUser \notin Users
  /\ Offered \in [Modes -> SUBSET (Requests \cup Malformed)]

VARIABLES
  main,        \* the connection task: "setup", "serving", "joining", "closed"
  reader,      \* the reader task: "waiting" for the gather, "reading", "dead"
  client,      \* the peer: connected in one of the Modes, or "gone"
  accepted,    \* the messages the reader has parsed (module Framing)
  queue,       \* Session.queue
  unfinished,  \* the queue's count of put items without a task_done()
  phase,       \* phase[w], how far worker w is in its loop
  cur,         \* cur[w], the request worker w took last and has not finished
  lock,        \* the holder of Session._lock
  user,        \* Session._user
  seen,        \* seen[w], the user the handler of worker w acts for
  answers,     \* answers[m], final responses written for message m
  handled,     \* the requests whose handler completed
  clientUser,  \* the user the client was last told it is bound as
  kept         \* the user an anonymous bind left in the session, or NoUser

connVars   == <<main, client>>
queueVars  == <<accepted, queue, unfinished, handled>>
lockVars   == <<lock, user, seen>>
workerVars == <<phase, cur>>
outVars    == <<answers, clientUser, kept>>
vars == <<main, reader, client, accepted, queue, unfinished, phase, cur,
          lock, user, seen, answers, handled, clientUser, kept>>

Messages == Requests \cup Malformed
Phases == {"idle", "start", "setUser", "granted", "reply", "stream",
           "release", "finish", "dead"}

Busy(w) == phase[w] \notin {"idle", "dead"}
Dead == {w \in Workers : phase[w] = "dead"}
Failed == {cur[w] : w \in Dead}

TypeOK ==
  /\ main \in {"setup", "serving", "joining", "closed"}
  /\ reader \in {"waiting", "reading", "dead"}
  /\ client \in Modes \cup {"gone"}
  /\ accepted \subseteq Messages
  /\ queue \in Seq(Requests)
  /\ unfinished \in Nat
  /\ phase \in [Workers -> Phases]
  /\ cur \in [Workers -> Requests \cup {NoRequest}]
  /\ lock \in Workers \cup {NoWorker}
  /\ user \in Users \cup {NoUser}
  /\ seen \in [Workers -> Users \cup {NoUser}]
  /\ answers \in [Messages -> Nat]
  /\ handled \subseteq Requests
  /\ clientUser \in Users \cup {NoUser}
  /\ kept \in Users \cup {NoUser}

Init ==
  /\ main = "setup"
  /\ reader = "waiting"
  /\ client \in Modes
  /\ accepted = {}
  /\ queue = <<>>
  /\ unfinished = 0
  /\ phase = [w \in Workers |-> "idle"]
  /\ cur = [w \in Workers |-> NoRequest]
  /\ lock = NoWorker
  /\ user = NoUser
  /\ seen = [w \in Workers |-> NoUser]
  /\ answers = [m \in Messages |-> 0]
  /\ handled = {}
  /\ clientUser = NoUser
  /\ kept = NoUser

-----------------------------------------------------------------------------
(* The client *)

\* The peer closed or reset the connection and all it sent has been read.
Disconnect ==
  /\ client # "gone"
  /\ client' = "gone"
  /\ UNCHANGED <<main, reader, queueVars, workerVars, lockVars, outVars>>

\* A client that waits sends its next message when all earlier ones are
\* answered; after a message that has no answer it sends nothing.
MaySend(m) ==
  /\ client # "gone"
  /\ m \in Offered[client] \ accepted
  /\ client = "waiting" => \A n \in accepted : answers[n] > 0

-----------------------------------------------------------------------------
(* The connection task: PoolClientHandler.__call__ and Session.__aexit__ *)

\* A network policy covers the peer's address: start the reader and workers.
PolicyFound ==
  /\ main = "setup"
  /\ main' = "serving"
  /\ reader' = "reading"
  /\ UNCHANGED <<client, queueVars, workerVars, lockVars, outVars>>

\* No policy covers it ("Whitelist violation"), or the lookup raised: the
\* connection task goes straight to __aexit__.
PolicyRefused ==
  /\ main = "setup"
  /\ main' = "joining"
  /\ UNCHANGED <<reader, client, queueVars, workerVars, lockVars, outVars>>

\* The reader or a worker raised: gather() raises in the connection task,
\* which enters __aexit__ and awaits queue.join(). No sibling is cancelled.
GatherRaises ==
  /\ main = "serving"
  /\ reader = "dead" \/ Dead # {}
  /\ main' = "joining"
  /\ UNCHANGED <<reader, client, queueVars, workerVars, lockVars, outVars>>

\* Mutant: the writer is closed without waiting for the queue.
JoinSkipped ==
  /\ main = "joining"
  /\ main' = "closed"
  /\ UNCHANGED <<reader, client, queueVars, workerVars, lockVars, outVars>>

\* queue.join() returns when every put item was matched by a task_done();
\* then the writer is closed.
JoinReturns ==
  /\ main = "joining"
  /\ unfinished = 0
  /\ main' = "closed"
  /\ UNCHANGED <<reader, client, queueVars, workerVars, lockVars, outVars>>

-----------------------------------------------------------------------------
(* The reader: PoolClientHandler._handle_request *)

ReadRequest(r) ==
  /\ reader = "reading"
  /\ MaySend(r)
  /\ accepted' = accepted \cup {r}
  /\ queue' = Append(queue, r)
  /\ unfinished' = unfinished + 1
  /\ UNCHANGED <<main, reader, client, handled, workerVars, lockVars, outVars>>

\* from_bytes raises and the error path calls from_err, whose first statement
\* hands the raw bytes to asn1todict, which wants a Decoder: AttributeError,
\* so nothing is written and the reader dies.
ReadMalformed(m) ==
  /\ reader = "reading"
  /\ MaySend(m)
  /\ accepted' = accepted \cup {m}
  /\ reader' = "dead"
  /\ UNCHANGED <<main, client, queue, unfinished, handled, workerVars,
                 lockVars, outVars>>

\* recieve() returns b'' (ConnectionAbortedError) or read() raises.
ReadEof ==
  /\ reader = "reading"
  /\ client = "gone"
  /\ reader' = "dead"
  /\ UNCHANGED <<main, client, queueVars, workerVars, lockVars, outVars>>

-----------------------------------------------------------------------------
(* The workers: PoolClientHandler._handle_single_response and the handlers *)

Move(w, to) == phase' = [phase EXCEPT ![w] = to]

\* queue.get(): an idle worker takes the oldest request.
Take(w) ==
  /\ phase[w] = "idle"
  /\ queue # <<>>
  /\ queue' = Tail(queue)
  /\ cur' = [cur EXCEPT ![w] = Head(queue)]
  /\ Move(w, "start")
  /\ UNCHANGED <<main, reader, client, accepted, unfinished, handled,
                 lockVars, outVars>>

Starts(w, kind) == phase[w] = "start" /\ Kind[cur[w]] = kind

\* A bind with no name and no password: whoever sends it binds as nobody.
Anonymous(r) == Kind[r] = "bind" /\ Account[r] = NoUser

\* It is answered with success, without a look at the session.
BindAnonymous(w) ==
  /\ Starts(w, "bind") /\ Anonymous(cur[w])
  /\ Move(w, "reply")
  /\ UNCHANGED <<main, reader, client, queueVars, cur, lockVars, outVars>>

\* A bind refused by the credentials, the groups, pwdLastSet = '0' or the MFA.
BindRefuse(w) ==
  /\ Starts(w, "bind") /\ ~Anonymous(cur[w])
  /\ Move(w, "reply")
  /\ UNCHANGED <<main, reader, client, queueVars, cur, lockVars, outVars>>

\* Mutant: the client is told of its success before the user is set.
BindAnswersFirst(w) ==
  /\ Starts(w, "bind") /\ ~Anonymous(cur[w])
  /\ clientUser' = Account[cur[w]] /\ kept' = NoUser
  /\ Move(w, "reply")
  /\ UNCHANGED <<main, reader, client, queueVars, cur, lockVars, answers>>

\* Credentials, groups and MFA are all in order: set_user comes next.
BindVerified(w) ==
  /\ Starts(w, "bind") /\ ~Anonymous(cur[w])
  /\ Move(w, "setUser")
  /\ UNCHANGED <<main, reader, client, queueVars, cur, lockVars, outVars>>

\* Mutant: set_user() does not take the lock.
BindSetsAnyTime(w) ==
  /\ phase[w] = "setUser"
  /\ user' = Account[cur[w]]
  /\ Move(w, "granted")
  /\ UNCHANGED <<main, reader, client, queueVars, cur, lock, seen, outVars>>

\* set_user(): waits for the session lock, stores the user, releases it.
BindSetUser(w) ==
  /\ phase[w] = "setUser"
  /\ lock = NoWorker
  /\ user' = Account[cur[w]]
  /\ Move(w, "granted")
  /\ UNCHANGED <<main, reader, client, queueVars, cur, lock, seen, outVars>>

\* The success response of a bind, after set_user and set_last_logon_user.
BindSuccess(w) ==
  /\ phase[w] = "granted"
  /\ answers' = [answers EXCEPT ![cur[w]] = @ + 1]
  /\ clientUser' = Account[cur[w]] /\ kept' = NoUser
  /\ Move(w, "finish")
  /\ UNCHANGED <<main, reader, client, queueVars, cur, lockVars>>

\* What the client is told by the only response to r: that it is nobody, if r
\* is an anonymous bind, though the session goes on with its user.
Told(r) ==
  IF Anonymous(r) /\ clientUser # NoUser
  THEN clientUser' = NoUser /\ kept' = clientUser
  ELSE UNCHANGED <<clientUser, kept>>

\* Mutant: no return after the refusal of a bind, which goes on to set_user.
RefusalFallsThrough(w) ==
  /\ phase[w] = "reply"
  /\ answers' = [answers EXCEPT ![cur[w]] = @ + 1]
  /\ Told(cur[w])
  /\ Move(w, IF Kind[cur[w]] = "bind" THEN "setUser" ELSE "finish")
  /\ UNCHANGED <<main, reader, client, queueVars, cur, lockVars>>

\* The only response of every other handler that answers.
WriteReply(w) ==
  /\ phase[w] = "reply"
  /\ answers' = [answers EXCEPT ![cur[w]] = @ + 1]
  /\ Told(cur[w])
  /\ Move(w, "finish")
  /\ UNCHANGED <<main, reader, client, queueVars, cur, lockVars>>

\* delete_user() under the session lock; an unbind has no response and
\* leaves the connection open.
Unbind(w) ==
  /\ Starts(w, "unbind")
  /\ lock = NoWorker
  /\ user' = NoUser
  /\ Move(w, "finish")
  /\ UNCHANGED <<main, reader, client, queueVars, cur, lock, seen, outVars>>

\* Session.lock() yields the user; the search holds the lock from here on.
SearchLock(w) ==
  /\ Starts(w, "search")
  /\ lock = NoWorker
  /\ lock' = w
  /\ seen' = [seen EXCEPT ![w] = user]
  /\ Move(w, "stream")
  /\ UNCHANGED <<main, reader, client, queueVars, cur, user, outVars>>

\* The entries and then SearchResultDone are written with the lock held ...
SearchDone(w) ==
  /\ phase[w] = "stream"
  /\ answers' = [answers EXCEPT ![cur[w]] = @ + 1]
  /\ Move(w, "release")
  /\ UNCHANGED <<main, reader, client, queueVars, cur, lockVars, clientUser,
                 kept>>

\* ... and the lock is released when the worker asks for the next response.
SearchRelease(w) ==
  /\ phase[w] = "release"
  /\ lock' = NoWorker
  /\ Move(w, "finish")
  /\ UNCHANGED <<main, reader, client, queueVars, cur, user, seen, outVars>>

\* The other handlers read the property Session.user, which takes no lock.
UpdateReadUser(w) ==
  /\ Starts(w, "update")
  /\ seen' = [seen EXCEPT ![w] = user]
  /\ Move(w, "reply")
  /\ UNCHANGED <<main, reader, client, queueVars, cur, lock, user, outVars>>

\* Abandon answers nothing and changes nothing.
Abandon(w) ==
  /\ Starts(w, "abandon")
  /\ Move(w, "finish")
  /\ UNCHANGED <<main, reader, client, queueVars, cur, lockVars, outVars>>

\* Mutant: task_done() is called by the handler and by the loop.
TaskDoneTwice(w) ==
  /\ phase[w] = "finish"
  /\ unfinished' = unfinished - 2
  /\ handled' = handled \cup {cur[w]}
  /\ cur' = [cur EXCEPT ![w] = NoRequest]
  /\ Move(w, "idle")
  /\ UNCHANGED <<main, reader, client, accepted, queue, lockVars, outVars>>

\* Mutant: the loop forgets task_done().
TaskNeverDone(w) ==
  /\ phase[w] = "finish"
  /\ handled' = handled \cup {cur[w]}
  /\ cur' = [cur EXCEPT ![w] = NoRequest]
  /\ Move(w, "idle")
  /\ UNCHANGED <<main, reader, client, accepted, queue, unfinished, lockVars,
                 outVars>>

\* The handler is exhausted: task_done() and back to queue.get().
TaskDone(w) ==
  /\ phase[w] = "finish"
  /\ unfinished' = unfinished - 1
  /\ handled' = handled \cup {cur[w]}
  /\ cur' = [cur EXCEPT ![w] = NoRequest]
  /\ Move(w, "idle")
  /\ UNCHANGED <<main, reader, client, accepted, queue, lockVars, outVars>>

\* Where a handler or the write of its response may raise.
CanFail(w) ==
  \/ phase[w] \in {"granted", "reply", "stream", "finish"}
  \/ phase[w] = "start" /\ Kind[cur[w]] \in {"bind", "update"}
     /\ ~Anonymous(cur[w])

\* Mutant: task_done() in a finally clause, called for a failed request too.
FailIsDone(w) ==
  /\ CanFail(w)
  /\ Move(w, "dead")
  /\ unfinished' = unfinished - 1
  /\ lock' = IF lock = w THEN NoWorker ELSE lock
  /\ UNCHANGED <<main, reader, client, accepted, queue, handled, cur, user, seen,
                 outVars>>

\* Any exception becomes RuntimeError and ends the worker, without a
\* task_done(). Raised by the handler, it leaves Session.lock() on its way;
\* raised by the write, the suspended handler keeps the lock for now.
Fail(w) ==
  /\ CanFail(w)
  /\ Move(w, "dead")
  /\ \/ lock' = lock
     \/ lock = w /\ lock' = NoWorker
  /\ UNCHANGED <<main, reader, client, queueVars, cur, user, seen, outVars>>

\* Mutant: a handler that is not closed keeps the session lock for ever.
HandlerLeaks(w) ==
  /\ phase[w] = "dead"
  /\ lock = w
  /\ UNCHANGED vars

\* The event loop closes the abandoned generator of a dead worker.
CloseHandler(w) ==
  /\ phase[w] = "dead"
  /\ lock = w
  /\ lock' = NoWorker
  /\ UNCHANGED <<main, reader, client, queueVars, workerVars, user, seen,
                 outVars>>

-----------------------------------------------------------------------------
Main == PolicyFound \/ PolicyRefused \/ GatherRaises \/ JoinReturns

Reader ==
  \/ \E r \in Requests : ReadRequest(r)
  \/ \E m \in Malformed : ReadMalformed(m)
  \/ ReadEof

\* What the worker does without anything going wrong.
Work(w) ==
  \/ Take(w)
  \/ BindAnonymous(w) \/ BindRefuse(w)
  \/ BindVerified(w) \/ BindSetUser(w) \/ BindSuccess(w)
  \/ WriteReply(w)
  \/ Unbind(w)
  \/ SearchLock(w) \/ SearchDone(w) \/ SearchRelease(w)
  \/ UpdateReadUser(w)
  \/ Abandon(w)
  \/ TaskDone(w)

Next ==
  \/ Disconnect
  \/ Main
  \/ Reader
  \/ \E w \in Workers : Work(w) \/ Fail(w) \/ CloseHandler(w)

Spec == Init /\ [][Next]_vars

\* The event loop runs every ready task. A write completes or fails: the
\* client drains its socket or goes away. asyncio.Lock serves its waiters in
\* order, and the requests are finitely many, so weak fairness is enough for
\* a worker that waits for the session lock.
Fairness ==
  /\ WF_vars(Main)
  /\ WF_vars(ReadEof)
  /\ \A w \in Workers : WF_vars(Work(w)) /\ WF_vars(CloseHandler(w))

FairSpec == Spec /\ Fairness

-----------------------------------------------------------------------------
(* Properties *)

\* Once the writer is closed (dialogue.py, __aexit__), nothing is in flight:
\* the reader has ended or never started, every request it accepted was
\* handled to its end, and no worker died on one.
GracefulDrain ==
  main = "closed" =>
    /\ reader # "reading"
    /\ queue = <<>>
    /\ \A w \in Workers : phase[w] = "idle"
    /\ accepted \cap Requests = handled

\* What queue.join() waits for: the queued requests and those a worker has
\* taken and not completed, the ones that killed a worker included.
Accounting ==
  unfinished = Len(queue) + Cardinality({w \in Workers : phase[w] # "idle"})

\* While a search holds the session lock nobody binds or unbinds the session:
\* the user it was let in as is the session's user (dialogue.py, lock()).
SearchIdentity == lock # NoWorker => seen[lock] = user

\* No request is lost or done twice: an accepted request is queued once, or
\* with one worker, or handled; and one that is handled got its one answer.
ExactlyOnce ==
  /\ \A i, j \in 1..Len(queue) : queue[i] = queue[j] => i = j
  /\ \A r \in accepted \cap Requests :
       LET places == {w \in Workers : cur[w] = r}
       IN  /\ Cardinality(places) <= 1
           /\ (r \in handled \/ places # {}) <=> ~\E i \in 1..Len(queue) : queue[i] = r
           /\ r \in handled => places = {}
           /\ answers[r] <= 1
           /\ r \in handled =>
                answers[r] = IF Kind[r] \in {"unbind", "abandon"} THEN 0 ELSE 1

\* A client that waits for every answer is served as the user of the last bind
\* it was told has succeeded: a bind sets the user before it writes its success
\* (bind.py, handle). The exception is an anonymous bind, of whose success the
\* client is told too: it is nobody then, and is served as the user it was before.
SequentialIdentity ==
  \A w \in Workers :
    /\ client = "waiting"
    /\ phase[w] \in {"stream", "reply"}
    /\ Kind[cur[w]] # "bind"
    => seen[w] = IF kept = NoUser THEN clientUser ELSE kept

\* A request the reader accepted is handled, unless it kills its worker or
\* all the workers are dead.
AcceptedServed ==
  \A r \in Requests :
    (r \in accepted) ~> (r \in handled \cup Failed \/ Dead = Workers)

\* If no handler raises, the connection of a client that left gets closed.
QuietClose == (client = "gone") ~> (main = "closed" \/ Dead # {})

\* __aexit__ "Close writer and queue" (dialogue.py): when the client has
\* left, the connection gets closed.
ConnectionCloses == (client = "gone") ~> (main = "closed")
=============================================================================
