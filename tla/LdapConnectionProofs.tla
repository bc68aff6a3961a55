------------------------ MODULE LdapConnectionProofs ------------------------
(* Theorems about LdapConnection, for any workers, requests and users. *)
EXTENDS LdapConnection, FiniteSetTheorems, SequenceTheorems, TLAPS

-----------------------------------------------------------------------------
(* Type correctness, with the count of unfinished requests *)

\* A worker has a request exactly when it is past queue.get().
CurOfBusy ==
  \A w \in Workers : phase[w] # "idle" <=> cur[w] # NoRequest

\* task_done() takes one from a natural number, which stays one because the
\* count is that of Accounting.
TypeInv == TypeOK /\ CurOfBusy /\ Accounting

\* The workers that Accounting counts.
Occupied == {w \in Workers : phase[w] # "idle"}

LEMMA OccupiedFinite ==
  IsFiniteSet(Occupied) /\ Cardinality(Occupied) \in Nat
<1>1. IsFiniteSet(Occupied)
  BY ConnectionAssumption, FS_Subset DEF Occupied
<1> QED BY <1>1, FS_CardinalityType

\* A worker that does not wait is counted.
LEMMA OccupiedPositive ==
  ASSUME NEW w \in Workers, phase[w] # "idle"
  PROVE  Cardinality(Occupied) > 0
<1>1. w \in Occupied
  BY DEF Occupied
<1> QED BY <1>1, OccupiedFinite, FS_EmptySet

\* How the count changes with a move of worker w.
LEMMA OccupiedMoves ==
  ASSUME TypeOK, NEW w \in Workers, NEW to \in Phases, Move(w, to)
  PROVE  Cardinality(Occupied)' =
           Cardinality(Occupied)
           + (IF to = "idle" THEN 0 ELSE 1) - (IF phase[w] = "idle" THEN 0 ELSE 1)
<1>1. phase'[w] = to /\ \A v \in Workers \ {w} : phase'[v] = phase[v]
  BY DEF Move, TypeOK
<1>2. CASE to = "idle"
  <2>1. Occupied' = Occupied \ {w}
    BY <1>1, <1>2 DEF Occupied
  <2>2. Cardinality(Occupied \ {w}) =
          IF w \in Occupied THEN Cardinality(Occupied) - 1 ELSE Cardinality(Occupied)
    BY OccupiedFinite, FS_RemoveElement
  <2>3. w \in Occupied <=> phase[w] # "idle"
    BY DEF Occupied
  <2> QED BY <2>1, <2>2, <2>3, <1>2, OccupiedFinite
<1>3. CASE to # "idle"
  <2>1. Occupied' = Occupied \cup {w}
    BY <1>1, <1>3 DEF Occupied
  <2>2. Cardinality(Occupied \cup {w}) =
          IF w \in Occupied THEN Cardinality(Occupied) ELSE Cardinality(Occupied) + 1
    BY OccupiedFinite, FS_AddElement
  <2>3. w \in Occupied <=> phase[w] # "idle"
    BY DEF Occupied
  <2> QED BY <2>1, <2>2, <2>3, <1>3, OccupiedFinite
<1> QED BY <1>2, <1>3

LEMMA TypeInit == Init => TypeInv
<1> SUFFICES ASSUME Init PROVE TypeInv
  OBVIOUS
<1>1. TypeOK /\ CurOfBusy
  BY ConnectionAssumption DEF Init, TypeOK, CurOfBusy, Messages, Phases
<1>2. Cardinality(Occupied) = 0
  <2>1. Occupied = {}
    BY DEF Init, Occupied
  <2> QED BY <2>1, FS_EmptySet
<1>3. Accounting
  BY <1>2 DEF Init, Accounting, Occupied
<1> QED BY <1>1, <1>3 DEF TypeInv

\* The steps of the client, of the connection task and of the reader, which
\* leave the workers where they are.
LEMMA TypeOutside ==
  TypeInv /\ (Disconnect \/ Main \/ Reader \/ UNCHANGED vars) => TypeInv'
<1> SUFFICES ASSUME TypeInv,
                    Disconnect \/ Main \/ Reader \/ UNCHANGED vars
             PROVE  TypeInv'
  OBVIOUS
<1> USE DEF TypeInv, TypeOK, CurOfBusy, Accounting, Messages, vars,
            queueVars, workerVars, lockVars, outVars
<1>1. CASE Disconnect
  BY <1>1 DEF Disconnect
<1>2. CASE Main
  BY <1>2 DEF Main, PolicyFound, PolicyRefused, GatherRaises, JoinReturns
<1>3. ASSUME NEW r \in Requests, ReadRequest(r)
      PROVE  TypeInv'
  <2>1. TypeOK' /\ CurOfBusy'
    BY <1>3, AppendProperties DEF ReadRequest
  <2>2. Accounting'
    <3>1. Len(queue') = Len(queue) + 1 /\ Len(queue) \in Nat
      BY <1>3, AppendProperties, LenProperties DEF ReadRequest
    <3>2. UNCHANGED Cardinality({w \in Workers : phase[w] # "idle"})
      BY <1>3 DEF ReadRequest
    <3> QED BY <1>3, <3>1, <3>2, OccupiedFinite DEF ReadRequest, Occupied
  <2> QED BY <2>1, <2>2
<1>4. ASSUME NEW m \in Malformed, ReadMalformed(m)
      PROVE  TypeInv'
  BY <1>4 DEF ReadMalformed
<1>5. CASE ReadEof
  BY <1>5 DEF ReadEof
<1>6. CASE UNCHANGED vars
  BY <1>6
<1> QED BY <1>1, <1>2, <1>3, <1>4, <1>5, <1>6 DEF Reader

\* The steps that leave the queue, and the worker in its request.
Inner(w) ==
  \/ BindAnonymous(w) \/ BindRefuse(w)
  \/ BindVerified(w) \/ BindSetUser(w) \/ BindSuccess(w)
  \/ WriteReply(w)
  \/ Unbind(w)
  \/ SearchLock(w) \/ SearchDone(w) \/ SearchRelease(w)
  \/ UpdateReadUser(w)
  \/ Abandon(w)
  \/ Fail(w)

LEMMA InnerMoves ==
  ASSUME TypeInv, NEW w \in Workers, Inner(w)
  PROVE  /\ phase[w] \notin {"idle", "dead"} /\ cur[w] \in Requests
         /\ UNCHANGED <<main, reader, client, queueVars, cur>>
         /\ \E to \in Phases \ {"idle"} : Move(w, to)
<1>1. phase[w] \notin {"idle", "dead"}
  BY DEF Inner, BindAnonymous, BindRefuse, BindVerified, BindSetUser, BindSuccess, WriteReply,
         Unbind, SearchLock, SearchDone, SearchRelease, UpdateReadUser, Abandon,
         Fail, CanFail, Starts
<1>2. cur[w] \in Requests
  BY <1>1 DEF TypeInv, TypeOK, CurOfBusy
<1>3. UNCHANGED <<main, reader, client, queueVars, cur>>
  BY DEF Inner, BindAnonymous, BindRefuse, BindVerified, BindSetUser, BindSuccess, WriteReply,
         Unbind, SearchLock, SearchDone, SearchRelease, UpdateReadUser, Abandon,
         Fail
<1>4. \E to \in Phases \ {"idle"} : Move(w, to)
  BY DEF Inner, BindAnonymous, BindRefuse, BindVerified, BindSetUser, BindSuccess, WriteReply,
         Unbind, SearchLock, SearchDone, SearchRelease, UpdateReadUser, Abandon,
         Fail, Phases
<1> QED BY <1>1, <1>2, <1>3, <1>4

LEMMA TypeInner ==
  ASSUME TypeInv, NEW w \in Workers, Inner(w)
  PROVE  TypeInv'
<1>1. PICK to \in Phases \ {"idle"} : Move(w, to)
  BY InnerMoves
<1>2. cur[w] \in Requests /\ phase[w] # "idle"
      /\ UNCHANGED <<main, reader, client, queueVars, cur>>
  BY InnerMoves
<1>3. phase' \in [Workers -> Phases]
  BY <1>1 DEF Move, TypeInv, TypeOK
<1>4. /\ lock' \in Workers \cup {NoWorker}
      /\ user' \in Users \cup {NoUser}
      /\ seen' \in [Workers -> Users \cup {NoUser}]
      /\ answers' \in [Messages -> Nat]
      /\ clientUser' \in Users \cup {NoUser} /\ kept' \in Users \cup {NoUser}
  <2>0. /\ cur[w] \in Messages /\ Account[cur[w]] \in Users \cup {NoUser}
        /\ user \in Users \cup {NoUser} /\ lock \in Workers \cup {NoWorker}
        /\ seen \in [Workers -> Users \cup {NoUser}]
        /\ answers \in [Messages -> Nat]
        /\ clientUser \in Users \cup {NoUser} /\ kept \in Users \cup {NoUser}
    BY <1>2, ConnectionAssumption DEF TypeInv, TypeOK, Messages
  <2>1. CASE BindAnonymous(w) \/ BindRefuse(w)
    BY <2>0, <2>1 DEF BindAnonymous, BindRefuse, lockVars, outVars
  <2>2. CASE BindVerified(w)
    BY <2>0, <2>2 DEF BindVerified, lockVars, outVars
  <2>3. CASE BindSetUser(w)
    BY <2>0, <2>3 DEF BindSetUser, lockVars, outVars
  <2>4. CASE BindSuccess(w)
    BY <2>0, <2>4 DEF BindSuccess, lockVars, outVars
  <2>5. CASE WriteReply(w)
    BY <2>0, <2>5 DEF WriteReply, Told, lockVars, outVars
  <2>6. CASE Unbind(w)
    BY <2>0, <2>6 DEF Unbind, lockVars, outVars
  <2>7. CASE SearchLock(w)
    BY <2>0, <2>7 DEF SearchLock, lockVars, outVars
  <2>8. CASE SearchDone(w)
    BY <2>0, <2>8 DEF SearchDone, lockVars, outVars
  <2>9. CASE SearchRelease(w)
    BY <2>0, <2>9 DEF SearchRelease, lockVars, outVars
  <2>10. CASE UpdateReadUser(w)
    BY <2>0, <2>10 DEF UpdateReadUser, lockVars, outVars
  <2>11. CASE Abandon(w)
    BY <2>0, <2>11 DEF Abandon, lockVars, outVars
  <2>12. CASE Fail(w)
    BY <2>0, <2>12 DEF Fail, lockVars, outVars
  <2> QED BY <2>1, <2>2, <2>3, <2>4, <2>5, <2>6, <2>7, <2>8, <2>9, <2>10, <2>11, <2>12 DEF Inner
<1>5. TypeOK'
  BY <1>2, <1>3, <1>4 DEF TypeInv, TypeOK, queueVars, Messages
<1>6. CurOfBusy'
  BY <1>1, <1>2, ConnectionAssumption DEF Move, TypeInv, TypeOK, CurOfBusy
<1>7. Accounting'
  <2>1. Cardinality(Occupied)' = Cardinality(Occupied)
    BY <1>1, <1>2, OccupiedMoves, OccupiedFinite DEF TypeInv
  <2> QED BY <1>2, <2>1 DEF TypeInv, Accounting, Occupied, queueVars
<1> QED BY <1>5, <1>6, <1>7 DEF TypeInv

\* The steps in which a worker meets the queue, and the end of a handler.
LEMMA TypeOuter ==
  ASSUME TypeInv, NEW w \in Workers, Take(w) \/ TaskDone(w) \/ CloseHandler(w)
  PROVE  TypeInv'
<1>1. CASE Take(w)
  <2>1. /\ Head(queue) \in Requests /\ Tail(queue) \in Seq(Requests)
        /\ Len(queue) \in Nat /\ Len(Tail(queue)) = Len(queue) - 1
    BY <1>1, HeadTailProperties, LenProperties DEF Take, TypeInv, TypeOK
  <2>2. TypeOK' /\ CurOfBusy'
    BY <1>1, <2>1, ConnectionAssumption
    DEF Take, Move, TypeInv, TypeOK, CurOfBusy, Phases, Messages, lockVars, outVars
  <2>3. Cardinality(Occupied)' = Cardinality(Occupied) + 1
    BY <1>1, OccupiedMoves, OccupiedFinite DEF Take, TypeInv, Phases
  <2>4. Accounting'
    BY <1>1, <2>1, <2>3, OccupiedFinite DEF Take, TypeInv, Accounting, Occupied
  <2> QED BY <2>2, <2>4 DEF TypeInv
<1>2. CASE TaskDone(w)
  <2>1. Cardinality(Occupied)' = Cardinality(Occupied) - 1
    BY <1>2, OccupiedMoves, OccupiedFinite DEF TaskDone, TypeInv, Phases
  <2>2. Len(queue) \in Nat
    BY LenProperties DEF TypeInv, TypeOK
  <2>3. Accounting'
    BY <1>2, <2>1, <2>2, OccupiedFinite
    DEF TaskDone, TypeInv, Accounting, Occupied
  <2>4. unfinished' \in Nat
    BY <1>2, <2>2, OccupiedFinite, OccupiedPositive
    DEF TaskDone, TypeInv, TypeOK, Accounting, Occupied
  <2>5. cur[w] \in Requests
    BY <1>2 DEF TaskDone, TypeInv, TypeOK, CurOfBusy
  <2>6. TypeOK' /\ CurOfBusy'
    BY <1>2, <2>4, <2>5, ConnectionAssumption
    DEF TaskDone, Move, TypeInv, TypeOK, CurOfBusy, Phases, Messages, lockVars, outVars
  <2> QED BY <2>3, <2>6 DEF TypeInv
<1>3. CASE CloseHandler(w)
  BY <1>3 DEF CloseHandler, TypeInv, TypeOK, CurOfBusy, Accounting, Messages,
              queueVars, workerVars, outVars
<1> QED BY <1>1, <1>2, <1>3

LEMMA TypeStep == TypeInv /\ [Next]_vars => TypeInv'
<1> SUFFICES ASSUME TypeInv, [Next]_vars PROVE TypeInv'
  OBVIOUS
<1>1. ASSUME NEW w \in Workers, Work(w) \/ Fail(w) \/ CloseHandler(w)
      PROVE  TypeInv'
  BY <1>1, TypeInner, TypeOuter DEF Work, Inner
<1> QED BY <1>1, TypeOutside DEF Next

\* Type correctness.
THEOREM TypeCorrect == Spec => []TypeOK
<1>1. Spec => []TypeInv
  BY TypeInit, TypeStep, PTL DEF Spec
<1>2. TypeInv => TypeOK
  BY DEF TypeInv
<1> QED BY <1>1, <1>2, PTL

\* queue.join() waits for the queued requests and for the workers that have
\* one, the dead ones included (asyncio.Queue, _handle_single_response).
THEOREM AccountingCorrect == Spec => []Accounting
<1>1. Spec => []TypeInv
  BY TypeInit, TypeStep, PTL DEF Spec
<1>2. TypeInv => Accounting
  BY DEF TypeInv
<1> QED BY <1>1, <1>2, PTL

-----------------------------------------------------------------------------
(* The inductive invariant behind the safety properties *)

\* Only a search holds the lock, from its first response to its last, and
\* the session's user is the one it was let in as.
LockInv ==
  lock # NoWorker =>
    /\ phase[lock] \in {"stream", "release", "dead"}
    /\ seen[lock] = user

\* The connection task leaves gather() only when a task of it ended, and
\* closes the writer only when no request is unfinished.
CloseInv ==
  /\ main = "setup" => reader = "waiting"
  /\ main = "joining" => reader # "reading" \/ Dead # {}
  /\ main = "closed" => reader # "reading" /\ unfinished = 0

Queued == {queue[i] : i \in 1..Len(queue)}
Holding(w) == cur[w] # NoRequest

\* Every accepted request is queued, with a worker or handled ...
Conserved ==
  /\ \A r \in accepted \cap Requests :
       r \in handled \/ r \in Queued \/ \E w \in Workers : cur[w] = r
  /\ handled \subseteq accepted /\ Queued \subseteq accepted
  /\ \A w \in Workers : Holding(w) => cur[w] \in accepted

\* ... and only one of these, once.
Apart ==
  /\ \A i, j \in 1..Len(queue) : queue[i] = queue[j] => i = j
  /\ \A r \in Queued : r \notin handled
  /\ \A w \in Workers : Holding(w) => cur[w] \notin handled /\ cur[w] \notin Queued
  /\ \A v, w \in Workers : Holding(v) /\ cur[v] = cur[w] => v = w

Expected(r) == IF Kind[r] \in {"unbind", "abandon"} THEN 0 ELSE 1

\* The phases a worker passes through depend on the request it has.
KindInv ==
  \A w \in Workers :
    /\ phase[w] \in {"setUser", "granted"} => Kind[cur[w]] = "bind"
    /\ phase[w] = "reply" => Kind[cur[w]] \in {"bind", "update"}
    /\ phase[w] \in {"stream", "release"} => Kind[cur[w]] = "search"

\* How many answers a request has got, by where it is.
AnswerInv ==
  /\ \A r \in Requests : r \notin accepted \/ r \in Queued => answers[r] = 0
  /\ \A r \in handled : answers[r] = Expected(r)
  /\ \A w \in Workers : Holding(w) =>
       /\ phase[w] \notin {"release", "finish", "dead"} => answers[cur[w]] = 0
       /\ phase[w] \in {"release", "finish"} => answers[cur[w]] = Expected(cur[w])
       /\ phase[w] = "dead" => answers[cur[w]] <= 1

SafeInv ==
  /\ TypeInv /\ LockInv /\ CloseInv
  /\ Conserved /\ Apart /\ KindInv /\ AnswerInv

LEMMA SafeInit == Init => SafeInv
<1> SUFFICES ASSUME Init PROVE SafeInv
  OBVIOUS
<1>1. Queued = {}
  BY DEF Init, Queued
<1>2. Conserved /\ Apart /\ AnswerInv
  BY <1>1 DEF Init, Conserved, Apart, AnswerInv, Holding, Messages
<1>3. LockInv /\ CloseInv /\ KindInv
  BY DEF Init, LockInv, CloseInv, KindInv
<1> QED BY TypeInit, <1>2, <1>3 DEF SafeInv

-----------------------------------------------------------------------------
(* The session lock *)

LEMMA LockStep == SafeInv /\ [Next]_vars => LockInv'
<1> SUFFICES ASSUME SafeInv, [Next]_vars PROVE LockInv'
  OBVIOUS
<1> USE DEF SafeInv, LockInv, TypeInv, TypeOK
<1>1. CASE Disconnect \/ Main \/ Reader \/ UNCHANGED vars
  BY <1>1 DEF Disconnect, Main, PolicyFound, PolicyRefused, GatherRaises,
              JoinReturns, Reader, ReadRequest, ReadMalformed, ReadEof, vars,
              workerVars, lockVars
<1>2. ASSUME NEW w \in Workers, Work(w) \/ Fail(w) \/ CloseHandler(w)
      PROVE  LockInv'
  <2>1. CASE Take(w)
    BY <2>1 DEF Take, Move, lockVars
  <2>2. CASE BindAnonymous(w) \/ BindRefuse(w) \/ BindVerified(w)
    BY <2>2 DEF BindAnonymous, BindRefuse, BindVerified, Starts, Move, lockVars
  <2>3. CASE BindSetUser(w)
    BY <2>3 DEF BindSetUser
  <2>4. CASE BindSuccess(w) \/ WriteReply(w)
    BY <2>4 DEF BindSuccess, WriteReply, Move, lockVars
  <2>5. CASE Unbind(w)
    BY <2>5 DEF Unbind
  <2>6. CASE SearchLock(w)
    BY <2>6 DEF SearchLock, Move
  <2>7. CASE SearchDone(w)
    BY <2>7 DEF SearchDone, Move, lockVars
  <2>8. CASE SearchRelease(w) \/ CloseHandler(w)
    BY <2>8 DEF SearchRelease, CloseHandler
  <2>9. CASE UpdateReadUser(w)
    BY <2>9 DEF UpdateReadUser, Starts, Move
  <2>10. CASE Abandon(w) \/ TaskDone(w)
    BY <2>10 DEF Abandon, TaskDone, Starts, Move, lockVars
  <2>11. CASE Fail(w)
    BY <2>11 DEF Fail, Move
  <2> QED BY <1>2, <2>1, <2>2, <2>3, <2>4, <2>5, <2>6, <2>7, <2>8, <2>9, <2>10,
             <2>11 DEF Work
<1> QED BY <1>1, <1>2 DEF Next

-----------------------------------------------------------------------------
(* The end of the connection *)

\* A dead worker is among those the count of unfinished requests is about.
LEMMA NothingUnfinished ==
  ASSUME TypeInv, unfinished = 0
  PROVE  queue = <<>> /\ \A w \in Workers : phase[w] = "idle"
<1>1. Len(queue) \in Nat
  BY LenProperties DEF TypeInv, TypeOK
<1>2. Len(queue) = 0 /\ Cardinality(Occupied) = 0
  BY <1>1, OccupiedFinite DEF TypeInv, Accounting, Occupied
<1>3. queue = <<>>
  BY <1>2, EmptySeq DEF TypeInv, TypeOK
<1>4. \A w \in Workers : phase[w] = "idle"
  BY <1>2, OccupiedPositive
<1> QED BY <1>3, <1>4

LEMMA CloseStep == SafeInv /\ [Next]_vars => CloseInv'
<1> SUFFICES ASSUME SafeInv, [Next]_vars PROVE CloseInv'
  OBVIOUS
<1> USE DEF SafeInv, CloseInv, Dead
<1>1. CASE Disconnect \/ UNCHANGED vars
  BY <1>1 DEF Disconnect, vars, queueVars, workerVars
<1>2. CASE PolicyFound \/ PolicyRefused \/ GatherRaises
  BY <1>2 DEF PolicyFound, PolicyRefused, GatherRaises, workerVars
<1>3. CASE JoinReturns
  <2>1. Dead = {}
    BY <1>3, NothingUnfinished DEF JoinReturns
  <2> QED BY <1>3, <2>1 DEF JoinReturns, queueVars
<1>4. CASE Reader
  BY <1>4 DEF Reader, ReadRequest, ReadMalformed, ReadEof, workerVars, queueVars
<1>5. ASSUME NEW w \in Workers, Work(w) \/ Fail(w) \/ CloseHandler(w)
      PROVE  CloseInv'
  <2>1. CASE Inner(w)
    <3>1. PICK to \in Phases : Move(w, to)
      BY <2>1, InnerMoves
    <3>2. \A v \in Dead : phase'[v] = "dead"
      BY <2>1, <3>1, InnerMoves DEF Move, TypeInv, TypeOK
    <3> QED BY <2>1, <3>2, InnerMoves DEF queueVars
  <2>2. CASE Take(w)
    BY <2>2 DEF Take, Move, TypeInv, TypeOK
  <2>3. CASE TaskDone(w)
    <3>1. unfinished # 0
      BY <2>3, NothingUnfinished DEF TaskDone
    <3> QED BY <2>3, <3>1 DEF TaskDone, Move, TypeInv, TypeOK
  <2>4. CASE CloseHandler(w)
    BY <2>4 DEF CloseHandler, workerVars, queueVars
  <2> QED BY <1>5, <2>1, <2>2, <2>3, <2>4 DEF Work, Inner
<1> QED BY <1>1, <1>2, <1>3, <1>4, <1>5 DEF Next, Main

-----------------------------------------------------------------------------
(* Where the requests are *)

\* The steps that touch neither the queue nor what the workers hold.
LEMMA StaysPut ==
  ASSUME SafeInv, Next,
         \A r \in Requests : ~ReadRequest(r), \A m \in Malformed : ~ReadMalformed(m),
         \A w \in Workers : ~Take(w) /\ ~TaskDone(w)
  PROVE  UNCHANGED <<accepted, queue, handled, cur>>
<1>1. CASE Disconnect \/ Main \/ ReadEof
  BY <1>1 DEF Disconnect, Main, PolicyFound, PolicyRefused, GatherRaises,
              JoinReturns, ReadEof, queueVars, workerVars
<1>2. ASSUME NEW w \in Workers, Inner(w) \/ CloseHandler(w)
      PROVE  UNCHANGED <<accepted, queue, handled, cur>>
  BY <1>2, InnerMoves DEF SafeInv, CloseHandler, queueVars, workerVars
<1> QED BY <1>1, <1>2 DEF Next, Reader, Work, Inner

\* What Append and Tail do to the requests in the queue.
LEMMA QueuedAppend ==
  ASSUME NEW r \in Requests, queue \in Seq(Requests), queue' = Append(queue, r)
  PROVE  Queued' = Queued \cup {r}
<1>1. /\ Len(queue) \in Nat /\ Len(queue') = Len(queue) + 1
      /\ \A i \in 1..Len(queue) : queue'[i] = queue[i]
      /\ queue'[Len(queue) + 1] = r
  BY AppendProperties, LenProperties
<1> QED BY <1>1 DEF Queued

LEMMA QueuedTail ==
  ASSUME queue \in Seq(Requests), queue # <<>>, queue' = Tail(queue)
  PROVE  /\ Len(queue) \in Nat /\ Len(queue) > 0 /\ Len(queue') = Len(queue) - 1
         /\ \A i \in 1..Len(queue') : queue'[i] = queue[i + 1]
         /\ Head(queue) = queue[1]
         /\ Queued' \subseteq Queued /\ Head(queue) \in Queued
         /\ Queued \subseteq Queued' \cup {Head(queue)}
<1>1. /\ Len(queue) \in Nat /\ Len(queue) > 0 /\ Len(queue') = Len(queue) - 1
      /\ \A i \in 1..Len(queue') : queue'[i] = queue[i + 1]
      /\ Head(queue) = queue[1]
  BY HeadTailProperties, LenProperties, EmptySeq
<1>2. Queued' \subseteq Queued /\ Head(queue) \in Queued
  BY <1>1 DEF Queued
<1>3. ASSUME NEW i \in 1..Len(queue), i # 1
      PROVE  queue[i] \in Queued'
  <2>1. i - 1 \in 1..Len(queue') /\ queue'[i - 1] = queue[i]
    BY <1>1, <1>3
  <2> QED BY <2>1 DEF Queued
<1> QED BY <1>1, <1>2, <1>3 DEF Queued

LEMMA PlaceStep == SafeInv /\ [Next]_vars => Conserved' /\ Apart'
<1> SUFFICES ASSUME SafeInv, [Next]_vars PROVE Conserved' /\ Apart'
  OBVIOUS
<1> USE DEF SafeInv, TypeInv, TypeOK, Holding
<1>1. CASE UNCHANGED <<accepted, queue, handled, cur>>
  <2>1. Queued' = Queued
    BY <1>1 DEF Queued
  <2>2. Conserved'
    BY <1>1, <2>1 DEF Conserved
  <2>3. Apart'
    BY <1>1, <2>1 DEF Apart
  <2> QED BY <2>2, <2>3
<1>2. ASSUME NEW r \in Requests, ReadRequest(r)
      PROVE  Conserved' /\ Apart'
  <2>1. Queued' = Queued \cup {r} /\ accepted' = accepted \cup {r} /\ r \notin accepted
        /\ UNCHANGED <<handled, cur>>
    BY <1>2, QueuedAppend DEF ReadRequest, MaySend, workerVars
  <2>2. Conserved'
    BY <2>1 DEF Conserved
  <2>3. \A i, j \in 1..Len(queue') : queue'[i] = queue'[j] => i = j
    <3>1. /\ Len(queue) \in Nat /\ Len(queue') = Len(queue) + 1
          /\ \A i \in 1..Len(queue) : queue'[i] = queue[i]
          /\ queue'[Len(queue) + 1] = r
      BY <1>2, AppendProperties, LenProperties DEF ReadRequest
    <3>2. \A i \in 1..Len(queue) : queue[i] # r
      BY <2>1 DEF Conserved, Queued
    <3>3. \A i, j \in 1..Len(queue) : queue[i] = queue[j] => i = j
      BY DEF Apart
    <3>4. \A i \in 1..Len(queue') : i \in 1..Len(queue) \/ i = Len(queue) + 1
      BY <3>1
    <3> HIDE DEF SafeInv, TypeInv, TypeOK
    <3> QED BY <3>1, <3>2, <3>3, <3>4
  <2>4. Apart'
    BY <2>1, <2>3 DEF Conserved, Apart
  <2> QED BY <2>2, <2>4
<1>3. ASSUME NEW m \in Malformed, ReadMalformed(m)
      PROVE  Conserved' /\ Apart'
  <2>1. accepted' = accepted \cup {m} /\ m \notin Requests
        /\ UNCHANGED <<queue, handled, cur>>
    BY <1>3, ConnectionAssumption DEF ReadMalformed, workerVars
  <2>2. Queued' = Queued
    BY <2>1 DEF Queued
  <2>3. Conserved'
    BY <2>1, <2>2 DEF Conserved
  <2>4. Apart'
    BY <2>1, <2>2 DEF Apart
  <2> QED BY <2>3, <2>4
<1>4. ASSUME NEW w \in Workers, Take(w)
      PROVE  Conserved' /\ Apart'
  <2>1. queue \in Seq(Requests) /\ queue # <<>> /\ queue' = Tail(queue)
    BY <1>4 DEF Take
  <2>2. /\ Len(queue) \in Nat /\ Len(queue) > 0 /\ Len(queue') = Len(queue) - 1
        /\ \A i \in 1..Len(queue') : queue'[i] = queue[i + 1]
        /\ Head(queue) = queue[1]
        /\ Queued' \subseteq Queued /\ Head(queue) \in Queued
        /\ Queued \subseteq Queued' \cup {Head(queue)}
    BY <2>1, QueuedTail
  <2>3. /\ cur[w] = NoRequest /\ cur'[w] = Head(queue)
        /\ \A v \in Workers \ {w} : cur'[v] = cur[v]
        /\ UNCHANGED <<accepted, handled>>
    BY <1>4 DEF Take, CurOfBusy
  <2>4. Conserved'
    <3>1. ASSUME NEW r \in accepted \cap Requests
          PROVE  r \in handled \/ r \in Queued' \/ \E v \in Workers : cur'[v] = r
      <4>1. CASE r \in Queued
        BY <4>1, <2>2, <2>3
      <4>2. CASE \E v \in Workers : cur[v] = r
        BY <4>2, <2>3, ConnectionAssumption
      <4> QED BY <4>1, <4>2 DEF Conserved
    <3>2. \A v \in Workers : cur'[v] # NoRequest => cur'[v] \in accepted
      BY <2>2, <2>3 DEF Conserved
    <3> QED BY <3>1, <3>2, <2>2, <2>3 DEF Conserved
  <2>5. \A i, j \in 1..Len(queue') : queue'[i] = queue'[j] => i = j
    BY <2>2 DEF Apart
  <2>6. Head(queue) \notin Queued'
    <3>1. ASSUME NEW i \in 1..Len(queue') PROVE queue'[i] # Head(queue)
      <4>1. i + 1 \in 1..Len(queue) /\ 1 \in 1..Len(queue) /\ i + 1 # 1
        BY <2>2
      <4> QED BY <2>2, <4>1 DEF Apart
    <3> QED BY <3>1 DEF Queued
  <2>7. \A r \in Queued' : r \notin handled'
    BY <2>2, <2>3 DEF Apart
  <2>8. \A v \in Workers :
          cur'[v] # NoRequest => cur'[v] \notin handled' /\ cur'[v] \notin Queued'
    BY <2>2, <2>3, <2>6 DEF Apart
  <2>9. \A u, v \in Workers : cur'[v] # NoRequest /\ cur'[u] = cur'[v] => u = v
    BY <2>2, <2>3 DEF Apart
  <2>10. Apart'
    BY <2>5, <2>7, <2>8, <2>9 DEF Apart
  <2> QED BY <2>4, <2>10
<1>5. ASSUME NEW w \in Workers, TaskDone(w)
      PROVE  Conserved' /\ Apart'
  <2>1. /\ cur[w] # NoRequest /\ cur[w] \in Requests /\ cur'[w] = NoRequest
        /\ \A v \in Workers \ {w} : cur'[v] = cur[v]
        /\ handled' = handled \cup {cur[w]}
        /\ UNCHANGED <<accepted, queue>>
    BY <1>5 DEF TaskDone, CurOfBusy
  <2>2. Queued' = Queued
    BY <2>1 DEF Queued
  <2>3. Conserved'
    BY <2>1, <2>2 DEF Conserved
  <2>4. Apart'
    BY <2>1, <2>2 DEF Apart
  <2> QED BY <2>3, <2>4
<1> QED BY <1>1, <1>2, <1>3, <1>4, <1>5, StaysPut DEF vars

-----------------------------------------------------------------------------
(* The answers *)

LEMMA KindStep == SafeInv /\ [Next]_vars => KindInv'
<1> SUFFICES ASSUME SafeInv, [Next]_vars PROVE KindInv'
  OBVIOUS
<1> USE DEF SafeInv, KindInv, TypeInv, TypeOK
<1>1. CASE UNCHANGED <<phase, cur>>
  BY <1>1
<1>2. ASSUME NEW w \in Workers, Inner(w)
      PROVE  KindInv'
  <2>1. cur' = cur
    BY <1>2, InnerMoves
  <2>2. PICK to \in Phases : Move(w, to)
    BY <1>2, InnerMoves
  <2>3. \A v \in Workers \ {w} : phase'[v] = phase[v]
    BY <2>2 DEF Move
  <2>4. /\ phase'[w] \in {"setUser", "granted"} => Kind[cur[w]] = "bind"
        /\ phase'[w] = "reply" => Kind[cur[w]] \in {"bind", "update"}
        /\ phase'[w] \in {"stream", "release"} => Kind[cur[w]] = "search"
    BY <1>2 DEF Inner, Move, Starts, BindAnonymous, BindRefuse, BindVerified, BindSetUser,
                BindSuccess, WriteReply, Unbind, SearchLock, SearchDone,
                SearchRelease, UpdateReadUser, Abandon, Fail
  <2> QED BY <2>1, <2>3, <2>4
<1>3. ASSUME NEW w \in Workers, Take(w) \/ TaskDone(w)
      PROVE  KindInv'
  <2>1. /\ phase'[w] \in {"start", "idle"}
        /\ \A v \in Workers \ {w} : phase'[v] = phase[v] /\ cur'[v] = cur[v]
    BY <1>3 DEF Take, TaskDone, Move
  <2> QED BY <2>1
<1>4. \/ UNCHANGED <<phase, cur>>
      \/ \E w \in Workers : Inner(w) \/ Take(w) \/ TaskDone(w)
  BY DEF Next, Work, Inner, Disconnect, Main, PolicyFound, PolicyRefused,
         GatherRaises, JoinReturns, Reader, ReadRequest, ReadMalformed, ReadEof,
         CloseHandler, workerVars, vars
<1> QED BY <1>1, <1>2, <1>3, <1>4

\* What one step of a worker writes for the request it has.
LEMMA InnerAnswers ==
  ASSUME SafeInv, NEW w \in Workers, Inner(w)
  PROVE  /\ cur[w] \in Requests
         /\ \A m \in Messages \ {cur[w]} : answers'[m] = answers[m]
         /\ phase'[w] \in {"setUser", "granted", "reply", "stream"}
              => answers'[cur[w]] = 0
         /\ phase'[w] \in {"release", "finish"} => answers'[cur[w]] = Expected(cur[w])
         /\ phase'[w] = "dead" => answers'[cur[w]] <= 1
         /\ phase'[w] \in Phases \ {"idle", "start"}
<1>1. /\ phase[w] \notin {"idle", "dead"} /\ cur[w] \in Requests
      /\ phase \in [Workers -> Phases] /\ answers \in [Messages -> Nat]
      /\ Requests \subseteq Messages
  BY InnerMoves DEF SafeInv, TypeInv, TypeOK, Messages
<1>2. /\ phase[w] \notin {"release", "finish"} => answers[cur[w]] = 0
      /\ phase[w] \in {"release", "finish"} => answers[cur[w]] = Expected(cur[w])
  BY <1>1, ConnectionAssumption DEF SafeInv, AnswerInv, Holding
<1>3. /\ phase[w] = "granted" => Kind[cur[w]] = "bind"
      /\ phase[w] = "reply" => Kind[cur[w]] \in {"bind", "update"}
      /\ phase[w] = "stream" => Kind[cur[w]] = "search"
  BY DEF SafeInv, KindInv
<1>4. CASE BindAnonymous(w) \/ BindRefuse(w) \/ BindVerified(w) \/ BindSetUser(w) \/ SearchLock(w)
           \/ UpdateReadUser(w)
  BY <1>1, <1>2, <1>4 DEF BindAnonymous, BindRefuse, BindVerified, BindSetUser, SearchLock,
     UpdateReadUser, Starts, Move, outVars, Phases
<1>5. CASE BindSuccess(w)
  BY <1>1, <1>2, <1>3, <1>5 DEF BindSuccess, Move, Expected, Phases
<1>6. CASE WriteReply(w)
  BY <1>1, <1>2, <1>3, <1>6 DEF WriteReply, Move, Expected, Phases
<1>7. CASE SearchDone(w)
  BY <1>1, <1>2, <1>3, <1>7 DEF SearchDone, Move, Expected, Phases
<1>8. CASE SearchRelease(w)
  BY <1>1, <1>2, <1>8 DEF SearchRelease, Move, outVars, Phases
<1>9. CASE Unbind(w) \/ Abandon(w)
  BY <1>1, <1>2, <1>9 DEF Unbind, Abandon, Starts, Move, outVars, Phases, Expected
<1>10. CASE Fail(w)
  BY <1>1, <1>2, <1>10 DEF Fail, Move, outVars, Phases, Expected
<1> QED BY <1>1, <1>4, <1>5, <1>6, <1>7, <1>8, <1>9, <1>10 DEF Inner

LEMMA AnswerStep == SafeInv /\ [Next]_vars => AnswerInv'
<1> SUFFICES ASSUME SafeInv, [Next]_vars PROVE AnswerInv'
  OBVIOUS
<1> USE DEF Holding
<1>0. /\ TypeOK /\ CurOfBusy /\ AnswerInv /\ Conserved /\ Apart
      /\ Requests \subseteq Messages /\ NoRequest \notin Requests
  BY ConnectionAssumption DEF SafeInv, TypeInv, Messages
<1>1. CASE UNCHANGED <<accepted, queue, handled, phase, cur, answers>>
  <2>1. Queued' = Queued
    BY <1>1 DEF Queued
  <2> QED BY <1>0, <1>1, <2>1 DEF AnswerInv
<1>2. ASSUME NEW r \in Requests, ReadRequest(r)
      PROVE  AnswerInv'
  <2>1. Queued' = Queued \cup {r} /\ accepted' = accepted \cup {r} /\ r \notin accepted
        /\ UNCHANGED <<handled, phase, cur, answers>>
    BY <1>0, <1>2, QueuedAppend DEF ReadRequest, MaySend, TypeOK, workerVars, outVars
  <2> QED BY <1>0, <2>1 DEF AnswerInv
<1>3. ASSUME NEW m \in Malformed, ReadMalformed(m)
      PROVE  AnswerInv'
  <2>1. accepted \subseteq accepted' /\ UNCHANGED <<queue, handled, phase, cur, answers>>
    BY <1>3 DEF ReadMalformed, workerVars, outVars
  <2>2. Queued' = Queued
    BY <2>1 DEF Queued
  <2> QED BY <1>0, <2>1, <2>2 DEF AnswerInv
<1>4. ASSUME NEW w \in Workers, Take(w)
      PROVE  AnswerInv'
  <2>1. Queued' \subseteq Queued /\ Head(queue) \in Queued /\ Head(queue) \in Requests
    BY <1>0, <1>4, QueuedTail, HeadTailProperties DEF Take, TypeOK
  <2>2. /\ phase'[w] = "start" /\ cur'[w] = Head(queue)
        /\ \A v \in Workers \ {w} : phase'[v] = phase[v] /\ cur'[v] = cur[v]
        /\ UNCHANGED <<accepted, handled, answers>>
    BY <1>0, <1>4 DEF Take, Move, TypeOK, outVars
  <2> QED BY <1>0, <2>1, <2>2 DEF AnswerInv
<1>5. ASSUME NEW w \in Workers, TaskDone(w)
      PROVE  AnswerInv'
  <2>1. /\ phase[w] = "finish" /\ cur[w] \in Requests /\ cur'[w] = NoRequest
        /\ \A v \in Workers \ {w} : phase'[v] = phase[v] /\ cur'[v] = cur[v]
        /\ handled' = handled \cup {cur[w]}
        /\ UNCHANGED <<accepted, queue, answers>>
    BY <1>0, <1>5 DEF TaskDone, Move, TypeOK, CurOfBusy, outVars
  <2>2. Queued' = Queued
    BY <2>1 DEF Queued
  <2> QED BY <1>0, <2>1, <2>2 DEF AnswerInv
<1>6. ASSUME NEW w \in Workers, Inner(w)
      PROVE  AnswerInv'
  <2>1. UNCHANGED <<accepted, queue, handled, cur>>
    BY <1>6, InnerMoves DEF SafeInv, queueVars
  <2>2. Queued' = Queued
    BY <2>1 DEF Queued
  <2>3. \A v \in Workers \ {w} : phase'[v] = phase[v]
    BY <1>0, <1>6, InnerMoves DEF SafeInv, Move, TypeOK
  <2>4. /\ cur[w] \in accepted /\ cur[w] \notin Queued /\ cur[w] \notin handled
        /\ \A v \in Workers \ {w} : cur[v] # cur[w]
    BY <1>0, <1>6, InnerAnswers DEF Conserved, Apart
  <2>5. \A r \in Requests : r \notin accepted' \/ r \in Queued' => answers'[r] = 0
    BY <1>0, <1>6, <2>1, <2>2, <2>4, InnerAnswers DEF AnswerInv
  <2>6. \A r \in handled' : answers'[r] = Expected(r)
    BY <1>0, <1>6, <2>1, <2>4, InnerAnswers DEF AnswerInv, TypeOK
  <2>7. ASSUME NEW v \in Workers, cur'[v] # NoRequest
        PROVE  /\ phase'[v] \notin {"release", "finish", "dead"} => answers'[cur'[v]] = 0
               /\ phase'[v] \in {"release", "finish"}
                    => answers'[cur'[v]] = Expected(cur'[v])
               /\ phase'[v] = "dead" => answers'[cur'[v]] <= 1
    <3>1. CASE v = w
      BY <3>1, <1>6, <2>1, InnerAnswers DEF Phases
    <3>2. CASE v # w
      <4>1. cur[v] \in Messages \ {cur[w]}
        BY <1>0, <2>1, <2>4, <2>7, <3>2 DEF TypeOK
      <4> QED BY <1>0, <1>6, <2>1, <2>3, <2>7, <3>2, <4>1, InnerAnswers DEF AnswerInv
    <3> QED BY <3>1, <3>2
  <2> QED BY <2>5, <2>6, <2>7 DEF AnswerInv
<1>7. \/ UNCHANGED <<accepted, queue, handled, phase, cur, answers>>
      \/ \E r \in Requests : ReadRequest(r)
      \/ \E m \in Malformed : ReadMalformed(m)
      \/ \E w \in Workers : Inner(w) \/ Take(w) \/ TaskDone(w)
  BY DEF Next, Work, Inner, Disconnect, Main, PolicyFound, PolicyRefused,
         GatherRaises, JoinReturns, Reader, ReadEof, CloseHandler,
         workerVars, queueVars, outVars, vars
<1> QED BY <1>1, <1>2, <1>3, <1>4, <1>5, <1>6, <1>7

-----------------------------------------------------------------------------
(* The theorems *)

LEMMA SafeAlways == Spec => []SafeInv
<1>1. SafeInv /\ [Next]_vars => SafeInv'
  BY TypeStep, LockStep, CloseStep, PlaceStep, KindStep, AnswerStep DEF SafeInv
<1> QED BY SafeInit, <1>1, PTL DEF Spec

\* While a search streams its entries under the session lock, no bind or
\* unbind changes the user it was let in as (dialogue.py, lock()).
THEOREM SearchIdentityHolds == Spec => []SearchIdentity
<1>1. SafeInv => SearchIdentity
  BY DEF SafeInv, LockInv, SearchIdentity
<1> QED BY SafeAlways, <1>1, PTL

\* When __aexit__ has closed the writer, all accepted requests are handled
\* and no worker is in the middle of one.
THEOREM GracefulDrainHolds == Spec => []GracefulDrain
<1>1. SafeInv => GracefulDrain
  <2> SUFFICES ASSUME SafeInv, main = "closed" PROVE GracefulDrain
    BY DEF GracefulDrain
  <2>1. reader # "reading" /\ queue = <<>> /\ \A w \in Workers : phase[w] = "idle"
    BY NothingUnfinished DEF SafeInv, CloseInv
  <2>2. Queued = {} /\ \A w \in Workers : cur[w] = NoRequest
    BY <2>1 DEF Queued, SafeInv, TypeInv, CurOfBusy
  <2>3. accepted \cap Requests = handled
    BY <2>2, ConnectionAssumption DEF SafeInv, Conserved, TypeInv, TypeOK
  <2> QED BY <2>1, <2>3 DEF GracefulDrain
<1> QED BY SafeAlways, <1>1, PTL

\* No pipelined request is lost, handled twice or answered twice, whatever
\* the order in which the workers finish.
THEOREM ExactlyOnceHolds == Spec => []ExactlyOnce
<1>1. SafeInv => ExactlyOnce
  <2> SUFFICES ASSUME SafeInv PROVE ExactlyOnce
    OBVIOUS
  <2>1. \A i, j \in 1..Len(queue) : queue[i] = queue[j] => i = j
    BY DEF SafeInv, Apart
  <2>2. ASSUME NEW r \in accepted \cap Requests
        PROVE  LET places == {w \in Workers : cur[w] = r}
               IN  /\ Cardinality(places) <= 1
                   /\ (r \in handled \/ places # {})
                        <=> ~\E i \in 1..Len(queue) : queue[i] = r
                   /\ r \in handled => places = {}
                   /\ answers[r] <= 1
                   /\ r \in handled =>
                        answers[r] = IF Kind[r] \in {"unbind", "abandon"} THEN 0 ELSE 1
    <3> DEFINE places == {w \in Workers : cur[w] = r}
    <3>0. r # NoRequest
      BY ConnectionAssumption
    <3>1. Cardinality(places) <= 1
      <4>1. CASE places = {}
        BY <4>1, FS_EmptySet
      <4>2. CASE places # {}
        <5>1. PICK w \in places : TRUE
          BY <4>2
        <5>2. places = {w}
          BY <3>0, <5>1 DEF SafeInv, Apart, Holding
        <5>3. Cardinality({w}) = 1
          BY FS_Singleton
        <5> HIDE DEF places
        <5> QED BY <5>2, <5>3
      <4> QED BY <4>1, <4>2
    <3>2. r \in Queued <=> \E i \in 1..Len(queue) : queue[i] = r
      BY DEF Queued
    <3>3. (r \in handled \/ places # {}) <=> r \notin Queued
      BY <3>0 DEF SafeInv, Conserved, Apart, Holding
    <3>4. r \in handled => places = {}
      BY <3>0 DEF SafeInv, Apart, Holding
    <3>5. r \in handled => answers[r] = Expected(r)
      BY DEF SafeInv, AnswerInv
    <3>6. answers[r] <= 1
      <4>1. CASE r \in handled
        BY <4>1, <3>5 DEF Expected
      <4>2. CASE r \in Queued
        BY <4>2 DEF SafeInv, AnswerInv
      <4>3. ASSUME NEW w \in Workers, cur[w] = r
            PROVE  answers[r] <= 1
        BY <3>0, <4>3 DEF SafeInv, AnswerInv, Holding, Expected
      <4> QED BY <4>1, <4>2, <4>3 DEF SafeInv, Conserved
    <3> QED BY <3>1, <3>2, <3>3, <3>4, <3>5, <3>6 DEF Expected
  <2> QED BY <2>1, <2>2 DEF ExactlyOnce
<1> QED BY SafeAlways, <1>1, PTL

-----------------------------------------------------------------------------
(* The client that waits for its answers *)

\* A worker in these phases has yet to answer its request.
Active == {"start", "setUser", "granted", "reply", "stream"}

Unanswered == {m \in accepted : answers[m] = 0}

\* The user of the last bind by name that the client was told of.
ServedAs == IF kept = NoUser THEN clientUser ELSE kept

\* A client that waits has one message without an answer. The user of the
\* session differs from that of the last bind the client was told of only
\* between set_user() and the success of a bind, and after an unbind or a bind
\* that died.
TurnInv ==
  client = "waiting" =>
    /\ kept # NoUser => clientUser = NoUser
    /\ \A m, n \in Unanswered : m = n
    /\ Unanswered = {} \/ Queued # {} => user = ServedAs
    /\ \A w \in Workers :
         /\ phase[w] \in Active \ {"granted"} => user = ServedAs
         /\ phase[w] = "granted" => user = Account[cur[w]]
         /\ phase[w] \in {"stream", "reply"} /\ Kind[cur[w]] # "bind"
              => seen[w] = ServedAs

\* While a worker has an answer to give, nobody else has one to give.
LEMMA AloneActive ==
  ASSUME SafeInv, TurnInv, client = "waiting",
         NEW w \in Workers, phase[w] \in Active
  PROVE  /\ Unanswered = {cur[w]} /\ Queued = {}
         /\ \A v \in Workers \ {w} : phase[v] \notin Active
<1>1. ASSUME NEW v \in Workers, phase[v] \in Active
      PROVE  cur[v] # NoRequest /\ cur[v] \in Unanswered
  <2>1. cur[v] # NoRequest
    BY <1>1 DEF SafeInv, TypeInv, CurOfBusy, Active
  <2> QED BY <1>1, <2>1
          DEF SafeInv, Conserved, AnswerInv, Holding, Active, Unanswered
<1>2. Unanswered = {cur[w]}
  BY <1>1 DEF TurnInv
<1>3. ASSUME NEW r \in Queued PROVE FALSE
  <2>1. r \in Requests
    BY LenProperties DEF SafeInv, TypeInv, TypeOK, Queued
  <2>2. r \in Unanswered
    BY <1>3, <2>1 DEF SafeInv, Conserved, AnswerInv, Unanswered
  <2> QED BY <1>1, <1>2, <1>3, <2>2 DEF SafeInv, Apart, Holding
<1>4. ASSUME NEW v \in Workers \ {w}, phase[v] \in Active PROVE FALSE
  BY <1>1, <1>2, <1>4 DEF SafeInv, Apart, Holding
<1> QED BY <1>2, <1>3, <1>4

\* What the steps of a worker that has an answer to give do to the session.
LEMMA TurnWork ==
  ASSUME SafeInv, TurnInv, client = "waiting",
         NEW w \in Workers, Inner(w), phase[w] \in Active
  PROVE  /\ Unanswered' = {} => user' = ServedAs'
         /\ phase'[w] \in Active \ {"granted"} => user' = ServedAs'
         /\ phase'[w] = "granted" => user' = Account[cur[w]]
         /\ phase'[w] \in {"stream", "reply"} /\ Kind[cur[w]] # "bind"
              => seen'[w] = ServedAs'
         /\ Unanswered' \subseteq Unanswered
         /\ kept' # NoUser => clientUser' = NoUser
<1>1. /\ Unanswered = {cur[w]} /\ cur[w] \in Requests /\ cur[w] \in Messages
      /\ accepted' = accepted /\ answers \in [Messages -> Nat]
      /\ phase \in [Workers -> Phases] /\ seen \in [Workers -> Users \cup {NoUser}]
      /\ accepted \subseteq Messages
  BY AloneActive, InnerMoves DEF SafeInv, TypeInv, TypeOK, Messages, queueVars
<1>2. /\ phase[w] \in Active \ {"granted"} => user = ServedAs
      /\ phase[w] = "granted" => user = Account[cur[w]]
      /\ phase[w] \in {"stream", "reply"} /\ Kind[cur[w]] # "bind"
           => seen[w] = ServedAs
      /\ kept # NoUser => clientUser = NoUser
  BY DEF TurnInv
<1>3. \A m \in Messages \ {cur[w]} : answers'[m] = answers[m]
  BY InnerAnswers
<1>4. Unanswered' \subseteq Unanswered
  BY <1>1, <1>3 DEF Unanswered
<1>5. answers' = answers => Unanswered' = {cur[w]}
  BY <1>1 DEF Unanswered
<1>6. CASE BindAnonymous(w) \/ BindRefuse(w) \/ BindVerified(w)
  BY <1>1, <1>2, <1>4, <1>5, <1>6
  DEF BindAnonymous, BindRefuse, BindVerified, Starts, Move, Active, ServedAs, lockVars,
      outVars
<1>7. CASE BindSetUser(w) \/ BindSuccess(w)
  BY <1>1, <1>2, <1>4, <1>5, <1>7
  DEF BindSetUser, BindSuccess, Move, Active, ServedAs, lockVars, outVars
<1>8. CASE WriteReply(w) \/ SearchDone(w) \/ Abandon(w)
  <2>1. /\ phase'[w] \notin Active /\ user' = user
        /\ phase[w] \in Active \ {"granted"}
    BY <1>1, <1>8 DEF WriteReply, SearchDone, Abandon, Starts, Move, Active, lockVars
  <2>2. ServedAs' = ServedAs /\ (kept' # NoUser => clientUser' = NoUser)
    BY <1>2, <1>8 DEF WriteReply, Told, SearchDone, Abandon, ServedAs, outVars
  <2>3. phase'[w] \notin {"stream", "reply", "granted"}
    BY <2>1 DEF Active
  <2> QED BY <1>2, <1>4, <2>1, <2>2, <2>3
<1>9. CASE Unbind(w)
  BY <1>1, <1>2, <1>4, <1>5, <1>9 DEF Unbind, Move, Active, ServedAs, outVars
<1>10. CASE SearchLock(w) \/ UpdateReadUser(w)
  BY <1>1, <1>2, <1>4, <1>5, <1>10
  DEF SearchLock, UpdateReadUser, Starts, Move, Active, ServedAs, outVars
<1>11. CASE SearchRelease(w)
  BY <1>11 DEF SearchRelease, Active
<1>12. CASE Fail(w)
  BY <1>1, <1>2, <1>4, <1>5, <1>12 DEF Fail, Move, Active, ServedAs, outVars
<1> QED BY <1>6, <1>7, <1>8, <1>9, <1>10, <1>11, <1>12 DEF Inner

\* A worker that has answered, or has nothing to answer, leaves the session
\* and the answers as they are.
LEMMA TurnAfter ==
  ASSUME SafeInv, NEW w \in Workers, Inner(w), phase[w] \notin Active
  PROVE  UNCHANGED <<user, seen, clientUser, kept, answers>> /\ phase'[w] \notin Active
<1>1. phase \in [Workers -> Phases]
  BY DEF SafeInv, TypeInv, TypeOK
<1>2. SearchRelease(w) \/ Fail(w)
  BY DEF Inner, BindAnonymous, BindRefuse, BindVerified, BindSetUser, BindSuccess, WriteReply,
         Unbind, SearchLock, SearchDone, UpdateReadUser, Abandon, Starts, Active
<1> QED BY <1>1, <1>2 DEF SearchRelease, Fail, Move, Active, outVars

LEMMA TurnInner ==
  ASSUME SafeInv, TurnInv, client = "waiting", NEW w \in Workers, Inner(w)
  PROVE  TurnInv'
<1>1. UNCHANGED <<accepted, queue, cur, client>>
  BY InnerMoves DEF SafeInv, queueVars
<1>2. Queued' = Queued
  BY <1>1 DEF Queued
<1>3. \A v \in Workers \ {w} : phase'[v] = phase[v]
  BY InnerMoves DEF SafeInv, TypeInv, TypeOK, Move
<1>4. CASE phase[w] \in Active
  BY <1>1, <1>2, <1>3, <1>4, AloneActive, TurnWork DEF TurnInv, ServedAs, Active
<1>5. CASE phase[w] \notin Active
  <2>1. UNCHANGED <<user, seen, clientUser, kept, answers>> /\ phase'[w] \notin Active
    BY <1>5, TurnAfter
  <2>2. Unanswered' = Unanswered
    BY <1>1, <2>1 DEF Unanswered
  <2> QED BY <1>1, <1>2, <1>3, <2>1, <2>2 DEF TurnInv, ServedAs, Active
<1> QED BY <1>4, <1>5

LEMMA TurnStep == SafeInv /\ TurnInv /\ [Next]_vars => TurnInv'
<1> SUFFICES ASSUME SafeInv, TurnInv, [Next]_vars, client' = "waiting"
             PROVE  TurnInv'
  BY DEF TurnInv
<1>0. client = "waiting"
  <2>1. ASSUME NEW w \in Workers, Work(w) \/ Fail(w) \/ CloseHandler(w)
        PROVE  client' = client
    BY <2>1, InnerMoves DEF SafeInv, Work, Inner, Take, TaskDone, CloseHandler
  <2> QED BY <2>1 DEF Next, Disconnect, Main, PolicyFound, PolicyRefused,
             GatherRaises, JoinReturns, Reader, ReadRequest, ReadMalformed,
             ReadEof, vars
<1>1. CASE UNCHANGED <<accepted, queue, phase, cur, answers, user, seen, clientUser, kept>>
  <2>1. Queued' = Queued /\ Unanswered' = Unanswered
    BY <1>1 DEF Queued, Unanswered
  <2> QED BY <1>0, <1>1, <2>1 DEF TurnInv, ServedAs
<1>2. ASSUME NEW m \in Messages, MaySend(m), accepted' = accepted \cup {m},
             UNCHANGED <<phase, cur, answers, user, seen, clientUser, kept>>
      PROVE  TurnInv'
  <2>1. Unanswered = {}
    BY <1>0, <1>2 DEF MaySend, Unanswered
  <2>2. \A k, n \in Unanswered' : k = n
    BY <1>2, <2>1 DEF Unanswered
  <2>3. user' = ServedAs'
    BY <1>0, <1>2, <2>1 DEF TurnInv, ServedAs
  <2>4. \A w \in Workers : phase[w] \notin Active
    BY <1>0, <2>1, AloneActive
  <2> QED BY <1>0, <1>2, <2>2, <2>3, <2>4 DEF TurnInv, ServedAs, Active
<1>3. ASSUME NEW w \in Workers, Take(w)
      PROVE  TurnInv'
  <2>1. queue \in Seq(Requests) /\ phase \in [Workers -> Phases]
    BY DEF SafeInv, TypeInv, TypeOK
  <2>2. Queued' \subseteq Queued /\ Queued # {}
    BY <1>3, <2>1, QueuedTail DEF Take
  <2>3. /\ phase'[w] = "start"
        /\ \A v \in Workers \ {w} : phase'[v] = phase[v] /\ cur'[v] = cur[v]
        /\ UNCHANGED <<accepted, answers, user, seen, clientUser, kept>>
    BY <1>3, <2>1 DEF Take, Move, lockVars, outVars
  <2>4. Unanswered' = Unanswered
    BY <2>3 DEF Unanswered
  <2> QED BY <1>0, <2>2, <2>3, <2>4 DEF TurnInv, ServedAs, Active
<1>4. ASSUME NEW w \in Workers, TaskDone(w)
      PROVE  TurnInv'
  <2>1. phase \in [Workers -> Phases]
    BY DEF SafeInv, TypeInv, TypeOK
  <2>2. /\ phase'[w] = "idle"
        /\ \A v \in Workers \ {w} : phase'[v] = phase[v] /\ cur'[v] = cur[v]
        /\ UNCHANGED <<accepted, queue, answers, user, seen, clientUser, kept>>
    BY <1>4, <2>1 DEF TaskDone, Move, lockVars, outVars
  <2>3. Unanswered' = Unanswered /\ Queued' = Queued
    BY <2>2 DEF Unanswered, Queued
  <2> QED BY <1>0, <2>2, <2>3 DEF TurnInv, ServedAs, Active
<1>5. \/ UNCHANGED <<accepted, queue, phase, cur, answers, user, seen, clientUser, kept>>
      \/ \E m \in Messages :
           /\ MaySend(m) /\ accepted' = accepted \cup {m}
           /\ UNCHANGED <<phase, cur, answers, user, seen, clientUser, kept>>
      \/ \E w \in Workers : Inner(w) \/ Take(w) \/ TaskDone(w)
  BY DEF Next, Work, Inner, Disconnect, Main, PolicyFound, PolicyRefused,
         GatherRaises, JoinReturns, Reader, ReadRequest, ReadMalformed, ReadEof,
         CloseHandler, Messages, workerVars, queueVars, lockVars, outVars, vars
<1> QED BY <1>0, <1>1, <1>2, <1>3, <1>4, <1>5, TurnInner

\* A client that waits for every answer is served as the user of the last bind
\* by name that it was told of, whatever anonymous binds were answered since: a
\* bind sets the user before it writes its success, and its request is the only
\* one at work (bind.py, handle; dialogue.py, set_user).
THEOREM SequentialIdentityHolds == Spec => []SequentialIdentity
<1>1. Init => TurnInv
  <2> SUFFICES ASSUME Init PROVE TurnInv
    OBVIOUS
  <2>1. Unanswered = {}
    BY DEF Init, Unanswered
  <2> QED BY <2>1 DEF Init, TurnInv, ServedAs, Active
<1>2. TurnInv => SequentialIdentity
  BY DEF TurnInv, ServedAs, SequentialIdentity
<1> QED BY SafeAlways, <1>1, <1>2, TurnStep, PTL DEF Spec
=============================================================================
