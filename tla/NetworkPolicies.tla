-------------------------- MODULE NetworkPolicies ---------------------------
(***************************************************************************)
(* The network policy API (app/api/network/router.py) over the table       *)
(* "Policies" (app/models/ldap3.py). Every HTTP request is one PostgreSQL  *)
(* transaction at READ COMMITTED: its statements see what is committed     *)
(* when they start, SELECT ... FOR UPDATE and UPDATE wait for rows another *)
(* transaction has locked, writes become visible at the commit. A step is  *)
(* one statement; requests interleave between their statements.            *)
(***************************************************************************)
EXTENDS Integers, FiniteSets

CONSTANTS
  Requests,    \* the HTTP requests, each served once
  Ids,         \* values of the column id, handed out once each
  Keys,        \* what has to be unique in a policy: its name and netmasks
  Priorities,  \* the priorities a client asks for
  Seed,        \* Seed[i], the rows that exist at the start
  Free,        \* an id not handed out yet
  Gone,        \* the id of a deleted policy
  NoRequest,   \* nobody has the row locked
  MaxActive    \* how many requests may be in progress at once

Row == [enabled : BOOLEAN, priority : Int, key : Keys]

ASSUME PolicyAssumption ==
  /\ IsFiniteSet(Ids)
  /\ Priorities \subseteq Nat \ {0}
  /\ Free # Gone /\ Free \notin Row /\ Gone \notin Row
  /\ Seed \in [Ids -> Row \cup {Free}]
  /\ \A i \in Ids : Seed[i] \in Row => Seed[i].priority \in Nat \ {0}
  /\ \E i \in Ids : Seed[i] \in Row /\ Seed[i].enabled
  /\ NoRequest \notin Requests
  /\ MaxActive \in Nat \ {0}

AddArgs    == [op : {"add"}, key : Keys, priority : Priorities]
RowArgs    == [op : {"delete", "switch"}, first : Ids]
UpdateArgs == [op : {"update"}, first : Ids, key : Keys]
SwapArgs   == [op : {"swap"}, first : Ids, second : Ids]
Args == AddArgs \cup RowArgs \cup UpdateArgs \cup SwapArgs
NoArg == [op |-> "none"]

Stages == {"idle", "first", "second", "count", "delete", "shift", "commit", "done"}
Results == {"none", "ok", "notFound", "lastActive", "conflict", "aborted"}

VARIABLES
  db,      \* db[i], the committed row of policy i
  locks,   \* locks[i], the request whose transaction has row i locked
  arg,     \* arg[t], what request t asks for
  stage,   \* stage[t], the next statement of request t
  loaded,  \* loaded[t][i], row i as the ORM session of request t loaded it
  todo,    \* todo[t], rows the priority UPDATE of request t has yet to visit
  moved,   \* moved[t], rows that UPDATE has decremented
  result,  \* result[t], the answer to request t
  flips,   \* flips[i], how many switches of policy i were confirmed
  overlapped  \* whether a request ever began while another was in progress

vars == <<db, locks, arg, stage, loaded, todo, moved, result, flips, overlapped>>

Present(i) == db[i] \in Row
Enabled == {i \in Ids : Present(i) /\ db[i].enabled}
Active == {t \in Requests : stage[t] \notin {"idle", "done"}}
NoLoad == [i \in Ids |-> Gone]

TableTypeOK ==
  /\ db \in [Ids -> Row \cup {Free, Gone}]
  /\ locks \in [Ids -> Requests \cup {NoRequest}]
  /\ arg \in [Requests -> Args \cup {NoArg}]
  /\ stage \in [Requests -> Stages]
  /\ loaded \in [Requests -> [Ids -> Row \cup {Gone}]]
  /\ todo \in [Requests -> SUBSET Ids]
  /\ moved \in [Requests -> SUBSET Ids]
  /\ result \in [Requests -> Results]
  /\ flips \in [Ids -> Nat]

TypeOK == TableTypeOK /\ overlapped \in BOOLEAN

Init ==
  /\ db = Seed
  /\ locks = [i \in Ids |-> NoRequest]
  /\ arg = [t \in Requests |-> NoArg]
  /\ stage = [t \in Requests |-> "idle"]
  /\ loaded = [t \in Requests |-> NoLoad]
  /\ todo = [t \in Requests |-> {}]
  /\ moved = [t \in Requests |-> {}]
  /\ result = [t \in Requests |-> "none"]
  /\ flips = [i \in Ids |-> 0]
  /\ overlapped = FALSE

-----------------------------------------------------------------------------
(* Beginning and ending a request *)

\* The bound on policies: a request to add one finds an id that is left.
IdLeft ==
  Cardinality({t \in Active : arg[t].op = "add"})
    < Cardinality({i \in Ids : db[i] = Free})

\* add_network_policy() has no row to lock and goes straight to its commit;
\* the others start with session.get(..., with_for_update=True).
Begin(t, a) ==
  /\ stage[t] = "idle"
  /\ Cardinality(Active) < MaxActive
  /\ a.op = "add" => IdLeft
  /\ arg' = [arg EXCEPT ![t] = a]
  /\ stage' = [stage EXCEPT ![t] = IF a.op = "add" THEN "commit" ELSE "first"]
  /\ overlapped' = (overlapped \/ Active # {})
  /\ UNCHANGED <<db, locks, loaded, todo, moved, result, flips>>

\* Mutant: the transaction is left open and keeps its row locks.
EndWithoutRelease(t, answer) ==
  /\ stage' = [stage EXCEPT ![t] = "done"]
  /\ loaded' = [loaded EXCEPT ![t] = NoLoad]
  /\ todo' = [todo EXCEPT ![t] = {}]
  /\ moved' = [moved EXCEPT ![t] = {}]
  /\ result' = [result EXCEPT ![t] = answer]
  /\ UNCHANGED <<arg, locks>>

\* The transaction of t ends with the given answer and its locks go.
End(t, answer) ==
  /\ locks' = [i \in Ids |-> IF locks[i] = t THEN NoRequest ELSE locks[i]]
  /\ stage' = [stage EXCEPT ![t] = "done"]
  /\ loaded' = [loaded EXCEPT ![t] = NoLoad]
  /\ todo' = [todo EXCEPT ![t] = {}]
  /\ moved' = [moved EXCEPT ![t] = {}]
  /\ result' = [result EXCEPT ![t] = answer]
  /\ UNCHANGED arg

\* ... and nothing is committed.
Rollback(t, answer) == End(t, answer) /\ UNCHANGED <<db, flips>>

-----------------------------------------------------------------------------
(* The statements *)

\* Mutant: the rows are read without FOR UPDATE.
CanRead(t, i) == TRUE

CanLock(t, i) == locks[i] \in {t, NoRequest}

\* Mutant: the row is loaded without a look whether it is there.
LockAnything(t, i) ==
  /\ CanLock(t, i)
  /\ locks' = [locks EXCEPT ![i] = t]
  /\ loaded' = [loaded EXCEPT ![t][i] = db[i]]

\* SELECT ... FOR UPDATE of row i: waits for the row, then locks and loads
\* its committed version; a row that is not there yields None.
LockRow(t, i) ==
  /\ CanLock(t, i)
  /\ IF Present(i)
     THEN /\ locks' = [locks EXCEPT ![i] = t]
          /\ loaded' = [loaded EXCEPT ![t][i] = db[i]]
     ELSE UNCHANGED <<locks, loaded>>

NextStage(t, s) ==
  /\ stage' = [stage EXCEPT ![t] = s]
  /\ UNCHANGED <<db, arg, todo, moved, result, flips>>

\* The first (for all but a swap the only) policy. A policy that is enabled
\* is not switched off, and none is deleted, without check_policy_count().
GetFirst(t) ==
  LET i == arg[t].first
      op == arg[t].op
  IN  /\ stage[t] = "first"
      /\ \/ /\ op = "swap"
            /\ LockRow(t, i)
            /\ NextStage(t, "second")
         \/ /\ op # "swap" /\ Present(i)
            /\ LockRow(t, i)
            /\ NextStage(t, IF op = "delete" \/ (op = "switch" /\ db[i].enabled)
                            THEN "count" ELSE "commit")
         \/ /\ op # "swap" /\ ~Present(i)
            /\ Rollback(t, "notFound")

\* swap_network_policy() asks for the second policy before it looks whether
\* the first was found.
GetSecond(t) ==
  LET i == arg[t].second
      found == Present(i) /\ loaded[t][arg[t].first] \in Row
  IN  /\ stage[t] = "second"
      /\ CanLock(t, i)
      /\ \/ found /\ LockRow(t, i) /\ NextStage(t, "commit")
         \/ ~found /\ Rollback(t, "notFound")

\* Mutant: the count takes in the disabled policies.
CountAllPolicies(t) ==
  /\ stage[t] = "count"
  /\ \/ Cardinality({i \in Ids : Present(i)}) = 1 /\ Rollback(t, "lastActive")
     \/ /\ Cardinality({i \in Ids : Present(i)}) # 1
        /\ NextStage(t, IF arg[t].op = "delete" THEN "delete" ELSE "commit")
        /\ UNCHANGED <<locks, loaded>>

\* check_policy_count(): counts what is committed now, locking nothing.
CheckPolicyCount(t) ==
  /\ stage[t] = "count"
  /\ \/ Cardinality(Enabled) = 1 /\ Rollback(t, "lastActive")
     \/ /\ Cardinality(Enabled) # 1
        /\ NextStage(t, IF arg[t].op = "delete" THEN "delete" ELSE "commit")
        /\ UNCHANGED <<locks, loaded>>

\* Mutant: the UPDATE has no WHERE clause.
EveryRow(t) == {i \in Ids : Present(i)}

\* Mutant: off by one, the policy right after the deleted one stays.
AboveNext(t) ==
  {i \in Ids : Present(i) /\ db[i].priority > loaded[t][arg[t].first].priority + 1}

\* The rows with a higher priority value than the policy t deletes.
Above(t) ==
  {i \in Ids : Present(i) /\ db[i].priority > loaded[t][arg[t].first].priority}

\* The DELETE, and the start of the UPDATE that closes the gap: it visits
\* the rows that match now.
DeleteRow(t) ==
  /\ stage[t] = "delete"
  /\ stage' = [stage EXCEPT ![t] = "shift"]
  /\ todo' = [todo EXCEPT ![t] = Above(t)]
  /\ UNCHANGED <<db, locks, arg, loaded, moved, result, flips>>

\* The UPDATE reaches row i: it waits for the row's lock and then looks at
\* the version committed meanwhile, which must match again.
ShiftRow(t, i) ==
  /\ stage[t] = "shift"
  /\ i \in todo[t]
  /\ CanLock(t, i)
  /\ todo' = [todo EXCEPT ![t] = @ \ {i}]
  /\ IF i \in Above(t)
     THEN /\ locks' = [locks EXCEPT ![i] = t]
          /\ moved' = [moved EXCEPT ![t] = @ \cup {i}]
     ELSE UNCHANGED <<locks, moved>>
  /\ UNCHANGED <<db, arg, stage, loaded, result, flips>>

ShiftEnd(t) ==
  /\ stage[t] = "shift"
  /\ todo[t] = {}
  /\ NextStage(t, "commit")
  /\ UNCHANGED <<locks, loaded>>

-----------------------------------------------------------------------------
(* The commits *)

\* The table after the commit of t. The ORM writes the columns it changed,
\* from the values it loaded; an insert takes the next id.
AfterAdd(t, i) ==
  [db EXCEPT ![i] = [enabled  |-> TRUE,
                     priority |-> arg[t].priority,
                     key      |-> arg[t].key]]

AfterDelete(t) ==
  [i \in Ids |-> IF i = arg[t].first THEN Gone
                 ELSE IF i \in moved[t]
                      THEN [db[i] EXCEPT !.priority = @ - 1]
                      ELSE db[i]]

AfterSwitch(t) ==
  LET i == arg[t].first
  IN  [db EXCEPT ![i].enabled = ~loaded[t][i].enabled]

AfterUpdate(t) == [db EXCEPT ![arg[t].first].key = arg[t].key]

AfterSwap(t) ==
  LET i == arg[t].first
      j == arg[t].second
  IN  [db EXCEPT ![i].priority = loaded[t][j].priority,
                 ![j].priority = loaded[t][i].priority]

\* Mutant: no unique constraint on the priority.
UniqueKeys(table) ==
  \A i, j \in Ids :
    table[i] \in Row /\ table[j] \in Row /\ i # j => table[i].key # table[j].key

\* name and netmasks are unique, and so is the priority, checked (DEFERRED)
\* when the transaction commits.
Unique(table) ==
  \A i, j \in Ids :
    /\ table[i] \in Row /\ table[j] \in Row
    /\ i # j
    => table[i].key # table[j].key /\ table[i].priority # table[j].priority

\* The table at the start satisfies the constraints of ldap3.py.
ASSUME SeedAssumption == Unique(Seed)

\* An IntegrityError is answered 422 by add and update; the other handlers
\* let it through, the session rolls back either way.
CommitAs(t, table) ==
  \/ /\ Unique(table)
     /\ db' = table
     /\ End(t, "ok")
  \/ ~Unique(table) /\ Rollback(t, "conflict")

Commits(t, op) == stage[t] = "commit" /\ arg[t].op = op

CommitAdd(t) ==
  /\ Commits(t, "add")
  /\ \E i \in Ids : db[i] = Free /\ CommitAs(t, AfterAdd(t, i))
  /\ UNCHANGED flips

CommitDelete(t) ==
  Commits(t, "delete") /\ CommitAs(t, AfterDelete(t)) /\ UNCHANGED flips

CommitSwitch(t) ==
  /\ Commits(t, "switch")
  /\ db' = AfterSwitch(t)
  /\ flips' = [flips EXCEPT ![arg[t].first] = @ + 1]
  /\ End(t, "ok")

CommitUpdate(t) ==
  Commits(t, "update") /\ CommitAs(t, AfterUpdate(t)) /\ UNCHANGED flips

CommitSwap(t) ==
  Commits(t, "swap") /\ CommitAs(t, AfterSwap(t)) /\ UNCHANGED flips

-----------------------------------------------------------------------------
(* Transactions that do not get to their commit *)

Wants(t) ==
  CASE stage[t] = "first"  -> {arg[t].first}
    [] stage[t] = "second" -> {arg[t].second}
    [] stage[t] = "shift"  -> todo[t]
    [] OTHER               -> {}

WaitsFor(t, u) == t # u /\ \E i \in Wants(t) : locks[i] = u

\* PostgreSQL aborts a transaction that waits in a circle of transactions.
DeadlockVictim(t) ==
  /\ \E circle \in SUBSET Active :
       /\ t \in circle
       /\ \A u \in circle : \E v \in circle : WaitsFor(u, v)
  /\ Rollback(t, "aborted")

\* The process that serves the request dies, or loses its connection.
Crash(t) == t \in Active /\ Rollback(t, "aborted") /\ UNCHANGED overlapped

-----------------------------------------------------------------------------
\* The request goes on: its next statement, commit or forced rollback.
Proceed(t) ==
  /\ \/ GetFirst(t) \/ GetSecond(t)
     \/ CheckPolicyCount(t)
     \/ DeleteRow(t) \/ ShiftEnd(t)
     \/ \E i \in Ids : ShiftRow(t, i)
     \/ CommitAdd(t) \/ CommitDelete(t) \/ CommitSwitch(t)
     \/ CommitUpdate(t) \/ CommitSwap(t)
     \/ DeadlockVictim(t)
  /\ UNCHANGED overlapped

Next ==
  \E t \in Requests :
    \/ \E a \in Args : Begin(t, a)
    \/ Proceed(t)
    \/ Crash(t)

Spec == Init /\ [][Next]_vars

\* The database executes every statement that does not wait, and breaks
\* every circle of waiting transactions.
FairSpec == Spec /\ \A t \in Requests : WF_vars(Proceed(t))

-----------------------------------------------------------------------------
(* Properties *)

\* "At least one policy should be active" (check_policy_count): no sequence
\* of requests leaves the server without a policy that lets anybody in.
AtLeastOneActive == Enabled # {}

\* What check_policy_count() counts is still so at the commit of a request
\* that overlaps no other: requests served one after the other, each cut off
\* anywhere, leave an active policy.
SerialKeepsActive == ~overlapped => AtLeastOneActive

\* Closing the gap of a deleted policy never takes a priority below 1, the
\* least the response model of every listing accepts (schema.py, ge=1).
PositivePriorities == \A i \in Ids : Present(i) => db[i].priority >= 1

\* As long as requests do not overlap, only add and update can run into a uniqueness
\* conflict: neither a swap nor the gap closing of a delete produces one.
NoOwnConflict ==
  \A t \in Requests : ~overlapped /\ result[t] = "conflict" => arg[t].op \in {"add", "update"}

\* No switch is lost or applied twice, however requests overlap: a policy is
\* in its first state after an even number of confirmed switches.
SwitchesCount ==
  \A i \in Ids : Present(i) =>
    LET first == Seed[i] = Free \/ Seed[i].enabled
    IN  db[i].enabled <=> (first <=> flips[i] % 2 = 0)

Confirms(t, op) ==
  arg[t].op = op /\ stage[t] = "commit" /\ stage'[t] = "done" /\ result'[t] = "ok"

\* A confirmed swap exchanges the priorities the two policies have at that
\* moment and touches no other policy.
SwapExchanges ==
  [][\A t \in Requests : Confirms(t, "swap") =>
       LET i == arg[t].first
           j == arg[t].second
       IN  /\ db'[i].priority = db[j].priority
           /\ db'[j].priority = db[i].priority
           /\ \A k \in Ids \ {i, j} : db'[k] = db[k]]_vars

\* A confirmed delete keeps the other policies and the order in which the
\* LDAP server tries them (get_policy, order by priority).
DeleteKeepsOrder ==
  [][\A t \in Requests : Confirms(t, "delete") =>
       \A i, j \in Ids \ {arg[t].first} : Present(i) /\ Present(j) =>
         /\ Present(i)'
         /\ db[i].priority < db[j].priority => db'[i].priority < db'[j].priority]_vars

\* Every request is answered: requests that wait for each other's rows do
\* not wait for ever.
AllAnswered ==
  \A t \in Requests : (stage[t] # "idle") ~> (stage[t] = "done")
=============================================================================
