------------------------ MODULE NetworkPoliciesProofs -----------------------
(* Theorems about NetworkPolicies, for any requests and policies. *)
EXTENDS NetworkPolicies, FiniteSetTheorems, TLAPS

-----------------------------------------------------------------------------
(* The inductive invariant *)

\* Where a request is depends on what it asks for.
StageInv ==
  \A t \in Requests :
    /\ stage[t] # "idle" => arg[t] \in Args
    /\ stage[t] \in {"first", "count", "delete", "shift"} => arg[t].op # "add"
    /\ stage[t] = "second" => arg[t].op = "swap"
    /\ stage[t] = "count" => arg[t].op \in {"delete", "switch"}
    /\ stage[t] \in {"delete", "shift"} => arg[t].op = "delete"
    /\ /\ stage[t] \in {"count", "delete", "shift", "commit"}
       /\ arg[t].op # "add"
       => loaded[t][arg[t].first] \in Row
    /\ stage[t] = "commit" /\ arg[t].op = "swap" => loaded[t][arg[t].second] \in Row
    /\ stage[t] \in {"idle", "done"} => loaded[t] = NoLoad

\* A row that a request has loaded is locked by it and has not changed since.
LoadedInv ==
  \A t \in Requests, i \in Ids :
    loaded[t][i] \in Row => locks[i] = t /\ db[i] = loaded[t][i]

\* Only rows that are there are locked, those an UPDATE has moved among them.
MovedInv ==
  /\ \A i \in Ids : locks[i] # NoRequest => Present(i)
  /\ \A t \in Requests : moved[t] # {} =>
       /\ stage[t] \in {"shift", "commit"} /\ arg[t].op = "delete"
       /\ \A i \in moved[t] : locks[i] = t /\ i \in Above(t)

PolicyInv == TableTypeOK /\ StageInv /\ LoadedInv /\ MovedInv /\ PositivePriorities

\* What the requests ask for.
LEMMA ArgShape ==
  ASSUME NEW a \in Args
  PROVE  /\ a.op \in {"add", "delete", "switch", "update", "swap"}
         /\ a.op = "add" => a.key \in Keys /\ a.priority \in Nat \ {0}
         /\ a.op # "add" => a.first \in Ids
         /\ a.op = "update" => a.key \in Keys
         /\ a.op = "swap" => a.second \in Ids
BY PolicyAssumption DEF Args, AddArgs, RowArgs, UpdateArgs, SwapArgs

LEMMA PolicyInit == Init => PolicyInv
<1> SUFFICES ASSUME Init PROVE PolicyInv
  OBVIOUS
<1> USE PolicyAssumption DEF Init, NoLoad
<1>1. TableTypeOK
  BY DEF TableTypeOK, Stages, Results, Row
<1>2. StageInv /\ LoadedInv /\ MovedInv
  BY DEF StageInv, LoadedInv, MovedInv
<1>3. PositivePriorities
  BY DEF PositivePriorities, Present
<1> QED BY <1>1, <1>2, <1>3 DEF PolicyInv

-----------------------------------------------------------------------------
(* The end of a request *)

\* The rows a request changes are locked by it or were not handed out yet.
Writes(t) == \A i \in Ids : db'[i] # db[i] => locks[i] = t \/ db[i] = Free

LEMMA EndKeeps ==
  ASSUME PolicyInv, NEW t \in Requests, NEW a \in Results, End(t, a), Writes(t),
         db' \in [Ids -> Row \cup {Free, Gone}], flips' \in [Ids -> Nat],
         PositivePriorities', stage[t] # "idle"
  PROVE  PolicyInv'
<1>0. /\ Free \notin Row /\ Gone \notin Row /\ NoRequest \notin Requests
      /\ \A i \in Ids : NoLoad[i] = Gone
  BY PolicyAssumption DEF NoLoad
<1>1. TableTypeOK'
  BY DEF PolicyInv, TableTypeOK, End, Stages, NoLoad
<1>2. /\ stage'[t] = "done" /\ loaded'[t] = NoLoad /\ moved'[t] = {} /\ arg' = arg
      /\ \A u \in Requests \ {t} : /\ stage'[u] = stage[u] /\ loaded'[u] = loaded[u]
                                   /\ moved'[u] = moved[u]
      /\ \A i \in Ids : locks[i] # t => locks'[i] = locks[i]
      /\ \A i \in Ids : locks[i] = t => locks'[i] = NoRequest
  BY DEF PolicyInv, TableTypeOK, End
<1>3. StageInv'
  BY <1>2 DEF PolicyInv, StageInv
<1>4. LoadedInv'
  BY <1>0, <1>2 DEF PolicyInv, LoadedInv, Writes
<1>5. MovedInv'
  <2>1. \A i \in Ids : locks'[i] # NoRequest => Present(i)' /\ db'[i] = db[i]
    BY <1>0, <1>2 DEF PolicyInv, MovedInv, Writes, Present
  <2>2. ASSUME NEW u \in Requests, moved'[u] # {}
        PROVE  /\ stage'[u] \in {"shift", "commit"} /\ arg'[u].op = "delete"
               /\ \A i \in moved'[u] : locks'[i] = u /\ i \in Above(u)'
    <3>1. u # t /\ moved[u] # {}
      BY <1>2, <2>2
    <3>2. stage[u] \in {"shift", "commit"} /\ arg[u].op = "delete"
          /\ \A i \in moved[u] : locks[i] = u /\ i \in Above(u)
      BY <3>1 DEF PolicyInv, MovedInv
    <3>3. ASSUME NEW i \in moved[u] PROVE locks'[i] = u /\ i \in Above(u)'
      <4>1. i \in Ids /\ locks'[i] = u
        BY <1>2, <3>1, <3>2, <3>3 DEF Above
      <4>2. db'[i] = db[i]
        BY <4>1, <1>0, <2>1
      <4> QED BY <1>2, <3>1, <3>2, <3>3, <4>1, <4>2 DEF Above, Present
    <3> QED BY <1>2, <3>1, <3>2, <3>3
  <2> QED BY <2>1, <2>2 DEF MovedInv
<1> QED BY <1>1, <1>3, <1>4, <1>5 DEF PolicyInv

LEMMA RollbackKeeps ==
  ASSUME PolicyInv, NEW t \in Requests, NEW a \in Results, Rollback(t, a),
         stage[t] # "idle"
  PROVE  PolicyInv'
<1>1. db' = db /\ flips' = flips /\ End(t, a) /\ Writes(t)
  BY DEF Rollback, Writes
<1>2. PositivePriorities'
  BY <1>1 DEF PolicyInv, PositivePriorities, Present
<1> QED BY <1>1, <1>2, EndKeeps DEF PolicyInv, TableTypeOK

-----------------------------------------------------------------------------
(* The commits *)

\* What a request that is about to commit has loaded, it has locked.
LEMMA AtCommit ==
  ASSUME PolicyInv, NEW t \in Requests, stage[t] \in {"shift", "commit"}
  PROVE  /\ arg[t] \in Args
         /\ arg[t].op # "add" =>
              LET i == arg[t].first
              IN  /\ i \in Ids /\ db[i] \in Row /\ locks[i] = t
                  /\ loaded[t][i] = db[i]
         /\ stage[t] = "commit" /\ arg[t].op = "swap" =>
              LET j == arg[t].second
              IN  /\ j \in Ids /\ db[j] \in Row /\ locks[j] = t
                  /\ loaded[t][j] = db[j]
<1>1. arg[t] \in Args
  BY DEF PolicyInv, StageInv
<1> QED BY <1>1, ArgShape DEF PolicyInv, StageInv, LoadedInv

\* A table of which the commit of t may leave a positive, well-typed one.
Sound(table) ==
  /\ table \in [Ids -> Row \cup {Free, Gone}]
  /\ \A i \in Ids : table[i] \in Row => table[i].priority >= 1

LEMMA SoundNow ==
  ASSUME PolicyInv PROVE Sound(db)
BY DEF PolicyInv, TableTypeOK, PositivePriorities, Present, Sound

LEMMA CommitKeeps ==
  ASSUME PolicyInv, NEW t \in Requests, stage[t] = "commit",
         NEW table, Sound(table), CommitAs(t, table), UNCHANGED flips,
         \A i \in Ids : table[i] # db[i] => locks[i] = t \/ db[i] = Free
  PROVE  PolicyInv'
<1>1. CASE Rollback(t, "conflict")
  BY <1>1, RollbackKeeps DEF Results
<1>2. CASE db' = table /\ End(t, "ok")
  <2>1. Writes(t) /\ PositivePriorities'
    BY <1>2 DEF Writes, PositivePriorities, Present, Sound
  <2> QED BY <1>2, <2>1, EndKeeps DEF Sound, Results, PolicyInv, TableTypeOK
<1> QED BY <1>1, <1>2 DEF CommitAs

LEMMA AddKeeps ==
  ASSUME PolicyInv, NEW t \in Requests, CommitAdd(t) PROVE PolicyInv'
<1>1. PICK i \in Ids : db[i] = Free /\ CommitAs(t, AfterAdd(t, i))
  BY DEF CommitAdd
<1>2. stage[t] = "commit" /\ arg[t].op = "add" /\ UNCHANGED flips
  BY DEF CommitAdd, Commits
<1>3. arg[t].key \in Keys /\ arg[t].priority \in Nat \ {0}
  BY <1>2, AtCommit, ArgShape
<1>4. [enabled |-> TRUE, priority |-> arg[t].priority, key |-> arg[t].key] \in Row
  BY <1>3 DEF Row
<1>5. Sound(AfterAdd(t, i))
  BY <1>3, <1>4, SoundNow DEF Sound, AfterAdd
<1>6. \A j \in Ids : AfterAdd(t, i)[j] # db[j] => db[j] = Free
  BY <1>1, SoundNow DEF Sound, AfterAdd
<1> QED BY <1>1, <1>2, <1>5, <1>6, CommitKeeps

\* What a row holds.
LEMMA RowFields ==
  ASSUME NEW r \in Row
  PROVE  r.enabled \in BOOLEAN /\ r.priority \in Int /\ r.key \in Keys
BY DEF Row

LEMMA DeleteKeeps ==
  ASSUME PolicyInv, NEW t \in Requests, CommitDelete(t) PROVE PolicyInv'
<1>1. /\ stage[t] = "commit" /\ arg[t].op = "delete" /\ UNCHANGED flips
      /\ CommitAs(t, AfterDelete(t))
  BY DEF CommitDelete, Commits
<1> DEFINE i == arg[t].first
<1>2. i \in Ids /\ db[i] \in Row /\ locks[i] = t /\ loaded[t][i] = db[i]
  BY <1>1, AtCommit
<1>3. ASSUME NEW j \in moved[t]
      PROVE  /\ j \in Ids /\ locks[j] = t /\ db[j] \in Row
             /\ [db[j] EXCEPT !.priority = @ - 1] \in Row
             /\ [db[j] EXCEPT !.priority = @ - 1].priority >= 1
  <2>1. j \in Above(t) /\ locks[j] = t
    BY <1>3 DEF PolicyInv, MovedInv
  <2>2. j \in Ids /\ db[j] \in Row /\ db[j].priority > db[i].priority
    BY <1>2, <2>1 DEF Above, Present
  <2>3. db[i].priority >= 1 /\ db[i].priority \in Int /\ db[j].priority \in Int
    BY <1>2, <2>2, RowFields, SoundNow DEF Sound
  <2>4. db[j].priority - 1 \in Int /\ db[j].priority - 1 >= 1
    BY <2>2, <2>3
  <2>5. [db[j] EXCEPT !.priority = db[j].priority - 1] \in Row
        /\ [db[j] EXCEPT !.priority = db[j].priority - 1].priority = db[j].priority - 1
    BY <2>2, <2>4 DEF Row
  <2> QED BY <2>1, <2>2, <2>4, <2>5
<1>4. Sound(AfterDelete(t))
  <2>1. \A j \in Ids : AfterDelete(t)[j] =
          IF j = i THEN Gone
          ELSE IF j \in moved[t] THEN [db[j] EXCEPT !.priority = @ - 1] ELSE db[j]
    BY DEF AfterDelete
  <2>2. AfterDelete(t) = [j \in Ids |-> AfterDelete(t)[j]]
    BY DEF AfterDelete
  <2>3. ASSUME NEW j \in Ids
        PROVE  /\ AfterDelete(t)[j] \in Row \cup {Free, Gone}
               /\ AfterDelete(t)[j] \in Row => AfterDelete(t)[j].priority >= 1
    <3>1. CASE j = i
      BY <2>1, <3>1, PolicyAssumption
    <3>2. CASE j # i /\ j \in moved[t]
      BY <1>3, <2>1, <3>2
    <3>3. CASE j # i /\ j \notin moved[t]
      BY <2>1, <3>3, SoundNow DEF Sound
    <3> QED BY <3>1, <3>2, <3>3
  <2> QED BY <2>2, <2>3 DEF Sound
<1>5. \A j \in Ids : AfterDelete(t)[j] # db[j] => locks[j] = t
  BY <1>2, <1>3 DEF AfterDelete
<1> QED BY <1>1, <1>4, <1>5, CommitKeeps

LEMMA SwitchKeeps ==
  ASSUME PolicyInv, NEW t \in Requests, CommitSwitch(t) PROVE PolicyInv'
<1> DEFINE i == arg[t].first
<1>1. /\ stage[t] = "commit" /\ arg[t].op = "switch" /\ End(t, "ok")
      /\ db' = AfterSwitch(t) /\ flips' = [flips EXCEPT ![i] = @ + 1]
  BY DEF CommitSwitch, Commits
<1>2. i \in Ids /\ db[i] \in Row /\ locks[i] = t /\ loaded[t][i] = db[i]
  BY <1>1, AtCommit
<1>3. db' = [db EXCEPT ![i] = [db[i] EXCEPT !.enabled = ~loaded[t][i].enabled]]
  BY <1>1 DEF AfterSwitch
<1>4. /\ [db[i] EXCEPT !.enabled = ~loaded[t][i].enabled] \in Row
      /\ [db[i] EXCEPT !.enabled = ~loaded[t][i].enabled].priority = db[i].priority
  BY <1>2 DEF Row
<1>5. Sound(db')
  BY <1>2, <1>3, <1>4, SoundNow DEF Sound
<1>6. Writes(t)
  BY <1>2, <1>3, SoundNow DEF Writes, Sound
<1>7. PositivePriorities' /\ flips' \in [Ids -> Nat]
  BY <1>1, <1>2, <1>5 DEF PositivePriorities, Present, Sound, PolicyInv, TableTypeOK
<1> QED BY <1>1, <1>5, <1>6, <1>7, EndKeeps DEF Sound, Results

LEMMA UpdateKeeps ==
  ASSUME PolicyInv, NEW t \in Requests, CommitUpdate(t) PROVE PolicyInv'
<1> DEFINE i == arg[t].first
<1>1. /\ stage[t] = "commit" /\ arg[t].op = "update" /\ UNCHANGED flips
      /\ CommitAs(t, AfterUpdate(t))
  BY DEF CommitUpdate, Commits
<1>2. i \in Ids /\ db[i] \in Row /\ locks[i] = t /\ arg[t].key \in Keys
  BY <1>1, AtCommit, ArgShape
<1>3. AfterUpdate(t) = [db EXCEPT ![i] = [db[i] EXCEPT !.key = arg[t].key]]
  BY DEF AfterUpdate
<1>4. /\ [db[i] EXCEPT !.key = arg[t].key] \in Row
      /\ [db[i] EXCEPT !.key = arg[t].key].priority = db[i].priority
  BY <1>2 DEF Row
<1>5. Sound(AfterUpdate(t))
  BY <1>2, <1>3, <1>4, SoundNow DEF Sound
<1>6. \A j \in Ids : AfterUpdate(t)[j] # db[j] => locks[j] = t
  BY <1>2, <1>3, SoundNow DEF Sound
<1> QED BY <1>1, <1>5, <1>6, CommitKeeps

\* The table after a swap: two priorities have changed places.
LEMMA SwapTable ==
  ASSUME PolicyInv, NEW t \in Requests, stage[t] = "commit", arg[t].op = "swap"
  PROVE  LET i == arg[t].first
             j == arg[t].second
         IN  /\ i \in Ids /\ locks[i] = t /\ j \in Ids /\ locks[j] = t
             /\ AfterSwap(t)[i] \in Row /\ AfterSwap(t)[i].priority = db[j].priority
             /\ AfterSwap(t)[j] \in Row /\ AfterSwap(t)[j].priority = db[i].priority
             /\ db[i].priority >= 1 /\ db[j].priority >= 1
             /\ \A k \in Ids \ {i, j} : AfterSwap(t)[k] = db[k]
             /\ AfterSwap(t) = [k \in Ids |-> AfterSwap(t)[k]]
<1> DEFINE i == arg[t].first
           j == arg[t].second
<1>2. /\ i \in Ids /\ db[i] \in Row /\ locks[i] = t /\ loaded[t][i] = db[i]
      /\ j \in Ids /\ db[j] \in Row /\ locks[j] = t /\ loaded[t][j] = db[j]
  BY AtCommit
<1>3. /\ db[i].priority \in Int /\ db[i].priority >= 1
      /\ db[j].priority \in Int /\ db[j].priority >= 1
  BY <1>2, RowFields, SoundNow DEF Sound
<1>4. \A r \in Row, p \in Int : [r EXCEPT !.priority = p] \in Row
                             /\ [r EXCEPT !.priority = p].priority = p
  BY DEF Row
<1>5. /\ AfterSwap(t)[i] \in Row /\ AfterSwap(t)[i].priority = db[j].priority
      /\ AfterSwap(t)[j] \in Row /\ AfterSwap(t)[j].priority = db[i].priority
      /\ \A k \in Ids \ {i, j} : AfterSwap(t)[k] = db[k]
      /\ AfterSwap(t) = [k \in Ids |-> AfterSwap(t)[k]]
  <2> DEFINE mid == [db EXCEPT ![i] = [db[i] EXCEPT !.priority = db[j].priority]]
             end == [mid EXCEPT ![j] = [mid[j] EXCEPT !.priority = db[i].priority]]
  <2>1. AfterSwap(t) = end
    BY <1>2 DEF AfterSwap
  <2>2. /\ mid \in [Ids -> Row \cup {Free, Gone}] /\ mid[j] \in Row
        /\ mid[i] \in Row /\ mid[i].priority = db[j].priority
        /\ \A k \in Ids \ {i} : mid[k] = db[k]
    BY <1>2, <1>3, <1>4, SoundNow DEF Sound
  <2>3. /\ end \in [Ids -> Row \cup {Free, Gone}] /\ end[j] \in Row
        /\ end[j].priority = db[i].priority
        /\ \A k \in Ids \ {j} : end[k] = mid[k]
    BY <1>2, <1>3, <1>4, <2>2
  <2> HIDE DEF mid, end
  <2> QED BY <1>2, <2>1, <2>2, <2>3
<1> QED BY <1>2, <1>3, <1>5

LEMMA SwapKeeps ==
  ASSUME PolicyInv, NEW t \in Requests, CommitSwap(t) PROVE PolicyInv'
<1>1. /\ stage[t] = "commit" /\ arg[t].op = "swap" /\ UNCHANGED flips
      /\ CommitAs(t, AfterSwap(t))
  BY DEF CommitSwap, Commits
<1>2. Sound(AfterSwap(t))
  BY <1>1, SwapTable, SoundNow DEF Sound
<1>3. \A k \in Ids : AfterSwap(t)[k] # db[k] => locks[k] = t
  BY <1>1, SwapTable
<1> QED BY <1>1, <1>2, <1>3, CommitKeeps

-----------------------------------------------------------------------------
(* The statements *)

LEMMA BeginKeeps ==
  ASSUME PolicyInv, NEW t \in Requests, NEW a \in Args, Begin(t, a)
  PROVE  PolicyInv'
<1>1. /\ stage[t] = "idle" /\ loaded[t] = NoLoad /\ moved[t] = {}
      /\ arg' = [arg EXCEPT ![t] = a]
      /\ stage' = [stage EXCEPT ![t] = IF a.op = "add" THEN "commit" ELSE "first"]
      /\ UNCHANGED <<db, locks, loaded, todo, moved, result, flips>>
  BY DEF Begin, PolicyInv, StageInv, MovedInv
<1>2. a.op \in {"add", "delete", "switch", "update", "swap"}
  BY ArgShape
<1>3. TableTypeOK'
  BY <1>1 DEF PolicyInv, TableTypeOK, Stages
<1>4. StageInv'
  BY <1>1, <1>2 DEF PolicyInv, TableTypeOK, StageInv
<1>5. LoadedInv' /\ PositivePriorities'
  BY <1>1 DEF PolicyInv, LoadedInv, PositivePriorities, Present
<1>6. MovedInv'
  BY <1>1 DEF PolicyInv, TableTypeOK, MovedInv, Present, Above
<1> QED BY <1>3, <1>4, <1>5, <1>6 DEF PolicyInv

\* A statement of t that locks the row i, if it is there, and goes on.
LEMMA LockKeeps ==
  ASSUME PolicyInv, NEW t \in Requests, NEW i \in Ids, LockRow(t, i),
         NEW s \in Stages, NextStage(t, s), moved[t] = {}
  PROVE  TableTypeOK' /\ LoadedInv' /\ MovedInv' /\ PositivePriorities'
<1>0. Gone \notin Row /\ NoRequest \notin Requests
  BY PolicyAssumption
<1>1. /\ locks[i] \in {t, NoRequest}
      /\ stage' = [stage EXCEPT ![t] = s]
      /\ UNCHANGED <<db, arg, todo, moved, result, flips>>
  BY DEF LockRow, CanLock, NextStage
<1>2. \/ /\ Present(i)
         /\ locks' = [locks EXCEPT ![i] = t]
         /\ loaded' = [loaded EXCEPT ![t][i] = db[i]]
      \/ UNCHANGED <<locks, loaded>>
  BY DEF LockRow
<1>3. TableTypeOK'
  <2>1. locks' \in [Ids -> Requests \cup {NoRequest}]
    BY <1>2 DEF PolicyInv, TableTypeOK
  <2>2. loaded' \in [Requests -> [Ids -> Row \cup {Gone}]]
    <3>1. loaded \in [Requests -> [Ids -> Row \cup {Gone}]]
      BY DEF PolicyInv, TableTypeOK
    <3>2. CASE loaded' = [loaded EXCEPT ![t] = [loaded[t] EXCEPT ![i] = db[i]]]
               /\ db[i] \in Row
      BY <3>1, <3>2
    <3> QED BY <1>2, <3>1, <3>2 DEF Present
  <2> QED BY <1>1, <2>1, <2>2 DEF PolicyInv, TableTypeOK
<1>4. PositivePriorities'
  BY <1>1 DEF PolicyInv, PositivePriorities, Present
<1>5. LoadedInv'
  <2>1. ASSUME NEW u \in Requests, NEW j \in Ids, loaded'[u][j] \in Row
        PROVE  locks'[j] = u /\ db'[j] = loaded'[u][j]
    <3>1. CASE loaded'[u][j] = loaded[u][j]
      <4>1. locks[j] = u /\ db[j] = loaded[u][j]
        BY <2>1, <3>1 DEF PolicyInv, LoadedInv
      <4>2. locks'[j] = u
        BY <1>0, <1>1, <1>2, <4>1 DEF PolicyInv, TableTypeOK
      <4> QED BY <1>1, <3>1, <4>1, <4>2
    <3>2. CASE loaded'[u][j] # loaded[u][j]
      BY <1>1, <1>2, <3>2 DEF PolicyInv, TableTypeOK
    <3> QED BY <3>1, <3>2
  <2> QED BY <2>1 DEF LoadedInv
<1>6. MovedInv'
  <2>1. \A j \in Ids : locks'[j] # NoRequest => Present(j)'
    BY <1>1, <1>2 DEF PolicyInv, TableTypeOK, MovedInv, Present
  <2>2. ASSUME NEW u \in Requests, moved'[u] # {}
        PROVE  /\ stage'[u] \in {"shift", "commit"} /\ arg'[u].op = "delete"
               /\ \A j \in moved'[u] : locks'[j] = u /\ j \in Above(u)'
    <3>1. u # t /\ moved[u] # {}
      BY <1>1, <2>2
    <3>2. /\ stage[u] \in {"shift", "commit"} /\ arg[u].op = "delete"
          /\ \A j \in moved[u] : locks[j] = u /\ j \in Above(u)
      BY <3>1 DEF PolicyInv, MovedInv
    <3>3. loaded'[u] = loaded[u] /\ stage'[u] = stage[u]
      BY <1>1, <1>2, <3>1 DEF PolicyInv, TableTypeOK
    <3>4. \A j \in Ids : locks[j] = u => locks'[j] = u
      BY <1>0, <1>1, <1>2, <3>1 DEF PolicyInv, TableTypeOK
    <3> QED BY <1>1, <3>2, <3>3, <3>4 DEF Above, Present
  <2> QED BY <2>1, <2>2 DEF MovedInv
<1> QED BY <1>3, <1>4, <1>5, <1>6

LEMMA FirstKeeps ==
  ASSUME PolicyInv, NEW t \in Requests, GetFirst(t) PROVE PolicyInv'
<1> DEFINE i == arg[t].first
<1>1. /\ stage[t] = "first" /\ arg[t] \in Args /\ arg[t].op # "add" /\ i \in Ids
      /\ moved[t] = {}
  BY ArgShape DEF GetFirst, PolicyInv, StageInv, MovedInv
<1>2. CASE Rollback(t, "notFound")
  BY <1>1, <1>2, RollbackKeeps DEF Results
<1>3. CASE arg[t].op = "swap" /\ LockRow(t, i) /\ NextStage(t, "second")
  <2>1. TableTypeOK' /\ LoadedInv' /\ MovedInv' /\ PositivePriorities'
    BY <1>1, <1>3, LockKeeps DEF Stages
  <2>2. /\ stage' = [stage EXCEPT ![t] = "second"] /\ arg' = arg
        /\ \A u \in Requests \ {t} : loaded'[u] = loaded[u]
    BY <1>3 DEF NextStage, LockRow, PolicyInv, TableTypeOK
  <2>3. StageInv'
    BY <1>1, <1>3, <2>2 DEF PolicyInv, TableTypeOK, StageInv
  <2> QED BY <2>1, <2>3 DEF PolicyInv
<1>4. ASSUME arg[t].op # "swap", Present(i), LockRow(t, i),
             NEW s \in {"count", "commit"}, NextStage(t, s),
             s = "count" => arg[t].op \in {"delete", "switch"}
      PROVE  PolicyInv'
  <2>1. TableTypeOK' /\ LoadedInv' /\ MovedInv' /\ PositivePriorities'
    BY <1>1, <1>4, LockKeeps DEF Stages
  <2>2. /\ stage' = [stage EXCEPT ![t] = s] /\ arg' = arg
        /\ loaded' = [loaded EXCEPT ![t][i] = db[i]] /\ db[i] \in Row
    BY <1>4 DEF NextStage, LockRow, Present
  <2>3. loaded'[t][i] \in Row /\ \A u \in Requests \ {t} : loaded'[u] = loaded[u]
    BY <1>1, <2>2 DEF PolicyInv, TableTypeOK
  <2>4. StageInv'
    BY <1>1, <1>4, <2>2, <2>3 DEF PolicyInv, TableTypeOK, StageInv
  <2> QED BY <2>1, <2>4 DEF PolicyInv
<1> QED BY <1>1, <1>2, <1>3, <1>4 DEF GetFirst

LEMMA SecondKeeps ==
  ASSUME PolicyInv, NEW t \in Requests, GetSecond(t) PROVE PolicyInv'
<1> DEFINE i == arg[t].first
           j == arg[t].second
<1>1. /\ stage[t] = "second" /\ arg[t] \in Args /\ arg[t].op = "swap"
      /\ i \in Ids /\ j \in Ids /\ moved[t] = {}
  BY ArgShape DEF GetSecond, PolicyInv, StageInv, MovedInv
<1>2. CASE Rollback(t, "notFound")
  BY <1>1, <1>2, RollbackKeeps DEF Results
<1>3. CASE /\ Present(j) /\ loaded[t][i] \in Row
           /\ LockRow(t, j) /\ NextStage(t, "commit")
  <2>1. TableTypeOK' /\ LoadedInv' /\ MovedInv' /\ PositivePriorities'
    BY <1>1, <1>3, LockKeeps DEF Stages
  <2>2. /\ stage' = [stage EXCEPT ![t] = "commit"] /\ arg' = arg
        /\ loaded' = [loaded EXCEPT ![t][j] = db[j]] /\ db[j] \in Row
    BY <1>3 DEF NextStage, LockRow, Present
  <2>3. /\ loaded'[t][i] \in Row /\ loaded'[t][j] \in Row
        /\ \A u \in Requests \ {t} : loaded'[u] = loaded[u]
    BY <1>1, <1>3, <2>2 DEF PolicyInv, TableTypeOK
  <2>4. StageInv'
    BY <1>1, <2>2, <2>3 DEF PolicyInv, TableTypeOK, StageInv
  <2> QED BY <2>1, <2>4 DEF PolicyInv
<1> QED BY <1>2, <1>3 DEF GetSecond

\* A statement that neither locks nor loads a row.
LEMMA StatementKeeps ==
  ASSUME PolicyInv, NEW t \in Requests, NEW s \in {"delete", "shift", "commit"},
         stage[t] \in {"count", "delete", "shift"},
         s \in {"delete", "shift"} => arg[t].op = "delete",
         moved[t] # {} => s \in {"shift", "commit"},
         stage' = [stage EXCEPT ![t] = s],
         todo' \in [Requests -> SUBSET Ids],
         UNCHANGED <<db, locks, loaded, arg, moved, result, flips>>
  PROVE  PolicyInv'
<1>1. TableTypeOK'
  BY DEF PolicyInv, TableTypeOK, Stages
<1>2. arg[t] \in Args /\ arg[t].op \in {"delete", "switch"}
      /\ loaded[t][arg[t].first] \in Row
  BY ArgShape DEF PolicyInv, StageInv
<1>3. StageInv'
  BY <1>2 DEF PolicyInv, TableTypeOK, StageInv
<1>4. LoadedInv' /\ PositivePriorities'
  BY DEF PolicyInv, LoadedInv, PositivePriorities, Present
<1>5. MovedInv'
  BY DEF PolicyInv, TableTypeOK, MovedInv, Present, Above
<1> QED BY <1>1, <1>3, <1>4, <1>5 DEF PolicyInv

LEMMA CountKeeps ==
  ASSUME PolicyInv, NEW t \in Requests, CheckPolicyCount(t) PROVE PolicyInv'
<1>1. stage[t] = "count" /\ moved[t] = {}
  BY DEF CheckPolicyCount, PolicyInv, MovedInv
<1>2. CASE Rollback(t, "lastActive")
  BY <1>1, <1>2, RollbackKeeps DEF Results
<1>3. CASE /\ NextStage(t, IF arg[t].op = "delete" THEN "delete" ELSE "commit")
           /\ UNCHANGED <<locks, loaded>>
  BY <1>1, <1>3, StatementKeeps DEF NextStage, PolicyInv, TableTypeOK
<1> QED BY <1>2, <1>3 DEF CheckPolicyCount

LEMMA DeleteRowKeeps ==
  ASSUME PolicyInv, NEW t \in Requests, DeleteRow(t) \/ ShiftEnd(t) PROVE PolicyInv'
<1>1. CASE DeleteRow(t)
  <2>1. stage[t] = "delete" /\ arg[t].op = "delete"
        /\ todo' \in [Requests -> SUBSET Ids]
    BY <1>1 DEF DeleteRow, Above, PolicyInv, TableTypeOK, StageInv
  <2> QED BY <1>1, <2>1, StatementKeeps DEF DeleteRow
<1>2. CASE ShiftEnd(t)
  BY <1>2, StatementKeeps DEF ShiftEnd, NextStage, PolicyInv, TableTypeOK
<1> QED BY <1>1, <1>2

LEMMA ShiftKeeps ==
  ASSUME PolicyInv, NEW t \in Requests, NEW i \in Ids, ShiftRow(t, i)
  PROVE  PolicyInv'
<1>0. Gone \notin Row /\ NoRequest \notin Requests
  BY PolicyAssumption
<1>1. /\ stage[t] = "shift" /\ arg[t].op = "delete" /\ locks[i] \in {t, NoRequest}
      /\ todo' = [todo EXCEPT ![t] = @ \ {i}]
      /\ UNCHANGED <<db, arg, stage, loaded, result, flips>>
  BY DEF ShiftRow, CanLock, PolicyInv, StageInv
<1>2. \/ /\ i \in Above(t)
         /\ locks' = [locks EXCEPT ![i] = t]
         /\ moved' = [moved EXCEPT ![t] = @ \cup {i}]
      \/ UNCHANGED <<locks, moved>>
  BY DEF ShiftRow
<1>3. TableTypeOK'
  <2>1. todo' \in [Requests -> SUBSET Ids]
    BY <1>1 DEF PolicyInv, TableTypeOK
  <2>2. moved' \in [Requests -> SUBSET Ids]
    BY <1>2 DEF PolicyInv, TableTypeOK
  <2>3. locks' \in [Ids -> Requests \cup {NoRequest}]
    BY <1>2 DEF PolicyInv, TableTypeOK
  <2> QED BY <1>1, <2>1, <2>2, <2>3 DEF PolicyInv, TableTypeOK
<1>4. StageInv' /\ PositivePriorities'
  BY <1>1 DEF PolicyInv, StageInv, PositivePriorities, Present
<1>5. \A j \in Ids, u \in Requests : locks[j] = u => locks'[j] = u
  BY <1>0, <1>1, <1>2 DEF PolicyInv, TableTypeOK
<1>6. LoadedInv'
  BY <1>1, <1>5 DEF PolicyInv, LoadedInv
<1>7. MovedInv'
  <2>1. \A u \in Requests : Above(u)' = Above(u)
    BY <1>1 DEF Above, Present
  <2>2. \A j \in Ids : locks'[j] # NoRequest => Present(j)'
    BY <1>1, <1>2 DEF PolicyInv, TableTypeOK, MovedInv, Present, Above
  <2>3. ASSUME NEW u \in Requests, moved'[u] # {}
        PROVE  /\ stage'[u] \in {"shift", "commit"} /\ arg'[u].op = "delete"
               /\ \A j \in moved'[u] : locks'[j] = u /\ j \in Above(u)'
    <3>1. moved[u] # {} =>
            /\ stage[u] \in {"shift", "commit"} /\ arg[u].op = "delete"
            /\ \A j \in moved[u] : j \in Ids /\ locks[j] = u /\ j \in Above(u)
      BY DEF PolicyInv, MovedInv, Above
    <3>2. CASE moved'[u] = moved[u]
      BY <1>1, <1>5, <2>1, <2>3, <3>1, <3>2
    <3>3. CASE moved'[u] # moved[u]
      <4>1. /\ u = t /\ i \in Above(t) /\ moved'[u] = moved[u] \cup {i}
            /\ locks'[i] = t
        BY <1>2, <3>3 DEF PolicyInv, TableTypeOK
      <4> QED BY <1>1, <1>5, <2>1, <3>1, <4>1
    <3> QED BY <3>2, <3>3
  <2> QED BY <2>2, <2>3 DEF MovedInv
<1> QED BY <1>3, <1>4, <1>6, <1>7 DEF PolicyInv

-----------------------------------------------------------------------------
(* The theorems *)

LEMMA PolicyStep == PolicyInv /\ [Next]_vars => PolicyInv'
<1> SUFFICES ASSUME PolicyInv, [Next]_vars PROVE PolicyInv'
  OBVIOUS
<1>1. CASE UNCHANGED vars
  BY <1>1 DEF vars, PolicyInv, TableTypeOK, StageInv, LoadedInv, MovedInv,
              PositivePriorities, Present, Above
<1>2. ASSUME NEW t \in Requests, NEW a \in Args, Begin(t, a)
      PROVE  PolicyInv'
  BY <1>2, BeginKeeps
<1>3. ASSUME NEW t \in Requests, Proceed(t)
      PROVE  PolicyInv'
  <2>1. CASE GetFirst(t) \/ GetSecond(t) \/ CheckPolicyCount(t)
    BY <2>1, FirstKeeps, SecondKeeps, CountKeeps
  <2>2. CASE DeleteRow(t) \/ ShiftEnd(t) \/ \E i \in Ids : ShiftRow(t, i)
    BY <2>2, DeleteRowKeeps, ShiftKeeps
  <2>3. CASE CommitAdd(t) \/ CommitDelete(t) \/ CommitSwitch(t)
    BY <2>3, AddKeeps, DeleteKeeps, SwitchKeeps
  <2>4. CASE CommitUpdate(t) \/ CommitSwap(t)
    BY <2>4, UpdateKeeps, SwapKeeps
  <2>5. CASE DeadlockVictim(t)
    BY <2>5, RollbackKeeps DEF DeadlockVictim, Active, Results
  <2> QED BY <1>3, <2>1, <2>2, <2>3, <2>4, <2>5 DEF Proceed
<1>4. ASSUME NEW t \in Requests, Crash(t)
      PROVE  PolicyInv'
  BY <1>4, RollbackKeeps DEF Crash, Active, Results
<1> QED BY <1>1, <1>2, <1>3, <1>4 DEF Next

LEMMA PolicyAlways == Spec => []PolicyInv
BY PolicyInit, PolicyStep, PTL DEF Spec

\* Type correctness.
THEOREM PolicyTypeCorrect == Spec => []TypeOK
<1> DEFINE Flag == overlapped \in BOOLEAN
<1>1. Init => Flag
  BY DEF Init
<1>2. Flag /\ [Next]_vars => Flag'
  BY DEF Next, Begin, Proceed, Crash, vars
<1>3. PolicyInv /\ Flag => TypeOK
  BY DEF PolicyInv, TypeOK
<1> HIDE DEF Flag
<1> QED BY PolicyAlways, <1>1, <1>2, <1>3, PTL DEF Spec

\* However requests overlap, no policy gets a priority below 1, the least a
\* listing can show (schema.py, PolicyResponse).
THEOREM PositivePrioritiesHold == Spec => []PositivePriorities
<1>1. PolicyInv => PositivePriorities
  BY DEF PolicyInv
<1> QED BY PolicyAlways, <1>1, PTL

\* The step that confirms a request is its commit.
LEMMA Confirmation ==
  ASSUME PolicyInv, Next, NEW t \in Requests, stage[t] = "commit",
         stage'[t] = "done", result'[t] = "ok"
  PROVE  \/ CommitAdd(t) \/ CommitDelete(t) \/ CommitSwitch(t)
         \/ CommitUpdate(t) \/ CommitSwap(t)
<1>1. PICK u \in Requests : (\E a \in Args : Begin(u, a)) \/ Proceed(u) \/ Crash(u)
  BY DEF Next
<1>2. ASSUME NEW v \in Requests, NEW a, Rollback(v, a), a # "ok" PROVE FALSE
  <2>1. stage' = [stage EXCEPT ![v] = "done"] /\ result' = [result EXCEPT ![v] = a]
    BY <1>2 DEF Rollback, End
  <2> QED BY <2>1, <1>2 DEF PolicyInv, TableTypeOK
<1>3. ~Crash(u) /\ ~DeadlockVictim(u)
  BY <1>2 DEF Crash, DeadlockVictim
<1>4. ASSUME NEW s, s # "done", stage' = [stage EXCEPT ![u] = s] PROVE FALSE
  BY <1>4 DEF PolicyInv, TableTypeOK
<1>5. \A a \in Args : ~Begin(u, a)
  BY <1>4 DEF Begin
<1>6. ~GetFirst(u) /\ ~GetSecond(u) /\ ~CheckPolicyCount(u)
  BY <1>2, <1>4 DEF GetFirst, GetSecond, CheckPolicyCount, NextStage
<1>7. ~DeleteRow(u) /\ ~ShiftEnd(u) /\ \A i \in Ids : ~ShiftRow(u, i)
  BY <1>4 DEF DeleteRow, ShiftEnd, ShiftRow, NextStage
<1>8. ASSUME End(u, "ok") PROVE u = t
  BY <1>8 DEF End, PolicyInv, TableTypeOK
<1>9. \/ CommitAdd(u) \/ CommitDelete(u) \/ CommitSwitch(u)
      \/ CommitUpdate(u) \/ CommitSwap(u)
  BY <1>1, <1>3, <1>5, <1>6, <1>7 DEF Proceed
<1>10. End(u, "ok")
  BY <1>2, <1>9 DEF CommitAdd, CommitDelete, CommitSwitch, CommitUpdate, CommitSwap,
                    CommitAs
<1> QED BY <1>8, <1>9, <1>10

\* The values a swap writes are those the rows have at its commit: nobody
\* changes a row between FOR UPDATE and the commit (swap_network_policy).
THEOREM SwapExchangesHolds == Spec => SwapExchanges
<1>1. ASSUME PolicyInv, Next, NEW t \in Requests, Confirms(t, "swap")
      PROVE  LET i == arg[t].first
                 j == arg[t].second
             IN  /\ db'[i].priority = db[j].priority
                 /\ db'[j].priority = db[i].priority
                 /\ \A k \in Ids \ {i, j} : db'[k] = db[k]
  <2>1. stage[t] = "commit" /\ stage'[t] = "done" /\ arg[t].op = "swap"
        /\ result'[t] = "ok"
    BY <1>1 DEF Confirms
  <2>2. CommitAs(t, AfterSwap(t))
    BY <1>1, <2>1, Confirmation
    DEF CommitAdd, CommitDelete, CommitSwitch, CommitUpdate, CommitSwap, Commits
  <2>3. ~Rollback(t, "conflict")
    BY <1>1, <2>1 DEF Rollback, End, PolicyInv, TableTypeOK
  <2>4. db' = AfterSwap(t)
    BY <2>2, <2>3 DEF CommitAs
  <2> QED BY <1>1, <2>1, <2>4, SwapTable
<1>2. PolicyInv /\ [Next]_vars =>
        [\A t \in Requests : Confirms(t, "swap") =>
           LET i == arg[t].first
               j == arg[t].second
           IN  /\ db'[i].priority = db[j].priority
               /\ db'[j].priority = db[i].priority
               /\ \A k \in Ids \ {i, j} : db'[k] = db[k]]_vars
  BY <1>1
<1> QED BY PolicyAlways, <1>2, PTL DEF Spec, SwapExchanges

\* Closing the gap of a deleted policy keeps the order of the others, because
\* two policies that end up with one priority fail the commit (priority_uc).
THEOREM DeleteKeepsOrderHolds == Spec => DeleteKeepsOrder
<1>1. ASSUME PolicyInv, Next, NEW t \in Requests, Confirms(t, "delete"),
             NEW i \in Ids \ {arg[t].first}, NEW j \in Ids \ {arg[t].first},
             Present(i), Present(j)
      PROVE  /\ Present(i)'
             /\ db[i].priority < db[j].priority => db'[i].priority < db'[j].priority
  <2>1. stage[t] = "commit" /\ stage'[t] = "done" /\ arg[t].op = "delete"
        /\ result'[t] = "ok"
    BY <1>1 DEF Confirms
  <2>2. CommitAs(t, AfterDelete(t))
    BY <1>1, <2>1, Confirmation
    DEF CommitAdd, CommitDelete, CommitSwitch, CommitUpdate, CommitSwap, Commits
  <2>3. ~Rollback(t, "conflict")
    BY <1>1, <2>1 DEF Rollback, End, PolicyInv, TableTypeOK
  <2>4. db' = AfterDelete(t) /\ Unique(db')
    BY <2>2, <2>3 DEF CommitAs
  <2>5. ASSUME NEW k \in Ids, k # arg[t].first, db[k] \in Row
        PROVE  /\ db'[k] \in Row /\ db[k].priority \in Int
               /\ \/ db'[k].priority = db[k].priority
                  \/ db'[k].priority = db[k].priority - 1
    <3>1. db[k].priority \in Int
      BY <2>5, RowFields
    <3>2. CASE k \in moved[t]
      <4>1. db'[k] = [db[k] EXCEPT !.priority = db[k].priority - 1]
        BY <2>4, <2>5, <3>2 DEF AfterDelete
      <4> QED BY <2>5, <3>1, <4>1 DEF Row
    <3>3. CASE k \notin moved[t]
      BY <2>4, <2>5, <3>1, <3>3 DEF AfterDelete
    <3> QED BY <3>2, <3>3
  <2>6. db[i] \in Row /\ db[j] \in Row
    BY <1>1 DEF Present
  <2>7. i # j => db'[i].priority # db'[j].priority
    BY <2>4, <2>5, <2>6 DEF Unique
  <2> QED BY <2>5, <2>6, <2>7 DEF Present
<1>2. PolicyInv /\ [Next]_vars =>
        [\A t \in Requests : Confirms(t, "delete") =>
           \A i, j \in Ids \ {arg[t].first} : Present(i) /\ Present(j) =>
             /\ Present(i)'
             /\ db[i].priority < db[j].priority => db'[i].priority < db'[j].priority]_vars
  BY <1>1
<1> QED BY PolicyAlways, <1>2, PTL DEF Spec, DeleteKeepsOrder

-----------------------------------------------------------------------------
(* Switches *)

\* A policy that was not handed out yet was not switched, and a new one is
\* enabled.
FlipInv == SwitchesCount /\ \A i \in Ids : db[i] = Free => flips[i] = 0 /\ Seed[i] = Free

First(i) == Seed[i] = Free \/ Seed[i].enabled

\* A commit keeps the column "enabled" of every row that stays, and enables
\* a row that is new; only a delete takes a row away.
KeepsEnabled(t) ==
  \A i \in Ids :
    \/ db'[i] = db[i]
    \/ db'[i] = Gone /\ arg[t].op = "delete" /\ arg[t].first = i
    \/ db[i] \in Row /\ db'[i] \in Row /\ db'[i].enabled = db[i].enabled
    \/ db[i] = Free /\ db'[i] \in Row /\ db'[i].enabled = TRUE

LEMMA CommitKeepsEnabled ==
  ASSUME PolicyInv, NEW t \in Requests,
         CommitAdd(t) \/ CommitDelete(t) \/ CommitUpdate(t) \/ CommitSwap(t)
  PROVE  KeepsEnabled(t)
<1>0. CASE db' = db
  BY <1>0 DEF KeepsEnabled
<1>1. CASE db' # db /\ CommitAdd(t)
  <2>1. PICK i \in Ids : db[i] = Free /\ db' = AfterAdd(t, i)
    BY <1>1 DEF CommitAdd, CommitAs, Rollback
  <2>2. [enabled |-> TRUE, priority |-> arg[t].priority, key |-> arg[t].key] \in Row
    BY <1>1, AtCommit, ArgShape DEF CommitAdd, Commits, Row
  <2>3. \A j \in Ids \ {i} : db'[j] = db[j]
    BY <2>1 DEF AfterAdd, PolicyInv, TableTypeOK
  <2>4. db'[i] \in Row /\ db'[i].enabled = TRUE
    BY <2>1, <2>2 DEF AfterAdd, PolicyInv, TableTypeOK
  <2> QED BY <1>1, <2>1, <2>3, <2>4 DEF KeepsEnabled
<1>2. CASE db' # db /\ CommitDelete(t)
  <2>1. db' = AfterDelete(t)
    BY <1>2 DEF CommitDelete, CommitAs, Rollback
  <2>2. ASSUME NEW j \in Ids, j \in moved[t], j # arg[t].first
        PROVE  db[j] \in Row /\ db'[j] \in Row /\ db'[j].enabled = db[j].enabled
    <3>1. db[j] \in Row
      BY <2>2 DEF PolicyInv, MovedInv, Above, Present
    <3>2. db'[j] = [db[j] EXCEPT !.priority = db[j].priority - 1]
      BY <2>1, <2>2 DEF AfterDelete
    <3> QED BY <3>1, <3>2 DEF Row
  <2>3. \A j \in Ids : j \notin moved[t] /\ j # arg[t].first => db'[j] = db[j]
    BY <2>1 DEF AfterDelete
  <2>4. \A j \in Ids : j = arg[t].first => db'[j] = Gone
    BY <2>1 DEF AfterDelete
  <2> QED BY <1>2, <2>2, <2>3, <2>4 DEF KeepsEnabled, CommitDelete, Commits
<1>3. CASE db' # db /\ CommitUpdate(t)
  <2> DEFINE i == arg[t].first
  <2>1. /\ db' = [db EXCEPT ![i] = [db[i] EXCEPT !.key = arg[t].key]]
        /\ i \in Ids /\ db[i] \in Row /\ arg[t].key \in Keys
    BY <1>3, AtCommit, ArgShape
    DEF CommitUpdate, CommitAs, Rollback, AfterUpdate, Commits
  <2>2. \A j \in Ids \ {i} : db'[j] = db[j]
    BY <2>1
  <2>3. db'[i] \in Row /\ db'[i].enabled = db[i].enabled
    BY <2>1 DEF PolicyInv, TableTypeOK, Row
  <2> QED BY <1>3, <2>1, <2>2, <2>3 DEF KeepsEnabled
<1>4. CASE db' # db /\ CommitSwap(t)
  <2> DEFINE i == arg[t].first
             j == arg[t].second
  <2>1. /\ stage[t] = "commit" /\ arg[t].op = "swap" /\ UNCHANGED flips
        /\ db' = AfterSwap(t)
    BY <1>4 DEF CommitSwap, CommitAs, Rollback, Commits
  <2>2. /\ i \in Ids /\ db[i] \in Row /\ j \in Ids /\ db[j] \in Row
        /\ db'[i] \in Row /\ db'[j] \in Row
        /\ \A k \in Ids \ {i, j} : db'[k] = db[k]
    BY <2>1, SwapTable, AtCommit
  <2>3. db'[i].enabled = db[i].enabled /\ db'[j].enabled = db[j].enabled
    <3> DEFINE mid == [db EXCEPT ![i] = [db[i] EXCEPT !.priority = loaded[t][j].priority]]
               end == [mid EXCEPT ![j] = [mid[j] EXCEPT !.priority = loaded[t][i].priority]]
    <3>1. db' = end
      BY <2>1 DEF AfterSwap
    <3>2. \A r \in Row : \A p : [r EXCEPT !.priority = p].enabled = r.enabled
      BY DEF Row
    <3>3. /\ DOMAIN mid = Ids /\ mid[i].enabled = db[i].enabled
          /\ mid[j].enabled = db[j].enabled
          /\ \A k \in Ids \ {i} : mid[k] = db[k]
      BY <2>2, <3>2 DEF PolicyInv, TableTypeOK
    <3>4. end[j].enabled = mid[j].enabled /\ (i # j => end[i] = mid[i])
      BY <2>2, <3>3 DEF PolicyInv, TableTypeOK, Row
    <3> HIDE DEF mid, end
    <3> QED BY <3>1, <3>3, <3>4
  <2> QED BY <2>1, <2>2, <2>3 DEF KeepsEnabled
<1> QED BY <1>0, <1>1, <1>2, <1>3, <1>4

LEMMA EnabledKept ==
  ASSUME PolicyInv, FlipInv, UNCHANGED flips, NEW t \in Requests, KeepsEnabled(t)
  PROVE  FlipInv'
BY PolicyAssumption DEF FlipInv, SwitchesCount, Present, KeepsEnabled

LEMMA FlipStep == PolicyInv /\ FlipInv /\ [Next]_vars => FlipInv'
<1> SUFFICES ASSUME PolicyInv, FlipInv, [Next]_vars PROVE FlipInv'
  OBVIOUS
<1>1. CASE UNCHANGED <<db, flips>>
  BY <1>1 DEF FlipInv, SwitchesCount, Present
<1>2. ASSUME NEW t \in Requests, CommitAdd(t) \/ CommitDelete(t)
                                 \/ CommitUpdate(t) \/ CommitSwap(t)
      PROVE  FlipInv'
  <2>1. UNCHANGED flips
    BY <1>2 DEF CommitAdd, CommitDelete, CommitUpdate, CommitSwap
  <2> QED BY <1>2, <2>1, CommitKeepsEnabled, EnabledKept
<1>3. ASSUME NEW t \in Requests, CommitSwitch(t)
      PROVE  FlipInv'
  <2> DEFINE i == arg[t].first
  <2>1. /\ i \in Ids /\ db[i] \in Row /\ loaded[t][i] = db[i]
        /\ db' = [db EXCEPT ![i] = [db[i] EXCEPT !.enabled = ~db[i].enabled]]
        /\ flips' = [flips EXCEPT ![i] = @ + 1]
    BY <1>3, AtCommit DEF CommitSwitch, Commits, AfterSwitch
  <2>2. /\ db[i].enabled \in BOOLEAN /\ db'[i] \in Row
        /\ db'[i].enabled = ~db[i].enabled
    BY <2>1 DEF PolicyInv, TableTypeOK, Row
  <2>3. \A j \in Ids \ {i} : db'[j] = db[j] /\ flips'[j] = flips[j]
    BY <2>1 DEF PolicyInv, TableTypeOK
  <2>4. flips[i] \in Nat /\ flips'[i] = flips[i] + 1
    BY <2>1 DEF PolicyInv, TableTypeOK
  <2>5. (flips[i] + 1) % 2 = 0 <=> flips[i] % 2 # 0
    BY <2>4
  <2>6. db[i].enabled <=> (First(i) <=> flips[i] % 2 = 0)
    BY <2>1 DEF FlipInv, SwitchesCount, Present, First
  <2>7. db'[i].enabled <=> (First(i) <=> flips'[i] % 2 = 0)
    BY <2>2, <2>4, <2>5, <2>6
  <2>8. SwitchesCount'
    BY <2>3, <2>7 DEF FlipInv, SwitchesCount, Present, First
  <2> QED BY <2>1, <2>2, <2>3, <2>8, PolicyAssumption DEF FlipInv
<1>4. \/ UNCHANGED <<db, flips>>
      \/ \E t \in Requests : CommitAdd(t) \/ CommitDelete(t) \/ CommitSwitch(t)
                             \/ CommitUpdate(t) \/ CommitSwap(t)
  BY DEF Next, Proceed, Begin, GetFirst, GetSecond, CheckPolicyCount, DeleteRow,
         ShiftRow, ShiftEnd, DeadlockVictim, Crash, Rollback, NextStage, vars
<1> QED BY <1>1, <1>2, <1>3, <1>4

\* No confirmed switch of a policy is lost to another request that overlaps
\* it, or counted twice (switch_network_policy).
THEOREM SwitchesCountHolds == Spec => []SwitchesCount
<1>1. Init => FlipInv
  BY PolicyAssumption DEF Init, FlipInv, SwitchesCount, Present
<1>2. FlipInv => SwitchesCount
  BY DEF FlipInv
<1> QED BY PolicyAlways, <1>1, FlipStep, <1>2, PTL DEF Spec

-----------------------------------------------------------------------------
(* Requests that do not overlap *)

\* A request past check_policy_count() that is about to take an enabled
\* policy away.
Removes(t) ==
  /\ stage[t] \in {"delete", "shift", "commit"}
  /\ \/ arg[t].op = "delete"
     \/ arg[t].op = "switch" /\ loaded[t][arg[t].first].enabled

\* As long as no request has begun beside another, it leaves another one.
SerialInv ==
  ~overlapped =>
    /\ \A t, u \in Active : t = u
    /\ AtLeastOneActive
    /\ \A t \in Requests : Removes(t) => \E j \in Enabled : j # arg[t].first

LEMMA SerialStep == PolicyInv /\ SerialInv /\ [Next]_vars => SerialInv'
<1> SUFFICES ASSUME PolicyInv, SerialInv, [Next]_vars, ~overlapped'
             PROVE  SerialInv'
  BY DEF SerialInv
<1>0. ~overlapped
  BY DEF Next, Begin, Proceed, Crash, vars
<1> USE <1>0
<1>1. CASE UNCHANGED vars
  BY <1>1 DEF vars, SerialInv, AtLeastOneActive, Active, Removes, Enabled, Present
\* The first request of all that are not in progress.
<1>2. ASSUME NEW t \in Requests, NEW a \in Args, Begin(t, a)
      PROVE  SerialInv'
  <2>1. Active = {}
    BY <1>2 DEF Begin
  <2>2. /\ stage[t] = "idle" /\ db' = db
        /\ stage' = [stage EXCEPT ![t] = IF a.op = "add" THEN "commit" ELSE "first"]
        /\ arg' = [arg EXCEPT ![t] = a]
    BY <1>2 DEF Begin
  <2>3. /\ \A u \in Requests : stage[u] \in {"idle", "done"}
        /\ \A u \in Requests \ {t} : stage'[u] = stage[u]
        /\ stage'[t] = "first" \/ (stage'[t] = "commit" /\ arg'[t].op = "add")
    BY <2>1, <2>2 DEF Active, PolicyInv, TableTypeOK
  <2> QED BY <2>2, <2>3 DEF SerialInv, AtLeastOneActive, Active, Removes, Enabled, Present
\* The steps of the one that is.
<1>3. ASSUME NEW t \in Requests, Proceed(t) \/ Crash(t)
      PROVE  SerialInv'
  <2>1. /\ stage[t] \notin {"idle", "done"}
        /\ \A u \in Requests \ {t} : stage[u] \in {"idle", "done"}
    <3>1. stage[t] \notin {"idle", "done"}
      BY <1>3 DEF Proceed, GetFirst, GetSecond, CheckPolicyCount, DeleteRow, ShiftEnd,
           ShiftRow, CommitAdd, CommitDelete, CommitSwitch, CommitUpdate, CommitSwap,
           Commits, DeadlockVictim, Crash, Active
    <3> QED BY <3>1 DEF SerialInv, Active
  <2>2. /\ \A u \in Requests \ {t} : stage'[u] = stage[u]
        /\ arg' = arg
    BY <1>3 DEF Proceed, GetFirst, GetSecond, CheckPolicyCount, DeleteRow, ShiftEnd,
         ShiftRow, CommitAdd, CommitDelete, CommitSwitch, CommitUpdate, CommitSwap,
         CommitAs, DeadlockVictim, Crash, Rollback, End, NextStage, PolicyInv, TableTypeOK
  <2>3. \A v, u \in Active' : v = u
    BY <2>1, <2>2 DEF Active
  <2>4. \A u \in Requests : Removes(u)' => u = t
    BY <2>1, <2>2 DEF Removes
  <2>5. CASE \E a \in Results : Rollback(t, a)
    <3>1. stage'[t] = "done" /\ db' = db
      BY <2>5 DEF Rollback, End, PolicyInv, TableTypeOK
    <3> QED BY <2>3, <2>4, <3>1
        DEF SerialInv, AtLeastOneActive, Removes, Enabled, Present
  <2>6. CASE GetFirst(t) \/ GetSecond(t)
    <3>1. CASE \E a \in Results : Rollback(t, a)
      BY <2>5, <3>1
    <3>2. CASE \/ stage'[t] = "second" /\ db' = db
               \/ stage'[t] = "count" /\ db' = db
               \/ stage'[t] = "commit" /\ arg[t].op = "swap" /\ db' = db
      <4>1. ~Removes(t)'
        BY <2>2, <3>2 DEF Removes
      <4>2. Enabled' = Enabled
        BY <3>2 DEF Enabled, Present
      <4>3. \A u \in Requests : ~Removes(u)'
        BY <2>4, <4>1
      <4>4. AtLeastOneActive'
        BY <4>2 DEF SerialInv, AtLeastOneActive
      <4> QED BY <2>3, <4>3, <4>4 DEF SerialInv
    <3>3. CASE /\ stage[t] = "first" /\ Present(arg[t].first) /\ LockRow(t, arg[t].first)
               /\ NextStage(t, "commit") /\ arg[t].op # "delete"
               /\ ~(arg[t].op = "switch" /\ db[arg[t].first].enabled)
      <4>1. arg[t].op # "add" /\ arg[t].first \in Ids
        BY <3>3, ArgShape DEF PolicyInv, StageInv
      <4>2. loaded'[t][arg[t].first] = db[arg[t].first] /\ db' = db
        BY <3>3, <4>1 DEF LockRow, NextStage, PolicyInv, TableTypeOK
      <4>3. ~Removes(t)'
        BY <2>2, <3>3, <4>2 DEF Removes
      <4> QED BY <2>3, <2>4, <4>2, <4>3
          DEF SerialInv, AtLeastOneActive, Enabled, Present
    <3>4. CASE GetFirst(t) /\ arg[t].op = "swap"
      BY <3>2, <3>4 DEF GetFirst, NextStage, PolicyInv, TableTypeOK
    <3>5. CASE GetFirst(t) /\ arg[t].op # "swap" /\ ~Present(arg[t].first)
      <4>1. Rollback(t, "notFound")
        BY <3>5 DEF GetFirst
      <4> QED BY <3>1, <4>1 DEF Results
    <3>6. CASE GetFirst(t) /\ arg[t].op # "swap" /\ Present(arg[t].first)
      <4>1. /\ stage[t] = "first" /\ LockRow(t, arg[t].first)
            /\ NextStage(t, IF \/ arg[t].op = "delete"
                               \/ arg[t].op = "switch" /\ db[arg[t].first].enabled
                            THEN "count" ELSE "commit")
        BY <3>6 DEF GetFirst
      <4>2. CASE arg[t].op = "delete" \/ (arg[t].op = "switch" /\ db[arg[t].first].enabled)
        <5>1. stage'[t] = "count" /\ db' = db
          BY <4>1, <4>2 DEF NextStage, PolicyInv, TableTypeOK
        <5> QED BY <3>2, <5>1
      <4>3. CASE ~(arg[t].op = "delete" \/ (arg[t].op = "switch" /\ db[arg[t].first].enabled))
        BY <3>3, <3>6, <4>1, <4>3
      <4> QED BY <4>2, <4>3
    <3>7. CASE GetSecond(t)
      <4>1. CASE Rollback(t, "notFound")
        BY <3>1, <4>1 DEF Results
      <4>2. CASE NextStage(t, "commit")
        <5>1. arg[t].op = "swap"
          BY <3>7 DEF GetSecond, PolicyInv, StageInv
        <5>2. stage'[t] = "commit" /\ db' = db
          BY <4>2 DEF NextStage, PolicyInv, TableTypeOK
        <5> QED BY <3>2, <5>1, <5>2
      <4> QED BY <3>7, <4>1, <4>2 DEF GetSecond
    <3> QED BY <2>6, <3>4, <3>5, <3>6, <3>7
  <2>7. CASE CheckPolicyCount(t)
    <3>1. CASE Rollback(t, "lastActive")
      BY <2>5, <3>1 DEF Results
    <3>2. CASE Cardinality(Enabled) # 1 /\ db' = db
      <4>1. \E j \in Enabled : j # arg[t].first
        <5>1. Cardinality({arg[t].first}) = 1
          BY FS_Singleton
        <5>2. Enabled # {arg[t].first}
          BY <3>2, <5>1
        <5> QED BY <5>2 DEF SerialInv, AtLeastOneActive
      <4>2. Enabled' = Enabled
        BY <3>2 DEF Enabled, Present
      <4> QED BY <2>2, <2>3, <2>4, <4>1, <4>2 DEF SerialInv, AtLeastOneActive
    <3> QED BY <2>7, <3>1, <3>2 DEF CheckPolicyCount, NextStage
  <2>8. CASE DeleteRow(t) \/ ShiftEnd(t) \/ \E i \in Ids : ShiftRow(t, i)
    <3>1. stage[t] \in {"delete", "shift"} /\ arg[t].op = "delete" /\ db' = db
      BY <2>8 DEF DeleteRow, ShiftEnd, ShiftRow, NextStage, PolicyInv, StageInv
    <3>2. \E j \in Enabled : j # arg[t].first
      BY <3>1 DEF SerialInv, Removes
    <3>3. Enabled' = Enabled
      BY <3>1 DEF Enabled, Present
    <3> QED BY <2>2, <2>3, <2>4, <3>2, <3>3 DEF SerialInv, AtLeastOneActive
  <2>9. CASE CommitAdd(t) \/ CommitDelete(t) \/ CommitUpdate(t) \/ CommitSwap(t)
    <3>1. KeepsEnabled(t)
      BY <2>9, CommitKeepsEnabled
    <3>2. stage'[t] = "done" /\ stage[t] = "commit"
      BY <2>9 DEF CommitAdd, CommitDelete, CommitUpdate, CommitSwap, CommitAs, Commits,
                  Rollback, End, PolicyInv, TableTypeOK
    <3>3. \E j \in Enabled : arg[t].op = "delete" => j # arg[t].first
      BY <3>2 DEF SerialInv, AtLeastOneActive, Removes
    <3>4. AtLeastOneActive'
      BY <3>1, <3>3, PolicyAssumption DEF KeepsEnabled, AtLeastOneActive, Enabled, Present
    <3> QED BY <2>3, <2>4, <3>2, <3>4 DEF SerialInv, Removes
  <2>10. CASE CommitSwitch(t)
    <3> DEFINE i == arg[t].first
    <3>1. /\ stage[t] = "commit" /\ arg[t].op = "switch" /\ stage'[t] = "done"
          /\ i \in Ids /\ db[i] \in Row /\ loaded[t][i] = db[i]
          /\ db' = [db EXCEPT ![i] = [db[i] EXCEPT !.enabled = ~db[i].enabled]]
      BY <2>10, AtCommit
      DEF CommitSwitch, Commits, AfterSwitch, End, PolicyInv, TableTypeOK
    <3>2. /\ db'[i] \in Row /\ db'[i].enabled = ~db[i].enabled
          /\ \A j \in Ids \ {i} : db'[j] = db[j]
      BY <3>1 DEF PolicyInv, TableTypeOK, Row
    <3>3. AtLeastOneActive'
      <4>1. CASE db[i].enabled
        <5>1. \E j \in Enabled : j # i
          BY <3>1, <4>1 DEF SerialInv, Removes
        <5> QED BY <3>2, <5>1 DEF AtLeastOneActive, Enabled, Present
      <4>2. CASE ~db[i].enabled
        BY <3>1, <3>2, <4>2 DEF AtLeastOneActive, Enabled, Present
      <4> QED BY <4>1, <4>2
    <3> QED BY <2>3, <2>4, <3>1, <3>3 DEF SerialInv, Removes
  <2>11. CASE DeadlockVictim(t) \/ Crash(t)
    BY <2>5, <2>11 DEF DeadlockVictim, Crash, Results
  <2> QED BY <1>3, <2>6, <2>7, <2>8, <2>9, <2>10, <2>11 DEF Proceed
<1> QED BY <1>1, <1>2, <1>3 DEF Next

\* Requests that do not overlap keep an active policy, however many there are
\* and wherever they are cut off: what check_policy_count() counts is still so
\* when the request commits.
THEOREM SerialKeepsActiveHolds == Spec => []SerialKeepsActive
<1>1. Init => SerialInv
  BY PolicyAssumption
  DEF Init, SerialInv, AtLeastOneActive, Active, Removes, Enabled, Present
<1>2. SerialInv => SerialKeepsActive
  BY DEF SerialInv, SerialKeepsActive
<1> QED BY PolicyAlways, SerialStep, <1>1, <1>2, PTL DEF Spec

-----------------------------------------------------------------------------
(* Uniqueness conflicts *)

\* The columns of a row that are unique.
SameUnique(r, s) == r.key = s.key /\ r.priority = s.priority

\* As long as no request has begun beside another, the gap closing of a delete
\* has visited, or is going to visit, every row above the deleted one.
OwnInv ==
  ~overlapped =>
    /\ Unique(db)
    /\ \A t \in Requests :
         /\ stage[t] \in {"shift", "commit"} /\ arg[t].op = "delete"
              => Above(t) \subseteq moved[t] \cup todo[t]
         /\ stage[t] = "commit" /\ arg[t].op = "delete" => todo[t] = {}
         /\ result[t] = "conflict" => stage[t] = "done" /\ arg[t].op \in {"add", "update"}

\* A table whose unique columns are those of the present one.
LEMMA UniqueSame ==
  ASSUME Unique(db), NEW table,
         \A i \in Ids : table[i] \in Row => db[i] \in Row /\ SameUnique(table[i], db[i])
  PROVE  Unique(table)
BY DEF Unique, SameUnique

\* Every row above the deleted one moves down into the place of the one below.
LEMMA UniqueDelete ==
  ASSUME PolicyInv, OwnInv, ~overlapped,
         NEW t \in Requests, stage[t] = "commit", arg[t].op = "delete"
  PROVE  Unique(AfterDelete(t))
<1> DEFINE i == arg[t].first
           T == AfterDelete(t)
<1>1. i \in Ids /\ db[i] \in Row /\ loaded[t][i] = db[i]
  BY AtCommit
<1>2. \A j \in Ids : j \in moved[t] <=> db[j] \in Row /\ db[j].priority > db[i].priority
  BY <1>1 DEF OwnInv, PolicyInv, MovedInv, Above, Present
<1>3. \A j \in Ids : db[j] \in Row => db[j].priority \in Int
  BY RowFields
<1>4. ASSUME NEW j \in Ids, T[j] \in Row
      PROVE  /\ j # i /\ db[j] \in Row /\ T[j].key = db[j].key
             /\ T[j].priority = IF db[j].priority > db[i].priority
                                THEN db[j].priority - 1 ELSE db[j].priority
  <2>1. j # i
    BY <1>4, PolicyAssumption DEF AfterDelete
  <2>2. CASE j \in moved[t]
    <3>1. db[j] \in Row /\ db[j].priority > db[i].priority
      BY <1>2, <2>2
    <3>2. T[j] = [db[j] EXCEPT !.priority = db[j].priority - 1]
      BY <2>1, <2>2 DEF AfterDelete
    <3>3. T[j].key = db[j].key /\ T[j].priority = db[j].priority - 1
      BY <3>1, <3>2 DEF Row
    <3> QED BY <2>1, <3>1, <3>3
  <2>3. CASE j \notin moved[t]
    <3>1. T[j] = db[j]
      BY <2>1, <2>3 DEF AfterDelete
    <3> QED BY <1>2, <1>4, <2>1, <2>3, <3>1
  <2> QED BY <2>2, <2>3
<1>5. ASSUME NEW j \in Ids, NEW k \in Ids, T[j] \in Row, T[k] \in Row, j # k
      PROVE  T[j].key # T[k].key /\ T[j].priority # T[k].priority
  <2>1. /\ db[j].key # db[k].key /\ db[j].priority # db[k].priority
        /\ db[j].priority # db[i].priority /\ db[k].priority # db[i].priority
    BY <1>1, <1>4, <1>5 DEF OwnInv, Unique
  <2>2. db[i].priority \in Int /\ db[j].priority \in Int /\ db[k].priority \in Int
    BY <1>1, <1>3, <1>4, <1>5
  <2>3. /\ T[j].key = db[j].key /\ T[k].key = db[k].key
        /\ T[j].priority = IF db[j].priority > db[i].priority
                           THEN db[j].priority - 1 ELSE db[j].priority
        /\ T[k].priority = IF db[k].priority > db[i].priority
                           THEN db[k].priority - 1 ELSE db[k].priority
    BY <1>4, <1>5
  <2> HIDE DEF T, i
  <2> QED BY <2>1, <2>2, <2>3
<1> QED BY <1>5 DEF Unique

\* Two rows exchange their priorities and keep their keys.
LEMMA UniqueSwap ==
  ASSUME PolicyInv, OwnInv, ~overlapped,
         NEW t \in Requests, stage[t] = "commit", arg[t].op = "swap"
  PROVE  Unique(AfterSwap(t))
<1> DEFINE i == arg[t].first
           j == arg[t].second
           T == AfterSwap(t)
<1>1. /\ i \in Ids /\ db[i] \in Row /\ j \in Ids /\ db[j] \in Row
      /\ T[i].priority = db[j].priority /\ T[j].priority = db[i].priority
      /\ \A k \in Ids \ {i, j} : T[k] = db[k]
  BY AtCommit, SwapTable
<1>2. T[i].key = db[i].key /\ T[j].key = db[j].key
  BY <1>1 DEF AfterSwap, PolicyInv, TableTypeOK, Row
<1>3. \A k, m \in Ids : db[k] \in Row /\ db[m] \in Row /\ k # m
        => db[k].key # db[m].key /\ db[k].priority # db[m].priority
  BY DEF OwnInv, Unique
<1>4. ASSUME NEW k \in Ids, NEW m \in Ids, T[k] \in Row, T[m] \in Row, k # m
      PROVE  T[k].key # T[m].key /\ T[k].priority # T[m].priority
  <2> HIDE DEF T, i, j
  <2> QED BY <1>1, <1>2, <1>3, <1>4
<1> QED BY <1>4 DEF Unique

LEMMA OwnStep == PolicyInv /\ SerialInv /\ OwnInv /\ [Next]_vars => OwnInv'
<1> SUFFICES ASSUME PolicyInv, SerialInv, OwnInv, [Next]_vars, ~overlapped'
             PROVE  OwnInv'
  BY DEF OwnInv
<1>0. ~overlapped
  BY DEF Next, Begin, Proceed, Crash, vars
<1> USE <1>0
<1>1. CASE UNCHANGED vars
  BY <1>1 DEF vars, OwnInv, Unique, Above, Present
<1>2. ASSUME NEW t \in Requests, NEW a \in Args, Begin(t, a)
      PROVE  OwnInv'
  <2>1. \A u \in Requests : stage[u] \in {"idle", "done"}
    BY <1>2 DEF Begin, Active, PolicyInv, TableTypeOK
  <2>2. /\ stage[t] = "idle" /\ db' = db /\ result' = result
        /\ stage'[t] = "first" \/ (stage'[t] = "commit" /\ arg'[t].op = "add")
        /\ \A u \in Requests \ {t} : stage'[u] = stage[u] /\ arg'[u] = arg[u]
    BY <1>2, <2>1 DEF Begin, PolicyInv, TableTypeOK
  <2> QED BY <2>1, <2>2 DEF OwnInv, Unique
<1>3. ASSUME NEW t \in Requests, Proceed(t) \/ Crash(t)
      PROVE  OwnInv'
  <2>1. /\ stage[t] \notin {"idle", "done"}
        /\ \A u \in Requests \ {t} : stage[u] \in {"idle", "done"}
    <3>1. stage[t] \notin {"idle", "done"}
      BY <1>3 DEF Proceed, GetFirst, GetSecond, CheckPolicyCount, DeleteRow, ShiftEnd,
           ShiftRow, CommitAdd, CommitDelete, CommitSwitch, CommitUpdate, CommitSwap,
           Commits, DeadlockVictim, Crash, Active
    <3> QED BY <3>1 DEF SerialInv, Active
  <2>2. /\ \A u \in Requests \ {t} : stage'[u] = stage[u] /\ result'[u] = result[u]
        /\ arg' = arg
    BY <1>3 DEF Proceed, GetFirst, GetSecond, CheckPolicyCount, DeleteRow, ShiftEnd,
         ShiftRow, CommitAdd, CommitDelete, CommitSwitch, CommitUpdate, CommitSwap,
         CommitAs, DeadlockVictim, Crash, Rollback, End, NextStage, PolicyInv, TableTypeOK
  <2>3. result[t] # "conflict"
    BY <2>1 DEF OwnInv
  \* What is left to show is about t alone.
  <2>4. ASSUME Unique(db'),
               /\ stage'[t] \in {"shift", "commit"} /\ arg[t].op = "delete"
                    => Above(t)' \subseteq moved'[t] \cup todo'[t]
               /\ stage'[t] = "commit" /\ arg[t].op = "delete" => todo'[t] = {}
               /\ result'[t] = "conflict" => stage'[t] = "done" /\ arg[t].op \in {"add", "update"}
        PROVE  OwnInv'
    BY <2>1, <2>2, <2>4 DEF OwnInv, Unique
  <2>5. CASE \E a \in Results \ {"conflict"} : Rollback(t, a)
    <3>1. stage'[t] = "done" /\ db' = db /\ result'[t] # "conflict"
      BY <2>5 DEF Rollback, End, PolicyInv, TableTypeOK
    <3> QED BY <2>4, <3>1 DEF OwnInv
  <2>6. CASE /\ stage'[t] \in {"second", "count", "delete", "commit"} /\ db' = db /\ result' = result
             /\ stage'[t] = "commit" => arg[t].op # "delete"
    BY <2>3, <2>4, <2>6 DEF OwnInv
  <2>7. CASE GetFirst(t) \/ GetSecond(t)
    <3>1. CASE Rollback(t, "notFound")
      BY <2>5, <3>1 DEF Results
    <3>2. CASE GetFirst(t) /\ ~Rollback(t, "notFound")
      <4>1. /\ stage'[t] \in {"second", "count", "commit"} /\ db' = db /\ result' = result
            /\ stage'[t] = "commit" => arg[t].op # "delete"
        BY <3>2 DEF GetFirst, NextStage, PolicyInv, TableTypeOK
      <4> QED BY <2>6, <4>1
    <3>3. CASE GetSecond(t) /\ ~Rollback(t, "notFound")
      <4>1. /\ stage'[t] = "commit" /\ db' = db /\ result' = result
            /\ arg[t].op = "swap"
        BY <3>3 DEF GetSecond, NextStage, PolicyInv, TableTypeOK, StageInv
      <4> QED BY <2>6, <4>1
    <3> QED BY <2>7, <3>1, <3>2, <3>3
  <2>8. CASE CheckPolicyCount(t)
    <3>1. CASE Rollback(t, "lastActive")
      BY <2>5, <3>1 DEF Results
    <3>2. CASE NextStage(t, IF arg[t].op = "delete" THEN "delete" ELSE "commit")
      <4>1. /\ stage'[t] \in {"delete", "commit"} /\ db' = db /\ result' = result
            /\ stage'[t] = "commit" => arg[t].op # "delete"
        BY <3>2 DEF NextStage, PolicyInv, TableTypeOK
      <4> QED BY <2>6, <4>1
    <3> QED BY <2>8, <3>1, <3>2 DEF CheckPolicyCount
  <2>9. CASE DeleteRow(t)
    <3>1. /\ stage'[t] = "shift" /\ todo'[t] = Above(t) /\ Above(t)' = Above(t)
          /\ db' = db /\ result' = result
      BY <2>9 DEF DeleteRow, Above, Present, PolicyInv, TableTypeOK
    <3> QED BY <2>3, <2>4, <3>1 DEF OwnInv
  <2>10. ASSUME NEW i \in Ids, ShiftRow(t, i) PROVE OwnInv'
    <3>1. /\ stage[t] = "shift" /\ stage' = stage /\ todo'[t] = todo[t] \ {i}
          /\ Above(t)' = Above(t) /\ db' = db /\ result' = result
          /\ moved'[t] = IF i \in Above(t) THEN moved[t] \cup {i} ELSE moved[t]
      BY <2>10 DEF ShiftRow, Above, Present, PolicyInv, TableTypeOK
    <3> QED BY <2>3, <2>4, <3>1 DEF OwnInv
  <2>11. CASE ShiftEnd(t)
    <3>1. /\ stage[t] = "shift" /\ stage'[t] = "commit" /\ todo[t] = {} /\ todo' = todo
          /\ moved' = moved /\ Above(t)' = Above(t) /\ db' = db /\ result' = result
      BY <2>11 DEF ShiftEnd, NextStage, Above, Present, PolicyInv, TableTypeOK
    <3> QED BY <2>3, <2>4, <3>1 DEF OwnInv
  <2>12. ASSUME NEW table, CommitAs(t, table),
                Unique(table) \/ arg[t].op \in {"add", "update"}
         PROVE  OwnInv'
    <3>1. /\ stage'[t] = "done"
          /\ \/ Unique(table) /\ db' = table /\ result'[t] = "ok"
             \/ ~Unique(table) /\ db' = db /\ result'[t] = "conflict"
      BY <2>12 DEF CommitAs, Rollback, End, PolicyInv, TableTypeOK
    <3> QED BY <2>4, <2>12, <3>1 DEF OwnInv
  <2>13. CASE CommitAdd(t) \/ CommitUpdate(t)
    BY <2>12, <2>13 DEF CommitAdd, CommitUpdate, Commits
  <2>14. CASE CommitDelete(t)
    BY <2>12, <2>14, UniqueDelete DEF CommitDelete, Commits
  <2>15. CASE CommitSwap(t)
    BY <2>12, <2>15, UniqueSwap DEF CommitSwap, Commits
  <2>16. CASE CommitSwitch(t)
    <3> DEFINE i == arg[t].first
    <3>1. /\ stage[t] = "commit" /\ arg[t].op = "switch" /\ stage'[t] = "done"
          /\ result'[t] = "ok" /\ i \in Ids /\ db[i] \in Row
          /\ db' = [db EXCEPT ![i] = [db[i] EXCEPT !.enabled = ~loaded[t][i].enabled]]
      BY <2>16, AtCommit
      DEF CommitSwitch, Commits, AfterSwitch, End, PolicyInv, TableTypeOK
    <3>2. \A j \in Ids : db'[j] \in Row => db[j] \in Row /\ SameUnique(db'[j], db[j])
      BY <3>1 DEF PolicyInv, TableTypeOK, Row, SameUnique
    <3>3. Unique(db')
      BY <3>2, UniqueSame DEF OwnInv
    <3> QED BY <2>4, <3>1, <3>3
  <2>17. CASE DeadlockVictim(t) \/ Crash(t)
    BY <2>5, <2>17 DEF DeadlockVictim, Crash, Results
  <2> QED BY <1>3, <2>7, <2>8, <2>9, <2>10, <2>11, <2>13, <2>14, <2>15, <2>16, <2>17
          DEF Proceed
<1> QED BY <1>1, <1>2, <1>3 DEF Next

\* Requests that do not overlap run into a uniqueness conflict by what the
\* client asks for alone: a swap exchanges two priorities, and a delete closes
\* exactly the gap it makes, as the deferred constraint wants it (ldap3.py).
THEOREM NoOwnConflictHolds == Spec => []NoOwnConflict
<1>1. Init => SerialInv /\ OwnInv
  BY PolicyAssumption, SeedAssumption
  DEF Init, SerialInv, AtLeastOneActive, Active, Removes, Enabled, Present, OwnInv
<1>2. OwnInv => NoOwnConflict
  BY DEF OwnInv, NoOwnConflict
<1> QED BY PolicyAlways, SerialStep, OwnStep, <1>1, <1>2, PTL DEF Spec
=============================================================================
