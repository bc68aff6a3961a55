-------------------------- MODULE PasswordsProofs ---------------------------
(***************************************************************************)
(* Proofs about Passwords, for any requests, users, policies and days.     *)
(***************************************************************************)
EXTENDS Passwords, SequenceTheorems, TLAPS

\* The password is not one of those the history keeps.
Fresh(t) == New(t) \notin Recent(mine[t].history, rules[t].history)

\* What a request has loaded and has left to do at each of its stages.
StageInv ==
  \A t \in Requests :
    /\ stage[t] # "idle" => arg[t] \in Asks
    /\ stage[t] \in {"user", "policy", "validate", "commit"} => done[t] < Len(arg[t].new)
    /\ stage[t] = "idle" => done[t] = 0
    /\ stage[t] = "commit" => Fresh(t)

IInv == TypeOK /\ StageInv

-----------------------------------------------------------------------------
(* The type invariant *)

LEMMA AskFacts ==
  ASSUME NEW a \in Asks
  PROVE  /\ a.user \in Users /\ a.kind \in {"modify", "extended", "reset"}
         /\ a.new \in Seq(Passwords) /\ Len(a.new) \in 1..MaxChanges
<1>1. a \in Args /\ MaxChanges \in Nat
  BY PasswordAssumption, AsksAssumption
<1>2. PICK n \in 1..MaxChanges : a.new \in [1..n -> Passwords]
  <2>1. CASE a.kind = "modify"
    BY <1>1, <2>1 DEF Args
  <2>2. CASE a.kind # "modify"
    <3>1. a.new \in [1..1 -> Passwords]
      BY <1>1, <2>2 DEF Args
    <3>2. 1 \in 1..MaxChanges
      BY PasswordAssumption
    <3> QED
      BY <3>1, <3>2
  <2> QED
    BY <2>1, <2>2
<1>3. a.new \in Seq(Passwords) /\ Len(a.new) = n
  BY <1>2, <1>1, SeqDef
<1> QED
  BY <1>1, <1>3 DEF Args

LEMMA FreshStays ==
  ASSUME NEW t, arg'[t] = arg[t], done'[t] = done[t], mine'[t] = mine[t], rules'[t] = rules[t]
  PROVE  Fresh(t)' = Fresh(t)
  BY DEF Fresh, New, Recent

LEMMA InitIInv == Init => IInv
<1> SUFFICES ASSUME Init PROVE IInv
  OBVIOUS
<1>1. TypeOK
  <2>1. NoPolicy \notin Policy /\ DefaultPolicy \in Policy
        /\ SeedPolicies \subseteq Policy \cup {NoPolicy}
    BY PasswordAssumption
  <2>2. SeedHashes \subseteq Stored /\ 0 \in Days /\ 0 \in 0..MaxChanges
    BY PasswordAssumption DEF Stored, Days
  <2> QED
    BY <2>1, <2>2 DEF Init, TypeOK, Nothing, Stages, Results, Stored
<1>2. StageInv
  BY DEF Init, StageInv
<1> QED
  BY <1>1, <1>2 DEF IInv

\* The administrator and the days do not touch the requests.
LEMMA OutsideKeeps ==
  ASSUME IInv,
         \/ \E p \in Settings \cup {DefaultPolicy} : UpdatePolicy(p)
         \/ \E u \in Users : ForceChange(u)
         \/ NextDay
  PROVE  IInv'
<1>1. UNCHANGED <<hash, history, log, arg, stage, mine, rules, done, result, overlap>>
  BY DEF UpdatePolicy, ForceChange, NextDay, userVars, reqVars
<1>2. StageInv'
  BY <1>1, FreshStays DEF IInv, StageInv
<1>3. policy' \in Policy \cup {NoPolicy}
  <2>1. Settings \cup {DefaultPolicy} \subseteq Policy
    BY PasswordAssumption
  <2> QED
    BY <2>1 DEF UpdatePolicy, ForceChange, NextDay, IInv, TypeOK
<1>4. today' \in Days
  BY PasswordAssumption DEF UpdatePolicy, ForceChange, NextDay, IInv, TypeOK, Days
<1>5. lastSet' \in [Users -> Days \cup {NotSet, Forced}]
  BY DEF UpdatePolicy, ForceChange, NextDay, IInv, TypeOK
<1> QED
  BY <1>1, <1>2, <1>3, <1>4, <1>5 DEF IInv, TypeOK

LEMMA BeginKeeps ==
  ASSUME IInv, NEW t \in Requests, NEW a \in Asks, Begin(t, a)
  PROVE  IInv'
<1>1. a.user \in Users /\ Len(a.new) \in 1..MaxChanges /\ done[t] = 0
  BY AskFacts DEF Begin, IInv, StageInv
<1>2. TypeOK'
  BY <1>1 DEF Begin, userVars, IInv, TypeOK, Stages
<1>3. StageInv'
  <2>1. /\ UNCHANGED <<mine, rules, done>> /\ stage[t] = "idle"
        /\ arg'[t] = a /\ stage'[t] = "user"
        /\ \A r \in Requests \ {t} : arg'[r] = arg[r] /\ stage'[r] = stage[r]
    BY DEF Begin, IInv, TypeOK
  <2> QED
    BY <1>1, <2>1, FreshStays DEF IInv, StageInv
<1> QED
  BY <1>2, <1>3 DEF IInv

LEMMA RefuseKeeps ==
  ASSUME IInv, NEW t \in Active, NEW answer \in Results, Refuse(t, answer)
  PROVE  IInv'
<1>1. TypeOK'
  BY DEF Refuse, userVars, IInv, TypeOK, Stages, Stored, Nothing, Active
<1>2. StageInv'
  BY FreshStays DEF Refuse, userVars, IInv, TypeOK, StageInv, Active
<1> QED
  BY <1>1, <1>2 DEF IInv

LEMMA LoadUserKeeps ==
  ASSUME IInv, NEW t \in Requests, LoadUser(t)
  PROVE  IInv'
<1>1. t \in Active /\ arg[t] \in Asks /\ arg[t].user \in Users
  BY AskFacts DEF LoadUser, Active, IInv, StageInv
<1>2. CASE Refuse(t, "noTls")
  BY <1>1, <1>2, RefuseKeeps DEF Results
<1>3. CASE /\ mine' = [mine EXCEPT ![t] = [hash    |-> hash[arg[t].user],
                                           history |-> history[arg[t].user]]]
           /\ Goes(t, "policy")
           /\ UNCHANGED <<userVars, rules, done>>
  <2>1. TypeOK'
    BY <1>1, <1>3 DEF Goes, userVars, IInv, TypeOK, Stages
  <2>2. StageInv'
    BY <1>1, <1>3, FreshStays DEF LoadUser, Goes, userVars, IInv, TypeOK, StageInv
  <2> QED
    BY <2>1, <2>2 DEF IInv
<1> QED
  BY <1>2, <1>3 DEF LoadUser

LEMMA LoadPolicyKeeps ==
  ASSUME IInv, NEW t \in Requests, LoadPolicy(t)
  PROVE  IInv'
<1>1. (IF policy = NoPolicy THEN DefaultPolicy ELSE policy) \in Policy
  BY PasswordAssumption DEF IInv, TypeOK
<1>2. TypeOK'
  BY <1>1 DEF LoadPolicy, Goes, userVars, IInv, TypeOK, Stages
<1>3. StageInv'
  BY FreshStays DEF LoadPolicy, Goes, userVars, IInv, TypeOK, StageInv
<1> QED
  BY <1>2, <1>3 DEF IInv

\* A password that gets past the validation is not a recent one.
LEMMA NoErrors ==
  ASSUME NEW t, Errors(t) = {}
  PROVE  Fresh(t)
  BY DEF Errors, Fresh

LEMMA ValidateKeeps ==
  ASSUME IInv, NEW t \in Requests, Validate(t)
  PROVE  IInv'
<1>1. t \in Active
  BY DEF Validate, Active
<1>2. CASE Refuse(t, "refused") \/ Refuse(t, "wrongOld")
  BY <1>1, <1>2, RefuseKeeps DEF Results
<1>3. CASE Errors(t) = {} /\ Goes(t, "commit") /\ UNCHANGED <<userVars, mine, rules, done>>
  <2>1. Fresh(t) /\ Fresh(t)' = Fresh(t)
    BY <1>3, NoErrors, FreshStays DEF Goes
  <2>2. TypeOK'
    BY <1>3 DEF Goes, userVars, IInv, TypeOK, Stages
  <2>3. StageInv'
    BY <1>3, <2>1, FreshStays DEF Validate, Goes, userVars, IInv, TypeOK, StageInv
  <2> QED
    BY <2>2, <2>3 DEF IInv
<1> QED
  BY <1>2, <1>3 DEF Validate

\* What a commit writes, with its types.
LEMMA CommitIs ==
  ASSUME IInv, NEW t \in Requests, Commit(t)
  PROVE  LET u == arg[t].user IN
         /\ u \in Users /\ t \in Active /\ stage[t] = "commit"
         /\ New(t) \in Passwords /\ Kept(t) \in Stored
         /\ arg[t].kind \in {"modify", "extended", "reset"}
         /\ mine[t].history \in Seq(Stored) /\ rules[t].history \in Nat
         /\ done'[t] \in 0..MaxChanges
         /\ stage'[t] = IF done'[t] = Len(arg[t].new) THEN "done" ELSE "policy"
         /\ done'[t] <= Len(arg[t].new)
<1>1. /\ stage[t] = "commit" /\ t \in Active /\ arg[t] \in Asks
      /\ done[t] \in Nat /\ done[t] < Len(arg[t].new)
  BY DEF Commit, Active, IInv, TypeOK, StageInv
<1>2. /\ arg[t].user \in Users /\ arg[t].kind \in {"modify", "extended", "reset"}
      /\ arg[t].new \in Seq(Passwords) /\ Len(arg[t].new) \in 1..MaxChanges
  BY <1>1, AskFacts
<1>3. New(t) \in Passwords
  BY <1>1, <1>2 DEF New
<1>4. Kept(t) \in Stored /\ mine[t].history \in Seq(Stored) /\ rules[t].history \in Nat
  BY <1>3 DEF Kept, Stored, IInv, TypeOK, Policy
<1>5. done'[t] = done[t] + 1
  BY DEF Commit, IInv, TypeOK
<1>6. stage'[t] = IF done[t] + 1 = Len(arg[t].new) THEN "done" ELSE "policy"
  BY DEF Commit, IInv, TypeOK
<1> QED
  BY <1>1, <1>2, <1>3, <1>4, <1>5, <1>6, PasswordAssumption

LEMMA CommitKeeps ==
  ASSUME IInv, NEW t \in Requests, Commit(t)
  PROVE  IInv'
<1> DEFINE u == arg[t].user
           row == [hash |-> New(t), history |-> Append(mine[t].history, Kept(t))]
<1>1. /\ u \in Users /\ New(t) \in Passwords /\ Kept(t) \in Stored
      /\ arg[t].kind \in {"modify", "extended", "reset"}
      /\ mine[t].history \in Seq(Stored) /\ rules[t].history \in Nat
      /\ done'[t] \in 0..MaxChanges /\ done'[t] <= Len(arg[t].new)
      /\ stage'[t] = IF done'[t] = Len(arg[t].new) THEN "done" ELSE "policy"
  BY CommitIs
<1>2. row \in [hash : Stored, history : Seq(Stored)]
  BY <1>1 DEF Stored
<1>3. hash' \in [Users -> Stored] /\ history' \in [Users -> Seq(Stored)]
  BY <1>1, <1>2 DEF Commit, IInv, TypeOK, Stored
<1>4. log' \in [Users -> Seq(Change)]
  <2>1. [new |-> New(t), by |-> arg[t].kind, kept |-> rules[t].history] \in Change
    BY <1>1 DEF Change
  <2> QED
    BY <1>1, <2>1 DEF Commit, IInv, TypeOK
<1>5. mine' \in [Requests -> [hash : Stored, history : Seq(Stored)]]
  <2>1. Nothing \in [hash : Stored, history : Seq(Stored)]
    BY DEF Nothing, Stored
  <2>2. \/ mine' = [mine EXCEPT ![t] = Nothing]
        \/ mine' = [mine EXCEPT ![t] = row]
    BY DEF Commit
  <2> QED
    BY <1>2, <2>1, <2>2 DEF IInv, TypeOK
<1>6. done' \in [Requests -> 0..MaxChanges] /\ stage' \in [Requests -> Stages]
      /\ result' \in [Requests -> Results]
  <2>1. done' = [done EXCEPT ![t] = done'[t]]
    BY DEF Commit, IInv, TypeOK
  <2> QED
    BY <1>1, <2>1 DEF Commit, IInv, TypeOK, Stages, Results
<1>7. lastSet' \in [Users -> Days \cup {NotSet, Forced}]
  BY DEF Commit, IInv, TypeOK
<1>8. TypeOK'
  BY <1>3, <1>4, <1>5, <1>6, <1>7 DEF Commit, IInv, TypeOK
<1>9. StageInv'
  <2>1. /\ arg' = arg /\ rules' = rules
        /\ \A r \in Requests \ {t} :
             stage'[r] = stage[r] /\ mine'[r] = mine[r] /\ done'[r] = done[r]
    BY DEF Commit, IInv, TypeOK
  <2>2. stage[t] = "commit" /\ done'[t] \in Nat /\ Len(arg[t].new) \in Nat
    BY <1>1, AskFacts, CommitIs DEF IInv, StageInv
  <2>3. \A r \in Requests \ {t} : Fresh(r)' = Fresh(r)
    BY <2>1, FreshStays
  <2>4. stage'[t] \in {"policy", "done"} /\ (stage'[t] = "policy" => done'[t] < Len(arg[t].new))
    BY <1>1, <2>2
  <2>5. arg[t] \in Asks
    BY <2>2 DEF IInv, StageInv
  <2> QED
    BY <2>1, <2>3, <2>4, <2>5 DEF IInv, StageInv
<1> QED
  BY <1>8, <1>9 DEF IInv

LEMMA NextIInv == IInv /\ [Next]_vars => IInv'
<1> SUFFICES ASSUME IInv, [Next]_vars PROVE IInv'
  OBVIOUS
<1>1. CASE UNCHANGED vars
  BY <1>1, FreshStays DEF vars, IInv, TypeOK, StageInv
<1> QED
  BY <1>1, OutsideKeeps, BeginKeeps, LoadUserKeeps, LoadPolicyKeeps, ValidateKeeps, CommitKeeps
     DEF Next

LEMMA IInvHolds == Spec => []IInv
  BY InitIInv, NextIInv, PTL DEF Spec

\* Users, policies, requests and what they have loaded keep their types.
THEOREM PasswordsTypeCorrect == Spec => []TypeOK
<1>1. IInv => TypeOK
  BY DEF IInv
<1> QED
  BY <1>1, IInvHolds, PTL

-----------------------------------------------------------------------------
(* Hash and history *)

\* Only commits write a user's row and the log.
LEMMA OnlyCommits ==
  ASSUME [Next]_vars, ~(\E t \in Requests : Commit(t))
  PROVE  UNCHANGED <<hash, history, log>>
  BY DEF Next, vars, UpdatePolicy, ForceChange, NextDay, Begin, LoadUser, LoadPolicy, Validate,
         Refuse, Goes, userVars

\* What a commit appends to the history and to the log of its user.
LEMMA CommitAppends ==
  ASSUME IInv, NEW t \in Requests, Commit(t)
  PROVE  LET u == arg[t].user
             entry == [new |-> New(t), by |-> arg[t].kind, kept |-> rules[t].history]
         IN  /\ hash'[u] = New(t)
             /\ history'[u] = Append(mine[t].history, Kept(t))
             /\ log'[u] = Append(log[u], entry)
             /\ \A v \in Users \ {u} :
                  hash'[v] = hash[v] /\ history'[v] = history[v] /\ log'[v] = log[v]
<1>1. arg[t].user \in Users
  BY CommitIs
<1> QED
  BY <1>1 DEF Commit, IInv, TypeOK

LEMMA NextCurrent == IInv /\ CurrentRecorded /\ [Next]_vars => CurrentRecorded'
<1> SUFFICES ASSUME IInv, CurrentRecorded, [Next]_vars PROVE CurrentRecorded'
  OBVIOUS
<1>1. CASE UNCHANGED <<hash, history, log>>
  BY <1>1 DEF CurrentRecorded
<1>2. ASSUME NEW t \in Requests, Commit(t)
      PROVE  CurrentRecorded'
  <2> DEFINE u == arg[t].user
             entry == [new |-> New(t), by |-> arg[t].kind, kept |-> rules[t].history]
  <2>1. /\ hash'[u] = New(t)
        /\ history'[u] = Append(mine[t].history, Kept(t))
        /\ log'[u] = Append(log[u], entry)
        /\ \A v \in Users \ {u} :
             hash'[v] = hash[v] /\ history'[v] = history[v] /\ log'[v] = log[v]
    BY <1>2, CommitAppends
  <2>2. u \in Users /\ mine[t].history \in Seq(Stored) /\ Kept(t) \in Stored
        /\ log[u] \in Seq(Change) /\ entry \in Change
    BY <1>2, CommitIs DEF IInv, TypeOK, Change
  <2>3. log'[u][Len(log'[u])] = entry
    BY <2>1, <2>2
  <2>4. history'[u] # <<>> /\ Last(history'[u]) = Kept(t)
    BY <2>1, <2>2 DEF Last
  <2>5. entry.by # "reset" => Kept(t) = New(t)
    BY DEF Kept
  <2> HIDE DEF u, entry
  <2>6. ASSUME NEW v \in Users, Len(log'[v]) > 0, log'[v][Len(log'[v])].by # "reset"
        PROVE  history'[v] # <<>> /\ Last(history'[v]) = hash'[v]
    <3>1. CASE v = u
      BY <2>1, <2>3, <2>4, <2>5, <2>6, <3>1
    <3>2. CASE v # u
      <4>1. hash'[v] = hash[v] /\ history'[v] = history[v] /\ log'[v] = log[v]
        BY <2>1, <3>2
      <4> QED
        BY <2>6, <4>1 DEF CurrentRecorded
    <3> QED
      BY <3>1, <3>2
  <2> QED
    BY <2>6 DEF CurrentRecorded
<1> QED
  BY <1>1, <1>2, OnlyCommits

\* However requests on a user overlap, a hash set over LDAP is the last of the
\* history: the columns come from one request.
THEOREM CurrentRecordedHolds == Spec => []CurrentRecorded
<1>1. Init => CurrentRecorded
  BY DEF Init, CurrentRecorded
<1> QED
  BY <1>1, NextCurrent, IInvHolds, PTL DEF Spec

-----------------------------------------------------------------------------
(* No password returns early *)

OnUser(t, u) == t \in Active /\ arg[t].user = u

\* Unless its requests overlap, a user has one at most, which has the committed
\* history in its session, and the history records the log: entry by entry
\* what was set over LDAP.
RowInv(u) ==
  ~overlap[u] =>
    /\ \A s, t \in Requests : OnUser(s, u) /\ OnUser(t, u) => s = t
    /\ \A t \in Requests :
         OnUser(t, u) /\ stage[t] # "user" => mine[t].history = history[u]
    /\ Len(history[u]) = Len(log[u])
    /\ \A k \in 1..Len(log[u]) : log[u][k].by # "reset" => history[u][k] = log[u][k].new
    /\ \A j \in 1..Len(log[u]) : \A i \in 1..(j - 1) :
         log[u][i].new = log[u][j].new /\ log[u][i].by # "reset"
           => j - i > log[u][j].kept

ReturnInv == \A u \in Users : RowInv(u)

LEMMA BeginReturn ==
  ASSUME IInv, ReturnInv, NEW t \in Requests, NEW a \in Asks, Begin(t, a)
  PROVE  ReturnInv'
<1>1. /\ UNCHANGED <<history, log, mine>>
      /\ arg'[t] = a /\ stage'[t] = "user" /\ stage[t] = "idle" /\ a.user \in Users
      /\ \A r \in Requests \ {t} : arg'[r] = arg[r] /\ stage'[r] = stage[r]
      /\ overlap'[a.user] <=> overlap[a.user] \/ \E s \in Active : arg[s].user = a.user
      /\ \A u \in Users \ {a.user} : overlap'[u] = overlap[u]
  BY AskFacts DEF Begin, userVars, IInv, TypeOK
<1>2. \A u \in Users : \A r \in Requests : OnUser(r, u)' =>
        \/ r = t /\ u = a.user
        \/ r # t /\ OnUser(r, u)
  BY <1>1 DEF OnUser, Active
<1>3. \A r \in Requests : r # t /\ OnUser(r, a.user) => overlap'[a.user]
  BY <1>1 DEF OnUser
<1>4. ASSUME NEW u \in Users, ~overlap'[u]
      PROVE  RowInv(u)'
  <2>1. ~overlap[u]
    BY <1>1, <1>4
  <2>2. \A r, s \in Requests : OnUser(r, u)' /\ OnUser(s, u)' => r = s
    BY <1>2, <1>3, <1>4, <2>1 DEF ReturnInv, RowInv
  <2>3. \A r \in Requests : OnUser(r, u)' /\ stage'[r] # "user" => mine'[r].history = history'[u]
    BY <1>1, <1>2, <2>1 DEF ReturnInv, RowInv
  <2> QED
    BY <1>1, <2>1, <2>2, <2>3 DEF ReturnInv, RowInv
<1> QED
  BY <1>4 DEF ReturnInv, RowInv

\* A step in which a request ends or has its session filled from the row.
LEMMA ReadReturn ==
  ASSUME IInv, ReturnInv, NEW t \in Active, UNCHANGED <<history, log, arg, overlap>>,
         \A r \in Requests \ {t} : stage'[r] = stage[r] /\ mine'[r] = mine[r],
         \/ stage'[t] = "done"
         \/ mine'[t].history = history[arg[t].user]
         \/ mine'[t] = mine[t] /\ stage[t] # "user"
  PROVE  ReturnInv'
<1>1. \A u \in Users : \A r \in Requests : OnUser(r, u)' => OnUser(r, u) /\ (r = t => stage'[t] # "done")
  BY DEF OnUser, Active
<1>2. ASSUME NEW u \in Users, ~overlap[u]
      PROVE  \A r \in Requests :
               OnUser(r, u)' /\ stage'[r] # "user" => mine'[r].history = history[u]
  <2> TAKE r \in Requests
  <2>1. CASE r = t
    BY <1>1, <1>2, <2>1 DEF OnUser, ReturnInv, RowInv
  <2>2. CASE r # t
    BY <1>1, <1>2, <2>2 DEF ReturnInv, RowInv
  <2> QED
    BY <2>1, <2>2
<1> QED
  BY <1>1, <1>2 DEF ReturnInv, RowInv

LEMMA CommitReturn ==
  ASSUME IInv, ReturnInv, NEW t \in Requests, Commit(t)
  PROVE  ReturnInv'
<1> DEFINE u == arg[t].user
           n == Len(log[u])
           entry == [new |-> New(t), by |-> arg[t].kind, kept |-> rules[t].history]
<1>1. /\ u \in Users /\ OnUser(t, u) /\ stage[t] = "commit" /\ stage'[t] \in {"done", "policy"}
      /\ mine[t].history \in Seq(Stored) /\ Kept(t) \in Stored
      /\ log[u] \in Seq(Change) /\ entry \in Change /\ rules[t].history \in Nat
  BY CommitIs DEF OnUser, IInv, TypeOK, Change
<1>2. /\ history'[u] = Append(mine[t].history, Kept(t))
      /\ log'[u] = Append(log[u], entry)
      /\ \A v \in Users \ {u} : history'[v] = history[v] /\ log'[v] = log[v]
  BY CommitAppends
<1>3. /\ arg' = arg /\ overlap' = overlap
      /\ \A r \in Requests \ {t} : stage'[r] = stage[r] /\ mine'[r] = mine[r]
      /\ stage'[t] # "done" => mine'[t].history = history'[u]
  <2>1. /\ arg' = arg /\ overlap' = overlap
        /\ \A r \in Requests \ {t} : stage'[r] = stage[r] /\ mine'[r] = mine[r]
    BY DEF Commit, IInv, TypeOK
  <2>2. stage'[t] # "done" =>
          mine'[t] = [hash |-> New(t), history |-> Append(mine[t].history, Kept(t))]
    BY DEF Commit, IInv, TypeOK
  <2> QED
    BY <1>2, <2>1, <2>2
<1>4. \A v \in Users : \A r \in Requests :
        OnUser(r, v)' => OnUser(r, v) /\ (r = t => v = u /\ stage'[t] # "done")
  BY <1>1, <1>3 DEF OnUser, Active
<1>5. ASSUME NEW v \in Users, v # u
      PROVE  RowInv(v)'
  <2>1. history'[v] = history[v] /\ log'[v] = log[v] /\ overlap'[v] = overlap[v]
    BY <1>2, <1>3, <1>5
  <2>2. \A r \in Requests :
          OnUser(r, v)' => OnUser(r, v) /\ stage'[r] = stage[r] /\ mine'[r] = mine[r]
    BY <1>3, <1>4, <1>5
  <2> QED
    BY <2>1, <2>2 DEF ReturnInv, RowInv
<1>6. ASSUME ~overlap[u]
      PROVE  RowInv(u)'
  <2>1. /\ \A r, s \in Requests : OnUser(r, u) /\ OnUser(s, u) => r = s
        /\ mine[t].history = history[u] /\ Len(history[u]) = n
        /\ \A k \in 1..n : log[u][k].by # "reset" => history[u][k] = log[u][k].new
        /\ \A j \in 1..n : \A i \in 1..(j - 1) :
             log[u][i].new = log[u][j].new /\ log[u][i].by # "reset"
               => j - i > log[u][j].kept
    BY <1>1, <1>6 DEF ReturnInv, RowInv
  <2>0. entry.new = New(t) /\ entry.kept = rules[t].history /\ entry.by = arg[t].kind
    OBVIOUS
  <2>a. u' = u
    BY <1>3
  <2> HIDE DEF u, entry
  <2>2. /\ n \in Nat /\ Len(log'[u]) = n + 1 /\ Len(history'[u]) = n + 1
        /\ log'[u][n + 1] = entry /\ history'[u][n + 1] = Kept(t)
        /\ \A k \in 1..n : log'[u][k] = log[u][k] /\ history'[u][k] = history[u][k]
    BY <1>1, <1>2, <2>1
  <2>3. \A k \in 1..(n + 1) : log'[u][k].by # "reset" => history'[u][k] = log'[u][k].new
    <3> TAKE k \in 1..(n + 1)
    <3>1. entry.by # "reset" => Kept(t) = entry.new
      BY <2>0 DEF Kept
    <3>2. CASE k = n + 1
      BY <2>2, <3>1, <3>2
    <3>3. CASE k \in 1..n
      BY <2>1, <2>2, <3>3
    <3> QED
      BY <2>2, <3>2, <3>3
  <2>4. \A i \in 1..n :
          log[u][i].new = New(t) /\ log[u][i].by # "reset" => n + 1 - i > rules[t].history
    <3> SUFFICES ASSUME NEW i \in 1..n, log[u][i].new = New(t), log[u][i].by # "reset"
                 PROVE  n + 1 - i > rules[t].history
      OBVIOUS
    <3>1. mine[t].history[i] = New(t) /\ i \in DOMAIN mine[t].history
          /\ Len(mine[t].history) = n
      BY <1>1, <2>1
    <3>2. New(t) \notin Recent(mine[t].history, rules[t].history)
      BY <1>1 DEF IInv, StageInv, Fresh
    <3>3. ~(i > n - rules[t].history)
      BY <3>1, <3>2 DEF Recent
    <3> QED
      BY <1>1, <2>2, <3>3
  <2>5. \A j \in 1..(n + 1) : \A i \in 1..(j - 1) :
          log'[u][i].new = log'[u][j].new /\ log'[u][i].by # "reset"
            => j - i > log'[u][j].kept
    <3> SUFFICES ASSUME NEW j \in 1..(n + 1), NEW i \in 1..(j - 1),
                        log'[u][i].new = log'[u][j].new, log'[u][i].by # "reset"
                 PROVE  j - i > log'[u][j].kept
      OBVIOUS
    <3>1. i \in 1..n /\ log'[u][i] = log[u][i]
      BY <2>2
    <3>2. CASE j = n + 1
      BY <2>0, <2>2, <2>4, <3>1, <3>2
    <3>3. CASE j \in 1..n
      <4>1. log'[u][j] = log[u][j]
        BY <2>2, <3>3
      <4> QED
        BY <2>1, <3>1, <3>3, <4>1
    <3> QED
      BY <2>2, <3>2, <3>3
  <2>6. /\ \A r, s \in Requests : OnUser(r, u)' /\ OnUser(s, u)' => r = s
        /\ \A r \in Requests :
             OnUser(r, u)' /\ stage'[r] # "user" => mine'[r].history = history'[u]
    BY <1>1, <1>3, <1>4, <2>1, <2>a
  <2> QED
    BY <1>3, <2>2, <2>3, <2>5, <2>6, <2>a DEF RowInv
<1>7. RowInv(u)'
  BY <1>3, <1>6 DEF RowInv
<1> QED
  BY <1>3, <1>5, <1>7 DEF ReturnInv

LEMMA NextReturn == IInv /\ ReturnInv /\ [Next]_vars => ReturnInv'
<1> SUFFICES ASSUME IInv, ReturnInv, [Next]_vars PROVE ReturnInv'
  OBVIOUS
<1>1. CASE UNCHANGED <<history, log, arg, overlap, stage, mine>>
  BY <1>1 DEF ReturnInv, RowInv, OnUser, Active
<1>2. CASE \/ \E p \in Settings \cup {DefaultPolicy} : UpdatePolicy(p)
           \/ \E u \in Users : ForceChange(u)
           \/ NextDay
  BY <1>1, <1>2 DEF UpdatePolicy, ForceChange, NextDay, userVars, reqVars
<1>3. ASSUME NEW t \in Requests, NEW a \in Asks, Begin(t, a)
      PROVE  ReturnInv'
  BY <1>3, BeginReturn
<1>4. ASSUME NEW t \in Requests, LoadUser(t) \/ LoadPolicy(t) \/ Validate(t)
      PROVE  ReturnInv'
  <2>1. t \in Active /\ UNCHANGED <<history, log, arg, overlap>>
    BY <1>4 DEF LoadUser, LoadPolicy, Validate, Refuse, Goes, userVars, Active
  <2>2. \A r \in Requests \ {t} : stage'[r] = stage[r] /\ mine'[r] = mine[r]
    BY <1>4 DEF LoadUser, LoadPolicy, Validate, Refuse, Goes, IInv, TypeOK
  <2>3. \/ stage'[t] = "done"
        \/ mine'[t].history = history[arg[t].user]
        \/ mine'[t] = mine[t] /\ stage[t] # "user"
    BY <1>4 DEF LoadUser, LoadPolicy, Validate, Refuse, Goes, IInv, TypeOK
  <2> QED
    BY <2>1, <2>2, <2>3, ReadReturn
<1>5. ASSUME NEW t \in Requests, Commit(t)
      PROVE  ReturnInv'
  BY <1>5, CommitReturn
<1> QED
  BY <1>1, <1>2, <1>3, <1>4, <1>5 DEF Next, vars

\* A password set over LDAP does not come back before as many changes as the
\* policy keeps, for any policy, any length of the history and any requests of
\* other users in between.
THEOREM NoEarlyReturnHolds == Spec => []NoEarlyReturn
<1>1. Init => ReturnInv
  BY DEF Init, ReturnInv, RowInv, OnUser, Active
<1>2. IInv /\ ReturnInv => NoEarlyReturn
  <2> SUFFICES ASSUME IInv, ReturnInv, NEW u \in Users, ~overlap[u]
               PROVE  \A j \in DOMAIN log[u] : \A i \in 1..(j - 1) :
                        log[u][i].new = log[u][j].new /\ log[u][i].by # "reset"
                          => j - i > log[u][j].kept
    BY DEF NoEarlyReturn
  <2>1. DOMAIN log[u] = 1..Len(log[u])
    BY DEF IInv, TypeOK
  <2> QED
    BY <2>1 DEF ReturnInv, RowInv
<1> QED
  BY <1>1, <1>2, NextReturn, IInvHolds, PTL DEF Spec
=============================================================================
