----------------------------- MODULE Passwords ------------------------------
(***************************************************************************)
(* How a user's password is changed and what the password policy makes of  *)
(* it (app/ldap_protocol/password_policy.py). There are three ways: the    *)
(* LDAP modify request (modify.py), the LDAP extended request (extended.py)*)
(* and the reset of the HTTP API (app/api/auth/router.py). Each loads the  *)
(* user, the policy and pwdLastSet in statements of their own and writes   *)
(* what it computed from them; none of them locks the user's row. A hash   *)
(* stands for the password it was made from.                               *)
(***************************************************************************)
EXTENDS Integers, FiniteSets, Sequences, SequencesExt

CONSTANTS
  Requests,     \* the requests, each served once
  Users,
  Passwords,
  Weak,         \* the passwords too short, too simple or too common
  NoPassword,   \* a user created without a password (NULL)
  Settings,     \* the policies administrators choose from
  DefaultPolicy,\* PasswordPolicySchema()
  SeedPolicies, \* what the table PasswordPolicies may hold at the start
  NoPolicy,     \* the table is empty
  NotSet,       \* no attribute pwdLastSet
  Forced,       \* pwdLastSet is '0': the user has to change the password
  Asks,         \* what clients ask for
  SeedHashes,   \* the passwords users may have at the start
  LastDay,      \* the bound on days
  MaxChanges,   \* the bound on the passwords of one modify request
  MaxActive     \* how many requests may be in progress at once

Days == 0..LastDay
Policy == [history : Nat, maxAge : Nat, minAge : Nat, strict : BOOLEAN]
EpochAge == 150000   \* the days from 1601 to now, more than any maxAge

ASSUME PasswordAssumption ==
  /\ LastDay \in Nat /\ MaxChanges \in Nat \ {0} /\ MaxActive \in Nat \ {0}
  /\ Weak \subseteq Passwords /\ NoPassword \notin Passwords
  /\ Settings \cup {DefaultPolicy} \subseteq
       {p \in Policy : p.minAge <= p.maxAge /\ p.maxAge < 1000}
  /\ NoPolicy \notin Policy
  /\ SeedPolicies \subseteq Settings \cup {DefaultPolicy, NoPolicy}
  /\ SeedHashes \subseteq (Passwords \ Weak) \cup {NoPassword}
  /\ {NotSet, Forced} \cap Int = {} /\ NotSet # Forced

\* A modify request may set the password several times over. The extended
\* request names the old password. LDAP requests come in with TLS or without.
Args ==
  [kind : {"modify"}, user : Users, secure : BOOLEAN,
   new : UNION {[1..n -> Passwords] : n \in 1..MaxChanges}]
  \cup [kind : {"extended"}, user : Users, secure : BOOLEAN,
        old : Passwords, new : [1..1 -> Passwords]]
  \cup [kind : {"reset"}, user : Users, secure : {TRUE},
        new : [1..1 -> Passwords]]
NoArg == [kind |-> "none"]

ASSUME AsksAssumption == Asks \subseteq Args

Stored == Passwords \cup {NoPassword}
Stages == {"idle", "user", "policy", "validate", "commit", "done"}
Results == {"none", "ok", "noTls", "refused", "wrongOld"}

VARIABLES
  hash,      \* hash[u], the committed User.password
  history,   \* history[u], the committed User.password_history
  lastSet,   \* lastSet[u], the attribute pwdLastSet
  policy,    \* the row of PasswordPolicies
  today,
  arg,       \* arg[t], what request t asks for
  stage,     \* stage[t], the next statement of request t
  mine,      \* mine[t], the user's hash and history in the session of t
  rules,     \* rules[t], the policy as request t read it
  done,      \* done[t], how many passwords of request t are committed
  result,    \* result[t], the answer to request t
  log,       \* log[u], the changes of u's password that were confirmed
  overlap    \* overlap[u], whether requests on u were in progress at once

userVars == <<hash, history, log>>
reqVars  == <<arg, stage, mine, rules, done, result, overlap>>
vars == <<hash, history, lastSet, policy, today, arg, stage, mine, rules,
          done, result, log, overlap>>

Active == {t \in Requests : stage[t] \notin {"idle", "done"}}
Nothing == [hash |-> NoPassword, history |-> <<>>]

Change == [new : Passwords, by : {"modify", "extended", "reset"}, kept : Nat]

TypeOK ==
  /\ hash \in [Users -> Stored]
  /\ history \in [Users -> Seq(Stored)]
  /\ lastSet \in [Users -> Days \cup {NotSet, Forced}]
  /\ policy \in Policy \cup {NoPolicy}
  /\ today \in Days
  /\ arg \in [Requests -> Asks \cup {NoArg}]
  /\ stage \in [Requests -> Stages]
  /\ mine \in [Requests -> [hash : Stored, history : Seq(Stored)]]
  /\ rules \in [Requests -> Policy]
  /\ done \in [Requests -> 0..MaxChanges]
  /\ result \in [Requests -> Results]
  /\ log \in [Users -> Seq(Change)]
  /\ overlap \in [Users -> BOOLEAN]

\* Users as add and the first setup create them: no history yet, the
\* password one that the policy then in force let through, or none.
Init ==
  /\ hash \in [Users -> SeedHashes]
  /\ history = [u \in Users |-> <<>>]
  /\ lastSet \in [Users -> {NotSet, Forced, 0}]
  /\ policy \in SeedPolicies
  /\ today = 0
  /\ arg = [t \in Requests |-> NoArg]
  /\ stage = [t \in Requests |-> "idle"]
  /\ mine = [t \in Requests |-> Nothing]
  /\ rules = [t \in Requests |-> DefaultPolicy]
  /\ done = [t \in Requests |-> 0]
  /\ result = [t \in Requests |-> "none"]
  /\ log = [u \in Users |-> <<>>]
  /\ overlap = [u \in Users |-> FALSE]

-----------------------------------------------------------------------------
(* The administrator *)

\* update_policy_settings(): an UPDATE of every row, of which there is one
\* or none.
UpdatePolicy(p) ==
  /\ policy' = IF policy = NoPolicy THEN NoPolicy ELSE p
  /\ UNCHANGED <<lastSet, today, userVars, reqVars>>

\* modify replaces pwdLastSet with '0'; bind then refuses the user.
ForceChange(u) ==
  /\ lastSet[u] # Forced
  /\ lastSet' = [lastSet EXCEPT ![u] = Forced]
  /\ UNCHANGED <<policy, today, userVars, reqVars>>

NextDay ==
  /\ today < LastDay
  /\ today' = today + 1
  /\ UNCHANGED <<lastSet, policy, userVars, reqVars>>

-----------------------------------------------------------------------------
(* A request *)

Begin(t, a) ==
  /\ stage[t] = "idle"
  /\ Cardinality(Active) < MaxActive
  /\ arg' = [arg EXCEPT ![t] = a]
  /\ stage' = [stage EXCEPT ![t] = "user"]
  /\ overlap' = [overlap EXCEPT ![a.user] =
                   @ \/ \E s \in Active : arg[s].user = a.user]
  /\ UNCHANGED <<lastSet, policy, today, userVars, mine, rules, done, result>>

Goes(t, s) ==
  /\ stage' = [stage EXCEPT ![t] = s]
  /\ UNCHANGED <<lastSet, policy, today, arg, result, overlap>>

\* The request is refused and what it has not committed is dropped.
Refuse(t, answer) ==
  /\ stage' = [stage EXCEPT ![t] = "done"]
  /\ mine' = [mine EXCEPT ![t] = Nothing]
  /\ result' = [result EXCEPT ![t] = answer]
  /\ UNCHANGED <<lastSet, policy, today, userVars, arg, rules, done, overlap>>

\* The user is loaded once, with the history; LDAP requests need TLS.
LoadUser(t) ==
  /\ stage[t] = "user"
  /\ \/ ~arg[t].secure /\ Refuse(t, "noTls")
     \/ /\ arg[t].secure
        /\ mine' = [mine EXCEPT ![t] = [hash    |-> hash[arg[t].user],
                                        history |-> history[arg[t].user]]]
        /\ Goes(t, "policy")
        /\ UNCHANGED <<userVars, rules, done>>

\* Mutant: no defaults for an empty table.
NoDefaults(t) ==
  /\ stage[t] = "policy"
  /\ rules' = [rules EXCEPT ![t] = policy]
  /\ Goes(t, "validate")
  /\ UNCHANGED <<userVars, mine, done>>

\* get_policy_settings(): the row, or the defaults.
LoadPolicy(t) ==
  /\ stage[t] = "policy"
  /\ rules' = [rules EXCEPT ![t] = IF policy = NoPolicy THEN DefaultPolicy ELSE policy]
  /\ Goes(t, "validate")
  /\ UNCHANGED <<userVars, mine, done>>

New(t) == arg[t].new[done[t] + 1]

\* Mutant: the history is cut at its old end.
Oldest(past, n) == {past[k] : k \in {k \in DOMAIN past : k <= n}}

\* The last n passwords of a history.
Recent(past, n) == {past[k] : k \in {k \in DOMAIN past : k > Len(past) - n}}

\* The age of u's password in days; '0' is a time in the year 1601.
Age(u) == CASE lastSet[u] = NotSet -> 0
            [] lastSet[u] = Forced -> EpochAge
            [] OTHER -> today - lastSet[u]

\* validate_password_with_policy(): the errors it lists.
Errors(t) ==
  LET p == rules[t]
      age == Age(arg[t].user)
  IN  (IF New(t) \in Recent(mine[t].history, p.history) THEN {"history"} ELSE {})
      \cup (IF age > p.maxAge THEN {"maximum age"} ELSE {})
      \cup (IF age < p.minAge THEN {"minimum age"} ELSE {})
      \cup (IF p.strict /\ New(t) \in Weak THEN {"weak"} ELSE {})

\* pwdLastSet is read here; the extended request then verifies the old
\* password, unless the user has none.
Validate(t) ==
  LET known == arg[t].kind = "extended" => mine[t].hash \in {NoPassword, arg[t].old}
  IN  /\ stage[t] = "validate"
      /\ \/ Errors(t) # {} /\ Refuse(t, "refused")
         \/ Errors(t) = {} /\ ~known /\ Refuse(t, "wrongOld")
         \/ /\ Errors(t) = {} /\ known
            /\ Goes(t, "commit")
            /\ UNCHANGED <<userVars, mine, rules, done>>

\* Mutant: LDAP requests too keep the history before they set the hash.
KeepsOld(t) == mine[t].hash

\* post_save_password_actions() appends the hash the user has at that time:
\* the reset of the API calls it before it sets the new one.
Kept(t) == IF arg[t].kind = "reset" THEN mine[t].hash ELSE New(t)

\* Hash and history are columns of one row, written together as the session
\* has them. Only a pwdLastSet of '0' is updated.
Commit(t) ==
  LET u == arg[t].user
      row == [hash |-> New(t), history |-> Append(mine[t].history, Kept(t))]
      last == done[t] + 1 = Len(arg[t].new)
  IN  /\ stage[t] = "commit"
      /\ hash' = [hash EXCEPT ![u] = row.hash]
      /\ history' = [history EXCEPT ![u] = row.history]
      /\ lastSet' = [lastSet EXCEPT ![u] = IF @ = Forced THEN today ELSE @]
      /\ log' = [log EXCEPT ![u] =
                   Append(@, [new |-> New(t), by |-> arg[t].kind,
                              kept |-> rules[t].history])]
      /\ done' = [done EXCEPT ![t] = @ + 1]
      /\ mine' = [mine EXCEPT ![t] = IF last THEN Nothing ELSE row]
      /\ stage' = [stage EXCEPT ![t] = IF last THEN "done" ELSE "policy"]
      /\ result' = [result EXCEPT ![t] = IF last THEN "ok" ELSE @]
      /\ UNCHANGED <<policy, today, arg, rules, overlap>>

-----------------------------------------------------------------------------
Next ==
  \/ \E p \in Settings \cup {DefaultPolicy} : UpdatePolicy(p)
  \/ \E u \in Users : ForceChange(u)
  \/ NextDay
  \/ \E t \in Requests :
       \/ \E a \in Asks : Begin(t, a)
       \/ LoadUser(t) \/ LoadPolicy(t) \/ Validate(t) \/ Commit(t)

Spec == Init /\ [][Next]_vars

-----------------------------------------------------------------------------
(* Properties *)

\* A password that was set over LDAP does not come back, by whatever way,
\* before as many other changes as the policy keeps: what a modify or an
\* extended request set is in the history. Requests on one user must not
\* overlap, since the one that commits last overwrites the history.
NoEarlyReturn ==
  \A u \in Users :
    ~overlap[u] =>
      \A j \in DOMAIN log[u] : \A i \in 1..(j - 1) :
        log[u][i].new = log[u][j].new /\ log[u][i].by # "reset"
          => j - i > log[u][j].kept

\* Overlapping requests never tear a user's row: a password set over LDAP is
\* also the last of the history, whichever request committed last.
CurrentRecorded ==
  \A u \in Users :
    LET n == Len(log[u])
    IN  n > 0 /\ log[u][n].by # "reset" =>
          history[u] # <<>> /\ Last(history[u]) = hash[u]
=============================================================================
