---------------------------- MODULE AccessProofs ----------------------------
(***************************************************************************)
(* Proofs about Access, for any requests, users and lifetimes.             *)
(***************************************************************************)
EXTENDS Access, TLAPS

\* What an operation has done so far is known from its stage, and what it
\* carries from the operation.
StageInv ==
  \A t \in Requests :
    /\ stage[t] = "idle" <=> op[t] = "none"
    /\ stage[t] \in {"check", "environment", "insert", "validate"} => op[t] = "setup"
    /\ stage[t] = "user" => op[t] \in {"login", "bind", "connect"}
    /\ stage[t] = "factor" => op[t] = "login"
    /\ stage[t] \in {"key", "secret"} => op[t] \notin {"setup", "login"}
    /\ stage[t] = "decode" => op[t] \in {"refresh", "use", "mfa", "callback"}
    /\ stage[t] \in {"delete", "replace"} => op[t] = "mfa"
    /\ stage[t] = "provider" => op[t] \in {"bind", "connect", "refresh"}
    /\ stage[t] # "done" => result[t] = "none"
    /\ op[t] # "none" => actor[t] \in Users
    /\ op[t] \in {"refresh", "use", "mfa", "callback"} =>
         token[t] \in Tokens /\ actor[t] = token[t].user

IInv == TypeOK /\ StageInv

-----------------------------------------------------------------------------
(* The type invariant *)

LEMMA NameFacts ==
  /\ \A s \in {"api", "ldap"} :
       /\ Key(s) \in {r.name : r \in Rows} /\ Secret(s) \in {r.name : r \in Rows}
       /\ Key(s) # Context /\ Secret(s) # Context
  /\ \A s, x \in {"api", "ldap"} :
       /\ Key(s) # Secret(x)
       /\ Key(s) = Key(x) => s = x
       /\ Secret(s) = Secret(x) => s = x
  /\ \A s \in {"api", "ldap"}, w \in Writers :
       [name |-> Key(s), by |-> w] \in Rows /\ [name |-> Secret(s), by |-> w] \in Rows
  /\ \A w \in Writers : [name |-> Context, by |-> w] \in Rows
<1>1. \A s \in {"api", "ldap"}, w \in Writers :
        [name |-> Key(s), by |-> w] \in Rows /\ [name |-> Secret(s), by |-> w] \in Rows
  BY DEF Rows
<1>2. \A w \in Writers : [name |-> Context, by |-> w] \in Rows
  BY DEF Rows
<1>3. \A s \in {"api", "ldap"} :
        Key(s) \in {r.name : r \in Rows} /\ Secret(s) \in {r.name : r \in Rows}
  <2> TAKE s \in {"api", "ldap"}
  <2>1. Seed \in Writers
    BY DEF Writers
  <2>2. [name |-> Key(s), by |-> Seed].name = Key(s)
        /\ [name |-> Secret(s), by |-> Seed].name = Secret(s)
    OBVIOUS
  <2> QED
    BY <1>1, <2>1, <2>2
<1> QED
  BY <1>1, <1>2, <1>3 DEF Key, Secret, Context

LEMMA InitIInv == Init => IInv
<1> SUFFICES ASSUME Init PROVE IInv
  OBVIOUS
<1>1. rows \subseteq Rows
  BY AccessAssumption DEF Init, Rows, Writers
<1>2. tokens \subseteq Tokens
  <2>1. \A u \in Users : Factored(u, [key |-> Seed, secret |-> Seed]) \in Tokens
    BY AccessAssumption DEF Init, Factored, Tokens, Pairs, Writers
  <2>2. \A u \in Users, kind \in {"access", "refresh"} : Issued(u, 0, kind) \in Tokens
    BY AccessAssumption DEF Init, Issued, Tokens, Pairs, NoPair
  <2> QED
    BY <2>1, <2>2 DEF Init
<1>3. TypeOK
  BY <1>1, <1>2, AccessAssumption DEF Init, TypeOK, Stages, Results, Pairs, NoPair
<1>4. StageInv
  BY DEF Init, StageInv
<1> QED
  BY <1>3, <1>4 DEF IInv

\* A request that clients can make.
Request(o, s, u, k) ==
  /\ o \in AllOps /\ s \in {"api", "ldap"} /\ u \in Users
  /\ k \in Tokens \cup {NoToken}
  /\ o \in {"refresh", "use", "mfa", "callback"} => k \in Tokens /\ u = k.user
  /\ o \in {"refresh", "use", "mfa"} => k \in tokens
  /\ o = "callback" => k.kind = "multifactor"
  /\ o # "mfa" => s = IF o = "bind" THEN "ldap" ELSE "api"

LEMMA BeginSomeIs ==
  ASSUME IInv, NEW t \in Requests, BeginSome(t)
  PROVE  \E o, s, u, k : \E wanted \in BOOLEAN :
           Request(o, s, u, k) /\ Begin(t, o, s, u, k, wanted)
<1>1. \A k \in tokens : k \in Tokens /\ k.user \in Users
  BY DEF IInv, TypeOK, Tokens
<1>2. ASSUME NEW o \in Ops \cap {"setup", "login", "connect"}, NEW u \in Users
      PROVE  Request(o, "api", u, NoToken)
  BY AccessAssumption DEF Request, AllOps
<1>3. ASSUME NEW o \in Ops \cap {"use", "refresh"}, NEW k \in tokens
      PROVE  Request(o, "api", k.user, k)
  BY <1>1, AccessAssumption DEF Request, AllOps
<1>4. ASSUME NEW s \in Scopes, NEW k \in tokens
      PROVE  Request("mfa", s, k.user, k)
  BY <1>1, AccessAssumption DEF Request, AllOps
<1>5. ASSUME NEW c \in challenges
      PROVE  Request("callback", "api", c.user, Factored(c.user, c.pair))
  <2>1. c.user \in Users /\ c.pair \in Pairs /\ now \in Nat
    BY AccessAssumption DEF IInv, TypeOK
  <2>2. Factored(c.user, c.pair) \in Tokens /\ Factored(c.user, c.pair).user = c.user
        /\ Factored(c.user, c.pair).kind = "multifactor"
    BY <2>1, AccessAssumption DEF Factored, Tokens
  <2> QED
    BY <2>1, <2>2 DEF Request, AllOps
<1>6. ASSUME NEW u \in Users
      PROVE  Request("bind", "ldap", u, NoToken)
  BY DEF Request, AllOps
<1> QED
  BY <1>2, <1>3, <1>4, <1>5, <1>6, Zenon DEF BeginSome

LEMMA BeginKeeps ==
  ASSUME IInv, NEW t \in Requests, NEW o, NEW s, NEW u, NEW k, NEW wanted \in BOOLEAN,
         Request(o, s, u, k), Begin(t, o, s, u, k, wanted)
  PROVE  IInv'
<1>1. FirstStage(o) \in {"check", "user", "key"}
      /\ (FirstStage(o) = "check" => o = "setup")
      /\ (FirstStage(o) = "user" => o \in {"login", "bind"})
      /\ (FirstStage(o) = "key" => o \notin {"setup", "login"})
  BY DEF FirstStage, Request, AllOps
<1>2. o # "none"
  BY DEF Request, AllOps
<1>3. (IF o = "bind" THEN wanted ELSE InForce(s)) \in BOOLEAN
      /\ (Named(Context) # {} /\ u \notin users) \in BOOLEAN
  BY DEF InForce
<1>4. TypeOK'
  BY <1>1, <1>3 DEF Begin, Request, IInv, TypeOK, dbVars, workVars, Stages
<1>5. StageInv'
  BY <1>1, <1>2 DEF Begin, Request, IInv, TypeOK, StageInv, dbVars, workVars
<1> QED
  BY <1>4, <1>5 DEF IInv

\* A statement of t that moves it to another stage or ends it, and leaves the
\* arguments of all requests alone.
Moves(t) ==
  /\ t \in Active
  /\ UNCHANGED argVars
  /\ \E s \in Stages \ {"idle"}, r \in Results :
       /\ stage' = [stage EXCEPT ![t] = s]
       /\ result' = [result EXCEPT ![t] = r]
       /\ s # "done" => r = "none"
       /\ s \in {"check", "environment", "insert", "validate"} => op[t] = "setup"
       /\ s = "user" => op[t] \in {"login", "bind", "connect"}
       /\ s = "factor" => op[t] = "login"
       /\ s \in {"key", "secret"} => op[t] \notin {"setup", "login"}
       /\ s = "decode" => op[t] \in {"refresh", "use", "mfa", "callback"}
       /\ s \in {"delete", "replace"} => op[t] = "mfa"
       /\ s = "provider" => op[t] \in {"bind", "connect", "refresh"}

LEMMA MovesKeep ==
  ASSUME IInv, NEW t \in Requests, Moves(t)
  PROVE  StageInv' /\ stage' \in [Requests -> Stages] /\ result' \in [Requests -> Results]
<1>1. PICK s \in Stages \ {"idle"}, r \in Results :
        /\ stage' = [stage EXCEPT ![t] = s]
        /\ result' = [result EXCEPT ![t] = r]
        /\ s # "done" => r = "none"
        /\ s \in {"check", "environment", "insert", "validate"} => op[t] = "setup"
        /\ s = "user" => op[t] \in {"login", "bind", "connect"}
        /\ s = "factor" => op[t] = "login"
        /\ s \in {"key", "secret"} => op[t] \notin {"setup", "login"}
        /\ s = "decode" => op[t] \in {"refresh", "use", "mfa", "callback"}
        /\ s \in {"delete", "replace"} => op[t] = "mfa"
        /\ s = "provider" => op[t] \in {"bind", "connect", "refresh"}
  BY DEF Moves
<1>2. stage[t] # "idle" /\ UNCHANGED <<op, actor, token>>
  BY DEF Moves, Active, argVars
<1> QED
  BY <1>1, <1>2 DEF IInv, TypeOK, StageInv

\* Every statement of a request moves it so.
LEMMA AnswerMoves ==
  ASSUME IInv, NEW t \in Active, UNCHANGED argVars, NEW r \in Results, Answer(t, r)
  PROVE  Moves(t)
<1>1. /\ "done" \in Stages \ {"idle"}
      /\ stage' = [stage EXCEPT ![t] = "done"] /\ result' = [result EXCEPT ![t] = r]
  BY DEF Answer, Stages
<1> QED
  BY <1>1 DEF Moves

LEMMA GoesMoves ==
  ASSUME IInv, NEW t \in Active, UNCHANGED argVars,
         NEW s \in Stages \ {"idle", "done"}, Goes(t, s),
         s \in {"check", "environment", "insert", "validate"} => op[t] = "setup",
         s = "user" => op[t] \in {"login", "bind", "connect"},
         s = "factor" => op[t] = "login",
         s \in {"key", "secret"} => op[t] \notin {"setup", "login"},
         s = "decode" => op[t] \in {"refresh", "use", "mfa", "callback"},
         s \in {"delete", "replace"} => op[t] = "mfa",
         s = "provider" => op[t] \in {"bind", "connect", "refresh"}
  PROVE  Moves(t)
<1>1. result' = [result EXCEPT ![t] = "none"] /\ result[t] = "none"
  BY DEF Goes, IInv, TypeOK, StageInv, Active
<1> QED
  BY <1>1 DEF Moves, Goes, Results

LEMMA ServeMoves ==
  ASSUME IInv, NEW t \in Requests, Serve(t) \/ Drop(t)
  PROVE  Moves(t)
<1>1. t \in Active /\ UNCHANGED argVars
  BY DEF Serve, Drop, Active, SetupCheck, SetupEnvironment, SetupInsert, SetupCommit, ReadKey,
         ReadSecret, FindUser, Login, Decode, MfaDelete, MfaReplace, ProviderGrants,
         ProviderFails
<1>2. CASE SetupCheck(t) \/ SetupEnvironment(t) \/ SetupInsert(t) \/ SetupCommit(t)
  <2>1. op[t] = "setup"
    BY <1>2 DEF SetupCheck, SetupEnvironment, SetupInsert, SetupCommit, IInv, StageInv
  <2>2. \/ Goes(t, "environment") \/ Goes(t, "insert") \/ Goes(t, "validate")
        \/ Answer(t, "refused") \/ Answer(t, "ok") \/ Answer(t, "error")
    BY <1>2 DEF SetupCheck, SetupEnvironment, SetupInsert, SetupCommit
  <2> QED
    BY <1>1, <2>1, <2>2, AnswerMoves, GoesMoves DEF Results, Stages
<1>3. CASE ReadKey(t)
  <2>1. Goes(t, "secret") /\ op[t] \notin {"setup", "login"}
    BY <1>3 DEF ReadKey, IInv, StageInv
  <2> QED
    BY <1>1, <2>1, GoesMoves DEF Stages
<1>4. CASE ReadSecret(t)
  <2>1. op[t] \in AllOps \ {"setup", "login"}
    BY <1>4 DEF ReadSecret, IInv, TypeOK, StageInv
  <2>2. \/ Answer(t, "refused")
        \/ Goes(t, "decode") /\ op[t] \in {"refresh", "use", "mfa", "callback"}
        \/ Goes(t, "user") /\ op[t] = "connect"
        \/ Goes(t, "provider") /\ op[t] = "bind"
    <3>1. PICK pair : AfterCreds(t, pair)
      BY <1>4 DEF ReadSecret
    <3> QED
      BY <2>1, <3>1 DEF AfterCreds, AllOps
  <2> QED
    BY <1>1, <2>2, AnswerMoves, GoesMoves DEF Results, Stages
<1>5. CASE FindUser(t)
  <2>1. op[t] \in {"login", "bind", "connect"}
    BY <1>5 DEF FindUser, IInv, StageInv
  <2>2. \/ Answer(t, "refused") \/ Answer(t, "ok")
        \/ Goes(t, "factor") /\ op[t] = "login"
        \/ Goes(t, "provider") /\ op[t] = "connect"
        \/ Goes(t, "key") /\ op[t] = "bind"
    BY <1>5, <2>1 DEF FindUser
  <2> QED
    BY <1>1, <2>2, AnswerMoves, GoesMoves DEF Results, Stages
<1>6. CASE Login(t) \/ ProviderGrants(t) \/ ProviderFails(t)
  <2>1. PICK r \in {"refused", "ok", "pending", "error"} : Answer(t, r)
    BY <1>6 DEF Login, ProviderGrants, ProviderFails
  <2> QED
    BY <1>1, <2>1, AnswerMoves DEF Results
<1>7. CASE Decode(t)
  <2>1. \/ Answer(t, "refused") \/ Answer(t, "ok")
        \/ Goes(t, "delete") /\ op[t] = "mfa"
        \/ Goes(t, "provider") /\ op[t] = "refresh"
    BY <1>7 DEF Decode
  <2> QED
    BY <1>1, <2>1, AnswerMoves, GoesMoves DEF Results, Stages
<1>8. CASE MfaDelete(t) \/ MfaReplace(t)
  <2>1. (Goes(t, "replace") /\ op[t] = "mfa") \/ Answer(t, "ok")
    BY <1>8 DEF MfaDelete, MfaReplace, IInv, StageInv
  <2> QED
    BY <1>1, <2>1, AnswerMoves, GoesMoves DEF Results, Stages
<1>9. CASE Drop(t)
  BY <1>1, <1>9, AnswerMoves DEF Drop, Results
<1> QED
  BY <1>2, <1>3, <1>4, <1>5, <1>6, <1>7, <1>8, <1>9 DEF Serve

\* The rest of the type invariant: what the statements write.
LEMMA ServeTypes ==
  ASSUME IInv, NEW t \in Requests, Serve(t) \/ Drop(t)
  PROVE  /\ rows' \subseteq Rows /\ users' \subseteq Users /\ now' = now
         /\ tokens' \subseteq Tokens
         /\ challenges' \subseteq [user : Users, pair : Pairs]
         /\ creds' \in [Requests -> Pairs]
         /\ made' \in [Requests -> BOOLEAN]
         /\ doomed' \in [Requests -> SUBSET Rows]
         /\ granted' \in [Requests -> BOOLEAN] /\ torn' \in [Requests -> BOOLEAN]
         /\ overlap' \in [{"api", "ldap"} -> BOOLEAN]
<1> DEFINE Kept ==
      /\ UNCHANGED <<rows, users, now, tokens, challenges, creds, made, doomed, granted,
                     torn, overlap>>
<1>1. t \in Writers /\ (op[t] # "none" => actor[t] \in Users) /\ now \in Nat
  BY AccessAssumption DEF Writers, IInv, TypeOK, StageInv
<1>2. CASE SetupCheck(t) \/ SetupEnvironment(t) \/ FindUser(t) \/ ProviderFails(t) \/ Drop(t)
  <2>1. Kept
    BY <1>2 DEF SetupCheck, SetupEnvironment, FindUser, ProviderFails, Drop, dbVars, workVars
  <2> QED
    BY <2>1 DEF IInv, TypeOK
<1>3. CASE SetupInsert(t)
  BY <1>3 DEF SetupInsert, dbVars, IInv, TypeOK
<1>4. CASE SetupCommit(t)
  <2>1. [name |-> Context, by |-> t] \in Rows /\ actor[t] \in Users
    BY <1>1, <1>4, NameFacts DEF SetupCommit, IInv, StageInv
  <2> QED
    BY <1>4, <2>1 DEF SetupCommit, workVars, IInv, TypeOK
<1>5. CASE ReadKey(t)
  <2>1. PICK w \in SomeWriter(Key(CredsScope(t))) : creds' = [creds EXCEPT ![t].key = w]
    BY <1>5 DEF ReadKey
  <2>2. w \in Writers \cup {NoWriter}
    BY <2>1 DEF SomeWriter, Named, IInv, TypeOK, Rows
  <2>3. creds' \in [Requests -> Pairs]
    BY <2>1, <2>2 DEF IInv, TypeOK, Pairs
  <2> QED
    BY <1>5, <2>3 DEF ReadKey, dbVars, IInv, TypeOK
<1>6. CASE ReadSecret(t)
  <2>1. PICK w \in SomeWriter(Secret(CredsScope(t))) :
          LET pair == [creds[t] EXCEPT !.secret = w]
          IN  creds' = [creds EXCEPT ![t] =
                          IF NoWriter \in {pair.key, pair.secret} THEN NoPair ELSE pair]
    BY <1>6 DEF ReadSecret
  <2>2. w \in Writers \cup {NoWriter}
    BY <2>1 DEF SomeWriter, Named, IInv, TypeOK, Rows
  <2>3. [creds[t] EXCEPT !.secret = w] \in Pairs /\ NoPair \in Pairs
    BY <2>2 DEF IInv, TypeOK, Pairs, NoPair
  <2>4. creds' \in [Requests -> Pairs]
    BY <2>1, <2>3 DEF IInv, TypeOK
  <2> QED
    BY <1>6, <2>4 DEF ReadSecret, dbVars, IInv, TypeOK
<1>7. CASE Login(t)
  <2>1. actor[t] \in Users
    BY <1>7 DEF Login, IInv, StageInv
  <2>2. \A kind \in {"access", "refresh"} : Issued(actor[t], now, kind) \in Tokens
    BY <1>1, <2>1, AccessAssumption DEF Issued, Tokens, Pairs, NoPair
  <2> QED
    BY <1>7, <2>2 DEF Login, workVars, IInv, TypeOK
<1>8. CASE Decode(t)
  <2>1. actor[t] \in Users /\ token[t] \in Tokens /\ token[t].since \in Nat
    BY <1>8 DEF Decode, IInv, StageInv, Tokens
  <2>2. Issued(actor[t], token[t].since, "access") \in Tokens
    BY <1>1, <2>1, AccessAssumption DEF Issued, Tokens, Pairs, NoPair
  <2>3. tokens' \subseteq Tokens
    BY <1>8, <2>1, <2>2 DEF Decode, Renew, IInv, TypeOK
  <2> QED
    BY <1>8, <2>3 DEF Decode, workVars, IInv, TypeOK
<1>9. CASE MfaDelete(t)
  <2>1. scope[t] \in {"api", "ldap"} /\ OfScope(scope[t]) \subseteq Rows
    BY DEF OfScope, Named, IInv, TypeOK
  <2>2. (overlap[scope[t]] \/
           \E r \in Active : op[r] = "mfa" /\ scope[r] = scope[t] /\ stage[r] = "replace")
        \in BOOLEAN
    BY <2>1 DEF IInv, TypeOK
  <2>3. overlap' \in [{"api", "ldap"} -> BOOLEAN]
    BY <1>9, <2>1, <2>2 DEF MfaDelete, IInv, TypeOK
  <2> QED
    BY <1>9, <2>1, <2>3 DEF MfaDelete, dbVars, IInv, TypeOK
<1>10. CASE MfaReplace(t)
  <2>1. {[name |-> name, by |-> t] : name \in {Key(scope[t]), Secret(scope[t])}} \subseteq Rows
    <3>1. scope[t] \in {"api", "ldap"}
      BY DEF IInv, TypeOK
    <3>2. [name |-> Key(scope[t]), by |-> t] \in Rows
          /\ [name |-> Secret(scope[t]), by |-> t] \in Rows
      BY <1>1, <3>1, NameFacts
    <3> QED
      BY <3>2
  <2>2. torn' \in [Requests -> BOOLEAN]
    BY <1>10 DEF MfaReplace, IInv, TypeOK
  <2> QED
    BY <1>10, <2>1, <2>2 DEF MfaReplace, IInv, TypeOK
<1>11. CASE ProviderGrants(t)
  <2>1. creds[t] \in Pairs /\ actor[t] \in Users
    BY <1>11 DEF ProviderGrants, IInv, TypeOK, StageInv
  <2>2. challenges' \subseteq [user : Users, pair : Pairs]
    BY <1>11, <2>1 DEF ProviderGrants, IInv, TypeOK
  <2>3. op[t] = "refresh" => [token[t] EXCEPT !.exp = now + FactorLife] \in Tokens
    BY <1>1, AccessAssumption DEF IInv, StageInv, Tokens
  <2>4. tokens' \subseteq Tokens
    BY <1>11, <2>3 DEF ProviderGrants, IInv, TypeOK
  <2> QED
    BY <1>11, <2>2, <2>4 DEF ProviderGrants, IInv, TypeOK
<1> QED
  BY <1>2, <1>3, <1>4, <1>5, <1>6, <1>7, <1>8, <1>9, <1>10, <1>11 DEF Serve

LEMMA ServeKeeps ==
  ASSUME IInv, NEW t \in Requests, Serve(t) \/ Drop(t)
  PROVE  IInv'
<1>1. Moves(t)
  BY ServeMoves
<1>2. UNCHANGED <<op, scope, actor, token, factorOn, late>>
  BY <1>1 DEF Moves, argVars
<1>3. TypeOK'
  BY <1>1, <1>2, MovesKeep, ServeTypes DEF IInv, TypeOK
<1> QED
  BY <1>1, <1>3, MovesKeep DEF IInv

LEMMA NextIInv == IInv /\ [Next]_vars => IInv'
<1> SUFFICES ASSUME IInv, [Next]_vars PROVE IInv'
  OBVIOUS
<1>1. CASE UNCHANGED vars
  BY <1>1 DEF vars, IInv, TypeOK, StageInv
<1>2. CASE Tick
  BY <1>2, AccessAssumption
     DEF Tick, dbVars, argVars, workVars, IInv, TypeOK, StageInv
<1>3. ASSUME NEW u \in Users, DeleteUser(u)
      PROVE  IInv'
  BY <1>3 DEF DeleteUser, argVars, workVars, IInv, TypeOK, StageInv
<1>4. ASSUME NEW t \in Requests, BeginSome(t)
      PROVE  IInv'
  <2>1. PICK o, s, u, k : \E wanted \in BOOLEAN :
           Request(o, s, u, k) /\ Begin(t, o, s, u, k, wanted)
    BY <1>4, BeginSomeIs
  <2> QED
    BY <2>1, BeginKeeps
<1>5. ASSUME NEW t \in Requests, Serve(t) \/ Drop(t)
      PROVE  IInv'
  BY <1>5, ServeKeeps
<1> QED
  BY <1>1, <1>2, <1>3, <1>4, <1>5 DEF Next

LEMMA IInvHolds == Spec => []IInv
  BY InitIInv, NextIInv, PTL DEF Spec

\* Settings, users, tokens and the requests in progress keep their types,
\* however setups, logins and second factors overlap and time passes.
THEOREM AccessTypeCorrect == Spec => []TypeOK
<1>1. IInv => TypeOK
  BY DEF IInv
<1> QED
  BY <1>1, IInvHolds, PTL

-----------------------------------------------------------------------------
(* Sessions end *)

SessionInv ==
  /\ \A k \in tokens :
       /\ k.kind = "refresh" => k.exp <= k.since + RefreshLife
       /\ k.kind = "access" => k.exp <= k.since + RefreshLife + AccessLife
  /\ \A t \in Requests :
       /\ op[t] \in {"refresh", "use", "mfa"} => token[t] \in tokens
       /\ op[t] = "callback" => token[t].kind = "multifactor"
       /\ stage[t] = "provider" /\ op[t] = "refresh" => token[t].kind = "multifactor"

LEMMA InitSession == Init => SessionInv
<1> SUFFICES ASSUME Init PROVE SessionInv
  OBVIOUS
<1>1. ASSUME NEW k \in tokens
      PROVE  /\ k.kind = "refresh" => k.exp <= k.since + RefreshLife
             /\ k.kind = "access" => k.exp <= k.since + RefreshLife + AccessLife
  <2>1. \/ \E u \in Users : k = Factored(u, [key |-> Seed, secret |-> Seed])
        \/ \E u \in Users, kind \in {"access", "refresh"} : k = Issued(u, 0, kind)
    BY DEF Init
  <2> QED
    BY <2>1, AccessAssumption DEF Init, Factored, Issued
<1> QED
  BY <1>1 DEF Init, SessionInv

\* What a request adds to the tokens.
LEMMA NewTokens ==
  ASSUME IInv, SessionInv, NEW t \in Requests, Serve(t) \/ Drop(t)
  PROVE  /\ tokens \subseteq tokens'
         /\ \A k \in tokens' \ tokens :
              /\ k.kind = "refresh" => k.exp <= k.since + RefreshLife
              /\ k.kind = "access" => k.exp <= k.since + RefreshLife + AccessLife
<1>1. now \in Nat /\ {AccessLife, RefreshLife} \subseteq Nat
  BY AccessAssumption DEF IInv, TypeOK
<1>2. CASE Login(t)
  <2>1. tokens' \subseteq
          tokens \cup {Issued(actor[t], now, kind) : kind \in {"access", "refresh"}}
        /\ tokens \subseteq tokens'
    BY <1>2 DEF Login
  <2>2. \A kind \in {"access", "refresh"} :
          LET k == Issued(actor[t], now, kind)
          IN  /\ k.kind = "refresh" => k.exp <= k.since + RefreshLife
              /\ k.kind = "access" => k.exp <= k.since + RefreshLife + AccessLife
    BY <1>1 DEF Issued
  <2> QED
    BY <2>1, <2>2
<1>3. CASE Decode(t)
  <2>1. CASE Accepted(t) /\ op[t] = "callback" /\ tokens' = tokens \cup {token[t]}
    BY <2>1 DEF SessionInv
  <2>2. CASE Accepted(t) /\ op[t] = "refresh" /\ token[t].kind = "refresh" /\ Renew(t)
    <3> DEFINE new == Issued(actor[t], token[t].since, "access")
    <3>1. tokens' = tokens \cup {new}
      BY <2>2 DEF Renew
    <3>2. token[t] \in tokens /\ token[t].since \in Nat /\ token[t].exp \in Nat
      BY <2>2 DEF SessionInv, IInv, TypeOK, Tokens
    <3>3. now <= token[t].exp /\ token[t].exp <= token[t].since + RefreshLife
      BY <2>2, <3>2 DEF SessionInv, Accepted, Readable
    <3>4. new.kind = "access" /\ new.since = token[t].since /\ new.exp = now + AccessLife
      BY DEF Issued
    <3>5. new.exp <= new.since + RefreshLife + AccessLife
      BY <1>1, <3>2, <3>3, <3>4
    <3> QED
      BY <3>1, <3>4, <3>5
  <2>3. CASE tokens' = tokens
    BY <2>3
  <2> QED
    BY <1>3, <2>1, <2>2, <2>3 DEF Decode
<1>4. CASE ProviderGrants(t)
  <2>1. CASE op[t] = "refresh"
    <3>1. token[t] \in Tokens /\ token[t].kind = "multifactor"
      BY <1>4, <2>1 DEF ProviderGrants, SessionInv, IInv, StageInv
    <3>2. [token[t] EXCEPT !.exp = now + FactorLife].kind = "multifactor"
      BY <3>1 DEF Tokens
    <3> QED
      BY <1>4, <2>1, <3>2 DEF ProviderGrants
  <2>2. CASE op[t] # "refresh"
    BY <1>4, <2>2 DEF ProviderGrants
  <2> QED
    BY <2>1, <2>2
<1>5. CASE tokens' = tokens
  BY <1>5
<1> QED
  BY <1>2, <1>3, <1>4, <1>5
     DEF Serve, Drop, SetupCheck, SetupEnvironment, SetupInsert, SetupCommit, ReadKey,
         ReadSecret, FindUser, MfaDelete, MfaReplace, ProviderFails, dbVars

LEMMA NextSession == IInv /\ SessionInv /\ [Next]_vars => SessionInv'
<1> SUFFICES ASSUME IInv, SessionInv, [Next]_vars PROVE SessionInv'
  OBVIOUS
<1>1. CASE UNCHANGED <<tokens, op, token, stage>>
  BY <1>1 DEF SessionInv
<1>2. CASE Tick \/ \E u \in Users : DeleteUser(u)
  BY <1>1, <1>2 DEF Tick, DeleteUser, dbVars, argVars
<1>3. ASSUME NEW t \in Requests, BeginSome(t)
      PROVE  SessionInv'
  <2>1. PICK o, s, u, k : \E wanted \in BOOLEAN :
           Request(o, s, u, k) /\ Begin(t, o, s, u, k, wanted)
    BY <1>3, BeginSomeIs
  <2>2. /\ op' = [op EXCEPT ![t] = o] /\ token' = [token EXCEPT ![t] = k]
        /\ stage' = [stage EXCEPT ![t] = FirstStage(o)] /\ tokens' = tokens
    BY <2>1 DEF Begin, dbVars
  <2>3. FirstStage(o) # "provider"
    BY DEF FirstStage
  <2> QED
    BY <2>1, <2>2, <2>3 DEF Request, SessionInv, IInv, TypeOK
<1>4. ASSUME NEW t \in Requests, Serve(t) \/ Drop(t)
      PROVE  SessionInv'
  <2>1. UNCHANGED <<op, token>>
    BY <1>4, ServeMoves DEF Moves, argVars
  <2>2. \A u \in Requests \ {t} : stage'[u] = stage[u]
    BY <1>4, ServeMoves DEF Moves, IInv, TypeOK
  <2>3. stage'[t] = "provider" /\ op[t] = "refresh" => token[t].kind = "multifactor"
    <3> SUFFICES ASSUME stage'[t] = "provider", op[t] = "refresh"
                 PROVE  token[t].kind = "multifactor"
      OBVIOUS
    <3>1. Decode(t)
      BY <1>4 DEF Serve, Drop, SetupCheck, SetupEnvironment, SetupInsert, SetupCommit,
         ReadKey, ReadSecret, AfterCreds, FindUser, Login, MfaDelete, MfaReplace,
         ProviderGrants, ProviderFails, Goes, Answer, IInv, TypeOK, StageInv
    <3>2. Accepted(t) /\ token[t].kind # "refresh"
      BY <3>1 DEF Decode, Goes, Answer, IInv, TypeOK
    <3> QED
      BY <3>2 DEF Accepted, Fits
  <2> QED
    BY <1>4, <2>1, <2>2, <2>3, NewTokens DEF SessionInv
<1> QED
  BY <1>1, <1>2, <1>3, <1>4 DEF Next, vars

\* No refresh makes a session longer than the refresh token and one access
\* token after the password.
THEOREM BoundedSessionHolds == Spec => []BoundedSession
<1>1. IInv /\ SessionInv => BoundedSession
  BY AccessAssumption DEF IInv, TypeOK, SessionInv, BoundedSession, Tokens
<1> QED
  BY <1>1, InitSession, NextSession, IInvHolds, PTL DEF Spec

-----------------------------------------------------------------------------
(* The rows of Settings *)

\* A setup of a second factor is about to delete rows of its own scope.
DoomInv ==
  \A t \in Requests :
    /\ stage[t] # "replace" => doomed[t] = {}
    /\ \A r \in doomed[t] : r.name \in {Key(scope[t]), Secret(scope[t])}

LEMMA InitDoom == Init => DoomInv
  BY DEF Init, DoomInv

LEMMA NextDoom == IInv /\ DoomInv /\ [Next]_vars => DoomInv'
<1> SUFFICES ASSUME IInv, DoomInv, [Next]_vars PROVE DoomInv'
  OBVIOUS
<1>1. CASE UNCHANGED <<stage, doomed, scope>>
  BY <1>1 DEF DoomInv
<1>2. CASE Tick \/ \E u \in Users : DeleteUser(u)
  BY <1>1, <1>2 DEF Tick, DeleteUser, argVars, workVars
<1>3. ASSUME NEW t \in Requests, BeginSome(t)
      PROVE  DoomInv'
  <2>1. PICK o, s, u, k : \E wanted \in BOOLEAN :
           Request(o, s, u, k) /\ Begin(t, o, s, u, k, wanted)
    BY <1>3, BeginSomeIs
  <2>2. /\ stage' = [stage EXCEPT ![t] = FirstStage(o)] /\ doomed' = doomed
        /\ scope' = [scope EXCEPT ![t] = s] /\ stage[t] = "idle"
    BY <2>1 DEF Begin, workVars
  <2> QED
    BY <2>2 DEF DoomInv, IInv, TypeOK
<1>4. ASSUME NEW t \in Requests, Serve(t) \/ Drop(t)
      PROVE  DoomInv'
  <2>1. UNCHANGED scope /\ t \in Active /\ \A u \in Requests \ {t} : stage'[u] = stage[u]
    BY <1>4, ServeMoves DEF Moves, argVars, IInv, TypeOK
  <2>2. CASE MfaDelete(t)
    BY <2>1, <2>2 DEF MfaDelete, OfScope, Named, Goes, DoomInv, IInv, TypeOK
  <2>3. CASE MfaReplace(t)
    BY <2>1, <2>3 DEF MfaReplace, DoomInv, IInv, TypeOK
  <2>4. CASE ~MfaDelete(t) /\ ~MfaReplace(t)
    <3>1. doomed' = doomed /\ stage[t] # "replace"
      BY <1>4, <2>4
         DEF Serve, Drop, SetupCheck, SetupEnvironment, SetupInsert, SetupCommit, ReadKey,
             ReadSecret, FindUser, Login, Decode, ProviderGrants, ProviderFails, workVars,
             IInv, StageInv
    <3>2. doomed[t] = {}
      BY <3>1 DEF DoomInv
    <3> QED
      BY <2>1, <3>1, <3>2 DEF DoomInv
  <2> QED
    BY <2>2, <2>3, <2>4
<1> QED
  BY <1>1, <1>2, <1>3, <1>4 DEF Next, vars

\* Rows of other names stay when a second factor is replaced.
LEMMA ReplaceKeeps ==
  ASSUME IInv, DoomInv, NEW t \in Requests, MfaReplace(t),
         NEW CONSTANT name, name \notin {Key(scope[t]), Secret(scope[t])}
  PROVE  Named(name)' = Named(name)
  BY DEF MfaReplace, Named, DoomInv

\* What is in Settings after a statement.
LEMMA RowsChange ==
  ASSUME NEW t \in Requests, Serve(t) \/ Drop(t)
  PROVE  \/ rows' = rows
         \/ MfaReplace(t)
         \/ SetupCommit(t) /\ made[t] /\ result'  = [result EXCEPT ![t] = "ok"]
            /\ rows' = rows \cup {[name |-> Context, by |-> t]}
  BY DEF Serve, Drop, SetupCheck, SetupEnvironment, SetupInsert, SetupCommit, ReadKey,
         ReadSecret, FindUser, Login, Decode, MfaDelete, ProviderGrants, ProviderFails, dbVars,
         Answer

-----------------------------------------------------------------------------
(* One first setup *)

Confirmed(t) == op[t] = "setup" /\ result[t] = "ok"

SetupInv ==
  /\ \A t \in Requests : stage[t] = "idle" => ~made[t]
  /\ \A t \in Active : made[t] => stage[t] = "validate" /\ Named(Context) = {}
  /\ \A s, t \in Active : made[s] /\ made[t] => s = t
  /\ \A t \in Requests : Confirmed(t) => Named(Context) = {[name |-> Context, by |-> t]}
  /\ \A r \in Named(Context) : r.by = Seed \/ (r.by \in Requests /\ Confirmed(r.by))

LEMMA InitSetup == Init => SetupInv
  BY AccessAssumption DEF Init, SetupInv, Active, Confirmed, Named

\* A step that adds no context and no request that has made one.
LEMMA SetupStays ==
  ASSUME IInv, SetupInv, NEW t \in Requests, UNCHANGED made,
         Named(Context)' = Named(Context),
         \A u \in Requests \ {t} :
           stage'[u] = stage[u] /\ op'[u] = op[u] /\ result'[u] = result[u],
         stage[t] = "idle" \/ (op'[t] = op[t] /\ stage[t] # "done"),
         made[t] => stage'[t] = "done",
         ~Confirmed(t)', stage'[t] # "idle"
  PROVE  SetupInv'
<1>1. ~Confirmed(t)
  BY DEF IInv, StageInv, Confirmed
<1> QED
  BY <1>1 DEF SetupInv, Active, Confirmed

LEMMA NextSetup == IInv /\ DoomInv /\ SetupInv /\ [Next]_vars => SetupInv'
<1> SUFFICES ASSUME IInv, DoomInv, SetupInv, [Next]_vars PROVE SetupInv'
  OBVIOUS
<1>1. CASE UNCHANGED <<rows, stage, op, result, made>>
  BY <1>1 DEF SetupInv, Active, Confirmed, Named
<1>2. CASE Tick \/ \E u \in Users : DeleteUser(u)
  BY <1>1, <1>2 DEF Tick, DeleteUser, dbVars, argVars, workVars
<1>3. ASSUME NEW t \in Requests, BeginSome(t)
      PROVE  SetupInv'
  <2>1. PICK o, s, u, k : \E wanted \in BOOLEAN :
           Request(o, s, u, k) /\ Begin(t, o, s, u, k, wanted)
    BY <1>3, BeginSomeIs
  <2>2. /\ op' = [op EXCEPT ![t] = o] /\ stage' = [stage EXCEPT ![t] = FirstStage(o)]
        /\ UNCHANGED <<rows, result, made>> /\ stage[t] = "idle"
    BY <2>1 DEF Begin, dbVars, workVars
  <2>3. result[t] = "none" /\ ~made[t] /\ FirstStage(o) # "idle"
    BY <2>2 DEF FirstStage, SetupInv, IInv, StageInv
  <2> QED
    BY <2>2, <2>3, SetupStays DEF IInv, TypeOK, Confirmed, Named
<1>4. ASSUME NEW t \in Requests, Serve(t) \/ Drop(t)
      PROVE  SetupInv'
  <2>1. /\ op' = op /\ t \in Active
        /\ stage'[t] # "idle"
        /\ \A u \in Requests \ {t} : stage'[u] = stage[u] /\ result'[u] = result[u]
    BY <1>4, ServeMoves DEF Moves, argVars, IInv, TypeOK
  <2>2. CASE SetupInsert(t) /\ made' # made
    <3>1. /\ made' = [made EXCEPT ![t] = TRUE] /\ Named(Context) = {}
          /\ \A s \in Active : ~made[s]
          /\ rows' = rows /\ result' = result /\ stage'[t] = "validate"
          /\ op[t] = "setup" /\ result[t] = "none"
      BY <2>2 DEF SetupInsert, Goes, Answer, dbVars, IInv, TypeOK, StageInv
    <3> QED
      BY <2>1, <3>1 DEF SetupInv, Active, Confirmed, Named, IInv, TypeOK
  <2>3. CASE SetupCommit(t) /\ made[t] /\ result'  = [result EXCEPT ![t] = "ok"]
             /\ rows' = rows \cup {[name |-> Context, by |-> t]}
    <3>1. Named(Context) = {} /\ op[t] = "setup"
      BY <2>1, <2>3 DEF SetupInv, SetupCommit, IInv, StageInv
    <3>2. Named(Context)' = {[name |-> Context, by |-> t]}
      BY <2>3, <3>1 DEF Named
    <3>3. \A u \in Requests : ~Confirmed(u)
      BY <3>1 DEF SetupInv
    <3>4. stage'[t] = "done" /\ result'[t] = "ok" /\ made' = made
      BY <2>3 DEF SetupCommit, Answer, workVars, IInv, TypeOK
    <3>5. \A u \in Active : made[u] => u = t
      BY <2>1, <2>3 DEF SetupInv
    <3> QED
      BY <2>1, <3>1, <3>2, <3>3, <3>4, <3>5 DEF SetupInv, Active, Confirmed
  <2>4. CASE made' = made /\ (rows' = rows \/ MfaReplace(t)) /\ ~Confirmed(t)'
    <3>0. Context \notin {Key(scope[t]), Secret(scope[t])}
      BY NameFacts DEF IInv, TypeOK
    <3>1. Named(Context)' = Named(Context)
      <4>1. CASE rows' = rows
        BY <4>1 DEF Named
      <4>2. CASE MfaReplace(t)
        BY <4>2, <3>0, ReplaceKeeps
      <4> QED
        BY <2>4, <4>1, <4>2
    <3>2. made[t] => stage'[t] = "done"
      BY <1>4, <2>1
         DEF SetupInv, Serve, Drop, SetupCheck, SetupEnvironment, SetupInsert, SetupCommit,
             ReadKey, ReadSecret, FindUser, Login, Decode, MfaDelete, MfaReplace,
             ProviderGrants, ProviderFails, Answer, IInv, TypeOK
    <3> QED
      BY <2>1, <2>4, <3>1, <3>2, SetupStays DEF Active
  <2>5. made' = made \/ SetupInsert(t)
    BY <1>4
       DEF Serve, Drop, SetupCheck, SetupEnvironment, SetupCommit, ReadKey, ReadSecret,
           FindUser, Login, Decode, MfaDelete, MfaReplace, ProviderGrants, ProviderFails,
           workVars
  <2>6. Confirmed(t)' => SetupCommit(t) /\ made[t] /\ result'  = [result EXCEPT ![t] = "ok"]
             /\ rows' = rows \cup {[name |-> Context, by |-> t]}
    BY <1>4, <2>1
       DEF Confirmed, Serve, Drop, SetupCheck, SetupEnvironment, SetupInsert, SetupCommit,
           ReadKey, ReadSecret, FindUser, Login, Decode, MfaDelete, MfaReplace,
           ProviderGrants, ProviderFails, Answer, Goes, IInv, TypeOK, StageInv
  <2> QED
    BY <1>4, <2>2, <2>3, <2>4, <2>5, <2>6, RowsChange
<1> QED
  BY <1>1, <1>2, <1>3, <1>4 DEF Next, vars

\* However many first setups race, one at most is confirmed, and it is the one
\* whose tree there is.
THEOREM SetupOnceHolds == Spec => []SetupOnce
<1>1. SetupInv => SetupOnce
  BY DEF SetupInv, SetupOnce, Confirmed
<1> QED
  BY <1>1, InitDoom, NextDoom, InitSetup, NextSetup, IInvHolds, PTL DEF Spec

-----------------------------------------------------------------------------
(* The second factor *)

FactorInv ==
  \A t \in Requests :
    /\ op[t] = "login" /\ factorOn[t] => InForce("api") /\ result[t] # "ok"
    /\ op[t] = "bind" /\ factorOn[t] /\ result[t] = "ok" => granted[t]

\* No statement takes the last row of a key or a secret of the API away.
LEMMA InForceStays ==
  ASSUME IInv, DoomInv, NEW t \in Requests, Serve(t) \/ Drop(t), InForce("api")
  PROVE  InForce("api")'
<1>1. CASE rows \subseteq rows'
  BY <1>1 DEF InForce, Named
<1>2. CASE MfaReplace(t)
  <2>1. CASE scope[t] = "api"
    <3>1. [name |-> Key("api"), by |-> t] \in rows'
      BY <1>2, <2>1 DEF MfaReplace
    <3> QED
      BY <3>1 DEF InForce, Named
  <2>2. CASE scope[t] = "ldap"
    <3>1. \A name \in {Key("api"), Secret("api")} : name \notin {Key(scope[t]), Secret(scope[t])}
      BY <2>2 DEF Key, Secret
    <3>2. Named(Key("api"))' = Named(Key("api"))
      <4>1. Key("api") \notin {Key(scope[t]), Secret(scope[t])}
        BY <3>1
      <4> QED
        BY <1>2, <4>1, ReplaceKeeps
    <3>3. Named(Secret("api"))' = Named(Secret("api"))
      <4>1. Secret("api") \notin {Key(scope[t]), Secret(scope[t])}
        BY <3>1
      <4> QED
        BY <1>2, <4>1, ReplaceKeeps
    <3> QED
      BY <3>2, <3>3 DEF InForce
  <2> QED
    BY <2>1, <2>2 DEF IInv, TypeOK
<1> QED
  BY <1>1, <1>2, RowsChange

\* How a login or a bind comes to succeed.
LEMMA SucceedsHow ==
  ASSUME IInv, NEW t \in Requests, Serve(t) \/ Drop(t), result'[t] = "ok",
         op[t] \in {"login", "bind"}
  PROVE  IF op[t] = "login" THEN ~InForce("api") ELSE ~factorOn[t] \/ granted'[t]
<1>1. t \in Active /\ stage'[t] \in Stages
  BY ServeMoves DEF Moves, IInv, TypeOK
<1>2. CASE SetupCheck(t) \/ SetupEnvironment(t) \/ SetupInsert(t) \/ SetupCommit(t)
           \/ Decode(t) \/ MfaDelete(t) \/ MfaReplace(t) \/ Drop(t)
  BY <1>2 DEF SetupCheck, SetupEnvironment, SetupInsert, SetupCommit, Decode, MfaDelete,
              MfaReplace, Drop, IInv, StageInv
<1>3. CASE ReadKey(t) \/ ReadSecret(t)
  <2>1. result'[t] \in {"none", "refused"}
    BY <1>1, <1>3 DEF ReadKey, ReadSecret, AfterCreds, Goes, Answer, Active, IInv, TypeOK, StageInv
  <2> QED
    BY <2>1
<1>4. CASE FindUser(t)
  BY <1>1, <1>4 DEF FindUser, Goes, Answer, Active, IInv, TypeOK, StageInv
<1>5. CASE Login(t)
  BY <1>5 DEF Login, Answer, IInv, TypeOK, StageInv
<1>6. CASE ProviderGrants(t) \/ ProviderFails(t)
  BY <1>6 DEF ProviderGrants, ProviderFails, Answer, IInv, TypeOK, StageInv
<1> QED
  BY <1>2, <1>3, <1>4, <1>5, <1>6 DEF Serve

LEMMA GrantStays ==
  ASSUME IInv, NEW t \in Requests, Serve(t) \/ Drop(t)
  PROVE  \A u \in Requests : granted[u] => granted'[u]
  BY DEF Serve, Drop, SetupCheck, SetupEnvironment, SetupInsert, SetupCommit, ReadKey,
         ReadSecret, FindUser, Login, Decode, MfaDelete, MfaReplace, ProviderGrants,
         ProviderFails, workVars, IInv, TypeOK

LEMMA NextFactor == IInv /\ DoomInv /\ FactorInv /\ [Next]_vars => FactorInv'
<1> SUFFICES ASSUME IInv, DoomInv, FactorInv, [Next]_vars PROVE FactorInv'
  OBVIOUS
<1>1. CASE UNCHANGED <<rows, op, factorOn, result, granted>>
  BY <1>1 DEF FactorInv, InForce, Named
<1>2. CASE Tick \/ \E u \in Users : DeleteUser(u)
  BY <1>1, <1>2 DEF Tick, DeleteUser, dbVars, argVars, workVars
<1>3. ASSUME NEW t \in Requests, BeginSome(t)
      PROVE  FactorInv'
  <2>1. PICK o, s, u, k : \E wanted \in BOOLEAN :
           Request(o, s, u, k) /\ Begin(t, o, s, u, k, wanted)
    BY <1>3, BeginSomeIs
  <2>2. /\ op' = [op EXCEPT ![t] = o] /\ UNCHANGED <<rows, result, granted>>
        /\ stage[t] = "idle"
        /\ o = "login" => s = "api"
        /\ \A r \in Requests \ {t} : factorOn'[r] = factorOn[r]
        /\ o = "login" => factorOn'[t] = InForce(s)
    BY <2>1 DEF Begin, Request, dbVars, workVars, IInv, TypeOK
  <2>3. InForce("api")' = InForce("api") /\ result[t] = "none" /\ op'[t] = o
    BY <2>2 DEF InForce, Named, IInv, TypeOK, StageInv
  <2> QED
    BY <2>2, <2>3 DEF FactorInv, IInv, TypeOK
<1>4. ASSUME NEW t \in Requests, Serve(t) \/ Drop(t)
      PROVE  FactorInv'
  <2>1. /\ op' = op /\ factorOn' = factorOn
        /\ \A u \in Requests \ {t} : result'[u] = result[u]
    BY <1>4, ServeMoves DEF Moves, argVars, IInv, TypeOK
  <2> QED
    BY <1>4, <2>1, InForceStays, SucceedsHow, GrantStays DEF FactorInv
<1> QED
  BY <1>1, <1>2, <1>3, <1>4 DEF Next, vars

\* No password alone gets tokens once the API has a second factor, and no bind
\* passes a policy that wants one without the provider.
THEOREM SecondFactorHolds == Spec => []SecondFactor
<1>1. Init => FactorInv
  BY DEF Init, FactorInv
<1>2. FactorInv => SecondFactor
  BY DEF FactorInv, SecondFactor
<1> QED
  BY <1>1, <1>2, InitDoom, NextDoom, NextFactor, IInvHolds, PTL DEF Spec

-----------------------------------------------------------------------------
(* Deleted users *)

LateInv ==
  \A t \in Requests :
    late[t] =>
      /\ Named(Context) # {} /\ actor[t] \notin users
      /\ op[t] \in {"login", "bind"} => stage[t] \in {"user", "done"}
      /\ op[t] = "connect" => stage[t] \in {"key", "secret", "user", "done"}
      /\ op[t] \in {"refresh", "use", "mfa", "callback"} =>
           stage[t] \in {"key", "secret", "decode", "done"}
      /\ op[t] # "setup" => result[t] \notin {"ok", "pending"}

\* Only a setup that begins before there is a directory adds a user, and no
\* statement takes the directory away.
LEMMA NoUserReturns ==
  ASSUME IInv, DoomInv, SetupInv, NEW t \in Requests, Serve(t) \/ Drop(t),
         Named(Context) # {}
  PROVE  users' \subseteq users /\ Named(Context)' # {}
<1>1. t \in Active
  BY ServeMoves DEF Moves
<1>2. ~made[t]
  BY <1>1 DEF SetupInv
<1>3. users' = users
  BY <1>2
     DEF Serve, Drop, SetupCheck, SetupEnvironment, SetupInsert, SetupCommit, ReadKey,
         ReadSecret, FindUser, Login, Decode, MfaDelete, MfaReplace, ProviderGrants,
         ProviderFails, dbVars
<1>4. rows' = rows => Named(Context)' = Named(Context)
  BY DEF Named
<1>5. MfaReplace(t) => Named(Context)' = Named(Context)
  <2>1. Context \notin {Key(scope[t]), Secret(scope[t])}
    BY NameFacts DEF IInv, TypeOK
  <2> QED
    BY <2>1, ReplaceKeeps
<1>6. rows' = rows \/ MfaReplace(t)
  BY <1>2, RowsChange
<1> QED
  BY <1>3, <1>4, <1>5, <1>6

\* A late request gets no further than the look-up of its user.
LEMMA LateEnds ==
  ASSUME IInv, LateInv, NEW t \in Requests, Serve(t) \/ Drop(t), late[t], op[t] # "setup"
  PROVE  /\ op[t] \in {"login", "bind"} => stage'[t] = "done"
         /\ op[t] = "connect" => stage'[t] \in {"secret", "user", "done"}
         /\ op[t] \in {"refresh", "use", "mfa", "callback"} =>
              stage'[t] \in {"secret", "decode", "done"}
         /\ result'[t] \notin {"ok", "pending"}
<1>1. t \in Active /\ actor[t] \notin users /\ op[t] \in AllOps /\ result[t] = "none"
  BY ServeMoves DEF Moves, Active, LateInv, IInv, TypeOK, StageInv
<1>2. stage[t] \in {"user", "key", "secret", "decode"}
  BY <1>1 DEF LateInv, AllOps, Active
<1>3. CASE FindUser(t)
  BY <1>1, <1>3 DEF FindUser, Answer, IInv, TypeOK
<1>4. CASE ReadKey(t)
  <2>1. op[t] \notin {"login", "bind"}
    BY <1>4 DEF ReadKey, LateInv
  <2> QED
    BY <1>1, <1>4, <2>1 DEF ReadKey, Goes, IInv, TypeOK
<1>5. CASE ReadSecret(t)
  <2>1. op[t] \notin {"login", "bind"}
    BY <1>5 DEF ReadSecret, LateInv
  <2>2. \/ Answer(t, "refused")
        \/ Goes(t, "decode") /\ op[t] \in {"refresh", "use", "mfa", "callback"}
        \/ Goes(t, "user") /\ op[t] = "connect"
    BY <1>1, <1>5, <2>1 DEF ReadSecret, AfterCreds, AllOps
  <2> QED
    BY <1>1, <2>1, <2>2 DEF Goes, Answer, IInv, TypeOK
<1>6. CASE Decode(t)
  <2>1. Answer(t, "refused") /\ op[t] \in {"refresh", "use", "mfa", "callback"}
    BY <1>1, <1>6 DEF Decode, Accepted, IInv, StageInv
  <2> QED
    BY <2>1 DEF Answer, IInv, TypeOK
<1> QED
  BY <1>2, <1>3, <1>4, <1>5, <1>6
     DEF Serve, Drop, SetupCheck, SetupEnvironment, SetupInsert, SetupCommit, Login, MfaDelete,
         MfaReplace, ProviderGrants, ProviderFails

LEMMA NextLate == IInv /\ DoomInv /\ SetupInv /\ LateInv /\ [Next]_vars => LateInv'
<1> SUFFICES ASSUME IInv, DoomInv, SetupInv, LateInv, [Next]_vars PROVE LateInv'
  OBVIOUS
<1>1. ASSUME UNCHANGED <<rows, op, actor, late, stage, result>>, users' \subseteq users
      PROVE  LateInv'
  BY <1>1 DEF LateInv, Named
<1>2. CASE UNCHANGED vars
  BY <1>1, <1>2 DEF vars
<1>3. CASE Tick \/ \E u \in Users : DeleteUser(u)
  BY <1>1, <1>3 DEF Tick, DeleteUser, dbVars, argVars, workVars
<1>4. ASSUME NEW t \in Requests, BeginSome(t)
      PROVE  LateInv'
  <2>1. PICK o, s, u, k : \E wanted \in BOOLEAN :
           Request(o, s, u, k) /\ Begin(t, o, s, u, k, wanted)
    BY <1>4, BeginSomeIs
  <2>2. /\ op' = [op EXCEPT ![t] = o] /\ actor' = [actor EXCEPT ![t] = u]
        /\ late' = [late EXCEPT ![t] = Named(Context) # {} /\ u \notin users]
        /\ stage' = [stage EXCEPT ![t] = FirstStage(o)]
        /\ UNCHANGED <<rows, users, result>> /\ stage[t] = "idle"
    BY <2>1 DEF Begin, dbVars, workVars
  <2>3. /\ o \in {"login", "bind"} => FirstStage(o) = "user"
        /\ o \in {"connect", "refresh", "use", "mfa", "callback"} => FirstStage(o) = "key"
    BY DEF FirstStage
  <2>4. /\ op'[t] = o /\ actor'[t] = u /\ stage'[t] = FirstStage(o) /\ result'[t] = "none"
        /\ late'[t] => Named(Context) # {} /\ u \notin users
        /\ Named(Context)' = Named(Context)
        /\ \A r \in Requests \ {t} :
             op'[r] = op[r] /\ actor'[r] = actor[r] /\ stage'[r] = stage[r] /\ late'[r] = late[r]
    BY <2>2 DEF IInv, TypeOK, StageInv, Named
  <2> QED
    BY <2>2, <2>3, <2>4 DEF LateInv
<1>5. ASSUME NEW t \in Requests, Serve(t) \/ Drop(t)
      PROVE  LateInv'
  <2>1. /\ op' = op /\ actor' = actor /\ late' = late
        /\ \A u \in Requests \ {t} : stage'[u] = stage[u] /\ result'[u] = result[u]
    BY <1>5, ServeMoves DEF Moves, argVars, IInv, TypeOK
  <2>2. \A u \in Requests : late[u] => Named(Context)' # {} /\ actor[u] \notin users'
    BY <1>5, NoUserReturns DEF LateInv
  <2>3. late[t] /\ op[t] # "setup" =>
          /\ op[t] \in {"login", "bind"} => stage'[t] = "done"
          /\ op[t] = "connect" => stage'[t] \in {"secret", "user", "done"}
          /\ op[t] \in {"refresh", "use", "mfa", "callback"} =>
               stage'[t] \in {"secret", "decode", "done"}
          /\ result'[t] \notin {"ok", "pending"}
    BY <1>5, LateEnds
  <2> QED
    BY <2>1, <2>2, <2>3 DEF LateInv
<1> QED
  BY <1>2, <1>3, <1>4, <1>5 DEF Next

\* A request that begins after its user was deleted is refused, whatever token
\* it carries and however it interleaves with the others.
THEOREM DeletedRefusedHolds == Spec => []DeletedRefused
<1>1. Init => LateInv
  BY DEF Init, LateInv
<1>2. LateInv => DeletedRefused
  BY DEF LateInv, DeletedRefused
<1> QED
  BY <1>1, <1>2, InitDoom, NextDoom, InitSetup, NextSetup, NextLate, IInvHolds, PTL DEF Spec

-----------------------------------------------------------------------------
(* Keys and their secrets *)

\* The request has read no secret yet.
Unread(t) == stage[t] \in {"idle", "key", "secret"} \/ (op[t] = "bind" /\ stage[t] = "user")

\* While no setups of a scope overlap, its rows are of one writer, and the one
\* setup in progress is about to delete all of them.
ScopeInv(s) ==
  ~overlap[s] =>
    /\ \A q, r \in OfScope(s) : q.by = r.by
    /\ \A t \in Requests : stage[t] = "replace" /\ scope[t] = s => doomed[t] = OfScope(s)
    /\ \A t, u \in Requests :
         stage[t] = "replace" /\ scope[t] = s /\ stage[u] = "replace" /\ scope[u] = s => t = u

CredsInv(t) ==
  /\ Unread(t) => creds[t].secret = NoWriter
  /\ ~torn[t] /\ ~overlap[CredsScope(t)] =>
       /\ stage[t] = "secret" /\ creds[t].key # NoWriter =>
            \E r \in OfScope(CredsScope(t)) : r.by = creds[t].key
       /\ creds[t].secret # NoWriter => creds[t].key = creds[t].secret

PairInv ==
  /\ \A s \in {"api", "ldap"} : ScopeInv(s)
  /\ \A t \in Requests : CredsInv(t)

LEMMA InitPair == Init => PairInv
<1> SUFFICES ASSUME Init PROVE PairInv
  OBVIOUS
<1>1. \A r \in rows : r.by = Seed
  BY AccessAssumption DEF Init
<1>2. \A s : \A r \in OfScope(s) : r.by = Seed
  BY <1>1 DEF OfScope, Named
<1> QED
  BY <1>2 DEF Init, PairInv, ScopeInv, CredsInv, NoPair

\* A statement that reads no pair and writes no second factor.
LEMMA PairStays ==
  ASSUME IInv, PairInv, NEW t \in Requests, UNCHANGED <<creds, doomed, torn, overlap>>,
         \A s \in {"api", "ldap"} : OfScope(s)' = OfScope(s),
         \A u \in Requests \ {t} : stage'[u] = stage[u] /\ op'[u] = op[u] /\ scope'[u] = scope[u],
         stage'[t] \notin {"secret", "replace"},
         Unread(t)' => Unread(t),
         op'[t] = op[t] \/ Unread(t)
  PROVE  PairInv'
<1>1. \A s \in {"api", "ldap"} : ScopeInv(s)'
  BY DEF PairInv, ScopeInv
<1>2. \A u \in Requests \ {t} : CredsInv(u)'
  <2> TAKE u \in Requests \ {t}
  <2>1. CredsScope(u)' = CredsScope(u) /\ CredsScope(u) \in {"api", "ldap"}
    BY DEF CredsScope
  <2>2. Unread(u)' = Unread(u)
    BY DEF Unread
  <2>3. OfScope(CredsScope(u))' = OfScope(CredsScope(u))
    BY <2>1
  <2> QED
    BY <2>1, <2>2, <2>3 DEF PairInv, CredsInv
<1>3. CredsInv(t)'
  <2>1. op'[t] = op[t] => CredsScope(t)' = CredsScope(t)
    BY DEF CredsScope
  <2> QED
    BY <2>1 DEF PairInv, CredsInv
<1> QED
  BY <1>1, <1>2, <1>3 DEF PairInv

\* A step leaves the rows of a scope, or replaces a second factor of it.
LEMMA ScopeRows ==
  ASSUME IInv, DoomInv, NEW t \in Requests, Serve(t) \/ Drop(t), NEW s \in {"api", "ldap"},
         ~(MfaReplace(t) /\ scope[t] = s)
  PROVE  OfScope(s)' = OfScope(s)
<1>1. CASE rows' = rows
  BY <1>1 DEF OfScope, Named
<1>2. CASE rows' = rows \cup {[name |-> Context, by |-> t]}
  BY <1>2, NameFacts DEF OfScope, Named
<1>3. CASE MfaReplace(t)
  <2>1. scope[t] # s /\ scope[t] \in {"api", "ldap"}
    BY <1>3 DEF IInv, TypeOK
  <2>2. Key(s) \notin {Key(scope[t]), Secret(scope[t])}
        /\ Secret(s) \notin {Key(scope[t]), Secret(scope[t])}
    BY <2>1, NameFacts
  <2>3. Named(Key(s))' = Named(Key(s))
    BY <1>3, <2>2, ReplaceKeeps
  <2>4. Named(Secret(s))' = Named(Secret(s))
    BY <1>3, <2>2, ReplaceKeeps
  <2> QED
    BY <2>3, <2>4 DEF OfScope
<1> QED
  BY <1>1, <1>2, <1>3, RowsChange

LEMMA ReadPair ==
  ASSUME IInv, DoomInv, PairInv, NEW t \in Requests, ReadKey(t) \/ ReadSecret(t)
  PROVE  PairInv'
<1>1. /\ UNCHANGED <<rows, op, scope, doomed, torn, overlap>>
      /\ \A u \in Requests \ {t} : stage'[u] = stage[u] /\ creds'[u] = creds[u]
      /\ Unread(t) /\ stage'[t] # "replace"
  <2>1. Serve(t)
    BY DEF Serve
  <2>2. /\ op[t] \notin {"setup", "login", "none"} /\ stage[t] \in {"key", "secret"}
        /\ UNCHANGED <<rows, op, scope, doomed, torn, overlap>>
        /\ \A u \in Requests \ {t} : creds'[u] = creds[u]
    BY DEF ReadKey, ReadSecret, dbVars, argVars, IInv, TypeOK, StageInv
  <2>3. stage'[t] # "replace"
    BY <2>2 DEF ReadKey, ReadSecret, AfterCreds, Goes, Answer, IInv, TypeOK
  <2> QED
    BY <2>1, <2>2, <2>3, ServeMoves DEF Moves, Unread, IInv, TypeOK
<1>2. \A s \in {"api", "ldap"} : OfScope(s)' = OfScope(s) /\ ScopeInv(s)'
  BY <1>1 DEF OfScope, Named, PairInv, ScopeInv
<1>3. \A u \in Requests : CredsScope(u)' = CredsScope(u) /\ CredsScope(u) \in {"api", "ldap"}
  BY <1>1 DEF CredsScope
<1>4. \A u \in Requests \ {t} : CredsInv(u)'
  BY <1>1, <1>2, <1>3 DEF PairInv, CredsInv, Unread
<1>5. creds[t].secret = NoWriter /\ creds[t] \in Pairs
  BY <1>1 DEF PairInv, CredsInv, IInv, TypeOK
<1>6. CASE ReadKey(t)
  <2>1. PICK w \in SomeWriter(Key(CredsScope(t))) : creds' = [creds EXCEPT ![t].key = w]
    BY <1>6 DEF ReadKey
  <2>2. creds'[t].key = w /\ creds'[t].secret = NoWriter
    BY <1>5, <2>1 DEF IInv, TypeOK, Pairs
  <2>3. w # NoWriter => \E r \in OfScope(CredsScope(t)) : r.by = w
    BY <2>1 DEF SomeWriter, OfScope
  <2> QED
    BY <1>1, <1>2, <1>3, <1>4, <2>2, <2>3 DEF PairInv, CredsInv
<1>7. CASE ReadSecret(t)
  <2> DEFINE pair(w) == [creds[t] EXCEPT !.secret = w]
  <2>1. PICK w \in SomeWriter(Secret(CredsScope(t))) :
          /\ AfterCreds(t, pair(w))
          /\ creds' = [creds EXCEPT ![t] =
                         IF NoWriter \in {pair(w).key, pair(w).secret} THEN NoPair ELSE pair(w)]
    BY <1>7 DEF ReadSecret
  <2>2. pair(w).key = creds[t].key /\ pair(w).secret = w
    BY <1>5 DEF Pairs
  <2>3. ~Unread(t)'
    BY <1>1, <1>7, <2>1
       DEF ReadSecret, AfterCreds, Goes, Answer, Unread, IInv, TypeOK, StageInv
  <2>4. ~torn[t] /\ ~overlap[CredsScope(t)] /\ creds[t].key # NoWriter /\ w # NoWriter
          => creds[t].key = w
    <3> SUFFICES ASSUME ~torn[t], ~overlap[CredsScope(t)], creds[t].key # NoWriter,
                        w # NoWriter
                 PROVE  creds[t].key = w
      OBVIOUS
    <3>1. PICK q \in OfScope(CredsScope(t)) : q.by = creds[t].key
      BY <1>7 DEF ReadSecret, PairInv, CredsInv
    <3>2. PICK r \in OfScope(CredsScope(t)) : r.by = w
      BY <2>1 DEF SomeWriter, OfScope
    <3> QED
      BY <1>3, <3>1, <3>2 DEF PairInv, ScopeInv
  <2>5. creds'[t].secret # NoWriter =>
          creds'[t] = pair(w) /\ creds[t].key # NoWriter /\ w # NoWriter
    BY <2>1, <2>2 DEF NoPair, IInv, TypeOK
  <2>6. stage'[t] # "secret"
    BY <2>3 DEF Unread
  <2> QED
    BY <1>1, <1>2, <1>3, <1>4, <2>2, <2>3, <2>4, <2>5, <2>6 DEF PairInv, CredsInv
<1> QED
  BY <1>6, <1>7

LEMMA WritePair ==
  ASSUME IInv, DoomInv, PairInv, NEW t \in Requests, MfaDelete(t) \/ MfaReplace(t)
  PROVE  PairInv'
<1>1. /\ UNCHANGED <<creds, op, scope>> /\ op[t] = "mfa" /\ scope[t] \in {"api", "ldap"}
      /\ \A u \in Requests \ {t} : stage'[u] = stage[u] /\ doomed'[u] = doomed[u]
      /\ \A s \in {"api", "ldap"} : overlap[s] => overlap'[s]
      /\ \A s \in {"api", "ldap"} \ {scope[t]} : overlap'[s] = overlap[s]
      /\ stage'[t] \notin {"idle", "key", "secret", "user"}
  BY DEF MfaDelete, MfaReplace, Goes, Answer, dbVars, argVars, IInv, TypeOK, StageInv
<1>2. \A u \in Requests : CredsScope(u)' = CredsScope(u) /\ CredsScope(u) \in {"api", "ldap"}
  BY <1>1 DEF CredsScope
<1>3. \A s \in {"api", "ldap"} \ {scope[t]} : OfScope(s)' = OfScope(s)
  BY ScopeRows DEF Serve
<1>4. \A s \in {"api", "ldap"} \ {scope[t]} : ScopeInv(s)'
  BY <1>1, <1>3 DEF PairInv, ScopeInv
<1>5. CASE MfaDelete(t)
  <2>1. rows' = rows /\ torn' = torn /\ stage[t] = "delete" /\ stage'[t] = "replace"
        /\ doomed'[t] = OfScope(scope[t])
    BY <1>5 DEF MfaDelete, Goes, dbVars, IInv, TypeOK
  <2>2. \A s \in {"api", "ldap"} : OfScope(s)' = OfScope(s)
    BY <2>1 DEF OfScope, Named
  <2>3. ~overlap'[scope[t]] =>
          \A r \in Requests : stage[r] = "replace" => scope[r] # scope[t]
    BY <1>1, <1>5 DEF MfaDelete, Active, IInv, TypeOK, StageInv
  <2>4. \A s \in {"api", "ldap"} : ScopeInv(s)'
    <3> TAKE s \in {"api", "ldap"}
    <3>1. CASE s = scope[t]
      BY <1>1, <2>1, <2>2, <2>3, <3>1 DEF PairInv, ScopeInv
    <3> QED
      BY <1>4, <3>1
  <2>5. \A u \in Requests : OfScope(CredsScope(u))' = OfScope(CredsScope(u))
    BY <1>2, <2>2
  <2>6. \A u \in Requests : CredsInv(u)'
    BY <1>1, <1>2, <2>1, <2>5 DEF PairInv, CredsInv, Unread
  <2> QED
    BY <2>4, <2>6 DEF PairInv
<1>6. CASE MfaReplace(t)
  <2>1. /\ stage[t] = "replace" /\ stage'[t] = "done" /\ overlap' = overlap
        /\ rows' = (rows \ doomed[t]) \cup
             {[name |-> name, by |-> t] : name \in {Key(scope[t]), Secret(scope[t])}}
        /\ torn' = [r \in Requests |-> torn[r] \/ (stage[r] = "secret" /\ CredsScope(r) = scope[t])]
    BY <1>6 DEF MfaReplace, Answer, IInv, TypeOK
  <2>2. \A s \in {"api", "ldap"} : ScopeInv(s)'
    <3> SUFFICES ASSUME NEW s \in {"api", "ldap"}, s = scope[t], ~overlap[s]
                 PROVE  ScopeInv(s)'
      BY <1>4, <2>1 DEF ScopeInv
    <3>1. doomed[t] = OfScope(s)
          /\ \A u \in Requests \ {t} : ~(stage[u] = "replace" /\ scope[u] = s)
      BY <1>1, <2>1 DEF PairInv, ScopeInv
    <3>2. \A r \in OfScope(s)' : r.by = t
      BY <2>1, <3>1 DEF OfScope, Named
    <3> QED
      BY <1>1, <2>1, <3>1, <3>2 DEF ScopeInv
  <2>3. \A u \in Requests : CredsInv(u)'
    <3> TAKE u \in Requests
    <3>0. (Unread(u)' => Unread(u)) /\ (stage'[u] = "secret" => stage[u] = "secret")
          /\ (~torn'[u] => ~torn[u])
      BY <1>1, <2>1 DEF Unread
    <3>1. CASE CredsScope(u) = scope[t]
      <4>1. stage'[u] = "secret" => torn'[u]
        BY <2>1, <3>0, <3>1
      <4> QED
        BY <1>1, <1>2, <2>1, <3>0, <4>1 DEF PairInv, CredsInv
    <3>2. CASE CredsScope(u) # scope[t]
      <4>1. OfScope(CredsScope(u))' = OfScope(CredsScope(u))
        BY <1>2, <1>3, <3>2
      <4> QED
        BY <1>1, <1>2, <2>1, <3>0, <4>1 DEF PairInv, CredsInv
    <3> QED
      BY <3>1, <3>2
  <2> QED
    BY <2>2, <2>3 DEF PairInv
<1> QED
  BY <1>5, <1>6

LEMMA NextPair == IInv /\ DoomInv /\ PairInv /\ [Next]_vars => PairInv'
<1> SUFFICES ASSUME IInv, DoomInv, PairInv, [Next]_vars PROVE PairInv'
  OBVIOUS
<1>1. CASE UNCHANGED <<rows, op, scope, stage, creds, doomed, torn, overlap>>
  BY <1>1 DEF PairInv, ScopeInv, CredsInv, OfScope, Named, Unread, CredsScope
<1>2. CASE Tick \/ \E u \in Users : DeleteUser(u)
  BY <1>1, <1>2 DEF Tick, DeleteUser, dbVars, argVars, workVars
<1>3. ASSUME NEW t \in Requests, BeginSome(t)
      PROVE  PairInv'
  <2>1. PICK o, s, u, k : \E wanted \in BOOLEAN :
           Request(o, s, u, k) /\ Begin(t, o, s, u, k, wanted)
    BY <1>3, BeginSomeIs
  <2>2. /\ op' = [op EXCEPT ![t] = o] /\ scope' = [scope EXCEPT ![t] = s]
        /\ stage' = [stage EXCEPT ![t] = FirstStage(o)] /\ stage[t] = "idle"
        /\ UNCHANGED <<rows, creds, doomed, torn, overlap>>
    BY <2>1 DEF Begin, dbVars, workVars
  <2>3. FirstStage(o) \in {"check", "user", "key"}
    BY DEF FirstStage
  <2>4. \A x \in {"api", "ldap"} : OfScope(x)' = OfScope(x)
    BY <2>2 DEF OfScope, Named
  <2>5. Unread(t) /\ stage'[t] \notin {"secret", "replace"}
    BY <2>2, <2>3 DEF Unread, IInv, TypeOK
  <2>6. \A r \in Requests \ {t} :
          stage'[r] = stage[r] /\ op'[r] = op[r] /\ scope'[r] = scope[r]
    BY <2>2 DEF IInv, TypeOK
  <2> QED
    BY <2>2, <2>4, <2>5, <2>6, PairStays
<1>4. ASSUME NEW t \in Requests, Serve(t) \/ Drop(t)
      PROVE  PairInv'
  <2>1. CASE ReadKey(t) \/ ReadSecret(t)
    BY <2>1, ReadPair
  <2>2. CASE MfaDelete(t) \/ MfaReplace(t)
    BY <2>2, WritePair
  <2>3. CASE \/ SetupCheck(t) \/ SetupEnvironment(t) \/ SetupInsert(t) \/ SetupCommit(t)
             \/ FindUser(t) \/ Login(t) \/ Decode(t) \/ ProviderGrants(t) \/ ProviderFails(t)
             \/ Drop(t)
    <3>1. UNCHANGED <<creds, doomed, torn, overlap>>
      BY <2>3 DEF SetupCheck, SetupEnvironment, SetupInsert, SetupCommit, FindUser, Login,
                  Decode, ProviderGrants, ProviderFails, Drop, workVars
    <3>2. ~MfaReplace(t)
      BY <2>3 DEF MfaReplace, SetupCheck, SetupEnvironment, SetupInsert, SetupCommit, FindUser,
                  Login, Decode, ProviderGrants, ProviderFails, Drop, IInv, StageInv
    <3>3. \A s \in {"api", "ldap"} : OfScope(s)' = OfScope(s)
      BY <1>4, <3>2, ScopeRows
    <3>4. /\ op' = op /\ stage'[t] # "idle"
          /\ \A u \in Requests \ {t} : stage'[u] = stage[u]
      BY <1>4, ServeMoves DEF Moves, argVars, IInv, TypeOK
    <3>5. scope' = scope
      BY <1>4, ServeMoves DEF Moves, argVars
    <3>6. /\ stage'[t] \in {"environment", "insert", "validate", "factor", "provider", "key",
                             "delete", "done"}
          /\ stage'[t] = "key" => op[t] = "bind" /\ stage[t] = "user"
      BY <2>3 DEF SetupCheck, SetupEnvironment, SetupInsert, SetupCommit, FindUser, Login,
                  Decode, ProviderGrants, ProviderFails, Drop, Goes, Answer, IInv, TypeOK,
                  StageInv
    <3>7. Unread(t)' => Unread(t)
      BY <3>4, <3>6 DEF Unread
    <3> QED
      BY <3>1, <3>3, <3>4, <3>5, <3>6, <3>7, PairStays
  <2> QED
    BY <1>4, <2>1, <2>2, <2>3 DEF Serve
<1> QED
  BY <1>1, <1>2, <1>3, <1>4 DEF Next, vars

\* A key is used with its own secret, whichever requests are between their two
\* reads, unless setups of its scope overlap or one is committed there.
THEOREM PairsMatchHolds == Spec => []PairsMatch
<1>1. PairInv => PairsMatch
  BY DEF PairInv, CredsInv, PairsMatch
<1> QED
  BY <1>1, InitDoom, NextDoom, InitPair, NextPair, IInvHolds, PTL DEF Spec
=============================================================================
