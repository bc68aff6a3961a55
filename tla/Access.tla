------------------------------- MODULE Access -------------------------------
(***************************************************************************)
(* How a directory is set up and who is let in: the first setup and the    *)
(* tokens of the HTTP API (app/api/auth), the second factor of the API and *)
(* of LDAP binds (app/ldap_protocol/multifactor.py) and the table Settings,*)
(* whose rows have no unique name. A step is one statement of a request,   *)
(* or one call of the provider of the second factor. A key or a secret is  *)
(* known by the request that wrote it: those of one request belong         *)
(* together. What a token is signed with decides who can read it.          *)
(***************************************************************************)
EXTENDS Integers, FiniteSets

CONSTANTS
  Requests,     \* the requests, each served once
  Users,
  NoUser,
  NoToken,      \* the request carries no token
  NoWriter,     \* no row: the key or the secret is not set
  Seed,         \* the writer of the rows there are at the start
  SeedRows,     \* what Settings may hold at the start
  Scopes,       \* the scopes administrators set a second factor up for
  Ops,          \* the operations that clients ask for
  AccessLife,   \* ACCESS_TOKEN_EXPIRE_MINUTES
  RefreshLife,  \* REFRESH_TOKEN_EXPIRE_MINUTES
  FactorLife,   \* how long the provider's tokens last
  Leeway,       \* MFA_TOKEN_LEEWAY
  LastTime,     \* the bound on now
  MaxActive     \* how many requests may be in progress at once

Context == "defaultNamingContext"
Key(scope)    == IF scope = "ldap" THEN "mfa_key_ldap" ELSE "mfa_key"
Secret(scope) == IF scope = "ldap" THEN "mfa_secret_ldap" ELSE "mfa_secret"
Writers == Requests \cup {Seed}
Rows == [name : {Context} \cup {Key(s) : s \in {"api", "ldap"}}
                          \cup {Secret(s) : s \in {"api", "ldap"}},
         by : Writers]
AllOps == {"setup", "login", "refresh", "use", "mfa", "connect", "callback", "bind"}

ASSUME AccessAssumption ==
  /\ Seed \notin Requests /\ NoWriter \notin Writers
  /\ NoUser \notin Users
  /\ SeedRows \subseteq SUBSET [name : {r.name : r \in Rows}, by : {Seed}]
  /\ \A rows \in SeedRows : rows # {} => \E r \in rows : r.name = Context
  /\ Scopes \subseteq {"api", "ldap"} /\ Ops \subseteq AllOps
  /\ {AccessLife, RefreshLife, FactorLife, Leeway, LastTime} \subseteq Nat
  /\ AccessLife <= RefreshLife
  /\ MaxActive \in Nat \ {0}

Pairs == [key : Writers \cup {NoWriter}, secret : Writers \cup {NoWriter}]
NoPair == [key |-> NoWriter, secret |-> NoWriter]

\* since: when the password was given. Tokens of the API are signed with
\* SECRET_KEY, those of the provider with the secret of their pair.
Tokens ==
  [kind : {"access", "refresh", "multifactor"}, user : Users, pair : Pairs,
   since : Nat, exp : Nat]

Stages == {"idle", "check", "environment", "insert", "validate", "key", "secret",
           "decode", "delete", "replace", "user", "factor", "provider", "done"}
Results == {"none", "ok", "pending", "refused", "error"}

VARIABLES
  rows,        \* the committed rows of Settings
  users,       \* the committed users
  now,         \* the time, in units of token lifetimes
  tokens,      \* the tokens that clients were given
  challenges,  \* what the provider was asked to confirm
  op,          \* op[t], the operation request t asks for
  scope,       \* scope[t], the scope of its second factor
  actor,       \* actor[t], the user it names
  token,       \* token[t], the token it carries
  stage,       \* stage[t], its next statement
  creds,       \* creds[t], the key and the secret as request t read them
  made,        \* made[t], the setup has inserted its rows
  doomed,      \* doomed[t], the rows its DELETE found
  result,      \* result[t], its answer
  factorOn,    \* factorOn[t], a second factor was in force when it began
  granted,     \* granted[t], the provider granted it
  late,        \* late[t], its user did not exist any more when it began
  torn,        \* torn[t], a pair was replaced between its two reads
  overlap      \* overlap[s], setups of scope s were in progress at once

dbVars   == <<rows, users, tokens, challenges>>
argVars  == <<op, scope, actor, token, factorOn, late>>
workVars == <<creds, made, doomed, granted, torn, overlap>>
vars == <<rows, users, now, tokens, challenges, op, scope, actor, token, stage,
          creds, made, doomed, result, factorOn, granted, late, torn, overlap>>

Active == {t \in Requests : stage[t] \notin {"idle", "done"}}
Named(name) == {r \in rows : r.name = name}
\* The API's own key and secret are read for its tokens, whatever a setup is
\* about to write.
CredsScope(t) == IF op[t] = "bind" THEN "ldap" ELSE "api"
InForce(s) == Named(Key(s)) \cup Named(Secret(s)) # {}

TypeOK ==
  /\ rows \subseteq Rows /\ users \subseteq Users /\ now \in 0..LastTime
  /\ tokens \subseteq Tokens
  /\ challenges \subseteq [user : Users, pair : Pairs]
  /\ op \in [Requests -> AllOps \cup {"none"}]
  /\ scope \in [Requests -> {"api", "ldap"}]
  /\ actor \in [Requests -> Users \cup {NoUser}]
  /\ token \in [Requests -> Tokens \cup {NoToken}]
  /\ stage \in [Requests -> Stages]
  /\ creds \in [Requests -> Pairs]
  /\ made \in [Requests -> BOOLEAN]
  /\ doomed \in [Requests -> SUBSET Rows]
  /\ result \in [Requests -> Results]
  /\ {factorOn, granted, late, torn} \subseteq [Requests -> BOOLEAN]
  /\ overlap \in [{"api", "ldap"} -> BOOLEAN]

Issued(u, since, kind) ==
  [kind |-> kind, user |-> u, pair |-> NoPair, since |-> since,
   exp |-> now + (IF kind = "access" THEN AccessLife ELSE RefreshLife)]

\* The provider's token.
Factored(u, pair) ==
  [kind |-> "multifactor", user |-> u, pair |-> pair, since |-> now,
   exp |-> now + FactorLife]

\* An empty database, or one that was set up, with and without a second
\* factor, and whose administrator has logged in.
Init ==
  /\ rows \in SeedRows
  /\ users = IF Named(Context) = {} THEN {} ELSE Users
  /\ now = 0
  /\ tokens = CASE Named(Context) = {} -> {}
                [] InForce("api") -> {Factored(u, [key |-> Seed, secret |-> Seed]) : u \in Users}
                [] OTHER -> {Issued(u, 0, kind) : u \in Users, kind \in {"access", "refresh"}}
  /\ challenges = {}
  /\ op = [t \in Requests |-> "none"]
  /\ scope = [t \in Requests |-> "api"]
  /\ actor = [t \in Requests |-> NoUser]
  /\ token = [t \in Requests |-> NoToken]
  /\ stage = [t \in Requests |-> "idle"]
  /\ creds = [t \in Requests |-> NoPair]
  /\ made = [t \in Requests |-> FALSE]
  /\ doomed = [t \in Requests |-> {}]
  /\ result = [t \in Requests |-> "none"]
  /\ factorOn = [t \in Requests |-> FALSE]
  /\ granted = [t \in Requests |-> FALSE]
  /\ late = [t \in Requests |-> FALSE]
  /\ torn = [t \in Requests |-> FALSE]
  /\ overlap = [s \in {"api", "ldap"} |-> FALSE]

-----------------------------------------------------------------------------
(* Time, users and the start of a request *)

Tick ==
  /\ now < LastTime
  /\ now' = now + 1
  /\ UNCHANGED <<dbVars, argVars, workVars, stage, result>>

\* A user is deleted over LDAP; the tokens remain with who has them.
DeleteUser(u) ==
  /\ u \in users
  /\ users' = users \ {u}
  /\ UNCHANGED <<rows, now, tokens, challenges, argVars, workVars, stage, result>>

\* Where the handler of o starts, its dependencies first: what needs a token
\* or the provider reads the key and the secret of the second factor.
FirstStage(o) ==
  CASE o = "setup" -> "check"
    [] o \in {"login", "bind"} -> "user"
    [] OTHER -> "key"

\* An LDAP bind comes in under a network policy that wants a second factor
\* of this user or not, whatever the scope "ldap" holds.
Begin(t, o, s, u, k, wanted) ==
  /\ stage[t] = "idle"
  /\ Cardinality(Active) < MaxActive
  /\ op' = [op EXCEPT ![t] = o]
  /\ scope' = [scope EXCEPT ![t] = s]
  /\ actor' = [actor EXCEPT ![t] = u]
  /\ token' = [token EXCEPT ![t] = k]
  /\ factorOn' = [factorOn EXCEPT ![t] = IF o = "bind" THEN wanted ELSE InForce(s)]
  /\ late' = [late EXCEPT ![t] = Named(Context) # {} /\ u \notin users]
  /\ stage' = [stage EXCEPT ![t] = FirstStage(o)]
  /\ UNCHANGED <<dbVars, now, workVars, result>>

BeginSome(t) ==
  \/ \E o \in Ops \cap {"setup", "login", "connect"}, u \in Users :
       Begin(t, o, "api", u, NoToken, FALSE)
  \/ \E o \in Ops \cap {"use", "refresh"}, k \in tokens :
       Begin(t, o, "api", k.user, k, FALSE)
  \/ \E s \in Scopes, k \in tokens :
       "mfa" \in Ops /\ Begin(t, "mfa", s, k.user, k, FALSE)
  \/ \E c \in challenges :
       Begin(t, "callback", "api", c.user, Factored(c.user, c.pair), FALSE)
  \/ \E u \in Users, wanted \in BOOLEAN :
       "bind" \in Ops /\ Begin(t, "bind", "ldap", u, NoToken, wanted)

Goes(t, s) == stage' = [stage EXCEPT ![t] = s] /\ result' = result

Answer(t, r) ==
  /\ stage' = [stage EXCEPT ![t] = "done"]
  /\ result' = [result EXCEPT ![t] = r]

\* A setup that is cut off leaves nothing uncommitted behind; nobody waits
\* for the other requests.
Drop(t) ==
  /\ t \in Active /\ op[t] = "setup"
  /\ Answer(t, "none")
  /\ UNCHANGED <<dbVars, now, argVars, workVars>>

-----------------------------------------------------------------------------
(* The first setup: first_setup() and setup_enviroment() *)

\* Is there a default naming context? If not, ask again in the savepoint:
\* setup_enviroment() then creates nothing and reports nothing.
SetupCheck(t) ==
  /\ stage[t] = "check"
  /\ IF Named(Context) = {} THEN Goes(t, "environment") ELSE Answer(t, "refused")
  /\ UNCHANGED <<dbVars, now, argVars, workVars>>

SetupEnvironment(t) ==
  /\ stage[t] = "environment"
  /\ Goes(t, IF Named(Context) = {} THEN "insert" ELSE "validate")
  /\ UNCHANGED <<dbVars, now, argVars, workVars>>

\* The rows of the tree and of "Default open policy", whose unique name waits
\* for a setup that has inserted it and then conflicts with what it committed.
SetupInsert(t) ==
  /\ stage[t] = "insert"
  /\ \A s \in Active : ~made[s]
  /\ IF Named(Context) = {}
       THEN made' = [made EXCEPT ![t] = TRUE] /\ Goes(t, "validate")
       ELSE Answer(t, "refused") /\ made' = made
  /\ UNCHANGED <<dbVars, now, argVars, creds, doomed, granted, torn, overlap>>

\* Mutant: create_policy_settings() keeps a policy that exists.
PolicyKept(t) ==
  /\ stage[t] = "validate"
  /\ \/ /\ rows' = rows \cup (IF made[t] THEN {[name |-> Context, by |-> t]} ELSE {})
        /\ users' = IF made[t] THEN users \cup {actor[t]} ELSE users
        /\ Answer(t, "ok")
     \/ /\ Answer(t, "refused")
        /\ UNCHANGED <<rows, users>>
  /\ UNCHANGED <<now, tokens, challenges, argVars, workVars>>

\* The password may be refused. create_policy_settings() raises when there is
\* a policy, so the setup that found the tree made ends here.
SetupCommit(t) ==
  /\ stage[t] = "validate"
  /\ \/ /\ made[t]
        /\ rows' = rows \cup {[name |-> Context, by |-> t]}
        /\ users' = users \cup {actor[t]}
        /\ Answer(t, "ok")
     \/ /\ Answer(t, "refused")
        /\ UNCHANGED <<rows, users>>
     \/ /\ ~made[t]
        /\ Answer(t, "error")
        /\ UNCHANGED <<rows, users>>
  /\ UNCHANGED <<now, tokens, challenges, argVars, workVars>>

-----------------------------------------------------------------------------
(* What the handlers have in common *)

\* Mutant: the row is taken for its value.
SomeRow(name) == IF Named(name) = {} THEN {NoWriter} ELSE Named(name)

\* _get_creds(): two statements, each of which takes any row of its name.
SomeWriter(name) == IF Named(name) = {} THEN {NoWriter} ELSE {r.by : r \in Named(name)}

ReadKey(t) ==
  /\ stage[t] = "key"
  /\ \E w \in SomeWriter(Key(CredsScope(t))) :
       creds' = [creds EXCEPT ![t].key = w]
  /\ Goes(t, "secret")
  /\ UNCHANGED <<dbVars, now, argVars, made, doomed, granted, torn, overlap>>

\* What a handler does with the pair: nothing without both, for a bind a
\* refusal (check_mfa), for the API an answer of its own.
AfterCreds(t, pair) ==
  LET none == NoWriter \in {pair.key, pair.secret}
  IN  CASE op[t] \in {"refresh", "use", "mfa"} -> Goes(t, "decode")
        [] op[t] = "callback" -> IF none THEN Answer(t, "refused") ELSE Goes(t, "decode")
        [] op[t] = "connect"  -> IF none THEN Answer(t, "refused") ELSE Goes(t, "user")
        [] OTHER              -> IF none THEN Answer(t, "refused") ELSE Goes(t, "provider")

ReadSecret(t) ==
  /\ stage[t] = "secret"
  /\ \E w \in SomeWriter(Secret(CredsScope(t))) :
       LET pair == [creds[t] EXCEPT !.secret = w]
       IN  /\ AfterCreds(t, pair)
           /\ creds' = [creds EXCEPT ![t] =
                          IF NoWriter \in {pair.key, pair.secret} THEN NoPair ELSE pair]
  /\ UNCHANGED <<dbVars, now, argVars, made, doomed, granted, torn, overlap>>

\* get_user() and the password; login then wants a member of "domain admins",
\* a bind the groups of the policy and no pwdLastSet = '0'.
FindUser(t) ==
  /\ stage[t] = "user"
  /\ \/ Answer(t, "refused")
     \/ /\ actor[t] \in users
        /\ CASE op[t] = "login"   -> Goes(t, "factor")
             [] op[t] = "connect" -> Goes(t, "provider")
             [] OTHER -> IF factorOn[t] THEN Goes(t, "key") ELSE Answer(t, "ok")
  /\ UNCHANGED <<dbVars, now, argVars, workVars>>

-----------------------------------------------------------------------------
(* Tokens: oauth2.py and router.py *)

\* A login gives no tokens when the API has a key or a secret.
Login(t) ==
  /\ stage[t] = "factor"
  /\ IF InForce("api")
       THEN Answer(t, "refused") /\ tokens' = tokens
       ELSE /\ Answer(t, "ok")
            /\ tokens' = tokens \cup {Issued(actor[t], now, kind) : kind \in {"access", "refresh"}}
  /\ UNCHANGED <<rows, users, now, challenges, argVars, workVars>>

\* jwt.decode() with SECRET_KEY and then with the secret and the key, and
\* the expiry that it checks.
Readable(t) ==
  /\ now <= token[t].exp
  /\ token[t].kind = "multifactor" => token[t].pair = creds[t]

\* The kinds of tokens an operation takes; the provider's token ends early
\* where it is used and not refreshed.
Fits(t) ==
  CASE op[t] = "callback" -> TRUE
    [] op[t] = "refresh"  -> token[t].kind \in {"refresh", "multifactor"}
    [] OTHER -> /\ token[t].kind \in {"access", "multifactor"}
                /\ token[t].kind = "multifactor" => now <= token[t].exp - Leeway

\* Mutant: the refresh token is renewed with the access token.
RenewBoth(t) ==
  tokens' = tokens \cup {Issued(actor[t], token[t].since, kind) : kind \in {"access", "refresh"}}

\* renew_tokens(): an access token, and the same refresh token again.
Renew(t) == tokens' = tokens \cup {Issued(actor[t], token[t].since, "access")}

\* Mutant: the user of a token is not looked up.
TokenTrusted(t) == Readable(t) /\ Fits(t)

Accepted(t) == Readable(t) /\ Fits(t) /\ actor[t] \in users

\* get_current_user(), get_current_user_refresh() and callback_mfa().
Decode(t) ==
  /\ stage[t] = "decode"
  /\ \/ ~Accepted(t) /\ Answer(t, "refused") /\ tokens' = tokens
     \/ Accepted(t) /\ op[t] = "use" /\ Answer(t, "ok") /\ tokens' = tokens
     \/ Accepted(t) /\ op[t] = "mfa" /\ Goes(t, "delete") /\ tokens' = tokens
     \/ /\ Accepted(t) /\ op[t] = "callback"
        /\ tokens' = tokens \cup {token[t]}
        /\ Answer(t, "ok")
     \/ /\ Accepted(t) /\ op[t] = "refresh"
        /\ IF token[t].kind = "refresh"
             THEN Renew(t) /\ Answer(t, "ok")
             ELSE Goes(t, "provider") /\ tokens' = tokens
  /\ UNCHANGED <<rows, users, now, challenges, argVars, workVars>>

-----------------------------------------------------------------------------
(* The second factor: router_mfa.py and multifactor.py *)

OfScope(s) == Named(Key(s)) \cup Named(Secret(s))

\* Mutant: the old rows stay.
DeleteNothing(t) ==
  /\ stage[t] = "delete"
  /\ Goes(t, "replace")
  /\ UNCHANGED <<dbVars, now, argVars, workVars>>

\* Mutant: the deletion is committed by itself.
DeleteAtOnce(t) ==
  /\ stage[t] = "delete"
  /\ rows' = rows \ OfScope(scope[t])
  /\ Goes(t, "replace")
  /\ UNCHANGED <<users, tokens, challenges, now, argVars, workVars>>

\* setup_mfa(): the DELETE finds the committed rows. Another setup may have
\* found the same ones; it does not find what this one will add.
MfaDelete(t) ==
  /\ stage[t] = "delete"
  /\ doomed' = [doomed EXCEPT ![t] = OfScope(scope[t])]
  /\ overlap' = [overlap EXCEPT ![scope[t]] = @ \/
       \E r \in Active : op[r] = "mfa" /\ scope[r] = scope[t] /\ stage[r] = "replace"]
  /\ Goes(t, "replace")
  /\ UNCHANGED <<dbVars, now, argVars, made, creds, granted, torn>>

MfaReplace(t) ==
  /\ stage[t] = "replace"
  /\ rows' = (rows \ doomed[t]) \cup
       {[name |-> name, by |-> t] : name \in {Key(scope[t]), Secret(scope[t])}}
  /\ doomed' = [doomed EXCEPT ![t] = {}]
  /\ torn' = [r \in Requests |-> torn[r] \/ (stage[r] = "secret" /\ CredsScope(r) = scope[t])]
  /\ Answer(t, "ok")
  /\ UNCHANGED <<users, tokens, challenges, now, argVars, made, creds, granted, overlap>>

\* The provider knows whose secret goes with a key. It confirms a bind, takes
\* on a challenge or gives a new token for one of its own.
ProviderGrants(t) ==
  /\ stage[t] = "provider"
  /\ creds[t].key = creds[t].secret
  /\ granted' = [granted EXCEPT ![t] = TRUE]
  /\ Answer(t, IF op[t] = "connect" THEN "pending" ELSE "ok")
  /\ challenges' = IF op[t] = "connect"
                     THEN challenges \cup {[user |-> actor[t], pair |-> creds[t]]}
                     ELSE challenges
  /\ tokens' = IF op[t] = "refresh"
                 THEN tokens \cup {[token[t] EXCEPT !.exp = now + FactorLife]}
                 ELSE tokens
  /\ UNCHANGED <<rows, users, now, argVars, made, creds, doomed, torn, overlap>>

\* It denies, answers something else, or does not answer: check_mfa() and
\* two_factor_protocol() refuse on a MultifactorError, which renew_tokens()
\* does not catch; other failures of the call are not caught either.
ProviderFails(t) ==
  /\ stage[t] = "provider"
  /\ \/ op[t] # "refresh" /\ Answer(t, "refused")
     \/ Answer(t, "error")
  /\ UNCHANGED <<dbVars, now, argVars, workVars>>

-----------------------------------------------------------------------------
Serve(t) ==
  \/ SetupCheck(t) \/ SetupEnvironment(t) \/ SetupInsert(t) \/ SetupCommit(t)
  \/ ReadKey(t) \/ ReadSecret(t) \/ FindUser(t)
  \/ Login(t) \/ Decode(t)
  \/ MfaDelete(t) \/ MfaReplace(t)
  \/ ProviderGrants(t) \/ ProviderFails(t)

Next ==
  \/ Tick
  \/ \E u \in Users : DeleteUser(u)
  \/ \E t \in Requests : BeginSome(t) \/ Serve(t) \/ Drop(t)

Spec == Init /\ [][Next]_vars

-----------------------------------------------------------------------------
(* Properties *)

\* The directory is set up once: of setups that overlap or follow one another
\* at most one is confirmed, and it is the one whose rows and whose
\* administrator there are (first_setup, setup_enviroment).
SetupOnce ==
  LET confirmed == {t \in Requests : op[t] = "setup" /\ result[t] = "ok"}
  IN  /\ \A t \in confirmed : Named(Context) = {[name |-> Context, by |-> t]}
      /\ \A r \in Named(Context) : r.by \in confirmed \cup {Seed}

\* A password is good for RefreshLife and AccessLife after it: refreshing does
\* not make the refresh token last longer (renew_tokens).
BoundedSession ==
  \A k \in tokens :
    k.kind # "multifactor" => k.exp <= k.since + RefreshLife + AccessLife

\* Once a key or a secret is in force no login gets tokens by a password
\* alone, whoever rewrites it meanwhile; and a bind whose policy wants a second
\* factor succeeds only if the provider granted it.
SecondFactor ==
  \A t \in Requests :
    op[t] \in {"login", "bind"} /\ factorOn[t] /\ result[t] = "ok" => granted[t]

\* A key is used with the secret that was set with it ("rewrites if exists",
\* setup_mfa), unless two setups overlapped or one was committed between the
\* two reads.
PairsMatch ==
  \A t \in Requests :
    creds[t].secret # NoWriter /\ ~torn[t] /\ ~overlap[CredsScope(t)]
      => creds[t].key = creds[t].secret

\* The tokens of a deleted user are of no use to requests that begin after
\* the deletion, and so is the user's password.
DeletedRefused ==
  \A t \in Requests :
    op[t] # "setup" /\ late[t] => result[t] \notin {"ok", "pending"}
=============================================================================
