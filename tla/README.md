# A verification of MultiDirectory in TLA+

MultiDirectory is an LDAP server with an HTTP API, written in Python (asyncio,
FastAPI, SQLAlchemy) over PostgreSQL. This directory holds TLA+ models of the
parts whose correctness depends on what happens in which order, TLC instances
that check them, and proofs that TLAPS checks. Paths below are relative to the
repository.

## The system

| component | code | state it keeps | operations |
|---|---|---|---|
| LDAP connection | `app/__main__.py`, `ldap_protocol/dialogue.py`, `messages.py`, `ldap_requests/bind.py` | request queue and its unfinished count, session user, session lock, one reader and three worker tasks | connect (policy look-up), read, take, handle, answer, abandon, unbind, disconnect, `__aexit__` |
| Network policies | `app/api/network/` | table `Policies`: enabled, priority (unique, deferred), name and netmasks (unique) | add, list, delete, switch, update, swap; `get_policy` on every LDAP connection |
| Directory tree | `ldap_requests/add.py`, `delete.py`, `modify_dn.py`, `models/ldap3.py` | tables `Directory` (parent, name, depth), `Paths`, `Attributes`, `Users`, `Groups` | add, delete, modify DN |
| Modify and attributes | `ldap_requests/modify.py` | attributes, group memberships | modify, one commit per change |
| Password policy | `password_policy.py`, `ldap_requests/extended.py`, `api/auth/router_pwd_policy.py` | the policy row, each user's hash, history and `pwdLastSet` | password change by modify, by the extended request, by the API's reset; policy create, update, reset |
| Search and filters | `ldap_requests/search.py`, `filter_interpreter.py` | none (a page is an offset) | search, paging, filter to SQL |
| HTTP authentication | `api/auth/router.py`, `oauth2.py` | JWTs (no server state), `lastLogon` | login, renew, current user |
| Multifactor | `ldap_protocol/multifactor.py`, `api/auth/router_mfa.py` | catalogue settings with keys and secrets | setup, callback, websocket connect, LDAP second factor |
| First setup | `api/auth/router.py`, `extra/setup_dev.py` | base DN, first entries, first policy | setup, once |
| BER codec | `asn1parser.py`, `ldap_responses.py` | none | decode, encode |
| Configuration, web application, migrations | `config.py`, `web_app.py`, `alembic/` | environment, schema | start |

How they interact. An LDAP connection looks up its network policy once, then
its workers run the handlers of the directory; each handler gets a database
session of its own, so handlers of one connection, of several connections and
of several server processes meet only in PostgreSQL (READ COMMITTED) and, within
one connection, in the `Session` object. The HTTP API runs the same handlers
and the policy and authentication routes over the same database.

What is hard about it:

- *three kinds of asyncio tasks share a `Session`*, and `asyncio.gather` cancels
  no sibling when one of them raises: what a dying task leaves behind decides
  whether the connection is ever closed;
- *one lock guards the session user*, held by a search over its socket writes,
  and not taken by the handlers that read the property `user`;
- *read-check-write over READ COMMITTED*: `check_policy_count` counts rows it
  does not lock, add looks a DN up before it inserts it;
- *handlers of several commits*: modify DN has four, modify one per change;
- *checks and writes that are sessions apart*: a password change computes from a
  history it loaded, and a second factor is a key and a secret that are read by
  two statements;
- *SQL is not LDAP*: a filter is cast into three-valued logic over outer joins;
- *two records of one fact*: an entry's place is its parent and its path, and
  its depth besides, with a cascade of SQL updates to keep them together.

What makes each component correct:

- connection: no accepted request is lost or served twice; `task_done` matches
  `put`; the writer is closed only when nothing is in flight; a search is served
  as one user from its start to its end; a client that waits for answers is
  served as whom it was told it is (but see below for anonymous binds); the
  connection of a client that left is closed;
- policies: one active policy is left; priorities stay positive and unique and
  keep their order; swaps and switches that overlap are neither lost nor torn;
  requests are answered;
- tree: parent, path and depth agree; DNs are unique; operations are atomic; only
  a delete deletes;
- passwords: a password of the history is not accepted again whichever way it is
  set, and what is set is recorded;
- access: one setup however many race; no session outlives its refresh token; no
  login by a password alone once a second factor is set; a key is used with its
  secret; tokens end with their users;
- search: a filter finds what it means, and pages miss nothing;
- framing: the messages that are parsed are those the client wrote, whole and in
  order, and a client that waits for its answers misses none;
- modify: committed changes are what LDAP says they make of the entry, where the code
  does not pass over one in silence; memberships refer to entries that are there, and
  requests do not undo each other's.

## Modules

### `LdapConnection`

One client connection. A step is what a task does between two awaits. The
connection task (`main`), the reader (`reader`) and each worker (`phase`,
`cur`) have a program counter each; `queue` and `unfinished` are the asyncio
queue; `lock`, `user` and `seen` are `Session._lock`, `Session._user` and the
user each handler works as; `answers`, `handled` and `clientUser` record what
the client is told, and `kept` the user the session went on with when the client
was told that it had bound as nobody. A message is a member of `Requests` with a
`Kind`, a bind has an `Account`, which of an anonymous one is `NoUser`. The
handlers that read `ldap_session.user` without the lock are one kind, "update".

| action | code |
|---|---|
| `PolicyFound`, `PolicyRefused`, `GatherRaises`, `JoinReturns` | `PoolClientHandler.__call__`, `Session.__aexit__` |
| `ReadRequest`, `ReadMalformed`, `ReadEof` | `_handle_request`, `recieve`, `from_err` |
| `Take`, `TaskDone`, `Fail`, `CloseHandler` | `_handle_single_response` |
| `BindAnonymous`, `BindRefuse`, `BindVerified`, `BindSetUser`, `BindSuccess` | `BindRequest.handle`, `Session.set_user` |
| `Unbind`, `Abandon` | `UnbindRequest.handle`, `AbandonRequest.handle` |
| `SearchLock`, `SearchDone`, `SearchRelease` | `SearchRequest.handle`, `Session.lock` |
| `UpdateReadUser`, `WriteReply` | the other handlers, `Session.user` |

`Fail` is any exception of a handler or of the write of its response; when the
write raises, the suspended handler generator keeps the session lock until the
event loop closes it (`CloseHandler`).

### `NetworkPolicies`

The table and the requests of the policy API. A step is one SQL statement; a
request is a transaction: `locks` are row locks, `loaded` the ORM's view of the
rows it locked, `todo` and `moved` the rows of the `UPDATE` that closes a gap in
the priorities (it visits a row at a time, waits for its lock and evaluates its
condition again on the version committed meanwhile, as PostgreSQL does at READ
COMMITTED). Unique constraints are checked at the commit. `DeadlockVictim` is
PostgreSQL's deadlock detection and `Crash` a lost connection, both a rollback.
`flips` counts the confirmed switches. The constant `MaxActive` says how many
requests overlap. `update` writes name, netmasks, groups and MFA columns: of
these only the unique ones are kept (`key`).

### `DirectoryService`, `DirectoryTree`

`DirectoryService` is the promise to clients: contents (attributes, user, group)
are placed at DNs; add, delete and modify DN each take effect in one step, at
most once, or not at all. `DirectoryTree` is the code: rows with parent, name,
path and depth; a step is one query or one commit, so an add has three (look-up,
parent, insert), a delete three (look-up, load of the cascade, commit), and modify
DN up to seven (look-ups; the new row; the children's parents; owners and paths;
refresh; deletion of the old row). `At` is the look-up by lower-cased path,
`Valid` the table's constraints, `Cascade` what the ORM's delete reaches,
`Subordinate` the SQL condition that selects the paths to rewrite. The refinement
maps every entry's contents to the path of the row that owns them
(`Placement`); modify DN takes effect in its third commit.

Of an add the code also links the new path to the entries around it
(`DirectoryPaths`); those links are not state here, and their failing is a choice
in `AddInsert`. Permissions are not modelled: every request is allowed.

### `Passwords`

The row of a user (`hash`, `history`), `pwdLastSet` (`lastSet`) and the row of the
policy. A request is a modify, an extended request or the reset of the API. It
loads the user once (`LoadUser`, into `mine`, its ORM session), then for each new
password reads the policy (`LoadPolicy`), validates (`Validate`) and writes hash and
history together (`Commit`). Two ways differ in what they record: `Kept` is the new
hash for LDAP and the old one for the reset. The administrator updates the policy
(`UpdatePolicy`), forces a change (`ForceChange`), and days pass. A hash stands for
its password; `Weak` is whatever length, complexity and the list of common passwords
find fault with. `log` records confirmed changes and `overlap` says where requests
overlapped.

### `Access`

The table `Settings` (`rows`), the users, the tokens that were given out and the
provider's challenges. A step is one statement of a request or one call of the
provider.

| action | code |
|---|---|
| `SetupCheck`, `SetupEnvironment`, `SetupInsert`, `SetupCommit` | `first_setup`, `setup_enviroment` |
| `ReadKey`, `ReadSecret` | `_get_creds`, called by `get_auth`, `get_auth_ldap` |
| `FindUser`, `Login` | `login_for_access_token`, `two_factor_protocol`, `BindRequest.handle` |
| `Decode` with `Accepted`, `Fits`, `Renew` | `get_current_user`, `get_current_user_refresh`, `callback_mfa`, `renew_tokens` |
| `MfaDelete`, `MfaReplace` | `setup_mfa` |
| `ProviderGrants`, `ProviderFails` | `MultifactorAPI`, `check_mfa` |

A row is known by the request that wrote it, so a key fits the secret of the same
writer. That a password is right, and that a user is in the groups asked for, is a
choice (`FindUser`). `Tick` is the clock, `DeleteUser` an LDAP delete, `Drop` a lost
connection.

### `Paging`, `Search`

`Paging` is how a client searches while the directory changes. A search is one
statement (`Stream`), a walk through the pages of the API a count and a statement for
each page (`Count`, `Stream`, `NextPage`), between which other sessions add and delete
entries (`AddEntry`, `RemoveEntry`). Ids come from a sequence and may be committed out
of order. What a query finds among the entries is the constant `Hits`.

`Search` extends it and says what is found: `Item` and `Cast` are the condition that a
filter becomes, as a set of SQL truth values, one for each combination of rows the
outer joins give an entry; `InScope` is the condition on the path; `SearchHits` is what
`Hits` has to be. `Holds` and `InSubtree` are the meaning that RFC 4511 gives filters
and scopes. A filter is a tree (`Filters`, `Depth`), and `Read` goes through it as
`cast_filter2sql` does, with what an item and `&`, `|`, `!` are worth: SQL truth values,
the meaning of RFC 4511, or whether the filter can be cast at all. The entries that are
not rows (root DSE, schema, domain) are left out.

### `MessageStream`, `Framing`

`MessageStream` is the promise of the reading side: the session gets the client's
messages whole, in order, none twice. `Framing` is the code: `written` counts the
messages of the client, `arrived` and `taken` the bytes that have reached the
`StreamReader` and that `read()` has returned, `done` the messages whose bytes earlier
calls of `recieve` returned, so the buffer is what was taken after `Ends[done]`.
A step is one `read()`.

| action | code |
|---|---|
| `Write`, `Arrive`, `Close` | the client and TCP |
| `ReadMore` | one more turn of the loop in `recieve` |
| `ReadMessage` | a whole number of messages is in the buffer: `from_bytes` uses the first |
| `ReadEnds` | the empty read at the end, or a piece of a message: the reader ends |

`Computed` is `_compute_ldap_message_size`. Bytes are counted and their values
abstracted; that they do not parse is `ReadMalformed` of `LdapConnection`.

### `Modify`

The tables of memberships (`member`, both of users and of groups), attributes
(`rows`) and a unique column of users (`column`). One attribute and one column stand
for all. A modify loads the entry and its groups once (`Begin`, into `loaded`, the
collection of its ORM session), then each change is a step of statements (`Apply`:
`get_groups`, the `DELETE` of attributes) and a step that commits (`CommitChange`
with `CommitLinks`, `CommitRows` or `CommitColumn`; `RefuseChange`, when a constraint
fails; `RaiseUnlinkable`, when a group to remove is not in the collection). Adds and
deletes (`CommitAdd`, `CommitDelete`) look first and commit later. `Find` and
`Findable` are the queries: the one for the entry joins its attributes, the one for
groups compares stored paths with lower-cased ones.

The collection is a list in the code: `loaded` is what is in it and `copies` how often
it has a group beyond the first time, since `extend()` does not look (`modify.py:221`)
and `remove()` takes one copy (`modify.py:180`). `want` is the entry if every committed
change had been made by the rules of RFC 4511, whatever the code did; `mixed` says where
requests overlapped. `silent` has the fields of which the code passed over a change
and counted it as made (`PassedOver`, `Missed`): groups the look-up does not find and
memberships of an entry that is neither a user nor a group; the removal of a group that
the list has twice; the deletion of a column's values, and several values for a column.
Of these fields `TakesEffect` says nothing until a replace, or a delete of all values, is
carried out on them. `ro_fields` are passed over too; no property is about their values.

### `LdapConnectionProofs`, `NetworkPoliciesProofs`, `DirectoryTreeProofs`, `PasswordsProofs`, `AccessProofs`, `SearchProofs`, `FramingProofs`, `ModifyProofs`

The theorems; see below. `MC*` modules give the constants their values.

## Runs

| run | configuration | shows |
|---|---|---|
| `connection` | 2 workers; two binds of different users and an anonymous one, an unbind, a search, an update, an abandon and a malformed message; a client that pipelines some of them or one that waits for its answers; fair tasks | `TypeOK`, `GracefulDrain`, `Accounting`, `SearchIdentity`, `SequentialIdentity` (of the client that waits), `ExactlyOnce`, `AcceptedServed`, `QuietClose` |
| `connection_close` | as `connection`, fewer messages | `ConnectionCloses` is violated |
| `policies` | 2 requests that interleave or follow each other, 4 policies, one of them disabled, and one more id; fair requests | `TypeOK`, `PositivePriorities`, `SerialKeepsActive`, `NoOwnConflict`, `SwitchesCount`, `SwapExchanges`, `DeleteKeepsOrder`, `AllAnswered` |
| `policies_skew` | 2 requests that interleave | `AtLeastOneActive` is violated |
| `tree` | a chain of three entries, three operations, lower case; adds and deletes interleave, a modify DN runs alone and keeps the level of its entry | `TypeOK`, `PathsFollowTree`, `UniqueDns`, `ImplementsService` |
| `tree_crash` | three operations; adds and deletes interleave, a modify DN runs alone; each may be cut off after any commit; upper and lower case, moves to any level | `OnlyDeleteRemoves` |
| `tree_case` | two operations, the top entry's name in upper case | `PathsFollowTree` is violated |
| `passwords` | 3 changes of one user, 2 at a time, 3 passwords of which one is weak; a policy row or none; 2 days | `TypeOK`, `NoEarlyReturn`, `CurrentRecorded` |
| `access` | 3 requests, 2 at a time, of all 8 operations; an empty database, a directory, a directory with a second factor | `TypeOK`, `SetupOnce`, `BoundedSession`, `SecondFactor`, `PairsMatch`, `DeletedRefused` |
| `search` | 5 entries, 3 of them there at the start, one deletion; filters nested to two operators, 5 bases, 4 scopes, sizes 0 to 2 | `TypeOK`, `MeansWhatItSays`, `WalkCovers`, `NoEmptyPage` |
| `framing` | 5 messages of 4 to 12 bytes, reads of up to 8, lengths in the short and the long form; a client that waits or pipelines, and may close; fair TCP and reader | `TypeOK`, `ImplementsStream`, `AllParsed` |
| `modify` | 2 requests; modifies of one to three changes of a user, a group and a plain entry, adds of a user and a group, deletes; each may fail at any statement | `TypeOK`, `TakesEffect`, `AddsSurvive` |

All three kinds of tasks end or wait for ever in the normal course of things, so
no run checks deadlock: a connection may wait for a client that sends nothing,
and a finite set of requests is served.

Bounds. Two workers are the fewest that overlap, and four requests of four kinds
let every pair of handlers meet in either order while a third waits; the proofs
cover every number of both. The client that waits sends all messages but the unbind and
the malformed one, which are not answered: it would wait for ever; the client that
pipelines sends five (`MCOffered`). Two policy requests are what any pair of statements
needs to interleave; every pair of operations with every pair of arguments is
tried, over four rows, so a delete has up to three rows to move while the other
request locks any of them. A modify DN of a chain of three has subordinates at two
levels. Three operations are a change, one that builds on it and one that sees
both. `IdLeft` and the similar guard of `DirectoryTree!Begin` bound the rows that
are created; `flips` is bounded by the requests. Three password changes are one that
sets a password, one that sets another and one that wants the first again; the
policies keep a history of one and of four, so the window is met and left.
`MaxChanges` bounds the passwords of one modify. In `access` an access token lasts 1,
a refresh token and a provider's token 2, `LastTime` is 3, so each kind expires
within a run; two requests interleave and the third sees what they left. In `search`
each attribute of an entry has none, one or two values, and a walk has up to five
pages. `MaxRemoved` bounds the deletions. In `framing` a read holds a part of a message, one,
or two and a part of a third; the proofs cover every size. In `modify` two requests are
what overlaps, two changes what follows each other within one collection (a group is
added twice and removed), and every
refusal of `RefuseChange`, `CommitAdd` and `CommitDelete` happens.

What is stated only of requests that do not overlap says nothing of the hazards of
overlapping: `SerialKeepsActive` and `NoOwnConflict` (`AtLeastOneActive` is the one about
overlapping), `NoEarlyReturn` (entries of the history that overlapping changes lose,
`password_policy.py:41`; `CurrentRecorded` sees the last entry only), `PairsMatch` (a torn reading, `multifactor.py:49`, and setups that
overlap, `router_mfa.py:59`), `TakesEffect`. The section below gives those cases.

Fairness. The connection runs assume weak fairness of each task's next step. The
event loop runs every ready task; a write ends because the peer drains its socket
or goes away (then it fails); `asyncio.Lock` and `asyncio.Queue` wake waiters in
order and requests are finite, so a waiter cannot be overtaken for ever. Neither
the client's messages, its disconnection nor failures are fair. `framing` assumes that
TCP delivers what was written while the connection lasts and that the event loop
wakes the reader (weak fairness of `Arrive` and of `Read`); the client's `Write` and
`Close` are not fair. `policies`
assumes weak fairness of each request's next statement, the abort of a deadlocked
transaction included: PostgreSQL executes what does not wait and breaks
circles of waiters. A crash of a request is not fair.

## Where the code and what is said of it disagree

- `connection_close`: a handler that raises ends its worker without
  `task_done()` (`app/__main__.py:284`), so `queue.join()` in `__aexit__`
  (`dialogue.py:212`) waits for ever and the socket is not closed. `QuietClose`
  is what does hold.
- `policies_skew`: two requests that overlap both count two active policies
  (`utils.py:20`) and leave none. As long as none
  have overlapped they cannot (`SerialKeepsActive`, `SerialKeepsActiveHolds`).
- `tree_case`: modify DN compares lower-cased paths with a path as it is stored
  (`modify_dn.py:187`), so below an entry with an upper-case letter no path
  follows.

The run `tree` keeps to inputs for which its properties can hold. What lies
outside, each found by TLC when the constant that keeps it out is changed:

- *Moves to another level* (`Moves`): the depth of subordinates is not updated,
  and a later modify DN of one of them compares slices of the wrong length
  (`modify_dn.py:189`): `PathsFollowTree` fails.
- *A modify DN that overlaps another operation* (`Alone = {}`): an entry added
  below the old row after its children were moved is deleted with it
  (`modify_dn.py:204`): `OnlyDeleteRemoves` fails.
- *Two adds of one DN in different case* (`AddDns`): the constraint behind the
  look-up compares names as written: `UniqueDns` fails.
- *A move below itself* (`Moves`): nothing refuses it (`modify_dn.py:147`), and the
  entry becomes its own ancestor.

What was met while modelling and has no run of its own, because the model follows
the code and no property would hold:

- An anonymous bind is answered with success and the session keeps its user
  (`bind.py:221-223`): a client that was bound, is told it is nobody and goes on is
  served as the earlier user. `test_anonymous_bind` (`tests/test_ldap/test_bind.py:111`)
  asserts `ldap_session.user is None`, of a session that was never bound. A bind that is
  refused leaves the earlier user as well. `SequentialIdentity` names the first exception
  (`kept`) and holds besides: whatever else happens, the user is the one of the last bind
  that the client was told has succeeded, the anonymous ones aside.
- A message that does not parse gets no answer: `from_err` (`messages.py:125`) gives
  the raw bytes to `asn1todict`, which wants a decoder, and raises; its docstring
  says "response with err code".
- `POST /password-policy` never commits; `PUT` updates no row when the table is empty.
- A minimum age refuses users without `pwdLastSet` for ever; `pwdLastSet` only moves
  from '0', and '0' is a time in 1601, over every maximum age, so a forced user's
  change is refused unless the force lands between validation and commit.
- The reset of the API records the old hash, not the one it sets, so that one may
  come back at once; changes of one user that overlap lose entries of the history; a
  modify refused at its second password has committed the first.
- Two setups of one second factor that overlap leave two keys and two secrets:
  `Settings.name` is not unique. Any of them may be read until a setup runs alone. A
  pair replaced between the two reads is used mixed.
- The setup that loses a race gets an error or 423, depending on where it lost.
- A refresh token from before the second factor was set still gives access tokens.
  `renew_tokens` does not catch the provider's `MultifactorError`.
- An LDAP connection keeps the policy it was opened under.
- Of the messages that one read returns, `from_bytes` uses the first
  (`output[0]`, `messages.py:85`): a client that pipelines loses the others without an
  answer, and a piece of a message behind a whole one ends the reader. The workers
  are there for "single client concurrent handling" (`__main__.py:65`).
- Deleting the values of a column does nothing and is answered with success
  (`modify.py:188`); several values for a column leave one of them; a membership of an
  entry that is neither user nor group is ignored. A group that is added to an entry which
  is in it and removed by a later change of the same request stays: the list has it twice
  (`modify.py:221`, `180`). `TakesEffect` leaves these out (`silent`).
- Modify misses an entry without attributes (inner join, `modify.py:107`), and groups
  with an upper-case letter in their path are never found (`utils.py:283`), without a word.
- A modify that removes a group the entry is not in raises `ValueError`, which nothing
  catches; one that meets any constraint answers "entry already exists" and keeps
  the changes before; replaces that overlap leave the values of both; a modify of an entry
  deleted meanwhile reports success when it only updates or deletes.
- A delete that overlaps a change of the entry's memberships or attributes runs into a
  foreign key: `IntegrityError`, which `delete.py` does not catch.
- Search: page n holds up to n times the size (`search.py:407`), a size of 0 with a
  page divides by zero, LDAP searches have no limit; an entry committed late, with an
  id below those already there, pushes others to a page that the walk has left.
- Filters: `!` of a missing column is NULL and matches nothing, `!` of an attribute
  with two values matches by the other; two presence tests joined by `&` look at one
  row and never match; `>=` and `<=` on attributes are equality; `~=` on `memberOf` is
  always true. A base search without a DN and the scope "subordinate" have no condition on
  the path.

## Proofs

TLAPS proves the following for every value of the constants that satisfies the
modules' assumptions: finite ids, distinct markers, non-empty sets of workers
(`ConnectionAssumption`, `PolicyAssumption`, `TreeAssumption`, `PagingAssumption`,
`AccessAssumption`); messages longer than their tag and length (`FramingAssumption`);
a policy row whose ages fit each other, as its schema demands (`PasswordAssumption`);
and seed tables that the first setup or earlier requests may leave: positive
priorities and an active policy, unique constraints and foreign keys that hold, attributes
and columns only of entries that are there, memberships only of users and groups
(`PolicyAssumption`, `ModifyAssumption`, both `SeedAssumption`s); and filters that are
finite trees over the items of the two casts, entries whose paths do not begin as the base
DN does (`SearchAssumption`).

`LdapConnectionProofs`, from one inductive invariant `SafeInv`:

- `TypeCorrect`, `AccountingCorrect`, `SearchIdentityHolds`, `GracefulDrainHolds`,
  `ExactlyOnceHolds`, `SequentialIdentityHolds`.

`GracefulDrain` is not inductive: that nothing is in flight when the writer is
closed follows from the count (`Accounting`: zero unfinished means an empty queue
and idle workers), from the reader being dead whenever no worker is
(`CloseInv`: `__aexit__` runs because something died, and a dead worker keeps the
count above zero), and from requests being in one place each (`Conserved`, `Apart`).
`LockInv` says that the holder of the lock is the one searching worker, or one
that died of it; `AnswerInv` ties the answers written to the phase of the worker
that has the request. `TurnInv` carries `SequentialIdentity`: a client that waits has
one message that is not answered yet, and the session's user differs from what the
client was told only between `set_user` and the success that reports it, or after an
unbind or a bind that died there, when nothing more is served. What the client was told
is `ServedAs`: after an anonymous bind, which changes only what the client knows, it is the
user that was kept.

`NetworkPoliciesProofs`, from `PolicyInv`:

- `PolicyTypeCorrect`, `PositivePrioritiesHold`, `SwapExchangesHolds`,
  `DeleteKeepsOrderHolds`, `SwitchesCountHolds`, `SerialKeepsActiveHolds`,
  `NoOwnConflictHolds`.

The core is `LoadedInv`: a row a request has loaded is locked by it and has not
changed since, so what it computes from the loaded values is what it would compute
at its commit. `MovedInv` says the rows a gap closing moves are present, locked and
above the deleted one, which keeps priorities positive; `FlipInv` relates the
parity of confirmed switches to a row's state; `SerialInv` says that what
`check_policy_count()` saw is still so as long as no requests have overlapped.
`OwnInv` says that, as long as none have, the gap closing of a delete visits exactly
the rows above the deleted one, so moving them all by one makes no two of them equal.

`DirectoryTreeProofs`, from `IInv`, in which the constraints of the tables always hold:

- `TreeTypeCorrect`, which also says `Valid`: the parent of every entry is there, and no
  two entries below one parent have one name; `OnlyDeleteRemovesHolds`, for a configuration in which modify DN
  runs alone.

Once an entry's row may be replaced, what is deleted is what the old row still owns.
`CarryInv` says that a modify DN, with nothing else in progress, has no children left at
the old row once it has moved them and no contents once it has moved those, so the row it
deletes takes nothing with it; with others in progress that is not so, as told above.

- `TreeImplementsService` (the refinement: every step of the handlers is a step of
  `DirectoryService` or a stutter), `PathsFollowTreeHolds` and `UniqueDnsHolds`, for
  configurations that are `Orderly`: the RDNs are written in lower case, each move keeps the
  level of its entry, a modify DN runs alone, no request is cut off, and the entries at the
  start are in their places. The run `tree` is one; the run `tree_case` shows what a
  difference in case does. A move to another level leaves the depths of the subordinates
  as they were, and a crash between two commits of a modify DN leaves two rows.

The invariant is `OrderInv`, of which `TreeInv` is the part about places. Every entry is
below its parent with a path of its own and has contents, except while a modify DN is
between two of its commits: then `HalfwayInv` says that the new row is empty, at a place
above which the parent is and below which nothing is, until the third commit gives it
everything, after which the old row is empty and has no children. `Knows` says what of
an add's parent and a delete's entry, loaded some steps ago, still holds: they are as they
were or gone, and a delete's entry that is gone went with an entry another delete removed.
`Rooted` is the step from the tree to the paths: what has a path below `d` has an entry at
`d` above it, so a delete that cascades along the parents removes the paths below its DN.
The rewriting of paths keeps order and level (`SwappedFacts`), so it maps a settled tree
to a settled tree (`RepathSettles`).

- `ServiceKeepsTree`: under `DirectoryService` alone, for moves to any level, the places
  are one tree (`OneTree`): no two contents have one DN, and none are without the entry
  above. `TreeIsWhole` carries this over to the handlers of an `Orderly` configuration, and
  says more than `PathsFollowTreeHolds`: it holds at every moment, also between two
  commits of a modify DN. Neither has a run of its own.

The argument is about four atomic steps only (`AddWhole`, `RemoveWhole`, `MoveWhole`): in a
tree whatever is above a used place is used (`WholeRooted`), so nothing is below the unused
place a subtree is moved to, and the moved places meet no others (`RebasedFacts`). It needs
that nothing is moved below itself, which `DirectoryService` therefore promises. The code
does not check it (`MoveSuperior`); a move that keeps the level of its entry cannot do it.

`PasswordsProofs`, from `IInv` (`StageInv`: a password that is about to be committed is
not in the history the request holds):

- `PasswordsTypeCorrect`; `CurrentRecordedHolds`, since a commit writes hash and history
  of one request together; `NoEarlyReturnHolds`, from `ReturnInv`: as long as the requests
  on a user do not overlap, the one in progress holds the committed history, and the
  history has an entry for every one of `log`, the same password where it was set over LDAP.

`AccessProofs`, from `IInv` (`StageInv`: what each stage of a request knows):

- `AccessTypeCorrect`; `BoundedSessionHolds` (`SessionInv`: what is handed out expires
  within the life of the refresh token behind it); `SetupOnceHolds` (`SetupInv`: of the
  setups in progress one at most has inserted the base DN, whose name is unique, and none
  once it is committed; `DoomInv`: a setup of a second factor deletes rows of its own scope
  and so never the base DN); `SecondFactorHolds` (`FactorInv`: a login that saw a second
  factor does not succeed by itself, and no statement takes the last pair away);
  `DeletedRefusedHolds` (`LateInv`: what a request of a user deleted before it may have
  reached); `PairsMatchHolds` (`PairInv`: as long as no setups of a scope overlap, its rows
  are of one writer and the setup in progress deletes all of them; a key that was read is
  then still there, or the read is marked as torn).

`SearchProofs`, about `Paging` first, from `TypeInv`:

- `PagingTypeCorrect`; `WalkCoversHolds` (`WalkInv`: the entries whose rank is within the
  pages read have been seen, and the pages promised are enough for the others; `RankStable`:
  without deletions and late ids a rank stays); `NoEmptyPageHolds` (`PromiseInv`: the rows
  reach into the last page promised). Where an induction would be wanted the proofs take
  the smallest natural number instead.

and about `Search`:

- `PlainMeaning`: for an entry and a filter of equality and presence, nested with `&` and
  `|` to any depth, the condition is true over some row of the outer joins exactly when the
  filter holds of the entry.
- `MeansWhatItSaysHolds`, from it and `ScopeMeaning`, with `AnswerInv` for the answer that
  was read. `WalkMeansWhatItSaysHolds` carries it over to pages: nothing is shown that was
  not meant, and a walk to the last page shows everything that was meant and there all
  the time (`ShownInv` and `WalkCoversHolds`). It has no run of its own.

`ReadIs` is why a filter can be read at all: the recursion of the casts has a value for
every filter, since readings up to each depth exist (`ReadsExist`) and agree
(`ReadsAgree`). `FilterInduction` then serves for the rest. `RowMeaning` is the argument:
a condition that is true over a row holds, for it is built without `!`, so a NULL never
becomes true; what holds is true over a row whose first join shows the presences asked
for (`Shows`), whatever the joins of the other items bring. An `&` needs such a row for
all its presences, hence one attribute at most; an `|` without `&` finds one for whichever
part holds (`SomeRowMeaning`).

`FramingProofs`:

- `FramingTypeCorrect`, `FramingImplementsStream` (the refinement: every step of the
  reader is a step of `MessageStream` or a stutter).
- `DeliveredInOrder`, of which only the abstract stream is reasoned about (`StreamInv`):
  what is handed over comes after all that was, and of a waiting client it is the next
  one; the refinement carries that over to the reader. It has no run of its own.

The invariant relates the buffer to the messages: it never holds a whole first message
between two reads, so a read that completes it ends where a message of a waiting
client ends, and nothing that was parsed is parsed again.

`ModifyProofs`:

- `ModifyTypeCorrect`: the type invariant, foreign keys included, is inductive once
  `RequestInv` says what each stage of a request knows of its arguments and
  collection.
- `AddsSurviveHolds`, from `LinksInv`: as long as nobody takes an entry out of a group,
  no collection is ahead of the table, what `get_groups` found are the groups that have
  been there all along, and the changes before the one at work are in the table. `Gentle`
  says what a step must not do to the other requests, so each action is shown to be
  gentle and its own request is looked at alone.

- `TakesEffectHolds`, from `EffectInv`. Of two requests on an entry that both are between
  their first statement and their answer, the entry is `mixed` (`Apart`). While one alone
  is at an entry, what it loaded is what the tables hold (`AllFresh`: the collection is
  the memberships, the look-ups of a change are what they would be now), so each commit
  makes of the entry what `Changed` makes of `want`, unless it is passed over (`Effective`,
  with one lemma for each kind of statement), and after it the two agree on every field
  that is not `silent` (`Settled`, `WantedSettles`). An entry that is
  gone left no value in its unique column (`NoRemains`; its rows and memberships fall to the
  foreign keys), which an add needs. `RefusedColumns` is the second half: the foreign keys
  of such an entry hold, so only a unique column can refuse.

Every invariant was checked by TLC before it was proved.

Every safety property of a run is a theorem. Only model-checked is liveness
(`AcceptedServed`, `QuietClose`, `AllAnswered`, `AllParsed`), since TLAPS
reasons neither about fairness nor about `ENABLED`. Recursion is written as recursive
functions, and induction as the smallest counterexample, since the library's induction
theorems are out of the prover's reach.

## Not modelled

The values inside a message (the BER codec beyond its framing), configuration and
migrations, the web application's routing, logging and TLS: conversion or I/O with no
state of their own. Of modify the columns of `Directory`: a change of `cn` or `name`
writes the column and leaves the path and the constraint of names to chance. Permissions
are not modelled; the code has none beyond a bound user. `_get_creds` starts its two
queries at once on one `AsyncSession` (`multifactor.py:49`), of which SQLAlchemy may refuse
the second with an error; in `Access` they follow each other and both succeed.

## Plan

Done: the nine models above, one abstract specification for what clients are promised
of the tree and one for the reader, and the proofs listed. What is left:

1. The columns of `Directory` in `Modify`, and with them a composition of `Modify` and
   `DirectoryTree`: a change of `name` that leaves the path behind.
2. Values of the codec: a length or an integer that is encoded and decoded again.
3. The refinement of the tree for moves between levels, with the depths left as the code
   leaves them.
