------------------------------- MODULE Modify -------------------------------
(***************************************************************************)
(* ModifyRequest.handle (ldap_requests/modify.py) on the attributes, the   *)
(* columns and the memberships of entries, next to adds and deletes of the *)
(* entries and groups (add.py, delete.py), at READ COMMITTED.              *)
(*                                                                         *)
(* A request reads the entry and its groups once, into collections of the  *)
(* ORM session that are never refreshed (expire_on_commit is off), and     *)
(* commits every change on its own: what the ORM writes is the difference  *)
(* between its collection and what it had loaded.  Attributes and columns  *)
(* are changed by statements.  A step is one read or one commit; the rows  *)
(* a statement has locked until its commit are abstracted, a wait for them *)
(* that ends badly is Fail.  Passwords are in module Passwords.            *)
(***************************************************************************)
EXTENDS Naturals, Sequences, FiniteSets

CONSTANTS
  Requests,  \* the requests, each served once
  Entries,   \* the entries that exist or may be added
  Kind,      \* Kind[e]: "user", "group" or "plain"
  Findable,  \* the groups whose stored path is in lower case
  Bare,      \* the entries with no attributes but those modelled here
  Values,    \* values of the attribute and of the column
  NoValue,   \* the column of an entry that has none
  NoRequest, \* the rows that are there from the start
  Args,      \* what the requests ask for
  SeedAlive, SeedMember, SeedColumn, SeedValues  \* the tables at the start

Groups == {e \in Entries : Kind[e] = "group"}
Users == {e \in Entries : Kind[e] = "user"}

\* One multi-valued attribute, one unique column of users, the memberships
\* and the fields modify skips (ro_fields) stand for all of theirs.
Fields == {"attribute", "column", "memberOf", "readOnly"}
Change == [op : {"add", "delete", "replace"},
           field : Fields,
           vals : SUBSET (Values \cup Groups)]

ASSUME ModifyAssumption ==
  /\ Kind \in [Entries -> {"user", "group", "plain"}]
  /\ Findable \subseteq Groups
  /\ Bare \subseteq Entries
  /\ NoValue \notin Values
  /\ NoRequest \notin Requests
  /\ \A a \in Args :
       /\ a.kind \in {"modify", "add", "delete"} /\ a.entry \in Entries
       /\ a.changes \in Seq(Change)
       /\ a.kind = "modify" <=> a.changes # <<>>
       /\ a.groups \subseteq Groups
       /\ \A n \in 1..Len(a.changes) :
            LET c == a.changes[n]
            IN  /\ c.vals \subseteq IF c.field = "memberOf" THEN Groups ELSE Values
                /\ c.field = "column" => a.entry \in Users
  /\ SeedAlive \subseteq Entries
  /\ SeedMember \subseteq SeedAlive \X (SeedAlive \cap Groups)
  /\ \A m \in SeedMember : Kind[m[1]] # "plain"
  /\ SeedColumn \in [Entries -> Values \cup {NoValue}]
  /\ SeedValues \in [Entries -> SUBSET Values]
  /\ \A e \in Entries :
       SeedValues[e] # {} \/ SeedColumn[e] # NoValue => e \in SeedAlive

Stages == {"idle", "apply", "commit", "done"}
Results == {"none", "success", "notFound", "exists", "error"}
RowOf == [entry : Entries, value : Values, by : (Requests \cup {NoRequest}) \X Nat]
NoArg == [kind |-> "none", changes |-> <<>>]

VARIABLES
  alive,   \* the entries there are (Directory, Users, Groups)
  member,  \* the rows <<member, group>> of UserMemberships, GroupMemberships
  rows,    \* the rows of Attributes, each with the change that inserted it
  column,  \* column[e], the unique column of user e
  arg,     \* arg[t], what request t asks for
  stage,   \* stage[t], the next step of request t
  next,    \* next[t], the change it is at
  loaded,  \* loaded[t], the membership rows its ORM session knows of
  copies,  \* copies[t][g], how often its list has g beyond the first time
  found,   \* found[t], the groups get_groups() returned
  doomed,  \* doomed[t], the attribute rows its DELETE has met
  result,  \* result[t], the answer
  want,    \* want[e], what LDAP makes of the changes that were committed
  silent,  \* the <<entry, field>> a change of which was passed over in silence
  mixed    \* the entries whose requests have overlapped

tables == <<alive, member, rows, column>>
ghosts == <<want, silent, mixed>>
vars == <<tables, arg, stage, next, loaded, copies, found, doomed,
          result, ghosts>>

\* The foreign keys of the tables, among others: memberships and attributes
\* are those of entries and groups that are there.
TypeOK ==
  /\ alive \subseteq Entries
  /\ member \subseteq alive \X (alive \cap Groups)
  /\ rows \subseteq RowOf /\ \A r \in rows : r.entry \in alive
  /\ column \in [Entries -> Values \cup {NoValue}]
  /\ arg \in [Requests -> Args \cup {NoArg}]
  /\ stage \in [Requests -> Stages]
  /\ next \in [Requests -> Nat]
  /\ loaded \in [Requests -> SUBSET (Entries \X Groups)]
  /\ copies \in [Requests -> [Groups -> Nat]]
  /\ found \in [Requests -> SUBSET Groups]
  /\ doomed \in [Requests -> SUBSET RowOf]
  /\ result \in [Requests -> Results]
  /\ silent \subseteq Entries \X Fields
  /\ mixed \subseteq Entries

GroupsOf(e) == {m \in member : m[1] = e}
RowsOf(e) == {r \in rows : r.entry = e}

\* The entry as the tables have it.
Now(e) == [groups |-> {m[2] : m \in GroupsOf(e)},
           values |-> {r.value : r \in RowsOf(e)},
           column |-> {column[e]} \ {NoValue}]

NoEntry == [groups |-> {}, values |-> {}, column |-> {}]

Init ==
  /\ alive = SeedAlive
  /\ member = SeedMember
  /\ rows = {r \in [entry : Entries, value : Values, by : {<<NoRequest, 0>>}] :
               r.value \in SeedValues[r.entry]}
  /\ column = SeedColumn
  /\ arg = [t \in Requests |-> NoArg]
  /\ stage = [t \in Requests |-> "idle"]
  /\ next = [t \in Requests |-> 0]
  /\ loaded = [t \in Requests |-> {}]
  /\ copies = [t \in Requests |-> [g \in Groups |-> 0]]
  /\ found = [t \in Requests |-> {}]
  /\ doomed = [t \in Requests |-> {}]
  /\ result = [t \in Requests |-> "none"]
  /\ want = [e \in Entries |-> Now(e)]
  /\ silent = {}
  /\ mixed = {}

-----------------------------------------------------------------------------
(* The beginning and the end of a request *)

Active == {t \in Requests : stage[t] \in {"apply", "commit"}}
AddsOrDeletesGroup(a) == a.kind # "modify" /\ a.entry \in Groups

\* Requests that may get in each other's way.
Concern(a, b) == a.entry = b.entry \/ AddsOrDeletesGroup(a) \/ AddsOrDeletesGroup(b)

\* The query of modify joins the attributes: it misses an entry without any.
Find(e) == e \in alive /\ (e \in Bare => RowsOf(e) # {})

\* The first statements: modify loads the entry and its groups; add looks
\* whether there is one, and for the groups it names (get_groups); delete
\* loads what it will delete.
Begin(t, a) ==
  LET e == a.entry
      answer ==
        CASE a.kind = "modify" /\ ~Find(e)   -> "notFound"
          [] a.kind = "delete" /\ e \notin alive -> "notFound"
          [] a.kind = "add" /\ e \in alive   -> "exists"
          [] OTHER                           -> "none"
      others == {arg[u].entry : u \in {v \in Active : Concern(a, arg[v])}}
  IN  /\ stage[t] = "idle"
      /\ arg' = [arg EXCEPT ![t] = a]
      /\ result' = [result EXCEPT ![t] = answer]
      /\ stage' = [stage EXCEPT ![t] =
           IF answer # "none" THEN "done"
           ELSE IF a.kind = "modify" THEN "apply" ELSE "commit"]
      /\ next' = [next EXCEPT ![t] = 1]
      /\ loaded' = [loaded EXCEPT ![t] =
           IF a.kind = "delete" THEN {m \in member : e \in {m[1], m[2]}} ELSE GroupsOf(e)]
      /\ found' = [found EXCEPT ![t] = a.groups \cap Findable \cap alive]
      /\ doomed' = [doomed EXCEPT ![t] = IF a.kind = "delete" THEN RowsOf(e) ELSE {}]
      /\ mixed' = IF others = {} THEN mixed ELSE mixed \cup others \cup {e}
      /\ UNCHANGED <<tables, copies, want, silent>>

\* The request ends; what it has not committed is rolled back.
End(t, answer) ==
  /\ stage' = [stage EXCEPT ![t] = "done"]
  /\ result' = [result EXCEPT ![t] = answer]
  /\ UNCHANGED next

Refuse(t, answer) ==
  End(t, answer) /\ UNCHANGED <<tables, arg, loaded, copies, found, doomed, ghosts>>

\* The change is done with: the next one, or success after the last.
Advance(t) ==
  IF next[t] = Len(arg[t].changes)
  THEN End(t, "success")
  ELSE /\ next' = [next EXCEPT ![t] = @ + 1]
       /\ stage' = [stage EXCEPT ![t] = "apply"]
       /\ UNCHANGED result

-----------------------------------------------------------------------------
(* One change: the statements before its commit *)

Current(t) == arg[t].changes[next[t]]
Clears(c) == c.op = "replace" \/ (c.op = "delete" /\ c.vals = {})

\* The groups that the list has more than once.
TwiceIn(t) == {g \in Groups : copies[t][g] > 0}

\* Mutant: a replace deletes only the values it is given.
GivenRows(t) ==
  {r \in RowsOf(arg[t].entry) :
     Current(t).op # "add" /\ (Current(t).vals = {} \/ r.value \in Current(t).vals)}

\* The rows the DELETE of the change finds.
DeletedRows(t) ==
  {r \in RowsOf(arg[t].entry) :
     Current(t).op # "add" /\ (Clears(Current(t)) \/ r.value \in Current(t).vals)}

SkipReadOnly(t) ==
  /\ stage[t] = "apply" /\ Current(t).field = "readOnly"
  /\ Advance(t)
  /\ UNCHANGED <<tables, arg, loaded, copies, found, doomed, ghosts>>

Apply(t) ==
  /\ stage[t] = "apply" /\ Current(t).field # "readOnly"
  /\ found' = [found EXCEPT ![t] =
       IF Current(t).field = "memberOf" /\ Kind[arg[t].entry] # "plain"
       THEN Current(t).vals \cap Findable \cap alive ELSE {}]
  /\ doomed' = [doomed EXCEPT ![t] =
       IF Current(t).field = "attribute" THEN DeletedRows(t) ELSE {}]
  /\ stage' = [stage EXCEPT ![t] = "commit"]
  /\ UNCHANGED <<tables, arg, next, loaded, copies, result, ghosts>>

-----------------------------------------------------------------------------
(* One change: the commit *)

\* What LDAP makes of the values the change c is about ...
Outcome(c, old) ==
  IF c.op = "add" THEN old \cup c.vals ELSE IF Clears(c) THEN c.vals ELSE old \ c.vals

\* ... and of the entry w.
Changed(w, c) ==
  CASE c.field = "memberOf"  -> [w EXCEPT !.groups = Outcome(c, @)]
    [] c.field = "attribute" -> [w EXCEPT !.values = Outcome(c, @)]
    [] c.field = "column"    -> [w EXCEPT !.column = Outcome(c, @)]

\* Groups that get_groups() does not return, or an entry that has no groups.
Missed(e, groups) ==
  groups # {} /\ (Kind[e] = "plain" \/ ~(groups \subseteq Findable \cap alive))

\* The changes that count as made, and are not: of groups that are missed; the
\* removal of a group which the list has twice, because an earlier change added
\* it to an entry that was in it; and of a column, to anything but one value.
PassedOver(t) ==
  LET e == arg[t].entry
      c == Current(t)
  IN  \/ /\ c.field = "memberOf"
         /\ Missed(e, c.vals) \/ (c.op = "delete" /\ TwiceIn(t) \cap c.vals # {})
      \/ /\ c.field = "column"
         /\ \A v \in Values : Outcome(c, Now(e).column) # {v}

Wanted(t) ==
  LET e == arg[t].entry
      c == Current(t)
  IN  /\ want' = [want EXCEPT ![e] = IF e \in alive THEN Changed(@, c) ELSE @]
      /\ silent' = IF PassedOver(t) THEN silent \cup {<<e, c.field>>}
                   ELSE IF Clears(c) THEN silent \ {<<e, c.field>>} ELSE silent

\* The rows of the groups the change names.
Named(t) == {arg[t].entry} \X found[t]

\* The group rows the collection loses: remove() takes the first copy ...
Dropped(t) ==
  IF Current(t).op = "add" THEN {}
  ELSE IF Clears(Current(t)) THEN loaded[t]
  ELSE {arg[t].entry} \X (found[t] \ TwiceIn(t))

\* ... and those it gains: the ones it does not have already.
Linked(t) ==
  IF Current(t).op = "delete" THEN {} ELSE Named(t) \ (loaded[t] \ Dropped(t))

\* extend() appends a group that is there already once more.
CopiesLeft(t) ==
  [g \in Groups |->
     IF Clears(Current(t)) THEN 0
     ELSE IF <<arg[t].entry, g>> \notin Named(t) \cap loaded[t] THEN copies[t][g]
     ELSE IF Current(t).op = "add" THEN copies[t][g] + 1
     ELSE IF g \in TwiceIn(t) THEN copies[t][g] - 1 ELSE 0]

\* Mutant: the collection is written as a whole.
WriteAll(t) ==
  member' = (member \ GroupsOf(arg[t].entry)) \cup (loaded[t] \ Dropped(t)) \cup Linked(t)

\* The ORM writes the difference; rows that have gone meanwhile are not missed.
WriteLinks(t) == member' = (member \ Dropped(t)) \cup Linked(t)

\* A removed group is not in the collection: ValueError, which nothing catches.
Unlinkable(t) ==
  Current(t).op = "delete" /\ ~Clears(Current(t)) /\ ~(Named(t) \subseteq loaded[t])

\* The primary key and the foreign keys of the new rows.
LinksFit(t) ==
  /\ Linked(t) \cap (member \ Dropped(t)) = {}
  /\ Linked(t) \subseteq alive \X alive

CommitLinks(t) ==
  /\ Current(t).field = "memberOf"
  /\ ~Unlinkable(t) /\ LinksFit(t)
  /\ IF Kind[arg[t].entry] = "plain" THEN UNCHANGED <<member, loaded, copies>>
     ELSE /\ WriteLinks(t)
          /\ loaded' = [loaded EXCEPT ![t] = (@ \ Dropped(t)) \cup Linked(t)]
          /\ copies' = [copies EXCEPT ![t] = CopiesLeft(t)]
  /\ Wanted(t)
  /\ UNCHANGED <<rows, column>>

NewRows(t) ==
  IF Current(t).op = "delete" THEN {}
  ELSE [entry : {arg[t].entry}, value : Current(t).vals, by : {<<t, next[t]>>}]

RowsFit(t) == NewRows(t) # {} => arg[t].entry \in alive

CommitRows(t) ==
  /\ Current(t).field = "attribute"
  /\ RowsFit(t)
  /\ rows' = (rows \ doomed[t]) \cup NewRows(t)
  /\ Wanted(t)
  /\ UNCHANGED <<member, column, loaded, copies>>

\* Every value is set by an UPDATE of its own, in the order given: the last
\* one stays. Deleting the values of a column does nothing, and there is no
\* row to update when the entry has gone.
ColumnValues(t) ==
  IF Current(t).op = "delete" \/ arg[t].entry \notin alive THEN {} ELSE Current(t).vals

\* Nobody else has one of the values: every UPDATE meets the unique index.
ColumnFits(t) ==
  \A o \in alive \ {arg[t].entry} : column[o] \notin ColumnValues(t)

CommitColumn(t) ==
  LET e == arg[t].entry
      values == IF ColumnValues(t) = {} THEN {column[e]} ELSE ColumnValues(t)
  IN  /\ Current(t).field = "column"
      /\ ColumnFits(t)
      /\ \E v \in values : column' = [column EXCEPT ![e] = v]
      /\ Wanted(t)
      /\ UNCHANGED <<member, rows, loaded, copies>>

Commits(t, kind) == stage[t] = "commit" /\ arg[t].kind = kind

CommitChange(t) ==
  /\ Commits(t, "modify")
  /\ CommitLinks(t) \/ CommitRows(t) \/ CommitColumn(t)
  /\ Advance(t)
  /\ UNCHANGED <<alive, arg, found, doomed, mixed>>

\* The database refuses the change, whatever the constraint: the answer is
\* that the entry exists. The changes before it stay.
RefuseChange(t) ==
  /\ Commits(t, "modify")
  /\ \/ /\ Current(t).field = "memberOf" /\ ~Unlinkable(t) /\ ~LinksFit(t)
     \/ /\ Current(t).field = "attribute" /\ ~RowsFit(t)
     \/ /\ Current(t).field = "column" /\ ~ColumnFits(t)
  /\ Refuse(t, "exists")

\* list.remove() raises and the connection loses its worker.
RaiseUnlinkable(t) ==
  /\ Commits(t, "modify")
  /\ Current(t).field = "memberOf" /\ Unlinkable(t)
  /\ Refuse(t, "error")

-----------------------------------------------------------------------------
(* Adding and deleting *)

\* The new entry with its memberships; the name and the keys must fit.
CommitAdd(t) ==
  LET e == arg[t].entry
      fits == e \notin alive /\ found[t] \subseteq alive
  IN  /\ Commits(t, "add")
      /\ \/ /\ ~fits
            /\ Refuse(t, "exists")
         \/ /\ fits
            /\ alive' = alive \cup {e}
            /\ member' = member \cup ({e} \X IF Kind[e] = "plain" THEN {} ELSE found[t])
            /\ want' = [want EXCEPT ![e] = [NoEntry EXCEPT !.groups = arg[t].groups]]
            /\ silent' = IF Missed(e, arg[t].groups) THEN silent \cup {<<e, "memberOf">>}
                         ELSE silent
            /\ End(t, "success")
            /\ UNCHANGED <<rows, column, arg, loaded, copies, found, doomed, mixed>>

\* Mutant: the keys do not keep what refers to the deleted entry.
NothingRefers(t) == TRUE

\* Rows that have come since the delete loaded the entry still refer to it.
Unreferenced(t) ==
  LET e == arg[t].entry
  IN  /\ RowsOf(e) \subseteq doomed[t]
      /\ {m \in member : e \in {m[1], m[2]}} \subseteq loaded[t]

\* The entry goes with the rows that were loaded; the IntegrityError of a row
\* that came later is caught by nobody.
CommitDelete(t) ==
  LET e == arg[t].entry
  IN  /\ Commits(t, "delete")
      /\ \/ /\ ~Unreferenced(t)
            /\ Refuse(t, "error")
         \/ /\ Unreferenced(t)
            /\ alive' = alive \ {e}
            /\ member' = member \ loaded[t]
            /\ rows' = rows \ doomed[t]
            /\ column' = [column EXCEPT ![e] = NoValue]
            /\ want' = [o \in Entries |-> IF o = e THEN NoEntry
                                         ELSE [want[o] EXCEPT !.groups = @ \ {e}]]
            /\ silent' = {s \in silent : s[1] # e}
            /\ End(t, "success")
            /\ UNCHANGED <<arg, loaded, copies, found, doomed, mixed>>

\* The connection to the database is lost, or a wait ends in a deadlock.
Fail(t) == t \in Active /\ Refuse(t, "error")

Next ==
  \E t \in Requests :
    \/ \E a \in Args : Begin(t, a)
    \/ SkipReadOnly(t) \/ Apply(t)
    \/ CommitChange(t) \/ RefuseChange(t) \/ RaiseUnlinkable(t)
    \/ CommitAdd(t) \/ CommitDelete(t)
    \/ Fail(t)

Spec == Init /\ [][Next]_vars

-----------------------------------------------------------------------------
(* Properties *)

\* An entry whose requests never overlapped has become what LDAP makes of the
\* committed changes, in spite of a collection that is loaded once, a commit per
\* change and requests that fail between two of them; except for the fields of
\* which a change was passed over in silence. And no constraint but that of a
\* unique column has refused a change (modify.py, handle).
TakesEffect ==
  /\ \A e \in Entries \ mixed :
       /\ Now(e).values = want[e].values
       /\ <<e, "memberOf">> \notin silent => Now(e).groups = want[e].groups
       /\ <<e, "column">> \notin silent => Now(e).column = want[e].column
  /\ \A t \in Requests :
       /\ result[t] = "exists" /\ arg[t].kind = "modify"
       /\ arg[t].entry \notin mixed
       => Current(t).field = "column"

\* Requests that may take e out of a group.
Removes(a, e) ==
  \/ a.kind = "delete" /\ a.entry \in Groups \cup {e}
  \/ a.kind = "modify" /\ a.entry = e
     /\ \E n \in 1..Len(a.changes) :
          a.changes[n].field = "memberOf" /\ a.changes[n].op # "add"

NobodyRemoves(e) == \A u \in Requests : arg[u].kind # "none" => ~Removes(arg[u], e)

\* The groups that get_groups() may return and that have been there all along.
OldGroups ==
  {g \in Findable \cap alive :
     \A u \in Requests : arg[u].kind = "add" => arg[u].entry # g}

\* The memberships the n-th change of t gives its entry are there.
Given(t, n) ==
  arg[t].changes[n].field = "memberOf" =>
    {arg[t].entry} \X (arg[t].changes[n].vals \cap OldGroups) \subseteq member

\* Requests that put an entry into groups at the same time do not undo each
\* other: a confirmed membership is there until a request that may remove it
\* (ModifyRequest._add, user.groups.extend).
AddsSurvive ==
  \A t \in Requests :
    /\ arg[t].kind = "modify" /\ result[t] = "success"
    /\ Kind[arg[t].entry] # "plain" /\ NobodyRemoves(arg[t].entry)
    => \A n \in 1..Len(arg[t].changes) : Given(t, n)
=============================================================================
