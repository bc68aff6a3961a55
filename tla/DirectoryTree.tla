--------------------------- MODULE DirectoryTree ----------------------------
(***************************************************************************)
(* The directory tree in the tables "Directory" and "Paths" (app/models/   *)
(* ldap3.py) and the three LDAP operations that change its shape: add,     *)
(* delete and modify DN (app/ldap_protocol/ldap_requests/).                *)
(*                                                                         *)
(* Every entry keeps its place twice, as a parent id and as the path of    *)
(* RDNs from the top, and its depth besides. Lookups go by the path alone. *)
(* A step is one query or one commit of a handler; handlers of different   *)
(* workers, connections and replicas interleave between them. PostgreSQL   *)
(* runs at READ COMMITTED, so each step sees what is committed then.       *)
(***************************************************************************)
EXTENDS Integers, Sequences, SequencesExt

CONSTANTS
  Requests,    \* the operations clients send, each once
  Ids,         \* values of Directory.id, handed out once each
  Rdns,        \* RDNs as clients write them
  Lower,       \* Lower[r], the RDN r in lower case
  Names,
  NameOf,      \* NameOf[r], the value in r = "type=value": Directory.name
  Seed,        \* Seed[i], the entries at the start
  NoParent,    \* the parent of a top entry (NULL)
  Free, Gone,  \* an id not handed out yet; the id of a deleted row
  NoOwner,     \* the owner of contents that were deleted or not created
  NoSuperior,  \* modify DN without newSuperior
  BaseDn,      \* newSuperior is the base DN
  AddDns, DeleteDns,   \* what clients add and delete
  Moves,       \* what clients rename: <<entry, newrdn, newSuperior>>
  MaxActive,   \* how many operations may be in progress at once
  Alone,       \* the kinds of operation during which no other one is
  Crashes      \* whether the server may die in the middle of one

Kinds == {"add", "delete", "modifyDN"}
Dns == Seq(Rdns) \ {<<>>}
Row == [parent : Ids \cup {NoParent}, name : Names, path : Dns, depth : Nat]

ASSUME TreeAssumption ==
  /\ IsFiniteSet(Ids)
  /\ Lower \in [Rdns -> Rdns] /\ NameOf \in [Rdns -> Names]
  /\ \A r \in Rdns : Lower[Lower[r]] = Lower[r]
  /\ NoParent \notin Ids /\ NoOwner \notin Ids
  /\ Free # Gone /\ Free \notin Row /\ Gone \notin Row
  /\ Seed \in [Ids -> Row \cup {Free}]
  /\ NoSuperior # BaseDn /\ NoSuperior \notin Dns /\ BaseDn \notin Dns
  /\ AddDns \subseteq Dns /\ DeleteDns \subseteq Dns
  /\ Moves \subseteq Dns \X Rdns \X (Dns \cup {NoSuperior, BaseDn})
  /\ MaxActive \in Nat \ {0} /\ Alone \subseteq Kinds /\ Crashes \in BOOLEAN

VARIABLES
  dirs,    \* dirs[i], the committed row i of Directory with its Path
  owner,   \* owner[c], the entry the contents c belong to: the attributes
           \* and the user or group created together with entry c
  op,      \* op[t], what operation t asks for
  stage,   \* stage[t], the next query or commit of operation t
  loc,     \* loc[t], what the handler of operation t has loaded
  answer   \* answer[t]: a result code, "died" (the handler raised and its
           \* worker ended) or "crashed"

vars == <<dirs, owner, op, stage, loc, answer>>

AddOps    == [kind : {"add"}, dn : AddDns]
DeleteOps == [kind : {"delete"}, dn : DeleteDns]
MoveOps   == {[kind |-> "modifyDN", dn |-> m[1], rdn |-> m[2], superior |-> m[3]] :
                 m \in Moves}
Operations == AddOps \cup DeleteOps \cup MoveOps
NoOp == [kind |-> "none"]

Stages == {"idle", "check", "parent", "insert", "find", "superior", "create",
           "reparent", "repath", "cascade", "remove", "done"}
Answers == {"none", "success", "entryAlreadyExists", "noSuchObject", "died",
            "crashed"}

\* dir, path, depth: the entry the operation is about, as it was loaded.
\* up, upPath: the parent a new row gets; newDepth, new: that row.
\* doomed, contents: what a cascade will delete. near: what an add links to.
Loaded == [dir : Ids \cup {NoParent}, path : Seq(Rdns), depth : Nat,
           up : Ids \cup {NoParent}, upPath : Seq(Rdns), newDepth : Nat,
           new : Ids \cup {NoParent}, doomed : SUBSET Ids,
           contents : SUBSET Ids, near : SUBSET Ids]
NoLoad == [dir |-> NoParent, path |-> <<>>, depth |-> 0,
           up |-> NoParent, upPath |-> <<>>, newDepth |-> 0,
           new |-> NoParent, doomed |-> {}, contents |-> {}, near |-> {}]

Present(i) == dirs[i] \in Row
Entries == {i \in Ids : Present(i)}
Active == {t \in Requests : stage[t] \notin {"idle", "done"}}

TypeOK ==
  /\ dirs \in [Ids -> Row \cup {Free, Gone}]
  /\ owner \in [Ids -> Ids \cup {NoOwner}]
  /\ op \in [Requests -> Operations \cup {NoOp}]
  /\ stage \in [Requests -> Stages]
  /\ loc \in [Requests -> Loaded]
  /\ answer \in [Requests -> Answers]

SeedOwner == [i \in Ids |-> IF Seed[i] \in Row THEN i ELSE NoOwner]

Init ==
  /\ dirs = Seed
  /\ owner = SeedOwner
  /\ op = [t \in Requests |-> NoOp]
  /\ stage = [t \in Requests |-> "idle"]
  /\ loc = [t \in Requests |-> NoLoad]
  /\ answer = [t \in Requests |-> "none"]

-----------------------------------------------------------------------------
(* Paths *)

Lowered(path) == [k \in DOMAIN path |-> Lower[path[k]]]

\* PostgreSQL's path[m:n], which ends where the array ends.
Slice(path, m, n) == SubSeq(path, m, IF n < Len(path) THEN n ELSE Len(path))

\* get_search_path() and get_path_filter(): the DN of the request and the
\* stored paths are compared in lower case.
At(dn) == {i \in Entries : Lowered(dirs[i].path) = Lowered(dn)}

\* Mutant: the table has no foreign key on parentId.
ValidNames(table) ==
  LET rows == {i \in Ids : table[i] \in Row}
  IN  \A i, j \in rows :
        i # j => <<table[i].parent, table[i].name>>
                   # <<table[j].parent, table[j].name>>

\* Mutant: the table has no unique constraint.
ValidParents(table) ==
  LET rows == {i \in Ids : table[i] \in Row}
  IN  \A i \in rows : table[i].parent \in rows \cup {NoParent}

\* The unique constraint on parentId and name (NULLS NOT DISTINCT, and case
\* counts), and the foreign key on parentId.
Valid(table) ==
  LET rows == {i \in Ids : table[i] \in Row}
  IN  /\ \A i, j \in rows :
           i # j => <<table[i].parent, table[i].name>>
                      # <<table[j].parent, table[j].name>>
      /\ \A i \in rows : table[i].parent \in rows \cup {NoParent}

ASSUME SeedAssumption == Valid(Seed)

-----------------------------------------------------------------------------
(* Beginning and ending an operation *)

IdsLeft == {i \in Ids : dirs[i] = Free}

\* The bounds: on the operations in progress, and on rows, an operation that
\* inserts one finds an id that is left.
Begin(t, o) ==
  /\ stage[t] = "idle"
  /\ Cardinality(Active) < MaxActive
  /\ \A u \in Active : {o.kind, op[u].kind} \cap Alone = {}
  /\ o.kind # "delete" =>
       Cardinality({u \in Active : op[u].kind # "delete"}) < Cardinality(IdsLeft)
  /\ op' = [op EXCEPT ![t] = o]
  /\ stage' = [stage EXCEPT ![t] = IF o.kind = "add" THEN "check" ELSE "find"]
  /\ UNCHANGED <<dirs, owner, loc, answer>>

\* The handler ends: with an answer, or by an exception it lets through.
Answer(t, a) ==
  /\ stage' = [stage EXCEPT ![t] = "done"]
  /\ loc' = [loc EXCEPT ![t] = NoLoad]
  /\ answer' = [answer EXCEPT ![t] = a]
  /\ UNCHANGED op

Fails(t, a) == Answer(t, a) /\ UNCHANGED <<dirs, owner>>

\* The handler goes on to its next query or commit with what it has loaded.
Goes(t, s, l) ==
  /\ stage' = [stage EXCEPT ![t] = s]
  /\ loc' = [loc EXCEPT ![t] = l]
  /\ UNCHANGED <<op, answer>>

Loads(t, s, l) == Goes(t, s, l) /\ UNCHANGED <<dirs, owner>>

-----------------------------------------------------------------------------
(* AddRequest.handle *)

AddCheck(t) ==
  /\ stage[t] = "check"
  /\ \/ At(op[t].dn) # {} /\ Fails(t, "entryAlreadyExists")
     \/ At(op[t].dn) = {} /\ Loads(t, "parent", NoLoad)

\* A top entry has no parent to load; any other takes the path of its parent
\* from the row it loads here, and what is linked to the parent with it.
AddParent(t) ==
  LET dn == op[t].dn
  IN  /\ stage[t] = "parent"
      /\ \/ Len(dn) = 1 /\ Loads(t, "insert", NoLoad)
         \/ /\ Len(dn) > 1
            /\ \/ At(Front(dn)) = {} /\ Fails(t, "noSuchObject")
               \/ \E p \in At(Front(dn)) :
                    Loads(t, "insert",
                          [NoLoad EXCEPT
                             !.up = p,
                             !.upPath = dirs[p].path,
                             !.near = {p} \cup {i \in Entries : dirs[i].parent = p}])

AddedRow(t) ==
  LET path == Append(loc[t].upPath, Last(op[t].dn))
  IN  [parent |-> loc[t].up, name |-> NameOf[Last(op[t].dn)],
       path |-> path, depth |-> Len(path)]

\* One commit for the entry, its path, its contents and the rows that link
\* the path to the parent and to entries below it; these rows are not kept
\* here, so any of those entries being gone may fail the insert.
AddInsert(t) ==
  /\ stage[t] = "insert"
  /\ \E i \in IdsLeft :
       LET table == [dirs EXCEPT ![i] = AddedRow(t)]
       IN  \/ /\ Valid(table)
              /\ dirs' = table
              /\ owner' = [owner EXCEPT ![i] = i]
              /\ Answer(t, "success")
           \/ /\ ~Valid(table) \/ \E n \in loc[t].near : ~Present(n)
              /\ Fails(t, "entryAlreadyExists")

-----------------------------------------------------------------------------
(* ORM deletion, shared by delete and modify DN *)

\* The entries session.delete(i) reaches through the relationship
\* "directories", at any depth.
Cascade(i) ==
  {j \in Ids : \A S \in SUBSET Ids :
     i \in S /\ (\A k \in Entries : dirs[k].parent \in S => k \in S) => j \in S}

Doomed(l) ==
  LET down == Cascade(l.dir)
  IN  [l EXCEPT !.doomed = down, !.contents = {c \in Ids : owner[c] \in down}]

\* The flush deletes the rows that were loaded, those already gone without a
\* complaint. A child or contents that came since violate a foreign key.
CommitRemoval(t) ==
  LET l == loc[t]
      table == [i \in Ids |-> IF Present(i) /\ i \in l.doomed THEN Gone ELSE dirs[i]]
      kept == [c \in Ids |-> IF c \in l.contents THEN NoOwner ELSE owner[c]]
      allowed == /\ Valid(table)
                 /\ \A c \in Ids : kept[c] # NoOwner => table[kept[c]] \in Row
  IN  /\ stage[t] = "remove"
      /\ \/ /\ allowed
            /\ dirs' = table
            /\ owner' = kept
            /\ Answer(t, "success")
         \/ ~allowed /\ Fails(t, "died")

-----------------------------------------------------------------------------
(* DeleteRequest.handle *)

DeleteFind(t) ==
  /\ stage[t] = "find"
  /\ op[t].kind = "delete"
  /\ \/ At(op[t].dn) = {} /\ Fails(t, "noSuchObject")
     \/ \E i \in At(op[t].dn) : Loads(t, "cascade", [NoLoad EXCEPT !.dir = i])

DeleteCascade(t) ==
  /\ stage[t] = "cascade"
  /\ op[t].kind = "delete"
  /\ Loads(t, "remove", Doomed(loc[t]))

-----------------------------------------------------------------------------
(* ModifyDNRequest.handle: four commits *)

\* The entry, with its path and depth, and its parent with its path.
MoveFind(t) ==
  LET sup == op[t].superior
  IN  /\ stage[t] = "find"
      /\ op[t].kind = "modifyDN"
      /\ \/ At(op[t].dn) = {} /\ Fails(t, "noSuchObject")
         \/ \E i \in At(op[t].dn) :
              LET row == dirs[i]
                  entry == [NoLoad EXCEPT !.dir = i, !.path = row.path,
                                          !.depth = row.depth]
              IN  \/ /\ sup = NoSuperior
                     /\ Loads(t, "create",
                          [entry EXCEPT
                             !.up = row.parent,
                             !.upPath = IF row.parent = NoParent THEN <<>>
                                        ELSE dirs[row.parent].path,
                             !.newDepth = row.depth])
                  \/ /\ sup = BaseDn
                     /\ Loads(t, "create", [entry EXCEPT !.newDepth = 1])
                  \/ /\ sup \in Dns
                     /\ Loads(t, "superior", entry)

\* Nothing keeps the new superior from being the entry or below it.
MoveSuperior(t) ==
  LET sup == op[t].superior
  IN  /\ stage[t] = "superior"
      /\ \/ At(sup) = {} /\ Fails(t, "noSuchObject")
         \/ \E p \in At(sup) :
              Loads(t, "create",
                    [loc[t] EXCEPT !.up = p, !.upPath = dirs[p].path,
                                   !.newDepth = Len(dirs[p].path) + 1])

\* Mutant: the new RDN is left out of the path.
PathOfSuperior(t) == loc[t].upPath

NewPath(t) == Append(loc[t].upPath, op[t].rdn)

\* First commit: a second row for the entry, under its new name and parent.
MoveCreate(t) ==
  /\ stage[t] = "create"
  /\ \E n \in IdsLeft :
       LET row == [parent |-> loc[t].up, name |-> NameOf[op[t].rdn],
                   path |-> NewPath(t), depth |-> loc[t].newDepth]
           table == [dirs EXCEPT ![n] = row]
       IN  \/ /\ Valid(table)
              /\ dirs' = table
              /\ Goes(t, "reparent", [loc[t] EXCEPT !.new = n])
              /\ UNCHANGED owner
           \/ ~Valid(table) /\ Fails(t, "died")

\* Second commit: the children get the new row as their parent.
MoveReparent(t) ==
  LET l == loc[t]
      table == [i \in Ids |-> IF Present(i) /\ dirs[i].parent = l.dir
                              THEN [dirs[i] EXCEPT !.parent = l.new]
                              ELSE dirs[i]]
  IN  /\ stage[t] = "reparent"
      /\ \/ /\ Valid(table)
            /\ dirs' = table
            /\ Goes(t, "repath", l)
            /\ UNCHANGED owner
         \/ ~Valid(table) /\ Fails(t, "died")

\* Mutant: only the entry's own path is updated.
Itself(path, l) == path = l.path

\* The rows the UPDATE of the paths matches: the first "depth" RDNs, in
\* lower case, against the path of the entry as it was stored.
Subordinate(path, l) == Lowered(Slice(path, 1, l.depth)) = l.path

\* Mutant: the attributes, user and group stay with the old row.
RepathOnly(t) ==
  LET l == loc[t]
      Moved(path) == NewPath(t) \o Slice(path, l.depth + 1, Len(path))
  IN  /\ stage[t] = "repath"
      /\ dirs' = [i \in Ids |->
                    IF Present(i) /\ Subordinate(dirs[i].path, l)
                    THEN [dirs[i] EXCEPT !.path = Moved(@)]
                    ELSE dirs[i]]
      /\ Goes(t, "cascade", l)
      /\ UNCHANGED owner

\* Third commit: the contents get the new row as their owner, and the paths
\* of the entry and its subordinates the new path as their beginning.
MoveRepath(t) ==
  LET l == loc[t]
      moved == {c \in Ids : owner[c] = l.dir}
      Moved(path) == NewPath(t) \o Slice(path, l.depth + 1, Len(path))
  IN  /\ stage[t] = "repath"
      /\ \/ /\ moved = {} \/ Present(l.new)
            /\ owner' = [c \in Ids |-> IF c \in moved THEN l.new ELSE owner[c]]
            /\ dirs' = [i \in Ids |->
                          IF Present(i) /\ Subordinate(dirs[i].path, l)
                          THEN [dirs[i] EXCEPT !.path = Moved(@)]
                          ELSE dirs[i]]
            /\ Goes(t, "cascade", l)
         \/ moved # {} /\ ~Present(l.new) /\ Fails(t, "died")

\* Then the old row is refreshed and deleted, in the fourth commit (CommitRemoval),
\* with whatever is its child or its contents by now.
MoveCascade(t) ==
  /\ stage[t] = "cascade"
  /\ op[t].kind = "modifyDN"
  /\ \/ Present(loc[t].dir) /\ Loads(t, "remove", Doomed(loc[t]))
     \/ ~Present(loc[t].dir) /\ Fails(t, "died")

-----------------------------------------------------------------------------
\* The server dies, or is stopped, between two commits.
Crash(t) == Crashes /\ t \in Active /\ Fails(t, "crashed")

Step(t) ==
  \/ AddCheck(t) \/ AddParent(t) \/ AddInsert(t)
  \/ DeleteFind(t) \/ DeleteCascade(t)
  \/ MoveFind(t) \/ MoveSuperior(t) \/ MoveCreate(t)
  \/ MoveReparent(t) \/ MoveRepath(t) \/ MoveCascade(t)
  \/ CommitRemoval(t)

Next ==
  \E t \in Requests :
    \/ \E o \in Operations : Begin(t, o)
    \/ Step(t)
    \/ Crash(t)

Spec == Init /\ [][Next]_vars

-----------------------------------------------------------------------------
(* Properties *)

\* The two records of an entry's place agree whenever no operation is in
\* progress: its path is the path of its parent and one RDN, its depth the
\* length of its path. This is "the new parent for the entry (and any of its
\* subordinates)" (modify_dn.py): the subordinates' DNs follow a rename.
PathsFollowTree ==
  Active = {} =>
    \A i \in Entries :
      /\ IF dirs[i].parent = NoParent THEN Len(dirs[i].path) = 1
         ELSE /\ Present(dirs[i].parent)
              /\ Front(dirs[i].path) = dirs[dirs[i].parent].path
      /\ dirs[i].depth = Len(dirs[i].path)

\* No two entries answer to one DN, however its letters are written: a
\* second add gets entryAlreadyExists (tests/test_api/test_main).
UniqueDns ==
  Active = {} =>
    \A i, j \in Entries :
      Lowered(dirs[i].path) = Lowered(dirs[j].path) => i = j

\* Only a delete request deletes contents: a rename carries them over, in
\* whatever state a crash of an earlier rename left the tree.
OnlyDeleteRemoves ==
  [][\A c \in Ids : owner[c] # NoOwner /\ owner'[c] = NoOwner =>
       \E t \in Requests : op[t].kind = "delete" /\ stage[t] = "remove"]_vars

\* The contents in the database are where the path of their entry says.
Placement(table, own) ==
  [c \in {d \in Ids : own[d] # NoOwner} |-> table[own[c]].path]

\* A modify DN takes effect with its third commit, the others with their one.
Effective ==
  {t \in Requests :
     \/ answer[t] = "success"
     \/ op[t].kind = "modifyDN" /\ stage[t] \in {"cascade", "remove"}}

Service == INSTANCE DirectoryService WITH
  place <- Placement(dirs, owner),
  request <- op,
  effect <- Effective,
  SeedPlace <- Placement(Seed, SeedOwner),
  Contents <- Ids

\* The handlers implement atomic operations on a tree of DNs: the commits
\* before and after the one that moves the contents and the paths do not
\* show, and a removal takes a whole subtree.
ImplementsService == Service!Spec
=============================================================================
