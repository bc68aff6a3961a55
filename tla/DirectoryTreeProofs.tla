------------------------ MODULE DirectoryTreeProofs -------------------------
(***************************************************************************)
(* Proofs about DirectoryTree, for any entries, operations and number of   *)
(* them in progress.                                                       *)
(***************************************************************************)
EXTENDS DirectoryTree, SequenceTheorems, WellFoundedInduction, TLAPS

\* What an operation is, and what a rename has loaded, is known from its stage.
StageOf(t) ==
  /\ stage[t] # "idle" => op[t] \in Operations
  /\ stage[t] \in {"check", "parent", "insert"} => op[t].kind = "add"
  /\ stage[t] \in {"superior", "create", "reparent", "repath"} => op[t].kind = "modifyDN"
  /\ stage[t] \in {"find", "cascade", "remove"} => op[t].kind \in {"delete", "modifyDN"}
  /\ stage[t] \in {"superior", "create"} => loc[t].dir \in Ids /\ dirs[loc[t].dir] # Free
  /\ stage[t] \in {"reparent", "repath"} =>
       loc[t].dir \in Ids /\ loc[t].new \in Ids /\ loc[t].new # loc[t].dir

StageInv == \A t \in Requests : StageOf(t)

IInv == TypeOK /\ Valid(dirs) /\ StageInv

-----------------------------------------------------------------------------
(* Types and constraints *)

LEMMA OpFacts ==
  ASSUME NEW o \in Operations
  PROVE  /\ o.kind \in Kinds /\ o.dn \in Dns
         /\ o.kind = "modifyDN" =>
              o.rdn \in Rdns /\ o.superior \in Dns \cup {NoSuperior, BaseDn}
<1>1. CASE o \in AddOps
  BY <1>1, TreeAssumption DEF AddOps, Kinds
<1>2. CASE o \in DeleteOps
  BY <1>2, TreeAssumption DEF DeleteOps, Kinds
<1>3. CASE o \in MoveOps
  <2>1. PICK m \in Moves : o = [kind |-> "modifyDN", dn |-> m[1], rdn |-> m[2], superior |-> m[3]]
    BY <1>3 DEF MoveOps
  <2>2. m[1] \in Dns /\ m[2] \in Rdns /\ m[3] \in Dns \cup {NoSuperior, BaseDn}
    BY TreeAssumption
  <2> QED
    BY <2>1, <2>2 DEF Kinds
<1> QED
  BY <1>1, <1>2, <1>3 DEF Operations

LEMMA NoLoadType == NoLoad \in Loaded
  BY DEF NoLoad, Loaded

LEMMA PathFacts ==
  /\ \A p \in Seq(Rdns), r \in Rdns : Append(p, r) \in Dns
  /\ \A p \in Dns : p \in Seq(Rdns) /\ Len(p) \in Nat \ {0} /\ Last(p) \in Rdns
  BY DEF Dns, Last

LEMMA InitIInv == Init => IInv
<1> SUFFICES ASSUME Init PROVE IInv
  OBVIOUS
<1>1. TypeOK
  BY NoLoadType, TreeAssumption DEF Init, TypeOK, SeedOwner, Stages, Answers
<1>2. Valid(dirs) /\ StageInv
  BY SeedAssumption DEF Init, StageInv, StageOf
<1> QED
  BY <1>1, <1>2 DEF IInv

\* A step of t that keeps the rows: it ends or goes on with what it loaded.
LEMMA KeepsRows ==
  ASSUME IInv, NEW t \in Requests, op' = op,
         NEW s \in Stages, stage' = [stage EXCEPT ![t] = s],
         NEW l \in Loaded, loc' = [loc EXCEPT ![t] = l],
         dirs' \in [Ids -> Row \cup {Free, Gone}], Valid(dirs'),
         \A i \in Ids : dirs[i] # Free => dirs'[i] # Free,
         owner' \in [Ids -> Ids \cup {NoOwner}],
         answer' \in [Requests -> Answers],
         StageOf(t)'
  PROVE  IInv'
<1>1. TypeOK'
  BY DEF IInv, TypeOK
<1>2. ASSUME NEW u \in Requests, u # t
      PROVE  StageOf(u)'
  BY <1>2 DEF IInv, TypeOK, StageInv, StageOf, Loaded
<1> QED
  BY <1>1, <1>2 DEF IInv, StageInv, Valid

LEMMA AnswerKeeps ==
  ASSUME IInv, NEW t \in Active, NEW a \in Answers, Answer(t, a),
         dirs' \in [Ids -> Row \cup {Free, Gone}], Valid(dirs'),
         \A i \in Ids : dirs[i] # Free => dirs'[i] # Free,
         owner' \in [Ids -> Ids \cup {NoOwner}]
  PROVE  IInv'
<1>1. stage' = [stage EXCEPT ![t] = "done"] /\ loc' = [loc EXCEPT ![t] = NoLoad] /\ op' = op
      /\ answer' \in [Requests -> Answers]
  BY DEF Answer, IInv, TypeOK
<1>2. StageOf(t)'
  BY <1>1 DEF IInv, TypeOK, StageInv, StageOf, Active
<1> QED
  BY <1>1, <1>2, KeepsRows, NoLoadType DEF Active, Stages

LEMMA FailsKeeps ==
  ASSUME IInv, NEW t \in Active, NEW a \in Answers, Fails(t, a)
  PROVE  IInv'
  BY AnswerKeeps DEF Fails, IInv, TypeOK

LEMMA LoadsKeeps ==
  ASSUME IInv, NEW t \in Active, NEW s \in Stages, NEW l \in Loaded, Loads(t, s, l), StageOf(t)'
  PROVE  IInv'
<1>1. stage' = [stage EXCEPT ![t] = s] /\ loc' = [loc EXCEPT ![t] = l]
      /\ UNCHANGED <<op, dirs, owner, answer>>
  BY DEF Loads, Goes
<1> QED
  BY <1>1, KeepsRows DEF Active, IInv, TypeOK

LEMMA BeginKeeps ==
  ASSUME IInv, NEW t \in Requests, NEW o \in Operations, Begin(t, o)
  PROVE  IInv'
<1>1. stage' = [stage EXCEPT ![t] = IF o.kind = "add" THEN "check" ELSE "find"]
      /\ op' = [op EXCEPT ![t] = o] /\ UNCHANGED <<dirs, owner, loc, answer>>
  BY DEF Begin
<1>2. TypeOK'
  BY <1>1 DEF IInv, TypeOK, Stages
<1>3. StageOf(t)'
  BY <1>1, OpFacts DEF IInv, TypeOK, StageOf, Kinds
<1>4. ASSUME NEW u \in Requests, u # t
      PROVE  StageOf(u)'
  BY <1>1, <1>4 DEF IInv, TypeOK, StageInv, StageOf
<1> QED
  BY <1>1, <1>2, <1>3, <1>4 DEF IInv, StageInv, Valid

LEMMA RowFacts ==
  ASSUME IInv, NEW i \in Entries
  PROVE  /\ i \in Ids /\ dirs[i] \in Row /\ dirs[i] # Free
         /\ dirs[i].path \in Dns /\ dirs[i].path \in Seq(Rdns) /\ dirs[i].depth \in Nat
         /\ dirs[i].parent \in Entries \cup {NoParent} /\ dirs[i].parent \in Ids \cup {NoParent}
<1>1. i \in Ids /\ dirs[i] \in Row /\ Free \notin Row
  BY TreeAssumption DEF Entries, Present
<1>2. dirs[i].parent \in Entries \cup {NoParent}
  BY <1>1 DEF IInv, Valid, Entries, Present
<1> QED
  BY <1>1, <1>2 DEF Row, Dns

LEMMA AddKeeps ==
  ASSUME IInv, NEW t \in Requests, AddCheck(t) \/ AddParent(t) \/ AddInsert(t)
  PROVE  IInv'
<1>1. t \in Active /\ op[t] \in Operations /\ op[t].kind = "add" /\ op[t].dn \in Dns
  BY OpFacts DEF AddCheck, AddParent, AddInsert, Active, IInv, StageInv, StageOf
<1>2. ASSUME NEW l \in Loaded, NEW s \in {"parent", "insert"}, Loads(t, s, l)
      PROVE  IInv'
  <2>1. StageOf(t)'
    BY <1>1, <1>2 DEF Loads, Goes, StageOf, IInv, TypeOK
  <2> QED
    BY <1>1, <1>2, <2>1, LoadsKeeps DEF Stages
<1>3. ASSUME NEW a \in {"entryAlreadyExists", "noSuchObject"}, Fails(t, a)
      PROVE  IInv'
  BY <1>1, <1>3, FailsKeeps DEF Answers
<1>4. CASE AddCheck(t)
  BY <1>2, <1>3, <1>4, NoLoadType DEF AddCheck
<1>5. CASE AddParent(t)
  <2>1. ASSUME NEW p \in Entries
        PROVE  [NoLoad EXCEPT !.up = p, !.upPath = dirs[p].path,
                              !.near = {p} \cup {i \in Entries : dirs[i].parent = p}] \in Loaded
    BY <2>1, RowFacts, NoLoadType DEF Loaded, Entries
  <2>2. \A dn : At(dn) \subseteq Entries
    BY DEF At
  <2> QED
    BY <1>2, <1>3, <1>5, <2>1, <2>2, NoLoadType DEF AddParent
<1>6. CASE AddInsert(t)
  <2>1. CASE Fails(t, "entryAlreadyExists")
    BY <1>3, <2>1
  <2>2. ASSUME NEW i \in IdsLeft,
               LET table == [dirs EXCEPT ![i] = AddedRow(t)]
               IN  /\ Valid(table) /\ dirs' = table
                   /\ owner' = [owner EXCEPT ![i] = i] /\ Answer(t, "success")
        PROVE  IInv'
    <3>1. AddedRow(t) \in Row
      <4>1. loc[t].up \in Ids \cup {NoParent} /\ loc[t].upPath \in Seq(Rdns)
        BY DEF IInv, TypeOK, Loaded
      <4>2. Last(op[t].dn) \in Rdns
        BY <1>1, PathFacts
      <4>3. NameOf[Last(op[t].dn)] \in Names
        BY <4>2, TreeAssumption
      <4>4. Append(loc[t].upPath, Last(op[t].dn)) \in Dns
        BY <4>1, <4>2, PathFacts
      <4>5. Len(Append(loc[t].upPath, Last(op[t].dn))) \in Nat
        BY <4>4, PathFacts
      <4> QED
        BY <4>1, <4>3, <4>4, <4>5 DEF AddedRow, Row
    <3>2. i \in Ids /\ Free \notin Row
      BY TreeAssumption DEF IdsLeft
    <3>3. dirs' \in [Ids -> Row \cup {Free, Gone}] /\ Valid(dirs')
          /\ \A j \in Ids : dirs[j] # Free => dirs'[j] # Free
      BY <2>2, <3>1, <3>2 DEF IInv, TypeOK
    <3>4. owner' \in [Ids -> Ids \cup {NoOwner}]
      BY <2>2, <3>2 DEF IInv, TypeOK
    <3> QED
      BY <1>1, <2>2, <3>3, <3>4, AnswerKeeps DEF Answers
  <2> QED
    BY <1>6, <2>1, <2>2 DEF AddInsert
<1> QED
  BY <1>4, <1>5, <1>6

LEMMA DoomedType ==
  ASSUME NEW l \in Loaded
  PROVE  Doomed(l) \in Loaded
<1>1. Cascade(l.dir) \subseteq Ids
  BY DEF Cascade
<1> QED
  BY <1>1 DEF Doomed, Loaded

LEMMA DeleteKeeps ==
  ASSUME IInv, NEW t \in Requests, DeleteFind(t) \/ DeleteCascade(t)
  PROVE  IInv'
<1>1. t \in Active /\ op[t] \in Operations /\ op[t].kind = "delete"
  BY DEF DeleteFind, DeleteCascade, Active, IInv, StageInv, StageOf
<1>2. ASSUME NEW l \in Loaded, NEW s \in {"cascade", "remove"}, Loads(t, s, l)
      PROVE  IInv'
  <2>1. StageOf(t)'
    BY <1>1, <1>2 DEF Loads, Goes, StageOf, IInv, TypeOK
  <2> QED
    BY <1>1, <1>2, <2>1, LoadsKeeps DEF Stages
<1>3. CASE DeleteFind(t)
  <2>1. ASSUME NEW i \in At(op[t].dn)
        PROVE  [NoLoad EXCEPT !.dir = i] \in Loaded
    BY <2>1, NoLoadType DEF At, Entries, Loaded
  <2> QED
    BY <1>1, <1>2, <1>3, <2>1, FailsKeeps DEF DeleteFind, Answers
<1>4. CASE DeleteCascade(t)
  <2>1. Doomed(loc[t]) \in Loaded
    BY DoomedType DEF IInv, TypeOK
  <2> QED
    BY <1>2, <1>4, <2>1 DEF DeleteCascade
<1> QED
  BY <1>3, <1>4

LEMMA RemovalKeeps ==
  ASSUME IInv, NEW t \in Requests, CommitRemoval(t)
  PROVE  IInv'
<1> DEFINE l == loc[t]
           table == [i \in Ids |-> IF Present(i) /\ i \in l.doomed THEN Gone ELSE dirs[i]]
           kept == [c \in Ids |-> IF c \in l.contents THEN NoOwner ELSE owner[c]]
<1>1. t \in Active
  BY DEF CommitRemoval, Active
<1>2. CASE Fails(t, "died")
  BY <1>1, <1>2, FailsKeeps DEF Answers
<1>3. CASE Valid(table) /\ dirs' = table /\ owner' = kept /\ Answer(t, "success")
  <2>1. dirs' \in [Ids -> Row \cup {Free, Gone}]
    BY <1>3 DEF IInv, TypeOK
  <2>2. \A i \in Ids : dirs[i] # Free => dirs'[i] # Free
    BY <1>3, TreeAssumption DEF IInv, TypeOK
  <2>3. owner' \in [Ids -> Ids \cup {NoOwner}]
    BY <1>3 DEF IInv, TypeOK
  <2>4. Valid(dirs')
    BY <1>3
  <2> HIDE DEF table, kept
  <2> QED
    BY <1>1, <1>3, <2>1, <2>2, <2>3, <2>4, AnswerKeeps DEF Answers
<1> QED
  BY <1>2, <1>3 DEF CommitRemoval

\* What a rename loads of its entry and of its new parent.
LEMMA MoveLoads ==
  ASSUME IInv, NEW t \in Requests, MoveFind(t) \/ MoveSuperior(t)
  PROVE  IInv'
<1>1. t \in Active /\ op[t] \in Operations /\ op[t].kind = "modifyDN"
  BY DEF MoveFind, MoveSuperior, Active, IInv, StageInv, StageOf
<1>2. ASSUME NEW l \in Loaded, NEW s \in {"superior", "create"}, Loads(t, s, l),
             l.dir \in Ids, dirs[l.dir] # Free
      PROVE  IInv'
  <2>1. StageOf(t)'
    BY <1>1, <1>2 DEF Loads, Goes, StageOf, IInv, TypeOK
  <2> QED
    BY <1>1, <1>2, <2>1, LoadsKeeps DEF Stages
<1>3. CASE Fails(t, "noSuchObject")
  BY <1>1, <1>3, FailsKeeps DEF Answers
<1>4. CASE MoveFind(t)
  <2>1. ASSUME NEW i \in At(op[t].dn),
               LET sup == op[t].superior
                   row == dirs[i]
                   entry == [NoLoad EXCEPT !.dir = i, !.path = row.path,
                                           !.depth = row.depth]
               IN  \/ /\ sup = NoSuperior
                      /\ Loads(t, "create",
                           [entry EXCEPT
                              !.up = row.parent,
                              !.upPath = IF row.parent = NoParent THEN <<>>
                                         ELSE dirs[row.parent].path,
                              !.newDepth = row.depth])
                   \/ /\ sup = BaseDn
                      /\ Loads(t, "create", [entry EXCEPT !.newDepth = 1])
                   \/ /\ sup \in Dns
                      /\ Loads(t, "superior", entry)
        PROVE  IInv'
    <3> DEFINE row == dirs[i]
               entry == [NoLoad EXCEPT !.dir = i, !.path = row.path, !.depth = row.depth]
               above == IF row.parent = NoParent THEN <<>> ELSE dirs[row.parent].path
               same == [entry EXCEPT !.up = row.parent, !.upPath = above,
                                     !.newDepth = row.depth]
               base == [entry EXCEPT !.newDepth = 1]
    <3>1. i \in Entries
      BY DEF At
    <3>2. /\ i \in Ids /\ dirs[i] # Free /\ row.path \in Seq(Rdns) /\ row.depth \in Nat
          /\ row.parent \in Ids \cup {NoParent} /\ row.parent \in Entries \cup {NoParent}
      BY <3>1, RowFacts
    <3>3. above \in Seq(Rdns)
      BY <3>2, RowFacts
    <3>4. entry \in Loaded /\ entry.dir = i
      BY <3>2, NoLoadType DEF Loaded, NoLoad
    <3> HIDE DEF above
    <3>5. same \in Loaded /\ same.dir = i /\ base \in Loaded /\ base.dir = i
      BY <3>2, <3>3, <3>4 DEF Loaded
    <3>6. Loads(t, "create", same) \/ Loads(t, "create", base) \/ Loads(t, "superior", entry)
      BY <2>1 DEF above
    <3> HIDE DEF row, entry, same, base
    <3> QED
      BY <1>2, <3>2, <3>4, <3>5, <3>6
  <2> QED
    BY <1>3, <1>4, <2>1 DEF MoveFind
<1>5. CASE MoveSuperior(t)
  <2>1. ASSUME NEW p \in At(op[t].superior),
               Loads(t, "create",
                     [loc[t] EXCEPT !.up = p, !.upPath = dirs[p].path,
                                    !.newDepth = Len(dirs[p].path) + 1])
        PROVE  IInv'
    <3> DEFINE l == [loc[t] EXCEPT !.up = p, !.upPath = dirs[p].path,
                                   !.newDepth = Len(dirs[p].path) + 1]
    <3>1. p \in Ids /\ dirs[p].path \in Seq(Rdns) /\ Len(dirs[p].path) + 1 \in Nat
      BY RowFacts DEF At
    <3>2. loc[t] \in Loaded /\ loc[t].dir \in Ids /\ dirs[loc[t].dir] # Free
      BY <1>5 DEF MoveSuperior, IInv, TypeOK, StageInv, StageOf
    <3>3. l \in Loaded /\ l.dir = loc[t].dir
      BY <3>1, <3>2 DEF Loaded
    <3> HIDE DEF l
    <3> QED
      BY <1>2, <2>1, <3>2, <3>3 DEF l
  <2> QED
    BY <1>3, <1>5, <2>1 DEF MoveSuperior
<1> QED
  BY <1>4, <1>5

\* The new row, which another place than the old one's.
LEMMA CreateKeeps ==
  ASSUME IInv, NEW t \in Requests, MoveCreate(t)
  PROVE  IInv'
<1>1. /\ t \in Active /\ op[t] \in Operations /\ op[t].kind = "modifyDN"
      /\ op[t].rdn \in Rdns /\ loc[t].dir \in Ids /\ dirs[loc[t].dir] # Free
      /\ loc[t] \in Loaded
  BY OpFacts DEF MoveCreate, Active, IInv, TypeOK, StageInv, StageOf
<1>2. CASE Fails(t, "died")
  BY <1>1, <1>2, FailsKeeps DEF Answers
<1>3. ASSUME NEW n \in IdsLeft,
             LET row == [parent |-> loc[t].up, name |-> NameOf[op[t].rdn],
                         path |-> NewPath(t), depth |-> loc[t].newDepth]
                 table == [dirs EXCEPT ![n] = row]
             IN  /\ Valid(table) /\ dirs' = table
                 /\ Goes(t, "reparent", [loc[t] EXCEPT !.new = n]) /\ UNCHANGED owner
      PROVE  IInv'
  <2> DEFINE row == [parent |-> loc[t].up, name |-> NameOf[op[t].rdn],
                     path |-> NewPath(t), depth |-> loc[t].newDepth]
             l == [loc[t] EXCEPT !.new = n]
  <2>1. row \in Row
    <3>1. loc[t].up \in Ids \cup {NoParent} /\ loc[t].upPath \in Seq(Rdns) /\ loc[t].newDepth \in Nat
      BY <1>1 DEF Loaded
    <3>2. NameOf[op[t].rdn] \in Names
      BY <1>1, TreeAssumption
    <3>3. NewPath(t) \in Dns
      BY <1>1, <3>1, PathFacts DEF NewPath
    <3> QED
      BY <3>1, <3>2, <3>3 DEF Row
  <2>2. n \in Ids /\ dirs[n] = Free /\ Free \notin Row
    BY TreeAssumption DEF IdsLeft
  <2>3. dirs' = [dirs EXCEPT ![n] = row] /\ Valid(dirs')
    BY <1>3
  <2> HIDE DEF row
  <2>4. dirs' \in [Ids -> Row \cup {Free, Gone}]
        /\ \A j \in Ids : dirs[j] # Free => dirs'[j] # Free
    BY <2>1, <2>2, <2>3 DEF IInv, TypeOK
  <2>5. l \in Loaded /\ l.dir = loc[t].dir /\ l.new = n
    BY <1>1, <2>2 DEF Loaded
  <2>6. /\ stage' = [stage EXCEPT ![t] = "reparent"] /\ loc' = [loc EXCEPT ![t] = l]
        /\ UNCHANGED <<op, owner, answer>>
    BY <1>3 DEF Goes
  <2> HIDE DEF l
  <2>7. StageOf(t)'
    BY <1>1, <2>2, <2>5, <2>6 DEF StageOf, IInv, TypeOK
  <2>8. "reparent" \in Stages
    BY DEF Stages
  <2> QED
    BY <2>3, <2>4, <2>5, <2>6, <2>7, <2>8, KeepsRows DEF IInv, TypeOK
<1> QED
  BY <1>2, <1>3 DEF MoveCreate

LEMMA ReparentKeeps ==
  ASSUME IInv, NEW t \in Requests, MoveReparent(t)
  PROVE  IInv'
<1> DEFINE l == loc[t]
           table == [i \in Ids |-> IF Present(i) /\ dirs[i].parent = l.dir
                                   THEN [dirs[i] EXCEPT !.parent = l.new]
                                   ELSE dirs[i]]
<1>1. /\ t \in Active /\ op[t] \in Operations /\ op[t].kind = "modifyDN" /\ l \in Loaded
      /\ l.dir \in Ids /\ l.new \in Ids /\ l.new # l.dir
  BY DEF MoveReparent, Active, IInv, TypeOK, StageInv, StageOf
<1>2. CASE Fails(t, "died")
  BY <1>1, <1>2, FailsKeeps DEF Answers
<1>3. CASE Valid(table) /\ dirs' = table /\ Goes(t, "repath", l) /\ UNCHANGED owner
  <2>1. \A i \in Ids : dirs'[i] \in Row \cup {Free, Gone} /\ (dirs[i] # Free => dirs'[i] # Free)
    <3> TAKE i \in Ids
    <3>1. CASE Present(i) /\ dirs[i].parent = l.dir
      <4>1. dirs'[i] = [dirs[i] EXCEPT !.parent = l.new] /\ dirs[i] \in Row
        BY <1>3, <3>1 DEF Present
      <4>2. dirs'[i] \in Row
        BY <1>1, <4>1 DEF Row
      <4> QED
        BY <4>2, TreeAssumption
    <3>2. CASE ~(Present(i) /\ dirs[i].parent = l.dir)
      BY <1>3, <3>2 DEF IInv, TypeOK
    <3> QED
      BY <3>1, <3>2
  <2>2. dirs' \in [Ids -> Row \cup {Free, Gone}] /\ Valid(dirs')
    BY <1>3, <2>1
  <2>3. /\ stage' = [stage EXCEPT ![t] = "repath"] /\ loc' = [loc EXCEPT ![t] = l]
        /\ UNCHANGED <<op, owner, answer>>
    BY <1>3 DEF Goes
  <2>4. StageOf(t)'
    BY <1>1, <2>3 DEF StageOf, IInv, TypeOK
  <2>5. "repath" \in Stages
    BY DEF Stages
  <2> HIDE DEF table
  <2> QED
    BY <1>1, <2>1, <2>2, <2>3, <2>4, <2>5, KeepsRows DEF IInv, TypeOK
<1> QED
  BY <1>2, <1>3 DEF MoveReparent

LEMMA RepathKeeps ==
  ASSUME IInv, NEW t \in Requests, MoveRepath(t)
  PROVE  IInv'
<1> DEFINE l == loc[t]
           moved == {c \in Ids : owner[c] = l.dir}
           Moved(path) == NewPath(t) \o Slice(path, l.depth + 1, Len(path))
<1>1. /\ t \in Active /\ op[t] \in Operations /\ op[t].kind = "modifyDN" /\ l \in Loaded
      /\ l.dir \in Ids /\ l.new \in Ids /\ op[t].rdn \in Rdns
  BY OpFacts DEF MoveRepath, Active, IInv, TypeOK, StageInv, StageOf
<1>2. CASE Fails(t, "died")
  BY <1>1, <1>2, FailsKeeps DEF Answers
<1>3. ASSUME owner' = [c \in Ids |-> IF c \in moved THEN l.new ELSE owner[c]],
             dirs' = [i \in Ids |->
                        IF Present(i) /\ Subordinate(dirs[i].path, l)
                        THEN [dirs[i] EXCEPT !.path = Moved(@)]
                        ELSE dirs[i]],
             Goes(t, "cascade", l)
      PROVE  IInv'
  <2>1. \A path \in Dns : Moved(path) \in Dns
    <3> TAKE path \in Dns
    <3>0. path \in Seq(Rdns) /\ Len(path) \in Nat
      BY PathFacts
    <3>1. l.depth \in Nat /\ l.upPath \in Seq(Rdns)
      BY <1>1 DEF Loaded
    <3> DEFINE m == l.depth + 1
    <3>a. m \in Nat /\ 1 <= m
      BY <3>1
    <3>b. Slice(path, m, Len(path)) = SubSeq(path, m, Len(path))
      BY <3>0 DEF Slice
    <3> HIDE DEF m
    <3>2. SubSeq(path, m, Len(path)) \in Seq(Rdns)
      <4>1. \A i \in m..Len(path) : path[i] \in Rdns
        BY <3>0, <3>a
      <4> QED
        BY <3>0, <3>a, <4>1, SubSeqProperties
    <3>3. NewPath(t) \in Seq(Rdns) /\ NewPath(t) # <<>>
      BY <1>1, <3>1, PathFacts DEF NewPath, Dns
    <3> QED
      <4>1. NewPath(t) \o SubSeq(path, m, Len(path)) \in Seq(Rdns) \ {<<>>}
        BY <3>2, <3>3, ConcatProperties, ConcatSimplifications
      <4>2. Moved(path) = NewPath(t) \o SubSeq(path, m, Len(path))
        BY <3>b DEF Moved, m
      <4> QED
        BY <4>1, <4>2 DEF Dns
  <2> HIDE DEF Moved
  <2>2. \A i \in Ids :
          /\ dirs'[i] \in Row \cup {Free, Gone}
          /\ dirs'[i] \in Row <=> dirs[i] \in Row
          /\ dirs[i] # Free => dirs'[i] # Free
          /\ dirs[i] \in Row => dirs'[i].parent = dirs[i].parent /\ dirs'[i].name = dirs[i].name
    <3> TAKE i \in Ids
    <3>1. CASE Present(i) /\ Subordinate(dirs[i].path, l)
      <4>1. dirs'[i] = [dirs[i] EXCEPT !.path = Moved(dirs[i].path)] /\ dirs[i] \in Row
        BY <1>3, <3>1 DEF Present
      <4>2. dirs'[i] \in Row
            /\ dirs'[i].parent = dirs[i].parent /\ dirs'[i].name = dirs[i].name
        BY <2>1, <4>1 DEF Row
      <4> QED
        BY <4>1, <4>2, TreeAssumption
    <3>2. CASE ~(Present(i) /\ Subordinate(dirs[i].path, l))
      BY <1>3, <3>2 DEF IInv, TypeOK
    <3> QED
      BY <3>1, <3>2
  <2>3. dirs' \in [Ids -> Row \cup {Free, Gone}]
    BY <1>3, <2>2
  <2>4. Valid(dirs')
    BY <2>2 DEF IInv, Valid
  <2>5. owner' \in [Ids -> Ids \cup {NoOwner}]
    BY <1>1, <1>3 DEF IInv, TypeOK
  <2>6. /\ stage' = [stage EXCEPT ![t] = "cascade"] /\ loc' = [loc EXCEPT ![t] = l]
        /\ UNCHANGED <<op, answer>>
    BY <1>3 DEF Goes
  <2>7. StageOf(t)'
    BY <1>1, <2>6 DEF StageOf, IInv, TypeOK
  <2>8. "cascade" \in Stages
    BY DEF Stages
  <2> QED
    BY <1>1, <2>2, <2>3, <2>4, <2>5, <2>6, <2>7, <2>8, KeepsRows DEF IInv, TypeOK
<1> QED
  BY <1>2, <1>3 DEF MoveRepath

LEMMA CascadeKeeps ==
  ASSUME IInv, NEW t \in Requests, MoveCascade(t)
  PROVE  IInv'
<1>1. /\ t \in Active /\ op[t] \in Operations /\ op[t].kind = "modifyDN"
      /\ Doomed(loc[t]) \in Loaded
  BY DoomedType DEF MoveCascade, Active, IInv, TypeOK, StageInv, StageOf
<1>2. CASE Fails(t, "died")
  BY <1>1, <1>2, FailsKeeps DEF Answers
<1>3. CASE Loads(t, "remove", Doomed(loc[t]))
  <2>1. StageOf(t)'
    BY <1>1, <1>3 DEF Loads, Goes, StageOf, IInv, TypeOK
  <2> QED
    BY <1>1, <1>3, <2>1, LoadsKeeps DEF Stages
<1> QED
  BY <1>2, <1>3 DEF MoveCascade

LEMMA StepKeeps ==
  ASSUME IInv, NEW t \in Requests, Step(t)
  PROVE  IInv'
  BY AddKeeps, DeleteKeeps, MoveLoads, CreateKeeps, ReparentKeeps, RepathKeeps, CascadeKeeps,
     RemovalKeeps
     DEF Step

LEMMA NextIInv == IInv /\ [Next]_vars => IInv'
<1> SUFFICES ASSUME IInv, [Next]_vars PROVE IInv'
  OBVIOUS
<1>1. CASE UNCHANGED vars
  BY <1>1 DEF vars, IInv, TypeOK, Valid, StageInv, StageOf
<1>2. ASSUME NEW t \in Requests, Crash(t)
      PROVE  IInv'
  BY <1>2, FailsKeeps DEF Crash, Answers
<1> QED
  BY <1>1, <1>2, BeginKeeps, StepKeeps DEF Next

LEMMA IInvHolds == Spec => []IInv
  BY InitIInv, NextIInv, PTL DEF Spec

\* The parent of every entry is there, no two entries have one name below one
\* parent, and rows and what operations have loaded keep their types, whatever is
\* added, renamed and deleted at once or cut off (models/ldap3.py, Directory).
THEOREM TreeTypeCorrect == Spec => [](TypeOK /\ Valid(dirs))
<1>1. IInv => TypeOK /\ Valid(dirs)
  BY DEF IInv
<1> QED
  BY <1>1, IInvHolds, PTL

-----------------------------------------------------------------------------
(* Only a delete request deletes contents *)

Moving(t) == t \in Active /\ op[t].kind = "modifyDN"

\* A rename that no other operation runs beside has left nothing below the old
\* row when it deletes it, and then nothing in it.
Carried(t) ==
  /\ stage[t] \in {"repath", "cascade"} =>
       loc[t].dir \in Ids /\ \A i \in Entries : dirs[i].parent # loc[t].dir
  /\ stage[t] = "cascade" => \A c \in Ids : owner[c] # loc[t].dir
  /\ stage[t] = "remove" => loc[t].contents = {}

CarryInv ==
  \A t \in Requests : Moving(t) => (\A u \in Active : u = t) /\ Carried(t)

\* Whatever step of another operation there is, it begins when this one ended.
LEMMA OthersWait ==
  ASSUME "modifyDN" \in Alone, CarryInv, NEW t \in Requests, Moving(t), NEW u \in Requests \ {t}
  PROVE  /\ u \notin Active
         /\ \A o \in Operations : ~Begin(u, o)
         /\ ~Step(u) /\ ~Crash(u)
<1>1. u \notin Active
  BY DEF CarryInv
<1>2. ~Step(u) /\ ~Crash(u)
  BY <1>1 DEF Active, Step, Crash, AddCheck, AddParent, AddInsert, DeleteFind, DeleteCascade,
              MoveFind, MoveSuperior, MoveCreate, MoveReparent, MoveRepath, MoveCascade,
              CommitRemoval
<1>3. \A o \in Operations : ~Begin(u, o)
  BY DEF Begin, Moving
<1> QED
  BY <1>1, <1>2, <1>3

\* The operation that takes a step is in progress, and stays what it is; no
\* other one moves.
LEMMA StepMoves ==
  ASSUME IInv, NEW t \in Requests, Step(t) \/ Crash(t)
  PROVE  /\ t \in Active /\ op' = op /\ stage'[t] # "idle"
         /\ stage'[t] # "done" => answer'[t] = answer[t]
         /\ \A u \in Requests \ {t} :
              stage'[u] = stage[u] /\ loc'[u] = loc[u] /\ answer'[u] = answer[u]
<1>1. t \in Active
  BY DEF Active, Step, Crash, AddCheck, AddParent, AddInsert, DeleteFind, DeleteCascade,
         MoveFind, MoveSuperior, MoveCreate, MoveReparent, MoveRepath, MoveCascade,
         CommitRemoval
<1>2. \/ \E a : Answer(t, a)
      \/ \E s \in Stages \ {"idle"} : \E l : Goes(t, s, l)
  <2>1. CASE AddCheck(t) \/ AddParent(t) \/ AddInsert(t)
    BY <2>1 DEF AddCheck, AddParent, AddInsert, Fails, Loads, Stages
  <2>2. CASE DeleteFind(t) \/ DeleteCascade(t) \/ CommitRemoval(t) \/ Crash(t)
    BY <2>2 DEF DeleteFind, DeleteCascade, CommitRemoval, Crash, Fails, Loads, Stages
  <2>3. CASE MoveFind(t) \/ MoveSuperior(t) \/ MoveCreate(t)
    BY <2>3 DEF MoveFind, MoveSuperior, MoveCreate, Fails, Loads, Stages
  <2>4. CASE MoveReparent(t) \/ MoveRepath(t) \/ MoveCascade(t)
    BY <2>4 DEF MoveReparent, MoveRepath, MoveCascade, Fails, Loads, Stages
  <2> QED
    BY <2>1, <2>2, <2>3, <2>4 DEF Step
<1> QED
  BY <1>1, <1>2 DEF Answer, Goes, IInv, TypeOK

\* The steps of a rename carry what is below the entry and what is in it over.
LEMMA StepCarries ==
  ASSUME IInv, NEW t \in Requests, Moving(t), Carried(t), Step(t) \/ Crash(t),
         stage'[t] \in {"repath", "cascade", "remove"}
  PROVE  Carried(t)'
<1>1. CASE MoveReparent(t)
  <2>1. /\ loc'[t] = loc[t] /\ stage'[t] = "repath"
        /\ dirs' = [i \in Ids |-> IF Present(i) /\ dirs[i].parent = loc[t].dir
                                  THEN [dirs[i] EXCEPT !.parent = loc[t].new]
                                  ELSE dirs[i]]
    BY <1>1 DEF MoveReparent, Goes, Fails, Answer, IInv, TypeOK
  <2>2. loc[t].dir \in Ids /\ loc[t].new # loc[t].dir
    BY <1>1 DEF MoveReparent, IInv, StageInv, StageOf
  <2>3. \A i \in Ids : dirs'[i] \in Row => dirs'[i].parent # loc[t].dir
    <3> TAKE i \in Ids
    <3>1. CASE Present(i) /\ dirs[i].parent = loc[t].dir
      BY <2>1, <2>2, <3>1 DEF Present, Row
    <3>2. CASE ~(Present(i) /\ dirs[i].parent = loc[t].dir)
      BY <2>1, <3>2 DEF Present
    <3> QED
      BY <3>1, <3>2
  <2> QED
    BY <2>1, <2>2, <2>3 DEF Carried, Entries, Present
<1>2. CASE MoveRepath(t)
  <2>1. /\ loc'[t] = loc[t] /\ stage'[t] = "cascade" /\ stage[t] = "repath"
        /\ \A c \in Ids : owner'[c] = IF owner[c] = loc[t].dir THEN loc[t].new ELSE owner[c]
    BY <1>2 DEF MoveRepath, Goes, Fails, Answer, IInv, TypeOK
  <2>2. loc[t].new # loc[t].dir
    BY <1>2 DEF MoveRepath, IInv, StageInv, StageOf
  <2>3. \A i \in Ids : dirs'[i] = dirs[i] \/ (Present(i) /\ dirs'[i].parent = dirs[i].parent)
    <3> TAKE i \in Ids
    <3> DEFINE l == loc[t]
               path == NewPath(t) \o Slice(dirs[i].path, l.depth + 1, Len(dirs[i].path))
    <3>1. dirs'[i] = IF Present(i) /\ Subordinate(dirs[i].path, l)
                     THEN [dirs[i] EXCEPT !.path = path]
                     ELSE dirs[i]
      BY <1>2, <2>1 DEF MoveRepath, Fails, Answer, IInv, TypeOK
    <3> HIDE DEF path
    <3> QED
      BY <3>1 DEF Present, Row
  <2> QED
    BY <2>1, <2>2, <2>3 DEF Carried, Entries, Present
<1>3. CASE MoveCascade(t)
  <2>1. /\ loc'[t] = Doomed(loc[t]) /\ stage'[t] = "remove" /\ stage[t] = "cascade"
    BY <1>3 DEF MoveCascade, Loads, Goes, Fails, Answer, IInv, TypeOK
  <2>2. Cascade(loc[t].dir) \subseteq {loc[t].dir}
    <3>1. {loc[t].dir} \in SUBSET Ids /\ \A k \in Entries : dirs[k].parent \notin {loc[t].dir}
      BY <2>1 DEF Carried
    <3> QED
      BY <3>1 DEF Cascade
  <2>3. \A c \in Ids : owner[c] \notin Cascade(loc[t].dir)
    BY <2>1, <2>2 DEF Carried
  <2>4. loc[t] \in Loaded
    BY DEF IInv, TypeOK
  <2>5. Doomed(loc[t]).contents = {}
    BY <2>3, <2>4 DEF Doomed, Loaded
  <2> QED
    BY <2>1, <2>5 DEF Carried
<1>4. CASE \/ AddCheck(t) \/ AddParent(t) \/ AddInsert(t) \/ DeleteFind(t) \/ DeleteCascade(t)
           \/ MoveFind(t) \/ MoveSuperior(t) \/ MoveCreate(t) \/ CommitRemoval(t) \/ Crash(t)
  <2>1. ~(AddCheck(t) \/ AddParent(t) \/ AddInsert(t) \/ DeleteFind(t) \/ DeleteCascade(t))
    BY DEF Moving, AddCheck, AddParent, AddInsert, DeleteFind, DeleteCascade, IInv, StageInv,
           StageOf
  <2>2. stage'[t] \in {"done", "superior", "create", "reparent"}
    BY <1>4, <2>1
       DEF MoveFind, MoveSuperior, MoveCreate, CommitRemoval, Crash, Fails, Loads, Goes, Answer,
           IInv, TypeOK
  <2> QED
    BY <2>2
<1> QED
  BY <1>1, <1>2, <1>3, <1>4 DEF Step

LEMMA NextCarry ==
  ASSUME "modifyDN" \in Alone, IInv, CarryInv, [Next]_vars
  PROVE  CarryInv'
<1>1. CASE UNCHANGED vars
  BY <1>1 DEF vars, CarryInv, Moving, Active, Carried, Entries, Present
<1>2. ASSUME NEW t \in Requests, NEW o \in Operations, Begin(t, o)
      PROVE  CarryInv'
  <2>1. /\ stage[t] = "idle" /\ stage'[t] \in {"check", "find"} /\ op'[t] = o
        /\ \A u \in Requests \ {t} : stage'[u] = stage[u] /\ op'[u] = op[u]
    BY <1>2 DEF Begin, IInv, TypeOK
  <2>2. \A u \in Requests \ {t} : ~Moving(u)
    BY <1>2, OthersWait
  <2>3. o.kind = "modifyDN" => Active = {}
    BY <1>2 DEF Begin
  <2>4. \A u \in Active' : u \in Active \/ u = t
    BY <2>1 DEF Active
  <2>5. \A u \in Requests : Moving(u)' => u = t /\ o.kind = "modifyDN"
    BY <2>1, <2>2 DEF Moving, Active
  <2>6. Carried(t)'
    BY <2>1 DEF Carried
  <2> QED
    BY <2>3, <2>4, <2>5, <2>6 DEF CarryInv
<1>3. ASSUME NEW t \in Requests, Step(t) \/ Crash(t)
      PROVE  CarryInv'
  <2>1. /\ t \in Active /\ op' = op
        /\ \A u \in Requests \ {t} : stage'[u] = stage[u] /\ loc'[u] = loc[u]
    BY <1>3, StepMoves
  <2>2. \A u \in Requests \ {t} : ~Moving(u)
    BY <1>3, OthersWait
  <2>3. \A u \in Requests : Moving(u)' => u = t /\ Moving(t)
    BY <2>1, <2>2 DEF Moving, Active
  <2>4. \A u \in Active' : u \in Active
    BY <2>1 DEF Active
  <2>5. Moving(t) => Carried(t)'
    <3>1. CASE stage'[t] \in {"repath", "cascade", "remove"}
      BY <1>3, <3>1, StepCarries DEF CarryInv
    <3>2. CASE stage'[t] \notin {"repath", "cascade", "remove"}
      BY <3>2 DEF Carried
    <3> QED
      BY <3>1, <3>2
  <2> QED
    BY <2>3, <2>4, <2>5 DEF CarryInv
<1> QED
  BY <1>1, <1>2, <1>3 DEF Next

\* The statement a step makes about contents.
LEMMA StepRemoves ==
  ASSUME IInv, CarryInv, [Next]_vars,
         NEW c \in Ids, owner[c] # NoOwner, owner'[c] = NoOwner
  PROVE  \E t \in Requests : op[t].kind = "delete" /\ stage[t] = "remove"
<1>1. PICK t \in Requests : (\E o \in Operations : Begin(t, o)) \/ Step(t) \/ Crash(t)
  BY DEF Next, vars
<1>2. owner' # owner
  OBVIOUS
<1>3. AddInsert(t) \/ MoveRepath(t) \/ CommitRemoval(t)
  BY <1>1, <1>2
     DEF Begin, Step, Crash, AddCheck, AddParent, DeleteFind, DeleteCascade, MoveFind,
         MoveSuperior, MoveCreate, MoveReparent, MoveCascade, Fails, Loads
<1>4. ~AddInsert(t)
  <2>1. SUFFICES ASSUME NEW i \in IdsLeft, owner' = [owner EXCEPT ![i] = i]
                 PROVE  FALSE
    BY <1>2 DEF AddInsert, Fails
  <2> QED
    BY <2>1, TreeAssumption DEF IdsLeft, IInv, TypeOK
<1>5. ~MoveRepath(t)
  <2>1. SUFFICES ASSUME MoveRepath(t),
                        owner'[c] = loc[t].new \/ owner'[c] = owner[c]
                 PROVE  FALSE
    BY <1>2 DEF MoveRepath, Fails
  <2> QED
    BY <2>1, TreeAssumption DEF MoveRepath, IInv, StageInv, StageOf
<1>6. CommitRemoval(t) /\ stage[t] = "remove" /\ op[t].kind \in {"delete", "modifyDN"}
  BY <1>3, <1>4, <1>5 DEF CommitRemoval, IInv, StageInv, StageOf
<1>7. op[t].kind # "modifyDN"
  <2>1. SUFFICES ASSUME op[t].kind = "modifyDN" PROVE FALSE
    OBVIOUS
  <2>2. loc[t].contents = {}
    BY <1>6, <2>1 DEF CarryInv, Moving, Active, Carried
  <2>3. owner'[c] = owner[c]
    BY <1>2, <1>6, <2>2 DEF CommitRemoval, Fails
  <2> QED
    BY <2>3
<1> QED
  BY <1>6, <1>7

\* Where no operation runs beside a modify DN, only delete requests delete
\* contents, however often and wherever the server dies.
THEOREM OnlyDeleteRemovesHolds ==
  ASSUME "modifyDN" \in Alone
  PROVE  Spec => OnlyDeleteRemoves
<1>1. Init => CarryInv
  BY DEF Init, CarryInv, Moving, Active
<1>2. IInv /\ CarryInv /\ [Next]_vars => CarryInv'
  BY NextCarry
<1>3. IInv /\ CarryInv /\ [Next]_vars =>
        [\A c \in Ids : owner[c] # NoOwner /\ owner'[c] = NoOwner =>
           \E t \in Requests : op[t].kind = "delete" /\ stage[t] = "remove"]_vars
  BY StepRemoves
<1> QED
  BY <1>1, <1>2, <1>3, IInvHolds, PTL DEF Spec, OnlyDeleteRemoves

-----------------------------------------------------------------------------
(* The tree and the paths agree, where a modify DN runs alone *)

\* d is the path p or that of an entry above it; q is the path right above p.
Above(d, p) == Len(d) <= Len(p) /\ \A k \in 1..Len(d) : d[k] = p[k]
Child(q, p) == Len(p) = Len(q) + 1 /\ \A k \in 1..Len(q) : p[k] = q[k]

\* A row is below the row up, and the last RDN of its path is its name.
PlacedAt(row, up) ==
  /\ row.name = NameOf[Last(row.path)]
  /\ row.depth = Len(row.path)
  /\ Child(up, row.path)

PathAbove(table, i) ==
  IF table[i].parent = NoParent THEN <<>> ELSE table[table[i].parent].path

Placed(table, i) == PlacedAt(table[i], PathAbove(table, i))

\* The rows S are all in their places, and each in one of its own.
Unique(table, S) == \A i, j \in S : table[i].path = table[j].path => i = j
Settled(table, S) == (\A i \in S : Placed(table, i)) /\ Unique(table, S)

\* All contents are those of a row of S, and every row of S has some.
Filled(S) ==
  /\ \A c \in Ids : owner[c] # NoOwner => owner[c] \in S
  /\ \A i \in S : \E c \in Ids : owner[c] = i

\* What the runs of the tree assume: lower case, moves that keep the level
\* of the entry, and no crash.
LowerCase == \A r \in Rdns : Lower[r] = r
LevelKept ==
  \A m \in Moves :
    \/ m[3] = NoSuperior
    \/ m[3] = BaseDn /\ Len(m[1]) = 1
    \/ m[3] \in Dns /\ Len(m[1]) = Len(m[3]) + 1
SeedRows == {i \in Ids : Seed[i] \in Row}
Orderly ==
  LowerCase /\ LevelKept /\ "modifyDN" \in Alone /\ ~Crashes /\ Settled(Seed, SeedRows)

\* A modify DN between its first commit and its last.
Halfway(t) == Moving(t) /\ stage[t] \in {"reparent", "repath", "cascade", "remove"}

\* Where the new row will be, as DirectoryService has it.
Target(t) ==
  CASE op[t].superior = NoSuperior -> Front(op[t].dn) [] op[t].superior = BaseDn -> <<>>
    [] OTHER -> op[t].superior

\* A rename has loaded the entry it was asked for.
HasEntry(t) ==
  /\ loc[t].dir \in Entries /\ dirs[loc[t].dir].path = op[t].dn
  /\ loc[t].path = op[t].dn /\ loc[t].depth = Len(op[t].dn)

HasTarget(t) == loc[t].upPath = Target(t) /\ Child(loc[t].upPath, NewPath(t))
                /\ Len(NewPath(t)) = Len(op[t].dn)

\* Until its third commit, a rename has an empty row at a place where there
\* is nothing else; then that row has everything.
HalfwayInv(t) ==
  LET old == loc[t].dir
      new == loc[t].new
  IN  /\ new \in Entries \ {old} /\ old \in Entries
      /\ dirs[new].path = NewPath(t)
      /\ stage[t] \in {"reparent", "repath"} =>
           /\ HasEntry(t) /\ HasTarget(t)
           /\ Placed(dirs, new) /\ Unique(dirs, Entries)
           /\ Filled(Entries \ {new})
           /\ \A i \in Entries \ {new} : ~Above(NewPath(t), dirs[i].path)
      /\ stage[t] = "reparent" =>
           \A i \in Entries : Placed(dirs, i) /\ dirs[i].parent # new
      /\ stage[t] = "repath" =>
           \A i \in Entries : IF dirs[i].parent = new THEN PlacedAt(dirs[i], op[t].dn)
                              ELSE Placed(dirs, i)
      /\ stage[t] \in {"cascade", "remove"} =>
           /\ Settled(dirs, Entries \ {old}) /\ Filled(Entries \ {old})
           /\ \A i \in Entries : dirs[i].parent # old
      /\ stage[t] = "remove" => loc[t].doomed = {old}

\* The entry of a delete is gone because another one deleted it.
Forestalled(t) ==
  \E u \in Effective : op[u].kind = "delete" /\ Above(op[u].dn, op[t].dn)

\* What an add and a delete know of the entry above and of the subtree.
KnowsParent(t) ==
  \/ loc[t].up = NoParent /\ loc[t].upPath = <<>> /\ Len(op[t].dn) = 1
  \/ /\ loc[t].up \in Ids /\ dirs[loc[t].up] # Free
     /\ loc[t].upPath \in Dns /\ Child(loc[t].upPath, op[t].dn)
     /\ Present(loc[t].up) => dirs[loc[t].up].path = loc[t].upPath
KnowsEntry(t) ==
  /\ loc[t].dir \in Ids /\ dirs[loc[t].dir] # Free
  /\ IF Present(loc[t].dir) THEN dirs[loc[t].dir].path = op[t].dn ELSE Forestalled(t)
KnowsDoomed(t) ==
  /\ loc[t].dir \in loc[t].doomed
  /\ \A i \in loc[t].doomed :
       /\ dirs[i] # Free
       /\ Present(i) => Present(loc[t].dir) /\ Above(op[t].dn, dirs[i].path)
  /\ \A c \in loc[t].contents :
       dirs[c] # Free /\ owner[c] \in loc[t].doomed \cup {NoOwner}

Knows(t) ==
  /\ stage[t] = "insert" => KnowsParent(t)
  /\ op[t].kind = "delete" =>
       /\ stage[t] \in {"cascade", "remove"} => KnowsEntry(t)
       /\ stage[t] = "remove" => KnowsDoomed(t)
  /\ stage[t] \in {"superior", "create"} => HasEntry(t)
  /\ stage[t] = "superior" => op[t].superior \in Dns /\ Len(op[t].dn) = Len(op[t].superior) + 1
  /\ stage[t] = "create" =>
       /\ HasTarget(t) /\ loc[t].newDepth = Len(op[t].dn)
       /\ IF loc[t].up = NoParent THEN loc[t].upPath = <<>>
          ELSE loc[t].up \in Entries /\ dirs[loc[t].up].path = loc[t].upPath

\* An operation is asked for once and answered at its end.
Logged(t) ==
  /\ stage[t] = "idle" => op[t] = NoOp
  /\ stage[t] # "done" => answer[t] = "none"

TreeInv ==
  /\ (\A t \in Requests : ~Halfway(t)) => Settled(dirs, Entries) /\ Filled(Entries)
  /\ \A t \in Requests : Logged(t) /\ Knows(t) /\ (Halfway(t) => HalfwayInv(t))
  /\ \A c \in Ids : dirs[c] = Free => owner[c] = NoOwner
-----------------------------------------------------------------------------
(* Paths as sequences *)

LEMMA FrontChild ==
  ASSUME NEW p \in Dns, NEW q \in Seq(Rdns)
  PROVE  Front(p) = q <=> Child(q, p)
<1>1. p \in Seq(Rdns) /\ Len(p) \in Nat \ {0} /\ Len(q) \in Nat
  BY PathFacts
<1>2. /\ Front(p) \in Seq(Rdns) /\ Len(Front(p)) = Len(p) - 1
      /\ \A k \in 1..(Len(p) - 1) : Front(p)[k] = p[k]
  <2>1. \A k \in 1..(Len(p) - 1) : p[k] \in Rdns
    BY <1>1
  <2> DEFINE n == Len(p) - 1
  <2>2. n \in Nat /\ n \in Int /\ 1 \in Int /\ \A k \in 1..n : p[k] \in Rdns
    BY <1>1, <2>1
  <2>3. Front(p) = SubSeq(p, 1, n)
    BY DEF Front
  <2> HIDE DEF n
  <2>4. /\ SubSeq(p, 1, n) \in Seq(Rdns) /\ Len(SubSeq(p, 1, n)) = IF 1 <= n THEN n-1+1 ELSE 0
        /\ \A k \in 1..(n-1+1) : SubSeq(p, 1, n)[k] = p[1+k-1]
    BY <2>2, SubSeqProperties
  <2>5. Len(SubSeq(p, 1, n)) = n /\ \A k \in 1..n : SubSeq(p, 1, n)[k] = p[k]
    BY <2>2, <2>4
  <2> QED
    BY <2>3, <2>4, <2>5 DEF n
<1>3. Front(p) = q => Child(q, p)
  BY <1>1, <1>2 DEF Child
<1>4. Child(q, p) => Front(p) = q
  BY <1>1, <1>2, SeqEqual DEF Child
<1> QED
  BY <1>3, <1>4

LEMMA PrefixAbove ==
  ASSUME NEW p \in Dns, NEW q \in Dns
  PROVE  IsPrefix(p, q) <=> Above(p, q)
<1>1. p \in Seq(Rdns) /\ q \in Seq(Rdns) /\ Len(p) \in Nat \ {0} /\ Len(q) \in Nat \ {0}
  BY PathFacts
<1>2. CASE Len(p) <= Len(q)
  <2>1. \A k \in 1..Len(p) : p[k] \in Rdns /\ q[k] \in Rdns
    BY <1>1, <1>2
  <2>2. /\ SubSeq(q, 1, Len(p)) \in Seq(Rdns) /\ Len(SubSeq(q, 1, Len(p))) = Len(p)
        /\ \A k \in 1..Len(p) : SubSeq(q, 1, Len(p))[k] = q[k]
    BY <1>1, <2>1, SubSeqProperties
  <2>3. SubSeq(p, 1, Len(p)) = p
    BY <1>1, SubSeqFull
  <2>4. p = SubSeq(q, 1, Len(p)) <=> \A k \in 1..Len(p) : p[k] = q[k]
    BY <1>1, <2>2, SeqEqual
  <2> QED
    BY <1>2, <2>3, <2>4 DEF IsPrefix, Above
<1>3. CASE ~(Len(p) <= Len(q))
  BY <1>3 DEF IsPrefix, Above
<1> QED
  BY <1>2, <1>3

\* Of paths above one another the shorter is a beginning of the longer.
LEMMA AboveFacts ==
  /\ \A p \in Dns : Above(p, p)
  /\ \A p, q \in Dns : Above(p, q) /\ Len(p) = Len(q) => p = q
  /\ \A p, q \in Dns : Above(p, q) /\ Above(q, p) => p = q
  /\ \A p, q, r \in Dns : Above(p, q) /\ Above(q, r) => Above(p, r)
  /\ \A p, q, r \in Dns : Above(p, q) /\ Child(q, r) => Above(p, r)
  /\ \A p, q \in Dns : Child(p, q) => Above(p, q) /\ ~Above(q, p)
  /\ \A p, q, r \in Dns : Child(p, q) /\ Above(r, q) => r = q \/ Above(r, p)
<1>1. \A p \in Dns : p \in Seq(Rdns) /\ Len(p) \in Nat \ {0}
  BY PathFacts
<1>2. \A p, q \in Dns : Above(p, q) /\ Len(p) = Len(q) => p = q
  BY <1>1, SeqEqual DEF Above
<1>3. \A p \in Dns : Above(p, p)
  BY <1>1 DEF Above
<1>4. \A p, q \in Dns : Above(p, q) /\ Above(q, p) => p = q
  BY <1>1, <1>2 DEF Above
<1>5. \A p, q, r \in Dns : Above(p, q) /\ Above(q, r) => Above(p, r)
  BY <1>1 DEF Above
<1>6. \A p, q \in Dns : Child(p, q) => Above(p, q) /\ ~Above(q, p)
  BY <1>1 DEF Above, Child
<1>7. \A p, q, r \in Dns : Child(p, q) /\ Above(r, q) => r = q \/ Above(r, p)
  <2> TAKE p, q, r \in Dns
  <2> HAVE Child(p, q) /\ Above(r, q)
  <2>1. CASE Len(r) = Len(q)
    BY <1>2, <2>1
  <2>2. CASE Len(r) # Len(q)
    BY <1>1, <2>2 DEF Above, Child
  <2> QED
    BY <2>1, <2>2
<1> QED
  BY <1>2, <1>3, <1>4, <1>5, <1>6, <1>7

LEMMA LeastNat ==
  ASSUME NEW T \in SUBSET Nat, T # {}
  PROVE  \E m \in T : \A n \in T : m <= n
<1> DEFINE R == {ss \in Nat \X Nat : ss[1] < ss[2]}
<1>1. IsWellFoundedOn(R, Nat)
  BY NatLessThanWellFounded DEF OpToRel
<1>2. PICK m \in T : \A n \in T : <<n, m>> \notin R
  <2> HIDE DEF R
  <2> QED
    BY <1>1, WFMin
<1>3. ASSUME NEW n \in T PROVE m <= n
  <2>1. ~(n < m)
    BY <1>2
  <2> QED
    BY <2>1
<1> QED
  BY <1>3

\* Below a path there is only what has an entry at that path above it.
LEMMA Rooted ==
  ASSUME NEW table, NEW S \in SUBSET Ids,
         \A i \in S : /\ table[i] \in Row /\ table[i].parent \in S \cup {NoParent}
                      /\ Placed(table, i),
         NEW d \in Dns, NEW j \in S, Above(d, table[j].path)
  PROVE  \E i \in S : table[i].path = d
<1> DEFINE B == {i \in S : Above(d, table[i].path)}
           T == {Len(table[i].path) : i \in B}
<1>1. \A i \in S : table[i].path \in Dns /\ Len(table[i].path) \in Nat \ {0}
  BY PathFacts DEF Row
<1>2. PICK m \in T : \A n \in T : m <= n
  <2>1. T \in SUBSET Nat /\ T # {}
    BY <1>1
  <2> HIDE DEF T
  <2> QED
    BY <2>1, LeastNat
<1>3. PICK i \in S : Above(d, table[i].path) /\ Len(table[i].path) = m
  BY <1>2
<1>4. CASE Len(d) = Len(table[i].path)
  BY <1>1, <1>3, <1>4, AboveFacts
<1>5. CASE Len(d) # Len(table[i].path)
  <2>1. Len(d) \in Nat \ {0} /\ Len(d) < Len(table[i].path)
    <3>1. Len(d) \in Nat \ {0} /\ Len(table[i].path) \in Nat /\ Len(d) <= Len(table[i].path)
      BY <1>1, <1>3, PathFacts DEF Above
    <3> QED
      BY <1>5, <3>1
  <2>2. Child(PathAbove(table, i), table[i].path)
    BY DEF Placed, PlacedAt
  <2>3. table[i].parent # NoParent
    BY <1>1, <2>1, <2>2, EmptySeq DEF PathAbove, Child
  <2> DEFINE p == table[i].parent
  <2>4. p \in S /\ Child(table[p].path, table[i].path)
    BY <2>2, <2>3 DEF PathAbove
  <2>5. Above(d, table[p].path) /\ Len(table[p].path) < m
    <3>1. /\ Len(table[p].path) \in Nat /\ Len(table[i].path) = Len(table[p].path) + 1
          /\ \A k \in 1..Len(table[p].path) : table[i].path[k] = table[p].path[k]
          /\ \A k \in 1..Len(d) : d[k] = table[i].path[k]
      BY <1>1, <1>3, <2>4 DEF Child, Above
    <3>2. Len(d) <= Len(table[p].path)
      BY <2>1, <3>1
    <3> HIDE DEF p
    <3>3. Above(d, table[p].path)
      BY <2>1, <3>1, <3>2 DEF Above
    <3>4. Len(table[p].path) < m
      BY <1>3, <3>1
    <3> QED
      BY <3>3, <3>4
  <2>6. Len(table[p].path) \in T
    BY <2>4, <2>5
  <2> HIDE DEF p, T
  <2>7. m <= Len(table[p].path)
    BY <1>2, <2>6
  <2>8. m \in Nat /\ Len(table[p].path) \in Nat
    BY <1>1, <1>3, <2>4
  <2>9. Len(table[p].path) < m
    BY <2>5
  <2> QED
    BY <2>7, <2>8, <2>9
<1> QED
  BY <1>3, <1>4, <1>5
-----------------------------------------------------------------------------
(* Steps that leave the rows as they are *)

OrderInv == IInv /\ CarryInv /\ TreeInv

LEMMA NobodyHalfway ==
  ASSUME CarryInv, NEW t \in Active, ~Moving(t)
  PROVE  \A u \in Requests : ~Halfway(u)
  BY DEF CarryInv, Halfway

\* One step of t: what the other operations know of the rows stays so.
LEMMA OthersKnow ==
  ASSUME Orderly, OrderInv, IInv', NEW t \in Active, op' = op,
         \A u \in Requests \ {t} :
           stage'[u] = stage[u] /\ loc'[u] = loc[u] /\ answer'[u] = answer[u],
         \A i \in Ids : dirs[i] # Free => dirs'[i] = dirs[i] \/ dirs'[i] = Gone \/ Moving(t),
         \A c \in Ids : dirs[c] # Free => owner'[c] \in {owner[c], NoOwner} \/ Moving(t),
         \A i \in Entries \ Entries' :
           \/ op[t].kind = "delete" /\ t \in Effective' /\ Above(op[t].dn, dirs[i].path)
           \/ Moving(t),
         Entries' \subseteq Entries \/ Entries \subseteq Entries' \/ Moving(t),
         ~Moving(t) => Settled(dirs', Entries'),
         NEW u \in Requests \ {t}
  PROVE  Logged(u)' /\ Knows(u)' /\ ~Halfway(u)'
<1>1. CASE u \notin Active
  <2>1. stage'[u] \in {"idle", "done"}
    BY <1>1 DEF Active
  <2>2. Logged(u)'
    BY <2>1 DEF OrderInv, TreeInv, Logged
  <2> QED
    BY <2>1, <2>2 DEF Knows, Halfway, Moving, Active
<1>2. CASE u \in Active
  <2>1. ~Moving(t) /\ ~Moving(u)
    BY <1>2 DEF OrderInv, CarryInv, Active
  <2>2. /\ op[u].kind # "modifyDN" /\ op[u] \in Operations /\ op[u].dn \in Dns
        /\ stage[u] \notin {"superior", "create", "reparent", "repath"}
        /\ op[t] \in Operations /\ op[t].dn \in Dns
    BY <1>2, <2>1, OpFacts DEF Moving, OrderInv, IInv, StageInv, StageOf, Active
  <2>3. Logged(u)' /\ ~Halfway(u)'
    BY <2>2 DEF OrderInv, TreeInv, Logged, Halfway, Moving
  <2>4. \A i \in Ids : dirs[i] # Free => dirs'[i] # Free /\ (Present(i)' => dirs'[i] = dirs[i])
    BY <2>1, TreeAssumption DEF Present
  <2>5. Effective \subseteq Effective'
    <3>1. t \notin Effective
      BY <2>1 DEF Effective, Active, OrderInv, TreeInv, Logged, Moving
    <3> QED
      BY <3>1 DEF Effective
  <2>6. Forestalled(u) => Forestalled(u)'
    BY <2>5 DEF Forestalled
  <2>7. stage[u] = "insert" => KnowsParent(u)'
    <3>1. stage[u] = "insert" => KnowsParent(u)
      BY DEF OrderInv, TreeInv, Knows
    <3> QED
      BY <2>4, <3>1, TreeAssumption DEF KnowsParent, Present
  <2>8. op[u].kind = "delete" /\ stage[u] \in {"cascade", "remove"} => KnowsEntry(u)'
    <3> SUFFICES ASSUME op[u].kind = "delete", stage[u] \in {"cascade", "remove"}
                 PROVE  KnowsEntry(u)'
      OBVIOUS
    <3>1. KnowsEntry(u)
      BY DEF OrderInv, TreeInv, Knows
    <3> DEFINE i == loc[u].dir
    <3>2. CASE Present(i)'
      BY <2>4, <3>1, <3>2, TreeAssumption DEF KnowsEntry, Present
    <3>3. CASE ~Present(i)' /\ Present(i)
      <4>1. i \in Entries \ Entries'
        BY <3>1, <3>3 DEF Entries, KnowsEntry, Present
      <4>2. op[t].kind = "delete" /\ t \in Effective' /\ Above(op[t].dn, op[u].dn)
        BY <2>1, <3>1, <3>3, <4>1 DEF KnowsEntry
      <4>3. Forestalled(u)'
        BY <4>2 DEF Forestalled
      <4> QED
        BY <2>4, <3>1, <3>3, <4>3 DEF KnowsEntry, Present
    <3>4. CASE ~Present(i)' /\ ~Present(i)
      BY <2>4, <2>6, <3>1, <3>4 DEF KnowsEntry, Present
    <3> QED
      BY <3>2, <3>3, <3>4
  <2>9. op[u].kind = "delete" /\ stage[u] = "remove" => KnowsDoomed(u)'
    <3> SUFFICES ASSUME op[u].kind = "delete", stage[u] = "remove"
                 PROVE  KnowsDoomed(u)'
      OBVIOUS
    <3>1. KnowsEntry(u) /\ KnowsDoomed(u)
      BY DEF OrderInv, TreeInv, Knows
    <3> DEFINE d == loc[u].dir
    <3>2. loc[u].doomed \subseteq Ids /\ loc[u].contents \subseteq Ids
      BY DEF OrderInv, IInv, TypeOK, Loaded
    <3>3. ASSUME NEW i \in loc[u].doomed, Present(i)'
          PROVE  Present(d)' /\ Above(op[u].dn, dirs'[i].path)
      <4>1. i \in Ids /\ dirs[i] # Free /\ dirs'[i] = dirs[i] /\ Present(i)
        BY <2>4, <3>1, <3>2, <3>3 DEF KnowsDoomed, Present
      <4>2. Present(d) /\ Above(op[u].dn, dirs[i].path) /\ dirs[d].path = op[u].dn /\ d \in Ids
        BY <3>1, <4>1 DEF KnowsDoomed, KnowsEntry
      <4>3. ASSUME ~Present(d)' PROVE FALSE
        <5>1. \A j \in Entries' : /\ dirs'[j] \in Row /\ dirs'[j].parent \in Entries' \cup {NoParent}
                                  /\ Placed(dirs', j)
          BY <2>1 DEF IInv, Valid, Entries, Present, Settled
        <5>2. i \in Entries' /\ Entries' \subseteq Ids
          BY <3>3, <4>1 DEF Entries
        <5>3. PICK j \in Entries' : dirs'[j].path = op[u].dn
          <6> DEFINE S == Entries'
                     table == dirs'
          <6>1. /\ S \in SUBSET Ids /\ i \in S /\ Above(op[u].dn, table[i].path)
                /\ \A j \in S : /\ table[j] \in Row /\ table[j].parent \in S \cup {NoParent}
                                /\ Placed(table, j)
            BY <4>1, <4>2, <5>1, <5>2
          <6> HIDE DEF S, table
          <6>2. \E j \in S : table[j].path = op[u].dn
            BY <2>2, <6>1, Rooted
          <6> QED
            BY <6>2 DEF S, table
        <5>4. j \in Entries /\ d \in Entries
          BY <2>1, <4>2, <4>3 DEF Entries
        <5>5. dirs[j].path = dirs[d].path
          BY <2>4, <4>2, <5>3, <5>4, TreeAssumption DEF Entries, Present
        <5>6. Unique(dirs, Entries)
          BY <2>1, NobodyHalfway DEF OrderInv, TreeInv, Settled
        <5> QED
          BY <4>3, <5>3, <5>4, <5>5, <5>6 DEF Unique, Entries
      <4> QED
        BY <4>1, <4>2, <4>3
    <3>4. \A i \in loc[u].doomed : dirs'[i] # Free
      BY <2>4, <3>1, <3>2 DEF KnowsDoomed
    <3>5. \A c \in loc[u].contents : dirs'[c] # Free /\ owner'[c] \in loc[u].doomed \cup {NoOwner}
      BY <2>1, <2>4, <3>1, <3>2 DEF KnowsDoomed
    <3> QED
      BY <3>1, <3>3, <3>4, <3>5 DEF KnowsDoomed
  <2> QED
    BY <2>2, <2>3, <2>7, <2>8, <2>9 DEF Knows
<1> QED
  BY <1>1, <1>2
LEMMA LoggedStep ==
  ASSUME OrderInv, NEW t \in Requests, Step(t)
  PROVE  Logged(t)'
  BY StepMoves DEF OrderInv, TreeInv, Logged, Active

\* A step of t that only loads or fails.
LEMMA QuietStep ==
  ASSUME Orderly, OrderInv, IInv', NEW t \in Requests, Step(t), UNCHANGED <<dirs, owner>>,
         ~Halfway(t), ~Halfway(t)', Knows(t)'
  PROVE  TreeInv'
<1>1. /\ t \in Active /\ op' = op
      /\ \A u \in Requests \ {t} :
           stage'[u] = stage[u] /\ loc'[u] = loc[u] /\ answer'[u] = answer[u]
  BY StepMoves DEF OrderInv
<1>2. \A u \in Requests : ~Halfway(u)
  BY <1>1 DEF OrderInv, CarryInv, Halfway, Active
<1>3. Entries' = Entries /\ Settled(dirs, Entries) /\ Filled(Entries)
  BY <1>2 DEF OrderInv, TreeInv, Entries, Present
<1>4. Settled(dirs', Entries') /\ Filled(Entries)'
  BY <1>3 DEF Filled
<1>5. \A u \in Requests \ {t} : Logged(u)' /\ Knows(u)' /\ ~Halfway(u)'
  BY <1>1, <1>3, <1>4, OthersKnow
<1>6. Logged(t)'
  BY LoggedStep
<1> QED
  BY <1>4, <1>5, <1>6 DEF OrderInv, TreeInv

\* Where t is no modify DN, what is so of all entries is so.
LEMMA AllSettled ==
  ASSUME OrderInv, NEW t \in Active, ~Halfway(t)
  PROVE  Settled(dirs, Entries) /\ Filled(Entries)
<1>1. \A u \in Requests : ~Halfway(u)
  BY DEF OrderInv, CarryInv, Halfway, Active
<1> QED
  BY <1>1 DEF OrderInv, TreeInv

LEMMA LowerFacts ==
  ASSUME Orderly
  PROVE  \A p \in Seq(Rdns) : Lowered(p) = p
<1>1. ASSUME NEW p \in Seq(Rdns) PROVE Lowered(p) = p
  <2>1. p \in [1..Len(p) -> Rdns] /\ DOMAIN p = 1..Len(p)
    BY LenProperties
  <2>2. Lowered(p) = [k \in 1..Len(p) |-> p[k]]
    BY <2>1 DEF Lowered, Orderly, LowerCase
  <2> QED
    BY <2>1, <2>2
<1> QED
  BY <1>1

LEMMA AtFacts ==
  ASSUME Orderly, IInv, NEW d \in Seq(Rdns)
  PROVE  At(d) = {i \in Entries : dirs[i].path = d}
  BY LowerFacts, RowFacts DEF At

LEMMA AddOrder ==
  ASSUME Orderly, OrderInv, IInv', NEW t \in Requests, AddCheck(t) \/ AddParent(t),
         Step(t)
  PROVE  TreeInv'
<1>1. /\ t \in Active /\ op' = op /\ op[t] \in Operations /\ op[t].kind = "add"
      /\ op[t].dn \in Dns /\ ~Halfway(t) /\ ~Halfway(t)'
  BY StepMoves, OpFacts
     DEF AddCheck, AddParent, OrderInv, IInv, StageInv, StageOf, Halfway, Moving
<1>2. UNCHANGED <<dirs, owner>>
  BY DEF AddCheck, AddParent, Fails, Loads
<1>3. stage'[t] \in {"done", "parent", "insert"}
  BY DEF AddCheck, AddParent, Fails, Loads, Goes, Answer, OrderInv, IInv, TypeOK
<1>4. stage'[t] = "insert" => KnowsParent(t)'
  <2> SUFFICES ASSUME stage'[t] = "insert" PROVE KnowsParent(t)'
    OBVIOUS
  <2> DEFINE dn == op[t].dn
             found(p) == [NoLoad EXCEPT !.up = p, !.upPath = dirs[p].path,
                            !.near = {p} \cup {i \in Entries : dirs[i].parent = p}]
  <2>1. \/ Len(dn) = 1 /\ loc'[t] = NoLoad
        \/ Len(dn) > 1 /\ \E p \in At(Front(dn)) : loc'[t] = found(p)
    BY DEF AddCheck, AddParent, Fails, Loads, Goes, Answer, OrderInv, IInv, TypeOK
  <2>2. CASE Len(dn) = 1 /\ loc'[t] = NoLoad
    BY <1>1, <2>2 DEF KnowsParent, NoLoad
  <2>3. ASSUME NEW p \in At(Front(dn)), loc'[t] = found(p), Len(dn) > 1
        PROVE  KnowsParent(t)'
    <3>1. Front(dn) \in Seq(Rdns)
      <4>1. dn \in Seq(Rdns) /\ Len(dn) \in Nat
        BY <1>1, PathFacts
      <4> QED
        BY <4>1, SubSeqProperties DEF Front
    <3>2. p \in Entries /\ dirs[p].path = Front(dn)
      BY <2>3, <3>1, AtFacts DEF OrderInv
    <3>3. p \in Ids /\ dirs[p] # Free /\ Front(dn) \in Dns /\ Child(Front(dn), dn)
      BY <1>1, <3>1, <3>2, RowFacts, FrontChild DEF OrderInv
    <3>4. loc'[t].up = p /\ loc'[t].upPath = Front(dn)
      BY <2>3, <3>2 DEF NoLoad
    <3> QED
      BY <1>1, <1>2, <3>2, <3>3, <3>4 DEF KnowsParent, Present
  <2> QED
    BY <2>1, <2>2, <2>3
<1>5. Knows(t)'
  BY <1>1, <1>3, <1>4 DEF Knows
<1> QED
  BY <1>1, <1>2, <1>5, QuietStep

\* A failure leaves nothing behind.
LEMMA FailOrder ==
  ASSUME Orderly, OrderInv, IInv', NEW t \in Requests, Step(t), ~Halfway(t),
         NEW a, Fails(t, a)
  PROVE  TreeInv'
<1>1. stage'[t] = "done"
  BY DEF Fails, Answer, OrderInv, IInv, TypeOK
<1>2. Knows(t)' /\ ~Halfway(t)'
  BY <1>1 DEF Knows, Halfway
<1> QED
  BY <1>2, QuietStep DEF Fails
-----------------------------------------------------------------------------
(* New rows *)

LEMMA PathFromChild ==
  ASSUME NEW p \in Dns, NEW q \in Seq(Rdns), Child(q, p)
  PROVE  Append(q, Last(p)) = p
<1>1. /\ p \in Seq(Rdns) /\ Len(p) \in Nat \ {0} /\ Last(p) \in Rdns /\ Len(q) \in Nat
      /\ Len(p) = Len(q) + 1
  <2>1. p \in Seq(Rdns) /\ Len(p) \in Nat \ {0} /\ Last(p) \in Rdns
    BY PathFacts
  <2>2. Len(q) \in Nat
    BY LenProperties
  <2> QED
    BY <2>1, <2>2 DEF Child
<1>2. /\ Append(q, Last(p)) \in Seq(Rdns) /\ Len(Append(q, Last(p))) = Len(q) + 1
      /\ \A k \in 1..Len(q) : Append(q, Last(p))[k] = q[k]
      /\ Append(q, Last(p))[Len(q) + 1] = Last(p)
  BY <1>1, AppendProperties
<1>3. \A k \in 1..Len(p) : Append(q, Last(p))[k] = p[k]
  <2> TAKE k \in 1..Len(p)
  <2>1. CASE k = Len(p)
    BY <1>1, <1>2, <2>1 DEF Last
  <2>2. CASE k # Len(p)
    <3>1. k \in 1..Len(q)
      BY <1>1, <2>2
    <3> QED
      BY <1>2, <3>1 DEF Child
  <2> QED
    BY <2>1, <2>2
<1> QED
  BY <1>1, <1>2, <1>3, SeqEqual

LEMMA AppendChild ==
  ASSUME NEW q \in Seq(Rdns), NEW r \in Rdns
  PROVE  /\ Append(q, r) \in Dns /\ Child(q, Append(q, r)) /\ Last(Append(q, r)) = r
         /\ Len(Append(q, r)) = Len(q) + 1
<1>1. /\ Append(q, r) \in Seq(Rdns) /\ Len(Append(q, r)) = Len(q) + 1
      /\ \A k \in 1..Len(q) : Append(q, r)[k] = q[k] /\ Append(q, r)[Len(q) + 1] = r
  BY AppendProperties
<1>2. Append(q, r) \in Dns
  BY PathFacts
<1>3. Append(q, r)[Len(q) + 1] = r
  BY AppendProperties
<1> QED
  BY <1>1, <1>2, <1>3 DEF Child, Last

\* The path above an entry is that of its parent; only a top entry has none.
LEMMA AboveRow ==
  ASSUME IInv, NEW i \in Entries, Placed(dirs, i)
  PROVE  /\ PathAbove(dirs, i) \in Seq(Rdns) /\ Child(PathAbove(dirs, i), dirs[i].path)
         /\ dirs[i].parent = NoParent <=> PathAbove(dirs, i) = <<>>
         /\ dirs[i].parent # NoParent =>
              dirs[i].parent \in Entries /\ PathAbove(dirs, i) = dirs[dirs[i].parent].path
<1>1. dirs[i].parent \in Entries \cup {NoParent}
  BY RowFacts
<1>2. \A j \in Entries : dirs[j].path \in Seq(Rdns) /\ dirs[j].path # <<>>
  BY RowFacts DEF Dns
<1> QED
  BY <1>1, <1>2, EmptySeq DEF PathAbove, Placed, PlacedAt

\* A row that the constraint of names lets in gets a path of its own.
LEMMA NewPlace ==
  ASSUME IInv, Settled(dirs, Entries), NEW n \in Ids, dirs[n] = Free,
         NEW table, table[n] \in Row, \A i \in Ids \ {n} : table[i] = dirs[i],
         Valid(table), Placed(table, n)
  PROVE  /\ \A i \in Entries : /\ i # n /\ table[i] = dirs[i]
                              /\ dirs[i].path # table[n].path /\ dirs[i].parent # n
         /\ \A i \in Ids : table[i] \in Row <=> i \in Entries \cup {n}
         /\ Settled(table, Entries \cup {n})
<1> DEFINE row == table[n]
           above == PathAbove(table, n)
<1>1. n \notin Entries
  BY TreeAssumption DEF Entries, Present
<1>2. \A i \in Ids : table[i] \in Row <=> i \in Entries \cup {n}
  BY <1>1 DEF Entries, Present
<1>3. \A i \in Entries : /\ i \in Ids /\ table[i] = dirs[i] /\ dirs[i].parent # n
                         /\ dirs[i].parent \in Entries \cup {NoParent}
  BY <1>1, RowFacts, TreeAssumption DEF Entries
<1>4. /\ row.path \in Dns /\ row.name = NameOf[Last(row.path)] /\ row.depth = Len(row.path)
      /\ Child(above, row.path)
  BY DEF Placed, PlacedAt, Row
<1>5. row.parent # NoParent =>
        row.parent \in Entries /\ above = dirs[row.parent].path /\ above \in Dns
  <2> HAVE row.parent # NoParent
  <2>1. row.parent \in Ids /\ table[row.parent] \in Row /\ above = table[row.parent].path
    BY DEF Valid, PathAbove
  <2>2. row.parent # n
    <3>1. Len(row.path) # Len(row.path) + 1
      BY <1>4, PathFacts
    <3> QED
      BY <1>4, <2>1, <3>1 DEF Child
  <2> QED
    BY <1>3, <2>1, <2>2, RowFacts DEF Entries, Present
<1>6. above \in Seq(Rdns) /\ (row.parent = NoParent => above = <<>>)
  BY <1>5, EmptySeq, PathFacts DEF PathAbove
<1>7. ASSUME NEW i \in Entries, dirs[i].path = row.path PROVE FALSE
  <2>1. dirs[i].name = row.name
    BY <1>4, <1>7 DEF Settled, Placed, PlacedAt
  <2>2. PathAbove(dirs, i) = above
    <3>1. Child(PathAbove(dirs, i), row.path) /\ PathAbove(dirs, i) \in Seq(Rdns)
      BY <1>7, AboveRow DEF Settled
    <3> QED
      BY <1>4, <1>6, <3>1, FrontChild
  <2>3. dirs[i].parent = row.parent
    <3>1. CASE row.parent = NoParent
      BY <1>6, <2>2, <3>1, AboveRow DEF Settled
    <3>2. CASE row.parent # NoParent
      <4>1. above # <<>>
        BY <1>5, <3>2 DEF Dns
      <4>2. dirs[i].parent \in Entries /\ dirs[dirs[i].parent].path = above
        BY <2>2, <4>1, AboveRow DEF Settled
      <4> QED
        BY <1>5, <3>2, <4>2 DEF Settled, Unique
    <3> QED
      BY <3>1, <3>2
  <2>4. i # n /\ table[i].parent = table[n].parent /\ table[i].name = table[n].name
    BY <1>1, <1>3, <2>1, <2>3
  <2>5. i \in Ids /\ table[i] \in Row /\ table[n] \in Row
    BY <1>1, <1>3 DEF Entries, Present
  <2> QED
    BY <2>4, <2>5 DEF Valid
<1>8. Unique(table, Entries \cup {n})
  BY <1>3, <1>7 DEF Settled, Unique
<1>9. ASSUME NEW i \in Entries PROVE Placed(table, i)
  <2>1. PathAbove(table, i) = PathAbove(dirs, i)
    BY <1>3 DEF PathAbove
  <2> QED
    BY <1>3, <2>1 DEF Settled, Placed
<1> QED
  BY <1>1, <1>2, <1>3, <1>7, <1>8, <1>9 DEF Settled

\* The row that an add inserts has the DN of the request.
LEMMA AddedFacts ==
  ASSUME OrderInv, NEW t \in Requests, stage[t] = "insert", NEW i \in IdsLeft,
         Valid([dirs EXCEPT ![i] = AddedRow(t)])
  PROVE  /\ AddedRow(t) \in Row /\ AddedRow(t).path = op[t].dn
         /\ AddedRow(t).name = NameOf[Last(op[t].dn)] /\ AddedRow(t).depth = Len(op[t].dn)
         /\ AddedRow(t).parent = loc[t].up
         /\ loc[t].upPath \in Seq(Rdns) /\ Child(loc[t].upPath, op[t].dn)
         /\ loc[t].up = NoParent => loc[t].upPath = <<>>
         /\ loc[t].up # NoParent =>
              loc[t].up \in Entries /\ dirs[loc[t].up].path = loc[t].upPath
<1>1. /\ op[t].dn \in Dns /\ loc[t].up \in Ids \cup {NoParent} /\ loc[t].upPath \in Seq(Rdns)
      /\ KnowsParent(t) /\ i \in Ids /\ dirs[i] = Free
  BY OpFacts DEF OrderInv, TreeInv, IInv, TypeOK, StageInv, StageOf, Loaded, Knows, IdsLeft
<1>2. Child(loc[t].upPath, op[t].dn)
  <2>1. CASE loc[t].upPath = <<>> /\ Len(op[t].dn) = 1
    <3>1. Len(loc[t].upPath) = 0
      BY <2>1
    <3> QED
      BY <2>1, <3>1 DEF Child
  <2> QED
    BY <1>1, <2>1 DEF KnowsParent
<1>3. AddedRow(t).path = op[t].dn
  BY <1>1, <1>2, PathFromChild DEF AddedRow
<1>4. /\ AddedRow(t).name = NameOf[Last(op[t].dn)] /\ AddedRow(t).depth = Len(op[t].dn)
      /\ AddedRow(t).parent = loc[t].up
  BY <1>3 DEF AddedRow
<1>5. AddedRow(t) \in Row
  <2>1. Last(op[t].dn) \in Rdns /\ Len(op[t].dn) \in Nat
    BY <1>1, PathFacts
  <2>2. NameOf[Last(op[t].dn)] \in Names
    BY <2>1, TreeAssumption
  <2>3. AddedRow(t) = [parent |-> loc[t].up, name |-> NameOf[Last(op[t].dn)],
                       path |-> op[t].dn, depth |-> Len(op[t].dn)]
    BY <1>3 DEF AddedRow
  <2> QED
    BY <1>1, <2>1, <2>2, <2>3 DEF Row
<1>6. ASSUME loc[t].up # NoParent
      PROVE  loc[t].up \in Entries /\ dirs[loc[t].up].path = loc[t].upPath
  <2> DEFINE table == [dirs EXCEPT ![i] = AddedRow(t)]
  <2>1. loc[t].up \in Ids /\ dirs[loc[t].up] # Free /\ loc[t].up # i
    BY <1>1, <1>6 DEF KnowsParent
  <2>2. table[i] = AddedRow(t) /\ table[loc[t].up] = dirs[loc[t].up]
    BY <1>1, <2>1 DEF OrderInv, IInv, TypeOK
  <2>3. table[i] \in Row /\ table[i].parent = loc[t].up
    BY <1>4, <1>5, <2>2
  <2> HIDE DEF table
  <2>4. table[loc[t].up] \in Row
    <3>1. Valid(table)
      BY DEF table
    <3> QED
      BY <1>1, <1>6, <2>3, <3>1 DEF Valid
  <2>5. Present(loc[t].up)
    BY <2>2, <2>4 DEF Present
  <2> QED
    BY <1>1, <1>6, <2>1, <2>5 DEF KnowsParent, Entries
<1>7. loc[t].up = NoParent => loc[t].upPath = <<>>
  BY <1>1, TreeAssumption DEF KnowsParent
<1> QED
  BY <1>1, <1>2, <1>3, <1>4, <1>5, <1>6, <1>7

\* A row that an add inserts is all that changes.
LEMMA InsertFacts ==
  ASSUME Orderly, OrderInv, NEW t \in Active, stage[t] = "insert", ~Halfway(t),
         NEW i \in IdsLeft, Valid([dirs EXCEPT ![i] = AddedRow(t)]),
         dirs' = [dirs EXCEPT ![i] = AddedRow(t)]
  PROVE  /\ i \in Ids /\ dirs[i] = Free /\ Free \notin Row
         /\ Settled(dirs, Entries) /\ Filled(Entries)
         /\ \A j \in Ids : dirs'[j] \in Row <=> j \in Entries \cup {i}
         /\ i \notin Entries
         /\ Settled(dirs', Entries \cup {i})
         /\ \A j \in Entries : dirs'[j] = dirs[j] /\ dirs[j].path # op[t].dn
         /\ dirs'[i].path = op[t].dn
<1>1. Settled(dirs, Entries) /\ Filled(Entries)
  BY AllSettled
<1>2. i \in Ids /\ dirs[i] = Free /\ Free \notin Row
  BY TreeAssumption DEF IdsLeft
<1> DEFINE row == AddedRow(t)
           table == dirs'
<1>3. /\ row \in Row /\ row.path = op[t].dn
      /\ row.name = NameOf[Last(row.path)] /\ row.depth = Len(row.path)
      /\ Child(loc[t].upPath, row.path)
      /\ row.parent = NoParent => loc[t].upPath = <<>>
      /\ row.parent # NoParent =>
           row.parent \in Entries /\ dirs[row.parent].path = loc[t].upPath
  BY AddedFacts DEF Active
<1>4. IInv /\ Valid(table)
  BY DEF OrderInv
<1>5. table[i] = row /\ \A j \in Ids \ {i} : table[j] = dirs[j]
  BY <1>2 DEF OrderInv, IInv, TypeOK
<1>6. Placed(table, i)
  <2>1. PathAbove(table, i) = loc[t].upPath
    BY <1>2, <1>3, <1>5, RowFacts DEF PathAbove, OrderInv, Entries
  <2> QED
    BY <1>3, <1>5, <2>1 DEF Placed, PlacedAt
<1>7. table[i] \in Row /\ table[i].path = op[t].dn
  BY <1>3, <1>5
<1> HIDE DEF row, table
<1>8. /\ \A j \in Entries : /\ j # i /\ table[j] = dirs[j]
                            /\ dirs[j].path # table[i].path
      /\ \A j \in Ids : table[j] \in Row <=> j \in Entries \cup {i}
      /\ Settled(table, Entries \cup {i})
  BY <1>1, <1>2, <1>4, <1>5, <1>6, <1>7, NewPlace
<1> QED
  BY <1>1, <1>2, <1>7, <1>8 DEF table

LEMMA InsertOrder ==
  ASSUME Orderly, OrderInv, IInv', NEW t \in Requests, AddInsert(t), Step(t)
  PROVE  TreeInv'
<1>1. /\ t \in Active /\ op' = op /\ op[t].kind = "add" /\ stage[t] = "insert"
      /\ ~Moving(t) /\ ~Halfway(t) /\ ~Halfway(t)'
      /\ \A u \in Requests \ {t} :
           stage'[u] = stage[u] /\ loc'[u] = loc[u] /\ answer'[u] = answer[u]
  BY StepMoves DEF AddInsert, OrderInv, IInv, StageInv, StageOf, Halfway, Moving
<1>2. CASE Fails(t, "entryAlreadyExists")
  BY <1>1, <1>2, FailOrder
<1>3. ASSUME NEW i \in IdsLeft, Valid([dirs EXCEPT ![i] = AddedRow(t)]),
             dirs' = [dirs EXCEPT ![i] = AddedRow(t)],
             owner' = [owner EXCEPT ![i] = i], Answer(t, "success")
      PROVE  TreeInv'
  <2>1. Settled(dirs, Entries) /\ Filled(Entries)
    BY <1>1, AllSettled
  <2>2. i \in Ids /\ dirs[i] = Free /\ Free \notin Row
    BY TreeAssumption DEF IdsLeft
  <2>3. /\ \A j \in Ids : dirs'[j] \in Row <=> j \in Entries \cup {i}
        /\ i \notin Entries
        /\ Settled(dirs', Entries \cup {i}) /\ \A j \in Entries : dirs'[j] = dirs[j]
    BY <1>1, <1>3, InsertFacts
  <2>4. Entries' = Entries \cup {i}
    <3>1. \A j \in Ids : j \in Entries' <=> j \in Entries \cup {i}
      BY <2>3 DEF Entries, Present
    <3> QED
      BY <2>2, <3>1 DEF Entries
  <2>5. \A j \in Ids : dirs[j] # Free => dirs'[j] = dirs[j]
    BY <1>3, <2>2 DEF OrderInv, IInv, TypeOK
  <2>6. owner'[i] = i /\ \A c \in Ids \ {i} : owner'[c] = owner[c]
    BY <1>3, <2>2 DEF OrderInv, IInv, TypeOK
  <2>7. Filled(Entries)'
    <3>1. \A c \in Ids : owner'[c] # NoOwner => owner'[c] \in Entries \cup {i}
      BY <2>1, <2>6 DEF Filled
    <3>2. ASSUME NEW j \in Entries PROVE \E c \in Ids : owner'[c] = j
      <4>1. PICK c \in Ids : owner[c] = j
        BY <2>1 DEF Filled
      <4>2. c # i
        BY <2>2, <4>1, TreeAssumption DEF OrderInv, TreeInv, Entries
      <4> QED
        BY <2>6, <4>1, <4>2
    <3> QED
      BY <2>2, <2>4, <2>6, <3>1, <3>2 DEF Filled
  <2>8. \A c \in Ids : dirs'[c] = Free => owner'[c] = NoOwner
    <3>1. dirs'[i] \in Row
      BY <2>2, <2>3
    <3>2. \A c \in Ids \ {i} : dirs'[c] = dirs[c]
      BY <1>3 DEF OrderInv, IInv, TypeOK
    <3> QED
      BY <2>2, <2>6, <3>1, <3>2 DEF OrderInv, TreeInv
  <2>9. \A u \in Requests \ {t} : Logged(u)' /\ Knows(u)' /\ ~Halfway(u)'
    <3>1. Settled(dirs', Entries') /\ Entries \subseteq Entries'
      BY <2>3, <2>4
    <3>2. \A c \in Ids : dirs[c] # Free => owner'[c] \in {owner[c], NoOwner}
      BY <2>2, <2>6
    <3>3. Entries \ Entries' = {}
      BY <3>1
    <3> QED
      BY <1>1, <2>5, <3>1, <3>2, <3>3, OthersKnow
  <2>10. Logged(t)' /\ Knows(t)'
    <3>1. stage'[t] = "done"
      BY <1>3 DEF Answer, OrderInv, IInv, TypeOK
    <3> QED
      BY <3>1, LoggedStep DEF Knows
  <2> QED
    BY <1>1, <2>3, <2>4, <2>7, <2>8, <2>9, <2>10 DEF TreeInv
<1> QED
  BY <1>2, <1>3 DEF AddInsert
-----------------------------------------------------------------------------
(* Deletes *)

LEMMA FindOrder ==
  ASSUME Orderly, OrderInv, IInv', NEW t \in Requests, DeleteFind(t), Step(t)
  PROVE  TreeInv'
<1>1. /\ t \in Active /\ op' = op /\ op[t].kind = "delete" /\ op[t].dn \in Dns
      /\ ~Halfway(t) /\ ~Halfway(t)' /\ UNCHANGED <<dirs, owner>>
  BY StepMoves, OpFacts
     DEF DeleteFind, Fails, Loads, OrderInv, IInv, StageInv, StageOf, Halfway, Moving
<1>2. CASE Fails(t, "noSuchObject")
  BY <1>1, <1>2, FailOrder
<1>3. ASSUME NEW i \in At(op[t].dn), Loads(t, "cascade", [NoLoad EXCEPT !.dir = i])
      PROVE  TreeInv'
  <2>0. op[t].dn \in Seq(Rdns) /\ IInv
    BY <1>1, PathFacts DEF OrderInv
  <2>1. i \in Entries /\ dirs[i].path = op[t].dn
    BY <2>0, AtFacts
  <2>2. stage'[t] = "cascade" /\ loc'[t].dir = i
    BY <1>3 DEF Loads, Goes, NoLoad, OrderInv, IInv, TypeOK
  <2>3. KnowsEntry(t)'
    BY <1>1, <2>1, <2>2, RowFacts DEF KnowsEntry, OrderInv, Entries, Present
  <2>4. Knows(t)'
    BY <1>1, <2>2, <2>3 DEF Knows
  <2> QED
    BY <1>1, <2>4, QuietStep
<1> QED
  BY <1>2, <1>3 DEF DeleteFind

\* The cascade of a delete reaches what has the path of its entry above it.
LEMMA CascadeBelow ==
  ASSUME OrderInv, NEW t \in Active, op[t].kind = "delete", stage[t] = "cascade"
  PROVE  /\ loc[t].dir \in Cascade(loc[t].dir)
         /\ \A i \in Cascade(loc[t].dir) :
              /\ i \in Ids /\ dirs[i] # Free
              /\ Present(i) => Present(loc[t].dir) /\ Above(op[t].dn, dirs[i].path)
<1> DEFINE d == loc[t].dir
           S == {d} \cup {i \in Entries : Present(d) /\ Above(op[t].dn, dirs[i].path)}
<1>1. /\ t \in Requests /\ ~Halfway(t) /\ KnowsEntry(t) /\ op[t].dn \in Dns
      /\ d \in Ids /\ dirs[d] # Free
  BY OpFacts DEF Active, Halfway, Moving, OrderInv, TreeInv, Knows, KnowsEntry, IInv, StageInv, StageOf
<1>2. Settled(dirs, Entries)
  BY <1>1, AllSettled
<1>3. S \in SUBSET Ids /\ d \in S
  BY <1>1 DEF Entries
<1>4. ASSUME NEW k \in Entries, dirs[k].parent \in S PROVE k \in S
  <2> DEFINE p == dirs[k].parent
  <2>1. p \in Entries
    BY <1>3, <1>4, RowFacts, TreeAssumption DEF OrderInv
  <2>2. Present(d) /\ Above(op[t].dn, dirs[p].path)
    <3>1. CASE p = d
      BY <1>1, <2>1, <3>1, AboveFacts DEF KnowsEntry, Entries
    <3>2. CASE p # d
      BY <1>4, <3>2
    <3> QED
      BY <3>1, <3>2
  <2>3. Child(dirs[p].path, dirs[k].path)
    BY <1>2, <2>1, AboveRow, TreeAssumption DEF OrderInv, Settled, Entries
  <2>4. Above(op[t].dn, dirs[k].path)
    BY <1>1, <2>1, <2>2, <2>3, AboveFacts, RowFacts DEF OrderInv
  <2> QED
    BY <2>2, <2>4
<1>5. Cascade(d) \subseteq S
  <2> HIDE DEF S
  <2> QED
    BY <1>3, <1>4 DEF Cascade
<1>6. d \in Cascade(d)
  BY <1>1 DEF Cascade
<1>7. ASSUME NEW i \in S
      PROVE  /\ i \in Ids /\ dirs[i] # Free
             /\ Present(i) => Present(d) /\ Above(op[t].dn, dirs[i].path)
  <2>1. CASE i = d
    BY <1>1, <2>1, AboveFacts DEF KnowsEntry
  <2>2. CASE i # d
    BY <1>7, <2>2, RowFacts DEF OrderInv
  <2> QED
    BY <2>1, <2>2
<1> QED
  BY <1>5, <1>6, <1>7

LEMMA CascadeOrder ==
  ASSUME Orderly, OrderInv, IInv', NEW t \in Requests, DeleteCascade(t), Step(t)
  PROVE  TreeInv'
<1>1. /\ t \in Active /\ op' = op /\ op[t].kind = "delete" /\ stage[t] = "cascade"
      /\ ~Halfway(t) /\ ~Halfway(t)' /\ UNCHANGED <<dirs, owner>> /\ KnowsEntry(t)
  BY StepMoves
     DEF DeleteCascade, Loads, OrderInv, TreeInv, Knows, Halfway, Moving
<1>2. /\ stage'[t] = "remove" /\ loc[t] \in Loaded /\ loc'[t] = Doomed(loc[t])
      /\ \A u \in Requests \ {t} : stage'[u] = stage[u]
      /\ answer' = answer
  BY DEF DeleteCascade, Loads, Goes, OrderInv, IInv, TypeOK
<1>3. /\ loc'[t].dir = loc[t].dir /\ loc'[t].doomed = Cascade(loc[t].dir)
      /\ loc'[t].contents = {c \in Ids : owner[c] \in Cascade(loc[t].dir)}
  BY <1>2 DEF Doomed, Loaded
<1>4. Effective' = Effective
  BY <1>1, <1>2 DEF Effective
<1>5. KnowsEntry(t)'
  BY <1>1, <1>3, <1>4 DEF KnowsEntry, Forestalled, Present
<1>6. KnowsDoomed(t)'
  <2>1. \A c \in Ids : owner[c] \in Cascade(loc[t].dir) => dirs[c] # Free
    <3>1. \A i \in Cascade(loc[t].dir) : i # NoOwner
      BY TreeAssumption DEF Cascade
    <3> QED
      BY <3>1 DEF OrderInv, TreeInv
  <2> QED
    BY <1>1, <1>3, <2>1, CascadeBelow DEF KnowsDoomed, Present
<1>7. Knows(t)'
  BY <1>1, <1>2, <1>5, <1>6 DEF Knows
<1> QED
  BY <1>1, <1>7, QuietStep

\* What a delete that is committed removes, and what it leaves.
LEMMA RemovalFacts ==
  ASSUME Orderly, OrderInv, IInv', NEW t \in Active, op[t].kind = "delete", stage[t] = "remove",
         \A i \in Ids : dirs'[i] = IF Present(i) /\ i \in loc[t].doomed THEN Gone ELSE dirs[i],
         \A c \in Ids : owner'[c] = IF c \in loc[t].contents THEN NoOwner ELSE owner[c],
         \A c \in Ids : owner'[c] # NoOwner => dirs'[owner'[c]] \in Row
  PROVE  /\ Entries' = Entries \ loc[t].doomed
         /\ \A i \in Entries' : dirs'[i] = dirs[i]
         /\ Settled(dirs', Entries') /\ Filled(Entries)'
         /\ \A i \in Entries \ Entries' : Above(op[t].dn, dirs[i].path)
         /\ Present(loc[t].dir) => \A i \in Entries' : ~Above(op[t].dn, dirs[i].path)
<1>1. /\ t \in Requests /\ ~Halfway(t) /\ KnowsEntry(t) /\ KnowsDoomed(t) /\ op[t].dn \in Dns
      /\ loc[t].doomed \subseteq Ids
  BY OpFacts
     DEF Active, Halfway, Moving, OrderInv, TreeInv, Knows, IInv, StageInv, StageOf, TypeOK, Loaded
<1>2. Settled(dirs, Entries) /\ Filled(Entries)
  BY <1>1, AllSettled
<1>3. Entries' = Entries \ loc[t].doomed /\ Gone \notin Row
  BY TreeAssumption DEF Entries, Present
<1>4. \A i \in Entries' : i \in Ids /\ dirs'[i] = dirs[i]
  BY <1>3 DEF Entries
<1>5. \A i \in Entries' : dirs'[i] \in Row /\ dirs'[i].parent \in Entries' \cup {NoParent}
  BY DEF IInv, Valid, Entries, Present
<1>6. \A i \in Entries' : Placed(dirs', i)
  <2> TAKE i \in Entries'
  <2>1. PathAbove(dirs', i) = PathAbove(dirs, i)
    BY <1>4, <1>5 DEF PathAbove
  <2> QED
    BY <1>2, <1>3, <1>4, <2>1 DEF Settled, Placed
<1>7. Settled(dirs', Entries')
  BY <1>2, <1>3, <1>4, <1>6 DEF Settled, Unique
<1>8. Filled(Entries)'
  <2>1. \A c \in Ids : owner'[c] # NoOwner => owner'[c] \in Entries'
    <3> TAKE c \in Ids
    <3> HAVE owner'[c] # NoOwner
    <3>1. owner'[c] \in Ids
      BY DEF IInv, TypeOK
    <3> QED
      BY <3>1 DEF Entries, Present
  <2>2. ASSUME NEW i \in Entries' PROVE \E c \in Ids : owner'[c] = i
    <3>1. i \in Entries /\ i \notin loc[t].doomed /\ i # NoOwner
      BY <1>3, <1>4, TreeAssumption
    <3>2. PICK c \in Ids : owner[c] = i
      BY <1>2, <3>1 DEF Filled
    <3>3. c \notin loc[t].contents
      BY <1>1, <3>1, <3>2 DEF KnowsDoomed
    <3> QED
      BY <3>2, <3>3
  <2> QED
    BY <2>1, <2>2 DEF Filled
<1>9. \A i \in Entries \ Entries' : Above(op[t].dn, dirs[i].path)
  BY <1>1, <1>3 DEF KnowsDoomed, Entries
<1>10. ASSUME Present(loc[t].dir), NEW i \in Entries', Above(op[t].dn, dirs[i].path)
       PROVE  FALSE
  <2> DEFINE S == Entries'
             table == dirs'
  <2>1. /\ S \in SUBSET Ids /\ i \in S /\ Above(op[t].dn, table[i].path)
        /\ \A j \in S : /\ table[j] \in Row /\ table[j].parent \in S \cup {NoParent}
                        /\ Placed(table, j)
    BY <1>4, <1>5, <1>6, <1>10
  <2> HIDE DEF S, table
  <2>2. op[t].dn \in Dns
    BY <1>1
  <2>6. \E j \in S : table[j].path = op[t].dn
    BY <2>1, <2>2, Rooted
  <2>7. PICK j \in S : table[j].path = op[t].dn
    BY <2>6
  <2>3. j \in Entries /\ j \notin loc[t].doomed /\ dirs[j].path = op[t].dn
    BY <1>3, <1>4, <2>7 DEF S, table
  <2>4. loc[t].dir \in Entries /\ dirs[loc[t].dir].path = op[t].dn
    BY <1>1, <1>10 DEF KnowsEntry, Entries
  <2>5. j = loc[t].dir
    BY <1>2, <2>3, <2>4 DEF Settled, Unique
  <2> QED
    BY <1>1, <2>3, <2>5 DEF KnowsDoomed
<1> QED
  BY <1>3, <1>4, <1>7, <1>8, <1>9, <1>10

LEMMA RemovalOrder ==
  ASSUME Orderly, OrderInv, IInv', NEW t \in Requests, CommitRemoval(t), op[t].kind = "delete",
         Step(t)
  PROVE  TreeInv'
<1>1. /\ t \in Active /\ op' = op /\ stage[t] = "remove"
      /\ ~Moving(t) /\ ~Halfway(t) /\ ~Halfway(t)'
      /\ \A u \in Requests \ {t} :
           stage'[u] = stage[u] /\ loc'[u] = loc[u] /\ answer'[u] = answer[u]
  BY StepMoves DEF CommitRemoval, OrderInv, Halfway, Moving
<1>2. CASE Fails(t, "died")
  BY <1>1, <1>2, FailOrder
<1>3. CASE ~Fails(t, "died")
  <2>1. /\ \A i \in Ids : dirs'[i] = IF Present(i) /\ i \in loc[t].doomed THEN Gone ELSE dirs[i]
        /\ \A c \in Ids : owner'[c] = IF c \in loc[t].contents THEN NoOwner ELSE owner[c]
        /\ \A c \in Ids : owner'[c] # NoOwner => dirs'[owner'[c]] \in Row
        /\ Answer(t, "success")
    BY <1>3 DEF CommitRemoval
  <2>2. /\ Entries' = Entries \ loc[t].doomed
        /\ Settled(dirs', Entries') /\ Filled(Entries)'
        /\ \A i \in Entries \ Entries' : Above(op[t].dn, dirs[i].path)
    BY <1>1, <2>1, RemovalFacts
  <2>3. \A i \in Ids : dirs[i] # Free => dirs'[i] = dirs[i] \/ dirs'[i] = Gone
    BY <2>1
  <2>4. \A c \in Ids : owner'[c] \in {owner[c], NoOwner}
    BY <2>1
  <2>5. t \in Effective' /\ stage'[t] = "done"
    BY <2>1 DEF Effective, Answer, OrderInv, IInv, TypeOK
  <2>6. \A u \in Requests \ {t} : Logged(u)' /\ Knows(u)' /\ ~Halfway(u)'
    BY <1>1, <2>2, <2>3, <2>4, <2>5, OthersKnow
  <2>7. \A c \in Ids : dirs'[c] = Free => owner'[c] = NoOwner
    BY <2>1, TreeAssumption DEF OrderInv, TreeInv
  <2>8. Logged(t)' /\ Knows(t)'
    BY <2>5, LoggedStep DEF Knows
  <2> QED
    BY <1>1, <2>2, <2>6, <2>7, <2>8 DEF TreeInv
<1> QED
  BY <1>2, <1>3
-----------------------------------------------------------------------------
(* Renames: up to the first commit *)

LEMMA MoverFacts ==
  ASSUME Orderly, OrderInv, NEW t \in Requests, Moving(t)
  PROVE  /\ op[t] \in Operations /\ op[t].dn \in Dns /\ op[t].rdn \in Rdns
         /\ loc[t] \in Loaded
         /\ \/ op[t].superior = NoSuperior
            \/ op[t].superior = BaseDn /\ Len(op[t].dn) = 1
            \/ op[t].superior \in Dns /\ Len(op[t].dn) = Len(op[t].superior) + 1
<1>1. op[t] \in Operations /\ op[t].kind = "modifyDN" /\ loc[t] \in Loaded
  BY DEF Moving, Active, OrderInv, IInv, TypeOK, StageInv, StageOf
<1>2. op[t] \in MoveOps
  BY <1>1 DEF Operations, AddOps, DeleteOps
<1>3. PICK m \in Moves :
        op[t] = [kind |-> "modifyDN", dn |-> m[1], rdn |-> m[2], superior |-> m[3]]
  BY <1>2 DEF MoveOps
<1>4. op[t].dn = m[1] /\ op[t].superior = m[3]
  BY <1>3
<1> QED
  BY <1>1, <1>3, <1>4, OpFacts DEF Orderly, LevelKept

\* A step of a rename is all that happens.
LEMMA MoverStep ==
  ASSUME Orderly, OrderInv, IInv', NEW t \in Requests, Moving(t), Step(t), Knows(t)',
         Halfway(t)' => HalfwayInv(t)',
         ~Halfway(t)' => Settled(dirs', Entries') /\ Filled(Entries)',
         \A c \in Ids : dirs'[c] = Free => owner'[c] = NoOwner
  PROVE  TreeInv'
<1>1. /\ t \in Active /\ op' = op
      /\ \A u \in Requests \ {t} :
           stage'[u] = stage[u] /\ loc'[u] = loc[u] /\ answer'[u] = answer[u]
  BY StepMoves DEF OrderInv
<1>2. \A u \in Requests \ {t} : Logged(u)' /\ Knows(u)' /\ ~Halfway(u)'
  BY <1>1, OthersKnow
<1>3. Logged(t)'
  BY LoggedStep
<1> QED
  BY <1>2, <1>3 DEF TreeInv

LEMMA TargetLength ==
  ASSUME NEW q \in Seq(Rdns), NEW d \in Dns, Len(d) = Len(q) + 1, NEW r \in Rdns
  PROVE  Child(q, Append(q, r)) /\ Len(Append(q, r)) = Len(d)
  BY AppendChild

LEMMA MoveFindOrder ==
  ASSUME Orderly, OrderInv, IInv', NEW t \in Requests, MoveFind(t), Step(t)
  PROVE  TreeInv'
<1>1. /\ Moving(t) /\ t \in Active /\ op' = op /\ UNCHANGED <<dirs, owner>>
      /\ ~Halfway(t) /\ ~Halfway(t)'
  BY StepMoves
     DEF MoveFind, Fails, Loads, Goes, Answer, OrderInv, IInv, TypeOK, Halfway, Moving, Active
<1>2. CASE Fails(t, "noSuchObject")
  BY <1>1, <1>2, FailOrder
<1>3. ASSUME ~Fails(t, "noSuchObject")
      PROVE  Knows(t)'
  <2> DEFINE sup == op[t].superior
             entry(i) == [NoLoad EXCEPT !.dir = i, !.path = dirs[i].path, !.depth = dirs[i].depth]
             above(i) == IF dirs[i].parent = NoParent THEN <<>> ELSE dirs[dirs[i].parent].path
  <2>1. PICK i \in At(op[t].dn) :
          \/ sup = NoSuperior
             /\ Loads(t, "create", [entry(i) EXCEPT !.up = dirs[i].parent, !.upPath = above(i),
                                                   !.newDepth = dirs[i].depth])
          \/ sup = BaseDn /\ Loads(t, "create", [entry(i) EXCEPT !.newDepth = 1])
          \/ sup \in Dns /\ Loads(t, "superior", entry(i))
    BY <1>3 DEF MoveFind
  <2>2. op[t].dn \in Seq(Rdns) /\ op[t].dn \in Dns /\ op[t].rdn \in Rdns /\ IInv
    BY <1>1, MoverFacts, PathFacts DEF OrderInv
  <2>3. i \in Entries /\ dirs[i].path = op[t].dn
    BY <2>2, AtFacts
  <2>4. Settled(dirs, Entries)
    BY <1>1, AllSettled
  <2>5. /\ dirs[i].depth = Len(op[t].dn) /\ above(i) \in Seq(Rdns) /\ Child(above(i), op[t].dn)
        /\ dirs[i].parent # NoParent => dirs[i].parent \in Entries
    BY <2>2, <2>3, <2>4, AboveRow DEF Settled, Placed, PlacedAt, PathAbove
  <2>6. above(i) = Front(op[t].dn)
    BY <2>2, <2>5, FrontChild
  <2>7. Len(op[t].dn) = Len(above(i)) + 1
    BY <2>5 DEF Child
  <2>8. CASE sup = NoSuperior /\
               Loads(t, "create", [entry(i) EXCEPT !.up = dirs[i].parent, !.upPath = above(i),
                                                   !.newDepth = dirs[i].depth])
    <3>1. /\ stage'[t] = "create" /\ loc'[t].dir = i /\ loc'[t].path = dirs[i].path
          /\ loc'[t].depth = dirs[i].depth /\ loc'[t].up = dirs[i].parent
          /\ loc'[t].upPath = above(i) /\ loc'[t].newDepth = dirs[i].depth
      BY <2>8 DEF Loads, Goes, NoLoad, OrderInv, IInv, TypeOK
    <3>2. HasEntry(t)'
      BY <1>1, <2>3, <2>5, <3>1 DEF HasEntry, Entries, Present
    <3>3. HasTarget(t)'
      <4> HIDE DEF above
      <4>3. Target(t)' = Front(op[t].dn)
        <5>1. op'[t].superior = NoSuperior /\ op'[t].dn = op[t].dn
          BY <1>1, <2>8
        <5> QED
          BY <5>1, TreeAssumption DEF Target
      <4>1. Target(t)' = above(i) /\ NewPath(t)' = Append(above(i), op[t].rdn)
        BY <1>1, <2>6, <3>1, <4>3 DEF NewPath
      <4>2. Child(above(i), Append(above(i), op[t].rdn))
            /\ Len(Append(above(i), op[t].rdn)) = Len(op[t].dn)
        BY <2>2, <2>5, <2>7, TargetLength
      <4> QED
        BY <1>1, <3>1, <4>1, <4>2 DEF HasTarget
    <3>4. IF loc'[t].up = NoParent THEN loc'[t].upPath = <<>>
          ELSE loc'[t].up \in Entries' /\ dirs'[loc'[t].up].path = loc'[t].upPath
      BY <1>1, <2>5, <3>1 DEF Entries, Present
    <3> QED
      BY <1>1, <2>5, <3>1, <3>2, <3>3, <3>4 DEF Knows, Moving
  <2>9. CASE sup = BaseDn /\ Loads(t, "create", [entry(i) EXCEPT !.newDepth = 1])
    <3>1. /\ stage'[t] = "create" /\ loc'[t].dir = i /\ loc'[t].path = dirs[i].path
          /\ loc'[t].depth = dirs[i].depth /\ loc'[t].up = NoParent
          /\ loc'[t].upPath = <<>> /\ loc'[t].newDepth = 1
      BY <2>9 DEF Loads, Goes, NoLoad, OrderInv, IInv, TypeOK
    <3>2. HasEntry(t)'
      BY <1>1, <2>3, <2>5, <3>1 DEF HasEntry, Entries, Present
    <3>3. Len(op[t].dn) = 1
      BY <1>1, <2>9, MoverFacts, TreeAssumption
    <3>4. HasTarget(t)'
      <4>1. Target(t)' = <<>> /\ NewPath(t)' = Append(<<>>, op[t].rdn)
        BY <1>1, <2>9, <3>1, TreeAssumption DEF Target, NewPath
      <4>2. <<>> \in Seq(Rdns) /\ Len(op[t].dn) = Len(<<>>) + 1
        BY <3>3
      <4>3. Child(<<>>, Append(<<>>, op[t].rdn)) /\ Len(Append(<<>>, op[t].rdn)) = Len(op[t].dn)
        BY <2>2, <4>2, TargetLength
      <4> QED
        BY <1>1, <3>1, <4>1, <4>3 DEF HasTarget
    <3> QED
      BY <1>1, <3>1, <3>2, <3>3, <3>4 DEF Knows, Moving
  <2>10. CASE sup \in Dns /\ Loads(t, "superior", entry(i))
    <3>1. /\ stage'[t] = "superior" /\ loc'[t].dir = i /\ loc'[t].path = dirs[i].path
          /\ loc'[t].depth = dirs[i].depth
      BY <2>10 DEF Loads, Goes, NoLoad, OrderInv, IInv, TypeOK
    <3>2. HasEntry(t)'
      BY <1>1, <2>3, <2>5, <3>1 DEF HasEntry, Entries, Present
    <3>3. Len(op[t].dn) = Len(sup) + 1
      BY <1>1, <2>10, MoverFacts, TreeAssumption
    <3> QED
      BY <1>1, <2>10, <3>1, <3>2, <3>3 DEF Knows, Moving
  <2> QED
    BY <2>1, <2>8, <2>9, <2>10
<1> QED
  BY <1>1, <1>2, <1>3, QuietStep

LEMMA MoveSuperiorOrder ==
  ASSUME Orderly, OrderInv, IInv', NEW t \in Requests, MoveSuperior(t), Step(t)
  PROVE  TreeInv'
<1>1. /\ Moving(t) /\ t \in Active /\ op' = op /\ UNCHANGED <<dirs, owner>>
      /\ ~Halfway(t) /\ ~Halfway(t)' /\ stage[t] = "superior"
  BY StepMoves
     DEF MoveSuperior, Fails, Loads, Goes, Answer, OrderInv, IInv, TypeOK, StageInv, StageOf,
         Halfway, Moving, Active
<1>2. CASE Fails(t, "noSuchObject")
  BY <1>1, <1>2, FailOrder
<1>3. ASSUME ~Fails(t, "noSuchObject")
      PROVE  Knows(t)'
  <2> DEFINE sup == op[t].superior
  <2>1. PICK p \in At(sup) : Loads(t, "create", [loc[t] EXCEPT !.up = p, !.upPath = dirs[p].path,
                                                    !.newDepth = Len(dirs[p].path) + 1])
    BY <1>3 DEF MoveSuperior
  <2>2. /\ HasEntry(t) /\ sup \in Dns /\ Len(op[t].dn) = Len(sup) + 1
        /\ op[t].dn \in Dns /\ op[t].rdn \in Rdns /\ sup \in Seq(Rdns) /\ IInv
    BY <1>1, MoverFacts, PathFacts DEF OrderInv, TreeInv, Knows
  <2>3. p \in Entries /\ dirs[p].path = sup
    BY <2>2, AtFacts
  <2>4. /\ stage'[t] = "create" /\ loc'[t].dir = loc[t].dir /\ loc'[t].path = loc[t].path
        /\ loc'[t].depth = loc[t].depth /\ loc'[t].up = p
        /\ loc'[t].upPath = sup /\ loc'[t].newDepth = Len(sup) + 1
    BY <2>1, <2>3 DEF Loads, Goes, Loaded, OrderInv, IInv, TypeOK
  <2>5. HasEntry(t)'
    BY <1>1, <2>2, <2>4 DEF HasEntry, Entries, Present
  <2>6. HasTarget(t)'
    <3>1. Target(t)' = sup /\ NewPath(t)' = Append(sup, op[t].rdn)
      BY <1>1, <2>2, <2>4, TreeAssumption DEF Target, NewPath
    <3>2. Child(sup, Append(sup, op[t].rdn)) /\ Len(Append(sup, op[t].rdn)) = Len(op[t].dn)
      <4> HIDE DEF sup
      <4> QED
        BY <2>2, TargetLength
    <3> QED
      BY <1>1, <2>4, <3>1, <3>2 DEF HasTarget
  <2>7. loc'[t].up # NoParent /\ loc'[t].up \in Entries' /\ dirs'[loc'[t].up].path = loc'[t].upPath
    BY <1>1, <2>3, <2>4, RowFacts, TreeAssumption DEF Entries, Present
  <2> QED
    BY <1>1, <2>2, <2>4, <2>5, <2>6, <2>7 DEF Knows, Moving
<1> QED
  BY <1>1, <1>2, <1>3, QuietStep
-----------------------------------------------------------------------------
(* Renames: the first and the second commit *)

LEMMA MoveCreateOrder ==
  ASSUME Orderly, OrderInv, IInv', NEW t \in Requests, MoveCreate(t), Step(t)
  PROVE  TreeInv'
<1>1. /\ Moving(t) /\ t \in Active /\ op' = op /\ owner' = owner
      /\ ~Halfway(t) /\ stage[t] = "create" /\ IInv
      /\ HasEntry(t) /\ HasTarget(t) /\ loc[t].newDepth = Len(op[t].dn)
      /\ IF loc[t].up = NoParent THEN loc[t].upPath = <<>>
         ELSE loc[t].up \in Entries /\ dirs[loc[t].up].path = loc[t].upPath
  BY StepMoves
     DEF MoveCreate, Fails, OrderInv, TreeInv, Knows, IInv, TypeOK, StageInv, StageOf,
         Halfway, Moving, Active
<1>2. CASE Fails(t, "died")
  BY <1>1, <1>2, FailOrder
<1>3. ASSUME NEW n \in IdsLeft, NEW row, NEW table,
             row = [parent |-> loc[t].up, name |-> NameOf[op[t].rdn],
                    path |-> NewPath(t), depth |-> loc[t].newDepth],
             table = [dirs EXCEPT ![n] = row],
             Valid(table), dirs' = table, Goes(t, "reparent", [loc[t] EXCEPT !.new = n])
      PROVE  TreeInv'
  <2>1. Settled(dirs, Entries) /\ Filled(Entries)
    BY <1>1, AllSettled
  <2>2. n \in Ids /\ dirs[n] = Free /\ Free \notin Row
    BY TreeAssumption DEF IdsLeft
  <2>3. /\ stage'[t] = "reparent" /\ loc'[t].dir = loc[t].dir /\ loc'[t].path = loc[t].path
        /\ loc'[t].depth = loc[t].depth /\ loc'[t].up = loc[t].up
        /\ loc'[t].upPath = loc[t].upPath /\ loc'[t].new = n
    BY <1>3 DEF Goes, Loaded, OrderInv, IInv, TypeOK
  <2>4. /\ op[t].dn \in Dns /\ op[t].rdn \in Rdns /\ loc[t].upPath \in Seq(Rdns)
        /\ loc[t].up \in Ids \cup {NoParent}
    BY <1>1, MoverFacts DEF Loaded
  <2>5. /\ NewPath(t) \in Dns /\ Last(NewPath(t)) = op[t].rdn
        /\ Child(loc[t].upPath, NewPath(t)) /\ Len(NewPath(t)) = Len(op[t].dn)
    BY <1>1, <2>4, AppendChild DEF NewPath, HasTarget
  <2>6. row \in Row
    <3>1. NameOf[op[t].rdn] \in Names /\ Len(op[t].dn) \in Nat
      BY <2>4, TreeAssumption, PathFacts
    <3> QED
      BY <1>1, <1>3, <2>4, <2>5, <3>1 DEF Row
  <2>7. table[n] = row /\ \A j \in Ids \ {n} : table[j] = dirs[j]
    BY <1>3, <2>2 DEF OrderInv, IInv, TypeOK
  <2>8. Placed(table, n)
    <3>1. PathAbove(table, n) = loc[t].upPath
      <4>1. CASE loc[t].up = NoParent
        BY <1>1, <1>3, <2>7, <4>1 DEF PathAbove
      <4>2. CASE loc[t].up # NoParent
        <5>1. loc[t].up \in Ids \ {n}
          BY <1>1, <2>2, <4>2, RowFacts
        <5> QED
          BY <1>1, <1>3, <2>7, <4>2, <5>1 DEF PathAbove
      <4> QED
        BY <4>1, <4>2
    <3>2. /\ row.name = NameOf[Last(row.path)] /\ row.depth = Len(row.path)
          /\ Child(loc[t].upPath, row.path)
      BY <1>1, <1>3, <2>5
    <3> QED
      BY <2>7, <3>1, <3>2 DEF Placed, PlacedAt
  <2>9. /\ \A i \in Entries : /\ i # n /\ table[i] = dirs[i]
                              /\ dirs[i].path # table[n].path /\ dirs[i].parent # n
        /\ \A i \in Ids : table[i] \in Row <=> i \in Entries \cup {n}
        /\ Settled(table, Entries \cup {n})
    <3>1. table[n] \in Row
      BY <2>6, <2>7
    <3>2. IInv /\ Settled(dirs, Entries) /\ Valid(table) /\ n \in Ids /\ dirs[n] = Free
          /\ \A j \in Ids \ {n} : table[j] = dirs[j]
      BY <1>1, <1>3, <2>1, <2>2, <2>7
    <3> QED
      BY <2>8, <3>1, <3>2, NewPlace
  <2>10. Entries' = Entries \cup {n} /\ n \notin Entries
    <3>1. \A j \in Ids : j \in Entries' <=> j \in Entries \cup {n}
      BY <1>3, <2>9 DEF Entries, Present
    <3> QED
      BY <2>2, <2>9, <3>1 DEF Entries
  <2>11. \A i \in Entries : ~Above(NewPath(t), dirs[i].path)
    <3> SUFFICES ASSUME NEW i \in Entries, Above(NewPath(t), dirs[i].path) PROVE FALSE
      OBVIOUS
    <3> DEFINE S == Entries
    <3>1. /\ S \in SUBSET Ids /\ i \in S
          /\ \A j \in S : /\ dirs[j] \in Row /\ dirs[j].parent \in S \cup {NoParent}
                          /\ Placed(dirs, j)
      BY <1>1, <2>1, RowFacts DEF Settled
    <3> HIDE DEF S
    <3>2. \E j \in S : dirs[j].path = NewPath(t)
      BY <2>5, <3>1, Rooted
    <3>3. table[n].path = NewPath(t)
      BY <1>3, <2>7
    <3> QED
      BY <2>9, <3>2, <3>3 DEF S
  <2>12. NewPath(t)' = NewPath(t) /\ HasTarget(t)'
    <3>1. NewPath(t)' = NewPath(t) /\ Target(t)' = Target(t)
      BY <1>1, <2>3 DEF NewPath, Target
    <3> QED
      BY <1>1, <2>3, <3>1 DEF HasTarget
  <2>13. HasEntry(t)'
    BY <1>1, <1>3, <2>3, <2>9, <2>10 DEF HasEntry
  <2>14. \A i \in Entries' : Placed(dirs', i) /\ dirs'[i].parent # n
    <3>1. dirs'[n].parent # n
      BY <1>1, <1>3, <2>2, <2>7, <2>10, TreeAssumption
    <3>2. \A i \in Entries : dirs'[i].parent # n
      BY <1>3, <2>9
    <3> QED
      BY <1>3, <2>9, <2>10, <3>1, <3>2 DEF Settled
  <2>15. Filled(Entries \ {loc[t].new})'
    <3>1. Entries' \ {n} = Entries
      BY <2>10
    <3> QED
      BY <1>1, <2>1, <2>3, <3>1 DEF Filled
  <2>16. HalfwayInv(t)'
    <3>1. dirs'[n].path = NewPath(t)' /\ n # loc[t].dir /\ loc[t].dir \in Entries
      BY <1>1, <1>3, <2>7, <2>10, <2>12 DEF HasEntry
    <3>2. \A i \in Entries' \ {n} : ~Above(NewPath(t)', dirs'[i].path)
      BY <1>3, <2>9, <2>10, <2>11, <2>12
    <3> QED
      BY <1>3, <2>3, <2>9, <2>10, <2>12, <2>13, <2>14, <2>15, <3>1, <3>2
         DEF HalfwayInv, Settled, Filled
  <2>17. Halfway(t)' /\ Knows(t)'
    BY <1>1, <2>3 DEF Halfway, Moving, Active, Knows
  <2>18. \A c \in Ids : dirs'[c] = Free => owner'[c] = NoOwner
    BY <1>1, <1>3, <2>2, <2>6, <2>7 DEF OrderInv, TreeInv
  <2> QED
    BY <1>1, <2>16, <2>17, <2>18, MoverStep
<1> QED
  BY <1>2, <1>3 DEF MoveCreate

\* The second commit cannot fail: the new row has no children yet.
LEMMA ReparentFacts ==
  ASSUME OrderInv, NEW t \in Requests, Halfway(t), stage[t] = "reparent",
         NEW table,
         \A i \in Ids : table[i] = IF Present(i) /\ dirs[i].parent = loc[t].dir
                                   THEN [dirs[i] EXCEPT !.parent = loc[t].new] ELSE dirs[i]
  PROVE  /\ \A i \in Entries :
              /\ table[i] \in Row /\ table[i].path = dirs[i].path
              /\ table[i].name = dirs[i].name /\ table[i].depth = dirs[i].depth
              /\ IF dirs[i].parent = loc[t].dir THEN table[i].parent = loc[t].new
                 ELSE table[i] = dirs[i]
         /\ \A i \in Ids : table[i] \in Row <=> i \in Entries
         /\ \A i \in Ids \ Entries : table[i] = dirs[i]
         /\ Valid(table)
<1>1. HalfwayInv(t) /\ IInv
  BY DEF OrderInv, TreeInv
<1>2. /\ loc[t].new \in Entries /\ loc[t].dir \in Entries /\ loc[t].new # loc[t].dir
      /\ \A i \in Entries : dirs[i].parent # loc[t].new
  BY <1>1 DEF HalfwayInv
<1>3. ASSUME NEW i \in Entries
      PROVE  /\ table[i] \in Row /\ table[i].path = dirs[i].path
             /\ table[i].name = dirs[i].name /\ table[i].depth = dirs[i].depth
             /\ IF dirs[i].parent = loc[t].dir THEN table[i].parent = loc[t].new
                ELSE table[i] = dirs[i]
  <2>1. i \in Ids /\ Present(i) /\ dirs[i] \in Row /\ loc[t].new \in Ids
    BY <1>2 DEF Entries, Present
  <2> QED
    BY <2>1 DEF Row
<1>4. \A i \in Ids \ Entries : table[i] = dirs[i]
  BY DEF Entries
<1>5. \A i \in Ids : table[i] \in Row <=> i \in Entries
  BY <1>3, <1>4 DEF Entries, Present
<1>6. Valid(table)
  <2>1. ASSUME NEW i \in Entries, NEW j \in Entries, i # j,
               table[i].parent = table[j].parent, table[i].name = table[j].name
        PROVE  FALSE
    <3>1. dirs[i].parent = dirs[j].parent
      BY <1>2, <1>3, <2>1
    <3>2. dirs[i].name = dirs[j].name
      BY <1>3, <2>1
    <3> QED
      BY <1>1, <2>1, <3>1, <3>2 DEF IInv, Valid, Entries, Present
  <2>2. \A i \in Entries : table[i].parent \in Entries \cup {NoParent}
    BY <1>1, <1>2, <1>3, RowFacts
  <2>3. {i \in Ids : table[i] \in Row} = Entries
    BY <1>5 DEF Entries
  <2> QED
    BY <2>1, <2>2, <2>3 DEF Valid
<1> QED
  BY <1>3, <1>4, <1>5, <1>6
LEMMA MoveReparentOrder ==
  ASSUME Orderly, OrderInv, IInv', NEW t \in Requests, MoveReparent(t), Step(t)
  PROVE  TreeInv'
<1>1. /\ Moving(t) /\ t \in Active /\ op' = op /\ owner' = owner
      /\ Halfway(t) /\ stage[t] = "reparent" /\ IInv /\ HalfwayInv(t)
  BY StepMoves
     DEF MoveReparent, Fails, OrderInv, TreeInv, IInv, TypeOK, StageInv, StageOf,
         Halfway, Moving, Active
<1> DEFINE table == [i \in Ids |-> IF Present(i) /\ dirs[i].parent = loc[t].dir
                                   THEN [dirs[i] EXCEPT !.parent = loc[t].new]
                                   ELSE dirs[i]]
           old == loc[t].dir
           new == loc[t].new
<1>2. \A i \in Ids : table[i] = IF Present(i) /\ dirs[i].parent = loc[t].dir
                                THEN [dirs[i] EXCEPT !.parent = loc[t].new] ELSE dirs[i]
  OBVIOUS
<1>3. \/ Valid(table) /\ dirs' = table /\ Goes(t, "repath", loc[t])
      \/ ~Valid(table) /\ Fails(t, "died")
  BY DEF MoveReparent
<1> HIDE DEF table
<1>4. /\ \A i \in Entries :
           /\ table[i] \in Row /\ table[i].path = dirs[i].path
           /\ table[i].name = dirs[i].name /\ table[i].depth = dirs[i].depth
           /\ IF dirs[i].parent = old THEN table[i].parent = new ELSE table[i] = dirs[i]
      /\ \A i \in Ids : table[i] \in Row <=> i \in Entries
      /\ \A i \in Ids \ Entries : table[i] = dirs[i]
      /\ Valid(table)
  BY <1>1, <1>2, ReparentFacts
<1>5. dirs' = table /\ loc'[t] = loc[t] /\ stage'[t] = "repath"
  BY <1>1, <1>3, <1>4 DEF Goes, IInv, TypeOK
<1>6. Entries' = Entries
  BY <1>4, <1>5 DEF Entries, Present
<1>7. /\ new \in Entries /\ old \in Entries /\ new # old /\ HasEntry(t) /\ HasTarget(t)
      /\ dirs[new].path = NewPath(t)
      /\ Unique(dirs, Entries) /\ Filled(Entries \ {new})
      /\ \A i \in Entries \ {new} : ~Above(NewPath(t), dirs[i].path)
      /\ \A i \in Entries : Placed(dirs, i) /\ dirs[i].parent # new
  BY <1>1 DEF HalfwayInv
<1>8. ASSUME NEW i \in Entries
      PROVE  IF dirs'[i].parent = new THEN PlacedAt(dirs'[i], op[t].dn) ELSE Placed(dirs', i)
  <2>1. PlacedAt(dirs[i], PathAbove(dirs, i)) /\ dirs[i].parent # new
    BY <1>7 DEF Placed
  <2>2. \A q : PlacedAt(dirs[i], q) => PlacedAt(dirs'[i], q)
    BY <1>4, <1>5 DEF PlacedAt
  <2>3. CASE dirs[i].parent = old
    <3>1. PathAbove(dirs, i) = op[t].dn
      <4>1. old # NoParent
        BY <1>1, <1>7, RowFacts, TreeAssumption
      <4> QED
        BY <1>7, <2>3, <4>1 DEF PathAbove, HasEntry
    <3> QED
      BY <1>4, <1>5, <2>1, <2>2, <2>3, <3>1
  <2>4. CASE dirs[i].parent # old
    <3>1. dirs'[i] = dirs[i]
      BY <1>4, <1>5, <2>4
    <3>2. dirs[i].parent \in Entries \cup {NoParent}
      BY <1>1, RowFacts
    <3>3. PathAbove(dirs', i) = PathAbove(dirs, i)
      BY <1>4, <1>5, <3>1, <3>2 DEF PathAbove
    <3> QED
      BY <2>1, <2>2, <3>1, <3>3 DEF Placed
  <2> QED
    BY <2>3, <2>4
<1>9. Placed(dirs', new)
  <2>1. dirs[new].parent # old
    <3>1. Child(PathAbove(dirs, new), NewPath(t)) /\ Len(NewPath(t)) = Len(op[t].dn)
      BY <1>7 DEF Placed, PlacedAt, HasTarget
    <3>2. dirs[old].path = op[t].dn /\ old # NoParent /\ Len(op[t].dn) \in Nat
      BY <1>1, <1>7, RowFacts, MoverFacts, PathFacts, TreeAssumption DEF HasEntry
    <3> SUFFICES ASSUME dirs[new].parent = old PROVE FALSE
      OBVIOUS
    <3>3. PathAbove(dirs, new) = op[t].dn
      BY <3>2 DEF PathAbove
    <3>4. Len(NewPath(t)) = Len(op[t].dn) + 1
      BY <3>1, <3>3 DEF Child
    <3> QED
      BY <3>1, <3>2, <3>4
  <2>2. dirs'[new].parent # new
    BY <1>4, <1>5, <1>7, <2>1
  <2> QED
    BY <1>7, <1>8, <2>2
<1>10. /\ NewPath(t)' = NewPath(t) /\ HasTarget(t)' /\ HasEntry(t)'
       /\ dirs'[new].path = NewPath(t)'
  <2>1. NewPath(t)' = NewPath(t) /\ Target(t)' = Target(t)
    BY <1>1, <1>5 DEF NewPath, Target
  <2>2. HasTarget(t)'
    BY <1>1, <1>5, <1>7, <2>1 DEF HasTarget
  <2> QED
    BY <1>1, <1>4, <1>5, <1>6, <1>7, <2>1, <2>2 DEF HasEntry
<1>11. Unique(dirs', Entries')
  BY <1>4, <1>5, <1>6, <1>7 DEF Unique
<1>12. Filled(Entries \ {loc[t].new})'
  BY <1>1, <1>5, <1>6, <1>7 DEF Filled
<1>13. \A i \in Entries' \ {new} : ~Above(NewPath(t)', dirs'[i].path)
  BY <1>4, <1>5, <1>6, <1>7, <1>10
<1>14. HalfwayInv(t)'
  BY <1>1, <1>5, <1>6, <1>7, <1>8, <1>9, <1>10, <1>11, <1>12, <1>13 DEF HalfwayInv
<1>15. Halfway(t)' /\ Knows(t)'
  BY <1>1, <1>5 DEF Halfway, Moving, Active, Knows
<1>16. \A c \in Ids : dirs'[c] = Free => owner'[c] = NoOwner
  <2>1. \A c \in Ids : dirs'[c] = Free => dirs[c] = Free
    BY <1>4, <1>5, TreeAssumption
  <2> QED
    BY <1>1, <2>1 DEF OrderInv, TreeInv
<1> QED
  BY <1>1, <1>14, <1>15, <1>16, MoverStep

-----------------------------------------------------------------------------
(* Renames: the third commit *)

\* The statement that rewrites the paths matches those at or below the entry's.
LEMMA SubordinateAbove ==
  ASSUME Orderly, NEW p \in Dns, NEW l, l.path \in Dns, l.depth = Len(l.path)
  PROVE  Subordinate(p, l) <=> Above(l.path, p)
<1> DEFINE d == l.path
           n == IF l.depth < Len(p) THEN l.depth ELSE Len(p)
<1>1. /\ p \in Seq(Rdns) /\ Len(p) \in Nat \ {0} /\ d \in Seq(Rdns) /\ Len(d) \in Nat \ {0}
      /\ l.depth = Len(d)
  BY PathFacts
<1>2. n \in 1..Len(p) /\ n <= Len(d)
  BY <1>1
<1>3. Slice(p, 1, l.depth) = SubSeq(p, 1, n)
  BY DEF Slice
<1> HIDE DEF n
<1>4. /\ SubSeq(p, 1, n) \in Seq(Rdns) /\ Len(SubSeq(p, 1, n)) = n
      /\ \A k \in 1..n : SubSeq(p, 1, n)[k] = p[k]
  <2>1. \A k \in 1..n : p[k] \in Rdns
    BY <1>1, <1>2
  <2> QED
    BY <1>1, <1>2, <2>1, SubSeqProperties
<1>5. Subordinate(p, l) <=> SubSeq(p, 1, n) = d
  BY <1>3, <1>4, LowerFacts DEF Subordinate
<1>6. CASE Len(d) <= Len(p)
  <2>1. n = Len(d)
    BY <1>1, <1>6 DEF n
  <2>2. SubSeq(p, 1, n) = d <=> \A k \in 1..Len(d) : d[k] = p[k]
    BY <1>1, <1>4, <2>1, SeqEqual
  <2> QED
    BY <1>5, <1>6, <2>2 DEF Above
<1>7. CASE ~(Len(d) <= Len(p))
  <2>1. n # Len(d)
    BY <1>1, <1>2, <1>7
  <2> QED
    BY <1>4, <1>5, <1>7, <2>1 DEF Above
<1> QED
  BY <1>6, <1>7

\* A path below d with q of the same length in the place of d.
Swapped(m, d, q, p) ==
  /\ m \in Dns /\ Len(m) = Len(p)
  /\ \A k \in 1..Len(p) : m[k] = IF k <= Len(d) THEN q[k] ELSE p[k]

LEMMA MovedPath ==
  ASSUME NEW d \in Dns, NEW p \in Dns, Above(d, p), NEW q \in Dns, Len(q) = Len(d)
  PROVE  Swapped(q \o SubSeq(p, Len(d) + 1, Len(p)), d, q, p)
<1> DEFINE n == Len(d)
           s == SubSeq(p, n + 1, Len(p))
<1>1. /\ p \in Seq(Rdns) /\ Len(p) \in Nat \ {0} /\ q \in Seq(Rdns) /\ Len(q) = n
      /\ n \in Nat \ {0} /\ n <= Len(p)
  BY PathFacts DEF Above
<1> HIDE DEF n
<1>2. /\ s \in Seq(Rdns) /\ Len(s) = Len(p) - n
      /\ \A k \in 1..(Len(p) - n) : s[k] = p[n + k]
  <2>1. \A k \in (n + 1)..Len(p) : p[k] \in Rdns
    BY <1>1
  <2>2. /\ s \in Seq(Rdns)
        /\ Len(s) = IF n + 1 <= Len(p) THEN Len(p) - (n + 1) + 1 ELSE 0
        /\ \A k \in 1..(Len(p) - (n + 1) + 1) : s[k] = p[n + 1 + k - 1]
    BY <1>1, <2>1, SubSeqProperties
  <2>3. Len(s) = Len(p) - n
    BY <1>1, <2>2
  <2>4. \A k \in 1..(Len(p) - n) : s[k] = p[n + k]
    <3> TAKE k \in 1..(Len(p) - n)
    <3>1. k \in 1..(Len(p) - (n + 1) + 1) /\ n + 1 + k - 1 = n + k
      BY <1>1
    <3> HIDE DEF s
    <3> QED
      BY <2>2, <3>1
  <2> QED
    BY <2>2, <2>3, <2>4
<1> HIDE DEF s
<1>3. /\ q \o s \in Seq(Rdns) /\ Len(q \o s) = Len(p)
      /\ \A k \in 1..Len(p) : (q \o s)[k] = IF k <= n THEN q[k] ELSE s[k - n]
  <2>1. /\ q \o s \in Seq(Rdns) /\ Len(q \o s) = Len(q) + Len(s)
        /\ \A k \in 1..(Len(q) + Len(s)) :
             (q \o s)[k] = IF k <= Len(q) THEN q[k] ELSE s[k - Len(q)]
    <3>1. q \in Seq(Rdns) /\ s \in Seq(Rdns)
      BY <1>1, <1>2
    <3> QED
      BY <3>1, ConcatProperties
  <2>2. Len(q) + Len(s) = Len(p)
    BY <1>1, <1>2
  <2> QED
    BY <1>1, <2>1, <2>2
<1>4. \A k \in 1..Len(p) : (q \o s)[k] = IF k <= n THEN q[k] ELSE p[k]
  <2> TAKE k \in 1..Len(p)
  <2>1. CASE k <= n
    BY <1>3, <2>1
  <2>2. CASE ~(k <= n)
    <3>1. k - n \in 1..(Len(p) - n) /\ n + (k - n) = k
      BY <1>1, <2>2
    <3>2. s[k - n] = p[k]
      BY <1>2, <3>1
    <3> QED
      BY <1>3, <2>2, <3>2
  <2> QED
    BY <2>1, <2>2
<1>5. q \o s \in Dns
  BY <1>1, <1>3 DEF Dns
<1> QED
  BY <1>3, <1>4, <1>5 DEF Swapped, s, n

\* What is a child stays one, what is elsewhere is not met.
LEMMA SwappedFacts ==
  ASSUME NEW d \in Dns, NEW q \in Dns, Len(q) = Len(d)
  PROVE  /\ \A p, m \in Dns : Swapped(m, d, q, p) /\ Above(d, p) => Above(q, m)
         /\ \A m \in Dns : Swapped(m, d, q, d) => m = q
         /\ \A p, m, p2, m2 \in Dns :
              Swapped(m, d, q, p) /\ Swapped(m2, d, q, p2) /\ Above(d, p) /\ Above(d, p2)
              /\ m = m2 => p = p2
         /\ \A p, m, p2, m2 \in Dns :
              Swapped(m, d, q, p) /\ Swapped(m2, d, q, p2) /\ Child(p, p2) => Child(m, m2)
         /\ \A p, m \in Dns : Swapped(m, d, q, p) /\ Child(d, p) => Child(q, m)
         /\ \A p, m \in Dns : Swapped(m, d, q, p) /\ Above(d, p) /\ p # d => Last(m) = Last(p)
<1>1. \A p \in Dns : p \in Seq(Rdns) /\ Len(p) \in Nat \ {0}
  BY PathFacts
<1>2. \A p, m \in Dns : Swapped(m, d, q, p) /\ Above(d, p) => Above(q, m)
  BY <1>1 DEF Swapped, Above
<1>3. \A m \in Dns : Swapped(m, d, q, d) => m = q
  BY <1>1, SeqEqual DEF Swapped
<1>4. \A p, m, p2, m2 \in Dns :
        Swapped(m, d, q, p) /\ Swapped(m2, d, q, p2) /\ Above(d, p) /\ Above(d, p2)
        /\ m = m2 => p = p2
  <2> TAKE p, m, p2, m2 \in Dns
  <2> HAVE Swapped(m, d, q, p) /\ Swapped(m2, d, q, p2) /\ Above(d, p) /\ Above(d, p2) /\ m = m2
  <2>1. Len(p) = Len(p2)
    BY DEF Swapped
  <2>2. \A k \in 1..Len(p) : p[k] = p2[k]
    <3> TAKE k \in 1..Len(p)
    <3>1. CASE k <= Len(d)
      BY <1>1, <3>1 DEF Above
    <3>2. CASE ~(k <= Len(d))
      BY <1>1, <2>1, <3>2 DEF Swapped
    <3> QED
      BY <3>1, <3>2
  <2> QED
    BY <1>1, <2>1, <2>2, SeqEqual
<1>5. \A p, m, p2, m2 \in Dns :
        Swapped(m, d, q, p) /\ Swapped(m2, d, q, p2) /\ Child(p, p2) => Child(m, m2)
  <2> TAKE p, m, p2, m2 \in Dns
  <2> HAVE Swapped(m, d, q, p) /\ Swapped(m2, d, q, p2) /\ Child(p, p2)
  <2>1. Len(m) = Len(p) /\ Len(m2) = Len(p2) /\ Len(p2) = Len(p) + 1
    BY DEF Swapped, Child
  <2>2. \A k \in 1..Len(p) : m2[k] = m[k]
    <3> TAKE k \in 1..Len(p)
    <3>1. k \in 1..Len(p2) /\ p2[k] = p[k]
      BY <1>1, <2>1 DEF Child
    <3>2. m2[k] = IF k <= Len(d) THEN q[k] ELSE p2[k]
      BY <3>1 DEF Swapped
    <3>3. m[k] = IF k <= Len(d) THEN q[k] ELSE p[k]
      BY DEF Swapped
    <3> QED
      BY <3>1, <3>2, <3>3
  <2> QED
    BY <2>1, <2>2 DEF Child
<1>6. \A p, m \in Dns : Swapped(m, d, q, p) /\ Child(d, p) => Child(q, m)
  BY <1>1 DEF Swapped, Child
<1>7. \A p, m \in Dns : Swapped(m, d, q, p) /\ Above(d, p) /\ p # d => Last(m) = Last(p)
  <2> TAKE p, m \in Dns
  <2> HAVE Swapped(m, d, q, p) /\ Above(d, p) /\ p # d
  <2>1. Len(p) # Len(d)
    BY AboveFacts
  <2>2. ~(Len(p) <= Len(d)) /\ Len(p) \in 1..Len(p)
    BY <1>1, <2>1 DEF Above
  <2> QED
    BY <2>2 DEF Swapped, Last
<1> QED
  BY <1>2, <1>3, <1>4, <1>5, <1>6, <1>7

\* What the third commit makes of the rows: it keeps all but the paths, and
\* the paths of the entry and its subordinates have a new beginning.
Repathed(table, t) ==
  \A i \in Ids : table[i] =
    IF Present(i) /\ Subordinate(dirs[i].path, loc[t])
    THEN [dirs[i] EXCEPT !.path = NewPath(t) \o Slice(@, loc[t].depth + 1, Len(@))]
    ELSE dirs[i]

PathSwapped(table, t, i) ==
  /\ table[i].parent = dirs[i].parent /\ table[i].path \in Dns
  /\ table[i].name = dirs[i].name /\ table[i].depth = dirs[i].depth
  /\ IF Above(op[t].dn, dirs[i].path)
     THEN /\ table[i].path =
               NewPath(t) \o SubSeq(dirs[i].path, Len(op[t].dn) + 1, Len(dirs[i].path))
          /\ Swapped(table[i].path, op[t].dn, NewPath(t), dirs[i].path)
     ELSE table[i] = dirs[i]

LEMMA RepathFacts ==
  ASSUME Orderly, OrderInv, NEW t \in Requests, Halfway(t), stage[t] = "repath",
         NEW table, Repathed(table, t)
  PROVE  /\ \A i \in Entries : PathSwapped(table, t, i)
         /\ \A i \in Ids : table[i] \in Row <=> i \in Entries
         /\ \A i \in Ids \ Entries : table[i] = dirs[i]
<1>1. HalfwayInv(t) /\ IInv
  BY DEF OrderInv, TreeInv
<1>2. /\ NewPath(t) \in Dns /\ Len(NewPath(t)) = Len(op[t].dn) /\ op[t].dn \in Dns
      /\ loc[t].path = op[t].dn /\ loc[t].depth = Len(op[t].dn)
  BY <1>1, RowFacts, MoverFacts DEF Halfway, HalfwayInv, HasEntry, HasTarget
<1>3. ASSUME NEW i \in Entries
      PROVE  PathSwapped(table, t, i) /\ table[i] \in Row
  <2> DEFINE p == dirs[i].path
             m == NewPath(t) \o SubSeq(p, Len(op[t].dn) + 1, Len(p))
             l == loc[t]
  <2>1. i \in Ids /\ Present(i) /\ dirs[i] \in Row /\ p \in Dns /\ Len(p) \in Nat
    BY <1>1, RowFacts, PathFacts DEF Entries
  <2>2. Subordinate(p, l) <=> Above(op[t].dn, p)
    <3>1. l.path \in Dns /\ l.depth = Len(l.path)
      BY <1>2
    <3> HIDE DEF p, l
    <3>2. Subordinate(p, l) <=> Above(l.path, p)
      BY <2>1, <3>1, SubordinateAbove
    <3> QED
      BY <1>2, <3>2 DEF l
  <2>3. Slice(p, loc[t].depth + 1, Len(p)) = SubSeq(p, Len(op[t].dn) + 1, Len(p))
    BY <1>2, <2>1 DEF Slice
  <2>4. table[i] = IF Above(op[t].dn, p) THEN [dirs[i] EXCEPT !.path = m] ELSE dirs[i]
    BY <2>1, <2>2, <2>3 DEF Repathed
  <2> HIDE DEF m
  <2>5. CASE Above(op[t].dn, p)
    <3>1. Swapped(m, op[t].dn, NewPath(t), p)
      <4> HIDE DEF p
      <4> QED
        BY <1>2, <2>1, <2>5, MovedPath DEF m
    <3>2. m \in Dns
      BY <3>1 DEF Swapped
    <3>3. table[i] = [dirs[i] EXCEPT !.path = m]
      BY <2>4, <2>5
    <3>4. table[i] \in Row /\ table[i].path = m
      BY <2>1, <3>2, <3>3 DEF Row
    <3> QED
      BY <2>1, <2>5, <3>1, <3>2, <3>3, <3>4 DEF Row, PathSwapped, m
  <2>6. CASE ~Above(op[t].dn, p)
    BY <2>1, <2>4, <2>6 DEF PathSwapped
  <2> QED
    BY <2>5, <2>6
<1>4. \A i \in Ids \ Entries : table[i] = dirs[i]
  BY DEF Entries, Repathed
<1>5. \A i \in Ids : table[i] \in Row <=> i \in Entries
  BY <1>3, <1>4 DEF Entries, Present
<1> QED
  BY <1>3, <1>4, <1>5

\* Then all rows but the old one are in their places.
LEMMA RepathSettles ==
  ASSUME Orderly, OrderInv, NEW t \in Requests, Halfway(t), stage[t] = "repath",
         NEW table, NEW old, NEW new, old = loc[t].dir, new = loc[t].new,
         \A i \in Entries : PathSwapped(table, t, i)
  PROVE  /\ table[old].path = NewPath(t) /\ table[new] = dirs[new]
         /\ Settled(table, Entries \ {old})
         /\ \A i \in Entries : dirs[i].parent # old
<1> DEFINE d == op[t].dn
           q == NewPath(t)
<1>1. IInv /\ HalfwayInv(t) /\ Moving(t)
  BY DEF OrderInv, TreeInv, Halfway
<1>2. /\ new \in Entries /\ old \in Entries /\ new # old
      /\ dirs[new].path = q /\ dirs[old].path = d /\ Len(q) = Len(d)
      /\ Placed(dirs, new) /\ Unique(dirs, Entries)
      /\ \A i \in Entries \ {new} : ~Above(q, dirs[i].path)
      /\ \A i \in Entries : IF dirs[i].parent = new THEN PlacedAt(dirs[i], d)
                            ELSE Placed(dirs, i)
  BY <1>1 DEF HalfwayInv, HasEntry, HasTarget
<1>3. d \in Dns /\ q \in Dns /\ Len(d) \in Nat \ {0} /\ new # NoParent
  BY <1>1, <1>2, RowFacts, MoverFacts, PathFacts, TreeAssumption
<1>4. \A i \in Entries : dirs[i].parent # old
  BY <1>1 DEF OrderInv, CarryInv, Carried
<1> HIDE DEF d, q
<1>5. /\ \A i \in Entries : Above(d, dirs[i].path) => Swapped(table[i].path, d, q, dirs[i].path)
      /\ \A i \in Entries : ~Above(d, dirs[i].path) => table[i] = dirs[i]
      /\ \A i \in Entries : dirs[i].path \in Dns /\ table[i].path \in Dns
  BY <1>1, RowFacts DEF PathSwapped, d, q
<1>6. ~Above(d, q)
  <2> SUFFICES ASSUME Above(d, q) PROVE FALSE
    OBVIOUS
  <2>1. d = q
    BY <1>2, <1>3, AboveFacts
  <2> QED
    BY <1>2, <1>3, <2>1, AboveFacts
<1>7. table[new] = dirs[new]
  BY <1>2, <1>5, <1>6
<1>8. table[old].path = q
  BY <1>2, <1>3, <1>5, AboveFacts, SwappedFacts
<1>9. ASSUME NEW i \in Entries \ {old}
      PROVE  Placed(table, i)
  <2> DEFINE p == dirs[i].path
             m == table[i].path
  <2>1. /\ i \in Entries /\ p \in Dns /\ m \in Dns /\ p # d
        /\ dirs[i].parent \in Entries \cup {NoParent}
    BY <1>1, <1>2, <1>5, RowFacts DEF Unique
  <2>2. dirs[i].name = NameOf[Last(p)] /\ dirs[i].depth = Len(p)
    BY <1>2, <2>1 DEF Placed, PlacedAt
  <2>5. table[i].parent = dirs[i].parent /\ table[i].name = dirs[i].name
        /\ table[i].depth = dirs[i].depth
    BY <2>1 DEF PathSwapped
  <2>3. Last(m) = Last(p) /\ Len(m) = Len(p)
    <3>1. CASE Above(d, p)
      <4>1. Swapped(m, d, q, p)
        BY <1>5, <2>1, <3>1
      <4>2. Len(m) = Len(p)
        BY <4>1 DEF Swapped
      <4> HIDE DEF m, p
      <4>3. Last(m) = Last(p)
        BY <1>2, <1>3, <2>1, <3>1, <4>1, SwappedFacts
      <4> QED
        BY <4>2, <4>3
    <3>2. CASE ~Above(d, p)
      BY <1>5, <2>1, <3>2
    <3> QED
      BY <3>1, <3>2
  <2>4. Child(PathAbove(table, i), m)
    <3>1. CASE dirs[i].parent = new
      <4>1. PathAbove(table, i) = q
        BY <1>2, <1>3, <1>7, <2>1, <2>5, <3>1 DEF PathAbove
      <4>2. Child(d, p)
        BY <1>2, <2>1, <3>1 DEF PlacedAt
      <4>3. Swapped(m, d, q, p)
        BY <1>3, <1>5, <2>1, <4>2, AboveFacts
      <4> QED
        BY <1>2, <1>3, <2>1, <4>1, <4>2, <4>3, SwappedFacts
    <3>2. CASE dirs[i].parent = NoParent
      <4>1. Child(<<>>, p)
        BY <1>2, <1>3, <2>1, <3>2 DEF Placed, PlacedAt, PathAbove
      <4>2. PathAbove(table, i) = <<>>
        BY <2>5, <3>2 DEF PathAbove
      <4> QED
        BY <2>3, <4>1, <4>2 DEF Child
    <3>3. CASE dirs[i].parent \in Entries \ {new}
      <4> DEFINE k == dirs[i].parent
                 pk == dirs[k].path
                 mk == table[k].path
      <4>1. /\ k \in Entries /\ k # old /\ pk \in Dns /\ mk \in Dns /\ k # NoParent
        BY <1>1, <1>4, <1>5, <2>1, <3>3, RowFacts, TreeAssumption
      <4>2. Child(pk, p)
        BY <1>2, <2>1, <3>3, <4>1 DEF Placed, PlacedAt, PathAbove
      <4>3. PathAbove(table, i) = mk
        BY <2>5, <4>1 DEF PathAbove
      <4>4. Above(d, p) <=> Above(d, pk)
        <5> HIDE DEF p, pk
        <5> QED
          BY <1>3, <2>1, <4>1, <4>2, AboveFacts
      <4>5. CASE Above(d, p)
        <5>1. Swapped(m, d, q, p) /\ Swapped(mk, d, q, pk)
          BY <1>5, <2>1, <4>1, <4>4, <4>5
        <5> HIDE DEF m, p, mk, pk
        <5> QED
          BY <1>2, <1>3, <2>1, <4>1, <4>2, <4>3, <5>1, SwappedFacts
      <4>6. CASE ~Above(d, p)
        <5>1. m = p /\ mk = pk
          BY <1>5, <2>1, <4>1, <4>4, <4>6
        <5> QED
          BY <4>2, <4>3, <5>1
      <4> QED
        BY <4>5, <4>6
    <3> QED
      BY <2>1, <3>1, <3>2, <3>3
  <2> QED
    BY <2>2, <2>3, <2>4, <2>5 DEF Placed, PlacedAt
<1>10. ASSUME NEW i \in Entries \ {old}, NEW j \in Entries \ {old},
              table[i].path = table[j].path
       PROVE  i = j
  <2>1. ASSUME NEW a \in Entries \ {old}, NEW b \in Entries, Above(d, dirs[a].path),
               ~Above(d, dirs[b].path), table[a].path = table[b].path
        PROVE  FALSE
    <3>1. Swapped(table[a].path, d, q, dirs[a].path) /\ table[b].path = dirs[b].path
      BY <1>5, <2>1
    <3>2. Above(q, dirs[b].path)
      BY <1>2, <1>3, <1>5, <2>1, <3>1, SwappedFacts
    <3>3. dirs[b].path = q
      BY <1>2, <3>2
    <3>4. Len(dirs[a].path) = Len(d)
      BY <1>2, <2>1, <3>1, <3>3 DEF Swapped
    <3>5. dirs[a].path = d
      BY <1>3, <1>5, <2>1, <3>4, AboveFacts
    <3> QED
      BY <1>2, <2>1, <3>5 DEF Unique
  <2>2. CASE Above(d, dirs[i].path) /\ Above(d, dirs[j].path)
    <3>1. dirs[i].path = dirs[j].path
      BY <1>2, <1>3, <1>5, <1>10, <2>2, SwappedFacts
    <3> QED
      BY <1>2, <3>1 DEF Unique
  <2>3. CASE ~Above(d, dirs[i].path) /\ ~Above(d, dirs[j].path)
    BY <1>2, <1>5, <1>10, <2>3 DEF Unique
  <2> QED
    BY <1>10, <2>1, <2>2, <2>3
<1> QED
  BY <1>4, <1>7, <1>8, <1>9, <1>10 DEF Settled, Unique, q

LEMMA MoveRepathOrder ==
  ASSUME Orderly, OrderInv, IInv', NEW t \in Requests, MoveRepath(t), Step(t)
  PROVE  TreeInv'
<1>1. /\ Moving(t) /\ t \in Active /\ op' = op
      /\ Halfway(t) /\ stage[t] = "repath" /\ IInv /\ HalfwayInv(t)
  BY StepMoves
     DEF MoveRepath, OrderInv, TreeInv, IInv, TypeOK, StageInv, StageOf, Halfway, Moving, Active
<1> DEFINE old == loc[t].dir
           new == loc[t].new
<1>2. /\ new \in Entries /\ old \in Entries /\ new # old /\ new \in Ids /\ old \in Ids
      /\ old # NoOwner /\ new # NoOwner /\ Filled(Entries \ {new})
  BY <1>1, RowFacts, TreeAssumption DEF HalfwayInv
<1>3. Present(new)
  BY <1>2 DEF Entries
<1>4. /\ owner' = [c \in Ids |-> IF c \in {b \in Ids : owner[b] = old} THEN new ELSE owner[c]]
      /\ dirs' = [i \in Ids |->
                    IF Present(i) /\ Subordinate(dirs[i].path, loc[t])
                    THEN [dirs[i] EXCEPT !.path =
                            NewPath(t) \o Slice(@, loc[t].depth + 1, Len(@))]
                    ELSE dirs[i]]
      /\ Goes(t, "cascade", loc[t])
  BY <1>3 DEF MoveRepath
<1>5. \A c \in Ids : owner'[c] = IF owner[c] = old THEN new ELSE owner[c]
  BY <1>4
<1>6. stage'[t] = "cascade" /\ loc'[t] = loc[t]
  BY <1>4 DEF Goes, IInv, TypeOK
<1> DEFINE table == dirs'
<1>7. Repathed(table, t)
  BY <1>4 DEF Repathed
<1> HIDE DEF table
<1>8. /\ \A i \in Entries : PathSwapped(table, t, i)
      /\ \A i \in Ids : table[i] \in Row <=> i \in Entries
      /\ \A i \in Ids \ Entries : table[i] = dirs[i]
  BY <1>1, <1>7, RepathFacts
<1>9. Entries' = Entries
  BY <1>8 DEF Entries, Present, table
<1>10. /\ table[old].path = NewPath(t) /\ table[new] = dirs[new]
       /\ Settled(table, Entries \ {old})
       /\ \A i \in Entries : dirs[i].parent # old
  <2> HIDE DEF old, new
  <2>1. old = loc[t].dir /\ new = loc[t].new
    BY DEF old, new
  <2> QED
    BY <1>1, <1>8, <2>1, RepathSettles
<1>11. Filled(Entries \ {loc[t].dir})'
  <2>1. \A c \in Ids : owner'[c] # NoOwner => owner'[c] \in Entries \ {old}
    BY <1>2, <1>5 DEF Filled
  <2>2. ASSUME NEW i \in Entries \ {old} PROVE \E c \in Ids : owner'[c] = i
    <3>1. CASE i = new
      <4>1. PICK c \in Ids : owner[c] = old
        BY <1>2 DEF Filled
      <4> QED
        BY <1>5, <3>1, <4>1
    <3>2. CASE i # new
      <4>1. PICK c \in Ids : owner[c] = i
        BY <1>2, <3>2 DEF Filled
      <4>2. owner'[c] = i
        BY <1>5, <4>1, <2>2
      <4> QED
        BY <4>2
    <3> QED
      BY <3>1, <3>2
  <2> QED
    BY <1>6, <1>9, <2>1, <2>2 DEF Filled
<1>12. HalfwayInv(t)'
  <2>1. NewPath(t)' = NewPath(t) /\ dirs'[new].path = NewPath(t)
    BY <1>1, <1>6, <1>10 DEF NewPath, HalfwayInv, table
  <2>2. Settled(dirs', Entries' \ {old}) /\ \A i \in Entries' : dirs'[i].parent # old
    BY <1>8, <1>9, <1>10 DEF PathSwapped, table
  <2> QED
    BY <1>2, <1>6, <1>9, <1>11, <2>1, <2>2 DEF HalfwayInv
<1>13. Halfway(t)' /\ Knows(t)'
  BY <1>1, <1>6 DEF Halfway, Moving, Active, Knows
<1>14. \A c \in Ids : dirs'[c] = Free => owner'[c] = NoOwner
  <2>1. \A c \in Ids : dirs'[c] = Free => dirs[c] = Free
    BY <1>8, TreeAssumption DEF table
  <2> QED
    BY <1>2, <1>5, <2>1 DEF OrderInv, TreeInv
<1> QED
  BY <1>1, <1>12, <1>13, <1>14, MoverStep

-----------------------------------------------------------------------------
(* Renames: the fourth commit *)

LEMMA MoveCascadeOrder ==
  ASSUME Orderly, OrderInv, IInv', NEW t \in Requests, MoveCascade(t), Step(t)
  PROVE  TreeInv'
<1>1. /\ Moving(t) /\ t \in Active /\ op' = op
      /\ Halfway(t) /\ stage[t] = "cascade" /\ IInv /\ HalfwayInv(t)
  BY StepMoves DEF MoveCascade, OrderInv, TreeInv, IInv, Halfway, Moving, Active
<1> DEFINE old == loc[t].dir
<1>2. old \in Entries /\ old \in Ids /\ \A i \in Entries : dirs[i].parent # old
  BY <1>1, RowFacts DEF HalfwayInv
<1>3. Loads(t, "remove", Doomed(loc[t])) /\ loc[t] \in Loaded
  BY <1>1, <1>2 DEF MoveCascade, Entries, IInv, TypeOK
<1>4. Cascade(old) = {old}
  <2>1. old \in Cascade(old)
    BY <1>2 DEF Cascade
  <2>2. {old} \in SUBSET Ids /\ \A k \in Entries : dirs[k].parent \in {old} => k \in {old}
    BY <1>2
  <2>3. Cascade(old) \subseteq {old}
    BY <2>2 DEF Cascade
  <2> QED
    BY <2>1, <2>3
<1>5. /\ stage'[t] = "remove" /\ loc'[t] = Doomed(loc[t]) /\ UNCHANGED <<dirs, owner>>
  BY <1>1, <1>3 DEF Loads, Goes, IInv, TypeOK
<1>6. loc'[t].dir = old /\ loc'[t].new = loc[t].new /\ loc'[t].upPath = loc[t].upPath
      /\ loc'[t].doomed = {old}
  BY <1>3, <1>4, <1>5 DEF Doomed, Loaded
<1>7. NewPath(t)' = NewPath(t) /\ Entries' = Entries
  BY <1>1, <1>5, <1>6 DEF NewPath, Entries, Present
<1>8. Filled(Entries \ {loc[t].dir})'
  BY <1>1, <1>5, <1>6, <1>7 DEF HalfwayInv, Filled
<1>9. HalfwayInv(t)'
  BY <1>1, <1>5, <1>6, <1>7, <1>8 DEF HalfwayInv
<1>10. Halfway(t)' /\ Knows(t)'
  BY <1>1, <1>5 DEF Halfway, Moving, Active, Knows
<1>11. \A c \in Ids : dirs'[c] = Free => owner'[c] = NoOwner
  BY <1>5 DEF OrderInv, TreeInv
<1> QED
  BY <1>1, <1>9, <1>10, <1>11, MoverStep

\* Nothing refers to the old row any more, so nothing keeps it.
LEMMA LastFacts ==
  ASSUME OrderInv, NEW t \in Requests, Moving(t), CommitRemoval(t)
  PROVE  /\ \A i \in Ids : dirs'[i] = IF i = loc[t].dir THEN Gone ELSE dirs[i]
         /\ owner' = owner /\ Answer(t, "success")
<1>1. /\ stage[t] = "remove" /\ Halfway(t) /\ IInv /\ HalfwayInv(t)
      /\ loc[t].contents = {}
  BY DEF CommitRemoval, Moving, Halfway, OrderInv, TreeInv, CarryInv, Carried
<1> DEFINE old == loc[t].dir
           table == [i \in Ids |-> IF Present(i) /\ i \in loc[t].doomed THEN Gone ELSE dirs[i]]
           kept == [c \in Ids |-> IF c \in loc[t].contents THEN NoOwner ELSE owner[c]]
<1>2. /\ old \in Entries /\ old \in Ids /\ loc[t].doomed = {old} /\ Gone \notin Row
      /\ \A i \in Entries : dirs[i].parent # old
      /\ Filled(Entries \ {old})
  BY <1>1, RowFacts, TreeAssumption DEF HalfwayInv
<1>3. \A i \in Ids : table[i] = IF i = old THEN Gone ELSE dirs[i]
  BY <1>2 DEF Entries
<1>4. kept = owner
  BY <1>1 DEF IInv, TypeOK
<1>5. \/ /\ Valid(table) /\ \A c \in Ids : kept[c] # NoOwner => table[kept[c]] \in Row
         /\ dirs' = table /\ owner' = kept /\ Answer(t, "success")
      \/ ~(Valid(table) /\ \A c \in Ids : kept[c] # NoOwner => table[kept[c]] \in Row)
  BY DEF CommitRemoval
<1> HIDE DEF table, kept
<1>6. Valid(table)
  <2>1. \A i \in Ids : table[i] \in Row => i \in Entries \ {old} /\ table[i] = dirs[i]
    BY <1>2, <1>3 DEF Entries, Present
  <2>2. \A i \in Entries \ {old} : table[i] = dirs[i] /\ table[i] \in Row /\ i \in Ids
    BY <1>1, <1>3, RowFacts
  <2>3. \A i \in Entries \ {old} : dirs[i].parent \in (Entries \ {old}) \cup {NoParent}
    BY <1>1, <1>2, RowFacts
  <2> QED
    BY <1>1, <2>1, <2>2, <2>3 DEF Valid, IInv, Entries, Present
<1>7. \A c \in Ids : kept[c] # NoOwner => table[kept[c]] \in Row
  BY <1>1, <1>2, <1>3, <1>4, RowFacts DEF Filled
<1> QED
  BY <1>3, <1>4, <1>5, <1>6, <1>7

LEMMA MoveRemovalOrder ==
  ASSUME Orderly, OrderInv, IInv', NEW t \in Requests, CommitRemoval(t), Moving(t), Step(t)
  PROVE  TreeInv'
<1>1. /\ t \in Active /\ op' = op /\ IInv /\ HalfwayInv(t) /\ stage[t] = "remove"
  BY StepMoves DEF CommitRemoval, OrderInv, TreeInv, Halfway, Moving
<1> DEFINE old == loc[t].dir
           table == dirs'
<1>2. /\ \A i \in Ids : table[i] = IF i = old THEN Gone ELSE dirs[i]
      /\ owner' = owner /\ stage'[t] = "done"
  BY <1>1, LastFacts DEF Answer, IInv, TypeOK
<1>3. /\ old \in Ids /\ Gone \notin Row /\ Gone # Free
      /\ Settled(dirs, Entries \ {old}) /\ Filled(Entries \ {old})
      /\ \A i \in Entries : dirs[i].parent # old
  BY <1>1, RowFacts, TreeAssumption DEF HalfwayInv
<1>4. Entries' = Entries \ {old}
  BY <1>2, <1>3 DEF Entries, Present
<1>5. \A i \in Entries \ {old} :
        table[i] = dirs[i] /\ dirs[i].parent \in (Entries \ {old}) \cup {NoParent}
  BY <1>1, <1>2, <1>3, RowFacts
<1>6. Settled(table, Entries \ {old})
  <2> HIDE DEF table
  <2>1. ASSUME NEW i \in Entries \ {old} PROVE Placed(table, i)
    <3>1. PathAbove(table, i) = PathAbove(dirs, i)
      BY <1>5 DEF PathAbove
    <3> QED
      BY <1>3, <1>5, <3>1 DEF Settled, Placed
  <2> QED
    BY <1>3, <1>5, <2>1 DEF Settled, Unique
<1>7. Filled(Entries)'
  BY <1>2, <1>3, <1>4 DEF Filled
<1>8. ~Halfway(t)' /\ Knows(t)'
  BY <1>2 DEF Halfway, Knows
<1>9. \A c \in Ids : dirs'[c] = Free => owner'[c] = NoOwner
  BY <1>2, <1>3 DEF OrderInv, TreeInv
<1> QED
  BY <1>4, <1>6, <1>7, <1>8, <1>9, MoverStep
-----------------------------------------------------------------------------
(* The order of the tree *)

LEMMA BeginOrder ==
  ASSUME Orderly, OrderInv, IInv', NEW t \in Requests, NEW o \in Operations, Begin(t, o)
  PROVE  TreeInv'
<1>1. /\ stage[t] = "idle" /\ stage'[t] \in {"check", "find"} /\ op'[t] = o
      /\ UNCHANGED <<dirs, owner, loc, answer>>
      /\ \A u \in Requests \ {t} : stage'[u] = stage[u] /\ op'[u] = op[u]
  BY DEF Begin, OrderInv, IInv, TypeOK
<1>2. \A u \in Requests \ {t} : ~Moving(u)
  BY OthersWait DEF Orderly, OrderInv
<1>3. \A u \in Requests : ~Halfway(u) /\ ~Halfway(u)'
  BY <1>1, <1>2 DEF Halfway, Moving, Active
<1>4. Settled(dirs', Entries') /\ Filled(Entries)'
  BY <1>1, <1>3 DEF OrderInv, TreeInv, Entries, Present, Filled
<1>5. answer[t] = "none" /\ t \notin Effective
  BY <1>1 DEF OrderInv, TreeInv, Logged, Effective
<1>6. Logged(t)' /\ Knows(t)'
  BY <1>1, <1>5 DEF Logged, Knows
<1>7. ASSUME NEW u \in Requests \ {t} PROVE Logged(u)' /\ Knows(u)'
  <2>1. Logged(u) /\ Knows(u)
    BY DEF OrderInv, TreeInv
  <2>2. Forestalled(u) => Forestalled(u)'
    <3>1. \A v \in Effective : v \in Effective' /\ op'[v] = op[v]
      BY <1>1, <1>5 DEF Effective
    <3> QED
      BY <1>1, <3>1 DEF Forestalled
  <2>3. Logged(u)'
    BY <1>1, <2>1 DEF Logged
  <2>4. stage[u] \notin {"superior", "create"}
    BY <1>2 DEF Moving, Active, OrderInv, IInv, StageInv, StageOf
  <2>5. Knows(u)'
    BY <1>1, <2>1, <2>2, <2>4
       DEF Knows, KnowsParent, KnowsEntry, KnowsDoomed, Present
  <2> QED
    BY <2>3, <2>5
<1> QED
  BY <1>1, <1>3, <1>4, <1>6, <1>7 DEF OrderInv, TreeInv

LEMMA InitOrder ==
  ASSUME Orderly, Init
  PROVE  OrderInv
<1>1. IInv /\ CarryInv
  BY InitIInv DEF Init, CarryInv, Moving, Active
<1>2. Entries = SeedRows /\ Settled(dirs, Entries)
  BY DEF Init, Orderly, Entries, Present, SeedRows
<1>3. Filled(Entries)
  BY <1>2, TreeAssumption DEF Init, SeedOwner, SeedRows, Filled
<1>4. \A t \in Requests : Logged(t) /\ Knows(t) /\ ~Halfway(t)
  BY DEF Init, Logged, Knows, Halfway, Moving, Active
<1>5. \A c \in Ids : dirs[c] = Free => owner[c] = NoOwner
  BY TreeAssumption DEF Init, SeedOwner
<1> QED
  BY <1>1, <1>2, <1>3, <1>4, <1>5 DEF OrderInv, TreeInv

LEMMA NextOrder ==
  ASSUME Orderly, OrderInv, [Next]_vars
  PROVE  OrderInv'
<1>1. IInv'
  BY NextIInv DEF OrderInv
<1>2. CarryInv'
  BY NextCarry DEF OrderInv, Orderly
<1>3. TreeInv'
  <2>1. CASE UNCHANGED vars
    <3>1. /\ dirs' = dirs /\ owner' = owner /\ op' = op /\ stage' = stage /\ loc' = loc
          /\ answer' = answer
      BY <2>1 DEF vars
    <3>2. Entries' = Entries /\ Effective' = Effective
      BY <3>1 DEF Entries, Present, Effective
    <3>3. ASSUME NEW t \in Requests
          PROVE  /\ Logged(t)' = Logged(t) /\ Halfway(t)' = Halfway(t)
                 /\ Knows(t) => Knows(t)'
                 /\ HalfwayInv(t) => HalfwayInv(t)'
      <4>1. Target(t)' = Target(t) /\ NewPath(t)' = NewPath(t)
        BY <3>1 DEF Target, NewPath
      <4>2. HasEntry(t)' = HasEntry(t) /\ HasTarget(t)' = HasTarget(t)
        BY <3>1, <3>2, <4>1 DEF HasEntry, HasTarget
      <4>3. Logged(t)' = Logged(t) /\ Halfway(t)' = Halfway(t)
        BY <3>1 DEF Logged, Halfway, Moving, Active
      <4>4. Knows(t) => Knows(t)'
        BY <3>1, <3>2, <4>2
           DEF Knows, KnowsParent, KnowsEntry, KnowsDoomed, Forestalled, Present
      <4>5. Filled(Entries \ {loc[t].new})' = Filled(Entries \ {loc[t].new})
            /\ Filled(Entries \ {loc[t].dir})' = Filled(Entries \ {loc[t].dir})
        BY <3>1, <3>2 DEF Filled
      <4>6. HalfwayInv(t) => HalfwayInv(t)'
        BY <3>1, <3>2, <4>1, <4>2, <4>5 DEF HalfwayInv
      <4> QED
        BY <4>3, <4>4, <4>6
    <3>4. Filled(Entries)' = Filled(Entries)
      BY <3>1, <3>2 DEF Filled
    <3> QED
      BY <3>1, <3>2, <3>3, <3>4 DEF OrderInv, TreeInv
  <2>2. ASSUME NEW t \in Requests, NEW o \in Operations, Begin(t, o)
        PROVE  TreeInv'
    BY <1>1, <2>2, BeginOrder
  <2>3. ASSUME NEW t \in Requests, Step(t)
        PROVE  TreeInv'
    <3>1. CASE AddCheck(t) \/ AddParent(t)
      BY <1>1, <2>3, <3>1, AddOrder
    <3>2. CASE AddInsert(t)
      BY <1>1, <2>3, <3>2, InsertOrder
    <3>3. CASE DeleteFind(t)
      BY <1>1, <2>3, <3>3, FindOrder
    <3>4. CASE DeleteCascade(t)
      BY <1>1, <2>3, <3>4, CascadeOrder
    <3>5. CASE MoveFind(t)
      BY <1>1, <2>3, <3>5, MoveFindOrder
    <3>6. CASE MoveSuperior(t)
      BY <1>1, <2>3, <3>6, MoveSuperiorOrder
    <3>7. CASE MoveCreate(t)
      BY <1>1, <2>3, <3>7, MoveCreateOrder
    <3>8. CASE MoveReparent(t)
      BY <1>1, <2>3, <3>8, MoveReparentOrder
    <3>9. CASE MoveRepath(t)
      BY <1>1, <2>3, <3>9, MoveRepathOrder
    <3>10. CASE MoveCascade(t)
      BY <1>1, <2>3, <3>10, MoveCascadeOrder
    <3>11. CASE CommitRemoval(t)
      <4>1. op[t].kind = "delete" \/ Moving(t)
        BY <3>11 DEF CommitRemoval, Moving, Active, OrderInv, IInv, StageInv, StageOf
      <4> QED
        BY <1>1, <2>3, <3>11, <4>1, RemovalOrder, MoveRemovalOrder
    <3> QED
      BY <2>3, <3>1, <3>2, <3>3, <3>4, <3>5, <3>6, <3>7, <3>8, <3>9, <3>10, <3>11 DEF Step
  <2>4. \A t \in Requests : ~Crash(t)
    BY DEF Orderly, Crash
  <2> QED
    BY <2>1, <2>2, <2>3, <2>4 DEF Next
<1> QED
  BY <1>1, <1>2, <1>3 DEF OrderInv

\* Where a modify DN runs alone, keeps its level and is not cut off, and RDNs
\* are written in lower case, the paths follow the tree after every operation.
THEOREM PathsFollowTreeHolds ==
  ASSUME Orderly
  PROVE  Spec => []PathsFollowTree
<1>1. OrderInv => PathsFollowTree
  <2> SUFFICES ASSUME OrderInv, Active = {}, NEW i \in Entries
               PROVE  /\ IF dirs[i].parent = NoParent THEN Len(dirs[i].path) = 1
                         ELSE /\ Present(dirs[i].parent)
                              /\ Front(dirs[i].path) = dirs[dirs[i].parent].path
                      /\ dirs[i].depth = Len(dirs[i].path)
    BY DEF PathsFollowTree
  <2>1. Settled(dirs, Entries) /\ IInv
    BY DEF OrderInv, TreeInv, Halfway, Moving
  <2>2. /\ PathAbove(dirs, i) \in Seq(Rdns) /\ Child(PathAbove(dirs, i), dirs[i].path)
        /\ dirs[i].parent = NoParent <=> PathAbove(dirs, i) = <<>>
        /\ dirs[i].parent # NoParent =>
             dirs[i].parent \in Entries /\ PathAbove(dirs, i) = dirs[dirs[i].parent].path
        /\ dirs[i].depth = Len(dirs[i].path) /\ dirs[i].path \in Dns
    BY <2>1, AboveRow, RowFacts DEF Settled, Placed, PlacedAt
  <2>3. CASE dirs[i].parent = NoParent
    <3>1. Child(<<>>, dirs[i].path)
      BY <2>2, <2>3
    <3>2. Len(dirs[i].path) = Len(<<>>) + 1
      BY <3>1 DEF Child
    <3> QED
      BY <2>2, <2>3, <3>2
  <2>4. CASE dirs[i].parent # NoParent
    <3>1. Front(dirs[i].path) = PathAbove(dirs, i)
      BY <2>2, FrontChild
    <3> QED
      BY <2>2, <2>4, <3>1 DEF Entries
  <2> QED
    BY <2>3, <2>4
<1>2. Init => OrderInv
  BY InitOrder
<1>3. OrderInv /\ [Next]_vars => OrderInv'
  BY NextOrder
<1> QED
  BY <1>1, <1>2, <1>3, PTL DEF Spec

\* And no two entries have one DN.
THEOREM UniqueDnsHolds ==
  ASSUME Orderly
  PROVE  Spec => []UniqueDns
<1>1. OrderInv => UniqueDns
  <2> SUFFICES ASSUME OrderInv, Active = {}, NEW i \in Entries, NEW j \in Entries,
                      Lowered(dirs[i].path) = Lowered(dirs[j].path)
               PROVE  i = j
    BY DEF UniqueDns
  <2>1. Settled(dirs, Entries) /\ IInv
    BY DEF OrderInv, TreeInv, Halfway, Moving
  <2>2. dirs[i].path = dirs[j].path
    BY <2>1, RowFacts, LowerFacts
  <2> QED
    BY <2>1, <2>2 DEF Settled, Unique
<1>2. Init => OrderInv
  BY InitOrder
<1>3. OrderInv /\ [Next]_vars => OrderInv'
  BY NextOrder
<1> QED
  BY <1>1, <1>2, <1>3, PTL DEF Spec
-----------------------------------------------------------------------------
(* The tree implements the service *)

Place == Placement(dirs, owner)

\* Steps that move no contents do not show.
LEMMA PlaceStays ==
  ASSUME owner' = owner,
         \A c \in Ids : owner[c] # NoOwner => dirs'[owner[c]].path = dirs[owner[c]].path
  PROVE  Place' = Place
  BY DEF Place, Placement

\* The places taken are those of the rows that have the contents.
LEMMA TakenFacts ==
  ASSUME NEW S \in SUBSET Ids, Filled(S)
  PROVE  /\ DOMAIN Place = {c \in Ids : owner[c] # NoOwner}
         /\ \A c \in DOMAIN Place : owner[c] \in S /\ Place[c] = dirs[owner[c]].path
         /\ \A i \in S : \E c \in DOMAIN Place : Place[c] = dirs[i].path
<1>1. /\ DOMAIN Place = {c \in Ids : owner[c] # NoOwner}
      /\ \A c \in DOMAIN Place : Place[c] = dirs[owner[c]].path
  BY DEF Place, Placement
<1>2. ASSUME NEW i \in S PROVE \E c \in DOMAIN Place : Place[c] = dirs[i].path
  <2>1. PICK c \in Ids : owner[c] = i
    BY DEF Filled
  <2>2. i # NoOwner
    BY TreeAssumption
  <2> QED
    BY <1>1, <2>1, <2>2
<1> QED
  BY <1>1, <1>2 DEF Filled

\* The terms of the service, in those of the tree.
LEMMA ServiceTerms ==
  /\ Service!Held = DOMAIN Place
  /\ Service!Taken = {Place[c] : c \in DOMAIN Place}
  /\ Service!Parents = {Place[c] : c \in DOMAIN Place} \cup {<<>>}
  BY DEF Service!Held, Service!Taken, Service!Parents, Place

\* Whether the operation that takes a step has taken effect.
LEMMA EffectStep ==
  ASSUME OrderInv, NEW t \in Requests, Step(t)
  PROVE  /\ op' = op
         /\ \A u \in Requests \ {t} : u \in Effective' <=> u \in Effective
         /\ t \in Effective <=> op[t].kind = "modifyDN" /\ stage[t] \in {"cascade", "remove"}
         /\ t \in Effective' <=>
              answer'[t] = "success" \/ (op[t].kind = "modifyDN" /\ stage'[t] \in {"cascade", "remove"})
<1>1. /\ t \in Active /\ op' = op
      /\ \A u \in Requests \ {t} :
           stage'[u] = stage[u] /\ loc'[u] = loc[u] /\ answer'[u] = answer[u]
  BY StepMoves DEF OrderInv
<1>2. answer[t] = "none"
  BY <1>1 DEF Active, OrderInv, TreeInv, Logged
<1> QED
  BY <1>1, <1>2 DEF Effective

Stutters == UNCHANGED <<Place, op, Effective>>

LEMMA StutterStep ==
  ASSUME OrderInv, NEW t \in Requests, Step(t), Place' = Place, t \in Effective' <=> t \in Effective
  PROVE  Stutters
<1>1. Effective' = Effective
  BY EffectStep DEF Effective
<1> QED
  BY <1>1, EffectStep DEF Stutters

LEMMA BeginAsks ==
  ASSUME OrderInv, NEW t \in Requests, NEW o \in Operations, Begin(t, o)
  PROVE  Service!Ask(t, o)
<1>1. /\ stage[t] = "idle" /\ stage'[t] \in {"check", "find"} /\ op' = [op EXCEPT ![t] = o]
      /\ UNCHANGED <<dirs, owner, loc, answer>>
      /\ \A u \in Requests \ {t} : stage'[u] = stage[u] /\ op'[u] = op[u]
  BY DEF Begin, OrderInv, IInv, TypeOK
<1>2. op[t] = NoOp /\ answer[t] = "none"
  BY <1>1 DEF OrderInv, TreeInv, Logged
<1>3. Effective' = Effective
  BY <1>1, <1>2 DEF Effective
<1>4. Placement(dirs, owner)' = Placement(dirs, owner)
  BY <1>1 DEF Placement
<1> QED
  BY <1>1, <1>2, <1>3, <1>4 DEF Service!Ask

\* The steps of an add and a delete before their commit, and those that fail.
LEMMA QuietStutters ==
  ASSUME OrderInv, NEW t \in Requests, Step(t), UNCHANGED <<dirs, owner>>,
         answer'[t] # "success",
         \/ op[t].kind # "modifyDN"
         \/ stage[t] \in {"cascade", "remove"} <=> stage'[t] \in {"cascade", "remove"}
  PROVE  Stutters
<1>1. Place' = Place
  BY PlaceStays
<1>2. t \in Effective' <=> t \in Effective
  BY EffectStep
<1> QED
  BY <1>1, <1>2, StutterStep

LEMMA AddService ==
  ASSUME Orderly, OrderInv, NEW t \in Requests, Step(t), AddCheck(t) \/ AddParent(t) \/ AddInsert(t)
  PROVE  Stutters \/ \E c \in Ids : Service!Add(t, c)
<1>1. t \in Active /\ op' = op /\ op[t].kind = "add" /\ op[t].dn \in Dns /\ ~Halfway(t)
      /\ IInv /\ answer[t] = "none"
  BY StepMoves, OpFacts
     DEF AddCheck, AddParent, AddInsert, OrderInv, TreeInv, Logged, IInv, StageInv, StageOf,
         Halfway, Moving, Active
<1>2. ASSUME NEW a, Fails(t, a), a # "success"
      PROVE  Stutters
  <2>1. UNCHANGED <<dirs, owner>> /\ answer'[t] = a
    BY <1>1, <1>2 DEF Fails, Answer, IInv, TypeOK
  <2> QED
    BY <1>1, <1>2, <2>1, QuietStutters
<1>3. ASSUME NEW s, NEW l, Loads(t, s, l)
      PROVE  Stutters
  <2>1. UNCHANGED <<dirs, owner>> /\ answer'[t] = answer[t]
    BY <1>3 DEF Loads, Goes
  <2> QED
    BY <1>1, <2>1, QuietStutters
<1>4. CASE AddCheck(t) \/ AddParent(t)
  BY <1>2, <1>3, <1>4 DEF AddCheck, AddParent
<1>5. ASSUME AddInsert(t), ~Fails(t, "entryAlreadyExists")
      PROVE  \E c \in Ids : Service!Add(t, c)
  <2>1. PICK i \in IdsLeft : /\ Valid([dirs EXCEPT ![i] = AddedRow(t)])
                             /\ dirs' = [dirs EXCEPT ![i] = AddedRow(t)]
                             /\ owner' = [owner EXCEPT ![i] = i] /\ Answer(t, "success")
    BY <1>5 DEF AddInsert
  <2>2. stage[t] = "insert"
    BY <1>5 DEF AddInsert
  <2>3. /\ i \in Ids /\ dirs[i] = Free
        /\ Filled(Entries) /\ i \notin Entries
        /\ \A j \in Entries : dirs'[j] = dirs[j] /\ dirs[j].path # op[t].dn
        /\ dirs'[i].path = op[t].dn
    BY <1>1, <2>1, <2>2, InsertFacts
  <2>4. owner[i] = NoOwner /\ i # NoOwner
    BY <2>3, TreeAssumption DEF OrderInv, TreeInv
  <2>5. owner'[i] = i /\ \A c \in Ids \ {i} : owner'[c] = owner[c]
    BY <1>1, <2>1, <2>3 DEF IInv, TypeOK
  <2>6. /\ DOMAIN Place = {c \in Ids : owner[c] # NoOwner}
        /\ \A c \in DOMAIN Place : owner[c] \in Entries /\ Place[c] = dirs[owner[c]].path
        /\ \A k \in Entries : \E c \in DOMAIN Place : Place[c] = dirs[k].path
    <3>1. Entries \in SUBSET Ids
      BY DEF Entries
    <3> QED
      BY <2>3, <3>1, TakenFacts
  <2>7. i \notin DOMAIN Place /\ op[t].dn \notin {Place[c] : c \in DOMAIN Place}
    BY <2>3, <2>4, <2>6
  <2>8. Front(op[t].dn) \in {Place[c] : c \in DOMAIN Place} \cup {<<>>}
    <3>1. /\ loc[t].upPath \in Seq(Rdns) /\ Child(loc[t].upPath, op[t].dn)
          /\ loc[t].up = NoParent => loc[t].upPath = <<>>
          /\ loc[t].up # NoParent =>
               loc[t].up \in Entries /\ dirs[loc[t].up].path = loc[t].upPath
      BY <2>1, <2>2, AddedFacts
    <3>2. Front(op[t].dn) = loc[t].upPath
      BY <1>1, <3>1, FrontChild
    <3> QED
      BY <2>6, <3>1, <3>2
  <2>9. Place' = [c \in DOMAIN Place \cup {i} |-> IF c = i THEN op[t].dn ELSE Place[c]]
    <3>1. {c \in Ids : owner'[c] # NoOwner} = DOMAIN Place \cup {i}
      BY <2>3, <2>4, <2>5, <2>6
    <3>2. Place' = [c \in DOMAIN Place \cup {i} |-> dirs'[owner'[c]].path]
      BY <3>1 DEF Place, Placement
    <3>3. \A c \in DOMAIN Place \cup {i} :
            dirs'[owner'[c]].path = IF c = i THEN op[t].dn ELSE Place[c]
      BY <2>3, <2>5, <2>6
    <3> QED
      BY <3>2, <3>3
  <2>10. t \notin Effective /\ Effective' = Effective \cup {t}
    <3>1. answer'[t] = "success"
      BY <1>1, <2>1 DEF Answer, IInv, TypeOK
    <3>2. t \notin Effective /\ t \in Effective'
      BY <1>1, <3>1, EffectStep
    <3> QED
      BY <3>2, EffectStep DEF Effective
  <2>11. Service!Add(t, i)
    <3>1. Service!TakesEffect(t, "add")
      BY <1>1, <2>10 DEF Service!TakesEffect
    <3>2. Service!Held = DOMAIN Place /\ Service!Taken = {Place[c] : c \in DOMAIN Place}
          /\ Service!Parents = {Place[c] : c \in DOMAIN Place} \cup {<<>>}
      BY ServiceTerms
    <3>3. Placement(dirs, owner)' = [d \in Service!Held \cup {i} |->
             IF d = i THEN op[t].dn ELSE Placement(dirs, owner)[d]]
      BY <2>9, <3>2 DEF Place
    <3>4. /\ i \notin Service!Held
          /\ op[t].dn \notin Service!Taken /\ Service!Front(op[t].dn) \in Service!Parents
      BY <2>7, <2>8, <3>2 DEF Front, Service!Front
    <3> QED
      BY <3>1, <3>3, <3>4 DEF Service!Add
  <2> QED
    BY <2>3, <2>11
<1> QED
  BY <1>2, <1>4, <1>5

LEMMA ServicePrefix ==
  ASSUME NEW p \in Dns, NEW q \in Dns
  PROVE  Service!IsPrefix(p, q) <=> Above(p, q)
  BY PrefixAbove DEF IsPrefix, Service!IsPrefix

\* What the commit of a delete does to the places.
LEMMA PlacesRemoved ==
  ASSUME Orderly, OrderInv, IInv', NEW t \in Active, op[t].kind = "delete", stage[t] = "remove",
         \A i \in Ids : dirs'[i] = IF Present(i) /\ i \in loc[t].doomed THEN Gone ELSE dirs[i],
         \A c \in Ids : owner'[c] = IF c \in loc[t].contents THEN NoOwner ELSE owner[c],
         \A c \in Ids : owner'[c] # NoOwner => dirs'[owner'[c]] \in Row
  PROVE  IF Present(loc[t].dir)
         THEN Place' = [c \in {d \in DOMAIN Place : ~Above(op[t].dn, Place[d])} |-> Place[c]]
         ELSE Place' = Place /\ Forestalled(t)
<1>1. /\ t \in Requests /\ ~Halfway(t) /\ KnowsEntry(t) /\ KnowsDoomed(t)
  BY DEF Active, Halfway, Moving, OrderInv, TreeInv, Knows
<1>2. Filled(Entries) /\ Entries \in SUBSET Ids
  BY <1>1, AllSettled DEF Entries
<1>3. /\ Entries' = Entries \ loc[t].doomed
      /\ \A i \in Entries' : dirs'[i] = dirs[i]
      /\ Filled(Entries)'
      /\ Present(loc[t].dir) => \A i \in Entries' : ~Above(op[t].dn, dirs[i].path)
  BY RemovalFacts
<1>4. /\ DOMAIN Place = {c \in Ids : owner[c] # NoOwner}
      /\ \A c \in DOMAIN Place : owner[c] \in Entries /\ Place[c] = dirs[owner[c]].path
  BY <1>2, TakenFacts
<1>5. Place' = [c \in {d \in Ids : owner'[d] # NoOwner} |-> dirs'[owner'[c]].path]
  BY DEF Place, Placement
<1>6. ASSUME NEW c \in Ids, owner'[c] # NoOwner
      PROVE  c \in DOMAIN Place /\ owner[c] \in Entries' /\ dirs'[owner'[c]].path = Place[c]
  <2>1. owner'[c] = owner[c] /\ owner'[c] \in Entries'
    BY <1>3, <1>6 DEF Filled
  <2> QED
    BY <1>3, <1>4, <1>6, <2>1
<1>7. ASSUME NEW c \in DOMAIN Place, c \in loc[t].contents
      PROVE  owner[c] \in loc[t].doomed /\ Present(owner[c])
  BY <1>1, <1>4, <1>7 DEF KnowsDoomed, Entries
<1>8. CASE Present(loc[t].dir)
  <2> DEFINE D == {d \in DOMAIN Place : ~Above(op[t].dn, Place[d])}
  <2>1. {d \in Ids : owner'[d] # NoOwner} = D
    <3>1. ASSUME NEW d \in Ids, owner'[d] # NoOwner PROVE d \in D
      BY <1>3, <1>4, <1>6, <1>8, <3>1
    <3>2. ASSUME NEW d \in D PROVE d \in Ids /\ owner'[d] # NoOwner
      <4>1. d \notin loc[t].contents
        BY <1>1, <1>4, <1>7 DEF KnowsDoomed
      <4> QED
        BY <1>4, <4>1
    <3> QED
      BY <3>1, <3>2
  <2>2. Place' = [c \in D |-> dirs'[owner'[c]].path]
    BY <1>5, <2>1
  <2>3. \A c \in D : dirs'[owner'[c]].path = Place[c]
    BY <1>6, <2>1
  <2> HIDE DEF D
  <2>4. Place' = [c \in D |-> Place[c]]
    BY <2>2, <2>3
  <2> QED
    BY <1>8, <2>4 DEF D
<1>9. CASE ~Present(loc[t].dir)
  <2>1. \A c \in DOMAIN Place : c \notin loc[t].contents
    BY <1>1, <1>7, <1>9 DEF KnowsDoomed
  <2>2. \A c \in Ids : owner'[c] = owner[c]
    BY <1>4, <2>1
  <2>3. owner' = owner
    BY <2>2 DEF IInv, OrderInv, TypeOK
  <2>4. \A c \in Ids : owner[c] # NoOwner => dirs'[owner[c]].path = dirs[owner[c]].path
    BY <1>4, <1>6, <2>2
  <2>5. Place' = Place
    BY <2>3, <2>4, PlaceStays
  <2> QED
    BY <1>1, <1>9, <2>5 DEF KnowsEntry
<1> QED
  BY <1>8, <1>9

LEMMA DeleteService ==
  ASSUME Orderly, OrderInv, IInv', NEW t \in Requests, Step(t),
         \/ DeleteFind(t) \/ DeleteCascade(t)
         \/ CommitRemoval(t) /\ op[t].kind = "delete"
  PROVE  Stutters \/ Service!Delete(t)
<1>1. /\ t \in Active /\ op' = op /\ op[t].kind = "delete" /\ op[t].dn \in Dns
      /\ IInv /\ answer[t] = "none"
  BY StepMoves, OpFacts
     DEF DeleteFind, DeleteCascade, OrderInv, TreeInv, Logged, IInv, StageInv, StageOf, Active
<1>2. ASSUME NEW a, Fails(t, a), a # "success"
      PROVE  Stutters
  <2>1. UNCHANGED <<dirs, owner>> /\ answer'[t] = a
    BY <1>1, <1>2 DEF Fails, Answer, IInv, TypeOK
  <2> QED
    BY <1>1, <1>2, <2>1, QuietStutters
<1>3. ASSUME NEW s, NEW l, Loads(t, s, l)
      PROVE  Stutters
  <2>1. UNCHANGED <<dirs, owner>> /\ answer'[t] = answer[t]
    BY <1>3 DEF Loads, Goes
  <2> QED
    BY <1>1, <2>1, QuietStutters
<1>4. CASE DeleteFind(t) \/ DeleteCascade(t)
  BY <1>2, <1>3, <1>4 DEF DeleteFind, DeleteCascade
<1>5. ASSUME CommitRemoval(t), ~Fails(t, "died")
      PROVE  Service!Delete(t)
  <2>1. /\ stage[t] = "remove"
        /\ \A i \in Ids : dirs'[i] = IF Present(i) /\ i \in loc[t].doomed THEN Gone ELSE dirs[i]
        /\ \A c \in Ids : owner'[c] = IF c \in loc[t].contents THEN NoOwner ELSE owner[c]
        /\ \A c \in Ids : owner'[c] # NoOwner => dirs'[owner'[c]] \in Row
        /\ Answer(t, "success")
    BY <1>5 DEF CommitRemoval
  <2>2. IF Present(loc[t].dir)
        THEN Place' = [c \in {d \in DOMAIN Place : ~Above(op[t].dn, Place[d])} |-> Place[c]]
        ELSE Place' = Place /\ Forestalled(t)
    BY <1>1, <2>1, PlacesRemoved
  <2>3. answer'[t] = "success"
    BY <1>1, <2>1 DEF Answer, IInv, TypeOK
  <2>4. t \notin Effective /\ Effective' = Effective \cup {t}
    <3>1. t \notin Effective /\ t \in Effective'
      BY <1>1, <2>3, EffectStep
    <3> QED
      BY <3>1, EffectStep DEF Effective
  <2>5. Service!TakesEffect(t, "delete")
    BY <1>1, <2>4 DEF Service!TakesEffect
  <2>6. CASE Present(loc[t].dir)
    <3>1. \A d \in DOMAIN Place : Place[d] \in Dns
      <4>1. Filled(Entries) /\ Entries \in SUBSET Ids
        BY <1>1, AllSettled DEF Entries, Halfway, Moving
      <4> QED
        BY <1>1, <4>1, TakenFacts, RowFacts
    <3>2. {d \in DOMAIN Place : ~Above(op[t].dn, Place[d])}
            = {d \in Service!Held : ~Service!IsPrefix(op[t].dn, Place[d])}
      BY <1>1, <3>1, ServicePrefix, ServiceTerms
    <3>3. Placement(dirs, owner)' =
            [c \in {d \in Service!Held : ~Service!IsPrefix(op[t].dn, Placement(dirs, owner)[d])}
               |-> Placement(dirs, owner)[c]]
      BY <2>2, <2>6, <3>2 DEF Place
    <3> QED
      BY <2>5, <3>3 DEF Service!Delete
  <2>7. CASE ~Present(loc[t].dir)
    <3>1. Placement(dirs, owner)' = Placement(dirs, owner)
      BY <2>2, <2>7 DEF Place
    <3>2. PICK u \in Effective : op[u].kind = "delete" /\ Above(op[u].dn, op[t].dn)
      BY <2>2, <2>7 DEF Forestalled
    <3>3. op[u].dn \in Dns
      <4>1. op[u] \in Operations
        BY <1>1, <3>2 DEF Effective, IInv, TypeOK, NoOp
      <4> QED
        BY <4>1, OpFacts
    <3>4. Service!IsPrefix(op[u].dn, op[t].dn)
      BY <1>1, <3>2, <3>3, ServicePrefix
    <3> QED
      BY <2>5, <3>1, <3>2, <3>4 DEF Service!Delete
  <2> QED
    BY <2>6, <2>7
<1> QED
  BY <1>2, <1>4, <1>5

\* The steps of a rename before and after its third commit.
LEMMA MoveStutters ==
  ASSUME Orderly, OrderInv, NEW t \in Requests, Step(t),
         \/ MoveFind(t) \/ MoveSuperior(t) \/ MoveCreate(t) \/ MoveReparent(t) \/ MoveCascade(t)
         \/ CommitRemoval(t) /\ op[t].kind = "modifyDN"
  PROVE  Stutters
<1>1. /\ t \in Active /\ op' = op /\ Moving(t) /\ IInv /\ answer[t] = "none"
      /\ Halfway(t) => HalfwayInv(t)
  BY StepMoves
     DEF MoveFind, MoveSuperior, MoveCreate, MoveReparent, MoveCascade, OrderInv, TreeInv, Logged,
         IInv, StageInv, StageOf, Moving, Active
<1>2. ASSUME NEW a, Fails(t, a), a # "success", stage[t] \notin {"cascade", "remove"}
      PROVE  Stutters
  <2>1. UNCHANGED <<dirs, owner>> /\ answer'[t] = a /\ stage'[t] = "done"
    BY <1>1, <1>2 DEF Fails, Answer, IInv, TypeOK
  <2> QED
    BY <1>1, <1>2, <2>1, QuietStutters
<1>3. ASSUME NEW s, NEW l, Loads(t, s, l),
             stage[t] \in {"cascade", "remove"} <=> s \in {"cascade", "remove"}
      PROVE  Stutters
  <2>1. UNCHANGED <<dirs, owner>> /\ answer'[t] = answer[t] /\ stage'[t] = s
    BY <1>1, <1>3 DEF Loads, Goes, IInv, TypeOK
  <2>2. Place' = Place
    BY <2>1, PlaceStays
  <2>3. t \in Effective' <=> t \in Effective
    BY <1>1, <1>3, <2>1, EffectStep
  <2> QED
    BY <2>2, <2>3, StutterStep
<1>4. CASE MoveFind(t) \/ MoveSuperior(t)
  <2>1. stage[t] \in {"find", "superior"}
    BY <1>4 DEF MoveFind, MoveSuperior
  <2>2. \/ Fails(t, "noSuchObject")
        \/ \E s \in {"superior", "create"} : \E l : Loads(t, s, l)
    <3>1. CASE MoveFind(t)
      BY <3>1, Zenon DEF MoveFind
    <3>2. CASE MoveSuperior(t)
      BY <3>2, Zenon DEF MoveSuperior
    <3> QED
      BY <1>4, <3>1, <3>2
  <2>3. CASE Fails(t, "noSuchObject")
    BY <1>2, <2>1, <2>3
  <2>4. ASSUME NEW s \in {"superior", "create"}, NEW l, Loads(t, s, l)
        PROVE  Stutters
    BY <1>3, <2>1, <2>4
  <2> QED
    BY <2>2, <2>3, <2>4
<1>5. CASE MoveCreate(t)
  <2>1. stage[t] = "create" /\ ~Halfway(t)
    BY <1>5 DEF MoveCreate, Halfway
  <2>2. ASSUME NEW n \in IdsLeft, NEW row, dirs' = [dirs EXCEPT ![n] = row], owner' = owner,
               Goes(t, "reparent", [loc[t] EXCEPT !.new = n])
        PROVE  Stutters
    <3>1. n \notin Entries
      BY TreeAssumption DEF IdsLeft, Entries, Present
    <3>2. \A c \in Ids : owner[c] # NoOwner => owner[c] \in Entries
      BY <1>1, <2>1, AllSettled DEF Filled
    <3>3. \A c \in Ids : owner[c] # NoOwner => dirs'[owner[c]].path = dirs[owner[c]].path
      BY <1>1, <2>2, <3>1, <3>2 DEF IInv, TypeOK
    <3>4. Place' = Place
      BY <2>2, <3>3, PlaceStays
    <3>5. stage'[t] = "reparent" /\ answer'[t] = "none"
      BY <1>1, <2>2 DEF Goes, IInv, TypeOK
    <3>6. t \in Effective' <=> t \in Effective
      BY <2>1, <3>5, EffectStep
    <3> QED
      BY <3>4, <3>6, StutterStep
  <2> QED
    BY <1>2, <1>5, <2>1, <2>2 DEF MoveCreate
<1>6. CASE MoveReparent(t)
  <2> DEFINE table == [i \in Ids |-> IF Present(i) /\ dirs[i].parent = loc[t].dir
                                     THEN [dirs[i] EXCEPT !.parent = loc[t].new] ELSE dirs[i]]
  <2>1. stage[t] = "reparent" /\ Halfway(t)
    BY <1>1, <1>6 DEF MoveReparent, Halfway
  <2>2. ASSUME dirs' = table, owner' = owner, Goes(t, "repath", loc[t])
        PROVE  Stutters
    <3>1. \A i \in Entries : dirs'[i].path = dirs[i].path
      <4>1. \A i \in Ids : table[i] = IF Present(i) /\ dirs[i].parent = loc[t].dir
                                      THEN [dirs[i] EXCEPT !.parent = loc[t].new] ELSE dirs[i]
        OBVIOUS
      <4> HIDE DEF table
      <4>2. \A i \in Entries :
              /\ table[i] \in Row /\ table[i].path = dirs[i].path
              /\ table[i].name = dirs[i].name /\ table[i].depth = dirs[i].depth
              /\ IF dirs[i].parent = loc[t].dir THEN table[i].parent = loc[t].new
                 ELSE table[i] = dirs[i]
        BY <2>1, <4>1, ReparentFacts
      <4> QED
        BY <2>2, <4>2
    <3>2. \A c \in Ids : owner[c] # NoOwner => owner[c] \in Entries
      BY <1>1, <2>1 DEF HalfwayInv, Filled
    <3>3. Place' = Place
      BY <2>2, <3>1, <3>2, PlaceStays
    <3>4. stage'[t] = "repath" /\ answer'[t] = "none"
      BY <1>1, <2>2 DEF Goes, IInv, TypeOK
    <3>5. t \in Effective' <=> t \in Effective
      BY <2>1, <3>4, EffectStep
    <3> QED
      BY <3>3, <3>5, StutterStep
  <2> QED
    BY <1>2, <1>6, <2>1, <2>2 DEF MoveReparent
<1>7. CASE MoveCascade(t)
  <2>1. stage[t] = "cascade" /\ Present(loc[t].dir)
    BY <1>1, <1>7 DEF MoveCascade, Halfway, HalfwayInv, Entries
  <2> QED
    BY <1>3, <1>7, <2>1 DEF MoveCascade
<1>8. CASE CommitRemoval(t) /\ op[t].kind = "modifyDN"
  <2>1. stage[t] = "remove" /\ Halfway(t)
    BY <1>1, <1>8 DEF CommitRemoval, Halfway
  <2>2. /\ \A i \in Ids : dirs'[i] = IF i = loc[t].dir THEN Gone ELSE dirs[i]
        /\ owner' = owner /\ Answer(t, "success")
    BY <1>1, <1>8, LastFacts
  <2>3. \A c \in Ids : owner[c] # NoOwner => owner[c] \in Ids \ {loc[t].dir}
    BY <1>1, <2>1 DEF HalfwayInv, Filled, Entries
  <2>4. Place' = Place
    BY <2>2, <2>3, PlaceStays
  <2>5. answer'[t] = "success"
    BY <1>1, <2>2 DEF Answer, IInv, TypeOK
  <2>6. t \in Effective' <=> t \in Effective
    BY <1>8, <2>1, <2>5, EffectStep
  <2> QED
    BY <2>4, <2>6, StutterStep
<1> QED
  BY <1>4, <1>5, <1>6, <1>7, <1>8

\* Where the third commit of a rename puts what is at the path p.
MovedTo(t, p) ==
  IF Above(op[t].dn, p) THEN NewPath(t) \o SubSeq(p, Len(op[t].dn) + 1, Len(p)) ELSE p

\* What that commit does to the places.
LEMMA PlacesMoved ==
  ASSUME Orderly, OrderInv, NEW t \in Requests, MoveRepath(t), Halfway(t), stage[t] = "repath"
  PROVE  /\ Place' = [c \in DOMAIN Place |-> MovedTo(t, Place[c])]
         /\ Goes(t, "cascade", loc[t])
<1>1. IInv /\ HalfwayInv(t)
  BY DEF OrderInv, TreeInv
<1> DEFINE old == loc[t].dir
           new == loc[t].new
<1>2. /\ new \in Entries /\ old \in Entries /\ new # old
      /\ old # NoOwner /\ new # NoOwner /\ Filled(Entries \ {new})
      /\ dirs[new].path = NewPath(t) /\ dirs[old].path = op[t].dn
  BY <1>1, RowFacts, TreeAssumption DEF HalfwayInv, HasEntry
<1>3. Present(new)
  BY <1>2 DEF Entries
<1>4. /\ owner' = [c \in Ids |-> IF c \in {b \in Ids : owner[b] = old} THEN new ELSE owner[c]]
      /\ dirs' = [i \in Ids |->
                    IF Present(i) /\ Subordinate(dirs[i].path, loc[t])
                    THEN [dirs[i] EXCEPT !.path =
                            NewPath(t) \o Slice(@, loc[t].depth + 1, Len(@))]
                    ELSE dirs[i]]
      /\ Goes(t, "cascade", loc[t])
  BY <1>3 DEF MoveRepath
<1>5. \A c \in Ids : owner'[c] = IF owner[c] = old THEN new ELSE owner[c]
  BY <1>4
<1> DEFINE table == dirs'
<1>6. Repathed(table, t)
  BY <1>4 DEF Repathed
<1> HIDE DEF table
<1>7. \A i \in Entries : PathSwapped(table, t, i)
  BY <1>6, RepathFacts
<1> HIDE DEF old, new
<1>8. table[old].path = NewPath(t) /\ table[new] = dirs[new]
  <2>1. old = loc[t].dir /\ new = loc[t].new /\ Halfway(t) /\ stage[t] = "repath"
    BY DEF old, new
  <2>2. /\ table[old].path = NewPath(t) /\ table[new] = dirs[new]
        /\ Settled(table, Entries \ {old})
        /\ \A i \in Entries : dirs[i].parent # old
    BY <1>7, <2>1, RepathSettles
  <2> QED
    BY <2>2
<1>9. \A i \in Entries : table[i].path = MovedTo(t, dirs[i].path)
  BY <1>7 DEF PathSwapped, MovedTo
<1>10. /\ DOMAIN Place = {c \in Ids : owner[c] # NoOwner}
       /\ \A c \in DOMAIN Place : owner[c] \in Entries \ {new} /\ Place[c] = dirs[owner[c]].path
  <2>1. Entries \ {new} \in SUBSET Ids
    BY DEF Entries
  <2> QED
    BY <1>2, <2>1, TakenFacts
<1>11. {c \in Ids : owner'[c] # NoOwner} = DOMAIN Place
  BY <1>2, <1>5, <1>10
<1>12. Place' = [c \in DOMAIN Place |-> dirs'[owner'[c]].path]
  BY <1>11 DEF Place, Placement
<1>13. ASSUME NEW c \in DOMAIN Place PROVE table[owner'[c]].path = MovedTo(t, Place[c])
  <2>1. c \in Ids /\ owner[c] \in Entries /\ Place[c] = dirs[owner[c]].path
    BY <1>10
  <2>2. CASE owner[c] = old
    <3>1. owner'[c] = new
      BY <1>5, <2>1, <2>2
    <3>2. table[old].path = MovedTo(t, Place[c])
      BY <1>9, <2>1, <2>2
    <3> QED
      BY <1>2, <1>8, <3>1, <3>2
  <2>3. CASE owner[c] # old
    <3>1. owner'[c] = owner[c]
      BY <1>5, <2>1, <2>3
    <3> QED
      BY <1>9, <2>1, <3>1
  <2> QED
    BY <2>2, <2>3
<1>14. \A c \in DOMAIN Place : dirs'[owner'[c]].path = MovedTo(t, Place[c])
  BY <1>13 DEF table
<1> QED
  BY <1>4, <1>12, <1>14

\* The entry to rename is there, its new place is vacant and below an entry.
LEMMA MovePlaces ==
  ASSUME Orderly, OrderInv, NEW t \in Requests, Halfway(t), stage[t] = "repath"
  PROVE  /\ op[t].dn \in {Place[c] : c \in DOMAIN Place}
         /\ NewPath(t) \notin {Place[c] : c \in DOMAIN Place}
         /\ Target(t) \in {Place[c] : c \in DOMAIN Place} \cup {<<>>}
         /\ NewPath(t) = Append(Target(t), op[t].rdn)
         /\ ~Service!IsPrefix(op[t].dn, Target(t))
         /\ \A c \in DOMAIN Place : Place[c] \in Dns
<1> DEFINE old == loc[t].dir
           new == loc[t].new
<1>1. IInv /\ HalfwayInv(t) /\ Moving(t)
  BY DEF OrderInv, TreeInv, Halfway
<1>2. /\ new \in Entries /\ old \in Entries /\ new # old /\ Filled(Entries \ {new})
      /\ dirs[new].path = NewPath(t) /\ dirs[old].path = op[t].dn
      /\ Placed(dirs, new)
      /\ \A i \in Entries \ {new} : ~Above(NewPath(t), dirs[i].path)
      /\ loc[t].upPath = Target(t) /\ Child(loc[t].upPath, NewPath(t))
      /\ Len(NewPath(t)) = Len(op[t].dn)
  BY <1>1 DEF HalfwayInv, HasEntry, HasTarget
<1> HIDE DEF old, new
<1>3. /\ \A c \in DOMAIN Place : owner[c] \in Entries \ {new} /\ Place[c] = dirs[owner[c]].path
      /\ \A i \in Entries \ {new} : \E c \in DOMAIN Place : Place[c] = dirs[i].path
  <2>1. Entries \ {new} \in SUBSET Ids
    BY DEF Entries
  <2> QED
    BY <1>2, <2>1, TakenFacts
<1>4. NewPath(t) \in Dns /\ loc[t].upPath \in Seq(Rdns)
  BY <1>1, <1>2, RowFacts, MoverFacts DEF Loaded
<1>5. op[t].dn \in {Place[c] : c \in DOMAIN Place}
  BY <1>2, <1>3
<1>6. NewPath(t) \notin {Place[c] : c \in DOMAIN Place}
  BY <1>2, <1>3, <1>4, AboveFacts
<1>7. Target(t) \in {Place[c] : c \in DOMAIN Place} \cup {<<>>}
  <2>1. /\ PathAbove(dirs, new) \in Seq(Rdns) /\ Child(PathAbove(dirs, new), dirs[new].path)
        /\ dirs[new].parent = NoParent <=> PathAbove(dirs, new) = <<>>
        /\ dirs[new].parent # NoParent =>
             dirs[new].parent \in Entries /\ PathAbove(dirs, new) = dirs[dirs[new].parent].path
    BY <1>1, <1>2, AboveRow
  <2>2. PathAbove(dirs, new) = Target(t)
    BY <1>2, <1>4, <2>1, FrontChild
  <2>3. CASE dirs[new].parent # NoParent
    <3>1. dirs[new].parent # new
      BY <1>2, <1>4, <2>1, <2>3, AboveFacts
    <3> QED
      BY <1>3, <2>1, <2>2, <2>3, <3>1
  <2> QED
    BY <2>1, <2>2, <2>3
<1>8. NewPath(t) = Append(Target(t), op[t].rdn)
  BY <1>2 DEF NewPath
<1>9. \A c \in DOMAIN Place : Place[c] \in Dns
  BY <1>1, <1>3, RowFacts
<1>10. ~Service!IsPrefix(op[t].dn, Target(t))
  <2>1. Len(op[t].dn) = Len(Target(t)) + 1 /\ Len(Target(t)) \in Nat
    BY <1>2, <1>4, LenProperties DEF Child
  <2>2. ~(Len(op[t].dn) <= Len(Target(t)))
    BY <2>1
  <2> QED
    BY <2>2 DEF Service!IsPrefix
<1> QED
  BY <1>5, <1>6, <1>7, <1>8, <1>9, <1>10

LEMMA MoveService ==
  ASSUME Orderly, OrderInv, NEW t \in Requests, Step(t), MoveRepath(t)
  PROVE  Service!Move(t)
<1>1. /\ t \in Active /\ op' = op /\ Moving(t) /\ IInv /\ answer[t] = "none"
      /\ Halfway(t) /\ stage[t] = "repath" /\ op[t].kind = "modifyDN" /\ op[t].dn \in Dns
  BY StepMoves, OpFacts
     DEF MoveRepath, OrderInv, TreeInv, Logged, IInv, TypeOK, StageInv, StageOf, Halfway, Moving,
         Active
<1>2. /\ Place' = [c \in DOMAIN Place |-> MovedTo(t, Place[c])]
      /\ Goes(t, "cascade", loc[t])
  BY <1>1, PlacesMoved
<1>3. /\ op[t].dn \in {Place[c] : c \in DOMAIN Place}
      /\ NewPath(t) \notin {Place[c] : c \in DOMAIN Place}
      /\ Target(t) \in {Place[c] : c \in DOMAIN Place} \cup {<<>>}
      /\ NewPath(t) = Append(Target(t), op[t].rdn)
      /\ ~Service!IsPrefix(op[t].dn, Target(t))
      /\ \A c \in DOMAIN Place : Place[c] \in Dns
  BY <1>1, MovePlaces
<1>4. t \notin Effective /\ Effective' = Effective \cup {t}
  <2>1. stage'[t] = "cascade"
    BY <1>1, <1>2 DEF Goes, IInv, TypeOK
  <2>2. t \notin Effective /\ t \in Effective'
    BY <1>1, <2>1, EffectStep
  <2> QED
    BY <2>2, EffectStep DEF Effective
<1>5. Service!TakesEffect(t, "modifyDN")
  BY <1>1, <1>4 DEF Service!TakesEffect
<1>6. Target(t) = CASE op[t].superior = NoSuperior -> Service!Front(op[t].dn)
                    [] op[t].superior = BaseDn -> <<>> [] OTHER -> op[t].superior
  BY DEF Target, Front, Service!Front
<1>7. /\ op[t].dn \in Service!Taken /\ NewPath(t) \notin Service!Taken
      /\ Target(t) \in Service!Parents
  BY <1>3, ServiceTerms
<1>8. Placement(dirs, owner)' =
        [c \in Service!Held |->
           IF Service!IsPrefix(op[t].dn, Placement(dirs, owner)[c])
           THEN NewPath(t) \o SubSeq(Placement(dirs, owner)[c], Len(op[t].dn) + 1,
                                     Len(Placement(dirs, owner)[c]))
           ELSE Placement(dirs, owner)[c]]
  <2>1. \A c \in DOMAIN Place :
          MovedTo(t, Place[c]) =
            IF Service!IsPrefix(op[t].dn, Place[c])
            THEN NewPath(t) \o SubSeq(Place[c], Len(op[t].dn) + 1, Len(Place[c]))
            ELSE Place[c]
    BY <1>1, <1>3, ServicePrefix DEF MovedTo
  <2>2. Place' = [c \in Service!Held |->
                    IF Service!IsPrefix(op[t].dn, Place[c])
                    THEN NewPath(t) \o SubSeq(Place[c], Len(op[t].dn) + 1, Len(Place[c]))
                    ELSE Place[c]]
    BY <1>2, <2>1, ServiceTerms
  <2> QED
    BY <2>2 DEF Place
<1> QED
  BY <1>3, <1>5, <1>6, <1>7, <1>8 DEF Service!Move

LEMMA InitService ==
  ASSUME Init
  PROVE  Service!Init
<1>1. Effective = {}
  BY DEF Init, Effective
<1>2. Placement(dirs, owner) = Placement(Seed, SeedOwner)
  BY DEF Init
<1> QED
  BY <1>1, <1>2 DEF Init, Service!Init

LEMMA NextService ==
  ASSUME Orderly, OrderInv, [Next]_vars
  PROVE  [Service!Next]_(Service!service)
<1>1. IInv'
  BY NextIInv DEF OrderInv
<1>2. Stutters => UNCHANGED Service!service
  BY DEF Stutters, Service!service, Place
<1>3. CASE UNCHANGED vars
  BY <1>3 DEF vars, Service!service, Placement, Effective
<1>4. ASSUME NEW t \in Requests, NEW o \in Operations, Begin(t, o)
      PROVE  Service!Next
  BY <1>4, BeginAsks DEF Service!Next
<1>5. ASSUME NEW t \in Requests, Step(t)
      PROVE  Service!Next \/ UNCHANGED Service!service
  <2>1. CASE AddCheck(t) \/ AddParent(t) \/ AddInsert(t)
    <3>1. Stutters \/ \E c \in Ids : Service!Add(t, c)
      BY <1>5, <2>1, AddService
    <3> QED
      BY <1>2, <3>1 DEF Service!Next
  <2>2. CASE DeleteFind(t) \/ DeleteCascade(t) \/ (CommitRemoval(t) /\ op[t].kind = "delete")
    <3>1. Stutters \/ Service!Delete(t)
      BY <1>1, <1>5, <2>2, DeleteService
    <3> QED
      BY <1>2, <3>1 DEF Service!Next
  <2>3. CASE \/ MoveFind(t) \/ MoveSuperior(t) \/ MoveCreate(t) \/ MoveReparent(t)
             \/ MoveCascade(t) \/ (CommitRemoval(t) /\ op[t].kind = "modifyDN")
    <3>1. Stutters
      BY <1>5, <2>3, MoveStutters
    <3> QED
      BY <1>2, <3>1
  <2>4. CASE MoveRepath(t)
    <3>1. Service!Move(t)
      BY <1>5, <2>4, MoveService
    <3> QED
      BY <3>1 DEF Service!Next
  <2>5. CommitRemoval(t) => op[t].kind \in {"delete", "modifyDN"}
    BY DEF CommitRemoval, OrderInv, IInv, StageInv, StageOf
  <2> QED
    BY <1>5, <2>1, <2>2, <2>3, <2>4, <2>5 DEF Step
<1>6. \A t \in Requests : ~Crash(t)
  BY DEF Crash, Orderly
<1> QED
  BY <1>3, <1>4, <1>5, <1>6 DEF Next

\* The handlers implement atomic operations on a tree of DNs: an add takes
\* effect with its commit, a rename with its third one and a delete with its
\* one, which removes the whole subtree (or finds it removed); no other step
\* of theirs shows. The constants are as the run tree has them: lower case,
\* moves that keep the level, a modify DN alone and no crash.
THEOREM TreeImplementsService ==
  ASSUME Orderly
  PROVE  Spec => ImplementsService
<1>1. Init => OrderInv /\ Service!Init
  BY InitOrder, InitService
<1>2. OrderInv /\ [Next]_vars => OrderInv' /\ [Service!Next]_(Service!service)
  BY NextOrder, NextService
<1> QED
  BY <1>1, <1>2, PTL DEF Spec, ImplementsService, Service!Spec
-----------------------------------------------------------------------------
(* What the service promises: one tree *)

\* The places f are those of a tree: each is used once, and is at the top or
\* below another one.
Whole(f) ==
  /\ \A c \in DOMAIN f : f[c] \in Dns
  /\ \A b, c \in DOMAIN f : f[b] = f[c] => b = c
  /\ \A c \in DOMAIN f : Front(f[c]) = <<>> \/ \E b \in DOMAIN f : f[b] = Front(f[c])

LEMMA FrontFacts ==
  ASSUME NEW p \in Dns
  PROVE  /\ Front(p) \in Seq(Rdns) /\ Child(Front(p), p)
         /\ Front(p) # <<>> => Front(p) \in Dns
         /\ Front(p) = <<>> => Len(p) = 1
<1> DEFINE n == Len(p) - 1
<1>0. p \in Seq(Rdns) /\ Len(p) \in Nat \ {0}
  BY PathFacts
<1>1. n \in Nat /\ n <= Len(p)
  BY <1>0
<1>2. \A k \in 1..n : p[k] \in Rdns
  BY <1>0, <1>1
<1>3. Front(p) = SubSeq(p, 1, n)
  BY DEF Front
<1> HIDE DEF n
<1>4. Front(p) \in Seq(Rdns)
  BY <1>0, <1>1, <1>2, <1>3, SubSeqProperties
<1>5. Child(Front(p), p)
  BY <1>4, FrontChild
<1>6. Front(p) = <<>> => Len(p) = 1
  BY <1>5 DEF Child
<1> QED
  BY <1>4, <1>5, <1>6 DEF Dns

LEMMA TopAbove ==
  ASSUME NEW d \in Dns, NEW p \in Dns, Above(d, p), Len(p) = 1
  PROVE  d = p
<1>1. \A n \in Nat \ {0} : n <= 1 => n = 1
  OBVIOUS
<1>2. Len(d) \in Nat \ {0} /\ Len(d) <= 1
  BY PathFacts DEF Above
<1>3. Len(d) = Len(p)
  BY <1>1, <1>2
<1> QED
  BY <1>3, AboveFacts

\* In a tree, what is above a place that is used is used.
LEMMA WholeRooted ==
  ASSUME NEW f, Whole(f), NEW d \in Dns, NEW j \in DOMAIN f, Above(d, f[j])
  PROVE  \E b \in DOMAIN f : f[b] = d
<1> DEFINE B == {c \in DOMAIN f : Above(d, f[c])}
           T == {Len(f[c]) : c \in B}
<1>1. \A c \in DOMAIN f : f[c] \in Dns /\ Len(f[c]) \in Nat \ {0}
  BY PathFacts DEF Whole
<1>2. PICK m \in T : \A n \in T : m <= n
  <2>1. T \in SUBSET Nat /\ T # {}
    BY <1>1
  <2> HIDE DEF T
  <2> QED
    BY <2>1, LeastNat
<1>3. PICK c \in DOMAIN f : Above(d, f[c]) /\ Len(f[c]) = m
  BY <1>2
<1>4. CASE d = f[c]
  BY <1>3, <1>4
<1>5. CASE d # f[c]
  <2>1. Front(f[c]) # <<>>
    <3>1. ASSUME Len(f[c]) = 1 PROVE FALSE
      BY <1>1, <1>3, <1>5, <3>1, TopAbove
    <3> QED
      BY <1>1, <3>1, FrontFacts
  <2>2. PICK b \in DOMAIN f : f[b] = Front(f[c])
    BY <2>1 DEF Whole
  <2>3. Child(f[b], f[c]) /\ f[b] \in Dns
    BY <1>1, <2>2, FrontFacts
  <2>4. Above(d, f[b])
    BY <1>1, <1>3, <1>5, <2>3, AboveFacts
  <2>5. Len(f[b]) \in T
    BY <2>4
  <2>6. Len(f[b]) < m
    BY <1>1, <1>3, <2>3 DEF Child
  <2>7. m <= Len(f[b]) /\ m \in Nat
    BY <1>1, <1>2, <1>3, <2>5
  <2> QED
    BY <1>1, <2>6, <2>7
<1> QED
  BY <1>4, <1>5

\* An entry is added in a place of its own below one that is used.
LEMMA AddWhole ==
  ASSUME NEW f, Whole(f), NEW c, c \notin DOMAIN f, NEW d \in Dns,
         \A b \in DOMAIN f : f[b] # d,
         Front(d) = <<>> \/ \E b \in DOMAIN f : f[b] = Front(d)
  PROVE  Whole([b \in DOMAIN f \cup {c} |-> IF b = c THEN d ELSE f[b]])
<1> DEFINE g == [b \in DOMAIN f \cup {c} |-> IF b = c THEN d ELSE f[b]]
<1>1. /\ DOMAIN g = DOMAIN f \cup {c} /\ g[c] = d
      /\ \A b \in DOMAIN f : g[b] = f[b]
  OBVIOUS
<1> HIDE DEF g
<1>2. \A b \in DOMAIN g : g[b] \in Dns
  BY <1>1 DEF Whole
<1>3. \A a, b \in DOMAIN g : g[a] = g[b] => a = b
  BY <1>1 DEF Whole
<1>4. ASSUME NEW b \in DOMAIN g, Front(g[b]) # <<>>
      PROVE  \E a \in DOMAIN g : g[a] = Front(g[b])
  <2>1. PICK a \in DOMAIN f : f[a] = Front(g[b])
    <3>1. CASE b = c
      BY <1>1, <1>4, <3>1
    <3>2. CASE b # c
      BY <1>1, <1>4, <3>2 DEF Whole
    <3> QED
      BY <3>1, <3>2
  <2> QED
    BY <1>1, <2>1
<1>5. Whole(g)
  BY <1>2, <1>3, <1>4 DEF Whole
<1> QED
  BY <1>5 DEF g

\* A whole subtree is deleted.
LEMMA RemoveWhole ==
  ASSUME NEW f, Whole(f), NEW d \in Dns
  PROVE  Whole([c \in {b \in DOMAIN f : ~Above(d, f[b])} |-> f[c]])
<1> DEFINE D == {b \in DOMAIN f : ~Above(d, f[b])}
           g == [c \in D |-> f[c]]
<1>1. /\ DOMAIN g = D /\ \A c \in D : g[c] = f[c]
      /\ \A c \in D : c \in DOMAIN f /\ ~Above(d, f[c])
      /\ \A c \in DOMAIN f : ~Above(d, f[c]) => c \in D
  OBVIOUS
<1> HIDE DEF D, g
<1>2. /\ \A c \in DOMAIN g : g[c] \in Dns
      /\ \A b, c \in DOMAIN g : g[b] = g[c] => b = c
  BY <1>1 DEF Whole
<1>3. ASSUME NEW c \in DOMAIN g, Front(g[c]) # <<>>
      PROVE  \E b \in DOMAIN g : g[b] = Front(g[c])
  <2>1. PICK b \in DOMAIN f : f[b] = Front(f[c])
    BY <1>1, <1>3 DEF Whole
  <2>2. f[b] \in Dns /\ f[c] \in Dns /\ Child(f[b], f[c])
    BY <1>1, <2>1, FrontFacts DEF Whole
  <2>3. ~Above(d, f[b])
    BY <1>1, <2>2, AboveFacts
  <2> QED
    BY <1>1, <2>1, <2>3
<1>4. Whole(g)
  BY <1>2, <1>3 DEF Whole
<1> QED
  BY <1>4 DEF g, D

\* The path m is p with q, of whatever length, in the place of d.
Rebased(m, d, q, p) ==
  /\ m \in Dns /\ Len(m) = Len(q) + (Len(p) - Len(d))
  /\ \A k \in 1..Len(q) : m[k] = q[k]
  /\ \A k \in (Len(d) + 1)..Len(p) : m[Len(q) + (k - Len(d))] = p[k]

LEMMA RebasedPath ==
  ASSUME NEW d \in Dns, NEW p \in Dns, Above(d, p), NEW q \in Dns
  PROVE  Rebased(q \o SubSeq(p, Len(d) + 1, Len(p)), d, q, p)
<1> DEFINE n == Len(d)
           s == SubSeq(p, n + 1, Len(p))
<1>1. /\ p \in Seq(Rdns) /\ Len(p) \in Nat \ {0} /\ q \in Seq(Rdns) /\ Len(q) \in Nat \ {0}
      /\ n \in Nat \ {0} /\ n <= Len(p)
  BY PathFacts DEF Above
<1> HIDE DEF n
<1>2. /\ s \in Seq(Rdns) /\ Len(s) = Len(p) - n
      /\ \A k \in 1..(Len(p) - n) : s[k] = p[n + k]
  <2>1. \A k \in (n + 1)..Len(p) : p[k] \in Rdns
    BY <1>1
  <2>2. /\ s \in Seq(Rdns)
        /\ Len(s) = IF n + 1 <= Len(p) THEN Len(p) - (n + 1) + 1 ELSE 0
        /\ \A k \in 1..(Len(p) - (n + 1) + 1) : s[k] = p[n + 1 + k - 1]
    BY <1>1, <2>1, SubSeqProperties
  <2>3. Len(s) = Len(p) - n
    BY <1>1, <2>2
  <2>4. \A k \in 1..(Len(p) - n) : s[k] = p[n + k]
    <3> TAKE k \in 1..(Len(p) - n)
    <3>1. k \in 1..(Len(p) - (n + 1) + 1) /\ n + 1 + k - 1 = n + k
      BY <1>1
    <3> HIDE DEF s
    <3> QED
      BY <2>2, <3>1
  <2> QED
    BY <2>2, <2>3, <2>4
<1> HIDE DEF s
<1>3. /\ q \o s \in Seq(Rdns) /\ Len(q \o s) = Len(q) + Len(s)
      /\ \A k \in 1..(Len(q) + Len(s)) :
           (q \o s)[k] = IF k <= Len(q) THEN q[k] ELSE s[k - Len(q)]
  <2>1. q \in Seq(Rdns) /\ s \in Seq(Rdns)
    BY <1>1, <1>2
  <2> QED
    BY <2>1, ConcatProperties
<1>4. \A k \in 1..Len(q) : (q \o s)[k] = q[k]
  BY <1>1, <1>2, <1>3
<1>5. \A k \in (n + 1)..Len(p) : (q \o s)[Len(q) + (k - n)] = p[k]
  <2> TAKE k \in (n + 1)..Len(p)
  <2>1. /\ k - n \in 1..(Len(p) - n) /\ n + (k - n) = k
        /\ Len(q) + (k - n) \in 1..(Len(q) + Len(s)) /\ ~(Len(q) + (k - n) <= Len(q))
        /\ Len(q) + (k - n) - Len(q) = k - n
    BY <1>1, <1>2
  <2>2. s[k - n] = p[k]
    BY <1>2, <2>1
  <2> QED
    BY <1>3, <2>1, <2>2
<1>6. q \o s \in Dns
  BY <1>1, <1>2, <1>3 DEF Dns
<1> QED
  BY <1>2, <1>3, <1>4, <1>5, <1>6 DEF Rebased, s, n

\* Paths below d stay apart, and parents stay parents, when d becomes q.
LEMMA RebasedFacts ==
  ASSUME NEW d \in Dns, NEW q \in Dns
  PROVE  /\ \A p, m \in Dns : Rebased(m, d, q, p) /\ Above(d, p) => Above(q, m)
         /\ \A m \in Dns : Rebased(m, d, q, d) => m = q
         /\ \A p, p2, m \in Dns :
              Rebased(m, d, q, p) /\ Rebased(m, d, q, p2) /\ Above(d, p) /\ Above(d, p2) => p = p2
         /\ \A p, m, p2, m2 \in Dns :
              Rebased(m, d, q, p) /\ Rebased(m2, d, q, p2) /\ Above(d, p) /\ Child(p, p2)
              => Child(m, m2)
<1>1. \A p \in Dns : p \in Seq(Rdns) /\ Len(p) \in Nat \ {0}
  BY PathFacts
<1>2. \A p, m \in Dns : Rebased(m, d, q, p) /\ Above(d, p) => Above(q, m)
  BY <1>1 DEF Rebased, Above
<1>3. \A m \in Dns : Rebased(m, d, q, d) => m = q
  <2> TAKE m \in Dns
  <2> HAVE Rebased(m, d, q, d)
  <2>1. Len(m) = Len(q)
    BY <1>1 DEF Rebased
  <2> QED
    BY <1>1, <2>1, SeqEqual DEF Rebased
<1>4. \A p, p2, m \in Dns :
        Rebased(m, d, q, p) /\ Rebased(m, d, q, p2) /\ Above(d, p) /\ Above(d, p2) => p = p2
  <2> TAKE p, p2, m \in Dns
  <2> HAVE Rebased(m, d, q, p) /\ Rebased(m, d, q, p2) /\ Above(d, p) /\ Above(d, p2)
  <2>1. Len(p) = Len(p2) /\ Len(p) \in Nat /\ Len(d) \in Nat
    BY <1>1 DEF Rebased
  <2>2. \A k \in 1..Len(p) : p[k] = p2[k]
    <3> TAKE k \in 1..Len(p)
    <3>1. CASE k \in 1..Len(d)
      BY <3>1 DEF Above
    <3>2. CASE k \in (Len(d) + 1)..Len(p)
      BY <2>1, <3>2 DEF Rebased
    <3> QED
      BY <2>1, <3>1, <3>2
  <2> QED
    BY <1>1, <2>1, <2>2, SeqEqual
<1>5. \A p, m, p2, m2 \in Dns :
        Rebased(m, d, q, p) /\ Rebased(m2, d, q, p2) /\ Above(d, p) /\ Child(p, p2)
        => Child(m, m2)
  <2> TAKE p, m, p2, m2 \in Dns
  <2> HAVE Rebased(m, d, q, p) /\ Rebased(m2, d, q, p2) /\ Above(d, p) /\ Child(p, p2)
  <2>1. /\ Len(m) = Len(q) + (Len(p) - Len(d)) /\ Len(m2) = Len(q) + (Len(p2) - Len(d))
        /\ Len(p2) = Len(p) + 1 /\ Len(d) <= Len(p)
        /\ Len(p) \in Nat /\ Len(d) \in Nat /\ Len(q) \in Nat
    BY <1>1 DEF Rebased, Child, Above
  <2>2. \A k \in 1..Len(m) : m2[k] = m[k]
    <3> TAKE k \in 1..Len(m)
    <3>1. CASE k \in 1..Len(q)
      BY <3>1 DEF Rebased
    <3>2. CASE k \notin 1..Len(q)
      <4> DEFINE n == k - Len(q) + Len(d)
      <4>1. /\ n \in (Len(d) + 1)..Len(p) /\ n \in (Len(d) + 1)..Len(p2) /\ n \in 1..Len(p)
            /\ Len(q) + (n - Len(d)) = k
        BY <2>1, <3>2
      <4> HIDE DEF n
      <4>2. m[k] = p[n] /\ m2[k] = p2[n] /\ p2[n] = p[n]
        BY <4>1 DEF Rebased, Child
      <4> QED
        BY <4>2
    <3> QED
      BY <3>1, <3>2
  <2> QED
    BY <2>1, <2>2 DEF Child
<1> QED
  BY <1>2, <1>3, <1>4, <1>5

\* A subtree gets a place that is not used, and not below itself.
LEMMA MoveWhole ==
  ASSUME NEW f, Whole(f), NEW d \in Dns, NEW q \in Dns,
         \A b \in DOMAIN f : f[b] # q,
         Front(q) = <<>> \/ \E b \in DOMAIN f : f[b] = Front(q) /\ ~Above(d, f[b])
  PROVE  Whole([c \in DOMAIN f |->
                  IF Above(d, f[c]) THEN q \o SubSeq(f[c], Len(d) + 1, Len(f[c])) ELSE f[c]])
<1> DEFINE g == [c \in DOMAIN f |->
                   IF Above(d, f[c]) THEN q \o SubSeq(f[c], Len(d) + 1, Len(f[c])) ELSE f[c]]
<1>0. \A c \in DOMAIN f : f[c] \in Dns
  BY DEF Whole
<1>1. /\ DOMAIN g = DOMAIN f
      /\ \A c \in DOMAIN f : IF Above(d, f[c]) THEN Rebased(g[c], d, q, f[c]) ELSE g[c] = f[c]
  BY <1>0, RebasedPath
<1> HIDE DEF g
<1>2. \A c \in DOMAIN g : g[c] \in Dns
  BY <1>0, <1>1 DEF Rebased
<1>3. ASSUME NEW b \in DOMAIN g, NEW c \in DOMAIN g, Above(d, f[b]), ~Above(d, f[c])
      PROVE  g[b] # g[c]
  <2>1. Above(q, g[b]) /\ g[c] = f[c]
    BY <1>0, <1>1, <1>2, <1>3, RebasedFacts
  <2>2. ~Above(q, f[c])
    BY <1>1, WholeRooted
  <2> QED
    BY <2>1, <2>2
<1>4. ASSUME NEW b \in DOMAIN g, NEW c \in DOMAIN g, g[b] = g[c]
      PROVE  b = c
  <2>1. Above(d, f[b]) <=> Above(d, f[c])
    BY <1>3, <1>4
  <2>2. f[b] = f[c]
    <3>1. CASE Above(d, f[b])
      BY <1>0, <1>1, <1>2, <1>4, <2>1, <3>1, RebasedFacts
    <3>2. CASE ~Above(d, f[b])
      BY <1>1, <1>4, <2>1, <3>2
    <3> QED
      BY <3>1, <3>2
  <2> QED
    BY <1>1, <2>2 DEF Whole
<1>5. ASSUME NEW c \in DOMAIN g, Front(g[c]) # <<>>
      PROVE  \E b \in DOMAIN g : g[b] = Front(g[c])
  <2>1. CASE ~Above(d, f[c])
    <3>1. PICK b \in DOMAIN f : f[b] = Front(f[c])
      BY <1>1, <1>5, <2>1 DEF Whole
    <3>2. Child(f[b], f[c])
      BY <1>0, <1>1, <3>1, FrontFacts
    <3>3. ~Above(d, f[b])
      BY <1>0, <1>1, <2>1, <3>2, AboveFacts
    <3> QED
      BY <1>1, <2>1, <3>1, <3>3
  <2>2. CASE f[c] = d
    <3>1. g[c] = q
      BY <1>0, <1>1, <1>2, <2>2, AboveFacts, RebasedFacts
    <3>2. PICK b \in DOMAIN f : f[b] = Front(q) /\ ~Above(d, f[b])
      BY <1>5, <3>1
    <3> QED
      BY <1>1, <3>1, <3>2
  <2>3. CASE Above(d, f[c]) /\ f[c] # d
    <3>1. Front(f[c]) # <<>>
      <4>1. ASSUME Len(f[c]) = 1 PROVE FALSE
        BY <1>0, <1>1, <2>3, <4>1, TopAbove
      <4> QED
        BY <1>0, <1>1, <4>1, FrontFacts
    <3>2. PICK b \in DOMAIN f : f[b] = Front(f[c])
      BY <1>1, <3>1 DEF Whole
    <3>3. Child(f[b], f[c])
      BY <1>0, <1>1, <3>2, FrontFacts
    <3>4. Above(d, f[b])
      BY <1>0, <1>1, <2>3, <3>3, AboveFacts
    <3>5. Child(g[b], g[c])
      BY <1>0, <1>1, <1>2, <2>3, <3>3, <3>4, RebasedFacts
    <3>6. g[b] \in Seq(Rdns)
      BY <1>1, <1>2, PathFacts
    <3>7. Front(g[c]) = g[b]
      BY <1>2, <3>5, <3>6, FrontChild
    <3> QED
      BY <1>1, <3>7
  <2> QED
    BY <2>1, <2>2, <2>3
<1>6. Whole(g)
  BY <1>2, <1>4, <1>5 DEF Whole
<1> QED
  BY <1>6 DEF g

ServiceInv == op \in [Requests -> Operations \cup {NoOp}] /\ Whole(Place)

LEMMA ServiceInitially ==
  ASSUME Settled(Seed, SeedRows), Service!Init
  PROVE  ServiceInv
<1>1. Place = Placement(Seed, SeedOwner) /\ op = [t \in Requests |-> NoOp]
  BY DEF Service!Init, Place
<1> DEFINE f == Placement(Seed, SeedOwner)
<1>2. {d \in Ids : SeedOwner[d] # NoOwner} = SeedRows
  BY TreeAssumption DEF SeedOwner, SeedRows
<1>3. /\ DOMAIN f = SeedRows
      /\ \A c \in SeedRows : f[c] = Seed[c].path /\ c \in Ids /\ Seed[c] \in Row
  BY <1>2 DEF SeedOwner, SeedRows, Placement
<1> HIDE DEF f
<1>4. \A c \in DOMAIN f : f[c] \in Dns
  BY <1>3 DEF Row
<1>5. \A b, c \in DOMAIN f : f[b] = f[c] => b = c
  BY <1>3 DEF Settled, Unique
<1>6. ASSUME NEW c \in DOMAIN f
      PROVE  Front(f[c]) = <<>> \/ \E b \in DOMAIN f : f[b] = Front(f[c])
  <2>1. Child(PathAbove(Seed, c), f[c])
    BY <1>3 DEF Settled, Placed, PlacedAt
  <2>2. PathAbove(Seed, c) = <<>> \/ \E b \in DOMAIN f : f[b] = PathAbove(Seed, c)
    BY <1>3, SeedAssumption DEF PathAbove, Valid, SeedRows
  <2>3. PathAbove(Seed, c) \in Seq(Rdns)
    BY <1>4, <2>2, PathFacts, EmptySeq
  <2>4. Front(f[c]) = PathAbove(Seed, c)
    BY <1>4, <2>1, <2>3, FrontChild
  <2> QED
    BY <2>2, <2>4
<1> QED
  BY <1>1, <1>4, <1>5, <1>6 DEF ServiceInv, Whole, f

LEMMA ServiceAddKeeps ==
  ASSUME ServiceInv, NEW t \in Requests, NEW c \in Ids, Service!Add(t, c)
  PROVE  ServiceInv'
<1>1. /\ op' = op /\ op[t].kind = "add" /\ c \notin DOMAIN Place
      /\ op[t].dn \notin {Place[b] : b \in DOMAIN Place}
      /\ Service!Front(op[t].dn) \in {Place[b] : b \in DOMAIN Place} \cup {<<>>}
      /\ Place' = [d \in DOMAIN Place \cup {c} |-> IF d = c THEN op[t].dn ELSE Place[d]]
  BY ServiceTerms DEF Service!Add, Service!TakesEffect, Place
<1>2. op[t].dn \in Dns
  BY <1>1, OpFacts DEF ServiceInv, NoOp
<1>3. Service!Front(op[t].dn) = Front(op[t].dn)
  BY DEF Service!Front, Front
<1>4. Whole(Place')
  <2>1. Whole(Place) /\ (\A b \in DOMAIN Place : Place[b] # op[t].dn)
        /\ (Front(op[t].dn) = <<>> \/ \E b \in DOMAIN Place : Place[b] = Front(op[t].dn))
    BY <1>1, <1>3 DEF ServiceInv
  <2>2. Whole([b \in DOMAIN Place \cup {c} |-> IF b = c THEN op[t].dn ELSE Place[b]])
    BY <1>1, <1>2, <2>1, AddWhole
  <2> QED
    BY <1>1, <2>2
<1> QED
  BY <1>1, <1>4 DEF ServiceInv, Whole

LEMMA ServiceDeleteKeeps ==
  ASSUME ServiceInv, NEW t \in Requests, Service!Delete(t)
  PROVE  ServiceInv'
<1>1. /\ op' = op /\ op[t].kind = "delete"
      /\ \/ Place' = [c \in {d \in DOMAIN Place : ~Service!IsPrefix(op[t].dn, Place[d])} |->
                        Place[c]]
         \/ Place' = Place
  BY ServiceTerms DEF Service!Delete, Service!TakesEffect, Place
<1>2. op[t].dn \in Dns /\ \A d \in DOMAIN Place : Place[d] \in Dns
  BY <1>1, OpFacts DEF ServiceInv, NoOp, Whole
<1>3. {d \in DOMAIN Place : ~Service!IsPrefix(op[t].dn, Place[d])}
        = {d \in DOMAIN Place : ~Above(op[t].dn, Place[d])}
  BY <1>2, ServicePrefix
<1>4. Whole(Place')
  BY <1>1, <1>2, <1>3, RemoveWhole DEF ServiceInv
<1> QED
  BY <1>1, <1>4 DEF ServiceInv, Whole

LEMMA ServiceMoveKeeps ==
  ASSUME ServiceInv, NEW t \in Requests, Service!Move(t)
  PROVE  ServiceInv'
<1> DEFINE d == op[t].dn
           q == Append(Target(t), op[t].rdn)
<1>1. Target(t) = CASE op[t].superior = NoSuperior -> Service!Front(op[t].dn)
                    [] op[t].superior = BaseDn -> <<>> [] OTHER -> op[t].superior
  BY DEF Target, Front, Service!Front
<1>2. /\ op' = op /\ op[t].kind = "modifyDN"
      /\ q \notin {Place[b] : b \in DOMAIN Place}
      /\ Target(t) \in {Place[b] : b \in DOMAIN Place} \cup {<<>>}
      /\ ~Service!IsPrefix(d, Target(t))
      /\ Place' = [c \in DOMAIN Place |->
                     IF Service!IsPrefix(d, Place[c])
                     THEN q \o SubSeq(Place[c], Len(d) + 1, Len(Place[c]))
                     ELSE Place[c]]
  BY <1>1, ServiceTerms DEF Service!Move, Service!TakesEffect, Place
<1>3. d \in Dns /\ op[t].rdn \in Rdns /\ \A c \in DOMAIN Place : Place[c] \in Dns
  BY <1>2, OpFacts DEF ServiceInv, NoOp, Whole
<1>4. Target(t) \in Seq(Rdns)
  BY <1>2, <1>3, PathFacts, EmptySeq
<1>5. q \in Dns /\ Front(q) = Target(t)
  BY <1>3, <1>4, AppendChild, FrontChild
<1> HIDE DEF d, q
<1>6. Front(q) = <<>> \/ \E b \in DOMAIN Place : Place[b] = Front(q) /\ ~Above(d, Place[b])
  BY <1>2, <1>3, <1>5, ServicePrefix
<1>7. Place' = [c \in DOMAIN Place |->
                  IF Above(d, Place[c])
                  THEN q \o SubSeq(Place[c], Len(d) + 1, Len(Place[c]))
                  ELSE Place[c]]
  <2>1. \A c \in DOMAIN Place : Service!IsPrefix(d, Place[c]) <=> Above(d, Place[c])
    BY <1>3, ServicePrefix
  <2> QED
    BY <1>2, <2>1
<1>8. Whole(Place')
  <2>1. Whole(Place) /\ \A b \in DOMAIN Place : Place[b] # q
    BY <1>2 DEF ServiceInv
  <2>2. Whole([c \in DOMAIN Place |->
                 IF Above(d, Place[c])
                 THEN q \o SubSeq(Place[c], Len(d) + 1, Len(Place[c]))
                 ELSE Place[c]])
    BY <1>3, <1>5, <1>6, <2>1, MoveWhole
  <2> QED
    BY <1>7, <2>2
<1> QED
  BY <1>2, <1>8 DEF ServiceInv, Whole

LEMMA ServiceKeeps == ServiceInv /\ [Service!Next]_(Service!service) => ServiceInv'
<1> SUFFICES ASSUME ServiceInv, [Service!Next]_(Service!service) PROVE ServiceInv'
  OBVIOUS
<1>1. CASE UNCHANGED Service!service
  BY <1>1 DEF Service!service, ServiceInv, Place, Whole
<1>2. ASSUME NEW t \in Requests, NEW o \in Operations, Service!Ask(t, o)
      PROVE  ServiceInv'
  BY <1>2 DEF Service!Ask, ServiceInv, Place, Whole
<1> QED
  BY <1>1, <1>2, ServiceAddKeeps, ServiceDeleteKeeps, ServiceMoveKeeps DEF Service!Next

\* The service keeps one tree: atomic adds, deletes and moves, in any order
\* and to any level but below themselves, leave no two entries with one DN
\* and none without the entry above it, if the directory starts so.
THEOREM ServiceKeepsTree ==
  ASSUME Settled(Seed, SeedRows)
  PROVE  Service!Spec => []Service!OneTree
<1>1. Service!Init => ServiceInv
  BY ServiceInitially
<1>2. ServiceInv => Service!OneTree
  <2> SUFFICES ASSUME ServiceInv PROVE Service!OneTree
    OBVIOUS
  <2>1. \A c \in DOMAIN Place : Place[c] # <<>> /\ Service!Front(Place[c]) = Front(Place[c])
    BY DEF ServiceInv, Whole, Dns, Service!Front, Front
  <2>2. /\ \A b, c \in DOMAIN Place : Place[b] = Place[c] => b = c
        /\ \A c \in DOMAIN Place :
             Place[c] # <<>> /\ Service!Front(Place[c]) \in Service!Parents
    BY <2>1, ServiceTerms DEF ServiceInv, Whole
  <2> QED
    BY <2>2, ServiceTerms DEF Service!OneTree, Place
<1> QED
  BY <1>1, <1>2, ServiceKeeps, PTL DEF Service!Spec

\* And so what the handlers of add, delete and modify DN show is one tree at
\* every moment, also between the four commits of a rename: no contents are
\* found at two DNs or share one, and none are cut off from the top.
THEOREM TreeIsWhole ==
  ASSUME Orderly
  PROVE  Spec => []Service!OneTree
<1>1. Spec => Service!Spec
  BY TreeImplementsService DEF ImplementsService
<1>2. Service!Spec => []Service!OneTree
  BY ServiceKeepsTree DEF Orderly
<1> QED
  BY <1>1, <1>2, PTL
=============================================================================
