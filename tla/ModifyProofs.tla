---------------------------- MODULE ModifyProofs ----------------------------
(***************************************************************************)
(* Proofs about Modify, for any requests, entries and groups: the foreign  *)
(* keys of the tables; that requests which put an entry into groups at the *)
(* same time do not undo each other; and that an entry whose requests      *)
(* never overlapped is what they were to make of it, but for the fields    *)
(* of which the code passes over a change in silence.                      *)
(***************************************************************************)
EXTENDS Modify, TLAPS

Busy(t) == stage[t] \in {"apply", "commit"}

\* Where a request is determines what it has asked for and loaded.
RequestInv ==
  \A t \in Requests :
    /\ stage[t] = "idle" => arg[t] = NoArg /\ result[t] = "none"
    /\ stage[t] # "idle" => arg[t] \in Args
    /\ stage[t] = "apply" => arg[t].kind = "modify"
    /\ Busy(t) => result[t] = "none"
    /\ Busy(t) /\ arg[t].kind = "modify" => next[t] \in 1..Len(arg[t].changes)
    /\ Busy(t) /\ arg[t].kind = "modify" => loaded[t] \subseteq {arg[t].entry} \X Groups
    /\ arg[t].kind = "delete" =>
         \A m \in loaded[t] : m[1] = arg[t].entry \/ m[2] = arg[t].entry

IInv == TypeOK /\ RequestInv

-----------------------------------------------------------------------------
(* Facts about one request *)

LEMMA ArgFacts ==
  ASSUME NEW a \in Args
  PROVE  /\ a.kind \in {"modify", "add", "delete"} /\ a.entry \in Entries
         /\ a.changes \in Seq(Change)
         /\ a.kind = "modify" => a.changes # <<>>
         /\ a.groups \subseteq Groups
         /\ \A n \in 1..Len(a.changes) :
              LET c == a.changes[n]
              IN  c.vals \subseteq IF c.field = "memberOf" THEN Groups ELSE Values
  BY ModifyAssumption

\* A request that is at work on a change has one, of the right type.
LEMMA CurrentFacts ==
  ASSUME IInv, NEW t \in Requests, Busy(t), arg[t].kind = "modify"
  PROVE  /\ arg[t] \in Args /\ arg[t].entry \in Entries
         /\ Current(t) \in Change
         /\ Current(t).field = "memberOf" => Current(t).vals \subseteq Groups
         /\ Current(t).field # "memberOf" => Current(t).vals \subseteq Values
         /\ next[t] \in 1..Len(arg[t].changes)
         /\ loaded[t] \subseteq {arg[t].entry} \X Groups
<1>1. arg[t] \in Args /\ next[t] \in 1..Len(arg[t].changes)
  BY DEF IInv, RequestInv, Busy
<1>2. arg[t].changes[next[t]] \in Change
  BY <1>1, ArgFacts
<1> QED
  BY <1>1, <1>2, ArgFacts DEF IInv, RequestInv, Current

\* A request that neither reads nor writes the tables keeps the invariant.
LEMMA RefuseKeeps ==
  ASSUME IInv, NEW t \in Requests, Busy(t), NEW answer \in Results, Refuse(t, answer)
  PROVE  IInv'
<1>1. TypeOK'
  BY DEF IInv, TypeOK, Refuse, End, tables, ghosts, Stages, RowOf
<1>2. RequestInv'
  BY DEF IInv, TypeOK, RequestInv, Busy, Refuse, End, tables, ghosts, Stages
<1> QED
  BY <1>1, <1>2 DEF IInv

LEMMA AdvanceFacts ==
  ASSUME IInv, NEW t \in Requests, Busy(t), arg[t].kind = "modify", Advance(t)
  PROVE  /\ stage' \in [Requests -> Stages] /\ next' \in [Requests -> Nat]
         /\ result' \in [Requests -> Results]
         /\ \A u \in Requests \ {t} :
              stage'[u] = stage[u] /\ next'[u] = next[u] /\ result'[u] = result[u]
         /\ \/ stage'[t] = "done" /\ result'[t] = "success" /\ next[t] = Len(arg[t].changes)
            \/ /\ stage'[t] = "apply" /\ result'[t] = "none"
               /\ next'[t] = next[t] + 1 /\ next'[t] \in 1..Len(arg[t].changes)
<1>1. next[t] \in 1..Len(arg[t].changes) /\ Len(arg[t].changes) \in Nat /\ result[t] = "none"
  BY CurrentFacts, ArgFacts DEF IInv, RequestInv
<1>2. CASE next[t] = Len(arg[t].changes)
  BY <1>1, <1>2 DEF IInv, TypeOK, Advance, End, Stages, Results
<1>3. CASE next[t] # Len(arg[t].changes)
  <2>1. /\ next' = [next EXCEPT ![t] = next[t] + 1]
        /\ stage' = [stage EXCEPT ![t] = "apply"]
        /\ result' = result
    BY <1>3 DEF Advance
  <2>2. next[t] + 1 \in 1..Len(arg[t].changes)
    BY <1>1, <1>3
  <2> QED
    BY <1>1, <2>1, <2>2 DEF IInv, TypeOK, Stages
<1> QED
  BY <1>2, <1>3

-----------------------------------------------------------------------------
(* The invariant is inductive *)

LEMMA InitIInv == Init => IInv
<1> SUFFICES ASSUME Init PROVE IInv
  OBVIOUS
<1>1. TypeOK
  <2>1. member \subseteq alive \X (alive \cap Groups)
    BY ModifyAssumption DEF Init
  <2>2. rows \subseteq RowOf /\ \A r \in rows : r.entry \in alive
    <3> SUFFICES ASSUME NEW r \in rows PROVE r \in RowOf /\ r.entry \in alive
      OBVIOUS
    <3>1. /\ r \in [entry : Entries, value : Values, by : {<<NoRequest, 0>>}]
          /\ r.value \in SeedValues[r.entry]
      BY DEF Init
    <3> QED
      BY <3>1, ModifyAssumption DEF Init, RowOf
  <2>3. alive \subseteq Entries /\ column \in [Entries -> Values \cup {NoValue}]
    BY ModifyAssumption DEF Init
  <2> QED
    BY <2>1, <2>2, <2>3 DEF Init, TypeOK, Stages, Results
<1>2. RequestInv
  BY DEF Init, RequestInv, Busy, NoArg
<1> QED
  BY <1>1, <1>2 DEF IInv

LEMMA BeginKeeps ==
  ASSUME IInv, NEW t \in Requests, NEW a \in Args, Begin(t, a)
  PROVE  IInv'
<1> DEFINE e == a.entry
           answer ==
             CASE a.kind = "modify" /\ ~Find(e)   -> "notFound"
               [] a.kind = "delete" /\ e \notin alive -> "notFound"
               [] a.kind = "add" /\ e \in alive   -> "exists"
               [] OTHER                           -> "none"
           new == IF a.kind = "delete" THEN {m \in member : e \in {m[1], m[2]}}
                  ELSE GroupsOf(e)
<1>1. answer \in {"none", "notFound", "exists"}
  OBVIOUS
<1>2. /\ arg' = [arg EXCEPT ![t] = a]
      /\ result' = [result EXCEPT ![t] = answer]
      /\ stage' = [stage EXCEPT ![t] =
           IF answer # "none" THEN "done"
           ELSE IF a.kind = "modify" THEN "apply" ELSE "commit"]
      /\ next' = [next EXCEPT ![t] = 1]
      /\ loaded' = [loaded EXCEPT ![t] = new]
      /\ found' = [found EXCEPT ![t] = a.groups \cap Findable \cap alive]
      /\ doomed' = [doomed EXCEPT ![t] = IF a.kind = "delete" THEN RowsOf(e) ELSE {}]
      /\ UNCHANGED <<alive, member, rows, column, copies, silent>>
      /\ stage[t] = "idle"
  BY DEF Begin, tables
<1>3. mixed' \subseteq Entries
  <2>1. \A u \in Requests : u \in Active => arg[u] \in Args
    BY DEF IInv, RequestInv, Active
  <2>2. {arg[u].entry : u \in {v \in Active : Concern(a, arg[v])}} \subseteq Entries
    BY <2>1, ArgFacts DEF Active
  <2> QED
    BY <2>2, ArgFacts DEF Begin, IInv, TypeOK
<1>4. new \subseteq Entries \X Groups
  BY DEF IInv, TypeOK, GroupsOf
<1>5. a.groups \cap Findable \cap alive \subseteq Groups
  BY ArgFacts
<1>6. RowsOf(e) \subseteq RowOf
  BY DEF IInv, TypeOK, RowsOf
<1> HIDE DEF answer, new
<1>7. TypeOK'
  BY <1>1, <1>2, <1>3, <1>4, <1>5, <1>6 DEF IInv, TypeOK, Stages, Results
<1>8. a.kind # "delete" => new \subseteq {e} \X Groups
  BY <1>4 DEF new, GroupsOf
<1>9. a.kind = "delete" => \A m \in new : m[1] = e \/ m[2] = e
  BY DEF new
<1>10. a.kind = "modify" => 1 \in 1..Len(a.changes)
  BY ArgFacts
<1>11. RequestInv'
  BY <1>1, <1>2, <1>8, <1>9, <1>10, ArgFacts DEF IInv, TypeOK, RequestInv, Busy
<1> QED
  BY <1>7, <1>11 DEF IInv

LEMMA SkipKeeps ==
  ASSUME IInv, NEW t \in Requests, SkipReadOnly(t)
  PROVE  IInv'
<1>1. Busy(t) /\ arg[t].kind = "modify" /\ Advance(t)
      /\ UNCHANGED <<tables, arg, loaded, copies, found, doomed, ghosts>>
  BY DEF SkipReadOnly, IInv, RequestInv, Busy
<1>2. TypeOK'
  BY <1>1, AdvanceFacts DEF IInv, TypeOK, tables, ghosts
<1>3. RequestInv'
  <2>1. arg' = arg /\ loaded' = loaded
    BY <1>1
  <2> QED
    BY <1>1, <2>1, AdvanceFacts DEF IInv, RequestInv, Busy
<1> QED
  BY <1>2, <1>3 DEF IInv

LEMMA ApplyKeeps ==
  ASSUME IInv, NEW t \in Requests, Apply(t)
  PROVE  IInv'
<1>1. Busy(t) /\ arg[t].kind = "modify" /\ stage[t] = "apply"
  BY DEF Apply, IInv, RequestInv, Busy
<1>2. found'[t] \subseteq Groups
  BY <1>1, CurrentFacts DEF Apply, IInv, TypeOK
<1>3. doomed'[t] \subseteq RowOf
  BY DEF Apply, IInv, TypeOK, DeletedRows, RowsOf
<1>4. TypeOK'
  BY <1>2, <1>3 DEF Apply, IInv, TypeOK, tables, ghosts, Stages
<1>5. RequestInv'
  BY <1>1 DEF Apply, IInv, TypeOK, RequestInv, Busy, tables
<1> QED
  BY <1>4, <1>5 DEF IInv

\* What a change writes keeps the types and the keys of the tables.
LEMMA LinkFacts ==
  ASSUME IInv, NEW t \in Requests, Busy(t), arg[t].kind = "modify",
         CommitLinks(t)
  PROVE  /\ member' \subseteq alive \X (alive \cap Groups)
         /\ loaded' \in [Requests -> SUBSET (Entries \X Groups)]
         /\ loaded'[t] \subseteq {arg[t].entry} \X Groups
         /\ \A u \in Requests \ {t} : loaded'[u] = loaded[u]
         /\ UNCHANGED <<rows, column>>
<1>1. Linked(t) \subseteq {arg[t].entry} \X Groups
  BY DEF IInv, TypeOK, Linked, Named
<1>2. Linked(t) \subseteq alive \X (alive \cap Groups)
  BY <1>1 DEF CommitLinks, LinksFit
<1>3. arg[t].entry \in Entries /\ loaded[t] \subseteq {arg[t].entry} \X Groups
  BY CurrentFacts
<1>4. CASE Kind[arg[t].entry] = "plain"
  BY <1>3, <1>4 DEF CommitLinks, IInv, TypeOK
<1>5. CASE Kind[arg[t].entry] # "plain"
  <2>1. member' = (member \ Dropped(t)) \cup Linked(t)
        /\ loaded' = [loaded EXCEPT ![t] = (loaded[t] \ Dropped(t)) \cup Linked(t)]
    BY <1>5 DEF CommitLinks, WriteLinks
  <2>2. (loaded[t] \ Dropped(t)) \cup Linked(t) \subseteq {arg[t].entry} \X Groups
    BY <1>1, <1>3
  <2>3. {arg[t].entry} \X Groups \subseteq Entries \X Groups
    BY <1>3
  <2> QED
    BY <2>1, <2>2, <2>3, <1>2 DEF IInv, TypeOK, CommitLinks
<1> QED
  BY <1>4, <1>5

LEMMA RowFacts ==
  ASSUME IInv, NEW t \in Requests, Busy(t), arg[t].kind = "modify",
         CommitRows(t)
  PROVE  /\ rows' \subseteq RowOf /\ \A r \in rows' : r.entry \in alive
         /\ UNCHANGED <<member, column, loaded>>
<1>1. Current(t).vals \subseteq Values /\ arg[t].entry \in Entries /\ next[t] \in Nat
  BY CurrentFacts DEF CommitRows, IInv, TypeOK
<1>2. NewRows(t) \subseteq RowOf /\ \A r \in NewRows(t) : r.entry \in alive
  <2>1. SUFFICES ASSUME NEW r \in NewRows(t)
                 PROVE  r \in RowOf /\ r.entry \in alive
    OBVIOUS
  <2>2. r \in [entry : {arg[t].entry}, value : Current(t).vals, by : {<<t, next[t]>>}]
    BY DEF NewRows
  <2>3. arg[t].entry \in alive
    BY DEF CommitRows, RowsFit
  <2> QED
    BY <2>2, <2>3, <1>1 DEF RowOf
<1> QED
  BY <1>2 DEF CommitRows, IInv, TypeOK

LEMMA ColumnFacts ==
  ASSUME IInv, NEW t \in Requests, Busy(t), arg[t].kind = "modify",
         CommitColumn(t)
  PROVE  /\ column' \in [Entries -> Values \cup {NoValue}]
         /\ UNCHANGED <<member, rows, loaded>>
<1>1. Current(t).vals \subseteq Values /\ arg[t].entry \in Entries
  BY CurrentFacts DEF CommitColumn
<1>2. ColumnValues(t) \subseteq Values
  BY <1>1 DEF ColumnValues
<1> QED
  BY <1>1, <1>2 DEF CommitColumn, IInv, TypeOK

\* The list loses a copy only where it has one, and what is passed over is the
\* field of a change.
LEMMA CopiesFacts ==
  ASSUME IInv, NEW t \in Requests, Busy(t), arg[t].kind = "modify",
         CommitLinks(t) \/ CommitRows(t) \/ CommitColumn(t)
  PROVE  /\ copies' \in [Requests -> [Groups -> Nat]]
         /\ silent' \subseteq Entries \X Fields
<1>1. CopiesLeft(t) \in [Groups -> Nat]
  <2>1. copies[t] \in [Groups -> Nat]
    BY DEF IInv, TypeOK
  <2>2. ASSUME NEW g \in TwiceIn(t) PROVE copies[t][g] - 1 \in Nat
    BY <2>1, <2>2 DEF TwiceIn
  <2> QED
    BY <2>1, <2>2 DEF CopiesLeft
<1>2. copies' = copies \/ copies' = [copies EXCEPT ![t] = CopiesLeft(t)]
  BY DEF CommitLinks, CommitRows, CommitColumn
<1>3. <<arg[t].entry, Current(t).field>> \in Entries \X Fields
  BY CurrentFacts DEF Change
<1>4. Wanted(t)
  BY DEF CommitLinks, CommitRows, CommitColumn
<1>5. silent' \subseteq Entries \X Fields
  BY <1>3, <1>4 DEF Wanted, IInv, TypeOK
<1> QED
  BY <1>1, <1>2, <1>5 DEF IInv, TypeOK

LEMMA CommitChangeKeeps ==
  ASSUME IInv, NEW t \in Requests, CommitChange(t)
  PROVE  IInv'
<1>1. Busy(t) /\ arg[t].kind = "modify" /\ Advance(t)
      /\ UNCHANGED <<alive, arg, found, doomed, mixed>>
  BY DEF CommitChange, Commits, Busy
<1>2. /\ member' \subseteq alive \X (alive \cap Groups)
      /\ rows' \subseteq RowOf /\ \A r \in rows' : r.entry \in alive
      /\ column' \in [Entries -> Values \cup {NoValue}]
      /\ loaded' \in [Requests -> SUBSET (Entries \X Groups)]
      /\ loaded'[t] \subseteq {arg[t].entry} \X Groups
      /\ \A u \in Requests \ {t} : loaded'[u] = loaded[u]
      /\ copies' \in [Requests -> [Groups -> Nat]]
      /\ silent' \subseteq Entries \X Fields
  <2>0. /\ copies' \in [Requests -> [Groups -> Nat]]
        /\ silent' \subseteq Entries \X Fields
    BY <1>1, CopiesFacts DEF CommitChange
  <2>1. CASE CommitLinks(t)
    BY <1>1, <2>0, <2>1, LinkFacts DEF IInv, TypeOK
  <2>2. CASE CommitRows(t)
    BY <1>1, <2>0, <2>2, RowFacts, CurrentFacts DEF IInv, TypeOK
  <2>3. CASE CommitColumn(t)
    BY <1>1, <2>0, <2>3, ColumnFacts, CurrentFacts DEF IInv, TypeOK
  <2> QED
    BY <2>1, <2>2, <2>3 DEF CommitChange
<1>3. TypeOK'
  BY <1>1, <1>2, AdvanceFacts DEF IInv, TypeOK
<1>4. RequestInv'
  BY <1>1, <1>2, AdvanceFacts DEF IInv, TypeOK, RequestInv, Busy
<1> QED
  BY <1>3, <1>4 DEF IInv

LEMMA AddKeeps ==
  ASSUME IInv, NEW t \in Requests, CommitAdd(t)
  PROVE  IInv'
<1>1. Busy(t) /\ arg[t] \in Args /\ arg[t].kind = "add" /\ arg[t].entry \in Entries
  BY ArgFacts DEF CommitAdd, Commits, Busy, IInv, RequestInv
<1>2. CASE Refuse(t, "exists")
  BY <1>1, <1>2, RefuseKeeps DEF Results
<1>3. CASE ~Refuse(t, "exists")
  <2>1. /\ found[t] \subseteq alive
        /\ alive' = alive \cup {arg[t].entry}
        /\ member' = member \cup
             ({arg[t].entry} \X IF Kind[arg[t].entry] = "plain" THEN {} ELSE found[t])
        /\ End(t, "success")
        /\ UNCHANGED <<rows, column, arg, loaded, copies, found, doomed, mixed>>
        /\ silent' = silent \/ silent' = silent \cup {<<arg[t].entry, "memberOf">>}
    BY <1>3 DEF CommitAdd
  <2>2. member' \subseteq alive' \X (alive' \cap Groups)
    BY <2>1 DEF IInv, TypeOK
  <2>3. TypeOK'
    BY <1>1, <2>1, <2>2 DEF IInv, TypeOK, End, Stages, Results, Fields
  <2>4. RequestInv'
    BY <1>1, <2>1 DEF IInv, TypeOK, RequestInv, Busy, End
  <2> QED
    BY <2>3, <2>4 DEF IInv
<1> QED
  BY <1>2, <1>3

LEMMA DeleteKeeps ==
  ASSUME IInv, NEW t \in Requests, CommitDelete(t)
  PROVE  IInv'
<1>1. Busy(t) /\ arg[t] \in Args /\ arg[t].kind = "delete" /\ arg[t].entry \in Entries
  BY ArgFacts DEF CommitDelete, Commits, Busy, IInv, RequestInv
<1>2. CASE Refuse(t, "error")
  BY <1>1, <1>2, RefuseKeeps DEF Results
<1>3. CASE ~Refuse(t, "error")
  <2> DEFINE e == arg[t].entry
  <2>1. /\ Unreferenced(t)
        /\ alive' = alive \ {e}
        /\ member' = member \ loaded[t]
        /\ rows' = rows \ doomed[t]
        /\ column' = [column EXCEPT ![e] = NoValue]
        /\ End(t, "success")
        /\ UNCHANGED <<arg, loaded, copies, found, doomed, mixed>>
        /\ silent' \subseteq silent
    BY <1>3 DEF CommitDelete
  <2>2. member' \subseteq alive' \X (alive' \cap Groups)
    BY <2>1 DEF IInv, TypeOK, Unreferenced
  <2>3. \A r \in rows' : r.entry \in alive'
    BY <2>1 DEF IInv, TypeOK, Unreferenced, RowsOf
  <2>4. TypeOK'
    BY <1>1, <2>1, <2>2, <2>3 DEF IInv, TypeOK, End, Stages, Results
  <2>5. RequestInv'
    BY <1>1, <2>1 DEF IInv, TypeOK, RequestInv, Busy, End
  <2> QED
    BY <2>4, <2>5 DEF IInv
<1> QED
  BY <1>2, <1>3

LEMMA NextIInv == IInv /\ [Next]_vars => IInv'
<1> SUFFICES ASSUME IInv, [Next]_vars PROVE IInv'
  OBVIOUS
<1>1. CASE UNCHANGED vars
  BY <1>1 DEF IInv, TypeOK, RequestInv, Busy, vars, tables, ghosts
<1>2. ASSUME NEW t \in Requests, NEW a \in Args, Begin(t, a)
      PROVE  IInv'
  BY <1>2, BeginKeeps
<1>3. ASSUME NEW t \in Requests, SkipReadOnly(t) \/ Apply(t) \/ CommitChange(t)
      PROVE  IInv'
  BY <1>3, SkipKeeps, ApplyKeeps, CommitChangeKeeps
<1>4. ASSUME NEW t \in Requests, RefuseChange(t) \/ RaiseUnlinkable(t) \/ Fail(t)
      PROVE  IInv'
  <2>1. Busy(t)
    BY <1>4 DEF RefuseChange, RaiseUnlinkable, Fail, Commits, Active, Busy
  <2>2. Refuse(t, "exists") \/ Refuse(t, "error")
    BY <1>4 DEF RefuseChange, RaiseUnlinkable, Fail
  <2> QED
    BY <2>1, <2>2, RefuseKeeps DEF Results
<1>5. ASSUME NEW t \in Requests, CommitAdd(t) \/ CommitDelete(t)
      PROVE  IInv'
  BY <1>5, AddKeeps, DeleteKeeps
<1> QED
  BY <1>1, <1>2, <1>3, <1>4, <1>5 DEF Next

LEMMA IInvHolds == Spec => []IInv
  BY InitIInv, NextIInv, PTL DEF Spec

\* Every variable keeps its type, and memberships and attributes are those of
\* entries and groups that are there, whatever requests overlap and fail.
THEOREM ModifyTypeCorrect == Spec => []TypeOK
<1>1. IInv => TypeOK
  BY DEF IInv
<1> QED
  BY <1>1, IInvHolds, PTL

-----------------------------------------------------------------------------
(* Overlapping adds of memberships *)

\* The entry may be in groups and no request takes it out of one.
Steady(e) == Kind[e] # "plain" /\ NobodyRemoves(e)

\* A request on such an entry: its collection is not ahead of the table, it
\* has found the old groups of the change it is at, and the changes before
\* that one are in the table.
LinksOf(t) ==
  arg[t].kind = "modify" /\ Steady(arg[t].entry) =>
    /\ Busy(t) => loaded[t] \subseteq member
    /\ stage[t] = "commit" /\ Current(t).field = "memberOf" =>
         Current(t).vals \cap OldGroups \subseteq found[t]
    /\ \A n \in 1..Len(arg[t].changes) :
         (Busy(t) /\ n < next[t]) \/ result[t] = "success" => Given(t, n)

LinksInv == \A t \in Requests : LinksOf(t)

\* A change of a request on a steady entry adds.
LEMMA SteadyAdds ==
  ASSUME IInv, NEW t \in Requests, Busy(t), arg[t].kind = "modify",
         NobodyRemoves(arg[t].entry), Current(t).field = "memberOf"
  PROVE  Current(t).op = "add"
<1>1. ~Removes(arg[t], arg[t].entry)
  BY DEF NobodyRemoves
<1>2. next[t] \in 1..Len(arg[t].changes)
  BY CurrentFacts
<1> QED
  BY <1>1, <1>2 DEF Removes, Current

\* What a step of a request t does to the rest of the system: entries that
\* nobody takes out of a group keep their memberships, and there are no new
\* old groups.
Gentle ==
  /\ \A u \in Requests : arg'[u] = arg[u] \/ arg[u].kind = "none"
  /\ \A e \in Entries : NobodyRemoves(e)' =>
       \A g \in Groups : <<e, g>> \in member => <<e, g>> \in member'
  /\ OldGroups' \subseteq OldGroups

LEMMA GentleGiven ==
  ASSUME IInv, Gentle, NEW t \in Requests, arg[t].kind = "modify", stage[t] # "idle",
         arg'[t] = arg[t], Steady(arg[t].entry)',
         NEW n \in 1..Len(arg[t].changes), Given(t, n)
  PROVE  Given(t, n)'
<1>1. arg[t].entry \in Entries /\ OldGroups \subseteq Groups
  BY ArgFacts, ModifyAssumption DEF IInv, RequestInv, OldGroups
<1> SUFFICES ASSUME arg[t].changes[n].field = "memberOf",
                    NEW g \in arg[t].changes[n].vals \cap OldGroups'
             PROVE  <<arg[t].entry, g>> \in member'
  BY DEF Given
<1>2. g \in OldGroups /\ NobodyRemoves(arg[t].entry)'
  BY DEF Gentle, Steady
<1>3. <<arg[t].entry, g>> \in member
  BY <1>2 DEF Given
<1> QED
  BY <1>1, <1>2, <1>3 DEF Gentle

\* A request that does not move keeps its part of the invariant.
LEMMA OthersKeep ==
  ASSUME IInv, LinksInv, Gentle, NEW t \in Requests,
         arg'[t] = arg[t], stage'[t] = stage[t], next'[t] = next[t],
         loaded'[t] = loaded[t], found'[t] = found[t], result'[t] = result[t]
  PROVE  LinksOf(t)'
<1>1. /\ (Busy(t)' <=> Busy(t)) /\ Current(t)' = Current(t)
      /\ Steady(arg[t].entry)' => arg'[t].entry = arg[t].entry
  BY DEF Busy, Current
<1> SUFFICES ASSUME arg[t].kind = "modify", Steady(arg[t].entry)'
             PROVE  /\ Busy(t) => loaded[t] \subseteq member'
                    /\ stage[t] = "commit" /\ Current(t).field = "memberOf" =>
                         Current(t).vals \cap OldGroups' \subseteq found[t]
                    /\ \A n \in 1..Len(arg[t].changes) :
                         (Busy(t) /\ n < next[t]) \/ result[t] = "success" => Given(t, n)'
  BY <1>1 DEF LinksOf
<1>2. stage[t] # "idle" /\ arg[t].entry \in Entries
  BY ArgFacts DEF IInv, RequestInv, NoArg
<1>3. Steady(arg[t].entry)
  BY DEF Steady, NobodyRemoves, Gentle
<1>4. Busy(t) => loaded[t] \subseteq member'
  <2> SUFFICES ASSUME Busy(t), NEW m \in loaded[t] PROVE m \in member'
    OBVIOUS
  <2>1. m \in member /\ m \in {arg[t].entry} \X Groups
    BY <1>3 DEF LinksInv, LinksOf, IInv, RequestInv
  <2>2. PICK g \in Groups : m = <<arg[t].entry, g>>
    BY <2>1
  <2> QED
    BY <1>2, <2>1, <2>2 DEF Gentle, Steady
<1>5. stage[t] = "commit" /\ Current(t).field = "memberOf" =>
        Current(t).vals \cap OldGroups' \subseteq found[t]
  BY <1>3 DEF LinksInv, LinksOf, Gentle
<1>6. \A n \in 1..Len(arg[t].changes) :
        (Busy(t) /\ n < next[t]) \/ result[t] = "success" => Given(t, n)'
  BY <1>2, <1>3, GentleGiven DEF LinksInv, LinksOf
<1> QED
  BY <1>4, <1>5, <1>6

\* The requests but t do not move in a step of t.
StillBut(t) ==
  \A u \in Requests \ {t} :
    /\ arg'[u] = arg[u] /\ stage'[u] = stage[u] /\ next'[u] = next[u]
    /\ loaded'[u] = loaded[u] /\ found'[u] = found[u] /\ result'[u] = result[u]

\* It is left to show of a step of t that it is gentle, and the part of t.
LEMMA StepOf ==
  ASSUME IInv, LinksInv, Gentle, NEW t \in Requests, StillBut(t), LinksOf(t)'
  PROVE  LinksInv'
<1> SUFFICES ASSUME NEW u \in Requests, u # t PROVE LinksOf(u)'
  BY DEF LinksInv
<1> QED
  BY OthersKeep DEF StillBut

\* A step that takes no membership away and brings no entry is gentle.
LEMMA GentleIf ==
  ASSUME UNCHANGED arg, member \subseteq member', alive' \subseteq alive
  PROVE  Gentle
  BY DEF Gentle, OldGroups

-----------------------------------------------------------------------------
(* The steps *)

LEMMA RefuseLinks ==
  ASSUME IInv, LinksInv, NEW t \in Requests, Busy(t), NEW answer \in {"exists", "error"},
         Refuse(t, answer)
  PROVE  LinksInv'
<1>1. Gentle
  BY GentleIf DEF Refuse, tables
<1>2. StillBut(t) /\ stage'[t] = "done" /\ result'[t] # "success"
  BY DEF Refuse, End, StillBut, IInv, TypeOK
<1>3. LinksOf(t)'
  BY <1>2 DEF LinksOf, Busy
<1> QED
  BY <1>1, <1>2, <1>3, StepOf

LEMMA BeginLinks ==
  ASSUME IInv, LinksInv, NEW t \in Requests, NEW a \in Args, Begin(t, a)
  PROVE  LinksInv'
<1>1. /\ arg' = [arg EXCEPT ![t] = a] /\ arg[t] = NoArg
      /\ UNCHANGED <<alive, member>>
      /\ result'[t] # "success" /\ next'[t] = 1
      /\ stage'[t] = "done" \/ (a.kind = "modify" => stage'[t] = "apply")
      /\ a.kind = "modify" => loaded'[t] \subseteq member
  BY DEF Begin, IInv, TypeOK, RequestInv, tables, GroupsOf
<1>2. StillBut(t)
  BY DEF Begin, StillBut, IInv, TypeOK
<1>3. Gentle
  <2>1. \A u \in Requests : arg'[u] = arg[u] \/ arg[u].kind = "none"
    BY <1>1 DEF NoArg, IInv, TypeOK
  <2>2. OldGroups' \subseteq OldGroups
    <3> SUFFICES ASSUME NEW g \in OldGroups', NEW u \in Requests, arg[u].kind = "add"
                 PROVE  arg[u].entry # g
      BY <1>1 DEF OldGroups
    <3>1. arg'[u] = arg[u]
      BY <2>1
    <3> QED
      BY <3>1 DEF OldGroups
  <2> QED
    BY <1>1, <2>1, <2>2 DEF Gentle
<1>4. LinksOf(t)'
  <2>1. arg'[t] = a /\ \A n \in 1..Len(a.changes) : ~(n < 1)
    BY <1>1, ArgFacts DEF IInv, TypeOK
  <2> QED
    BY <1>1, <2>1 DEF LinksOf, Busy
<1> QED
  BY <1>2, <1>3, <1>4, StepOf

\* After a change the memberships it gives are there, and so are those of the
\* changes before it.
LEMMA AdvanceLinks ==
  ASSUME IInv, LinksInv, Gentle, NEW t \in Requests, Busy(t), arg[t].kind = "modify",
         UNCHANGED arg, Advance(t), StillBut(t), NEW k \in Nat, k = next[t],
         Steady(arg[t].entry)' => loaded'[t] \subseteq member' /\ Given(t, k)'
  PROVE  LinksInv'
<1>1. LinksOf(t)'
  <2> SUFFICES ASSUME Steady(arg[t].entry)'
               PROVE  /\ Busy(t)' => loaded'[t] \subseteq member'
                      /\ stage'[t] # "commit"
                      /\ \A n \in 1..Len(arg[t].changes) :
                           (Busy(t)' /\ n < next'[t]) \/ result'[t] = "success" => Given(t, n)'
    BY DEF LinksOf
  <2>1. Steady(arg[t].entry)
    BY DEF Gentle, Steady, NobodyRemoves
  <2>2. \A n \in 1..Len(arg[t].changes) : n < next[t] => Given(t, n)'
    BY <2>1, GentleGiven DEF LinksInv, LinksOf, Busy
  <2>3. next[t] \in Nat /\ Len(arg[t].changes) \in Nat
    BY CurrentFacts, ArgFacts
  <2>4. stage'[t] # "commit"
    BY AdvanceFacts
  <2>5. ASSUME NEW n \in 1..Len(arg[t].changes),
               (Busy(t)' /\ n < next'[t]) \/ result'[t] = "success"
        PROVE  Given(t, n)'
    <3>1. n < next[t] \/ n = next[t]
      BY <2>3, <2>5, AdvanceFacts DEF Busy
    <3> QED
      BY <2>2, <3>1
  <2> QED
    BY <2>4, <2>5
<1> QED
  BY <1>1, StepOf

LEMMA SkipLinks ==
  ASSUME IInv, LinksInv, NEW t \in Requests, SkipReadOnly(t)
  PROVE  LinksInv'
<1>1. /\ Busy(t) /\ arg[t].kind = "modify" /\ Advance(t)
      /\ UNCHANGED <<alive, member, arg, loaded, found>>
  BY DEF SkipReadOnly, IInv, RequestInv, Busy, tables
<1>2. Gentle
  BY <1>1, GentleIf
<1>3. StillBut(t)
  BY <1>1, AdvanceFacts DEF StillBut
<1>4. next[t] \in Nat
  BY DEF IInv, TypeOK
<1>5. ASSUME NEW j \in Nat, j = next[t] PROVE Given(t, j)'
  <2>1. arg'[t].changes[j].field = "readOnly"
    BY <1>1, <1>5 DEF SkipReadOnly, Current
  <2> QED
    BY <2>1 DEF Given
<1>6. Steady(arg[t].entry)' => loaded'[t] \subseteq member'
  BY <1>1, <1>2 DEF LinksInv, LinksOf, Gentle, Steady, NobodyRemoves
<1> QED
  BY <1>1, <1>2, <1>3, <1>4, <1>5, <1>6, AdvanceLinks

LEMMA ApplyLinks ==
  ASSUME IInv, LinksInv, NEW t \in Requests, Apply(t)
  PROVE  LinksInv'
<1>1. /\ arg[t].kind = "modify" /\ Busy(t)
      /\ UNCHANGED <<alive, member, arg, next, loaded, result>>
      /\ found'[t] = IF Current(t).field = "memberOf" /\ Kind[arg[t].entry] # "plain"
                     THEN Current(t).vals \cap Findable \cap alive ELSE {}
  BY DEF Apply, IInv, TypeOK, RequestInv, Busy, tables
<1>2. Gentle
  BY <1>1, GentleIf
<1>3. StillBut(t)
  BY DEF Apply, StillBut, IInv, TypeOK
<1>4. LinksOf(t)'
  BY <1>1 DEF LinksOf, Steady, NobodyRemoves, OldGroups, Current, Given, Busy, LinksInv
<1> QED
  BY <1>2, <1>3, <1>4, StepOf

\* A commit of links of an entry: those of other entries stay, and so do all
\* when the change adds.
LEMMA LinksWritten ==
  ASSUME IInv, LinksInv, NEW t \in Requests, Busy(t), arg[t].kind = "modify",
         UNCHANGED <<alive, arg>>, CommitLinks(t)
  PROVE  Gentle
<1>1. Dropped(t) \subseteq {arg[t].entry} \X Groups
  BY CurrentFacts DEF Dropped, IInv, TypeOK
<1>2. member \ Dropped(t) \subseteq member'
  BY DEF CommitLinks, WriteLinks
<1>3. ASSUME NEW e \in Entries, NobodyRemoves(e)', NEW g \in Groups, <<e, g>> \in member
      PROVE  <<e, g>> \in member'
  <2>1. CASE e = arg[t].entry
    <3>1. Current(t).op = "add"
      BY <1>3, <2>1, SteadyAdds DEF NobodyRemoves, CommitLinks
    <3> QED
      BY <3>1, <1>2, <1>3 DEF Dropped
  <2>2. CASE e # arg[t].entry
    BY <1>1, <1>2, <1>3, <2>2
  <2> QED
    BY <2>1, <2>2
<1> QED
  BY <1>3 DEF Gentle, OldGroups

LEMMA CommitChangeLinks ==
  ASSUME IInv, LinksInv, NEW t \in Requests, CommitChange(t)
  PROVE  LinksInv'
<1>1. /\ Busy(t) /\ arg[t].kind = "modify" /\ Advance(t) /\ stage[t] = "commit"
      /\ UNCHANGED <<alive, arg, found>>
  BY DEF CommitChange, Commits, Busy
<1>2. next[t] \in Nat
  BY DEF IInv, TypeOK
<1>3. CASE CommitLinks(t)
  <2>1. Gentle
    BY <1>1, <1>3, LinksWritten
  <2>2. StillBut(t)
    BY <1>1, <1>3, LinkFacts, AdvanceFacts DEF StillBut
  <2>3. ASSUME Steady(arg[t].entry)', NEW j \in Nat, j = next[t]
        PROVE  loaded'[t] \subseteq member' /\ Given(t, j)'
    <3>1. Steady(arg[t].entry) /\ OldGroups' \subseteq OldGroups
      BY <1>1, <2>1, <2>3 DEF Gentle, Steady, NobodyRemoves
    <3>2. Current(t).op = "add" /\ Current(t).field = "memberOf"
      BY <1>1, <1>3, <3>1, SteadyAdds DEF Steady, CommitLinks
    <3>3. loaded[t] \subseteq member /\ Current(t).vals \cap OldGroups \subseteq found[t]
      BY <1>1, <3>1, <3>2 DEF LinksInv, LinksOf
    <3>4. Dropped(t) = {} /\ Linked(t) = ({arg[t].entry} \X found[t]) \ loaded[t]
      BY <3>2 DEF Dropped, Linked, Named
    <3>5. member' = member \cup Linked(t) /\ loaded'[t] = loaded[t] \cup Linked(t)
      BY <1>3, <3>1, <3>4 DEF CommitLinks, WriteLinks, Steady, IInv, TypeOK
    <3>6. {arg[t].entry} \X found[t] \subseteq member'
      BY <3>3, <3>4, <3>5
    <3>7. arg'[t].changes[j].vals \cap OldGroups' \subseteq found[t]
      BY <1>1, <2>3, <3>1, <3>3 DEF Current
    <3> QED
      BY <1>1, <3>3, <3>5, <3>6, <3>7 DEF Given
  <2> QED
    BY <1>1, <1>2, <2>1, <2>2, <2>3, AdvanceLinks
<1>4. CASE CommitRows(t) \/ CommitColumn(t)
  <2>1. UNCHANGED <<member, loaded>> /\ Current(t).field # "memberOf"
    BY <1>4 DEF CommitRows, CommitColumn
  <2>2. Gentle
    BY <1>1, <2>1, GentleIf
  <2>3. StillBut(t)
    BY <1>1, <2>1, AdvanceFacts DEF StillBut
  <2>4. ASSUME NEW j \in Nat, j = next[t] PROVE Given(t, j)'
    <3>1. arg'[t].changes[j].field # "memberOf"
      BY <1>1, <2>1, <2>4 DEF Current
    <3> QED
      BY <3>1 DEF Given
  <2>5. Steady(arg[t].entry)' => loaded'[t] \subseteq member'
    BY <1>1, <2>1, <2>2 DEF LinksInv, LinksOf, Gentle, Steady, NobodyRemoves
  <2> QED
    BY <1>1, <1>2, <2>2, <2>3, <2>4, <2>5, AdvanceLinks
<1> QED
  BY <1>3, <1>4 DEF CommitChange

LEMMA AddLinks ==
  ASSUME IInv, LinksInv, NEW t \in Requests, CommitAdd(t)
  PROVE  LinksInv'
<1>1. Busy(t) /\ arg[t].kind = "add"
  BY DEF CommitAdd, Commits, Busy
<1>2. CASE Refuse(t, "exists")
  BY <1>1, <1>2, RefuseLinks
<1>3. CASE ~Refuse(t, "exists")
  <2>1. /\ alive' = alive \cup {arg[t].entry} /\ member \subseteq member'
        /\ End(t, "success")
        /\ UNCHANGED <<arg, loaded, found>>
    BY <1>3 DEF CommitAdd
  <2>2. Gentle
    BY <1>1, <2>1 DEF Gentle, OldGroups
  <2>3. StillBut(t) /\ LinksOf(t)'
    BY <1>1, <2>1 DEF StillBut, LinksOf, End, IInv, TypeOK
  <2> QED
    BY <2>2, <2>3, StepOf
<1> QED
  BY <1>2, <1>3

LEMMA DeleteLinks ==
  ASSUME IInv, LinksInv, NEW t \in Requests, CommitDelete(t)
  PROVE  LinksInv'
<1>1. Busy(t) /\ arg[t].kind = "delete"
  BY DEF CommitDelete, Commits, Busy
<1>2. CASE Refuse(t, "error")
  BY <1>1, <1>2, RefuseLinks
<1>3. CASE ~Refuse(t, "error")
  <2>1. /\ alive' \subseteq alive /\ member' = member \ loaded[t]
        /\ End(t, "success")
        /\ UNCHANGED <<arg, loaded, found>>
    BY <1>3 DEF CommitDelete
  <2>2. ASSUME NEW e \in Entries, NobodyRemoves(e)', NEW g \in Groups, <<e, g>> \in member
        PROVE  <<e, g>> \in member'
    <3>1. arg[t].entry \notin Groups \cup {e}
      BY <1>1, <2>1, <2>2 DEF NobodyRemoves, Removes
    <3>2. <<e, g>> \notin loaded[t]
      BY <1>1, <3>1 DEF IInv, RequestInv
    <3> QED
      BY <2>1, <2>2, <3>2
  <2>3. Gentle
    BY <2>1, <2>2 DEF Gentle, OldGroups
  <2>4. StillBut(t) /\ LinksOf(t)'
    BY <1>1, <2>1 DEF StillBut, LinksOf, End, IInv, TypeOK
  <2> QED
    BY <2>3, <2>4, StepOf
<1> QED
  BY <1>2, <1>3

LEMMA NextLinks == IInv /\ LinksInv /\ [Next]_vars => LinksInv'
<1> SUFFICES ASSUME IInv, LinksInv, [Next]_vars PROVE LinksInv'
  OBVIOUS
<1>1. CASE UNCHANGED vars
  BY <1>1 DEF LinksInv, LinksOf, Steady, NobodyRemoves, Busy, Current, OldGroups, Given,
              vars, tables
<1>2. ASSUME NEW t \in Requests, NEW a \in Args, Begin(t, a)
      PROVE  LinksInv'
  BY <1>2, BeginLinks
<1>3. ASSUME NEW t \in Requests, SkipReadOnly(t) \/ Apply(t) \/ CommitChange(t)
      PROVE  LinksInv'
  BY <1>3, SkipLinks, ApplyLinks, CommitChangeLinks
<1>4. ASSUME NEW t \in Requests, RefuseChange(t) \/ RaiseUnlinkable(t) \/ Fail(t)
      PROVE  LinksInv'
  <2>1. Busy(t)
    BY <1>4 DEF RefuseChange, RaiseUnlinkable, Fail, Commits, Active, Busy
  <2>2. Refuse(t, "exists") \/ Refuse(t, "error")
    BY <1>4 DEF RefuseChange, RaiseUnlinkable, Fail
  <2> QED
    BY <2>1, <2>2, RefuseLinks
<1>5. ASSUME NEW t \in Requests, CommitAdd(t) \/ CommitDelete(t)
      PROVE  LinksInv'
  BY <1>5, AddLinks, DeleteLinks
<1> QED
  BY <1>1, <1>2, <1>3, <1>4, <1>5 DEF Next

LEMMA InitLinks == Init => LinksInv
  BY DEF Init, LinksInv, LinksOf, NoArg

\* A confirmed membership is there until a request that may remove it, however
\* many requests put the entry into groups at the same time.
THEOREM AddsSurviveHolds == Spec => []AddsSurvive
<1>1. LinksInv => AddsSurvive
  BY DEF LinksInv, LinksOf, AddsSurvive, Steady
<1> QED
  BY <1>1, InitLinks, NextLinks, IInvHolds, PTL DEF Spec

-----------------------------------------------------------------------------
(* What is committed, on entries whose requests never overlapped *)

\* Requests at work that get in each other's way have overlapped.
Apart ==
  \A t, u \in Requests :
    Busy(t) /\ Busy(u) /\ t # u /\ Concern(arg[t], arg[u]) => arg[t].entry \in mixed

\* What is left of an entry that is not there, and of one of no kind.
NoRemains ==
  /\ \A e \in Entries \ alive : column[e] = NoValue
  /\ \A m \in member : Kind[m[1]] # "plain"

\* A delete and a change take the rows of their own entry.
OwnRows == \A t \in Requests : \A r \in doomed[t] : r.entry = arg[t].entry

IsView(w) == w = [groups |-> w.groups, values |-> w.values, column |-> w.column]

\* Of the fields that were passed over in silence nothing is said.
Agrees(e, w) ==
  /\ Now(e).values = w.values
  /\ <<e, "memberOf">> \notin silent => Now(e).groups = w.groups
  /\ <<e, "column">> \notin silent => Now(e).column = w.column

Settled ==
  /\ want = [e \in Entries |-> want[e]]
  /\ \A e \in Entries : IsView(want[e])
  /\ \A e \in Entries \ mixed : Agrees(e, want[e])

Alone(t) == Busy(t) /\ arg[t].entry \notin mixed

NamedGroups(t, names) ==
  IF Kind[arg[t].entry] = "plain" THEN {} ELSE names \cap Findable \cap alive

\* What a request knows of an entry that it has for itself is still so.
Fresh(t) ==
  /\ arg[t].kind = "modify" =>
       /\ arg[t].entry \in alive
       /\ loaded[t] = GroupsOf(arg[t].entry)
       /\ stage[t] = "commit" /\ Current(t).field = "memberOf" =>
            found[t] = NamedGroups(t, Current(t).vals)
       /\ stage[t] = "commit" /\ Current(t).field = "attribute" =>
            doomed[t] = DeletedRows(t)
  /\ arg[t].kind = "add" => found[t] = arg[t].groups \cap Findable \cap alive

AllFresh == \A t \in Requests : Alone(t) => Fresh(t)

RefusedColumns ==
  \A t \in Requests :
    result[t] = "exists" /\ arg[t].kind = "modify" /\ arg[t].entry \notin mixed
      => Current(t).field = "column"

EffectInv == Apart /\ NoRemains /\ OwnRows /\ Settled /\ AllFresh /\ RefusedColumns

LEMMA InitEffect == Init => EffectInv
<1> SUFFICES ASSUME Init PROVE EffectInv
  OBVIOUS
<1>1. \A t \in Requests : ~Busy(t) /\ doomed[t] = {} /\ result[t] = "none"
  BY DEF Init, Busy
<1>2. NoRemains
  BY ModifyAssumption DEF Init, NoRemains
<1>3. Settled
  <2>1. \A e \in Entries : IsView(Now(e)) /\ Agrees(e, Now(e))
    BY DEF Now, IsView, Agrees
  <2>2. want = [e \in Entries |-> Now(e)]
    BY DEF Init
  <2> QED
    BY <2>1, <2>2 DEF Settled
<1> QED
  BY <1>1, <1>2, <1>3 DEF EffectInv, Apart, OwnRows, AllFresh, Alone, RefusedColumns

\* What a step of t does to the rest: the other requests do not move, and of
\* the other entries only the delete of a group takes anything.
Calm(t) ==
  /\ UNCHANGED <<arg, mixed>>
  /\ \A u \in Requests \ {t} :
       /\ stage'[u] = stage[u] /\ next'[u] = next[u] /\ loaded'[u] = loaded[u]
       /\ found'[u] = found[u] /\ doomed'[u] = doomed[u] /\ result'[u] = result[u]
  /\ \A e \in Entries \ {arg[t].entry} :
       /\ e \in alive' <=> e \in alive
       /\ RowsOf(e)' = RowsOf(e) /\ column'[e] = column[e]
       /\ arg[t].kind # "delete" \/ arg[t].entry \notin Groups => GroupsOf(e)' = GroupsOf(e)
       /\ \A f : <<e, f>> \in silent' <=> <<e, f>> \in silent
  /\ arg[t].kind = "modify" => UNCHANGED alive

\* A request that has its entry for itself does not notice a step of another.
LEMMA FreshStays ==
  ASSUME IInv, Apart, AllFresh, NEW t \in Requests, Busy(t), Calm(t),
         NEW u \in Requests \ {t}, Alone(u)'
  PROVE  Fresh(u)'
<1> DEFINE e == arg[u].entry
<1>1. /\ arg' = arg /\ mixed' = mixed
      /\ stage'[u] = stage[u] /\ next'[u] = next[u] /\ loaded'[u] = loaded[u]
      /\ found'[u] = found[u] /\ doomed'[u] = doomed[u]
  BY DEF Calm
<1>2. Busy(u) /\ e \notin mixed
  BY <1>1 DEF Alone, Busy
<1>3. Fresh(u)
  BY <1>2 DEF AllFresh, Alone
<1>4. arg[u] \in Args /\ e \in Entries
  BY <1>2, ArgFacts DEF IInv, RequestInv, Busy
<1>5. e # arg[t].entry /\ ~AddsOrDeletesGroup(arg[t])
  BY <1>2 DEF Apart, Concern
<1>6. /\ e \in alive' <=> e \in alive
      /\ RowsOf(e)' = RowsOf(e) /\ GroupsOf(e)' = GroupsOf(e)
  BY <1>4, <1>5 DEF Calm, AddsOrDeletesGroup
<1>7. Findable \cap alive' = Findable \cap alive
  <2>1. Findable \subseteq Groups /\ Groups \subseteq Entries
    BY ModifyAssumption DEF Groups
  <2>2. arg[t].kind = "modify" \/ arg[t].entry \notin Groups
    BY <1>5 DEF AddsOrDeletesGroup
  <2> QED
    BY <2>1, <2>2 DEF Calm
<1>8. Current(u)' = Current(u)
  BY <1>1 DEF Current
<1>9. DeletedRows(u)' = DeletedRows(u)
  BY <1>1, <1>6, <1>8 DEF DeletedRows
<1>10. NamedGroups(u, Current(u).vals)' = NamedGroups(u, Current(u).vals)
  BY <1>1, <1>7, <1>8 DEF NamedGroups
<1>11. (arg[u].groups \cap Findable \cap alive)' = arg[u].groups \cap Findable \cap alive
  BY <1>1, <1>7
<1> QED
  BY <1>1, <1>3, <1>6, <1>8, <1>9, <1>10, <1>11 DEF Fresh

\* It is left to show of a step of t what it does to its own entry.
LEMMA CalmStep ==
  ASSUME IInv, EffectInv, NEW t \in Requests, Busy(t), Calm(t),
         NoRemains', Settled', Alone(t)' => Fresh(t)',
         \A r \in doomed'[t] : r.entry = arg[t].entry,
         result'[t] = "exists" /\ arg[t].kind = "modify" /\ arg[t].entry \notin mixed
           => Current(t)'.field = "column"
  PROVE  EffectInv'
<1>1. /\ arg' = arg /\ mixed' = mixed
      /\ \A u \in Requests \ {t} :
           /\ stage'[u] = stage[u] /\ next'[u] = next[u]
           /\ doomed'[u] = doomed[u] /\ result'[u] = result[u]
  BY DEF Calm
<1>2. Apart'
  <2>1. \A u \in Requests : Busy(u)' => Busy(u)
    BY <1>1 DEF Busy
  <2>2. \A a, b : Concern(a, b)' = Concern(a, b)
    BY DEF Concern, AddsOrDeletesGroup
  <2> QED
    BY <1>1, <2>1, <2>2 DEF EffectInv, Apart
<1>3. OwnRows'
  BY <1>1 DEF EffectInv, OwnRows
<1>4. AllFresh'
  BY FreshStays DEF EffectInv, AllFresh
<1>5. RefusedColumns'
  <2>1. \A u \in Requests \ {t} : Current(u)' = Current(u)
    BY <1>1 DEF Current
  <2> QED
    BY <1>1, <2>1 DEF EffectInv, RefusedColumns
<1> QED
  BY <1>2, <1>3, <1>4, <1>5 DEF EffectInv

\* A step that keeps the groups of the other entries settles its own.
LEMMA SettledIf ==
  ASSUME Settled, NEW t \in Requests, Calm(t), NEW o \in Entries, o = arg[t].entry,
         arg[t].kind # "delete" \/ o \notin Groups,
         want' = [want EXCEPT ![o] = want'[o]], IsView(want'[o]),
         o \notin mixed => Agrees(o, want[o])'
  PROVE  Settled'
<1>1. want' = [e \in Entries |-> want'[e]]
  BY DEF Settled
<1>2. \A e \in Entries \ {o} : want'[e] = want[e]
  BY DEF Settled
<1>3. ASSUME NEW e \in Entries PROVE IsView(want'[e])
  BY <1>2 DEF Settled
<1>4. ASSUME NEW e \in Entries, e \notin mixed' PROVE Agrees(e, want[e])'
  <2>1. e \notin mixed
    BY <1>4 DEF Calm
  <2>2. CASE e = o
    BY <2>1, <2>2 DEF Agrees
  <2>3. CASE e # o
    <3>1. Now(e)' = Now(e)
      BY <2>3 DEF Calm, Now
    <3>2. Agrees(e, want[e])
      BY <2>1 DEF Settled
    <3>3. \A f : <<e, f>> \in silent' <=> <<e, f>> \in silent
      BY <2>3 DEF Calm
    <3> QED
      BY <1>2, <2>3, <3>1, <3>2, <3>3 DEF Agrees
  <2> QED
    BY <2>2, <2>3
<1>5. \A e \in Entries : IsView(want[e])'
  BY <1>3 DEF IsView
<1> QED
  BY <1>1, <1>4, <1>5 DEF Settled

\* A request that stops without a commit.
LEMMA RefuseEffect ==
  ASSUME IInv, EffectInv, NEW t \in Requests, Busy(t), NEW answer, Refuse(t, answer),
         answer = "exists" /\ arg[t].kind = "modify" /\ arg[t].entry \notin mixed
           => Current(t).field = "column"
  PROVE  EffectInv'
<1>1. /\ UNCHANGED <<alive, member, rows, column, arg, next, loaded, found, doomed>>
      /\ UNCHANGED <<want, silent, mixed>>
      /\ \A u \in Requests \ {t} : stage'[u] = stage[u] /\ result'[u] = result[u]
      /\ stage'[t] = "done" /\ result'[t] = answer
  BY DEF Refuse, End, tables, ghosts, IInv, TypeOK
<1>2. Calm(t)
  BY <1>1 DEF Calm, RowsOf, GroupsOf
<1>3. NoRemains'
  BY <1>1 DEF EffectInv, NoRemains
<1>4. Settled'
  BY <1>1 DEF EffectInv, Settled, Agrees, IsView, Now, GroupsOf, RowsOf
<1>5. ~Alone(t)'
  BY <1>1 DEF Alone, Busy
<1>6. \A r \in doomed'[t] : r.entry = arg[t].entry
  BY <1>1 DEF EffectInv, OwnRows
<1>7. Current(t)' = Current(t)
  BY <1>1 DEF Current
<1> QED
  BY <1>1, <1>2, <1>3, <1>4, <1>5, <1>6, <1>7, CalmStep

LEMMA BeginEffect ==
  ASSUME IInv, EffectInv, NEW t \in Requests, NEW a \in Args, Begin(t, a)
  PROVE  EffectInv'
<1> DEFINE e == a.entry
           others == {arg[u].entry : u \in {v \in Active : Concern(a, arg[v])}}
<1>1. /\ UNCHANGED <<alive, member, rows, column, want, silent>>
      /\ stage[t] = "idle" /\ arg' = [arg EXCEPT ![t] = a]
      /\ mixed' = IF others = {} THEN mixed ELSE mixed \cup others \cup {e}
      /\ doomed'[t] = IF a.kind = "delete" THEN RowsOf(e) ELSE {}
  BY DEF Begin, tables, IInv, TypeOK
<1>2. /\ arg'[t] = a /\ next'[t] = 1
      /\ result'[t] = "exists" => a.kind = "add"
      /\ stage'[t] # "done" =>
           /\ stage'[t] = IF a.kind = "modify" THEN "apply" ELSE "commit"
           /\ a.kind = "modify" => Find(e)
      /\ a.kind = "modify" => loaded'[t] = GroupsOf(e)
      /\ found'[t] = a.groups \cap Findable \cap alive
  BY DEF Begin, IInv, TypeOK
<1>3. \A u \in Requests \ {t} :
        /\ arg'[u] = arg[u] /\ stage'[u] = stage[u] /\ next'[u] = next[u]
        /\ loaded'[u] = loaded[u] /\ found'[u] = found[u] /\ doomed'[u] = doomed[u]
        /\ result'[u] = result[u]
  BY DEF Begin, IInv, TypeOK
<1>4. /\ mixed \subseteq mixed'
      /\ \A u \in Requests \ {t} :
           Busy(u) /\ Concern(a, arg[u]) => {e, arg[u].entry} \subseteq mixed'
  BY <1>1 DEF Active, Busy
<1> HIDE DEF others
<1>5. \A x, y : Concern(x, y)' = Concern(x, y) /\ (Concern(x, y) <=> Concern(y, x))
  BY DEF Concern, AddsOrDeletesGroup
<1>6. Apart'
  <2> SUFFICES ASSUME NEW u \in Requests, NEW v \in Requests, Busy(u)', Busy(v)', u # v,
                      Concern(arg'[u], arg'[v])
               PROVE  arg'[u].entry \in mixed'
    BY <1>5 DEF Apart
  <2>1. CASE u # t /\ v # t
    <3>1. Busy(u) /\ Busy(v) /\ Concern(arg[u], arg[v]) /\ arg'[u] = arg[u]
      BY <1>3, <2>1 DEF Busy
    <3> QED
      BY <1>4, <3>1 DEF EffectInv, Apart
  <2>2. CASE u = t
    <3>1. v # t /\ Busy(v) /\ Concern(a, arg[v])
      BY <1>2, <1>3, <2>2 DEF Busy
    <3> QED
      BY <1>2, <1>4, <2>2, <3>1
  <2>3. CASE v = t
    <3>1. u # t /\ Busy(u) /\ Concern(a, arg[u]) /\ arg'[u] = arg[u]
      BY <1>2, <1>3, <1>5, <2>3 DEF Busy
    <3> QED
      BY <1>4, <3>1
  <2> QED
    BY <2>1, <2>2, <2>3
<1>7. NoRemains' /\ Settled'
  <2>1. \A o \in Entries : Agrees(o, want[o]) => Agrees(o, want[o])'
    BY <1>1 DEF Agrees, Now, GroupsOf, RowsOf
  <2>2. \A o \in Entries : IsView(want[o])' <=> IsView(want[o])
    BY <1>1 DEF IsView
  <2> QED
    BY <1>1, <1>4, <2>1, <2>2 DEF EffectInv, NoRemains, Settled
<1>8. OwnRows'
  BY <1>1, <1>2, <1>3 DEF EffectInv, OwnRows, RowsOf
<1>9. ASSUME NEW u \in Requests, Alone(u)' PROVE Fresh(u)'
  <2>1. CASE u = t
    <3>1. stage'[t] # "done" /\ (a.kind = "modify" => stage'[t] # "commit" /\ e \in alive)
      BY <1>2, <1>9, <2>1 DEF Alone, Busy, Find
    <3>2. GroupsOf(e)' = GroupsOf(e)
      BY <1>1 DEF GroupsOf
    <3> QED
      BY <1>1, <1>2, <2>1, <3>1, <3>2 DEF Fresh
  <2>2. CASE u # t
    <3>1. /\ arg'[u] = arg[u] /\ stage'[u] = stage[u] /\ next'[u] = next[u]
          /\ loaded'[u] = loaded[u] /\ found'[u] = found[u] /\ doomed'[u] = doomed[u]
      BY <1>3, <2>2
    <3>2. Fresh(u)
      BY <1>4, <1>9, <3>1 DEF Alone, Busy, EffectInv, AllFresh
    <3>3. /\ Current(u)' = Current(u)
          /\ GroupsOf(arg[u].entry)' = GroupsOf(arg[u].entry)
      BY <1>1, <3>1 DEF Current, GroupsOf
    <3>4. DeletedRows(u)' = DeletedRows(u)
          /\ NamedGroups(u, Current(u).vals)' = NamedGroups(u, Current(u).vals)
      BY <1>1, <3>1, <3>3 DEF DeletedRows, RowsOf, NamedGroups
    <3> QED
      BY <1>1, <3>1, <3>2, <3>3, <3>4 DEF Fresh
  <2> QED
    BY <2>1, <2>2
<1>10. RefusedColumns'
  <2>1. \A u \in Requests \ {t} : Current(u)' = Current(u)
    BY <1>3 DEF Current
  <2> QED
    BY <1>2, <1>3, <1>4, <2>1 DEF EffectInv, RefusedColumns
<1> QED
  BY <1>6, <1>7, <1>8, <1>9, <1>10 DEF EffectInv, AllFresh

\* A step of a modify request that leaves the tables alone.
LEMMA QuietEffect ==
  ASSUME IInv, EffectInv, NEW t \in Requests, Busy(t),
         UNCHANGED <<tables, arg, ghosts>>, Calm(t),
         Alone(t) => Fresh(t)', result'[t] # "exists",
         \A r \in doomed'[t] : r.entry = arg[t].entry
  PROVE  EffectInv'
<1>1. NoRemains'
  BY DEF EffectInv, NoRemains, tables
<1>2. Settled'
  BY DEF EffectInv, Settled, Agrees, IsView, Now, GroupsOf, RowsOf, tables, ghosts
<1>3. Alone(t)' => Alone(t)
  BY DEF Alone, ghosts
<1> QED
  BY <1>1, <1>2, <1>3, CalmStep

LEMMA SkipEffect ==
  ASSUME IInv, EffectInv, NEW t \in Requests, SkipReadOnly(t)
  PROVE  EffectInv'
<1>1. /\ Busy(t) /\ arg[t].kind = "modify" /\ Advance(t)
      /\ UNCHANGED <<tables, arg, loaded, copies, found, doomed, ghosts>>
  BY DEF SkipReadOnly, IInv, RequestInv, Busy
<1>2. Calm(t)
  BY <1>1, AdvanceFacts DEF Calm, tables, ghosts, GroupsOf, RowsOf
<1>3. stage'[t] # "commit" /\ result'[t] # "exists"
  BY <1>1, AdvanceFacts
<1>4. Alone(t) => Fresh(t)'
  BY <1>1, <1>3 DEF EffectInv, AllFresh, Fresh, tables, GroupsOf
<1>5. \A r \in doomed'[t] : r.entry = arg[t].entry
  BY <1>1 DEF EffectInv, OwnRows
<1> QED
  BY <1>1, <1>2, <1>3, <1>4, <1>5, QuietEffect

LEMMA ApplyEffect ==
  ASSUME IInv, EffectInv, NEW t \in Requests, Apply(t)
  PROVE  EffectInv'
<1>1. /\ Busy(t) /\ arg[t].kind = "modify"
      /\ UNCHANGED <<tables, arg, next, loaded, result, ghosts>>
  BY DEF Apply, IInv, RequestInv, Busy
<1>2. Calm(t)
  BY <1>1 DEF Apply, Calm, tables, ghosts, GroupsOf, RowsOf, IInv, TypeOK
<1>3. /\ Current(t).field = "memberOf" => found'[t] = NamedGroups(t, Current(t).vals)
      /\ doomed'[t] = IF Current(t).field = "attribute" THEN DeletedRows(t) ELSE {}
  BY DEF Apply, IInv, TypeOK, NamedGroups
<1>4. Current(t)' = Current(t) /\ DeletedRows(t)' = DeletedRows(t)
      /\ NamedGroups(t, Current(t).vals)' = NamedGroups(t, Current(t).vals)
      /\ GroupsOf(arg[t].entry)' = GroupsOf(arg[t].entry)
  BY <1>1 DEF Current, DeletedRows, RowsOf, NamedGroups, GroupsOf, tables
<1>5. Alone(t) => Fresh(t)'
  BY <1>1, <1>3, <1>4 DEF EffectInv, AllFresh, Fresh, tables
<1>6. \A r \in doomed'[t] : r.entry = arg[t].entry
  BY <1>3 DEF DeletedRows, RowsOf
<1>7. result'[t] # "exists"
  BY <1>1 DEF IInv, RequestInv
<1> QED
  BY <1>1, <1>2, <1>5, <1>6, <1>7, QuietEffect

\* What LDAP makes of an entry, field by field.
LEMMA ChangedFacts ==
  ASSUME NEW w, IsView(w), NEW c, c.field \in Fields \ {"readOnly"}
  PROVE  /\ IsView(Changed(w, c))
         /\ Changed(w, c).groups =
              IF c.field = "memberOf" THEN Outcome(c, w.groups) ELSE w.groups
         /\ Changed(w, c).values =
              IF c.field = "attribute" THEN Outcome(c, w.values) ELSE w.values
         /\ Changed(w, c).column =
              IF c.field = "column" THEN Outcome(c, w.column) ELSE w.column
<1>1. PICK G, V, C : w = [groups |-> G, values |-> V, column |-> C]
  BY DEF IsView
<1>2. /\ c.field = "memberOf" =>
           Changed(w, c) = [groups |-> Outcome(c, G), values |-> V, column |-> C]
      /\ c.field = "attribute" =>
           Changed(w, c) = [groups |-> G, values |-> Outcome(c, V), column |-> C]
      /\ c.field = "column" =>
           Changed(w, c) = [groups |-> G, values |-> V, column |-> Outcome(c, C)]
  BY <1>1 DEF Changed
<1> QED
  BY <1>1, <1>2 DEF IsView, Fields

\* Change c of entry o has been made in the tables, unless it is passed over.
Effective(o, c, passed) ==
  /\ Now(o)'.values =
       IF c.field = "attribute" THEN Outcome(c, Now(o).values) ELSE Now(o).values
  /\ IF c.field = "memberOf" THEN passed \/ Now(o)'.groups = Outcome(c, Now(o).groups)
     ELSE Now(o)'.groups = Now(o).groups
  /\ IF c.field = "column" THEN passed \/ Now(o)'.column = Outcome(c, Now(o).column)
     ELSE Now(o)'.column = Now(o).column

\* A change that is made makes what is known of an entry known again, or keeps
\* it known.
LEMMA WantedSettles ==
  ASSUME IInv, EffectInv, NEW t \in Requests, Busy(t), arg[t].kind = "modify",
         stage[t] = "commit", Wanted(t), Calm(t), Current(t).field # "readOnly",
         NEW o \in Entries, o = arg[t].entry,
         o \notin mixed => Effective(o, Current(t), PassedOver(t))
  PROVE  Settled'
<1> DEFINE c == Current(t)
           w == IF o \in alive THEN Changed(want[o], c) ELSE want[o]
<1>1. c.field \in Fields \ {"readOnly"}
  BY CurrentFacts DEF Change
<1>2. /\ want' = [want EXCEPT ![o] = w]
      /\ silent' = IF PassedOver(t) THEN silent \cup {<<o, c.field>>}
                   ELSE IF Clears(c) THEN silent \ {<<o, c.field>>} ELSE silent
  BY DEF Wanted, EffectInv, Settled
<1>3. IsView(want[o])
  BY DEF EffectInv, Settled
<1>4. IsView(w)
  BY <1>1, <1>3, ChangedFacts
<1>5. ASSUME o \notin mixed PROVE Agrees(o, want[o])'
  <2>1. o \in alive /\ Agrees(o, want[o])
    BY <1>5 DEF EffectInv, AllFresh, Alone, Fresh, Settled
  <2>2. w = Changed(want[o], c)
    BY <2>1
  <2>3. Effective(o, c, PassedOver(t))
    BY <1>5
  <2> HIDE DEF c, w
  <2>4. /\ w.groups = IF c.field = "memberOf" THEN Outcome(c, want[o].groups)
                      ELSE want[o].groups
        /\ w.values = IF c.field = "attribute" THEN Outcome(c, want[o].values)
                      ELSE want[o].values
        /\ w.column = IF c.field = "column" THEN Outcome(c, want[o].column)
                      ELSE want[o].column
    BY <1>1, <1>3, <2>2, ChangedFacts
  <2>5. \A f : f # c.field => (<<o, f>> \in silent' <=> <<o, f>> \in silent)
    BY <1>2
  <2>6. <<o, c.field>> \notin silent' =>
          ~PassedOver(t) /\ (Clears(c) \/ <<o, c.field>> \notin silent)
    BY <1>2
  <2>7. Clears(c) => \A x, y : Outcome(c, x) = Outcome(c, y)
    BY DEF Clears, Outcome
  <2>8. Now(o)'.values = w.values
    BY <2>1, <2>3, <2>4 DEF Agrees, Effective
  <2>9. <<o, "memberOf">> \notin silent' => Now(o)'.groups = w.groups
    BY <2>1, <2>3, <2>4, <2>5, <2>6, <2>7 DEF Agrees, Effective
  <2>10. <<o, "column">> \notin silent' => Now(o)'.column = w.column
    BY <2>1, <2>3, <2>4, <2>5, <2>6, <2>7 DEF Agrees, Effective
  <2>11. want'[o] = w
    BY <1>2 DEF EffectInv, Settled
  <2> QED
    BY <2>8, <2>9, <2>10, <2>11 DEF Agrees
<1>6. want'[o] = w
  BY <1>2 DEF EffectInv, Settled
<1>7. want' = [want EXCEPT ![o] = want'[o]] /\ IsView(want'[o])
  BY <1>2, <1>4, <1>6
<1> QED
  BY <1>5, <1>7, SettledIf DEF EffectInv

\* The groups of the rows of an entry.
Seconds(L) == {m[2] : m \in L}

\* What the collection of a request becomes with the change it is at, and that
\* its groups are what LDAP makes of them when the request has found them all
\* and the list has none that it is to lose twice.
Kept(t) == (loaded[t] \ Dropped(t)) \cup Linked(t)

LEMMA KeptGroups ==
  ASSUME NEW t, \A m \in loaded[t] : m = <<arg[t].entry, m[2]>>, Current(t) \in Change,
         found[t] = Current(t).vals,
         Current(t).op = "delete" => TwiceIn(t) \cap found[t] = {}
  PROVE  Seconds(Kept(t)) = Outcome(Current(t), Seconds(loaded[t]))
<1> DEFINE o == arg[t].entry
           L == loaded[t]
           F == found[t]
           P == {o} \X F
           M == Kept(t)
<1>1. \A g : <<o, g>> \in P <=> g \in F
  OBVIOUS
<1>2. \A m \in P : m = <<o, m[2]>> /\ m[2] \in F
  OBVIOUS
<1>3. \A g : <<o, g>>[2] = g
  OBVIOUS
<1>4. CASE Current(t).op = "add"
  <2>1. M = L \cup P
    BY <1>4 DEF Kept, Dropped, Linked, Named, Clears
  <2> HIDE DEF o, L, F, P, M
  <2>2. \A g \in Seconds(M) : g \in Seconds(L) \/ g \in F
    BY <1>2, <2>1 DEF Seconds
  <2>3. \A g \in F : <<o, g>> \in M /\ <<o, g>>[2] = g
    BY <1>1, <1>3, <2>1
  <2>4. \A g \in F : g \in Seconds(M)
    BY <2>3 DEF Seconds
  <2>5. \A g \in Seconds(L) : g \in Seconds(M)
    BY <2>1 DEF Seconds
  <2>6. Seconds(M) = Seconds(L) \cup F
    BY <2>2, <2>4, <2>5
  <2> QED
    BY <1>4, <2>6 DEF Outcome, L, F, M
<1>5. CASE Current(t).op # "add" /\ Clears(Current(t))
  <2>1. Current(t).op = "delete" \/ Current(t).op = "replace"
    BY <1>5 DEF Change
  <2>2. M = P
    BY <1>5, <2>1 DEF Kept, Dropped, Linked, Named, Clears
  <2> HIDE DEF o, L, F, P, M
  <2>3. \A g \in Seconds(M) : g \in F
    BY <1>2, <2>2 DEF Seconds
  <2>4. \A g \in F : g \in Seconds(M)
    BY <1>1, <1>3, <2>2 DEF Seconds
  <2>5. Seconds(M) = F
    BY <2>3, <2>4
  <2> QED
    BY <1>5, <2>5 DEF Outcome, F, M
<1>6. CASE Current(t).op # "add" /\ ~Clears(Current(t))
  <2>1. Current(t).op = "delete"
    BY <1>6 DEF Change, Clears
  <2>2. M = L \ P
    <3>1. F \ TwiceIn(t) = F
      BY <2>1
    <3> QED
      BY <1>6, <2>1, <3>1 DEF Kept, Dropped, Linked
  <2>3. \A m \in L : m \in P <=> m[2] \in F
    BY <1>1
  <2> HIDE DEF o, L, F, P, M
  <2>4. \A g \in Seconds(M) : g \in Seconds(L) /\ g \notin F
    BY <2>2, <2>3, <1>1, <1>2 DEF Seconds
  <2>5. \A g \in Seconds(L) \ F : g \in Seconds(M)
    BY <2>2, <2>3 DEF Seconds
  <2>6. Seconds(M) = Seconds(L) \ F
    BY <2>4, <2>5
  <2> QED
    BY <1>6, <2>6 DEF Outcome, L, F, M
<1> QED
  BY <1>4, <1>5, <1>6

\* A change that has been committed.
LEMMA CommitEffect ==
  ASSUME IInv, EffectInv, NEW t \in Requests, Busy(t), arg[t].kind = "modify",
         stage[t] = "commit", Advance(t), UNCHANGED <<alive, arg, found, doomed, mixed>>,
         Calm(t), NoRemains', Wanted(t), Current(t).field # "readOnly",
         NEW o \in Entries, o = arg[t].entry,
         o \notin mixed => loaded'[t] = GroupsOf(o)',
         o \notin mixed => Effective(o, Current(t), PassedOver(t))
  PROVE  EffectInv'
<1>1. stage'[t] # "commit" /\ result'[t] # "exists"
  BY AdvanceFacts
<1>2. Settled'
  BY WantedSettles
<1>3. GroupsOf(arg[t].entry)' = GroupsOf(o)'
  BY DEF GroupsOf
<1>4. Alone(t)' => Fresh(t)'
  BY <1>1, <1>3 DEF EffectInv, AllFresh, Alone, Fresh
<1>5. \A r \in doomed'[t] : r.entry = arg[t].entry
  BY DEF EffectInv, OwnRows
<1> QED
  BY <1>1, <1>2, <1>4, <1>5, CalmStep

\* A commit of memberships of an entry that a request has for itself: the
\* groups are the ones it had with what the collection gained and lost.
LEMMA LinksEffect ==
  ASSUME IInv, EffectInv, NEW t \in Requests, CommitChange(t), CommitLinks(t)
  PROVE  EffectInv'
<1> DEFINE c == Current(t)
<1>0. PICK o \in Entries : o = arg[t].entry
  BY CurrentFacts DEF CommitChange, Commits, Busy
<1>1. /\ Busy(t) /\ arg[t].kind = "modify" /\ stage[t] = "commit" /\ Advance(t)
      /\ UNCHANGED <<alive, arg, found, doomed, mixed, rows, column>>
      /\ Current(t).field = "memberOf" /\ Wanted(t)
  BY DEF CommitChange, CommitLinks, Commits, Busy
<1>2. /\ loaded[t] \subseteq {o} \X Groups /\ Current(t) \in Change
      /\ found[t] \subseteq Groups
  BY <1>0, <1>1, CurrentFacts DEF IInv, TypeOK
<1>3. Dropped(t) \subseteq {o} \X Groups /\ Linked(t) \subseteq {o} \X Groups
  BY <1>0, <1>2 DEF Dropped, Linked, Named
<1>4. IF Kind[o] = "plain" THEN member' = member /\ loaded' = loaded
      ELSE /\ member' = (member \ Dropped(t)) \cup Linked(t)
           /\ loaded' = [loaded EXCEPT ![t] = (loaded[t] \ Dropped(t)) \cup Linked(t)]
  BY <1>0 DEF CommitLinks, WriteLinks
<1>5. Calm(t)
  <2>1. \A u \in Requests \ {t} :
          stage'[u] = stage[u] /\ next'[u] = next[u] /\ result'[u] = result[u]
    BY <1>1, AdvanceFacts
  <2>2. \A u \in Requests \ {t} : loaded'[u] = loaded[u]
    BY <1>1, LinkFacts
  <2>3. \A e \in Entries \ {o} : GroupsOf(e)' = GroupsOf(e)
    BY <1>3, <1>4 DEF GroupsOf
  <2>4. \A e \in Entries : RowsOf(e)' = RowsOf(e)
    BY <1>1 DEF RowsOf
  <2>5. \A e \in Entries \ {o} : \A f : <<e, f>> \in silent' <=> <<e, f>> \in silent
    BY <1>0, <1>1 DEF Wanted
  <2> QED
    BY <1>0, <1>1, <2>1, <2>2, <2>3, <2>4, <2>5 DEF Calm
<1>6. NoRemains'
  BY <1>1, <1>3, <1>4 DEF EffectInv, NoRemains
<1>7. o \notin mixed =>
        /\ loaded[t] = GroupsOf(o)
        /\ found[t] = NamedGroups(t, Current(t).vals)
  BY <1>0, <1>1 DEF EffectInv, AllFresh, Alone, Fresh
<1>8. o \notin mixed => loaded'[t] = GroupsOf(o)'
  <2>1. GroupsOf(o)' = {m \in member' : m[1] = o}
    BY <1>1 DEF GroupsOf
  <2> QED
    BY <1>3, <1>4, <1>7, <2>1 DEF GroupsOf, IInv, TypeOK
<1>9. ASSUME o \notin mixed PROVE Effective(o, c, PassedOver(t))
  <2> DEFINE G == Seconds(GroupsOf(o))
             V == {r.value : r \in RowsOf(o)}
  <2>1. Now(o) = [groups |-> G, values |-> V, column |-> {column[o]} \ {NoValue}]
    BY DEF Now, Seconds
  <2>2. Now(o)' = [groups |-> Seconds(loaded'[t]), values |-> V,
                   column |-> {column[o]} \ {NoValue}]
    <3>1. {r.value : r \in RowsOf(o)}' = V
      BY <1>1 DEF RowsOf
    <3> QED
      BY <1>1, <1>8, <1>9, <3>1 DEF Now, Seconds
  <2>3. ~PassedOver(t) => Seconds(loaded'[t]) = Outcome(c, G)
    <3> SUFFICES ASSUME ~PassedOver(t) PROVE Seconds(loaded'[t]) = Outcome(c, G)
      OBVIOUS
    <3>1. ~Missed(o, c.vals) /\ (c.op = "delete" => TwiceIn(t) \cap c.vals = {})
      BY <1>0, <1>1 DEF PassedOver
    <3>2. found[t] = c.vals
      BY <1>0, <1>7, <1>9, <3>1 DEF Missed, NamedGroups
    <3>3. CASE Kind[o] = "plain"
      <4>1. c.vals = {} /\ loaded'[t] = {} /\ GroupsOf(o) = {}
        BY <1>4, <1>7, <1>9, <3>1, <3>3 DEF EffectInv, NoRemains, GroupsOf, Missed
      <4> QED
        BY <4>1 DEF Outcome, Seconds
    <3>4. CASE Kind[o] # "plain"
      <4>1. loaded'[t] = Kept(t)
        BY <1>4, <3>4 DEF Kept, IInv, TypeOK
      <4>2. \A m \in loaded[t] : m = <<arg[t].entry, m[2]>>
        BY <1>0, <1>2
      <4>3. Current(t).op = "delete" => TwiceIn(t) \cap found[t] = {}
        BY <3>1, <3>2
      <4>4. Seconds(Kept(t)) = Outcome(Current(t), Seconds(loaded[t]))
        BY <1>2, <3>2, <4>2, <4>3, KeptGroups
      <4> QED
        BY <1>7, <1>9, <4>1, <4>4
    <3> QED
      BY <3>3, <3>4
  <2>4. c.field = "memberOf"
    BY <1>1
  <2> HIDE DEF c, G, V
  <2> QED
    BY <2>1, <2>2, <2>3, <2>4 DEF Effective
<1>10. stage[t] = "commit" /\ Current(t).field # "readOnly"
  BY <1>1
<1> QED
  BY <1>0, <1>1, <1>5, <1>6, <1>8, <1>9, <1>10, CommitEffect

\* The same of the values of the rows of an entry.
ValuesIn(R) == {r.value : r \in R}
KeptRows(t) == (RowsOf(arg[t].entry) \ DeletedRows(t)) \cup NewRows(t)

LEMMA KeptValues ==
  ASSUME NEW t, Current(t) \in Change
  PROVE  ValuesIn(KeptRows(t)) =
           Outcome(Current(t), ValuesIn(RowsOf(arg[t].entry)))
<1> DEFINE R == RowsOf(arg[t].entry)
           D == DeletedRows(t)
           N == [entry : {arg[t].entry}, value : Current(t).vals, by : {<<t, next[t]>>}]
           S == KeptRows(t)
           vals == Current(t).vals
<1>1. ValuesIn(N) = vals
  <2>1. \A r \in N : r.value \in vals
    OBVIOUS
  <2>2. \A v \in vals : \E r \in N : r.value = v
    <3> SUFFICES ASSUME NEW v \in vals PROVE \E r \in N : r.value = v
      OBVIOUS
    <3> DEFINE r == [entry |-> arg[t].entry, value |-> v, by |-> <<t, next[t]>>]
    <3>1. r \in N /\ r.value = v
      OBVIOUS
    <3> QED
      BY <3>1
  <2> HIDE DEF N, vals
  <2> QED
    BY <2>1, <2>2 DEF ValuesIn
<1>2. CASE Current(t).op = "add"
  <2>1. S = R \cup N
    BY <1>2 DEF KeptRows, DeletedRows, NewRows, RowsOf
  <2>2. ValuesIn(S) = ValuesIn(R) \cup ValuesIn(N)
    <3> HIDE DEF S, R, N
    <3> QED
      BY <2>1 DEF ValuesIn
  <2> QED
    BY <1>1, <1>2, <2>2 DEF Outcome
<1>3. CASE Current(t).op = "replace"
  <2>1. S = N /\ Clears(Current(t))
    BY <1>3 DEF KeptRows, DeletedRows, NewRows, RowsOf, Clears
  <2> QED
    BY <1>1, <1>3, <2>1 DEF Outcome
<1>4. CASE Current(t).op = "delete" /\ vals = {}
  <2>1. S = {} /\ Clears(Current(t))
    BY <1>4 DEF KeptRows, DeletedRows, NewRows, RowsOf, Clears
  <2> QED
    BY <1>4, <2>1 DEF Outcome, ValuesIn
<1>5. CASE Current(t).op = "delete" /\ vals # {}
  <2>1. S = {r \in R : r.value \notin vals} /\ ~Clears(Current(t))
    BY <1>5 DEF KeptRows, DeletedRows, NewRows, RowsOf, Clears
  <2>2. ValuesIn(S) = ValuesIn(R) \ vals
    <3> HIDE DEF S, R, vals
    <3>1. \A v \in ValuesIn(S) : v \in ValuesIn(R) /\ v \notin vals
      BY <2>1 DEF ValuesIn
    <3>2. \A v \in ValuesIn(R) \ vals : v \in ValuesIn(S)
      BY <2>1 DEF ValuesIn
    <3> QED
      BY <3>1, <3>2
  <2> QED
    BY <1>5, <2>1, <2>2 DEF Outcome
<1> QED
  BY <1>2, <1>3, <1>4, <1>5 DEF Change

\* A commit of the values of an attribute: the rows its DELETE has met go,
\* and those are all that it is about.
LEMMA RowsEffect ==
  ASSUME IInv, EffectInv, NEW t \in Requests, CommitChange(t), CommitRows(t)
  PROVE  EffectInv'
<1> DEFINE c == Current(t)
<1>0. PICK o \in Entries : o = arg[t].entry
  BY CurrentFacts DEF CommitChange, Commits, Busy
<1>1. /\ Busy(t) /\ arg[t].kind = "modify" /\ stage[t] = "commit" /\ Advance(t)
      /\ UNCHANGED <<alive, arg, found, doomed, mixed, member, column, loaded>>
      /\ Current(t).field = "attribute" /\ Wanted(t)
      /\ rows' = (rows \ doomed[t]) \cup NewRows(t)
  BY DEF CommitChange, CommitRows, Commits, Busy
<1>2. Current(t) \in Change
  BY <1>1, CurrentFacts
<1>3. \A r \in doomed[t] : r.entry = o
  BY <1>0 DEF EffectInv, OwnRows
<1>4. \A r \in NewRows(t) : r.entry = o
  BY <1>0 DEF NewRows
<1>5. Calm(t)
  <2>1. \A u \in Requests \ {t} :
          stage'[u] = stage[u] /\ next'[u] = next[u] /\ result'[u] = result[u]
    BY <1>1, AdvanceFacts
  <2>2. \A e \in Entries : GroupsOf(e)' = GroupsOf(e)
    BY <1>1 DEF GroupsOf
  <2>3. \A e \in Entries \ {o} : RowsOf(e)' = RowsOf(e)
    BY <1>1, <1>3, <1>4 DEF RowsOf
  <2>4. \A e \in Entries \ {o} : \A f : <<e, f>> \in silent' <=> <<e, f>> \in silent
    BY <1>0, <1>1 DEF Wanted
  <2> QED
    BY <1>0, <1>1, <2>1, <2>2, <2>3, <2>4 DEF Calm
<1>6. NoRemains'
  BY <1>1 DEF EffectInv, NoRemains
<1>7. o \notin mixed => loaded[t] = GroupsOf(o) /\ doomed[t] = DeletedRows(t)
  BY <1>0, <1>1 DEF EffectInv, AllFresh, Alone, Fresh
<1>8. o \notin mixed => loaded'[t] = GroupsOf(o)'
  BY <1>1, <1>7 DEF GroupsOf
<1>9. ASSUME o \notin mixed PROVE Effective(o, c, PassedOver(t))
  <2> DEFINE G == {m[2] : m \in GroupsOf(o)}
             V == ValuesIn(RowsOf(o))
             C == {column[o]} \ {NoValue}
  <2>1. Now(o) = [groups |-> G, values |-> V, column |-> C]
    BY DEF Now, ValuesIn
  <2>2. RowsOf(o)' = KeptRows(t)
    BY <1>0, <1>1, <1>4, <1>7, <1>9 DEF RowsOf, KeptRows
  <2>3. Now(o)' = [groups |-> G, values |-> ValuesIn(KeptRows(t)), column |-> C]
    BY <1>1, <2>2 DEF Now, ValuesIn, GroupsOf
  <2>4. ValuesIn(KeptRows(t)) = Outcome(c, V)
    BY <1>0, <1>2, KeptValues
  <2>5. c.field = "attribute"
    BY <1>1
  <2> HIDE DEF c, G, V, C
  <2> QED
    BY <2>1, <2>3, <2>4, <2>5 DEF Effective
<1>10. stage[t] = "commit" /\ Current(t).field # "readOnly"
  BY <1>1
<1> QED
  BY <1>0, <1>1, <1>5, <1>6, <1>8, <1>9, <1>10, CommitEffect

\* A commit of the unique column.
LEMMA ColumnEffect ==
  ASSUME IInv, EffectInv, NEW t \in Requests, CommitChange(t), CommitColumn(t)
  PROVE  EffectInv'
<1> DEFINE c == Current(t)
<1>0. PICK o \in Entries : o = arg[t].entry
  BY CurrentFacts DEF CommitChange, Commits, Busy
<1>1. /\ Busy(t) /\ arg[t].kind = "modify" /\ stage[t] = "commit" /\ Advance(t)
      /\ UNCHANGED <<alive, arg, found, doomed, mixed, member, rows, loaded>>
      /\ c.field = "column" /\ Wanted(t)
  BY DEF CommitChange, CommitColumn, Commits, Busy
<1>2. PICK v \in IF ColumnValues(t) = {} THEN {column[o]} ELSE ColumnValues(t) :
         column' = [column EXCEPT ![o] = v]
  BY <1>0 DEF CommitColumn
<1>3. column'[o] = v
  BY <1>2 DEF IInv, TypeOK
<1>4. Calm(t)
  <2>1. \A u \in Requests \ {t} :
          stage'[u] = stage[u] /\ next'[u] = next[u] /\ result'[u] = result[u]
    BY <1>1, AdvanceFacts
  <2>2. \A e \in Entries : GroupsOf(e)' = GroupsOf(e) /\ RowsOf(e)' = RowsOf(e)
    BY <1>1 DEF GroupsOf, RowsOf
  <2>3. \A e \in Entries \ {o} : column'[e] = column[e]
    BY <1>2 DEF IInv, TypeOK
  <2>4. \A e \in Entries \ {o} : \A f : <<e, f>> \in silent' <=> <<e, f>> \in silent
    BY <1>0, <1>1 DEF Wanted
  <2> QED
    BY <1>0, <1>1, <2>1, <2>2, <2>3, <2>4 DEF Calm
<1>5. NoRemains'
  <2>1. o \notin alive => v = column[o]
    BY <1>0, <1>2 DEF ColumnValues
  <2> QED
    BY <1>0, <1>1, <1>3, <1>4, <2>1 DEF EffectInv, NoRemains, Calm
<1>6. o \notin mixed => o \in alive /\ loaded'[t] = GroupsOf(o)'
  BY <1>0, <1>1 DEF EffectInv, AllFresh, Alone, Fresh, GroupsOf
<1>7. ASSUME o \notin mixed PROVE Effective(o, c, PassedOver(t))
  <2> DEFINE G == {m[2] : m \in GroupsOf(o)}
             V == {r.value : r \in RowsOf(o)}
             C == {column[o]} \ {NoValue}
             D == {v} \ {NoValue}
  <2>1. Now(o) = [groups |-> G, values |-> V, column |-> C]
    BY DEF Now
  <2>2. Now(o)' = [groups |-> G, values |-> V, column |-> D]
    BY <1>1, <1>3 DEF Now, GroupsOf, RowsOf
  <2>3. ASSUME ~PassedOver(t) PROVE D = Outcome(c, C)
    <3>1. PICK x \in Values : Outcome(c, C) = {x}
      <4>1. Now(arg[t].entry).column = C
        BY <1>0, <2>1
      <4> HIDE DEF C
      <4> QED
        BY <1>1, <2>3, <4>1 DEF PassedOver
    <3>2. c \in Change /\ x # NoValue
      BY <1>1, CurrentFacts, ModifyAssumption
    <3>3. ColumnValues(t) = IF c.op = "delete" THEN {} ELSE c.vals
      BY <1>0, <1>6, <1>7 DEF ColumnValues
    <3>4. CASE c.op = "delete" \/ c.vals = {}
      <4>1. v = column[o]
        BY <1>2, <3>3, <3>4
      <4>2. Outcome(c, C) \subseteq C
        <5> HIDE DEF c, C
        <5> QED
          BY <3>4 DEF Outcome, Clears
      <4> QED
        BY <3>1, <4>1, <4>2
    <3>5. CASE c.op # "delete" /\ c.vals # {}
      <4>1. c.vals \subseteq Outcome(c, C)
        <5>1. c.op = "add" \/ c.op = "replace"
          BY <3>2, <3>5 DEF Change
        <5> HIDE DEF c, C
        <5> QED
          BY <5>1 DEF Outcome, Clears
      <4>2. v \in c.vals
        BY <1>2, <3>3, <3>5
      <4> QED
        BY <3>1, <3>2, <4>1, <4>2
    <3> QED
      BY <3>4, <3>5
  <2> HIDE DEF c, G, V, C, D
  <2> QED
    BY <1>1, <2>1, <2>2, <2>3 DEF Effective
<1>8. stage[t] = "commit" /\ Current(t).field # "readOnly"
  BY <1>1
<1> QED
  BY <1>0, <1>1, <1>4, <1>5, <1>6, <1>7, <1>8, CommitEffect

\* A commit of memberships of an entry that a request has for itself fits the
\* keys, and so does one of attributes: only a column is ever refused.
LEMMA RefuseChangeEffect ==
  ASSUME IInv, EffectInv, NEW t \in Requests, RefuseChange(t)
  PROVE  EffectInv'
<1> DEFINE o == arg[t].entry
<1>1. Busy(t) /\ arg[t].kind = "modify" /\ stage[t] = "commit" /\ Refuse(t, "exists")
  BY DEF RefuseChange, Commits, Busy
<1>2. ASSUME o \notin mixed, Current(t).field # "column" PROVE FALSE
  <2>1. /\ o \in alive /\ loaded[t] = GroupsOf(o)
        /\ Current(t).field = "memberOf" => found[t] = NamedGroups(t, Current(t).vals)
    BY <1>1, <1>2 DEF EffectInv, AllFresh, Alone, Fresh
  <2>2. RowsFit(t)
    BY <2>1 DEF RowsFit
  <2>3. Current(t).field = "memberOf" /\ ~LinksFit(t)
    BY <1>2, <2>2 DEF RefuseChange
  <2>4. found[t] \subseteq alive
    BY <2>1, <2>3 DEF NamedGroups
  <2>5. Linked(t) \subseteq ({o} \X found[t]) \ (GroupsOf(o) \ Dropped(t))
    BY <2>1 DEF Linked, Named
  <2>6. Linked(t) \subseteq alive \X alive
    BY <2>1, <2>4, <2>5
  <2>7. Linked(t) \cap (member \ Dropped(t)) = {}
    BY <2>5 DEF GroupsOf
  <2> QED
    BY <2>3, <2>6, <2>7 DEF LinksFit
<1> QED
  BY <1>1, <1>2, RefuseEffect

LEMMA AddEffect ==
  ASSUME IInv, EffectInv, NEW t \in Requests, CommitAdd(t)
  PROVE  EffectInv'
<1>0. PICK o \in Entries : o = arg[t].entry
  BY ArgFacts DEF CommitAdd, Commits, IInv, RequestInv
<1> DEFINE names == IF Kind[o] = "plain" THEN {} ELSE found[t]
           asked == arg[t].groups
<1>1. Busy(t) /\ arg[t].kind = "add"
  BY DEF CommitAdd, Commits, Busy
<1>2. CASE Refuse(t, "exists")
  BY <1>1, <1>2, RefuseEffect
<1>3. CASE ~Refuse(t, "exists")
  <2>1. /\ o \notin alive /\ alive' = alive \cup {o}
        /\ member' = member \cup ({o} \X names)
        /\ want' = [want EXCEPT ![o] = [NoEntry EXCEPT !.groups = asked]]
        /\ silent' = IF Missed(o, asked) THEN silent \cup {<<o, "memberOf">>} ELSE silent
        /\ End(t, "success")
        /\ UNCHANGED <<rows, column, arg, loaded, found, doomed, mixed>>
    BY <1>0, <1>3 DEF CommitAdd
  <2>2. stage'[t] = "done" /\ result'[t] = "success"
        /\ \A u \in Requests \ {t} :
             stage'[u] = stage[u] /\ next'[u] = next[u] /\ result'[u] = result[u]
    BY <2>1 DEF End, IInv, TypeOK
  <2>3. Calm(t)
    <3>1. \A e \in Entries \ {o} : GroupsOf(e)' = GroupsOf(e)
      BY <2>1 DEF GroupsOf
    <3>2. \A e \in Entries : RowsOf(e)' = RowsOf(e)
      BY <2>1 DEF RowsOf
    <3>3. \A e \in Entries \ {o} : \A f : <<e, f>> \in silent' <=> <<e, f>> \in silent
      BY <2>1
    <3> HIDE DEF names, asked
    <3> QED
      BY <1>0, <1>1, <2>1, <2>2, <3>1, <3>2, <3>3 DEF Calm
  <2>4. NoRemains'
    BY <2>1 DEF EffectInv, NoRemains
  <2>5. want'[o] = [groups |-> asked, values |-> {}, column |-> {}]
    <3>1. [NoEntry EXCEPT !.groups = asked] = [groups |-> asked, values |-> {}, column |-> {}]
      <4> HIDE DEF asked
      <4> QED
        BY DEF NoEntry
    <3> QED
      BY <2>1, <3>1 DEF EffectInv, Settled
  <2>6. ASSUME o \notin mixed PROVE Agrees(o, want[o])'
    <3>1. names = IF Kind[o] = "plain" THEN {} ELSE asked \cap Findable \cap alive
      BY <1>0, <1>1, <2>6 DEF EffectInv, AllFresh, Alone, Fresh
    <3>2. ~Missed(o, asked) => names = asked
      BY <3>1 DEF Missed
    <3> HIDE DEF names, asked
    <3>3. GroupsOf(o)' = {o} \X names
      BY <2>1 DEF GroupsOf, IInv, TypeOK
    <3>4. RowsOf(o)' = {}
      BY <2>1 DEF RowsOf, IInv, TypeOK
    <3>5. column'[o] = NoValue
      BY <2>1 DEF EffectInv, NoRemains
    <3>6. {m[2] : m \in {o} \X names} = names
      <4>1. \A m \in {o} \X names : m[2] \in names
        OBVIOUS
      <4>2. \A g \in names : <<o, g>> \in {o} \X names /\ <<o, g>>[2] = g
        OBVIOUS
      <4> QED
        BY <4>1, <4>2
    <3>7. Now(o)' = [groups |-> names, values |-> {}, column |-> {}]
      BY <3>3, <3>4, <3>5, <3>6 DEF Now
    <3> QED
      BY <2>1, <2>5, <3>2, <3>7 DEF Agrees
  <2>7. want' = [want EXCEPT ![o] = want'[o]] /\ IsView(want'[o])
    BY <2>1, <2>5 DEF IsView, EffectInv, Settled
  <2> HIDE DEF names, asked
  <2>8. Settled'
    BY <1>0, <1>1, <2>3, <2>6, <2>7, SettledIf DEF EffectInv
  <2>9. \A r \in doomed'[t] : r.entry = arg[t].entry
    BY <2>1 DEF EffectInv, OwnRows
  <2>10. ~Alone(t)'
    BY <2>2 DEF Alone, Busy
  <2> QED
    BY <1>1, <2>2, <2>3, <2>4, <2>8, <2>9, <2>10, CalmStep
<1> QED
  BY <1>2, <1>3

LEMMA DeleteEffect ==
  ASSUME IInv, EffectInv, NEW t \in Requests, CommitDelete(t)
  PROVE  EffectInv'
<1> DEFINE o == arg[t].entry
<1>1. Busy(t) /\ arg[t].kind = "delete" /\ o \in Entries
  BY ArgFacts DEF CommitDelete, Commits, Busy, IInv, RequestInv
<1>2. CASE Refuse(t, "error")
  BY <1>1, <1>2, RefuseEffect
<1>3. CASE ~Refuse(t, "error")
  <2>1. /\ Unreferenced(t) /\ alive' = alive \ {o}
        /\ member' = member \ loaded[t]
        /\ rows' = rows \ doomed[t]
        /\ column' = [column EXCEPT ![o] = NoValue]
        /\ want' = [e \in Entries |-> IF e = o THEN NoEntry
                                     ELSE [want[e] EXCEPT !.groups = @ \ {o}]]
        /\ silent' = {s \in silent : s[1] # o}
        /\ End(t, "success")
        /\ UNCHANGED <<arg, loaded, found, doomed, mixed>>
    BY <1>3 DEF CommitDelete
  <2>2. stage'[t] = "done" /\ result'[t] = "success"
        /\ \A u \in Requests \ {t} :
             stage'[u] = stage[u] /\ next'[u] = next[u] /\ result'[u] = result[u]
    BY <2>1 DEF End, IInv, TypeOK
  <2>3. \A m \in member : m \in loaded[t] <=> m[1] = o \/ m[2] = o
    BY <1>1, <2>1 DEF Unreferenced, IInv, RequestInv
  <2>4. \A e \in Entries : GroupsOf(e)' =
          IF e = o THEN {} ELSE {m \in GroupsOf(e) : m[2] # o}
    BY <2>1, <2>3 DEF GroupsOf
  <2>5. \A e \in Entries : RowsOf(e)' = IF e = o THEN {} ELSE RowsOf(e)
    BY <2>1 DEF RowsOf, Unreferenced, EffectInv, OwnRows
  <2>6. \A e \in Entries : column'[e] = IF e = o THEN NoValue ELSE column[e]
    BY <1>1, <2>1 DEF IInv, TypeOK
  <2>7. Calm(t)
    <3>1. \A e \in Entries \ {o} : o \notin Groups => GroupsOf(e)' = GroupsOf(e)
      BY <2>4 DEF GroupsOf, IInv, TypeOK
    <3>2. \A e \in Entries \ {o} : \A f : <<e, f>> \in silent' <=> <<e, f>> \in silent
      BY <2>1
    <3> QED
      BY <1>1, <2>1, <2>2, <2>5, <2>6, <3>1, <3>2 DEF Calm
  <2>8. NoRemains'
    BY <2>1, <2>6 DEF EffectInv, NoRemains
  <2>9. Settled'
    <3>1. want' = [e \in Entries |-> want'[e]]
      BY <2>1
    <3>2. want'[o] = [groups |-> {}, values |-> {}, column |-> {}]
      BY <1>1, <2>1 DEF NoEntry
    <3>3. ASSUME NEW e \in Entries, e # o
          PROVE  want'[e] = [groups |-> want[e].groups \ {o}, values |-> want[e].values,
                             column |-> want[e].column]
      <4>1. want'[e] = [want[e] EXCEPT !.groups = want[e].groups \ {o}]
        BY <2>1, <3>3
      <4>2. PICK G, V, C : want[e] = [groups |-> G, values |-> V, column |-> C]
        BY DEF EffectInv, Settled, IsView
      <4>3. want'[e] = [groups |-> G \ {o}, values |-> V, column |-> C]
        BY <4>1, <4>2
      <4> QED
        BY <4>2, <4>3
    <3>4. ASSUME NEW e \in Entries PROVE IsView(want[e])'
      <4> DEFINE w == want'[e]
      <4>1. w = [groups |-> w.groups, values |-> w.values, column |-> w.column]
        <5>1. CASE e = o
          <6> HIDE DEF w
          <6>1. w = [groups |-> {}, values |-> {}, column |-> {}]
            BY <3>2, <5>1 DEF w
          <6> QED
            BY <6>1
        <5>2. CASE e # o
          <6> DEFINE G == want[e].groups \ {o}
                     V == want[e].values
                     C == want[e].column
          <6>1. w = [groups |-> G, values |-> V, column |-> C]
            BY <3>3, <5>2
          <6> HIDE DEF w, G, V, C
          <6> QED
            BY <6>1
        <5> QED
          BY <5>1, <5>2
      <4> QED
        BY <4>1 DEF IsView
    <3>5. ASSUME NEW e \in Entries, e \notin mixed' PROVE Agrees(e, want[e])'
      <4>1. CASE e = o
        <5>1. GroupsOf(e)' = {} /\ RowsOf(e)' = {} /\ column'[e] = NoValue
          BY <2>4, <2>5, <2>6, <4>1
        <5>2. Now(e)' = [groups |-> {}, values |-> {}, column |-> {}]
          BY <5>1 DEF Now
        <5> QED
          BY <3>2, <4>1, <5>2 DEF Agrees
      <4>2. CASE e # o
        <5> DEFINE L == GroupsOf(e)
                   G == {m[2] : m \in L}
                   V == {r.value : r \in RowsOf(e)}
                   C == {column[e]} \ {NoValue}
        <5>1. Now(e) = [groups |-> G, values |-> V, column |-> C]
          BY DEF Now
        <5>2. {m[2] : m \in {n \in L : n[2] # o}} = G \ {o}
          <6> HIDE DEF L, o
          <6> QED
            OBVIOUS
        <5>3. Now(e)' = [groups |-> G \ {o}, values |-> V, column |-> C]
          BY <2>4, <2>5, <2>6, <4>2, <5>2 DEF Now
        <5>4. Agrees(e, want[e])
          BY <2>1, <3>5 DEF EffectInv, Settled
        <5>5. \A f : <<e, f>> \in silent' <=> <<e, f>> \in silent
          BY <2>7, <4>2 DEF Calm
        <5> DEFINE W == want[e]
                   w == want'[e]
        <5>6. w = [groups |-> W.groups \ {o}, values |-> W.values, column |-> W.column]
          BY <3>3, <4>2
        <5> HIDE DEF G, V, C, W, w
        <5>7. w.groups = W.groups \ {o} /\ w.values = W.values /\ w.column = W.column
          BY <5>6
        <5>8. Now(e)'.groups = Now(e).groups \ {o} /\ Now(e)'.values = Now(e).values
              /\ Now(e)'.column = Now(e).column
          BY <5>1, <5>3
        <5>9. Agrees(e, W)
          BY <5>4 DEF W
        <5>10. /\ Now(e)'.values = w.values
               /\ <<e, "memberOf">> \notin silent' => Now(e)'.groups = w.groups
               /\ <<e, "column">> \notin silent' => Now(e)'.column = w.column
          BY <5>5, <5>7, <5>8, <5>9 DEF Agrees
        <5> QED
          BY <5>10 DEF Agrees, w
      <4> QED
        BY <4>1, <4>2
    <3> QED
      BY <3>1, <3>4, <3>5 DEF Settled
  <2>10. \A r \in doomed'[t] : r.entry = o
    BY <2>1 DEF EffectInv, OwnRows
  <2>11. ~Alone(t)'
    BY <2>2 DEF Alone, Busy
  <2> QED
    BY <1>1, <2>2, <2>7, <2>8, <2>9, <2>10, <2>11, CalmStep
<1> QED
  BY <1>2, <1>3

LEMMA NextEffect == IInv /\ EffectInv /\ [Next]_vars => EffectInv'
<1> SUFFICES ASSUME IInv, EffectInv, [Next]_vars PROVE EffectInv'
  OBVIOUS
<1>1. CASE UNCHANGED vars
  <2>1. UNCHANGED <<alive, member, rows, column, arg, stage, next, loaded, found, doomed,
                    result, want, silent, mixed>>
    BY <1>1 DEF vars, tables, ghosts
  <2>2. Apart' /\ NoRemains' /\ OwnRows' /\ Settled' /\ RefusedColumns'
    BY <2>1 DEF EffectInv, Apart, Concern, AddsOrDeletesGroup, Busy, NoRemains, OwnRows,
                Settled, Agrees, IsView, Now, GroupsOf, RowsOf, RefusedColumns, Current
  <2>3. AllFresh'
    BY <2>1 DEF EffectInv, AllFresh, Alone, Busy, Fresh, GroupsOf, Current, NamedGroups,
                DeletedRows, RowsOf
  <2> QED
    BY <2>2, <2>3 DEF EffectInv
<1>2. ASSUME NEW t \in Requests, NEW a \in Args, Begin(t, a)
      PROVE  EffectInv'
  BY <1>2, BeginEffect
<1>3. ASSUME NEW t \in Requests, SkipReadOnly(t) \/ Apply(t)
      PROVE  EffectInv'
  BY <1>3, SkipEffect, ApplyEffect
<1>4. ASSUME NEW t \in Requests, CommitChange(t)
      PROVE  EffectInv'
  <2>1. CommitLinks(t) \/ CommitRows(t) \/ CommitColumn(t)
    BY <1>4 DEF CommitChange
  <2> QED
    BY <1>4, <2>1, LinksEffect, RowsEffect, ColumnEffect
<1>5. ASSUME NEW t \in Requests, RaiseUnlinkable(t) \/ Fail(t)
      PROVE  EffectInv'
  <2>1. Busy(t) /\ Refuse(t, "error")
    BY <1>5 DEF RaiseUnlinkable, Fail, Commits, Active, Busy
  <2> QED
    BY <2>1, RefuseEffect
<1>6. ASSUME NEW t \in Requests, RefuseChange(t) \/ CommitAdd(t) \/ CommitDelete(t)
      PROVE  EffectInv'
  BY <1>6, RefuseChangeEffect, AddEffect, DeleteEffect
<1> QED
  BY <1>1, <1>2, <1>3, <1>4, <1>5, <1>6 DEF Next

\* An entry whose requests never overlapped is what LDAP makes of the changes
\* that were committed, but for the fields a change of which was passed over in
\* silence, and only a unique column refuses one: collections that are loaded
\* once and a commit per change do no other harm.
THEOREM TakesEffectHolds == Spec => []TakesEffect
<1>1. EffectInv => TakesEffect
  BY DEF EffectInv, Settled, Agrees, RefusedColumns, TakesEffect
<1> QED
  BY <1>1, InitEffect, NextEffect, IInvHolds, PTL DEF Spec
=============================================================================
