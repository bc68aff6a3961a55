------------------------------- MODULE Search -------------------------------
(***************************************************************************)
(* What a search finds (app/ldap_protocol/ldap_requests/search.py and      *)
(* filter_interpreter.py). A filter becomes one condition of SQL over      *)
(* outer joins: every item on an attribute joins Attributes anew, the      *)
(* items that ask for presence share the first join, and a row is kept     *)
(* whose condition is true, neither false nor NULL. How the rows are read, *)
(* at once or by pages, is module Paging.                                  *)
(***************************************************************************)
EXTENDS Paging

CONSTANTS
  Entry,   \* Entry[i], the entry that gets the id i when it is added
  Root,    \* the base DN as get_search_path() takes it apart
  Attrs,   \* the attributes of Attributes
  Values,  \* the values of attributes and columns, in their order
  Names,   \* the RDNs of DNs
  Filters, \* what clients filter by, and the filters within these
  Depth    \* Depth[f], how deep filters are nested in f

\* A column without a value, and an outer join without a row, are Null.
Entries == [path : Seq(Names), attrs : [Attrs -> SUBSET Values],
            column : Values \cup {Null}, member : {"user", "group", "none"}]
Scopes == {"base", "single", "subtree", "subordinate"}

ItemKinds == {"equal", "atLeast", "present", "column", "columnAtLeast", "columnPresent",
              "columnDiffers", "member", "notMember", "memberAtLeast"}
Items == {f \in Filters : f.kind \in ItemKinds}

\* A base of <<>> is no DN. No path begins as the base DN does. A filter is a
\* tree; "and" and "or" of more than two are nested.
ASSUME SearchAssumption ==
  /\ Ids = DOMAIN Entry
  /\ \A i \in Ids : /\ Entry[i] \in Entries
                  /\ Entry[i].path # <<>> /\ Entry[i].path[1] # Root[1]
  /\ Root \in Seq(Names) /\ Len(Root) > 0
  /\ Values \subseteq Nat /\ Null \notin Values /\ Null \notin Attrs
  /\ \A q \in Queries : /\ q.filter \in Filters /\ q.base \in Seq(Names)
                       /\ q.scope \in Scopes /\ q.user \in BOOLEAN
  /\ Depth \in [Filters -> Nat]
  /\ \A f \in Filters :
       \/ f.kind \in ItemKinds /\ f.attr \in Attrs /\ f.value \in Values
       \/ /\ f.kind \in {"and", "or"} /\ {f.left, f.right} \subseteq Filters
          /\ Depth[f.left] < Depth[f] /\ Depth[f.right] < Depth[f]
       \/ f.kind = "not" /\ f.arg \in Filters /\ Depth[f.arg] < Depth[f]

-----------------------------------------------------------------------------
(* Filters *)

\* A reading r of filters says what an item is worth (r.item), and a filter by
\* the worth of those within it (r.and, r.or, r.not).
Worth(r, value, f) ==
  CASE f.kind = "and" -> r.and[value[f.left], value[f.right]]
    [] f.kind = "or"  -> r.or[value[f.left], value[f.right]]
    [] f.kind = "not" -> r.not[value[f.arg]]
    [] OTHER          -> r.item[f]

PairsOf(S) == S \X S

\* The recursion of cast_filter2sql() and cast_str_filter2sql().
Read(r) ==
  LET value[f \in Filters] == Worth(r, value, f)
  IN  value

-----------------------------------------------------------------------------
(* The condition of a filter: cast_filter2sql(), cast_str_filter2sql() *)

\* False, NULL and true, in the order that makes AND the smaller of two, OR
\* the greater and NOT the mirror image.
SqlFalse == 0
SqlNull  == 1
SqlTrue  == 2
Sql == {SqlFalse, SqlNull, SqlTrue}
SqlIs(b) == IF b THEN SqlTrue ELSE SqlFalse
Less(a, b) == IF a < b THEN a ELSE b
More(a, b) == IF a < b THEN b ELSE a

\* Mutant: the join of an item is not an outer one.
InnerJoined(e, a, v) == {SqlIs(w = v) : w \in e.attrs[a]}

\* An item on an attribute joins the rows of that attribute, or none.
Joined(e, a, v) ==
  IF e.attrs[a] = {} THEN {SqlNull} ELSE {SqlIs(w = v) : w \in e.attrs[a]}

\* The rows of the first join, by their attribute.
FirstJoin(e) ==
  LET names == {a \in Attrs : e.attrs[a] # {}}
  IN  IF names = {} THEN {Null} ELSE names

\* _cast_item(), _cast_filt_item(): what an item may be over the rows that e
\* and the row first of the first join come with. On an attribute every
\* comparison is one for equality; "~=" is "differs" on a column and
\* "not in ... or not in ..." on memberOf.
Item(e, first, f) ==
  CASE f.kind \in {"equal", "atLeast"} -> Joined(e, f.attr, f.value)
    [] f.kind = "present" -> {IF first = Null THEN SqlNull ELSE SqlIs(first = f.attr)}
    [] f.kind = "columnAtLeast" ->
         {IF e.column = Null THEN SqlNull ELSE SqlIs(e.column >= f.value)}
    [] f.kind = "column" -> {IF e.column = Null THEN SqlNull ELSE SqlIs(e.column = f.value)}
    [] f.kind = "columnPresent" -> {SqlIs(e.column # Null)}
    [] f.kind = "columnDiffers" ->
         {IF e.column = Null THEN SqlNull ELSE SqlIs(e.column # f.value)}
    [] f.kind = "member" -> {SqlIs(e.member = "user" \/ e.member = "group")}
    [] f.kind = "notMember" -> {SqlIs(e.member # "user" \/ e.member # "group")}

SqlAnd == [p \in PairsOf(SUBSET Sql) |-> {Less(c[1], c[2]) : c \in p[1] \X p[2]}]
SqlOr == [p \in PairsOf(SUBSET Sql) |-> {More(c[1], c[2]) : c \in p[1] \X p[2]}]
SqlNot == [A \in SUBSET Sql |-> {2 - a : a \in A}]

\* All the values of a filter over the rows of the i-th entry.
Cast ==
  [i \in Ids |->
     [first \in FirstJoin(Entry[i]) |->
        Read([item |-> [f \in Items |-> Item(Entry[i], first, f)],
              and |-> SqlAnd, or |-> SqlOr, not |-> SqlNot])]]

Matches(i, f) == \E first \in FirstJoin(Entry[i]) : SqlTrue \in Cast[i][first][f]

\* array_lowercase(path[1:n]) = search_path: a slice from 0 begins at 1, and
\* of no elements array_lowercase() is NULL.
Starts(path, base) ==
  base # <<>> /\ Len(path) >= Len(base) /\ SubSeq(path, 1, Len(base)) = base

\* build_query(): without a DN "base" has no condition, nor has "subordinate".
InScope(e, q) ==
  CASE q.scope = "base"    -> q.base = <<>> \/ e.path = q.base
    [] q.scope = "single"  ->
         IF q.base = Root THEN Len(e.path) = 1
         ELSE Len(e.path) = Len(q.base) + 1 /\ Starts(e.path, q.base)
    [] q.scope = "subtree" -> q.base = Root \/ Starts(e.path, q.base)
    [] OTHER -> TRUE

\* An item without a method makes the whole filter fail, wherever it is.
Both == [p \in PairsOf(BOOLEAN) |-> p[1] /\ p[2]]
Either == [p \in PairsOf(BOOLEAN) |-> p[1] \/ p[2]]
Same == [a \in BOOLEAN |-> a]
Castable ==
  Read([item |-> [f \in Items |-> f.kind # "memberAtLeast"],
        and |-> Both, or |-> Both, not |-> Same])

\* What get_result() answers with a code alone: a search of nobody, but for
\* the root DSE, and a filter that cannot be cast.
Refused(q) ==
  \/ ~q.user /\ ~(q.scope = "base" /\ q.base = <<>>)
  \/ ~Castable[q.filter]

\* What the searches of Paging refuse and find.
SearchRefusals == {q \in Queries : Refused(q)}
SearchHits ==
  [q \in Queries |->
     {i \in Ids : ~Refused(q) /\ InScope(Entry[i], q) /\ Matches(i, q.filter)}]

ASSUME HitsAssumption == Hits = SearchHits /\ Refusals = SearchRefusals

-----------------------------------------------------------------------------
(* What a filter means: RFC 4511, to which filter_interpreter.py refers *)

ItemHolds(e, f) ==
  CASE f.kind = "equal"   -> f.value \in e.attrs[f.attr]
    [] f.kind = "atLeast" -> \E v \in e.attrs[f.attr] : v >= f.value
    [] f.kind = "present" -> e.attrs[f.attr] # {}
    [] f.kind = "column"  -> e.column = f.value
    [] f.kind = "columnAtLeast" -> e.column # Null /\ e.column >= f.value
    [] f.kind = "columnPresent" -> e.column # Null
    [] f.kind = "columnDiffers" -> e.column # f.value
    [] f.kind = "member"  -> e.member # "none"
    [] OTHER              -> e.member = "none"

Holds ==
  [i \in Ids |->
     Read([item |-> [f \in Items |-> ItemHolds(Entry[i], f)],
           and |-> Both, or |-> Either, not |-> [a \in BOOLEAN |-> ~a]])]

PlainKinds == {"equal", "present", "column", "columnAtLeast", "columnPresent", "member"}

\* What a filter is made of: items whose kind the code takes for what it is and
\* no negation; an "and"; the attributes it asks for the presence of.
Positive ==
  Read([item |-> [f \in Items |-> f.kind \in PlainKinds],
        and |-> Both, or |-> Both, not |-> [a \in BOOLEAN |-> FALSE]])
Conjunctive ==
  Read([item |-> [f \in Items |-> FALSE],
        and |-> [p \in PairsOf(BOOLEAN) |-> TRUE], or |-> Either, not |-> Same])
Presences ==
  LET Joint == [p \in PairsOf(SUBSET Attrs) |-> p[1] \cup p[2]]
  IN  Read([item |-> [f \in Items |-> IF f.kind = "present" THEN {f.attr} ELSE {}],
            and |-> Joint, or |-> Joint, not |-> [A \in SUBSET Attrs |-> A]])

\* Negation meets NULL and the other values of an attribute, orderings become
\* equality, and two presences look at one row: these the code casts into
\* something else than their meaning.
Plain(f) ==
  /\ Positive[f]
  /\ Conjunctive[f] => \A a, b \in Presences[f] : a = b

InSubtree(e, q) ==
  LET base == IF q.base = Root THEN <<>> ELSE q.base
  IN  CASE q.scope = "base"    -> e.path = base
        [] q.scope = "single"  -> SubSeq(e.path, 1, Len(e.path) - 1) = base
        [] q.scope = "subtree" -> \E n \in 0..Len(e.path) : SubSeq(e.path, 1, n) = base

-----------------------------------------------------------------------------
(* Properties *)

\* A search without pages finds what its filter means, in its scope, among
\* the entries there are when it is read: whatever is joined, a filter built
\* of equality and presence with "and" and "or" keeps its meaning.
MeansWhatItSays ==
  LET q == query
  IN  stage = "answered" /\ ~q.paged /\ Plain(q.filter) /\ q.base # <<>>
        /\ q.scope # "subordinate"
      => got[1] = {i \in asOf : InSubtree(Entry[i], q) /\ Holds[i][q.filter]}
=============================================================================
