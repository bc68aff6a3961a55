------------------------------- MODULE Paging -------------------------------
(***************************************************************************)
(* How a client searches and walks through the pages of a search while the *)
(* directory changes (app/ldap_protocol/ldap_requests/search.py,           *)
(* paginate_query() and tree_view(); the API of app/api/main).  A search   *)
(* is one statement; a page is a count and a statement, and between them   *)
(* other sessions commit adds and deletes.  What a search finds among the  *)
(* entries is a constant here, and module Search says what it is.          *)
(***************************************************************************)
EXTENDS Integers, Sequences, FiniteSets

CONSTANTS
  Ids,        \* the ids of all the entries there may be
  Initial,    \* the ids of the entries at the start
  Null,       \* no query yet
  Queries,    \* what clients search for
  Hits,       \* Hits[q], the entries that query q finds when they are there
  Refusals,   \* the queries that are answered with an error code alone
  MaxRemoved  \* the bound on deletions

\* size is size_limit; paged says whether there is a page_number, which only
\* the API has.
ASSUME PagingAssumption ==
  /\ Ids \subseteq Nat /\ IsFiniteSet(Ids)
  /\ Initial \subseteq Ids /\ MaxRemoved \in Nat
  /\ Null \notin Queries
  /\ Hits \in [Queries -> SUBSET Ids] /\ Refusals \subseteq Queries
  /\ \A q \in Queries : q.size \in Nat /\ q.paged \in BOOLEAN

VARIABLES
  present,   \* the ids of the entries in the directory
  used,      \* the ids of all entries there ever were
  query,     \* what is searched for
  page,      \* page_number of the next request of the walk
  stage,     \* see Stages
  total,     \* total_pages as the last count gave it
  got,       \* got[n], the ids on page n
  asOf,      \* what was present when the last page was read
  removed,   \* how many entries were deleted
  start      \* the ids that were there when the walk began

dirVars  == <<present, used, removed>>
walkVars == <<query, page, stage, total, got, asOf, start>>
vars == <<present, used, removed, query, page, stage, total, got, asOf, start>>

-----------------------------------------------------------------------------
(* Pages *)

\* The rows of the statement of get_result(), if these entries are there.
Found(q, ids) == ids \cap Hits[q]

Rank(i, ids) == Cardinality({j \in ids : j <= i})

\* Mutant: pages are counted from 1 where the offset wants 0.
NextSlice(n, size, ids) == {i \in ids : Rank(i, ids) > n * size}

\* OFFSET start LIMIT end over the rows of DISTINCT ON, which come in the
\* order of their ids; end is the last row of the page and not its size.
Slice(n, size, ids) ==
  LET first == (n - 1) * size
      limit == first + size
  IN  {i \in ids : Rank(i, ids) > first /\ Rank(i, ids) <= first + limit}

\* Mutant: one more than the full pages, even when nothing is left for it.
FloorPages(count, size) == count \div size + 1

\* Mutant: the last page is not counted when it is not full.
FullPages(count, size) == count \div size

PageCount(count, size) == (count + size - 1) \div size

Stages == {"idle", "count", "stream", "answered", "done", "error", "refused"}

TypeOK ==
  /\ present \subseteq used /\ used \subseteq Ids /\ removed \in 0..MaxRemoved
  /\ query \in Queries \cup {Null}
  /\ page \in 1..(Cardinality(Ids) + 1)
  /\ stage \in Stages
  /\ total \in 0..Cardinality(Ids)
  /\ got \in Seq(SUBSET Ids)
  /\ asOf \subseteq Ids /\ start \subseteq Ids

Init ==
  /\ present = Initial
  /\ used = Initial
  /\ removed = 0
  /\ query = Null
  /\ page = 1
  /\ stage = "idle"
  /\ total = 0
  /\ got = <<>>
  /\ asOf = {}
  /\ start = {}

\* A commit of an add. The id came from a sequence when the row was inserted,
\* so a larger one may be committed before it.
AddEntry(i) ==
  /\ i \in Ids \ used
  /\ used' = used \cup {i}
  /\ present' = present \cup {i}
  /\ UNCHANGED <<removed, walkVars>>

RemoveEntry(i) ==
  /\ i \in present
  /\ removed < MaxRemoved
  /\ removed' = removed + 1
  /\ present' = present \ {i}
  /\ UNCHANGED <<used, walkVars>>

\* The first page, or the only answer.
Begin(q) ==
  /\ stage = "idle"
  /\ query' = q
  /\ start' = present
  /\ stage' = IF q \in Refusals THEN "refused" ELSE IF q.paged THEN "count" ELSE "stream"
  /\ UNCHANGED <<dirVars, page, total, got, asOf>>

\* paginate_query(): the number of pages, with a division by the size.
Count ==
  /\ stage = "count"
  /\ IF query.size = 0
       THEN stage' = "error" /\ total' = total
       ELSE /\ total' = PageCount(Cardinality(Found(query, present)), query.size)
            /\ stage' = "stream"
  /\ UNCHANGED <<dirVars, query, page, got, asOf, start>>

\* tree_view(): another statement. Without a page there is no limit at all.
Stream ==
  /\ stage = "stream"
  /\ LET found == Found(query, present)
     IN  got' = Append(got, IF query.paged THEN Slice(page, query.size, found) ELSE found)
  /\ asOf' = present
  /\ stage' = "answered"
  /\ UNCHANGED <<dirVars, query, page, total, start>>

\* The client asks for the next page as long as there is one.
NextPage ==
  /\ stage = "answered"
  /\ IF query.paged /\ page < total
       THEN page' = page + 1 /\ stage' = "count"
       ELSE page' = page /\ stage' = "done"
  /\ UNCHANGED <<dirVars, query, total, got, asOf, start>>

Next ==
  \/ \E i \in Ids : AddEntry(i) \/ RemoveEntry(i)
  \/ \E q \in Queries : Begin(q)
  \/ Count \/ Stream \/ NextPage

Spec == Init /\ [][Next]_vars

-----------------------------------------------------------------------------
(* Properties *)

\* A client that walks to the last page has seen every entry that was found
\* all the time, whatever is added between the count and the statement of a
\* page or between two pages, unless an entry was deleted or one with an id
\* below the first ones is committed meanwhile.
WalkCovers ==
  stage = "done" /\ query.paged /\ removed = 0
    /\ (\A i \in used \ start, j \in start : j < i)
    => Found(query, start) \subseteq UNION {got[n] : n \in DOMAIN got}

\* Pages that total_pages promised are not empty, unless entries were deleted.
NoEmptyPage ==
  stage = "answered" /\ query.paged /\ removed = 0 /\ page <= total
    => got[page] # {}
=============================================================================
