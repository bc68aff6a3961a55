---------------------------- MODULE SearchProofs ----------------------------
(* Theorems about Search and Paging, for any entries, filters and page sizes. *)
EXTENDS Search, FiniteSetTheorems, SequenceTheorems, WellFoundedInduction, TLAPS

\* The number of pages is enough for all rows, and no larger than theirs.
LEMMA PageCountBounds ==
  ASSUME NEW count \in Nat, NEW size \in Nat \ {0}
  PROVE  /\ PageCount(count, size) \in Nat
         /\ PageCount(count, size) <= count
         /\ PageCount(count, size) * size >= count
<1> DEFINE n == count + size - 1
           d == n \div size
           r == n % size
<1>1. n \in Nat /\ size \in Nat /\ size > 0
  OBVIOUS
<1>2. d \in Int /\ r \in 0..(size - 1) /\ n = size * d + r
  BY <1>1
<1> HIDE DEF d, r
<1>3. size * d >= count
  BY <1>1, <1>2
<1>4. d >= 0
  BY <1>1, <1>2, <1>3, SMT
<1>5. d <= count
  BY <1>1, <1>2, <1>4, SMT
<1>6. size * d = d * size
  BY <1>1, <1>2
<1> QED BY <1>2, <1>3, <1>4, <1>5, <1>6 DEF PageCount, d, n

-----------------------------------------------------------------------------
(* Type correctness *)

\* Once a search has begun there is one; each page comes in its turn.
StageInv ==
  /\ stage = "idle" => page = 1 /\ got = <<>>
  /\ stage # "idle" => query \in Queries
  /\ stage # "idle" /\ query.paged =>
       /\ stage \in {"count", "stream"} => Len(got) = page - 1
       /\ stage \in {"answered", "done"} => Len(got) = page
       /\ stage \in {"stream", "answered", "done"} => query.size > 0

TypeInv == TypeOK /\ StageInv

\* What is found is some of the entries.
LEMMA FoundFinite ==
  ASSUME NEW q, NEW s \in SUBSET Ids
  PROVE  /\ Found(q, s) \subseteq Ids /\ IsFiniteSet(Found(q, s))
         /\ Cardinality(Found(q, s)) \in Nat
         /\ Cardinality(Found(q, s)) <= Cardinality(Ids) /\ Cardinality(Ids) \in Nat
<1>1. Found(q, s) \subseteq Ids
  BY DEF Found
<1> QED BY <1>1, PagingAssumption, FS_Subset, FS_CardinalityType

LEMMA TypeStep == TypeInv /\ [Next]_vars => TypeInv'
<1> SUFFICES ASSUME TypeInv, [Next]_vars PROVE TypeInv'
  OBVIOUS
<1> USE DEF TypeInv, TypeOK, StageInv, Stages
<1>0. Cardinality(Ids) \in Nat /\ Null \notin Queries
      /\ \A q \in Queries : q.size \in Nat /\ q.paged \in BOOLEAN
  BY PagingAssumption, FS_CardinalityType
<1>1. CASE UNCHANGED vars
  BY <1>1 DEF vars
<1>2. ASSUME NEW i \in Ids, AddEntry(i) \/ RemoveEntry(i)
      PROVE  TypeInv'
  <2>1. UNCHANGED walkVars
    BY <1>2 DEF AddEntry, RemoveEntry
  <2>2. present' \subseteq used' /\ used' \subseteq Ids
    BY <1>2 DEF AddEntry, RemoveEntry
  <2>3. removed' \in 0..MaxRemoved
    BY <1>2, PagingAssumption DEF AddEntry, RemoveEntry
  <2> QED BY <2>1, <2>2, <2>3 DEF walkVars
<1>3. ASSUME NEW q \in Queries, Begin(q)
      PROVE  TypeInv'
  BY <1>0, <1>3 DEF Begin, dirVars
<1>4. CASE Count
  <2>1. query \in Queries /\ present \subseteq Ids
    BY <1>4 DEF Count
  <2>2. query.size # 0 => total' \in 0..Cardinality(Ids)
    <3> SUFFICES ASSUME query.size # 0 PROVE total' \in 0..Cardinality(Ids)
      OBVIOUS
    <3>1. Cardinality(Found(query, present)) \in Nat
          /\ Cardinality(Found(query, present)) <= Cardinality(Ids)
      BY <2>1, FoundFinite
    <3>2. total' = PageCount(Cardinality(Found(query, present)), query.size)
      BY <1>4 DEF Count
    <3>3. query.size \in Nat \ {0}
      BY <1>0, <2>1
    <3> HIDE DEF TypeInv, TypeOK, StageInv
    <3> QED BY <1>0, <3>1, <3>2, <3>3, PageCountBounds
  <2>3. total' \in 0..Cardinality(Ids)
    BY <1>4, <2>2 DEF Count
  <2>4. TypeOK'
    BY <1>4, <2>3 DEF Count, dirVars
  <2>5. StageInv'
    BY <1>0, <1>4, <2>1 DEF Count, dirVars
  <2> QED BY <2>4, <2>5
<1>5. CASE Stream
  <2>1. query \in Queries /\ present \subseteq Ids /\ page \in Nat /\ page >= 1
    BY <1>0, <1>5 DEF Stream
  <2> DEFINE ids == IF query.paged THEN Slice(page, query.size, Found(query, present))
                    ELSE Found(query, present)
  <2>2. ids \in SUBSET Ids /\ got' = Append(got, ids)
    BY <1>5, <2>1 DEF Stream, Slice, Found
  <2> HIDE DEF ids
  <2>3. got' \in Seq(SUBSET Ids) /\ Len(got') = Len(got) + 1 /\ Len(got) \in Nat
    BY <2>2, AppendProperties, LenProperties
  <2>4. TypeOK'
    BY <1>5, <2>1, <2>3 DEF Stream, dirVars
  <2>5. StageInv'
    BY <1>5, <2>1, <2>3 DEF Stream, dirVars
  <2> QED BY <2>4, <2>5
<1>6. CASE NextPage
  BY <1>0, <1>6 DEF NextPage, dirVars
<1> QED BY <1>1, <1>2, <1>3, <1>4, <1>5, <1>6 DEF Next

LEMMA TypeAlways == Spec => []TypeInv
<1>1. Init => TypeInv
  <2>1. Cardinality(Ids) \in Nat
    BY PagingAssumption, FS_CardinalityType
  <2> QED BY <2>1, PagingAssumption DEF Init, TypeInv, TypeOK, StageInv, Stages
<1> QED BY <1>1, TypeStep, PTL DEF Spec

\* Type correctness: the number of pages is that of the entries at most.
THEOREM PagingTypeCorrect == Spec => []TypeOK
<1>1. TypeInv => TypeOK
  BY DEF TypeInv
<1> QED BY <1>1, TypeAlways, PTL

-----------------------------------------------------------------------------
(* The walk *)

\* A found entry comes after those with a smaller id, itself included.
LEMMA RankBounds ==
  ASSUME NEW s \in SUBSET Ids, NEW i \in s
  PROVE  Rank(i, s) \in Nat /\ Rank(i, s) >= 1 /\ Rank(i, s) <= Cardinality(s)
<1> DEFINE below == {j \in s : j <= i}
<1>1. IsFiniteSet(s)
  BY PagingAssumption, FS_Subset
<1>2. IsFiniteSet(below) /\ Cardinality(below) <= Cardinality(s)
  BY <1>1, FS_Subset
<1>3. i \in below
  BY PagingAssumption
<1>4. Cardinality(below) \in Nat /\ Cardinality(below) # 0
  BY <1>2, <1>3, FS_CardinalityType, FS_EmptySet
<1> QED BY <1>2, <1>4 DEF Rank

\* Nothing was deleted since the walk began, and what was added came after.
Undisturbed == removed = 0 /\ \A i \in used \ start, j \in start : j < i

Seen == UNION {got[n] : n \in DOMAIN got}

\* What the pages so far have shown of what there was at the beginning, and
\* that the pages to come are enough for the rest.
WalkInv ==
  stage \in {"count", "stream", "answered", "done"} /\ query.paged /\ Undisturbed =>
    /\ start \subseteq present
    /\ stage # "count" => Cardinality(Found(query, start)) <= total * query.size
    /\ \A i \in Found(query, start) :
         Rank(i, Found(query, start)) <= Len(got) * query.size => i \in Seen
    /\ stage = "done" => total <= page

\* The rows of those there were keep their place among the rows there are.
LEMMA RankStable ==
  ASSUME TypeOK, Undisturbed, start \subseteq present, NEW i \in Found(query, start)
  PROVE  Rank(i, Found(query, present)) = Rank(i, Found(query, start))
<1>1. {j \in Found(query, present) : j <= i} = {j \in Found(query, start) : j <= i}
  <2>1. ASSUME NEW j \in Found(query, present), j <= i PROVE j \in Found(query, start)
    <3>1. j \in used /\ j \in Nat /\ i \in start /\ i \in Nat
      BY PagingAssumption DEF TypeOK, Found
    <3>2. j \in start
      BY <2>1, <3>1 DEF Undisturbed
    <3> QED BY <3>2 DEF Found
  <2> QED BY <2>1 DEF Found
<1> QED BY <1>1 DEF Rank

\* A page shows the rows up to its end that the pages before have not shown.
LEMMA SliceShows ==
  ASSUME NEW size \in Nat, NEW n \in Nat \ {0}, NEW ids \in SUBSET Ids, NEW i \in ids,
         Rank(i, ids) <= n * size, ~(Rank(i, ids) <= (n - 1) * size)
  PROVE  i \in Slice(n, size, ids)
<1> DEFINE a == (n - 1) * size
<1>1. a \in Nat /\ n * size = a + size
  OBVIOUS
<1>2. Rank(i, ids) \in Nat
  BY RankBounds
<1> HIDE DEF a
<1>3. Rank(i, ids) > a /\ Rank(i, ids) <= a + (a + size)
  <2>1. ~(Rank(i, ids) <= a)
    BY DEF a
  <2> QED BY <1>1, <1>2, <2>1
<1> QED BY <1>3 DEF Slice, a

\* An add or a delete of others.
LEMMA WalkOthers ==
  ASSUME TypeInv, WalkInv, NEW i \in Ids, AddEntry(i) \/ RemoveEntry(i)
  PROVE  WalkInv'
<1>1. UNCHANGED walkVars
  BY DEF AddEntry, RemoveEntry
<1>2. CASE AddEntry(i)
  <2>1. Undisturbed' => Undisturbed
    BY <1>1, <1>2 DEF AddEntry, Undisturbed, walkVars
  <2>2. present \subseteq present'
    BY <1>2 DEF AddEntry
  <2> QED BY <1>1, <2>1, <2>2 DEF WalkInv, walkVars, Found, Rank, Seen
<1>3. CASE RemoveEntry(i)
  <2>1. ~Undisturbed'
    BY <1>3 DEF RemoveEntry, Undisturbed, TypeInv, TypeOK
  <2> QED BY <2>1 DEF WalkInv
<1> QED BY <1>2, <1>3

\* The first page is to come, and nothing was shown.
LEMMA WalkBegins ==
  ASSUME TypeInv, NEW q \in Queries, Begin(q)
  PROVE  WalkInv'
<1>1. got' = <<>> /\ start' = present' /\ stage' # "done" /\ (q.paged => stage' \notin {"stream", "answered"})
  BY DEF Begin, TypeInv, StageInv, dirVars
<1>2. query' = q /\ q.size \in Nat
  BY PagingAssumption DEF Begin
<1>3. Len(got') = 0
  BY <1>1
<1>4. ASSUME NEW i \in Found(q, present)
      PROVE  ~(Rank(i, Found(q, present)) <= 0 * q.size)
  <2>1. Found(q, present) \in SUBSET Ids
    BY DEF TypeInv, TypeOK, Found
  <2>2. Rank(i, Found(q, present)) \in Nat /\ Rank(i, Found(q, present)) >= 1
    BY <1>4, <2>1, RankBounds
  <2>3. 0 * q.size = 0
    BY <1>2
  <2> QED BY <2>2, <2>3
<1>5. present' = present
  BY DEF Begin, dirVars
<1> QED BY <1>1, <1>2, <1>3, <1>4, <1>5 DEF WalkInv

LEMMA WalkCounts ==
  ASSUME TypeInv, WalkInv, Count
  PROVE  WalkInv'
<1>0. /\ stage = "count" /\ UNCHANGED <<present, used, removed, query, page, got, start>>
      /\ stage' \in {"error", "stream"}
  BY DEF Count, dirVars
<1> SUFFICES ASSUME stage' = "stream", query.paged, Undisturbed
             PROVE  Cardinality(Found(query, start)) <= total' * query.size
  BY <1>0 DEF WalkInv, Undisturbed, Found, Rank, Seen
<1>1. query \in Queries /\ query.size \in Nat /\ query.size # 0
      /\ total' = PageCount(Cardinality(Found(query, present)), query.size)
  BY <1>0, PagingAssumption DEF Count, TypeInv, StageInv
<1>2. start \subseteq present /\ present \subseteq Ids
  BY <1>0 DEF WalkInv, TypeInv, TypeOK
<1>3. /\ Cardinality(Found(query, present)) \in Nat
      /\ Cardinality(Found(query, start)) \in Nat
      /\ Cardinality(Found(query, start)) <= Cardinality(Found(query, present))
  <2>1. Found(query, start) \subseteq Found(query, present)
    BY <1>2 DEF Found
  <2> QED BY <1>2, <2>1, FoundFinite, FS_Subset, FS_CardinalityType
<1>4. /\ Cardinality(Found(query, present)) <= total' * query.size
      /\ total' \in Nat
  BY <1>1, <1>3, PageCountBounds
<1>5. total' * query.size \in Nat
  BY <1>1, <1>4
<1> QED BY <1>3, <1>4, <1>5

LEMMA WalkStreams ==
  ASSUME TypeInv, WalkInv, Stream
  PROVE  WalkInv'
<1>0. /\ stage = "stream" /\ stage' = "answered"
      /\ UNCHANGED <<present, used, removed, query, page, total, start>>
  BY DEF Stream, dirVars
<1> SUFFICES ASSUME query.paged, Undisturbed,
                    NEW i \in Found(query, start),
                    Rank(i, Found(query, start)) <= Len(got') * query.size
             PROVE  i \in Seen'
  BY <1>0 DEF WalkInv, Undisturbed, Found, Rank
<1>1. /\ query \in Queries /\ query.size \in Nat /\ page \in Nat \ {0}
      /\ Len(got) = page - 1 /\ got \in Seq(SUBSET Ids)
      /\ start \subseteq present /\ present \subseteq Ids
  BY <1>0, PagingAssumption, FS_CardinalityType
  DEF TypeInv, TypeOK, StageInv, WalkInv
<1> DEFINE slice == Slice(page, query.size, Found(query, present))
<1>2. got' = Append(got, slice) /\ slice \in SUBSET Ids
  BY <1>1 DEF Stream, Slice, Found
<1>3. /\ Len(got') = page /\ got'[page] = slice /\ page \in DOMAIN got'
      /\ \A n \in DOMAIN got : n \in DOMAIN got' /\ got'[n] = got[n]
  <2> HIDE DEF slice
  <2> QED BY <1>1, <1>2, AppendProperties, LenProperties
<1>4. CASE Rank(i, Found(query, start)) <= (page - 1) * query.size
  <2>1. i \in Seen
    BY <1>0, <1>1, <1>4 DEF WalkInv
  <2>2. Seen \subseteq Seen'
    BY <1>3 DEF Seen
  <2> QED BY <2>1, <2>2
<1>5. CASE ~(Rank(i, Found(query, start)) <= (page - 1) * query.size)
  <2>1. Rank(i, Found(query, present)) = Rank(i, Found(query, start))
    BY <1>1, RankStable DEF TypeInv
  <2>2. i \in Found(query, present) /\ Found(query, present) \in SUBSET Ids
    BY <1>1 DEF Found
  <2>3. i \in slice
    BY <1>1, <1>3, <1>5, <2>1, <2>2, SliceShows
  <2> HIDE DEF slice
  <2> QED BY <1>3, <2>3 DEF Seen
<1> QED BY <1>4, <1>5

LEMMA WalkNext ==
  ASSUME TypeInv, WalkInv, NextPage
  PROVE  WalkInv'
<1>1. /\ stage = "answered" /\ UNCHANGED <<present, used, removed, query, total, got, start>>
      /\ \/ stage' = "count"
         \/ stage' = "done" /\ page' = page /\ (query.paged => ~(page < total))
  BY DEF NextPage, dirVars
<1>2. page \in Int /\ total \in Int
  BY PagingAssumption, FS_CardinalityType DEF TypeInv, TypeOK
<1> QED BY <1>1, <1>2 DEF WalkInv, Undisturbed, Found, Rank, Seen

LEMMA WalkStep == TypeInv /\ WalkInv /\ [Next]_vars => WalkInv'
<1> SUFFICES ASSUME TypeInv, WalkInv, [Next]_vars PROVE WalkInv'
  OBVIOUS
<1>1. CASE UNCHANGED vars
  BY <1>1 DEF vars, WalkInv, Undisturbed, Found, Rank, Seen
<1> QED BY <1>1, WalkOthers, WalkBegins, WalkCounts, WalkStreams, WalkNext DEF Next

\* A client that asks for pages as long as total_pages promises them has seen
\* everything that was there all the time (paginate_query): an offset counts
\* rows, and entries that come after do not move those before them.
THEOREM WalkCoversHolds == Spec => []WalkCovers
<1>1. Init => WalkInv
  BY DEF Init, WalkInv
<1>2. TypeInv /\ WalkInv => WalkCovers
  <2> SUFFICES ASSUME TypeInv, WalkInv, stage = "done", query.paged, Undisturbed,
                      NEW i \in Found(query, start)
               PROVE  i \in Seen
    BY DEF WalkCovers, Undisturbed, Seen
  <2>1. /\ query \in Queries /\ query.size \in Nat /\ Len(got) = page
        /\ page \in Nat /\ total \in Nat /\ total <= page /\ start \subseteq Ids
    BY PagingAssumption, FS_CardinalityType DEF TypeInv, TypeOK, StageInv, WalkInv
  <2>2. total * query.size <= page * query.size
    BY <2>1
  <2>3. /\ Rank(i, Found(query, start)) \in Nat
        /\ Rank(i, Found(query, start)) <= Cardinality(Found(query, start))
        /\ Cardinality(Found(query, start)) \in Nat
    BY <2>1, FoundFinite, RankBounds
  <2>4. Cardinality(Found(query, start)) <= total * query.size
    BY DEF WalkInv
  <2>5. total * query.size \in Nat /\ page * query.size \in Nat
    BY <2>1
  <2>6. Rank(i, Found(query, start)) <= Len(got) * query.size
    BY <2>1, <2>2, <2>3, <2>4, <2>5
  <2> QED BY <2>6 DEF WalkInv
<1> QED BY TypeAlways, <1>1, WalkStep, <1>2, PTL DEF Spec

-----------------------------------------------------------------------------
(* Pages that were promised *)

LEMMA LeastNat ==
  ASSUME NEW T \in SUBSET Nat, T # {}
  PROVE  \E m \in T : \A n \in T : m <= n
<1> DEFINE R == {ss \in Nat \X Nat : ss[1] < ss[2]}
<1>1. IsWellFoundedOn(R, Nat)
  BY NatLessThanWellFounded DEF OpToRel
<1>2. PICK m \in T : \A n \in T : <<n, m>> \notin R
  <2> HIDE DEF R
  <2> QED BY <1>1, WFMin
<1>3. ASSUME NEW n \in T PROVE m <= n
  <2>1. ~(n < m)
    BY <1>2
  <2> QED BY <2>1
<1> QED BY <1>3

\* The entries up to i, and those before it.
UpTo(i, s) == {j \in s : j <= i}
Before(i, s) == {j \in s : j < i}

LEMMA RankBefore ==
  ASSUME NEW s \in SUBSET Ids, NEW i \in s
  PROVE  /\ IsFiniteSet(Before(i, s)) /\ Cardinality(Before(i, s)) \in Nat
         /\ Rank(i, s) = Cardinality(Before(i, s)) + 1
<1>1. IsFiniteSet(s) /\ i \in Nat /\ s \subseteq Nat
  BY PagingAssumption, FS_Subset
<1>2. IsFiniteSet(Before(i, s)) /\ Cardinality(Before(i, s)) \in Nat
  <2>1. Before(i, s) \subseteq s
    BY DEF Before
  <2> QED BY <1>1, <2>1, FS_Subset, FS_CardinalityType
<1>3. UpTo(i, s) = Before(i, s) \cup {i} /\ i \notin Before(i, s)
  <2>1. ~(i < i) /\ \A j \in s : j <= i <=> j < i \/ j = i
    BY <1>1
  <2> QED BY <2>1 DEF UpTo, Before
<1>4. Cardinality(UpTo(i, s)) = Cardinality(Before(i, s)) + 1
  BY <1>2, <1>3, FS_AddElement
<1> QED BY <1>2, <1>4 DEF Rank, UpTo

\* The last of the entries, which is the one with the greatest rank.
LEMMA LastEntry ==
  ASSUME NEW s \in SUBSET Ids, s # {}
  PROVE  \E i \in s : \A j \in s : j <= i
<1>1. IsFiniteSet(s) /\ s \subseteq Nat /\ Cardinality(s) \in Nat
  BY PagingAssumption, FS_Subset, FS_CardinalityType
<1> DEFINE Rest(i) == Cardinality(s) - Rank(i, s)
           T == {Rest(i) : i \in s}
<1>2. T \in SUBSET Nat /\ T # {}
  <2>1. \A i \in s : Rest(i) \in Nat
    <3> SUFFICES ASSUME NEW i \in s PROVE Rest(i) \in Nat
      OBVIOUS
    <3>1. Rank(i, s) \in Nat /\ Rank(i, s) <= Cardinality(s)
      BY RankBounds
    <3> QED BY <1>1, <3>1
  <2> QED BY <2>1
<1>3. PICK i \in s : \A j \in s : Rest(i) <= Rest(j)
  <2>1. PICK m \in T : \A n \in T : m <= n
    <3> HIDE DEF T
    <3> QED BY <1>2, LeastNat
  <2> QED BY <2>1
<1>4. ASSUME NEW j \in s, ~(j <= i) PROVE FALSE
  <2>1. Rank(i, s) \in Nat /\ Rank(j, s) \in Nat /\ Rank(j, s) <= Rank(i, s)
    BY <1>1, <1>3, RankBounds
  <2>2. UpTo(i, s) \subseteq Before(j, s)
    <3>1. \A k \in s : k <= i => k < j
      BY <1>1, <1>4
    <3> QED BY <3>1 DEF UpTo, Before
  <2>3. Rank(i, s) <= Cardinality(Before(j, s))
    BY <2>2, RankBefore, FS_Subset DEF Rank, UpTo
  <2> QED BY <2>1, <2>3, RankBefore
<1> QED BY <1>4

\* Every place up to the number of rows is taken.
LEMMA RankTaken ==
  ASSUME NEW s \in SUBSET Ids, NEW k \in Nat \ {0}, k <= Cardinality(s)
  PROVE  \E i \in s : Rank(i, s) = k
<1>1. IsFiniteSet(s) /\ s \subseteq Nat /\ Cardinality(s) \in Nat
  BY PagingAssumption, FS_Subset, FS_CardinalityType
<1> DEFINE T == {Rank(i, s) : i \in {j \in s : Rank(j, s) >= k}}
<1>2. T \in SUBSET Nat
  BY RankBounds
<1>3. T # {}
  <2>1. s # {}
    BY <1>1, FS_EmptySet
  <2>2. PICK i \in s : \A j \in s : j <= i
    BY <2>1, LastEntry
  <2>3. {j \in s : j <= i} = s
    BY <2>2
  <2>4. Rank(i, s) = Cardinality(s)
    BY <2>3 DEF Rank
  <2> QED BY <2>4
<1>4. PICK i \in s : Rank(i, s) >= k /\ \A j \in s : Rank(j, s) >= k => Rank(i, s) <= Rank(j, s)
  <2>1. PICK m \in T : \A n \in T : m <= n
    <3> HIDE DEF T
    <3> QED BY <1>2, <1>3, LeastNat
  <2> QED BY <2>1
<1>5. CASE Rank(i, s) > k
  <2>1. Before(i, s) \in SUBSET Ids /\ Before(i, s) \subseteq s
    BY DEF Before
  <2>2. Cardinality(Before(i, s)) \in Nat /\ Cardinality(Before(i, s)) >= k
        /\ Rank(i, s) = Cardinality(Before(i, s)) + 1
    BY <1>5, RankBefore, RankBounds
  <2>3. Before(i, s) # {}
    BY <2>2, FS_EmptySet
  <2>4. PICK m \in Before(i, s) : \A j \in Before(i, s) : j <= m
    BY <2>1, <2>3, LastEntry
  <2>5. {j \in s : j <= m} = Before(i, s)
    <3>1. m \in s /\ m < i /\ \A j \in s : j <= m <=> j < i
      BY <1>1, <2>4 DEF Before
    <3> QED BY <3>1 DEF Before
  <2>6. Rank(m, s) = Cardinality(Before(i, s))
    BY <2>5 DEF Rank
  <2> QED BY <1>4, <2>1, <2>2, <2>6
<1>6. Rank(i, s) \in Nat
  BY RankBounds
<1> QED BY <1>4, <1>5, <1>6

\* The last page that is promised begins before the last row.
LEMMA LastPageBegins ==
  ASSUME NEW count \in Nat, NEW size \in Nat \ {0}, PageCount(count, size) >= 1
  PROVE  (PageCount(count, size) - 1) * size < count
<1> DEFINE n == count + size - 1
           d == n \div size
           r == n % size
<1>1. n \in Nat /\ size \in Nat /\ size > 0
  OBVIOUS
<1>2. d \in Int /\ r \in 0..(size - 1) /\ n = size * d + r
  BY <1>1
<1> HIDE DEF d, r
<1>3. size * d <= count + size - 1
  BY <1>1, <1>2
<1>4. (d - 1) * size = size * d - size
  BY <1>1, <1>2
<1>5. (d - 1) * size < count
  <2>1. size * d \in Int
    BY <1>1, <1>2
  <2> QED BY <1>1, <1>3, <1>4, <2>1
<1> QED BY <1>5 DEF PageCount, d, n

\* Until something is deleted, the rows reach into the last page promised, and
\* so into those before it.
PromiseInv ==
  removed = 0 /\ query.paged =>
    /\ stage = "stream" /\ page <= total =>
         (total - 1) * query.size < Cardinality(Found(query, present))
    /\ stage = "answered" /\ page <= total => got[page] # {}

LEMMA PromiseStep == TypeInv /\ PromiseInv /\ [Next]_vars => PromiseInv'
<1> SUFFICES ASSUME TypeInv, PromiseInv, [Next]_vars PROVE PromiseInv'
  OBVIOUS
<1>1. CASE UNCHANGED vars
  BY <1>1 DEF vars, PromiseInv, Found
<1>2. ASSUME NEW i \in Ids, AddEntry(i)
      PROVE  PromiseInv'
  <2> SUFFICES ASSUME removed = 0, query.paged, stage = "stream", page <= total
               PROVE  (total - 1) * query.size < Cardinality(Found(query, present'))
    BY <1>2 DEF AddEntry, walkVars, PromiseInv, Found
  <2>1. query \in Queries /\ query.size \in Nat /\ total \in Int
    BY PagingAssumption, FS_CardinalityType DEF TypeInv, TypeOK, StageInv
  <2>2. present \in SUBSET Ids /\ present' \in SUBSET Ids
        /\ Found(query, present) \subseteq Found(query, present')
    BY <1>2 DEF AddEntry, Found, TypeInv, TypeOK
  <2>3. /\ Cardinality(Found(query, present)) \in Nat
        /\ Cardinality(Found(query, present')) \in Nat
        /\ Cardinality(Found(query, present)) <= Cardinality(Found(query, present'))
    BY <2>2, FoundFinite, FS_Subset
  <2>4. (total - 1) * query.size < Cardinality(Found(query, present))
    BY DEF PromiseInv
  <2>5. (total - 1) * query.size \in Int
    BY <2>1
  <2> QED BY <2>3, <2>4, <2>5
<1>3. ASSUME NEW i \in Ids, RemoveEntry(i)
      PROVE  PromiseInv'
  <2>1. removed' # 0
    BY <1>3 DEF RemoveEntry, TypeInv, TypeOK
  <2> QED BY <2>1 DEF PromiseInv
<1>4. ASSUME NEW q \in Queries, Begin(q)
      PROVE  PromiseInv'
  BY <1>4 DEF Begin, PromiseInv
<1>5. CASE Count
  <2> SUFFICES ASSUME stage' = "stream", page' <= total'
               PROVE  (total' - 1) * query.size < Cardinality(Found(query, present))
    BY <1>5 DEF Count, PromiseInv, Found, dirVars
  <2>1. /\ query \in Queries /\ query.size \in Nat \ {0} /\ page' \in Nat \ {0}
        /\ present \in SUBSET Ids
    BY <1>5, PagingAssumption, FS_CardinalityType DEF Count, TypeInv, TypeOK, StageInv
  <2>2. /\ total' = PageCount(Cardinality(Found(query, present)), query.size)
        /\ Cardinality(Found(query, present)) \in Nat
    BY <1>5, <2>1, FoundFinite DEF Count
  <2>3. total' \in Nat /\ total' >= 1
    BY <2>1, <2>2, PageCountBounds
  <2> QED BY <2>1, <2>2, <2>3, LastPageBegins
<1>6. CASE Stream
  <2> SUFFICES ASSUME removed = 0, query.paged, page <= total
               PROVE  got'[page] # {}
    BY <1>6 DEF Stream, PromiseInv, Found, dirVars
  <2> DEFINE found == Found(query, present)
             a == (page - 1) * query.size
             slice == Slice(page, query.size, found)
  <2>1. /\ query.size \in Nat \ {0} /\ page \in Nat \ {0} /\ total \in Nat
        /\ Len(got) = page - 1 /\ got \in Seq(SUBSET Ids) /\ present \in SUBSET Ids
        /\ stage = "stream"
    BY <1>6, PagingAssumption, FS_CardinalityType DEF Stream, TypeInv, TypeOK, StageInv
  <2>2. /\ (total - 1) * query.size < Cardinality(found)
        /\ found \in SUBSET Ids /\ Cardinality(found) \in Nat
    BY <2>1, FoundFinite DEF PromiseInv, Found
  <2>3. a \in Nat /\ a <= (total - 1) * query.size
    BY <2>1
  <2>4. (total - 1) * query.size \in Int
    BY <2>1
  <2> HIDE DEF found
  <2>5. PICK i \in found : Rank(i, found) = a + 1
    <3> HIDE DEF a
    <3> QED BY <2>2, <2>3, <2>4, RankTaken
  <2>6. i \in slice
    <3>1. slice = {j \in found : Rank(j, found) > a /\ Rank(j, found) <= a + (a + query.size)}
      BY DEF Slice
    <3> HIDE DEF slice, a
    <3>2. a + 1 > a /\ a + 1 <= a + (a + query.size)
      BY <2>1, <2>3
    <3> QED BY <2>5, <3>1, <3>2
  <2>7. got' = Append(got, slice) /\ slice \in SUBSET Ids
    BY <1>6, <2>2 DEF Stream, Slice, found
  <2> HIDE DEF slice
  <2>8. got'[page] = slice
    BY <2>1, <2>7, AppendProperties, LenProperties
  <2> QED BY <2>6, <2>8
<1>7. CASE NextPage
  BY <1>7 DEF NextPage, PromiseInv
<1> QED BY <1>1, <1>2, <1>3, <1>4, <1>5, <1>6, <1>7 DEF Next

\* A page that total_pages promised is not empty (paginate_query), unless an
\* entry was deleted between its count and its statement or before.
THEOREM NoEmptyPageHolds == Spec => []NoEmptyPage
<1>1. Init => PromiseInv
  BY DEF Init, PromiseInv
<1>2. PromiseInv => NoEmptyPage
  BY DEF PromiseInv, NoEmptyPage
<1> QED BY TypeAlways, <1>1, PromiseStep, <1>2, PTL DEF Spec

-----------------------------------------------------------------------------
(* Readings of filters *)

\* The filters in which all that are nested deeper are.
LEMMA FilterInduction ==
  ASSUME NEW P \in SUBSET Filters,
         \A f \in Filters : (\A g \in Filters : Depth[g] < Depth[f] => g \in P) => f \in P
  PROVE  P = Filters
<1> SUFFICES ASSUME Filters \ P # {} PROVE FALSE
  OBVIOUS
<1>1. \A f \in Filters : Depth[f] \in Nat
  BY SearchAssumption
<1> DEFINE T == {Depth[f] : f \in Filters \ P}
<1>2. T \in SUBSET Nat /\ T # {}
  BY <1>1
<1>3. PICK m \in T : \A n \in T : m <= n
  <2> HIDE DEF T
  <2> QED BY <1>2, LeastNat
<1>4. PICK f \in Filters \ P : Depth[f] = m
  BY <1>3
<1>5. PICK g \in Filters : Depth[g] < Depth[f] /\ g \notin P
  BY <1>4
<1>6. m <= Depth[g]
  BY <1>3, <1>5
<1> QED BY <1>1, <1>4, <1>5, <1>6

\* What a filter is worth depends on those within it.
LEMMA WorthLocal ==
  ASSUME NEW r, NEW g, NEW h, NEW f \in Filters,
         \A c \in Filters : Depth[c] < Depth[f] => g[c] = h[c]
  PROVE  Worth(r, g, f) = Worth(r, h, f)
<1>1. CASE f.kind \in ItemKinds
  BY <1>1 DEF Worth, ItemKinds
<1>2. CASE f.kind \in {"and", "or"} /\ {f.left, f.right} \subseteq Filters
          /\ Depth[f.left] < Depth[f] /\ Depth[f.right] < Depth[f]
  BY <1>2 DEF Worth
<1>3. CASE f.kind = "not" /\ f.arg \in Filters /\ Depth[f.arg] < Depth[f]
  BY <1>3 DEF Worth
<1> QED BY <1>1, <1>2, <1>3, SearchAssumption

\* A reading of the filters that are nested less deep than n.
UpToDepth(n) == {f \in Filters : Depth[f] < n}
Reads(r, n, g) == g = [f \in UpToDepth(n) |-> Worth(r, g, f)]

\* There is one for every depth.
LEMMA ReadsExist ==
  ASSUME NEW r, NEW n \in Nat
  PROVE  \E g : Reads(r, n, g)
<1> DEFINE T == {k \in Nat : ~\E g : Reads(r, k, g)}
<1> SUFFICES ASSUME T # {} PROVE FALSE
  OBVIOUS
<1>1. PICK m \in T : \A k \in T : m <= k
  <2>1. T \in SUBSET Nat
    OBVIOUS
  <2> HIDE DEF T
  <2> QED BY <2>1, LeastNat
<1>2. \A f \in Filters : Depth[f] \in Nat
  BY SearchAssumption
<1>3. m # 0
  <2> SUFFICES ASSUME m = 0 PROVE FALSE
    OBVIOUS
  <2>1. UpToDepth(0) = {}
    BY <1>2 DEF UpToDepth
  <2> DEFINE g == [f \in {} |-> 0]
  <2>2. Reads(r, 0, g)
    BY <2>1 DEF Reads
  <2> QED BY <1>1, <2>2
<1>4. m - 1 \in Nat /\ m - 1 \notin T /\ m \in Nat
  BY <1>1, <1>3
<1>5. PICK g : Reads(r, m - 1, g)
  BY <1>4
<1> DEFINE h == [f \in UpToDepth(m) |-> Worth(r, g, f)]
<1>6. ASSUME NEW f \in UpToDepth(m) PROVE Worth(r, g, f) = Worth(r, h, f)
  <2>1. f \in Filters /\ Depth[f] < m
    BY DEF UpToDepth
  <2>2. ASSUME NEW c \in Filters, Depth[c] < Depth[f] PROVE g[c] = h[c]
    <3>1. c \in UpToDepth(m - 1) /\ c \in UpToDepth(m)
      BY <1>2, <1>4, <2>1, <2>2 DEF UpToDepth
    <3>2. g[c] = Worth(r, g, c)
      BY <1>5, <3>1 DEF Reads
    <3> QED BY <3>1, <3>2
  <2> HIDE DEF h
  <2> QED BY <2>1, <2>2, WorthLocal
<1>7. Reads(r, m, h)
  BY <1>6 DEF Reads
<1> HIDE DEF h
<1> QED BY <1>1, <1>7

\* Two of them agree on the filters of both.
LEMMA ReadsAgree ==
  ASSUME NEW r, NEW n \in Nat, NEW k \in Nat, NEW g, NEW h,
         Reads(r, n, g), Reads(r, k, h),
         NEW f \in Filters, Depth[f] < n, Depth[f] < k
  PROVE  g[f] = h[f]
<1> DEFINE P == {c \in Filters : Depth[c] < n /\ Depth[c] < k => g[c] = h[c]}
<1>1. ASSUME NEW c \in Filters, \A b \in Filters : Depth[b] < Depth[c] => b \in P
      PROVE  c \in P
  <2> SUFFICES ASSUME Depth[c] < n, Depth[c] < k PROVE g[c] = h[c]
    OBVIOUS
  <2>1. g[c] = Worth(r, g, c) /\ h[c] = Worth(r, h, c)
    BY DEF Reads, UpToDepth
  <2>2. \A b \in Filters : Depth[b] \in Nat
    BY SearchAssumption
  <2>3. \A b \in Filters : Depth[b] < Depth[c] => g[b] = h[b]
    BY <1>1, <2>2
  <2>4. Worth(r, g, c) = Worth(r, h, c)
    BY <2>3, WorthLocal
  <2> QED BY <2>1, <2>4
<1>2. P = Filters
  <2>1. P \in SUBSET Filters
    OBVIOUS
  <2> HIDE DEF P
  <2> QED BY <1>1, <2>1, FilterInduction
<1> QED BY <1>2

\* The reading of all filters is one.
LEMMA ReadIs ==
  ASSUME NEW r
  PROVE  Read(r) = [f \in Filters |-> Worth(r, Read(r), f)]
<1> DEFINE part(n) == CHOOSE g : Reads(r, n, g)
           whole == [f \in Filters |-> part(Depth[f] + 1)[f]]
<1>1. \A n \in Nat : Reads(r, n, part(n))
  <2> SUFFICES ASSUME NEW n \in Nat PROVE Reads(r, n, part(n))
    OBVIOUS
  <2>1. \E g : Reads(r, n, g)
    BY ReadsExist
  <2> QED BY <2>1
<1> HIDE DEF part
<1>2. ASSUME NEW f \in Filters PROVE whole[f] = Worth(r, whole, f)
  <2>1. \A c \in Filters : Depth[c] \in Nat
    BY SearchAssumption
  <2> DEFINE n == Depth[f] + 1
  <2>2. n \in Nat /\ Depth[f] < n
    BY <2>1
  <2>3. Reads(r, n, part(n))
    BY <1>1, <2>2
  <2> HIDE DEF n
  <2>4. part(n)[f] = Worth(r, part(n), f)
    BY <2>2, <2>3 DEF Reads, UpToDepth
  <2>5. ASSUME NEW c \in Filters, Depth[c] < Depth[f] PROVE part(n)[c] = whole[c]
    <3> DEFINE k == Depth[c] + 1
    <3>1. k \in Nat /\ Depth[c] < k /\ Depth[c] < n
      BY <2>1, <2>2, <2>5
    <3>2. Reads(r, k, part(k))
      BY <1>1, <3>1
    <3>3. whole[c] = part(k)[c]
      OBVIOUS
    <3> HIDE DEF k, whole
    <3>4. part(n)[c] = part(k)[c]
      BY <2>2, <2>3, <3>1, <3>2, ReadsAgree
    <3> QED BY <3>3, <3>4
  <2>6. whole[f] = part(n)[f]
    BY DEF n
  <2> HIDE DEF whole
  <2>7. Worth(r, part(n), f) = Worth(r, whole, f)
    BY <2>5, WorthLocal
  <2> QED BY <2>4, <2>6, <2>7
<1>3. whole = [f \in Filters |-> whole[f]]
  OBVIOUS
<1> HIDE DEF whole
<1>4. whole = [f \in Filters |-> Worth(r, whole, f)]
  BY <1>2, <1>3
<1> QED BY <1>4 DEF Read

\* An item, or filters nested in one.
LEMMA FilterKinds ==
  ASSUME NEW f \in Filters
  PROVE  \/ f.kind \in ItemKinds /\ f.attr \in Attrs /\ f.value \in Values
         \/ /\ f.kind \in {"and", "or"} /\ f.left \in Filters /\ f.right \in Filters
            /\ Depth[f.left] < Depth[f] /\ Depth[f.right] < Depth[f]
         \/ f.kind = "not" /\ f.arg \in Filters /\ Depth[f.arg] < Depth[f]
BY SearchAssumption

\* A reading, filter by filter.
LEMMA ReadParts ==
  ASSUME NEW r, NEW f \in Filters
  PROVE  /\ f.kind \in ItemKinds => Read(r)[f] = r.item[f]
         /\ f.kind = "and" => Read(r)[f] = r.and[Read(r)[f.left], Read(r)[f.right]]
         /\ f.kind = "or" => Read(r)[f] = r.or[Read(r)[f.left], Read(r)[f.right]]
         /\ f.kind = "not" => Read(r)[f] = r.not[Read(r)[f.arg]]
<1>1. Read(r)[f] = Worth(r, Read(r), f)
  BY ReadIs
<1> QED BY <1>1 DEF Worth, ItemKinds

\* The worths of filters are of the sort that those of items are.
LEMMA ReadType ==
  ASSUME NEW r, NEW V, \A f \in Items : r.item[f] \in V,
         \A a, b \in V : r.and[a, b] \in V /\ r.or[a, b] \in V,
         \A a \in V : r.not[a] \in V
  PROVE  \A f \in Filters : Read(r)[f] \in V
<1> DEFINE P == {f \in Filters : Read(r)[f] \in V}
<1>1. ASSUME NEW f \in Filters, \A g \in Filters : Depth[g] < Depth[f] => g \in P
      PROVE  f \in P
  <2>1. CASE f.kind \in ItemKinds
    BY <2>1, ReadParts DEF Items
  <2>2. CASE f.kind \in {"and", "or"} /\ f.left \in P /\ f.right \in P
    BY <2>2, ReadParts
  <2>3. CASE f.kind = "not" /\ f.arg \in P
    BY <2>3, ReadParts
  <2> QED BY <1>1, <2>1, <2>2, <2>3, FilterKinds
<1>2. P = Filters
  <2>1. P \in SUBSET Filters
    OBVIOUS
  <2> HIDE DEF P
  <2> QED BY <1>1, <2>1, FilterInduction
<1> QED BY <1>2

-----------------------------------------------------------------------------
(* What filters are made of, and what they mean *)

\* A positive filter is one of plain items without a "not".
LEMMA PositiveParts ==
  ASSUME NEW f \in Filters, Positive[f]
  PROVE  /\ f.kind \in ItemKinds => f.kind \in PlainKinds
         /\ f.kind \in {"and", "or"} => Positive[f.left] /\ Positive[f.right]
         /\ f.kind # "not"
<1> DEFINE r == [item |-> [g \in Items |-> g.kind \in PlainKinds],
                 and |-> Both, or |-> Both, not |-> [a \in BOOLEAN |-> FALSE]]
<1>1. \A g \in Items : r.item[g] = (g.kind \in PlainKinds)
  OBVIOUS
<1>2. \A a, b \in BOOLEAN : r.and[a, b] = (a /\ b) /\ r.or[a, b] = (a /\ b)
  BY DEF Both, PairsOf
<1>3. \A a \in BOOLEAN : r.not[a] = FALSE
  OBVIOUS
<1>4. Positive = Read(r)
  BY DEF Positive
<1> HIDE DEF r
<1>5. \A g \in Filters : Positive[g] \in BOOLEAN
  <2>1. ASSUME NEW g \in Items PROVE r.item[g] \in BOOLEAN
    <3>1. (g.kind \in PlainKinds) \in BOOLEAN
      OBVIOUS
    <3>2. r.item[g] = (g.kind \in PlainKinds)
      BY <1>1
    <3> QED BY <3>1, <3>2, Zenon
  <2>2. \A a, b \in BOOLEAN : r.and[a, b] \in BOOLEAN /\ r.or[a, b] \in BOOLEAN
    BY <1>2
  <2>3. \A a \in BOOLEAN : r.not[a] \in BOOLEAN
    BY <1>3
  <2> QED BY <1>4, <2>1, <2>2, <2>3, ReadType
<1>6. /\ f.kind \in ItemKinds => Positive[f] = r.item[f]
      /\ f.kind = "and" => Positive[f] = r.and[Positive[f.left], Positive[f.right]]
      /\ f.kind = "or" => Positive[f] = r.or[Positive[f.left], Positive[f.right]]
      /\ f.kind = "not" => Positive[f] = r.not[Positive[f.arg]]
  BY <1>4, ReadParts
<1>7. f.kind \in ItemKinds => f.kind \in PlainKinds
  BY <1>1, <1>6 DEF Items
<1>8. f.kind \in {"and", "or"} => Positive[f.left] /\ Positive[f.right]
  BY <1>2, <1>5, <1>6, FilterKinds DEF ItemKinds
<1>9. f.kind # "not"
  BY <1>3, <1>5, <1>6, FilterKinds DEF ItemKinds
<1> QED BY <1>7, <1>8, <1>9

\* A filter without an "and".
LEMMA ConjunctiveParts ==
  ASSUME NEW f \in Filters, ~Conjunctive[f]
  PROVE  /\ f.kind # "and"
         /\ f.kind = "or" => ~Conjunctive[f.left] /\ ~Conjunctive[f.right]
<1> DEFINE r == [item |-> [g \in Items |-> FALSE],
                 and |-> [p \in PairsOf(BOOLEAN) |-> TRUE], or |-> Either, not |-> Same]
<1>1. \A g \in Items : r.item[g] = FALSE
  OBVIOUS
<1>2. \A a, b \in BOOLEAN : r.and[a, b] = TRUE /\ r.or[a, b] = (a \/ b)
  BY DEF Either, PairsOf
<1>3. \A a \in BOOLEAN : r.not[a] = a
  BY DEF Same
<1>4. Conjunctive = Read(r)
  BY DEF Conjunctive
<1> HIDE DEF r
<1>5. \A g \in Filters : Conjunctive[g] \in BOOLEAN
  <2>1. /\ \A g \in Items : r.item[g] \in BOOLEAN
        /\ \A a, b \in BOOLEAN : r.and[a, b] \in BOOLEAN /\ r.or[a, b] \in BOOLEAN
        /\ \A a \in BOOLEAN : r.not[a] \in BOOLEAN
    BY <1>1, <1>2, <1>3
  <2> QED BY <1>4, <2>1, ReadType
<1>6. /\ f.kind = "and" => Conjunctive[f] = r.and[Conjunctive[f.left], Conjunctive[f.right]]
      /\ f.kind = "or" => Conjunctive[f] = r.or[Conjunctive[f.left], Conjunctive[f.right]]
  BY <1>4, ReadParts
<1> QED BY <1>2, <1>5, <1>6, FilterKinds DEF ItemKinds

\* The attributes whose presence a filter asks for.
LEMMA PresenceParts ==
  ASSUME NEW f \in Filters
  PROVE  /\ f.kind \in ItemKinds =>
              Presences[f] = IF f.kind = "present" THEN {f.attr} ELSE {}
         /\ f.kind \in {"and", "or"} =>
              Presences[f] = Presences[f.left] \cup Presences[f.right]
<1> DEFINE item == [g \in Items |-> IF g.kind = "present" THEN {g.attr} ELSE {}]
           joint == [p \in PairsOf(SUBSET Attrs) |-> p[1] \cup p[2]]
           r == [item |-> item, and |-> joint, or |-> joint, not |-> [A \in SUBSET Attrs |-> A]]
<1>1. \A g \in Items : r.item[g] = IF g.kind = "present" THEN {g.attr} ELSE {}
  OBVIOUS
<1>2. \A A, B \in SUBSET Attrs : r.and[A, B] = A \cup B /\ r.or[A, B] = A \cup B
  BY DEF PairsOf
<1>3. \A A \in SUBSET Attrs : r.not[A] = A
  OBVIOUS
<1>4. Presences = Read(r)
  BY DEF Presences
<1> HIDE DEF r
<1>5. \A g \in Filters : Presences[g] \in SUBSET Attrs
  <2>1. \A g \in Items : r.item[g] \in SUBSET Attrs
    BY <1>1, FilterKinds DEF Items, ItemKinds
  <2>2. \A A, B \in SUBSET Attrs : r.and[A, B] \in SUBSET Attrs /\ r.or[A, B] \in SUBSET Attrs
    <3> SUFFICES ASSUME NEW A \in SUBSET Attrs, NEW B \in SUBSET Attrs
                 PROVE  r.and[A, B] \in SUBSET Attrs /\ r.or[A, B] \in SUBSET Attrs
      OBVIOUS
    <3>1. r.and[A, B] = A \cup B /\ r.or[A, B] = A \cup B
      BY <1>2
    <3> QED BY <3>1
  <2>3. \A A \in SUBSET Attrs : r.not[A] \in SUBSET Attrs
    BY <1>3
  <2> DEFINE V == SUBSET Attrs
  <2>4. \A g \in Items : r.item[g] \in V
    BY <2>1
  <2>5. \A A, B \in V : r.and[A, B] \in V /\ r.or[A, B] \in V
    BY <2>2
  <2>6. \A A \in V : r.not[A] \in V
    BY <2>3
  <2> HIDE DEF V
  <2>7. \A g \in Filters : Read(r)[g] \in V
    BY <2>4, <2>5, <2>6, ReadType
  <2> QED BY <1>4, <2>7 DEF V
<1>6. /\ f.kind \in ItemKinds => Presences[f] = r.item[f]
      /\ f.kind = "and" => Presences[f] = r.and[Presences[f.left], Presences[f.right]]
      /\ f.kind = "or" => Presences[f] = r.or[Presences[f.left], Presences[f.right]]
  BY <1>4, ReadParts
<1>7. f.kind \in ItemKinds => Presences[f] = IF f.kind = "present" THEN {f.attr} ELSE {}
  BY <1>1, <1>6 DEF Items
<1>8. f.kind \in {"and", "or"} => Presences[f] = Presences[f.left] \cup Presences[f.right]
  BY <1>2, <1>5, <1>6, FilterKinds DEF ItemKinds
<1> QED BY <1>7, <1>8

\* An item holds or does not.
LEMMA ItemHoldsType ==
  ASSUME NEW e, NEW f
  PROVE  ItemHolds(e, f) \in BOOLEAN
<1>1. CASE f.kind = "equal"
  BY <1>1 DEF ItemHolds
<1>2. CASE f.kind = "column"
  BY <1>2 DEF ItemHolds
<1>3. CASE f.kind = "columnAtLeast"
  BY <1>3 DEF ItemHolds
<1>4. CASE f.kind = "atLeast"
  BY <1>4 DEF ItemHolds
<1>5. CASE f.kind \notin {"equal", "column", "columnAtLeast", "atLeast"}
  BY <1>5 DEF ItemHolds
<1> QED BY <1>1, <1>2, <1>3, <1>4, <1>5

\* What "and" and "or" mean.
LEMMA HoldsParts ==
  ASSUME NEW i \in Ids, NEW f \in Filters
  PROVE  /\ f.kind \in ItemKinds => Holds[i][f] = ItemHolds(Entry[i], f)
         /\ f.kind = "and" => (Holds[i][f] <=> Holds[i][f.left] /\ Holds[i][f.right])
         /\ f.kind = "or" => (Holds[i][f] <=> Holds[i][f.left] \/ Holds[i][f.right])
<1> DEFINE r == [item |-> [g \in Items |-> ItemHolds(Entry[i], g)],
                 and |-> Both, or |-> Either, not |-> [a \in BOOLEAN |-> ~a]]
<1>1. \A g \in Items : r.item[g] = ItemHolds(Entry[i], g)
  OBVIOUS
<1>2. \A a, b \in BOOLEAN : r.and[a, b] = (a /\ b) /\ r.or[a, b] = (a \/ b)
  BY DEF Both, PairsOf, Either
<1>3. \A a \in BOOLEAN : r.not[a] \in BOOLEAN
  OBVIOUS
<1> DEFINE h == Holds[i]
<1>4. h = Read(r)
  BY DEF Holds
<1> HIDE DEF r, h
<1>5. \A g \in Filters : h[g] \in BOOLEAN
  <2>1. \A g \in Items : ItemHolds(Entry[i], g) \in BOOLEAN
    BY ItemHoldsType
  <2>2. /\ \A g \in Items : r.item[g] \in BOOLEAN
        /\ \A a, b \in BOOLEAN : r.and[a, b] \in BOOLEAN /\ r.or[a, b] \in BOOLEAN
        /\ \A a \in BOOLEAN : r.not[a] \in BOOLEAN
    BY <1>1, <1>2, <1>3, <2>1
  <2> QED BY <1>4, <2>2, ReadType
<1>6. /\ f.kind \in ItemKinds => h[f] = r.item[f]
      /\ f.kind = "and" => h[f] = r.and[h[f.left], h[f.right]]
      /\ f.kind = "or" => h[f] = r.or[h[f.left], h[f.right]]
  BY <1>4, ReadParts
<1>7. f.kind \in ItemKinds => h[f] = ItemHolds(Entry[i], f)
  BY <1>1, <1>6 DEF Items
<1>8. f.kind = "and" => (h[f] <=> h[f.left] /\ h[f.right])
  BY <1>2, <1>5, <1>6, FilterKinds DEF ItemKinds
<1>9. f.kind = "or" => (h[f] <=> h[f.left] \/ h[f.right])
  BY <1>2, <1>5, <1>6, FilterKinds DEF ItemKinds
<1> QED BY <1>7, <1>8, <1>9 DEF h

-----------------------------------------------------------------------------
(* The condition of a filter *)

\* What the condition of a filter may be over a row of the first join.
Condition(i, first, f) == Cast[i][first][f]
Truths == (SUBSET Sql) \ {{}}

\* AND is true if both may be, and OR if one may be.
LEMMA SqlTruth ==
  ASSUME NEW A \in Truths, NEW B \in Truths
  PROVE  /\ SqlAnd[A, B] \in Truths /\ SqlOr[A, B] \in Truths
         /\ SqlTrue \in SqlAnd[A, B] <=> SqlTrue \in A /\ SqlTrue \in B
         /\ SqlTrue \in SqlOr[A, B] <=> SqlTrue \in A \/ SqlTrue \in B
<1>1. <<A, B>> \in PairsOf(SUBSET Sql)
  BY DEF PairsOf, Truths
<1>2. /\ SqlAnd[A, B] = {Less(c[1], c[2]) : c \in A \X B}
      /\ SqlOr[A, B] = {More(c[1], c[2]) : c \in A \X B}
  BY <1>1 DEF SqlAnd, SqlOr
<1> DEFINE C == SqlAnd[A, B]
           D == SqlOr[A, B]
<1>3. \A a \in A, b \in B : Less(a, b) \in C /\ More(a, b) \in D
  <2> SUFFICES ASSUME NEW a \in A, NEW b \in B PROVE Less(a, b) \in C /\ More(a, b) \in D
    OBVIOUS
  <2> DEFINE c == <<a, b>>
  <2>1. c \in A \X B /\ c[1] = a /\ c[2] = b
    OBVIOUS
  <2> HIDE DEF c
  <2> QED BY <1>2, <2>1
<1>4. /\ \A x \in C : \E a \in A, b \in B : x = Less(a, b)
      /\ \A x \in D : \E a \in A, b \in B : x = More(a, b)
  <2>1. \A c \in A \X B : c[1] \in A /\ c[2] \in B
    OBVIOUS
  <2> QED BY <1>2, <2>1
<1> HIDE DEF C, D
<1>5. PICK a0 \in A, b0 \in B : TRUE
  BY DEF Truths
<1>6. A \subseteq Sql /\ B \subseteq Sql
  BY DEF Truths
<1>7. \A c, d \in Sql :
        /\ Less(c, d) \in Sql /\ More(c, d) \in Sql
        /\ SqlTrue = Less(c, d) <=> c = SqlTrue /\ d = SqlTrue
        /\ SqlTrue = More(c, d) <=> c = SqlTrue \/ d = SqlTrue
  BY DEF Less, More, Sql, SqlFalse, SqlNull, SqlTrue
<1>8. C \in Truths /\ D \in Truths
  <2>1. C \subseteq Sql /\ D \subseteq Sql
    BY <1>4, <1>6, <1>7
  <2>2. C # {} /\ D # {}
    BY <1>3, <1>5
  <2> QED BY <2>1, <2>2 DEF Truths
<1>9. SqlTrue \in C <=> SqlTrue \in A /\ SqlTrue \in B
  <2>1. ASSUME SqlTrue \in C PROVE SqlTrue \in A /\ SqlTrue \in B
    BY <1>4, <1>6, <1>7, <2>1
  <2>2. ASSUME SqlTrue \in A, SqlTrue \in B PROVE SqlTrue \in C
    <3>1. Less(SqlTrue, SqlTrue) \in C
      BY <1>3, <2>2
    <3> QED BY <1>6, <1>7, <2>2, <3>1
  <2> QED BY <2>1, <2>2
<1>10. SqlTrue \in D <=> SqlTrue \in A \/ SqlTrue \in B
  <2>1. ASSUME SqlTrue \in D PROVE SqlTrue \in A \/ SqlTrue \in B
    BY <1>4, <1>6, <1>7, <2>1
  <2>2. ASSUME SqlTrue \in A PROVE SqlTrue \in D
    <3>1. More(SqlTrue, b0) \in D
      BY <1>3, <1>5, <2>2
    <3> QED BY <1>5, <1>6, <1>7, <2>2, <3>1
  <2>3. ASSUME SqlTrue \in B PROVE SqlTrue \in D
    <3>1. More(a0, SqlTrue) \in D
      BY <1>3, <1>5, <2>3
    <3> QED BY <1>5, <1>6, <1>7, <2>3, <3>1
  <2> QED BY <2>1, <2>2, <2>3
<1> QED BY <1>8, <1>9, <1>10 DEF C, D

\* The condition of a filter is made of those of the filters within it.
LEMMA ConditionParts ==
  ASSUME NEW i \in Ids, NEW first \in FirstJoin(Entry[i]), NEW f \in Filters
  PROVE  /\ f.kind \in ItemKinds => Condition(i, first, f) = Item(Entry[i], first, f)
         /\ f.kind = "and" => Condition(i, first, f)
              = SqlAnd[Condition(i, first, f.left), Condition(i, first, f.right)]
         /\ f.kind = "or" => Condition(i, first, f)
              = SqlOr[Condition(i, first, f.left), Condition(i, first, f.right)]
<1> DEFINE r == [item |-> [g \in Items |-> Item(Entry[i], first, g)],
                 and |-> SqlAnd, or |-> SqlOr, not |-> SqlNot]
           h == Cast[i][first]
<1>1. h = Read(r)
  BY DEF Cast
<1>2. \A g \in Items : r.item[g] = Item(Entry[i], first, g)
  OBVIOUS
<1>3. r.and = SqlAnd /\ r.or = SqlOr
  OBVIOUS
<1>4. \A g : Condition(i, first, g) = h[g]
  BY DEF Condition
<1> HIDE DEF r, h
<1>5. f.kind \in ItemKinds => h[f] = r.item[f]
  BY <1>1, ReadParts
<1>6. f.kind = "and" => h[f] = r.and[h[f.left], h[f.right]]
  BY <1>1, ReadParts
<1>7. f.kind = "or" => h[f] = r.or[h[f.left], h[f.right]]
  BY <1>1, ReadParts
<1>8. f.kind \in ItemKinds => f \in Items
  BY DEF Items
<1>9. f.kind \in ItemKinds => Condition(i, first, f) = Item(Entry[i], first, f)
  BY <1>2, <1>4, <1>5, <1>8
<1>10. f.kind = "and" => Condition(i, first, f)
         = SqlAnd[Condition(i, first, f.left), Condition(i, first, f.right)]
  BY <1>3, <1>4, <1>6
<1>11. f.kind = "or" => Condition(i, first, f)
         = SqlOr[Condition(i, first, f.left), Condition(i, first, f.right)]
  BY <1>3, <1>4, <1>7
<1> QED BY <1>9, <1>10, <1>11

\* A plain item over a row is true if it holds, but for the presence of an
\* attribute, which looks at the row.
LEMMA ItemMeaning ==
  ASSUME NEW i \in Ids, NEW first \in FirstJoin(Entry[i]),
         NEW f \in Filters, f.kind \in PlainKinds
  PROVE  /\ Item(Entry[i], first, f) \in Truths
         /\ f.kind # "present" =>
              (SqlTrue \in Item(Entry[i], first, f) <=> ItemHolds(Entry[i], f))
         /\ f.kind = "present" =>
              /\ SqlTrue \in Item(Entry[i], first, f) <=> first = f.attr
              /\ ItemHolds(Entry[i], f) <=> f.attr \in FirstJoin(Entry[i])
<1> DEFINE e == Entry[i]
<1>1. /\ e.attrs \in [Attrs -> SUBSET Values] /\ e.column \in Values \cup {Null}
      /\ e.member \in {"user", "group", "none"}
  BY SearchAssumption DEF Entries
<1>2. f.attr \in Attrs /\ f.value \in Values /\ f.kind \in ItemKinds
  BY FilterKinds DEF PlainKinds, ItemKinds
<1>3. Null \notin Attrs /\ Null \notin Values
  BY SearchAssumption
<1>4. \A b \in BOOLEAN : SqlIs(b) \in Sql /\ (SqlIs(b) = SqlTrue <=> b)
  BY DEF SqlIs, Sql, SqlTrue, SqlFalse
<1>5. SqlNull \in Sql /\ SqlNull # SqlTrue
  BY DEF SqlNull, SqlTrue, Sql
<1>6. \A x \in Sql : {x} \in Truths
  BY DEF Truths
<1> HIDE DEF e
<1>7. CASE f.kind = "equal"
  <2>1. Item(e, first, f) = Joined(e, f.attr, f.value)
        /\ (ItemHolds(e, f) <=> f.value \in e.attrs[f.attr])
    BY <1>7 DEF Item, ItemHolds
  <2>2. Joined(e, f.attr, f.value) \in Truths
    <3>1. CASE e.attrs[f.attr] = {}
      BY <1>5, <1>6, <3>1 DEF Joined
    <3>2. CASE e.attrs[f.attr] # {}
      <4>1. Joined(e, f.attr, f.value) = {SqlIs(w = f.value) : w \in e.attrs[f.attr]}
        BY <3>2 DEF Joined
      <4>2. \A w : SqlIs(w = f.value) \in Sql
        BY <1>4
      <4>3. PICK w \in e.attrs[f.attr] : TRUE
        BY <3>2
      <4> QED BY <4>1, <4>2, <4>3 DEF Truths
    <3> QED BY <3>1, <3>2
  <2>3. SqlTrue \in Joined(e, f.attr, f.value) <=> f.value \in e.attrs[f.attr]
    BY <1>4, <1>5 DEF Joined
  <2> QED BY <1>7, <2>1, <2>2, <2>3 DEF e
<1>8. CASE f.kind = "present"
  <2>1. Item(e, first, f) = {IF first = Null THEN SqlNull ELSE SqlIs(first = f.attr)}
        /\ (ItemHolds(e, f) <=> e.attrs[f.attr] # {})
    BY <1>8 DEF Item, ItemHolds
  <2>2. e.attrs[f.attr] # {} <=> f.attr \in FirstJoin(e)
    BY <1>2, <1>3 DEF FirstJoin
  <2>3. Item(e, first, f) \in Truths
    BY <1>4, <1>5, <1>6, <2>1
  <2>4. SqlTrue \in Item(e, first, f) <=> first = f.attr
    BY <1>2, <1>3, <1>4, <1>5, <2>1
  <2> QED BY <1>8, <2>1, <2>2, <2>3, <2>4 DEF e
<1>9. CASE f.kind = "column"
  <2>1. Item(e, first, f) = {IF e.column = Null THEN SqlNull ELSE SqlIs(e.column = f.value)}
        /\ (ItemHolds(e, f) <=> e.column = f.value)
    BY <1>9 DEF Item, ItemHolds
  <2>2. Item(e, first, f) \in Truths
    BY <1>4, <1>5, <1>6, <2>1
  <2>3. SqlTrue \in Item(e, first, f) <=> e.column = f.value
    BY <1>2, <1>3, <1>4, <1>5, <2>1
  <2> QED BY <1>9, <2>1, <2>2, <2>3 DEF e
<1>10. CASE f.kind = "columnAtLeast"
  <2>1. Item(e, first, f) = {IF e.column = Null THEN SqlNull ELSE SqlIs(e.column >= f.value)}
        /\ (ItemHolds(e, f) <=> e.column # Null /\ e.column >= f.value)
    BY <1>10 DEF Item, ItemHolds
  <2>2. (e.column >= f.value) \in BOOLEAN
    OBVIOUS
  <2>3. Item(e, first, f) \in Truths
    BY <1>4, <1>5, <1>6, <2>1, <2>2
  <2>4. SqlTrue \in Item(e, first, f) <=> e.column # Null /\ e.column >= f.value
    BY <1>4, <1>5, <2>1, <2>2
  <2> QED BY <1>10, <2>1, <2>3, <2>4 DEF e
<1>11. CASE f.kind = "columnPresent"
  <2>1. Item(e, first, f) = {SqlIs(e.column # Null)} /\ (ItemHolds(e, f) <=> e.column # Null)
    BY <1>11 DEF Item, ItemHolds
  <2> QED BY <1>4, <1>6, <1>11, <2>1 DEF e
<1>12. CASE f.kind = "member"
  <2>1. Item(e, first, f) = {SqlIs(e.member = "user" \/ e.member = "group")}
        /\ (ItemHolds(e, f) <=> e.member # "none")
    BY <1>12 DEF Item, ItemHolds
  <2>2. (e.member = "user" \/ e.member = "group") <=> e.member # "none"
    BY <1>1
  <2> QED BY <1>4, <1>6, <1>12, <2>1, <2>2 DEF e
<1> QED BY <1>7, <1>8, <1>9, <1>10, <1>11, <1>12 DEF PlainKinds

\* A positive filter that is true over a row holds. It is true over every row
\* that shows the presences it asks for.
Shows(i, first, f) == \A a \in Presences[f] : a \in FirstJoin(Entry[i]) => first = a

LEMMA RowMeaning ==
  ASSUME NEW i \in Ids, NEW first \in FirstJoin(Entry[i]), NEW f \in Filters, Positive[f]
  PROVE  /\ Condition(i, first, f) \in Truths
         /\ SqlTrue \in Condition(i, first, f) => Holds[i][f]
         /\ Shows(i, first, f) /\ Holds[i][f] => SqlTrue \in Condition(i, first, f)
<1> DEFINE Right(g) ==
      /\ Condition(i, first, g) \in Truths
      /\ SqlTrue \in Condition(i, first, g) => Holds[i][g]
      /\ Shows(i, first, g) /\ Holds[i][g] => SqlTrue \in Condition(i, first, g)
           P == {g \in Filters : Positive[g] => Right(g)}
<1>1. ASSUME NEW g \in Filters, Positive[g], g.kind \in ItemKinds PROVE Right(g)
  <2>1. g.kind \in PlainKinds
    BY <1>1, PositiveParts
  <2>2. Condition(i, first, g) = Item(Entry[i], first, g) /\ Holds[i][g] = ItemHolds(Entry[i], g)
    BY <1>1, ConditionParts, HoldsParts
  <2>3. CASE g.kind # "present"
    BY <2>1, <2>2, <2>3, ItemMeaning
  <2>4. CASE g.kind = "present"
    <3>1. Presences[g] = {g.attr}
      BY <1>1, <2>4, PresenceParts
    <3>2. /\ Item(Entry[i], first, g) \in Truths
          /\ SqlTrue \in Item(Entry[i], first, g) <=> first = g.attr
          /\ ItemHolds(Entry[i], g) <=> g.attr \in FirstJoin(Entry[i])
      BY <2>1, <2>4, ItemMeaning
    <3> QED BY <2>2, <3>1, <3>2 DEF Shows
  <2> QED BY <2>3, <2>4
<1>2. ASSUME NEW g \in Filters, Positive[g], g.kind \in {"and", "or"},
             Right(g.left), Right(g.right)
      PROVE  Right(g)
  <2>1. g.left \in Filters /\ g.right \in Filters
    BY <1>2, FilterKinds DEF ItemKinds
  <2>2. Shows(i, first, g) => Shows(i, first, g.left) /\ Shows(i, first, g.right)
    <3>1. Presences[g] = Presences[g.left] \cup Presences[g.right]
      BY <1>2, PresenceParts
    <3> QED BY <3>1 DEF Shows
  <2> DEFINE A == Condition(i, first, g.left)
             B == Condition(i, first, g.right)
  <2>3. /\ SqlAnd[A, B] \in Truths /\ SqlOr[A, B] \in Truths
        /\ SqlTrue \in SqlAnd[A, B] <=> SqlTrue \in A /\ SqlTrue \in B
        /\ SqlTrue \in SqlOr[A, B] <=> SqlTrue \in A \/ SqlTrue \in B
    <3>1. A \in Truths /\ B \in Truths
      BY <1>2
    <3> HIDE DEF A, B
    <3> QED BY <3>1, SqlTruth
  <2>4. CASE g.kind = "and"
    <3>1. Condition(i, first, g) = SqlAnd[A, B]
      BY <2>4, ConditionParts
    <3>2. Holds[i][g] <=> Holds[i][g.left] /\ Holds[i][g.right]
      BY <2>4, HoldsParts
    <3> QED BY <1>2, <2>2, <2>3, <3>1, <3>2
  <2>5. CASE g.kind = "or"
    <3>1. Condition(i, first, g) = SqlOr[A, B]
      BY <2>5, ConditionParts
    <3>2. Holds[i][g] <=> Holds[i][g.left] \/ Holds[i][g.right]
      BY <2>5, HoldsParts
    <3> QED BY <1>2, <2>2, <2>3, <3>1, <3>2
  <2> QED BY <1>2, <2>4, <2>5
<1> HIDE DEF Right
<1>3. ASSUME NEW g \in Filters, \A h \in Filters : Depth[h] < Depth[g] => h \in P
      PROVE  g \in P
  <2> SUFFICES ASSUME Positive[g] PROVE Right(g)
    OBVIOUS
  <2>1. CASE g.kind \in ItemKinds
    BY <1>1, <2>1
  <2>2. CASE g.kind \in {"and", "or"}
    <3>1. Positive[g.left] /\ Positive[g.right]
      BY <2>2, PositiveParts
    <3>2. g.left \in P /\ g.right \in P
      BY <1>3, <2>2, FilterKinds DEF ItemKinds
    <3> QED BY <1>2, <2>2, <3>1, <3>2
  <2>3. CASE g.kind = "not"
    BY <2>3, PositiveParts
  <2> QED BY <2>1, <2>2, <2>3, FilterKinds
<1>4. P = Filters
  <2>1. P \in SUBSET Filters
    OBVIOUS
  <2> HIDE DEF P
  <2> QED BY <1>3, <2>1, FilterInduction
<1>5. Right(f)
  BY <1>4
<1> QED BY <1>5 DEF Right

\* An outer join has a row.
LEMMA FirstJoinExists ==
  ASSUME NEW e
  PROVE  \E first : first \in FirstJoin(e)
BY DEF FirstJoin

\* An "or" of presences finds one of them in a row of its own.
LEMMA SomeRowMeaning ==
  ASSUME NEW i \in Ids, NEW f \in Filters, Positive[f], ~Conjunctive[f], Holds[i][f]
  PROVE  Matches(i, f)
<1> DEFINE P == {g \in Filters : Positive[g] /\ ~Conjunctive[g] /\ Holds[i][g] => Matches(i, g)}
<1>1. ASSUME NEW g \in Filters, \A h \in Filters : Depth[h] < Depth[g] => h \in P
      PROVE  g \in P
  <2> SUFFICES ASSUME Positive[g], ~Conjunctive[g], Holds[i][g] PROVE Matches(i, g)
    OBVIOUS
  <2>1. CASE g.kind \in ItemKinds
    <3>1. Presences[g] = IF g.kind = "present" THEN {g.attr} ELSE {}
      BY <2>1, PresenceParts
    <3>2. PICK first \in FirstJoin(Entry[i]) : Shows(i, first, g)
      <4>1. PICK any : any \in FirstJoin(Entry[i])
        BY FirstJoinExists
      <4>2. CASE g.kind = "present" /\ g.attr \in FirstJoin(Entry[i])
        BY <3>1, <4>2 DEF Shows
      <4>3. CASE ~(g.kind = "present" /\ g.attr \in FirstJoin(Entry[i]))
        BY <3>1, <4>1, <4>3 DEF Shows
      <4> QED BY <4>2, <4>3
    <3>3. SqlTrue \in Condition(i, first, g)
      BY <3>2, RowMeaning
    <3> QED BY <3>3 DEF Matches, Condition
  <2>2. CASE g.kind = "or"
    <3>1. /\ g.left \in Filters /\ g.right \in Filters /\ g.left \in P /\ g.right \in P
      BY <1>1, <2>2, FilterKinds DEF ItemKinds
    <3>2. /\ Positive[g.left] /\ Positive[g.right]
          /\ ~Conjunctive[g.left] /\ ~Conjunctive[g.right]
          /\ Holds[i][g.left] \/ Holds[i][g.right]
      BY <2>2, PositiveParts, ConjunctiveParts, HoldsParts
    <3>3. PICK first \in FirstJoin(Entry[i]) : \/ SqlTrue \in Condition(i, first, g.left)
                                               \/ SqlTrue \in Condition(i, first, g.right)
      BY <3>1, <3>2 DEF Matches, Condition
    <3> DEFINE A == Condition(i, first, g.left)
               B == Condition(i, first, g.right)
    <3>4. A \in Truths /\ B \in Truths
      BY <3>1, <3>2, RowMeaning
    <3>5. Condition(i, first, g) = SqlOr[A, B]
      BY <2>2, ConditionParts
    <3>6. SqlTrue \in A \/ SqlTrue \in B
      BY <3>3
    <3> HIDE DEF A, B
    <3>7. SqlTrue \in Condition(i, first, g)
      BY <3>4, <3>5, <3>6, SqlTruth
    <3> QED BY <3>7 DEF Matches, Condition
  <2>3. g.kind # "and" /\ g.kind # "not"
    BY PositiveParts, ConjunctiveParts
  <2> QED BY <2>1, <2>2, <2>3, FilterKinds
<1>2. P = Filters
  <2>1. P \in SUBSET Filters
    OBVIOUS
  <2> HIDE DEF P
  <2> QED BY <1>1, <2>1, FilterInduction
<1> QED BY <1>2

\* A plain filter matches what it means (cast_filter2sql): the joins of its
\* items do not change that, nor do NULLs, which a "not" would show.
THEOREM PlainMeaning ==
  ASSUME NEW i \in Ids, NEW f \in Filters, Plain(f)
  PROVE  Matches(i, f) <=> Holds[i][f]
<1>1. Positive[f]
  BY DEF Plain
<1>2. ASSUME Matches(i, f) PROVE Holds[i][f]
  <2>1. PICK first \in FirstJoin(Entry[i]) : SqlTrue \in Condition(i, first, f)
    BY <1>2 DEF Matches, Condition
  <2> QED BY <1>1, <2>1, RowMeaning
<1>3. ASSUME Holds[i][f] PROVE Matches(i, f)
  <2>1. CASE Conjunctive[f]
    <3>1. \A a, b \in Presences[f] : a = b
      BY <2>1 DEF Plain
    <3>2. PICK first \in FirstJoin(Entry[i]) : Shows(i, first, f)
      <4>1. PICK any : any \in FirstJoin(Entry[i])
        BY FirstJoinExists
      <4>2. CASE \E a \in Presences[f] : a \in FirstJoin(Entry[i])
        BY <3>1, <4>2 DEF Shows
      <4>3. CASE ~\E a \in Presences[f] : a \in FirstJoin(Entry[i])
        BY <4>1, <4>3 DEF Shows
      <4> QED BY <4>2, <4>3
    <3>3. SqlTrue \in Condition(i, first, f)
      BY <1>1, <1>3, <3>2, RowMeaning
    <3> QED BY <3>3 DEF Matches, Condition
  <2>2. CASE ~Conjunctive[f]
    BY <1>1, <1>3, <2>2, SomeRowMeaning
  <2> QED BY <2>1, <2>2
<1> QED BY <1>2, <1>3

-----------------------------------------------------------------------------
(* Scopes *)

\* The first names of a path.
LEMMA Prefix ==
  ASSUME NEW path \in Seq(Names), NEW n \in 0..Len(path)
  PROVE  SubSeq(path, 1, n) \in Seq(Names) /\ Len(SubSeq(path, 1, n)) = n
<1>1. Len(path) \in Nat
  BY LenProperties
<1>2. \A k \in 1..n : k \in 1..Len(path)
  BY <1>1
<1> QED BY <1>1, <1>2, SubSeqProperties

\* What a search with a base DN looks for is what its scope says.
LEMMA ScopeMeaning ==
  ASSUME NEW i \in Ids, NEW q \in Queries, q.base # <<>>, q.scope # "subordinate"
  PROVE  InScope(Entry[i], q) <=> InSubtree(Entry[i], q)
<1> DEFINE path == Entry[i].path
           base == IF q.base = Root THEN <<>> ELSE q.base
<1>1. /\ path \in Seq(Names) /\ path # <<>> /\ path[1] # Root[1]
      /\ q.base \in Seq(Names) /\ Root \in Seq(Names) /\ Len(Root) > 0
      /\ q.scope \in {"base", "single", "subtree"}
  BY SearchAssumption DEF Entries, Scopes
<1>2. Len(path) \in Nat /\ Len(path) > 0 /\ Len(q.base) \in Nat
  BY <1>1, LenProperties, EmptySeq
<1>3. \A n \in 0..Len(path) : SubSeq(path, 1, n) \in Seq(Names) /\ Len(SubSeq(path, 1, n)) = n
  BY <1>1, Prefix
<1> HIDE DEF path
<1>4. CASE q.scope = "base"
  <2>1. /\ InScope(Entry[i], q) <=> path = q.base
        /\ InSubtree(Entry[i], q) <=> path = base
    BY <1>4 DEF InScope, InSubtree, path
  <2>2. path # Root
    BY <1>1
  <2> QED BY <1>1, <2>1, <2>2
<1>5. CASE q.scope = "single"
  <2>1. InSubtree(Entry[i], q) <=> SubSeq(path, 1, Len(path) - 1) = base
    BY <1>5 DEF InSubtree, path
  <2>2. Len(path) - 1 \in 0..Len(path)
    BY <1>2
  <2>3. CASE q.base = Root
    <3>1. InScope(Entry[i], q) <=> Len(path) = 1
      BY <1>5, <2>3 DEF InScope, path
    <3>2. SubSeq(path, 1, Len(path) - 1) = <<>> <=> Len(path) - 1 = 0
      BY <1>2, <1>3, <2>2, EmptySeq
    <3> QED BY <1>2, <2>1, <2>3, <3>1, <3>2
  <2>4. CASE q.base # Root
    <3>1. InScope(Entry[i], q) <=> /\ Len(path) = Len(q.base) + 1 /\ Len(path) >= Len(q.base)
                                   /\ SubSeq(path, 1, Len(q.base)) = q.base
      BY <1>5, <2>4 DEF InScope, Starts, path
    <3>2. ASSUME InScope(Entry[i], q) PROVE InSubtree(Entry[i], q)
      <4>1. Len(path) - 1 = Len(q.base)
        BY <1>2, <3>1, <3>2
      <4> QED BY <2>1, <2>4, <3>1, <3>2, <4>1
    <3>3. ASSUME InSubtree(Entry[i], q) PROVE InScope(Entry[i], q)
      <4>1. SubSeq(path, 1, Len(path) - 1) = q.base
        BY <2>1, <2>4, <3>3
      <4>2. Len(path) - 1 = Len(q.base)
        BY <1>3, <2>2, <4>1
      <4> QED BY <1>2, <3>1, <4>1, <4>2
    <3> QED BY <3>2, <3>3
  <2> QED BY <2>3, <2>4
<1>6. CASE q.scope = "subtree"
  <2>1. InSubtree(Entry[i], q) <=> \E n \in 0..Len(path) : SubSeq(path, 1, n) = base
    BY <1>6 DEF InSubtree, path
  <2>2. CASE q.base = Root
    <3>1. InScope(Entry[i], q)
      BY <1>6, <2>2 DEF InScope
    <3>2. 0 \in 0..Len(path) /\ SubSeq(path, 1, 0) = <<>>
      BY <1>2, <1>3, EmptySeq
    <3> QED BY <2>1, <2>2, <3>1, <3>2
  <2>3. CASE q.base # Root
    <3>1. InScope(Entry[i], q) <=> /\ Len(path) >= Len(q.base)
                                   /\ SubSeq(path, 1, Len(q.base)) = q.base
      BY <1>6, <2>3 DEF InScope, Starts, path
    <3>2. ASSUME InScope(Entry[i], q) PROVE InSubtree(Entry[i], q)
      <4>1. Len(q.base) \in 0..Len(path)
        BY <1>2, <3>1, <3>2
      <4> QED BY <2>1, <2>3, <3>1, <3>2, <4>1
    <3>3. ASSUME InSubtree(Entry[i], q) PROVE InScope(Entry[i], q)
      <4>1. PICK n \in 0..Len(path) : SubSeq(path, 1, n) = q.base
        BY <2>1, <2>3, <3>3
      <4>2. n = Len(q.base)
        BY <1>3, <4>1
      <4> QED BY <1>2, <3>1, <4>1, <4>2
    <3> QED BY <3>2, <3>3
  <2> QED BY <2>2, <2>3
<1> QED BY <1>1, <1>4, <1>5, <1>6

-----------------------------------------------------------------------------
(* What is found *)

\* The entries that a search is meant to find.
Meant(q, ids) == {i \in ids : InSubtree(Entry[i], q) /\ Holds[i][q.filter]}

LEMMA FoundIsMeant ==
  ASSUME NEW q \in Queries \ Refusals, NEW ids \in SUBSET Ids,
         Plain(q.filter), q.base # <<>>, q.scope # "subordinate"
  PROVE  Found(q, ids) = Meant(q, ids)
<1>1. q.filter \in Filters
  BY SearchAssumption
<1>2. ~Refused(q)
  BY HitsAssumption DEF SearchRefusals
<1>3. Hits[q] = {i \in Ids : InScope(Entry[i], q) /\ Matches(i, q.filter)}
  BY <1>2, HitsAssumption DEF SearchHits
<1>4. \A i \in Ids : /\ InScope(Entry[i], q) <=> InSubtree(Entry[i], q)
                     /\ Matches(i, q.filter) <=> Holds[i][q.filter]
  BY <1>1, ScopeMeaning, PlainMeaning
<1> QED BY <1>3, <1>4 DEF Found, Meant

\* A search goes on that is not refused; without pages it reads once.
AnswerInv ==
  /\ stage \in {"count", "stream", "answered", "done"} => query \notin Refusals
  /\ stage = "count" => query.paged
  /\ stage = "stream" /\ ~query.paged => got = <<>>
  /\ stage = "answered" /\ ~query.paged => got[1] = Found(query, asOf)

\* Every step keeps that.
LEMMA AnswerStep == TypeInv /\ AnswerInv /\ [Next]_vars => AnswerInv'
<1> SUFFICES ASSUME TypeInv, AnswerInv, [Next]_vars PROVE AnswerInv'
  OBVIOUS
<1>1. CASE UNCHANGED vars
  BY <1>1 DEF vars, AnswerInv, Found
<1>2. ASSUME NEW i \in Ids, AddEntry(i) \/ RemoveEntry(i)
      PROVE  AnswerInv'
  BY <1>2 DEF AddEntry, RemoveEntry, walkVars, AnswerInv, Found
<1>3. ASSUME NEW q \in Queries, Begin(q)
      PROVE  AnswerInv'
  BY <1>3 DEF Begin, AnswerInv, TypeInv, StageInv
<1>4. CASE Count
  BY <1>4 DEF Count, AnswerInv
<1>5. CASE Stream
  <2>1. stage = "stream" /\ stage' = "answered" /\ query' = query
    BY <1>5 DEF Stream
  <2>2. ASSUME ~query.paged PROVE got'[1] = Found(query, asOf')
    <3>1. got = <<>> /\ asOf' = present /\ got' = Append(got, Found(query, present))
      BY <1>5, <2>1, <2>2 DEF Stream, AnswerInv
    <3> QED BY <3>1
  <2> QED BY <2>1, <2>2 DEF AnswerInv, Found
<1>6. CASE NextPage
  BY <1>6 DEF NextPage, AnswerInv
<1> QED BY <1>1, <1>2, <1>3, <1>4, <1>5, <1>6 DEF Next

\* A search without pages finds what its filter means in its scope
\* (cast_filter2sql, build_query), whatever is nested in the filter.
THEOREM MeansWhatItSaysHolds == Spec => []MeansWhatItSays
<1>1. Init => AnswerInv
  BY DEF Init, AnswerInv
<1>2. TypeInv /\ AnswerInv => MeansWhatItSays
  <2> SUFFICES ASSUME TypeInv, AnswerInv, stage = "answered", ~query.paged,
                      Plain(query.filter), query.base # <<>>, query.scope # "subordinate"
               PROVE  got[1] = {i \in asOf : InSubtree(Entry[i], query)
                                             /\ Holds[i][query.filter]}
    BY DEF MeansWhatItSays
  <2>1. query \in Queries \ Refusals /\ asOf \in SUBSET Ids
    BY DEF TypeInv, TypeOK, StageInv, AnswerInv
  <2>2. got[1] = Found(query, asOf)
    BY DEF AnswerInv
  <2> QED BY <2>1, <2>2, FoundIsMeant DEF Meant
<1> QED BY TypeAlways, <1>1, AnswerStep, <1>2, PTL DEF Spec

-----------------------------------------------------------------------------
(* What a walk shows *)

\* Nothing is shown that the search does not find.
ShownInv == stage # "idle" => \A n \in DOMAIN got : got[n] \subseteq Found(query, used)

LEMMA ShownStep == TypeInv /\ ShownInv /\ [Next]_vars => ShownInv'
<1> SUFFICES ASSUME TypeInv, ShownInv, [Next]_vars PROVE ShownInv'
  OBVIOUS
<1>1. CASE UNCHANGED vars
  BY <1>1 DEF vars, ShownInv, Found
<1>2. ASSUME NEW i \in Ids, AddEntry(i) \/ RemoveEntry(i)
      PROVE  ShownInv'
  <2>1. used \subseteq used' /\ UNCHANGED <<stage, query, got>>
    BY <1>2 DEF AddEntry, RemoveEntry, walkVars
  <2> QED BY <2>1 DEF ShownInv, Found
<1>3. ASSUME NEW q \in Queries, Begin(q)
      PROVE  ShownInv'
  <2>1. got' = <<>>
    BY <1>3 DEF Begin, TypeInv, StageInv
  <2>2. DOMAIN got' = {}
    BY <2>1
  <2> QED BY <2>2 DEF ShownInv
<1>4. CASE Count \/ NextPage
  <2>1. stage # "idle" /\ UNCHANGED <<used, query, got>>
    BY <1>4 DEF Count, NextPage, dirVars
  <2> QED BY <2>1 DEF ShownInv, Found
<1>5. CASE Stream
  <2> DEFINE ids == IF query.paged THEN Slice(page, query.size, Found(query, present))
                    ELSE Found(query, present)
  <2>1. /\ stage = "stream" /\ UNCHANGED <<used, query>>
        /\ got' = Append(got, ids) /\ present \subseteq used
        /\ got \in Seq(SUBSET Ids) /\ ids \in SUBSET Ids /\ ids \subseteq Found(query, used)
    BY <1>5 DEF Stream, dirVars, TypeInv, TypeOK, Slice, Found
  <2> HIDE DEF ids
  <2>2. \A n \in DOMAIN got' : got'[n] = ids \/ (n \in DOMAIN got /\ got'[n] = got[n])
    BY <2>1, AppendProperties, LenProperties
  <2>3. \A n \in DOMAIN got : got[n] \subseteq Found(query, used)
    BY <2>1 DEF ShownInv
  <2>4. Found(query, used)' = Found(query, used)
    BY <2>1 DEF Found
  <2> QED BY <2>1, <2>2, <2>3, <2>4 DEF ShownInv
<1> QED BY <1>1, <1>2, <1>3, <1>4, <1>5 DEF Next

WalkMeansWhatItSays ==
  stage \in {"answered", "done"} /\ Plain(query.filter) /\ query.base # <<>>
    /\ query.scope # "subordinate"
  => /\ Seen \subseteq Meant(query, used)
     /\ stage = "done" /\ query.paged /\ Undisturbed => Meant(query, start) \subseteq Seen

\* What a client is shown, by pages too, was meant by its filter and scope;
\* and a walk to the last page shows everything that was meant and there when
\* it began, unless an entry was deleted or one committed among the first ones
\* (get_result, paginate_query).
THEOREM WalkMeansWhatItSaysHolds == Spec => []WalkMeansWhatItSays
<1>1. Init => AnswerInv /\ ShownInv
  BY DEF Init, AnswerInv, ShownInv
<1>2. TypeInv /\ AnswerInv /\ ShownInv /\ WalkCovers => WalkMeansWhatItSays
  <2> SUFFICES ASSUME TypeInv, AnswerInv, ShownInv, WalkCovers,
                      stage \in {"answered", "done"}, Plain(query.filter),
                      query.base # <<>>, query.scope # "subordinate"
               PROVE  /\ Seen \subseteq Meant(query, used)
                      /\ stage = "done" /\ query.paged /\ Undisturbed
                           => Meant(query, start) \subseteq Seen
    BY DEF WalkMeansWhatItSays
  <2>1. query \in Queries \ Refusals /\ used \in SUBSET Ids /\ start \in SUBSET Ids
    BY DEF TypeInv, TypeOK, StageInv, AnswerInv
  <2>2. Found(query, used) = Meant(query, used) /\ Found(query, start) = Meant(query, start)
    BY <2>1, FoundIsMeant
  <2>3. Seen \subseteq Found(query, used)
    BY DEF ShownInv, Seen
  <2>4. stage = "done" /\ query.paged /\ Undisturbed => Found(query, start) \subseteq Seen
    BY DEF WalkCovers, Undisturbed, Seen
  <2> QED BY <2>2, <2>3, <2>4
<1> QED BY TypeAlways, <1>1, AnswerStep, ShownStep, WalkCoversHolds, <1>2, PTL DEF Spec
=============================================================================
