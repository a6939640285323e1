------------------------ MODULE ListDataSourceProofs ------------------------
(***************************************************************************)
(* The rows of a list are those of its query, one for each object, for any *)
(* number of objects, loads and changes of the server: the answers of a    *)
(* stream that has been replaced are dropped by its generation.            *)
(***************************************************************************)
EXTENDS ListDataSource, FiniteSetTheorems, SequenceTheorems, TLAPS

\* A function on an initial segment of the numbers is a sequence.
LEMMA FunctionIsSeq ==
    ASSUME NEW S, NEW n \in Nat, NEW f \in [1..n -> S] PROVE f \in Seq(S) /\ Len(f) = n
OBVIOUS

\* The rank of an element among a finite set of numbers.
Rank(I, i) == Cardinality({j \in I : j < i})

\* The ranks of n numbers are 0 to n - 1, each of them once.
LEMMA RankFacts ==
    ASSUME NEW I \in SUBSET Nat, IsFiniteSet(I)
    PROVE  /\ Cardinality(I) \in Nat
           /\ \A i \in I : Rank(I, i) \in 0..(Cardinality(I) - 1)
           /\ \A i, j \in I : i < j => Rank(I, i) < Rank(I, j)
<1>1. Cardinality(I) \in Nat
  BY FS_CardinalityType
<1>2. ASSUME NEW i \in I, NEW T \in SUBSET I, i \notin T, \A j \in T : j < i
      PROVE  IsFiniteSet(T) /\ Cardinality(T) \in Nat /\ Cardinality(T) < Cardinality(I)
  <2>1. IsFiniteSet(T) /\ Cardinality(T) <= Cardinality(I) /\ (Cardinality(I) = Cardinality(T) => I = T)
    BY FS_Subset
  <2>2. Cardinality(T) \in Nat
    BY <2>1, FS_CardinalityType
  <2>3. I # T
    BY <1>2
  <2>4. QED
    BY <1>1, <2>1, <2>2, <2>3
<1>3. \A i \in I : Rank(I, i) \in 0..(Cardinality(I) - 1)
  <2> TAKE i \in I
  <2>1. {j \in I : j < i} \in SUBSET I /\ i \notin {j \in I : j < i}
    OBVIOUS
  <2>2. QED
    BY <1>1, <1>2, <2>1 DEF Rank
<1>4. ASSUME NEW i \in I, NEW j \in I, i < j PROVE Rank(I, i) < Rank(I, j)
  <2> DEFINE S == {k \in I : k < i}
             T == {k \in I : k < j}
  <2>1. S \in SUBSET T /\ S # T /\ T \in SUBSET I
    <3>1. i \in T /\ i \notin S
      BY <1>4
    <3>2. \A k \in S : k \in T
      BY <1>4
    <3>3. QED
      BY <3>1, <3>2
  <2> HIDE DEF S, T
  <2>2. IsFiniteSet(T)
    BY <2>1, FS_Subset
  <2>3. IsFiniteSet(S) /\ Cardinality(S) <= Cardinality(T) /\ (Cardinality(T) = Cardinality(S) => T = S)
    BY <2>1, <2>2, FS_Subset
  <2>4. Cardinality(S) \in Nat /\ Cardinality(T) \in Nat
    BY <2>2, <2>3, FS_CardinalityType
  <2>5. Cardinality(S) < Cardinality(T)
    BY <2>1, <2>3, <2>4
  <2>6. QED
    BY <2>5 DEF Rank, S, T
<1>5. QED
  BY <1>1, <1>3, <1>4

\* Nth is the inverse of Rank.
LEMMA NthFacts ==
    ASSUME NEW I \in SUBSET Nat, IsFiniteSet(I)
    PROVE  /\ Cardinality(I) \in Nat
           /\ \A k \in 1..Cardinality(I) : Nth(I, k) \in I /\ Rank(I, Nth(I, k)) = k - 1
           /\ \A i \in I : Rank(I, i) + 1 \in 1..Cardinality(I) /\ Nth(I, Rank(I, i) + 1) = i
<1> DEFINE n == Cardinality(I)
           R == 0..(n - 1)
           f == [i \in I |-> Rank(I, i)]
<1>1. n \in Nat
  BY RankFacts
<1>2. f \in [I -> R]
  BY RankFacts
<1>3. \A i, j \in I : f[i] = f[j] => i = j
  <2> TAKE i \in I, j \in I
  <2>1. Rank(I, i) \in Int /\ Rank(I, j) \in Int /\ i \in Int /\ j \in Int
    BY <1>1, RankFacts
  <2>2. (i < j => Rank(I, i) < Rank(I, j)) /\ (j < i => Rank(I, j) < Rank(I, i))
    BY RankFacts
  <2>3. QED
    BY <2>1, <2>2
<1>4. f \in Injection(I, R)
  BY <1>2, <1>3 DEF Injection, IsInjective
<1>5. IsFiniteSet(R) /\ Cardinality(R) = n
  <2>1. 0 \in Int /\ n - 1 \in Int
    BY <1>1
  <2>2. IsFiniteSet(R) /\ Cardinality(R) = IF 0 > n - 1 THEN 0 ELSE n - 1 - 0 + 1
    BY <2>1, FS_Interval
  <2>3. QED
    BY <1>1, <2>2
<1>6. f \in Surjection(I, R)
  <2> HIDE DEF f, R
  <2>1. QED
    BY <1>4, <1>5, FS_Injection
<1>7. ASSUME NEW k \in 1..n PROVE Nth(I, k) \in I /\ Rank(I, Nth(I, k)) = k - 1
  <2>1. k - 1 \in R
    BY <1>1
  <2>2. \E i \in I : f[i] = k - 1
    BY <1>6, <2>1 DEF Surjection
  <2>3. \E i \in I : Cardinality({j \in I : j < i}) = k - 1
    BY <2>2 DEF Rank
  <2>4. QED
    BY <2>3 DEF Nth, Rank
<1>8. ASSUME NEW i \in I PROVE Rank(I, i) + 1 \in 1..n /\ Nth(I, Rank(I, i) + 1) = i
  <2>1. Rank(I, i) \in 0..(n - 1)
    BY RankFacts
  <2>2. Rank(I, i) + 1 \in 1..n /\ (Rank(I, i) + 1) - 1 = Rank(I, i)
    BY <1>1, <2>1
  <2>3. Nth(I, Rank(I, i) + 1) \in I /\ Rank(I, Nth(I, Rank(I, i) + 1)) = Rank(I, i)
    BY <1>7, <2>2
  <2>4. QED
    BY <1>3, <2>2, <2>3
<1>9. QED
  BY <1>1, <1>7, <1>8

\* What Pick returns.
LEMMA PickFacts ==
    ASSUME NEW S, NEW s \in Seq(S), NEW I \in SUBSET DOMAIN s
    PROVE  /\ IsFiniteSet(I)
           /\ Pick(s, I) \in Seq(S)
           /\ Len(Pick(s, I)) = Cardinality(I)
           /\ DOMAIN Pick(s, I) = 1..Cardinality(I)
           /\ \A k \in DOMAIN Pick(s, I) : Nth(I, k) \in I /\ Pick(s, I)[k] = s[Nth(I, k)]
           /\ \A i \in I : \E k \in DOMAIN Pick(s, I) : Pick(s, I)[k] = s[i]
<1>1. Len(s) \in Nat /\ DOMAIN s = 1..Len(s) /\ \A i \in DOMAIN s : s[i] \in S
  BY LenProperties
<1>2. I \in SUBSET Nat /\ IsFiniteSet(I)
  <2>1. IsFiniteSet(1..Len(s))
    BY <1>1, FS_Interval
  <2>2. I \in SUBSET (1..Len(s))
    BY <1>1
  <2>3. QED
    BY <2>1, <2>2, <1>1, FS_Subset
<1> DEFINE n == Cardinality(I)
<1>3. n \in Nat
  BY <1>2, NthFacts
<1>4. \A k \in 1..n : Nth(I, k) \in I
  BY <1>2, NthFacts
<1>5. Pick(s, I) \in [1..n -> S]
  BY <1>1, <1>4 DEF Pick
<1>6. DOMAIN Pick(s, I) = 1..n /\ \A k \in 1..n : Pick(s, I)[k] = s[Nth(I, k)]
  BY DEF Pick
<1>7. Pick(s, I) \in Seq(S) /\ Len(Pick(s, I)) = n
  BY <1>3, <1>5
<1>8. ASSUME NEW i \in I PROVE \E k \in DOMAIN Pick(s, I) : Pick(s, I)[k] = s[i]
  <2>1. Rank(I, i) + 1 \in 1..n /\ Nth(I, Rank(I, i) + 1) = i
    BY <1>2, NthFacts
  <2>2. QED
    BY <1>6, <2>1
<1>9. QED
  BY <1>2, <1>4, <1>6, <1>7, <1>8

\* To pick every element is to change nothing.
LEMMA PickAll == ASSUME NEW S, NEW s \in Seq(S) PROVE Pick(s, DOMAIN s) = s
<1> DEFINE I == DOMAIN s
<1>1. Len(s) \in Nat /\ I = 1..Len(s)
  BY LenProperties
<1>2. IsFiniteSet(I) /\ Cardinality(I) = Len(s) /\ I \in SUBSET Nat
  BY <1>1, FS_Interval
<1>3. ASSUME NEW i \in I PROVE Rank(I, i) = i - 1
  <2>1. {j \in I : j < i} = 1..(i - 1) /\ i \in Nat /\ i >= 1
    BY <1>1
  <2>2. Cardinality(1..(i - 1)) = i - 1
    BY <2>1, FS_Interval
  <2>3. QED
    BY <2>1, <2>2 DEF Rank
<1>4. ASSUME NEW k \in 1..Len(s) PROVE Nth(I, k) = k
  <2>1. k \in I /\ Rank(I, k) + 1 = k
    BY <1>1, <1>3
  <2>2. Nth(I, Rank(I, k) + 1) = k
    BY <1>2, <2>1, NthFacts
  <2>3. QED
    BY <2>1, <2>2
<1>5. Pick(s, I) = [k \in 1..Len(s) |-> s[k]]
  BY <1>2, <1>4 DEF Pick
<1>6. QED
  BY <1>1, <1>5

\* The server's answer to a query.
LEMMA ResultFacts ==
    ASSUME TypeOK, NEW q
    PROVE  /\ Result(q) \in Seq([id : Ids, state : {"on", "off"}])
           /\ Len(Result(q)) \in 0..N
<1> DEFINE objects == [i \in Ids |-> [id |-> i, state |-> store[i]]]
           I == {i \in Ids : Matches(store[i], q)}
           Object == [id : Ids, state : {"on", "off"}]
<1>1. objects \in Seq([id : Ids, state : ObjectState]) /\ DOMAIN objects = Ids /\ N \in Nat
  <2>1. N \in Nat
    BY SizeAssumption
  <2>2. \A i \in 1..N : [id |-> i, state |-> store[i]] \in [id : Ids, state : ObjectState]
    BY DEF TypeOK, Ids
  <2>3. objects = [i \in 1..N |-> [id |-> i, state |-> store[i]]]
    BY DEF Ids
  <2>4. objects \in [1..N -> [id : Ids, state : ObjectState]] /\ DOMAIN objects = Ids
    BY <2>2, <2>3 DEF Ids
  <2> HIDE DEF objects
  <2>5. QED
    BY <2>1, <2>4, FunctionIsSeq
<1>2. I \in SUBSET DOMAIN objects
  BY <1>1
<1>3. Result(q) = Pick(objects, I)
  BY DEF Result
<1> HIDE DEF objects, I
<1>4. /\ IsFiniteSet(I) /\ Pick(objects, I) \in Seq([id : Ids, state : ObjectState])
      /\ Len(Pick(objects, I)) = Cardinality(I)
      /\ DOMAIN Pick(objects, I) = 1..Cardinality(I)
      /\ \A k \in DOMAIN Pick(objects, I) : Nth(I, k) \in I /\ Pick(objects, I)[k] = objects[Nth(I, k)]
  BY <1>1, <1>2, PickFacts
<1>5. ASSUME NEW i \in I PROVE objects[i] \in Object
  <2>1. i \in Ids /\ store[i] \in {"on", "off"}
    BY <1>5 DEF I, Matches, TypeOK, ObjectState
  <2>2. QED
    BY <2>1 DEF objects
<1>6. Cardinality(I) \in Nat /\ Cardinality(I) <= N
  <2>1. IsFiniteSet(Ids) /\ Cardinality(Ids) = N
    BY <1>1, FS_Interval DEF Ids
  <2>2. QED
    BY <1>1, <1>2, <1>4, <2>1, FS_Subset, FS_CardinalityType
<1>7. Pick(objects, I) \in [1..Cardinality(I) -> Object]
  BY <1>4, <1>5, LenProperties
<1>8. Pick(objects, I) \in Seq(Object)
  BY <1>6, <1>7, FunctionIsSeq
<1>9. QED
  BY <1>1, <1>3, <1>4, <1>6, <1>8

-----------------------------------------------------------------------------
\* Rows.

\* One row per object, all of one query.
Keyed(rows, q) ==
    /\ \A i, j \in DOMAIN rows : rows[i].id = rows[j].id => i = j
    /\ \A i \in DOMAIN rows : rows[i].query = q

\* upsert replaces the row of an object or adds one.
LEMMA UpsertFacts ==
    ASSUME NEW S, NEW rows \in Seq(S), NEW row \in S
    PROVE  /\ Upsert(rows, row) \in Seq(S)
           /\ Len(Upsert(rows, row)) >= Len(rows)
           /\ \A i \in DOMAIN Upsert(rows, row) :
                 \/ Upsert(rows, row)[i] = row
                 \/ /\ i \in DOMAIN rows
                    /\ Upsert(rows, row)[i] = rows[i]
                    /\ rows[i].id # row.id
           /\ \A q : Keyed(rows, q) /\ row.query = q => Keyed(Upsert(rows, row), q)
<1>1. Len(rows) \in Nat /\ DOMAIN rows = 1..Len(rows) /\ rows \in [1..Len(rows) -> S]
  BY LenProperties
<1>2. CASE row.id \in RowIds(rows)
  <2> DEFINE u == Replace(rows, row)
  <2>1. /\ Upsert(rows, row) = u /\ DOMAIN u = DOMAIN rows
        /\ \A i \in DOMAIN rows : u[i] = IF rows[i].id = row.id THEN row ELSE rows[i]
    BY <1>2 DEF Upsert, Replace
  <2> HIDE DEF u
  <2>2. u \in [1..Len(rows) -> S]
    BY <1>1, <1>2 DEF u, Replace
  <2>3. u \in Seq(S) /\ Len(u) = Len(rows)
    BY <1>1, <2>2
  <2>4. \A q : Keyed(rows, q) /\ row.query = q => Keyed(u, q)
    BY <2>1 DEF Keyed
  <2>5. QED
    BY <1>1, <2>1, <2>3, <2>4
<1>3. CASE row.id \notin RowIds(rows)
  <2> DEFINE u == Append(rows, row)
  <2>1. Upsert(rows, row) = u
    BY <1>3 DEF Upsert
  <2>2. /\ u \in Seq(S) /\ Len(u) = Len(rows) + 1
        /\ \A i \in 1..Len(rows) : u[i] = rows[i]
        /\ u[Len(rows) + 1] = row
    BY AppendProperties
  <2> HIDE DEF u
  <2>3. DOMAIN u = 1..(Len(rows) + 1)
    BY <2>2, LenProperties
  <2>4. \A i \in DOMAIN rows : rows[i].id # row.id
    BY <1>3 DEF RowIds
  <2>5. \A i \in DOMAIN u : (i = Len(rows) + 1 /\ u[i] = row) \/ (i \in DOMAIN rows /\ u[i] = rows[i])
    BY <1>1, <2>2, <2>3
  <2>6. \A q : Keyed(rows, q) /\ row.query = q => Keyed(u, q)
    BY <2>4, <2>5 DEF Keyed
  <2>7. Len(u) >= Len(rows)
    BY <1>1, <2>2
  <2>8. QED
    BY <2>1, <2>2, <2>4, <2>5, <2>6, <2>7, Zenon
<1>4. QED
  BY <1>2, <1>3

\* The rows and the streams fit together: no stream is of a later generation, a stream of the current
\* one is of the current query, and what a replacement has collected is keyed like the rows.
RowsInv ==
    /\ Keyed(accumulated, query)
    /\ \A l \in loads :
          /\ l.generation <= generation
          /\ l.generation = generation => l.query = query
          /\ Keyed(l.rows, l.query)

\* The inductive invariant.
ListInv == TypeOK /\ RowsInv

\* What setPage is called with.
Paging == [pageIndex : Nat, pageSize : PageSizes]

\* No row is in order.
LEMMA NoRows == <<>> \in Seq(Row) /\ \A q : Keyed(<<>>, q)
BY DEF Keyed

\* The ranges that are asked for.
LEMMA FirstRangeType == ASSUME NEW p \in Paging \cup {None} PROVE FirstRange(p) \in ListRange
<1>1. CASE p = None
  BY <1>1, SizeAssumption DEF FirstRange, ListRange
<1>2. CASE p # None
  <2>1. p.pageIndex \in Nat /\ p.pageSize \in Nat
    BY <1>2, SizeAssumption DEF Paging
  <2>2. p.pageIndex * p.pageSize \in Nat
    BY <2>1
  <2>3. QED
    BY <1>2, <2>1, <2>2 DEF FirstRange, ListRange
<1>3. QED
  BY <1>1, <1>2

\* A stream is opened for a query and a generation.
LEMMA RequestFacts ==
    ASSUME ListInv, NEW kind \in {"initial", "append", "replace"}, NEW range \in ListRange,
           NEW g \in Nat, NEW q \in Queries, NEW others \in SUBSET loads,
           Request(kind, range, g, q, others)
    PROVE  /\ opened' \in 0..MaxLoads /\ activeLoad' \in 0..MaxLoads /\ loads' \subseteq Load
           /\ \A l \in loads' :
                 \/ l \in loads
                 \/ l.generation = g /\ l.query = q /\ l.rows = <<>>
<1> DEFINE new == [no |-> opened + 1, generation |-> g, query |-> q, range |-> range, kind |-> kind,
                   rest |-> None, received |-> 0, rows |-> <<>>]
<1>1. opened \in Nat /\ opened < MaxLoads /\ MaxLoads \in Nat
  BY SizeAssumption DEF ListInv, TypeOK, Request
<1>2. opened + 1 \in 1..MaxLoads /\ opened' = opened + 1 /\ activeLoad' = opened + 1
  BY <1>1 DEF Request
<1>3. loads' = others \cup {new}
  BY DEF Request
<1>4. new \in Load
  BY <1>2, NoRows DEF Load
<1>5. new.generation = g /\ new.query = q /\ new.rows = <<>>
  OBVIOUS
<1> HIDE DEF new
<1>6. loads \subseteq Load
  BY DEF ListInv, TypeOK
<1>7. QED
  BY <1>1, <1>2, <1>3, <1>4, <1>5, <1>6

\* restart() begins a generation: no stream that goes on belongs to it.
LEMMA RestartFacts ==
    ASSUME ListInv, NEW p \in Paging \cup {None}, NEW q \in Queries, NEW ongoing \in SUBSET loads,
           Restart(p, q, ongoing), appendLoading' \in BOOLEAN,
           UNCHANGED <<serverVars, predicate, comparator>>
    PROVE  ListInv'
<1>1. FirstRange(p) \in ListRange
  BY FirstRangeType
<1>2. generation + 1 \in Nat /\ generation \in Nat
  BY DEF ListInv, TypeOK
<1>3. Request("initial", FirstRange(p), generation + 1, q, ongoing)
  BY DEF Restart
<1>4. /\ opened' \in 0..MaxLoads /\ activeLoad' \in 0..MaxLoads /\ loads' \subseteq Load
      /\ \A l \in loads' :
            \/ l \in loads
            \/ l.generation = generation + 1 /\ l.query = q /\ l.rows = <<>>
  BY <1>1, <1>2, <1>3, RequestFacts
<1>5. /\ generation' = generation + 1 /\ offset' = 0 /\ exhausted' = FALSE /\ initialLoading' = TRUE
      /\ query' = q /\ paging' = p /\ accumulated' = <<>>
  BY DEF Restart
<1>6. TypeOK'
  BY <1>2, <1>4, <1>5, NoRows DEF ListInv, TypeOK, Paging, serverVars
<1>7. RowsInv'
  <2>1. Keyed(accumulated', query')
    BY <1>5, NoRows
  <2>2. ASSUME NEW l \in loads'
        PROVE  l.generation <= generation' /\ (l.generation = generation' => l.query = query') /\ Keyed(l.rows, l.query)
    <3>1. CASE l \in loads
      <4>1. l.generation <= generation /\ l.generation \in Nat /\ Keyed(l.rows, l.query)
        BY <3>1 DEF ListInv, RowsInv, TypeOK, Load
      <4>2. QED
        BY <1>2, <1>5, <4>1
    <3>2. CASE l.generation = generation + 1 /\ l.query = q /\ l.rows = <<>>
      BY <1>2, <1>5, <3>2, NoRows
    <3>3. QED
      BY <1>4, <3>1, <3>2
  <2>3. QED
    BY <2>1, <2>2 DEF RowsInv
<1>8. QED
  BY <1>6, <1>7 DEF ListInv

\* The operations that start over.
LEMMA Restarts ==
    ASSUME ListInv,
           \/ \E q \in Queries : QueryArrives(q)
           \/ Reload
           \/ \E s \in PageSizes \cup {None} : SetPaging(s)
           \/ \E i \in 0..N : GoToPage(i)
    PROVE  ListInv'
<1>1. WithoutActive \in SUBSET loads /\ paging \in Paging \cup {None} /\ appendLoading \in BOOLEAN
  BY DEF WithoutActive, ListInv, TypeOK, Paging
<1>2. query # None => query \in Queries
  BY DEF ListInv, TypeOK
<1>3. ASSUME NEW q \in Queries, QueryArrives(q) PROVE ListInv'
  <2>1. FirstPage \in Paging \cup {None}
    BY <1>1 DEF FirstPage, Paging
  <2>2. QED
    BY <1>1, <1>3, <2>1, RestartFacts DEF QueryArrives
<1>4. CASE Reload
  BY <1>1, <1>2, <1>4, RestartFacts DEF Reload
<1>5. ASSUME NEW s \in PageSizes \cup {None}, SetPaging(s) PROVE ListInv'
  <2> DEFINE p == IF s = None THEN None ELSE [pageIndex |-> 0, pageSize |-> s]
  <2>1. p \in Paging \cup {None}
    BY DEF Paging
  <2>2. CASE query = None
    <3>1. paging' = p /\ UNCHANGED <<serverVars, query, generation, offset, exhausted, initialLoading, accumulated,
                                     loads, activeLoad, opened, appendLoading, predicate, comparator>>
      BY <1>5, <2>2 DEF SetPaging
    <3> HIDE DEF p
    <3>2. TypeOK'
      BY <2>1, <3>1 DEF ListInv, TypeOK, Paging, serverVars
    <3>3. RowsInv'
      BY <3>1 DEF ListInv, RowsInv
    <3>4. QED
      BY <3>2, <3>3 DEF ListInv
  <2>3. CASE query # None
    <3>1. Restart(p, query, WithoutActive) /\ UNCHANGED <<serverVars, appendLoading, predicate, comparator>>
      BY <1>5, <2>3 DEF SetPaging
    <3> HIDE DEF p
    <3>2. QED
      BY <1>1, <1>2, <2>1, <2>3, <3>1, RestartFacts
  <2>4. QED
    BY <2>2, <2>3
<1>6. ASSUME NEW i \in 0..N, GoToPage(i) PROVE ListInv'
  <2>1. [paging EXCEPT !.pageIndex = i] \in Paging \cup {None}
    BY <1>1, <1>6, SizeAssumption DEF GoToPage, Paging
  <2>2. QED
    BY <1>1, <1>2, <1>6, <2>1, RestartFacts DEF GoToPage
<1>7. QED
  BY <1>3, <1>4, <1>5, <1>6

\* The operations that load without starting over.
LEMMA Loads == ASSUME ListInv, LoadMore \/ RefreshLoaded PROVE ListInv'
<1>1. query # None /\ query \in Queries /\ generation \in Nat /\ offset \in Nat
  BY DEF LoadMore, RefreshLoaded, ListInv, TypeOK
<1>2. CASE LoadMore
  <2>1. [offset |-> offset, pageSize |-> PageSize] \in ListRange
    BY <1>1, SizeAssumption DEF ListRange
  <2>2. /\ opened' \in 0..MaxLoads /\ activeLoad' \in 0..MaxLoads /\ loads' \subseteq Load
        /\ \A l \in loads' : l \in loads \/ (l.generation = generation /\ l.query = query /\ l.rows = <<>>)
    BY <1>1, <1>2, <2>1, RequestFacts DEF LoadMore
  <2>3. appendLoading' = TRUE /\ UNCHANGED <<serverVars, query, generation, accumulated, offset, paging,
                                             initialLoading, exhausted, predicate, comparator>>
    BY <1>2 DEF LoadMore
  <2>4. TypeOK'
    BY <2>2, <2>3 DEF ListInv, TypeOK, serverVars
  <2>5. RowsInv'
    BY <1>1, <2>2, <2>3, NoRows DEF ListInv, RowsInv
  <2>6. QED
    BY <2>4, <2>5 DEF ListInv
<1>3. CASE RefreshLoaded
  <2> DEFINE range == IF paging # None THEN FirstRange(paging)
                      ELSE [offset |-> 0, pageSize |-> IF offset > PageSize THEN offset ELSE PageSize]
  <2>1. range \in ListRange
    <3>1. paging \in Paging \cup {None}
      BY DEF ListInv, TypeOK, Paging
    <3>2. QED
      BY <1>1, <3>1, FirstRangeType, SizeAssumption DEF ListRange
  <2>2. Request("replace", range, generation + 1, query, WithoutActive) /\ generation' = generation + 1
    BY <1>3 DEF RefreshLoaded
  <2> HIDE DEF range
  <2>3. /\ opened' \in 0..MaxLoads /\ activeLoad' \in 0..MaxLoads /\ loads' \subseteq Load
        /\ \A l \in loads' : l \in loads \/ (l.generation = generation + 1 /\ l.query = query /\ l.rows = <<>>)
    <3>1. WithoutActive \in SUBSET loads
      BY DEF WithoutActive
    <3>2. QED
      BY <1>1, <2>1, <2>2, <3>1, RequestFacts
  <2>4. UNCHANGED <<serverVars, query, accumulated, offset, paging, initialLoading, appendLoading,
                    exhausted, predicate, comparator>>
    BY <1>3 DEF RefreshLoaded
  <2>5. TypeOK'
    BY <1>1, <2>2, <2>3, <2>4 DEF ListInv, TypeOK, serverVars
  <2>6. RowsInv'
    <3>1. \A l \in loads : l.generation \in Nat
      BY DEF ListInv, TypeOK, Load
    <3>2. QED
      BY <1>1, <2>2, <2>3, <2>4, <3>1, NoRows DEF ListInv, RowsInv
  <2>7. QED
    BY <2>5, <2>6 DEF ListInv
<1>4. QED
  BY <1>2, <1>3

\* The page reads a range of the server's answer.
LEMMA Serves == ASSUME ListInv, NEW l \in loads, Serve(l) PROVE ListInv'
<1> DEFINE all == Result(l.query)
           last == l.range.offset + l.range.pageSize
           end == IF Len(all) < last THEN Len(all) ELSE last
           m == [l EXCEPT !.rest = SubSeq(all, l.range.offset + 1, end)]
           Object == [id : Ids, state : {"on", "off"}]
<1>1. l \in Load /\ l.range \in ListRange
  BY DEF ListInv, TypeOK, Load
<1>2. l.range.offset \in Nat /\ l.range.pageSize \in Nat
  BY <1>1 DEF ListRange
<1>3. all \in Seq(Object) /\ Len(all) \in Nat
  <2>1. TypeOK
    BY DEF ListInv
  <2>2. all \in Seq(Object)
    BY <2>1, ResultFacts
  <2> HIDE DEF all, Object
  <2>3. QED
    BY <2>2, LenProperties
<1>4. SubSeq(all, l.range.offset + 1, end) \in Seq(Object)
  <2> HIDE DEF all, Object
  <2>1. end \in Nat /\ end <= Len(all) /\ last \in Nat
    BY <1>2, <1>3
  <2> HIDE DEF end
  <2>2. \A i \in (l.range.offset + 1)..end : all[i] \in Object
    <3>1. \A i \in 1..Len(all) : all[i] \in Object
      BY <1>3, ElementOfSeq
    <3>2. QED
      BY <1>2, <1>3, <2>1, <3>1
  <2>3. l.range.offset + 1 \in Int /\ end \in Int
    BY <1>2, <2>1
  <2>4. QED
    BY <2>2, <2>3, SubSeqProperties
<1>5. m \in Load /\ m.generation = l.generation /\ m.query = l.query /\ m.rows = l.rows
  <2> HIDE DEF all, end
  <2>1. QED
    BY <1>1, <1>4 DEF Load
<1>6. /\ loads' = (loads \ {l}) \cup {m}
      /\ UNCHANGED <<serverVars, query, generation, accumulated, offset, paging, initialLoading, appendLoading,
                     exhausted, predicate, comparator, activeLoad, opened>>
  BY DEF Serve
<1> HIDE DEF m
<1>7. TypeOK'
  BY <1>5, <1>6 DEF ListInv, TypeOK, serverVars
<1>8. RowsInv'
  BY <1>5, <1>6 DEF ListInv, RowsInv
<1>9. QED
  BY <1>7, <1>8 DEF ListInv

\* A row comes in a stream.  It becomes one of the rows only in the current generation, and is then
\* of the current query.
LEMMA RowArrives == ASSUME ListInv, NEW l \in loads, StreamNext(l) PROVE ListInv'
<1> DEFINE row == [id |-> Head(l.rest).id, state |-> Head(l.rest).state, load |-> l.no, query |-> l.query]
           m == [l EXCEPT !.rest = Tail(@),
                          !.received = IF IsCurrent(l) /\ l.kind # "replace" THEN @ + 1 ELSE @,
                          !.rows = IF IsCurrent(l) /\ l.kind = "replace" THEN Upsert(@, row) ELSE @]
           Object == [id : Ids, state : {"on", "off"}]
<1>1. l \in Load
  BY DEF ListInv, TypeOK
<1>2. Head(l.rest) \in Object /\ Tail(l.rest) \in Seq(Object)
  <2>1. l.rest \in Seq(Object) /\ l.rest # <<>>
    BY <1>1 DEF StreamNext, Load
  <2> HIDE DEF Object
  <2>2. QED
    BY <2>1, HeadTailProperties
<1>3. row \in Row /\ row.query = l.query
  BY <1>1, <1>2 DEF Row, Load
<1>4. /\ loads' = (loads \ {l}) \cup {m}
      /\ accumulated' = IF IsCurrent(l) /\ l.kind # "replace" THEN Upsert(accumulated, row) ELSE accumulated
      /\ UNCHANGED <<serverVars, query, generation, offset, paging, initialLoading, appendLoading,
                     exhausted, predicate, comparator, activeLoad, opened>>
  BY DEF StreamNext
<1> HIDE DEF row
<1>5. l.rows \in Seq(Row) /\ Keyed(l.rows, l.query) /\ accumulated \in Seq(Row) /\ Keyed(accumulated, query)
  BY <1>1 DEF Load, ListInv, TypeOK, RowsInv
<1>6. Upsert(l.rows, row) \in Seq(Row) /\ Keyed(Upsert(l.rows, row), l.query)
  BY <1>3, <1>5, UpsertFacts
<1>7. accumulated' \in Seq(Row) /\ Keyed(accumulated', query)
  <2>1. CASE IsCurrent(l) /\ l.kind # "replace"
    <3>1. l.query = query
      BY <2>1 DEF IsCurrent, ListInv, RowsInv
    <3>2. Upsert(accumulated, row) \in Seq(Row) /\ Keyed(Upsert(accumulated, row), query)
      BY <1>3, <1>5, <3>1, UpsertFacts
    <3>3. QED
      BY <1>4, <2>1, <3>2
  <2>2. CASE ~(IsCurrent(l) /\ l.kind # "replace")
    BY <1>4, <1>5, <2>2
  <2>3. QED
    BY <2>1, <2>2
<1>8. /\ m \in Load /\ m.generation = l.generation /\ m.query = l.query
      /\ Keyed(m.rows, m.query)
  <2> DEFINE received == IF IsCurrent(l) /\ l.kind # "replace" THEN l.received + 1 ELSE l.received
             rows == IF IsCurrent(l) /\ l.kind = "replace" THEN Upsert(l.rows, row) ELSE l.rows
  <2>1. received \in Nat
    BY <1>1 DEF Load
  <2>2. rows \in Seq(Row) /\ Keyed(rows, l.query)
    BY <1>5, <1>6
  <2>3. m = [l EXCEPT !.rest = Tail(l.rest), !.received = received, !.rows = rows]
    BY <1>1 DEF Load
  <2> HIDE DEF m, received, rows, Object
  <2>4. Tail(l.rest) \in Seq([id : Ids, state : {"on", "off"}]) \cup {None}
    BY <1>2 DEF Object
  <2>5. m \in Load /\ m.generation = l.generation /\ m.query = l.query /\ m.rows = rows
    BY <1>1, <2>1, <2>2, <2>3, <2>4 DEF Load
  <2>6. QED
    BY <2>2, <2>5
<1> HIDE DEF m
<1>9. TypeOK'
  BY <1>4, <1>7, <1>8 DEF ListInv, TypeOK, serverVars
<1>10. RowsInv'
  BY <1>4, <1>7, <1>8 DEF ListInv, RowsInv
<1>11. QED
  BY <1>9, <1>10 DEF ListInv

\* A stream ends, completely or with an error.
LEMMA Finishes == ASSUME ListInv, NEW l \in loads, Finish(l) PROVE ListInv'
<1>1. l \in Load /\ l.rows \in Seq(Row) /\ l.received \in Nat /\ l.range.pageSize \in Nat
  BY DEF ListInv, TypeOK, Load, ListRange
<1>2. CASE Drop(l)
  <2>1. TypeOK'
    BY <1>2 DEF Drop, ListInv, TypeOK, serverVars
  <2>2. RowsInv'
    BY <1>2 DEF Drop, ListInv, RowsInv
  <2>3. QED
    BY <2>1, <2>2 DEF ListInv
<1>3. CASE IsCurrent(l) /\ FinishRequest(l)
  <2>1. appendLoading' \in BOOLEAN
    BY <1>3 DEF FinishRequest, StopsAppend, ListInv, TypeOK
  <2>2. CASE StepsBack(l)
    <3>1. paging \in Paging /\ paging.pageIndex > 0
      BY <2>2 DEF StepsBack, ListInv, TypeOK, Paging
    <3>2. [paging EXCEPT !.pageIndex = @ - 1] \in Paging \cup {None}
      BY <3>1 DEF Paging
    <3>3. query \in Queries
      BY <1>1, <1>3 DEF IsCurrent, ListInv, RowsInv, Load
    <3>4. (WithoutActive \ {l}) \in SUBSET loads
      BY DEF WithoutActive
    <3>5. QED
      BY <1>3, <2>1, <2>2, <3>2, <3>3, <3>4, RestartFacts DEF FinishRequest
  <2>3. CASE ~StepsBack(l)
    <3>1. /\ initialLoading' = StopsInitial(l) /\ offset' = offset + l.received
          /\ exhausted' = (l.received < l.range.pageSize) /\ loads' = loads \ {l}
          /\ UNCHANGED <<serverVars, query, generation, accumulated, paging, activeLoad, opened, predicate, comparator>>
      BY <1>3, <2>3 DEF FinishRequest
    <3>2. initialLoading' \in BOOLEAN /\ exhausted' \in BOOLEAN /\ offset' \in Nat
      <4>1. offset' \in Nat
        BY <1>1, <3>1 DEF ListInv, TypeOK
      <4>2. initialLoading' \in BOOLEAN
        BY <3>1 DEF StopsInitial, ListInv, TypeOK
      <4>3. exhausted' \in BOOLEAN
        BY <1>1, <3>1
      <4>4. QED
        BY <4>1, <4>2, <4>3
    <3>3. TypeOK'
      BY <2>1, <3>1, <3>2 DEF ListInv, TypeOK, serverVars
    <3>4. RowsInv'
      BY <3>1 DEF ListInv, RowsInv
    <3>5. QED
      BY <3>3, <3>4 DEF ListInv
  <2>4. QED
    BY <2>2, <2>3
<1>4. CASE IsCurrent(l) /\ FinishReplacement(l)
  <2>1. /\ accumulated' = l.rows /\ offset' = Len(l.rows) /\ exhausted' = (Len(l.rows) < l.range.pageSize)
        /\ loads' = loads \ {l}
        /\ UNCHANGED <<serverVars, query, generation, paging, initialLoading, appendLoading, predicate,
                       comparator, activeLoad, opened>>
    BY <1>4 DEF FinishReplacement
  <2>2. offset' \in Nat /\ exhausted' \in BOOLEAN
    BY <1>1, <2>1
  <2>3. Keyed(l.rows, query)
    BY <1>4 DEF IsCurrent, ListInv, RowsInv
  <2>4. TypeOK'
    BY <1>1, <2>1, <2>2 DEF ListInv, TypeOK, serverVars
  <2>5. RowsInv'
    BY <2>1, <2>3 DEF ListInv, RowsInv
  <2>6. QED
    BY <2>4, <2>5 DEF ListInv
<1>5. QED
  BY <1>2, <1>3, <1>4 DEF Finish

\* What leaves the rows and the streams alone.
LEMMA ListViews ==
    ASSUME ListInv, NEW p \in Predicates \cup {Ids}, NEW c \in Comparators \cup {None},
           SetPredicate(p) \/ SetComparator(c)
    PROVE  ListInv'
<1>1. TypeOK'
  BY DEF ListInv, TypeOK, SetPredicate, SetComparator, serverVars
<1>2. RowsInv'
  BY DEF ListInv, RowsInv, SetPredicate, SetComparator
<1>3. QED
  BY <1>1, <1>2 DEF ListInv

\* Only the objects change.
LEMMA ServerMoves ==
    ASSUME ListInv, UNCHANGED listVars, store' \in [Ids -> ObjectState], changes' \in 0..MaxChanges
    PROVE  ListInv'
<1>1. TypeOK'
  BY DEF ListInv, TypeOK, listVars
<1>2. RowsInv'
  BY DEF ListInv, RowsInv, listVars
<1>3. QED
  BY <1>1, <1>2 DEF ListInv

\* Any step of a stream.
LEMMA StreamMoves ==
    ASSUME ListInv, NEW l \in loads, Serve(l) \/ StreamNext(l) \/ StreamComplete(l) \/ StreamFails(l)
    PROVE  ListInv'
BY Serves, RowArrives, Finishes DEF StreamComplete, StreamFails

\* The elements of a sequence.
LEMMA SeqElements == ASSUME NEW S, NEW s \in Seq(S) PROVE \A i \in DOMAIN s : s[i] \in S
BY LenProperties

\* The ids of the rows are known.
LEMMA RowTypes ==
    ASSUME NEW rows \in Seq(Row)
    PROVE  \A i \in DOMAIN rows : rows[i].id \in Ids /\ rows[i].state \in {"on", "off"}
<1>1. \A i \in DOMAIN rows : rows[i] \in Row
  BY SeqElements
<1>2. QED
  BY <1>1 DEF Row

\* A list without a filter or an order of its own shows all rows.
LEMMA ShowsAll ==
    ASSUME NEW rows \in Seq(Row), predicate = Ids, comparator = None
    PROVE  Snapshot(rows) = rows
<1>1. {i \in DOMAIN rows : rows[i].id \in predicate} = DOMAIN rows
  BY RowTypes
<1>2. QED
  BY <1>1, PickAll DEF Snapshot

\* Streams leave the objects and the view alone.
LEMMA StreamFrame ==
    ASSUME NEW l, Serve(l) \/ StreamNext(l) \/ StreamComplete(l) \/ StreamFails(l)
    PROVE  UNCHANGED <<store, changes, predicate, comparator>>
BY DEF Serve, StreamNext, StreamComplete, StreamFails, Finish, Drop, FinishRequest, FinishReplacement,
       Restart, serverVars

\* So do the operations of the list.
LEMMA OperationFrame ==
    ASSUME \/ \E q \in Queries : QueryArrives(q)
           \/ LoadMore \/ RefreshLoaded \/ Reload
           \/ \E s \in PageSizes \cup {None} : SetPaging(s)
           \/ \E i \in 0..N : GoToPage(i)
    PROVE  UNCHANGED <<store, changes, predicate, comparator>>
BY DEF QueryArrives, LoadMore, RefreshLoaded, Reload, SetPaging, GoToPage, serverVars

\* The data source as it is built.
LEMMA ListInvInit == Init => ListInv
<1> SUFFICES ASSUME Init PROVE ListInv
  OBVIOUS
<1>1. TypeOK
  <2>1. 0 \in 0..MaxChanges /\ 0 \in 0..MaxLoads /\ 0 \in Nat
    BY SizeAssumption
  <2>2. {} \subseteq Load /\ {FALSE} \subseteq BOOLEAN
    OBVIOUS
  <2>3. QED
    BY <2>1, <2>2, NoRows DEF Init, TypeOK
<1>2. RowsInv
  BY NoRows DEF Init, RowsInv
<1>3. QED
  BY <1>1, <1>2 DEF ListInv

\* Any step of the data source.
LEMMA ListInvStep == ASSUME ListInv, [Next]_vars PROVE ListInv'
<1>1. CASE ResettingStep
  BY <1>1, Restarts DEF ResettingStep
<1>2. CASE ListStep
  <2>1. Predicates \subseteq Predicates \cup {Ids} /\ None \in Comparators \cup {None}
    OBVIOUS
  <2>2. ASSUME (\E p \in Predicates : SetPredicate(p)) \/ (\E c \in Comparators : SetComparator(c)) PROVE ListInv'
    BY <2>2, ListViews
  <2>3. QED
    BY <1>2, <2>2, Restarts, Loads, StreamMoves DEF ListStep, StreamStep
<1>3. ASSUME NEW i \in Ids, ServerChange(i) PROVE ListInv'
  <2>1. store' \in [Ids -> ObjectState] /\ changes' \in 0..MaxChanges
    BY <1>3, SizeAssumption DEF ServerChange, ListInv, TypeOK
  <2>2. QED
    BY <1>3, <2>1, ServerMoves DEF ServerChange
<1>4. CASE UNCHANGED vars
  <2>1. store' \in [Ids -> ObjectState] /\ changes' \in 0..MaxChanges
    BY <1>4 DEF vars, serverVars, ListInv, TypeOK
  <2>2. QED
    BY <1>4, <2>1, ServerMoves DEF vars
<1>5. QED
  BY <1>1, <1>2, <1>3, <1>4 DEF Next

\* What the invariant says of the rows that are shown.
LEMMA RowsInvFacts == ListInv => TypeOK /\ UniqueRows /\ RowsOfQuery
BY DEF ListInv, RowsInv, Keyed, UniqueRows, RowsOfQuery

\* The data source by itself, whichever of its operations a page uses and however many streams
\* are under way: an object has one row, and every row is of the query shown.
THEOREM ListIsKeyed == Spec => [](TypeOK /\ UniqueRows /\ RowsOfQuery)
<1>1. ListInv /\ [Next]_vars => ListInv'
  BY ListInvStep
<1>2. QED
  BY <1>1, ListInvInit, RowsInvFacts, PTL DEF Spec
=============================================================================
