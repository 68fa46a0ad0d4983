-------------------------- MODULE MemoryStoreProofs -------------------------
(* Theorems about the lists of module Listing and about MemoryStore, for     *)
(* every finite set of certificates, every number of requests and every      *)
(* clock.                                                                    *)
EXTENDS MemoryStore, FiniteSetTheorems, TLAPS

-----------------------------------------------------------------------------
(* Sorting.                                                                  *)

\* R is a strict total order on S.
IsOrder(S, R) ==
    /\ \A x \in S : <<x, x>> \notin R
    /\ \A x, y \in S : x # y => <<x, y>> \in R \/ <<y, x>> \in R
    /\ \A x, y, z \in S : <<x, y>> \in R /\ <<y, z>> \in R => <<x, z>> \in R

\* The elements before x.
Before(S, R, x) == {y \in S : <<y, x>> \in R}

\* A rank is a place in the list.
LEMMA RankRange ==
    ASSUME NEW S, IsFiniteSet(S), NEW R, IsOrder(S, R), NEW x \in S
    PROVE  /\ IsFiniteSet(Before(S, R, x))
           /\ Rank(S, R, x) = Cardinality(Before(S, R, x)) + 1
           /\ Cardinality(S) \in Nat
           /\ Rank(S, R, x) \in 1 .. Cardinality(S)
<1>1. Before(S, R, x) \in SUBSET (S \ {x})
    BY Zenon DEF Before, IsOrder
<1>2. IsFiniteSet(S \ {x}) /\ Cardinality(S \ {x}) = Cardinality(S) - 1
    BY Zenon, FS_RemoveElement
<1>3. IsFiniteSet(Before(S, R, x)) /\ Cardinality(Before(S, R, x)) <= Cardinality(S \ {x})
    BY Zenon, <1>1, <1>2, FS_Subset
<1>4. Cardinality(Before(S, R, x)) \in Nat /\ Cardinality(S) \in Nat
    BY Zenon, <1>3, FS_CardinalityType
<1>5. Rank(S, R, x) = Cardinality(Before(S, R, x)) + 1
    BY Zenon DEF Rank, Before
<1> QED BY <1>2, <1>3, <1>4, <1>5

\* Ranks follow the order.
LEMMA RankOrder ==
    ASSUME NEW S, IsFiniteSet(S), NEW R, IsOrder(S, R), NEW x \in S, NEW y \in S, <<x, y>> \in R
    PROVE  Rank(S, R, x) < Rank(S, R, y)
<1>1. x \notin Before(S, R, x) /\ Before(S, R, x) \cup {x} \in SUBSET Before(S, R, y)
    BY Zenon DEF Before, IsOrder
<1>2. IsFiniteSet(Before(S, R, x)) /\ IsFiniteSet(Before(S, R, y))
    BY Zenon, RankRange
<1>3. Cardinality(Before(S, R, x) \cup {x}) = Cardinality(Before(S, R, x)) + 1
    BY Zenon, <1>1, <1>2, FS_AddElement
<1>4. Cardinality(Before(S, R, x) \cup {x}) <= Cardinality(Before(S, R, y))
    BY Zenon, <1>1, <1>2, FS_Subset
<1>5. Cardinality(Before(S, R, x)) \in Nat /\ Cardinality(Before(S, R, y)) \in Nat
    BY Zenon, <1>2, FS_CardinalityType
<1> QED BY <1>3, <1>4, <1>5, RankRange

\* An interval from 1 has as many elements as its end says.
LEMMA OneTo ==
    ASSUME NEW n \in Nat
    PROVE  IsFiniteSet(1 .. n) /\ Cardinality(1 .. n) = n
BY FS_Interval

\* Every place is taken, by one element.
LEMMA RankBijective ==
    ASSUME NEW S, IsFiniteSet(S), NEW R, IsOrder(S, R)
    PROVE  /\ \A x, y \in S : Rank(S, R, x) = Rank(S, R, y) => x = y
           /\ \A x, y \in S : Rank(S, R, x) < Rank(S, R, y) => <<x, y>> \in R
           /\ \A k \in 1 .. Cardinality(S) : \E x \in S : Rank(S, R, x) = k
<1>1. \A x \in S : Rank(S, R, x) \in 1 .. Cardinality(S)
    BY Zenon, RankRange
<1>2. \A x, y \in S : x # y => Rank(S, R, x) < Rank(S, R, y) \/ Rank(S, R, y) < Rank(S, R, x)
    BY Zenon, RankOrder DEF IsOrder
<1>3. \A x, y \in S : Rank(S, R, x) = Rank(S, R, y) => x = y
    BY <1>1, <1>2
<1>4. \A x, y \in S : Rank(S, R, x) < Rank(S, R, y) => <<x, y>> \in R
    <2> SUFFICES ASSUME NEW x \in S, NEW y \in S, Rank(S, R, x) < Rank(S, R, y), <<x, y>> \notin R PROVE FALSE
        OBVIOUS
    <2>1. CASE x = y
        BY <1>1, <2>1
    <2>2. CASE x # y
        <3>1. Rank(S, R, y) < Rank(S, R, x)
            BY Zenon, <2>2, RankOrder DEF IsOrder
        <3> QED BY <1>1, <3>1
    <2> QED BY Zenon, <2>1, <2>2
<1>5. \A k \in 1 .. Cardinality(S) : \E x \in S : Rank(S, R, x) = k
    <2> DEFINE f == [x \in S |-> Rank(S, R, x)]
    <2>1. f \in Injection(S, 1 .. Cardinality(S))
        BY Zenon, <1>1, <1>3 DEF Injection, IsInjective
    <2>2. Cardinality(S) \in Nat
        BY Zenon, FS_CardinalityType
    <2>3. IsFiniteSet(1 .. Cardinality(S)) /\ Cardinality(1 .. Cardinality(S)) = Cardinality(S)
        BY Zenon, <2>2, OneTo
    <2>4. f \in Surjection(S, 1 .. Cardinality(S))
        BY Zenon, <2>1, <2>3, FS_Injection
    <2> QED BY Zenon, <2>4 DEF Surjection
<1> QED BY Zenon, <1>3, <1>4, <1>5

\* A sorted sequence has every element at its rank.
LEMMA SortedAtRank ==
    ASSUME NEW S, IsFiniteSet(S), NEW R, IsOrder(S, R), NEW s \in [1 .. Cardinality(S) -> S],
           \A j, k \in 1 .. Cardinality(S) : j < k => <<s[j], s[k]>> \in R
    PROVE  /\ \A k \in 1 .. Cardinality(S) : Rank(S, R, s[k]) = k
           /\ \A x \in S : s[Rank(S, R, x)] = x
<1> DEFINE n == Cardinality(S)
<1>1. n \in Nat /\ IsFiniteSet(1 .. n) /\ Cardinality(1 .. n) = n
    <2>1. n \in Nat
        BY Zenon, FS_CardinalityType
    <2> QED BY Zenon, <2>1, OneTo
<1>2. \A j, k \in 1 .. n : s[j] = s[k] => j = k
    <2> SUFFICES ASSUME NEW j \in 1 .. n, NEW k \in 1 .. n, s[j] = s[k], j # k PROVE FALSE
        OBVIOUS
    <2>1. j < k \/ k < j
        BY <1>1
    <2>2. <<s[j], s[k]>> \in R \/ <<s[k], s[j]>> \in R
        BY Zenon, <2>1
    <2> QED BY Zenon, <2>2 DEF IsOrder
<1>3. s \in Injection(1 .. n, S)
    BY Zenon, <1>2 DEF Injection, IsInjective
<1>4. s \in Surjection(1 .. n, S)
    BY Zenon, <1>1, <1>3, FS_Injection
<1>5. ASSUME NEW k \in 1 .. n PROVE Rank(S, R, s[k]) = k
    <2> DEFINE T == 1 .. k - 1
               f == [j \in T |-> s[j]]
    <2>1. k \in Nat /\ T \subseteq 1 .. n /\ IsFiniteSet(T) /\ Cardinality(T) = k - 1
        <3>1. k \in Nat /\ k - 1 \in Nat /\ T \subseteq 1 .. n
            BY <1>1
        <3> QED BY Zenon, <3>1, OneTo
    <2>2. \A j \in T : <<s[j], s[k]>> \in R /\ s[j] \in S
        BY <1>1, <2>1
    <2>3. \A x \in Before(S, R, s[k]) : \E j \in T : s[j] = x
        <3> SUFFICES ASSUME NEW x \in S, <<x, s[k]>> \in R PROVE \E j \in T : s[j] = x
            BY Zenon DEF Before
        <3>1. PICK j \in 1 .. n : s[j] = x
            BY Zenon, <1>4 DEF Surjection
        <3>2. ~(k < j) /\ j # k
            BY Zenon, <3>1 DEF IsOrder
        <3> QED BY <1>1, <3>1, <3>2
    <2>4. f \in Bijection(T, Before(S, R, s[k]))
        <3>1. f \in [T -> Before(S, R, s[k])]
            BY Zenon, <2>2 DEF Before
        <3>2. IsInjective(f)
            BY Zenon, <1>2, <2>1 DEF IsInjective
        <3>3. \A x \in Before(S, R, s[k]) : \E j \in T : f[j] = x
            BY Zenon, <2>3
        <3> QED BY Zenon, <3>1, <3>2, <3>3 DEF Bijection, Injection, Surjection
    <2>5. Cardinality(Before(S, R, s[k])) = k - 1
        BY <2>1, <2>4, FS_Bijection DEF ExistsBijection
    <2> QED BY <2>1, <2>5, RankRange
<1>6. \A x \in S : s[Rank(S, R, x)] = x
    BY Zenon, <1>4, <1>5 DEF Surjection
<1> QED BY Zenon, <1>5, <1>6

\* The sorted sequence exists: what sorting returns has every element at its rank.
LEMMA SortedFacts ==
    ASSUME NEW S, IsFiniteSet(S), NEW R, IsOrder(S, R)
    PROVE  /\ Sorted(S, R) \in [1 .. Cardinality(S) -> S]
           /\ \A k \in 1 .. Cardinality(S) : Rank(S, R, Sorted(S, R)[k]) = k
           /\ \A x \in S : Sorted(S, R)[Rank(S, R, x)] = x
<1> DEFINE n == Cardinality(S)
           s == [k \in 1 .. n |-> CHOOSE x \in S : Rank(S, R, x) = k]
           P(r) == \A j, k \in 1 .. n : j < k => <<r[j], r[k]>> \in R
<1>1. \A k \in 1 .. n : s[k] \in S /\ Rank(S, R, s[k]) = k
    BY RankBijective
<1>2. s \in [1 .. n -> S]
    BY Zenon, <1>1
<1>3. P(s)
    BY <1>1, RankBijective
<1>4. Sorted(S, R) \in [1 .. n -> S] /\ P(Sorted(S, R))
    <2> HIDE DEF s
    <2> QED BY Zenon, <1>2, <1>3 DEF Sorted
<1> QED BY Zenon, <1>4, SortedAtRank

-----------------------------------------------------------------------------
(* Paging.                                                                   *)

\* The number of rows past the offset and within the limit.
PageEnd(n, limit, offset) == IF limit > 0 /\ offset + limit < n THEN offset + limit ELSE n

\* What the Go code returns: from the offset on, every place up to the limit.
LEMMA SliceFacts ==
    ASSUME NEW S, IsFiniteSet(S), NEW R, NEW q, q.limit \in Nat, q.offset \in Nat, IsOrder(S, Directed(R, q))
    PROVE  LET n == Cardinality(S)
               page == SortAndPage(S, R, q)
           IN  /\ q.offset >= n => page = <<>>
               /\ q.offset < n =>
                     page = [k \in 1 .. PageEnd(n, q.limit, q.offset) - q.offset
                                |-> Sorted(S, Directed(R, q))[q.offset + k]]
<1> DEFINE n == Cardinality(S)
           s == Sorted(S, Directed(R, q))
<1>1. n \in Nat
    BY Zenon, FS_CardinalityType
<1>2. s \in [1 .. n -> S]
    BY Zenon, SortedFacts
<1> HIDE DEF n, s
<1>3. Len(s) = n
    BY <1>1, <1>2
<1> QED BY <1>1, <1>3 DEF SortAndPage, Slice, PageEnd, s, n

\* Go's sort and slice is SQL's ORDER BY, LIMIT and OFFSET: the two pages are
\* equal for every finite set of rows, every strict total order on it and every
\* query whose offset comes with a limit (sortAndPage; appendSQLSort,
\* appendSQLLimitOffset).
THEOREM PagesAgree ==
    ASSUME NEW S, IsFiniteSet(S), NEW R, NEW q, q.limit \in Nat, q.offset \in Nat,
           q.offset > 0 => q.limit > 0, IsOrder(S, Directed(R, q))
    PROVE  SortAndPage(S, R, q) = SqlPage(S, R, q)
<1> DEFINE n == Cardinality(S)
           D == Directed(R, q)
           s == Sorted(S, D)
           skip == IF q.limit > 0 THEN q.offset ELSE 0
           last == IF q.limit > 0 THEN skip + q.limit ELSE n
           kept == {x \in S : Rank(S, D, x) \in skip + 1 .. last}
           end == PageEnd(n, q.limit, q.offset)
<1>1. n \in Nat
    BY Zenon, FS_CardinalityType
<1>2. /\ s \in [1 .. n -> S]
      /\ \A k \in 1 .. n : Rank(S, D, s[k]) = k
      /\ \A x \in S : Rank(S, D, x) \in 1 .. n /\ s[Rank(S, D, x)] = x
    BY Zenon, SortedFacts, RankRange
<1>3. skip = q.offset
    OBVIOUS
<1>4. SqlPage(S, R, q) = [k \in 1 .. Cardinality(kept) |-> CHOOSE x \in kept : Rank(S, D, x) = skip + k]
    BY Zenon DEF SqlPage
<1>5. CASE q.offset >= n
    <2>1. kept = {}
        BY <1>1, <1>2, <1>3, <1>5
    <2>2. Cardinality(kept) = 0
        BY Zenon, <2>1, FS_EmptySet
    <2>3. SortAndPage(S, R, q) = <<>>
        BY Zenon, <1>5, SliceFacts
    <2> HIDE DEF kept, skip
    <2> QED BY <1>4, <2>2, <2>3
<1>6. CASE q.offset < n
    <2> DEFINE m == end - q.offset
               f == [k \in 1 .. m |-> s[q.offset + k]]
    <2>1. m \in Nat /\ q.offset + m <= n /\ (q.limit > 0 => m <= q.limit)
        BY <1>1, <1>6 DEF PageEnd
    <2>2. \A k \in 1 .. m : q.offset + k \in 1 .. n /\ q.offset + k \in skip + 1 .. last
        BY <1>1, <1>3, <2>1
    <2>3. \A x \in kept : Rank(S, D, x) - q.offset \in 1 .. m
        BY <1>1, <1>2, <1>3, <1>6 DEF PageEnd
    <2>4. \A k \in 1 .. m : s[q.offset + k] \in kept /\ Rank(S, D, s[q.offset + k]) = q.offset + k
        BY Zenon, <1>2, <2>2
    <2>5. \A x \in kept : \E k \in 1 .. m : s[q.offset + k] = x
        BY <1>1, <1>2, <2>3
    <2> HIDE DEF m, kept, skip, s, D
    <2>6. f \in Bijection(1 .. m, kept)
        <3>1. f \in [1 .. m -> kept]
            BY Zenon, <2>4
        <3>2. IsInjective(f)
            BY <2>1, <2>4 DEF IsInjective
        <3>3. \A x \in kept : \E k \in 1 .. m : f[k] = x
            BY Zenon, <2>5
        <3> QED BY Zenon, <3>1, <3>2, <3>3 DEF Bijection, Injection, Surjection
    <2>7. Cardinality(kept) = m
        BY <2>1, <2>6, OneTo, FS_Bijection DEF ExistsBijection
    <2>8. ASSUME NEW k \in 1 .. m PROVE (CHOOSE x \in kept : Rank(S, D, x) = skip + k) = s[q.offset + k]
        <3>1. \A x \in kept : Rank(S, D, x) = skip + k => x = s[q.offset + k]
            BY Zenon, <1>2, <1>3 DEF kept
        <3>2. s[q.offset + k] \in kept /\ Rank(S, D, s[q.offset + k]) = skip + k
            BY Zenon, <1>3, <2>4
        <3> QED BY Zenon, <3>1, <3>2
    <2>9. SqlPage(S, R, q) = f
        BY Zenon, <1>4, <2>7, <2>8
    <2>10. SortAndPage(S, R, q) = f
        BY <1>6, SliceFacts DEF m, s, D
    <2> QED BY Zenon, <2>9, <2>10
<1> QED BY <1>1, <1>5, <1>6

-----------------------------------------------------------------------------
(* The tables.                                                               *)

Events == [id : EventIds, at : Nat, action : Actions, resource : Nat]

Tables == [certificate : [Ids -> Rows \cup {NoRow}], replaced : SUBSET Ids, event : Seq(Events)]

\* Well formed tables at time t: replacements are for certificates that exist,
\* events lie in the past and have identifiers of their own.
TablesOK(d, t) ==
    /\ d \in Tables
    /\ d.replaced \subseteq Present(d.certificate)
    /\ \A k \in 1 .. Len(d.event) : d.event[k].at <= t
    /\ \A j, k \in 1 .. Len(d.event) : d.event[j].id = d.event[k].id => j = k

Requests == [action : Actions, id : Nat, at : Nat]

\* A table only grows, and a row keeps its time of creation.
Grows(t, u) == \A i \in Present(t) : i \in Present(u) /\ u[i].created = t[i].created

\* What is kept of the events keeps its order and its identifiers.
LEMMA KeptFacts ==
    ASSUME NEW s \in Seq(Events), NEW b \in Nat,
           \A j, k \in 1 .. Len(s) : s[j].id = s[k].id => j = k
    PROVE  /\ Kept(s, b) \in Seq(Events)
           /\ \A k \in 1 .. Len(Kept(s, b)) : \E j \in 1 .. Len(s) : Kept(s, b)[k] = s[j]
           /\ \A j, k \in 1 .. Len(Kept(s, b)) : Kept(s, b)[j].id = Kept(s, b)[k].id => j = k
<1> DEFINE places == {k \in 1 .. Len(s) : s[k].at >= b}
           R == {p \in places \X places : p[1] < p[2]}
           place == Sorted(places, R)
           n == Cardinality(places)
<1>1. Len(s) \in Nat /\ places \subseteq 1 .. Len(s)
    OBVIOUS
<1>2. IsFiniteSet(places) /\ n \in Nat
    BY Zenon, <1>1, OneTo, FS_Subset, FS_CardinalityType
<1>3. IsOrder(places, R)
    BY <1>1 DEF IsOrder
<1>4. place \in [1 .. n -> places] /\ \A k \in 1 .. n : Rank(places, R, place[k]) = k
    BY Zenon, <1>2, <1>3, SortedFacts
<1>5. Kept(s, b) = [k \in 1 .. n |-> s[place[k]]]
    BY Zenon DEF Kept
<1> HIDE DEF n, place, places, R
<1>6. \A k \in 1 .. n : place[k] \in 1 .. Len(s) /\ s[place[k]] \in Events
    <2>1. \A j \in 1 .. Len(s) : s[j] \in Events
        OBVIOUS
    <2>2. \A k \in 1 .. n : place[k] \in 1 .. Len(s)
        BY Zenon, <1>1, <1>4
    <2> QED BY Zenon, <2>1, <2>2
<1>7. Kept(s, b) \in Seq(Events) /\ Len(Kept(s, b)) = n
    BY <1>2, <1>5, <1>6
<1>8. \A j, k \in 1 .. n : s[place[j]].id = s[place[k]].id => j = k
    BY Zenon, <1>4, <1>6
<1> QED BY ZenonT(60), <1>5, <1>6, <1>7, <1>8

\* Pruning leaves well formed tables.
LEMMA PruneOK ==
    ASSUME NEW t \in Nat, NEW d, TablesOK(d, t), NEW b \in Nat, NEW e, e = [d EXCEPT !.event = Kept(@, b)]
    PROVE  /\ TablesOK(e, t)
           /\ e.certificate = d.certificate /\ e.replaced = d.replaced
<1>1. /\ d.event \in Seq(Events) /\ d \in Tables
      /\ \A j, k \in 1 .. Len(d.event) : d.event[j].id = d.event[k].id => j = k
    BY Zenon DEF TablesOK, Tables
<1>2. /\ e.certificate = d.certificate /\ e.replaced = d.replaced /\ e.event = Kept(d.event, b)
      /\ e = [certificate |-> d.certificate, replaced |-> d.replaced, event |-> Kept(d.event, b)]
    BY Zenon, <1>1 DEF Tables
<1>3. e \in Tables
    BY SMTT(60), <1>1, <1>2, KeptFacts DEF Tables
<1>4. \A k \in 1 .. Len(e.event) : e.event[k].at <= t
    <2>1. \A k \in 1 .. Len(e.event) : \E j \in 1 .. Len(d.event) : e.event[k] = d.event[j]
        BY <1>1, <1>2, KeptFacts
    <2> QED BY Zenon, <2>1 DEF TablesOK
<1>5. \A j, k \in 1 .. Len(e.event) : e.event[j].id = e.event[k].id => j = k
    BY <1>1, <1>2, KeptFacts
<1> QED BY Zenon, <1>2, <1>3, <1>4, <1>5 DEF TablesOK

\* So does writing one row, which keeps its time of creation.
WritesRow(d, e, i, row) ==
    /\ d.certificate[i] # NoRow => row.created = d.certificate[i].created
    /\ e = [certificate |-> [d.certificate EXCEPT ![i] = row], replaced |-> d.replaced, event |-> d.event]

LEMMA RowOK ==
    ASSUME NEW t \in Nat, NEW d, TablesOK(d, t), NEW i \in Ids, NEW row \in Rows, NEW e, WritesRow(d, e, i, row)
    PROVE  /\ TablesOK(e, t) /\ Grows(d.certificate, e.certificate)
           /\ e.event = d.event /\ e.replaced = d.replaced
           /\ \A j \in Ids \ {i} : e.certificate[j] = d.certificate[j]
<1>1. d \in Tables
    BY Zenon DEF TablesOK
<1>2. /\ e.certificate = [d.certificate EXCEPT ![i] = row] /\ e.event = d.event /\ e.replaced = d.replaced
      /\ d.certificate[i] # NoRow => row.created = d.certificate[i].created
      /\ e = [certificate |-> e.certificate, replaced |-> d.replaced, event |-> d.event]
    BY Zenon DEF WritesRow
<1>3. e.certificate \in [Ids -> Rows \cup {NoRow}]
    BY Zenon, <1>1, <1>2 DEF Tables
<1>4. e \in Tables
    BY Zenon, <1>1, <1>2, <1>3 DEF Tables
<1>5. Grows(d.certificate, e.certificate)
    BY Zenon, <1>1, <1>2, RowAssumption DEF Tables, Grows, Present
<1>6. Present(d.certificate) \subseteq Present(e.certificate)
    BY Zenon, <1>5 DEF Grows
<1> QED BY Zenon, <1>1, <1>2, <1>4, <1>5, <1>6 DEF TablesOK, Tables

\* What the first write of a transaction does to well formed tables: it writes
\* one row, requests one replacement, for a valid certificate, or prunes events.
WriteEffect(d, e, r, t) ==
    /\ TablesOK(e, t) /\ Grows(d.certificate, e.certificate)
    /\ \A j \in Ids \ {r.id} : e.certificate[j] = d.certificate[j] /\ (j \in e.replaced <=> j \in d.replaced)
    /\ r.action = "prune" => e.certificate = d.certificate /\ e.replaced = d.replaced
    /\ r.action # "prune" => e.event = d.event
    /\ \A i \in e.replaced \ d.replaced : d.certificate[i].status = "valid"

LEMMA FirstWriteFacts ==
    ASSUME NEW t \in Nat, NEW d, TablesOK(d, t), NEW r \in Requests, r.action # "prune" => r.id \in Ids,
           NEW e \in FirstWrite(d, r)
    PROVE  WriteEffect(d, e, r, t)
<1> DEFINE i == r.id
           c == d.certificate[i]
<1>1. r.action \in Actions /\ r.id \in Nat /\ r.at \in Nat
    BY Zenon DEF Requests
<1>2. d \in Tables /\ d.certificate \in [Ids -> Rows \cup {NoRow}] /\ d.replaced \subseteq Present(d.certificate)
    BY Zenon DEF TablesOK, Tables
<1>3. ASSUME NEW row \in Rows, i \in Ids, c # NoRow => row.created = c.created,
             e = [d EXCEPT !.certificate[i] = row], r.action # "prune"
      PROVE  WriteEffect(d, e, r, t)
    <2>1. e = [certificate |-> [d.certificate EXCEPT ![i] = row], replaced |-> d.replaced, event |-> d.event]
        BY Zenon, <1>2, <1>3 DEF Tables
    <2>2. WritesRow(d, e, i, row)
        BY Zenon, <1>3, <2>1 DEF WritesRow
    <2>3. /\ TablesOK(e, t) /\ Grows(d.certificate, e.certificate)
          /\ e.event = d.event /\ e.replaced = d.replaced
          /\ \A j \in Ids \ {i} : e.certificate[j] = d.certificate[j]
        <3>1. i \in Ids
            BY Zenon, <1>3
        <3> HIDE DEF i
        <3> QED BY <2>2, <3>1, RowOK
    <2> QED BY Zenon, <1>3, <2>3 DEF WriteEffect
<1>4. ASSUME c \in Rows, NEW st \in Statuses, NEW b \in BOOLEAN
      PROVE  /\ [c EXCEPT !.status = st] \in Rows /\ [c EXCEPT !.status = st].created = c.created
             /\ [c EXCEPT !.notified = b] \in Rows /\ [c EXCEPT !.notified = b].created = c.created
    BY Zenon, <1>4 DEF Rows
<1>5. CASE r.action = "issue"
    <2>1. c = NoRow /\ e = [d EXCEPT !.certificate[i] = NewRow(r.at)] /\ i \in Ids
        BY Zenon, <1>5 DEF FirstWrite
    <2>2. NewRow(r.at) \in Rows
        BY Zenon, <1>1 DEF NewRow, Rows, Statuses
    <2> QED BY Zenon, <1>3, <1>5, <2>1, <2>2
<1>6. CASE r.action \in {"revoke", "suspend", "resume", "warn"}
    <2>1. PICK row : /\ \/ row = [c EXCEPT !.status = "revoked"] \/ row = [c EXCEPT !.status = "suspended"]
                        \/ row = [c EXCEPT !.status = "valid"] \/ row = [c EXCEPT !.notified = TRUE]
                     /\ c # NoRow /\ e = [d EXCEPT !.certificate[i] = row]
        BY Zenon, <1>6 DEF FirstWrite, IfStatus
    <2>2. i \in Ids /\ c \in Rows
        BY Zenon, <1>2, <1>6, <2>1
    <2>3. row \in Rows /\ row.created = c.created
        BY Zenon, <1>4, <2>1, <2>2 DEF Statuses
    <2> QED BY Zenon, <1>3, <1>6, <2>1, <2>2, <2>3
<1>7. CASE r.action = "replace"
    <2>1. c # NoRow /\ c.status = "valid" /\ e = [d EXCEPT !.replaced = @ \cup {i}] /\ i \in Ids
        BY Zenon, <1>7 DEF FirstWrite, Replacement
    <2>2. /\ e.certificate = d.certificate /\ e.event = d.event /\ e.replaced = d.replaced \cup {i}
          /\ e = [certificate |-> d.certificate, replaced |-> d.replaced \cup {i}, event |-> d.event]
        BY Zenon, <1>2, <2>1 DEF Tables
    <2>3. e \in Tables /\ e.replaced \subseteq Present(e.certificate)
        BY <1>2, <2>1, <2>2 DEF Tables, Present
    <2>4. TablesOK(e, t) /\ Grows(d.certificate, e.certificate)
        BY Zenon, <2>2, <2>3 DEF TablesOK, Grows
    <2> QED BY Zenon, <1>7, <2>1, <2>2, <2>4 DEF WriteEffect
<1>8. CASE r.action = "prune"
    <2>1. e = [d EXCEPT !.event = Kept(@, i)]
        BY Zenon, <1>8 DEF FirstWrite
    <2> QED BY <1>1, <1>8, <2>1, PruneOK DEF WriteEffect, Grows
<1> QED BY Zenon, <1>1, <1>5, <1>6, <1>7, <1>8 DEF Actions

\* Recording the event of a transaction.
LEMMA EventOK ==
    ASSUME NEW t \in Nat, NEW d, TablesOK(d, t), NEW r \in Requests, r.at <= t, NEW e \in FreeEventIds(d)
    PROVE  /\ TablesOK(WithEvent(d, e, r), t)
           /\ WithEvent(d, e, r).certificate = d.certificate
           /\ WithEvent(d, e, r).replaced = d.replaced
           /\ WithEvent(d, e, r).event =
                 Append(d.event, [id |-> e, at |-> r.at, action |-> r.action, resource |-> r.id])
<1> DEFINE x == [id |-> e, at |-> r.at, action |-> r.action, resource |-> r.id]
           w == WithEvent(d, e, r)
<1>1. d \in Tables /\ d.event \in Seq(Events) /\ e \in EventIds /\ \A k \in 1 .. Len(d.event) : d.event[k].id # e
    <2>1. d \in Tables /\ d.event \in Seq(Events)
        BY Zenon DEF TablesOK, Tables
    <2> QED BY Zenon, <2>1 DEF FreeEventIds
<1>2. x \in Events /\ x.id = e /\ x.at = r.at
    BY Zenon, <1>1 DEF Events, Requests
<1>3. /\ w.certificate = d.certificate /\ w.replaced = d.replaced /\ w.event = Append(d.event, x)
      /\ w = [certificate |-> d.certificate, replaced |-> d.replaced, event |-> Append(d.event, x)]
    <2>1. w = [d EXCEPT !.event = Append(d.event, x)]
        BY Zenon DEF WithEvent
    <2> HIDE DEF w, x
    <2> QED BY Zenon, <1>1, <2>1 DEF Tables
<1> HIDE DEF x, w
<1>4. w.event \in Seq(Events) /\ Len(w.event) = Len(d.event) + 1
    BY <1>1, <1>2, <1>3
<1>5. \A k \in 1 .. Len(w.event) : w.event[k] = IF k <= Len(d.event) THEN d.event[k] ELSE x
    <2> DEFINE s == d.event
    <2> HIDE DEF s
    <2>1. s \in Seq(Events) /\ w.event = Append(s, x)
        BY Zenon, <1>1, <1>3 DEF s
    <2>2. \A k \in 1 .. Len(s) + 1 : Append(s, x)[k] = IF k <= Len(s) THEN s[k] ELSE x
        BY <1>2, <2>1
    <2> QED BY Zenon, <1>4, <2>1, <2>2 DEF s
<1>6. w \in Tables
    BY Zenon, <1>1, <1>3, <1>4 DEF Tables
<1>7. \A k \in 1 .. Len(w.event) : w.event[k].at <= t
    BY SMTT(60), <1>1, <1>2, <1>4, <1>5 DEF TablesOK
<1>8. ASSUME NEW j \in 1 .. Len(w.event), NEW k \in 1 .. Len(w.event), w.event[j].id = w.event[k].id PROVE j = k
    <2>1. \A l \in 1 .. Len(w.event) : (w.event[l] = x /\ l = Len(d.event) + 1)
                                          \/ (w.event[l] = d.event[l] /\ l \in 1 .. Len(d.event))
        <3>1. Len(d.event) \in Nat
            BY <1>1
        <3> HIDE DEF x
        <3> TAKE l \in 1 .. Len(w.event)
        <3>2. CASE l <= Len(d.event)
            BY <1>4, <1>5, <3>1, <3>2
        <3>3. CASE ~(l <= Len(d.event))
            BY <1>4, <1>5, <3>1, <3>3
        <3> QED BY Zenon, <3>2, <3>3
    <2> QED BY Zenon, <1>1, <1>2, <1>8, <2>1 DEF TablesOK
<1>9. TablesOK(w, t)
    BY Zenon, <1>3, <1>6, <1>7, <1>8 DEF TablesOK
<1> QED BY Zenon, <1>3, <1>9 DEF x, w
-----------------------------------------------------------------------------
(* The inductive invariant.                                                  *)

\* The certificates a walk goes through.
Walked(t, w) == {i \in Present(t) : Accepts(w.attr, Attr[i])}

\* Every certificate of the start that the client has not seen is still listed,
\* and at least as far down the list as the client has come.
WalkOK(w, t) ==
    /\ w.offset \in Nat /\ w.seen \subseteq Ids /\ w.start \subseteq Ids
    /\ w = [attr |-> w.attr, sort |-> w.sort, offset |-> w.offset, start |-> w.start,
            seen |-> w.seen, state |-> w.state]
    /\ w.state = "walking" =>
          \A x \in w.start \ w.seen :
              x \in Walked(t, w) /\ Rank(Walked(t, w), Directed(Earlier(t), w), x) > w.offset
    /\ w.state = "done" => w.start \subseteq w.seen

RequestOK(p) ==
    /\ req[p].at <= now
    /\ pc[p] # "idle" /\ req[p].action # "prune" => req[p].id \in Ids

\* A request inside WithinTx holds the lock and works on the tables, or on what
\* its first write made of them.
InsideOK(p) ==
    /\ pc[p] \in {"entered", "written"} <=> lock = p
    /\ pc[p] = "entered" => tx = db
    /\ pc[p] = "written" => tx \in FirstWrite(db, req[p])

MemoryInv ==
    /\ now \in 0 .. MaxTime /\ requests \in 0 .. MaxRequests
    /\ TablesOK(db, now)
    /\ lock \in Procs \cup {NoProc} /\ (lock = NoProc => tx = db)
    /\ pc \in [Procs -> {"idle", "checked", "entered", "written"}]
    /\ req \in [Procs -> Requests]
    /\ \A p \in Procs : RequestOK(p) /\ InsideOK(p)
    /\ alias = FALSE
    /\ WalkOK(pager, db.certificate)

-----------------------------------------------------------------------------
(* The orders of the lists.                                                  *)

\* What the direction does to an order.
LEMMA DirectedIs ==
    ASSUME NEW A, NEW R \in SUBSET (A \X A), NEW q, NEW x, NEW y
    PROVE  <<x, y>> \in Directed(R, q) <=> IF q.sort = "desc" THEN <<y, x>> \in R ELSE <<x, y>> \in R
BY DEF Directed

\* A total order read backwards is a total order.
LEMMA DirectedOrder ==
    ASSUME NEW A, NEW R \in SUBSET (A \X A), NEW q, NEW S, IsOrder(S, R)
    PROVE  IsOrder(S, Directed(R, q))
<1>1. CASE q.sort = "desc"
    <2>1. \A x, y : <<x, y>> \in Directed(R, q) <=> <<y, x>> \in R
        BY Zenon, <1>1, DirectedIs
    <2> QED BY Zenon, <2>1 DEF IsOrder
<1>2. CASE q.sort # "desc"
    BY Zenon, <1>2 DEF Directed
<1> QED BY Zenon, <1>1, <1>2

\* Certificates are ordered by creation, and by expiry, and by id.
LEMMA EarlierOrder ==
    ASSUME NEW t \in [Ids -> Rows \cup {NoRow}], NEW S \in SUBSET Present(t), NEW q
    PROVE  IsFiniteSet(S) /\ IsOrder(S, Directed(Earlier(t), q))
<1>1. Present(t) \subseteq Ids /\ IsFiniteSet(S) /\ Ids \subseteq Nat
    BY Zenon, ListingAssumption, FS_Subset DEF Present
<1>2. \A x \in Present(t) : t[x].created \in Nat /\ x \in Nat
    BY Zenon, <1>1 DEF Present, Rows
<1>3. Earlier(t) \in SUBSET (Present(t) \X Present(t))
    BY Zenon DEF Earlier
<1>4. \A x, y \in Present(t) :
         <<x, y>> \in Earlier(t) <=> (t[x].created < t[y].created \/ (t[x].created = t[y].created /\ x < y))
    BY Zenon DEF Earlier
<1>5. IsOrder(S, Earlier(t))
    BY <1>2, <1>4 DEF IsOrder
<1> QED BY Zenon, <1>1, <1>3, <1>5, DirectedOrder

LEMMA SoonerOrder ==
    ASSUME NEW S \in SUBSET Ids, NEW q
    PROVE  IsFiniteSet(S) /\ IsOrder(S, Sooner) /\ IsOrder(S, Directed(Sooner, q)) /\ IsOrder(S, Directed(ById, q))
<1>1. IsFiniteSet(S) /\ Ids \subseteq Nat /\ \A i \in Ids : NotAfter[i] \in Nat
    BY Zenon, ListingAssumption, FS_Subset
<1>2. Sooner \in SUBSET (Ids \X Ids) /\ ById \in SUBSET (Ids \X Ids)
    BY Zenon DEF Sooner, ById
<1>3. \A x, y \in Ids :
         <<x, y>> \in Sooner <=> (NotAfter[x] < NotAfter[y] \/ (NotAfter[x] = NotAfter[y] /\ x < y))
    BY Zenon DEF Sooner
<1>4. \A x, y \in Ids : <<x, y>> \in ById <=> x < y
    BY Zenon DEF ById
<1>5. IsOrder(S, Sooner)
    BY <1>1, <1>3 DEF IsOrder
<1>6. IsOrder(S, ById)
    BY <1>1, <1>4 DEF IsOrder
<1> QED BY Zenon, <1>1, <1>2, <1>5, <1>6, DirectedOrder

\* Nobody moves up the list: rows that are added or changed leave every
\* certificate at least as far down as it was.
LEMMA RankGrows ==
    ASSUME NEW t \in [Ids -> Rows \cup {NoRow}], NEW u \in [Ids -> Rows \cup {NoRow}], Grows(t, u),
           NEW w, NEW x \in Walked(t, w)
    PROVE  /\ x \in Walked(u, w)
           /\ Rank(Walked(t, w), Directed(Earlier(t), w), x) <= Rank(Walked(u, w), Directed(Earlier(u), w), x)
<1> DEFINE S == Walked(t, w)
           V == Walked(u, w)
           D == Directed(Earlier(t), w)
           E == Directed(Earlier(u), w)
<1>1. S \subseteq V /\ S \subseteq Present(t) /\ V \subseteq Present(u)
    BY Zenon DEF Walked, Grows
<1>2. Earlier(t) \in SUBSET (Present(t) \X Present(t)) /\ Earlier(u) \in SUBSET (Present(u) \X Present(u))
    BY Zenon DEF Earlier
<1>3. \A y, z \in Present(t) : <<y, z>> \in Earlier(t) => <<y, z>> \in Earlier(u)
    BY Zenon DEF Earlier, Grows
<1>4. \A y \in S : <<y, x>> \in D => <<y, x>> \in E
    BY Zenon, <1>1, <1>2, <1>3, DirectedIs
<1>5. Before(S, D, x) \in SUBSET Before(V, E, x)
    BY Zenon, <1>1, <1>4 DEF Before
<1>6. IsFiniteSet(S) /\ IsOrder(S, D) /\ IsFiniteSet(V) /\ IsOrder(V, E)
    BY Zenon, <1>1, EarlierOrder
<1>7. x \in V /\ IsFiniteSet(Before(V, E, x)) /\ IsFiniteSet(Before(S, D, x))
    BY Zenon, <1>1, <1>6, RankRange
<1>8. Cardinality(Before(S, D, x)) <= Cardinality(Before(V, E, x))
    BY Zenon, <1>5, <1>7, FS_Subset
<1>9. /\ Rank(S, D, x) = Cardinality(Before(S, D, x)) + 1 /\ Rank(V, E, x) = Cardinality(Before(V, E, x)) + 1
      /\ Cardinality(Before(S, D, x)) \in Nat /\ Cardinality(Before(V, E, x)) \in Nat
    BY Zenon, <1>1, <1>6, <1>7, RankRange, FS_CardinalityType
<1> QED BY <1>7, <1>8, <1>9

\* A walk goes on as it should while the table grows.
LEMMA WalkGoesOn ==
    ASSUME NEW w, NEW t \in [Ids -> Rows \cup {NoRow}], NEW u \in [Ids -> Rows \cup {NoRow}],
           Grows(t, u), WalkOK(w, t)
    PROVE  WalkOK(w, u)
<1>1. ASSUME w.state = "walking", NEW x \in w.start \ w.seen
      PROVE  x \in Walked(u, w) /\ Rank(Walked(u, w), Directed(Earlier(u), w), x) > w.offset
    <2>1. x \in Walked(t, w) /\ Rank(Walked(t, w), Directed(Earlier(t), w), x) > w.offset /\ w.offset \in Nat
        BY Zenon, <1>1 DEF WalkOK
    <2>2. /\ x \in Walked(u, w)
          /\ Rank(Walked(t, w), Directed(Earlier(t), w), x) <= Rank(Walked(u, w), Directed(Earlier(u), w), x)
        BY SMTT(60), <2>1, RankGrows
    <2>3. /\ Rank(Walked(t, w), Directed(Earlier(t), w), x) \in Int
          /\ Rank(Walked(u, w), Directed(Earlier(u), w), x) \in Int
        <3>1. Walked(t, w) \in SUBSET Present(t) /\ Walked(u, w) \in SUBSET Present(u)
            BY Zenon DEF Walked
        <3>2. /\ IsFiniteSet(Walked(t, w)) /\ IsOrder(Walked(t, w), Directed(Earlier(t), w))
              /\ IsFiniteSet(Walked(u, w)) /\ IsOrder(Walked(u, w), Directed(Earlier(u), w))
            BY Zenon, <3>1, EarlierOrder
        <3> QED BY <2>1, <2>2, <3>2, RankRange
    <2> QED BY <2>1, <2>2, <2>3
<1> QED BY Zenon, <1>1 DEF WalkOK

\* A page holds the certificate at its offset, and is empty past the end.
LEMMA PageFacts ==
    ASSUME NEW t \in [Ids -> Rows \cup {NoRow}], NEW w, w.offset \in Nat, NEW now0
    PROVE  LET S == Walked(t, w)
               D == Directed(Earlier(t), w)
               page == FallbackCertificates(t, PageQuery(w), now0)
           IN  /\ w.offset >= Cardinality(S) => page = <<>>
               /\ w.offset < Cardinality(S) => page # <<>> /\ page[1] \in S /\ Rank(S, D, page[1]) = w.offset + 1
<1> DEFINE S == Walked(t, w)
           q == PageQuery(w)
           D == Directed(Earlier(t), w)
           n == Cardinality(S)
<1>1. q.limit = 1 /\ q.offset = w.offset /\ Directed(Earlier(t), q) = D
    BY Zenon DEF PageQuery, Directed
<1>2. {i \in Present(t) : FallbackMatches(t, q, now0, i)} = S
    BY Zenon DEF Walked, FallbackMatches, PageQuery, Accepts
<1>3. IsFiniteSet(S) /\ IsOrder(S, D) /\ n \in Nat
    BY Zenon, EarlierOrder, FS_CardinalityType DEF Walked
<1>4. FallbackCertificates(t, q, now0) = SortAndPage(S, Earlier(t), q)
    BY Zenon, <1>2 DEF FallbackCertificates
<1>5. CASE w.offset >= n
    BY <1>1, <1>3, <1>4, <1>5, SliceFacts
<1>6. CASE w.offset < n
    <2> DEFINE s == Sorted(S, D)
    <2>1. SortAndPage(S, Earlier(t), q) = [k \in 1 .. PageEnd(n, 1, w.offset) - w.offset |-> s[w.offset + k]]
        BY <1>1, <1>3, <1>6, SliceFacts
    <2>2. PageEnd(n, 1, w.offset) - w.offset = 1
        BY <1>3, <1>6 DEF PageEnd
    <2>3. w.offset + 1 \in 1 .. n /\ s[w.offset + 1] \in S /\ Rank(S, D, s[w.offset + 1]) = w.offset + 1
        BY <1>3, <1>6, SortedFacts
    <2> HIDE DEF s, S, D, q, n
    <2> DEFINE m == PageEnd(n, 1, w.offset) - w.offset
    <2>4. FallbackCertificates(t, q, now0) = [k \in 1 .. 1 |-> s[w.offset + k]]
        <3>1. SortAndPage(S, Earlier(t), q) = [k \in 1 .. m |-> s[w.offset + k]] /\ m = 1
            BY Zenon, <2>1, <2>2
        <3> HIDE DEF m
        <3> QED BY Zenon, <1>4, <3>1
    <2>5. /\ FallbackCertificates(t, q, now0)[1] = s[w.offset + 1]
          /\ FallbackCertificates(t, q, now0) # <<>>
        BY <2>4
    <2> QED BY <1>3, <1>6, <2>3, <2>5 DEF S, D, q, n
<1> QED BY Zenon, <1>3, <1>5, <1>6

-----------------------------------------------------------------------------
(* One step of the store.                                                    *)

\* What a step may do to the tables d, making them e at time t: one certificate
\* changes, with an event that names it, or nothing but the events does.
Explained(d, e, t) ==
    /\ TablesOK(e, t) /\ Grows(d.certificate, e.certificate)
    /\ \A i \in e.replaced \ d.replaced : d.certificate[i].status = "valid"
    /\ e.certificate # d.certificate \/ e.replaced # d.replaced =>
          \E i \in Ids, x \in EventIds, u \in 0 .. t, a \in Actions :
              /\ \A j \in Ids \ {i} : e.certificate[j] = d.certificate[j] /\ (j \in e.replaced <=> j \in d.replaced)
              /\ e.event = Append(d.event, [id |-> x, at |-> u, action |-> a, resource |-> i])

LEMMA CommitExplained ==
    ASSUME MemoryInv, NEW p \in Procs, Commit(p)
    PROVE  Explained(db, db', now)
<1> DEFINE r == req[p]
<1>1. pc[p] = "written" /\ tx \in FirstWrite(db, r) /\ r.at <= now /\ (r.action # "prune" => r.id \in Ids)
    BY Zenon DEF MemoryInv, RequestOK, InsideOK, Commit
<1>2. TablesOK(db, now) /\ now \in Nat /\ r \in Requests
    BY MemoryStoreAssumption DEF MemoryInv
<1>3. WriteEffect(db, tx, r, now)
    BY Zenon, <1>1, <1>2, FirstWriteFacts
<1>4. PICK e \in FreeEventIds(tx) : db' = WithEvent(tx, e, r)
    BY Zenon DEF Commit, Installed
<1>5. /\ TablesOK(db', now) /\ db'.certificate = tx.certificate /\ db'.replaced = tx.replaced
      /\ db'.event = Append(tx.event, [id |-> e, at |-> r.at, action |-> r.action, resource |-> r.id])
    <2>1. TablesOK(tx, now)
        BY Zenon, <1>3 DEF WriteEffect
    <2> HIDE DEF r
    <2>2. /\ TablesOK(WithEvent(tx, e, r), now)
          /\ WithEvent(tx, e, r).certificate = tx.certificate
          /\ WithEvent(tx, e, r).replaced = tx.replaced
          /\ WithEvent(tx, e, r).event =
                Append(tx.event, [id |-> e, at |-> r.at, action |-> r.action, resource |-> r.id])
        BY <1>1, <1>2, <2>1, EventOK
    <2> QED BY Zenon, <1>4, <2>2
<1>6. ASSUME db'.certificate # db.certificate \/ db'.replaced # db.replaced
      PROVE  \E i \in Ids, x \in EventIds, u \in 0 .. now, a \in Actions :
                /\ \A j \in Ids \ {i} : /\ db'.certificate[j] = db.certificate[j]
                                        /\ j \in db'.replaced <=> j \in db.replaced
                /\ db'.event = Append(db.event, [id |-> x, at |-> u, action |-> a, resource |-> i])
    <2>1. r.action # "prune"
        BY Zenon, <1>3, <1>5, <1>6 DEF WriteEffect
    <2>2. r.id \in Ids /\ tx.event = db.event
        BY Zenon, <1>1, <1>3, <2>1 DEF WriteEffect
    <2>3. e \in EventIds /\ r.at \in 0 .. now /\ r.action \in Actions
        BY <1>1, <1>2 DEF FreeEventIds, Requests
    <2>4. \A j \in Ids \ {r.id} : db'.certificate[j] = db.certificate[j] /\ (j \in db'.replaced <=> j \in db.replaced)
        BY Zenon, <1>3, <1>5 DEF WriteEffect
    <2>5. db'.event = Append(db.event, [id |-> e, at |-> r.at, action |-> r.action, resource |-> r.id])
        BY Zenon, <1>5, <2>2
    <2> QED BY Zenon, <2>2, <2>3, <2>4, <2>5
<1>7. Grows(db.certificate, db'.certificate) /\ \A i \in db'.replaced \ db.replaced : db.certificate[i].status = "valid"
    BY Zenon, <1>3, <1>5 DEF WriteEffect
<1> QED BY Zenon, <1>5, <1>6, <1>7 DEF Explained

LEMMA EventsTyped ==
    ASSUME NEW d \in Tables, NEW k \in 1 .. Len(d.event)
    PROVE  d.event[k] \in Events /\ d.event[k].id \in EventIds /\ d.event[k].at \in Nat
<1>1. d.event \in Seq(Events)
    BY Zenon DEF Tables
<1>2. d.event[k] \in Events
    BY <1>1
<1> QED BY Zenon, <1>2 DEF Events

LEMMA StaysExplained ==
    ASSUME NEW d, NEW t \in Nat, TablesOK(d, t)
    PROVE  Explained(d, d, t)
BY Zenon DEF Explained, Grows

LEMMA DeleteExplained ==
    ASSUME MemoryInv, NEW before \in 1 .. MaxTime, DeleteEvents(before)
    PROVE  Explained(db, db', now)
<1>1. TablesOK(db, now) /\ now \in Nat /\ before \in Nat
    BY MemoryStoreAssumption DEF MemoryInv
<1>2. db' = [db EXCEPT !.event = Kept(@, before)]
    BY Zenon DEF DeleteEvents
<1>3. TablesOK(db', now) /\ db'.certificate = db.certificate /\ db'.replaced = db.replaced
    BY SMTT(60), <1>1, <1>2, PruneOK
<1> QED BY Zenon, <1>3 DEF Explained, Grows

\* Every step is explained.
LEMMA StepExplained ==
    ASSUME MemoryInv, [Next]_vars
    PROVE  Explained(db, db', now)
<1>1. TablesOK(db, now) /\ now \in Nat
    BY MemoryStoreAssumption DEF MemoryInv
<1>2. CASE \E p \in Procs : Commit(p)
    BY Zenon, <1>2, CommitExplained
<1>3. CASE \E before \in 1 .. MaxTime : DeleteEvents(before)
    BY Zenon, <1>3, DeleteExplained
<1>4. CASE db' = db
    BY Zenon, <1>1, <1>4, StaysExplained
<1> QED BY Zenon, <1>2, <1>3, <1>4 DEF Next, vars, Begin, Enter, Write, Abort, ListEvents, StartWalk, NextPage, Tick

\* The part of the invariant about the requests, the lock and the clones.
LEMMA RequestsStep ==
    ASSUME MemoryInv, [Next]_vars
    PROVE  /\ now' \in 0 .. MaxTime /\ requests' \in 0 .. MaxRequests
           /\ lock' \in Procs \cup {NoProc} /\ (lock' = NoProc => tx' = db')
           /\ pc' \in [Procs -> {"idle", "checked", "entered", "written"}]
           /\ req' \in [Procs -> Requests]
           /\ \A p \in Procs : RequestOK(p)' /\ InsideOK(p)'
           /\ alias' = FALSE
<1> USE MemoryStoreAssumption, ListingAssumption DEF MemoryInv, RequestOK, InsideOK
<1>1. NoRequest \in Requests /\ NoRequest.at = 0 /\ NoRequest.action = "prune"
    BY Zenon DEF NoRequest, Requests, Actions
<1>2. ASSUME NEW p \in Procs, NEW a \in Actions, NEW i \in Nat, a # "prune" => i \in Ids, Begin(p, a, i)
      PROVE  /\ now' \in 0 .. MaxTime /\ requests' \in 0 .. MaxRequests
             /\ lock' \in Procs \cup {NoProc} /\ (lock' = NoProc => tx' = db')
             /\ pc' \in [Procs -> {"idle", "checked", "entered", "written"}]
             /\ req' \in [Procs -> Requests]
             /\ \A q \in Procs : RequestOK(q)' /\ InsideOK(q)'
             /\ alias' = FALSE
    <2>1. [action |-> a, id |-> i, at |-> now] \in Requests
        BY DEF Requests
    <2>2. /\ req' = [req EXCEPT ![p] = [action |-> a, id |-> i, at |-> now]] /\ pc' = [pc EXCEPT ![p] = "checked"]
          /\ pc[p] = "idle" /\ requests < MaxRequests /\ requests' = requests + 1
          /\ UNCHANGED <<now, db, lock, tx, alias>>
        BY Zenon, <1>2 DEF Begin, Goto
    <2>3. req' \in [Procs -> Requests] /\ pc' \in [Procs -> {"idle", "checked", "entered", "written"}]
        BY Zenon, <2>1, <2>2
    <2>4. \A q \in Procs : RequestOK(q)' /\ InsideOK(q)'
        BY <1>2, <2>2
    <2> QED BY SMTT(60), <2>2, <2>3, <2>4
<1>3. ASSUME NEW p \in Procs, Enter(p) \/ Write(p)
      PROVE  /\ now' \in 0 .. MaxTime /\ requests' \in 0 .. MaxRequests
             /\ lock' \in Procs \cup {NoProc} /\ (lock' = NoProc => tx' = db')
             /\ pc' \in [Procs -> {"idle", "checked", "entered", "written"}]
             /\ req' \in [Procs -> Requests]
             /\ \A q \in Procs : RequestOK(q)' /\ InsideOK(q)'
             /\ alias' = FALSE
    BY <1>3 DEF Enter, Write, Goto
<1>4. ASSUME NEW p \in Procs, Commit(p) \/ Abort(p)
      PROVE  /\ now' \in 0 .. MaxTime /\ requests' \in 0 .. MaxRequests
             /\ lock' \in Procs \cup {NoProc} /\ (lock' = NoProc => tx' = db')
             /\ pc' \in [Procs -> {"idle", "checked", "entered", "written"}]
             /\ req' \in [Procs -> Requests]
             /\ \A q \in Procs : RequestOK(q)' /\ InsideOK(q)'
             /\ alias' = FALSE
    <2>1. /\ pc' = [pc EXCEPT ![p] = "idle"] /\ req' = [req EXCEPT ![p] = NoRequest] /\ pc[p] \in {"entered", "written"}
          /\ lock' = NoProc /\ tx' = db' /\ alias' = FALSE /\ UNCHANGED <<now, requests>>
        BY Zenon, <1>4 DEF Commit, Abort, Goto
    <2>2. req' \in [Procs -> Requests] /\ pc' \in [Procs -> {"idle", "checked", "entered", "written"}]
        BY Zenon, <1>1, <2>1
    <2>3. lock = p /\ \A q \in Procs \ {p} : pc[q] \notin {"entered", "written"}
        BY Zenon, <2>1
    <2>4. \A q \in Procs : RequestOK(q)' /\ InsideOK(q)'
        BY <1>1, <2>1, <2>3
    <2> QED BY Zenon, <2>1, <2>2, <2>4
<1>5. CASE \E before \in 1 .. MaxTime : DeleteEvents(before)
    <2>1. /\ lock = NoProc /\ tx' = db' /\ UNCHANGED <<now, requests, lock, pc, req, alias>>
        BY Zenon, <1>5 DEF DeleteEvents
    <2>2. \A q \in Procs : pc[q] \notin {"entered", "written"}
        BY Zenon, <2>1
    <2>3. \A q \in Procs : RequestOK(q)' /\ InsideOK(q)'
        BY Zenon, <2>1, <2>2
    <2> QED BY Zenon, <2>1, <2>3
<1>6. CASE ListEvents \/ NextPage \/ \E a \in {AnyValue} \cup {Attr[i] : i \in Ids}, s \in {"asc", "desc"} : StartWalk(a, s)
    <2>1. UNCHANGED <<now, requests, db, lock, tx, pc, req>>
        BY ZenonT(60), <1>6 DEF ListEvents, NextPage, StartWalk
    <2>2. alias' = FALSE
        BY Zenon, <1>6 DEF ListEvents, NextPage, StartWalk, Shares
    <2> QED BY SMTT(60), <2>1, <2>2
<1>7. CASE Tick
    BY <1>7 DEF Tick, Requests
<1>8. CASE UNCHANGED vars
    BY Zenon, <1>8 DEF vars
<1>9. CASE \E p \in Procs : (\E a \in Actions \ {"prune"}, i \in Ids : Begin(p, a, i)) \/ (\E before \in 1 .. MaxTime : Begin(p, "prune", before))
    <2>1. PICK p \in Procs, a \in Actions, i \in Nat : (a # "prune" => i \in Ids) /\ Begin(p, a, i)
        BY <1>9 DEF Actions
    <2> QED BY Zenon, <1>2, <2>1
<1> QED BY Zenon, <1>3, <1>4, <1>5, <1>6, <1>7, <1>8, <1>9 DEF Next

\* A walk that starts has everything before it.
LEMMA WalkStarts ==
    ASSUME MemoryInv, NEW a, NEW s, StartWalk(a, s)
    PROVE  WalkOK(pager', db.certificate)
<1> DEFINE t == db.certificate
           start == {i \in Present(t) : Accepts(a, Attr[i])}
           w == [attr |-> a, sort |-> s, offset |-> 0, start |-> start, seen |-> {}, state |-> "walking"]
<1>1. pager' = w
    BY ZenonT(60) DEF StartWalk, NoWalk
<1>2. t \in [Ids -> Rows \cup {NoRow}]
    BY Zenon DEF MemoryInv, TablesOK, Tables
<1>3. Walked(t, w) = start /\ start \in SUBSET Present(t) /\ start \subseteq Ids
    BY Zenon, <1>2 DEF Walked, Present
<1>4. \A x \in start : Rank(Walked(t, w), Directed(Earlier(t), w), x) > 0
    <2> HIDE DEF w
    <2> QED BY SMTT(60), <1>2, <1>3, EarlierOrder, RankRange
<1>5. WalkOK(w, t)
    BY Zenon, <1>3, <1>4 DEF WalkOK
<1> QED BY Zenon, <1>1, <1>5

\* A page moves the walk on by the certificate that it shows.
LEMMA WalkMoves ==
    ASSUME MemoryInv, NextPage
    PROVE  WalkOK(pager', db.certificate)
<1> DEFINE t == db.certificate
           w == pager
           page == FallbackCertificates(t, PageQuery(w), now)
           S == Walked(t, w)
           D == Directed(Earlier(t), w)
<1>1. t \in [Ids -> Rows \cup {NoRow}] /\ WalkOK(w, t) /\ w.state = "walking"
    BY Zenon DEF MemoryInv, TablesOK, Tables, NextPage
<1>2. /\ w.offset \in Nat /\ w.seen \subseteq Ids /\ w.start \subseteq Ids
      /\ w = [attr |-> w.attr, sort |-> w.sort, offset |-> w.offset, start |-> w.start,
              seen |-> w.seen, state |-> w.state]
      /\ \A x \in w.start \ w.seen : x \in S /\ Rank(S, D, x) > w.offset
    BY Zenon, <1>1 DEF WalkOK
<1>3. S \in SUBSET Present(t) /\ S \subseteq Ids
    BY Zenon, <1>1 DEF Walked, Present
<1>4. IsFiniteSet(S) /\ IsOrder(S, D) /\ Cardinality(S) \in Nat
    BY Zenon, <1>1, <1>3, EarlierOrder, FS_CardinalityType
<1>5. \A x \in S : Rank(S, D, x) \in 1 .. Cardinality(S)
    BY Zenon, <1>4, RankRange
<1>6. /\ w.offset >= Cardinality(S) => page = <<>>
      /\ w.offset < Cardinality(S) => page # <<>> /\ page[1] \in S /\ Rank(S, D, page[1]) = w.offset + 1
    BY Zenon, <1>1, <1>2, PageFacts
<1>7. CASE page = <<>>
    <2> DEFINE v == [attr |-> w.attr, sort |-> w.sort, offset |-> w.offset, start |-> w.start,
                     seen |-> w.seen, state |-> "done"]
    <2>1. pager' = v
        BY Zenon, <1>2, <1>7 DEF NextPage
    <2> HIDE DEF S, D, page
    <2>2. w.start \subseteq w.seen
        BY <1>2, <1>4, <1>5, <1>6, <1>7
    <2>3. WalkOK(v, t)
        BY Zenon, <1>2, <2>2 DEF WalkOK
    <2> QED BY Zenon, <2>1, <2>3
<1>8. CASE page # <<>>
    <2> DEFINE v == [attr |-> w.attr, sort |-> w.sort, offset |-> w.offset + 1, start |-> w.start,
                     seen |-> w.seen \cup {page[1]}, state |-> w.state]
    <2>1. pager' = v
        BY Zenon, <1>2, <1>8 DEF NextPage
    <2>2. page[1] \in S /\ Rank(S, D, page[1]) = w.offset + 1
        <3> HIDE DEF S, D, page
        <3> QED BY <1>2, <1>4, <1>6, <1>8
    <2>3. Walked(t, v) = S /\ Directed(Earlier(t), v) = D
        BY Zenon DEF Walked, Directed
    <2>4. \A x \in w.start \ (w.seen \cup {page[1]}) : x \in S /\ Rank(S, D, x) > w.offset + 1
        <3> HIDE DEF S, D, page
        <3> TAKE x \in w.start \ (w.seen \cup {page[1]})
        <3>1. x \in S /\ Rank(S, D, x) > w.offset /\ x # page[1]
            BY Zenon, <1>2
        <3>2. Rank(S, D, x) # Rank(S, D, page[1])
            BY <1>4, <2>2, <3>1, RankBijective
        <3> QED BY <1>2, <1>5, <2>2, <3>1, <3>2
    <2>5. v.seen \subseteq Ids
        BY SMTT(60), <1>2, <1>3, <2>2
    <2> HIDE DEF S, D, page
    <2>6. WalkOK(v, t)
        BY <1>1, <1>2, <2>3, <2>4, <2>5 DEF WalkOK
    <2> QED BY Zenon, <2>1, <2>6
<1> QED BY Zenon, <1>7, <1>8

LEMMA MemoryStep ==
    ASSUME MemoryInv, [Next]_vars
    PROVE  MemoryInv'
<1>1. Explained(db, db', now) /\ db.certificate \in [Ids -> Rows \cup {NoRow}] /\ WalkOK(pager, db.certificate)
    BY Zenon, StepExplained DEF MemoryInv, TablesOK, Tables
<1>2. now \in Nat /\ now' \in Nat /\ now <= now'
    <2>1. now' = now \/ Tick
        BY ZenonT(60) DEF Next, vars, Begin, Enter, Write, Commit, Abort, DeleteEvents, ListEvents, StartWalk, NextPage
    <2>2. now \in Nat
        BY MemoryStoreAssumption DEF MemoryInv
    <2> QED BY <2>1, <2>2 DEF Tick
<1>3. TablesOK(db, now)' /\ db'.certificate \in [Ids -> Rows \cup {NoRow}] /\ Grows(db.certificate, db'.certificate)
    <2>1. TablesOK(db', now) /\ Grows(db.certificate, db'.certificate)
        BY Zenon, <1>1 DEF Explained
    <2>2. db' \in Tables /\ \A k \in 1 .. Len(db'.event) : db'.event[k].at \in Nat
        BY Zenon, <2>1, EventsTyped DEF TablesOK
    <2>3. \A k \in 1 .. Len(db'.event) : db'.event[k].at <= now'
        BY <1>2, <2>1, <2>2 DEF TablesOK
    <2> QED BY Zenon, <2>1, <2>2, <2>3 DEF TablesOK, Tables
<1>4. WalkOK(pager', db'.certificate)
    <2>1. CASE \E a \in {AnyValue} \cup {Attr[i] : i \in Ids}, s \in {"asc", "desc"} : StartWalk(a, s)
        <3>1. WalkOK(pager', db.certificate) /\ db' = db
            BY Zenon, <2>1, WalkStarts DEF StartWalk
        <3> QED BY SMTT(60), <3>1
    <2>2. CASE NextPage
        <3>1. WalkOK(pager', db.certificate) /\ db' = db
            BY Zenon, <2>2, WalkMoves DEF NextPage
        <3> QED BY Zenon, <3>1
    <2>3. CASE pager' = pager
        BY ZenonT(60), <1>1, <1>3, <2>3, WalkGoesOn
    <2> QED BY Zenon, <2>1, <2>2, <2>3 DEF Next, vars, Begin, Enter, Write, Commit, Abort, DeleteEvents, ListEvents, Tick
<1> QED BY Zenon, <1>3, <1>4, RequestsStep DEF MemoryInv

LEMMA MemoryInit ==
    ASSUME Init
    PROVE  MemoryInv
<1> USE MemoryStoreAssumption, ListingAssumption
<1>1. TablesOK(db, now)
    <2>1. PICK S \in SUBSET Ids :
              db = [certificate |-> [i \in Ids |-> IF i \in S THEN NewRow(0) ELSE NoRow], replaced |-> {}, event |-> <<>>]
        BY Zenon DEF Init
    <2>2. db \in Tables /\ db.replaced = {} /\ db.event = <<>>
        BY <2>1 DEF Tables, NewRow, Rows, Statuses
    <2> QED BY <2>2 DEF TablesOK
<1>2. WalkOK(pager, db.certificate)
    BY Zenon DEF Init, NoWalk, WalkOK
<1>3. \A p \in Procs : RequestOK(p) /\ InsideOK(p)
    BY DEF Init, NoRequest, RequestOK, InsideOK
<1>4. req \in [Procs -> Requests]
    BY Zenon DEF Init, NoRequest, Requests, Actions
<1> QED BY SMTT(60), <1>1, <1>2, <1>3, <1>4 DEF Init, MemoryInv

LEMMA MemoryAlways == Spec => []MemoryInv
BY MemoryInit, MemoryStep, PTL DEF Spec

-----------------------------------------------------------------------------
(* What follows.                                                             *)

\* The tables are well formed, and only the holder of the lock is inside WithinTx.
THEOREM TypeCorrect == Spec => []TypeOK
<1>1. ASSUME MemoryInv
      PROVE  TypeOK
    <2>1. db.certificate \in [Ids -> Rows \cup {NoRow}] /\ db.replaced \subseteq Present(db.certificate)
        BY Zenon, <1>1 DEF MemoryInv, TablesOK, Tables
    <2>2. \A k \in 1 .. Len(db.event) : db.event[k].id \in EventIds /\ db.event[k].at <= now
        BY Zenon, <1>1, EventsTyped DEF MemoryInv, TablesOK
    <2>3. now \in 0 .. MaxTime /\ requests <= MaxRequests /\ (lock = NoProc => tx = db)
        BY <1>1, MemoryStoreAssumption DEF MemoryInv
    <2>4. (\A p \in Procs : pc[p] \in {"entered", "written"} <=> lock = p) /\ pager.seen \subseteq Ids
        BY Zenon, <1>1 DEF MemoryInv, InsideOK, WalkOK
    <2> QED BY Zenon, <2>1, <2>2, <2>3, <2>4 DEF TypeOK
<1> QED BY <1>1, MemoryAlways, PTL

\* A client that goes through the pages sees every certificate of the start,
\* however many certificates there are and whatever happens between two pages
\* (listCertificates with limit and offset).
THEOREM WalksComplete == Spec => []WalksSeeAll
<1>1. MemoryInv => WalksSeeAll
    BY Zenon DEF MemoryInv, WalkOK, WalksSeeAll
<1> QED BY <1>1, MemoryAlways, PTL

\* WithinTx installs one change with the event that explains it, and requests a
\* replacement only for a certificate that is valid as it commits.
THEOREM CommitsSound == Spec => CommitsAreSound
<1>1. ASSUME MemoryInv, [Next]_vars
      PROVE  /\ db'.certificate # db.certificate \/ db'.replaced # db.replaced =>
                  \E i \in Ids, e \in EventIds, t \in 0 .. now, a \in Actions :
                      /\ \A j \in Ids \ {i} : /\ db'.certificate[j] = db.certificate[j]
                                             /\ j \in db'.replaced <=> j \in db.replaced
                      /\ db'.event = Append(db.event, [id |-> e, at |-> t, action |-> a, resource |-> i])
             /\ \A i \in db'.replaced \ db.replaced : db.certificate[i].status = "valid"
    BY Zenon, <1>1, StepExplained DEF Explained
<1> QED BY <1>1, MemoryAlways, PTL DEF Spec, CommitsAreSound, OneRowOneEvent, ReplacedWasValid

\* The events a caller holds stay as they were when DeleteAuditEventsBefore
\* compacts the slice of the store.
THEOREM HeldStays == Spec => HeldKept
<1>1. ASSUME MemoryInv, [Next]_vars
      PROVE  held' # held => db' = db
    BY ZenonT(60), <1>1 DEF MemoryInv, Next, vars, Begin, Enter, Write, Commit, Abort, DeleteEvents, ListEvents, StartWalk, NextPage, Tick
<1> QED BY <1>1, MemoryAlways, PTL DEF Spec, HeldKept

-----------------------------------------------------------------------------
(* The two stores answer alike.                                              *)

\* A query of the service and the query it hands to the SQL store select the
\* same certificates.
LEMMA MatchesAgree ==
    ASSUME NEW t \in [Ids -> Rows \cup {NoRow}], NEW time \in Nat,
           NEW q \in CertificateQueries({Attr[i] : i \in Ids}, Windows, {2}), NEW i \in Present(t),
           q.within # 0 => q.status \in {AnyValue, "valid"} /\ NotAfter[i] # time
    PROVE  FallbackMatches(t, q, time, i) <=> SqlMatches(t, StoreQuery(q, time), time, i)
<1> DEFINE sq == StoreQuery(q, time)
<1>1. /\ q.within \in Windows \cup {0}
      /\ sq.attr = q.attr /\ sq.notified = q.notified
      /\ sq.within = IF q.within = 0 THEN AnyValue ELSE time + q.within
      /\ sq.status = IF q.within # 0 /\ q.status = AnyValue THEN "valid" ELSE q.status
    BY Zenon DEF CertificateQueries, StoreQuery
<1>2. i \in Ids /\ NotAfter[i] \in Nat /\ AnyValue \notin Nat /\ AnyValue # "valid"
    BY Zenon, ListingAssumption DEF Present
<1>3. CASE q.within = 0
    BY Zenon, <1>1, <1>3 DEF FallbackMatches, SqlMatches
<1>4. CASE q.within # 0
    <2>1. q.within \in Nat /\ sq.within = time + q.within /\ sq.within \in Nat /\ sq.status = "valid"
        <3>1. q.within \in Nat
            BY Zenon, <1>1, <1>4, MemoryStoreAssumption
        <3>2. sq.status = "valid" /\ sq.within = time + q.within
            BY Zenon, <1>1, <1>4
        <3> HIDE DEF sq
        <3> QED BY <3>1, <3>2
    <2>2. Accepts(q.status, t[i].status) /\ t[i].status = "valid" <=> Accepts(sq.status, t[i].status)
        BY Zenon, <1>2, <1>4, <2>1 DEF Accepts
    <2>3. NotAfter[i] >= time <=> NotAfter[i] > time
        BY <1>2, <1>4
    <2> HIDE DEF sq
    <2> QED BY Zenon, <1>1, <1>2, <1>4, <2>1, <2>2, <2>3 DEF FallbackMatches, SqlMatches, sq
<1> QED BY Zenon, <1>3, <1>4

LEMMA QueriesSame ==
    ASSUME MemoryInv
    PROVE  QueriesAgree
<1> DEFINE t == db.certificate
<1>1. t \in [Ids -> Rows \cup {NoRow}] /\ now \in Nat
    BY SMTT(60), MemoryStoreAssumption DEF MemoryInv, TablesOK, Tables
<1>2. ASSUME NEW q \in CertificateQueries({Attr[i] : i \in Ids}, Windows, {2}),
             q.within # 0 => q.status \in {AnyValue, "valid"} /\ \A i \in Present(t) : NotAfter[i] # now
      PROVE  FallbackCertificates(t, q, now) = SqlCertificates(t, q, now)
    <2> DEFINE sq == StoreQuery(q, now)
               S == {i \in Present(t) : FallbackMatches(t, q, now, i)}
               V == {i \in Present(t) : SqlMatches(t, sq, now, i)}
    <2>1. S = V
        BY Zenon, <1>1, <1>2, MatchesAgree
    <2>2. q.limit \in Nat /\ q.offset \in Nat /\ (q.offset > 0 => q.limit > 0)
        <3>1. q.offset \in 0 .. Cardinality(Ids) /\ q.limit \in {0, 2} /\ (q.offset > 0 => q.limit > 0)
            BY Zenon DEF CertificateQueries
        <3>2. Cardinality(Ids) \in Nat
            BY Zenon, ListingAssumption, FS_CardinalityType
        <3> QED BY <3>1, <3>2
    <2>3. sq.limit = q.limit /\ sq.offset = q.offset /\ sq.sort = q.sort
        BY Zenon DEF CertificateQueries, StoreQuery
    <2>4. SqlPage(S, Earlier(t), sq) = SqlPage(S, Earlier(t), q)
        <3> HIDE DEF sq, S
        <3> QED BY SMTT(60), <2>3 DEF SqlPage, Directed
    <2>5. IsFiniteSet(S) /\ IsOrder(S, Directed(Earlier(t), q))
        BY Zenon, <1>1, EarlierOrder
    <2>6. SortAndPage(S, Earlier(t), q) = SqlPage(S, Earlier(t), q)
        <3> HIDE DEF S
        <3> QED BY Zenon, <2>2, <2>5, PagesAgree
    <2> QED BY ZenonT(60), <2>1, <2>4, <2>6 DEF FallbackCertificates, SqlCertificates
<1> QED BY Zenon, <1>2 DEF QueriesAgree

\* A limit that is not reached is no limit.
LEMMA PageWithoutLimit ==
    ASSUME NEW S, IsFiniteSet(S), NEW R, IsOrder(S, R), NEW o \in Nat, NEW m \in Nat, Cardinality(S) <= m
    PROVE  SortAndPage(S, R, Page(0, o)) = SortAndPage(S, R, Page(m, o))
<1> DEFINE n == Cardinality(S)
<1>1. n \in Nat
    BY Zenon, FS_CardinalityType
<1>2. \A k \in Nat : /\ Page(k, o).limit = k /\ Page(k, o).offset = o /\ Directed(R, Page(k, o)) = R
    BY Zenon DEF Page, Directed
<1>3. CASE o >= n
    BY <1>1, <1>2, <1>3, SliceFacts
<1>4. CASE o < n
    <2>1. PageEnd(n, 0, o) = n /\ PageEnd(n, m, o) = n
        BY <1>1, <1>4 DEF PageEnd
    <2>2. \A k \in Nat : SortAndPage(S, R, Page(k, o)) = [j \in 1 .. PageEnd(n, k, o) - o |-> Sorted(S, R)[o + j]]
        BY <1>1, <1>2, <1>4, SliceFacts
    <2> QED BY Zenon, <2>1, <2>2
<1> QED BY <1>1, <1>3, <1>4

LEMMA EmptyPage ==
    ASSUME NEW R, NEW q
    PROVE  SqlPage({}, R, q) = <<>>
<1> DEFINE D == Directed(R, q)
           skip == IF q.limit > 0 THEN q.offset ELSE 0
           last == IF q.limit > 0 THEN skip + q.limit ELSE Cardinality({})
           kept == {x \in {} : Rank({}, D, x) \in skip + 1 .. last}
           n == Cardinality(kept)
<1>1. SqlPage({}, R, q) = [k \in 1 .. n |-> CHOOSE x \in kept : Rank({}, D, x) = skip + k]
    BY Zenon DEF SqlPage
<1>2. kept = {}
    OBVIOUS
<1>3. n = 0
    BY Zenon, <1>2, FS_EmptySet
<1> HIDE DEF n, kept, skip, D
<1>4. SqlPage({}, R, q) = [k \in 1 .. 0 |-> CHOOSE x \in kept : Rank({}, D, x) = skip + k]
    BY Zenon, <1>1, <1>3
<1> QED BY <1>4

LEMMA InventorySame ==
    ASSUME NEW t \in [Ids -> Rows \cup {NoRow}], NEW q, q.limit \in Nat, q.offset \in Nat
    PROVE  Inventory(t, q) = SqlInventory(t, q)
<1> DEFINE S == {i \in Present(t) : Accepts(q.attr, Attr[i]) /\ Accepts(q.status, t[i].status)}
           m == Cardinality(DOMAIN t)
           o == q.offset
<1>1. S \in SUBSET Ids /\ DOMAIN t = Ids
    BY Zenon DEF Present
<1>2. IsFiniteSet(S) /\ Cardinality(S) <= m /\ m \in Nat /\ Cardinality(S) \in Nat
    BY SMTT(60), <1>1, ListingAssumption, FS_Subset, FS_CardinalityType
<1>3. \A k \in Nat : /\ Page(k, o).limit = k /\ Page(k, o).offset = o
                     /\ IsOrder(S, Directed(ById, Page(k, o))) /\ Directed(ById, Page(k, o)) = ById
    BY ZenonT(60), <1>1, SoonerOrder DEF Page, Directed
<1>4. \A k \in Nat \ {0} : SortAndPage(S, ById, Page(k, o)) = SqlPage(S, ById, Page(k, o))
    <2> HIDE DEF S
    <2> QED BY <1>2, <1>3, PagesAgree
<1>5. CASE q.limit > 0
    BY <1>4, <1>5 DEF Inventory, SqlInventory
<1>6. CASE q.limit = 0
    <2>1. SortAndPage(S, ById, Page(0, o)) = SortAndPage(S, ById, Page(m, o))
        <3> HIDE DEF S, m
        <3> QED BY SMTT(60), <1>2, <1>3, PageWithoutLimit
    <2>2. CASE m > 0
        <3>1. SqlInventory(t, q) = SqlPage(S, ById, Page(m, o)) /\ Inventory(t, q) = SortAndPage(S, ById, Page(0, o))
            BY <1>6 DEF Inventory, SqlInventory
        <3> HIDE DEF S, m
        <3>2. SortAndPage(S, ById, Page(m, o)) = SqlPage(S, ById, Page(m, o))
            BY <1>2, <1>4, <2>2
        <3> QED BY ZenonT(60), <2>1, <3>1, <3>2
    <2>3. CASE m = 0
        <3>1. S = {} /\ Cardinality(S) = 0
            BY <1>2, <2>3, FS_EmptySet
        <3>2. SortAndPage(S, ById, Page(0, o)) = <<>>
            <4> HIDE DEF S
            <4> QED BY <1>2, <1>3, <3>1, SliceFacts
        <3>3. SqlPage({}, ById, Page(m, o)) = <<>>
            BY Zenon, EmptyPage
        <3>4. SqlInventory(t, q) = SqlPage(S, ById, Page(m, o)) /\ Inventory(t, q) = SortAndPage(S, ById, Page(0, o))
            BY <1>6 DEF Inventory, SqlInventory
        <3> HIDE DEF S, m
        <3> QED BY ZenonT(60), <3>1, <3>2, <3>3, <3>4
    <2> QED BY <1>2, <2>2, <2>3
<1> QED BY <1>5, <1>6

\* A page of certificates ordered by expiry is the same page in SQL.
LEMMA SoonerPages ==
    ASSUME NEW S \in SUBSET Ids, NEW n \in Nat \ {0}, NEW o \in Nat
    PROVE  SortAndPage(S, Sooner, Page(n, o)) = SqlPage(S, Sooner, Page(n, o))
<1>1. Page(n, o).limit = n /\ Page(n, o).offset = o
    BY Zenon DEF Page
<1>2. IsFiniteSet(S) /\ IsOrder(S, Directed(Sooner, Page(n, o)))
    BY Zenon, SoonerOrder
<1> QED BY <1>1, <1>2, PagesAgree

LEMMA ListsSame ==
    ASSUME MemoryInv
    PROVE  ListsAgree
<1> DEFINE t == db.certificate
<1>1. t \in [Ids -> Rows \cup {NoRow}]
    BY Zenon DEF MemoryInv, TablesOK, Tables
<1>2. Present(t) \subseteq Ids
    BY Zenon, <1>1 DEF Present
<1>3. ASSUME NEW w \in Windows, NEW n \in 1 .. 2
      PROVE  ExpirationScan(t, now, now + w, n) = SqlExpirationScan(t, now, now + w, n)
    <2> DEFINE cut == now + w
               S == {i \in Present(t) : NeedsScan(t, now, cut, i)}
               overdue == {i \in Present(t) : t[i].status \in {"valid", "suspended"} /\ NotAfter[i] <= now}
               due == {i \in Present(t) : /\ t[i].status = "valid" /\ ~t[i].notified
                                          /\ NotAfter[i] > now /\ NotAfter[i] <= cut}
    <2>1. S = overdue \cup due /\ S \in SUBSET Ids
        <3> HIDE DEF cut
        <3> QED BY Zenon, <1>2 DEF NeedsScan
    <2>2. SortAndPage(S, Sooner, Page(n, 0)) = SqlPage(S, Sooner, Page(n, 0))
        <3> HIDE DEF S
        <3> QED BY <2>1, SoonerPages
    <2> HIDE DEF cut
    <2>3. ExpirationScan(t, now, cut, n) = SortAndPage(S, Sooner, Page(n, 0))
        BY DEF ExpirationScan
    <2>4. SqlExpirationScan(t, now, cut, n) = SqlPage(overdue \cup due, Sooner, Page(n, 0))
        BY DEF SqlExpirationScan
    <2> HIDE DEF S, overdue, due
    <2> QED BY Zenon, <2>1, <2>2, <2>3, <2>4 DEF cut
<1>4. ASSUME NEW w \in Windows, NEW n \in 1 .. 2, NEW o \in 0 .. 2
      PROVE  ExpiringWithin(t, now, now + w, Page(n, o)) = SqlExpiringWithin(t, now, now + w, Page(n, o))
    <2> DEFINE cut == now + w
               S == {i \in Present(t) : t[i].status = "valid" /\ NotAfter[i] > now /\ NotAfter[i] <= cut}
    <2>1. S \in SUBSET Ids
        BY Zenon, <1>2
    <2>2. SortAndPage(S, Sooner, Page(n, o)) = SqlPage(S, Sooner, Page(n, o))
        <3> HIDE DEF S
        <3> QED BY <2>1, SoonerPages
    <2> QED BY Zenon, <2>2 DEF ExpiringWithin, SqlExpiringWithin
<1>5. ASSUME NEW q \in [attr : {AnyValue} \cup {Attr[i] : i \in Ids}, status : Statuses \cup {AnyValue},
                        limit : 0 .. 2, offset : 0 .. 2]
      PROVE  Inventory(t, q) = SqlInventory(t, q)
    BY <1>1, <1>5, InventorySame
<1> HIDE DEF t
<1>6. /\ \A w \in Windows, n \in 1 .. 2 :
          /\ ExpirationScan(t, now, now + w, n) = SqlExpirationScan(t, now, now + w, n)
          /\ \A o \in 0 .. 2 : ExpiringWithin(t, now, now + w, Page(n, o)) = SqlExpiringWithin(t, now, now + w, Page(n, o))
      /\ \A q \in [attr : {AnyValue} \cup {Attr[i] : i \in Ids}, status : Statuses \cup {AnyValue},
                   limit : 0 .. 2, offset : 0 .. 2] : Inventory(t, q) = SqlInventory(t, q)
    BY Zenon, <1>3, <1>4, <1>5
<1> QED BY Zenon, <1>6 DEF ListsAgree, t

\* Events are ordered by time, and by their identifiers, which differ.
LEMMA EventOrder ==
    ASSUME NEW d, NEW t, TablesOK(d, t), NEW S \in SUBSET EventSet(d.event), NEW q
    PROVE  IsFiniteSet(S) /\ IsOrder(S, Directed(EventEarlier(d.event), q))
<1> DEFINE s == d.event
           E == EventSet(s)
<1>1. d \in Tables /\ \A j, k \in 1 .. Len(s) : s[j].id = s[k].id => j = k
    BY Zenon DEF TablesOK
<1>2. Len(s) \in Nat /\ s \in Seq(Events)
    BY <1>1 DEF Tables
<1>3. \A e \in E : \E k \in 1 .. Len(s) : e = s[k]
    BY Zenon DEF EventSet
<1>4. \A e \in E : e.at \in Nat /\ e.id \in Nat
    BY Zenon, <1>1, <1>3, EventsTyped, MemoryStoreAssumption
<1>5. \A e, f \in E : e.id = f.id => e = f
    BY <1>1, <1>3
<1>6. IsFiniteSet(E)
    <2> DEFINE f == [k \in 1 .. Len(s) |-> s[k]]
    <2>1. \A k \in 1 .. Len(s) : s[k] \in E
        BY Zenon DEF EventSet
    <2>2. f \in Surjection(1 .. Len(s), E)
        BY Zenon, <1>3, <2>1 DEF Surjection
    <2> QED BY <1>2, <2>2, OneTo, FS_Surjection
<1>7. EventEarlier(s) \in SUBSET (E \X E)
    BY Zenon DEF EventEarlier
<1>8. \A e, f \in E : <<e, f>> \in EventEarlier(s) <=> (e.at < f.at \/ (e.at = f.at /\ e.id < f.id))
    BY Zenon DEF EventEarlier
<1> HIDE DEF E
<1>9. IsOrder(S, EventEarlier(s))
    <2>1. S \in SUBSET E
        BY Zenon DEF E
    <2> QED BY <1>4, <1>5, <1>8, <2>1 DEF IsOrder
<1>10. IsFiniteSet(S)
    BY Zenon, <1>6, FS_Subset DEF E
<1> QED BY Zenon, <1>7, <1>9, <1>10, DirectedOrder

LEMMA EventQueriesSame ==
    ASSUME MemoryInv
    PROVE  EventQueriesAgree
<1>1. TablesOK(db, now) /\ db \in Tables
    BY Zenon DEF MemoryInv, TablesOK
<1>2. ASSUME NEW q \in EventQueries(Ids, 0 .. MaxTime, {2})
      PROVE  AuditEvents(db.event, q) = SqlAuditEvents(db.event, q)
    <2> DEFINE E == EventSet(db.event)
               S == {e \in E : EventMatches(q, e)}
               V == {e \in E : /\ Accepts(q.resource, e.resource)
                               /\ q.from # AnyValue => e.at >= q.from
                               /\ q.to # AnyValue => e.at <= q.to}
    <2>1. /\ q.limit \in Nat /\ q.offset \in Nat /\ (q.offset > 0 => q.limit > 0)
          /\ q.from # AnyValue => q.from \in Nat
          /\ q.to # AnyValue => q.to \in Nat
        <3>1. /\ q.offset \in 0 .. Cardinality(Ids) /\ q.limit \in {0, 2} /\ (q.offset > 0 => q.limit > 0)
              /\ q.from \in 0 .. MaxTime \cup {AnyValue} /\ q.to \in 0 .. MaxTime \cup {AnyValue}
            BY Zenon DEF EventQueries
        <3>2. Cardinality(Ids) \in Nat
            BY Zenon, ListingAssumption, FS_CardinalityType
        <3> QED BY <3>1, <3>2
    <2>2. \A e \in E : e.at \in Nat
        BY Zenon, <1>1, EventsTyped DEF EventSet
    <2>3. S = V
        <3> HIDE DEF E
        <3>1. \A e \in E : EventMatches(q, e) <=> /\ Accepts(q.resource, e.resource)
                                                  /\ q.from # AnyValue => e.at >= q.from
                                                  /\ q.to # AnyValue => e.at <= q.to
            BY <2>1, <2>2 DEF EventMatches
        <3> QED BY Zenon, <3>1
    <2>4. IsFiniteSet(S) /\ IsOrder(S, Directed(EventEarlier(db.event), q))
        BY Zenon, <1>1, EventOrder
    <2>5. SortAndPage(S, EventEarlier(db.event), q) = SqlPage(S, EventEarlier(db.event), q)
        <3> HIDE DEF S
        <3> QED BY Zenon, <2>1, <2>4, PagesAgree
    <2>6. AuditEvents(db.event, q) = SortAndPage(S, EventEarlier(db.event), q)
        BY Zenon DEF AuditEvents
    <2>7. SqlAuditEvents(db.event, q) = SqlPage(V, EventEarlier(db.event), q)
        BY Zenon DEF SqlAuditEvents
    <2> HIDE DEF S, V
    <2> QED BY Zenon, <2>3, <2>5, <2>6, <2>7
<1> QED BY Zenon, <1>2 DEF EventQueriesAgree

\* A row that a batch leaves out comes after everything in it, and the batch is full.
LEMMA BatchFacts ==
    ASSUME NEW S \in SUBSET Ids, NEW n \in Nat \ {0}, NEW i \in S
    PROVE  LET batch == SortAndPage(S, Sooner, Page(n, 0))
               listed == {batch[k] : k \in 1 .. Len(batch)}
           IN  i \in listed \/ (Len(batch) = n /\ \A j \in listed : <<j, i>> \in Sooner)
<1> DEFINE m == Cardinality(S)
           s == Sorted(S, Sooner)
           r == Rank(S, Sooner, i)
           end == PageEnd(m, n, 0)
           batch == SortAndPage(S, Sooner, Page(n, 0))
<1>1. IsFiniteSet(S) /\ IsOrder(S, Sooner)
    BY Zenon, SoonerOrder
<1>2. r \in 1 .. m /\ m \in Nat
    BY Zenon, <1>1, RankRange
<1>3. s \in [1 .. m -> S] /\ s[r] = i /\ \A k \in 1 .. m : Rank(S, Sooner, s[k]) = k
    BY Zenon, <1>1, SortedFacts
<1>4. Page(n, 0).limit = n /\ Page(n, 0).offset = 0 /\ Directed(Sooner, Page(n, 0)) = Sooner
    BY Zenon DEF Page, Directed
<1>5. m \in Nat /\ 0 < m /\ batch = [k \in 1 .. PageEnd(m, n, 0) - 0 |-> s[0 + k]]
    <2> HIDE DEF r, s
    <2> QED BY <1>1, <1>2, <1>4, SliceFacts DEF s
<1> HIDE DEF m, s, r, batch, end
<1>6. end \in Nat /\ end <= m /\ (end = n \/ end = m)
    BY <1>5 DEF PageEnd, end
<1>7. batch = [k \in 1 .. end |-> s[k]]
    <2>1. \A k \in 1 .. end : 0 + k = k
        BY <1>6
    <2>2. end - 0 = end /\ batch = [k \in 1 .. end - 0 |-> s[0 + k]]
        BY <1>5, <1>6 DEF end
    <2> QED BY Zenon, <2>1, <2>2
<1>8. Len(batch) = end /\ \A k \in 1 .. end : batch[k] = s[k]
    BY <1>6, <1>7
<1>9. CASE r <= end
    BY <1>2, <1>3, <1>6, <1>8, <1>9 DEF batch
<1>10. CASE end < r
    <2>1. end = n
        BY <1>2, <1>6, <1>10
    <2>2. \A k \in 1 .. end : s[k] \in S /\ Rank(S, Sooner, s[k]) < Rank(S, Sooner, i)
        BY SMTT(60), <1>2, <1>3, <1>6, <1>10 DEF r
    <2>3. \A k \in 1 .. end : <<batch[k], i>> \in Sooner
        BY Zenon, <1>1, <1>8, <2>2, RankBijective
    <2> QED BY Zenon, <1>8, <2>1, <2>3 DEF batch
<1> QED BY <1>2, <1>6, <1>9, <1>10

LEMMA ScanHandles ==
    ASSUME MemoryInv
    PROVE  ScanHandlesSLO
<1> DEFINE t == db.certificate
<1>1. t \in [Ids -> Rows \cup {NoRow}]
    BY Zenon DEF MemoryInv, TablesOK, Tables
<1>2. Present(t) \subseteq Ids
    BY Zenon, <1>1 DEF Present
<1>3. ASSUME NEW w \in Windows, NEW n \in 1 .. 2, NEW i \in UnhandledIds(t, now, w), t[i].status # "suspended"
      PROVE  LET batch == ExpirationScan(t, now, now + w, n)
                 listed == {batch[k] : k \in 1 .. Len(batch)}
             IN  i \in listed \/ (Len(batch) = n /\ \A j \in listed : <<j, i>> \in Sooner)
    <2> DEFINE S == {k \in Present(t) : NeedsScan(t, now, now + w, k)}
    <2>1. i \in S /\ S \in SUBSET Ids
        BY Zenon, <1>2, <1>3 DEF UnhandledIds, NeedsScan
    <2>2. ExpirationScan(t, now, now + w, n) = SortAndPage(S, Sooner, Page(n, 0))
        BY DEF ExpirationScan
    <2> HIDE DEF S, t
    <2> QED BY SMTT(60), <2>1, <2>2, BatchFacts
<1> HIDE DEF t
<1>4. \A w \in Windows, n \in 1 .. 2 :
          LET batch == ExpirationScan(t, now, now + w, n)
              listed == {batch[k] : k \in 1 .. Len(batch)}
          IN  \A i \in UnhandledIds(t, now, w) \ listed :
                  t[i].status = "suspended" \/ (Len(batch) = n /\ \A j \in listed : <<j, i>> \in Sooner)
    BY Zenon, <1>3
<1> QED BY ZenonT(60), <1>4 DEF ScanHandlesSLO, t

\* The memory store and the SQL store filter, order and cut every list alike,
\* for any number of certificates and events; and an expiration scan acts on
\* what the expiry objective counts (certificateNeedsExpirationScan, ExpirySLO).
THEOREM FiltersSame == Spec => []FiltersAgree
<1>1. MemoryInv => FiltersAgree
    BY Zenon, QueriesSame, ListsSame, EventQueriesSame, ScanHandles DEF FiltersAgree
<1> QED BY <1>1, MemoryAlways, PTL

=============================================================================
