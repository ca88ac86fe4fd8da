------------------------- MODULE HistorianQueryProofs -------------------------
(***************************************************************************)
(* Proofs about query_historian composed with ingestion (HistorianQuery), *)
(* for every value of the constants that satisfies ConstantsAssumption    *)
(* and QueryAssumption.                                                   *)
(***************************************************************************)
EXTENDS HistorianQuery, HistorianProofs, FiniteSetTheorems, SequenceTheorems

\* The rank of a number in a finite set of numbers: how many are smaller.
Rank(S, t) == Cardinality({u \in S : u < t})

\* The rank of an element is below the size of the set.
LEMMA RankRange ==
    ASSUME NEW S \in SUBSET Nat, IsFiniteSet(S), NEW t \in S
    PROVE  Rank(S, t) \in 0..(Cardinality(S) - 1)
<1>1. Cardinality(S) \in Nat
  BY FS_CardinalityType
<1>2. IsFiniteSet(S \ {t}) /\ Cardinality(S \ {t}) = Cardinality(S) - 1
  BY FS_RemoveElement
<1>3. {u \in S : u < t} \subseteq S \ {t}
  OBVIOUS
<1>4. IsFiniteSet({u \in S : u < t})
      /\ Cardinality({u \in S : u < t}) <= Cardinality(S) - 1
  BY <1>2, <1>3, FS_Subset
<1>5. Cardinality({u \in S : u < t}) \in Nat
  BY <1>4, FS_CardinalityType
<1>6. QED
  BY <1>1, <1>4, <1>5 DEF Rank

\* A smaller element has a smaller rank.
LEMMA RankMono ==
    ASSUME NEW S \in SUBSET Nat, IsFiniteSet(S),
           NEW t1 \in S, NEW t2 \in S, t1 < t2
    PROVE  Rank(S, t1) < Rank(S, t2)
<1> DEFINE L1 == {u \in S : u < t1}
           L2 == {u \in S : u < t2}
<1>1. /\ IsFiniteSet(L1) /\ Cardinality(L1) \in Nat
      /\ IsFiniteSet(L2) /\ Cardinality(L2) \in Nat
  <2>1. L1 \subseteq S /\ L2 \subseteq S
    OBVIOUS
  <2>2. QED
    BY <2>1, FS_Subset, FS_CardinalityType
<1>2. IsFiniteSet(L2 \ {t1}) /\ Cardinality(L2 \ {t1}) = Cardinality(L2) - 1
  BY <1>1, FS_RemoveElement
<1>3. L1 \subseteq L2 \ {t1}
  <2>1. \A u \in S : u < t1 => u < t2 /\ u # t1
    OBVIOUS
  <2>2. QED
    BY <2>1
<1>4. Cardinality(L1) <= Cardinality(L2 \ {t1})
  BY <1>2, <1>3, FS_Subset
<1>5. QED
  BY <1>1, <1>2, <1>4 DEF Rank

\* Two elements of the same rank are equal.
LEMMA RankInj ==
    ASSUME NEW S \in SUBSET Nat, IsFiniteSet(S),
           NEW t1 \in S, NEW t2 \in S, Rank(S, t1) = Rank(S, t2)
    PROVE  t1 = t2
<1>1. Rank(S, t1) \in Nat /\ Rank(S, t2) \in Nat
  BY RankRange
<1>2. ~(t1 < t2) /\ ~(t2 < t1)
  BY <1>1, RankMono
<1>3. QED
  BY <1>2

\* In a finite set of numbers every rank below its size is taken, so the
\* CHOOSE of SortAsc always finds an element of the set.
LEMMA RankOnto ==
    ASSUME NEW S \in SUBSET Nat, IsFiniteSet(S), NEW k \in 1..Cardinality(S)
    PROVE  \E t \in S : Rank(S, t) = k - 1
<1> DEFINE n == Cardinality(S)
           rank == [t \in S |-> Rank(S, t)]
<1>1. n \in Nat
  BY FS_CardinalityType
<1>2. rank \in Injection(S, 0..(n - 1))
  <2>1. rank \in [S -> 0..(n - 1)]
    BY RankRange
  <2>2. \A t1, t2 \in S : rank[t1] = rank[t2] => t1 = t2
    BY RankInj
  <2>3. QED
    BY <2>1, <2>2 DEF Injection, IsInjective
<1>3. IsFiniteSet(0..(n - 1)) /\ Cardinality(0..(n - 1)) = n
  <2>1. 0 \in Int /\ n - 1 \in Int
    BY <1>1
  <2>2. QED
    BY <1>1, <2>1, FS_Interval
<1>4. rank \in Surjection(S, 0..(n - 1))
  BY <1>2, <1>3, FS_Injection
<1>5. k - 1 \in 0..(n - 1)
  BY <1>1
<1>6. QED
  BY <1>4, <1>5 DEF Surjection

\* The k-th element SortAsc lists is an element of rank k - 1.
LEMMA SortAscRank ==
    ASSUME NEW S \in SUBSET Nat, IsFiniteSet(S), NEW k \in 1..Cardinality(S)
    PROVE  SortAsc(S)[k] \in S /\ Rank(S, SortAsc(S)[k]) = k - 1
BY RankOnto DEF SortAsc, Rank

\* SortAsc lists elements of the set.
LEMMA SortAscIn ==
    ASSUME NEW S \in SUBSET Nat, IsFiniteSet(S)
    PROVE  /\ Cardinality(S) \in Nat
           /\ SortAsc(S) \in [1..Cardinality(S) -> S]
<1>1. Cardinality(S) \in Nat
  BY FS_CardinalityType
<1>2. \A k \in 1..Cardinality(S) : SortAsc(S)[k] \in S
  BY SortAscRank
<1>3. QED
  BY <1>1, <1>2 DEF SortAsc

\* SortAsc is strictly increasing and lists every element of the set.
LEMMA SortAscSorted ==
    ASSUME NEW S \in SUBSET Nat, IsFiniteSet(S)
    PROVE  /\ \A k, l \in 1..Cardinality(S) : k < l => SortAsc(S)[k] < SortAsc(S)[l]
           /\ \A t \in S : \E k \in 1..Cardinality(S) : SortAsc(S)[k] = t
<1> DEFINE c == Cardinality(S)
           asc == SortAsc(S)
<1>1. c \in Nat
  BY FS_CardinalityType
<1>2. ASSUME NEW k \in 1..c, NEW l \in 1..c, k < l PROVE asc[k] < asc[l]
  <2>1. asc[k] \in S /\ asc[l] \in S
        /\ Rank(S, asc[k]) = k - 1 /\ Rank(S, asc[l]) = l - 1
    BY SortAscRank
  <2>2. asc[k] # asc[l]
    BY <1>1, <2>1, <1>2
  <2>3. ~(asc[l] < asc[k])
    <3> SUFFICES ASSUME asc[l] < asc[k] PROVE FALSE
      OBVIOUS
    <3>1. Rank(S, asc[l]) < Rank(S, asc[k])
      BY <2>1, RankMono
    <3>2. QED
      BY <1>1, <1>2, <2>1, <3>1
  <2>4. asc[k] \in Nat /\ asc[l] \in Nat
    BY <2>1
  <2>5. QED
    BY <2>2, <2>3, <2>4
<1>3. ASSUME NEW t \in S PROVE \E k \in 1..c : asc[k] = t
  <2>1. Rank(S, t) + 1 \in 1..c
    BY <1>1, RankRange
  <2>2. asc[Rank(S, t) + 1] \in S /\ Rank(S, asc[Rank(S, t) + 1]) = Rank(S, t)
    BY <1>1, <2>1, RankRange, SortAscRank
  <2>3. asc[Rank(S, t) + 1] = t
    <3> DEFINE u == asc[Rank(S, t) + 1]
    <3>1. u \in S /\ Rank(S, u) = Rank(S, t)
      BY <2>2
    <3>2. \A t1, t2 \in S : Rank(S, t1) = Rank(S, t2) => t1 = t2
      BY RankInj
    <3>3. QED
      BY <3>1, <3>2
  <2>4. QED
    BY <2>1, <2>3
<1>4. QED
  BY <1>2, <1>3

\* A function on 1..n is a sequence of length n.
LEMMA FunIsSeq ==
    ASSUME NEW S, NEW n \in Nat, NEW f \in [1..n -> S]
    PROVE  f \in Seq(S) /\ Len(f) = n
<1>1. f \in Seq(S)
  BY SeqDef
<1>2. DOMAIN f = 1..Len(f) /\ Len(f) \in Nat
  BY <1>1, LenProperties
<1>3. QED
  BY <1>1, <1>2

\* The rows a SELECT returns are (timestamp, value) pairs of stored rows,
\* whatever the order and the limit.
LEMMA SelectType ==
    ASSUME TypeOK, NEW table \in Tables, NEW args,
           args.id \in Ids, args.limit \in Nat, args.desc \in BOOLEAN
    PROVE  Select(table, args) \in Seq(Times \X Values)
<1> DEFINE ts  == {t \in Times : dataDB[<<table, args.id, t>>] # None}
           asc == SortAsc(ts)
           c   == Cardinality(ts)
           ord == IF args.desc THEN [k \in 1..Len(asc) |-> asc[Len(asc) + 1 - k]]
                               ELSE asc
           n   == IF args.limit < Len(ord) THEN args.limit ELSE Len(ord)
           page == [k \in 1..n |-> <<ord[k], dataDB[<<table, args.id, ord[k]>>]>>]
<1>1. ts \subseteq Times /\ ts \subseteq Nat /\ IsFiniteSet(ts)
  BY QueryAssumption, FS_Subset
<1>2. ASSUME NEW t \in ts PROVE dataDB[<<table, args.id, t>>] \in Values
  <2>1. <<table, args.id, t>> \in Tables \X Ids \X Times
    OBVIOUS
  <2>2. dataDB \in [Tables \X Ids \X Times -> Values \cup {None}]
    BY DEF TypeOK
  <2>3. QED
    BY <2>1, <2>2
<1> HIDE DEF ts
<1>3. c \in Nat /\ asc \in [1..c -> ts]
  BY <1>1, SortAscIn
<1>4. Len(asc) = c
  BY <1>3, FunIsSeq
<1> HIDE DEF asc, c
<1>5. ord \in [1..c -> ts] /\ Len(ord) = c
  <2>1. ord \in [1..c -> ts]
    <3>1. CASE args.desc
      <4>1. \A k \in 1..c : c + 1 - k \in 1..c
        BY <1>3
      <4>2. QED
        BY <1>3, <1>4, <3>1, <4>1
    <3>2. CASE ~args.desc
      BY <1>3, <3>2
    <3>3. QED
      BY <3>1, <3>2
  <2>2. QED
    BY <1>3, <2>1, FunIsSeq
<1> HIDE DEF ord
<1>6. n \in 0..c
  BY <1>3, <1>5
<1> HIDE DEF n
<1>7. page \in [1..n -> Times \X Values]
  <2>1. ASSUME NEW k \in 1..n
        PROVE  <<ord[k], dataDB[<<table, args.id, ord[k]>>]>> \in Times \X Values
    <3>1. ord[k] \in ts
      BY <1>3, <1>5, <1>6
    <3>2. QED
      BY <1>1, <1>2, <3>1
  <2>2. QED
    BY <2>1
<1>8. page \in Seq(Times \X Values)
  BY <1>3, <1>6, <1>7, FunIsSeq
<1>9. QED
  BY <1>8 DEF Select, ts, asc, c, ord, n, page

\* A query whose statement runs has a topic id and a count: the category
\* is a table, the topic is in _topic_id_map, and a count of None is one
\* of the faults.
LEMMA QueryArgsType ==
    ASSUME TypeOK, NEW q \in QueryInput, Known(q), QueryFault(q) = "none"
    PROVE  /\ QueryArgs(q).id \in Ids
           /\ QueryArgs(q).limit \in Nat
           /\ QueryArgs(q).desc \in BOOLEAN
<1>1. QueryName(q) \in Keys /\ topicIdMap[QueryName(q)] # None
  BY DEF Known
<1>2. topicIdMap[QueryName(q)] \in Ids
  BY <1>1 DEF TypeOK
<1>3. q.count # None
  BY Zenon DEF QueryFault
<1>4. q.count \in Nat
  BY <1>3, QueryAssumption DEF QueryInput
<1>5. QED
  BY <1>2, <1>4 DEF QueryArgs

-----------------------------------------------------------------------------
\* The timestamps of a set in the order of the ORDER BY clause, as Select
\* builds them, and the order the page must follow.
Ordered(S, desc) ==
    IF desc THEN [k \in 1..Len(SortAsc(S)) |-> SortAsc(S)[Len(SortAsc(S)) + 1 - k]]
            ELSE SortAsc(S)
Ahead(desc, t, u) == IF desc THEN t > u ELSE t < u

\* Ordered lists every element of the set once, strictly in the order
\* asked for.
LEMMA OrderedFacts ==
    ASSUME NEW S \in SUBSET Nat, IsFiniteSet(S), NEW desc \in BOOLEAN
    PROVE  /\ Cardinality(S) \in Nat
           /\ Ordered(S, desc) \in [1..Cardinality(S) -> S]
           /\ Len(Ordered(S, desc)) = Cardinality(S)
           /\ \A k, l \in 1..Cardinality(S) :
                 k < l => Ahead(desc, Ordered(S, desc)[k], Ordered(S, desc)[l])
           /\ \A t \in S : \E k \in 1..Cardinality(S) : Ordered(S, desc)[k] = t
<1> DEFINE c == Cardinality(S)
           asc == SortAsc(S)
           o == Ordered(S, desc)
<1>1. c \in Nat /\ asc \in [1..c -> S] /\ Len(asc) = c
  BY SortAscIn, FunIsSeq
<1>2. /\ \A k, l \in 1..c : k < l => asc[k] < asc[l]
      /\ \A t \in S : \E k \in 1..c : asc[k] = t
  BY SortAscSorted
<1>3. CASE desc
  <2>1. o = [k \in 1..c |-> asc[c + 1 - k]]
    BY <1>1, <1>3 DEF Ordered
  <2>2. o \in [1..c -> S]
    BY <1>1, <2>1
  <2>3. ASSUME NEW k \in 1..c, NEW l \in 1..c, k < l PROVE Ahead(desc, o[k], o[l])
    <3>1. c + 1 - l \in 1..c /\ c + 1 - k \in 1..c /\ c + 1 - l < c + 1 - k
      BY <1>1, <2>3
    <3>2. asc[c + 1 - l] < asc[c + 1 - k]
      BY <1>2, <3>1
    <3>3. QED
      BY <1>3, <2>1, <3>2 DEF Ahead
  <2>4. ASSUME NEW t \in S PROVE \E k \in 1..c : o[k] = t
    <3>1. PICK m \in 1..c : asc[m] = t
      BY <1>2
    <3>2. c + 1 - m \in 1..c /\ o[c + 1 - m] = t
      BY <1>1, <2>1, <3>1
    <3>3. QED
      BY <3>2
  <2>5. QED
    BY <1>1, <2>2, <2>3, <2>4, FunIsSeq
<1>4. CASE ~desc
  <2>1. o = asc
    BY <1>4 DEF Ordered
  <2>2. QED
    BY <1>1, <1>2, <1>4, <2>1 DEF Ahead
<1>5. QED
  BY <1>3, <1>4

\* The SELECT of a query that runs returns the page Reference describes:
\* the stored rows of the topic, strictly in the requested order, as many
\* as count allows, none skipped ahead of one returned.
\* The rows of a table that the WHERE clause "topic_id = id" matches.
SelRows(table, id) == {t \in Times : dataDB[<<table, id, t>>] # None}

\* Select spelled with the rows of the WHERE clause and the order they
\* are listed in.
LEMMA SelectUnfold ==
    ASSUME NEW table, NEW args
    PROVE  LET o == Ordered(SelRows(table, args.id), args.desc)
           IN  Select(table, args)
                 = [k \in 1..(IF args.limit < Len(o) THEN args.limit ELSE Len(o)) |->
                      <<o[k], dataDB[<<table, args.id, o[k]>>]>>]
<1> DEFINE ts  == {t \in Times : dataDB[<<table, args.id, t>>] # None}
           ord == IF args.desc THEN [k \in 1..Len(SortAsc(ts)) |-> SortAsc(ts)[Len(SortAsc(ts)) + 1 - k]]
                               ELSE SortAsc(ts)
<1>1. Select(table, args)
        = [k \in 1..(IF args.limit < Len(ord) THEN args.limit ELSE Len(ord)) |->
             <<ord[k], dataDB[<<table, args.id, ord[k]>>]>>]
  BY DEF Select
<1> HIDE DEF SortAsc
<1>2. ord = Ordered(SelRows(table, args.id), args.desc)
  BY DEF Ordered, SelRows
<1> HIDE DEF ord
<1>3. QED
  BY <1>1, <1>2

LEMMA SelectIsReference ==
    ASSUME TypeOK, NEW q \in QueryInput, q.cat \in Tables, Known(q),
           QueryFault(q) = "none"
    PROVE  Reference(q, Select(q.cat, QueryArgs(q)))
<1> DEFINE id   == topicIdMap[QueryName(q)]
           rows == {t \in Times : dataDB[<<q.cat, id, t>>] # None}
           desc == q.order # "FIRST_TO_LAST"
           o    == Ordered(rows, desc)
           c    == Cardinality(rows)
           n    == IF q.count < c THEN q.count ELSE c
           s    == [k \in 1..n |-> <<o[k], dataDB[<<q.cat, id, o[k]>>]>>]
<1>1. /\ QueryArgs(q).id = id /\ id \in Ids
      /\ QueryArgs(q).limit = q.count /\ q.count \in Nat
      /\ QueryArgs(q).desc = desc
  BY QueryArgsType DEF QueryArgs
<1>2. rows \subseteq Nat /\ IsFiniteSet(rows) /\ desc \in BOOLEAN
  BY QueryAssumption, FS_Subset
<1>3. ASSUME NEW t \in rows PROVE dataDB[<<q.cat, id, t>>] \in Values
  <2>1. <<q.cat, id, t>> \in Tables \X Ids \X Times
    BY <1>1
  <2>2. dataDB \in [Tables \X Ids \X Times -> Values \cup {None}]
    BY DEF TypeOK
  <2>3. QED
    BY <2>1, <2>2
<1>4. Select(q.cat, QueryArgs(q))
        = [k \in 1..(IF q.count < Len(o) THEN q.count ELSE Len(o)) |->
             <<o[k], dataDB[<<q.cat, id, o[k]>>]>>]
  <2>1. rows = SelRows(q.cat, QueryArgs(q).id)
    BY <1>1 DEF SelRows
  <2>2. Select(q.cat, QueryArgs(q))
          = [k \in 1..(IF QueryArgs(q).limit < Len(Ordered(SelRows(q.cat, QueryArgs(q).id), QueryArgs(q).desc))
                         THEN QueryArgs(q).limit
                         ELSE Len(Ordered(SelRows(q.cat, QueryArgs(q).id), QueryArgs(q).desc))) |->
               <<Ordered(SelRows(q.cat, QueryArgs(q).id), QueryArgs(q).desc)[k],
                 dataDB[<<q.cat, QueryArgs(q).id,
                          Ordered(SelRows(q.cat, QueryArgs(q).id), QueryArgs(q).desc)[k]>>]>>]
    BY SelectUnfold
  <2> HIDE DEF rows, desc, SelRows, Ordered, Select, QueryArgs
  <2>3. QED
    BY <1>1, <2>1, <2>2
<1> HIDE DEF rows, desc
<1>5. /\ c \in Nat
      /\ o \in [1..c -> rows]
      /\ Len(o) = c
      /\ \A k, l \in 1..c : k < l => Ahead(desc, o[k], o[l])
      /\ \A t \in rows : \E k \in 1..c : o[k] = t
  BY <1>2, OrderedFacts
<1> HIDE DEF o, c
<1>6. Select(q.cat, QueryArgs(q)) = s
  BY <1>4, <1>5
<1>7. n \in 0..c
  BY <1>1, <1>5
<1> HIDE DEF n
<1>8. s \in [1..n -> Times \X Values] /\ Len(s) = n
  <2>1. ASSUME NEW k \in 1..n
        PROVE  <<o[k], dataDB[<<q.cat, id, o[k]>>]>> \in Times \X Values
    <3>1. o[k] \in rows
      BY <1>5, <1>7
    <3>2. QED
      BY <1>3, <3>1 DEF rows
  <2>2. s \in [1..n -> Times \X Values]
    BY <2>1
  <2>3. QED
    BY <1>5, <1>7, <2>2, FunIsSeq
<1>9. \A k \in 1..Len(s) : s[k][1] = o[k] /\ s[k][2] = dataDB[<<q.cat, id, o[k]>>]
  BY <1>8
<1> HIDE DEF s
<1>10. \A k \in 1..Len(s) : s[k][1] \in rows
  <2>1. ASSUME NEW k \in 1..Len(s) PROVE s[k][1] \in rows
    <3>1. k \in 1..c
      BY <1>5, <1>7, <1>8
    <3>2. QED
      BY <1>5, <1>9, <3>1
  <2>2. QED
    BY <2>1
<1>11. \A k \in 1..(Len(s) - 1) : Ahead(desc, s[k][1], s[k + 1][1])
  <2>1. ASSUME NEW k \in 1..(Len(s) - 1) PROVE Ahead(desc, s[k][1], s[k + 1][1])
    <3>1. k \in 1..c /\ k + 1 \in 1..c /\ k \in 1..Len(s) /\ k + 1 \in 1..Len(s)
      BY <1>5, <1>7, <1>8
    <3>2. s[k][1] = o[k] /\ s[k + 1][1] = o[k + 1]
      BY <1>9, <3>1
    <3>3. Ahead(desc, o[k], o[k + 1])
      BY <1>5, <3>1
    <3>4. QED
      BY <3>2, <3>3
  <2>2. QED
    BY <2>1
<1>12. ASSUME NEW t \in rows \ {s[k][1] : k \in 1..Len(s)},
              NEW u \in {s[k][1] : k \in 1..Len(s)}
       PROVE  Ahead(desc, u, t)
  <2>0. PICK m0 \in 1..Len(s) : u = s[m0][1]
    BY <1>12
  <2>1. PICK m \in 1..n : u = o[m]
    BY <1>8, <1>9, <2>0
  <2>2. PICK l \in 1..c : o[l] = t
    BY <1>5, <1>12
  <2>3. ~(l \in 1..n)
    <3> SUFFICES ASSUME l \in 1..n PROVE FALSE
      OBVIOUS
    <3>1. s[l][1] = t
      BY <1>8, <1>9, <2>2
    <3>2. t \in {s[k][1] : k \in 1..Len(s)}
      BY <1>8, <3>1
    <3>3. QED
      BY <3>2, <1>12
  <2>4. m < l /\ m \in 1..c
    BY <1>5, <1>7, <2>1, <2>2, <2>3
  <2>5. QED
    BY <1>5, <2>1, <2>2, <2>4
<1>13. Len(s) = IF q.count < c THEN q.count ELSE c
  BY <1>8 DEF n
<1>14. QED
  <2> USE DEF rows, desc, c
  <2>1. \A k \in 1..Len(s) : s[k][2] = dataDB[<<q.cat, id, s[k][1]>>]
    BY <1>9
  <2>2. \A t \in rows \ {s[k][1] : k \in 1..Len(s)} :
           \A u \in {s[k][1] : k \in 1..Len(s)} :
              IF q.order = "FIRST_TO_LAST" THEN u < t ELSE u > t
    BY <1>12 DEF Ahead
  <2>3. \A k \in 1..(Len(s) - 1) :
           IF q.order = "FIRST_TO_LAST" THEN s[k][1] < s[k + 1][1]
                                        ELSE s[k][1] > s[k + 1][1]
    BY <1>11 DEF Ahead
  <2>4. QED
    BY <1>6, <1>10, <1>13, <2>1, <2>2, <2>3 DEF Reference

\* The answer of query_historian always has its type: a status among the
\* exits of the function (an invalid category, an unknown topic, the
\* TypeError of two bounds, a rejected statement, a lost connection, or the
\* rows), the query that produced it, and a list of (ts, value) pairs,
\* whatever ingestion steps, connection losses and restarts it falls
\* between (lines 384-479).
THEOREM SysTypeCorrect == SysSpec => []SysTypeOK
<1>1. SysInit => SysTypeOK
  BY ConstantsAssumption DEF SysInit, Init, TypeOK, SysTypeOK, NoAnswer
<1>2. SysTypeOK /\ [SysNext]_sysVars => SysTypeOK'
  <2> SUFFICES ASSUME SysTypeOK, [SysNext]_sysVars PROVE SysTypeOK'
    OBVIOUS
  <2>1. TypeOK
    BY DEF SysTypeOK
  <2>2. CASE Next /\ UNCHANGED answer
    BY <2>1, <2>2, TypeOKStep DEF SysTypeOK
  <2>3. CASE Query
    <3>1. PICK q \in QueryInput :
            \/ /\ q.cat \notin Tables
               /\ answer' = [status |-> "invalid", q |-> q, values |-> <<>>, metadata |-> NoMetadata]
               /\ UNCHANGED vars
            \/ /\ q.cat \in Tables
               /\ ~Known(q)
               /\ answer' = [status |-> "notfound", q |-> q, values |-> <<>>, metadata |-> NoMetadata]
               /\ UNCHANGED vars
            \/ /\ q.cat \in Tables
               /\ Known(q)
               /\ QueryFault(q) = "TypeError"
               /\ answer' = [status |-> "TypeError", q |-> q, values |-> <<>>, metadata |-> NoMetadata]
               /\ UNCHANGED vars
            \/ /\ q.cat \in Tables
               /\ Known(q)
               /\ QueryFault(q) # "TypeError"
               /\ conn' = TRUE
               /\ \/ /\ QueryFault(q) = "ProgrammingError"
                     /\ answer' = [status |-> "ProgrammingError", q |-> q, values |-> <<>>, metadata |-> NoMetadata]
                  \/ /\ QueryFault(q) = "none"
                     /\ answer' = [status |-> "ok", q |-> q,
                                   values |-> Select(q.cat, QueryArgs(q)), metadata |-> NoMetadata]
                  \/ answer' = [status |-> "ConnectionError", q |-> q, values |-> <<>>, metadata |-> NoMetadata]
               /\ UNCHANGED <<topicDB, metaDB, dataDB, topicNameMap, topicIdMap,
                              topicMeta, arrived, next, last, pc, i, failures, restarts>>
      BY <2>3 DEF Query
    <3>2. TypeOK'
      BY <2>1, <3>1 DEF TypeOK, vars
    <3>3. answer'.status # "none" /\ answer'.q = q
      BY <3>1
    <3>4. answer'.values \in Seq(Times \X Values)
      <4>1. CASE answer'.status = "ok"
        <5>1. /\ q.cat \in Tables /\ Known(q) /\ QueryFault(q) = "none"
              /\ answer'.values = Select(q.cat, QueryArgs(q))
          BY <3>1, <4>1
        <5>2. /\ QueryArgs(q).id \in Ids
              /\ QueryArgs(q).limit \in Nat
              /\ QueryArgs(q).desc \in BOOLEAN
          BY <2>1, <5>1, QueryArgsType
        <5>3. Select(q.cat, QueryArgs(q)) \in Seq(Times \X Values)
          BY <2>1, <5>1, <5>2, SelectType
        <5>4. QED
          BY <5>1, <5>3
      <4>2. CASE answer'.status # "ok"
        <5>1. answer'.values = << >>
          BY <3>1, <4>2
        <5>2. QED
          BY <5>1, EmptySeq
      <4>3. QED
        BY <4>1, <4>2
    <3>5. answer'.status \in {"none", "invalid", "notfound", "TypeError",
                              "ProgrammingError", "ConnectionError", "ok"}
      BY <3>1
    <3>6. QED
      BY <3>2, <3>3, <3>4, <3>5 DEF SysTypeOK
  <2>4. CASE UNCHANGED sysVars
    BY <2>4 DEF sysVars, vars, SysTypeOK, TypeOK
  <2>5. QED
    BY <2>2, <2>3, <2>4 DEF SysNext
<1>3. QED
  BY <1>1, <1>2, PTL DEF SysSpec


\* The step of query_historian that returns rows: the query reached Crate
\* and answered the SELECT, and ingestion's state is left as it was.
LEMMA QueryOk ==
    ASSUME Query, answer'.status = "ok"
    PROVE  \E q \in QueryInput :
              /\ q.cat \in Tables /\ Known(q) /\ QueryFault(q) = "none"
              /\ answer' = [status |-> "ok", q |-> q,
                            values |-> Select(q.cat, QueryArgs(q)), metadata |-> NoMetadata]
<1>1. PICK q \in QueryInput :
          \/ /\ q.cat \notin Tables
             /\ answer' = [status |-> "invalid", q |-> q, values |-> <<>>, metadata |-> NoMetadata]
             /\ UNCHANGED vars
          \/ /\ q.cat \in Tables
             /\ ~Known(q)
             /\ answer' = [status |-> "notfound", q |-> q, values |-> <<>>, metadata |-> NoMetadata]
             /\ UNCHANGED vars
          \/ /\ q.cat \in Tables
             /\ Known(q)
             /\ QueryFault(q) = "TypeError"
             /\ answer' = [status |-> "TypeError", q |-> q, values |-> <<>>, metadata |-> NoMetadata]
             /\ UNCHANGED vars
          \/ /\ q.cat \in Tables
             /\ Known(q)
             /\ QueryFault(q) # "TypeError"
             /\ conn' = TRUE
             /\ \/ /\ QueryFault(q) = "ProgrammingError"
                   /\ answer' = [status |-> "ProgrammingError", q |-> q, values |-> <<>>, metadata |-> NoMetadata]
                \/ /\ QueryFault(q) = "none"
                   /\ answer' = [status |-> "ok", q |-> q,
                                 values |-> Select(q.cat, QueryArgs(q)), metadata |-> NoMetadata]
                \/ answer' = [status |-> "ConnectionError", q |-> q, values |-> <<>>, metadata |-> NoMetadata]
             /\ UNCHANGED <<topicDB, metaDB, dataDB, topicNameMap, topicIdMap,
                            topicMeta, arrived, next, last, pc, i, failures, restarts>>
  BY DEF Query
<1>2. QED
  BY <1>1

\* query_historian answers every query that reaches Crate with exactly the
\* page of the topic's history that was asked for (the WHERE, ORDER BY and
\* LIMIT of lines 443-477), whatever the tables, topics and query inputs.
THEOREM QueryPageCorrect == SysSpec => QueryAnswersPage
<1>1. SysTypeOK /\ [SysNext]_sysVars
        => [Query /\ answer'.status = "ok" => Reference(answer'.q, answer'.values)]_sysVars
  <2> SUFFICES ASSUME SysTypeOK, Query, answer'.status = "ok"
               PROVE  Reference(answer'.q, answer'.values)
    OBVIOUS
  <2>1. PICK q \in QueryInput :
          /\ q.cat \in Tables /\ Known(q) /\ QueryFault(q) = "none"
          /\ answer' = [status |-> "ok", q |-> q,
                        values |-> Select(q.cat, QueryArgs(q)), metadata |-> NoMetadata]
    BY QueryOk
  <2>2. TypeOK
    BY DEF SysTypeOK
  <2>3. Reference(q, Select(q.cat, QueryArgs(q)))
    BY <2>1, <2>2, SelectIsReference
  <2>4. QED
    BY <2>1, <2>3
<1>2. QED
  BY SysTypeCorrect, <1>1, PTL DEF QueryAnswersPage, SysSpec



\* A query changes no table, cache or loop variable of ingestion; it may
\* only reopen the connection handle (get_connection, lines 470-471).
LEMMA QueryFrame ==
    ASSUME Query
    PROVE  /\ conn' \in {conn, TRUE}
           /\ UNCHANGED <<topicDB, metaDB, dataDB, topicNameMap, topicIdMap,
                          topicMeta, arrived, next, last, pc, i, failures, restarts>>
BY DEF Query, vars

\* The ingestion invariant AckInv survives a query step.
LEMMA AckInvQuery == AckInv /\ Query => AckInv'
<1> SUFFICES ASSUME AckInv, Query PROVE AckInv'
  OBVIOUS
<1>1. conn' \in BOOLEAN
  BY QueryFrame DEF AckInv, TypeOK
<1>2. QED
  BY <1>1, QueryFrame DEF AckInv, TypeOK, RowsWellKeyed, CacheImpliesRow,
     AckedPointsStored, BatchStored, CurPartStored, Stored, Cur

\* With queries running beside it, ingestion still implements the abstract
\* store: a query is a stutter of HistorianStore.
THEOREM SysRefinement == SysSpec => StoreRefinement
<1>1. SysInit => AckInv /\ Store!Init
  BY AckInvInit DEF SysInit, Init, Store!Init
<1>2. AckInv /\ [SysNext]_sysVars => AckInv'
  <2> SUFFICES ASSUME AckInv, [SysNext]_sysVars PROVE AckInv'
    OBVIOUS
  <2>1. CASE Next /\ UNCHANGED answer
    BY <2>1, AckInvStep
  <2>2. CASE Query
    BY <2>2, AckInvQuery
  <2>3. CASE UNCHANGED sysVars
    BY <2>3, AckInvStep DEF sysVars
  <2>4. QED
    BY <2>1, <2>2, <2>3 DEF SysNext
<1>3. AckInv /\ [SysNext]_sysVars => [Store!Next]_(Store!storeVars)
  <2> SUFFICES ASSUME AckInv, [SysNext]_sysVars PROVE [Store!Next]_(Store!storeVars)
    OBVIOUS
  <2>1. CASE Next /\ UNCHANGED answer
    BY <2>1, RefinementStep
  <2>2. CASE Query
    BY <2>2, QueryFrame DEF Store!storeVars
  <2>3. CASE UNCHANGED sysVars
    BY <2>3 DEF sysVars, vars, Store!storeVars
  <2>4. QED
    BY <2>1, <2>2, <2>3 DEF SysNext
<1>4. QED
  BY <1>1, <1>2, <1>3, PTL DEF SysSpec, StoreRefinement, Store!Spec


\* What a reader sees of first-write-wins: for every value of the
\* constants, every row an answered query returns, whenever it runs during
\* ingestion, holds the value of the oldest coercible publication of that
\* (table, topic id, timestamp), as insert_data's ON DUPLICATE KEY keeps it.
THEOREM QueryFirstWritten == SysSpec => QueryReadsFirstWritten
<1>1. SysSpec => []StoredIsFirstWritten
  BY SysRefinement, StoreParams, Store!StoreFirstWins, PTL DEF StoreRefinement, StoredIsFirstWritten
<1>2. SysTypeOK /\ StoredIsFirstWritten /\ [SysNext]_sysVars
        => [Query /\ answer'.status = "ok" =>
              \A k \in 1..Len(answer'.values) :
                 \E j \in 1..arrived :
                    /\ Stream[j].coerces
                    /\ DataKey(Stream[j]) = RowKey(answer'.q, answer'.values[k][1])
                    /\ Stream[j].value = answer'.values[k][2]
                    /\ \A j0 \in 1..(j - 1) :
                          Stream[j0].coerces =>
                             DataKey(Stream[j0]) # RowKey(answer'.q, answer'.values[k][1])]_sysVars
  <2> SUFFICES ASSUME SysTypeOK, StoredIsFirstWritten, Query, answer'.status = "ok",
                      NEW k \in 1..Len(answer'.values)
               PROVE  \E j \in 1..arrived :
                        /\ Stream[j].coerces
                        /\ DataKey(Stream[j]) = RowKey(answer'.q, answer'.values[k][1])
                        /\ Stream[j].value = answer'.values[k][2]
                        /\ \A j0 \in 1..(j - 1) :
                              Stream[j0].coerces =>
                                 DataKey(Stream[j0]) # RowKey(answer'.q, answer'.values[k][1])
    OBVIOUS
  <2>1. PICK q \in QueryInput :
          /\ q.cat \in Tables /\ Known(q) /\ QueryFault(q) = "none"
          /\ answer' = [status |-> "ok", q |-> q,
                        values |-> Select(q.cat, QueryArgs(q)), metadata |-> NoMetadata]
    BY QueryOk
  <2> DEFINE sel == Select(q.cat, QueryArgs(q))
             id  == topicIdMap[QueryName(q)]
             key == <<q.cat, id, sel[k][1]>>
  <2>2. TypeOK
    BY DEF SysTypeOK
  <2>3. answer'.q = q /\ answer'.values = sel /\ k \in 1..Len(sel)
    BY <2>1
  <2>4. Reference(q, sel)
    BY <2>1, <2>2, SelectIsReference
  <2>5. /\ sel[k][1] \in Times
        /\ dataDB[key] # None
        /\ sel[k][2] = dataDB[key]
    BY <2>3, <2>4 DEF Reference
  <2>6. key \in Tables \X Ids \X Times
    <3>1. id \in Ids
      BY <2>1, <2>2, QueryArgsType DEF QueryArgs
    <3>2. QED
      BY <2>1, <2>5, <3>1
  <2>7. \E j \in 1..arrived :
           /\ Stream[j].coerces
           /\ DataKey(Stream[j]) = key
           /\ dataDB[key] = Stream[j].value
           /\ \A j0 \in 1..(j - 1) : Stream[j0].coerces => DataKey(Stream[j0]) # key
    BY <2>5, <2>6 DEF StoredIsFirstWritten, Store!FirstWins
  <2> HIDE DEF sel, key
  <2>8. QED
    BY <2>3, <2>5, <2>7 DEF key, RowKey
<1>3. QED
  BY <1>1, <1>2, SysTypeCorrect, PTL DEF QueryReadsFirstWritten, SysSpec

=============================================================================
