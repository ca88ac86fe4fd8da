--------------------------- MODULE HistorianProofs ---------------------------
(***************************************************************************)
(* Proofs about the ingestion model Historian, for every value of its      *)
(* constants that satisfies ConstantsAssumption.                           *)
(***************************************************************************)
EXTENDS Historian, TLAPS

USE ConstantsAssumption

\* Each point of the stream is a Point, so its fields have their types.
LEMMA StreamPoint ==
    ASSUME NEW j \in 1..Len(Stream)
    PROVE  /\ Stream[j] \in Point
           /\ Lower(Stream[j].topic) \in Keys
           /\ TopicId(Stream[j]) \in Ids
           /\ DataKey(Stream[j]) \in Tables \X Ids \X Times
<1>1. Stream[j] \in Point
  BY ConstantsAssumption
<1>2. Lower(Stream[j].topic) \in Keys
  BY <1>1 DEF Point, Keys
<1>3. Table(Stream[j].source) \in Tables
  BY <1>1 DEF Point, Sources, Table, Tables
<1>4. QED
  BY <1>1, <1>2, <1>3 DEF Ids, TopicId, DataKey, Point

\* The point being written is a point of the stream.
LEMMA CurInStream ==
    TypeOK /\ pc # "idle" => i \in 1..Len(Stream)
BY DEF TypeOK

\* The insert-or-keep and update-or-keep statements keep a table's type.
LEMMA StmtType ==
    ASSUME NEW D, NEW R, NEW t \in [D -> R], NEW key \in D, NEW row \in R
    PROVE  /\ InsertIfAbsent(t, key, row) \in [D -> R]
           /\ UpdateIfPresent(t, key, row) \in [D -> R]
BY DEF InsertIfAbsent, UpdateIfPresent

\* What historian_setup loads has the type of the caches.
LEMMA LoadedType ==
    ASSUME TypeOK
    PROVE  /\ LoadedNames \in [Keys -> Names \cup {None}]
           /\ LoadedIds \in [Keys -> Ids \cup {None}]
<1>1. ASSUME NEW k \in Keys, HasRow(k)
      PROVE  RowOf(k) \in Ids /\ topicDB[RowOf(k)] \in Names
  BY <1>1 DEF HasRow, RowOf, TypeOK
<1>2. QED BY <1>1 DEF LoadedNames, LoadedIds

-----------------------------------------------------------------------------
\* One step of the system keeps the types.
LEMMA TypeOKStep == TypeOK /\ [Next]_vars => TypeOK'
<1> SUFFICES ASSUME TypeOK, [Next]_vars PROVE TypeOK'
  OBVIOUS
<1>1. CASE Arrive
  BY <1>1 DEF Arrive, TypeOK
<1>2. CASE StartBatch
  BY <1>2 DEF StartBatch, TypeOK
<1>3. CASE PointError
  BY <1>3 DEF PointError, TypeOK
<1>4. CASE PointStep
  <2>1. i \in 1..Len(Stream)
    BY <1>4, CurInStream DEF PointStep
  <2>2. /\ Cur.topic \in Names
        /\ Lower(Cur.topic) \in Keys
        /\ TopicId(Cur) \in Ids
    BY <2>1, StreamPoint DEF Cur, Point
  <2>3. TopicStmt(Cur, topicNameMap[Lower(Cur.topic)]) \in [Ids -> Names \cup {None}]
    BY <2>2, StmtType DEF TopicStmt, TypeOK
  <2>4. QED
    BY <1>4, <2>2, <2>3 DEF PointStep, TypeOK
<1>5. CASE DataStep
  <2>1. i \in 1..Len(Stream)
    BY <1>5, CurInStream DEF DataStep
  <2>2. /\ DataKey(Cur) \in Tables \X Ids \X Times
        /\ Cur.value \in Values
    BY <2>1, StreamPoint DEF Cur, Point
  <2>3. InsertIfAbsent(dataDB, DataKey(Cur), Cur.value)
            \in [Tables \X Ids \X Times -> Values \cup {None}]
    BY <2>2, StmtType DEF TypeOK
  <2>4. QED
    BY <1>5, <2>3 DEF DataStep, TypeOK
<1>6. CASE MetaStep
  <2>1. i \in 1..Len(Stream)
    BY <1>6, CurInStream DEF MetaStep
  <2>2. /\ TopicId(Cur) \in Ids
        /\ Cur.meta \in Metas
    BY <2>1, StreamPoint DEF Cur, Point
  <2>3. InsertIfAbsent(metaDB, TopicId(Cur), Cur.meta) \in [Ids -> Metas \cup {None}]
    BY <2>2, StmtType DEF TypeOK
  <2>4. QED
    BY <1>6, <2>2, <2>3 DEF MetaStep, TypeOK
<1>7. CASE ConnectionLost
  <2>1. pc \in {"point", "data", "meta"} /\ i \in 1..Len(Stream)
    BY <1>7, CurInStream DEF ConnectionLost, StmtPending
  <2>2. /\ Lower(Cur.topic) \in Keys
        /\ TopicId(Cur) \in Ids
        /\ DataKey(Cur) \in Tables \X Ids \X Times
        /\ Cur \in Point
    BY <2>1, StreamPoint DEF Cur
  <2>3. /\ TopicStmt(Cur, topicNameMap[Lower(Cur.topic)]) \in [Ids -> Names \cup {None}]
        /\ InsertIfAbsent(dataDB, DataKey(Cur), Cur.value)
              \in [Tables \X Ids \X Times -> Values \cup {None}]
        /\ InsertIfAbsent(metaDB, TopicId(Cur), Cur.meta) \in [Ids -> Metas \cup {None}]
    BY <2>2, StmtType DEF TopicStmt, TypeOK, Point
  <2>4. /\ topicDB' \in [Ids -> Names \cup {None}]
        /\ metaDB' \in [Ids -> Metas \cup {None}]
        /\ dataDB' \in [Tables \X Ids \X Times -> Values \cup {None}]
    <3>1. CASE UNCHANGED <<topicDB, metaDB, dataDB>>
      BY <3>1 DEF TypeOK
    <3>2. CASE pc = "point" /\ ~UNCHANGED <<topicDB, metaDB, dataDB>>
      BY <1>7, <2>3, <3>2 DEF ConnectionLost, TypeOK
    <3>3. CASE pc = "data" /\ ~UNCHANGED <<topicDB, metaDB, dataDB>>
      BY <1>7, <2>3, <3>3 DEF ConnectionLost, TypeOK
    <3>4. CASE pc = "meta" /\ ~UNCHANGED <<topicDB, metaDB, dataDB>>
      BY <1>7, <2>3, <3>4 DEF ConnectionLost, TypeOK
    <3>5. QED
      BY <2>1, <3>1, <3>2, <3>3, <3>4
  <2>5. /\ conn' = FALSE /\ pc' = "idle" /\ failures' = failures + 1
        /\ failures < MaxFailures
        /\ UNCHANGED <<topicNameMap, topicIdMap, topicMeta, arrived, next, last,
                       i, restarts>>
    BY <1>7 DEF ConnectionLost
  <2>6. failures' \in 0..MaxFailures
    BY <2>5 DEF TypeOK
  <2>7. QED
    BY <2>4, <2>5, <2>6 DEF TypeOK
<1>8. CASE Restart
  BY <1>8, LoadedType DEF Restart, LoadedMeta, TypeOK
<1>9. CASE UNCHANGED vars
  BY <1>9 DEF vars, TypeOK
<1>10. QED
  BY <1>1, <1>2, <1>3, <1>4, <1>5, <1>6, <1>7, <1>8, <1>9 DEF Next, Process

\* Type correctness: every variable keeps the type TypeOK gives it, and
\* the point publish_to_historian is writing is always inside the batch
\* taken from the backlog.
THEOREM TypeCorrect == Spec => []TypeOK
<1>1. Init => TypeOK
  BY DEF Init, TypeOK
<1>2. QED
  BY <1>1, TypeOKStep, PTL DEF Spec

-----------------------------------------------------------------------------
\* Distinct lower-case names have distinct md5 ids.
LEMMA HashDistinct ==
    ASSUME NEW k1 \in Keys, NEW k2 \in Keys, k1 # k2
    PROVE  Hash(k1) # Hash(k2)
BY ConstantsAssumption

\* A topic statement issued from a consistent cache writes the point's
\* spelling into the row of its id: the insert finds no row (the cache
\* covers the table) and the rename finds the row (the cache matches it).
LEMMA TopicStmtWrites ==
    ASSUME TopicInv, NEW p \in Point, TopicStmtIssued(p)
    PROVE  TopicStmt(p, topicNameMap[Lower(p.topic)])
               = [topicDB EXCEPT ![Hash(Lower(p.topic))] = p.topic]
<1> DEFINE k == Lower(p.topic)
<1>1. k \in Keys
  BY DEF Point, Keys
<1>2. CASE topicNameMap[k] = None
  <2>1. topicDB[Hash(k)] = None
    BY <1>1, <1>2 DEF TopicInv, CacheCoversStore
  <2>2. QED
    BY <1>2, <2>1 DEF TopicStmt, InsertIfAbsent, TopicId
<1>3. CASE topicNameMap[k] # None
  <2>1. topicDB[Hash(k)] # None
    BY <1>1, <1>3 DEF TopicInv, TopicCacheMatchesStore
  <2>2. QED
    BY <1>3, <2>1 DEF TopicStmt, UpdateIfPresent, TopicId
<1>4. QED
  BY <1>2, <1>3

\* What historian_setup loads from well-keyed rows is the table itself:
\* a lower-case name is loaded exactly when the row of its id exists, with
\* that row's spelling.
LEMMA LoadedIsTable ==
    ASSUME TypeOK, RowsWellKeyed, NEW k \in Keys
    PROVE  LoadedNames[k] = topicDB[Hash(k)]
<1>1. CASE HasRow(k)
  <2>1. PICK r \in Ids : topicDB[r] # None /\ Lower(topicDB[r]) = k
    BY <1>1 DEF HasRow
  <2>2. /\ RowOf(k) \in Ids
        /\ topicDB[RowOf(k)] # None
        /\ Lower(topicDB[RowOf(k)]) = k
    BY <2>1 DEF RowOf
  <2>3. RowOf(k) = Hash(k)
    BY <2>2 DEF RowsWellKeyed
  <2>4. QED
    BY <1>1, <2>3 DEF LoadedNames
<1>2. CASE ~HasRow(k)
  <2>1. topicDB[Hash(k)] # None => Lower(topicDB[Hash(k)]) \in Keys
    BY DEF TypeOK, Keys, Ids
  <2>2. topicDB[Hash(k)] # None => Hash(Lower(topicDB[Hash(k)])) = Hash(k)
    BY DEF RowsWellKeyed, Ids
  <2>3. topicDB[Hash(k)] # None => Lower(topicDB[Hash(k)]) = k
    BY <2>1, <2>2, ConstantsAssumption
  <2>4. Hash(k) \in Ids
    BY DEF Ids
  <2>5. topicDB[Hash(k)] = None
    BY <1>2, <2>3, <2>4 DEF HasRow
  <2>6. QED
    BY <1>2, <2>5 DEF LoadedNames
<1>3. QED
  BY <1>1, <1>2

\* The topic-name cache matches the topic table at every step, as long as
\* a ConnectionError is raised before the statement reaches the server:
\* publish_to_historian updates _topic_name_map only after the statement
\* succeeded, and historian_setup reloads it from the table.  The
\* invariant is strengthened by RowsWellKeyed (a reload keys every row
\* by the name the code hashes) and CacheCoversStore (an insert from the
\* cache never meets an existing row).
THEOREM TopicCacheConsistent ==
    ASSUME ~LostReply
    PROVE  Spec => []TopicCacheMatchesStore
<1>1. Init => TopicInv
  BY DEF Init, TopicInv, TypeOK, TopicCacheMatchesStore, RowsWellKeyed,
         CacheCoversStore, Ids
<1>2. TopicInv /\ [Next]_vars => TopicInv'
  <2> SUFFICES ASSUME TopicInv, [Next]_vars PROVE TopicInv'
    OBVIOUS
  <2>1. TypeOK'
    BY TypeOKStep DEF TopicInv
  <2>2. CASE PointStep /\ TopicStmtIssued(Cur)
    <3> DEFINE k == Lower(Cur.topic)
               n == Cur.topic
    <3>1. Cur \in Point /\ k \in Keys /\ n \in Names
      BY <2>2, CurInStream, StreamPoint DEF PointStep, Cur, TopicInv, Point
    <3>2. /\ topicDB' = [topicDB EXCEPT ![Hash(k)] = n]
          /\ topicNameMap' = [topicNameMap EXCEPT ![k] = n]
      BY <2>2, <3>1, TopicStmtWrites DEF PointStep
    <3>3. ASSUME NEW k2 \in Keys, k2 # k
          PROVE  /\ topicDB'[Hash(k2)] = topicDB[Hash(k2)]
                 /\ topicNameMap'[k2] = topicNameMap[k2]
      BY <3>1, <3>2, <3>3, HashDistinct
    <3>4. TopicCacheMatchesStore'
      BY <3>1, <3>2, <3>3 DEF TopicInv, TypeOK, TopicCacheMatchesStore, Ids
    <3>5. RowsWellKeyed'
      BY <3>1, <3>2 DEF TopicInv, TypeOK, RowsWellKeyed
    <3>6. CacheCoversStore'
      BY <3>1, <3>2, <3>3 DEF TopicInv, TypeOK, CacheCoversStore, Ids
    <3>7. QED
      BY <2>1, <3>4, <3>5, <3>6 DEF TopicInv
  <2>3. CASE Restart
    <3>1. /\ topicDB' = topicDB
          /\ topicNameMap' = LoadedNames
      BY <2>3 DEF Restart
    <3>2. \A k \in Keys : topicNameMap'[k] = topicDB[Hash(k)]
      BY <3>1, LoadedIsTable DEF TopicInv
    <3>3. QED
      BY <2>1, <3>1, <3>2 DEF TopicInv, TopicCacheMatchesStore, RowsWellKeyed,
                               CacheCoversStore
  <2>4. CASE ConnectionLost
    <3>1. UNCHANGED <<topicDB, topicNameMap>>
      BY <2>4 DEF ConnectionLost
    <3>2. QED
      BY <2>1, <3>1 DEF TopicInv, TopicCacheMatchesStore, RowsWellKeyed,
                        CacheCoversStore
  <2>5. CASE \/ Arrive \/ StartBatch \/ PointError
             \/ (PointStep /\ ~TopicStmtIssued(Cur))
             \/ DataStep \/ MetaStep \/ UNCHANGED vars
    <3>1. UNCHANGED <<topicDB, topicNameMap>>
      BY <2>5 DEF Arrive, StartBatch, PointError, PointStep, DataStep,
                  MetaStep, vars
    <3>2. QED
      BY <2>1, <3>1 DEF TopicInv, TopicCacheMatchesStore, RowsWellKeyed,
                        CacheCoversStore
  <2>6. QED
    BY <2>2, <2>3, <2>4, <2>5 DEF Next, Process
<1>3. TopicInv => TopicCacheMatchesStore
  BY DEF TopicInv
<1>4. QED
  BY <1>1, <1>2, <1>3, PTL DEF Spec

-----------------------------------------------------------------------------
\* No statement of the code deletes a row: the inserts keep an existing
\* row, the rename only replaces a spelling.
RowsKept ==
    /\ \A x \in Ids : topicDB[x] # None => topicDB'[x] # None
    /\ \A x \in Ids : metaDB[x] # None => metaDB'[x] # None
    /\ \A x \in Tables \X Ids \X Times : dataDB[x] # None => dataDB'[x] # None

\* After the insert-or-keep statement the row of its key exists.
LEMMA InsertFills ==
    ASSUME NEW D, NEW R, NEW t \in [D -> R], NEW key \in D, NEW row, row # None
    PROVE  InsertIfAbsent(t, key, row)[key] # None
BY DEF InsertIfAbsent

\* A topic statement leaves the table as it was or writes the point's
\* spelling into the row of its id.
LEMMA TopicStmtShape ==
    ASSUME NEW p, NEW c
    PROVE  \/ TopicStmt(p, c) = topicDB
           \/ TopicStmt(p, c) = [topicDB EXCEPT ![TopicId(p)] = p.topic]
BY DEF TopicStmt, InsertIfAbsent, UpdateIfPresent

\* When every cached spelling has its row, the topic statement chosen from
\* the cache leaves a row under the point's id: the insert creates one, and
\* the rename only runs for a cached name, whose row exists.
LEMMA TopicStmtRow ==
    ASSUME TypeOK, CacheImpliesRow, NEW p \in Point
    PROVE  TopicStmt(p, topicNameMap[Lower(p.topic)])[TopicId(p)] # None
<1> DEFINE k == Lower(p.topic)
<1>1. /\ k \in Keys
      /\ TopicId(p) = Hash(k)
      /\ Hash(k) \in Ids
      /\ p.topic \in Names
      /\ p.topic # None
  BY DEF Point, Keys, Ids, TopicId
<1>2. CASE topicNameMap[k] = None
  BY <1>1, <1>2, InsertFills DEF TopicStmt, TypeOK
<1>3. CASE topicNameMap[k] # None
  <2>1. topicDB[Hash(k)] # None
    BY <1>1, <1>3 DEF CacheImpliesRow
  <2>2. QED
    BY <1>1, <1>3, <2>1 DEF TopicStmt, UpdateIfPresent, TypeOK
<1>4. QED
  BY <1>2, <1>3

\* The change test of line 217 never finds the old metadata, so every
\* point goes on to the meta insert.
LEMMA MetaAlwaysChanged ==
    ASSUME NEW p
    PROVE  MetaChanged(p)
BY DEF MetaChanged, MetaEntry

\* The point being written has a well-typed topic, id and data key.
LEMMA CurPoint ==
    ASSUME TypeOK, pc # "idle"
    PROVE  /\ Cur \in Point
           /\ Cur.topic \in Names
           /\ Lower(Cur.topic) \in Keys
           /\ TopicId(Cur) \in Ids
           /\ DataKey(Cur) \in Tables \X Ids \X Times
           /\ Cur.value \in Values
           /\ Cur.meta \in Metas
<1>1. i \in 1..Len(Stream)
  BY CurInStream
<1>2. QED
  BY <1>1, StreamPoint DEF Cur, Point

\* Every step keeps every row that exists.
LEMMA RowsKeptStep == TypeOK /\ [Next]_vars => RowsKept
<1> SUFFICES ASSUME TypeOK, [Next]_vars PROVE RowsKept
  OBVIOUS
<1>1. CASE PointStep
  <2>1. Cur.topic \in Names /\ Cur.topic # None /\ TopicId(Cur) \in Ids
    BY <1>1, CurPoint DEF PointStep
  <2>2. \A x \in Ids : topicDB[x] # None => topicDB'[x] # None
    <3>1. CASE TopicStmtIssued(Cur)
      <4>1. \/ topicDB' = topicDB
            \/ topicDB' = [topicDB EXCEPT ![TopicId(Cur)] = Cur.topic]
        BY <1>1, <3>1, TopicStmtShape DEF PointStep
      <4>2. QED
        BY <2>1, <4>1 DEF TypeOK
    <3>2. CASE ~TopicStmtIssued(Cur)
      BY <1>1, <3>2 DEF PointStep
    <3>3. QED
      BY <3>1, <3>2
  <2>3. QED
    BY <1>1, <2>2 DEF PointStep, RowsKept
<1>2. CASE DataStep
  <2>1. DataKey(Cur) \in Tables \X Ids \X Times /\ Cur.value \in Values
    BY <1>2, CurPoint DEF DataStep
  <2>2. Cur.value # None
    BY <2>1
  <2>3. \A x \in Tables \X Ids \X Times :
            dataDB[x] # None => InsertIfAbsent(dataDB, DataKey(Cur), Cur.value)[x] # None
    BY <2>1, <2>2 DEF InsertIfAbsent, TypeOK
  <2>4. QED
    BY <1>2, <2>3 DEF DataStep, RowsKept
<1>3. CASE MetaStep
  <2>1. TopicId(Cur) \in Ids /\ Cur.meta \in Metas /\ Cur.meta # None
    BY <1>3, CurPoint DEF MetaStep
  <2>2. \A x \in Ids : metaDB[x] # None => metaDB'[x] # None
    <3>1. \A x \in Ids :
            metaDB[x] # None => InsertIfAbsent(metaDB, TopicId(Cur), Cur.meta)[x] # None
      BY <2>1 DEF InsertIfAbsent, TypeOK
    <3>2. QED
      BY <1>3, <3>1 DEF MetaStep
  <2>3. QED
    BY <1>3, <2>2 DEF MetaStep, RowsKept
<1>4. CASE ConnectionLost
  <2>1. pc \in {"point", "data", "meta"}
    BY <1>4 DEF ConnectionLost, StmtPending
  <2>2. /\ Cur.topic \in Names /\ Cur.topic # None /\ TopicId(Cur) \in Ids
        /\ DataKey(Cur) \in Tables \X Ids \X Times
        /\ Cur.value \in Values /\ Cur.value # None
        /\ Cur.meta \in Metas /\ Cur.meta # None
    BY <2>1, CurPoint
  <2>3. CASE UNCHANGED <<topicDB, metaDB, dataDB>>
    BY <2>3 DEF RowsKept
  <2>4. CASE pc = "point" /\ ~UNCHANGED <<topicDB, metaDB, dataDB>>
    <3>1. /\ topicDB' = TopicStmt(Cur, topicNameMap[Lower(Cur.topic)])
          /\ UNCHANGED <<metaDB, dataDB>>
      BY <1>4, <2>4 DEF ConnectionLost
    <3>2. \/ topicDB' = topicDB
          \/ topicDB' = [topicDB EXCEPT ![TopicId(Cur)] = Cur.topic]
      BY <3>1, TopicStmtShape
    <3>3. QED
      BY <2>2, <3>1, <3>2 DEF RowsKept, TypeOK
  <2>5. CASE pc = "data" /\ ~UNCHANGED <<topicDB, metaDB, dataDB>>
    <3>1. /\ dataDB' = InsertIfAbsent(dataDB, DataKey(Cur), Cur.value)
          /\ UNCHANGED <<topicDB, metaDB>>
      BY <1>4, <2>5 DEF ConnectionLost
    <3>2. \A x \in Tables \X Ids \X Times :
            dataDB[x] # None => InsertIfAbsent(dataDB, DataKey(Cur), Cur.value)[x] # None
      BY <2>2 DEF InsertIfAbsent, TypeOK
    <3>3. QED
      BY <3>1, <3>2 DEF RowsKept
  <2>6. CASE pc = "meta" /\ ~UNCHANGED <<topicDB, metaDB, dataDB>>
    <3>1. /\ metaDB' = InsertIfAbsent(metaDB, TopicId(Cur), Cur.meta)
          /\ UNCHANGED <<topicDB, dataDB>>
      BY <1>4, <2>6 DEF ConnectionLost
    <3>2. \A x \in Ids :
            metaDB[x] # None => InsertIfAbsent(metaDB, TopicId(Cur), Cur.meta)[x] # None
      BY <2>2 DEF InsertIfAbsent, TypeOK
    <3>3. QED
      BY <3>1, <3>2 DEF RowsKept
  <2>7. QED
    BY <2>1, <2>3, <2>4, <2>5, <2>6
<1>5. CASE Arrive \/ StartBatch \/ PointError \/ Restart \/ UNCHANGED vars
  BY <1>5 DEF Arrive, StartBatch, PointError, Restart, vars, RowsKept
<1>6. QED
  BY <1>1, <1>2, <1>3, <1>4, <1>5 DEF Next, Process

\* A stored point stays stored.
LEMMA StoredKept ==
    ASSUME TypeOK, RowsKept, NEW j \in 1..Len(Stream), Stored(j)
    PROVE  Stored(j)'
BY StreamPoint DEF RowsKept, Stored

\* A step either leaves the topic table alone or writes the spelling of
\* the point being written into the row of its id.
LEMMA TopicTableStep ==
    ASSUME TypeOK, [Next]_vars
    PROVE  \/ topicDB' = topicDB
           \/ pc # "idle" /\ topicDB' = [topicDB EXCEPT ![TopicId(Cur)] = Cur.topic]
<1>1. CASE PointStep
  <2>1. CASE TopicStmtIssued(Cur)
    BY <1>1, <2>1, TopicStmtShape DEF PointStep
  <2>2. CASE ~TopicStmtIssued(Cur)
    BY <1>1, <2>2 DEF PointStep
  <2>3. QED
    BY <2>1, <2>2
<1>2. CASE ConnectionLost
  <2>1. pc \in {"point", "data", "meta"}
    BY <1>2 DEF ConnectionLost, StmtPending
  <2>2. CASE pc = "point" /\ ~UNCHANGED <<topicDB, metaDB, dataDB>>
    <3>1. topicDB' = TopicStmt(Cur, topicNameMap[Lower(Cur.topic)])
      BY <1>2, <2>2 DEF ConnectionLost
    <3>2. QED
      BY <2>2, <3>1, TopicStmtShape
  <2>3. CASE pc # "point" \/ UNCHANGED <<topicDB, metaDB, dataDB>>
    BY <1>2, <2>1, <2>3 DEF ConnectionLost
  <2>4. QED
    BY <2>2, <2>3
<1>3. CASE Arrive \/ StartBatch \/ PointError \/ DataStep \/ MetaStep \/ Restart
           \/ UNCHANGED vars
  BY <1>3 DEF Arrive, StartBatch, PointError, DataStep, MetaStep, Restart, vars
<1>4. QED
  BY <1>1, <1>2, <1>3 DEF Next, Process

\* The initial state satisfies AckInv.
LEMMA AckInvInit == Init => AckInv
BY DEF Init, AckInv, TypeOK, RowsWellKeyed, CacheImpliesRow,
       AckedPointsStored, BatchStored, CurPartStored, Ids

\* One step preserves AckInv.
LEMMA AckInvStep == AckInv /\ [Next]_vars => AckInv'
<1> SUFFICES ASSUME AckInv, [Next]_vars PROVE AckInv'
  OBVIOUS
<1>1. TypeOK'
  BY TypeOKStep DEF AckInv
<1>2. RowsKept
  BY RowsKeptStep DEF AckInv
<1>3. RowsWellKeyed'
  <2>1. CASE topicDB' = topicDB
    BY <2>1 DEF AckInv, RowsWellKeyed
  <2>2. CASE pc # "idle" /\ topicDB' = [topicDB EXCEPT ![TopicId(Cur)] = Cur.topic]
    <3>1. Cur.topic \in Names /\ TopicId(Cur) \in Ids
      BY <2>2, CurPoint DEF AckInv
    <3>2. Hash(Lower(Cur.topic)) = TopicId(Cur)
      BY DEF TopicId
    <3>3. QED
      BY <2>2, <3>1, <3>2 DEF AckInv, TypeOK, RowsWellKeyed
  <2>3. QED
    BY <2>1, <2>2, TopicTableStep DEF AckInv
<1>4. CacheImpliesRow'
  <2>1. CASE Restart
    <3>1. topicDB' = topicDB /\ topicNameMap' = LoadedNames
      BY <2>1 DEF Restart
    <3>2. \A k \in Keys : LoadedNames[k] = topicDB[Hash(k)]
      BY LoadedIsTable DEF AckInv
    <3>3. QED
      BY <3>1, <3>2 DEF CacheImpliesRow
  <2>2. CASE PointStep /\ TopicStmtIssued(Cur)
    <3> DEFINE k == Lower(Cur.topic)
    <3>1. Cur \in Point /\ k \in Keys /\ Cur.topic \in Names /\ TopicId(Cur) = Hash(k)
      BY <2>2, CurPoint DEF PointStep, AckInv, TopicId
    <3>2. /\ topicDB' = TopicStmt(Cur, topicNameMap[k])
          /\ topicNameMap' = [topicNameMap EXCEPT ![k] = Cur.topic]
      BY <2>2 DEF PointStep
    <3>3. topicDB'[Hash(k)] # None
      BY <3>1, <3>2, TopicStmtRow DEF AckInv
    <3>4. ASSUME NEW k2 \in Keys, k2 # k, topicNameMap'[k2] # None
          PROVE  topicDB'[Hash(k2)] # None
      <4>1. topicNameMap[k2] # None
        BY <3>2, <3>4 DEF AckInv, TypeOK
      <4>2. topicDB[Hash(k2)] # None
        BY <4>1 DEF AckInv, CacheImpliesRow
      <4>3. QED
        BY <1>2, <4>2 DEF RowsKept, Ids
    <3>5. QED
      BY <3>3, <3>4 DEF CacheImpliesRow
  <2>3. CASE ~Restart /\ ~(PointStep /\ TopicStmtIssued(Cur))
    <3>1. topicNameMap' = topicNameMap
      BY <2>3 DEF Next, Process, Arrive, StartBatch, PointError, PointStep,
                  DataStep, MetaStep, ConnectionLost, vars
    <3>2. QED
      BY <1>2, <3>1 DEF AckInv, CacheImpliesRow, RowsKept, Ids
  <2>4. QED
    BY <2>1, <2>2, <2>3
<1>5. \A j \in 1..Len(Stream) : Stored(j) => Stored(j)'
  BY <1>2, StoredKept DEF AckInv
<1>6. /\ AckedPointsStored' /\ BatchStored' /\ CurPartStored'
  <2>1. CASE Arrive
    BY <1>5, <2>1 DEF Arrive, AckInv, AckedPointsStored, BatchStored,
                      CurPartStored, Cur, TypeOK
  <2>2. CASE StartBatch
    BY <1>5, <2>2 DEF StartBatch, AckInv, AckedPointsStored, BatchStored,
                      CurPartStored, TypeOK
  <2>3. CASE PointError \/ ConnectionLost \/ Restart
    <3>1. next' = next /\ pc' = "idle"
      BY <2>3 DEF PointError, ConnectionLost, Restart
    <3>2. QED
      BY <1>5, <3>1 DEF AckInv, AckedPointsStored, BatchStored, CurPartStored,
                        TypeOK
  <2>4. CASE PointStep
    <3> DEFINE k == Lower(Cur.topic)
    <3>1. /\ UNCHANGED <<next, i, dataDB>> /\ pc' = "data" /\ pc = "point"
      BY <2>4 DEF PointStep
    <3>2. Cur \in Point /\ k \in Keys /\ Cur.topic \in Names /\ TopicId(Cur) = Hash(k)
      BY <3>1, CurPoint DEF AckInv, TopicId
    <3>3. topicDB'[TopicId(Cur)] # None
      <4>1. CASE TopicStmtIssued(Cur)
        <5>1. topicDB' = TopicStmt(Cur, topicNameMap[k])
          BY <2>4, <4>1 DEF PointStep
        <5>2. QED
          BY <3>2, <5>1, TopicStmtRow DEF AckInv
      <4>2. CASE ~TopicStmtIssued(Cur)
        <5>1. topicNameMap[k] = Cur.topic /\ topicDB' = topicDB
          BY <2>4, <4>2 DEF PointStep, TopicStmtIssued
        <5>2. QED
          BY <3>2, <5>1 DEF AckInv, CacheImpliesRow
      <4>3. QED
        BY <4>1, <4>2
    <3>4. CurPartStored'
      BY <2>4, <3>1, <3>3 DEF PointStep, CurPartStored, Cur
    <3>5. QED
      BY <1>5, <3>1, <3>4 DEF AckInv, AckedPointsStored, BatchStored, TypeOK
  <2>5. CASE DataStep
    <3>1. /\ UNCHANGED <<next, i>> /\ pc' = "meta" /\ pc = "data"
          /\ dataDB' = InsertIfAbsent(dataDB, DataKey(Cur), Cur.value)
      BY <2>5 DEF DataStep
    <3>2. DataKey(Cur) \in Tables \X Ids \X Times /\ Cur.value \in Values
          /\ TopicId(Cur) \in Ids
      BY <3>1, CurPoint DEF AckInv
    <3>3. dataDB'[DataKey(Cur)] # None
      BY <3>1, <3>2, InsertFills DEF AckInv, TypeOK
    <3>4. topicDB'[TopicId(Cur)] # None
      BY <1>2, <3>1, <3>2 DEF AckInv, CurPartStored, RowsKept
    <3>5. CurPartStored'
      BY <3>1, <3>3, <3>4 DEF AckInv, CurPartStored, Cur
    <3>6. QED
      BY <1>5, <3>1, <3>5 DEF AckInv, AckedPointsStored, BatchStored, TypeOK
  <2>6. CASE MetaStep
    <3>1. pc = "meta" /\ UNCHANGED <<last, dataDB, topicDB>>
      BY <2>6 DEF MetaStep
    <3>2. /\ i \in 1..Len(Stream) /\ next <= i /\ i <= last
          /\ next \in Nat /\ last \in Nat
          /\ TopicId(Cur) \in Ids /\ Cur.meta \in Metas
      BY <3>1, CurInStream, CurPoint DEF AckInv, TypeOK
    <3>3. metaDB' = InsertIfAbsent(metaDB, TopicId(Cur), Cur.meta)
      BY <2>6, MetaAlwaysChanged DEF MetaStep
    <3>4. \A j \in {i} : Stored(j)'
      <4>1. metaDB'[TopicId(Cur)] # None
        BY <3>2, <3>3, InsertFills DEF AckInv, TypeOK
      <4>2. topicDB'[TopicId(Cur)] # None /\ dataDB'[DataKey(Cur)] # None
        BY <3>1 DEF AckInv, CurPartStored
      <4>3. QED
        BY <4>1, <4>2 DEF Stored, Cur
    <3>5. \A j \in next..(i - 1) : Stored(j)'
      BY <1>5, <3>1, <3>2 DEF AckInv, BatchStored, TypeOK
    <3>6. \A j \in 1..(next - 1) : Stored(j)'
      BY <1>5, <3>2 DEF AckInv, AckedPointsStored, TypeOK
    <3>7. CASE i < last
      <4>1. pc' = "point" /\ i' = i + 1 /\ next' = next
        BY <2>6, <3>7 DEF MetaStep
      <4>2. \A j \in next'..(i' - 1) : Stored(j)'
        BY <3>4, <3>5, <4>1, <3>2
      <4>3. QED
        BY <3>6, <4>1, <4>2 DEF AckedPointsStored, BatchStored, CurPartStored
    <3>8. CASE ~(i < last)
      <4>1. pc' = "idle" /\ next' = last + 1 /\ i = last
        BY <2>6, <3>8, <3>2 DEF MetaStep
      <4>2. \A j \in 1..(next' - 1) : Stored(j)'
        BY <3>4, <3>5, <3>6, <4>1, <3>2
      <4>3. QED
        BY <4>1, <4>2 DEF AckedPointsStored, BatchStored, CurPartStored
    <3>9. QED
      BY <3>7, <3>8
  <2>7. CASE UNCHANGED vars
    BY <2>7 DEF vars, AckInv, AckedPointsStored, BatchStored, CurPartStored,
                Stored, Cur
  <2>8. QED
    BY <2>1, <2>2, <2>3, <2>4, <2>5, <2>6, <2>7 DEF Next, Process
<1>7. QED
  BY <1>1, <1>3, <1>4, <1>6 DEF AckInv

\* Acknowledged points are durable: whatever connection losses (with or
\* without the lost statement applied), restarts and redeliveries happen,
\* every point report_all_handled has removed from the backlog has its
\* data, topic and meta rows.
THEOREM AcksDurable == Spec => []AckedPointsStored
<1>1. Init => AckInv
  BY AckInvInit
<1>2. AckInv => AckedPointsStored
  BY DEF AckInv
<1>3. QED
  BY <1>1, <1>2, AckInvStep, PTL DEF Spec

-----------------------------------------------------------------------------
\* insert_data on the point being written is a Persist step of the abstract
\* store: the point is unacknowledged, it passed coercion, its older batch
\* mates are stored, and the insert keeps an existing value.
LEMMA DataWriteIsPersist ==
    ASSUME AckInv, pc = "data",
           dataDB' = InsertIfAbsent(dataDB, DataKey(Cur), Cur.value),
           UNCHANGED <<arrived, next>>
    PROVE  Store!Next
<1>1. i \in 1..Len(Stream) /\ next <= i /\ i <= arrived /\ next \in Nat
  BY CurInStream DEF AckInv, TypeOK
<1>2. Stream[i].coerces
  BY DEF AckInv, CurPartStored, Cur
<1>3. \A q \in next..(i - 1) : dataDB[DataKey(Stream[q])] # None
  BY DEF AckInv, BatchStored, Stored
<1>4. Store!Persist(i)
  BY <1>1, <1>2, <1>3 DEF Store!Persist, Store!Persisted, InsertIfAbsent, Cur
<1>5. QED
  BY <1>1, <1>4 DEF Store!Next

\* The acknowledgement after the meta insert of the batch's last point is
\* an Acknowledge step of the abstract store.
LEMMA AckIsAcknowledge ==
    ASSUME AckInv, pc = "meta", i = last,
           next' = last + 1, UNCHANGED <<arrived, dataDB>>
    PROVE  Store!Next
<1>1. i \in 1..Len(Stream) /\ next <= i /\ i <= arrived /\ next \in Nat
  BY CurInStream DEF AckInv, TypeOK
<1>2. \A q \in next..(i - 1) : dataDB[DataKey(Stream[q])] # None
  BY DEF AckInv, BatchStored, Stored
<1>3. dataDB[DataKey(Stream[i])] # None
  BY DEF AckInv, CurPartStored, Cur
<1>4. Store!Acknowledge(last)
  BY <1>1, <1>2, <1>3 DEF Store!Acknowledge, Store!Persisted
<1>5. QED
  BY <1>1, <1>4 DEF Store!Next

\* Every step of the ingestion model is a step of the abstract store or
\* leaves the backlog and the category tables as they were.
LEMMA RefinementStep ==
    AckInv /\ [Next]_vars => [Store!Next]_(Store!storeVars)
<1> SUFFICES ASSUME AckInv, [Next]_vars PROVE [Store!Next]_(Store!storeVars)
  OBVIOUS
<1> DEFINE Stutter == UNCHANGED <<arrived, next, dataDB>>
<1>1. Stutter => UNCHANGED Store!storeVars
  BY DEF Store!storeVars
<1>2. CASE Arrive
  BY <1>2 DEF Arrive, Store!Next, Store!Receive
<1>3. CASE StartBatch \/ PointError \/ PointStep \/ Restart \/ UNCHANGED vars
  BY <1>1, <1>3 DEF StartBatch, PointError, PointStep, Restart, vars
<1>4. CASE DataStep
  BY <1>4, DataWriteIsPersist DEF DataStep
<1>5. CASE MetaStep
  <2>1. CASE i < last
    BY <1>1, <1>5, <2>1 DEF MetaStep
  <2>2. CASE ~(i < last)
    <3>1. i = last
      BY <1>5, <2>2 DEF MetaStep, AckInv, TypeOK
    <3>2. QED
      BY <1>5, <2>2, <3>1, AckIsAcknowledge DEF MetaStep
  <2>3. QED
    BY <2>1, <2>2
<1>6. CASE ConnectionLost
  <2>1. CASE pc = "data" /\ ~UNCHANGED <<topicDB, metaDB, dataDB>>
    <3>1. dataDB' = InsertIfAbsent(dataDB, DataKey(Cur), Cur.value)
      BY <1>6, <2>1 DEF ConnectionLost
    <3>2. QED
      BY <1>6, <2>1, <3>1, DataWriteIsPersist DEF ConnectionLost
  <2>2. CASE pc # "data" \/ UNCHANGED <<topicDB, metaDB, dataDB>>
    <3>1. pc \in {"point", "data", "meta"}
      BY <1>6 DEF ConnectionLost, StmtPending
    <3>2. Stutter
      BY <1>6, <2>2, <3>1 DEF ConnectionLost
    <3>3. QED
      BY <1>1, <3>2
  <2>3. QED
    BY <2>1, <2>2
<1>7. QED
  BY <1>2, <1>3, <1>4, <1>5, <1>6 DEF Next, Process

\* publish_to_historian with the backlog implements the abstract store
\* HistorianStore under the mapping acked = next - 1, store = the category
\* tables: first write wins, and only stored points are acknowledged.
THEOREM Refinement == Spec => StoreRefinement
<1>1. Init => Store!Init
  BY DEF Init, Store!Init
<1>2. QED
  BY <1>1, AckInvInit, AckInvStep, RefinementStep, PTL
     DEF Spec, StoreRefinement, Store!Spec

\* The parameters given to HistorianStore satisfy its assumption.
LEMMA StoreParams == Store!StoreAssumption
<1>1. Len(Stream) \in Nat
  BY DEF Point
<1>2. ASSUME NEW j \in 1..Len(Stream)
      PROVE  DataKey(Stream[j]) \in Tables \X Ids \X Times /\ Stream[j].value # None
  BY StreamPoint DEF Point
<1>3. QED
  BY <1>1, <1>2 DEF Store!StoreAssumption

\* A stored value is the one of the oldest coercible point with its key,
\* through lost replies, restarts and redelivery of re-formed batches
\* (insert_data's ON DUPLICATE KEY UPDATE result=result): the abstract
\* store's theorem, carried over by the refinement.
THEOREM FirstWriteWins == Spec => []StoredIsFirstWritten
<1>1. Store!Spec => []Store!FirstWins
  BY StoreParams, Store!StoreFirstWins
<1>2. QED
  BY <1>1, Refinement, PTL DEF StoreRefinement, StoredIsFirstWritten

=============================================================================
