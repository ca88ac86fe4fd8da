--------------------------- MODULE TopicCacheProofs ---------------------------
(***************************************************************************)
(* The topic-name cache _topic_name_map with replies that may be lost     *)
(* after the server applied the statement (LostReply).  The cache and the *)
(* topic table can then disagree for a while; they agree again whenever   *)
(* the agent is idle with an empty backlog, because every disagreement   *)
(* has a point still to be processed whose statement repairs it           *)
(* (RepairPending).                                                       *)
(***************************************************************************)
EXTENDS HistorianProofs

USE ConstantsAssumption

\* The steps that leave the cache and the topic table alone never shrink
\* the set of points still to be processed; neither does a connection
\* loss, which sends the batch back to the backlog.
LEMMA PendingGrows ==
    ASSUME TypeOK,
           \/ Arrive \/ StartBatch \/ PointError \/ DataStep \/ MetaStep
           \/ ConnectionLost \/ UNCHANGED vars
    PROVE  Pending \subseteq Pending'
<1>1. CASE Arrive
  BY <1>1 DEF Arrive, Pending, TypeOK
<1>2. CASE StartBatch
  BY <1>2 DEF StartBatch, Pending, TypeOK
<1>3. CASE PointError
  BY <1>3 DEF PointError, Pending, TypeOK
<1>4. CASE DataStep
  BY <1>4 DEF DataStep, Pending, TypeOK
<1>5. CASE MetaStep
  <2>1. pc = "meta" /\ i \in Nat /\ last \in Nat /\ i <= last /\ next \in Nat /\ next <= i
    BY <1>5 DEF MetaStep, TypeOK
  <2>2. Pending = (i + 1)..arrived
    BY <2>1 DEF Pending
  <2>3. CASE i < last
    <3>1. pc' = "point" /\ i' = i + 1 /\ next' = next /\ arrived' = arrived
      BY <1>5, <2>3 DEF MetaStep
    <3>2. QED
      BY <2>2, <3>1 DEF Pending
  <2>4. CASE ~(i < last)
    <3>1. pc' = "idle" /\ next' = i + 1 /\ arrived' = arrived
      BY <1>5, <2>1, <2>4 DEF MetaStep
    <3>2. QED
      BY <2>2, <3>1 DEF Pending
  <2>5. QED
    BY <2>3, <2>4
<1>6. CASE ConnectionLost
  <2>1. pc # "idle"
    BY <1>6 DEF ConnectionLost, StmtPending
  <2>2. next <= i /\ next \in Nat /\ i \in Nat
    BY <2>1 DEF TypeOK
  <2>3. Pending \subseteq next..arrived
    BY <2>1, <2>2 DEF Pending
  <2>4. pc' = "idle" /\ UNCHANGED <<next, arrived>>
    BY <1>6 DEF ConnectionLost
  <2>5. QED
    BY <2>3, <2>4 DEF Pending
<1>7. CASE UNCHANGED vars
  BY <1>7 DEF vars, Pending
<1>8. QED
  BY <1>1, <1>2, <1>3, <1>4, <1>5, <1>6, <1>7

\* A point's lower-case name identifies the row of its id.
LEMMA SameRow ==
    ASSUME NEW k \in Keys, NEW p \in Point, Hash(k) = TopicId(p)
    PROVE  Lower(p.topic) = k
BY DEF Point, Keys, TopicId

\* A step that changes neither the cache nor the row of a name keeps a
\* disagreement of that name and its witness, as long as the witness is
\* still to be processed.
LEMMA KeepWitness ==
    ASSUME NEW k \in Keys, NEW P,
           topicNameMap'[k] = topicNameMap[k],
           topicDB'[Hash(k)] = topicDB[Hash(k)],
           RepairPending, Pending \subseteq P,
           topicNameMap'[k] # topicDB'[Hash(k)]
    PROVE  \E j \in P : /\ Lower(Stream[j].topic) = k
                        /\ Stream[j].topic = topicDB'[Hash(k)]
BY DEF RepairPending

\* One step keeps a witness for every disagreement of the cache and the
\* topic table.
LEMMA RepairPendingStep == SettleInv /\ [Next]_vars => RepairPending'
<1> SUFFICES ASSUME AckInv, RepairPending, [Next]_vars PROVE RepairPending'
  BY DEF SettleInv
<1>0. TypeOK /\ RowsWellKeyed /\ CacheImpliesRow
  BY DEF AckInv
<1>1. CASE Arrive \/ StartBatch \/ PointError \/ DataStep \/ MetaStep \/ UNCHANGED vars
  <2>1. UNCHANGED <<topicDB, topicNameMap>>
    BY <1>1 DEF Arrive, StartBatch, PointError, DataStep, MetaStep, vars
  <2>2. Pending \subseteq Pending'
    BY <1>0, <1>1, PendingGrows
  <2>3. QED
    BY <2>1, <2>2, KeepWitness DEF RepairPending
<1>2. CASE ConnectionLost
  <2>1. topicNameMap' = topicNameMap
    BY <1>2 DEF ConnectionLost
  <2>2. Pending \subseteq Pending'
    BY <1>0, <1>2, PendingGrows
  <2>3. pc # "idle" /\ i \in Pending'
    <3>1. pc # "idle"
      BY <1>2 DEF ConnectionLost, StmtPending
    <3>2. pc' = "idle" /\ UNCHANGED <<next, arrived, i>>
      BY <1>2 DEF ConnectionLost
    <3>3. i \in next..arrived
      BY <1>0, <3>1 DEF TypeOK
    <3>4. QED
      BY <3>1, <3>2, <3>3 DEF Pending
  <2> SUFFICES ASSUME NEW k \in Keys, topicNameMap'[k] # topicDB'[Hash(k)]
               PROVE  \E j \in Pending' : /\ Lower(Stream[j].topic) = k
                                          /\ Stream[j].topic = topicDB'[Hash(k)]
    BY DEF RepairPending
  <2>4. CASE topicDB'[Hash(k)] = topicDB[Hash(k)]
    BY <2>1, <2>2, <2>4, KeepWitness
  <2>5. CASE topicDB'[Hash(k)] # topicDB[Hash(k)]
    <3>1. topicDB' = [topicDB EXCEPT ![TopicId(Cur)] = Cur.topic]
      BY <1>0, <2>5, TopicTableStep
    <3>2. Cur \in Point /\ TopicId(Cur) \in Ids /\ Hash(k) \in Ids
      BY <1>0, <2>3, CurPoint DEF Ids
    <3>3. Hash(k) = TopicId(Cur) /\ topicDB'[Hash(k)] = Cur.topic
      BY <2>5, <3>1, <3>2 DEF TypeOK
    <3>4. Lower(Cur.topic) = k
      BY <3>2, <3>3, SameRow
    <3>5. QED
      BY <2>3, <3>3, <3>4 DEF Cur
  <2>6. QED
    BY <2>4, <2>5
<1>3. CASE Restart
  <2>1. topicDB' = topicDB /\ topicNameMap' = LoadedNames
    BY <1>3 DEF Restart
  <2>2. \A k \in Keys : topicNameMap'[k] = topicDB'[Hash(k)]
    BY <1>0, <2>1, LoadedIsTable
  <2>3. QED
    BY <2>2 DEF RepairPending
<1>4. CASE PointStep
  <2> DEFINE kc == Lower(Cur.topic)
  <2>1. /\ pc = "point" /\ pc' = "data"
        /\ UNCHANGED <<next, arrived, i>>
        /\ Cur \in Point /\ kc \in Keys /\ Cur.topic \in Names
        /\ TopicId(Cur) = Hash(kc) /\ Hash(kc) \in Ids
    BY <1>0, <1>4, CurPoint DEF PointStep, TopicId
  <2>2. Pending' = Pending \ {i}
    BY <2>1 DEF Pending
  <2> SUFFICES ASSUME NEW k \in Keys, topicNameMap'[k] # topicDB'[Hash(k)]
               PROVE  \E j \in Pending' : /\ Lower(Stream[j].topic) = k
                                          /\ Stream[j].topic = topicDB'[Hash(k)]
    BY DEF RepairPending
  <2>3. /\ topicNameMap[k] # topicDB[Hash(k)]
        /\ topicDB'[Hash(k)] = topicDB[Hash(k)]
        /\ k = kc => topicDB[Hash(k)] # Cur.topic
    <3>1. CASE k # kc
      <4>1. Hash(k) # Hash(kc) /\ Hash(k) \in Ids
        BY <2>1, <3>1, HashDistinct DEF Ids
      <4>2. \/ topicDB' = topicDB
            \/ topicDB' = [topicDB EXCEPT ![Hash(kc)] = Cur.topic]
        BY <1>0, <1>4, <2>1, TopicTableStep
      <4>3. topicNameMap'[k] = topicNameMap[k]
        BY <1>0, <1>4, <2>1, <3>1 DEF PointStep, TypeOK
      <4>4. QED
        BY <1>0, <3>1, <4>1, <4>2, <4>3 DEF TypeOK
    <3>2. CASE k = kc /\ ~TopicStmtIssued(Cur)
      BY <1>4, <3>2 DEF PointStep, TopicStmtIssued
    <3>3. CASE k = kc /\ TopicStmtIssued(Cur)
      <4>1. /\ topicDB' = TopicStmt(Cur, topicNameMap[kc])
            /\ topicNameMap'[kc] = Cur.topic
        BY <1>0, <1>4, <2>1, <3>3 DEF PointStep, TypeOK
      <4>2. CASE topicNameMap[kc] = None /\ topicDB[Hash(kc)] = None
        BY <1>0, <2>1, <3>3, <4>1, <4>2 DEF TopicStmt, InsertIfAbsent, TopicId, TypeOK
      <4>3. CASE topicNameMap[kc] = None /\ topicDB[Hash(kc)] # None
        BY <1>0, <2>1, <3>3, <4>1, <4>3 DEF TopicStmt, InsertIfAbsent, TopicId, TypeOK
      <4>4. CASE topicNameMap[kc] # None
        <5>1. topicDB[Hash(kc)] # None
          BY <1>0, <2>1, <4>4 DEF CacheImpliesRow
        <5>2. QED
          BY <1>0, <2>1, <3>3, <4>1, <4>4, <5>1 DEF TopicStmt, UpdateIfPresent, TopicId, TypeOK
      <4>5. QED
        BY <4>2, <4>3, <4>4
    <3>4. QED
      BY <3>1, <3>2, <3>3
  <2>4. PICK j \in Pending : /\ Lower(Stream[j].topic) = k
                             /\ Stream[j].topic = topicDB'[Hash(k)]
    BY <2>3 DEF RepairPending
  <2>5. j # i
    BY <2>3, <2>4 DEF Cur
  <2>6. QED
    BY <2>2, <2>4, <2>5
<1>5. QED
  BY <1>1, <1>2, <1>3, <1>4 DEF Next, Process

\* Whenever the agent is idle and every arrived point is acknowledged,
\* _topic_name_map agrees with the topic table, even when ConnectionErrors
\* hid applied inserts and renames: redelivery re-runs the statement of
\* every point whose statement the cache missed (lines 196-211, 228-230),
\* and a restart reloads the cache from the table (lines 660-687).
THEOREM CacheSettles == Spec => []TopicCacheSettled
<1>1. Init => SettleInv
  <2> SUFFICES ASSUME Init PROVE SettleInv
    OBVIOUS
  <2>1. AckInv
    BY AckInvInit
  <2>2. \A k \in Keys : topicNameMap[k] = topicDB[Hash(k)]
    BY DEF Init, Ids
  <2>3. QED
    BY <2>1, <2>2 DEF SettleInv, RepairPending
<1>2. SettleInv /\ [Next]_vars => SettleInv'
  BY AckInvStep, RepairPendingStep DEF SettleInv
<1>3. SettleInv => TopicCacheSettled
  <2> SUFFICES ASSUME SettleInv, pc = "idle", next > arrived
               PROVE  TopicCacheMatchesStore
    BY DEF TopicCacheSettled
  <2>1. Pending = {}
    BY DEF SettleInv, AckInv, TypeOK, Pending
  <2>2. \A k \in Keys : topicNameMap[k] = topicDB[Hash(k)]
    BY <2>1 DEF SettleInv, RepairPending
  <2>3. QED
    BY <2>2 DEF TopicCacheMatchesStore
<1>4. QED
  BY <1>1, <1>2, <1>3, PTL DEF Spec

=============================================================================
