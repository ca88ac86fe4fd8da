------------------------------ MODULE Historian ------------------------------
(***************************************************************************)
(* The ingestion side of CrateHistorian (crate_historian/historian.py):    *)
(* publish_to_historian writing a batch point by point into the Crate      *)
(* tables topic, meta and one table per category, the two process-local   *)
(* caches _topic_name_map / _topic_meta (and _topic_id_map, which only the *)
(* startup load fills), the cached connection handle dropped on            *)
(* ConnectionError, and historian_setup reloading the caches after a       *)
(* restart.  The backlog that hands batches to publish_to_historian and    *)
(* redelivers any batch not acknowledged by report_all_handled belongs to  *)
(* BaseHistorian, which is not under src/; it is modelled from the spec:   *)
(* points arrive in a persistent backlog, each call gets the oldest ones,  *)
(* at most BatchLimit of them, and an acknowledgement removes the batch.   *)
(*                                                                         *)
(* Every cursor.execute is an action of its own, because a ConnectionError *)
(* can end the batch between any two of them.                              *)
(***************************************************************************)
EXTENDS Naturals, Sequences

CONSTANTS
    Names,        \* topic names as published, with their letter case
    Lower(_),     \* str.lower on a topic name
    Hash(_),      \* hashlib.md5(topic_lower).hexdigest()
    Metas,        \* metadata mappings a device publishes
    Values,       \* point values, after the integer/float coercion
    Times,        \* point timestamps
    Stream,       \* the points published to the historian, in arrival order
    BatchLimit,   \* at most this many points per publish_to_historian call
    None,         \* "no entry": dict.get(..., None), an absent row
    LostReply,    \* may a ConnectionError hide a write the server applied?
    MaxFailures,  \* bound on connection losses in one behaviour
    MaxRestarts   \* bound on agent restarts in one behaviour

\* The source tags BaseHistorian hands over, and the tables they are
\* written to after the renaming of lines 179-182.
Sources == {"scrape", "analysis", "log", "record"}
Tables  == {"device", "analysis", "datalogger", "record"}

Keys == {Lower(n) : n \in Names}
Ids  == {Hash(k) : k \in Keys}

\* One element of to_publish_list.  "coerces" is FALSE when the metadata
\* declares a type that int()/float() cannot convert the raw value to.
Point == [topic : Names, source : Sources, ts : Times, value : Values,
          meta : Metas, coerces : BOOLEAN]

ASSUME ConstantsAssumption ==
    /\ \A k1, k2 \in Keys : Hash(k1) = Hash(k2) => k1 = k2
    /\ None \notin Names \cup Metas \cup Values \cup Ids
    /\ Stream \in Seq(Point)
    /\ BatchLimit \in Nat \ {0}
    /\ LostReply \in BOOLEAN
    /\ MaxFailures \in Nat
    /\ MaxRestarts \in Nat

VARIABLES
    topicDB,       \* table topic: id -> name
    metaDB,        \* table meta: topic_id -> meta_data
    dataDB,        \* category tables: <<table, topic_id, ts>> -> result
    topicNameMap,  \* self._topic_name_map: lower name -> name
    topicIdMap,    \* self._topic_id_map: lower name -> id
    topicMeta,     \* self._topic_meta: topic_id -> meta
    conn,          \* self._connection is not None
    arrived,       \* the points of Stream in the backlog so far
    next,          \* index in Stream of the oldest unacknowledged point
    last,          \* index in Stream of the last point of the current batch
    pc,            \* where publish_to_historian is: idle, or the point's stage
    i,             \* index in Stream of the point being written
    failures,      \* connection losses so far
    restarts       \* restarts so far

vars == <<topicDB, metaDB, dataDB, topicNameMap, topicIdMap, topicMeta,
          conn, arrived, next, last, pc, i, failures, restarts>>

-----------------------------------------------------------------------------
\* source renaming, lines 179-182
Table(source) ==
    CASE source = "scrape" -> "device"
      [] source = "log"    -> "datalogger"
      [] OTHER             -> source

\* topic_id = hashlib.md5(topic.lower()).hexdigest(), lines 194-195
TopicId(p) == Hash(Lower(p.topic))

\* The primary key insert_data writes under, lines 156-166.
DataKey(p) == <<Table(p.source), TopicId(p), p.ts>>

\* "INSERT ... ON DUPLICATE KEY UPDATE col=col": a row whose key exists is
\* left as it is.
InsertIfAbsent(table, key, row) ==
    IF table[key] = None THEN [table EXCEPT ![key] = row] ELSE table

\* "UPDATE topic SET name=? WHERE id=?" changes an existing row only.
UpdateIfPresent(table, key, row) ==
    IF table[key] # None THEN [table EXCEPT ![key] = row] ELSE table

\* Mutant: both branches use the insert, so a new spelling never renames.
TopicStmtInsertOnly(p, cached) == InsertIfAbsent(topicDB, TopicId(p), p.topic)

\* The topic statement of lines 198-212, chosen by the cached name: insert
\* for an unknown lower-case name, rename for a different spelling.
TopicStmt(p, cached) ==
    IF cached = None THEN InsertIfAbsent(topicDB, TopicId(p), p.topic)
                     ELSE UpdateIfPresent(topicDB, TopicId(p), p.topic)

\* A topic statement is issued unless the cached spelling is the same.
TopicStmtIssued(p) == topicNameMap[Lower(p.topic)] # p.topic

\* old_meta.get(topic_id), line 217: old_meta is a metadata mapping, keyed
\* by field names ("type", "units", ...), never by an md5 topic id.
MetaEntry(oldMeta, id) == None

\* The change test of lines 215-218.
MetaChanged(p) ==
    LET old == MetaEntry(topicMeta[TopicId(p)], TopicId(p))
    IN  old = None \/ old # p.meta

\* What historian_setup loads, lines 660-687: one row per stored topic,
\* keyed by lower(name); the meta blobs as stored.
HasRow(k) == \E id \in Ids : topicDB[id] # None /\ Lower(topicDB[id]) = k
RowOf(k)  == CHOOSE id \in Ids : topicDB[id] # None /\ Lower(topicDB[id]) = k
LoadedNames == [k \in Keys |-> IF HasRow(k) THEN topicDB[RowOf(k)] ELSE None]
LoadedIds   == [k \in Keys |-> IF HasRow(k) THEN RowOf(k) ELSE None]
LoadedMeta  == metaDB

Cur == Stream[i]

-----------------------------------------------------------------------------
Init ==
    /\ topicDB = [id \in Ids |-> None]
    /\ metaDB = [id \in Ids |-> None]
    /\ dataDB = [key \in Tables \X Ids \X Times |-> None]
    /\ topicNameMap = [k \in Keys |-> None]
    /\ topicIdMap = [k \in Keys |-> None]
    /\ topicMeta = [id \in Ids |-> None]
    /\ conn = TRUE
    /\ arrived = 0
    /\ next = 1
    /\ last = 0
    /\ pc = "idle"
    /\ i = 0
    /\ failures = 0
    /\ restarts = 0

\* The message bus hands one more published point to the backlog.
Arrive ==
    /\ arrived < Len(Stream)
    /\ arrived' = arrived + 1
    /\ UNCHANGED <<topicDB, metaDB, dataDB, topicNameMap, topicIdMap,
                   topicMeta, conn, next, last, pc, i, failures, restarts>>

\* Mutant: the batch end is not clamped to the points in the backlog.
StartBatchNoClamp ==
    /\ pc = "idle"
    /\ next <= arrived
    /\ last' = next + BatchLimit - 1
    /\ conn' = TRUE
    /\ pc' = "point"
    /\ i' = next
    /\ UNCHANGED <<topicDB, metaDB, dataDB, topicNameMap, topicIdMap,
                   topicMeta, arrived, next, failures, restarts>>

\* The backlog calls publish_to_historian with its oldest points, at most
\* BatchLimit of them; get_connection reconnects if the handle was dropped
\* (lines 167-171, 689-693).
StartBatch ==
    /\ pc = "idle"
    /\ next <= arrived
    /\ last' = IF arrived < next + BatchLimit - 1 THEN arrived
                                                 ELSE next + BatchLimit - 1
    /\ conn' = TRUE
    /\ pc' = "point"
    /\ i' = next
    /\ UNCHANGED <<topicDB, metaDB, dataDB, topicNameMap, topicIdMap,
                   topicMeta, arrived, next, failures, restarts>>

\* Mutant: report_all_handled in the finally clause acknowledges the batch
\* the failed conversion abandoned.
PointErrorAcks ==
    /\ pc = "point"
    /\ ~Cur.coerces
    /\ pc' = "idle"
    /\ next' = last + 1
    /\ UNCHANGED <<topicDB, metaDB, dataDB, topicNameMap, topicIdMap,
                   topicMeta, conn, arrived, last, i, failures, restarts>>

\* int()/float() raises on the point's value (lines 184-189): the exception
\* is not a ConnectionError, so it leaves publish_to_historian through the
\* finally clause; nothing is acknowledged and the connection is kept.
PointError ==
    /\ pc = "point"
    /\ ~Cur.coerces
    /\ pc' = "idle"
    /\ UNCHANGED <<topicDB, metaDB, dataDB, topicNameMap, topicIdMap,
                   topicMeta, conn, arrived, next, last, i, failures,
                   restarts>>

\* Topic lookup and the insert or rename of the topic row, lines 194-211.
PointStep ==
    /\ pc = "point"
    /\ Cur.coerces
    /\ IF TopicStmtIssued(Cur)
         THEN /\ topicDB' = TopicStmt(Cur, topicNameMap[Lower(Cur.topic)])
              /\ topicNameMap' = [topicNameMap EXCEPT ![Lower(Cur.topic)] = Cur.topic]
         ELSE UNCHANGED <<topicDB, topicNameMap>>
    /\ pc' = "data"
    /\ UNCHANGED <<metaDB, dataDB, topicIdMap, topicMeta, conn, arrived,
                   next, last, i, failures, restarts>>

\* Mutant: "ON DUPLICATE KEY UPDATE result=VALUES(result)", a redelivered
\* or repeated point overwrites the stored value.
DataStepOverwrite ==
    /\ pc = "data"
    /\ dataDB' = [dataDB EXCEPT ![DataKey(Cur)] = Cur.value]
    /\ pc' = "meta"
    /\ UNCHANGED <<topicDB, metaDB, topicNameMap, topicIdMap, topicMeta,
                   conn, arrived, next, last, i, failures, restarts>>

\* insert_data, line 213.
DataStep ==
    /\ pc = "data"
    /\ dataDB' = InsertIfAbsent(dataDB, DataKey(Cur), Cur.value)
    /\ pc' = "meta"
    /\ UNCHANGED <<topicDB, metaDB, topicNameMap, topicIdMap, topicMeta,
                   conn, arrived, next, last, i, failures, restarts>>

\* Mutant: the acknowledgement keeps the batch's last point in the backlog.
MetaStepAckOffByOne ==
    /\ pc = "meta"
    /\ IF MetaChanged(Cur)
         THEN /\ metaDB' = InsertIfAbsent(metaDB, TopicId(Cur), Cur.meta)
              /\ topicMeta' = [topicMeta EXCEPT ![TopicId(Cur)] = Cur.meta]
         ELSE UNCHANGED <<metaDB, topicMeta>>
    /\ IF i < last
         THEN /\ pc' = "point"
              /\ i' = i + 1
              /\ UNCHANGED next
         ELSE /\ pc' = "idle"
              /\ next' = last
              /\ UNCHANGED i
    /\ UNCHANGED <<topicDB, dataDB, topicNameMap, topicIdMap, conn, arrived,
                   last, failures, restarts>>

\* The metadata write of lines 215-225, then the next point or, after the
\* last one, report_all_handled (line 227), which removes the batch from
\* the backlog.
MetaStep ==
    /\ pc = "meta"
    /\ IF MetaChanged(Cur)
         THEN /\ metaDB' = InsertIfAbsent(metaDB, TopicId(Cur), Cur.meta)
              /\ topicMeta' = [topicMeta EXCEPT ![TopicId(Cur)] = Cur.meta]
         ELSE UNCHANGED <<metaDB, topicMeta>>
    /\ IF i < last
         THEN /\ pc' = "point"
              /\ i' = i + 1
              /\ UNCHANGED next
         ELSE /\ pc' = "idle"
              /\ next' = last + 1
              /\ UNCHANGED i
    /\ UNCHANGED <<topicDB, dataDB, topicNameMap, topicIdMap, conn, arrived,
                   last, failures, restarts>>

\* The statement the current stage is about to execute.
StmtPending ==
    \/ pc = "point" /\ Cur.coerces /\ TopicStmtIssued(Cur)
    \/ pc = "data"
    \/ pc = "meta" /\ MetaChanged(Cur)

\* cursor.execute raises ConnectionError (lines 228-230): the handle is
\* dropped and the batch is not acknowledged.  When LostReply holds, the
\* server may have applied the statement before the reply was lost.
ConnectionLost ==
    /\ StmtPending
    /\ failures < MaxFailures
    /\ \/ UNCHANGED <<topicDB, metaDB, dataDB>>
       \/ /\ LostReply
          /\ CASE pc = "point" ->
                    /\ topicDB' = TopicStmt(Cur, topicNameMap[Lower(Cur.topic)])
                    /\ UNCHANGED <<metaDB, dataDB>>
               [] pc = "data" ->
                    /\ dataDB' = InsertIfAbsent(dataDB, DataKey(Cur), Cur.value)
                    /\ UNCHANGED <<topicDB, metaDB>>
               [] pc = "meta" ->
                    /\ metaDB' = InsertIfAbsent(metaDB, TopicId(Cur), Cur.meta)
                    /\ UNCHANGED <<topicDB, dataDB>>
    /\ conn' = FALSE
    /\ pc' = "idle"
    /\ failures' = failures + 1
    /\ UNCHANGED <<topicNameMap, topicIdMap, topicMeta, arrived, next, last,
                   i, restarts>>

\* The agent stops at any point and starts again: historian_setup connects
\* and reloads the topic and meta maps from the tables (lines 695-703).
\* The backlog is persistent, so unacknowledged points are kept.
Restart ==
    /\ restarts < MaxRestarts
    /\ topicNameMap' = LoadedNames
    /\ topicIdMap' = LoadedIds
    /\ topicMeta' = LoadedMeta
    /\ conn' = TRUE
    /\ pc' = "idle"
    /\ restarts' = restarts + 1
    /\ UNCHANGED <<topicDB, metaDB, dataDB, arrived, next, last, i,
                   failures>>

\* The steps the agent's processing loop takes by itself.
Process == StartBatch \/ PointError \/ PointStep \/ DataStep \/ MetaStep

Next == Arrive \/ Process \/ ConnectionLost \/ Restart

Spec == Init /\ [][Next]_vars

\* The bus keeps delivering and the processing loop keeps running.
FairSpec == Spec /\ WF_vars(Arrive) /\ WF_vars(Process)

-----------------------------------------------------------------------------
\* The ingestion promise of HistorianStore, seen through this model: the
\* backlog is the same, the acknowledged points are those before next, and
\* the stored values are the rows of the category tables.
Store == INSTANCE HistorianStore
           WITH acked <- next - 1,
                store <- dataDB,
                DataKeys <- Tables \X Ids \X Times,
                Key <- DataKey,
                Value <- LAMBDA p : p.value,
                Storable <- LAMBDA p : p.coerces

-----------------------------------------------------------------------------
TypeOK ==
    /\ topicDB \in [Ids -> Names \cup {None}]
    /\ metaDB \in [Ids -> Metas \cup {None}]
    /\ dataDB \in [Tables \X Ids \X Times -> Values \cup {None}]
    /\ topicNameMap \in [Keys -> Names \cup {None}]
    /\ topicIdMap \in [Keys -> Ids \cup {None}]
    /\ topicMeta \in [Ids -> Metas \cup {None}]
    /\ conn \in BOOLEAN
    /\ arrived \in 0..Len(Stream)
    /\ next \in 1..(arrived + 1)
    /\ last \in 0..arrived
    /\ pc \in {"idle", "point", "data", "meta"}
    /\ pc # "idle" => next <= i /\ i <= last
    /\ i \in 0..Len(Stream)
    /\ failures \in 0..MaxFailures
    /\ restarts \in 0..MaxRestarts

\* The data row, the topic row and the meta row of the j-th point exist.
Stored(j) ==
    /\ dataDB[DataKey(Stream[j])] # None
    /\ topicDB[TopicId(Stream[j])] # None
    /\ metaDB[TopicId(Stream[j])] # None

\* Acknowledged points are stored: once report_all_handled has removed a
\* point from the backlog, its row is in its category table and its topic
\* and meta rows exist, whatever connection losses, restarts and
\* re-formed batches happened while it was written.
AckedPointsStored == \A j \in 1..(next - 1) : Stored(j)

\* The first write of a (table, topic, timestamp) wins: every stored result
\* is the value of the earliest point of the stream with that key that
\* passes coercion, however often batches were aborted and redelivered
\* (insert_data's ON DUPLICATE KEY UPDATE result=result).
StoredIsFirstWritten == Store!FirstWins

\* The topic-name cache agrees with the topic table: whenever
\* _topic_name_map holds a spelling for a lower-case name, the topic row
\* of that name's id holds the same spelling, so the cache never makes the
\* code skip a rename the table still needs (lines 196-211).
TopicCacheMatchesStore ==
    \A k \in Keys : topicNameMap[k] # None => topicDB[Hash(k)] = topicNameMap[k]

\* Every topic row sits under the md5 of its lower-cased name, and every
\* stored topic is in _topic_name_map: the two facts that, with
\* TopicCacheMatchesStore, make an inductive invariant when no reply is
\* lost.
RowsWellKeyed ==
    \A id \in Ids : topicDB[id] # None => Hash(Lower(topicDB[id])) = id
CacheCoversStore ==
    \A k \in Keys : topicDB[Hash(k)] # None => topicNameMap[k] # None
TopicInv == TypeOK /\ TopicCacheMatchesStore /\ RowsWellKeyed /\ CacheCoversStore

\* The strengthening of AckedPointsStored that one step preserves: a
\* spelling in _topic_name_map has its topic row, so a skipped topic
\* statement (line 206) still leaves the row in place; the points of the
\* current batch before the one being written are stored; and the
\* statements already executed for the current point have left their rows.
CacheImpliesRow ==
    \A k \in Keys : topicNameMap[k] # None => topicDB[Hash(k)] # None
BatchStored ==
    pc # "idle" => \A j \in next..(i - 1) : Stored(j)
CurPartStored ==
    /\ pc \in {"data", "meta"} => topicDB[TopicId(Cur)] # None
    /\ pc = "meta" => dataDB[DataKey(Cur)] # None
    /\ pc \in {"data", "meta"} => Cur.coerces
AckInv ==
    /\ TypeOK /\ RowsWellKeyed /\ CacheImpliesRow
    /\ AckedPointsStored /\ BatchStored /\ CurPartStored

\* Even when a ConnectionError hides an applied rename, so that for a while
\* _topic_name_map holds a spelling the table no longer has, the cache and
\* the table agree again whenever the agent is idle with every arrived
\* point acknowledged: redelivery replays the statement the cache missed.
TopicCacheSettled ==
    pc = "idle" /\ next > arrived => TopicCacheMatchesStore

\* The points whose topic statement is still to run, in this batch or in
\* a redelivery: from the current point on (after it, once its statement
\* has run), or the whole backlog when idle.
Pending ==
    {j \in next..arrived : \/ pc = "idle"
                           \/ j > i
                           \/ j = i /\ pc = "point"}

\* Where _topic_name_map and the topic row of a name disagree (a lost
\* reply hid an applied statement), a point of that name spelled as the
\* row is still to be processed: its statement repairs the cache.
RepairPending ==
    \A k \in Keys : topicNameMap[k] # topicDB[Hash(k)] =>
        \E j \in Pending : /\ Lower(Stream[j].topic) = k
                          /\ Stream[j].topic = topicDB[Hash(k)]

\* The inductive invariant behind TopicCacheSettled.
SettleInv == AckInv /\ RepairPending

\* The metadata cache agrees with the meta table (spec section 3: a record
\* is overwritten whenever its content changes), so a restart reloads the
\* metadata the cache last held (lines 215-225, 675-687).
MetaCacheMatchesStore ==
    \A id \in Ids : topicMeta[id] # None => metaDB[id] = topicMeta[id]

\* update_if_changed (spec 4.2): the meta INSERT about to be issued for a
\* point is issued only because its metadata differs from the cached one
\* (lines 215-225).
MetaWriteOnlyOnChange ==
    pc = "meta" /\ MetaChanged(Cur) => topicMeta[TopicId(Cur)] # Cur.meta

\* Every published point is eventually acknowledged by report_all_handled,
\* given that the bus and the processing loop keep running and connection
\* losses and restarts stop (spec 4.3 and 7: a per-point error must not
\* hold up the points around it).
AllPointsAcked == <>(next = Len(Stream) + 1)

\* publish_to_historian and the backlog implement HistorianStore: every
\* step writes the value of an unacknowledged point whose older batch
\* mates are stored, keeps an existing value, acknowledges only stored
\* points, or leaves the backlog and the category tables alone (the topic
\* and meta statements, the caches, failures and restarts).
StoreRefinement == Store!Spec

=============================================================================
