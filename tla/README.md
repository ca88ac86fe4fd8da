# TLA+ models of the Crate historian

This directory holds TLA+ models of
`src/services/core/CrateHistorian/crate_historian/historian.py`, the VOLTTRON
historian agent that stores device, analysis, log and record data in CrateDB.
It also holds TLC configurations that model-check them and TLAPS proofs of the
central invariants.

## The system

The agent has three parts that share state.

* **Ingestion**: `publish_to_historian`, lines 152-234. For each point of a
  batch handed over by the `BaseHistorian` backlog, it does four things in
  order:
  1. It renames the source tag: `scrape` becomes `device` and `log` becomes
     `datalogger`.
  2. It coerces the value to int or float when the metadata declares a type.
  3. It inserts or renames the topic row. The statement is chosen by the
     cached spelling in `_topic_name_map`. The row id is
     `md5(topic.lower())`.
  4. It inserts the value with `ON DUPLICATE KEY UPDATE result=result`, then
     inserts the metadata with `ON DUPLICATE KEY UPDATE meta_data=meta_data`.

  After the last point, `report_all_handled` acknowledges the batch.
  A `ConnectionError` drops the connection handle and leaves the batch
  unacknowledged, so the backlog delivers it again. Any other exception, such
  as a failed coercion, also leaves the batch unacknowledged, but keeps the
  handle.
* **Caches and connection**:
  * `_topic_name_map` maps a lower-case name to its spelling.
  * `_topic_id_map` maps a lower-case name to its id.
  * `_topic_meta` maps an id to its metadata.
  * `get_connection` opens the handle lazily.
  * `historian_setup`, at startup, connects and reloads the maps from the
    tables (`_load_topic_map`, `_load_meta_map`).
* **Query**: `query_historian`, lines 384-479. It works in these stages:
  1. It checks the category and strips its prefix for device and analysis
     topics.
  2. It looks the topic up in `_topic_id_map`.
  3. It builds a SELECT from start, end, order, skip and count, and runs it on
     the same connection.
  4. It returns `(ts, result)` pairs and `metadata={}`.

  Queries arrive over RPC and run between the steps of the processing loop.

`BaseHistorian` is not under `src/`. It provides the persistent backlog,
hands out the oldest points in batches and redelivers what was not
acknowledged. That part is modelled from the spec.

## Modules

| module | models |
|---|---|
| `Historian` | ingestion, both caches, the connection flag, restarts, and the backlog |
| `HistorianQuery` | `query_historian` composed with `Historian`: a query step may fall between any two ingestion steps |
| `HistorianStore` | the abstract ingestion contract: a backlog persisted oldest first, first write wins, a prefix acknowledged only when stored; with its own proof of first-write-wins |
| `MCHistorian`, `MCHistorianQuery` | small instances for TLC: topic names, streams, and a hash |
| `HistorianProofs` | TLAPS proofs about `Historian` |
| `TopicCacheProofs` | TLAPS proof that the topic cache settles with lost replies (`TopicCacheSettled`) |
| `HistorianQueryProofs` | TLAPS proofs about `HistorianQuery`: the sort, `Select`, and the page property |

### State and actions of `Historian`

The tables are total functions with a `None` sentinel for "no row":

* `topicDB`: id -> name;
* `metaDB`: id -> meta;
* `dataDB`: (table, id, ts) -> value.

The caches are `topicNameMap`, `topicIdMap` and `topicMeta`. `conn` says
whether `self._connection` is set. No guard reads it: `get_connection`
reconnects a dropped handle before every batch and every query, so the flag
only records the handle and no property depends on it.

The backlog is a fixed `Stream` of points:

* `arrived` is how many points have reached the backlog;
* `next` is the oldest unacknowledged point;
* `last` is the end of the current batch;
* `i` is the point being written;
* `pc` is the stage of that point: `idle`, `point`, `data` or `meta`.

Each `cursor.execute` is its own action, because a `ConnectionError` can end
the batch between any two of them.

| action | code |
|---|---|
| `Arrive` | a point joins the backlog (BaseHistorian, from the spec) |
| `StartBatch` | the backlog calls `publish_to_historian` with up to `BatchLimit` points; `get_connection` (167-170, 689-693) |
| `PointError` | `int()`/`float()` raises (184-189); the exception passes through `finally`, nothing is acknowledged |
| `PointStep` | topic lookup, then the insert or rename (192-211), when a statement is issued |
| `DataStep` | `insert_data` (213, 156-166) |
| `MetaStep` | the metadata change test and insert (215-225), then the next point or `report_all_handled` (227) |
| `ConnectionLost` | the pending execute raises `ConnectionError` (228-230). With `LostReply`, the server may have applied the statement before the reply was lost. |
| `Restart` | `historian_setup` (695-703): reconnect and reload the three caches from the tables |

Two pieces of the code are modelled as they actually behave:

* The metadata test `old_meta.get(topic_id)` looks up a topic id inside a
  metadata mapping, so it is always `None` (`MetaEntry`).
* Both `ON DUPLICATE KEY` clauses keep the existing row (`InsertIfAbsent`).

`Hash` is a constant assumed injective on lower-case names. It stands for md5
over the small name sets of the runs.

### `HistorianQuery`

Each query input is drawn from small constant sets: category, rest, start,
end, order, skip and count. `Query` has one disjunct per exit of
`query_historian`:

* invalid category;
* unknown topic;
* `TypeError` when both bounds are given (line 451);
* a statement Crate rejects: a bare `20` in the LIMIT slot when count is
  `None` or ≤ 0, or `SKIP`;
* a `ConnectionError`;
* the rows of the SELECT: the matching rows of the category table, sorted and
  cut to the limit.

`answer` records the result.

Two properties are checked of the answered queries:

* `QueryAnswersPage` compares the answer with `Reference`, a description of
  the page without the statement: the stored rows of the topic, strictly
  ordered, as many as `count` allows, none skipped. It uses the same topic id
  lookup as the code and ignores `start` and `end`, because the statement
  never filters on them when it runs (the code adds them only when both are
  given, and then raises). So it checks the ORDER BY and the LIMIT, not the
  time range; `query_range` shows the missing range.
* `QueryReadsFirstWritten` relates the answer to the publication history:
  every returned row holds the value of the oldest coercible point published
  with that key. Since a query can fall between any two statements of a
  batch, and after lost replies and redelivery, it checks what a reader sees
  of first-write-wins (`StoredIsFirstWritten` checks the tables).

### Refinement: `Historian` implements `HistorianStore`

`HistorianStore` states what ingestion promises without statements, caches or
connections. Its actions are `Receive` (a point reaches the backlog),
`Persist(j)` (the value of an unacknowledged point is written if its key is
free, once every older unacknowledged point is stored) and `Acknowledge(n)` (a
stored prefix leaves the backlog). `Historian` instantiates it as `Store` with
this mapping:

* `acked` is `next - 1`;
* `store` is `dataDB`, its keys are table × id × time;
* a point's key is `DataKey(p)`, its value `p.value`, and it is storable when
  `p.coerces`;
* `arrived` and `Stream` are the same.

Under it, `Arrive` is `Receive`; the value insert of `DataStep`, or a lost
`DataStep` reply the server applied, is `Persist(i)`; the `MetaStep` of the
batch's last point (`report_all_handled`) is `Acknowledge(last)`. Every other
step (topic statements, meta inserts, errors, restarts, re-formed batches)
leaves the abstract state alone. `StoreRefinement == Store!Spec` is checked as
a property, and `StoredIsFirstWritten` is defined as `Store!FirstWins`.

## Runs

Every passing run finishes in well under five minutes.

| run | cfg | expect | shows |
|---|---|---|---|
| ingest_safety | `MCHistorian_safety.cfg` | pass | `TypeOK`, `AckedPointsStored`, `StoredIsFirstWritten`, `TopicCacheSettled`, and `StoreRefinement` (every step is a step of `HistorianStore` or a stutter) |
| topic_cache | `MCHistorian_topiccache.cfg` | pass | `TopicCacheMatchesStore` in every state when failed statements are never applied |
| ingest_liveness | `MCHistorian_liveness.cfg` | pass | `AllPointsAcked` under fairness |
| query_page | `MCHistorianQuery_page.cfg` | pass | `QueryAnswersPage` and `QueryReadsFirstWritten` for every kind of query input, interleaved with ingestion, lost replies and a restart |
| meta_write | `MCHistorian_metawrite.cfg` | violation | metadata is rewritten when unchanged (line 217) |
| meta_cache | `MCHistorian_metacache.cfg` | violation | `_topic_meta` and the meta table diverge after a metadata change (line 223) |
| poison_point | `MCHistorian_poison.cfg` | violation | a point that cannot be coerced blocks the backlog forever (line 187) |
| query_faults | `MCHistorianQuery_faults.cfg` | violation | both bounds, skip, or no count make the query raise (lines 443-462) |
| query_queryable | `MCHistorianQuery_queryable.cfg` | violation | a topic ingested since startup, or spelled with capitals, is not found (line 408) |
| query_metadata | `MCHistorianQuery_metadata.cfg` | violation | metadata is never returned (line 479) |
| query_range | `MCHistorianQuery_range.cfg` | violation | a start bound without an end is ignored (line 449) |

`PROJECT.json` lists each violation's finding. The `mutants` entries show that
a plausible bug in the mapped code breaks each passing property. For example:

* an unclamped batch end breaks `TypeOK`;
* acknowledging a point that failed to coerce breaks `StoreRefinement`;
* acknowledging in `finally` breaks `AckedPointsStored`;
* a real upsert in `insert_data` breaks `StoredIsFirstWritten`;
* an insert in place of the rename breaks both topic-cache properties;
* acknowledging one point short breaks `AllPointsAcked`;
* an inverted ORDER BY breaks `QueryAnswersPage`;
* a real upsert in `insert_data` also breaks `QueryReadsFirstWritten`: a
  reader then sees the second publication of a key.

### Bounds

* **Names**: `{"Ta", "ta", "Tb"}`. Two spellings of one topic give the
  rename path; a second topic shows that keys do not interfere.
* **SafetyStream** (5 points) contains each of these:
  * a rename;
  * two writes of one key with different values, so first-write-wins matters;
  * all four sources;
  * a metadata change;
  * a point that cannot be coerced.
* **BatchLimit**: 2, or 3 in `ingest_safety`, so batches both break off part-way and get re-formed
  differently on redelivery.
* **LongStream** (6 points, `ingest_safety`): SafetyStream with a late
  duplicate of the third point's key, carrying another value, ahead of the
  point that cannot be coerced. The two writes of that key then fall in
  different batches, around failures and restarts.
* **MaxFailures**: 2 or 3 connection losses, **MaxRestarts**: 1 or 2 restarts.
  This is enough to fail in each stage and to restart with a batch half
  written.

The mutants listed in `PROJECT.json` show that these cases are reached. For
example, `PointErrorAcks` breaks `AckedPointsStored` only through the point
that cannot be coerced, and `DataStepOverwrite` breaks `StoredIsFirstWritten`
only through the repeated key.

### Fairness

`FairSpec` adds weak fairness on `Arrive` and on `Process`, the steps of the
processing loop. This matches how the code runs:

* the loop runs whenever the backlog is non-empty;
* the bus keeps delivering.

Connection losses and restarts are environment steps. They get no fairness
and are bounded, which stands for "eventually the database stays up".

## Proofs (checked by tlapm)

All theorems hold for every value of the constants that satisfies
`ConstantsAssumption`: md5 injective on lower-case names, `None` distinct from
the data, `Stream` a sequence of points, and a positive batch limit.

* `TypeCorrect`: `Spec => []TypeOK`. `TypeOK` is inductive. It is proved by
  lemma `TypeOKStep`, with one step per action. The `ConnectionLost` case is
  split on the stage at which the statement was lost.
* `TopicCacheConsistent`: `~LostReply => (Spec => []TopicCacheMatchesStore)`.
  `TopicCacheMatchesStore` alone is not inductive: a rename could hit a row
  stored under another id, and an insert could hit a row the cache does not
  know. The strengthening `TopicInv` adds two facts:
  * `RowsWellKeyed`: every row sits under the hash of its lower-cased name;
  * `CacheCoversStore`: every stored topic is in the cache.

  `TopicInv` was checked by TLC before it was proved. Three lemmas carry the
  proof:
  * `TopicStmtWrites`: an issued statement sets exactly the row of the
    topic's id;
  * `LoadedIsTable`: a restart reloads exactly the table;
  * `HashDistinct`.

  With `LostReply`, the property fails in the intermediate states. The
  quiescent form `TopicCacheSettled` still holds (`CacheSettles` below).

* `AcksDurable`: `Spec => []AckedPointsStored`. It holds with `LostReply`
  and restarts, so a lost reply or a restart in the middle of a batch cannot
  make an acknowledged point disappear. The inductive invariant `AckInv`
  strengthens the property with four facts. TLC checked `AckInv` on the
  safety instance before it was proved:
  * `RowsWellKeyed` (see above);
  * `CacheImpliesRow`: a cached spelling has its topic row. When the code
    skips the topic statement (line 206) because the spelling is cached, the
    row is still there.
  * `BatchStored`: the points of the current batch before the one being
    written are stored;
  * `CurPartStored`: the statements already executed for the current point
    have left their rows.

  Two lemmas carry the proof:
  * `RowsKeptStep`: no step deletes a row;
  * `TopicStmtRow`: the statement chosen from the cache leaves a row under
    the point's id.

  The acknowledgement (`report_all_handled`) only comes after the meta insert
  of the batch's last point, and every earlier point is in `BatchStored`.
  `MetaAlwaysChanged` records that line 217 makes every point execute its
  meta insert.

* `Refinement`: `Spec => StoreRefinement`. The initial state maps to the
  abstract one (`AckInvInit`), and `RefinementStep` shows that under `AckInv`
  each step maps to a step of `Store!Next` or a stutter. Two lemmas give the
  non-stuttering cases: `DataWriteIsPersist` (the value insert of point `i`
  is `Persist(i)`: `BatchStored` gives the older points of the batch) and
  `AckIsAcknowledge` (`BatchStored` and `CurPartStored` give that points
  `next..last` are stored). For `Persist`, `AckInv`'s `CurPartStored` also
  records that a point in the `data` or `meta` stage coerced.
* `FirstWriteWins`: `Spec => []StoredIsFirstWritten`. `HistorianStore`
  proves `StoreFirstWins` for any parameters satisfying `StoreAssumption`
  (every key in the key set, no value `None`), with the inductive invariant
  `StoreInv`: first-wins alone is not inductive, since a point persisted now
  must have no older storable point with its key, which needs
  `AckedPersisted` and the "older unacknowledged points are persisted" guard
  of `Persist`. `StoreParams` discharges `StoreAssumption` for the mapping,
  and `FirstWriteWins` follows from `Refinement` and the instantiated
  theorem.

* `CacheSettles` (`TopicCacheProofs`): `Spec => []TopicCacheSettled`, with
  `LostReply` allowed. A lost reply leaves `_topic_name_map` disagreeing with
  the row of a name that the server did change. The cache cannot be right
  again until some point of that name, spelled as the row now is, runs its
  topic statement. The strengthening `RepairPending` says that such a point
  always exists among `Pending`: the points whose topic statement is still
  to run, in the current batch or in the redelivered backlog. With `AckInv`
  it forms the inductive invariant `SettleInv`, which TLC checked on the
  safety instance before it was proved. The lemmas are:
  * `PendingGrows`: only the topic step of a point shrinks `Pending`;
  * `KeepWitness`: a witness survives every step that keeps the cache and
    the row of its name;
  * `RepairPendingStep`: the step proof. Its `PointStep` case shows that the
    point that runs is never the only witness of another disagreement.
    `ConnectionLost` after an applied statement makes the current point
    itself the witness, since the batch is redelivered from `next`.
  When idle with the backlog drained, `Pending` is empty, so no
  disagreement is left.
* `SysTypeCorrect` (`HistorianQueryProofs`): `SysSpec => []SysTypeOK`, the
  typing `QueryPageCorrect` needs. No run checks `SysTypeOK` on its own: its
  ingestion part is `TypeOK`, which `ingest_safety` checks, and the answer
  part holds by the form of `Query`.
* `QueryPageCorrect` (`HistorianQueryProofs`): `SysSpec => QueryAnswersPage`.
  Every answer that reaches Crate is the page `Reference` describes: the
  stored rows of the topic, strictly ordered in the requested direction, as
  many as `count` allows, and no row skipped. `Reference` does not mention
  the statement. The argument goes through rank, the number of smaller
  timestamps:
  * `SortAsc(S)[k]` is the element of rank `k-1`;
  * rank is injective and onto `0..|S|-1`, by `FS_Injection` from the
    library (`RankOnto`), so `SortAsc` lists every element in increasing
    order (`SortAscSorted`);
  * `OrderedFacts` carries this over to the descending order;
  * `SelectIsReference` shows that the first `n` entries of the order meet
    `Reference`: an unlisted row has a larger position, hence is behind
    every listed one.
  For this, `QueryAssumption` requires `Times` to be a finite set of
  naturals, which the code's timestamps are on any finite run.
* `SysRefinement` (`HistorianQueryProofs`): `SysSpec => StoreRefinement`.
  `QueryFrame` shows that a query changes nothing of ingestion but may reopen
  the handle, so `AckInv` survives it (`AckInvQuery`) and it maps to a
  stutter of `HistorianStore`; the ingestion steps use `RefinementStep`.
* `QueryFirstWritten` (`HistorianQueryProofs`):
  `SysSpec => QueryReadsFirstWritten`. `SysRefinement` and `StoreFirstWins`
  give first-write-wins for the tables in every state of the composed
  system; `SelectIsReference` gives that every returned row is a stored row
  of its key, read as stored.

These stay with TLC only:

* liveness (`AllPointsAcked`), which needs fairness and ENABLED, beyond the
  prover;
* the properties of the violation runs, which are false by design.

## Hazards

`PROJECT.json` lists the hazards with the properties that cover them. Two
notes:

* The query and the ingestion loop share `self._connection`, and ingestion
  sets it to `None` on a `ConnectionError` (line 230). This is not a hazard
  for the query: a query holding the handle keeps a valid object, and one
  that fetches it again reconnects. `query_page` checks the answers through
  these interleavings.
* `md5(topic.lower())` on a non-ASCII unicode topic raises
  `UnicodeEncodeError` (line 195) under Python 2. Like a failed coercion, it
  escapes the loop, so it is covered by `AllPointsAcked` and the
  `poison_point` violation. The uncoercible point stands for any per-point
  exception.

## Not modelled

* The configuration factory `historian()`, `parse_table_def` and `main`: they
  run once at start.
* `create_schema` DDL: the tables are assumed to exist.
* The topic-list, metadata and aggregate query stubs: no state changes.
* Timestamp parsing and formatting: times are small integers.
* JSON encoding of metadata: metadata values are model values.
* Most of the remaining lines of `historian.py` are commented-out MongoDB
  code, imports, the configuration factory and `pass` stubs. Every function
  that changes state is modelled, so the map cannot cover much more.
* The thread-safety of the shared Crate connection handle: only whether it is
  set is modelled.

## Plan for later work

1. Prove that `Store!Spec`'s own safety properties carry over to the
   query side: a query answer only shows acknowledged or in-batch points.
2. State and prove the metadata cache's agreement with the meta table
   (`_topic_meta`) in the way `TopicInv` does for topics.
