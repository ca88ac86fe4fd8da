--------------------------- MODULE HistorianQuery ---------------------------
(***************************************************************************)
(* query_historian (historian.py lines 384-479) composed with ingestion.  *)
(* The query runs on the agent's RPC side while the processing loop        *)
(* publishes, so a Query step may fall between any two ingestion steps.   *)
(* It is one SELECT, atomic against the tables; it reads the cached       *)
(* _topic_id_map and the category table, and answer records what it      *)
(* returned or raised.                                                    *)
(***************************************************************************)
EXTENDS Historian, FiniteSets

CONSTANTS
    QCats,      \* first path segment of the queried topic
    QRests,     \* rest of the queried topic
    QStarts,    \* start argument: a time or None
    QEnds,      \* end argument: a time or None
    QOrders,    \* "FIRST_TO_LAST" or "LAST_TO_FIRST"
    QSkips,     \* skip argument
    QCounts     \* count argument: a number or None

ASSUME QueryAssumption ==
    /\ QStarts \subseteq Times \cup {None}
    /\ QEnds \subseteq Times \cup {None}
    /\ Times \subseteq Nat
    /\ IsFiniteSet(Times)
    /\ QSkips \subseteq Nat
    /\ QCounts \subseteq Nat \cup {None}

VARIABLE answer

sysVars == <<vars, answer>>

QueryInput == [cat : QCats, rest : QRests, start : QStarts, end : QEnds,
               order : QOrders, skip : QSkips, count : QCounts]

NoAnswer == [status |-> "none"]

\* The metadata={} every return statement of query_historian builds.
NoMetadata == None

\* The topic the id map is searched for, lines 398-406: the category prefix
\* is cut off for analysis and device topics only, and the name is looked
\* up as given, not lower-cased.
QueryName(q) ==
    IF q.cat \in {"analysis", "device"} THEN q.rest ELSE q.cat \o "/" \o q.rest

\* `topic in self._topic_id_map`, line 408.
Known(q) == QueryName(q) \in Keys /\ topicIdMap[QueryName(q)] # None

\* Why the SELECT cannot run: args['where'] is overwritten and
\* values.append(start_time, end_time) raises TypeError when both bounds
\* are given (lines 449-451); a count that is None or not positive leaves
\* the bare number 20 in the LIMIT slot, and " SKIP n" is not Crate SQL
\* (lines 443, 458-462), so the statement does not parse.
QueryFault(q) ==
    CASE q.start # None /\ q.end # None       -> "TypeError"
      [] q.count = None \/ q.count <= 0        -> "ProgrammingError"
      [] q.skip > 0                            -> "ProgrammingError"
      [] OTHER                                 -> "none"

\* Mutant: the ORDER BY test inverted.
QueryArgsOrderSwapped(q) ==
    [id    |-> topicIdMap[QueryName(q)],
     desc  |-> q.order = "FIRST_TO_LAST",
     limit |-> q.count]

\* The statement the code executes: " WHERE topic_id = ?", the ORDER BY of
\* lines 453-456 and " LIMIT count".
QueryArgs(q) ==
    [id    |-> topicIdMap[QueryName(q)],
     desc  |-> q.order # "FIRST_TO_LAST",
     limit |-> q.count]

\* The timestamps of a set in ascending order.
SortAsc(S) ==
    [k \in 1..Cardinality(S) |-> CHOOSE t \in S : Cardinality({u \in S : u < t}) = k - 1]

\* What Crate returns for the statement: the rows of the table matching
\* the WHERE clause, sorted, cut to the limit; each row projected to
\* (ts, result), line 477.
Select(table, args) ==
    LET ts   == {t \in Times : dataDB[<<table, args.id, t>>] # None}
        asc  == SortAsc(ts)
        ord  == IF args.desc THEN [k \in 1..Len(asc) |-> asc[Len(asc) + 1 - k]]
                             ELSE asc
        n    == IF args.limit < Len(ord) THEN args.limit ELSE Len(ord)
    IN  [k \in 1..n |-> <<ord[k], dataDB[<<table, args.id, ord[k]>>]>>]

\* One call of query_historian.  get_connection reconnects a dropped handle
\* (lines 470-471, 689-693); the execute may raise ConnectionError, which
\* query_historian does not catch.
Query ==
    \E q \in QueryInput :
        \/ /\ q.cat \notin Tables
           /\ answer' = [status |-> "invalid", q |-> q, values |-> <<>>, metadata |-> NoMetadata]
           /\ UNCHANGED vars
        \/ /\ q.cat \in Tables
           /\ ~Known(q)
           /\ answer' = [status |-> "notfound", q |-> q, values |-> <<>>, metadata |-> NoMetadata]
           /\ UNCHANGED vars
        \/ /\ q.cat \in Tables
           /\ Known(q)
           /\ QueryFault(q) = "TypeError"
           /\ answer' = [status |-> "TypeError", q |-> q, values |-> <<>>, metadata |-> NoMetadata]
           /\ UNCHANGED vars
        \/ /\ q.cat \in Tables
           /\ Known(q)
           /\ QueryFault(q) # "TypeError"
           /\ conn' = TRUE
           /\ \/ /\ QueryFault(q) = "ProgrammingError"
                 /\ answer' = [status |-> "ProgrammingError", q |-> q, values |-> <<>>, metadata |-> NoMetadata]
              \/ /\ QueryFault(q) = "none"
                 /\ answer' = [status |-> "ok", q |-> q,
                               values |-> Select(q.cat, QueryArgs(q)), metadata |-> NoMetadata]
              \/ answer' = [status |-> "ConnectionError", q |-> q, values |-> <<>>, metadata |-> NoMetadata]
           /\ UNCHANGED <<topicDB, metaDB, dataDB, topicNameMap, topicIdMap,
                          topicMeta, arrived, next, last, pc, i, failures, restarts>>

SysInit == Init /\ answer = NoAnswer

SysNext == (Next /\ UNCHANGED answer) \/ Query

SysSpec == SysInit /\ [][SysNext]_sysVars

-----------------------------------------------------------------------------
SysTypeOK ==
    /\ TypeOK
    /\ answer.status \in {"none", "invalid", "notfound", "TypeError",
                          "ProgrammingError", "ConnectionError", "ok"}
    /\ answer.status # "none" =>
          /\ answer.q \in QueryInput
          /\ answer.values \in Seq(Times \X Values)

\* The rows a range query must return, stated without the statement the
\* code builds: stored rows of the topic in its category table, strictly
\* ordered by timestamp in the requested direction, as many as count
\* allows, and no stored row skipped ahead of one that is returned.
Reference(q, s) ==
    LET id   == topicIdMap[QueryName(q)]
        rows == {t \in Times : dataDB[<<q.cat, id, t>>] # None}
        inS  == {s[k][1] : k \in 1..Len(s)}
        ahead(t, u) == IF q.order = "FIRST_TO_LAST" THEN t < u ELSE t > u
    IN  /\ Len(s) = IF q.count < Cardinality(rows) THEN q.count ELSE Cardinality(rows)
        /\ \A k \in 1..Len(s) : s[k][1] \in rows /\ s[k][2] = dataDB[<<q.cat, id, s[k][1]>>]
        /\ \A k \in 1..(Len(s) - 1) : ahead(s[k][1], s[k + 1][1])
        /\ \A t \in rows \ inS : \A u \in inS : ahead(u, t)

\* A query that runs returns exactly the page of the topic's history that
\* was asked for: its own rows only, in the requested order, cut to count
\* (the WHERE, ORDER BY and LIMIT clauses of lines 443-477).
QueryAnswersPage ==
    [][Query /\ answer'.status = "ok" => Reference(answer'.q, answer'.values)]_sysVars

\* The key of the row at timestamp t that the SELECT of query q reads:
\* its category table, the id _topic_id_map gives the name, and t.
RowKey(q, t) == <<q.cat, topicIdMap[QueryName(q)], t>>

\* A reader sees only what a publisher wrote first: every row of an answered
\* query, taken at any point between two statements of a batch, after lost
\* replies, redelivered batches and restarts, holds the value of the oldest
\* published point that passes coercion with that table, topic id and
\* timestamp (insert_data's ON DUPLICATE KEY at lines 157-166 read back by
\* the SELECT of lines 472-477).
QueryReadsFirstWritten ==
    [][Query /\ answer'.status = "ok" =>
         \A k \in 1..Len(answer'.values) :
            \E j \in 1..arrived :
               /\ Stream[j].coerces
               /\ DataKey(Stream[j]) = RowKey(answer'.q, answer'.values[k][1])
               /\ Stream[j].value = answer'.values[k][2]
               /\ \A j0 \in 1..(j - 1) :
                     Stream[j0].coerces =>
                        DataKey(Stream[j0]) # RowKey(answer'.q, answer'.values[k][1])]_sysVars

\* Spec 4.4: a query fails only when the storage layer does; unknown
\* categories and topics give empty results, and any bounds, skip and
\* count give a result (lines 443-462 build the statement).
QueryFailsOnlyOnStorage ==
    answer.status \notin {"TypeError", "ProgrammingError"}

\* Spec 8: after a device or analysis point is ingested and acknowledged,
\* a query of its category and name finds the topic (line 408 searches
\* _topic_id_map, which only historian_setup fills).
IngestedTopicQueryable ==
    answer.status = "notfound" /\ answer.q.cat \in {"device", "analysis"} =>
        ~\E j \in 1..(next - 1) : /\ Table(Stream[j].source) = answer.q.cat
                                  /\ Stream[j].topic = answer.q.rest

\* Spec 4.4 step 4: a query given only a start bound is open-ended above
\* and returns no row older than start (lines 445-451 compute start_time
\* but add it to the WHERE clause only when end is given as well).
QueryRespectsStart ==
    [][Query /\ answer'.status = "ok" /\ answer'.q.start # None =>
         \A k \in 1..Len(answer'.values) : answer'.values[k][1] >= answer'.q.start]_sysVars

\* Spec 4.4: the metadata of an answered query is the cached metadata of
\* the topic (line 479 returns metadata={}).
QueryReturnsMetadata ==
    [][Query /\ answer'.status = "ok" =>
         answer'.metadata = topicMeta[topicIdMap[QueryName(answer'.q)]]]_sysVars

=============================================================================
