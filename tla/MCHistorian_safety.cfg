\* Safety of ingestion, and its refinement of the abstract store, under
\* connection losses that may hide applied statements, two restarts, and
\* redelivery of re-formed batches of up to three points.
CONSTANTS
    Names <- MCNames
    Lower <- MCLower
    Hash <- MCHash
    Metas = {"m1", "m2"}
    Values = {"v1", "v2"}
    Times = {1, 2}
    Stream <- LongStream
    BatchLimit = 3
    None = None
    LostReply = TRUE
    MaxFailures = 3
    MaxRestarts = 2
SPECIFICATION Spec
INVARIANT TypeOK
INVARIANT AckedPointsStored
INVARIANT StoredIsFirstWritten
INVARIANT TopicCacheSettled
PROPERTY StoreRefinement
\* Once every point is acknowledged the agent waits for more data.
CHECK_DEADLOCK FALSE
