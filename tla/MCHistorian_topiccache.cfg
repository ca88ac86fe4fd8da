\* The topic-name cache matches the topic table at every step when a
\* connection loss is reported before the statement reaches the server.
CONSTANTS
    Names <- MCNames
    Lower <- MCLower
    Hash <- MCHash
    Metas = {"m1", "m2"}
    Values = {"v1", "v2"}
    Times = {1, 2}
    Stream <- SafetyStream
    BatchLimit = 2
    None = None
    LostReply = FALSE
    MaxFailures = 3
    MaxRestarts = 1
SPECIFICATION Spec
INVARIANT TopicCacheMatchesStore
\* Once every point is acknowledged the agent waits for more data.
CHECK_DEADLOCK FALSE
