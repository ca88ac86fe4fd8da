\* A point whose value cannot be coerced, between two good points.
CONSTANTS
    Names <- MCNames
    Lower <- MCLower
    Hash <- MCHash
    Metas = {"m1", "m2"}
    Values = {"v1", "v2"}
    Times = {1, 2}
    Stream <- PoisonStream
    BatchLimit = 2
    None = None
    LostReply = FALSE
    MaxFailures = 0
    MaxRestarts = 0
SPECIFICATION FairSpec
PROPERTY AllPointsAcked
\* Once every point is acknowledged the agent waits for more data.
CHECK_DEADLOCK FALSE
