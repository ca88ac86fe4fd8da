\* Every point is acknowledged under fairness, with lost replies,
\* connection losses and a restart on the way.
CONSTANTS
    Names <- MCNames
    Lower <- MCLower
    Hash <- MCHash
    Metas = {"m1", "m2"}
    Values = {"v1", "v2"}
    Times = {1, 2}
    Stream <- GoodStream
    BatchLimit = 2
    None = None
    LostReply = TRUE
    MaxFailures = 2
    MaxRestarts = 1
SPECIFICATION FairSpec
PROPERTY AllPointsAcked
\* Once every point is acknowledged the agent waits for more data.
CHECK_DEADLOCK FALSE
