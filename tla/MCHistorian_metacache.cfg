\* The meta table against the metadata cache after a metadata change.
CONSTANTS
    Names <- MCNames
    Lower <- MCLower
    Hash <- MCHash
    Metas = {"m1", "m2"}
    Values = {"v1", "v2"}
    Times = {1, 2}
    Stream <- SafetyStream
    BatchLimit = 2
    None = None
    LostReply = FALSE
    MaxFailures = 1
    MaxRestarts = 1
SPECIFICATION Spec
INVARIANT MetaCacheMatchesStore
\* Once every point is acknowledged the agent waits for more data.
CHECK_DEADLOCK FALSE
