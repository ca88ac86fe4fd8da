\* Whether a meta INSERT is issued for unchanged metadata.
CONSTANTS
    Names <- MCNames
    Lower <- MCLower
    Hash <- MCHash
    Metas = {"m1", "m2"}
    Values = {"v1", "v2"}
    Times = {1, 2}
    Stream <- SafetyStream
    BatchLimit = 2
    None = None
    LostReply = FALSE
    MaxFailures = 0
    MaxRestarts = 0
SPECIFICATION Spec
INVARIANT MetaWriteOnlyOnChange
\* Once every point is acknowledged the agent waits for more data.
CHECK_DEADLOCK FALSE
