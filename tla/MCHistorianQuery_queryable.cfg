\* A query of a device topic after its points were acknowledged.
CONSTANTS
    Names <- MCNames
    Lower <- MCLower
    Hash <- MCHash
    Metas = {"m1", "m2"}
    Values = {"v1", "v2"}
    Times = {1, 2}
    Stream <- QueryStream
    BatchLimit = 2
    None = None
    LostReply = TRUE
    MaxFailures = 1
    MaxRestarts = 1
    QCats = {"device", "datalogger"}
    QRests = {"ta", "Ta"}
    QStarts = {None}
    QEnds = {None}
    QOrders = {"FIRST_TO_LAST", "LAST_TO_FIRST"}
    QSkips = {0}
    QCounts = {1, 2}
SPECIFICATION SysSpec
INVARIANT IngestedTopicQueryable
\* Once every point is acknowledged the agent waits for more data.
CHECK_DEADLOCK FALSE
