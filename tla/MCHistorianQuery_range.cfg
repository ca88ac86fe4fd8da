\* A query with a start bound and no end against a two-row history.
CONSTANTS
    Names <- MCNames
    Lower <- MCLower
    Hash <- MCHash
    Metas = {"m1", "m2"}
    Values = {"v1", "v2"}
    Times = {1, 2}
    Stream <- TwoPointStream
    BatchLimit = 2
    None = None
    LostReply = FALSE
    MaxFailures = 0
    MaxRestarts = 1
    QCats = {"device"}
    QRests = {"ta"}
    QStarts = {2}
    QEnds = {None}
    QOrders = {"LAST_TO_FIRST"}
    QSkips = {0}
    QCounts = {2}
SPECIFICATION SysSpec
PROPERTY QueryRespectsStart
\* Once every point is acknowledged the agent waits for more data.
CHECK_DEADLOCK FALSE
