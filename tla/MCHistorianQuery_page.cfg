\* Queries interleaved with ingestion, lost replies and a restart that
\* fills the topic id map: unknown categories, unknown topics (before the
\* restart), both bounds, a missing count, and the inputs that reach the
\* SELECT in both orders.
CONSTANTS
    Names <- MCNames
    Lower <- MCLower
    Hash <- MCHash
    Metas = {"m1", "m2"}
    Values = {"v1", "v2"}
    Times = {1, 2}
    Stream <- QueryStream
    BatchLimit = 2
    None = None
    LostReply = TRUE
    MaxFailures = 1
    MaxRestarts = 1
    QCats = {"device", "bogus"}
    QRests = {"ta"}
    QStarts = {None, 1}
    QEnds = {2}
    QOrders = {"FIRST_TO_LAST", "LAST_TO_FIRST"}
    QSkips = {0}
    QCounts = {None, 1}
SPECIFICATION SysSpec
PROPERTY QueryAnswersPage
 
\* Once every point is acknowledged the agent waits for more data.
CHECK_DEADLOCK FALSE
