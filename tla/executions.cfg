SPECIFICATION FairSpec
CHECK_DEADLOCK FALSE
CONSTANTS
    Calls = {c1, c2}
    Jobs <- MixedJobs
    MaxCalls = 2
    MaxClients = 3
    MaxTables = 2
    MaxFaults = 1
INVARIANTS
    TakeTurns
    TransactionIsPinned
    HistoryReplays
PROPERTIES
    RequestsAreAnswered
    ConnectionsEnd

