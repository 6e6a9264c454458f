SPECIFICATION Spec
CHECK_DEADLOCK FALSE
CONSTANTS
    Calls = {c1}
    Jobs <- TransactionJobs
    MaxCalls = 3
    MaxClients = 1
    MaxTables = 1
    MaxFaults = 0
INVARIANT SchemaIsTracked

