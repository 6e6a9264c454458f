SPECIFICATION RecoverySpec
CONSTANTS
    Session = {s1, s2}
    Owner <- OneClient
    Deletes = {q1}
    MaxPerClient = 1
    MaxSessions = 2
    MaxCreating = 2
    SlowCreate = FALSE
    MaxFaults = 2
    Sandbox = {1}
    Replicas = {r1}
    Handlers = {h1}
    MaxActive = 1
    MaxQueue = 1
    DestroyMaxAttempts = 2
    Looping = {r1}
    Elapsing = {"provision-timeout", "max-lifetime"}
INVARIANTS
    ActiveHasDatabase
PROPERTIES
    LiveDatabasesStay
    SessionsConverge
    SlotsAreFreed
    OrphansConverge
