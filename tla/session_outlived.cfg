SPECIFICATION Spec
CONSTANTS
    Session = {s1}
    Owner <- OneClient
    Deletes = {q1}
    MaxPerClient = 1
    MaxSessions = 1
    MaxCreating = 1
    SlowCreate = TRUE
    MaxFaults = 0
INVARIANTS
    ActiveHasDatabase
