SPECIFICATION SharedSpec
CHECK_DEADLOCK FALSE
CONSTANTS
    Sandbox = {1}
    Replicas = {r1, r2}
    Handlers = {h1}
    MaxActive = 1
    MaxQueue = 1
    DestroyMaxAttempts = 2
    Looping = {r1, r2}
    Elapsing = {"provision-timeout", "unclaimed", "idle", "max-lifetime"}
    MaxFaults = 1
    Processes = {m1, m2}
    Clients = {n1}
    Boxes = {b1}
    MaxBoots = 3
    MaxMishaps = 2
    Sessions = {s1, s2}
    PerClient = 2
    PerSession = 1
    WindowSeconds = 2
    MaxDelay = 1
    MaxArrivals = 3
    MaxClock = 4
    MaxOutages = 1
    Tabs = {t1, t2}
    Users = {v1, v2}
    Requests = {q1, q2}
    MaxProjects = 1
    MaxActs = 3
    MaxRefusals = 1
    Pages = {g1, g2}
    MaxChoices = 3
    MaxTurns = 1
SYMMETRY Symmetry
INVARIANTS
    OrphansHaveEnded
    FailuresAreReal
    ProcessesAgree
    TabsAgree
PROPERTIES
    DeadlinesHold
