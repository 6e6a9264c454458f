SPECIFICATION Spec
CONSTANTS
    Sandbox = {1}
    Replicas = {r1}
    Handlers = {h1}
    MaxActive = 1
    MaxQueue = 1
    DestroyMaxAttempts = 2
    Looping = {r1}
    Elapsing = {"provision-timeout", "unclaimed", "idle", "max-lifetime"}
    MaxFaults = 0
PROPERTIES
    IdleDeadlineHolds
