SPECIFICATION QueueSpec
CONSTANTS
    Sandbox = {1, 2, 3, 4}
    Replicas = {r1}
    Handlers = {h1, h2}
    MaxActive = 1
    MaxQueue = 1
    DestroyMaxAttempts = 2
    Looping = {r1}
    Elapsing = {"max-lifetime"}
    MaxFaults = 0
INVARIANTS
    QueueBound
PROPERTIES
    QueueDrains
