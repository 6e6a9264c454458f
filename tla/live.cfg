SPECIFICATION LiveSpec
CHECK_DEADLOCK FALSE
CONSTANTS
    Tiers = {"T0", "T1"}
    MaxDatabases = 4
    MaxChanges = 3
    MaxClicks = 3
    Cookies = {TRUE, FALSE}
    MaxVisits = 2
    MaxQueued = 1
    LabRun = {1, 2}
    Calls = {c1, c2}
    MaxCalls = 2
    Clients = {k1, k2}
    Destroyers = {d1, d2}
    MaxFaults = 1
INVARIANTS
    NewestAnswerWins
    OneDatabase
    CanvasIsCurrent
    DestroyedIsGone
PROPERTIES
    WorkspaceSettles
    ReadyIsShownToReturning
    LabIsReleased
    LiveRunsStay
    RunsConverge
    EngineFollows
