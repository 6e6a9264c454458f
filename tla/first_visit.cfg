SPECIFICATION FairSpec
CONSTANTS
    Cookies = {FALSE}
    MaxVisits = 1
    MaxQueued = 1
    MaxFaults = 0
CHECK_DEADLOCK FALSE
PROPERTY ReadyIsShown
