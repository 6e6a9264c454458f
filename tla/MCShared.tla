-------------------------------- MODULE MCShared --------------------------------
(***************************************************************************)
(* An instance for TLC of what several processes, or several tabs, share:  *)
(* replicas of the manager, which this module extends, their database and  *)
(* their runtime, processes that start the migrations, instances of the API*)
(* the counters of the rate limits, and the tabs of a browser its cookie   *)
(* and its storage.  A behaviour is one of one part, chosen at its start;  *)
(* the others stay as they begin.                                          *)
(***************************************************************************)
EXTENDS MCSandboxManager, Sequences

CONSTANTS
    Processes, Clients, Boxes, MaxBoots, MaxMishaps,
    Sessions, PerClient, PerSession, WindowSeconds, MaxDelay, MaxArrivals, MaxClock, MaxOutages,
    Tabs, Users, Requests, MaxProjects, MaxActs, MaxRefusals,
    Pages, MaxChoices, MaxTurns

VARIABLES
    part,
    lock, schema, recorded, box, process, served, boots, mishaps, troubled,
    clock, counters, arrivals, outages,
    users, owner, projects, cookie, request, tab, acts, refusals, excused,
    browser, choice, systemDark, page, notices, fades, turns, late, crossed, turned

processVars == <<lock, schema, recorded, box, process, served, boots, mishaps, troubled>>
limitVars == <<clock, counters, arrivals, outages>>
accountVars == <<users, owner, projects, cookie, request, tab, acts, refusals, excused>>
themeVars ==
    <<browser, choice, systemDark, page, notices, fades, turns, late, crossed, turned>>

\* Of two processes one is of an older version.
Versions == [p \in Processes |-> IF p = CHOOSE old \in Processes : TRUE THEN 1 ELSE 2]

P == INSTANCE ManagerProcess WITH Known <- Versions, request <- served
G == INSTANCE RateLimits
A == INSTANCE Accounts
H == INSTANCE Themes

\* What each part asks of its constants.
ASSUME SharedAssumption ==
    /\ P!ManagerProcessAssumption /\ G!RateLimitsAssumption
    /\ A!AccountsAssumption /\ H!ThemesAssumption

-----------------------------------------------------------------------------
SharedInit ==
    /\ part \in {"replicas", "processes", "limits", "accounts", "themes"}
    /\ Init /\ P!Init /\ G!Init /\ A!Init /\ H!Init
    /\ part # "accounts" => users = {}
    /\ part # "themes" => browser = [blocked |-> FALSE, still |-> FALSE]

SharedNext ==
    /\ UNCHANGED part
    /\ \/ /\ part = "replicas" /\ Next
          /\ UNCHANGED <<processVars, limitVars, accountVars, themeVars>>
       \/ /\ part = "processes" /\ P!Next
          /\ UNCHANGED <<vars, limitVars, accountVars, themeVars>>
       \/ /\ part = "limits" /\ G!Next
          /\ UNCHANGED <<vars, processVars, accountVars, themeVars>>
       \/ /\ part = "accounts" /\ A!Next
          /\ UNCHANGED <<vars, processVars, limitVars, themeVars>>
       \/ /\ part = "themes" /\ H!Next
          /\ UNCHANGED <<vars, processVars, limitVars, accountVars>>

SharedSpec ==
    SharedInit
        /\ [][SharedNext]_<<part, vars, processVars, limitVars, accountVars, themeVars>>

-----------------------------------------------------------------------------
\* What the parts promise: each is the conjunction of the properties there are
\* of the parts it is about.
ProcessesAgree ==
    /\ part = "processes" => P!MigrationsHold /\ P!StopsClean
    /\ part = "limits" => G!LimitsHold /\ G!RefusalsEnd

TabsAgree ==
    /\ part = "accounts" => A!ProjectLimitHolds /\ A!AccountIsShown
    /\ part = "themes" => H!ThemesSettle

=============================================================================
