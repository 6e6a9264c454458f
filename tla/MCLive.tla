--------------------------------- MODULE MCLive ---------------------------------
(***************************************************************************)
(* An instance for TLC of the parts that owe something in the end: the     *)
(* workspace, which this module extends, and by INSTANCE the page of a     *)
(* lab, the lab run behind it, and its container.  Their models share no   *)
(* state: a behaviour is one of one part, chosen at its start; the others  *)
(* stay as they begin.                                                     *)
(***************************************************************************)
EXTENDS Workspace, TLC

CONSTANTS
    Cookies, MaxVisits, MaxQueued,
    LabRun, Calls, MaxCalls,
    Clients, Destroyers

VARIABLES
    part,
    session, run, position, shown, visit, phase, claimed, labStream, labNotices, start,
    claim, release, labFaults, crossed,
    row, mirror, box, active, call, todo, calls, runFaults,
    container, network, ends, up, wanted, provision, destroy, reattach, engineFaults

pageVars ==
    <<session, run, position, shown, visit, phase, claimed, labStream, labNotices, start,
      claim, release, labFaults, crossed>>
runVars == <<row, mirror, box, active, call, todo, calls, runFaults>>
engineVars ==
    <<container, network, ends, up, wanted, provision, destroy, reattach, engineFaults>>

P == INSTANCE LabPage
        WITH stream <- labStream, notices <- labNotices, faults <- labFaults
L == INSTANCE LabRuns WITH Run <- LabRun, faults <- runFaults
D == INSTANCE DockerRuntime WITH faults <- engineFaults

\* What each part asks of its constants.
ASSUME LiveAssumption ==
    P!LabPageAssumption /\ L!LabRunsAssumption /\ D!DockerRuntimeAssumption

-----------------------------------------------------------------------------
LiveInit ==
    /\ part \in {"workspace", "lab page", "lab run", "engine"}
    /\ Init /\ P!Init /\ L!Init /\ D!Init
    /\ part # "workspace" => tier = "T0" /\ link = "none"
    /\ part # "lab page" => ~session
    /\ part # "lab run" => L!Current = {}
    /\ part # "engine" => up = {}

LiveNext ==
    /\ UNCHANGED part
    /\ \/ part = "workspace" /\ Next /\ UNCHANGED <<pageVars, runVars, engineVars>>
       \/ part = "lab page" /\ P!Next /\ UNCHANGED <<vars, runVars, engineVars>>
       \/ part = "lab run" /\ L!Next /\ UNCHANGED <<vars, pageVars, engineVars>>
       \/ part = "engine" /\ D!Next /\ UNCHANGED <<vars, pageVars, runVars>>

\* The fairness of each part, of the behaviours of that part.
LiveFairness ==
    /\ WF_vars(part = "workspace" /\ Detach)
    /\ WF_vars(part = "workspace" /\ LinkRead)
    /\ WF_vars(part = "workspace" /\ Serial)
    /\ WF_vars(part = "workspace" /\ (StreamConnects \/ Hear))
    /\ \A n \in Number : WF_vars(part = "workspace" /\ Proceeds(n))
    /\ WF_pageVars(part = "lab page" /\ (P!StreamConnects \/ P!Hear))
    /\ WF_pageVars(part = "lab page" /\ P!Watch)
    /\ \A v \in P!Visit : WF_pageVars(part = "lab page" /\ P!Proceeds(v))
    /\ \A c \in L!Caller : WF_runVars(part = "lab run" /\ L!Step(c))
    /\ WF_runVars(part = "lab run" /\ L!Watching)
    /\ WF_engineVars(part = "engine" /\ D!Provision)
    /\ WF_engineVars(part = "engine" /\ D!Reattach)
    /\ WF_engineVars(part = "engine" /\ D!RemovalEnds)
    /\ \A d \in Destroyers : WF_engineVars(part = "engine" /\ D!Destroy(d))

LiveSpec ==
    LiveInit /\ [][LiveNext]_<<part, vars, pageVars, runVars, engineVars>> /\ LiveFairness

-----------------------------------------------------------------------------
\* Each is the property of that name of the part it is about; those of the
\* workspace are at hand.
ReadyIsShownToReturning == P!ReadyIsShownToReturning

LabIsReleased == P!LabIsReleased

LiveRunsStay == L!LiveRunsStay

RunsConverge == L!RunsConverge

DestroyedIsGone == D!DestroyedIsGone

EngineFollows == D!EngineFollows

=============================================================================
