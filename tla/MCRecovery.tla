------------------------------- MODULE MCRecovery -------------------------------
(***************************************************************************)
(* An instance for TLC of the parts that clean up whatever fails: sessions *)
(* with their reaper, which this module extends, and the sandbox manager   *)
(* with its loop.  A behaviour is one of one part, chosen at its start;    *)
(* the other stays as it begins.                                           *)
(***************************************************************************)
EXTENDS MCSessions

CONSTANTS
    Sandbox, Replicas, Handlers, MaxActive, MaxQueue, DestroyMaxAttempts, Looping, Elapsing

VARIABLES
    part,
    boxStatus, boxDue, attempts, runtime, inFlight, task, admission, free, chosen, post,
    phase, judge, seen, boxTodo, doing, boxFaults

boxVars ==
    <<boxStatus, boxDue, attempts, runtime, inFlight, task, admission, free, chosen, post,
      phase, judge, seen, boxTodo, doing, boxFaults>>

M == INSTANCE SandboxManager
        WITH status <- boxStatus, due <- boxDue, todo <- boxTodo, faults <- boxFaults

-----------------------------------------------------------------------------
RecoveryInit == part \in {"sessions", "manager"} /\ Init /\ M!Init

RecoveryNext ==
    /\ UNCHANGED part
    /\ \/ part = "sessions" /\ Next /\ UNCHANGED boxVars
       \/ part = "manager" /\ M!Next /\ UNCHANGED vars

\* The fairness of each part, of the behaviours of that part.
RecoveryFairness ==
    /\ \A s \in Session : WF_vars(part = "sessions" /\ Create(s))
    /\ \A e \in Enders : WF_vars(part = "sessions" /\ End(e))
    /\ WF_vars(part = "sessions" /\ Reap)
    /\ \A s \in Session :
          WF_vars(part = "sessions" /\ \E limit \in {"stuck", "max-lifetime"} : Exceed(s, limit))
    /\ \A h \in Handlers : WF_boxVars(part = "manager" /\ M!PostCreate(h))
    /\ WF_boxVars(part = "manager" /\ \E c \in M!Callers : M!Admission(c))
    /\ \A s \in Sandbox : WF_boxVars(part = "manager" /\ M!Provisioning(s))
    /\ \A r \in Replicas : WF_boxVars(part = "manager" /\ M!Pass(r))
    /\ \A s \in Sandbox :
          WF_boxVars(part = "manager" /\ \E d \in {"provision-timeout", "max-lifetime"} : M!Elapse(s, d))

RecoverySpec ==
    RecoveryInit /\ [][RecoveryNext]_<<part, vars, boxVars>> /\ RecoveryFairness

-----------------------------------------------------------------------------
\* Each is the property of that name of the manager; those of the sessions are
\* at hand.
SlotsAreFreed == M!SlotsAreFreed

OrphansConverge == M!OrphansConverge

=============================================================================
