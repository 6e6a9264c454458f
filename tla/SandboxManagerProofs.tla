------------------------- MODULE SandboxManagerProofs -------------------------
(***************************************************************************)
(* Proofs about the sandbox manager, for any number of sandboxes,          *)
(* replicas, handlers, slots and faults: types, legal moves, the slots, the*)
(* queue, the refinement of SandboxLifecycle, and the reconciliation       *)
(* passes.                                                                 *)
(***************************************************************************)
EXTENDS SandboxManager, FiniteSetTheorems, TLAPS

USE ConstantsAssumption

-----------------------------------------------------------------------------
(***************************************************************************)
(* Types                                                                   *)
(***************************************************************************)

USE DEF rowVars, taskVars, admitVars, passVars

\* A row keeps its type whatever it becomes.
LEMMA SetStatusType ==
    ASSUME TypeOK, NEW s \in Sandbox, NEW to \in Status, SetStatus(s, to)
    PROVE  /\ status' \in [Sandbox -> Status]
           /\ due' \in [Sandbox -> SUBSET Deadline]
           /\ attempts' \in [Sandbox -> Nat]
    BY DEF TypeOK, SetStatus

LEMMA TransitionType ==
    ASSUME TypeOK, NEW s \in Sandbox, NEW from, NEW to \in Status, Transition(s, from, to)
    PROVE  /\ status' \in [Sandbox -> Status]
           /\ due' \in [Sandbox -> SUBSET Deadline]
           /\ attempts' \in [Sandbox -> Nat]
<1>1. CASE status[s] = from
    BY <1>1, SetStatusType DEF Transition
<1>2. CASE status[s] # from
    BY <1>2 DEF Transition, TypeOK
<1> QED BY <1>1, <1>2

LEMMA FaultType == TypeOK /\ Fault => faults' \in 0..MaxFaults
    BY DEF TypeOK, Fault

LEMMA EndAdmissionType ==
    ASSUME TypeOK, NEW c \in Callers, EndAdmission(c)
    PROVE  /\ admission' \in [Callers -> Stage]
           /\ free' \in [Callers -> 0..MaxActive]
           /\ chosen' \in [Callers -> SUBSET Sandbox]
           /\ post' \in [Handlers -> Post]
           /\ phase' \in [Replicas -> Phase]
    BY DEF TypeOK, EndAdmission, Stage, Post, Phase

LEMMA PromoteType ==
    ASSUME TypeOK, NEW c \in Callers, Promote(c)
    PROVE  /\ status' \in [Sandbox -> Status]
           /\ due' \in [Sandbox -> SUBSET Deadline]
           /\ attempts' \in [Sandbox -> Nat]
    BY DEF TypeOK, Promote, Status

LEMMA PostingType ==
    ASSUME TypeOK, Posting
    PROVE  TypeOK'
<1>1. ASSUME NEW h \in Handlers, NEW r \in Replicas, NEW s \in Sandbox, PostCheck(h, r, s)
      PROVE  TypeOK'
    BY <1>1 DEF TypeOK, PostCheck, Post, IdlePost
<1>2. ASSUME NEW h \in Handlers, PostCreate(h)
      PROVE  TypeOK'
  <2> DEFINE s == post[h].req
  <2>1. s \in Sandbox /\ h \in Callers /\ post[h] \in [pc : {"checked", "admitting"}, at : Replicas, req : Sandbox]
    BY <1>2 DEF PostCreate, TypeOK, Post, IdlePost, Callers
  <2>2. CASE status[s] = "absent"
    <3>1. SetStatus(s, "PENDING") /\ "PENDING" \in Status
        BY <1>2, <2>2 DEF PostCreate, Status
    <3>2. [pc |-> "admitting", at |-> post[h].at, req |-> s] \in Post
        BY <2>1 DEF Post
    <3>3. post' = [post EXCEPT ![h] = [pc |-> "admitting", at |-> post[h].at, req |-> s]]
        BY <1>2, <2>2 DEF PostCreate
    <3>4. post' \in [Handlers -> Post]
        BY <3>2, <3>3 DEF TypeOK
    <3>5. admission' \in [Callers -> Stage]
        BY <1>2, <2>1, <2>2 DEF PostCreate, TypeOK, Stage
    <3> QED BY <1>2, <2>1, <2>2, <3>1, <3>4, <3>5, SetStatusType DEF PostCreate, TypeOK
  <2>3. CASE status[s] # "absent"
    BY <1>2, <2>3 DEF PostCreate, TypeOK, Post
  <2> QED BY <2>2, <2>3
<1> QED BY <1>1, <1>2 DEF Posting

\* A state with the fields of an admission changed as EndAdmission may.
LEMMA AdmissionType ==
    ASSUME TypeOK, NEW c \in Callers, Admission(c) \/ AdmitFault(c)
    PROVE  TypeOK'
<1>1. CASE AdmitCount(c)
  <2>1. CASE Cardinality(Held) < MaxActive
    <3>1. Held \subseteq Sandbox /\ Cardinality(Held) \in Nat
        BY FS_Subset, FS_CardinalityType DEF Held, With
    <3>2. MaxActive - Cardinality(Held) \in 0..MaxActive
        BY <2>1, <3>1
    <3>3. free' \in [Callers -> 0..MaxActive]
        BY <1>1, <2>1, <3>2 DEF AdmitCount, TypeOK
    <3> QED BY <1>1, <2>1, <3>3 DEF AdmitCount, TypeOK, Stage
  <2>2. CASE ~(Cardinality(Held) < MaxActive)
    BY <1>1, <2>2, EndAdmissionType DEF AdmitCount, TypeOK
  <2> QED BY <2>1, <2>2
<1>2. CASE AdmitSelect(c)
  <2>1. chosen' \in [Callers -> SUBSET Sandbox]
    BY <1>2 DEF AdmitSelect, Pending, With, TypeOK
  <2> QED BY <1>2, <2>1 DEF AdmitSelect, TypeOK, Stage
<1>3. CASE AdmitCommit(c)
  <2>1. CASE chosen[c] \subseteq Pending
    <3> DEFINE r == ReplicaOf(c)
    <3>0. inFlight' = [inFlight EXCEPT ![r] = inFlight[r] \cup chosen[c]]
        BY <1>3, <2>1 DEF AdmitCommit
    <3> HIDE DEF r
    <3>1. inFlight' \in [Replicas -> SUBSET Sandbox]
        BY <3>0 DEF TypeOK
    <3>2. task' \in [Sandbox -> TaskStep]
        BY <1>3, <2>1 DEF AdmitCommit, TypeOK, TaskStep
    <3> QED BY <1>3, <2>1, <3>1, <3>2, EndAdmissionType, PromoteType DEF AdmitCommit, TypeOK
  <2>2. CASE ~(chosen[c] \subseteq Pending)
    BY <1>3, <2>2, EndAdmissionType DEF AdmitCommit, TypeOK
  <2> QED BY <2>1, <2>2
<1>4. CASE AdmitFault(c)
  <2>1. /\ status' \in [Sandbox -> Status]
        /\ due' \in [Sandbox -> SUBSET Deadline]
        /\ attempts' \in [Sandbox -> Nat]
    BY <1>4, PromoteType DEF AdmitFault, TypeOK
  <2>2. faults' \in 0..MaxFaults
    BY <1>4, FaultType DEF AdmitFault
  <2> QED BY <1>4, <2>1, <2>2, EndAdmissionType DEF AdmitFault, TypeOK
<1> QED BY <1>1, <1>2, <1>3, <1>4 DEF Admission

LEMMA TaskMovesType ==
    ASSUME TypeOK, NEW s \in Sandbox, NEW to \in TaskStep, TaskMoves(s, to)
    PROVE  task' \in [Sandbox -> TaskStep] /\ inFlight' \in [Replicas -> SUBSET Sandbox]
    BY DEF TypeOK, TaskMoves

LEMMA DestroyType ==
    ASSUME TypeOK, NEW s \in Sandbox, Destroy(s) \/ DestroyFails(s)
    PROVE  runtime' \in [Sandbox -> RuntimeState]
    BY DEF TypeOK, Destroy, DestroyFails, RuntimeState

LEMMA ProvisioningType ==
    ASSUME TypeOK, NEW s \in Sandbox,
           \/ Provisioning(s) \/ ProvisionFault(s)
           \/ RecordReadyFault(s) \/ RecordFailedFault(s)
    PROVE  TypeOK'
<1> USE DEF TaskStep
<1>1. CASE CreateNetwork(s)
    BY <1>1, TaskMovesType DEF CreateNetwork, TypeOK, RuntimeState
<1>2. CASE CreateContainer(s)
  <2>1. runtime' \in [Sandbox -> RuntimeState]
    BY <1>2 DEF CreateContainer, TypeOK, RuntimeState
  <2> QED BY <1>2, <2>1, TaskMovesType DEF CreateContainer, TypeOK
<1>3. CASE WaitHealthy(s)
    BY <1>3, TaskMovesType DEF WaitHealthy, TypeOK
<1>4. CASE RecordReady(s)
    BY <1>4, TaskMovesType, TransitionType DEF RecordReady, TypeOK, Status
<1>5. CASE RecordFailed(s)
    BY <1>5, TaskMovesType, TransitionType DEF RecordFailed, TypeOK, Status
<1>6. CASE CleanUp(s)
  <2>1. faults' \in 0..MaxFaults
    BY <1>6, FaultType DEF CleanUp, DestroyFails, TypeOK
  <2> QED BY <1>6, <2>1, TaskMovesType, DestroyType DEF CleanUp, TypeOK
<1>7. CASE ProvisionFault(s)
    BY <1>7, TaskMovesType, FaultType DEF ProvisionFault, TypeOK
<1>8. CASE RecordReadyFault(s)
    BY <1>8, TaskMovesType, TransitionType, FaultType DEF RecordReadyFault, TypeOK, Status
<1>9. CASE RecordFailedFault(s)
    BY <1>9, TaskMovesType, FaultType DEF RecordFailedFault, TypeOK
<1> QED BY <1>1, <1>2, <1>3, <1>4, <1>5, <1>6, <1>7, <1>8, <1>9 DEF Provisioning

LEMMA RequestType ==
    ASSUME TypeOK, NEW s \in Sandbox, Heartbeat(s) \/ Release(s)
    PROVE  TypeOK'
<1>1. CASE Heartbeat(s)
    BY <1>1 DEF Heartbeat, TypeOK, Status
<1>2. CASE Release(s)
    BY <1>2, SetStatusType DEF Release, TypeOK, Status
<1> QED BY <1>1, <1>2

LEMMA PlanType ==
    ASSUME NEW s \in Sandbox, NEW step \in Step, NEW from \in Status, NEW why \in Reason
    PROVE  Plan(s, step, from, why) \in Action
    BY DEF Plan, Action

\* Every action that a pass plans has the fields of an action.
LEMMA PlansType ==
    ASSUME TypeOK, NEW r \in Replicas
    PROVE  Orphans(r) \cup LossesOf(r) \cup Expiries(r) \cup TimedOut \cup Teardowns
              \subseteq Action
<1>1. Orphans(r) \subseteq Action
    BY PlanType DEF Orphans, Step, Status, Reason
<1>2. LossesOf(r) \subseteq Action
    BY PlanType DEF LossesOf, Lost, With, Step, Status, Reason
<1>3. Expiries(r) \subseteq Action
  <2>1. \A s \in Sandbox : Expiry(s) \in Reason
    BY DEF Expiry, Reason, Deadline
  <2> QED BY <2>1, PlanType DEF Expiries, With, Step, Status
<1>4. TimedOut \subseteq Action
    BY PlanType DEF TimedOut, With, Step, Status, Reason
<1>5. Teardowns \subseteq Action
    BY PlanType DEF Teardowns, With, Step, Status, Reason
<1> QED BY <1>1, <1>2, <1>3, <1>4, <1>5

LEMMA ThenType ==
    ASSUME NEW a \in Action, NEW step \in Step
    PROVE  Then(a, step) \subseteq Action
<1>1. a.id \in Sandbox /\ a.from \in Status /\ a.why \in Reason
    BY DEF Action
<1>2. Plan(a.id, step, a.from, a.why) \in Action
    BY <1>1, PlanType
<1> QED BY <1>2 DEF Then

LEMMA ProceedType ==
    ASSUME TypeOK, NEW r \in Replicas, NEW a, NEW next \in SUBSET Action, Proceed(r, a, next)
    PROVE  todo' \in [Replicas -> SUBSET Action] /\ doing' \in [Replicas -> SUBSET Action]
    BY DEF TypeOK, Proceed

LEMMA CompareType ==
    ASSUME TypeOK, NEW r \in Replicas, NEW a \in Action, NEW from, NEW to \in Status,
           NEW step \in Step, Compare(r, a, from, to, step)
    PROVE  TypeOK'
<1>1. a.id \in Sandbox
    BY DEF Action
<1>2. (IF status[a.id] = from THEN Then(a, step) ELSE {}) \in SUBSET Action
    BY ThenType
<1>3. todo' \in [Replicas -> SUBSET Action] /\ doing' \in [Replicas -> SUBSET Action]
    BY <1>2, ProceedType DEF Compare
<1>4. /\ status' \in [Sandbox -> Status]
      /\ due' \in [Sandbox -> SUBSET Deadline]
      /\ attempts' \in [Sandbox -> Nat]
    BY <1>1, TransitionType DEF Compare
<1> QED BY <1>3, <1>4 DEF Compare, Proceed, TypeOK

LEMMA ActType ==
    ASSUME TypeOK, NEW r \in Replicas, NEW a \in todo[r] \cup doing[r],
           Act(r, a) \/ ActionFault(r, a)
    PROVE  TypeOK'
<1> USE DEF Status, Step
<1>1. a \in Action /\ a.id \in Sandbox /\ a.from \in Status
    BY DEF TypeOK, Action
<1>2. {} \in SUBSET Action
    OBVIOUS
<1>3. CASE Reap(r, a)
    BY <1>1, <1>2, <1>3, ProceedType, DestroyType DEF Reap, Proceed, TypeOK
<1>4. CASE FailRecord(r, a)
    BY <1>1, <1>4, CompareType DEF FailRecord
<1>5. CASE DestroyFailed(r, a)
    BY <1>1, <1>2, <1>5, ProceedType, DestroyType DEF DestroyFailed, Proceed, TypeOK
<1>6. CASE Expire(r, a)
    BY <1>1, <1>6, CompareType DEF Expire
<1>7. CASE BeginTeardown(r, a)
    BY <1>1, <1>7, CompareType DEF BeginTeardown
<1>8. CASE TeardownDestroy(r, a)
  <2>1. Then(a, "finish") \in SUBSET Action /\ Then(a, "count") \in SUBSET Action
    BY <1>1, ThenType
  <2>2. todo' \in [Replicas -> SUBSET Action] /\ doing' \in [Replicas -> SUBSET Action]
    BY <1>8, <2>1, ProceedType DEF TeardownDestroy
  <2>3. faults' \in 0..MaxFaults /\ runtime' \in [Sandbox -> RuntimeState]
    BY <1>1, <1>8, FaultType, DestroyType DEF TeardownDestroy, DestroyFails, TypeOK
  <2> QED BY <1>8, <2>2, <2>3 DEF TeardownDestroy, Proceed, TypeOK
<1>9. CASE FinishTeardown(r, a)
    BY <1>1, <1>2, <1>9, ProceedType, TransitionType DEF FinishTeardown, Proceed, TypeOK
<1>10. CASE CountDestroyFailure(r, a)
  <2>1. Then(a, "giveup") \in SUBSET Action
    BY <1>1, ThenType
  <2>2. todo' \in [Replicas -> SUBSET Action] /\ doing' \in [Replicas -> SUBSET Action]
    BY <1>2, <1>10, <2>1, ProceedType DEF CountDestroyFailure
  <2>3. attempts[a.id] \in Nat
    BY <1>1 DEF TypeOK
  <2> DEFINE counts == status[a.id] = "DESTROYING"
  <2>4. counts => attempts' = [attempts EXCEPT ![a.id] = attempts[a.id] + 1]
    BY <1>10 DEF CountDestroyFailure
  <2>5. ~counts => attempts' = attempts
    BY <1>10 DEF CountDestroyFailure
  <2> HIDE DEF counts
  <2>6. \/ attempts' = attempts
        \/ attempts' = [attempts EXCEPT ![a.id] = attempts[a.id] + 1]
    BY <2>4, <2>5
  <2>7. attempts' \in [Sandbox -> Nat]
    <3>1. attempts \in [Sandbox -> Nat]
      BY DEF TypeOK
    <3>2. attempts[a.id] + 1 \in Nat
      BY <2>3
    <3> QED BY <2>6, <3>1, <3>2
  <2> QED BY <1>10, <2>2, <2>7 DEF CountDestroyFailure, Proceed, TypeOK
<1>11. CASE GiveUp(r, a)
    BY <1>1, <1>2, <1>11, ProceedType, TransitionType DEF GiveUp, Proceed, TypeOK
<1>12. CASE ActionFault(r, a)
  <2>1. faults' \in 0..MaxFaults /\ runtime' \in [Sandbox -> RuntimeState]
    BY <1>1, <1>12, FaultType, DestroyType DEF ActionFault, DestroyFails, TypeOK
  <2>2. todo' \in [Replicas -> SUBSET Action] /\ doing' \in [Replicas -> SUBSET Action]
    BY <1>2, <1>12, ProceedType DEF ActionFault
  <2> QED BY <1>12, <2>1, <2>2 DEF ActionFault, Proceed, TypeOK
<1> QED BY <1>3, <1>4, <1>5, <1>6, <1>7, <1>8, <1>9, <1>10, <1>11, <1>12 DEF Act

LEMMA PassType ==
    ASSUME TypeOK, NEW r \in Replicas,
           Pass(r) \/ PlanDegraded(r) \/ ListFault(r) \/ Crash(r)
    PROVE  TypeOK'
<1> USE DEF Phase, Unseen, RuntimeState
<1>1. CASE BeginPass(r)
    BY <1>1 DEF BeginPass, TypeOK
<1>2. CASE ListRuntime(r)
    BY <1>2 DEF ListRuntime, TypeOK
<1>3. CASE ReadRecords(r)
  <2>1. todo' \in [Replicas -> SUBSET Action]
    BY <1>3, PlansType DEF ReadRecords, TypeOK
  <2> QED BY <1>3, <2>1 DEF ReadRecords, TypeOK
<1>4. CASE PlanPass(r)
    BY <1>4 DEF PlanPass, TypeOK
<1>5. CASE FinishActions(r)
    BY <1>5 DEF FinishActions, TypeOK, Stage, Callers
<1>6. CASE PlanDegraded(r)
  <2>1. {Plan(s, "reap", "absent", "none") :
              s \in {x \in Sandbox : seen[r][x] # "absent" /\ "max-lifetime" \in due[x]}}
            \subseteq Action
    BY PlanType DEF Step, Status, Reason
  <2> DEFINE plan == {Plan(s, "reap", "absent", "none") :
              s \in {x \in Sandbox : seen[r][x] # "absent" /\ "max-lifetime" \in due[x]}}
  <2>2. todo' = [todo EXCEPT ![r] = plan]
    BY <1>6 DEF PlanDegraded
  <2> HIDE DEF plan
  <2>3. todo' \in [Replicas -> SUBSET Action]
    BY <2>1, <2>2 DEF TypeOK, plan
  <2> QED BY <1>6, <2>3, FaultType DEF PlanDegraded, TypeOK
<1>7. CASE ListFault(r)
    BY <1>7, FaultType DEF ListFault, TypeOK
<1>8. CASE Crash(r)
  <2>1. post' \in [Handlers -> Post] /\ admission' \in [Callers -> Stage]
    BY <1>8 DEF Crash, TypeOK, Post, Stage
  <2>2. free' \in [Callers -> 0..MaxActive] /\ chosen' \in [Callers -> SUBSET Sandbox]
    BY <1>8 DEF Crash, TypeOK
  <2>3. task' \in [Sandbox -> TaskStep] /\ inFlight' \in [Replicas -> SUBSET Sandbox]
    BY <1>8 DEF Crash, TypeOK, TaskStep
  <2>4. /\ phase' \in [Replicas -> Phase]
        /\ judge' \in [Replicas -> SUBSET Sandbox]
        /\ seen' \in [Replicas -> [Sandbox -> RuntimeState]]
        /\ todo' \in [Replicas -> SUBSET Action]
        /\ doing' \in [Replicas -> SUBSET Action]
    BY <1>8 DEF Crash, TypeOK
  <2>5. UNCHANGED <<rowVars, runtime>> /\ faults' \in 0..MaxFaults
    BY <1>8, FaultType DEF Crash
  <2> QED BY <2>1, <2>2, <2>3, <2>4, <2>5 DEF TypeOK
<1>9. CASE \E a \in todo[r] \cup doing[r] : Act(r, a)
    BY <1>9, ActType
<1> QED BY <1>1, <1>2, <1>3, <1>4, <1>5, <1>6, <1>7, <1>8, <1>9 DEF Pass

LEMMA EnvironmentType ==
    ASSUME TypeOK, NEW s \in Sandbox, ContainerDies(s) \/ \E d \in Deadline : Elapse(s, d)
    PROVE  TypeOK'
<1>1. CASE ContainerDies(s)
    BY <1>1, FaultType DEF ContainerDies, TypeOK, RuntimeState
<1>2. CASE \E d \in Deadline : Elapse(s, d)
    BY <1>2 DEF Elapse, TypeOK
<1> QED BY <1>1, <1>2

LEMMA TypeInit == Init => TypeOK
    BY DEF Init, TypeOK, Status, Unseen, RuntimeState, TaskStep, Stage, Post, Phase

LEMMA TypeNext == TypeOK /\ [Next]_vars => TypeOK'
<1> SUFFICES ASSUME TypeOK, [Next]_vars PROVE TypeOK'
    OBVIOUS
<1>1. CASE Posting
    BY <1>1, PostingType
<1>2. CASE \E c \in Callers : Admission(c)
    BY <1>2, AdmissionType
<1>3. CASE \E s \in Sandbox : Provisioning(s) \/ Heartbeat(s) \/ Release(s)
    BY <1>3, ProvisioningType, RequestType
<1>4. CASE \E r \in Replicas : Pass(r)
    BY <1>4, PassType
<1>5. CASE \E s \in Sandbox, d \in Deadline : Elapse(s, d)
    BY <1>5, EnvironmentType
<1>6. CASE Faults
    BY <1>6, AdmissionType, ProvisioningType, PassType, ActType, EnvironmentType DEF Faults
<1>7. CASE UNCHANGED vars
    BY <1>7 DEF vars, TypeOK
<1> QED BY <1>1, <1>2, <1>3, <1>4, <1>5, <1>6, <1>7 DEF Next

\* Every variable of the manager keeps its type, whatever the requests, the
\* replicas and the faults: in particular the slots an admission counted
\* (pg-store.ts, admit) are never negative and never more than the limit.
THEOREM TypeCorrectness == Spec => []TypeOK
<1> QED BY TypeInit, TypeNext, PTL DEF Spec

-----------------------------------------------------------------------------
(***************************************************************************)
(* The state machine of a row                                              *)
(*                                                                         *)
(* The loop compares-and-sets from the status it planned with, so what it  *)
(* plans must start a transition that exists.                              *)
(***************************************************************************)

LegalAction(a) ==
    /\ a.step = "expire" => a.from \in {"READY", "ACTIVE"}
    /\ a.step = "fail" => a.from \in {"PROVISIONING", "READY", "ACTIVE"}

PlansLegal == \A r \in Replicas : \A a \in todo[r] \cup doing[r] : LegalAction(a)

LEMMA PlanFields ==
    ASSUME NEW s, NEW step, NEW from, NEW why
    PROVE  /\ Plan(s, step, from, why).step = step
           /\ Plan(s, step, from, why).from = from
    BY DEF Plan

LEMMA PlannedLegal ==
    ASSUME TypeOK, NEW r \in Replicas,
           NEW a \in Orphans(r) \cup LossesOf(r) \cup Expiries(r) \cup TimedOut \cup Teardowns
    PROVE  LegalAction(a)
<1>1. CASE a \in Orphans(r)
    BY <1>1, PlanFields DEF Orphans, LegalAction
<1>2. CASE a \in LossesOf(r)
    BY <1>2, PlanFields DEF LossesOf, Lost, With, LegalAction
<1>3. CASE a \in Expiries(r)
    BY <1>3, PlanFields DEF Expiries, With, LegalAction
<1>4. CASE a \in TimedOut
    BY <1>4, PlanFields DEF TimedOut, LegalAction
<1>5. CASE a \in Teardowns
    BY <1>5, PlanFields DEF Teardowns, LegalAction
<1> QED BY <1>1, <1>2, <1>3, <1>4, <1>5

\* An action of a plan goes on only to steps that may follow it.
LEMMA ProceedLegal ==
    ASSUME TypeOK, PlansLegal, NEW r \in Replicas, NEW a, NEW next,
           Proceed(r, a, next), \A b \in next : LegalAction(b)
    PROVE  PlansLegal'
    BY DEF TypeOK, PlansLegal, Proceed, LegalAction

LEMMA ThenLegal ==
    ASSUME NEW a, NEW step \in {"begin", "clean", "destroy", "finish", "count", "giveup"}
    PROVE  \A b \in Then(a, step) : LegalAction(b)
    BY PlanFields DEF Then, LegalAction

LEMMA ActLegal ==
    ASSUME TypeOK, PlansLegal, NEW r \in Replicas, NEW a, Act(r, a) \/ ActionFault(r, a)
    PROVE  PlansLegal'
<1>1. PICK next : Proceed(r, a, next) /\ \A b \in next : LegalAction(b)
  <2>1. \A b \in {} : LegalAction(b)
    OBVIOUS
  <2>2. CASE Reap(r, a) \/ DestroyFailed(r, a) \/ FinishTeardown(r, a) \/ GiveUp(r, a)
             \/ ActionFault(r, a)
    BY <2>1, <2>2 DEF Reap, DestroyFailed, FinishTeardown, GiveUp, ActionFault
  <2>3. CASE FailRecord(r, a)
    BY <2>1, <2>3, ThenLegal DEF FailRecord, Compare
  <2>4. CASE Expire(r, a)
    BY <2>1, <2>4, ThenLegal DEF Expire, Compare
  <2>5. CASE BeginTeardown(r, a)
    BY <2>1, <2>5, ThenLegal DEF BeginTeardown, Compare
  <2>6. CASE TeardownDestroy(r, a)
    BY <2>6, ThenLegal DEF TeardownDestroy
  <2>7. CASE CountDestroyFailure(r, a)
    BY <2>1, <2>7, ThenLegal DEF CountDestroyFailure
  <2> QED BY <2>2, <2>3, <2>4, <2>5, <2>6, <2>7 DEF Act
<1> QED BY <1>1, ProceedLegal

LEMMA PlansLegalNext == TypeOK /\ PlansLegal /\ [Next]_vars => PlansLegal'
<1> SUFFICES ASSUME TypeOK, PlansLegal, [Next]_vars PROVE PlansLegal'
    OBVIOUS
<1>1. CASE UNCHANGED <<todo, doing>>
    BY <1>1 DEF PlansLegal, LegalAction
<1>2. ASSUME NEW r \in Replicas, ReadRecords(r) PROVE PlansLegal'
    BY <1>2, PlannedLegal DEF ReadRecords, PlansLegal, TypeOK, LegalAction
<1>3. ASSUME NEW r \in Replicas, PlanPass(r) PROVE PlansLegal'
    BY <1>3 DEF PlanPass, PlansLegal, TypeOK, LegalAction
<1>4. ASSUME NEW r \in Replicas, PlanDegraded(r) PROVE PlansLegal'
    BY <1>4, PlanFields DEF PlanDegraded, PlansLegal, TypeOK, LegalAction
<1>5. ASSUME NEW r \in Replicas, Crash(r) PROVE PlansLegal'
    BY <1>5 DEF Crash, PlansLegal, TypeOK, LegalAction
<1>6. ASSUME NEW r \in Replicas, NEW a, Act(r, a) \/ ActionFault(r, a) PROVE PlansLegal'
    BY <1>6, ActLegal
<1>7. \/ UNCHANGED <<todo, doing>>
      \/ \E r \in Replicas : ReadRecords(r) \/ PlanPass(r) \/ PlanDegraded(r) \/ Crash(r)
      \/ \E r \in Replicas : \E a : Act(r, a) \/ ActionFault(r, a)
  <2>1. CASE Posting
    BY <2>1 DEF Posting, PostCheck, PostCreate
  <2>2. CASE \E c \in Callers : Admission(c)
    BY <2>2 DEF Admission, AdmitCount, AdmitSelect, AdmitCommit
  <2>3. CASE \E s \in Sandbox : Provisioning(s) \/ Heartbeat(s) \/ Release(s)
    BY <2>3 DEF Provisioning, CreateNetwork, CreateContainer, WaitHealthy, RecordReady,
                RecordFailed, CleanUp, Heartbeat, Release
  <2>4. CASE \E r \in Replicas : Pass(r)
    BY <2>4 DEF Pass, BeginPass, ListRuntime, FinishActions
  <2>5. CASE \E s \in Sandbox, d \in Deadline : Elapse(s, d)
    BY <2>5 DEF Elapse
  <2>6. CASE Faults
    BY <2>6 DEF Faults, AdmitFault, ProvisionFault, RecordReadyFault, RecordFailedFault,
                ContainerDies, ListFault
  <2>7. CASE UNCHANGED vars
    BY <2>7 DEF vars
  <2> QED BY <2>1, <2>2, <2>3, <2>4, <2>5, <2>6, <2>7 DEF Next
<1> QED BY <1>1, <1>2, <1>3, <1>4, <1>5, <1>6, <1>7

\* At most one row moves, as the state machine allows, and not by a promotion.
RowStep ==
    \/ status' = status
    \/ \E s \in Sandbox : \E to \in Transitions[status[s]] \ {"PROVISIONING"} :
          status' = [status EXCEPT ![s] = to]

\* The promotion that a transaction commits.
Promotion(c) ==
    admission[c] = "selected" /\ chosen[c] \subseteq Pending /\ Promote(c) /\ EndAdmission(c)

LEMMA SetStatusRowStep ==
    ASSUME TypeOK, NEW s \in Sandbox, NEW to, SetStatus(s, to),
           to \in Transitions[status[s]], to # "PROVISIONING"
    PROVE  RowStep
    BY DEF TypeOK, SetStatus, RowStep

LEMMA TransitionRowStep ==
    ASSUME TypeOK, NEW s \in Sandbox, NEW from, NEW to, Transition(s, from, to),
           to \in Transitions[from], to # "PROVISIONING"
    PROVE  RowStep
<1>1. CASE status[s] = from
    BY <1>1, SetStatusRowStep DEF Transition
<1>2. CASE status[s] # from
    BY <1>2 DEF Transition, RowStep
<1> QED BY <1>1, <1>2

LEMMA ActRowStep ==
    ASSUME TypeOK, PlansLegal, NEW r \in Replicas, NEW a \in todo[r] \cup doing[r],
           Act(r, a) \/ ActionFault(r, a)
    PROVE  RowStep
<1>1. a.id \in Sandbox /\ LegalAction(a)
    BY DEF TypeOK, PlansLegal, Action
<1>2. CASE UNCHANGED status
    BY <1>2 DEF RowStep
<1>3. CASE FailRecord(r, a)
  <2>1. "FAILED" \in Transitions[a.from]
    BY <1>1, <1>3 DEF FailRecord, LegalAction, Transitions
  <2> QED BY <1>1, <1>3, <2>1, TransitionRowStep DEF FailRecord, Compare
<1>4. CASE Expire(r, a)
  <2>1. "EXPIRING" \in Transitions[a.from]
    BY <1>1, <1>4 DEF Expire, LegalAction, Transitions
  <2> QED BY <1>1, <1>4, <2>1, TransitionRowStep DEF Expire, Compare
<1>5. CASE BeginTeardown(r, a)
    BY <1>1, <1>5, TransitionRowStep DEF BeginTeardown, Compare, Transitions
<1>6. CASE FinishTeardown(r, a)
    BY <1>1, <1>6, TransitionRowStep DEF FinishTeardown, Transitions
<1>7. CASE GiveUp(r, a)
    BY <1>1, <1>7, TransitionRowStep DEF GiveUp, Transitions
<1>8. CASE Reap(r, a) \/ DestroyFailed(r, a) \/ TeardownDestroy(r, a)
             \/ CountDestroyFailure(r, a) \/ ActionFault(r, a)
    BY <1>2, <1>8 DEF Reap, DestroyFailed, TeardownDestroy, CountDestroyFailure, ActionFault
<1> QED BY <1>3, <1>4, <1>5, <1>6, <1>7, <1>8 DEF Act

LEMMA ProvisioningRowStep ==
    ASSUME TypeOK, NEW s \in Sandbox,
           \/ Provisioning(s) \/ ProvisionFault(s)
           \/ RecordReadyFault(s) \/ RecordFailedFault(s)
    PROVE  RowStep
<1>1. CASE UNCHANGED status
    BY <1>1 DEF RowStep
<1>2. CASE RecordReady(s) \/ RecordReadyFault(s)
    BY <1>1, <1>2, TransitionRowStep DEF RecordReady, RecordReadyFault, Transitions
<1>3. CASE RecordFailed(s)
    BY <1>3, TransitionRowStep DEF RecordFailed, Transitions
<1>4. CASE CreateNetwork(s) \/ CreateContainer(s) \/ WaitHealthy(s) \/ CleanUp(s)
             \/ ProvisionFault(s) \/ RecordFailedFault(s)
    BY <1>1, <1>4 DEF CreateNetwork, CreateContainer, WaitHealthy, CleanUp, ProvisionFault,
                      RecordFailedFault
<1> QED BY <1>2, <1>3, <1>4 DEF Provisioning

LEMMA RequestRowStep ==
    ASSUME TypeOK, NEW s \in Sandbox, Heartbeat(s) \/ Release(s)
    PROVE  RowStep
<1>1. CASE Heartbeat(s)
  <2>1. CASE status[s] = "READY"
    <3>1. "ACTIVE" \in Transitions[status[s]] \ {"PROVISIONING"}
        BY <2>1 DEF Transitions
    <3>2. status' = [status EXCEPT ![s] = "ACTIVE"]
        BY <1>1 DEF Heartbeat
    <3> QED BY <3>1, <3>2 DEF RowStep
  <2>2. CASE status[s] = "ACTIVE"
    BY <1>1, <2>2 DEF Heartbeat, TypeOK, RowStep
  <2> QED BY <1>1, <2>1, <2>2 DEF Heartbeat
<1>2. CASE Release(s)
  <2> DEFINE to == IF status[s] = "PENDING" THEN "DESTROYED" ELSE "EXPIRING"
  <2>1. to \in Transitions[status[s]] /\ to # "PROVISIONING"
    BY <1>2 DEF Release, Releasable, Transitions
  <2>2. SetStatus(s, to)
    BY <1>2 DEF Release
  <2> HIDE DEF to
  <2> QED BY <2>1, <2>2, SetStatusRowStep
<1> QED BY <1>1, <1>2

LEMMA RowNext ==
    ASSUME TypeOK, PlansLegal, [Next]_vars
    PROVE  RowStep \/ \E c \in Callers : Promotion(c)
<1>1. CASE UNCHANGED status
    BY <1>1 DEF RowStep
<1>2. CASE Posting
  <2>1. PICK h \in Handlers : PostCreate(h) \/ \E r \in Replicas, s \in Sandbox : PostCheck(h, r, s)
    BY <1>2 DEF Posting
  <2>2. CASE PostCreate(h)
    <3>1. post[h].req \in Sandbox
        BY <2>2 DEF PostCreate, TypeOK, Post, IdlePost
    <3> QED BY <1>1, <2>2, <3>1, SetStatusRowStep DEF PostCreate, Transitions
  <2> QED BY <1>1, <2>1, <2>2 DEF PostCheck
<1>3. CASE \E c \in Callers : Admission(c)
    BY <1>1, <1>3 DEF Admission, AdmitCount, AdmitSelect, AdmitCommit, Promotion
<1>4. CASE \E s \in Sandbox : Provisioning(s) \/ Heartbeat(s) \/ Release(s)
    BY <1>4, ProvisioningRowStep, RequestRowStep
<1>5. CASE \E r \in Replicas : Pass(r)
    BY <1>1, <1>5, ActRowStep DEF Pass, BeginPass, ListRuntime, ReadRecords, PlanPass,
                                  FinishActions
<1>6. CASE \E s \in Sandbox, d \in Deadline : Elapse(s, d)
    BY <1>1, <1>6 DEF Elapse
<1>7. CASE Faults
  <2>1. CASE \E c \in Callers : AdmitFault(c)
    BY <1>1, <2>1 DEF AdmitFault, Promotion
  <2>2. CASE \E s \in Sandbox : ContainerDies(s)
    BY <1>1, <2>2 DEF ContainerDies
  <2>3. CASE \E r \in Replicas : PlanDegraded(r) \/ ListFault(r) \/ Crash(r)
    BY <1>1, <2>3 DEF PlanDegraded, ListFault, Crash
  <2> QED BY <1>7, <2>1, <2>2, <2>3, ProvisioningRowStep, ActRowStep DEF Faults
<1>8. CASE UNCHANGED vars
    BY <1>1, <1>8 DEF vars
<1> QED BY <1>2, <1>3, <1>4, <1>5, <1>6, <1>7, <1>8 DEF Next

LEMMA LegalNext ==
    ASSUME TypeOK, PlansLegal, [Next]_vars
    PROVE  \A s \in Sandbox : status'[s] # status[s] => status'[s] \in Transitions[status[s]]
<1>1. ASSUME NEW c \in Callers, Promotion(c), NEW s \in Sandbox, status'[s] # status[s]
      PROVE  status'[s] \in Transitions[status[s]]
  <2>1. s \in chosen[c] /\ status'[s] = "PROVISIONING"
    BY <1>1 DEF Promotion, Promote
  <2>2. status[s] = "PENDING"
    BY <1>1, <2>1 DEF Promotion, Pending, With
  <2> QED BY <2>1, <2>2 DEF Transitions
<1>2. CASE RowStep
    BY <1>2 DEF RowStep, TypeOK
<1> QED BY <1>1, <1>2, RowNext

\* A row moves only along the state machine of domain/state-machine.ts, and so
\* never out of DESTROYED or FAILED, whichever of admission, provisioning,
\* requests and loops of all the replicas moves it.
THEOREM RowsMoveLegally == Spec => LegalTransitions
<1>1. Init => PlansLegal
    BY DEF Init, PlansLegal
<1>2. TypeOK /\ PlansLegal /\ [Next]_vars =>
        [\A s \in Sandbox :
            status'[s] # status[s] => status'[s] \in Transitions[status[s]]]_vars
    BY LegalNext
<1> QED BY <1>1, <1>2, TypeCorrectness, PlansLegalNext, PTL DEF Spec, LegalTransitions

-----------------------------------------------------------------------------
(***************************************************************************)
(* The slot limit                                                          *)
(*                                                                         *)
(* SlotLimit is not inductive: it does not say that the slots an admission *)
(* has counted are still free when it promotes.  They are, because only    *)
(* the holder of the advisory lock promotes, and everyone else can only    *)
(* free slots.                                                             *)
(***************************************************************************)

Past(c) == admission[c] \in {"counted", "selected"}

\* One transaction at a time is past the lock.
LockHeld == \A c, d \in Callers : Past(c) /\ Past(d) => c = d

\* What it counted is free, and it promotes no more than that.
SlotsReserved ==
    \A c \in Callers : Past(c) =>
        /\ Cardinality(Held) + free[c] <= MaxActive
        /\ admission[c] = "selected" => Cardinality(chosen[c]) <= free[c]

SlotInv == TypeOK /\ LockHeld /\ SlotsReserved /\ SlotLimit

\* Sets of sandboxes are finite.
LEMMA SandboxesFinite ==
    ASSUME NEW S, S \subseteq Sandbox
    PROVE  IsFiniteSet(S) /\ Cardinality(S) \in Nat
    BY FS_Subset, FS_CardinalityType

LEMMA FewerHeld ==
    ASSUME Held' \subseteq Held
    PROVE  Cardinality(Held') \in Nat /\ Cardinality(Held) \in Nat
           /\ Cardinality(Held') <= Cardinality(Held)
<1>1. Held \subseteq Sandbox /\ Held' \subseteq Sandbox
    BY DEF Held, With
<1> QED BY <1>1, SandboxesFinite, FS_Subset

\* A step that promotes nobody, and in which every transaction past the lock
\* stays as it is or ends, keeps the invariant.
LEMMA SlotsOnlyFreed ==
    ASSUME SlotInv, TypeOK', Held' \subseteq Held,
           \A c \in Callers : Past(c)' =>
              admission'[c] = admission[c] /\ free'[c] = free[c] /\ chosen'[c] = chosen[c]
    PROVE  SlotInv'
<1>1. \A c \in Callers : Past(c)' => Past(c)
    BY DEF Past
<1>2. LockHeld'
    BY <1>1 DEF SlotInv, LockHeld
<1>3. SlotLimit'
    BY FewerHeld DEF SlotInv, SlotLimit
<1>4. SlotsReserved'
  <2> SUFFICES ASSUME NEW c \in Callers, Past(c)'
               PROVE  /\ Cardinality(Held') + free'[c] <= MaxActive
                      /\ admission'[c] = "selected" => Cardinality(chosen'[c]) <= free'[c]
    BY DEF SlotsReserved
  <2>1. /\ Cardinality(Held) + free[c] <= MaxActive
        /\ admission[c] = "selected" => Cardinality(chosen[c]) <= free[c]
    BY <1>1 DEF SlotInv, SlotsReserved
  <2>2. free[c] \in Nat
    BY DEF SlotInv, TypeOK
  <2> QED BY <2>1, <2>2, FewerHeld
<1> QED BY <1>2, <1>3, <1>4 DEF SlotInv

\* Promotion takes no more slots than the transaction counted.
LEMMA PromoteSlots ==
    ASSUME SlotInv, NEW c \in Callers, admission[c] = "selected", Promote(c)
    PROVE  Cardinality(Held') <= MaxActive
<1>1. Held' \subseteq Held \cup chosen[c] /\ Held \subseteq Sandbox
      /\ chosen[c] \subseteq Sandbox
    BY DEF SlotInv, TypeOK, Promote, Held, With, SlotStatuses
<1>2. IsFiniteSet(Held) /\ IsFiniteSet(chosen[c]) /\ IsFiniteSet(Held \cup chosen[c])
    BY <1>1, SandboxesFinite
<1>3. /\ Cardinality(Held') \in Nat /\ Cardinality(Held) \in Nat
      /\ Cardinality(chosen[c]) \in Nat
      /\ Cardinality(Held') <= Cardinality(Held \cup chosen[c])
    BY <1>1, <1>2, FS_Subset, FS_CardinalityType
<1>4. /\ Cardinality(Held \cup chosen[c]) \in Nat
      /\ Cardinality(Held \cup chosen[c]) <= Cardinality(Held) + Cardinality(chosen[c])
  <2>1. /\ Cardinality(Held \cup chosen[c])
              = Cardinality(Held) + Cardinality(chosen[c]) - Cardinality(Held \cap chosen[c])
    BY <1>2, FS_Union
  <2>2. Cardinality(Held \cap chosen[c]) \in Nat
    BY <1>1, SandboxesFinite
  <2> QED BY <1>2, <1>3, <2>1, <2>2, FS_CardinalityType
<1>5. /\ Cardinality(Held) + free[c] <= MaxActive
      /\ Cardinality(chosen[c]) <= free[c]
      /\ free[c] \in Nat
    BY DEF SlotInv, SlotsReserved, Past, TypeOK
<1> QED BY <1>3, <1>4, <1>5

LEMMA RowStepFrees ==
    ASSUME TypeOK, RowStep
    PROVE  Held' \subseteq Held
<1> SUFFICES ASSUME NEW s \in Sandbox, status'[s] \in SlotStatuses
             PROVE  status[s] \in SlotStatuses
    BY DEF Held, With
<1>1. CASE status'[s] = status[s]
    BY <1>1
<1>2. CASE status'[s] # status[s]
  <2>1. status'[s] \in Transitions[status[s]] /\ status'[s] # "PROVISIONING"
    BY <1>2 DEF RowStep, TypeOK
  <2>2. status[s] \in SlotStatuses \cup {"absent", "PENDING", "DESTROYED", "FAILED"}
    BY DEF TypeOK, Status, SlotStatuses
  <2>3. Transitions["absent"] \cap SlotStatuses = {}
    BY DEF Transitions, SlotStatuses
  <2>4. Transitions["PENDING"] \cap SlotStatuses = {"PROVISIONING"}
    BY DEF Transitions, SlotStatuses
  <2>5. Transitions["DESTROYED"] = {} /\ Transitions["FAILED"] = {}
    BY DEF Transitions
  <2> QED BY <2>1, <2>2, <2>3, <2>4, <2>5
<1> QED BY <1>1, <1>2

\* An admission that counts, selects, or ends; nobody else's changes with it.
LEMMA AdmissionNext ==
    ASSUME TypeOK, [Next]_vars
    PROVE  \/ \E c \in Callers : AdmitCount(c) /\ admission'[c] = "counted"
           \/ \E c \in Callers : AdmitSelect(c)
           \/ \A c \in Callers : Past(c)' =>
                  admission'[c] = admission[c] /\ free'[c] = free[c] /\ chosen'[c] = chosen[c]
<1>1. CASE UNCHANGED admitVars
    BY <1>1
<1>2. ASSUME NEW c \in Callers, EndAdmission(c)
      PROVE  \A d \in Callers : Past(d)' =>
                admission'[d] = admission[d] /\ free'[d] = free[d] /\ chosen'[d] = chosen[d]
    BY <1>2 DEF EndAdmission, TypeOK, Past
<1>3. CASE \E c \in Callers : Admission(c) \/ AdmitFault(c)
  <2>1. PICK c \in Callers : Admission(c) \/ AdmitFault(c)
    BY <1>3
  <2>2. CASE AdmitCount(c)
    BY <1>2, <2>2 DEF AdmitCount, TypeOK
  <2>3. CASE AdmitCommit(c) \/ AdmitFault(c)
    BY <1>2, <2>3 DEF AdmitCommit, AdmitFault
  <2> QED BY <2>1, <2>2, <2>3 DEF Admission
<1>4. CASE Posting
    BY <1>1, <1>4 DEF Posting, PostCheck, PostCreate, TypeOK, Past
<1>5. CASE \E r \in Replicas : FinishActions(r)
    BY <1>1, <1>5 DEF FinishActions, TypeOK, Past
<1>6. CASE \E r \in Replicas : Crash(r)
    BY <1>6 DEF Crash, TypeOK, Past
<1>7. CASE \E s \in Sandbox :
              \/ Provisioning(s) \/ Heartbeat(s) \/ Release(s) \/ ProvisionFault(s)
              \/ RecordReadyFault(s) \/ RecordFailedFault(s) \/ ContainerDies(s)
              \/ \E d \in Deadline : Elapse(s, d)
    BY <1>1, <1>7 DEF Provisioning, CreateNetwork, CreateContainer, WaitHealthy, RecordReady,
        RecordFailed, CleanUp, Heartbeat, Release, ProvisionFault, RecordReadyFault,
        RecordFailedFault, ContainerDies, Elapse
<1>8. CASE \E r \in Replicas : \/ BeginPass(r) \/ ListRuntime(r) \/ ReadRecords(r)
                               \/ PlanPass(r) \/ PlanDegraded(r) \/ ListFault(r)
    BY <1>1, <1>8 DEF BeginPass, ListRuntime, ReadRecords, PlanPass, PlanDegraded, ListFault
<1>9. CASE \E r \in Replicas : \E a : Act(r, a) \/ ActionFault(r, a)
    BY <1>1, <1>9 DEF Act, Reap, FailRecord, DestroyFailed, Expire, BeginTeardown, Compare,
        TeardownDestroy, FinishTeardown, CountDestroyFailure, GiveUp, ActionFault, Proceed
<1>10. CASE UNCHANGED vars
    BY <1>1, <1>10 DEF vars
<1> QED BY <1>3, <1>4, <1>5, <1>6, <1>7, <1>8, <1>9, <1>10 DEF Next, Pass, Faults

LEMMA SlotNext == SlotInv /\ PlansLegal /\ [Next]_vars => SlotInv'
<1> SUFFICES ASSUME SlotInv, PlansLegal, [Next]_vars PROVE SlotInv'
    OBVIOUS
<1>1. TypeOK /\ TypeOK'
    BY TypeNext DEF SlotInv
<1>2. ASSUME NEW c \in Callers, AdmitCount(c), admission'[c] = "counted"
      PROVE  SlotInv'
  <2>1. \A d \in Callers : Past(d)' => d = c
    <3>1. \A d \in Callers : ~Past(d)
      BY <1>2 DEF AdmitCount, AdmissionLockFree, Past
    <3>2. \A d \in Callers \ {c} : admission'[d] = admission[d]
      <4>1. \E e : admission' = [admission EXCEPT ![c] = e]
        BY <1>2 DEF AdmitCount, EndAdmission
      <4>2. admission = [d \in Callers |-> admission[d]]
        BY <1>1 DEF TypeOK
      <4> QED BY <4>1, <4>2
    <3> QED BY <3>1, <3>2 DEF Past
  <2>2. free'[c] = MaxActive - Cardinality(Held) /\ Held' = Held
    BY <1>1, <1>2 DEF AdmitCount, EndAdmission, TypeOK, Held, With
  <2>3. Cardinality(Held) \in Nat
    BY SandboxesFinite DEF Held, With
  <2>4. SlotsReserved'
    BY <1>2, <2>1, <2>2, <2>3 DEF SlotsReserved
  <2> QED BY <1>1, <2>1, <2>2, <2>4 DEF SlotInv, LockHeld, SlotLimit
<1>3. ASSUME NEW c \in Callers, AdmitSelect(c)
      PROVE  SlotInv'
  <2>1. \A d \in Callers : Past(d)' => Past(d)
    BY <1>1, <1>3 DEF AdmitSelect, Past, TypeOK
  <2>2. Past(c) /\ \A d \in Callers : Past(d) => d = c
    BY <1>3 DEF AdmitSelect, Past, SlotInv, LockHeld
  <2>3. Held' = Held /\ free' = free /\ Cardinality(chosen'[c]) <= free[c]
    BY <1>1, <1>3 DEF AdmitSelect, TypeOK, Held, With
  <2>4. SlotsReserved'
    BY <2>1, <2>2, <2>3 DEF SlotInv, SlotsReserved
  <2> QED BY <1>1, <2>1, <2>3, <2>4 DEF SlotInv, LockHeld, SlotLimit
<1>4. ASSUME \A c \in Callers : Past(c)' =>
                admission'[c] = admission[c] /\ free'[c] = free[c] /\ chosen'[c] = chosen[c]
      PROVE  SlotInv'
  <2>1. CASE RowStep
    BY <1>1, <1>4, <2>1, RowStepFrees, SlotsOnlyFreed
  <2>2. ASSUME NEW c \in Callers, Promotion(c)
        PROVE  SlotInv'
    <3>1. \A d \in Callers : ~Past(d)'
        BY <1>1, <1>4, <2>2 DEF Promotion, EndAdmission, Past, SlotInv, LockHeld, TypeOK
    <3>2. SlotLimit'
        BY <2>2, PromoteSlots DEF Promotion, SlotLimit
    <3> QED BY <1>1, <3>1, <3>2 DEF SlotInv, LockHeld, SlotsReserved
  <2> QED BY <1>1, <2>1, <2>2, RowNext
<1> QED BY <1>1, <1>2, <1>3, <1>4, AdmissionNext

LEMMA SlotInit == Init => SlotInv /\ PlansLegal
<1> SUFFICES ASSUME Init PROVE SlotInv /\ PlansLegal
    OBVIOUS
<1>1. TypeOK
    BY TypeInit
<1>2. LockHeld /\ SlotsReserved /\ PlansLegal
    BY DEF Init, LockHeld, SlotsReserved, Past, PlansLegal
<1>3. SlotLimit
  <2>1. Held = {}
    BY DEF Init, Held, With, SlotStatuses
  <2> QED BY <2>1, FS_EmptySet DEF SlotLimit
<1> QED BY <1>1, <1>2, <1>3 DEF SlotInv

\* No more than MAX_ACTIVE_SANDBOXES records hold a slot, however many
\* replicas and requests admit at once and wherever one of them stops
\* (pg-store.ts, admit: the advisory lock, the count, the promotion).
THEOREM SlotsAreLimited == Spec => []SlotLimit
<1>1. TypeOK /\ PlansLegal /\ [Next]_vars => PlansLegal'
    BY PlansLegalNext
<1>2. SlotInv => TypeOK /\ SlotLimit
    BY DEF SlotInv
<1> QED BY <1>1, <1>2, SlotInit, SlotNext, PTL DEF Spec

-----------------------------------------------------------------------------
(***************************************************************************)
(* The queue                                                               *)
(*                                                                         *)
(* QueueBound counts what is queued; a request that has looked at the      *)
(* length and not inserted its row yet will be, so it has to count too.    *)
(***************************************************************************)

Checked == {h \in Handlers : post[h].pc = "checked"}

\* Counting the requests that are about to insert, the queue keeps its bound.
QueueRoom == Cardinality(Pending) + Cardinality(Checked) < MaxQueue + Cardinality(Handlers)

LEMMA QueueSets ==
    /\ IsFiniteSet(Pending) /\ Cardinality(Pending) \in Nat
    /\ IsFiniteSet(Checked) /\ Cardinality(Checked) \in Nat
    /\ IsFiniteSet(Handlers) /\ Cardinality(Handlers) \in Nat
    /\ Cardinality(Checked) <= Cardinality(Handlers)
    /\ IsFiniteSet(Pending') /\ Cardinality(Pending') \in Nat
    /\ IsFiniteSet(Checked') /\ Cardinality(Checked') \in Nat
    /\ Cardinality(Checked') <= Cardinality(Handlers)
<1>1. /\ Pending \subseteq Sandbox /\ Pending' \subseteq Sandbox
      /\ Checked \subseteq Handlers /\ Checked' \subseteq Handlers
    BY DEF Pending, With, Checked
<1> QED BY <1>1, SandboxesFinite, FS_Subset, FS_CardinalityType

\* A step that adds nothing to either keeps the room.
LEMMA QueueNotLonger ==
    ASSUME QueueRoom, Pending' \subseteq Pending, Checked' \subseteq Checked
    PROVE  QueueRoom'
<1>1. /\ Cardinality(Pending') <= Cardinality(Pending)
      /\ Cardinality(Checked') <= Cardinality(Checked)
    BY QueueSets, FS_Subset
<1> QED BY <1>1, QueueSets DEF QueueRoom

LEMMA SetStatusQueue ==
    ASSUME TypeOK, NEW s, NEW to, to # "PENDING", SetStatus(s, to)
    PROVE  Pending' \subseteq Pending
    BY DEF TypeOK, SetStatus, Pending, With

LEMMA TransitionQueue ==
    ASSUME TypeOK, NEW s, NEW from, NEW to, to # "PENDING", Transition(s, from, to)
    PROVE  Pending' \subseteq Pending
    BY SetStatusQueue DEF Transition, Pending, With

LEMMA PostCheckRoom ==
    ASSUME TypeOK, QueueRoom, NEW h \in Handlers, NEW r \in Replicas, NEW s \in Sandbox,
           PostCheck(h, r, s)
    PROVE  QueueRoom'
<1>1. Pending' = Pending /\ Cardinality(Pending) < MaxQueue
    BY DEF PostCheck, Pending, With
<1> QED BY <1>1, QueueSets DEF QueueRoom

LEMMA PostCreateRoom ==
    ASSUME TypeOK, QueueRoom, NEW h \in Handlers, PostCreate(h)
    PROVE  QueueRoom'
<1> DEFINE s == post[h].req
<1>1. s \in Sandbox /\ h \in Checked
    BY DEF PostCreate, TypeOK, Post, IdlePost, Checked
<1>2. Checked' \subseteq Checked \ {h}
    BY DEF PostCreate, TypeOK, Checked, IdlePost
<1>3. Pending' \subseteq Pending \cup {s}
    BY <1>1 DEF PostCreate, SetStatus, TypeOK, Pending, With
<1>4. Cardinality(Checked') <= Cardinality(Checked) - 1
  <2>1. IsFiniteSet(Checked \ {h}) /\ Cardinality(Checked \ {h}) = Cardinality(Checked) - 1
    BY <1>1, QueueSets, FS_RemoveElement
  <2> QED BY <1>2, <2>1, FS_Subset
<1>5. Cardinality(Pending') <= Cardinality(Pending) + 1
  <2>1. /\ IsFiniteSet(Pending \cup {s})
        /\ Cardinality(Pending \cup {s}) <= Cardinality(Pending) + 1
    <3>1. IsFiniteSet(Pending) /\ Cardinality(Pending) \in Nat
        BY QueueSets
    <3> HIDE DEF s
    <3>2. IsFiniteSet(Pending \cup {s})
        BY <3>1, FS_AddElement
    <3>3. CASE s \in Pending
      <4>1. Pending \cup {s} = Pending
        BY <3>3
      <4> QED BY <3>1, <4>1
    <3>4. CASE s \notin Pending
      <4>1. Cardinality(Pending \cup {s}) = Cardinality(Pending) + 1
        BY <3>1, <3>4, FS_AddElement, Zenon
      <4> QED BY <3>1, <3>2, <4>1
    <3> QED BY <3>3, <3>4
  <2>2. Cardinality(Pending') <= Cardinality(Pending \cup {s})
    BY <1>3, <2>1, FS_Subset
  <2>3. Cardinality(Pending \cup {s}) \in Nat
    BY <2>1, FS_CardinalityType
  <2> QED BY <2>1, <2>2, <2>3, QueueSets
<1> QED BY <1>4, <1>5, QueueSets DEF QueueRoom

LEMMA SameRowsQueue == UNCHANGED status => Pending' = Pending
    BY DEF Pending, With

\* Nothing but a POST puts a row into the queue.
LEMMA OthersQueueNothing ==
    ASSUME TypeOK, [Next]_vars, ~Posting
    PROVE  Pending' \subseteq Pending
<1>1. ASSUME NEW c \in Callers, Admission(c) \/ AdmitFault(c)
      PROVE  Pending' \subseteq Pending
    BY <1>1 DEF Admission, AdmitCount, AdmitSelect, AdmitCommit, AdmitFault, Promote,
                Pending, With
<1>2. ASSUME NEW s \in Sandbox,
             Provisioning(s) \/ ProvisionFault(s) \/ RecordReadyFault(s) \/ RecordFailedFault(s)
      PROVE  Pending' \subseteq Pending
    BY <1>2, TransitionQueue, SameRowsQueue
       DEF Provisioning, CreateNetwork, CreateContainer, WaitHealthy, RecordReady,
           RecordFailed, CleanUp, ProvisionFault, RecordReadyFault, RecordFailedFault
<1>3. ASSUME NEW s \in Sandbox, Heartbeat(s) \/ Release(s)
      PROVE  Pending' \subseteq Pending
  <2>1. CASE Heartbeat(s)
    BY <2>1 DEF Heartbeat, Pending, With, TypeOK
  <2>2. CASE Release(s)
    BY <2>2, SetStatusQueue DEF Release
  <2> QED BY <1>3, <2>1, <2>2
<1>4. ASSUME NEW r \in Replicas, NEW a, Act(r, a) \/ ActionFault(r, a)
      PROVE  Pending' \subseteq Pending
    BY <1>4, TransitionQueue, SameRowsQueue
       DEF Act, Reap, FailRecord, DestroyFailed, Expire, BeginTeardown, TeardownDestroy,
           FinishTeardown, CountDestroyFailure, GiveUp, ActionFault, Compare
<1>5. CASE \E r \in Replicas : Pass(r)
    BY <1>4, <1>5, SameRowsQueue
       DEF Pass, BeginPass, ListRuntime, ReadRecords, PlanPass, FinishActions
<1>6. CASE \E s \in Sandbox, d \in Deadline : Elapse(s, d)
    BY <1>6, SameRowsQueue DEF Elapse
<1>7. CASE Faults
    BY <1>1, <1>2, <1>4, <1>7, SameRowsQueue
       DEF Faults, ContainerDies, PlanDegraded, ListFault, Crash
<1>8. CASE UNCHANGED vars
    BY <1>8, SameRowsQueue DEF vars
<1> QED BY <1>1, <1>2, <1>3, <1>5, <1>6, <1>7, <1>8 DEF Next

\* Nothing but a POST sends a request to its insert.
LEMMA OthersCheckNothing ==
    ASSUME TypeOK, [Next]_vars, ~Posting
    PROVE  Checked' \subseteq Checked
<1>1. ASSUME NEW c \in Callers, Admission(c) \/ AdmitFault(c)
      PROVE  Checked' \subseteq Checked
    BY <1>1 DEF Admission, AdmitCount, AdmitSelect, AdmitCommit, AdmitFault, EndAdmission,
                Checked, IdlePost, TypeOK
<1>2. ASSUME NEW r \in Replicas, Crash(r)
      PROVE  Checked' \subseteq Checked
    BY <1>2 DEF Crash, Checked, IdlePost
<1>3. ASSUME UNCHANGED post
      PROVE  Checked' \subseteq Checked
    BY <1>3 DEF Checked
<1>4. CASE \E s \in Sandbox : Provisioning(s) \/ Heartbeat(s) \/ Release(s)
    BY <1>3, <1>4
       DEF Provisioning, CreateNetwork, CreateContainer, WaitHealthy, RecordReady,
           RecordFailed, CleanUp, Heartbeat, Release
<1>5. ASSUME NEW r \in Replicas, NEW a, Act(r, a) \/ ActionFault(r, a)
      PROVE  UNCHANGED post
    BY <1>5
       DEF Act, Reap, FailRecord, DestroyFailed, Expire, BeginTeardown, TeardownDestroy,
           FinishTeardown, CountDestroyFailure, GiveUp, ActionFault, Compare, Proceed
<1>6. CASE \E r \in Replicas : Pass(r)
    BY <1>3, <1>5, <1>6
       DEF Pass, BeginPass, ListRuntime, ReadRecords, PlanPass, FinishActions
<1>7. CASE \E s \in Sandbox, d \in Deadline : Elapse(s, d)
    BY <1>3, <1>7 DEF Elapse
<1>8. CASE Faults
    BY <1>1, <1>2, <1>3, <1>5, <1>8
       DEF Faults, ContainerDies, PlanDegraded, ListFault, ProvisionFault, RecordReadyFault,
           RecordFailedFault
<1>9. CASE UNCHANGED vars
    BY <1>3, <1>9 DEF vars
<1> QED BY <1>1, <1>4, <1>6, <1>7, <1>8, <1>9 DEF Next

LEMMA RoomNext == TypeOK /\ QueueRoom /\ [Next]_vars => QueueRoom'
<1> SUFFICES ASSUME TypeOK, QueueRoom, [Next]_vars PROVE QueueRoom'
    OBVIOUS
<1>1. CASE Posting
    BY <1>1, PostCheckRoom, PostCreateRoom DEF Posting
<1>2. CASE ~Posting
    BY <1>2, OthersQueueNothing, OthersCheckNothing, QueueNotLonger
<1> QED BY <1>1, <1>2

\* The queue never exceeds MAX_QUEUE by as many rows as requests can be in
\* progress at once, on all replicas together, although the length is read in a
\* statement before the insert (scheduler.ts:69) and nothing locks the queue.
THEOREM QueueIsBounded == Spec => []QueueBound
<1>1. Init => QueueRoom
  <2> SUFFICES ASSUME Init PROVE QueueRoom
    OBVIOUS
  <2>1. Pending = {} /\ Checked = {}
    BY DEF Init, Pending, With, Checked, IdlePost
  <2> QED BY <2>1, QueueSets, FS_EmptySet DEF QueueRoom
<1>2. QueueRoom => QueueBound
    BY QueueSets DEF QueueRoom, QueueBound
<1> QED BY <1>1, <1>2, RoomNext, TypeCorrectness, PTL DEF Spec

-----------------------------------------------------------------------------
(***************************************************************************)
(* The manager implements the lifecycle                                    *)
(***************************************************************************)

LEMMA SameCardinality == \A S : Lifecycle!Cardinality(S) = Cardinality(S)
    BY DEF Lifecycle!Cardinality, Cardinality

LEMMA StageOfStatus ==
    /\ StageOf("absent") = "absent"
    /\ StageOf("PENDING") = "queued"
    /\ \A st \in SlotStatuses : StageOf(st) = "held"
    /\ StageOf("DESTROYED") = "ended" /\ StageOf("FAILED") = "ended"
<1>1. \A st \in SlotStatuses : st # "absent" /\ st # "PENDING"
    BY DEF SlotStatuses
<1>2. \A st \in SlotStatuses : StageOf(st) = "held"
    BY <1>1 DEF StageOf
<1>3. "DESTROYED" \notin SlotStatuses /\ "FAILED" \notin SlotStatuses
    BY DEF SlotStatuses
<1> HIDE DEF SlotStatuses
<1>4. StageOf("DESTROYED") = "ended" /\ StageOf("FAILED") = "ended"
    BY <1>3 DEF StageOf
<1>5. StageOf("absent") = "absent" /\ StageOf("PENDING") = "queued"
    BY <1>1 DEF StageOf
<1> QED BY <1>2, <1>4, <1>5

LEMMA StatusCases ==
    ASSUME NEW st \in Status
    PROVE  st \in SlotStatuses \cup {"absent", "PENDING", "DESTROYED", "FAILED"}
    BY DEF Status, SlotStatuses

LEMMA LifecycleHeld ==
    ASSUME TypeOK
    PROVE  Lifecycle!Held = Held
<1>1. \A s \in Sandbox : StageOf(status[s]) = "held" <=> status[s] \in SlotStatuses
    BY StageOfStatus, StatusCases DEF TypeOK
<1> QED BY <1>1 DEF Lifecycle!Held, Held, With, Stages

LEMMA LifecycleInit == Init => Lifecycle!Init
    BY StageOfStatus DEF Init, Lifecycle!Init, Stages

\* The stages of the two ends of a transition are those of a step, or equal.
LEMMA LifecycleMove ==
    ASSUME NEW st \in Status, NEW to \in Transitions[st] \ {"PROVISIONING"}
    PROVE  \/ StageOf(to) = StageOf(st)
           \/ StageOf(st) = "absent" /\ StageOf(to) = "queued"
           \/ StageOf(st) \in {"queued", "held"} /\ StageOf(to) = "ended"
<1>1. CASE st = "absent"
  <2>1. to = "PENDING"
    BY <1>1 DEF Transitions
  <2> QED BY <1>1, <2>1, StageOfStatus
<1>2. CASE st = "PENDING"
  <2>1. to \in {"DESTROYED", "FAILED"}
    BY <1>2 DEF Transitions
  <2> QED BY <1>2, <2>1, StageOfStatus
<1>3. CASE st \in SlotStatuses
  <2>1. to \in SlotStatuses \cup {"DESTROYED", "FAILED"}
    BY <1>3 DEF Transitions, SlotStatuses
  <2> QED BY <1>3, <2>1, StageOfStatus
<1>4. CASE st \in {"DESTROYED", "FAILED"}
    BY <1>4 DEF Transitions
<1> QED BY <1>1, <1>2, <1>3, <1>4, StatusCases

LEMMA LifecycleNext ==
    ASSUME SlotInv, PlansLegal, [Next]_vars
    PROVE  [Lifecycle!Next]_Stages
<1>1. TypeOK /\ TypeOK'
    BY TypeNext DEF SlotInv
<1>2. ASSUME status' = status PROVE Stages' = Stages
    BY <1>2 DEF Stages
<1>3. ASSUME NEW s \in Sandbox, NEW to \in Transitions[status[s]] \ {"PROVISIONING"},
             status' = [status EXCEPT ![s] = to]
      PROVE  Stages' = Stages \/ Lifecycle!Request(s) \/ Lifecycle!End(s)
  <2>1. Stages' = [Stages EXCEPT ![s] = StageOf(to)]
    BY <1>1, <1>3 DEF TypeOK, Stages
  <2>2. status[s] \in Status /\ Stages[s] = StageOf(status[s])
    BY <1>1 DEF TypeOK, Stages
  <2>3. Stages \in [Sandbox -> {StageOf(st) : st \in Status}]
    BY <1>1 DEF Stages, TypeOK
  <2>4. CASE StageOf(to) = StageOf(status[s])
    BY <2>1, <2>2, <2>3, <2>4
  <2>5. CASE StageOf(status[s]) = "absent" /\ StageOf(to) = "queued"
    BY <2>1, <2>2, <2>5 DEF Lifecycle!Request
  <2>6. CASE StageOf(status[s]) \in {"queued", "held"} /\ StageOf(to) = "ended"
    BY <2>1, <2>2, <2>6 DEF Lifecycle!End
  <2> QED BY <2>2, <2>4, <2>5, <2>6, LifecycleMove
<1>4. ASSUME NEW c \in Callers, Promotion(c)
      PROVE  Lifecycle!Admit(chosen[c])
  <2>1. chosen[c] \subseteq Sandbox /\ \A s \in chosen[c] : StageOf(status[s]) = "queued"
    BY <1>1, <1>4, StageOfStatus DEF Promotion, Pending, With, TypeOK
  <2>2. Stages' = [s \in Sandbox |-> IF s \in chosen[c] THEN "held" ELSE Stages[s]]
    <3>1. StageOf("PROVISIONING") = "held"
        BY StageOfStatus DEF SlotStatuses
    <3> QED BY <1>4, <3>1 DEF Promotion, Promote, Stages
  <2>3. Held' = Held \cup chosen[c]
    BY <1>1, <1>4, <2>1 DEF Promotion, Promote, Held, With, SlotStatuses
  <2>4. Cardinality(Lifecycle!Held \cup chosen[c]) <= MaxActive
    BY <1>1, <1>4, <2>3, PromoteSlots, LifecycleHeld DEF Promotion
  <2>5. \A s \in chosen[c] : Stages[s] = "queued"
    BY <2>1 DEF Stages
  <2> QED BY <2>2, <2>4, <2>5, SameCardinality DEF Lifecycle!Admit
<1>5. CASE RowStep
    BY <1>2, <1>3, <1>5 DEF RowStep, Lifecycle!Next
<1>6. CASE \E c \in Callers : Promotion(c)
    BY <1>1, <1>4, <1>6 DEF Lifecycle!Next, TypeOK
<1> QED BY <1>1, <1>5, <1>6, RowNext

\* The manager keeps the promises of SandboxLifecycle: a sandbox takes one of
\* MAX_ACTIVE_SANDBOXES slots from the queue, once, and ends for good, whatever
\* happens in the replicas, the transactions and the containers meanwhile.
THEOREM LifecycleIsImplemented == Spec => ImplementsLifecycle
<1>1. SlotInv /\ PlansLegal /\ [Next]_vars => [Lifecycle!Next]_Stages
    BY LifecycleNext
<1>2. TypeOK /\ PlansLegal /\ [Next]_vars => PlansLegal'
    BY PlansLegalNext
<1>3. SlotInv => TypeOK
    BY DEF SlotInv
<1> QED BY <1>1, <1>2, <1>3, LifecycleInit, SlotInit, SlotNext, PTL
        DEF Spec, ImplementsLifecycle, Lifecycle!Spec

-----------------------------------------------------------------------------
(***************************************************************************)
(* The reconciliation passes                                               *)
(*                                                                         *)
(* A pass acts on two reads made at different moments; what it plans is    *)
(* right because each fact its plan rests on, once true, stays true.       *)
(***************************************************************************)

(***************************************************************************)
(* The record comes first                                                  *)
(*                                                                         *)
(* ContainersAreRecorded needs to know of the provisionings that have not  *)
(* reached the runtime: they, too, are of rows that have left the queue.   *)
(***************************************************************************)

Begun(s) == task[s] # "none" \/ runtime[s] # "absent"
Building(s) == task[s] \in {"network", "container"}
OutOfQueue(s) == status[s] \notin {"absent", "PENDING"}

RecordedFirst == \A s \in Sandbox : Begun(s) => OutOfQueue(s)

\* A row that has left the queue does not return to it.
LEMMA OutForGood ==
    ASSUME TypeOK, PlansLegal, [Next]_vars, NEW s \in Sandbox, OutOfQueue(s)
    PROVE  OutOfQueue(s)'
<1>1. status'[s] # status[s] => status'[s] \in Transitions[status[s]]
    BY LegalNext
<1>2. status[s] \in Status
    BY DEF TypeOK
<1> QED BY <1>1, <1>2 DEF OutOfQueue, Transitions, Status

\* The steps that move a provisioning or change the runtime.
LEMMA WorkSteps ==
    ASSUME TypeOK, [Next]_vars
    PROVE  \/ UNCHANGED <<taskVars, runtime>>
           \/ \E c \in Callers : AdmitCommit(c)
           \/ \E s \in Sandbox :
                 \/ Provisioning(s) \/ ProvisionFault(s) \/ RecordReadyFault(s)
                 \/ RecordFailedFault(s) \/ ContainerDies(s)
           \/ \E s \in Sandbox : UNCHANGED taskVars /\ (Destroy(s) \/ DestroyFails(s))
           \/ \E r \in Replicas : Crash(r)
<1>1. ASSUME NEW c \in Callers, Admission(c) \/ AdmitFault(c)
      PROVE  UNCHANGED <<taskVars, runtime>> \/ AdmitCommit(c)
    BY <1>1 DEF Admission, AdmitCount, AdmitSelect, AdmitFault
<1>2. ASSUME NEW r \in Replicas, NEW a \in todo[r] \cup doing[r], Act(r, a) \/ ActionFault(r, a)
      PROVE  /\ UNCHANGED taskVars
             /\ UNCHANGED runtime \/ \E s \in Sandbox : Destroy(s) \/ DestroyFails(s)
  <2>1. a.id \in Sandbox
    BY DEF TypeOK, Action
  <2>2. UNCHANGED taskVars
    BY <1>2 DEF Act, Reap, FailRecord, DestroyFailed, Expire, BeginTeardown, TeardownDestroy,
                FinishTeardown, CountDestroyFailure, GiveUp, ActionFault, Compare, Proceed
  <2>3. UNCHANGED runtime \/ Destroy(a.id) \/ DestroyFails(a.id)
    BY <1>2 DEF Act, Reap, FailRecord, DestroyFailed, Expire, BeginTeardown, TeardownDestroy,
                FinishTeardown, CountDestroyFailure, GiveUp, ActionFault, Compare
  <2> QED BY <2>1, <2>2, <2>3
<1>3. CASE Posting
    BY <1>3 DEF Posting, PostCheck, PostCreate
<1>4. CASE \E s \in Sandbox : Provisioning(s) \/ Heartbeat(s) \/ Release(s)
    BY <1>4 DEF Heartbeat, Release
<1>5. CASE \E r \in Replicas : Pass(r)
    BY <1>2, <1>5 DEF Pass, BeginPass, ListRuntime, ReadRecords, PlanPass, FinishActions
<1>6. CASE \E s \in Sandbox, d \in Deadline : Elapse(s, d)
    BY <1>6 DEF Elapse
<1>7. CASE Faults
    BY <1>1, <1>2, <1>7 DEF Faults, PlanDegraded, ListFault
<1>8. CASE UNCHANGED vars
    BY <1>8 DEF vars
<1> QED BY <1>1, <1>3, <1>4, <1>5, <1>6, <1>7, <1>8 DEF Next

\* A provisioning begins with the commit that takes the row out of the queue,
\* in the process that commits; only one that is about to create its container
\* puts one on the runtime.
LEMMA WorkNext ==
    ASSUME TypeOK, [Next]_vars, NEW x \in Sandbox
    PROVE  /\ Begun(x)' => Begun(x) \/ OutOfQueue(x)'
           /\ Building(x)' => Building(x) \/ status[x] = "PENDING"
           /\ runtime'[x] \notin Gone => runtime[x] \notin Gone \/ task[x] = "container"
           /\ \A r \in Replicas :
                 x \in inFlight'[r] => x \in inFlight[r] \/ status[x] = "PENDING"
<1> USE DEF Begun, Building
<1>1. CASE UNCHANGED <<taskVars, runtime>>
    BY <1>1
<1>2. ASSUME NEW c \in Callers, AdmitCommit(c)
      PROVE  /\ Begun(x)' => Begun(x) \/ OutOfQueue(x)'
             /\ Building(x)' => Building(x) \/ status[x] = "PENDING"
             /\ runtime'[x] = runtime[x]
             /\ \A r \in Replicas :
                   x \in inFlight'[r] => x \in inFlight[r] \/ status[x] = "PENDING"
    BY <1>2 DEF AdmitCommit, Promote, OutOfQueue, Pending, With, TypeOK
<1>3. ASSUME NEW s \in Sandbox,
             \/ Provisioning(s) \/ ProvisionFault(s) \/ RecordReadyFault(s)
             \/ RecordFailedFault(s) \/ ContainerDies(s)
      PROVE  /\ Begun(x)' => Begun(x)
             /\ Building(x)' => Building(x)
             /\ runtime'[x] \notin Gone => runtime[x] \notin Gone \/ task[x] = "container"
             /\ \A r \in Replicas : x \in inFlight'[r] => x \in inFlight[r]
    BY <1>3 DEF Provisioning, CreateNetwork, CreateContainer, WaitHealthy, RecordReady,
                RecordFailed, CleanUp, ProvisionFault, RecordReadyFault, RecordFailedFault,
                ContainerDies, TaskMoves, Destroy, DestroyFails, TypeOK, Gone, RuntimeState
<1>4. ASSUME NEW s \in Sandbox, UNCHANGED taskVars, Destroy(s) \/ DestroyFails(s)
      PROVE  /\ Begun(x)' => Begun(x)
             /\ runtime'[x] \notin Gone => runtime[x] \notin Gone
    BY <1>4 DEF Destroy, DestroyFails, TypeOK, Gone
<1>5. CASE \E r \in Replicas : Crash(r)
    BY <1>5 DEF Crash, TypeOK
<1> QED BY <1>1, <1>2, <1>3, <1>4, <1>5, WorkSteps

\* Nothing is on the runtime for a request that still waits, or that was never
\* made: the transaction that admits commits before provisionSandbox starts, and
\* the row never goes back (scheduler.ts:159, provisioning.ts:26).
THEOREM RecordsComeFirst == Spec => []ContainersAreRecorded
<1>1. Init => PlansLegal /\ RecordedFirst
    BY DEF Init, PlansLegal, RecordedFirst, Begun, Unseen
<1>2. TypeOK /\ PlansLegal /\ RecordedFirst /\ [Next]_vars => RecordedFirst'
    BY OutForGood, WorkNext DEF RecordedFirst
<1>3. RecordedFirst => ContainersAreRecorded
    BY DEF RecordedFirst, Begun, OutOfQueue, ContainersAreRecorded
<1> QED BY <1>1, <1>2, <1>3, PlansLegalNext, TypeCorrectness, PTL DEF Spec

-----------------------------------------------------------------------------
(***************************************************************************)
(* What a plan rests on                                                    *)
(*                                                                         *)
(* Each fact below is about one row and, once true, stays true: a row that *)
(* was ready is past provisioning, one whose container has been built is   *)
(* not built again, a deadline that passed stays past while it counts.     *)
(***************************************************************************)

Been(s) == status[s] \notin {"absent", "PENDING", "PROVISIONING"}
Built(s) == OutOfQueue(s) /\ ~Building(s)

LEMMA EndedForGood ==
    ASSUME TypeOK, PlansLegal, [Next]_vars, NEW s \in Sandbox, status[s] \in Terminal
    PROVE  status'[s] \in Terminal
<1>1. status'[s] # status[s] => status'[s] \in Transitions[status[s]]
    BY LegalNext
<1> QED BY <1>1 DEF Transitions, Terminal

LEMMA BeenForGood ==
    ASSUME TypeOK, PlansLegal, [Next]_vars, NEW s \in Sandbox, Been(s)
    PROVE  Been(s)' /\ (status'[s] = "READY" => status[s] = "READY")
<1>1. status'[s] # status[s] => status'[s] \in Transitions[status[s]]
    BY LegalNext
<1>2. status[s] \in Status
    BY DEF TypeOK
<1> QED BY <1>1, <1>2 DEF Been, Transitions, Status

LEMMA BuiltForGood ==
    ASSUME TypeOK, PlansLegal, [Next]_vars, NEW s \in Sandbox, Built(s)
    PROVE  /\ Built(s)'
           /\ runtime[s] \in Gone => runtime'[s] \in Gone
<1>1. OutOfQueue(s)' /\ status[s] # "PENDING"
    BY OutForGood DEF Built, OutOfQueue
<1>2. ~Building(s)'
    BY <1>1, WorkNext DEF Built
<1>3. runtime[s] \in Gone => runtime'[s] \in Gone
    BY <1>1, WorkNext DEF Built, Building
<1> QED BY <1>1, <1>2, <1>3 DEF Built

LEMMA NotInFlightForGood ==
    ASSUME TypeOK, [Next]_vars, NEW s \in Sandbox, OutOfQueue(s),
           NEW r \in Replicas, s \notin inFlight[r]
    PROVE  s \notin inFlight'[r]
    BY WorkNext DEF OutOfQueue

\* The steps that change a row; only a provisioning with its container healthy
\* makes one ready.
LEMMA RowSteps ==
    ASSUME TypeOK, [Next]_vars
    PROVE  \/ UNCHANGED <<status, due>>
           \/ \E s \in Sandbox : \E to :
                 SetStatus(s, to) /\ (to = "READY" => task[s] = "record")
           \/ \E s \in Sandbox : Heartbeat(s)
           \/ \E s \in Sandbox, d \in Deadline : Elapse(s, d)
           \/ \E c \in Callers : Promote(c)
<1> DEFINE Moved(s) == \/ UNCHANGED <<status, due>>
                       \/ \E to : SetStatus(s, to) /\ (to = "READY" => task[s] = "record")
<1>1. ASSUME NEW s \in Sandbox, NEW from, NEW to, Transition(s, from, to),
             to = "READY" => task[s] = "record"
      PROVE  Moved(s)
    BY <1>1 DEF Transition
<1>2. ASSUME NEW c \in Callers, Admission(c) \/ AdmitFault(c)
      PROVE  UNCHANGED <<status, due>> \/ Promote(c)
    BY <1>2 DEF Admission, AdmitCount, AdmitSelect, AdmitCommit, AdmitFault
<1>3. ASSUME NEW s \in Sandbox,
             Provisioning(s) \/ ProvisionFault(s) \/ RecordReadyFault(s) \/ RecordFailedFault(s)
      PROVE  Moved(s)
  <2>1. CASE RecordReady(s) \/ RecordFailed(s)
    BY <1>1, <2>1 DEF RecordReady, RecordFailed
  <2>2. CASE RecordReadyFault(s)
    BY <1>1, <2>2 DEF RecordReadyFault
  <2>3. CASE UNCHANGED rowVars
    BY <2>3
  <2> HIDE DEF Moved
  <2> QED BY <1>3, <2>1, <2>2, <2>3
          DEF Provisioning, CreateNetwork, CreateContainer, WaitHealthy, CleanUp,
              ProvisionFault, RecordFailedFault
<1>4. ASSUME NEW r \in Replicas, NEW a \in todo[r] \cup doing[r], Act(r, a) \/ ActionFault(r, a)
      PROVE  \E s \in Sandbox : Moved(s)
  <2>1. a.id \in Sandbox
    BY DEF TypeOK, Action
  <2>2. CASE FailRecord(r, a) \/ Expire(r, a) \/ BeginTeardown(r, a)
    BY <1>1, <2>1, <2>2 DEF FailRecord, Expire, BeginTeardown, Compare
  <2>3. CASE FinishTeardown(r, a) \/ GiveUp(r, a)
    BY <1>1, <2>1, <2>3 DEF FinishTeardown, GiveUp
  <2>4. CASE UNCHANGED <<status, due>>
    BY <2>1, <2>4
  <2> HIDE DEF Moved
  <2> QED BY <1>4, <2>2, <2>3, <2>4
          DEF Act, Reap, DestroyFailed, TeardownDestroy, CountDestroyFailure, ActionFault
<1>5. CASE Posting
  <2>1. ASSUME NEW h \in Handlers, PostCreate(h)
        PROVE  \E s \in Sandbox : Moved(s)
    <3>1. post[h].req \in Sandbox
        BY <2>1 DEF PostCreate, TypeOK, Post, IdlePost
    <3> QED BY <2>1, <3>1 DEF PostCreate
  <2> QED BY <1>5, <2>1 DEF Posting, PostCheck
<1>6. CASE \E s \in Sandbox : Provisioning(s) \/ Heartbeat(s) \/ Release(s)
    BY <1>3, <1>6 DEF Release
<1>7. CASE \E r \in Replicas : Pass(r)
    BY <1>4, <1>7 DEF Pass, BeginPass, ListRuntime, ReadRecords, PlanPass, FinishActions
<1>8. CASE Faults
    BY <1>2, <1>3, <1>4, <1>8 DEF Faults, ContainerDies, PlanDegraded, ListFault, Crash
<1>9. CASE UNCHANGED vars
    BY <1>9 DEF vars
<1> QED BY <1>2, <1>5, <1>6, <1>7, <1>8, <1>9 DEF Next

\* Only a heartbeat takes back a deadline that still counts, and only the idle
\* one.
LEMMA DueNext ==
    ASSUME TypeOK, [Next]_vars, NEW x \in Sandbox, NEW d \in due[x], d # "idle",
           d \in Deadlines(status'[x])
    PROVE  d \in due'[x]
<1>1. CASE UNCHANGED <<status, due>>
    BY <1>1
<1>2. ASSUME NEW s \in Sandbox, NEW to, SetStatus(s, to) PROVE d \in due'[x]
    BY <1>2 DEF SetStatus, TypeOK
<1>3. ASSUME NEW s \in Sandbox, Heartbeat(s) PROVE d \in due'[x]
    BY <1>3 DEF Heartbeat, TypeOK
<1>4. ASSUME NEW s \in Sandbox, NEW e \in Deadline, Elapse(s, e) PROVE d \in due'[x]
    BY <1>4 DEF Elapse, TypeOK
<1>5. ASSUME NEW c \in Callers, Promote(c) PROVE d \in due'[x]
    BY <1>5 DEF Promote
<1> QED BY <1>1, <1>2, <1>3, <1>4, <1>5, RowSteps

LEMMA PastForGood ==
    ASSUME TypeOK, PlansLegal, [Next]_vars, NEW s \in Sandbox
    PROVE  /\ OutOfQueue(s) /\ "max-lifetime" \in due[s] => "max-lifetime" \in due'[s]
           /\ status'[s] = "READY" /\ "unclaimed" \in due[s] => "unclaimed" \in due'[s]
<1>1. OutOfQueue(s)' => "max-lifetime" \in Deadlines(status'[s])
    BY DEF OutOfQueue, Deadlines
<1>2. "unclaimed" \in Deadlines("READY")
    BY DEF Deadlines
<1> QED BY <1>1, <1>2, OutForGood, DueNext

-----------------------------------------------------------------------------
(***************************************************************************)
(* The invariant of the passes                                             *)
(***************************************************************************)

\* What is ready was built.
ReadyIsBuilt == \A s \in Sandbox : status[s] \in {"READY", "ACTIVE"} => ~Building(s)

\* Whoever was ready when a pass began was built, and what the listing showed
\* or lacked can be relied on when it is used.
ListingTrue ==
    \A r \in Replicas :
        /\ \A s \in judge[r] : Built(s)
        /\ phase[r] = "listed" => \A s \in Sandbox :
              /\ seen[r][s] # "absent" => OutOfQueue(s)
              /\ s \in judge[r] /\ seen[r][s] \in Gone => runtime[s] \in Gone

\* The reason for each kind of action.
Reaps(r, a) ==
    a.step = "reap" /\ phase[r] \in {"read", "acting"} => status[a.id] \in Terminal

FailsLost(a) ==
    a.step = "fail" /\ a.why = "container-lost" => Built(a.id) /\ runtime[a.id] \in Gone

FailsStuck(r, a) ==
    a.step = "fail" /\ a.why = "stuck" =>
        OutOfQueue(a.id) /\ (phase[r] = "acting" => a.id \notin inFlight[r])

ExpiresLate(a) ==
    a.step = "expire" =>
        /\ a.why = "max-lifetime" => OutOfQueue(a.id) /\ "max-lifetime" \in due[a.id]
        /\ a.why = "unclaimed" =>
              /\ a.from = "READY" /\ Been(a.id)
              /\ status[a.id] = "READY" => "unclaimed" \in due[a.id]

Grounded(r, a) == Reaps(r, a) /\ FailsLost(a) /\ FailsStuck(r, a) /\ ExpiresLate(a)

\* An action in progress is past the step its reason was for.
FirstSteps == {"reap", "fail", "expire"}

PlansTrue ==
    \A r \in Replicas :
        /\ \A a \in todo[r] : Grounded(r, a)
        /\ \A a \in doing[r] : a.step \notin FirstSteps

PassInv == TypeOK /\ PlansLegal /\ RecordedFirst /\ ReadyIsBuilt /\ ListingTrue /\ PlansTrue

-----------------------------------------------------------------------------
LEMMA ReadyIsBuiltNext ==
    ASSUME PassInv, [Next]_vars
    PROVE  ReadyIsBuilt'
<1> SUFFICES ASSUME NEW s \in Sandbox, status'[s] \in {"READY", "ACTIVE"}, Building(s)'
             PROVE  FALSE
    BY DEF ReadyIsBuilt
<1>1. status'[s] # status[s] => status'[s] \in Transitions[status[s]]
    BY LegalNext DEF PassInv
<1>2. status[s] \in Status /\ task[s] \in TaskStep
    BY DEF PassInv, TypeOK
<1>3. status[s] \in {"PROVISIONING", "READY", "ACTIVE"}
    BY <1>1, <1>2 DEF Transitions, Status
<1>4. Building(s)
    BY <1>3, WorkNext DEF PassInv
<1>5. status[s] = "PROVISIONING" /\ task[s] # "record"
    BY <1>3, <1>4 DEF PassInv, ReadyIsBuilt, Building
<1>6. ~UNCHANGED status
    BY <1>5
<1>7. ASSUME NEW x \in Sandbox, NEW to, SetStatus(x, to), to = "READY" => task[x] = "record"
      PROVE  FALSE
  <2>1. x = s /\ status'[s] = to
    BY <1>5, <1>7 DEF SetStatus, PassInv, TypeOK
  <2>2. to = "READY"
    BY <1>1, <1>5, <2>1 DEF Transitions
  <2> QED BY <1>5, <1>7, <2>1, <2>2
<1>8. ASSUME NEW x \in Sandbox, Heartbeat(x) PROVE FALSE
    BY <1>5, <1>8 DEF Heartbeat, PassInv, TypeOK
<1>9. ASSUME NEW c \in Callers, Promote(c) PROVE FALSE
    BY <1>5, <1>9 DEF Promote
<1> QED BY <1>6, <1>7, <1>8, <1>9, RowSteps DEF PassInv, Elapse

\* The pass of a replica either makes one of the steps that read or plan, or
\* goes on with what it has.
GoesOn(r) ==
    /\ todo'[r] \subseteq todo[r]
    /\ judge'[r] \subseteq judge[r]
    /\ \/ phase'[r] = phase[r] /\ seen'[r] = seen[r]
       \/ phase'[r] \in {"idle", "admitting"}
    /\ \A a \in doing'[r] : a \in doing[r] \/ a.step \notin FirstSteps

Reads(r) ==
    BeginPass(r) \/ ListRuntime(r) \/ ReadRecords(r) \/ PlanPass(r) \/ PlanDegraded(r)

LEMMA PassSteps ==
    ASSUME TypeOK, [Next]_vars, NEW r \in Replicas
    PROVE  GoesOn(r) \/ Reads(r)
<1> USE DEF GoesOn
<1>1. ASSUME phase' = phase, judge' = judge, seen' = seen, todo' = todo, doing' = doing
      PROVE  GoesOn(r)
    BY <1>1
<1>2. ASSUME NEW c \in Callers, Admission(c) \/ AdmitFault(c)
      PROVE  GoesOn(r)
  <2>1. UNCHANGED <<judge, seen, todo, doing>>
    BY <1>2 DEF Admission, AdmitCount, AdmitSelect, AdmitCommit, AdmitFault
  <2>2. UNCHANGED phase \/ EndAdmission(c)
    BY <1>2 DEF Admission, AdmitCount, AdmitSelect, AdmitCommit, AdmitFault
  <2>3. phase'[r] \in {phase[r], "idle"}
    BY <2>2 DEF EndAdmission, TypeOK
  <2> QED BY <2>1, <2>3
<1>3. ASSUME NEW q \in Replicas, NEW a, NEW next, Proceed(q, a, next),
             \A b \in next : b.step \notin FirstSteps
      PROVE  GoesOn(r)
    BY <1>3 DEF Proceed, TypeOK
<1>4. ASSUME NEW a, NEW step \in {"begin", "clean", "destroy", "finish", "count", "giveup"}
      PROVE  \A b \in Then(a, step) : b.step \notin FirstSteps
    BY PlanFields DEF Then, FirstSteps
<1>5. ASSUME NEW q \in Replicas, NEW a, Act(q, a) \/ ActionFault(q, a)
      PROVE  GoesOn(r)
  <2> HIDE DEF GoesOn
  <2>1. \A b \in {} : b.step \notin FirstSteps
    OBVIOUS
  <2>2. CASE Reap(q, a) \/ DestroyFailed(q, a) \/ FinishTeardown(q, a) \/ GiveUp(q, a)
             \/ ActionFault(q, a)
    BY <1>3, <2>1, <2>2 DEF Reap, DestroyFailed, FinishTeardown, GiveUp, ActionFault
  <2>3. CASE FailRecord(q, a) \/ Expire(q, a) \/ BeginTeardown(q, a)
    BY <1>3, <1>4, <2>1, <2>3 DEF FailRecord, Expire, BeginTeardown, Compare
  <2>4. CASE TeardownDestroy(q, a) \/ CountDestroyFailure(q, a)
    BY <1>3, <1>4, <2>1, <2>4 DEF TeardownDestroy, CountDestroyFailure
  <2> QED BY <1>5, <2>2, <2>3, <2>4 DEF Act
<1>6. ASSUME NEW q \in Replicas, Reads(q), q # r
      PROVE  GoesOn(r)
  <2>1. /\ phase' = [phase EXCEPT ![q] = phase'[q]]
        /\ judge' = [judge EXCEPT ![q] = judge'[q]]
        /\ seen' = [seen EXCEPT ![q] = seen'[q]]
        /\ todo' = [todo EXCEPT ![q] = todo'[q]]
        /\ doing' = doing
    <3> HIDE DEF GoesOn
    <3>1. CASE BeginPass(q)
        BY <3>1 DEF BeginPass, TypeOK
    <3>2. CASE ListRuntime(q)
        BY <3>2 DEF ListRuntime, TypeOK
    <3>3. CASE ReadRecords(q)
        BY <3>3 DEF ReadRecords, TypeOK
    <3>4. CASE PlanPass(q)
        BY <3>4 DEF PlanPass, TypeOK
    <3>5. CASE PlanDegraded(q)
        BY <3>5 DEF PlanDegraded, TypeOK
    <3> QED BY <1>6, <3>1, <3>2, <3>3, <3>4, <3>5 DEF Reads
  <2>2. /\ phase'[r] = phase[r] /\ judge'[r] = judge[r] /\ seen'[r] = seen[r]
        /\ todo'[r] = todo[r] /\ doing'[r] = doing[r]
    <3> HIDE DEF GoesOn
    <3>1. q # r
        BY <1>6
    <3> QED BY <2>1, <3>1 DEF TypeOK
  <2> QED BY <2>2 DEF GoesOn
<1>7. ASSUME NEW q \in Replicas, FinishActions(q) \/ ListFault(q)
      PROVE  GoesOn(r)
    BY <1>7 DEF FinishActions, ListFault, TypeOK
<1>8. ASSUME NEW q \in Replicas, Crash(q)
      PROVE  GoesOn(r)
    BY <1>8 DEF Crash, TypeOK
<1> HIDE DEF GoesOn
<1>9. CASE Posting
    BY <1>1, <1>9 DEF Posting, PostCheck, PostCreate
<1>10. CASE \E s \in Sandbox : Provisioning(s) \/ Heartbeat(s) \/ Release(s)
    BY <1>1, <1>10 DEF Provisioning, CreateNetwork, CreateContainer, WaitHealthy, RecordReady,
                       RecordFailed, CleanUp, Heartbeat, Release
<1>11. CASE \E q \in Replicas : Pass(q)
    BY <1>5, <1>6, <1>7, <1>11 DEF Pass, Reads
<1>12. CASE \E s \in Sandbox, d \in Deadline : Elapse(s, d)
    BY <1>1, <1>12 DEF Elapse
<1>13. CASE Faults
  <2>1. ASSUME NEW s \in Sandbox,
               ProvisionFault(s) \/ RecordReadyFault(s) \/ RecordFailedFault(s) \/ ContainerDies(s)
        PROVE  GoesOn(r)
    <3>1. phase' = phase /\ judge' = judge /\ seen' = seen /\ todo' = todo /\ doing' = doing
        BY <2>1 DEF ProvisionFault, RecordReadyFault, RecordFailedFault, ContainerDies
    <3> QED BY <1>1, <3>1
  <2> QED BY <1>2, <1>5, <1>6, <1>7, <1>8, <1>13, <2>1 DEF Faults, Reads
<1>14. CASE UNCHANGED vars
    BY <1>1, <1>14 DEF vars
<1> QED BY <1>2, <1>9, <1>10, <1>11, <1>12, <1>13, <1>14 DEF Next

\* What a listing, or its lack of a container, says holds until it is used.
LEMMA ListingTrueNext ==
    ASSUME PassInv, [Next]_vars
    PROVE  ListingTrue'
<1> SUFFICES ASSUME NEW r \in Replicas
             PROVE  /\ \A s \in judge'[r] : Built(s)'
                    /\ phase'[r] = "listed" => \A s \in Sandbox :
                          /\ seen'[r][s] # "absent" => OutOfQueue(s)'
                          /\ s \in judge'[r] /\ seen'[r][s] \in Gone => runtime'[s] \in Gone
    BY DEF ListingTrue
<1> USE DEF PassInv
<1>1. judge[r] \subseteq Sandbox
    BY DEF TypeOK
<1>2. \A s \in judge[r] : Built(s) /\ Built(s)' /\ (runtime[s] \in Gone => runtime'[s] \in Gone)
    BY <1>1, BuiltForGood DEF ListingTrue
<1>3. \A s \in Sandbox : OutOfQueue(s) => OutOfQueue(s)'
    BY OutForGood
<1>4. CASE GoesOn(r)
    BY <1>1, <1>2, <1>3, <1>4 DEF GoesOn, ListingTrue
<1>5. CASE BeginPass(r)
  <2>1. judge'[r] = {s \in Sandbox : status[s] \in {"READY", "ACTIVE"} \/ task[s] = "record"}
    BY <1>5 DEF BeginPass, TypeOK
  <2>2. \A s \in judge'[r] : Built(s)
    BY <2>1 DEF Built, Building, OutOfQueue, ReadyIsBuilt, RecordedFirst, Begun
  <2>3. \A s \in judge'[r] : Built(s)'
    BY <2>1, <2>2, BuiltForGood
  <2> QED BY <1>5, <2>3 DEF BeginPass, TypeOK
<1>6. CASE ListRuntime(r)
  <2>1. judge'[r] = judge[r] /\ seen'[r] = runtime /\ UNCHANGED runtime
    BY <1>6 DEF ListRuntime, TypeOK
  <2>2. \A s \in Sandbox : runtime[s] # "absent" => OutOfQueue(s)
    BY DEF RecordedFirst, Begun
  <2> QED BY <1>2, <1>3, <2>1, <2>2
<1>7. CASE ReadRecords(r) \/ PlanDegraded(r)
    BY <1>7 DEF ReadRecords, PlanDegraded, TypeOK
<1>8. CASE PlanPass(r)
    BY <1>2, <1>8 DEF PlanPass, TypeOK
<1> QED BY <1>4, <1>5, <1>6, <1>7, <1>8, PassSteps DEF Reads


-----------------------------------------------------------------------------
\* Whatever is planned from the records is grounded when it is planned.
LEMMA PlannedGrounded ==
    ASSUME PassInv, NEW r \in Replicas, phase[r] = "listed",
           NEW a \in Orphans(r) \cup LossesOf(r) \cup Expiries(r) \cup TimedOut \cup Teardowns
    PROVE  /\ a.step = "reap" => status[a.id] \in Terminal
           /\ FailsLost(a)
           /\ a.step = "fail" /\ a.why = "stuck" => OutOfQueue(a.id)
           /\ ExpiresLate(a)
<1> USE DEF FailsLost, ExpiresLate
<1> DEFINE Fields(s, step, from, why) ==
        a.id = s /\ a.step = step /\ a.from = from /\ a.why = why
<1>1. ASSUME NEW s, NEW step, NEW from, NEW why, a = Plan(s, step, from, why)
      PROVE  Fields(s, step, from, why)
    BY <1>1 DEF Plan
<1> HIDE DEF Fields
<1>2. CASE a \in Orphans(r)
  <2>1. PICK s \in Sandbox : /\ seen[r][s] # "absent" /\ status[s] \notin Live
                             /\ Fields(s, "reap", "absent", "none")
    BY <1>1, <1>2 DEF Orphans
  <2>2. status[s] \in Status /\ OutOfQueue(s)
    BY <2>1 DEF PassInv, TypeOK, ListingTrue
  <2> QED BY <2>1, <2>2 DEF Fields, OutOfQueue, Status, Live, SlotStatuses, Terminal
<1>3. CASE a \in LossesOf(r)
  <2>1. PICK s \in Sandbox : /\ s \in judge[r] /\ seen[r][s] \in Gone
                             /\ Fields(s, "fail", status[s], "container-lost")
    BY <1>1, <1>3 DEF LossesOf, Lost, With
  <2>2. Built(s) /\ runtime[s] \in Gone
    BY <2>1 DEF PassInv, ListingTrue
  <2> QED BY <2>1, <2>2 DEF Fields
<1>4. CASE a \in Expiries(r)
  <2>1. PICK s \in Sandbox : /\ status[s] \in {"READY", "ACTIVE"}
                             /\ Fields(s, "expire", status[s], Expiry(s))
    BY <1>1, <1>4 DEF Expiries, With
  <2>2. /\ Expiry(s) = "max-lifetime" => "max-lifetime" \in due[s]
        /\ Expiry(s) = "unclaimed" => status[s] = "READY" /\ "unclaimed" \in due[s]
    BY DEF Expiry
  <2> QED BY <2>1, <2>2 DEF Fields, OutOfQueue, Been
<1>5. CASE a \in TimedOut
  <2>1. PICK s \in Sandbox : /\ status[s] = "PROVISIONING"
                             /\ Fields(s, "fail", "PROVISIONING", "stuck")
    BY <1>1, <1>5 DEF TimedOut, With
  <2> QED BY <2>1 DEF Fields, OutOfQueue
<1>6. CASE a \in Teardowns
  <2>1. PICK s \in Sandbox : \E step \in {"begin", "destroy"} : Fields(s, step, status[s], "none")
    BY <1>1, <1>6 DEF Teardowns, With
  <2> QED BY <2>1 DEF Fields
<1> QED BY <1>2, <1>3, <1>4, <1>5, <1>6

\* What an action rests on holds until the action is done, if its pass goes on.
LEMMA GroundedStays ==
    ASSUME PassInv, [Next]_vars, NEW r \in Replicas, NEW a \in todo[r], Grounded(r, a),
           phase'[r] = phase[r] \/ phase'[r] \notin {"read", "acting"}
    PROVE  Grounded(r, a)'
<1> USE DEF PassInv
<1>1. a.id \in Sandbox
    BY DEF TypeOK, Action
<1>2. Reaps(r, a)'
    BY <1>1, EndedForGood DEF Grounded, Reaps
<1>3. FailsLost(a)'
    BY <1>1, BuiltForGood DEF Grounded, FailsLost
<1>4. FailsStuck(r, a)'
    BY <1>1, OutForGood, NotInFlightForGood DEF Grounded, FailsStuck
<1>5. ExpiresLate(a)'
    BY <1>1, OutForGood, BeenForGood, PastForGood DEF Grounded, ExpiresLate
<1> QED BY <1>2, <1>3, <1>4, <1>5 DEF Grounded

LEMMA PlansTrueNext ==
    ASSUME PassInv, [Next]_vars
    PROVE  PlansTrue'
<1> USE DEF PassInv
<1> SUFFICES ASSUME NEW r \in Replicas
             PROVE  /\ \A a \in todo'[r] : Grounded(r, a)'
                    /\ \A a \in doing'[r] : a.step \notin FirstSteps
    BY DEF PlansTrue
<1>1. /\ \A a \in todo[r] : Grounded(r, a)
      /\ \A a \in doing[r] : a.step \notin FirstSteps
    BY DEF PlansTrue
<1>2. CASE GoesOn(r)
    BY <1>1, <1>2, GroundedStays DEF GoesOn
<1>3. CASE BeginPass(r) \/ ListRuntime(r)
  <2>1. UNCHANGED <<todo, doing>> /\ phase'[r] \notin {"read", "acting"}
    BY <1>3 DEF BeginPass, ListRuntime, TypeOK
  <2> QED BY <1>1, <2>1, GroundedStays
<1>4. CASE ReadRecords(r)
  <2> DEFINE planned == Orphans(r) \cup LossesOf(r) \cup Expiries(r) \cup TimedOut \cup Teardowns
  <2>1. /\ phase[r] = "listed" /\ phase'[r] = "read" /\ todo'[r] = planned
        /\ UNCHANGED <<status, due, runtime, task, doing>>
    BY <1>4 DEF ReadRecords, TypeOK
  <2> HIDE DEF planned
  <2>2. \A a \in planned : /\ a.step = "reap" => status[a.id] \in Terminal
                           /\ FailsLost(a)
                           /\ a.step = "fail" /\ a.why = "stuck" => OutOfQueue(a.id)
                           /\ ExpiresLate(a)
    BY <2>1, PlannedGrounded DEF planned
  <2>3. \A a \in planned : Grounded(r, a)'
    BY <2>1, <2>2 DEF Grounded, Reaps, FailsLost, FailsStuck, ExpiresLate, Built, Building,
                      OutOfQueue, Been
  <2> QED BY <1>1, <2>1, <2>3
<1>5. CASE PlanPass(r)
  <2>1. /\ phase[r] = "read" /\ phase'[r] = "acting"
        /\ todo'[r] = {a \in todo[r] : ~(a.why = "stuck" /\ a.id \in inFlight[r])}
        /\ UNCHANGED <<status, due, runtime, task, inFlight, doing>>
    BY <1>5 DEF PlanPass, TypeOK
  <2> QED BY <1>1, <2>1 DEF Grounded, Reaps, FailsLost, FailsStuck, ExpiresLate, Built,
                            Building, OutOfQueue, Been
<1>6. CASE PlanDegraded(r)
  <2>1. \A a \in todo'[r] : a.step = "reap"
    BY <1>6, PlanFields DEF PlanDegraded, TypeOK
  <2>2. phase'[r] = "degraded" /\ doing' = doing
    BY <1>6 DEF PlanDegraded, TypeOK
  <2> QED BY <1>1, <2>1, <2>2 DEF Grounded, Reaps, FailsLost, FailsStuck, ExpiresLate
<1> QED BY <1>2, <1>3, <1>4, <1>5, <1>6, PassSteps DEF Reads

-----------------------------------------------------------------------------
LEMMA PassInvariant == Spec => []PassInv
<1>1. Init => PassInv
    BY TypeInit DEF Init, PassInv, PlansLegal, RecordedFirst, Begun, ReadyIsBuilt, Building,
                    ListingTrue, PlansTrue, Unseen
<1>2. PassInv /\ [Next]_vars => PassInv'
  <2> SUFFICES ASSUME PassInv, [Next]_vars PROVE PassInv'
    OBVIOUS
  <2>1. TypeOK' /\ PlansLegal'
    BY TypeNext, PlansLegalNext DEF PassInv
  <2>2. RecordedFirst'
    BY OutForGood, WorkNext DEF PassInv, RecordedFirst
  <2> QED BY <2>1, <2>2, ReadyIsBuiltNext, ListingTrueNext, PlansTrueNext DEF PassInv
<1> QED BY <1>1, <1>2, PTL DEF Spec

\* A pass reaps only what belongs to a sandbox that has ended, although it lists
\* the runtime before it reads the records and provisionings go on meanwhile.
THEOREM OrphansAreEnded == Spec => []OrphansHaveEnded
<1>1. PassInv => OrphansHaveEnded
    BY DEF PassInv, PlansTrue, Grounded, Reaps, FirstSteps, OrphansHaveEnded
<1> QED BY <1>1, PassInvariant, PTL

\* A record is failed as container-lost only when its container is gone: what
\* was ready before the listing began is not built again after it.  And no
\* replica fails as stuck a provisioning of its own: it asks which are its own
\* after it has read the records, and none of those starts again.
THEOREM OnlyFailuresFail == Spec => []FailuresAreReal
<1>1. PassInv => LossIsReal
    BY DEF PassInv, PlansTrue, Grounded, FailsLost, FirstSteps, LossIsReal
<1>2. PassInv => OwnProvisioningIsNotStuck
    BY DEF PassInv, PlansTrue, Grounded, FailsStuck, FirstSteps, OwnProvisioningIsNotStuck
<1> QED BY <1>1, <1>2, PassInvariant, PTL DEF FailuresAreReal

\* Whoever is ended for its hard deadline, or for never being claimed, is past
\* that deadline at that moment, whatever came between the plan and the act.
THEOREM DeadlinesAreKept == Spec => DeadlinesHold
<1>1. PassInv => ~Expires("max-lifetime") /\ ~Expires("unclaimed")
  <2> SUFFICES ASSUME PassInv, NEW why \in {"max-lifetime", "unclaimed"}, Expires(why)
               PROVE  FALSE
    OBVIOUS
  <2>1. PICK r \in Replicas : \E a \in todo[r] \cup doing[r] :
              /\ Expire(r, a) /\ a.why = why
              /\ status'[a.id] # status[a.id] /\ why \notin due[a.id]
    BY DEF Expires
  <2>2. PICK a \in todo[r] \cup doing[r] :
              /\ Expire(r, a) /\ a.why = why
              /\ status'[a.id] # status[a.id] /\ why \notin due[a.id]
    BY <2>1
  <2>3. a.step = "expire" /\ status[a.id] = a.from
    BY <2>2 DEF Expire, Compare, Transition
  <2>4. ExpiresLate(a)
    BY <2>3 DEF PassInv, PlansTrue, Grounded, FirstSteps
  <2> QED BY <2>2, <2>3, <2>4 DEF ExpiresLate
<1>2. [Next]_vars /\ PassInv => [~Expires("max-lifetime") /\ ~Expires("unclaimed")]_vars
    BY <1>1
<1> QED BY <1>2, PassInvariant, PTL DEF Spec, DeadlinesHold

================================================================================
