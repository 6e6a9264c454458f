---------------------------- MODULE SandboxManager ----------------------------
(***************************************************************************)
(* The T2 sandbox manager (apps/sandbox-manager): the state database, the  *)
(* scheduler that queues, admits and provisions sandboxes, the             *)
(* reconciliation loop, and the container runtime under them.  Several     *)
(* replicas of the manager share one database and one runtime.             *)
(*                                                                         *)
(* Every await of the code is a boundary between two actions, so between   *)
(* any two of them another request, another replica, a crash or the        *)
(* runtime may step in.  One statement of the database is one action.      *)
(* Time is abstract: a deadline that has passed is a member of due[s].     *)
(***************************************************************************)
EXTENDS SandboxStates, Naturals, FiniteSets

CONSTANTS
    Sandbox,            \* sandboxes, named by their place in (requested_at, id)
    Replicas,           \* processes of the manager
    Handlers,           \* POST requests that may be in progress at once
    MaxActive,          \* MAX_ACTIVE_SANDBOXES
    MaxQueue,           \* MAX_QUEUE
    DestroyMaxAttempts, \* DESTROY_MAX_ATTEMPTS
    Looping,            \* bound: the replicas whose reconciliation loop runs
    Elapsing,           \* bound: the deadlines that pass in the behaviours considered
    MaxFaults           \* bound: crashes, errors and container deaths of a behaviour

ASSUME ConstantsAssumption ==
    /\ IsFiniteSet(Sandbox) /\ Sandbox # {} /\ Sandbox \subseteq Nat
    /\ IsFiniteSet(Handlers) /\ Replicas # {} /\ Handlers \cap Replicas = {}
    /\ MaxActive \in Nat \ {0} /\ MaxQueue \in Nat \ {0}
    /\ DestroyMaxAttempts \in Nat \ {0}
    /\ MaxFaults \in Nat

VARIABLES
    (* The state database, shared by the replicas *)
    status,     \* status of each row
    due,        \* deadlines of the row that have passed
    attempts,   \* destroy_attempts of the row
    (* The container runtime *)
    runtime,    \* what exists for each sandbox
    (* Each replica's provisionings *)
    inFlight,   \* Scheduler.inFlight of each replica
    task,       \* next step of provisionSandbox for each sandbox
    (* Admission transactions *)
    admission,  \* stage of each caller of admit()
    free,       \* slots its transaction found free
    chosen,     \* rows its transaction is about to promote
    post,       \* each POST handler
    (* Each replica's reconciliation pass *)
    phase,      \* where the pass is
    judge,      \* sandboxes whose ready_at is before observedAt
    seen,       \* the listing of the runtime
    todo,       \* planned actions not started
    doing,      \* the action in progress, if any
    faults      \* faults so far

rowVars   == <<status, due, attempts>>
taskVars  == <<inFlight, task>>
admitVars == <<admission, free, chosen>>
passVars  == <<phase, judge, seen, todo, doing>>
vars == <<rowVars, runtime, taskVars, admitVars, post, passVars, faults>>

-----------------------------------------------------------------------------
Callers == Handlers \cup Replicas

Deadline == {"provision-timeout", "unclaimed", "idle", "max-lifetime"}
Reason == {"none", "container-lost", "stuck"} \cup Deadline

\* "network" is a network whose container is gone or not created yet.
RuntimeState == {"absent", "network", "container", "exited"}
Gone == {"absent", "network", "exited"}

TaskStep == {"none", "network", "container", "health", "record", "fail", "cleanup"}
Stage == {"none", "waiting", "counted", "selected"}
Phase == {"idle", "listing", "listed", "read", "acting", "degraded", "admitting"}
Step == {"reap", "fail", "expire", "begin", "clean", "destroy", "finish", "count", "giveup"}

\* One action of a plan, with the step of it that comes next.
Action == [id : Sandbox, step : Step, from : Status, why : Reason]

IdlePost == [pc |-> "idle"]
Post == {IdlePost} \cup [pc : {"checked", "admitting"}, at : Replicas, req : Sandbox]

With(S) == {s \in Sandbox : status[s] \in S}
Pending == With({"PENDING"})
Held == With(SlotStatuses)

\* The deadlines that can pass for a row in this status; the hard one is set
\* when the row is admitted.
Deadlines(st) ==
    CASE st \in {"absent", "PENDING"} -> {}
      [] st = "PROVISIONING" -> {"provision-timeout", "max-lifetime"}
      [] st = "READY"        -> {"unclaimed", "max-lifetime"}
      [] st = "ACTIVE"       -> {"idle", "max-lifetime"}
      [] OTHER               -> {"max-lifetime"}

Fault == faults < MaxFaults /\ faults' = faults + 1

-----------------------------------------------------------------------------
(***************************************************************************)
(* PgStore                                                                 *)
(***************************************************************************)

\* The effect of transition() when the row is still in the expected status.
SetStatus(s, to) ==
    /\ status' = [status EXCEPT ![s] = to]
    /\ due' = [due EXCEPT ![s] = @ \cap Deadlines(to)]
    /\ UNCHANGED attempts

\* A mistake the runs must catch: an update that does not compare.
Overwrite(s, from, to) == SetStatus(s, to)

\* transition(): a compare-and-set on the status; a loser changes nothing.
Transition(s, from, to) ==
    IF status[s] = from THEN SetStatus(s, to) ELSE UNCHANGED rowVars

-----------------------------------------------------------------------------
(***************************************************************************)
(* POST /sandboxes: Scheduler.request and the admission it triggers        *)
(***************************************************************************)

\* A mistake the runs must catch: the length of the queue is not looked at.
PostUnchecked(h, r, s) ==
    /\ post[h].pc = "idle" /\ status[s] = "absent"
    /\ post' = [post EXCEPT ![h] = [pc |-> "checked", at |-> r, req |-> s]]
    /\ UNCHANGED <<rowVars, runtime, taskVars, admitVars, passVars, faults>>

\* getByRequestId and queueLength.  A request that exists, or a full queue,
\* is answered at once and changes nothing.
PostCheck(h, r, s) ==
    /\ post[h].pc = "idle"
    /\ status[s] = "absent"
    /\ Cardinality(Pending) < MaxQueue
    /\ post' = [post EXCEPT ![h] = [pc |-> "checked", at |-> r, req |-> s]]
    /\ UNCHANGED <<rowVars, runtime, taskVars, admitVars, passVars, faults>>

\* PgStore.create: the insert, or the row another request already created.
PostCreate(h) ==
    LET s == post[h].req IN
    /\ post[h].pc = "checked"
    /\ IF status[s] = "absent"
       THEN /\ SetStatus(s, "PENDING")
            /\ post' = [post EXCEPT ![h] = [pc |-> "admitting", at |-> @.at, req |-> s]]
            /\ admission' = [admission EXCEPT ![h] = "waiting"]
       ELSE /\ post' = [post EXCEPT ![h] = IdlePost]
            /\ UNCHANGED <<rowVars, admission>>
    /\ UNCHANGED <<runtime, taskVars, free, chosen, passVars, faults>>

\* admit() returns or throws: the caller's request, or its pass, is over.
EndAdmission(c) ==
    /\ admission' = [admission EXCEPT ![c] = "none"]
    /\ free' = [free EXCEPT ![c] = 0]
    /\ chosen' = [chosen EXCEPT ![c] = {}]
    /\ post' = IF c \in Handlers THEN [post EXCEPT ![c] = IdlePost] ELSE post
    /\ phase' = IF c \in Replicas THEN [phase EXCEPT ![c] = "idle"] ELSE phase

\* A mistake the runs must catch: no advisory lock.
NoAdvisoryLock == TRUE

AdmissionLockFree == \A c \in Callers : admission[c] \in {"none", "waiting"}

\* Takes the advisory lock and counts the slots.
AdmitCount(c) ==
    /\ admission[c] = "waiting"
    /\ AdmissionLockFree
    /\ IF Cardinality(Held) < MaxActive
       THEN /\ admission' = [admission EXCEPT ![c] = "counted"]
            /\ free' = [free EXCEPT ![c] = MaxActive - Cardinality(Held)]
            /\ UNCHANGED <<chosen, post, phase>>
       ELSE EndAdmission(c)
    /\ UNCHANGED <<rowVars, runtime, taskVars, judge, seen, todo, doing, faults>>

\* The snapshot of the promoting statement: the oldest PENDING rows.
AdmitSelect(c) ==
    /\ admission[c] = "counted"
    /\ \E S \in SUBSET Pending :
          /\ Cardinality(S) <= free[c]
          /\ S # Pending => Cardinality(S) = free[c]
          /\ \A s \in S, t \in Pending \ S : s < t
          /\ chosen' = [chosen EXCEPT ![c] = S]
    /\ admission' = [admission EXCEPT ![c] = "selected"]
    /\ UNCHANGED <<rowVars, runtime, taskVars, free, post, passVars, faults>>

ReplicaOf(c) == IF c \in Handlers THEN post[c].at ELSE c

\* A mistake the runs must catch: the rows are returned without being updated.
PromoteNothing(c) == UNCHANGED rowVars

Promote(c) ==
    /\ status' = [s \in Sandbox |-> IF s \in chosen[c] THEN "PROVISIONING" ELSE status[s]]
    /\ UNCHANGED <<due, attempts>>

\* Updates the rows and commits.  The update does not test the status again,
\* but its entry in sandbox_transitions is numbered from the snapshot: if a row
\* was released meanwhile, the number is taken and the transaction rolls back.
AdmitCommit(c) ==
    /\ admission[c] = "selected"
    /\ IF chosen[c] \subseteq Pending
       THEN /\ Promote(c)
            /\ inFlight' = [inFlight EXCEPT ![ReplicaOf(c)] = @ \cup chosen[c]]
            /\ task' = [s \in Sandbox |-> IF s \in chosen[c] THEN "network" ELSE task[s]]
       ELSE UNCHANGED <<rowVars, taskVars>>
    /\ EndAdmission(c)
    /\ UNCHANGED <<runtime, judge, seen, todo, doing, faults>>

\* The database fails: the transaction rolls back, or it committed and the
\* reply was lost, and then nobody provisions the promoted rows.
AdmitFault(c) ==
    /\ admission[c] # "none"
    /\ Fault
    /\ \/ UNCHANGED rowVars
       \/ admission[c] = "selected" /\ chosen[c] \subseteq Pending /\ Promote(c)
    /\ EndAdmission(c)
    /\ UNCHANGED <<runtime, taskVars, judge, seen, todo, doing>>

-----------------------------------------------------------------------------
(***************************************************************************)
(* provisionSandbox and the DockerProvider calls it makes                  *)
(***************************************************************************)

TaskMoves(s, to) ==
    /\ task' = [task EXCEPT ![s] = to]
    /\ inFlight' = IF to = "none" THEN [r \in Replicas |-> inFlight[r] \ {s}]
                                  ELSE inFlight

CreateNetwork(s) ==
    /\ task[s] = "network"
    /\ TaskMoves(s, "container")
    /\ runtime' = [runtime EXCEPT ![s] = IF @ = "absent" THEN "network" ELSE @]
    /\ UNCHANGED <<rowVars, admitVars, post, passVars, faults>>

\* createContainer, connectNetwork and startContainer.  Without its network
\* the container does not start, and may or may not have been created.
CreateContainer(s) ==
    /\ task[s] = "container"
    /\ \/ /\ runtime[s] # "absent"
          /\ TaskMoves(s, "health")
          /\ runtime' = [runtime EXCEPT ![s] = "container"]
       \/ /\ runtime[s] = "absent"
          /\ TaskMoves(s, "fail")
          /\ \E left \in {"absent", "container"} : runtime' = [runtime EXCEPT ![s] = left]
    /\ UNCHANGED <<rowVars, admitVars, post, passVars, faults>>

\* waitHealthy: healthy; or gone, exited or still not healthy at its deadline,
\* which the record tells of only while it is PROVISIONING.
WaitHealthy(s) ==
    /\ task[s] = "health"
    /\ \/ runtime[s] = "container" /\ TaskMoves(s, "record")
       \/ runtime[s] # "container" /\ TaskMoves(s, "fail")
       \/ /\ "provision-timeout" \in due[s] \/ status[s] # "PROVISIONING"
          /\ TaskMoves(s, "fail")
    /\ UNCHANGED <<rowVars, runtime, admitVars, post, passVars, faults>>

\* A call to the runtime fails while the container is being built.  One that
\* took effect and then failed is the fault of the step after it.
ProvisionFault(s) ==
    /\ task[s] \in {"network", "container", "health"}
    /\ Fault
    /\ TaskMoves(s, "fail")
    /\ UNCHANGED <<rowVars, runtime, admitVars, post, passVars>>

\* The compare-and-set to READY; a record that left PROVISIONING meanwhile
\* keeps what it became, and its container is left to the loop.
RecordReady(s) ==
    /\ task[s] = "record"
    /\ Transition(s, "PROVISIONING", "READY")
    /\ TaskMoves(s, "none")
    /\ UNCHANGED <<runtime, admitVars, post, passVars, faults>>

\* The same with an error from the database, whether or not it took effect:
\* the catch block takes the sandbox for one that failed to build.
RecordReadyFault(s) ==
    /\ task[s] = "record"
    /\ Fault
    /\ UNCHANGED rowVars \/ Transition(s, "PROVISIONING", "READY")
    /\ TaskMoves(s, "fail")
    /\ UNCHANGED <<runtime, admitVars, post, passVars>>

RecordFailed(s) ==
    /\ task[s] = "fail"
    /\ Transition(s, "PROVISIONING", "FAILED")
    /\ TaskMoves(s, "cleanup")
    /\ UNCHANGED <<runtime, admitVars, post, passVars, faults>>

\* The outcome cannot be recorded: the container stays, and so does the
\* record, until the loop fails it as stuck.
RecordFailedFault(s) ==
    /\ task[s] = "fail"
    /\ Fault
    /\ TaskMoves(s, "none")
    /\ UNCHANGED <<rowVars, runtime, admitVars, post, passVars>>

\* provider.destroy: it removes the container, then the network.
Destroy(s) == runtime' = [runtime EXCEPT ![s] = "absent"]

\* It may fail before or after the container is gone.
DestroyFails(s) ==
    /\ Fault
    /\ \/ UNCHANGED runtime
       \/ /\ runtime[s] \in {"container", "exited"}
          /\ runtime' = [runtime EXCEPT ![s] = "network"]

\* The best-effort destroy after a failure to build.
CleanUp(s) ==
    /\ task[s] = "cleanup"
    /\ \/ Destroy(s) /\ UNCHANGED faults
       \/ DestroyFails(s)
    /\ TaskMoves(s, "none")
    /\ UNCHANGED <<rowVars, admitVars, post, passVars>>

Provisioning(s) ==
    \/ CreateNetwork(s) \/ CreateContainer(s) \/ WaitHealthy(s)
    \/ RecordReady(s) \/ RecordFailed(s) \/ CleanUp(s)

-----------------------------------------------------------------------------
(***************************************************************************)
(* Heartbeats and DELETE: Scheduler.heartbeat and Scheduler.release        *)
(***************************************************************************)

\* Both read the record and then compare-and-set the status they read, and
\* read again when it has changed meanwhile, so that each takes effect in one
\* step or not at all.  (RequestRetries is about the requests that give up.)

\* The first heartbeat claims a READY sandbox, the next ones push the idle
\* deadline back.  In any other status it is a conflict.
Heartbeat(s) ==
    /\ status[s] \in {"READY", "ACTIVE"}
    /\ status' = [status EXCEPT ![s] = "ACTIVE"]
    /\ due' = [due EXCEPT ![s] = (@ \cap Deadlines("ACTIVE")) \ {"idle"}]
    /\ UNCHANGED <<attempts, runtime, taskVars, admitVars, post, passVars, faults>>

\* Queued, the sandbox is dropped; otherwise it goes to EXPIRING, for the
\* loop to tear down.  One that is on its way out is returned as it is.
Release(s) ==
    /\ status[s] \in Releasable
    /\ SetStatus(s, IF status[s] = "PENDING" THEN "DESTROYED" ELSE "EXPIRING")
    /\ UNCHANGED <<runtime, taskVars, admitVars, post, passVars, faults>>

-----------------------------------------------------------------------------
(***************************************************************************)
(* Reconciler.pass                                                         *)
(***************************************************************************)

\* A pass starts and takes observedAt.  A sandbox counts as ready from the
\* moment provisioning took ready_at, just before it was recorded.
BeginPass(r) ==
    /\ r \in Looping
    /\ phase[r] = "idle"
    /\ phase' = [phase EXCEPT ![r] = "listing"]
    /\ judge' = [judge EXCEPT ![r] =
                    {s \in Sandbox : status[s] \in {"READY", "ACTIVE"} \/ task[s] = "record"}]
    /\ UNCHANGED <<rowVars, runtime, taskVars, admitVars, post, seen, todo, doing, faults>>

\* provider.list().
ListRuntime(r) ==
    /\ phase[r] = "listing"
    /\ phase' = [phase EXCEPT ![r] = "listed"]
    /\ seen' = [seen EXCEPT ![r] = runtime]
    /\ UNCHANGED <<rowVars, runtime, taskVars, admitVars, post, judge, todo, doing, faults>>

Unseen == [s \in Sandbox |-> "absent"]

Plan(id, step, from, why) == [id |-> id, step |-> step, from |-> from, why |-> why]

\* Mistakes the runs must catch: a record does not own its container before it
\* is ready; orphans are nobody's business.
UnreadyOrphans(r) ==
    {Plan(s, "reap", "absent", "none") :
        s \in {x \in Sandbox : seen[r][x] # "absent" /\ status[x] \notin Live \ {"PROVISIONING"}}}

NoOrphans(r) == {}

\* In the listing, and without a live record.
Orphans(r) ==
    {Plan(s, "reap", "absent", "none") :
        s \in {x \in Sandbox : seen[r][x] # "absent" /\ status[x] \notin Live}}

\* A mistake the runs must catch: ready_at is not compared with observedAt.
LostUnjudged(r) == {s \in With({"READY", "ACTIVE"}) : seen[r][s] \in Gone}

\* READY or ACTIVE, and already ready when a listing that lacks its
\* container began.
Lost(r) ==
    {s \in With({"READY", "ACTIVE"}) : s \in judge[r] /\ seen[r][s] \in Gone}

LossesOf(r) == {Plan(s, "fail", status[s], "container-lost") : s \in Lost(r)}

\* expiry(): the hard deadline first, then the one of the status.
Expiry(s) ==
    IF "max-lifetime" \in due[s] THEN "max-lifetime"
    ELSE IF status[s] = "READY" /\ "unclaimed" \in due[s] THEN "unclaimed"
    ELSE IF status[s] = "ACTIVE" /\ "idle" \in due[s] THEN "idle" ELSE "none"

Expiries(r) ==
    {Plan(s, "expire", status[s], Expiry(s)) :
        s \in {x \in With({"READY", "ACTIVE"}) \ Lost(r) : Expiry(x) # "none"}}

\* A mistake the runs must catch: no provisioning is ever taken for stuck.
NoneTimedOut == {}

TimedOut ==
    {Plan(s, "fail", "PROVISIONING", "stuck") :
        s \in {x \in With({"PROVISIONING"}) : "provision-timeout" \in due[x]}}

Teardowns ==
    {Plan(s, IF status[s] = "EXPIRING" THEN "begin" ELSE "destroy", status[s], "none") :
        s \in With({"EXPIRING", "DESTROYING"})}

\* listLive(), after the listing, and the plan made from its answer.
ReadRecords(r) ==
    /\ phase[r] = "listed"
    /\ phase' = [phase EXCEPT ![r] = "read"]
    /\ todo' = [todo EXCEPT ![r] = Orphans(r) \cup LossesOf(r) \cup Expiries(r)
                                   \cup TimedOut \cup Teardowns]
    /\ judge' = [judge EXCEPT ![r] = {}]
    /\ seen' = [seen EXCEPT ![r] = Unseen]
    /\ UNCHANGED <<rowVars, runtime, taskVars, admitVars, post, doing, faults>>

\* The rest of planReconcile, which looks at the provisionings of this
\* process only once the records have arrived, and leaves those alone.
PlanPass(r) ==
    /\ phase[r] = "read"
    /\ phase' = [phase EXCEPT ![r] = "acting"]
    /\ todo' = [todo EXCEPT ![r] = {a \in @ : ~(a.why = "stuck" /\ a.id \in inFlight[r])}]
    /\ UNCHANGED <<rowVars, runtime, taskVars, admitVars, post, judge, seen, doing, faults>>

\* The database is down: only what is past the deadline on its label goes.
PlanDegraded(r) ==
    /\ phase[r] = "listed"
    /\ Fault
    /\ phase' = [phase EXCEPT ![r] = "degraded"]
    /\ todo' = [todo EXCEPT ![r] =
          {Plan(s, "reap", "absent", "none") :
              s \in {x \in Sandbox : seen[r][x] # "absent" /\ "max-lifetime" \in due[x]}}]
    /\ judge' = [judge EXCEPT ![r] = {}]
    /\ seen' = [seen EXCEPT ![r] = Unseen]
    /\ UNCHANGED <<rowVars, runtime, taskVars, admitVars, post, doing>>

\* a is the action in progress, or one to start with none in progress.
Current(r, a) ==
    /\ phase[r] \in {"acting", "degraded"}
    /\ IF doing[r] = {} THEN a \in todo[r] ELSE a \in doing[r]

\* The action goes on to the steps in next: none when it is over.
Proceed(r, a, next) ==
    /\ todo' = [todo EXCEPT ![r] = @ \ {a}]
    /\ doing' = [doing EXCEPT ![r] = next]
    /\ UNCHANGED <<taskVars, admitVars, post, phase, judge, seen>>

Then(a, step) == {Plan(a.id, step, a.from, a.why)}

\* A step that is a compare-and-set: it goes on only if the row moved.
Compare(r, a, from, to, step) ==
    /\ Transition(a.id, from, to)
    /\ Proceed(r, a, IF status[a.id] = from THEN Then(a, step) ELSE {})
    /\ UNCHANGED <<runtime, faults>>

Reap(r, a) ==
    /\ Current(r, a) /\ a.step = "reap"
    /\ Destroy(a.id)
    /\ Proceed(r, a, {})
    /\ UNCHANGED <<rowVars, faults>>

FailRecord(r, a) ==
    /\ Current(r, a) /\ a.step = "fail"
    /\ Compare(r, a, a.from, "FAILED", "clean")

\* Whatever is left of a failed sandbox goes now.
DestroyFailed(r, a) ==
    /\ Current(r, a) /\ a.step = "clean"
    /\ Destroy(a.id)
    /\ Proceed(r, a, {})
    /\ UNCHANGED <<rowVars, faults>>

Expire(r, a) ==
    /\ Current(r, a) /\ a.step = "expire"
    /\ Compare(r, a, a.from, "EXPIRING", "begin")

BeginTeardown(r, a) ==
    /\ Current(r, a) /\ a.step = "begin"
    /\ Compare(r, a, "EXPIRING", "DESTROYING", "destroy")

TeardownDestroy(r, a) ==
    /\ Current(r, a) /\ a.step = "destroy"
    /\ \/ Destroy(a.id) /\ Proceed(r, a, Then(a, "finish")) /\ UNCHANGED faults
       \/ DestroyFails(a.id) /\ Proceed(r, a, Then(a, "count"))
    /\ UNCHANGED rowVars

FinishTeardown(r, a) ==
    /\ Current(r, a) /\ a.step = "finish"
    /\ Transition(a.id, "DESTROYING", "DESTROYED")
    /\ Proceed(r, a, {})
    /\ UNCHANGED <<runtime, faults>>

\* recordDestroyFailure counts on a DESTROYING row only, and returns 0 for
\* any other; below the limit the next pass tries again.
CountDestroyFailure(r, a) ==
    LET s == a.id
        total == IF status[s] = "DESTROYING" THEN attempts[s] + 1 ELSE 0
    IN
    /\ Current(r, a) /\ a.step = "count"
    /\ attempts' = IF status[s] = "DESTROYING" THEN [attempts EXCEPT ![s] = total] ELSE attempts
    /\ Proceed(r, a, IF total < DestroyMaxAttempts THEN {} ELSE Then(a, "giveup"))
    /\ UNCHANGED <<status, due, runtime, faults>>

\* Gives up on the record; the container is an orphan from now on.
GiveUp(r, a) ==
    /\ Current(r, a) /\ a.step = "giveup"
    /\ Transition(a.id, "DESTROYING", "FAILED")
    /\ Proceed(r, a, {})
    /\ UNCHANGED <<runtime, faults>>

\* An action fails on the runtime or on the database; the pass goes on with
\* the others, and the next one retries it.
ActionFault(r, a) ==
    /\ Current(r, a)
    /\ \/ a.step \in {"reap", "clean"} /\ DestroyFails(a.id)
       \/ a.step \notin {"reap", "clean", "destroy"} /\ Fault /\ UNCHANGED runtime
    /\ Proceed(r, a, {})
    /\ UNCHANGED rowVars

\* A mistake the runs must catch: a pass does not admit from the queue.
FinishWithoutAdmission(r) ==
    /\ phase[r] \in {"acting", "degraded"} /\ todo[r] = {} /\ doing[r] = {}
    /\ phase' = [phase EXCEPT ![r] = "idle"]
    /\ UNCHANGED <<rowVars, runtime, taskVars, admitVars, post, judge, seen, todo, doing, faults>>

\* After its actions a pass admits from the queue; a degraded one is over.
FinishActions(r) ==
    /\ phase[r] \in {"acting", "degraded"}
    /\ todo[r] = {} /\ doing[r] = {}
    /\ IF phase[r] = "acting"
       THEN /\ phase' = [phase EXCEPT ![r] = "admitting"]
            /\ admission' = [admission EXCEPT ![r] = "waiting"]
       ELSE /\ phase' = [phase EXCEPT ![r] = "idle"]
            /\ UNCHANGED admission
    /\ UNCHANGED <<rowVars, runtime, taskVars, free, chosen, post, judge, seen, todo,
                   doing, faults>>

Act(r, a) ==
    \/ Reap(r, a) \/ FailRecord(r, a) \/ DestroyFailed(r, a) \/ Expire(r, a)
    \/ BeginTeardown(r, a) \/ TeardownDestroy(r, a) \/ FinishTeardown(r, a)
    \/ CountDestroyFailure(r, a) \/ GiveUp(r, a)

ListFault(r) ==
    /\ phase[r] = "listing"
    /\ Fault
    /\ phase' = [phase EXCEPT ![r] = "idle"]
    /\ judge' = [judge EXCEPT ![r] = {}]
    /\ UNCHANGED <<rowVars, runtime, taskVars, admitVars, post, seen, todo, doing>>

-----------------------------------------------------------------------------
(***************************************************************************)
(* The environment                                                         *)
(***************************************************************************)

\* A deadline of the record passes.
Elapse(s, d) ==
    /\ d \in (Elapsing \cap Deadlines(status[s])) \ due[s]
    /\ due' = [due EXCEPT ![s] = @ \cup {d}]
    /\ UNCHANGED <<status, attempts, runtime, taskVars, admitVars, post, passVars, faults>>

\* A container exits, or is removed from outside.
ContainerDies(s) ==
    /\ runtime[s] = "container"
    /\ Fault
    /\ \E left \in {"exited", "network"} : runtime' = [runtime EXCEPT ![s] = left]
    /\ UNCHANGED <<rowVars, taskVars, admitVars, post, passVars>>

\* A replica dies and starts again: its requests, its provisionings, its
\* pass and its open transaction are gone.
Crash(r) ==
    LET mine == {h \in Handlers : post[h].pc # "idle" /\ post[h].at = r} \cup {r} IN
    /\ Fault
    /\ post' = [h \in Handlers |-> IF h \in mine THEN IdlePost ELSE post[h]]
    /\ admission' = [c \in Callers |-> IF c \in mine THEN "none" ELSE admission[c]]
    /\ free' = [c \in Callers |-> IF c \in mine THEN 0 ELSE free[c]]
    /\ chosen' = [c \in Callers |-> IF c \in mine THEN {} ELSE chosen[c]]
    /\ task' = [s \in Sandbox |-> IF s \in inFlight[r] THEN "none" ELSE task[s]]
    /\ inFlight' = [inFlight EXCEPT ![r] = {}]
    /\ phase' = [phase EXCEPT ![r] = "idle"]
    /\ judge' = [judge EXCEPT ![r] = {}]
    /\ seen' = [seen EXCEPT ![r] = Unseen]
    /\ todo' = [todo EXCEPT ![r] = {}]
    /\ doing' = [doing EXCEPT ![r] = {}]
    /\ UNCHANGED <<rowVars, runtime>>

-----------------------------------------------------------------------------
Init ==
    /\ status = [s \in Sandbox |-> "absent"]
    /\ due = [s \in Sandbox |-> {}]
    /\ attempts = [s \in Sandbox |-> 0]
    /\ runtime = Unseen
    /\ inFlight = [r \in Replicas |-> {}]
    /\ task = [s \in Sandbox |-> "none"]
    /\ admission = [c \in Callers |-> "none"]
    /\ free = [c \in Callers |-> 0]
    /\ chosen = [c \in Callers |-> {}]
    /\ post = [h \in Handlers |-> IdlePost]
    /\ phase = [r \in Replicas |-> "idle"]
    /\ judge = [r \in Replicas |-> {}]
    /\ seen = [r \in Replicas |-> Unseen]
    /\ todo = [r \in Replicas |-> {}]
    /\ doing = [r \in Replicas |-> {}]
    /\ faults = 0

Admission(c) == AdmitCount(c) \/ AdmitSelect(c) \/ AdmitCommit(c)

Posting ==
    \E h \in Handlers :
        \/ \E r \in Replicas, s \in Sandbox : PostCheck(h, r, s)
        \/ PostCreate(h)

\* The pass of one replica, up to the admission that ends it.
Pass(r) ==
    \/ BeginPass(r) \/ ListRuntime(r) \/ ReadRecords(r) \/ PlanPass(r) \/ FinishActions(r)
    \/ \E a \in todo[r] \cup doing[r] : Act(r, a)

Faults ==
    \/ \E c \in Callers : AdmitFault(c)
    \/ \E s \in Sandbox :
          ProvisionFault(s) \/ RecordReadyFault(s) \/ RecordFailedFault(s) \/ ContainerDies(s)
    \/ \E r \in Replicas :
          \/ PlanDegraded(r) \/ ListFault(r) \/ Crash(r)
          \/ \E a \in todo[r] \cup doing[r] : ActionFault(r, a)

Next ==
    \/ Posting
    \/ \E c \in Callers : Admission(c)
    \/ \E s \in Sandbox : Provisioning(s) \/ Heartbeat(s) \/ Release(s)
    \/ \E r \in Replicas : Pass(r)
    \/ \E s \in Sandbox, d \in Deadline : Elapse(s, d)
    \/ Faults

Spec == Init /\ [][Next]_vars

\* Timers fire, promises settle and time passes; clients, crashes and errors
\* are under no obligation.  An admission may lose the lock to others for
\* ever, but not all of them can.
Fairness ==
    /\ \A h \in Handlers : WF_vars(PostCreate(h))
    /\ WF_vars(\E c \in Callers : Admission(c))
    /\ \A s \in Sandbox : WF_vars(Provisioning(s))
    /\ \A r \in Replicas : WF_vars(Pass(r))
    /\ \A s \in Sandbox : WF_vars(\E d \in {"provision-timeout", "max-lifetime"} : Elapse(s, d))

FairSpec == Spec /\ Fairness

-----------------------------------------------------------------------------
(***************************************************************************)
(* Safety                                                                  *)
(***************************************************************************)

\* Every variable holds what the code could hold.
TypeOK ==
    /\ status \in [Sandbox -> Status]
    /\ due \in [Sandbox -> SUBSET Deadline]
    /\ attempts \in [Sandbox -> Nat]
    /\ runtime \in [Sandbox -> RuntimeState]
    /\ inFlight \in [Replicas -> SUBSET Sandbox]
    /\ task \in [Sandbox -> TaskStep]
    /\ admission \in [Callers -> Stage]
    /\ free \in [Callers -> 0..MaxActive]
    /\ chosen \in [Callers -> SUBSET Sandbox]
    /\ post \in [Handlers -> Post]
    /\ phase \in [Replicas -> Phase]
    /\ judge \in [Replicas -> SUBSET Sandbox]
    /\ seen \in [Replicas -> [Sandbox -> RuntimeState]]
    /\ todo \in [Replicas -> SUBSET Action]
    /\ doing \in [Replicas -> SUBSET Action]
    /\ faults \in 0..MaxFaults

\* MAX_ACTIVE_SANDBOXES is never exceeded, whoever admits and whatever
\* fails meanwhile ("one admission at a time, across every replica").
SlotLimit == Cardinality(Held) <= MaxActive

\* The queue overshoots MAX_QUEUE by less than the number of requests in
\* progress at once, although the check is not atomic with the insert.
QueueBound == Cardinality(Pending) < MaxQueue + Cardinality(Handlers)

\* What is on the runtime was created for a row that left the queue first:
\* the record moves to PROVISIONING before its container is created.
ContainersAreRecorded ==
    \A s \in Sandbox : runtime[s] # "absent" => status[s] \notin {"absent", "PENDING"}

\* A pass with the database up takes for an orphan only what belongs to a
\* sandbox that has ended, although the listing and the records are read at
\* different moments and provisioning goes on meanwhile.
OrphansHaveEnded ==
    \A r \in Replicas : phase[r] \in {"read", "acting"} =>
        \A a \in todo[r] \cup doing[r] : a.step = "reap" => status[a.id] \in Terminal

\* A record about to be failed as container-lost, by a compare-and-set that
\* would succeed, has indeed lost its container.
LossIsReal ==
    \A r \in Replicas : \A a \in todo[r] \cup doing[r] :
        (a.step = "fail" /\ a.why = "container-lost" /\ status[a.id] = a.from)
            => runtime[a.id] \in Gone

\* No replica fails as stuck a provisioning that it is itself running.
OwnProvisioningIsNotStuck ==
    \A r \in Replicas : phase[r] = "acting" =>
        \A a \in todo[r] \cup doing[r] :
            (a.step = "fail" /\ a.why = "stuck" /\ status[a.id] = "PROVISIONING")
                => a.id \notin inFlight[r]

\* Whatever a pass is about to fail has failed: a plan made from two reads at
\* different moments is still right when it is carried out.
FailuresAreReal == LossIsReal /\ OwnProvisioningIsNotStuck

\* What a pass ends for its hard deadline, or for never being claimed, is
\* past that deadline when it ends and not only when the plan was made: a
\* first heartbeat and the loop cannot both win.
Expires(why) ==
    \E r \in Replicas : \E a \in todo[r] \cup doing[r] :
        /\ Expire(r, a) /\ a.why = why
        /\ status'[a.id] # status[a.id]
        /\ why \notin due[a.id]

DeadlinesHold == [][~Expires("max-lifetime") /\ ~Expires("unclaimed")]_vars

\* The same of the idle deadline, which a heartbeat pushes back.
IdleDeadlineHolds == [][~Expires("idle")]_vars

\* No more containers exist than sandboxes may be active.
ContainersWithinLimit ==
    Cardinality({s \in Sandbox : runtime[s] \in {"container", "exited"}}) <= MaxActive

\* Every change of a status is one that the state machine allows, the ones
\* of the admission statement included, which does not go through
\* assertTransition; in particular nothing ended ever comes back.
LegalTransitions ==
    [][\A s \in Sandbox :
          status'[s] # status[s] => status'[s] \in Transitions[status[s]]]_vars

\* The manager keeps the promises of SandboxLifecycle.
StageOf(st) ==
    CASE st = "absent"         -> "absent"
      [] st = "PENDING"        -> "queued"
      [] st \in SlotStatuses   -> "held"
      [] OTHER                 -> "ended"

Stages == [s \in Sandbox |-> StageOf(status[s])]

Lifecycle == INSTANCE SandboxLifecycle WITH stage <- Stages
ImplementsLifecycle == Lifecycle!Spec

-----------------------------------------------------------------------------
(***************************************************************************)
(* Liveness                                                                *)
(***************************************************************************)

\* Every sandbox that took a slot gives it back: nothing stays provisioning,
\* ready, in use or half torn down, not even after a crash.
SlotsAreFreed == \A s \in Sandbox : s \in Held ~> status[s] \in Terminal

\* No request waits in the queue for ever.
QueueDrains == \A s \in Sandbox : status[s] = "PENDING" ~> status[s] # "PENDING"

\* Once a sandbox has ended, what the runtime holds of it goes, and stays gone.
OrphansConverge == \A s \in Sandbox : status[s] \in Terminal ~> [](runtime[s] = "absent")

==============================================================================
