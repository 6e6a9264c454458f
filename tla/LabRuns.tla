-------------------------------- MODULE LabRuns --------------------------------
(***************************************************************************)
(* The T2 lab runs of one session of the API (apps/api/src/labs).  A run is*)
(* a row of the control database bound to a sandbox of the manager, which  *)
(* the API asks for, claims, uses and releases by HTTP, and whose status   *)
(* it mirrors; a watcher polls the manager, which cannot push.             *)
(*                                                                         *)
(* An action is what happens between two awaits.  The manager is external: *)
(* its sandboxes move as SandboxManager and SandboxStates say, seen through*)
(* liveStatusOf.                                                           *)
(***************************************************************************)
EXTENDS Naturals

CONSTANTS
    Run,            \* lab runs of the session, one after another
    Calls,          \* requests of the session in progress at once
    MaxCalls,       \* bound: requests of a behaviour
    MaxFaults       \* bound: crashes and errors of a behaviour

\* What the constants must be (assumed by the instance).
LabRunsAssumption ==
    /\ "watcher" \notin Calls
    /\ MaxCalls \in Nat /\ MaxFaults \in Nat

VARIABLES
    row,        \* the row of each run
    mirror,     \* its status: the last one seen from the manager
    box,        \* the sandbox of each run, at the manager
    active,     \* is the session active?
    call,       \* where each request is, and the watcher
    todo,       \* the rows the watcher has read and not dealt with
    calls,      \* requests so far
    faults      \* faults so far

vars == <<row, mirror, box, active, call, todo, calls, faults>>

-----------------------------------------------------------------------------
LiveStatus == {"PENDING", "PROVISIONING", "READY", "ACTIVE"}
Usable == {"READY", "ACTIVE"}
Box == LiveStatus \cup {"none", "ended"}

\* A row is unbound until the manager has accepted the request.
Row == {"absent", "unbound", "bound", "gone"}
Current == {r \in Run : row[r] \in {"unbound", "bound"}}

Caller == Calls \cup {"watcher"}

\* "starting" is a start that has inserted its run: from there, an error is
\* caught and deletes it.
Op == {"start", "starting", "status", "claim", "release", "use", "watch"}
At == {"insert", "request", "bind", "get", "beat", "update", "release", "delete", "undo"}

\* A call in progress: the run it is about, and the status it goes by: the one
\* in the row as it was read, then the manager's answer.
Over == [at |-> "over"]
Starting == [op |-> "start", at |-> "insert"]
Call ==
    {Over, Starting}
        \cup [op : Op, at : At, id : Run, st : LiveStatus]

Fault == faults < MaxFaults /\ faults' = faults + 1

Becomes(c, to) == call' = [call EXCEPT ![c] = to]
Goes(c, at) == Becomes(c, [call[c] EXCEPT !.at = at])
Writes(c, at, st) == Becomes(c, [call[c] EXCEPT !.at = at, !.st = st])
Ends(c) == Becomes(c, Over)

\* What finish() and the catch block of start do needs no status.
Leaves(c, at) == Writes(c, at, "PENDING")

\* A call that has read the row of r.
Reading(op, at, r) ==
    [op |-> op, at |-> at, id |-> r, st |-> mirror[r]]

-----------------------------------------------------------------------------
(***************************************************************************)
(* Requests                                                                *)
(***************************************************************************)

\* start, status, claim, release, and acquire, which finds a connection or
\* asks for it.  The guard lets an active session in; the browser claims a
\* run that it has seen ready, and asks again for one without a sandbox.
Begin(c) ==
    /\ active /\ call[c] = Over
    /\ calls < MaxCalls /\ calls' = calls + 1
    /\ \/ Current = {} /\ Becomes(c, Starting)
       \/ \E r \in Current :
             \/ /\ row[r] = "bound"
                /\ \E op \in {"start", "status"} : Becomes(c, Reading(op, "get", r))
             \/ /\ row[r] = "bound"
                /\ box[r] \in Usable \cup {"ended"}
                /\ Becomes(c, Reading("claim", "beat", r))
             \/ Becomes(c, [op |-> "release", id |-> r, st |-> "PENDING",
                            at |-> IF row[r] = "bound" THEN "release" ELSE "delete"])
             \/ /\ row[r] = "bound" /\ mirror[r] \in Usable
                /\ \E at \in {"get", "beat"} : Becomes(c, Reading("use", at, r))
    /\ UNCHANGED <<row, mirror, box, active, todo, faults>>

Inserted(r) == [op |-> "starting", at |-> "request", id |-> r, st |-> "PENDING"]

\* The client is over its limit, the session has a run by now, or a new one
\* is inserted.
Insert(c) ==
    /\ call[c].at = "insert"
    /\ \/ Ends(c) /\ UNCHANGED <<row, mirror>>
       \/ /\ Current = {}
          /\ \E r \in Run :
                /\ row[r] = "absent"
                /\ row' = [row EXCEPT ![r] = "unbound"]
                /\ mirror' = [mirror EXCEPT ![r] = "PENDING"]
                /\ Becomes(c, Inserted(r))
    /\ UNCHANGED <<box, active, todo, calls, faults>>

\* POST /sandboxes: the queue is full, or the sandbox waits or is admitted.
Request(c) ==
    LET r == call[c].id IN
    /\ call[c].at = "request"
    /\ \/ Leaves(c, "undo") /\ UNCHANGED box
       \/ \E st \in {"PENDING", "PROVISIONING"} :
             /\ box' = [box EXCEPT ![r] = st]
             /\ Writes(c, "bind", st)
    /\ UNCHANGED <<row, mirror, active, todo, calls, faults>>

\* sync(): an ended sandbox ends the run, a new status is written.
Sync(c, seen, ans) ==
    \/ ans = "ended" /\ Leaves(c, "delete")
    \/ ans = seen /\ Ends(c)
    \/ ans \in LiveStatus \ {seen} /\ Writes(c, "update", ans)

Bind(c) ==
    LET r == call[c].id IN
    /\ call[c].at = "bind"
    /\ \/ /\ row[r] = "unbound"
          /\ row' = [row EXCEPT ![r] = "bound"]
          /\ Sync(c, mirror[r], call[c].st)
       \/ row[r] = "gone" /\ UNCHANGED row /\ Leaves(c, "undo")
    /\ UNCHANGED <<mirror, box, active, todo, calls, faults>>

\* A mistake the runs must catch: no answer is taken for no sandbox.
GetOrGiveUp(c) ==
    /\ call[c].at = "get"
    /\ \/ call[c].op # "use" /\ Sync(c, call[c].st, box[call[c].id]) /\ UNCHANGED faults
       \/ Fault /\ Leaves(c, "delete")
    /\ UNCHANGED <<row, mirror, box, active, todo, calls>>

\* GET /sandboxes/:id.  A use goes on to its work, and to a heartbeat if the
\* last one was a while ago.  Status leaves a sandbox the manager has
\* forgotten to the others.
Get(c) ==
    LET ans == box[call[c].id] IN
    /\ call[c].at = "get"
    /\ \/ call[c].op # "use" /\ Sync(c, call[c].st, ans)
       \/ call[c].op = "status" /\ ans = "ended" /\ Ends(c)
       \/ call[c].op = "use" /\ ans = "ended" /\ Leaves(c, "delete")
       \/ call[c].op = "use" /\ ans \in Usable /\ Goes(c, "beat")
       \/ call[c].op = "use" /\ ans # "ended" /\ Ends(c)
    /\ UNCHANGED <<row, mirror, box, active, todo, calls, faults>>

\* POST /sandboxes/:id/heartbeat, which claims a READY sandbox.  A claim that
\* is refused ends the run; the heartbeat of a use is not waited for.
Beat(c) ==
    LET r == call[c].id IN
    /\ call[c].at = "beat"
    /\ box' = [box EXCEPT ![r] = IF @ = "READY" THEN "ACTIVE" ELSE @]
    /\ IF call[c].op # "claim"     THEN Ends(c)
       ELSE IF box[r] \in Usable   THEN Sync(c, call[c].st, "ACTIVE")
       ELSE Leaves(c, "delete")
    /\ UNCHANGED <<row, mirror, active, todo, calls, faults>>

\* A mistake the runs must catch: only READY is written.
UpdateReady(c) ==
    LET r == call[c].id IN
    /\ call[c].at = "update"
    /\ mirror' = [mirror EXCEPT ![r] = IF call[c].st = "READY" THEN "READY" ELSE @]
    /\ Ends(c)
    /\ UNCHANGED <<row, box, active, todo, calls, faults>>

\* The update of a row that is gone throws.
Update(c) ==
    LET r == call[c].id IN
    /\ call[c].at = "update"
    /\ IF r \in Current THEN mirror' = [mirror EXCEPT ![r] = call[c].st] ELSE UNCHANGED mirror
    /\ IF r \notin Current /\ call[c].op = "starting" THEN Leaves(c, "undo") ELSE Ends(c)
    /\ UNCHANGED <<row, box, active, todo, calls, faults>>

\* DELETE /sandboxes/:id: the sandbox is expiring, as good as ended.
Release(c) ==
    /\ call[c].at = "release"
    /\ box' = [box EXCEPT ![call[c].id] = "ended"]
    /\ Leaves(c, "delete")
    /\ UNCHANGED <<row, mirror, active, todo, calls, faults>>

\* The end of finish().  A start whose old run is dead goes on to a new one.
AfterFinish(c) == IF call[c].op = "start" THEN Becomes(c, Starting) ELSE Ends(c)

Remove(r) == row' = [row EXCEPT ![r] = IF r \in Current THEN "gone" ELSE @]

Delete(c) ==
    /\ call[c].at = "delete"
    /\ Remove(call[c].id)
    /\ AfterFinish(c)
    /\ UNCHANGED <<mirror, box, active, todo, calls, faults>>

\* The catch block of start.
Undo(c) ==
    /\ call[c].at = "undo"
    /\ Remove(call[c].id)
    /\ Ends(c)
    /\ UNCHANGED <<mirror, box, active, todo, calls, faults>>

\* A step fails, with or without effect.  What finish() and the catch block
\* do is not checked; a start past its insert is undone; any other call ends,
\* and so does the pass of the watcher if the manager does not answer.
CallFault(c) ==
    LET r == call[c].id
        at == call[c].at
        Throws == IF call[c].op = "starting" THEN Leaves(c, "undo") ELSE Ends(c)
    IN
    /\ Fault
    /\ \/ /\ at = "insert" /\ Ends(c) /\ UNCHANGED <<mirror, box>>
          /\ \/ UNCHANGED row
             \/ /\ Current = {}
                /\ \E s \in Run : row[s] = "absent" /\ row' = [row EXCEPT ![s] = "unbound"]
       \/ /\ at = "request" /\ Throws /\ UNCHANGED <<row, mirror>>
          /\ box' \in {box, [box EXCEPT ![r] = "PENDING"]}
       \/ /\ at = "bind" /\ Throws /\ UNCHANGED <<mirror, box>>
          /\ row' \in {row, [row EXCEPT ![r] = IF @ = "unbound" THEN "bound" ELSE @]}
       \/ /\ at = "get" /\ Throws /\ UNCHANGED <<row, mirror, box>>
       \/ /\ at = "beat" /\ Throws /\ UNCHANGED <<row, mirror>>
          /\ box' \in {box, [box EXCEPT ![r] = IF @ = "READY" THEN "ACTIVE" ELSE @]}
       \/ /\ at = "update" /\ Throws /\ UNCHANGED <<row, box>>
          /\ mirror' \in {mirror, [mirror EXCEPT ![r] = IF r \in Current THEN call[c].st ELSE @]}
       \/ /\ at = "release" /\ Leaves(c, "delete") /\ UNCHANGED <<row, mirror, box>>
       \/ /\ at = "delete" /\ AfterFinish(c) /\ UNCHANGED <<row, mirror, box>>
       \/ /\ at = "undo" /\ Ends(c) /\ UNCHANGED <<row, mirror, box>>
    /\ todo' = IF c = "watcher" /\ at = "get" THEN {} ELSE todo
    /\ UNCHANGED <<active, calls>>

Step(c) ==
    \/ Insert(c) \/ Request(c) \/ Bind(c) \/ Get(c) \/ Beat(c) \/ Update(c)
    \/ Release(c) \/ Delete(c) \/ Undo(c)

-----------------------------------------------------------------------------
(***************************************************************************)
(* LabRunWatcher.tick                                                      *)
(***************************************************************************)

\* A mistake the runs must catch: only the runs of active sessions are read.
TickActive ==
    /\ call["watcher"] = Over /\ todo = {}
    /\ todo' = {[id |-> r, st |-> mirror[r], over |-> FALSE] :
                     r \in {s \in Run : active /\ row[s] = "bound"}}
    /\ UNCHANGED <<row, mirror, box, active, call, calls, faults>>

\* liveRuns: the runs the manager has accepted, with their session.
Tick ==
    /\ call["watcher"] = Over /\ todo = {}
    /\ todo' = {[id |-> r, st |-> mirror[r], over |-> ~active] : r \in {s \in Run : row[s] = "bound"}}
    /\ UNCHANGED <<row, mirror, box, active, call, calls, faults>>

\* A run whose session has ended is released, another one is polled.
Watch(k) ==
    /\ call["watcher"] = Over
    /\ todo' = todo \ {k}
    /\ Becomes("watcher", [op |-> "watch", at |-> IF k.over THEN "release" ELSE "get",
                           id |-> k.id, st |-> k.st])
    /\ UNCHANGED <<row, mirror, box, active, calls, faults>>

Watching == Tick \/ \E k \in todo : Watch(k)

-----------------------------------------------------------------------------
(***************************************************************************)
(* The environment                                                         *)
(***************************************************************************)

\* The manager admits a sandbox, makes it ready, or ends it by a deadline or
\* a failure.
ManagerMoves(r) ==
    /\ \/ box[r] = "PENDING" /\ box' = [box EXCEPT ![r] = "PROVISIONING"]
       \/ box[r] = "PROVISIONING" /\ box' = [box EXCEPT ![r] = "READY"]
       \/ box[r] \in LiveStatus /\ box' = [box EXCEPT ![r] = "ended"]
    /\ UNCHANGED <<row, mirror, active, call, todo, calls, faults>>

\* The session ends by itself or by its client.
SessionEnds ==
    /\ active /\ active' = FALSE
    /\ UNCHANGED <<row, mirror, box, call, todo, calls, faults>>

\* The API dies and starts again.
Crash ==
    /\ Fault
    /\ call' = [c \in Caller |-> Over] /\ todo' = {}
    /\ UNCHANGED <<row, mirror, box, active, calls>>

-----------------------------------------------------------------------------
\* The session is new, or has a run whose sandbox the watcher has seen ready.
Init ==
    /\ \E ready \in {{}, {CHOOSE r \in Run : TRUE}} :
          /\ row = [r \in Run |-> IF r \in ready THEN "bound" ELSE "absent"]
          /\ mirror = [r \in Run |-> IF r \in ready THEN "READY" ELSE "PENDING"]
          /\ box = [r \in Run |-> IF r \in ready THEN "READY" ELSE "none"]
    /\ active = TRUE
    /\ call = [c \in Caller |-> Over]
    /\ todo = {}
    /\ calls = 0 /\ faults = 0

Next ==
    \/ \E c \in Calls : Begin(c)
    \/ \E c \in Caller : Step(c) \/ CallFault(c)
    \/ Watching
    \/ \E r \in Run : ManagerMoves(r)
    \/ SessionEnds \/ Crash

Spec == Init /\ [][Next]_vars

\* Promises settle, the timer of the watcher fires.
Fairness ==
    /\ \A c \in Caller : WF_vars(Step(c))
    /\ WF_vars(Watching)

FairSpec == Spec /\ Fairness

-----------------------------------------------------------------------------
(***************************************************************************)
(* Properties                                                              *)
(***************************************************************************)

\* Every variable holds what the code could hold, and the session has at most
\* one run.
TypeOK ==
    /\ row \in [Run -> Row]
    /\ mirror \in [Run -> LiveStatus]
    /\ box \in [Run -> Box]
    /\ active \in BOOLEAN
    /\ call \in [Caller -> Call]
    /\ todo \subseteq [id : Run, st : LiveStatus, over : BOOLEAN]
    /\ calls \in 0..MaxCalls /\ faults \in 0..MaxFaults
    /\ \A r, s \in Current : r = s

\* A run goes only if its sandbox or its session has ended, if its client
\* released it, or if its start failed: no slow answer, stale read or error
\* of another request ends a lab somebody is using.
LiveRunsStay ==
    [][\A r \in Current :
          r \notin Current' =>
             \/ box[r] = "ended" \/ ~active
             \/ \E c \in Caller :
                   /\ call[c] # Over /\ call[c].at \in {"delete", "undo"}
                   /\ call[c].op \in {"release", "starting"} /\ call[c].id = r]_vars

\* Nothing is out of step for ever: a late answer may take the mirror back,
\* but the watcher puts it right; and a run whose sandbox or session has ended
\* goes.
OutOfStep(r) ==
    /\ row[r] = "bound"
    /\ \/ box[r] = "ended" \/ ~active
       \/ box[r] = "ACTIVE" /\ mirror[r] # "ACTIVE"

RunsConverge == \A r \in Run : []<>~OutOfStep(r)

=============================================================================
