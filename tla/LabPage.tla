-------------------------------- MODULE LabPage --------------------------------
(***************************************************************************)
(* The page of a lab that runs on a sandbox of the server (apps/web,       *)
(* SandboxLabWorkspace.tsx with its lab-client.ts): it asks for a run,     *)
(* waits on the stream of the session for the sandbox, claims it and, when *)
(* it is left, gives it back.  The API is what the page sees of it, its    *)
(* session, its run and the notices it publishes: LabRuns has the rest.    *)
(***************************************************************************)
EXTENDS Naturals, Sequences, FiniteSets

CONSTANTS
    Cookies,    \* whether the browser may have a session when it starts
    MaxVisits,  \* bound: times the page is shown
    MaxQueued,  \* bound: notices of a position in the queue
    MaxFaults   \* bound: refusals, lost streams, runs and sessions that end

\* What the constants must be (assumed by the instance).
LabPageAssumption ==
    Cookies \subseteq BOOLEAN /\ {MaxVisits, MaxQueued, MaxFaults} \subseteq Nat

VARIABLES
    session,    \* the cookie is of a session that is alive
    run,        \* status of the run of the session
    position,   \* positions published so far
    shown,      \* the page is mounted
    visit,      \* how many times it has been
    phase,
    claimed,
    stream,     \* the EventSource of this visit
    notices,    \* on their way to it
    start,      \* for each visit, how far its start() has come
    claim,      \* for each visit, its claim
    release,    \* for each visit, its DELETE
    faults,
    crossed     \* an answer or a notice missed its moment (history)

pageVars == <<shown, visit, phase, claimed>>
streamVars == <<stream, notices>>
callVars == <<start, claim, release>>
apiVars == <<session, run, position>>
vars == <<pageVars, streamVars, callVars, apiVars, faults, crossed>>

-----------------------------------------------------------------------------
Visit == 1..MaxVisits
Phase == {"opening", "queued", "provisioning", "ready", "ended", "failed"}
RunStatus == {"none", "PENDING", "PROVISIONING", "READY", "ACTIVE"}
Stream == {"none", "connecting", "open", "dead"}
Notice == {"lab-queued", "lab-ready", "lab-ended", "session-ended"}

\* start() waits for the session, then for the run; then its answer is on
\* its way, a status or "refused".
Start == {"idle", "session", "run", "refused", "done"} \cup (RunStatus \ {"none"})
Call == {"idle", "sent", "ok", "refused", "done"}

Fault == faults < MaxFaults /\ faults' = faults + 1

Here(v) == shown /\ v = visit

\* The bus reaches the stream if it is open.
Publish(n) == notices' = IF stream = "open" THEN Append(notices, n) ELSE notices

Cross(condition) == crossed' = (crossed \/ condition)

\* Of the claim(): nothing, if one has been made.
Claim(v) ==
    /\ claimed' = TRUE
    /\ claim' = IF claimed THEN claim ELSE [claim EXCEPT ![v] = "sent"]

-----------------------------------------------------------------------------
(***************************************************************************)
(* The page                                                                *)
(***************************************************************************)

\* The effect subscribes, then starts: without a session the API refuses the
\* EventSource, which does not try again.
Enter ==
    /\ ~shown /\ visit < MaxVisits
    /\ shown' = TRUE /\ visit' = visit + 1
    /\ phase' = "opening" /\ claimed' = FALSE
    /\ stream' = IF session THEN "connecting" ELSE "dead"
    /\ start' = [start EXCEPT ![visit + 1] = "session"]
    /\ Cross(\E v \in Visit : start[v] \in {"session", "run"} \/ release[v] = "sent")
    /\ UNCHANGED <<notices, claim, release, apiVars, faults>>

\* A mistake the runs must catch: a page that leaves its sandbox behind.
LeaveQuietly ==
    /\ shown /\ shown' = FALSE
    /\ stream' = "none" /\ notices' = <<>>
    /\ UNCHANGED <<visit, phase, claimed, callVars, apiVars, faults, crossed>>

\* The clean-up of the effect: later answers and notices are ignored.
Leave ==
    /\ shown /\ shown' = FALSE
    /\ stream' = "none" /\ notices' = <<>>
    /\ release' = [release EXCEPT ![visit] = "sent"]
    /\ Cross(start[visit] \in {"session", "run"})
    /\ UNCHANGED <<visit, phase, claimed, start, claim, apiVars, faults>>

StreamConnects ==
    /\ stream = "connecting"
    /\ stream' = IF session THEN "open" ELSE "dead"
    /\ UNCHANGED <<pageVars, notices, callVars, apiVars, faults, crossed>>

StreamDrops ==
    /\ stream = "open" /\ Fault
    /\ stream' = "connecting" /\ notices' = <<>>
    /\ Cross(notices # <<>>)
    /\ UNCHANGED <<pageVars, callVars, apiVars>>

\* advance(), or the error of start().
Advance(v) ==
    /\ start[v] \in RunStatus \cup {"refused"}
    /\ start' = [start EXCEPT ![v] = "done"]
    /\ \/ /\ ~Here(v)
          /\ UNCHANGED <<phase, claimed, claim, crossed>>
       \/ /\ Here(v) /\ start[v] \in {"READY", "ACTIVE"}
          /\ Claim(v)
          /\ UNCHANGED <<phase, crossed>>
       \/ /\ Here(v) /\ start[v] \in {"PENDING", "PROVISIONING", "refused"}
          /\ phase' = CASE start[v] = "PENDING" -> "queued"
                        [] start[v] = "PROVISIONING" -> "provisioning"
                        [] OTHER -> "failed"
          /\ Cross(claimed \/ phase = "ended")
          /\ UNCHANGED <<claimed, claim>>
    /\ UNCHANGED <<shown, visit, release, streamVars, apiVars, faults>>

\* The rest of claim().
ClaimAnswered(v) ==
    /\ claim[v] \in {"ok", "refused"}
    /\ claim' = [claim EXCEPT ![v] = "done"]
    /\ IF Here(v)
       THEN /\ phase' = IF claim[v] = "ok" THEN "ready" ELSE "failed"
            /\ claimed' = (claim[v] = "ok")
       ELSE UNCHANGED <<phase, claimed>>
    /\ UNCHANGED <<shown, visit, start, release, streamVars, apiVars, faults, crossed>>

\* A mistake the runs must catch: a sandbox that is ready is not claimed.
HearReadyLate(n) ==
    /\ n = "lab-ready" /\ phase # "provisioning"
    /\ Claim(visit) /\ UNCHANGED phase

HearReady(n) ==
    /\ n = "lab-ready"
    /\ Claim(visit) /\ UNCHANGED phase

\* The listener.
Hear ==
    /\ notices # <<>> /\ notices' = Tail(notices)
    /\ LET n == Head(notices) IN
       \/ HearReady(n)
       \/ /\ n = "lab-queued"
          /\ phase' = IF phase = "ready" THEN phase ELSE "queued"
          /\ UNCHANGED <<claimed, claim>>
       \/ /\ n \in {"lab-ended", "session-ended"}
          /\ phase' = "ended"
          /\ UNCHANGED <<claimed, claim>>
    /\ UNCHANGED <<shown, visit, stream, start, release, apiVars, faults, crossed>>

-----------------------------------------------------------------------------
(***************************************************************************)
(* The API                                                                 *)
(***************************************************************************)

\* POST /sessions: the session of the cookie, or a new one.
ServeSession(v) ==
    /\ start[v] = "session"
    /\ start' = [start EXCEPT ![v] = "run"]
    /\ session' = TRUE
    /\ UNCHANGED <<pageVars, streamVars, claim, release, run, position, faults, crossed>>

\* POST /labs/:id/runs: a run, queued or being provisioned, or the one the
\* session has; the position in the queue is published too.
ServeRun(v) ==
    /\ start[v] = "run" /\ session
    /\ run' \in IF run = "none" THEN {"PENDING", "PROVISIONING"} ELSE {run}
    /\ start' = [start EXCEPT ![v] = run']
    /\ IF run' = "PENDING" THEN Publish("lab-queued") ELSE UNCHANGED notices
    /\ UNCHANGED <<pageVars, stream, claim, release, session, position, faults, crossed>>

\* 401 without a session; a limit, the capacity or the network otherwise.
ServeRefusal(v) ==
    /\ start[v] \in {"session", "run"}
    /\ \/ start[v] = "run" /\ ~session /\ UNCHANGED faults
       \/ Fault
    /\ start' = [start EXCEPT ![v] = "refused"]
    /\ UNCHANGED <<pageVars, streamVars, claim, release, apiVars, crossed>>

\* POST .../claim: the first heartbeat; refused, it ends a run that is there.
ServeClaim(v) ==
    /\ claim[v] = "sent"
    /\ \/ /\ session /\ run \in {"READY", "ACTIVE"}
          /\ run' = "ACTIVE"
          /\ claim' = [claim EXCEPT ![v] = "ok"]
          /\ UNCHANGED notices
       \/ /\ ~session \/ run \notin {"READY", "ACTIVE"}
          /\ claim' = [claim EXCEPT ![v] = "refused"]
          /\ run' = IF session THEN "none" ELSE run
          /\ IF session /\ run # "none" THEN Publish("lab-ended") ELSE UNCHANGED notices
    /\ UNCHANGED <<pageVars, stream, start, release, session, position, faults, crossed>>

\* DELETE .../current.
ServeRelease(v) ==
    /\ release[v] = "sent"
    /\ release' = [release EXCEPT ![v] = "done"]
    /\ IF session /\ run # "none" THEN run' = "none" /\ Publish("lab-ended")
       ELSE UNCHANGED <<run, notices>>
    /\ UNCHANGED <<pageVars, stream, start, claim, session, position, faults, crossed>>

\* It is best effort: cut off with the page, refused by a limit or failed, it is
\* not tried again, and the run is left to its deadlines.
ReleaseLost(v) ==
    /\ release[v] = "sent" /\ Fault
    /\ release' = [release EXCEPT ![v] = "refused"]
    /\ UNCHANGED <<pageVars, streamVars, start, claim, apiVars, crossed>>

\* The watcher sees the sandbox move on, and says so.
Watch ==
    /\ session
    /\ \/ /\ run = "PENDING" /\ position < MaxQueued
          /\ position' = position + 1 /\ Publish("lab-queued")
          /\ UNCHANGED <<run, crossed>>
       \/ /\ run = "PENDING" /\ run' = "PROVISIONING"
          /\ UNCHANGED <<position, notices, crossed>>
       \/ /\ run = "PROVISIONING" /\ run' = "READY"
          /\ Publish("lab-ready")
          /\ Cross(shown /\ stream = "connecting")
          /\ UNCHANGED position
    /\ UNCHANGED <<pageVars, stream, callVars, session, faults>>

\* The sandbox fails, or outlives one of its deadlines.
RunEnds ==
    /\ session /\ run # "none" /\ Fault
    /\ run' = "none" /\ Publish("lab-ended")
    /\ UNCHANGED <<pageVars, stream, callVars, session, position, crossed>>

\* The session ends; its run goes with it, and its stream hears of it.
SessionEnds ==
    /\ session /\ Fault
    /\ session' = FALSE /\ run' = "none"
    /\ Publish("session-ended")
    /\ UNCHANGED <<pageVars, stream, callVars, position, crossed>>

-----------------------------------------------------------------------------
Init ==
    /\ session \in Cookies /\ run = "none" /\ position = 0
    /\ shown = FALSE /\ visit = 0 /\ phase = "opening" /\ claimed = FALSE
    /\ stream = "none" /\ notices = <<>>
    /\ start = [v \in Visit |-> "idle"]
    /\ claim = [v \in Visit |-> "idle"]
    /\ release = [v \in Visit |-> "idle"]
    /\ faults = 0 /\ crossed = FALSE

Served(v) == ServeSession(v) \/ ServeRun(v) \/ ServeRefusal(v) \/ ServeClaim(v)
Answered(v) == Advance(v) \/ ClaimAnswered(v)

Next ==
    \/ Enter \/ Leave \/ StreamConnects \/ StreamDrops \/ Hear
    \/ \E v \in Visit : Served(v) \/ ServeRelease(v) \/ ReleaseLost(v) \/ Answered(v)
    \/ Watch \/ RunEnds \/ SessionEnds

Spec == Init /\ [][Next]_vars

\* The calls of a visit take a few steps each.
Proceeds(v) == Served(v) \/ ServeRelease(v) \/ Answered(v)

\* Requests are served and answered, notices delivered, and every sandbox
\* becomes ready.  Whether a user comes or goes is up to them.
Fairness ==
    /\ WF_vars(StreamConnects \/ Hear) /\ WF_vars(Watch)
    /\ \A v \in Visit : WF_vars(Proceeds(v))

FairSpec == Spec /\ Fairness

-----------------------------------------------------------------------------
TypeOK ==
    /\ {session, shown, claimed, crossed} \subseteq BOOLEAN
    /\ run \in RunStatus /\ position \in 0..MaxQueued
    /\ visit \in 0..MaxVisits /\ phase \in Phase
    /\ stream \in Stream /\ notices \in Seq(Notice)
    /\ start \in [Visit -> Start] /\ claim \in [Visit -> Call] /\ release \in [Visit -> Call]
    /\ faults \in 0..MaxFaults

Waiting == shown /\ phase \in {"opening", "queued", "provisioning"}

\* Whoever waits on the page while the sandbox is ready is shown the lab, or
\* told that it has ended (the comment over SandboxLabWorkspace).
ReadyIsShown == (Waiting /\ run = "READY") ~> ~Waiting

\* So it is for a browser that had a session when the page was opened, unless
\* a notice was lost or an answer overtaken.
ReadyIsShownToReturning ==
    (Waiting /\ run = "READY") ~> (~Waiting \/ crossed \/ stream = "dead")

\* A page that is left gives its sandbox back, unless it was left before the
\* API had taken its start, or its one DELETE was lost (lab-client.ts, close).
\* A release that an earlier visit lost is made up for by the next.
ReleaseIsLost == \E v \in Visit : v = visit /\ release[v] = "refused"
LabIsReleased == []<>(shown \/ run = "none" \/ crossed \/ ReleaseIsLost)
=============================================================================
