------------------------------- MODULE Workspace -------------------------------
(***************************************************************************)
(* The workspace of one browser tab: the store of the web application      *)
(* (apps/web/components/workspace/store.ts) over either of its backends,   *)
(* PGlite in the tab (tier T0, pglite-backend.ts) or a session of the API  *)
(* with its stream of notices (tier T1, api-backend.ts), and what is       *)
(* outside of it: the view that mounts it, what a view has begun and goes  *)
(* on without it, another tab of the session.                              *)
(*                                                                         *)
(* A step is what JavaScript does between two awaits.  A schema is the     *)
(* number of its version: a database is created at version 1 and each      *)
(* script that changes it adds one.                                        *)
(***************************************************************************)
EXTENDS Naturals, Sequences, FiniteSets

CONSTANTS
    Tiers,         \* tiers the workspace may be of
    MaxDatabases,  \* bound: databases and sessions created
    MaxChanges,    \* bound: versions of a database
    MaxClicks,     \* bound: mounts, resets and requests
    MaxFaults      \* bound: failures, lost streams and ended sessions

ASSUME WorkspaceAssumption ==
    /\ Tiers \subseteq {"T0", "T1"}
    /\ {MaxDatabases, MaxChanges, MaxClicks, MaxFaults} \subseteq Nat

VARIABLES
    tier,
    mounted,    \* a view shows the workspace
    clicks,     \* mounts, resets and requests so far
    attached,   \* the store's `attached`
    timer,      \* the store's `pendingClose` is set
    link,       \* the shared link the page is of, and how far it is read
    lifecycle,  \* what serial() has yet to finish, the first of it running
    stage,      \* how far the first has come
    opened,     \* version in the answer of backend.open()
    status,
    snapshot,   \* the schema the store holds
    runs,       \* the runs it lists, by their tickets
    viewing,    \* the run whose schema is looked at, or 0
    slice,      \* one Loadable: the analysis, or the report
    latest,     \* ticket of its newest request
    requests,   \* requests without an answer yet
    db,         \* the PGlite of the backend, or the session of the cookie; or 0
    alive,      \* databases and sessions that exist
    version,    \* version of each
    stream,     \* the EventSource
    heard,      \* the session it is a stream of
    notices,    \* on their way to this tab
    faults,
    incidents   \* kinds of crossing that have happened (history)

viewVars == <<mounted, clicks, attached, timer, link>>
stepVars == <<lifecycle, stage, opened>>
stateVars == <<status, snapshot, runs, viewing, slice>>
askVars == <<latest, requests>>
backVars == <<db, alive, version>>
streamVars == <<stream, heard, notices>>
vars == <<tier, viewVars, stepVars, stateVars, askVars, backVars, streamVars, faults, incidents>>

-----------------------------------------------------------------------------
Database == 1..MaxDatabases
Version == 1..MaxChanges
Number == 1..MaxClicks
Snapshot == [db : Database \cup {0}, version : Version \cup {0}]
NoSnapshot == [db |-> 0, version |-> 0]

Status == {"opening", "ready", "running", "failed", "ended"}
Op == {"open", "close", "reset"}
Stage == {"idle", "opening", "setup", "closing"}
Link == {"none", "unread", "reading", "read", "invalid"}

\* A request in flight; version 0 stands for a result without a schema.
Kind == {"run", "load", "discard"}
Progress == {"sent", "done", "failed", "gone"}
Request == [kind : Kind, ticket : Number, to : Database \cup {0}, progress : Progress,
            version : Version \cup {0}]

\* status and the ticket of the data; idle() has none.
Slice == [status : {"idle", "loading", "ready", "error"}, data : Number \cup {0}]
IdleSlice == [status |-> "idle", data |-> 0]

Stream == {"none", "connecting", "open", "dead"}
Notice == [ended : BOOLEAN, db : Database, version : Version]
Incident == {"overlap", "crossed", "late"}

Click == clicks < MaxClicks /\ clicks' = clicks + 1

Fault == faults < MaxFaults /\ faults' = faults + 1

Note(kinds) == incidents' = incidents \cup kinds

\* A reset whose close has not ended: its open is yet to be queued.
Resetting == \E i \in 1..Len(lifecycle) : lifecycle[i] = "reset"

-----------------------------------------------------------------------------
(***************************************************************************)
(* The view                                                                *)
(***************************************************************************)

\* A mistake the runs must catch: a view that comes back opens again.
MountAnew ==
    /\ ~mounted /\ link # "invalid" /\ Click
    /\ mounted' = TRUE
    /\ timer' = FALSE /\ attached' = TRUE
    /\ lifecycle' = Append(lifecycle, "open")
    /\ link' = IF link = "unread" THEN "reading" ELSE link
    /\ UNCHANGED <<tier, stage, opened, stateVars, askVars, backVars, streamVars, faults,
                   incidents>>

\* attach(): clears the timer; the first opens.
Attach ==
    /\ timer' = FALSE /\ attached' = TRUE
    /\ lifecycle' = IF attached THEN lifecycle ELSE Append(lifecycle, "open")

\* Its view goes on to read the link it was opened with.
Mount ==
    /\ ~mounted /\ link # "invalid" /\ Click
    /\ mounted' = TRUE /\ Attach
    /\ link' = IF link = "unread" THEN "reading" ELSE link
    /\ UNCHANGED <<tier, stage, opened, stateVars, askVars, backVars, streamVars, faults,
                   incidents>>

\* A mistake the runs must catch: a workspace that is never closed.
UnmountOnly ==
    /\ mounted
    /\ mounted' = FALSE
    /\ UNCHANGED <<tier, clicks, attached, timer, link, stepVars, stateVars, askVars, backVars,
                   streamVars, faults, incidents>>

\* detach(): close, unless a view follows within the delay.
Unmount ==
    /\ mounted
    /\ mounted' = FALSE /\ timer' = TRUE
    /\ UNCHANGED <<tier, clicks, attached, link, stepVars, stateVars, askVars, backVars, streamVars,
                   faults, incidents>>

\* decodeShare() has an answer, whatever has become of the view: the workspace
\* is attached, or an invalid link takes the place of its view.
LinkRead ==
    /\ link = "reading"
    /\ \/ /\ link' = "read" /\ Attach
          /\ Note(IF mounted THEN {} ELSE {"late"})
          /\ UNCHANGED mounted
       \/ /\ link' = "invalid" /\ mounted' = FALSE /\ timer' = (timer \/ mounted)
          /\ UNCHANGED <<attached, lifecycle, incidents>>
    /\ UNCHANGED <<tier, clicks, stage, opened, stateVars, askVars, backVars, streamVars, faults>>

Detach ==
    /\ timer
    /\ timer' = FALSE /\ attached' = FALSE
    /\ lifecycle' = Append(lifecycle, "close")
    /\ Note(IF Resetting THEN {"overlap"} ELSE {})
    /\ UNCHANGED <<tier, mounted, clicks, link, stage, opened, stateVars, askVars, backVars,
                   streamVars, faults>>

\* reset() begins with a close.
BeginReset ==
    /\ lifecycle' = Append(lifecycle, "reset")
    /\ Note((IF Resetting THEN {"overlap"} ELSE {}) \cup (IF attached THEN {} ELSE {"late"}))

\* The button of a workspace in the tab, and of any that failed or ended.
Reset ==
    /\ mounted /\ Click
    /\ tier = "T0" \/ status \in {"failed", "ended"}
    /\ BeginReset
    /\ UNCHANGED <<tier, mounted, attached, timer, link, stage, opened, stateVars, askVars, backVars,
                   streamVars, faults>>

-----------------------------------------------------------------------------
(***************************************************************************)
(* open() and close(), one after another                                   *)
(***************************************************************************)

Next1(op) == lifecycle # <<>> /\ lifecycle[1] = op

\* Runs in flight: their results will be taken for results of what follows.
RunInFlight == \E r \in requests : r.kind = "run"

OpenBegins ==
    /\ Next1("open") /\ stage = "idle"
    /\ status' = "opening" /\ stage' = "opening"
    /\ Note(IF RunInFlight THEN {"crossed"} ELSE {})
    /\ UNCHANGED <<tier, viewVars, lifecycle, opened, snapshot, runs, viewing, slice,
                   askVars, backVars, streamVars, faults>>

\* createPGlite() returns a new instance; POST /sessions answers with the
\* session of the cookie while there is one, with a new one otherwise.
OpenCreates ==
    /\ stage = "opening"
    /\ stage' = "setup"
    /\ \/ /\ tier = "T1" /\ db \in alive
          /\ opened' = version[db]
          /\ UNCHANGED backVars
       \/ /\ tier = "T0" \/ db \notin alive
          /\ \E d \in Database :
                /\ version[d] = 0 /\ \A e \in 1..(d - 1) : version[e] # 0
                /\ db' = d /\ alive' = alive \cup {d}
                /\ version' = [version EXCEPT ![d] = 1]
          /\ opened' = 1
    /\ UNCHANGED <<tier, viewVars, lifecycle, stateVars, askVars, streamVars, faults,
                   incidents>>

\* Setup and introspection in the tab, or the answer of the API: the store
\* shows the schema and subscribes.
OpenReady ==
    /\ stage = "setup"
    /\ lifecycle' = Tail(lifecycle) /\ stage' = "idle"
    /\ status' = "ready"
    /\ snapshot' = [db |-> db, version |-> IF tier = "T0" /\ db # 0 THEN version[db] ELSE opened]
    /\ stream' = IF tier = "T1" /\ stream = "none" THEN "connecting" ELSE stream
    /\ Note(IF tier = "T1" /\ db \in alive /\ version[db] # opened THEN {"crossed"} ELSE {})
    /\ opened' = 0
    /\ UNCHANGED <<tier, viewVars, runs, viewing, slice, askVars, backVars, heard,
                   notices, faults>>

OpenFails ==
    /\ stage \in {"opening", "setup"} /\ Fault
    /\ lifecycle' = Tail(lifecycle) /\ stage' = "idle"
    /\ status' = "failed" /\ opened' = 0
    /\ UNCHANGED <<tier, viewVars, snapshot, runs, viewing, slice, askVars,
                   backVars, streamVars, incidents>>

\* The listeners go, and the EventSource with them.
CloseBegins ==
    /\ Next1("close") \/ Next1("reset")
    /\ stage = "idle" /\ stage' = "closing"
    /\ stream' = "none" /\ heard' = 0 /\ notices' = <<>>
    /\ Note(IF RunInFlight THEN {"crossed"} ELSE {})
    /\ UNCHANGED <<tier, viewVars, lifecycle, opened, stateVars, askVars, backVars, faults>>

\* What reset() forgets of the database that is gone.
Forget ==
    /\ runs' = {} /\ slice' = IdleSlice
    /\ viewing' = 0

\* The PGlite is closed; a session stays, for the tabs that use it.  A reset
\* goes on behind whatever has been queued meanwhile.
CloseEnds ==
    /\ stage = "closing" /\ stage' = "idle"
    /\ \/ tier = "T0" /\ db' = 0 /\ alive' = alive \ {db}
       \/ tier = "T1" /\ UNCHANGED <<db, alive>>
    /\ \/ /\ Next1("close")
          /\ lifecycle' = Tail(lifecycle)
          /\ UNCHANGED <<runs, viewing, slice>>
       \/ /\ Next1("reset")
          /\ lifecycle' = Append(Tail(lifecycle), "open")
          /\ Forget
    /\ UNCHANGED <<tier, viewVars, opened, status, snapshot, askVars, version, streamVars,
                   faults, incidents>>

-----------------------------------------------------------------------------
(***************************************************************************)
(* Requests                                                                *)
(***************************************************************************)

Ask(kind, ticket) ==
    /\ Click
    /\ requests' = requests \cup
          {[kind |-> kind, ticket |-> ticket, to |-> db, progress |-> "sent", version |-> 0]}

\* run(), up to the request: of the user, or of a replay, which goes on when
\* the view has gone.
RunAsked ==
    /\ status = "ready"
    /\ status' = "running"
    /\ Ask("run", clicks + 1)
    /\ UNCHANGED <<tier, mounted, attached, timer, link, stepVars, snapshot, runs, viewing, slice, latest,
                   backVars, streamVars, faults, incidents>>

\* "Descartar e recomeçar", up to the DELETE of endSession().
DiscardAsked ==
    /\ mounted /\ tier = "T1" /\ db # 0 /\ status \notin {"failed", "ended"}
    /\ Ask("discard", clicks + 1)
    /\ UNCHANGED <<tier, mounted, attached, timer, link, stepVars, stateVars, latest, backVars,
                   streamVars, faults, incidents>>

\* load(), up to the request: a new ticket, and the old data while it loads.
LoadAsked ==
    /\ mounted /\ status = "ready"
    /\ latest' = clicks + 1
    /\ slice' = [slice EXCEPT !.status = "loading"]
    /\ Ask("load", clicks + 1)
    /\ UNCHANGED <<tier, mounted, attached, timer, link, stepVars, status, snapshot, runs, viewing,
                   backVars, streamVars, faults, incidents>>

\* Where a request is served: the instance the tab has by then, or the
\* session whose cookie it was sent with.
Served(r) == IF tier = "T0" THEN db ELSE r.to

Becomes(r, progress, v) ==
    requests' = (requests \ {r}) \cup {[r EXCEPT !.progress = progress, !.version = v,
                                        !.to = Served(r)]}

\* The bus of the session hands a notice to the streams that are open.
Publish(d, ended, v) ==
    notices' = IF stream = "open" /\ heard = d
               THEN Append(notices, [ended |-> ended, db |-> d, version |-> v])
               ELSE notices

\* The database serves the request; a script may change its schema.
Serve(r) ==
    /\ r.kind # "discard" /\ r.progress = "sent" /\ Served(r) \in alive
    /\ \/ /\ Becomes(r, "done", 0)
          /\ UNCHANGED <<version, notices>>
       \/ /\ r.kind = "run" /\ version[Served(r)] < MaxChanges
          /\ version' = [version EXCEPT ![Served(r)] = @ + 1]
          /\ Becomes(r, "done", version[Served(r)] + 1)
          /\ IF tier = "T1" THEN Publish(Served(r), FALSE, version[Served(r)] + 1)
             ELSE UNCHANGED notices
    /\ UNCHANGED <<tier, viewVars, stepVars, stateVars, latest, db, alive, stream, heard,
                   faults, incidents>>

\* The session is ended, and the streams that listen are told.
ServeDiscard(r) ==
    /\ r.kind = "discard" /\ r.progress = "sent" /\ r.to \in alive
    /\ Becomes(r, "done", 0)
    /\ alive' = alive \ {r.to}
    /\ Publish(r.to, TRUE, 1)
    /\ UNCHANGED <<tier, viewVars, stepVars, stateVars, latest, db, version, stream, heard, faults,
                   incidents>>

\* No database: an exception in the tab, 401 from the API.
ServeNone(r) ==
    /\ r.progress = "sent" /\ Served(r) \notin alive
    /\ Becomes(r, IF tier = "T0" THEN "failed" ELSE "gone", 0)
    /\ UNCHANGED <<tier, viewVars, stepVars, stateVars, latest, backVars, streamVars,
                   faults, incidents>>

\* A refusal, or an answer that is lost with its effect kept.
ServeFails(r) ==
    /\ r.progress \in {"sent", "done"} /\ Fault
    /\ Becomes(r, "failed", 0)
    /\ Note(IF r.version # 0 THEN {"crossed"} ELSE {})
    /\ UNCHANGED <<tier, viewVars, stepVars, stateVars, latest, backVars, streamVars>>

\* run(), from the answer on: whatever the status has become meanwhile.
RunAnswered(r) ==
    /\ r.kind = "run" /\ r.progress # "sent"
    /\ requests' = requests \ {r}
    /\ \/ /\ r.progress = "done"
          /\ status' = "ready" /\ viewing' = 0
          /\ runs' = runs \cup {r.ticket}
          /\ snapshot' = IF r.version = 0 THEN snapshot
                         ELSE [db |-> r.to, version |-> r.version]
          /\ Note(IF r.version # 0 /\ snapshot.db = r.to /\ r.version < snapshot.version
                  THEN {"crossed"} ELSE {})
       \/ /\ r.progress # "done"
          /\ status' = IF r.progress = "gone" THEN "ended" ELSE "ready"
          /\ UNCHANGED <<viewing, runs, snapshot, incidents>>
    /\ UNCHANGED <<tier, viewVars, stepVars, slice, latest, backVars, streamVars, faults>>

\* A mistake the runs must catch: whatever arrives last is shown.
Lands(r) ==
    slice' = IF r.progress = "done" THEN [status |-> "ready", data |-> r.ticket]
             ELSE [slice EXCEPT !.status = "error"]

\* Only the newest request writes.
LandsIfNewest(r) ==
    slice' = IF r.ticket # latest THEN slice
             ELSE IF r.progress = "done" THEN [status |-> "ready", data |-> r.ticket]
             ELSE [slice EXCEPT !.status = "error"]

\* load(), from the answer on.
LoadAnswered(r) ==
    /\ r.kind = "load" /\ r.progress # "sent"
    /\ requests' = requests \ {r}
    /\ LandsIfNewest(r)
    /\ UNCHANGED <<tier, viewVars, stepVars, status, snapshot, runs, viewing, latest,
                   backVars, streamVars, faults, incidents>>

\* The reset after endSession(), whatever was answered and whatever has become
\* of the view; only a fetch that is rejected throws.
DiscardAnswered(r) ==
    /\ r.kind = "discard" /\ r.progress # "sent"
    /\ requests' = requests \ {r}
    /\ \/ BeginReset
       \/ r.progress = "failed" /\ UNCHANGED <<lifecycle, incidents>>
    /\ UNCHANGED <<tier, viewVars, stage, opened, stateVars, latest, backVars, streamVars, faults>>

\* timeTravelTo().
TimeTravel ==
    /\ mounted
    /\ viewing' \in {0} \cup runs
    /\ viewing' # viewing
    /\ UNCHANGED <<tier, viewVars, stepVars, status, snapshot, runs, slice, askVars, backVars,
                   streamVars, faults, incidents>>

-----------------------------------------------------------------------------
(***************************************************************************)
(* The session of the API                                                  *)
(***************************************************************************)

\* The EventSource connects, if its cookie is of a session.
StreamConnects ==
    /\ stream = "connecting"
    /\ \/ /\ db \in alive
          /\ stream' = "open" /\ heard' = db
       \/ /\ db \notin alive
          /\ stream' = "dead" /\ UNCHANGED heard
    /\ UNCHANGED <<tier, viewVars, stepVars, stateVars, askVars, backVars, notices, faults,
                   incidents>>

\* The connection is lost; the browser connects again, and nobody repeats
\* what was on its way.
StreamDrops ==
    /\ stream = "open" /\ Fault
    /\ stream' = "connecting" /\ heard' = 0 /\ notices' = <<>>
    /\ Note(IF notices # <<>> THEN {"crossed"} ELSE {})
    /\ UNCHANGED <<tier, viewVars, stepVars, stateVars, askVars, backVars>>

\* Another tab of the session runs a script that changes the schema.
OtherTabRuns ==
    /\ tier = "T1" /\ db \in alive /\ version[db] < MaxChanges
    /\ version' = [version EXCEPT ![db] = @ + 1]
    /\ Publish(db, FALSE, version[db] + 1)
    /\ Note(IF stream = "open" /\ heard = db THEN {} ELSE {"crossed"})
    /\ UNCHANGED <<tier, viewVars, stepVars, stateVars, askVars, db, alive, stream, heard, faults>>

\* The session ends by its deadline, or in another tab.
SessionEnds ==
    /\ tier = "T1" /\ db \in alive /\ Fault
    /\ alive' = alive \ {db}
    /\ Publish(db, TRUE, 1)
    /\ UNCHANGED <<tier, viewVars, stepVars, stateVars, askVars, db, version, stream, heard,
                   incidents>>

\* A mistake the runs must catch: the changes of other tabs are not applied.
AppliesNothing(n) == UNCHANGED snapshot

\* A schema that is not the one shown is shown.
Applies(n) == snapshot' = [db |-> n.db, version |-> n.version]

\* The listener.
Hear ==
    /\ notices # <<>> /\ notices' = Tail(notices)
    /\ LET n == Head(notices) IN
       \/ /\ ~n.ended /\ Applies(n)
          /\ UNCHANGED status
       \/ /\ n.ended /\ status' = "ended"
          /\ UNCHANGED snapshot
    /\ UNCHANGED <<tier, viewVars, stepVars, runs, viewing, slice, askVars, backVars, stream, heard,
                   faults, incidents>>

-----------------------------------------------------------------------------
Init ==
    /\ tier \in Tiers
    /\ mounted = FALSE /\ clicks = 0 /\ attached = FALSE /\ timer = FALSE
    /\ link \in {"none", "unread"} /\ (link = "unread" => tier = "T0")
    /\ lifecycle = <<>> /\ stage = "idle" /\ opened = 0
    /\ status = "opening" /\ snapshot = NoSnapshot /\ runs = {} /\ viewing = 0
    /\ slice = IdleSlice /\ latest = 0 /\ requests = {}
    /\ db = 0 /\ alive = {} /\ version = [d \in Database |-> 0]
    /\ stream = "none" /\ heard = 0 /\ notices = <<>>
    /\ faults = 0 /\ incidents = {}

Serial == OpenBegins \/ OpenCreates \/ OpenReady \/ OpenFails \/ CloseBegins \/ CloseEnds
Answer == \E r \in requests : RunAnswered(r) \/ LoadAnswered(r) \/ DiscardAnswered(r)
Service == \E r \in requests : Serve(r) \/ ServeDiscard(r) \/ ServeNone(r) \/ ServeFails(r)

Next ==
    \/ Mount \/ Unmount \/ LinkRead \/ Detach \/ Reset \/ TimeTravel
    \/ Serial
    \/ RunAsked \/ LoadAsked \/ DiscardAsked
    \/ Service \/ Answer
    \/ StreamConnects \/ StreamDrops \/ OtherTabRuns \/ SessionEnds \/ Hear

Spec == Init /\ [][Next]_vars

\* A request takes one step to be served and one to be answered.
Proceeds(n) ==
    \E r \in requests :
        /\ r.ticket = n
        /\ \/ Serve(r) \/ ServeDiscard(r) \/ ServeNone(r)
           \/ RunAnswered(r) \/ LoadAnswered(r) \/ DiscardAnswered(r)

\* Timers fire, promises settle, notices are delivered.
Fairness ==
    /\ WF_vars(Detach) /\ WF_vars(LinkRead) /\ WF_vars(Serial) /\ WF_vars(StreamConnects \/ Hear)
    /\ \A n \in Number : WF_vars(Proceeds(n))

FairSpec == Spec /\ Fairness

-----------------------------------------------------------------------------
TypeOK ==
    /\ tier \in {"T0", "T1"}
    /\ {mounted, attached, timer} \subseteq BOOLEAN /\ link \in Link /\ clicks \in 0..MaxClicks
    /\ lifecycle \in Seq(Op) /\ stage \in Stage
    /\ opened \in Version \cup {0}
    /\ status \in Status /\ snapshot \in Snapshot
    /\ runs \subseteq Number /\ viewing \in Number \cup {0} /\ slice \in Slice
    /\ latest \in Number \cup {0} /\ requests \subseteq Request
    /\ db \in Database \cup {0} /\ alive \subseteq Database
    /\ version \in [Database -> Version \cup {0}]
    /\ stream \in Stream /\ heard \in Database \cup {0} /\ notices \in Seq(Notice)
    /\ faults \in 0..MaxFaults /\ incidents \subseteq Incident

\* An answer that is shown as current is the answer to the newest request of
\* its kind, in whatever order they arrive (store.ts, `load`).
NewestAnswerWins == slice.status = "ready" => slice.data = latest

\* The tab never keeps two databases, unless a reset crossed another reset or
\* the closing of a view (store.ts, `serial`).
OneDatabase == "overlap" \notin incidents => Cardinality(alive) <= 1

\* At rest the canvas shows the schema of the database there is: what this
\* tab and others did to it has been applied in the right order.
AtRest ==
    /\ attached /\ lifecycle = <<>> /\ status = "ready"
    /\ requests = {} /\ notices = <<>> /\ incidents = {}
CanvasIsCurrent == AtRest => snapshot = [db |-> db, version |-> version[db]]

\* Nobody waits for ever, not for an open, a result or an analysis, and a
\* workspace nobody looks at any more is closed: its PGlite, or its stream
\* (store.ts, `run`, `load`, `detach`), unless two steps of it overlapped or
\* what its view had begun opened it again after the view had gone.  Clicks
\* being bounded, every behaviour has its last one, and settles after it.
Closed == lifecycle = <<>> /\ stream = "none" /\ (tier = "T0" => alive = {})

Settled ==
    /\ status # "running" /\ slice.status # "loading"
    /\ attached => status # "opening"
    /\ mounted \/ Closed \/ incidents \cap {"overlap", "late"} # {}

WorkspaceSettles == <>[]Settled
=============================================================================
