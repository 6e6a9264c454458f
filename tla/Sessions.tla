------------------------------- MODULE Sessions -------------------------------
(***************************************************************************)
(* The T1 sessions of the API (apps/api/src/sessions, sandbox/provisioner):*)
(* each is a row of the control database, and a database with its role on  *)
(* the sandbox cluster.  Requests create and end sessions; the reaper ends *)
(* those past their deadlines, retries the destroys that failed and drops  *)
(* what no live session owns.  The API is a single process.                *)
(*                                                                         *)
(* As in SandboxManager, an action is what happens between two awaits.     *)
(***************************************************************************)
EXTENDS Naturals, FiniteSets

CONSTANTS
    Session,        \* sessions, each created by one POST /sessions
    Owner,          \* the client of each
    Deletes,        \* DELETE /sessions/current requests
    MaxPerClient,   \* MAX_SESSIONS_PER_CLIENT
    MaxSessions,    \* MAX_ACTIVE_SESSIONS
    MaxCreating,    \* bound: POSTs in progress at once
    SlowCreate,     \* bound: may a POST outlast STUCK_PROVISIONING_MS?
    MaxFaults       \* bound: crashes and errors of a behaviour

ASSUME SessionsAssumption ==
    /\ IsFiniteSet(Session) /\ DOMAIN Owner = Session
    /\ "reaper" \notin Deletes
    /\ MaxPerClient \in Nat /\ MaxSessions \in Nat /\ MaxCreating \in Nat
    /\ SlowCreate \in BOOLEAN /\ MaxFaults \in Nat

VARIABLES
    status,     \* status of each row
    due,        \* limits of the row that are past: idle, max-lifetime, quota, stuck
    database,   \* what the cluster has of the session
    creating,   \* where SessionService.create is for each session
    ending,     \* where each destroy is: a DELETE's, or the reaper's
    sweep,      \* where the pass of the reaper is
    todo,       \* the sessions it has read and not dealt with
    listing,    \* what the cluster listed
    faults      \* faults so far

rowVars == <<status, due>>
sweepVars == <<sweep, todo, listing>>
vars == <<rowVars, database, creating, ending, sweepVars, faults>>

-----------------------------------------------------------------------------
Status == {"absent", "PROVISIONING", "ACTIVE", "EXPIRED", "FAILED", "DESTROYED"}
Live == {"PROVISIONING", "ACTIVE"}
Ended == {"EXPIRED", "FAILED", "DESTROYED"}

\* The limits a row in this status can exceed.
Limits(st) ==
    CASE st = "PROVISIONING" -> {"stuck"}
      [] st = "ACTIVE"       -> {"idle", "max-lifetime", "quota"}
      [] OTHER               -> {}

\* "role" is a role whose database is gone or not created yet.
Database == {"absent", "role", "database"}

Creating == {"none", "insert", "role", "database", "activate", "undo", "fail"}

Enders == Deletes \cup {"reaper"}
Done == [pc |-> "none"]
Ending == {Done} \cup [pc : {"expire", "drop", "record"}, id : Session]

Sweep == {"idle", "expiring", "marked", "retrying", "listed", "orphans"}

With(S) == {s \in Session : status[s] \in S}

Fault == faults < MaxFaults /\ faults' = faults + 1

SetStatus(s, to) ==
    /\ status' = [status EXCEPT ![s] = to]
    /\ due' = [due EXCEPT ![s] = @ \cap Limits(to)]

-----------------------------------------------------------------------------
(***************************************************************************)
(* SessionService.create                                                   *)
(***************************************************************************)

\* The two counts.  A client over its limit, or a full cluster, is refused.
BeginCreate(s) ==
    /\ status[s] = "absent" /\ creating[s] = "none"
    /\ Cardinality({t \in Session : creating[t] # "none"}) < MaxCreating
    /\ Cardinality({t \in With({"ACTIVE"}) : Owner[t] = Owner[s]}) < MaxPerClient
    /\ Cardinality(With(Live)) < MaxSessions
    /\ creating' = [creating EXCEPT ![s] = "insert"]
    /\ UNCHANGED <<rowVars, database, ending, sweepVars, faults>>

CreateGoes(s, to) == creating' = [creating EXCEPT ![s] = to]

Insert(s) ==
    /\ creating[s] = "insert"
    /\ SetStatus(s, "PROVISIONING")
    /\ CreateGoes(s, "role")
    /\ UNCHANGED <<database, ending, sweepVars, faults>>

CreateRole(s) ==
    /\ creating[s] = "role"
    /\ database' = [database EXCEPT ![s] = "role"]
    /\ CreateGoes(s, "database")
    /\ UNCHANGED <<rowVars, ending, sweepVars, faults>>

\* The settings of the role, and the database, which needs its owner.
CreateDatabase(s) ==
    /\ creating[s] = "database"
    /\ IF database[s] = "role"
       THEN database' = [database EXCEPT ![s] = "database"] /\ CreateGoes(s, "activate")
       ELSE UNCHANGED database /\ CreateGoes(s, "undo")
    /\ UNCHANGED <<rowVars, ending, sweepVars, faults>>

\* recordSnapshot, and the update to ACTIVE, whatever the row has become.
Activate(s) ==
    /\ creating[s] = "activate"
    /\ SetStatus(s, "ACTIVE")
    /\ CreateGoes(s, "none")
    /\ UNCHANGED <<database, ending, sweepVars, faults>>

\* A mistake the runs must catch: the role is left.
DestroyNoRole(s) == database' = [database EXCEPT ![s] = IF @ = "database" THEN "role" ELSE @]

\* provisioner.destroy: the database, then the role.
Destroy(s) == database' = [database EXCEPT ![s] = "absent"]

\* It may fail before or after the database is gone.
DestroyFails(s) ==
    /\ Fault
    /\ \/ UNCHANGED database
       \/ database[s] = "database" /\ database' = [database EXCEPT ![s] = "role"]

Undo(s) ==
    /\ creating[s] = "undo"
    /\ \/ Destroy(s) /\ UNCHANGED faults
       \/ DestroyFails(s)
    /\ CreateGoes(s, "fail")
    /\ UNCHANGED <<rowVars, ending, sweepVars>>

RecordFailure(s) ==
    /\ creating[s] = "fail"
    /\ SetStatus(s, "FAILED")
    /\ CreateGoes(s, "none")
    /\ UNCHANGED <<database, ending, sweepVars, faults>>

\* A step fails, with or without effect.  On the cluster that leads to the
\* catch blocks; on the control database the request is over.
CreateFault(s) ==
    /\ Fault
    /\ \/ /\ creating[s] = "insert" /\ CreateGoes(s, "none")
          /\ UNCHANGED rowVars \/ SetStatus(s, "PROVISIONING")
          /\ UNCHANGED database
       \/ /\ creating[s] = "role" /\ CreateGoes(s, "fail")
          /\ \E left \in {"absent", "role"} : database' = [database EXCEPT ![s] = left]
          /\ UNCHANGED rowVars
       \/ /\ creating[s] = "database" /\ CreateGoes(s, "undo")
          /\ \/ UNCHANGED database
             \/ database[s] = "role" /\ database' = [database EXCEPT ![s] = "database"]
          /\ UNCHANGED rowVars
       \/ /\ creating[s] = "activate" /\ CreateGoes(s, "none")
          /\ UNCHANGED rowVars \/ SetStatus(s, "ACTIVE")
          /\ UNCHANGED database
       \/ /\ creating[s] = "fail" /\ CreateGoes(s, "none")
          /\ UNCHANGED rowVars \/ SetStatus(s, "FAILED")
          /\ UNCHANGED database
    /\ UNCHANGED <<ending, sweepVars>>

Create(s) ==
    \/ Insert(s) \/ CreateRole(s) \/ CreateDatabase(s) \/ Activate(s)
    \/ Undo(s) \/ RecordFailure(s)

-----------------------------------------------------------------------------
(***************************************************************************)
(* SessionService.end, by a DELETE or by the reaper                        *)
(***************************************************************************)

EndGoes(e, pc, s) ==
    ending' = [ending EXCEPT ![e] = IF pc = "none" THEN Done ELSE [pc |-> pc, id |-> s]]

\* The guard finds the session active and within its lifetime.
BeginEnd(q, s) ==
    /\ ending[q] = Done
    /\ status[s] = "ACTIVE" /\ due[s] \cap {"idle", "max-lifetime"} = {}
    /\ EndGoes(q, "expire", s)
    /\ UNCHANGED <<rowVars, database, creating, sweepVars, faults>>

\* Only a live row is expired; what follows is done in any case.
Expire(e) ==
    LET s == ending[e].id IN
    /\ ending[e].pc = "expire"
    /\ IF status[s] \in Live THEN SetStatus(s, "EXPIRED") ELSE UNCHANGED rowVars
    /\ EndGoes(e, "drop", s)
    /\ UNCHANGED <<database, creating, sweepVars, faults>>

\* The reaper drops an orphan without writing a row.
Drop(e) ==
    LET s == ending[e].id IN
    /\ ending[e].pc = "drop"
    /\ Destroy(s)
    /\ EndGoes(e, IF e = "reaper" /\ sweep = "orphans" THEN "none" ELSE "record", s)
    /\ UNCHANGED <<rowVars, creating, sweepVars, faults>>

RecordDestroyed(e) ==
    /\ ending[e].pc = "record"
    /\ SetStatus(ending[e].id, "DESTROYED")
    /\ EndGoes(e, "none", ending[e].id)
    /\ UNCHANGED <<database, creating, sweepVars, faults>>

\* A step fails, with or without effect.  end() only logs the failure of a
\* destroy; the other failures, and those outside end(), end the pass.
EndFault(e) ==
    LET s == ending[e].id IN
    /\ \/ /\ ending[e].pc = "expire" /\ Fault
          /\ \/ UNCHANGED rowVars
             \/ status[s] \in Live /\ SetStatus(s, "EXPIRED")
          /\ UNCHANGED database
       \/ ending[e].pc = "drop" /\ DestroyFails(s) /\ UNCHANGED rowVars
       \/ /\ ending[e].pc = "record" /\ Fault
          /\ UNCHANGED rowVars \/ SetStatus(s, "DESTROYED")
          /\ UNCHANGED database
    /\ ending' = [ending EXCEPT ![e] = Done]
    /\ IF e = "reaper" /\ (ending[e].pc = "expire" \/ sweep # "expiring")
       THEN sweep' = "idle" /\ todo' = {}
       ELSE UNCHANGED <<sweep, todo>>
    /\ UNCHANGED <<creating, listing>>

End(e) == Expire(e) \/ Drop(e) \/ RecordDestroyed(e)

-----------------------------------------------------------------------------
(***************************************************************************)
(* SessionReaper.pass: expireSessions, retryDestroys, dropOrphans          *)
(***************************************************************************)

\* The pass goes on when no destroy of its own is in progress.
Sweeping(at) == sweep = at /\ ending["reaper"] = Done

Reads(next, ids) ==
    /\ sweep' = next /\ todo' = ids
    /\ UNCHANGED <<rowVars, database, creating, ending, faults>>

\* What the reaper knows of a session: whether its lifetime was over when the
\* row was read; otherwise its size is still to be asked for.
Known(s) == [id |-> s, over |-> due[s] \cap {"idle", "max-lifetime"} # {}]

BeginSweep ==
    /\ Sweeping("idle")
    /\ Reads("expiring", {Known(s) : s \in With({"ACTIVE"})})
    /\ UNCHANGED listing

\* Over its lifetime, or over its quota now, the session is ended; otherwise
\* at most its client is warned.
ExpireOrNot(k) ==
    /\ Sweeping("expiring")
    /\ todo' = todo \ {k}
    /\ IF k.over \/ "quota" \in due[k.id] THEN EndGoes("reaper", "expire", k.id)
                                          ELSE UNCHANGED ending
    /\ UNCHANGED <<rowVars, database, creating, sweep, listing, faults>>

\* A mistake the runs must catch: rows stuck in PROVISIONING stay there.
MarkNothing ==
    /\ Sweeping("expiring") /\ todo = {}
    /\ Reads("marked", {})
    /\ UNCHANGED listing

MarkStuck ==
    /\ Sweeping("expiring") /\ todo = {}
    /\ LET stuck == {s \in With({"PROVISIONING"}) : "stuck" \in due[s]} IN
       /\ status' = [s \in Session |-> IF s \in stuck THEN "FAILED" ELSE status[s]]
       /\ due' = [s \in Session |-> IF s \in stuck THEN {} ELSE due[s]]
    /\ sweep' = "marked"
    /\ UNCHANGED <<database, creating, ending, todo, listing, faults>>

ReadEnded ==
    /\ Sweeping("marked")
    /\ Reads("retrying", With({"EXPIRED", "FAILED"}))
    /\ UNCHANGED listing

\* Destroys one of the sessions or orphans it has read.
DropNext(s) ==
    /\ Sweeping("retrying") \/ Sweeping("orphans")
    /\ todo' = todo \ {s}
    /\ EndGoes("reaper", "drop", s)
    /\ UNCHANGED <<rowVars, database, creating, sweep, listing, faults>>

ListCluster ==
    /\ Sweeping("retrying") /\ todo = {}
    /\ listing' = {s \in Session : database[s] # "absent"}
    /\ Reads(IF listing' = {} THEN "idle" ELSE "listed", {})

\* A mistake the runs must catch: a row owns its database once it is ACTIVE.
ReadActive ==
    /\ Sweeping("listed")
    /\ Reads("orphans", listing \ With({"ACTIVE"}))
    /\ listing' = {}

\* What was listed and has no live row, read after the listing.
ReadOwned ==
    /\ Sweeping("listed")
    /\ Reads("orphans", listing \ With(Live))
    /\ listing' = {}

EndSweep ==
    /\ Sweeping("orphans") /\ todo = {}
    /\ Reads("idle", {})
    /\ UNCHANGED listing

\* A query of the pass fails, and the pass with it.
SweepFault ==
    /\ sweep # "idle" /\ ending["reaper"] = Done
    /\ Fault
    /\ sweep' = "idle" /\ todo' = {} /\ listing' = {}
    /\ UNCHANGED <<rowVars, database, creating, ending>>

Reap ==
    \/ BeginSweep \/ MarkStuck \/ ReadEnded \/ ListCluster \/ ReadOwned \/ EndSweep
    \/ \E x \in todo : IF sweep = "expiring" THEN ExpireOrNot(x) ELSE DropNext(x)

-----------------------------------------------------------------------------
(***************************************************************************)
(* The environment                                                         *)
(***************************************************************************)

\* A limit is passed.  Unless POSTs are slow, a row stuck in PROVISIONING is
\* one whose POST is over.
Exceed(s, limit) ==
    /\ limit \in Limits(status[s]) \ due[s]
    /\ limit = "stuck" => SlowCreate \/ creating[s] = "none"
    /\ due' = [due EXCEPT ![s] = @ \cup {limit}]
    /\ UNCHANGED <<status, database, creating, ending, sweepVars, faults>>

\* touch(), by a request that was accepted before the idle deadline.
Touch(s) ==
    /\ status[s] = "ACTIVE" /\ "idle" \in due[s]
    /\ due' = [due EXCEPT ![s] = @ \ {"idle"}]
    /\ UNCHANGED <<status, database, creating, ending, sweepVars, faults>>

\* The API dies and starts again.
Crash ==
    /\ Fault
    /\ creating' = [s \in Session |-> "none"]
    /\ ending' = [e \in Enders |-> Done]
    /\ sweep' = "idle" /\ todo' = {} /\ listing' = {}
    /\ UNCHANGED <<rowVars, database>>

-----------------------------------------------------------------------------
Init ==
    /\ status = [s \in Session |-> "absent"]
    /\ due = [s \in Session |-> {}]
    /\ database = [s \in Session |-> "absent"]
    /\ creating = [s \in Session |-> "none"]
    /\ ending = [e \in Enders |-> Done]
    /\ sweep = "idle" /\ todo = {} /\ listing = {}
    /\ faults = 0

Next ==
    \/ \E s \in Session : BeginCreate(s) \/ Create(s) \/ CreateFault(s) \/ Touch(s)
    \/ \E s \in Session, q \in Deletes : BeginEnd(q, s)
    \/ \E e \in Enders : End(e) \/ EndFault(e)
    \/ Reap \/ SweepFault
    \/ \E s \in Session : \E limit \in Limits(status[s]) : Exceed(s, limit)
    \/ Crash

Spec == Init /\ [][Next]_vars

\* Promises settle, the timer of the reaper fires and time passes: the limits
\* that passing time alone exceeds.
Fairness ==
    /\ \A s \in Session : WF_vars(Create(s))
    /\ \A e \in Enders : WF_vars(End(e))
    /\ WF_vars(Reap)
    /\ \A s \in Session : WF_vars(\E limit \in {"stuck", "max-lifetime"} : Exceed(s, limit))

FairSpec == Spec /\ Fairness

-----------------------------------------------------------------------------
(***************************************************************************)
(* Properties                                                              *)
(***************************************************************************)

\* Every variable holds what the code could hold, and the reaper keeps what
\* it has read no longer than the pass that read it.
TypeOK ==
    /\ status \in [Session -> Status]
    /\ due \in [Session -> SUBSET {"idle", "max-lifetime", "quota", "stuck"}]
    /\ database \in [Session -> Database]
    /\ creating \in [Session -> Creating]
    /\ ending \in [Enders -> Ending]
    /\ sweep \in Sweep
    /\ IF sweep = "expiring" THEN todo \subseteq [id : Session, over : BOOLEAN]
                             ELSE todo \subseteq Session
    /\ listing \subseteq Session
    /\ sweep # "listed" => listing = {}
    /\ sweep \in {"idle", "marked", "listed"} => todo = {} /\ ending["reaper"] = Done
    /\ faults \in 0..MaxFaults

Moves ==
    [absent       |-> {"PROVISIONING"},
     PROVISIONING |-> {"ACTIVE", "EXPIRED", "FAILED"},
     ACTIVE       |-> {"EXPIRED"},
     EXPIRED      |-> {"DESTROYED"},
     FAILED       |-> {"DESTROYED"},
     DESTROYED    |-> {}]

\* A session only moves on: no late write of a POST, a DELETE or the reaper
\* takes it back, though most of them do not look at the status they replace.
OnlyForward ==
    [][\A s \in Session : status'[s] # status[s] => status'[s] \in Moves[status[s]]]_vars

\* Nobody drops the database of a live session, or the one that a POST is
\* still building, but that POST itself.
Loses(s) == database[s] # "absent" /\ database'[s] \notin {database[s], "database"}

LiveDatabasesStay ==
    [][\A s \in Session :
          Loses(s) => \/ status[s] \notin Live
                      \/ creating[s] = "undo" /\ creating'[s] = "fail"]_vars

\* An active session has its database.
ActiveHasDatabase == \A s \in Session : status[s] = "ACTIVE" => database[s] = "database"

\* Every session ends, also one whose POST or whose destroy was cut short, and
\* once it has, its database and its role are gone, and stay gone.
SessionsConverge ==
    \A s \in Session :
        status[s] \in Live ~> [](status[s] = "DESTROYED" /\ database[s] = "absent")

=============================================================================
