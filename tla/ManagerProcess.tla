----------------------------- MODULE ManagerProcess -----------------------------
(***************************************************************************)
(* The process of the sandbox manager (apps/sandbox-manager/src/main.ts)   *)
(* and store/migrate.ts: how processes that start at the same time bring   *)
(* the state database up to date, and how one that is told to stop finishes*)
(* what it has begun.  What it does in between is reduced to what keeps a  *)
(* process busy: requests, passes of the loop and provisionings.           *)
(***************************************************************************)
EXTENDS Naturals, Sequences, FiniteSets, FiniteSetsExt, SequencesExt

CONSTANTS
    Processes,
    Known,      \* how many migrations the code of each process has
    Clients,    \* requests in progress at once
    Boxes,      \* sandboxes
    MaxBoots,   \* bound
    MaxMishaps  \* bound: crashes, failed migrations and clients that hang up

ManagerProcessAssumption ==
    /\ "free" \notin Processes /\ "nobody" \notin Processes
    /\ Known \in [Processes -> Nat]
    /\ MaxBoots \in Nat /\ MaxMishaps \in Nat

VARIABLES
    lock,       \* MIGRATION_LOCK: "free", a process, or the connection of a dead one
    schema,     \* the migrations whose statements have been committed, in order
    recorded,   \* schema_migrations
    box,        \* the rows of the sandboxes
    process,    \* each process
    request,    \* each request
    boots, mishaps,
    troubled    \* why a row may be left behind, if it may (history)

database == <<lock, schema, recorded>>
vars == <<database, box, process, request, boots, mishaps, troubled>>

-----------------------------------------------------------------------------
\* A process: where it is, what the main module has yet to do, the names it
\* read, whether its timer runs, its pass, its inFlight, what drain() waits
\* for, and whether a request or the loop outlived the stopping of both.
Down ==
    [at |-> "down", main |-> "listen", done |-> {}, timer |-> FALSE, pass |-> FALSE,
     building |-> {}, awaited |-> {}, forsaken |-> FALSE]
NoRequest == [at |-> "none", on |-> "nobody", box |-> "none", gone |-> FALSE]

At(p, at) == process[p].at = at
Of(p) == {c \in Clients : request[c].on = p}
Mishap == mishaps < MaxMishaps /\ mishaps' = mishaps + 1

\* The loop has been stopped.
Late == {"stopping", "draining", "ended"}

\* Between its first statement and the end of its pool.
HasPool(p) == process[p].at \notin {"down", "ended"}

-----------------------------------------------------------------------------
(***************************************************************************)
(* migrate()                                                               *)
(***************************************************************************)
Boot(p) ==
    /\ At(p, "down") /\ boots < MaxBoots
    /\ boots' = boots + 1
    /\ process' = [process EXCEPT ![p].at = "locking"]
    /\ UNCHANGED <<database, box, request, mishaps, troubled>>

\* A mistake the runs must catch: nobody waits.
LockNever(p) == TRUE

\* The lock is of the session, not of a transaction.
MayLock(p) == lock = "free"

Lock(p) ==
    /\ At(p, "locking") /\ MayLock(p)
    /\ lock' = p
    /\ process' = [process EXCEPT ![p].at = "reading"]
    /\ UNCHANGED <<schema, recorded, box, request, boots, mishaps, troubled>>

\* query_timeout: the process dies of it.
LockTimesOut(p) ==
    /\ At(p, "locking") /\ lock # "free"
    /\ process' = [process EXCEPT ![p] = Down]
    /\ UNCHANGED <<database, box, request, boots, mishaps, troubled>>

\* The table of the names is there by then, by this process or another.
ReadDone(p) ==
    /\ At(p, "reading")
    /\ process' = [process EXCEPT ![p].at = "migrating", ![p].done = recorded]
    /\ UNCHANGED <<database, box, request, boots, mishaps, troubled>>

Missing(p) == (1..Known[p]) \ process[p].done

\* One transaction: the statements, which fail where they have been run, and
\* the name.
Commits(file) ==
    /\ file \notin ToSet(schema) /\ file \notin recorded
    /\ schema' = Append(schema, file)
    /\ recorded' = recorded \cup {file}

Migrate(p) ==
    LET file == Min(Missing(p)) IN
    /\ At(p, "migrating") /\ Missing(p) # {}
    /\ \/ /\ Commits(file)
          /\ process' = [process EXCEPT ![p].done = @ \cup {file}]
       \/ /\ file \in ToSet(schema) \cup recorded
          /\ process' = [process EXCEPT ![p].at = "failed"]
          /\ UNCHANGED <<schema, recorded>>
    /\ UNCHANGED <<lock, box, request, boots, mishaps, troubled>>

\* The database fails, before or after the commit.
MigrationFails(p) ==
    /\ At(p, "migrating") /\ Missing(p) # {} /\ Mishap
    /\ Commits(Min(Missing(p))) \/ UNCHANGED <<schema, recorded>>
    /\ process' = [process EXCEPT ![p].at = "failed"]
    /\ troubled' = troubled \cup {"mishap"}
    /\ UNCHANGED <<lock, box, request, boots>>

\* `finally`; the process then goes on, or dies of the error.
Unlock(p) ==
    /\ At(p, "failed") \/ (At(p, "migrating") /\ Missing(p) = {})
    /\ lock' = IF lock = p THEN "free" ELSE lock
    /\ process' = [process EXCEPT ![p] = IF At(p, "failed") THEN Down ELSE [@ EXCEPT !.at = "starting"]]
    /\ UNCHANGED <<schema, recorded, box, request, boots, mishaps, troubled>>

\* The server of the database notices that a process has died.
ConnectionEnds ==
    /\ lock = "nobody"
    /\ lock' = "free"
    /\ UNCHANGED <<schema, recorded, box, process, request, boots, mishaps, troubled>>

-----------------------------------------------------------------------------
(***************************************************************************)
(* What a process does while it runs                                       *)
(***************************************************************************)

\* The handlers of the signals are there by the time the main module awaits
\* listen(), so that it may go on when the shutdown is on its way, or over.
Running(p) == process[p].at \in {"starting", "serving", "closing"} \cup Late

\* listen() answers; a server that is being closed accepts nothing.
Listen(p) ==
    /\ Running(p) /\ process[p].main = "listen"
    /\ process' = [process EXCEPT ![p].main = "start", ![p].at = IF @ = "starting" THEN "serving" ELSE @]
    /\ UNCHANGED <<database, box, request, boots, mishaps, troubled>>

\* It may also reject because the server is closed, which nobody catches.
ListenFails(p) ==
    /\ Running(p) /\ ~At(p, "starting") /\ process[p].main = "listen"
    /\ process' = [process EXCEPT ![p] = Down]
    /\ UNCHANGED <<database, box, request, boots, mishaps, troubled>>

\* start() of the loop, also of one that stop() has stopped.
Start(p) ==
    /\ Running(p) /\ process[p].main = "start"
    /\ process' = [process EXCEPT ![p].main = "done", ![p].timer = TRUE, ![p].pass = TRUE,
                                  ![p].forsaken = @ \/ process[p].at \in Late]
    /\ troubled' = IF process[p].at \in Late THEN troubled \cup {"restarted"} ELSE troubled
    /\ UNCHANGED <<database, box, request, boots, mishaps>>

\* trigger(), by the timer: a pass, or the one that is running.
Tick(p) ==
    /\ process[p].timer
    /\ process' = [process EXCEPT ![p].pass = TRUE]
    /\ UNCHANGED <<database, box, request, boots, mishaps, troubled>>

Waiting == {b \in Boxes : box[b] = "PENDING"}
Promote(promoted) ==
    box' = [b \in Boxes |-> IF b \in promoted THEN "PROVISIONING" ELSE box[b]]

\* A pass ends with admit(), which starts to provision what fits.  A
\* reconciler that is being stopped waits for it, and drain() comes next.
PassEnds(p) ==
    /\ process[p].pass /\ HasPool(p)
    /\ \E promoted \in SUBSET Waiting :
          LET building == process[p].building \cup promoted IN
          /\ Promote(promoted)
          /\ process' = [process EXCEPT
                ![p].pass = FALSE, ![p].building = building,
                ![p].at = IF @ = "stopping" THEN "draining" ELSE @,
                ![p].awaited = IF At(p, "stopping") THEN building ELSE @]
    /\ UNCHANGED <<database, request, boots, mishaps, troubled>>

\* A POST or a DELETE.
Call(c, p, b) ==
    /\ request[c] = NoRequest /\ At(p, "serving")
    /\ \E at \in {"insert", "release"} :
          request' = [request EXCEPT ![c] = [at |-> at, on |-> p, box |-> b, gone |-> FALSE]]
    /\ UNCHANGED <<database, box, process, boots, mishaps, troubled>>

\* The row is there already, or the queue is full, or there is one more.
Insert(c) ==
    LET r == request[c] IN
    /\ r.at = "insert" /\ HasPool(r.on)
    /\ \/ /\ request' = [request EXCEPT ![c].at = "answer"]
          /\ UNCHANGED box
       \/ /\ box[r.box] = "absent"
          /\ request' = [request EXCEPT ![c].at = "admit"]
          /\ box' = [box EXCEPT ![r.box] = "PENDING"]
    /\ UNCHANGED <<database, process, boots, mishaps, troubled>>

Admit(c) ==
    LET p == request[c].on IN
    /\ request[c].at = "admit" /\ HasPool(p)
    /\ \E promoted \in SUBSET Waiting :
          /\ Promote(promoted)
          /\ process' = [process EXCEPT ![p].building = @ \cup promoted]
    /\ request' = [request EXCEPT ![c].at = "answer"]
    /\ UNCHANGED <<database, boots, mishaps, troubled>>

\* A DELETE has a pass run at once if there is something to tear down; of a
\* row that is on its way out or has ended ("ended") there may be.
Release(c) ==
    LET r == request[c] IN
    /\ r.at = "release" /\ HasPool(r.on)
    /\ box' = [box EXCEPT ![r.box] = IF @ = "absent" THEN @ ELSE "ended"]
    /\ \/ /\ box[r.box] \in {"PROVISIONING", "READY", "ended"}
          /\ process' = [process EXCEPT ![r.on].pass = TRUE]
       \/ /\ box[r.box] \in {"absent", "PENDING", "ended"}
          /\ UNCHANGED process
    /\ request' = [request EXCEPT ![c].at = "answer"]
    /\ UNCHANGED <<database, boots, mishaps, troubled>>

Answer(c) ==
    /\ request[c].at = "answer"
    /\ request' = [request EXCEPT ![c] = NoRequest]
    /\ UNCHANGED <<database, box, process, boots, mishaps, troubled>>

\* The client does not wait any longer; the handler goes on.
HangUp(c) ==
    /\ request[c].at # "none" /\ ~request[c].gone /\ Mishap
    /\ request' = [request EXCEPT ![c].gone = TRUE]
    /\ UNCHANGED <<database, box, process, boots, troubled>>

\* provisionSandbox(), whose outcome cannot be recorded without a pool.
Provisioned(p, b) ==
    /\ b \in process[p].building
    /\ process' = [process EXCEPT ![p].building = @ \ {b}]
    /\ box' = IF HasPool(p) /\ box[b] = "PROVISIONING"
              THEN [box EXCEPT ![b] = "READY"] ELSE box
    /\ UNCHANGED <<database, request, boots, mishaps, troubled>>

-----------------------------------------------------------------------------
(***************************************************************************)
(* shutdown()                                                              *)
(***************************************************************************)

\* SIGTERM or SIGINT once their handlers are registered; before, they kill.
Signal(p) ==
    /\ process[p].at \in {"starting", "serving"}
    /\ process' = [process EXCEPT ![p].at = "closing"]
    /\ UNCHANGED <<database, box, request, boots, mishaps, troubled>>

\* A mistake the runs must catch: the pass that runs is not waited for.
StopAtOnce(p) ==
    [process[p] EXCEPT !.at = "draining", !.timer = FALSE, !.awaited = process[p].building]

\* stop() of the reconciler.
Stopped(p) ==
    IF process[p].pass
    THEN [process[p] EXCEPT !.at = "stopping", !.timer = FALSE]
    ELSE [process[p] EXCEPT !.at = "draining", !.timer = FALSE, !.awaited = process[p].building]

\* close() waits for the connections, and so for no client that hung up.
Close(p) ==
    /\ At(p, "closing") /\ \A c \in Of(p) : request[c].gone
    /\ process' = [process EXCEPT ![p] = [Stopped(p) EXCEPT !.forsaken = Of(p) # {}]]
    /\ troubled' = IF Of(p) # {} THEN troubled \cup {"forsaken"} ELSE troubled
    /\ UNCHANGED <<database, box, request, boots, mishaps>>

\* drain() has waited for those it found in flight, and the pool is ended.
Drain(p) ==
    /\ At(p, "draining") /\ process[p].awaited \cap process[p].building = {}
    /\ process' = [process EXCEPT ![p].at = "ended"]
    /\ UNCHANGED <<database, box, request, boots, mishaps, troubled>>

\* Whatever asks the pool now is refused, and that is the end of it; a pass
\* falls back to the labels, and promotes nothing.
Refused(p) ==
    /\ At(p, "ended")
    /\ \/ /\ process[p].pass
          /\ process' = [process EXCEPT ![p].pass = FALSE] /\ UNCHANGED request
       \/ \E c \in Of(p) :
             /\ request[c].at # "answer"
             /\ request' = [request EXCEPT ![c] = NoRequest] /\ UNCHANGED process
    /\ UNCHANGED <<database, box, boots, mishaps, troubled>>

\* Nothing keeps it alive, as a timer would.
Exit(p) ==
    /\ At(p, "ended") /\ process[p].main = "done" /\ ~process[p].timer
    /\ process[p].building = {} /\ ~process[p].pass /\ Of(p) = {}
    /\ process' = [process EXCEPT ![p] = Down]
    /\ UNCHANGED <<database, box, request, boots, mishaps, troubled>>

\* Killed at any point, in the middle of a commit also.
Crash(p) ==
    /\ ~At(p, "down") /\ Mishap
    /\ process' = [process EXCEPT ![p] = Down]
    /\ request' = [c \in Clients |-> IF c \in Of(p) THEN NoRequest ELSE request[c]]
    /\ lock' = IF lock = p THEN "nobody" ELSE lock
    /\ \/ At(p, "migrating") /\ Missing(p) # {} /\ Commits(Min(Missing(p)))
       \/ UNCHANGED <<schema, recorded>>
    /\ troubled' = troubled \cup {"mishap"}
    /\ UNCHANGED <<box, boots>>

-----------------------------------------------------------------------------
Init ==
    /\ lock = "free" /\ schema = <<>> /\ recorded = {}
    /\ box = [b \in Boxes |-> "absent"]
    /\ process = [p \in Processes |-> Down]
    /\ request = [c \in Clients |-> NoRequest]
    /\ boots = 0 /\ mishaps = 0 /\ troubled = {}

Next ==
    \/ ConnectionEnds
    \/ \E p \in Processes :
          \/ Boot(p) \/ Lock(p) \/ LockTimesOut(p) \/ ReadDone(p) \/ Migrate(p)
          \/ MigrationFails(p) \/ Unlock(p) \/ Listen(p) \/ ListenFails(p) \/ Start(p)
          \/ Tick(p) \/ PassEnds(p)
          \/ Signal(p) \/ Close(p) \/ Drain(p) \/ Refused(p) \/ Exit(p) \/ Crash(p)
          \/ \E b \in Boxes : Provisioned(p, b)
          \/ \E c \in Clients, b \in Boxes : Call(c, p, b)
    \/ \E c \in Clients : Insert(c) \/ Admit(c) \/ Release(c) \/ Answer(c) \/ HangUp(c)

Spec == Init /\ [][Next]_vars

-----------------------------------------------------------------------------
\* However many start at once, of whatever versions, the migrations are
\* applied in order and once, as their names say; a process serves when all it
\* knows have been; and none fails for what another has done (migrate.ts,
\* "serializes two replicas that boot at the same time").
MigrationsHold ==
    /\ schema = [i \in DOMAIN schema |-> i] /\ recorded = ToSet(schema)
    /\ \A p \in Processes :
          /\ process[p].at \notin {"down", "locking", "reading", "migrating", "failed"} =>
                1..Known[p] \subseteq recorded
          /\ At(p, "failed") => "mishap" \in troubled

\* A process that has ended its pool has nothing left that wants it, but for
\* a request that outlived its client, or a loop the main module started after
\* the shutdown had stopped it; and without these, or a mishap, each row being
\* provisioned is being provisioned by a process (main.ts, "A provisioning cut
\* short would leave its record").
StopsClean ==
    /\ \A p \in Processes : At(p, "ended") /\ ~process[p].forsaken =>
          process[p].building = {} /\ ~process[p].pass /\ Of(p) = {}
    /\ \A b \in Boxes : box[b] = "PROVISIONING" =>
          troubled # {} \/ \E p \in Processes : b \in process[p].building

=============================================================================
