------------------------------ MODULE Executions ------------------------------
(***************************************************************************)
(* How the API runs SQL in the database of one session: the connections it *)
(* keeps (apps/api/src/sandbox/session-connections.ts), the requests that  *)
(* take turns on them (execution/*.service.ts, with the engine's runScript *)
(* and analyzeQuery) and the log of the session (events/session-log.ts).   *)
(*                                                                         *)
(* A step is what happens between two awaits of one request, an event of a *)
(* connection, or a fault.  A schema is the set of the tables it has: what *)
(* tells a snapshot from another, and a difference from none.              *)
(***************************************************************************)
EXTENDS Naturals, Sequences, FiniteSets

CONSTANTS
    Calls,       \* requests that may be in progress at once
    Jobs,        \* what they may ask for
    MaxCalls,    \* bound: requests of a behaviour
    MaxClients,  \* bound: connections opened
    MaxTables,   \* bound: tables created
    MaxFaults    \* bound: lost connections, failed writes and restarts

Statement == {"create", "read", "begin", "commit", "rollback"}
Job == [kind : {"script", "analyze", "report"}, script : Seq(Statement)]

ASSUME ExecutionsAssumption ==
    /\ Jobs \subseteq Job
    /\ \A j \in Jobs : j.kind # "report" => Len(j.script) > 0
    /\ MaxCalls \in Nat /\ MaxClients \in Nat /\ MaxTables \in Nat /\ MaxFaults \in Nat

VARIABLES
    session,    \* the row of the session and its database
    current,    \* SessionConnections.connections: the client it holds, or 0
    client,     \* state of each client
    events,     \* events each client has still to emit
    queue,      \* requests on each connection, the one that runs first
    snapshot,   \* SessionConnection.snapshot
    closing,    \* clients that release() has yet to close
    committed,  \* tables committed in the database
    tx,         \* transaction of each client's backend
    added,      \* tables that transaction has created
    made,       \* tables created so far
    call,       \* the requests
    started,    \* requests so far
    log,        \* SessionLog: what is recorded, in sum
    faults,     \* faults so far
    incidents   \* kinds of fault that have happened, and whether an event of one
                \* client made the map forget another (history)

connVars == <<current, client, events, queue, snapshot, closing>>
dbVars == <<committed, tx, added, made>>
vars == <<session, connVars, dbVars, call, started, log, faults, incidents>>

-----------------------------------------------------------------------------
Client == 1..MaxClients
Table == 1..MaxTables
Unknown == [known |-> FALSE, tables |-> {}]
Known(s) == [known |-> TRUE, tables |-> s]
Schema == [known : BOOLEAN, tables : SUBSET Table]

Pc == {"idle", "acquire", "opening", "queued", "baseline", "run", "introspect", "append",
       "insert", "touch"}
NoJob == [kind |-> "report", script |-> <<>>]
Call == [pc : Pc, job : Jobs \cup {NoJob}, on : 0..MaxClients, done : Nat, schema : Schema,
         changes : (SUBSET Table) \X (SUBSET Table), seq : Nat]

\* The entries of the session, as far as later requests and a reader of the
\* history can tell: the last number, the tables left by the changes that
\* the SchemaChanged entries report, and the last SnapshotTaken.
Log == [seq : Nat, replayed : SUBSET Table, checkpoint : SUBSET Table]

\* A mistake the runs must catch: no checkpoint of a schema that is unchanged
\* or smaller.
RecordedBirths(changes, schema) ==
    [seq |-> log.seq + 1,
     replayed |-> (log.replayed \cup changes[1]) \ changes[2],
     checkpoint |-> IF schema.known /\ changes[1] # {} THEN schema.tables ELSE log.checkpoint]

\* append() of what a script reports: its changes, and its schema if read.
Recorded(changes, schema) ==
    [seq |-> log.seq + 1,
     replayed |-> (log.replayed \cup changes[1]) \ changes[2],
     checkpoint |-> IF schema.known THEN schema.tables ELSE log.checkpoint]

NoChanges == <<{}, {}>>
Idle == [pc |-> "idle", job |-> NoJob, on |-> 0, done |-> 0, schema |-> Unknown,
         changes |-> NoChanges, seq |-> 0]

\* What a client's backend sees.
Visible(k) == committed \cup added[k]

\* classify(): a rollback and the DDL may change what introspection sees.
ChangesCatalog(st) == st \in {"create", "rollback"}

Step(c, pc) == call' = [call EXCEPT ![c].pc = pc]

\* A mistake the runs must catch: a chain that only goes on after a success.
LeaveFulfilled(c) ==
    /\ queue' = IF call[c].pc = "touch" THEN [queue EXCEPT ![call[c].on] = Tail(@)] ELSE queue
    /\ call' = [call EXCEPT ![c] = Idle]

\* What gives the turn to the next request, whether the work was fulfilled or
\* rejected: exclusive() chains on either.
Leave(c) ==
    /\ queue' = [queue EXCEPT ![call[c].on] = Tail(@)]
    /\ call' = [call EXCEPT ![c] = Idle]

Fault(kinds) ==
    /\ faults < MaxFaults
    /\ faults' = faults + 1
    /\ incidents' = incidents \cup kinds

-----------------------------------------------------------------------------
(***************************************************************************)
(* SessionConnections                                                      *)
(***************************************************************************)

\* A request passes the guard of the controller.
Start(c, job) ==
    /\ call[c].pc = "idle" /\ started < MaxCalls /\ session = "active"
    /\ call' = [call EXCEPT ![c] = [Idle EXCEPT !.pc = "acquire", !.job = job]]
    /\ started' = started + 1
    /\ UNCHANGED <<session, connVars, dbVars, log, faults, incidents>>

\* A client nothing refers to any more: its number may be given again.
Free(k) ==
    \/ client[k] = "none"
    \/ /\ client[k] = "dead" /\ events[k] = {} /\ k \notin closing
       /\ \A c \in Calls : call[c].on # k

\* acquire(): the connection of the session, opened by the first who asks;
\* on one that is there, exclusive() queues the work at once.
Acquire(c) ==
    /\ call[c].pc = "acquire"
    /\ \/ /\ current # 0 /\ client[current] = "connecting"
          /\ call' = [call EXCEPT ![c].pc = "opening", ![c].on = current]
          /\ UNCHANGED <<current, client, snapshot, queue>>
       \/ /\ current # 0 /\ client[current] # "connecting"
          /\ call' = [call EXCEPT ![c].pc = "queued", ![c].on = current]
          /\ queue' = [queue EXCEPT ![current] = Append(@, c)]
          /\ UNCHANGED <<current, client, snapshot>>
       \/ /\ current = 0
          /\ \E k \in Client :
                /\ Free(k) /\ \A j \in 1..(k - 1) : ~Free(j)
                /\ client' = [client EXCEPT ![k] = "connecting"]
                /\ snapshot' = [snapshot EXCEPT ![k] = Unknown]
                /\ current' = k
                /\ call' = [call EXCEPT ![c].pc = "opening", ![c].on = k]
          /\ UNCHANGED queue
    /\ UNCHANGED <<session, events, closing, dbVars, started, log, faults, incidents>>

\* open() succeeds.
Opened(k) ==
    /\ client[k] = "connecting" /\ session # "dropped"
    /\ client' = [client EXCEPT ![k] = "live"]
    /\ UNCHANGED <<session, current, events, queue, snapshot, closing, dbVars, call, started, log,
                   faults, incidents>>

\* open() fails: whoever awaited it fails with it, and the map forgets the
\* session, whatever it holds by then.  The handlers are there before
\* connect(): the client still emits its end, and an error before it if the
\* connection goes only while its pid is asked for.
OpenFails(k) ==
    /\ client[k] = "connecting"
    /\ \/ Fault({})
       \/ session = "dropped" /\ UNCHANGED <<faults, incidents>>
    /\ client' = [client EXCEPT ![k] = "dead"]
    /\ \E late \in {{"end"}, {"error", "end"}} : events' = [events EXCEPT ![k] = late]
    /\ current' = 0
    /\ call' = [c \in Calls |-> IF call[c].pc = "opening" /\ call[c].on = k
                                THEN Idle ELSE call[c]]
    /\ closing' = closing \ {k}
    /\ UNCHANGED <<session, queue, snapshot, dbVars, started, log>>

\* The backend of a client goes, and with it its transaction.
Lost(ks, emitted) ==
    /\ client' = [k \in Client |-> IF k \in ks THEN "dead" ELSE client[k]]
    /\ events' = [k \in Client |-> IF k \in ks THEN emitted ELSE events[k]]
    /\ tx' = [k \in Client |-> IF k \in ks THEN "none" ELSE tx[k]]
    /\ added' = [k \in Client |-> IF k \in ks THEN {} ELSE added[k]]

\* The network or the server ends a connection.
Lose(k) ==
    /\ client[k] = "live"
    /\ Fault({"lost"})
    /\ Lost({k}, {"error", "end"})
    /\ UNCHANGED <<session, current, queue, snapshot, closing, committed, made, call, started, log>>

\* A mistake the runs must catch: a handler that forgets nothing.
ForgetNothing(k) == UNCHANGED current

\* The 'error' and 'end' handlers: the map forgets the session, whichever
\* client it now holds.
Forget(k) == current' = 0

Emit(k) ==
    /\ \E e \in events[k] :
          /\ e = "end" => "error" \notin events[k]
          /\ events' = [events EXCEPT ![k] = @ \ {e}]
    /\ Forget(k)
    /\ incidents' = incidents \cup (IF current \in {0, k} THEN {} ELSE {"forgotten"})
    /\ UNCHANGED <<session, client, queue, snapshot, closing, dbVars, call, started, log, faults>>

-----------------------------------------------------------------------------
(***************************************************************************)
(* A request on its connection                                             *)
(***************************************************************************)

\* The connection it waited for is there: exclusive() queues the work.
Enter(c) ==
    LET k == call[c].on IN
    /\ call[c].pc = "opening" /\ client[k] \in {"live", "dead"}
    /\ queue' = [queue EXCEPT ![k] = Append(@, c)]
    /\ Step(c, "queued")
    /\ UNCHANGED <<session, current, client, events, snapshot, closing, dbVars, started, log,
                   faults, incidents>>

\* A mistake the runs must catch: a connection without turns.
AnyTurn(c) == TRUE

\* The turn of a request on its connection.
Turn(c) == Head(queue[call[c].on]) = c

Begin(c) ==
    LET k == call[c].on IN
    /\ call[c].pc = "queued" /\ Turn(c)
    /\ Step(c, CASE call[c].job.kind = "report"  -> "introspect"
                 [] call[c].job.kind = "analyze" -> "run"
                 [] OTHER -> IF snapshot[k].known THEN "run" ELSE "baseline")
    /\ UNCHANGED <<session, connVars, dbVars, started, log, faults, incidents>>

\* A new connection starts from the last checkpoint of the log.
Baseline(c) ==
    /\ call[c].pc = "baseline"
    /\ snapshot' = [snapshot EXCEPT ![call[c].on] = Known(log.checkpoint)]
    /\ Step(c, "run")
    /\ UNCHANGED <<session, current, client, events, queue, closing, dbVars, started, log, faults,
                   incidents>>

\* What a statement does in its backend.
Effect(k, st) ==
    \/ /\ st = "create" /\ made < MaxTables
       /\ made' = made + 1
       /\ IF tx[k] = "open"
          THEN /\ added' = [added EXCEPT ![k] = @ \cup {made + 1}]
               /\ UNCHANGED committed
          ELSE /\ committed' = committed \cup {made + 1}
               /\ UNCHANGED added
       /\ UNCHANGED tx
    \/ st = "read" /\ UNCHANGED dbVars
    \/ /\ st = "begin"
       /\ tx' = [tx EXCEPT ![k] = "open"]
       /\ UNCHANGED <<committed, added, made>>
    \/ \* a failed transaction that commits is rolled back
       /\ st \in {"commit", "rollback"}
       /\ tx' = [tx EXCEPT ![k] = "none"]
       /\ committed' = IF st = "commit" /\ tx[k] = "open" THEN Visible(k) ELSE committed
       /\ added' = [added EXCEPT ![k] = {}]
       /\ UNCHANGED made

\* What follows the last statement that ran: the first error stops the
\* script, and the schema is read again if anything may have changed it.  An
\* analysis that failed is not recorded.
AfterStatement(c, ok) ==
    LET job == call[c].job
        done == call[c].done + 1
        changed == \E i \in 1..done : ChangesCatalog(job.script[i])
    IN
    IF ok /\ done < Len(job.script)
    THEN call' = [call EXCEPT ![c].done = done] /\ UNCHANGED queue
    ELSE IF job.kind = "script"
    THEN /\ call' = [call EXCEPT ![c].done = done, ![c].pc = IF changed THEN "introspect" ELSE "append"]
         /\ UNCHANGED queue
    ELSE IF ok THEN Step(c, "append") /\ UNCHANGED queue
    ELSE Leave(c)

\* runStatement(): a statement succeeds, or the server reports an error: its
\* own, the transaction's that has failed, or the watchdog's cancellation.
Run(c) ==
    LET k == call[c].on
        st == call[c].job.script[call[c].done + 1]
        ends == st \in {"commit", "rollback"}
    IN
    /\ call[c].pc = "run" /\ client[k] = "live"
    /\ \/ /\ tx[k] # "failed" \/ ends
          /\ Effect(k, st)
          /\ AfterStatement(c, TRUE)
       \/ /\ ~ends
          /\ tx' = [tx EXCEPT ![k] = IF @ = "open" THEN "failed" ELSE @]
          /\ UNCHANGED <<committed, added, made>>
          /\ AfterStatement(c, FALSE)
    /\ UNCHANGED <<session, current, client, events, snapshot, closing, started, log, faults,
                   incidents>>

\* readSchema() and the difference from the snapshot of the connection.  In a
\* failed transaction nothing can be read: the schema stays unknown to a
\* script, and fails a report.
Introspect(c) ==
    LET k == call[c].on
        before == snapshot[k].tables
        after == Visible(k)
    IN
    /\ call[c].pc = "introspect" /\ client[k] = "live"
    /\ IF call[c].job.kind = "report"
       THEN /\ IF tx[k] = "failed" THEN Leave(c) ELSE Step(c, "touch") /\ UNCHANGED queue
            /\ UNCHANGED snapshot
       ELSE IF tx[k] = "failed"
       THEN Step(c, "append") /\ UNCHANGED <<snapshot, queue>>
       ELSE /\ snapshot' = [snapshot EXCEPT ![k] = Known(after)]
            /\ call' = [call EXCEPT ![c].pc = "append", ![c].schema = Known(after),
                                    ![c].changes = <<after \ before, before \ after>>]
            /\ UNCHANGED queue
    /\ UNCHANGED <<session, current, client, events, closing, dbVars, started, log, faults,
                   incidents>>

\* append() reads the last number of the session ...
ReadSeq(c) ==
    /\ call[c].pc = "append"
    /\ call' = [call EXCEPT ![c].pc = "insert", ![c].seq = log.seq + 1]
    /\ UNCHANGED <<session, connVars, dbVars, started, log, faults, incidents>>

\* ... and inserts with the next, which the primary key wants free.
Insert(c) ==
    /\ call[c].pc = "insert"
    /\ IF call[c].seq = log.seq + 1
       THEN /\ log' = Recorded(call[c].changes, call[c].schema)
            /\ Step(c, "touch")
            /\ UNCHANGED <<queue, incidents>>
       ELSE /\ incidents' = incidents \cup {"unrecorded"}
            /\ Leave(c)
            /\ UNCHANGED log
    /\ UNCHANGED <<session, current, client, events, snapshot, closing, dbVars, started, faults>>

\* A mistake the runs must catch: a connection that is given back after each
\* request, as to a pool.
FinishAndGiveBack(c) ==
    /\ call[c].pc = "touch"
    /\ Leave(c)
    /\ current' = 0
    /\ UNCHANGED <<session, client, events, snapshot, closing, dbVars, started, log, faults,
                   incidents>>

\* touch(), and the answer.
Finish(c) ==
    /\ call[c].pc = "touch"
    /\ Leave(c)
    /\ UNCHANGED <<session, current, client, events, snapshot, closing, dbVars, started, log,
                   faults, incidents>>

\* An await throws: the control database fails, or the connection is gone.
Throw(c) ==
    /\ \/ /\ call[c].pc \in {"run", "introspect"} /\ client[call[c].on] = "dead"
          /\ UNCHANGED <<faults, incidents>>
       \/ /\ call[c].pc \in {"baseline", "append", "insert"}
          /\ Fault({"unrecorded"})
       \/ call[c].pc = "touch" /\ Fault({})
    /\ Leave(c)
    /\ UNCHANGED <<session, current, client, events, snapshot, closing, dbVars, started, log>>

-----------------------------------------------------------------------------
(***************************************************************************)
(* The end of the session, and the end of the process                      *)
(***************************************************************************)

\* SessionService.end(): release() forgets the connection and closes it ...
End ==
    /\ session = "active"
    /\ session' = "ended"
    /\ closing' = closing \cup ({current} \ {0})
    /\ current' = 0
    /\ UNCHANGED <<client, events, queue, snapshot, dbVars, call, started, log, faults, incidents>>

Close(k) ==
    /\ k \in closing /\ client[k] \in {"live", "dead"}
    /\ closing' = closing \ {k}
    /\ IF client[k] = "live" THEN Lost({k}, {"end"}) ELSE UNCHANGED <<client, events, tx, added>>
    /\ UNCHANGED <<session, current, queue, snapshot, committed, made, call, started, log, faults,
                   incidents>>

\* ... and the database is dropped, with whatever is still connected to it.
Drop ==
    /\ session = "ended" /\ closing = {}
    /\ session' = "dropped"
    /\ Lost({k \in Client : client[k] = "live"}, {"error", "end"})
    /\ UNCHANGED <<current, queue, snapshot, closing, committed, made, call, started, log, faults,
                   incidents>>

\* The API dies and starts again: what it held in memory is gone, and the
\* server rolls back what its connections had open.
Crash ==
    /\ Fault({"crash"})
    /\ current' = 0 /\ closing' = {}
    /\ client' = [k \in Client |-> IF client[k] = "none" THEN "none" ELSE "dead"]
    /\ events' = [k \in Client |-> {}]
    /\ queue' = [k \in Client |-> <<>>]
    /\ snapshot' = [k \in Client |-> Unknown]
    /\ tx' = [k \in Client |-> "none"] /\ added' = [k \in Client |-> {}]
    /\ call' = [c \in Calls |-> Idle]
    /\ UNCHANGED <<session, committed, made, started, log>>

-----------------------------------------------------------------------------
Init ==
    /\ session = "active" /\ current = 0 /\ closing = {}
    /\ client = [k \in Client |-> "none"]
    /\ events = [k \in Client |-> {}]
    /\ queue = [k \in Client |-> <<>>]
    /\ snapshot = [k \in Client |-> Unknown]
    /\ committed = {} /\ made = 0
    /\ tx = [k \in Client |-> "none"] /\ added = [k \in Client |-> {}]
    /\ call = [c \in Calls |-> Idle]
    /\ started = 0
    /\ log = [seq |-> 1, replayed |-> {}, checkpoint |-> {}]
    /\ faults = 0 /\ incidents = {}

\* The steps a request takes by itself.
Proceed(c) ==
    \/ Acquire(c) \/ Enter(c) \/ Begin(c) \/ Baseline(c) \/ Run(c) \/ Introspect(c)
    \/ ReadSeq(c) \/ Insert(c) \/ Finish(c) \/ Throw(c)

Next ==
    \/ \E c \in Calls : Proceed(c) \/ \E j \in Jobs : Start(c, j)
    \/ \E k \in Client : Opened(k) \/ OpenFails(k) \/ Lose(k) \/ Emit(k) \/ Close(k)
    \/ End \/ Drop \/ Crash

Spec == Init /\ [][Next]_vars

\* Promises settle and events are emitted; nobody has to start a request or
\* end the session, and nothing has to fail.
Fairness ==
    /\ \A c \in Calls : WF_vars(Proceed(c))
    /\ \A k \in Client : WF_vars(Opened(k) \/ OpenFails(k)) /\ WF_vars(Emit(k)) /\ WF_vars(Close(k))
    /\ WF_vars(Drop)

FairSpec == Spec /\ Fairness

-----------------------------------------------------------------------------
(***************************************************************************)
(* Safety                                                                  *)
(***************************************************************************)

\* Every variable holds what the code could hold, and who waits for a turn on
\* a connection, or has it, is a request that is on it.
TypeOK ==
    /\ session \in {"active", "ended", "dropped"}
    /\ current \in 0..MaxClients
    /\ client \in [Client -> {"none", "connecting", "live", "dead"}]
    /\ events \in [Client -> SUBSET {"error", "end"}]
    /\ queue \in [Client -> Seq(Calls)]
    /\ \A k \in Client : \A i \in DOMAIN queue[k] : call[queue[k][i]].on = k
    /\ snapshot \in [Client -> Schema]
    /\ closing \subseteq Client
    /\ committed \subseteq Table /\ made \in 0..MaxTables
    /\ tx \in [Client -> {"none", "open", "failed"}]
    /\ added \in [Client -> SUBSET Table]
    /\ call \in [Calls -> Call]
    /\ started \in 0..MaxCalls
    /\ log \in Log
    /\ faults \in 0..MaxFaults
    /\ incidents \subseteq {"lost", "forgotten", "unrecorded", "crash"}

\* Requests whose work exclusive() has started.
Working(c) == call[c].pc \in {"baseline", "run", "introspect", "append", "insert", "touch"}

\* "two browser tabs must take turns, not interleave statements": what runs
\* on one backend is the work of one request, whatever has failed before.
TakeTurns ==
    \A c, d \in Calls :
        (Working(c) /\ Working(d) /\ call[c].on = call[d].on) => c = d

\* What a user began in one request and has not ended is where the next
\* request of the session will run, across failed openings and their late
\* events too, unless a connection was lost, or the late event of one client
\* made the map forget another.
TransactionIsPinned ==
    (incidents \cap {"lost", "forgotten"} = {} /\ session = "active")
        => \A k \in Client : tx[k] # "none" => current = k

\* The changes in the log add up to its last checkpoint: across a restart,
\* which loses the snapshot in memory, the next difference starts from there.
HistoryReplays ==
    (incidents \cap {"lost", "forgotten", "unrecorded"} = {} /\ session = "active")
        => log.checkpoint = log.replayed

\* "Callers serialise per session, so max + 1 is safe": nobody finds the
\* number of an entry taken.
NumbersAreFree ==
    \A c \in Calls : call[c].pc = "insert" => call[c].seq = log.seq + 1

\* "a missed one shows the user a wrong schema": with no fault at all, and
\* nothing running, what the API takes for the schema is what the session sees.
SchemaIsTracked ==
    (session = "active" /\ incidents = {} /\ current # 0 /\ queue[current] = <<>>
        /\ snapshot[current].known /\ tx[current] # "failed")
    => snapshot[current].tables = Visible(current)

-----------------------------------------------------------------------------
(***************************************************************************)
(* Liveness                                                                *)
(***************************************************************************)

\* Every request is answered: one that fails passes the turn on, and a lost
\* connection leaves nobody waiting.
RequestsAreAnswered == \A c \in Calls : call[c].pc # "idle" ~> call[c].pc = "idle"

\* Once its session has ended, no connection is left, not even of a request
\* that passed the guard before and connected after.
ConnectionsEnd ==
    session = "ended" ~> [](current = 0 /\ \A k \in Client : client[k] \in {"none", "dead"})

==============================================================================
