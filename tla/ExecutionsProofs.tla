--------------------------- MODULE ExecutionsProofs ---------------------------
(***************************************************************************)
(* Theorems about what the API runs in one session, and their proofs: that *)
(* requests take turns on a connection, that a transaction stays where the *)
(* session's next request will run, and that the log adds up.              *)
(*                                                                         *)
(* Two arguments.  A chain of promises is a queue of which only the first  *)
(* may work; Leave() takes that one off it, whatever has become of it.  And*)
(* as long as no connection has been lost or forgotten and the session goes*)
(* on, there is only the one connection the map holds, and only clients    *)
(* that never connected have events to come: what a request does on it, it *)
(* does alone, so the snapshot of the connection, the request in progress  *)
(* and the log always add up.                                              *)
(***************************************************************************)
EXTENDS Executions, SequenceTheorems, TLAPS

-----------------------------------------------------------------------------
(***************************************************************************)
(* The inductive invariant                                                 *)
(***************************************************************************)

\* Who has asked for a connection is on one.
Placed == \A c \in Calls : call[c].pc \notin {"idle", "acquire"} => call[c].on \in Client

\* In a queue are requests on that connection, each once, of which only the
\* first may work.
InQueue(k) ==
    /\ \A i \in 1..Len(queue[k]) :
          LET c == queue[k][i] IN
          /\ call[c].on = k
          /\ call[c].pc = "queued" \/ (Working(c) /\ i = 1)
    /\ \A i, j \in 1..Len(queue[k]) : queue[k][i] = queue[k][j] => i = j

QueuesFit == \A k \in Client : InQueue(k)

\* Who works is the first, and who waits for a turn is somewhere in the queue.
Leads(c) == queue[call[c].on] # <<>> /\ queue[call[c].on][1] = c
Waits(c) == \E i \in 1..Len(queue[call[c].on]) : queue[call[c].on][i] = c

TurnsFit ==
    \A c \in Calls :
        /\ Working(c) => Leads(c)
        /\ call[c].pc = "queued" => Waits(c)

TurnsInv == TypeOK /\ Placed /\ QueuesFit /\ TurnsFit

\* A transaction is open on a live connection only.
BackendsLive == \A k \in Client : tx[k] # "none" => client[k] = "live"

\* Nothing has come between the session and its connection.
Undisturbed == incidents \cap {"lost", "forgotten"} = {} /\ session = "active"

\* Then it has one connection at most, and whoever has asked is on it; events
\* are still to come only from clients that never connected.
OneConnection ==
    /\ closing = {} /\ \A k \in Client : events[k] # {} => client[k] = "dead"
    /\ current # 0 => client[current] \in {"connecting", "live"}
    /\ \A k \in Client : client[k] \in {"connecting", "live"} => current = k
    /\ \A c \in Calls :
          /\ call[c].pc \notin {"idle", "acquire"} => call[c].on = current
          /\ call[c].pc = "queued" \/ Working(c) => client[current] = "live"

ConnectionInv == BackendsLive /\ (Undisturbed => OneConnection)

\* What a request has read and not recorded yet.
Unrecorded(c) == call[c].pc \in {"append", "insert"} /\ call[c].schema.known

\* Its difference leads from what the log adds up to, to what it has read; and
\* without one, the snapshot of a connection is what the log adds up to.
DifferenceFits(c) ==
    /\ call[c].pc \notin {"append", "insert", "touch"} \/ ~call[c].schema.known =>
          call[c].schema = Unknown /\ call[c].changes = NoChanges
    /\ Unrecorded(c) =>
          /\ snapshot[call[c].on] = call[c].schema
          /\ (log.replayed \cup call[c].changes[1]) \ call[c].changes[2] = call[c].schema.tables
    /\ \/ call[c].pc = "run" /\ call[c].job.kind = "script"
       \/ call[c].pc = "introspect" /\ call[c].job.kind # "report"
       => snapshot[call[c].on].known

SnapshotFits(k) ==
    snapshot[k].known =>
        /\ client[k] = "live"
        /\ (\A c \in Calls : call[c].on = k => ~Unrecorded(c)) => snapshot[k].tables = log.replayed

Complete == Undisturbed /\ "unrecorded" \notin incidents

LogFits ==
    /\ log.checkpoint = log.replayed
    /\ \A c \in Calls : DifferenceFits(c)
    /\ \A k \in Client : SnapshotFits(k)

LogInv == Complete => LogFits

USE ExecutionsAssumption DEF connVars, dbVars, Client, Table


-----------------------------------------------------------------------------
(***************************************************************************)
(* Types                                                                   *)
(***************************************************************************)

\* TypeOK but for what it says of the requests in the queues: requests, the
\* connections, and what is read and written.
RequestTypes ==
    /\ current \in 0..MaxClients
    /\ queue \in [Client -> Seq(Calls)]
    /\ call \in [Calls -> Call]

ConnectionTypes ==
    /\ session \in {"active", "ended", "dropped"}
    /\ client \in [Client -> {"none", "connecting", "live", "dead"}]
    /\ events \in [Client -> SUBSET {"error", "end"}]
    /\ closing \subseteq Client
    /\ started \in 0..MaxCalls
    /\ faults \in 0..MaxFaults
    /\ incidents \subseteq {"lost", "forgotten", "unrecorded", "crash"}

DataTypes ==
    /\ snapshot \in [Client -> Schema]
    /\ committed \subseteq Table /\ made \in 0..MaxTables
    /\ tx \in [Client -> {"none", "open", "failed"}]
    /\ added \in [Client -> SUBSET Table]
    /\ log \in Log

LEMMA TypesSplit ==
    ASSUME QueuesFit
    PROVE  TypeOK <=> RequestTypes /\ ConnectionTypes /\ DataTypes
<1>1. ASSUME queue \in [Client -> Seq(Calls)], NEW k \in Client, NEW i \in DOMAIN queue[k]
      PROVE  call[queue[k][i]].on = k
  <2>1. i \in 1..Len(queue[k])
    BY <1>1
  <2> QED BY <2>1 DEF QueuesFit, InQueue
<1> QED BY <1>1 DEF TypeOK, RequestTypes, ConnectionTypes, DataTypes

LEMMA IdleIsCall ==
    /\ Unknown \in Schema /\ NoChanges \in (SUBSET Table) \X (SUBSET Table)
    /\ Idle \in Call
<1>1. Unknown \in Schema /\ NoChanges \in (SUBSET Table) \X (SUBSET Table)
    BY DEF Unknown, Schema, NoChanges
<1> QED BY <1>1 DEF Call, Idle, Pc

Changes == (SUBSET Table) \X (SUBSET Table)

\* A request, field by field.
LEMMA CallFields ==
    ASSUME call \in [Calls -> Call], NEW c \in Calls
    PROVE  /\ call[c].pc \in Pc /\ call[c].job \in Jobs \cup {NoJob}
           /\ call[c].on \in 0..MaxClients /\ call[c].done \in Nat
           /\ call[c].schema \in Schema /\ call[c].changes \in Changes /\ call[c].seq \in Nat
    BY DEF Call, Changes

\* What a request may become.
LEMMA CallSteps ==
    ASSUME call \in [Calls -> Call], NEW c \in Calls
    PROVE  /\ [call EXCEPT ![c] = Idle] \in [Calls -> Call]
           /\ \A pc \in Pc : [call EXCEPT ![c].pc = pc] \in [Calls -> Call]
           /\ \A pc \in Pc, k \in 0..MaxClients :
                 [call EXCEPT ![c].pc = pc, ![c].on = k] \in [Calls -> Call]
           /\ \A n \in Nat : [call EXCEPT ![c].done = n] \in [Calls -> Call]
<1> DEFINE J == Jobs \cup {NoJob}
           On == 0..MaxClients
<1>1. Call = [pc : Pc, job : J, on : On, done : Nat, schema : Schema, changes : Changes, seq : Nat]
    BY DEF Call, Changes
<1> HIDE DEF J, On
<1>2. [call EXCEPT ![c] = Idle] \in [Calls -> Call]
    BY IdleIsCall
<1>3. /\ \A pc \in Pc : [call EXCEPT ![c].pc = pc] \in [Calls -> Call]
      /\ \A n \in Nat : [call EXCEPT ![c].done = n] \in [Calls -> Call]
    BY <1>1
<1>4. \A pc \in Pc, k \in On : [call EXCEPT ![c].pc = pc, ![c].on = k] \in [Calls -> Call]
    BY <1>1
<1> QED BY <1>2, <1>3, <1>4 DEF On

LEMMA CallReads ==
    ASSUME call \in [Calls -> Call], NEW c \in Calls, NEW pc \in Pc
    PROVE  /\ \A n \in Nat :
                 /\ [call EXCEPT ![c].pc = pc, ![c].seq = n] \in [Calls -> Call]
                 /\ [call EXCEPT ![c].done = n, ![c].pc = pc] \in [Calls -> Call]
           /\ \A x \in Schema, y \in Changes :
                 [call EXCEPT ![c].pc = pc, ![c].schema = x, ![c].changes = y] \in [Calls -> Call]
<1> DEFINE J == Jobs \cup {NoJob}
           On == 0..MaxClients
<1>1. Call = [pc : Pc, job : J, on : On, done : Nat, schema : Schema, changes : Changes, seq : Nat]
    BY DEF Call, Changes
<1> HIDE DEF J, On
<1>2. \A n \in Nat :
         /\ [call EXCEPT ![c].pc = pc, ![c].seq = n] \in [Calls -> Call]
         /\ [call EXCEPT ![c].done = n, ![c].pc = pc] \in [Calls -> Call]
    BY <1>1
<1>3. \A x \in Schema, y \in Changes :
         [call EXCEPT ![c].pc = pc, ![c].schema = x, ![c].changes = y] \in [Calls -> Call]
    BY <1>1
<1> QED BY <1>2, <1>3

LEMMA InitTypes == Init => RequestTypes /\ ConnectionTypes /\ DataTypes
    BY IdleIsCall DEF Init, RequestTypes, ConnectionTypes, DataTypes, Unknown, Schema, Log

\* Leave() asks for somebody to leave.
LEMMA LeaveTypes ==
    ASSUME RequestTypes, Placed, TurnsFit, NEW c \in Calls, Working(c), Leave(c)
    PROVE  queue' \in [Client -> Seq(Calls)] /\ call' \in [Calls -> Call]
<1>1. call[c].on \in Client
    BY DEF Placed, Working
<1>2. queue[call[c].on] \in Seq(Calls) /\ queue[call[c].on] # <<>>
    BY <1>1 DEF RequestTypes, TurnsFit, Leads
<1>3. Tail(queue[call[c].on]) \in Seq(Calls)
    BY <1>2, HeadTailProperties
<1> QED BY <1>1, <1>3, CallSteps DEF RequestTypes, Leave

LEMMA AfterStatementTypes ==
    ASSUME RequestTypes, Placed, TurnsFit, NEW c \in Calls, Working(c), NEW ok,
           AfterStatement(c, ok)
    PROVE  queue' \in [Client -> Seq(Calls)] /\ call' \in [Calls -> Call]
<1>1. call \in [Calls -> Call]
    BY DEF RequestTypes
<1>2. call[c].done + 1 \in Nat
    BY <1>1, CallFields
<1>3. /\ [call EXCEPT ![c].done = call[c].done + 1] \in [Calls -> Call]
      /\ [call EXCEPT ![c].pc = "append"] \in [Calls -> Call]
      /\ \A pc \in {"introspect", "append"} :
            [call EXCEPT ![c].done = call[c].done + 1, ![c].pc = pc] \in [Calls -> Call]
  <2>1. "introspect" \in Pc /\ "append" \in Pc
    BY DEF Pc
  <2>2. /\ [call EXCEPT ![c].done = call[c].done + 1] \in [Calls -> Call]
        /\ [call EXCEPT ![c].pc = "append"] \in [Calls -> Call]
    BY <1>1, <1>2, <2>1, CallSteps
  <2>3. ASSUME NEW pc \in {"introspect", "append"}
        PROVE  [call EXCEPT ![c].done = call[c].done + 1, ![c].pc = pc] \in [Calls -> Call]
    <3>1. pc \in Pc
      BY <2>1
    <3> QED BY <1>1, <1>2, <3>1, CallReads
  <2> QED BY <2>2, <2>3
<1>4. CASE Leave(c)
    BY <1>4, LeaveTypes
<1>5. CASE ~Leave(c)
    BY <1>5, <1>3 DEF AfterStatement, Step, RequestTypes
<1> QED BY <1>4, <1>5

LEMMA RequestTypesStay ==
    ASSUME RequestTypes, DataTypes, Placed, TurnsFit, [Next]_vars
    PROVE  RequestTypes'
<1>0. call \in [Calls -> Call] /\ queue \in [Client -> Seq(Calls)] /\ current \in 0..MaxClients
    BY DEF RequestTypes
<1>1. ASSUME NEW c \in Calls, NEW j \in Jobs, Start(c, j) PROVE RequestTypes'
  <2>1. [Idle EXCEPT !.pc = "acquire", !.job = j] \in Call
    BY IdleIsCall DEF Call, Pc
  <2> QED BY <1>0, <1>1, <2>1 DEF Start, RequestTypes
<1>2. ASSUME NEW c \in Calls, Acquire(c) PROVE RequestTypes'
  <2>1. \A k \in 0..MaxClients, pc \in {"opening", "queued"} :
           [call EXCEPT ![c].pc = pc, ![c].on = k] \in [Calls -> Call]
    BY <1>0, CallSteps DEF Pc
  <2>2. \A k \in Client : Append(queue[k], c) \in Seq(Calls)
    BY <1>0
  <2>3. CASE current # 0
    <3>1. UNCHANGED current /\ current \in Client
      BY <1>0, <1>2, <2>3 DEF Acquire
    <3>2. \E pc \in {"opening", "queued"} : call' = [call EXCEPT ![c].pc = pc, ![c].on = current]
      BY <1>2, <2>3 DEF Acquire
    <3>3. queue' \in {queue, [queue EXCEPT ![current] = Append(@, c)]}
      BY <1>2, <2>3 DEF Acquire
    <3>4. queue' \in [Client -> Seq(Calls)]
      BY <1>0, <2>2, <3>1, <3>3
    <3>5. call' \in [Calls -> Call]
      <4>1. PICK pc \in {"opening", "queued"} :
               call' = [call EXCEPT ![c].pc = pc, ![c].on = current]
        BY <3>2
      <4>2. [call EXCEPT ![c].pc = pc, ![c].on = current] \in [Calls -> Call]
        BY <1>0, <2>1
      <4> QED BY <4>1, <4>2
    <3> QED BY <1>0, <3>1, <3>4, <3>5 DEF RequestTypes
  <2>5. CASE current = 0
    <3>1. /\ \E k \in Client :
                current' = k /\ call' = [call EXCEPT ![c].pc = "opening", ![c].on = k]
          /\ UNCHANGED queue
      BY <1>2, <2>5 DEF Acquire
    <3>2. PICK k \in Client : current' = k /\ call' = [call EXCEPT ![c].pc = "opening", ![c].on = k]
      BY <3>1
    <3>3. k \in 0..MaxClients
      OBVIOUS
    <3> QED BY <1>0, <2>1, <3>1, <3>2, <3>3 DEF RequestTypes
  <2> QED BY <2>3, <2>5
<1>3. ASSUME NEW k \in Client, OpenFails(k) PROVE RequestTypes'
    BY <1>0, <1>3, IdleIsCall DEF OpenFails, RequestTypes
<1>4. ASSUME NEW k \in Client, Opened(k) \/ Lose(k) \/ Emit(k) \/ Close(k) PROVE RequestTypes'
    BY <1>0, <1>4 DEF Opened, Lose, Emit, Close, Forget, RequestTypes
<1>5. ASSUME NEW c \in Calls, Enter(c) PROVE RequestTypes'
  <2>1. call[c].on \in Client
    BY <1>5 DEF Enter, Placed
  <2>2. Append(queue[call[c].on], c) \in Seq(Calls)
    BY <1>0, <2>1
  <2>3. [call EXCEPT ![c].pc = "queued"] \in [Calls -> Call]
    BY <1>0, CallSteps DEF Pc
  <2> QED BY <1>0, <1>5, <2>1, <2>2, <2>3 DEF Enter, Step, RequestTypes
<1>6. ASSUME NEW c \in Calls, Begin(c) \/ Baseline(c) PROVE RequestTypes'
  <2>1. \A pc \in {"introspect", "run", "baseline"} : [call EXCEPT ![c].pc = pc] \in [Calls -> Call]
    BY <1>0, CallSteps DEF Pc
  <2> QED BY <1>0, <1>6, <2>1 DEF Begin, Baseline, Step, RequestTypes
<1>7. ASSUME NEW c \in Calls, Run(c) PROVE RequestTypes'
  <2>1. Working(c)
    BY <1>7 DEF Run, Working
  <2>2. \E ok : AfterStatement(c, ok)
    BY <1>7 DEF Run
  <2> QED BY <1>0, <1>7, <2>1, <2>2, AfterStatementTypes DEF Run, RequestTypes
<1>8. ASSUME NEW c \in Calls, Introspect(c) PROVE RequestTypes'
  <2>1. call[c].on \in Client /\ Working(c)
    BY <1>8 DEF Introspect, Placed, Working
  <2>2. /\ Known(Visible(call[c].on)) \in Schema
        /\ <<Visible(call[c].on) \ snapshot[call[c].on].tables,
             snapshot[call[c].on].tables \ Visible(call[c].on)>> \in Changes
    BY <2>1 DEF Known, Schema, Visible, DataTypes, Changes
  <2>3. /\ \A x \in Schema, y \in Changes :
              [call EXCEPT ![c].pc = "append", ![c].schema = x, ![c].changes = y] \in [Calls -> Call]
        /\ \A pc \in {"append", "touch"} : [call EXCEPT ![c].pc = pc] \in [Calls -> Call]
    <3>1. "append" \in Pc /\ "touch" \in Pc
      BY DEF Pc
    <3> QED BY <1>0, <3>1, CallReads, CallSteps
  <2>4. CASE Leave(c)
    BY <1>0, <1>8, <2>1, <2>4, LeaveTypes DEF Introspect, RequestTypes
  <2>5. CASE ~Leave(c)
    <3>1. UNCHANGED <<current, queue>>
      BY <1>8, <2>5 DEF Introspect
    <3>2. \/ \E pc \in {"append", "touch"} : call' = [call EXCEPT ![c].pc = pc]
          \/ \E x \in Schema, y \in Changes :
                call' = [call EXCEPT ![c].pc = "append", ![c].schema = x, ![c].changes = y]
      <4>1. CASE call[c].job.kind = "report" \/ tx[call[c].on] = "failed"
        BY <1>8, <2>5, <4>1 DEF Introspect, Step
      <4>2. CASE ~(call[c].job.kind = "report" \/ tx[call[c].on] = "failed")
        BY <1>8, <2>2, <4>2 DEF Introspect
      <4> QED BY <4>1, <4>2
    <3>3. call' \in [Calls -> Call]
      <4>1. ASSUME NEW pc \in {"append", "touch"}, call' = [call EXCEPT ![c].pc = pc]
            PROVE  call' \in [Calls -> Call]
        <5>1. [call EXCEPT ![c].pc = pc] \in [Calls -> Call]
          BY <2>3
        <5> QED BY <4>1, <5>1
      <4>2. ASSUME NEW x \in Schema, NEW y \in Changes,
                   call' = [call EXCEPT ![c].pc = "append", ![c].schema = x, ![c].changes = y]
            PROVE  call' \in [Calls -> Call]
        <5>1. [call EXCEPT ![c].pc = "append", ![c].schema = x, ![c].changes = y] \in [Calls -> Call]
          BY <2>3
        <5> QED BY <4>2, <5>1
      <4> QED BY <3>2, <4>1, <4>2
    <3> QED BY <1>0, <3>1, <3>3 DEF RequestTypes
  <2> QED BY <2>4, <2>5
<1>9. ASSUME NEW c \in Calls, ReadSeq(c) PROVE RequestTypes'
  <2>1. log.seq + 1 \in Nat
    BY DEF Log, DataTypes
  <2>2. [call EXCEPT ![c].pc = "insert", ![c].seq = log.seq + 1] \in [Calls -> Call]
    BY <1>0, <2>1, CallReads DEF Pc
  <2> QED BY <1>0, <1>9, <2>2 DEF ReadSeq, RequestTypes
<1>10. ASSUME NEW c \in Calls, Insert(c) \/ Finish(c) \/ Throw(c) PROVE RequestTypes'
  <2>1. Working(c) /\ UNCHANGED current
    BY <1>10 DEF Insert, Finish, Throw, Working
  <2>2. [call EXCEPT ![c].pc = "touch"] \in [Calls -> Call]
    BY <1>0, CallSteps DEF Pc
  <2>3. CASE Leave(c)
    BY <1>0, <2>1, <2>3, LeaveTypes DEF RequestTypes
  <2>4. CASE ~Leave(c)
    BY <1>0, <1>10, <2>2, <2>4 DEF Insert, Finish, Throw, Step, RequestTypes
  <2> QED BY <2>3, <2>4
<1>11. ASSUME Crash PROVE RequestTypes'
    BY <1>0, <1>11, IdleIsCall DEF Crash, RequestTypes
<1>12. CASE End \/ Drop \/ UNCHANGED vars
    BY <1>0, <1>12 DEF End, Drop, vars, RequestTypes
<1> QED BY <1>1, <1>2, <1>3, <1>4, <1>5, <1>6, <1>7, <1>8, <1>9, <1>10, <1>11, <1>12
        DEF Next, Proceed


\* Nobody's step leaves the connections' states, or spends more faults than
\* there are.
LEMMA ConnectionTypesStay ==
    ASSUME RequestTypes, ConnectionTypes, [Next]_vars
    PROVE  ConnectionTypes'
<1> USE DEF ConnectionTypes
<1>1. ASSUME NEW c \in Calls, NEW j \in Jobs, Start(c, j) PROVE ConnectionTypes'
    BY <1>1 DEF Start
<1>2. ASSUME NEW c \in Calls, Acquire(c) PROVE ConnectionTypes'
  <2>1. client' = client \/ \E k \in Client : client' = [client EXCEPT ![k] = "connecting"]
    BY <1>2 DEF Acquire
  <2>2. UNCHANGED <<session, events, closing, started, faults, incidents>>
    BY <1>2 DEF Acquire
  <2> QED BY <2>1, <2>2
<1>3. ASSUME NEW c \in Calls,
             Enter(c) \/ Begin(c) \/ Baseline(c) \/ Run(c) \/ Introspect(c) \/ ReadSeq(c) \/ Finish(c)
      PROVE  ConnectionTypes'
    BY <1>3 DEF Enter, Begin, Baseline, Run, Introspect, ReadSeq, Finish
<1>4. ASSUME NEW c \in Calls, Insert(c) \/ Throw(c) PROVE ConnectionTypes'
  <2>1. UNCHANGED <<session, client, events, closing, started>>
    BY <1>4 DEF Insert, Throw
  <2>2. UNCHANGED <<faults, incidents>> \/ Fault({"unrecorded"}) \/ Fault({})
           \/ (faults' = faults /\ incidents' = incidents \cup {"unrecorded"})
    BY <1>4 DEF Insert, Throw
  <2>3. faults' = faults \/ (faults < MaxFaults /\ faults' = faults + 1)
    BY <2>2 DEF Fault
  <2>4. faults' \in 0..MaxFaults
    BY <2>3
  <2>5. incidents' \subseteq {"lost", "forgotten", "unrecorded", "crash"}
    BY <2>2 DEF Fault
  <2> QED BY <2>1, <2>4, <2>5
<1>5. ASSUME NEW k \in Client, Opened(k) \/ OpenFails(k) \/ Emit(k) PROVE ConnectionTypes'
  <2>1. CASE Opened(k)
    BY <2>1 DEF Opened
  <2>2. CASE OpenFails(k)
    <3>1. /\ UNCHANGED <<session, started>> /\ closing' = closing \ {k}
          /\ client' = [client EXCEPT ![k] = "dead"]
          /\ \E late \in SUBSET {"error", "end"} : events' = [events EXCEPT ![k] = late]
      BY <2>2 DEF OpenFails
    <3>2. faults' \in 0..MaxFaults /\ incidents' \subseteq {"lost", "forgotten", "unrecorded", "crash"}
      <4>1. Fault({}) \/ UNCHANGED <<faults, incidents>>
        BY <2>2 DEF OpenFails
      <4>2. /\ faults' = faults \/ (faults < MaxFaults /\ faults' = faults + 1)
            /\ incidents' = incidents \/ incidents' = incidents \cup {}
        BY <4>1 DEF Fault
      <4>3. faults' \in 0..MaxFaults
        BY <4>2
      <4>4. incidents' \subseteq {"lost", "forgotten", "unrecorded", "crash"}
        BY <4>2
      <4> QED BY <4>3, <4>4
    <3> QED BY <3>1, <3>2
  <2>3. CASE Emit(k)
    <3>1. /\ UNCHANGED <<session, client, closing, started, faults>>
          /\ incidents' \subseteq incidents \cup {"forgotten"}
      BY <2>3 DEF Emit
    <3>2. PICK e : events' = [events EXCEPT ![k] = events[k] \ {e}]
      BY <2>3 DEF Emit
    <3> QED BY <3>1, <3>2
  <2> QED BY <1>5, <2>1, <2>2, <2>3
<1>6. ASSUME NEW k \in Client, Lose(k) \/ Close(k) PROVE ConnectionTypes'
  <2>1. CASE Lose(k)
    BY <2>1 DEF Lose, Lost, Fault
  <2>2. CASE Close(k)
    <3>1. UNCHANGED <<session, started, faults, incidents>> /\ closing' = closing \ {k}
      BY <2>2 DEF Close
    <3>2. Lost({k}, {"end"}) \/ UNCHANGED <<client, events>>
      BY <2>2 DEF Close
    <3>3. /\ client' \in [Client -> {"none", "connecting", "live", "dead"}]
          /\ events' \in [Client -> SUBSET {"error", "end"}]
      BY <3>2 DEF Lost
    <3>4. closing' \subseteq Client
      BY <3>1
    <3> QED BY <3>1, <3>3, <3>4
  <2> QED BY <1>6, <2>1, <2>2
<1>7. ASSUME End PROVE ConnectionTypes'
    BY <1>7 DEF End, RequestTypes
<1>8. ASSUME Drop PROVE ConnectionTypes'
  <2>1. UNCHANGED <<closing, started, faults, incidents>> /\ session' = "dropped"
    BY <1>8 DEF Drop
  <2>2. Lost({k \in Client : client[k] = "live"}, {"error", "end"})
    BY <1>8 DEF Drop
  <2> QED BY <2>1, <2>2 DEF Lost
<1>9. ASSUME Crash PROVE ConnectionTypes'
    BY <1>9 DEF Crash, Fault
<1>10. CASE UNCHANGED vars
    BY <1>10 DEF vars
<1> QED BY <1>1, <1>2, <1>3, <1>4, <1>5, <1>6, <1>7, <1>8, <1>9, <1>10 DEF Next, Proceed

\* A statement leaves tables in the database that it may have.
LEMMA EffectTypes ==
    ASSUME DataTypes, NEW k \in Client, NEW st, Effect(k, st)
    PROVE  /\ committed' \subseteq Table /\ made' \in 0..MaxTables
           /\ tx' \in [Client -> {"none", "open", "failed"}]
           /\ added' \in [Client -> SUBSET Table]
<1> USE DEF DataTypes
<1>1. CASE made < MaxTables /\ made' = made + 1
  <2>1. made + 1 \in Table
    BY <1>1
  <2>2. UNCHANGED tx
    BY <1>1 DEF Effect
  <2>3. \/ committed' = committed \cup {made + 1} /\ UNCHANGED added
        \/ UNCHANGED committed /\ added' = [added EXCEPT ![k] = @ \cup {made + 1}]
    BY <1>1 DEF Effect
  <2>4. added[k] \cup {made + 1} \in SUBSET Table /\ committed \cup {made + 1} \in SUBSET Table
    BY <2>1
  <2>5. /\ committed' \subseteq Table
        /\ added' \in [Client -> SUBSET Table]
    BY <2>3, <2>4
  <2> QED BY <1>1, <2>1, <2>2, <2>5
<1>2. CASE ~(made < MaxTables /\ made' = made + 1)
  <2>1. UNCHANGED made
    BY <1>2 DEF Effect
  <2>2. added' = added \/ added' = [added EXCEPT ![k] = {}]
    BY <1>2 DEF Effect
  <2>3. tx' = tx \/ \E x \in {"open", "none"} : tx' = [tx EXCEPT ![k] = x]
    BY <1>2 DEF Effect
  <2>4. committed' = committed \/ committed' = Visible(k)
    BY <1>2 DEF Effect
  <2>5. Visible(k) \subseteq Table
    BY DEF Visible
  <2> QED BY <2>1, <2>2, <2>3, <2>4, <2>5
<1> QED BY <1>1, <1>2

LEMMA DataTypesStay ==
    ASSUME RequestTypes, DataTypes, Placed, [Next]_vars
    PROVE  DataTypes'
<1> USE DEF DataTypes
<1>0. \A s \in SUBSET Table : Known(s) \in Schema
    BY DEF Known, Schema
<1>1. ASSUME NEW c \in Calls, Acquire(c) PROVE DataTypes'
  <2>1. snapshot' = snapshot \/ \E k \in Client : snapshot' = [snapshot EXCEPT ![k] = Unknown]
    BY <1>1 DEF Acquire
  <2>2. UNCHANGED <<dbVars, log>>
    BY <1>1 DEF Acquire
  <2> QED BY <2>1, <2>2, IdleIsCall
<1>2. ASSUME NEW c \in Calls, Baseline(c) PROVE DataTypes'
  <2>1. Known(log.checkpoint) \in Schema
    BY <1>0 DEF Log
  <2> QED BY <1>2, <2>1 DEF Baseline
<1>3. ASSUME NEW c \in Calls, Run(c) PROVE DataTypes'
  <2>1. call[c].on \in Client
    BY <1>3 DEF Run, Placed
  <2>2. \/ \E st : Effect(call[c].on, st)
        \/ /\ tx' = [tx EXCEPT ![call[c].on] = IF @ = "open" THEN "failed" ELSE @]
           /\ UNCHANGED <<committed, added, made>>
    BY <1>3 DEF Run
  <2>3. UNCHANGED <<snapshot, log>>
    BY <1>3 DEF Run
  <2>4. CASE \E st : Effect(call[c].on, st)
    BY <2>1, <2>3, <2>4, EffectTypes
  <2>5. CASE ~ \E st : Effect(call[c].on, st)
    BY <2>1, <2>2, <2>3, <2>5
  <2> QED BY <2>4, <2>5
<1>4. ASSUME NEW c \in Calls, Introspect(c) PROVE DataTypes'
  <2>1. call[c].on \in Client
    BY <1>4 DEF Introspect, Placed
  <2>2. Known(Visible(call[c].on)) \in Schema
    BY <1>0, <2>1 DEF Visible
  <2>3. snapshot' = snapshot \/ snapshot' = [snapshot EXCEPT ![call[c].on] = Known(Visible(call[c].on))]
    BY <1>4 DEF Introspect
  <2>4. UNCHANGED <<dbVars, log>>
    BY <1>4 DEF Introspect
  <2> QED BY <2>1, <2>2, <2>3, <2>4
<1>5. ASSUME NEW c \in Calls, Insert(c) PROVE DataTypes'
  <2>1. /\ call[c].changes[1] \in SUBSET Table /\ call[c].schema.tables \in SUBSET Table
    BY CallFields DEF RequestTypes, Schema, Changes
  <2>2. log' = log \/ log' = Recorded(call[c].changes, call[c].schema)
    BY <1>5 DEF Insert
  <2>3. Recorded(call[c].changes, call[c].schema) \in Log
    BY <2>1 DEF Recorded, Log
  <2>4. UNCHANGED <<snapshot, dbVars>>
    BY <1>5 DEF Insert
  <2> QED BY <2>2, <2>3, <2>4
<1>6. ASSUME NEW k \in Client, Lose(k) \/ Close(k) PROVE DataTypes'
    BY <1>6 DEF Lose, Close, Lost
<1>7. ASSUME Drop PROVE DataTypes'
    BY <1>7 DEF Drop, Lost
<1>8. ASSUME Crash PROVE DataTypes'
    BY <1>8, IdleIsCall DEF Crash
<1>9. ASSUME NEW c \in Calls,
             Enter(c) \/ Begin(c) \/ ReadSeq(c) \/ Finish(c) \/ Throw(c) \/ \E j \in Jobs : Start(c, j)
      PROVE  DataTypes'
    BY <1>9 DEF Enter, Begin, ReadSeq, Finish, Throw, Start
<1>10. ASSUME NEW k \in Client, Opened(k) \/ OpenFails(k) \/ Emit(k) PROVE DataTypes'
    BY <1>10 DEF Opened, OpenFails, Emit
<1>11. CASE End \/ UNCHANGED vars
    BY <1>11 DEF End, vars
<1> QED BY <1>1, <1>2, <1>3, <1>4, <1>5, <1>6, <1>7, <1>8, <1>9, <1>10, <1>11 DEF Next, Proceed


-----------------------------------------------------------------------------
(***************************************************************************)
(* Turns                                                                   *)
(***************************************************************************)

\* What a step may do to the requests and the queues.
Others(c) == \A d \in Calls \ {c} : call'[d] = call[d]

Asks(c) ==
    /\ UNCHANGED queue /\ Others(c)
    /\ call[c].pc \in {"idle", "acquire"}
    /\ call'[c].pc = "acquire" \/ (call'[c].pc = "opening" /\ call'[c].on \in Client)

Enqueues(c, k) ==
    /\ Others(c)
    /\ call[c].pc \in {"acquire", "opening"}
    /\ call'[c].pc = "queued" /\ call'[c].on = k
    /\ queue' = [queue EXCEPT ![k] = Append(@, c)]

Advances(c) ==
    /\ UNCHANGED queue /\ Others(c)
    /\ Working(c) \/ (call[c].pc = "queued" /\ Turn(c))
    /\ Working(c)' /\ call'[c].on = call[c].on

Departs(c) == Working(c) /\ Leave(c)

Abandons ==
    /\ UNCHANGED queue
    /\ \A c \in Calls : call'[c] = call[c] \/ (call[c].pc = "opening" /\ call'[c] = Idle)

Resets ==
    /\ queue' = [k \in Client |-> <<>>]
    /\ call' = [c \in Calls |-> Idle]

LEMMA StatementAdvances ==
    ASSUME RequestTypes, NEW c \in Calls, call[c].pc = "run", NEW ok, AfterStatement(c, ok)
    PROVE  Advances(c) \/ Departs(c)
<1>0. call \in [Calls -> Call] /\ Working(c)
    BY DEF RequestTypes, Working
<1>1. CASE Leave(c)
    BY <1>0, <1>1 DEF Departs
<1>2. CASE ~Leave(c)
  <2>1. /\ UNCHANGED queue
        /\ \/ call' = [call EXCEPT ![c].done = call[c].done + 1]
           \/ \E pc \in {"introspect", "append"} :
                 call' = [call EXCEPT ![c].done = call[c].done + 1, ![c].pc = pc]
           \/ call' = [call EXCEPT ![c].pc = "append"]
    BY <1>2 DEF AfterStatement, Step
  <2>2. CASE call' = [call EXCEPT ![c].done = call[c].done + 1]
    BY <1>0, <2>1, <2>2 DEF Advances, Others, Working, Call
  <2>3. CASE call' = [call EXCEPT ![c].pc = "append"]
    BY <1>0, <2>1, <2>3 DEF Advances, Others, Working, Call
  <2>4. ASSUME NEW pc \in {"introspect", "append"},
               call' = [call EXCEPT ![c].done = call[c].done + 1, ![c].pc = pc]
        PROVE  Advances(c)
    BY <1>0, <2>1, <2>4 DEF Advances, Others, Working, Call
  <2> QED BY <2>1, <2>2, <2>3, <2>4
<1> QED BY <1>1, <1>2

\* The steps of a request that has a turn, or takes it.
Works(c) ==
    \/ Begin(c) \/ Baseline(c) \/ Run(c) \/ Introspect(c)
    \/ ReadSeq(c) \/ Insert(c) \/ Finish(c) \/ Throw(c)

LEMMA WorkKinds ==
    ASSUME RequestTypes, NEW c \in Calls, Works(c)
    PROVE  /\ Advances(c) \/ Departs(c)
           /\ UNCHANGED <<session, current, client, events, closing>>
<1>0. call \in [Calls -> Call]
    BY DEF RequestTypes
<1>1. ASSUME Begin(c) PROVE Advances(c)
  <2>1. PICK pc \in {"introspect", "run", "baseline"} : Step(c, pc)
    BY <1>1 DEF Begin
  <2> QED BY <1>0, <1>1, <2>1 DEF Begin, Step, Advances, Others, Working, Call
<1>2. ASSUME Baseline(c) \/ ReadSeq(c) PROVE Advances(c)
    BY <1>0, <1>2 DEF Baseline, ReadSeq, Step, Advances, Others, Working, Call
<1>3. ASSUME Run(c) PROVE Advances(c) \/ Departs(c)
    BY <1>0, <1>3, StatementAdvances DEF Run
<1>4. ASSUME Introspect(c) PROVE Advances(c) \/ Departs(c)
  <2>1. Working(c)
    BY <1>4 DEF Introspect, Working
  <2>2. CASE Leave(c)
    BY <2>1, <2>2 DEF Departs
  <2>3. CASE ~Leave(c)
    <3>1. CASE call[c].job.kind = "report" \/ tx[call[c].on] = "failed"
      <4>1. UNCHANGED queue /\ (Step(c, "touch") \/ Step(c, "append"))
        BY <1>4, <2>3, <3>1 DEF Introspect
      <4> QED BY <1>0, <2>1, <4>1 DEF Step, Advances, Others, Working, Call
    <3>2. CASE ~(call[c].job.kind = "report" \/ tx[call[c].on] = "failed")
      BY <1>0, <1>4, <2>1, <3>2 DEF Introspect, Advances, Others, Working, Call
    <3> QED BY <3>1, <3>2
  <2> QED BY <2>2, <2>3
<1>5. ASSUME Insert(c) \/ Finish(c) \/ Throw(c) PROVE Advances(c) \/ Departs(c)
  <2>1. Working(c)
    BY <1>5 DEF Insert, Finish, Throw, Working
  <2>2. CASE Leave(c)
    BY <2>1, <2>2 DEF Departs
  <2>3. CASE ~Leave(c)
    BY <1>0, <1>5, <2>1, <2>3 DEF Insert, Finish, Throw, Step, Advances, Others, Working, Call
  <2> QED BY <2>2, <2>3
<1>6. UNCHANGED <<session, current, client, events, closing>>
    BY DEF Works, Begin, Baseline, Run, Introspect, ReadSeq, Insert, Finish, Throw
<1> QED BY <1>1, <1>2, <1>3, <1>4, <1>5, <1>6 DEF Works

\* A step moves a request by itself, or abandons or resets them.
LEMMA StepKinds ==
    ASSUME RequestTypes, Placed, [Next]_vars
    PROVE  \/ \E c \in Calls : Asks(c) \/ Advances(c) \/ Departs(c) \/ \E k \in Client : Enqueues(c, k)
           \/ Abandons \/ Resets
<1>0. call \in [Calls -> Call] /\ queue \in [Client -> Seq(Calls)] /\ current \in 0..MaxClients
    BY DEF RequestTypes
<1>1. ASSUME NEW c \in Calls, NEW j \in Jobs, Start(c, j) PROVE Asks(c)
  <2>1. [Idle EXCEPT !.pc = "acquire", !.job = j].pc = "acquire"
    BY DEF Idle
  <2> QED BY <1>0, <1>1, <2>1 DEF Start, Asks, Others
<1>2. ASSUME NEW c \in Calls, Acquire(c) PROVE Asks(c) \/ \E k \in Client : Enqueues(c, k)
  <2>0. call[c].pc = "acquire"
    BY <1>2 DEF Acquire
  <2>1. ASSUME NEW k \in Client, call' = [call EXCEPT ![c].pc = "opening", ![c].on = k], UNCHANGED queue
        PROVE  Asks(c)
    <3>1. call'[c].pc = "opening" /\ call'[c].on = k
      BY <1>0, <2>1 DEF Call
    <3> QED BY <1>0, <2>0, <2>1, <3>1 DEF Asks, Others
  <2>2. ASSUME NEW k \in Client, call' = [call EXCEPT ![c].pc = "queued", ![c].on = k],
               queue' = [queue EXCEPT ![k] = Append(@, c)]
        PROVE  Enqueues(c, k)
    <3>1. call'[c].pc = "queued" /\ call'[c].on = k
      BY <1>0, <2>2 DEF Call
    <3> QED BY <1>0, <2>0, <2>2, <3>1 DEF Enqueues, Others
  <2>3. current # 0 => current \in Client
    BY <1>0
  <2>4. CASE current # 0
    BY <1>2, <2>1, <2>2, <2>3, <2>4 DEF Acquire
  <2>5. CASE current = 0
    BY <1>2, <2>1, <2>5 DEF Acquire
  <2> QED BY <2>4, <2>5
<1>3. ASSUME NEW c \in Calls, Enter(c) PROVE \E k \in Client : Enqueues(c, k)
  <2>1. call[c].on \in Client
    BY <1>3 DEF Enter, Placed
  <2>2. Enqueues(c, call[c].on)
    BY <1>0, <1>3 DEF Enter, Step, Enqueues, Others, Call
  <2> QED BY <2>1, <2>2
<1>4. ASSUME NEW c \in Calls, Works(c) PROVE Advances(c) \/ Departs(c)
    BY <1>4, WorkKinds
<1>5. ASSUME NEW k \in Client, OpenFails(k) PROVE Abandons
    BY <1>0, <1>5 DEF OpenFails, Abandons
<1>6. ASSUME NEW k \in Client, Opened(k) \/ Lose(k) \/ Emit(k) \/ Close(k) PROVE Abandons
    BY <1>6 DEF Opened, Lose, Emit, Close, Abandons
<1>7. ASSUME Crash PROVE Resets
    BY <1>7 DEF Crash, Resets
<1>8. CASE End \/ Drop \/ UNCHANGED vars
    BY <1>8 DEF End, Drop, vars, Abandons
<1> QED BY <1>1, <1>2, <1>3, <1>4, <1>5, <1>6, <1>7, <1>8
        DEF Next, Proceed, Works


\* Asking, being abandoned and going on leave the queues as they are, and
\* those who wait or work on a connection, but for the one that goes on.
LEMMA AskingKeepsTurns ==
    ASSUME TurnsInv, NEW c \in Calls, Asks(c)
    PROVE  (Placed /\ QueuesFit /\ TurnsFit)'
<1>0. call[c].pc \notin {"queued"} /\ ~Working(c) /\ call'[c].pc \notin {"queued"} /\ ~Working(c)'
    BY DEF Asks, Working
<1>1. Placed'
    BY DEF TurnsInv, Placed, Asks, Others
<1>2. ASSUME NEW k \in Client, NEW i \in 1..Len(queue[k]) PROVE call'[queue[k][i]] = call[queue[k][i]]
  <2>1. queue[k][i] \in Calls
    BY DEF TurnsInv, TypeOK
  <2>2. queue[k][i] # c
    BY <1>0 DEF TurnsInv, QueuesFit, InQueue
  <2> QED BY <2>1, <2>2 DEF Asks, Others
<1>3. QueuesFit'
    BY <1>2 DEF TurnsInv, QueuesFit, InQueue, Working, Asks
<1>4. TurnsFit'
    BY <1>0 DEF TurnsInv, TurnsFit, Leads, Waits, Working, Asks, Others
<1> QED BY <1>1, <1>3, <1>4

LEMMA AbandoningKeepsTurns ==
    ASSUME TurnsInv, Abandons
    PROVE  (Placed /\ QueuesFit /\ TurnsFit)'
<1>0. \A c \in Calls : call'[c] = call[c]
                       \/ (call[c].pc = "opening" /\ call'[c].pc = "idle")
    BY DEF Abandons, Idle
<1>1. Placed'
    BY <1>0 DEF TurnsInv, Placed
<1>2. ASSUME NEW k \in Client, NEW i \in 1..Len(queue[k]) PROVE call'[queue[k][i]] = call[queue[k][i]]
  <2>1. queue[k][i] \in Calls
    BY DEF TurnsInv, TypeOK
  <2>2. call[queue[k][i]].pc # "opening"
    BY DEF TurnsInv, QueuesFit, InQueue, Working
  <2> QED BY <1>0, <2>1, <2>2
<1>3. QueuesFit'
    BY <1>2 DEF TurnsInv, QueuesFit, InQueue, Working, Abandons
<1>4. TurnsFit'
    BY <1>0 DEF TurnsInv, TurnsFit, Leads, Waits, Working, Abandons
<1> QED BY <1>1, <1>3, <1>4

LEMMA AdvancingKeepsTurns ==
    ASSUME TurnsInv, NEW c \in Calls, Advances(c)
    PROVE  (Placed /\ QueuesFit /\ TurnsFit)'
<1>1. call[c].on \in Client
    BY DEF Advances, TurnsInv, Placed, Working
<1>2. queue[call[c].on] \in Seq(Calls)
    BY <1>1 DEF TurnsInv, TypeOK
<1>3. Leads(c) /\ 1 \in 1..Len(queue[call[c].on])
  <2>1. CASE Working(c)
    BY <1>2, <2>1 DEF TurnsInv, TurnsFit, Leads
  <2>2. CASE call[c].pc = "queued" /\ Turn(c)
    <3>1. queue[call[c].on] # <<>>
      BY <1>2, <2>2 DEF TurnsInv, TurnsFit, Waits
    <3> QED BY <1>2, <2>2, <3>1 DEF Turn, Leads
  <2> QED BY <2>1, <2>2 DEF Advances
<1>4. Placed'
    BY <1>1 DEF TurnsInv, Placed, Advances, Others
<1>5. ASSUME NEW k \in Client, NEW i \in 1..Len(queue[k])
      PROVE  /\ call'[queue[k][i]].on = k
             /\ call'[queue[k][i]].pc = "queued" \/ (Working(queue[k][i])' /\ i = 1)
  <2>1. queue[k][i] \in Calls
    BY DEF TurnsInv, TypeOK
  <2>2. /\ call[queue[k][i]].on = k
        /\ call[queue[k][i]].pc = "queued" \/ (Working(queue[k][i]) /\ i = 1)
    BY DEF TurnsInv, QueuesFit, InQueue
  <2>3. CASE queue[k][i] # c
    BY <2>1, <2>2, <2>3 DEF Advances, Others, Working
  <2>4. CASE queue[k][i] = c
    <3>1. k = call[c].on /\ queue[k][1] = c
      BY <1>3, <2>2, <2>4 DEF Leads
    <3>2. i = 1
      BY <1>3, <2>4, <3>1 DEF TurnsInv, QueuesFit, InQueue
    <3> QED BY <2>4, <3>1, <3>2 DEF Advances
  <2> QED BY <2>3, <2>4
<1>6. QueuesFit'
    BY <1>5 DEF TurnsInv, QueuesFit, InQueue, Working, Advances
<1>7. TurnsFit'
    BY <1>3 DEF TurnsInv, TurnsFit, Leads, Waits, Working, Advances, Others
<1> QED BY <1>4, <1>6, <1>7

LEMMA EnqueuingKeepsTurns ==
    ASSUME TurnsInv, NEW c \in Calls, NEW k \in Client, Enqueues(c, k)
    PROVE  (Placed /\ QueuesFit /\ TurnsFit)'
<1>1. queue \in [Client -> Seq(Calls)]
    BY DEF TurnsInv, TypeOK
<1>2. /\ queue'[k] = Append(queue[k], c) /\ \A l \in Client \ {k} : queue'[l] = queue[l]
      /\ Len(queue'[k]) = Len(queue[k]) + 1 /\ Len(queue[k]) \in Nat
      /\ \A i \in 1..Len(queue[k]) : queue'[k][i] = queue[k][i]
      /\ queue'[k][Len(queue[k]) + 1] = c
    BY <1>1 DEF Enqueues
<1>3. ~Working(c) /\ call[c].pc # "queued" /\ ~Working(c)'
    BY DEF Enqueues, Working
<1>4. \A l \in Client : \A i \in 1..Len(queue[l]) :
         /\ queue[l][i] \in Calls /\ queue[l][i] # c
         /\ call'[queue[l][i]] = call[queue[l][i]]
  <2> SUFFICES ASSUME NEW l \in Client, NEW i \in 1..Len(queue[l])
               PROVE  /\ queue[l][i] \in Calls /\ queue[l][i] # c
                      /\ call'[queue[l][i]] = call[queue[l][i]]
    OBVIOUS
  <2>1. queue[l][i] \in Calls
    BY <1>1
  <2>2. queue[l][i] # c
    BY <1>3 DEF TurnsInv, QueuesFit, InQueue
  <2> QED BY <2>1, <2>2 DEF Enqueues, Others
<1>5. Placed'
    BY DEF TurnsInv, Placed, Enqueues, Others
<1>6. ASSUME NEW l \in Client PROVE InQueue(l)'
  <2>1. InQueue(l)
    BY DEF TurnsInv, QueuesFit
  <2>2. CASE l # k
    <3>1. queue'[l] = queue[l]
      BY <1>2, <2>2
    <3>2. \A i \in 1..Len(queue[l]) : call'[queue[l][i]] = call[queue[l][i]]
      BY <1>4
    <3> QED BY <2>1, <3>1, <3>2 DEF InQueue, Working
  <2>3. CASE l = k
    <3>1. ASSUME NEW i \in 1..Len(queue'[k])
          PROVE  /\ call'[queue'[k][i]].on = k
                 /\ call'[queue'[k][i]].pc = "queued" \/ (Working(queue[k][i])' /\ i = 1)
      <4>1. CASE i \in 1..Len(queue[k])
        <5>1. queue'[k][i] = queue[k][i] /\ call'[queue[k][i]] = call[queue[k][i]]
          BY <1>2, <1>4, <4>1
        <5>2. /\ call[queue[k][i]].on = k
              /\ call[queue[k][i]].pc = "queued" \/ (Working(queue[k][i]) /\ i = 1)
          BY <2>1, <2>3, <4>1 DEF InQueue
        <5> QED BY <5>1, <5>2 DEF Working
      <4>2. CASE i = Len(queue[k]) + 1
        BY <1>2, <4>2 DEF Enqueues
      <4> QED BY <1>2, <4>1, <4>2
    <3>2. ASSUME NEW i \in 1..Len(queue'[k]), NEW j \in 1..Len(queue'[k]), queue'[k][i] = queue'[k][j]
          PROVE  i = j
      <4>1. CASE i \in 1..Len(queue[k]) /\ j \in 1..Len(queue[k])
        BY <1>2, <2>1, <2>3, <3>2, <4>1 DEF InQueue
      <4>2. CASE i = Len(queue[k]) + 1 \/ j = Len(queue[k]) + 1
        BY <1>2, <1>4, <3>2, <4>2
      <4> QED BY <1>2, <4>1, <4>2
    <3> QED BY <2>3, <3>1, <3>2 DEF InQueue
  <2> QED BY <2>2, <2>3
<1>7. ASSUME NEW d \in Calls PROVE (Working(d)' => Leads(d)') /\ (call'[d].pc = "queued" => Waits(d)')
  <2>1. CASE d = c
    BY <1>2, <1>3, <2>1 DEF Enqueues, Waits
  <2>2. CASE d # c
    <3>1. call'[d] = call[d]
      BY <2>2 DEF Enqueues, Others
    <3>2. call[d].pc = "queued" \/ Working(d) => call[d].on \in Client
      BY DEF TurnsInv, Placed, Working
    <3>3. Working(d)' => Leads(d)'
      <4> SUFFICES ASSUME Working(d)' PROVE Leads(d)'
        OBVIOUS
      <4>1. Leads(d) /\ call[d].on \in Client
        BY <3>1, <3>2 DEF TurnsInv, TurnsFit, Working
      <4>2. queue[call[d].on] \in Seq(Calls) /\ queue'[call[d].on] # <<>>
        BY <1>1, <1>2, <4>1 DEF Leads
      <4>3. 1 \in 1..Len(queue[call[d].on])
        BY <4>1, <4>2 DEF Leads
      <4> QED BY <1>2, <3>1, <4>1, <4>2, <4>3 DEF Leads
    <3>4. call'[d].pc = "queued" => Waits(d)'
      <4> SUFFICES ASSUME call'[d].pc = "queued" PROVE Waits(d)'
        OBVIOUS
      <4>1. Waits(d) /\ call[d].on \in Client
        BY <3>1, <3>2 DEF TurnsInv, TurnsFit
      <4>2. PICK i \in 1..Len(queue[call[d].on]) : queue[call[d].on][i] = d
        BY <4>1 DEF Waits
      <4>3. i \in 1..Len(queue'[call[d].on]) /\ queue'[call[d].on][i] = d
        <5>1. CASE call[d].on = k
          BY <1>2, <4>2, <5>1
        <5>2. CASE call[d].on # k
          BY <1>2, <4>1, <4>2, <5>2
        <5> QED BY <5>1, <5>2
      <4> QED BY <3>1, <4>3 DEF Waits
    <3> QED BY <3>3, <3>4
  <2> QED BY <2>1, <2>2
<1> QED BY <1>5, <1>6, <1>7 DEF QueuesFit, TurnsFit

\* Leave() takes off the queue the one that worked, whatever it did.
LEMMA DepartingKeepsTurns ==
    ASSUME TurnsInv, NEW c \in Calls, Departs(c)
    PROVE  (Placed /\ QueuesFit /\ TurnsFit)'
<1> DEFINE k == call[c].on
           q == queue[k]
<1>0. call \in [Calls -> Call] /\ queue \in [Client -> Seq(Calls)]
    BY DEF TurnsInv, TypeOK
<1>1. k \in Client /\ Leads(c)
    BY DEF Departs, TurnsInv, Placed, TurnsFit, Working
<1>2. q \in Seq(Calls) /\ q # <<>> /\ q[1] = c
    BY <1>0, <1>1 DEF Leads
<1>3. /\ Others(c) /\ call'[c].pc = "idle" /\ ~Working(c)'
      /\ queue'[k] = Tail(q) /\ \A l \in Client \ {k} : queue'[l] = queue[l]
    BY <1>0, <1>1 DEF Departs, Leave, Others, Idle, Working
<1>4. /\ Len(q) \in Nat \ {0} /\ Len(queue'[k]) = Len(q) - 1
      /\ \A i \in 1..Len(queue'[k]) : queue'[k][i] = q[i + 1]
    BY <1>2, <1>3, HeadTailProperties
<1> HIDE DEF k, q
<1>5. Placed'
    BY <1>3 DEF TurnsInv, Placed, Others
<1>6. ASSUME NEW l \in Client PROVE InQueue(l)'
  <2>1. InQueue(l)
    BY DEF TurnsInv, QueuesFit
  <2>2. CASE l # k
    <3>1. ASSUME NEW i \in 1..Len(queue[l]) PROVE call'[queue[l][i]] = call[queue[l][i]]
      <4>1. queue[l][i] \in Calls
        BY <1>0
      <4>2. queue[l][i] # c
        BY <2>1, <2>2 DEF InQueue, k
      <4> QED BY <1>3, <4>1, <4>2 DEF Others
    <3> QED BY <1>3, <2>1, <2>2, <3>1 DEF InQueue, Working
  <2>3. CASE l = k
    <3>1. ASSUME NEW i \in 1..Len(queue'[k])
          PROVE  /\ i + 1 \in 1..Len(q) /\ queue'[k][i] = q[i + 1]
                 /\ call'[queue'[k][i]].on = k /\ call'[queue'[k][i]].pc = "queued"
      <4>1. i + 1 \in 1..Len(q) /\ 1 \in 1..Len(q) /\ i + 1 # 1 /\ queue'[k][i] = q[i + 1]
        BY <1>4
      <4>2. q[i + 1] # c /\ call[q[i + 1]].on = k /\ call[q[i + 1]].pc = "queued"
        BY <1>2, <2>1, <2>3, <4>1 DEF InQueue, q
      <4>3. q[i + 1] \in Calls
        BY <1>2, <4>1
      <4> QED BY <1>3, <4>1, <4>2, <4>3 DEF Others
    <3>2. ASSUME NEW i \in 1..Len(queue'[k]), NEW j \in 1..Len(queue'[k]), queue'[k][i] = queue'[k][j]
          PROVE  i = j
      <4>1. i + 1 \in 1..Len(q) /\ j + 1 \in 1..Len(q) /\ q[i + 1] = q[j + 1]
        BY <3>1, <3>2
      <4>2. i + 1 = j + 1
        BY <2>1, <2>3, <4>1 DEF InQueue, q
      <4> QED BY <4>2
    <3> QED BY <2>3, <3>1, <3>2 DEF InQueue
  <2> QED BY <2>2, <2>3
<1>7. ASSUME NEW d \in Calls PROVE (Working(d)' => Leads(d)') /\ (call'[d].pc = "queued" => Waits(d)')
  <2>1. CASE d = c
    BY <1>3, <2>1
  <2>2. CASE d # c
    <3>1. call'[d] = call[d]
      BY <1>3, <2>2 DEF Others
    <3>2. call[d].pc = "queued" \/ Working(d) => call[d].on \in Client
      BY DEF TurnsInv, Placed, Working
    <3>3. Working(d)' => Leads(d)'
      <4> SUFFICES ASSUME Working(d)' PROVE Leads(d)'
        OBVIOUS
      <4>1. Leads(d) /\ call[d].on \in Client
        BY <3>1, <3>2 DEF TurnsInv, TurnsFit, Working
      <4>2. call[d].on # k
        BY <1>2, <2>2, <4>1 DEF Leads, q
      <4> QED BY <1>3, <3>1, <4>1, <4>2 DEF Leads
    <3>4. call'[d].pc = "queued" => Waits(d)'
      <4> SUFFICES ASSUME call'[d].pc = "queued" PROVE Waits(d)'
        OBVIOUS
      <4>1. Waits(d) /\ call[d].on \in Client
        BY <3>1, <3>2 DEF TurnsInv, TurnsFit
      <4>2. PICK i \in 1..Len(queue[call[d].on]) : queue[call[d].on][i] = d
        BY <4>1 DEF Waits
      <4>3. CASE call[d].on # k
        BY <1>3, <3>1, <4>1, <4>2, <4>3 DEF Waits
      <4>4. CASE call[d].on = k
        <5>1. q[i] = d /\ i \in 1..Len(q) /\ i # 1
          BY <1>2, <2>2, <4>2, <4>4 DEF q
        <5>2. i - 1 \in 1..Len(queue'[k]) /\ queue'[k][i - 1] = d
          BY <1>4, <5>1
        <5> QED BY <3>1, <4>4, <5>2 DEF Waits
      <4> QED BY <4>3, <4>4
    <3> QED BY <3>3, <3>4
  <2> QED BY <2>1, <2>2
<1> QED BY <1>5, <1>6, <1>7 DEF QueuesFit, TurnsFit


LEMMA ResettingKeepsTurns ==
    ASSUME Resets
    PROVE  (Placed /\ QueuesFit /\ TurnsFit)'
    BY DEF Resets, Placed, QueuesFit, InQueue, TurnsFit, Idle, Working

LEMMA InitTurns == Init => TurnsInv
<1> SUFFICES ASSUME Init PROVE TurnsInv
    OBVIOUS
<1>1. Placed /\ QueuesFit /\ TurnsFit
    BY DEF Init, Placed, QueuesFit, InQueue, TurnsFit, Idle, Working
<1> QED BY <1>1, InitTypes, TypesSplit DEF TurnsInv

LEMMA TurnsStay ==
    ASSUME TurnsInv, [Next]_vars
    PROVE  TurnsInv'
<1>1. RequestTypes /\ ConnectionTypes /\ DataTypes
    BY TypesSplit DEF TurnsInv
<1>2. (RequestTypes /\ ConnectionTypes /\ DataTypes)'
    BY <1>1, RequestTypesStay, ConnectionTypesStay, DataTypesStay DEF TurnsInv
<1>3. (Placed /\ QueuesFit /\ TurnsFit)'
    BY <1>1, StepKinds, AskingKeepsTurns, AdvancingKeepsTurns, DepartingKeepsTurns,
       EnqueuingKeepsTurns, AbandoningKeepsTurns, ResettingKeepsTurns DEF TurnsInv
<1>4. \A k \in Client : \A i \in DOMAIN queue'[k] : call'[queue'[k][i]].on = k
  <2> SUFFICES ASSUME NEW k \in Client, NEW i \in DOMAIN queue'[k] PROVE call'[queue'[k][i]].on = k
    OBVIOUS
  <2>1. i \in 1..Len(queue'[k])
    BY <1>2 DEF RequestTypes
  <2> QED BY <1>3, <2>1 DEF QueuesFit, InQueue
<1> QED BY <1>2, <1>3, <1>4
        DEF TurnsInv, TypeOK, RequestTypes, ConnectionTypes, DataTypes

LEMMA TurnsHold == Spec => []TurnsInv
<1>1. TurnsInv /\ [Next]_vars => TurnsInv'
    BY TurnsStay
<1> QED BY <1>1, InitTurns, PTL DEF Spec

\* Every variable holds what the code could hold, and who is in the queue of a
\* connection is a request on it (executions of SessionConnections).
THEOREM TypeCorrectness == Spec => []TypeOK
<1>1. TurnsInv => TypeOK
    BY DEF TurnsInv
<1> QED BY <1>1, TurnsHold, PTL

\* The work of two requests is never in progress on one connection, whatever
\* has failed before (exclusive() of session-connections.ts): who works is the
\* first of the queue, and a queue has one first.
THEOREM RequestsTakeTurns == Spec => []TakeTurns
<1>1. TurnsInv => TakeTurns
    BY DEF TurnsInv, TurnsFit, Leads, TakeTurns
<1> QED BY <1>1, TurnsHold, PTL


-----------------------------------------------------------------------------
(***************************************************************************)
(* The connection of an undisturbed session                                *)
(***************************************************************************)

\* A session that is undisturbed has been.
LEMMA UndisturbedBefore ==
    ASSUME [Next]_vars, Undisturbed'
    PROVE  Undisturbed
<1>1. session' = "active" => session = "active"
  <2>1. session' \in {session, "ended", "dropped"}
    BY DEF Next, vars, Proceed, Start, Acquire, Opened, OpenFails, Lose, Emit, Enter, Begin, Baseline,
           Run, Introspect, ReadSeq, Insert, Finish, Throw, End, Close, Drop, Crash
  <2> QED BY <2>1
<1>2. incidents \subseteq incidents'
    BY DEF Next, vars, Proceed, Start, Acquire, Opened, OpenFails, Lose, Emit, Enter, Begin, Baseline,
           Run, Introspect, ReadSeq, Insert, Finish, Throw, End, Close, Drop, Crash, Fault
<1> QED BY <1>1, <1>2 DEF Undisturbed

\* A transaction goes with its backend.
LEMMA BackendsStayLive ==
    ASSUME TurnsInv, BackendsLive, [Next]_vars
    PROVE  BackendsLive'
<1>0. /\ client \in [Client -> {"none", "connecting", "live", "dead"}]
      /\ tx \in [Client -> {"none", "open", "failed"}]
    BY DEF TurnsInv, TypeOK
<1>1. ASSUME NEW c \in Calls, Acquire(c) PROVE BackendsLive'
  <2>1. \/ UNCHANGED client
        \/ \E k \in Client : client[k] # "live" /\ client' = [client EXCEPT ![k] = "connecting"]
    BY <1>1 DEF Acquire, Free
  <2>2. UNCHANGED tx
    BY <1>1 DEF Acquire
  <2> QED BY <1>0, <2>1, <2>2 DEF BackendsLive
<1>2. ASSUME NEW c \in Calls, Run(c) PROVE BackendsLive'
  <2>1. \A k \in Client : k # call[c].on => tx'[k] = tx[k]
    BY <1>0, <1>2 DEF Run, Effect
  <2>2. client[call[c].on] = "live" /\ UNCHANGED client
    BY <1>2 DEF Run
  <2> QED BY <2>1, <2>2 DEF BackendsLive
<1>3. ASSUME NEW c \in Calls,
             \/ Enter(c) \/ Begin(c) \/ Baseline(c) \/ Introspect(c) \/ ReadSeq(c) \/ Insert(c)
             \/ Finish(c) \/ Throw(c) \/ \E j \in Jobs : Start(c, j)
      PROVE  BackendsLive'
    BY <1>3 DEF BackendsLive, Enter, Begin, Baseline, Introspect, ReadSeq, Insert, Finish, Throw, Start
<1>4. ASSUME NEW k \in Client, Opened(k) \/ OpenFails(k) PROVE BackendsLive'
    BY <1>0, <1>4 DEF BackendsLive, Opened, OpenFails
<1>5. ASSUME NEW k \in Client, Lose(k) \/ Close(k) PROVE BackendsLive'
  <2>1. (\E es : Lost({k}, es)) \/ UNCHANGED <<client, tx>>
    BY <1>5 DEF Lose, Close
  <2> QED BY <2>1 DEF Lost, BackendsLive
<1>6. ASSUME Drop PROVE BackendsLive'
  <2>1. Lost({k \in Client : client[k] = "live"}, {"error", "end"})
    BY <1>6 DEF Drop
  <2> QED BY <2>1 DEF Lost, BackendsLive
<1>7. ASSUME Crash PROVE BackendsLive'
    BY <1>7 DEF Crash, BackendsLive
<1>8. CASE End \/ UNCHANGED vars \/ \E k \in Client : Emit(k)
    BY <1>8 DEF BackendsLive, End, vars, Emit
<1> QED BY <1>1, <1>2, <1>3, <1>4, <1>5, <1>6, <1>7, <1>8 DEF Next, Proceed

\* The first who asks opens the connection, the others join it.
LEMMA AcquireOnOne ==
    ASSUME TurnsInv, OneConnection, NEW c \in Calls, Acquire(c)
    PROVE  OneConnection'
<1>0. /\ call \in [Calls -> Call] /\ current \in 0..MaxClients
      /\ client \in [Client -> {"none", "connecting", "live", "dead"}]
    BY DEF TurnsInv, TypeOK
<1>1. UNCHANGED <<events, closing>>
    BY DEF Acquire
<1>2. CASE current # 0 /\ client[current] = "connecting"
  <2>1. UNCHANGED <<client, current>> /\ call' = [call EXCEPT ![c].pc = "opening", ![c].on = current]
    BY <1>2 DEF Acquire
  <2>2. call'[c].pc = "opening" /\ call'[c].on = current
    BY <1>0, <2>1 DEF Call
  <2>3. \A d \in Calls \ {c} : call'[d] = call[d]
    BY <1>0, <2>1
  <2> QED BY <1>1, <2>1, <2>2, <2>3 DEF OneConnection, Working
<1>3. CASE current # 0 /\ client[current] # "connecting"
  <2>1. UNCHANGED <<client, current>> /\ call' = [call EXCEPT ![c].pc = "queued", ![c].on = current]
    BY <1>3 DEF Acquire
  <2>2. call'[c].pc = "queued" /\ call'[c].on = current
    BY <1>0, <2>1 DEF Call
  <2>3. \A d \in Calls \ {c} : call'[d] = call[d]
    BY <1>0, <2>1
  <2>4. client[current] = "live"
    BY <1>3 DEF OneConnection
  <2> QED BY <1>1, <2>1, <2>2, <2>3, <2>4 DEF OneConnection, Working
<1>4. CASE current = 0
  <2>1. PICK k \in Client : /\ client' = [client EXCEPT ![k] = "connecting"]
                            /\ current' = k
                            /\ call' = [call EXCEPT ![c].pc = "opening", ![c].on = k]
                            /\ events[k] = {}
    BY <1>4 DEF Acquire, Free, OneConnection
  <2>2. call'[c].pc = "opening" /\ call'[c].on = k
    BY <1>0, <2>1 DEF Call
  <2>3. \A d \in Calls \ {c} : call'[d] = call[d]
    BY <1>0, <2>1
  <2>4. \A d \in Calls : call[d].pc \in {"idle", "acquire"}
    BY <1>4 DEF OneConnection, TurnsInv, Placed
  <2>5. \A l \in Client : client[l] \notin {"connecting", "live"}
    BY <1>4 DEF OneConnection
  <2>6. k # 0 /\ client'[k] = "connecting" /\ \A l \in Client \ {k} : client'[l] = client[l]
    BY <1>0, <2>1
  <2> QED BY <1>1, <2>1, <2>2, <2>3, <2>4, <2>5, <2>6 DEF OneConnection, Working
<1> QED BY <1>2, <1>3, <1>4

\* Nobody who fails to open leaves somebody at work.
LEMMA OpeningOnOne ==
    ASSUME TurnsInv, OneConnection, NEW k \in Client, Opened(k) \/ OpenFails(k)
    PROVE  OneConnection'
<1>0. /\ call \in [Calls -> Call]
      /\ client \in [Client -> {"none", "connecting", "live", "dead"}]
    BY DEF TurnsInv, TypeOK
<1>1. client[k] = "connecting" /\ current = k /\ k # 0
    BY DEF Opened, OpenFails, OneConnection
<1>2. CASE Opened(k)
    BY <1>0, <1>1, <1>2 DEF Opened, OneConnection
<1>3. CASE OpenFails(k)
  <2>1. \A c \in Calls : call[c].pc \notin {"idle", "acquire"} => call[c].pc = "opening" /\ call[c].on = k
    <3>1. \A c \in Calls : call[c].pc \in Pc
      BY <1>0, CallFields
    <3> QED BY <1>1, <3>1 DEF OneConnection, Working, Pc
  <2>2. \A c \in Calls : call'[c].pc \in {"idle", "acquire"}
    BY <1>3, <2>1 DEF OpenFails, Idle
  <2> QED BY <1>0, <1>1, <1>3, <2>2 DEF OpenFails, OneConnection, Working
<1> QED BY <1>2, <1>3

\* The late event of a client that never connected finds the map empty, or
\* makes it forget another.
LEMMA EmitOnNone ==
    ASSUME TurnsInv, OneConnection, NEW k \in Client, Emit(k), Undisturbed'
    PROVE  /\ UNCHANGED <<session, current, client, snapshot, closing, call, log>>
           /\ \A l \in Client : events'[l] \subseteq events[l]
<1>1. /\ UNCHANGED <<session, client, snapshot, closing, call, log>> /\ current' = 0
      /\ events[k] # {} /\ \E e : events' = [events EXCEPT ![k] = events[k] \ {e}]
      /\ current \in {0, k} \/ "forgotten" \in incidents'
    BY DEF Emit, Forget
<1>2. current \in {0, k}
    BY <1>1 DEF Undisturbed
<1>3. current # k
    BY <1>1 DEF OneConnection
<1>4. events \in [Client -> SUBSET {"error", "end"}]
    BY DEF TurnsInv, TypeOK
<1> QED BY <1>1, <1>2, <1>3, <1>4

LEMMA WorkOnOne ==
    ASSUME TurnsInv, OneConnection, NEW c \in Calls, Works(c) \/ Enter(c)
    PROVE  OneConnection'
<1>0. call \in [Calls -> Call] /\ RequestTypes
    BY DEF TurnsInv, TypeOK, RequestTypes
<1>1. UNCHANGED <<current, client, events, closing>>
    BY <1>0, WorkKinds DEF Enter
<1>2. Others(c) /\ (call'[c].pc = "idle" \/ call'[c].on = call[c].on)
  <2>1. CASE Enter(c)
    BY <1>0, <2>1 DEF Enter, Step, Others, Call
  <2>2. CASE Works(c)
    BY <1>0, <2>2, WorkKinds DEF Advances, Departs, Leave, Others, Idle
  <2> QED BY <2>1, <2>2
<1>3. call[c].pc \notin {"idle", "acquire"}
    BY DEF Works, Enter, Begin, Baseline, Run, Introspect, ReadSeq, Insert, Finish, Throw
<1>4. call[c].on = current /\ client[current] \in {"connecting", "live"}
  <2>1. call[c].on \in Client
    BY <1>3 DEF TurnsInv, Placed
  <2> QED BY <1>3, <2>1 DEF OneConnection
<1>5. client[current] = "live"
  <2>1. CASE Enter(c)
    BY <1>4, <2>1 DEF Enter
  <2>2. CASE Works(c)
    BY <2>2 DEF OneConnection, Working, Works, Begin, Baseline, Run, Introspect, ReadSeq, Insert,
                Finish, Throw
  <2> QED BY <2>1, <2>2
<1>6. \A d \in Calls \ {c} : call'[d] = call[d]
    BY <1>2 DEF Others
<1> QED BY <1>1, <1>2, <1>4, <1>5, <1>6 DEF OneConnection, Working

LEMMA ConnectionStays ==
    ASSUME TurnsInv, ConnectionInv, [Next]_vars
    PROVE  ConnectionInv'
<1> SUFFICES ASSUME Undisturbed' PROVE OneConnection'
    BY BackendsStayLive DEF ConnectionInv
<1>0. /\ Undisturbed /\ OneConnection /\ session' = "active"
      /\ incidents' \cap {"lost", "forgotten"} = {}
    BY UndisturbedBefore DEF ConnectionInv, Undisturbed
<1>1. ASSUME NEW c \in Calls, NEW j \in Jobs, Start(c, j) PROVE OneConnection'
  <2>1. call \in [Calls -> Call]
    BY DEF TurnsInv, TypeOK
  <2>2. call'[c].pc = "acquire" /\ \A d \in Calls \ {c} : call'[d] = call[d]
    BY <1>1, <2>1 DEF Start, Idle
  <2>3. UNCHANGED <<current, client, events, closing>>
    BY <1>1 DEF Start
  <2> QED BY <1>0, <2>2, <2>3 DEF OneConnection, Working
<1>2. ASSUME NEW c \in Calls, Acquire(c) PROVE OneConnection'
    BY <1>0, <1>2, AcquireOnOne
<1>3. ASSUME NEW k \in Client, Opened(k) \/ OpenFails(k) PROVE OneConnection'
    BY <1>0, <1>3, OpeningOnOne
<1>4. ASSUME NEW c \in Calls, Works(c) \/ Enter(c) PROVE OneConnection'
    BY <1>0, <1>4, WorkOnOne
<1>5. ASSUME NEW k \in Client, Lose(k) \/ Close(k) PROVE FALSE
    BY <1>0, <1>5 DEF Lose, Close, Fault, OneConnection
<1>9. ASSUME NEW k \in Client, Emit(k) PROVE OneConnection'
  <2>1. /\ UNCHANGED <<current, client, closing, call>>
        /\ \A l \in Client : events'[l] \subseteq events[l]
    BY <1>0, <1>9, EmitOnNone
  <2>2. \A l \in Client : events'[l] # {} => events[l] # {}
    BY <2>1
  <2> QED BY <1>0, <2>1, <2>2 DEF OneConnection, Working
<1>6. ASSUME End \/ Drop PROVE FALSE
    BY <1>0, <1>6 DEF End, Drop
<1>7. ASSUME Crash PROVE OneConnection'
  <2>1. client \in [Client -> {"none", "connecting", "live", "dead"}]
    BY DEF TurnsInv, TypeOK
  <2> QED BY <1>7, <2>1 DEF Crash, OneConnection, Idle, Working
<1>8. CASE UNCHANGED vars
    BY <1>0, <1>8 DEF vars, OneConnection, Working
<1> QED BY <1>1, <1>2, <1>3, <1>4, <1>5, <1>6, <1>7, <1>8, <1>9 DEF Next, Proceed, Works

LEMMA ConnectionHolds == Spec => [](TurnsInv /\ ConnectionInv)
<1>1. Init => TurnsInv /\ ConnectionInv
    BY InitTurns DEF Init, ConnectionInv, BackendsLive, Undisturbed, OneConnection, Idle, Working
<1>2. TurnsInv /\ ConnectionInv /\ [Next]_vars => (TurnsInv /\ ConnectionInv)'
    BY TurnsStay, ConnectionStays
<1> QED BY <1>1, <1>2, PTL DEF Spec

\* As long as no connection is lost and the session goes on, a transaction is
\* open on the connection the map holds, where the next request will run
\* (acquire() of session-connections.ts), however many openings have failed:
\* the late end of a client that never connected does no harm, unless it comes
\* when the map already holds another client, which it then forgets.
THEOREM TransactionsStayPinned == Spec => []TransactionIsPinned
<1>1. ConnectionInv => TransactionIsPinned
    BY DEF ConnectionInv, BackendsLive, Undisturbed, OneConnection, TransactionIsPinned
<1> QED BY <1>1, ConnectionHolds, PTL


-----------------------------------------------------------------------------
(***************************************************************************)
(* The log                                                                 *)
(***************************************************************************)

\* On the one connection, whoever works, works alone.
LEMMA WorkAlone ==
    ASSUME TurnsInv, OneConnection, NEW c \in Calls, NEW d \in Calls, Working(c), Working(d)
    PROVE  c = d /\ call[c].on = current /\ current \in Client /\ client[current] = "live"
    BY DEF TurnsInv, Placed, TurnsFit, Leads, OneConnection, Working

\* A request that writes no snapshot and no log, and neither reads a schema
\* nor loses one, leaves what fits.
LEMMA QuietKeepsLog ==
    ASSUME LogFits, UNCHANGED <<snapshot, log>>, NEW c \in Calls,
           \A k \in Client : client[k] = "live" => client'[k] = "live",
           Others(c), DifferenceFits(c)',
           Unrecorded(c)' <=> Unrecorded(c), Unrecorded(c) => call'[c].on = call[c].on
    PROVE  LogFits'
<1>1. ASSUME NEW d \in Calls PROVE DifferenceFits(d)' /\ (Unrecorded(d)' <=> Unrecorded(d))
                                   /\ (Unrecorded(d) => call'[d].on = call[d].on)
  <2>1. CASE d = c
    BY <2>1
  <2>2. CASE d # c
    BY <2>2 DEF Others, LogFits, DifferenceFits, Unrecorded
  <2> QED BY <2>1, <2>2
<1>2. ASSUME NEW k \in Client PROVE SnapshotFits(k)'
  <2>1. ASSUME \A d \in Calls : call'[d].on = k => ~Unrecorded(d)'
        PROVE  \A d \in Calls : call[d].on = k => ~Unrecorded(d)
    BY <1>1, <2>1
  <2> QED BY <2>1 DEF LogFits, SnapshotFits
<1> QED BY <1>1, <1>2 DEF LogFits

\* Who has read nothing since it took its turn, and goes on.
LEMMA ReadNothing ==
    ASSUME LogFits, NEW c \in Calls, call[c].pc \notin {"append", "insert", "touch"}
    PROVE  call[c].schema = Unknown /\ call[c].changes = NoChanges /\ ~Unrecorded(c)
    BY DEF LogFits, DifferenceFits, Unrecorded

\* Taking a turn, and the statements of a script.
LEMMA StatementsKeepLog ==
    ASSUME TurnsInv, OneConnection, LogFits, NEW c \in Calls,
           Enter(c) \/ Begin(c) \/ Run(c)
    PROVE  LogFits'
<1>0. /\ call \in [Calls -> Call]
      /\ call[c].job.kind \in {"script", "analyze", "report"}
      /\ RequestTypes
  <2>1. call[c].job \in Jobs \cup {NoJob}
    BY CallFields DEF TurnsInv, TypeOK
  <2> QED BY <2>1 DEF TurnsInv, TypeOK, RequestTypes, Job, NoJob
<1>1. /\ UNCHANGED <<snapshot, log, client>>
      /\ call[c].pc \in {"opening", "queued", "run"}
    BY DEF Enter, Begin, Run
<1>2. call[c].schema = Unknown /\ call[c].changes = NoChanges /\ ~Unrecorded(c)
    BY <1>1, ReadNothing
<1>3. Others(c) /\ call'[c].schema = Unknown /\ call'[c].changes = NoChanges
  <2>1. CASE Enter(c) \/ Begin(c)
    <3>1. \E pc : call' = [call EXCEPT ![c].pc = pc]
      BY <2>1 DEF Enter, Begin, Step
    <3> QED BY <1>0, <1>2, <3>1 DEF Others, Call
  <2>2. CASE Run(c)
    <3>1. PICK ok : AfterStatement(c, ok)
      BY <2>2 DEF Run
    <3>2. CASE Leave(c)
      BY <1>0, <3>2 DEF Leave, Others, Idle
    <3>3. CASE ~Leave(c)
      <4>1. \/ call' = [call EXCEPT ![c].done = call[c].done + 1]
            \/ \E pc : call' = [call EXCEPT ![c].done = call[c].done + 1, ![c].pc = pc]
            \/ call' = [call EXCEPT ![c].pc = "append"]
        BY <3>1, <3>3 DEF AfterStatement, Step
      <4> QED BY <1>0, <1>2, <4>1 DEF Others, Call
    <3> QED BY <3>2, <3>3
  <2> QED BY <2>1, <2>2
<1>4. ~Unrecorded(c)'
    BY <1>3 DEF Unrecorded, Unknown
<1>5. ASSUME \/ call'[c].pc = "run" /\ call'[c].job.kind = "script"
             \/ call'[c].pc = "introspect" /\ call'[c].job.kind # "report"
      PROVE  snapshot'[call'[c].on].known
  <2>1. CASE Enter(c)
    BY <1>0, <1>5, <2>1 DEF Enter, Step, Call
  <2>2. CASE Begin(c)
    <3>1. call'[c].job = call[c].job /\ call'[c].on = call[c].on
      BY <1>0, <2>2 DEF Begin, Step, Call
    <3>2. call'[c].pc = CASE call[c].job.kind = "report"  -> "introspect"
                          [] call[c].job.kind = "analyze" -> "run"
                          [] OTHER -> IF snapshot[call[c].on].known THEN "run" ELSE "baseline"
      BY <1>0, <2>2 DEF Begin, Step, Call
    <3> QED BY <1>0, <1>1, <1>5, <3>1, <3>2
  <2>3. CASE Run(c)
    <3>1. PICK ok : AfterStatement(c, ok)
      BY <2>3 DEF Run
    <3>2. ~Leave(c)
      BY <1>0, <1>5 DEF Leave, Idle
    <3>3. \/ call' = [call EXCEPT ![c].done = call[c].done + 1]
          \/ /\ call[c].job.kind = "script"
             /\ \E pc : call' = [call EXCEPT ![c].done = call[c].done + 1, ![c].pc = pc]
          \/ call' = [call EXCEPT ![c].pc = "append"]
      BY <3>1, <3>2 DEF AfterStatement, Step
    <3>4. call'[c].job = call[c].job /\ call'[c].on = call[c].on
      BY <1>0, <3>3 DEF Call
    <3>5. call[c].job.kind = "script"
      <4>1. call[c].pc = "run" /\ call[c] \in Call
        BY <1>0, <2>3 DEF Run
      <4>2. CASE call' = [call EXCEPT ![c].done = call[c].done + 1]
        <5>1. call'[c].pc = "run"
          BY <1>0, <4>1, <4>2 DEF Call
        <5> QED BY <1>5, <3>4, <5>1
      <4>3. CASE call' = [call EXCEPT ![c].pc = "append"]
        <5>1. call'[c].pc = "append"
          BY <1>0, <4>1, <4>3 DEF Call
        <5> QED BY <1>5, <5>1
      <4> QED BY <3>3, <4>2, <4>3
    <3> QED BY <1>1, <2>3, <3>4, <3>5 DEF Run, LogFits, DifferenceFits
  <2> QED BY <2>1, <2>2, <2>3
<1>6. DifferenceFits(c)'
    BY <1>3, <1>4, <1>5 DEF DifferenceFits
<1> QED BY <1>1, <1>2, <1>3, <1>4, <1>6, QuietKeepsLog


\* Asking for a connection: a new one has no snapshot.
LEMMA AskingKeepsLog ==
    ASSUME TurnsInv, OneConnection, LogFits, NEW c \in Calls,
           Acquire(c) \/ \E j \in Jobs : Start(c, j)
    PROVE  LogFits'
<1>0. /\ call \in [Calls -> Call] /\ current \in 0..MaxClients
      /\ client \in [Client -> {"none", "connecting", "live", "dead"}]
      /\ snapshot \in [Client -> Schema]
    BY DEF TurnsInv, TypeOK
<1>1. UNCHANGED log /\ call[c].pc \in {"idle", "acquire"}
    BY DEF Acquire, Start
<1>2. call[c].schema = Unknown /\ call[c].changes = NoChanges /\ ~Unrecorded(c)
    BY <1>1, ReadNothing
<1>3. /\ Others(c) /\ call'[c].schema = Unknown /\ call'[c].changes = NoChanges
      /\ call'[c].pc \in {"acquire", "opening", "queued"}
  <2>1. CASE Acquire(c)
    <3>1. \E pc \in {"opening", "queued"} : \E k : call' = [call EXCEPT ![c].pc = pc, ![c].on = k]
      BY <2>1 DEF Acquire
    <3> QED BY <1>0, <1>2, <3>1 DEF Others, Call
  <2>2. CASE \E j \in Jobs : Start(c, j)
    <3>1. \E j : call' = [call EXCEPT ![c] = [Idle EXCEPT !.pc = "acquire", !.job = j]]
      BY <2>2 DEF Start
    <3> QED BY <1>0, <3>1 DEF Others, Idle
  <2> QED BY <2>1, <2>2
<1>4. DifferenceFits(c)' /\ ~Unrecorded(c)'
    BY <1>3 DEF DifferenceFits, Unrecorded
<1>5. CASE UNCHANGED <<client, snapshot>>
    BY <1>1, <1>2, <1>3, <1>4, <1>5, QuietKeepsLog
<1>6. CASE ~UNCHANGED <<client, snapshot>>
  <2>1. current = 0 /\ Acquire(c)
    BY <1>6 DEF Acquire, Start
  <2>2. PICK k \in Client : /\ client[k] # "live"
                            /\ client' = [client EXCEPT ![k] = "connecting"]
                            /\ snapshot' = [snapshot EXCEPT ![k] = Unknown]
    BY <2>1 DEF Acquire, Free
  <2>3. \A l \in Client : ~snapshot[l].known
    BY <2>1 DEF OneConnection, LogFits, SnapshotFits
  <2>4. \A l \in Client : ~snapshot'[l].known
    BY <1>0, <2>2, <2>3 DEF Unknown
  <2>5. \A d \in Calls : call[d].pc \in {"idle", "acquire"}
    BY <2>1 DEF OneConnection, TurnsInv, Placed
  <2>6. ASSUME NEW d \in Calls \ {c} PROVE DifferenceFits(d)'
    <3>1. call'[d] = call[d] /\ DifferenceFits(d) /\ call[d].pc \in {"idle", "acquire"}
      BY <1>3, <2>5 DEF Others, LogFits
    <3> QED BY <3>1 DEF DifferenceFits, Unrecorded
  <2> QED BY <1>1, <1>4, <2>4, <2>6 DEF LogFits, SnapshotFits
<1> QED BY <1>5, <1>6

LEMMA OpeningKeepsLog ==
    ASSUME TurnsInv, OneConnection, LogFits, NEW k \in Client, Opened(k) \/ OpenFails(k)
    PROVE  LogFits'
<1>0. client \in [Client -> {"none", "connecting", "live", "dead"}]
    BY DEF TurnsInv, TypeOK
<1>1. UNCHANGED <<snapshot, log>> /\ client[k] = "connecting"
    BY DEF Opened, OpenFails
<1>2. \A l \in Client : client[l] = "live" => client'[l] = "live"
    BY <1>0, <1>1 DEF Opened, OpenFails
<1>3. \A d \in Calls : call'[d] = call[d] \/ (call[d].pc = "opening" /\ call'[d] = Idle)
    BY DEF Opened, OpenFails
<1>4. ASSUME NEW d \in Calls PROVE DifferenceFits(d)' /\ (Unrecorded(d)' <=> Unrecorded(d))
                                   /\ (Unrecorded(d) => call'[d].on = call[d].on)
  <2>1. CASE call'[d] = call[d]
    BY <1>1, <2>1 DEF LogFits, DifferenceFits, Unrecorded
  <2>2. CASE call[d].pc = "opening" /\ call'[d] = Idle
    BY <2>2 DEF DifferenceFits, Unrecorded, Idle, Unknown
  <2> QED BY <1>3, <2>1, <2>2
<1>5. ASSUME NEW l \in Client PROVE SnapshotFits(l)'
  <2>1. ASSUME \A d \in Calls : call'[d].on = l => ~Unrecorded(d)'
        PROVE  \A d \in Calls : call[d].on = l => ~Unrecorded(d)
    BY <1>4, <2>1
  <2> QED BY <1>1, <1>2, <2>1 DEF LogFits, SnapshotFits
<1> QED BY <1>1, <1>4, <1>5 DEF LogFits

\* A new connection starts from the last checkpoint, to which the log adds up.
LEMMA BaselineKeepsLog ==
    ASSUME TurnsInv, OneConnection, LogFits, NEW c \in Calls, Baseline(c)
    PROVE  LogFits'
<1>0. call \in [Calls -> Call] /\ snapshot \in [Client -> Schema]
    BY DEF TurnsInv, TypeOK
<1>1. /\ call[c].on \in Client /\ client[call[c].on] = "live" /\ UNCHANGED <<log, client>>
      /\ \A d \in Calls : Working(d) => d = c
    BY WorkAlone DEF Baseline, Working
<1>2. call[c].schema = Unknown /\ call[c].changes = NoChanges
    BY ReadNothing DEF Baseline
<1>3. /\ Others(c) /\ call'[c].schema = Unknown /\ call'[c].changes = NoChanges
      /\ call'[c].pc = "run" /\ call'[c].on = call[c].on
    BY <1>0, <1>2 DEF Baseline, Step, Others, Call
<1>4. /\ snapshot'[call[c].on] = Known(log.checkpoint)
      /\ \A k \in Client \ {call[c].on} : snapshot'[k] = snapshot[k]
    BY <1>0, <1>1 DEF Baseline
<1>5. \A d \in Calls : ~Unrecorded(d) /\ ~Unrecorded(d)'
    BY <1>1, <1>3 DEF Unrecorded, Working, Others, Baseline
<1>6. ASSUME NEW d \in Calls PROVE DifferenceFits(d)'
  <2>1. CASE d = c
    BY <1>3, <1>4, <1>5, <2>1 DEF DifferenceFits, Known
  <2>2. CASE d # c
    <3>1. call'[d] = call[d] /\ ~Working(d) /\ DifferenceFits(d)
      BY <1>1, <1>3, <2>2 DEF Others, LogFits
    <3> QED BY <1>5, <3>1 DEF DifferenceFits, Working
  <2> QED BY <2>1, <2>2
<1>7. ASSUME NEW k \in Client PROVE SnapshotFits(k)'
  <2>1. CASE k = call[c].on
    BY <1>1, <1>4, <2>1 DEF SnapshotFits, Known, LogFits
  <2>2. CASE k # call[c].on
    BY <1>1, <1>4, <1>5, <2>2 DEF SnapshotFits, LogFits
  <2> QED BY <2>1, <2>2
<1> QED BY <1>1, <1>6, <1>7 DEF LogFits

\* What a script reports leads from what the log adds up to, to what is there.
LEMMA IntrospectKeepsLog ==
    ASSUME TurnsInv, OneConnection, LogFits, NEW c \in Calls, Introspect(c)
    PROVE  LogFits'
<1> DEFINE k == call[c].on
           before == snapshot[k].tables
           after == Visible(k)
<1>0. call \in [Calls -> Call] /\ snapshot \in [Client -> Schema]
    BY DEF TurnsInv, TypeOK
<1>1. /\ k \in Client /\ client[k] = "live" /\ UNCHANGED <<log, client>>
      /\ current = k
      /\ \A d \in Calls : Working(d) => d = c
    BY WorkAlone DEF Introspect, Working
<1>2. call[c].schema = Unknown /\ call[c].changes = NoChanges /\ ~Unrecorded(c)
    BY ReadNothing DEF Introspect
<1>3. CASE call[c].job.kind = "report" \/ tx[k] = "failed"
  <2>1. UNCHANGED snapshot /\ (Leave(c) \/ Step(c, "touch") \/ Step(c, "append"))
    BY <1>3 DEF Introspect
  <2>2. /\ Others(c) /\ call'[c].schema = Unknown /\ call'[c].changes = NoChanges
        /\ call'[c].pc \in {"idle", "touch", "append"}
    BY <1>0, <1>2, <2>1 DEF Leave, Step, Others, Call, Idle
  <2>3. DifferenceFits(c)' /\ ~Unrecorded(c)'
    BY <2>2 DEF DifferenceFits, Unrecorded, Unknown
  <2> QED BY <1>1, <1>2, <2>1, <2>2, <2>3, QuietKeepsLog
<1>4. CASE ~(call[c].job.kind = "report" \/ tx[k] = "failed")
  <2>1. /\ snapshot' = [snapshot EXCEPT ![k] = Known(after)]
        /\ call' = [call EXCEPT ![c].pc = "append", ![c].schema = Known(after),
                                ![c].changes = <<after \ before, before \ after>>]
    BY <1>4 DEF Introspect
  <2>2. /\ Others(c) /\ call'[c].pc = "append" /\ call'[c].on = k
        /\ call'[c].schema = Known(after)
        /\ call'[c].changes = <<after \ before, before \ after>>
    BY <1>0, <2>1 DEF Others, Call
  <2>3. snapshot'[k] = Known(after) /\ \A l \in Client \ {k} : snapshot'[l] = snapshot[l]
    BY <1>0, <1>1, <2>1
  <2>4. \A l \in Client \ {k} : ~snapshot[l].known
    BY <1>1 DEF OneConnection, LogFits, SnapshotFits
  <2>5. \A d \in Calls : ~Unrecorded(d)
    BY <1>1, <1>2 DEF Unrecorded, Working
  <2>6. before = log.replayed
    BY <1>1, <1>4, <2>5 DEF Introspect, LogFits, DifferenceFits, SnapshotFits
  <2>7. (log.replayed \cup (after \ before)) \ (before \ after) = after
    BY <2>6
  <2>8. Known(after).known = TRUE /\ Known(after).tables = after
    BY DEF Known
  <2> HIDE DEF k, before, after
  <2>9. Unrecorded(c)' /\ DifferenceFits(c)'
    BY <1>1, <2>2, <2>3, <2>7, <2>8 DEF DifferenceFits, Unrecorded
  <2>10. ASSUME NEW d \in Calls, d # c PROVE DifferenceFits(d)'
    <3>1. call'[d] = call[d] /\ ~Working(d) /\ DifferenceFits(d)
      BY <1>1, <2>2, <2>10 DEF Others, LogFits
    <3> QED BY <3>1 DEF DifferenceFits, Unrecorded, Working
  <2>11. ASSUME NEW l \in Client PROVE SnapshotFits(l)'
    <3>1. CASE l = k
      BY <1>1, <2>2, <2>9, <3>1 DEF SnapshotFits
    <3>2. CASE l # k
      BY <2>3, <2>4, <3>2 DEF SnapshotFits
    <3> QED BY <3>1, <3>2
  <2> QED BY <1>1, <2>9, <2>10, <2>11 DEF LogFits
<1> QED BY <1>3, <1>4

\* Reading the number, and answering.
LEMMA AnsweringKeepsLog ==
    ASSUME TurnsInv, OneConnection, LogFits, NEW c \in Calls,
           ReadSeq(c) \/ (call[c].pc = "touch" /\ Leave(c)),
           UNCHANGED <<snapshot, log, client>>
    PROVE  LogFits'
<1>0. call \in [Calls -> Call]
    BY DEF TurnsInv, TypeOK
<1>1. CASE ReadSeq(c)
  <2>1. /\ Others(c) /\ call[c].pc = "append" /\ call'[c].pc = "insert"
        /\ call'[c].schema = call[c].schema /\ call'[c].changes = call[c].changes
        /\ call'[c].on = call[c].on
    BY <1>0, <1>1 DEF ReadSeq, Others, Call
  <2>2. (Unrecorded(c)' <=> Unrecorded(c)) /\ DifferenceFits(c)'
    BY <2>1 DEF LogFits, DifferenceFits, Unrecorded
  <2> QED BY <2>1, <2>2, QuietKeepsLog
<1>2. CASE call[c].pc = "touch" /\ Leave(c)
  <2>1. Others(c) /\ call'[c] = Idle
    BY <1>0, <1>2 DEF Leave, Others
  <2>2. ~Unrecorded(c) /\ ~Unrecorded(c)' /\ DifferenceFits(c)'
    BY <1>2, <2>1 DEF Unrecorded, DifferenceFits, Idle, Unknown
  <2> QED BY <2>1, <2>2, QuietKeepsLog
<1> QED BY <1>1, <1>2

\* Once its difference is recorded, the log adds up to what has been read.
LEMMA InsertKeepsLog ==
    ASSUME TurnsInv, OneConnection, LogFits, NEW c \in Calls, Insert(c), ~Leave(c)
    PROVE  LogFits'
<1> DEFINE k == call[c].on
<1>0. call \in [Calls -> Call] /\ log \in Log
    BY DEF TurnsInv, TypeOK
<1>1. /\ k \in Client /\ client[k] = "live" /\ UNCHANGED <<snapshot, client>>
      /\ current = k
      /\ \A d \in Calls : Working(d) => d = c
    BY WorkAlone DEF Insert, Working
<1>2. /\ log' = Recorded(call[c].changes, call[c].schema) /\ Step(c, "touch")
    BY DEF Insert
<1>3. /\ Others(c) /\ call'[c].pc = "touch"
      /\ call'[c].schema = call[c].schema /\ call'[c].changes = call[c].changes
    BY <1>0, <1>2 DEF Step, Others, Call
<1>4. \A d \in Calls : ~Unrecorded(d)'
    BY <1>1, <1>3 DEF Unrecorded, Working, Others
<1>5. /\ log'.checkpoint = log'.replayed
      /\ snapshot[k].known => snapshot[k].tables = log'.replayed
  <2>1. CASE call[c].schema.known
    <3>1. /\ snapshot[k] = call[c].schema
          /\ (log.replayed \cup call[c].changes[1]) \ call[c].changes[2] = call[c].schema.tables
      BY <2>1 DEF LogFits, DifferenceFits, Unrecorded, Insert
    <3> QED BY <1>2, <2>1, <3>1 DEF Recorded
  <2>2. CASE ~call[c].schema.known
    <3>1. call[c].changes = NoChanges
      BY <2>2 DEF LogFits, DifferenceFits
    <3>2. log'.replayed = log.replayed /\ log'.checkpoint = log.checkpoint
      BY <1>2, <2>2, <3>1 DEF Recorded, NoChanges
    <3>3. \A d \in Calls : ~Unrecorded(d)
      BY <1>1, <2>2 DEF Unrecorded, Working
    <3> QED BY <1>1, <3>2, <3>3 DEF LogFits, SnapshotFits
  <2> QED BY <2>1, <2>2
<1>6. ASSUME NEW d \in Calls PROVE DifferenceFits(d)'
  <2>1. CASE d = c
    BY <1>3, <1>4, <2>1 DEF DifferenceFits, LogFits
  <2>2. CASE d # c
    <3>1. call'[d] = call[d] /\ ~Working(d) /\ DifferenceFits(d)
      BY <1>1, <1>3, <2>2 DEF Others, LogFits
    <3> QED BY <1>4, <3>1 DEF DifferenceFits, Working
  <2> QED BY <2>1, <2>2
<1>7. ASSUME NEW l \in Client PROVE SnapshotFits(l)'
  <2>1. CASE l = k
    BY <1>1, <1>5, <2>1 DEF SnapshotFits
  <2>2. CASE l # k
    <3>1. ~snapshot[l].known
      BY <1>1, <2>2 DEF OneConnection, LogFits, SnapshotFits
    <3> QED BY <1>1, <3>1 DEF SnapshotFits
  <2> QED BY <2>1, <2>2
<1> QED BY <1>5, <1>6, <1>7 DEF LogFits

LEMMA CompleteBefore ==
    ASSUME [Next]_vars, Complete'
    PROVE  Complete
<1>1. incidents \subseteq incidents'
    BY DEF Next, vars, Proceed, Start, Acquire, Opened, OpenFails, Lose, Emit, Enter, Begin, Baseline,
           Run, Introspect, ReadSeq, Insert, Finish, Throw, End, Close, Drop, Crash, Fault
<1> QED BY <1>1, UndisturbedBefore DEF Complete

LEMMA LogStays ==
    ASSUME TurnsInv, ConnectionInv, LogInv, [Next]_vars
    PROVE  LogInv'
<1> SUFFICES ASSUME Complete' PROVE LogFits'
    BY DEF LogInv
<1>0. /\ Complete /\ LogFits /\ OneConnection /\ session' = "active"
      /\ incidents' \cap {"lost", "forgotten", "unrecorded"} = {}
    BY CompleteBefore DEF LogInv, ConnectionInv, Complete, Undisturbed
<1>1. ASSUME NEW c \in Calls, Acquire(c) \/ \E j \in Jobs : Start(c, j) PROVE LogFits'
    BY <1>0, <1>1, AskingKeepsLog
<1>2. ASSUME NEW c \in Calls, Enter(c) \/ Begin(c) \/ Run(c) PROVE LogFits'
    BY <1>0, <1>2, StatementsKeepLog
<1>3. ASSUME NEW c \in Calls, Baseline(c) PROVE LogFits'
    BY <1>0, <1>3, BaselineKeepsLog
<1>4. ASSUME NEW c \in Calls, Introspect(c) PROVE LogFits'
    BY <1>0, <1>4, IntrospectKeepsLog
<1>5. ASSUME NEW c \in Calls, ReadSeq(c) \/ Finish(c) PROVE LogFits'
    BY <1>0, <1>5, AnsweringKeepsLog DEF ReadSeq, Finish
<1>6. ASSUME NEW c \in Calls, Insert(c) PROVE LogFits'
  <2>1. call[c].seq = log.seq + 1
    BY <1>0, <1>6 DEF Insert
  <2>2. ~Leave(c)
    <3>1. call \in [Calls -> Call]
      BY DEF TurnsInv, TypeOK
    <3>2. call'[c].pc = "touch"
      BY <1>6, <2>1, <3>1 DEF Insert, Step, Call
    <3> QED BY <3>1, <3>2 DEF Leave, Idle
  <2> QED BY <1>0, <1>6, <2>2, InsertKeepsLog
<1>7. ASSUME NEW c \in Calls, Throw(c) PROVE LogFits'
  <2>1. ~(call[c].pc \in {"run", "introspect"} /\ client[call[c].on] = "dead")
    BY <1>0, WorkAlone DEF Working
  <2>2. call[c].pc = "touch"
    BY <1>0, <1>7, <2>1 DEF Throw, Fault
  <2> QED BY <1>0, <1>7, <2>2, AnsweringKeepsLog DEF Throw
<1>8. ASSUME NEW k \in Client, Opened(k) \/ OpenFails(k) PROVE LogFits'
    BY <1>0, <1>8, OpeningKeepsLog
<1>9. ASSUME NEW k \in Client, Lose(k) \/ Close(k) PROVE FALSE
    BY <1>0, <1>9 DEF Lose, Close, Fault, OneConnection
<1>13. ASSUME NEW k \in Client, Emit(k) PROVE LogFits'
  <2>1. UNCHANGED <<client, snapshot, call, log>>
    BY <1>0, <1>13, EmitOnNone DEF Complete
  <2> QED BY <1>0, <2>1 DEF LogFits, DifferenceFits, SnapshotFits, Unrecorded
<1>10. ASSUME End \/ Drop PROVE FALSE
    BY <1>0, <1>10 DEF End, Drop
<1>11. ASSUME Crash PROVE LogFits'
    BY <1>0, <1>11
       DEF Crash, LogFits, DifferenceFits, SnapshotFits, Unrecorded, Idle, Unknown
<1>12. CASE UNCHANGED vars
    BY <1>0, <1>12 DEF vars, LogFits, DifferenceFits, SnapshotFits, Unrecorded
<1> QED BY <1>1, <1>2, <1>3, <1>4, <1>5, <1>6, <1>7, <1>8, <1>9, <1>10, <1>11, <1>12, <1>13
        DEF Next, Proceed

\* As long as nothing was lost or forgotten, a connection or a write, the changes
\* in the log of a session add up to its last checkpoint, across any number of
\* restarts (baseline() of the execution services): whoever works reads,
\* compares and records alone, and a new connection starts from the checkpoint.
THEOREM HistoriesReplay == Spec => []HistoryReplays
<1>1. Init => LogInv
  <2> SUFFICES ASSUME Init PROVE LogFits
    BY DEF LogInv
  <2>1. log.checkpoint = log.replayed
    BY DEF Init
  <2>2. ASSUME NEW c \in Calls PROVE DifferenceFits(c)
    <3>1. call[c] = Idle
      BY DEF Init
    <3> QED BY <3>1 DEF DifferenceFits, Unrecorded, Idle, Unknown
  <2>3. ASSUME NEW k \in Client PROVE SnapshotFits(k)
    BY DEF Init, SnapshotFits, Unknown
  <2> QED BY <2>1, <2>2, <2>3 DEF LogFits
<1>2. TurnsInv /\ ConnectionInv /\ LogInv /\ [Next]_vars => LogInv'
    BY LogStays
<1>3. Spec => []LogInv
    BY <1>1, <1>2, ConnectionHolds, PTL DEF Spec
<1>4. LogInv => HistoryReplays
    BY DEF LogInv, Complete, Undisturbed, LogFits, HistoryReplays
<1> QED BY <1>3, <1>4, PTL

===============================================================================
