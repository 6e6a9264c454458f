------------------------------ MODULE LabConsole ------------------------------
(***************************************************************************)
(* The connections of the API to the sandbox of one lab run (apps/api,     *)
(* labs/lab-connections.ts, and acquire() and finish() of lab-run.service):*)
(* a pair of clients, one for the learner's console and one for the        *)
(* mini-app, opened by the first request that needs it, shared by the rest *)
(* and dropped when the run is finished or either client is lost.          *)
(*                                                                         *)
(* LabRuns has the run itself; here it is only there or gone.              *)
(***************************************************************************)
EXTENDS Naturals, Sequences

CONSTANTS
    Uses,       \* requests of the run in progress at once
    MaxUses,    \* bound: requests of a behaviour
    MaxFaults   \* bound: connections that fail or are lost, errors of the manager

\* What the constants must be (assumed by the instance).
LabConsoleAssumption == "finish" \notin Uses /\ MaxUses \in Nat /\ MaxFaults \in Nat

VARIABLES
    row,        \* is the run in the database?
    sandbox,    \* is its sandbox there?
    known,      \* connectionOf: does the API know where it is?
    entry,      \* connections: the pair the map holds for the run, 0 if none
    pair,       \* how far open() has come with each pair
    client,     \* the two clients of each pair
    doomed,     \* pairs whose release() waits until they are open
    queue,      \* consoleQueue and appQueue of each pair
    caller,     \* where each request is, and whoever finishes the run
    used, faults

net == <<pair, client, doomed, queue>>
vars == <<row, sandbox, known, entry, net, caller, used, faults>>

-----------------------------------------------------------------------------
Kind == {"console", "app"}
Pair == 1..MaxUses
Caller == Uses \cup {"finish"}

\* "ending": it is being closed, or could not connect; its 'end' is to come.
\* "lost": its backend is gone; 'error' is to come first.
ClientState == {"none", "connecting", "up", "lost", "ending", "over"}

TypeOK ==
    /\ {row, sandbox, known} \subseteq BOOLEAN
    /\ entry \in Pair \cup {0} /\ doomed \subseteq Pair
    /\ pair \in [Pair -> {"none", "opening", "open", "failed"}]
    /\ client \in [Pair -> [Kind -> ClientState]]
    /\ queue \in [Pair -> [Kind -> Seq(Uses)]]
    /\ caller \in [Caller -> [pc : {"idle", "read", "ask", "opening", "queued", "release",
                                    "closing"},
                              kind : Kind, on : Pair \cup {0}]]
    /\ used \in 0..MaxUses /\ faults \in 0..MaxFaults

Fault == faults < MaxFaults /\ faults' = faults + 1

Goes(c, pc) == caller' = [caller EXCEPT ![c].pc = pc]
Ends(c) == caller' = [caller EXCEPT ![c].pc = "idle", ![c].on = 0]

-----------------------------------------------------------------------------
(***************************************************************************)
(* LabConnections                                                          *)
(***************************************************************************)

\* close() of a pair: end() on both clients.
Closed(two) == [k \in Kind |-> IF two[k] = "up" THEN "ending" ELSE two[k]]

\* release(): the map forgets the run, whichever pair it holds by now, which
\* is closed, or will be once it is open.
Released(clients) ==
    /\ entry' = 0
    /\ client' = IF entry # 0 /\ pair[entry] = "open" THEN [clients EXCEPT ![entry] = Closed(@)]
                                                     ELSE clients
    /\ doomed' = IF entry # 0 /\ pair[entry] = "opening" THEN doomed \cup {entry} ELSE doomed

\* acquire(): the pair of the run, or a new one.
Acquire(c) ==
    \/ /\ entry # 0
       /\ caller' = [caller EXCEPT ![c].pc = "opening", ![c].on = entry]
       /\ UNCHANGED <<entry, net>>
    \/ /\ entry = 0
       /\ \E p \in Pair :
             /\ pair[p] = "none" /\ \A q \in 1..(p - 1) : pair[q] # "none"
             /\ entry' = p
             /\ pair' = [pair EXCEPT ![p] = "opening"]
             /\ client' = [client EXCEPT ![p] = [k \in Kind |-> "connecting"]]
             /\ caller' = [caller EXCEPT ![c].pc = "opening", ![c].on = p]
       /\ UNCHANGED <<doomed, queue>>

Connects(p, k) ==
    /\ client[p][k] = "connecting"
    /\ \/ /\ sandbox
          /\ client' = [client EXCEPT ![p][k] = "up"]
          /\ UNCHANGED faults
       \/ /\ IF sandbox THEN Fault ELSE UNCHANGED faults
          /\ client' = [client EXCEPT ![p][k] = "ending"]
    /\ UNCHANGED <<row, sandbox, known, entry, pair, doomed, queue, caller, used>>

\* open() is fulfilled; a release that waited for it closes the pair.
Opened(p) ==
    /\ pair[p] = "opening" /\ \A k \in Kind : client[p][k] = "up"
    /\ pair' = [pair EXCEPT ![p] = "open"]
    /\ client' = IF p \in doomed THEN [client EXCEPT ![p] = Closed(@)] ELSE client
    /\ doomed' = doomed \ {p}
    /\ UNCHANGED <<row, sandbox, known, entry, queue, caller, used, faults>>

\* open() is rejected: the map forgets the run, whichever pair it holds.  The
\* other client, if it connects, is known to nobody.
OpenFails(p) ==
    /\ pair[p] = "opening" /\ \E k \in Kind : client[p][k] \notin {"connecting", "up"}
    /\ pair' = [pair EXCEPT ![p] = "failed"]
    /\ doomed' = doomed \ {p}
    /\ entry' = 0
    /\ UNCHANGED <<row, sandbox, known, client, queue, caller, used, faults>>

\* A mistake the runs must catch: nobody hears of the end of a connection.
EmitsUnheard(p, k) ==
    /\ client[p][k] \in {"lost", "ending"} /\ pair[p] # "opening"
    /\ client' = [client EXCEPT ![p][k] = IF @ = "lost" THEN "ending" ELSE "over"]
    /\ UNCHANGED <<row, sandbox, known, entry, pair, doomed, queue, caller, used, faults>>

\* The listeners of 'error' and 'end', of a pair that may be long replaced; a
\* pair that is not open yet is rejected in the same turn, or before.
Emits(p, k) ==
    /\ client[p][k] \in {"lost", "ending"} /\ pair[p] # "opening"
    /\ Released([client EXCEPT ![p][k] = IF @ = "lost" THEN "ending" ELSE "over"])
    /\ UNCHANGED <<row, sandbox, known, pair, queue, caller, used, faults>>

-----------------------------------------------------------------------------
(***************************************************************************)
(* LabRunService                                                           *)
(***************************************************************************)

\* runConsole or runApp of a run that is READY or ACTIVE.
Use(u, kind) ==
    /\ row /\ caller[u].pc = "idle"
    /\ used < MaxUses /\ used' = used + 1
    /\ caller' = [caller EXCEPT ![u] = [pc |-> "read", kind |-> kind, on |-> 0]]
    /\ UNCHANGED <<row, sandbox, known, entry, net, faults>>

Read(u) ==
    /\ caller[u].pc = "read"
    /\ IF known THEN Acquire(u) ELSE Goes(u, "ask") /\ UNCHANGED <<entry, net>>
    /\ UNCHANGED <<row, sandbox, known, used, faults>>

\* The manager says where the sandbox is, or that it has ended, or nothing.
Ask(u) ==
    /\ caller[u].pc = "ask"
    /\ \/ /\ sandbox /\ known' = TRUE
          /\ Acquire(u)
          /\ UNCHANGED faults
       \/ /\ ~sandbox
          /\ Goes(u, "release")
          /\ UNCHANGED <<known, entry, net, faults>>
       \/ /\ Fault
          /\ Ends(u)
          /\ UNCHANGED <<known, entry, net>>
    /\ UNCHANGED <<row, sandbox, used>>

\* The pair it awaited is there, and its work waits for its turn; or not.
Enter(u) ==
    LET p == caller[u].on IN
    /\ caller[u].pc = "opening"
    /\ \/ /\ pair[p] = "open"
          /\ queue' = [queue EXCEPT ![p][caller[u].kind] = Append(@, u)]
          /\ Goes(u, "queued")
       \/ /\ pair[p] = "failed"
          /\ Ends(u)
          /\ UNCHANGED queue
    /\ UNCHANGED <<row, sandbox, known, entry, pair, client, doomed, used, faults>>

\* The work of a request: the server answers, with rows, an error or the
\* cancellation of the watchdog, or the client has no server; the next
\* request has its turn in either case.
Work(u) ==
    LET p == caller[u].on
        k == caller[u].kind
    IN
    /\ caller[u].pc = "queued" /\ Head(queue[p][k]) = u
    /\ queue' = [queue EXCEPT ![p][k] = Tail(@)]
    /\ Ends(u)
    /\ UNCHANGED <<row, sandbox, known, entry, pair, client, doomed, used, faults>>

\* finish(), by the learner, the watcher or the end of the session ...
BeginFinish ==
    /\ row /\ caller["finish"].pc = "idle"
    /\ Goes("finish", "release")
    /\ UNCHANGED <<row, sandbox, known, entry, net, used, faults>>

\* ... or a request that learnt that the sandbox is gone.
Release(c) ==
    /\ caller[c].pc = "release"
    /\ Released(client)
    /\ caller' = [caller EXCEPT ![c].pc = "closing", ![c].on = entry]
    /\ UNCHANGED <<row, sandbox, known, pair, queue, used, faults>>

\* It waits for the pair to be closed, forgets where the sandbox is and
\* deletes the run.
Forget(c) ==
    LET p == caller[c].on IN
    /\ caller[c].pc = "closing"
    /\ p # 0 => pair[p] = "failed" \/ \A k \in Kind : client[p][k] = "over"
    /\ known' = FALSE /\ row' = FALSE
    /\ Ends(c)
    /\ UNCHANGED <<sandbox, entry, net, used, faults>>

-----------------------------------------------------------------------------
(***************************************************************************)
(* The sandbox and the network                                             *)
(***************************************************************************)
SandboxGoes ==
    /\ sandbox /\ sandbox' = FALSE
    /\ client' = [p \in Pair |-> [k \in Kind |->
                    IF client[p][k] = "up" THEN "lost" ELSE client[p][k]]]
    /\ UNCHANGED <<row, known, entry, pair, doomed, queue, caller, used, faults>>

Lose(p, k) ==
    /\ client[p][k] = "up"
    /\ Fault
    /\ client' = [client EXCEPT ![p][k] = "lost"]
    /\ UNCHANGED <<row, sandbox, known, entry, pair, doomed, queue, caller, used>>

-----------------------------------------------------------------------------
\* The API has seen the sandbox, or has been started again since.
Init ==
    /\ row = TRUE /\ sandbox = TRUE /\ known \in BOOLEAN
    /\ entry = 0 /\ doomed = {}
    /\ pair = [p \in Pair |-> "none"]
    /\ client = [p \in Pair |-> [k \in Kind |-> "none"]]
    /\ queue = [p \in Pair |-> [k \in Kind |-> <<>>]]
    /\ caller = [c \in Caller |-> [pc |-> "idle", kind |-> "app", on |-> 0]]
    /\ used = 0 /\ faults = 0

\* Promises settle and sockets tell of their end.
Settles ==
    \/ \E p \in Pair : Opened(p) \/ OpenFails(p)
    \/ \E p \in Pair, k \in Kind : Connects(p, k) \/ Emits(p, k)
    \/ \E u \in Uses : Read(u) \/ Ask(u) \/ Enter(u) \/ Work(u)
    \/ \E c \in Caller : Release(c) \/ Forget(c)

Next ==
    \/ Settles
    \/ \E u \in Uses, kind \in Kind : Use(u, kind)
    \/ BeginFinish \/ SandboxGoes
    \/ \E p \in Pair, k \in Kind : Lose(p, k)

Spec == Init /\ [][Next]_vars

-----------------------------------------------------------------------------
\* Whether a caller has a step to take: the guards of its steps.
MayAcquire == entry # 0 \/ \E p \in Pair : pair[p] = "none"

MayGo(c) ==
    LET p == caller[c].on IN
    \/ caller[c].pc = "read" /\ (known => MayAcquire)
    \/ caller[c].pc = "ask" /\ (~sandbox \/ MayAcquire \/ faults < MaxFaults)
    \/ caller[c].pc = "opening" /\ pair[p] \in {"open", "failed"}
    \/ caller[c].pc = "queued" /\ Head(queue[p][caller[c].kind]) = c
    \/ caller[c].pc = "release"
    \/ caller[c].pc = "closing" /\
          (p = 0 \/ pair[p] = "failed" \/ \A k \in Kind : client[p][k] = "over")

\* Nothing is opening, connecting or ending, and nobody has a step to take:
\* ~ENABLED Settles, spelt out for the proof.
Settled ==
    /\ \A p \in Pair : pair[p] # "opening"
    /\ \A p \in Pair, k \in Kind : client[p][k] \notin {"connecting", "lost", "ending"}
    /\ \A c \in Caller : ~MayGo(c)

\* However opening, losing and closing overlap, and whichever pair a late
\* event drops: once everything has settled, which takes finitely many steps,
\* every request is answered, the map holds a pair that works or none, so that
\* the next request opens one, and nothing else is connected.  (Once a pair
\* could not be opened, its other client, or a pair that the rejection dropped
\* for it, stays until the sandbox goes.)
ConsoleSettles ==
    Settled =>
        /\ \A c \in Caller : caller[c].pc = "idle"
        /\ entry # 0 => pair[entry] = "open" /\ \A k \in Kind : client[entry][k] = "up"
        /\ \A p \in Pair, k \in Kind :
              /\ client[p][k] \in {"none", "up", "over"}
              /\ client[p][k] = "up" => p = entry \/ (sandbox /\ \E q \in Pair : pair[q] = "failed")

=============================================================================
