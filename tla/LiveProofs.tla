-------------------------------- MODULE LiveProofs -------------------------------
(***************************************************************************)
(* Theorems about a lab run and about its container, and their proofs: that*)
(* the session has one run at most, that no slow answer, stale read or     *)
(* error ends a run whose sandbox somebody is using, and that a destroy    *)
(* which returned has left nothing behind.                                 *)
(*                                                                         *)
(* A call that is about to delete a run has a reason that lasts: a sandbox *)
(* that has ended never comes back, nor does a session.  So a reason that  *)
(* was good when the manager answered is good when the row goes, however   *)
(* late.  And once the provisioning is over, nothing makes a container or a*)
(* network: a destroy that began after that leaves the container gone or   *)
(* going as soon as it is past its removal, and returns "ok" only without  *)
(* network.                                                                *)
(***************************************************************************)
EXTENDS MCLive, TLAPS


\* A call in progress, past the insert of its run.
Doing == [op : L!Op, at : L!At, id : LabRun, st : L!LiveStatus]

-----------------------------------------------------------------------------
(***************************************************************************)
(* The inductive invariant                                                 *)
(***************************************************************************)

\* What a call knows of its run when it is where it is.
CallFits(c) ==
    LET k == call[c] IN
    /\ k.at = "insert" => k = L!Starting
    /\ k.at \notin {"over", "insert"} /\ k.op = "starting" =>
          k.at \in {"request", "bind", "update", "undo"}
    /\ k.at \in {"request", "bind", "undo"} => k.op = "starting"
    /\ k.at = "request" => row[k.id] # "absent" /\ box[k.id] = "none"
    /\ k.at = "bind" => box[k.id] # "none"
    /\ k.at = "beat" /\ k.op = "claim" => box[k.id] \in L!Usable \cup {"ended"}
    /\ k.at = "release" =>
          /\ box[k.id] # "none"
          /\ k.op = "release" \/ (k.op = "watch" /\ ~active)
    /\ k.at = "delete" => k.op = "release" \/ box[k.id] = "ended" \/ ~active

\* A run is asked for once.
AskedOnce ==
    \A c, d \in L!Caller :
        (call[c].at = "request" /\ call[d].at = "request" /\ call[c].id = call[d].id) => c = d

\* The manager knows the run of a row that is bound, and of one the watcher
\* has read, but none that has no row yet; what is read as over is.
RowsFit ==
    \A r \in LabRun : (row[r] = "bound" => box[r] # "none") /\ (row[r] = "absent" => box[r] = "none")

TodoFits == \A k \in todo : box[k.id] # "none" /\ (k.over => ~active)

RunsInv ==
    /\ L!TypeOK
    /\ \A c \in L!Caller : CallFits(c)
    /\ AskedOnce /\ RowsFit /\ TodoFits

USE DEF L!Caller

-----------------------------------------------------------------------------
(***************************************************************************)
(* Calls                                                                   *)
(***************************************************************************)

LEMMA CallKinds ==
    ASSUME L!TypeOK, NEW c \in L!Caller
    PROVE  /\ call \in [L!Caller -> L!Call] /\ L!Call = {L!Over, L!Starting} \cup Doing
           /\ L!Over.at = "over" /\ L!Starting.at = "insert" /\ L!Starting.op = "start"
           /\ call[c] \in L!Call
           /\ call[c].at \notin {"over", "insert"} => call[c] \in Doing
           /\ CallFits(c) /\ call[c] \in Doing => call[c].at # "insert"
<1>1. L!Over.at = "over" /\ L!Starting.at = "insert" /\ L!Starting.op = "start"
    BY DEF L!Over, L!Starting
<1>2. call \in [L!Caller -> L!Call] /\ call[c] \in L!Call
    BY DEF L!TypeOK
<1>3. L!Call = {L!Over, L!Starting} \cup Doing
    BY DEF L!Call, Doing
<1>4. L!Starting \notin Doing
    BY DEF L!Starting, Doing
<1> QED BY <1>1, <1>2, <1>3, <1>4 DEF CallFits

Others(c) == \A d \in L!Caller \ {c} : call'[d] = call[d]

LEMMA Becoming ==
    ASSUME L!TypeOK, NEW c \in L!Caller, NEW to \in L!Call, L!Becomes(c, to)
    PROVE  call' \in [L!Caller -> L!Call] /\ call'[c] = to /\ Others(c)
    BY CallKinds DEF L!Becomes, Others

\* What a call that ends, goes on or leaves has become.
LEMMA Moving ==
    ASSUME L!TypeOK, NEW c \in L!Caller, NEW at \in L!At, NEW st \in L!LiveStatus, call[c] \in Doing
    PROVE  /\ L!Ends(c) => call' \in [L!Caller -> L!Call] /\ call'[c] = L!Over /\ Others(c)
           /\ L!Goes(c, at) \/ L!Writes(c, at, st) =>
                 /\ call' \in [L!Caller -> L!Call] /\ Others(c)
                 /\ call'[c] \in Doing /\ call'[c].at = at
                 /\ call'[c].op = call[c].op /\ call'[c].id = call[c].id
<1>1. L!Over \in L!Call /\ Doing \subseteq L!Call
    BY CallKinds
<1>2. L!Ends(c) => call' \in [L!Caller -> L!Call] /\ call'[c] = L!Over /\ Others(c)
    BY <1>1, Becoming DEF L!Ends
<1>3. ASSUME L!Goes(c, at)
      PROVE  /\ call' \in [L!Caller -> L!Call] /\ Others(c)
             /\ call'[c] \in Doing /\ call'[c].at = at
             /\ call'[c].op = call[c].op /\ call'[c].id = call[c].id
  <2> DEFINE to == [call[c] EXCEPT !.at = at]
  <2>1. to \in Doing /\ to.at = at /\ to.op = call[c].op /\ to.id = call[c].id
    BY DEF Doing
  <2>2. L!Becomes(c, to)
    BY <1>3 DEF L!Goes
  <2> HIDE DEF to
  <2> QED BY <1>1, <2>1, <2>2, Becoming
<1>4. ASSUME L!Writes(c, at, st)
      PROVE  /\ call' \in [L!Caller -> L!Call] /\ Others(c)
             /\ call'[c] \in Doing /\ call'[c].at = at
             /\ call'[c].op = call[c].op /\ call'[c].id = call[c].id
  <2> DEFINE to == [call[c] EXCEPT !.at = at, !.st = st]
  <2>1. to \in Doing /\ to.at = at /\ to.op = call[c].op /\ to.id = call[c].id
    BY DEF Doing
  <2>2. L!Becomes(c, to)
    BY <1>4 DEF L!Writes
  <2> HIDE DEF to
  <2> QED BY <1>1, <2>1, <2>2, Becoming
<1> QED BY <1>2, <1>3, <1>4

-----------------------------------------------------------------------------
(***************************************************************************)
(* What lasts                                                              *)
(***************************************************************************)

\* A sandbox that has been asked for, is in use or has ended, stays so.
BoxLasts(r) ==
    /\ box[r] # "none" => box'[r] # "none"
    /\ box[r] = "ended" => box'[r] = "ended"
    /\ box[r] \in L!Usable => box'[r] \in L!Usable \cup {"ended"}

Lasts ==
    /\ active' => active
    /\ \A r \in LabRun : BoxLasts(r) /\ (row[r] # "absent" => row'[r] # "absent")

\* What a call knows lasts, if nobody asks for the sandbox it asks for.
LEMMA FitsLasts ==
    ASSUME L!TypeOK, NEW d \in L!Caller, CallFits(d), call'[d] = call[d], Lasts,
           call[d].at = "request" => box'[call[d].id] = box[call[d].id]
    PROVE  CallFits(d)'
<1>1. call[d].at \notin {"over", "insert"} => call[d].id \in LabRun
    BY CallKinds DEF Doing
<1> QED BY <1>1 DEF CallFits, Lasts, BoxLasts

\* The invariant after a step of one call.
LEMMA CallKeeps ==
    ASSUME RunsInv, L!TypeOK', NEW c \in L!Caller, Others(c), CallFits(c)', Lasts,
           \A r \in LabRun : box'[r] = box[r] \/ box[r] # "none"
                              \/ (call[c].at = "request" /\ call[c].id = r),
           call'[c].at = "request" => row[call'[c].id] = "absent",
           \A r \in LabRun : row'[r] = "bound" => row[r] = "bound" \/ box'[r] # "none",
           todo' \subseteq todo
    PROVE  RunsInv'
<1>1. \A d \in L!Caller : CallFits(d)
    BY DEF RunsInv
<1>2. ASSUME NEW d \in L!Caller PROVE CallFits(d)'
  <2>1. CASE d = c
    BY <2>1
  <2>2. CASE d # c
    <3>1. call'[d] = call[d]
      BY <2>2 DEF Others
    <3>2. call[d].at = "request" => box'[call[d].id] = box[call[d].id]
      <4> SUFFICES ASSUME call[d].at = "request" PROVE box'[call[d].id] = box[call[d].id]
        OBVIOUS
      <4>1. call[d].id \in LabRun /\ box[call[d].id] = "none"
        BY <1>1, CallKinds DEF RunsInv, CallFits, Doing
      <4>2. ~(call[c].at = "request" /\ call[c].id = call[d].id)
        BY <2>2 DEF RunsInv, AskedOnce
      <4> QED BY <4>1, <4>2
    <3> QED BY <1>1, <3>1, <3>2, FitsLasts DEF RunsInv
  <2> QED BY <2>1, <2>2
<1>3. AskedOnce'
  <2>1. ASSUME NEW d \in L!Caller, d # c, call'[d].at = "request", call'[c].at = "request"
        PROVE  call'[d].id # call'[c].id
    <3>1. call'[d] = call[d] /\ row[call[d].id] # "absent"
      BY <1>1, <2>1 DEF Others, CallFits
    <3> QED BY <2>1, <3>1
  <2>2. \A d, e \in L!Caller \ {c} :
           (call'[d].at = "request" /\ call'[e].at = "request" /\ call'[d].id = call'[e].id) => d = e
    BY DEF RunsInv, AskedOnce, Others
  <2> QED BY <2>1, <2>2 DEF AskedOnce
<1>4. RowsFit'
  <2>1. call[c].at = "request" => row[call[c].id] # "absent"
    BY <1>1 DEF CallFits
  <2>2. row \in [LabRun -> L!Row] /\ row' \in [LabRun -> L!Row]
    BY DEF RunsInv, L!TypeOK
  <2> QED BY <2>1, <2>2 DEF RunsInv, RowsFit, Lasts, BoxLasts
<1>5. TodoFits'
  <2>1. \A k \in todo : k.id \in LabRun
    BY DEF RunsInv, L!TypeOK
  <2> QED BY <2>1 DEF RunsInv, TodoFits, Lasts, BoxLasts
<1> QED BY <1>2, <1>3, <1>4, <1>5 DEF RunsInv

\* ... which leaves the rows, or moves the row of one run on.
LEMMA BoxKeeps ==
    ASSUME RunsInv, NEW c \in L!Caller, call' \in [L!Caller -> L!Call], Others(c), CallFits(c)',
           call'[c].at # "request", UNCHANGED <<row, active>>,
           mirror' \in [LabRun -> L!LiveStatus], box' \in [LabRun -> L!Box],
           \A r \in LabRun : /\ BoxLasts(r)
                             /\ box'[r] = box[r] \/ box[r] # "none"
                                   \/ (call[c].at = "request" /\ call[c].id = r),
           todo' \subseteq todo, calls' \in 0..MaxCalls, runFaults' \in 0..MaxFaults
    PROVE  RunsInv'
<1>1. L!TypeOK'
    BY DEF RunsInv, L!TypeOK, L!Current
<1> QED BY <1>1, CallKeeps DEF Lasts

LEMMA QuietKeeps ==
    ASSUME RunsInv, NEW c \in L!Caller, call' \in [L!Caller -> L!Call], Others(c), CallFits(c)',
           call'[c].at # "request", UNCHANGED <<row, mirror, box, active>>,
           todo' \subseteq todo, calls' \in 0..MaxCalls, runFaults' \in 0..MaxFaults
    PROVE  RunsInv'
<1>1. mirror' \in [LabRun -> L!LiveStatus] /\ box' \in [LabRun -> L!Box]
    BY DEF RunsInv, L!TypeOK
<1> QED BY <1>1, BoxKeeps DEF BoxLasts

LEMMA RowKeeps ==
    ASSUME RunsInv, NEW c \in L!Caller, call' \in [L!Caller -> L!Call], Others(c), CallFits(c)',
           call'[c].at # "request", UNCHANGED <<mirror, box, active, calls>>,
           NEW r \in LabRun,
           \/ UNCHANGED row
           \/ row[r] = "unbound" /\ box[r] # "none" /\ row' = [row EXCEPT ![r] = "bound"]
           \/ row[r] # "absent" /\ row' = [row EXCEPT ![r] = "gone"],
           todo' \subseteq todo, runFaults' \in 0..MaxFaults
    PROVE  RunsInv'
<1>0. row \in [LabRun -> L!Row]
    BY DEF RunsInv, L!TypeOK
<1>1. /\ row' \in [LabRun -> L!Row] /\ L!Current' \subseteq L!Current
      /\ \A s \in LabRun : row'[s] = "bound" => row[s] = "bound" \/ box'[s] # "none"
      /\ \A s \in LabRun : row[s] # "absent" => row'[s] # "absent"
    BY <1>0 DEF L!Row, L!Current
<1>2. L!TypeOK'
    BY <1>1 DEF RunsInv, L!TypeOK
<1> QED BY <1>1, <1>2, CallKeeps DEF Lasts, BoxLasts

\* Calls that are over, that only have a status to write, or that go.
LEMMA OverFits ==
    ASSUME NEW c \in L!Caller, call'[c] \in {L!Over, L!Starting}
    PROVE  CallFits(c)' /\ call'[c].at # "request"
<1>1. CASE call'[c] = L!Over
  <2>1. call'[c].at = "over"
    BY <1>1 DEF L!Over
  <2> QED BY <2>1 DEF CallFits
<1>2. CASE call'[c] = L!Starting
  <2>1. call'[c].at = "insert"
    BY <1>2 DEF L!Starting
  <2> QED BY <1>2, <2>1 DEF CallFits
<1> QED BY <1>1, <1>2

LEMMA GoingFits ==
    ASSUME NEW c \in L!Caller,
           \/ call'[c].at = "update"
           \/ call'[c].at = "get" /\ call'[c].op # "starting"
           \/ call'[c].at = "undo" /\ call'[c].op = "starting"
           \/ /\ call'[c].at = "delete" /\ call'[c].op # "starting"
              /\ call'[c].op = "release" \/ box'[call'[c].id] = "ended" \/ ~active'
    PROVE  CallFits(c)' /\ call'[c].at # "request"
    BY DEF CallFits

\* sync() ends the call, writes a status, or leaves because of what has ended.
LEMMA SyncFits ==
    ASSUME RunsInv, NEW c \in L!Caller, call[c] \in Doing, NEW seen, NEW ans, L!Sync(c, seen, ans),
           ans = "ended" => box'[call[c].id] = "ended" /\ call[c].op # "starting"
    PROVE  call' \in [L!Caller -> L!Call] /\ Others(c) /\ CallFits(c)' /\ call'[c].at # "request"
<1>0. "update" \in L!At /\ "delete" \in L!At /\ "PENDING" \in L!LiveStatus /\ L!TypeOK
    BY DEF L!At, L!LiveStatus, RunsInv
<1>1. CASE ans = "ended" /\ L!Leaves(c, "delete")
  <2>1. L!Writes(c, "delete", "PENDING")
    BY <1>1 DEF L!Leaves
  <2>2. /\ call' \in [L!Caller -> L!Call] /\ Others(c) /\ call'[c].at = "delete"
        /\ call'[c].op = call[c].op /\ call'[c].id = call[c].id
    BY <1>0, <2>1, Moving
  <2> QED BY <1>1, <2>2, GoingFits
<1>2. CASE L!Ends(c)
    BY <1>0, <1>2, Moving, OverFits
<1>3. CASE ans \in L!LiveStatus /\ L!Writes(c, "update", ans)
  <2>1. /\ call' \in [L!Caller -> L!Call] /\ Others(c) /\ call'[c].at = "update"
    BY <1>0, <1>3, Moving
  <2> QED BY <2>1, GoingFits
<1> QED BY <1>1, <1>2, <1>3 DEF L!Sync

-----------------------------------------------------------------------------
(***************************************************************************)
(* Steps                                                                   *)
(***************************************************************************)

LEMMA FaultCounts ==
    ASSUME L!LabRunsAssumption, L!TypeOK
    PROVE  /\ L!Fault => runFaults' \in 0..MaxFaults
           /\ UNCHANGED runFaults => runFaults' \in 0..MaxFaults
           /\ UNCHANGED calls => calls' \in 0..MaxCalls
           /\ (calls < MaxCalls /\ calls' = calls + 1) => calls' \in 0..MaxCalls
    BY DEF L!LabRunsAssumption, L!TypeOK, L!Fault

LEMMA BeginKeeps ==
    ASSUME L!LabRunsAssumption, RunsInv, NEW c \in Calls, L!Begin(c)
    PROVE  RunsInv'
<1>0. /\ L!TypeOK /\ c \in L!Caller
      /\ UNCHANGED <<row, mirror, box, active, todo, runFaults>>
      /\ calls' \in 0..MaxCalls /\ runFaults' \in 0..MaxFaults
    BY FaultCounts DEF RunsInv, L!Begin
<1>1. CASE L!Becomes(c, L!Starting)
  <2>1. call' \in [L!Caller -> L!Call] /\ call'[c] = L!Starting /\ Others(c)
    BY <1>0, <1>1, CallKinds, Becoming
  <2> QED BY <1>0, <2>1, OverFits, QuietKeeps
<1>2. ASSUME NEW r \in L!Current, NEW to, L!Becomes(c, to),
             \/ \E op \in {"start", "status", "use"} : to = L!Reading(op, "get", r)
             \/ to = L!Reading("claim", "beat", r) /\ box[r] \in L!Usable \cup {"ended"}
             \/ to = [op |-> "release", id |-> r, st |-> "PENDING",
                      at |-> IF row[r] = "bound" THEN "release" ELSE "delete"]
             \/ to = L!Reading("use", "beat", r)
      PROVE  RunsInv'
  <2>0. mirror[r] \in L!LiveStatus /\ r \in LabRun /\ (row[r] = "bound" => box[r] # "none")
    BY <1>0 DEF L!TypeOK, L!Current, RunsInv, RowsFit
  <2>1. to \in Doing
    BY <1>2, <2>0 DEF Doing, L!Reading, L!Op, L!At, L!LiveStatus
  <2>2. call' \in [L!Caller -> L!Call] /\ call'[c] = to /\ Others(c)
    BY <1>0, <1>2, <2>1, CallKinds, Becoming
  <2>3. CallFits(c)' /\ to.at # "request"
    <3>1. CASE \E op \in {"start", "status", "use"} : to = L!Reading(op, "get", r)
      BY <2>2, <3>1, GoingFits DEF L!Reading
    <3>2. CASE to = L!Reading("claim", "beat", r) /\ box[r] \in L!Usable \cup {"ended"}
      BY <1>0, <2>2, <3>2 DEF L!Reading, CallFits
    <3>3. CASE to = [op |-> "release", id |-> r, st |-> "PENDING",
                     at |-> IF row[r] = "bound" THEN "release" ELSE "delete"]
      BY <1>0, <2>0, <2>2, <3>3 DEF CallFits
    <3>4. CASE to = L!Reading("use", "beat", r)
      BY <2>2, <3>4 DEF L!Reading, CallFits
    <3> QED BY <1>2, <3>1, <3>2, <3>3, <3>4
  <2> QED BY <1>0, <2>2, <2>3, QuietKeeps
<1> QED BY <1>1, <1>2 DEF L!Begin

LEMMA InsertKeeps ==
    ASSUME L!LabRunsAssumption, RunsInv, NEW c \in L!Caller, L!Insert(c)
    PROVE  RunsInv'
<1>0. /\ L!TypeOK /\ call[c] = L!Starting
      /\ UNCHANGED <<box, active, todo, calls, runFaults>>
      /\ calls' \in 0..MaxCalls /\ runFaults' \in 0..MaxFaults
    BY FaultCounts DEF RunsInv, L!Insert, CallFits
<1>1. CASE L!Ends(c) /\ UNCHANGED <<row, mirror>>
  <2>1. call' \in [L!Caller -> L!Call] /\ call'[c] = L!Over /\ Others(c)
    BY <1>0, <1>1, CallKinds, Becoming DEF L!Ends
  <2> QED BY <1>0, <1>1, <2>1, OverFits, QuietKeeps
<1>2. ASSUME L!Current = {}, NEW r \in LabRun, row[r] = "absent", row' = [row EXCEPT ![r] = "unbound"],
             mirror' = [mirror EXCEPT ![r] = "PENDING"], L!Becomes(c, L!Inserted(r))
      PROVE  RunsInv'
  <2>1. L!Inserted(r) \in Doing
    BY DEF L!Inserted, Doing, L!Op, L!At, L!LiveStatus
  <2>2. call' \in [L!Caller -> L!Call] /\ call'[c] = L!Inserted(r) /\ Others(c)
    BY <1>0, <1>2, <2>1, CallKinds, Becoming
  <2>3. row \in [LabRun -> L!Row] /\ mirror \in [LabRun -> L!LiveStatus] /\ box[r] = "none"
    BY <1>0, <1>2 DEF L!TypeOK, RunsInv, RowsFit
  <2>4. /\ row' \in [LabRun -> L!Row] /\ mirror' \in [LabRun -> L!LiveStatus]
        /\ L!Current' = {r}
    BY <1>2, <2>3 DEF L!Row, L!LiveStatus, L!Current
  <2>5. L!TypeOK'
    BY <1>0, <2>2, <2>4 DEF L!TypeOK
  <2>6. CallFits(c)'
    BY <1>0, <1>2, <2>2, <2>3 DEF CallFits, L!Inserted
  <2>7. Lasts /\ \A s \in LabRun : row'[s] = "bound" => row[s] = "bound"
    BY <1>0, <1>2, <2>3 DEF Lasts, BoxLasts
  <2>8. call'[c].id = r
    BY <2>2 DEF L!Inserted
  <2> QED BY <1>0, <1>2, <2>2, <2>5, <2>6, <2>7, <2>8, CallKeeps
<1> QED BY <1>1, <1>2 DEF L!Insert

\* A call that asks for, claims or uses a sandbox.
LEMMA Asking ==
    ASSUME RunsInv, NEW c \in L!Caller, call[c].at \notin {"over", "insert"}
    PROVE  call[c] \in Doing /\ call[c].id \in LabRun /\ call[c].st \in L!LiveStatus /\ CallFits(c) /\ L!TypeOK
    BY CallKinds DEF RunsInv, Doing

\* leaves(): to the deletion of the run, or to undo its start.
LEMMA LeavesFits ==
    ASSUME RunsInv, NEW c \in L!Caller, call[c].at \notin {"over", "insert"},
           NEW at \in {"delete", "undo"}, L!Leaves(c, at),
           at = "undo" => call[c].op = "starting",
           at = "delete" => /\ call[c].op # "starting"
                            /\ call[c].op = "release" \/ box'[call[c].id] = "ended" \/ ~active'
    PROVE  /\ call' \in [L!Caller -> L!Call] /\ Others(c) /\ CallFits(c)' /\ call'[c].at # "request"
           /\ call'[c].op = call[c].op /\ call'[c].id = call[c].id
<1>1. L!Writes(c, at, "PENDING") /\ at \in L!At /\ "PENDING" \in L!LiveStatus
    BY DEF L!Leaves, L!At, L!LiveStatus
<1>2. /\ call' \in [L!Caller -> L!Call] /\ Others(c) /\ call'[c].at = at
      /\ call'[c].op = call[c].op /\ call'[c].id = call[c].id
    BY <1>1, Asking, Moving
<1> QED BY <1>2, GoingFits

LEMMA EndsFits ==
    ASSUME RunsInv, NEW c \in L!Caller, L!Ends(c)
    PROVE  call' \in [L!Caller -> L!Call] /\ Others(c) /\ CallFits(c)' /\ call'[c].at # "request"
<1>1. call' \in [L!Caller -> L!Call] /\ call'[c] = L!Over /\ Others(c)
    BY CallKinds, Becoming DEF L!Ends, RunsInv
<1> QED BY <1>1, OverFits

LEMMA RequestKeeps ==
    ASSUME L!LabRunsAssumption, RunsInv, NEW c \in L!Caller, L!Request(c)
    PROVE  RunsInv'
<1> DEFINE r == call[c].id
<1>0. /\ call[c].at = "request" /\ call[c].op = "starting" /\ r \in LabRun /\ call[c] \in Doing /\ L!TypeOK
      /\ UNCHANGED <<row, mirror, active, todo, calls, runFaults>>
      /\ calls' \in 0..MaxCalls /\ runFaults' \in 0..MaxFaults
      /\ box[r] = "none"
    BY Asking, FaultCounts DEF L!Request, CallFits
<1>1. CASE L!Leaves(c, "undo") /\ UNCHANGED box
    BY <1>0, <1>1, LeavesFits, QuietKeeps
<1>2. ASSUME NEW st \in {"PENDING", "PROVISIONING"}, box' = [box EXCEPT ![r] = st], L!Writes(c, "bind", st)
      PROVE  RunsInv'
  <2>1. /\ call' \in [L!Caller -> L!Call] /\ Others(c) /\ call'[c].at = "bind"
        /\ call'[c].op = "starting" /\ call'[c].id = r
    BY <1>0, <1>2, Moving DEF L!At, L!LiveStatus
  <2>2. box \in [LabRun -> L!Box] /\ mirror' \in [LabRun -> L!LiveStatus]
    BY <1>0 DEF L!TypeOK
  <2>3. /\ box' \in [LabRun -> L!Box] /\ box'[r] # "none"
        /\ \A s \in LabRun : s # r => box'[s] = box[s]
    BY <1>0, <1>2, <2>2 DEF L!Box, L!LiveStatus
  <2>4. CallFits(c)'
    BY <2>1, <2>3 DEF CallFits
  <2>5. \A s \in LabRun : BoxLasts(s)
    BY <1>0, <2>3 DEF BoxLasts, L!Usable
  <2> HIDE DEF r
  <2> QED BY <1>0, <2>1, <2>2, <2>3, <2>4, <2>5, BoxKeeps DEF r
<1> QED BY <1>1, <1>2 DEF L!Request

LEMMA BindKeeps ==
    ASSUME L!LabRunsAssumption, RunsInv, NEW c \in L!Caller, L!Bind(c)
    PROVE  RunsInv'
<1> DEFINE r == call[c].id
<1>0. /\ call[c].at = "bind" /\ call[c].op = "starting" /\ r \in LabRun /\ call[c] \in Doing /\ L!TypeOK
      /\ UNCHANGED <<mirror, box, active, todo, calls, runFaults>>
      /\ runFaults' \in 0..MaxFaults
      /\ box[r] # "none" /\ call[c].st # "ended"
    BY Asking, FaultCounts DEF L!Bind, CallFits, L!LiveStatus
<1>1. CASE row[r] = "unbound" /\ row' = [row EXCEPT ![r] = "bound"] /\ L!Sync(c, mirror[r], call[c].st)
  <2>1. call' \in [L!Caller -> L!Call] /\ Others(c) /\ CallFits(c)' /\ call'[c].at # "request"
    BY <1>0, <1>1, SyncFits
  <2> QED BY <1>0, <1>1, <2>1, RowKeeps
<1>2. CASE UNCHANGED row /\ L!Leaves(c, "undo")
  <2>1. call' \in [L!Caller -> L!Call] /\ Others(c) /\ CallFits(c)' /\ call'[c].at # "request"
    BY <1>0, <1>2, LeavesFits
  <2> QED BY <1>0, <1>2, <2>1, RowKeeps
<1> QED BY <1>1, <1>2 DEF L!Bind

LEMMA GetKeeps ==
    ASSUME L!LabRunsAssumption, RunsInv, NEW c \in L!Caller, L!Get(c)
    PROVE  RunsInv'
<1>0. /\ call[c].at = "get" /\ call[c].op # "starting" /\ call[c] \in Doing /\ L!TypeOK
      /\ UNCHANGED <<row, mirror, box, active, todo, calls, runFaults>>
      /\ calls' \in 0..MaxCalls /\ runFaults' \in 0..MaxFaults
    BY Asking, FaultCounts DEF L!Get, CallFits
<1>1. call' \in [L!Caller -> L!Call] /\ Others(c) /\ CallFits(c)' /\ call'[c].at # "request"
  <2>1. CASE L!Sync(c, call[c].st, box[call[c].id])
    BY <1>0, <2>1, SyncFits
  <2>2. CASE L!Ends(c)
    BY <2>2, EndsFits
  <2>3. CASE box[call[c].id] = "ended" /\ L!Leaves(c, "delete")
    BY <1>0, <2>3, LeavesFits
  <2>4. CASE call[c].op = "use" /\ L!Goes(c, "beat")
    <3>1. /\ call' \in [L!Caller -> L!Call] /\ Others(c) /\ call'[c].at = "beat"
          /\ call'[c].op = "use"
      BY <1>0, <2>4, Moving DEF L!At, L!LiveStatus
    <3> QED BY <3>1 DEF CallFits
  <2> QED BY <2>1, <2>2, <2>3, <2>4 DEF L!Get
<1> QED BY <1>0, <1>1, QuietKeeps

\* A heartbeat and a release leave a sandbox in use in use, or end it.
LEMMA BeatLasts ==
    ASSUME L!TypeOK, NEW r \in LabRun,
           \/ box' = [box EXCEPT ![r] = IF @ = "READY" THEN "ACTIVE" ELSE @]
           \/ box[r] # "none" /\ box' = [box EXCEPT ![r] = "ended"]
           \/ box' = box
    PROVE  /\ box' \in [LabRun -> L!Box]
           /\ \A s \in LabRun : BoxLasts(s) /\ (box'[s] = box[s] \/ box[s] # "none")
<1>1. box \in [LabRun -> L!Box]
    BY DEF L!TypeOK
<1>2. \A s \in LabRun \ {r} : box'[s] = box[s]
    BY <1>1
<1>3. box'[r] = box[r] \/ (box[r] = "READY" /\ box'[r] = "ACTIVE")
                       \/ (box[r] # "none" /\ box'[r] = "ended")
    BY <1>1
<1>4. box' \in [LabRun -> L!Box]
    BY <1>1 DEF L!Box, L!LiveStatus
<1> QED BY <1>2, <1>3, <1>4 DEF BoxLasts, L!Usable

LEMMA BeatKeeps ==
    ASSUME L!LabRunsAssumption, RunsInv, NEW c \in L!Caller, L!Beat(c)
    PROVE  RunsInv'
<1> DEFINE r == call[c].id
<1>0. /\ call[c].at = "beat" /\ call[c].op # "starting" /\ r \in LabRun /\ call[c] \in Doing /\ L!TypeOK
      /\ UNCHANGED <<row, mirror, active, todo, calls, runFaults>>
      /\ mirror' \in [LabRun -> L!LiveStatus]
      /\ calls' \in 0..MaxCalls /\ runFaults' \in 0..MaxFaults
      /\ call[c].op = "claim" => box[r] \in L!Usable \cup {"ended"}
    BY Asking, FaultCounts DEF L!Beat, CallFits, L!TypeOK
<1>1. /\ box' \in [LabRun -> L!Box]
      /\ \A s \in LabRun : BoxLasts(s) /\ (box'[s] = box[s] \/ box[s] # "none")
    BY <1>0, BeatLasts DEF L!Beat
<1>2. call' \in [L!Caller -> L!Call] /\ Others(c) /\ CallFits(c)' /\ call'[c].at # "request"
  <2>1. CASE L!Ends(c)
    BY <2>1, EndsFits
  <2>2. CASE L!Sync(c, call[c].st, "ACTIVE")
    BY <1>0, <2>2, SyncFits
  <2>3. CASE box[r] = "ended" /\ L!Leaves(c, "delete")
    <3>1. box'[r] = "ended"
      BY <1>0, <1>1, <2>3 DEF BoxLasts
    <3> QED BY <1>0, <2>3, <3>1, LeavesFits
  <2> QED BY <1>0, <2>1, <2>2, <2>3 DEF L!Beat
<1> HIDE DEF r
<1> QED BY <1>0, <1>1, <1>2, BoxKeeps

LEMMA UpdateKeeps ==
    ASSUME L!LabRunsAssumption, RunsInv, NEW c \in L!Caller, L!Update(c)
    PROVE  RunsInv'
<1>0. /\ call[c].at = "update" /\ call[c].id \in LabRun /\ call[c].st \in L!LiveStatus /\ L!TypeOK
      /\ UNCHANGED <<row, box, active, todo, calls, runFaults>>
      /\ calls' \in 0..MaxCalls /\ runFaults' \in 0..MaxFaults
    BY Asking, FaultCounts DEF L!Update
<1>1. mirror' \in [LabRun -> L!LiveStatus] /\ box' \in [LabRun -> L!Box] /\ \A s \in LabRun : BoxLasts(s)
    BY <1>0 DEF L!Update, L!TypeOK, BoxLasts
<1>2. call' \in [L!Caller -> L!Call] /\ Others(c) /\ CallFits(c)' /\ call'[c].at # "request"
  <2>1. CASE L!Ends(c)
    BY <2>1, EndsFits
  <2>2. CASE call[c].op = "starting" /\ L!Leaves(c, "undo")
    BY <1>0, <2>2, LeavesFits
  <2> QED BY <2>1, <2>2 DEF L!Update
<1> QED BY <1>0, <1>1, <1>2, BoxKeeps

LEMMA ReleaseKeeps ==
    ASSUME L!LabRunsAssumption, RunsInv, NEW c \in L!Caller, L!Release(c)
    PROVE  RunsInv'
<1>0. /\ call[c].at = "release" /\ call[c].op # "starting" /\ call[c].id \in LabRun /\ L!TypeOK
      /\ UNCHANGED <<row, mirror, active, todo, calls, runFaults>>
      /\ mirror' \in [LabRun -> L!LiveStatus]
      /\ calls' \in 0..MaxCalls /\ runFaults' \in 0..MaxFaults
      /\ box[call[c].id] # "none" /\ (call[c].op = "release" \/ ~active)
    BY Asking, FaultCounts DEF L!Release, CallFits, L!TypeOK
<1>1. /\ box' \in [LabRun -> L!Box]
      /\ \A s \in LabRun : BoxLasts(s) /\ (box'[s] = box[s] \/ box[s] # "none")
    BY <1>0, BeatLasts DEF L!Release
<1>2. call' \in [L!Caller -> L!Call] /\ Others(c) /\ CallFits(c)' /\ call'[c].at # "request"
  <2>1. L!Leaves(c, "delete") /\ (call[c].op = "release" \/ ~active')
    BY <1>0 DEF L!Release
  <2> QED BY <1>0, <2>1, LeavesFits
<1> QED BY <1>0, <1>1, <1>2, BoxKeeps

LEMMA AfterFinishFits ==
    ASSUME RunsInv, NEW c \in L!Caller, L!AfterFinish(c)
    PROVE  call' \in [L!Caller -> L!Call] /\ Others(c) /\ CallFits(c)' /\ call'[c].at # "request"
<1>1. CASE L!Becomes(c, L!Starting)
  <2>1. call' \in [L!Caller -> L!Call] /\ call'[c] = L!Starting /\ Others(c)
    BY <1>1, CallKinds, Becoming DEF RunsInv
  <2> QED BY <2>1, OverFits
<1> QED BY <1>1, EndsFits DEF L!AfterFinish

LEMMA RemovalKeeps ==
    ASSUME L!LabRunsAssumption, RunsInv, NEW c \in L!Caller, L!Delete(c) \/ L!Undo(c)
    PROVE  RunsInv'
<1>0. /\ call[c].id \in LabRun /\ L!TypeOK
      /\ UNCHANGED <<mirror, box, active, todo, calls, runFaults>>
      /\ runFaults' \in 0..MaxFaults
      /\ L!Remove(call[c].id)
    BY Asking, FaultCounts DEF L!Delete, L!Undo
<1>1. UNCHANGED row \/ (row[call[c].id] # "absent" /\ row' = [row EXCEPT ![call[c].id] = "gone"])
    BY <1>0 DEF L!Remove, L!Current, L!TypeOK
<1>2. call' \in [L!Caller -> L!Call] /\ Others(c) /\ CallFits(c)' /\ call'[c].at # "request"
    BY AfterFinishFits, EndsFits DEF L!Delete, L!Undo
<1> QED BY <1>0, <1>1, <1>2, RowKeeps

\* A step that fails is a step that has not been made, or one that has.
LEMMA FaultKeeps ==
    ASSUME L!LabRunsAssumption, RunsInv, NEW c \in L!Caller, L!CallFault(c)
    PROVE  RunsInv'
<1> DEFINE r == call[c].id
           at == call[c].at
<1>0. /\ UNCHANGED <<active, calls>> /\ todo' \subseteq todo /\ L!TypeOK
      /\ calls' \in 0..MaxCalls /\ runFaults' \in 0..MaxFaults
    BY FaultCounts DEF L!CallFault, RunsInv
<1>1. CASE at = "insert"
  <2>1. /\ call' \in [L!Caller -> L!Call] /\ Others(c) /\ CallFits(c)' /\ call'[c].at # "request"
        /\ UNCHANGED <<mirror, box>>
    BY <1>1, EndsFits DEF L!CallFault
  <2>2. CASE UNCHANGED row
    BY <1>0, <2>1, <2>2, QuietKeeps
  <2>3. ASSUME L!Current = {}, NEW s \in LabRun, row[s] = "absent", row' = [row EXCEPT ![s] = "unbound"]
        PROVE  RunsInv'
    <3>1. row \in [LabRun -> L!Row]
      BY <1>0 DEF L!TypeOK
    <3>2. row' \in [LabRun -> L!Row] /\ L!Current' = {s}
      BY <2>3, <3>1 DEF L!Row, L!Current
    <3>3. L!TypeOK'
      BY <1>0, <2>1, <3>2 DEF L!TypeOK
    <3>4. Lasts /\ \A q \in LabRun : row'[q] = "bound" => row[q] = "bound"
      BY <1>0, <2>1, <2>3, <3>1 DEF Lasts, BoxLasts
    <3> QED BY <1>0, <2>1, <3>3, <3>4, CallKeeps
  <2> QED BY <1>1, <2>2, <2>3 DEF L!CallFault
<1>2. CASE at \notin {"insert", "over"}
  <2>0. /\ r \in LabRun /\ call[c] \in Doing /\ call[c].st \in L!LiveStatus /\ CallFits(c)
        /\ mirror \in [LabRun -> L!LiveStatus]
    BY <1>2, Asking DEF L!TypeOK
  <2>1. CASE at \in {"delete", "undo"}
    <3>1. L!AfterFinish(c) \/ L!Ends(c)
      BY <2>1 DEF L!CallFault
    <3>2. UNCHANGED <<row, mirror, box>>
      BY <2>1 DEF L!CallFault
    <3> QED BY <1>0, <3>1, <3>2, AfterFinishFits, EndsFits, QuietKeeps
  <2>2. CASE at = "release"
    <3>1. L!Leaves(c, "delete") /\ UNCHANGED <<row, mirror, box>>
      BY <2>2 DEF L!CallFault
    <3>2. call[c].op = "release" \/ (call[c].op = "watch" /\ ~active')
      BY <1>0, <2>0, <2>2 DEF CallFits
    <3>3. call' \in [L!Caller -> L!Call] /\ Others(c) /\ CallFits(c)' /\ call'[c].at # "request"
      BY <1>2, <3>1, <3>2, LeavesFits
    <3> QED BY <1>0, <3>1, <3>3, QuietKeeps
  <2>3. CASE at \in {"request", "bind", "get", "beat", "update"}
    <3>1. \/ call[c].op = "starting" /\ L!Leaves(c, "undo")
          \/ L!Ends(c)
      BY <2>3 DEF L!CallFault
    <3>2. call' \in [L!Caller -> L!Call] /\ Others(c) /\ CallFits(c)' /\ call'[c].at # "request"
      <4>1. CASE call[c].op = "starting" /\ L!Leaves(c, "undo")
        BY <1>2, <4>1, LeavesFits
      <4> QED BY <3>1, <4>1, EndsFits
    <3>3. CASE at = "bind"
      <4>1. UNCHANGED <<mirror, box>> /\ box[r] # "none"
        BY <2>0, <3>3 DEF L!CallFault, CallFits
      <4>2. UNCHANGED row \/ (row[r] = "unbound" /\ row' = [row EXCEPT ![r] = "bound"])
        <5>1. row' \in {row, [row EXCEPT ![r] = IF @ = "unbound" THEN "bound" ELSE @]}
          BY <3>3 DEF L!CallFault
        <5>2. row \in [LabRun -> L!Row]
          BY <1>0 DEF L!TypeOK
        <5>3. row[r] # "unbound" => [row EXCEPT ![r] = IF @ = "unbound" THEN "bound" ELSE @] = row
          BY <5>2
        <5> QED BY <5>1, <5>3
      <4> HIDE DEF r
      <4> QED BY <1>0, <2>0, <3>2, <4>1, <4>2, RowKeeps
    <3>4. CASE at # "bind"
      <4>1. UNCHANGED row
        BY <2>3, <3>4 DEF L!CallFault
      <4>2. mirror' \in [LabRun -> L!LiveStatus]
        <5>1. \/ UNCHANGED mirror
              \/ mirror' = [mirror EXCEPT ![r] = IF r \in L!Current THEN call[c].st ELSE @]
          BY <2>3, <3>4 DEF L!CallFault
        <5> QED BY <2>0, <5>1
      <4>3. /\ box' \in [LabRun -> L!Box]
            /\ \A s \in LabRun : /\ BoxLasts(s)
                                 /\ box'[s] = box[s] \/ box[s] # "none" \/ (at = "request" /\ s = r)
        <5>1. CASE at = "request"
          <6>1. box' \in {box, [box EXCEPT ![r] = "PENDING"]} /\ box[r] = "none"
            BY <2>0, <5>1 DEF L!CallFault, CallFits
          <6>2. box \in [LabRun -> L!Box]
            BY <1>0 DEF L!TypeOK
          <6>3. box' \in [LabRun -> L!Box] /\ (\A s \in LabRun : s # r => box'[s] = box[s])
            BY <6>1, <6>2 DEF L!Box, L!LiveStatus
          <6> QED BY <5>1, <6>1, <6>3 DEF BoxLasts, L!Usable
        <5>2. CASE at # "request"
          <6>1. \/ UNCHANGED box
                \/ box' = [box EXCEPT ![r] = IF @ = "READY" THEN "ACTIVE" ELSE @]
            BY <2>3, <3>4, <5>2 DEF L!CallFault
          <6> QED BY <1>0, <2>0, <6>1, BeatLasts
        <5> QED BY <5>1, <5>2
      <4> HIDE DEF r
      <4> QED BY <1>0, <2>0, <3>2, <4>1, <4>2, <4>3, BoxKeeps DEF r
    <3> QED BY <3>3, <3>4
  <2> QED BY <1>2, <2>1, <2>2, <2>3 DEF L!CallFault
<1>3. at # "over"
    BY DEF L!CallFault
<1> QED BY <1>1, <1>2, <1>3

\* The watcher reads the rows the manager has accepted, and takes them one by
\* one.
LEMMA WatchingKeeps ==
    ASSUME L!LabRunsAssumption, RunsInv, L!Watching
    PROVE  RunsInv'
<1>0. /\ L!TypeOK /\ "watcher" \in L!Caller
      /\ UNCHANGED <<row, mirror, box, active, calls, runFaults>>
      /\ calls' \in 0..MaxCalls /\ runFaults' \in 0..MaxFaults
    BY FaultCounts DEF L!Watching, L!Tick, L!Watch, RunsInv
<1>1. CASE L!Tick
  <2>1. todo' = {[id |-> r, st |-> mirror[r], over |-> ~active] : r \in {s \in LabRun : row[s] = "bound"}}
    BY <1>1 DEF L!Tick
  <2>2. \A k \in todo' : /\ k.id \in LabRun /\ row[k.id] = "bound" /\ k.over = ~active
                         /\ k \in [id : LabRun, st : L!LiveStatus, over : BOOLEAN]
    <3> SUFFICES ASSUME NEW r \in LabRun, row[r] = "bound",
                        NEW k, k = [id |-> r, st |-> mirror[r], over |-> ~active]
                 PROVE  /\ k.id \in LabRun /\ row[k.id] = "bound" /\ k.over = ~active
                        /\ k \in [id : LabRun, st : L!LiveStatus, over : BOOLEAN]
      BY <2>1, Zenon
    <3>1. mirror[r] \in L!LiveStatus
      BY <1>0 DEF L!TypeOK
    <3> QED BY <3>1
  <2>3. L!TypeOK' /\ UNCHANGED call
    BY <1>0, <1>1, <2>2 DEF L!TypeOK, L!Current, L!Tick
  <2>4. TodoFits'
    BY <1>0, <2>2 DEF RunsInv, RowsFit, TodoFits
  <2> QED BY <1>0, <2>3, <2>4 DEF RunsInv, CallFits, AskedOnce, RowsFit
<1>2. ASSUME NEW k \in todo, L!Watch(k) PROVE RunsInv'
  <2> DEFINE to == [op |-> "watch", at |-> IF k.over THEN "release" ELSE "get",
                    id |-> k.id, st |-> k.st]
  <2>1. to \in Doing
    BY <1>0 DEF Doing, L!Op, L!At, L!TypeOK
  <2>2. call' \in [L!Caller -> L!Call] /\ call'["watcher"] = to /\ Others("watcher")
    <3>1. L!Becomes("watcher", to)
      BY <1>2 DEF L!Watch
    <3>2. to \in L!Call
      BY <1>0, <2>1, CallKinds
    <3> HIDE DEF to
    <3> QED BY <1>0, <3>1, <3>2, Becoming
  <2>3. box[k.id] # "none" /\ (k.over => ~active)
    BY DEF RunsInv, TodoFits
  <2>4. CallFits("watcher")' /\ call'["watcher"].at # "request"
    BY <1>0, <2>2, <2>3 DEF CallFits
  <2>5. todo' \subseteq todo
    BY <1>2 DEF L!Watch
  <2> QED BY <1>0, <2>2, <2>4, <2>5, QuietKeeps
<1> QED BY <1>1, <1>2 DEF L!Watching

LEMMA EnvironmentKeeps ==
    ASSUME L!LabRunsAssumption, RunsInv, (\E r \in LabRun : L!ManagerMoves(r)) \/ L!SessionEnds \/ L!Crash
    PROVE  RunsInv'
<1>0. L!TypeOK
    BY DEF RunsInv
<1>1. ASSUME NEW r \in LabRun, L!ManagerMoves(r) PROVE RunsInv'
  <2>0. UNCHANGED <<row, mirror, active, call, todo, calls, runFaults>> /\ box \in [LabRun -> L!Box]
    BY <1>0, <1>1 DEF L!ManagerMoves, L!TypeOK
  <2>1. /\ box' \in [LabRun -> L!Box]
        /\ \A s \in LabRun : BoxLasts(s) /\ (box'[s] = box[s] \/ box[s] # "none")
    <3>1. \A s \in LabRun \ {r} : box'[s] = box[s]
      BY <1>1, <2>0 DEF L!ManagerMoves
    <3>2. \/ box[r] = "PENDING" /\ box'[r] = "PROVISIONING"
          \/ box[r] = "PROVISIONING" /\ box'[r] = "READY"
          \/ box[r] \in L!LiveStatus /\ box'[r] = "ended"
      BY <1>1, <2>0 DEF L!ManagerMoves
    <3>3. box' \in [LabRun -> L!Box]
      BY <1>1, <2>0 DEF L!ManagerMoves, L!Box, L!LiveStatus
    <3> QED BY <3>1, <3>2, <3>3 DEF BoxLasts, L!Usable, L!LiveStatus
  <2>2. L!TypeOK'
    BY <1>0, <2>0, <2>1 DEF L!TypeOK, L!Current
  <2>3. Lasts
    BY <2>0, <2>1 DEF Lasts
  <2>4. ASSUME NEW d \in L!Caller PROVE CallFits(d)'
    <3>1. call[d].at = "request" => call[d].id \in LabRun /\ box[call[d].id] = "none"
      BY <1>0, CallKinds DEF RunsInv, CallFits, Doing
    <3>2. call[d].at = "request" => box'[call[d].id] = box[call[d].id]
      BY <2>1, <3>1
    <3> QED BY <1>0, <2>0, <2>3, <3>2, FitsLasts DEF RunsInv
  <2>5. AskedOnce'
    BY <2>0 DEF RunsInv, AskedOnce
  <2>6. RowsFit'
    BY <2>0, <2>1 DEF RunsInv, RowsFit, BoxLasts
  <2>7. TodoFits'
    BY <1>0, <2>0, <2>1 DEF RunsInv, TodoFits, BoxLasts, L!TypeOK
  <2> QED BY <2>2, <2>4, <2>5, <2>6, <2>7 DEF RunsInv
<1>2. CASE L!SessionEnds
  <2>1. UNCHANGED <<row, mirror, box, call, todo, calls, runFaults>> /\ active' = FALSE
    BY <1>2 DEF L!SessionEnds
  <2>2. L!TypeOK'
    BY <1>0, <2>1 DEF L!TypeOK, L!Current
  <2> QED BY <2>1, <2>2 DEF RunsInv, CallFits, AskedOnce, RowsFit, TodoFits
<1>3. CASE L!Crash
  <2>1. /\ UNCHANGED <<row, mirror, box, active, calls>> /\ todo' = {}
        /\ call' = [c \in L!Caller |-> L!Over] /\ runFaults' \in 0..MaxFaults
    BY <1>0, <1>3, FaultCounts DEF L!Crash
  <2>2. L!TypeOK'
    BY <1>0, <2>1 DEF L!TypeOK, L!Current, L!Call
  <2>3. \A c \in L!Caller : call'[c] = L!Over /\ call'[c].at = "over"
    BY <2>1 DEF L!Over
  <2>4. \A c \in L!Caller : CallFits(c)'
    BY <2>3, OverFits
  <2> QED BY <2>1, <2>2, <2>3, <2>4 DEF RunsInv, AskedOnce, RowsFit, TodoFits
<1> QED BY <1>1, <1>2, <1>3

LEMMA StepKeeps ==
    ASSUME L!LabRunsAssumption, RunsInv, [L!Next]_L!vars
    PROVE  RunsInv'
<1>1. CASE UNCHANGED L!vars
    BY <1>1 DEF L!vars, RunsInv, L!TypeOK, L!Current, CallFits, AskedOnce, RowsFit, TodoFits
<1>2. ASSUME NEW c \in L!Caller, L!Step(c) \/ L!CallFault(c) PROVE RunsInv'
    BY <1>2, InsertKeeps, RequestKeeps, BindKeeps, GetKeeps, BeatKeeps, UpdateKeeps, ReleaseKeeps,
       RemovalKeeps, FaultKeeps DEF L!Step
<1> QED BY <1>1, <1>2, BeginKeeps, WatchingKeeps, EnvironmentKeeps DEF L!Next

LEMMA InitRuns == L!LabRunsAssumption /\ L!Init => RunsInv
<1> SUFFICES ASSUME L!LabRunsAssumption, L!Init PROVE RunsInv
    OBVIOUS
<1>1. PICK ready \in {{}, {CHOOSE r \in LabRun : TRUE}} :
          /\ row = [r \in LabRun |-> IF r \in ready THEN "bound" ELSE "absent"]
          /\ mirror = [r \in LabRun |-> IF r \in ready THEN "READY" ELSE "PENDING"]
          /\ box = [r \in LabRun |-> IF r \in ready THEN "READY" ELSE "none"]
    BY DEF L!Init
<1>2. L!Current \subseteq ready /\ \A r, s \in ready : r = s
    BY <1>1 DEF L!Current
<1>3. active = TRUE /\ call = [c \in L!Caller |-> L!Over] /\ todo = {} /\ calls = 0 /\ runFaults = 0
    BY DEF L!Init
<1>4. L!TypeOK
    BY <1>1, <1>2, <1>3 DEF L!TypeOK, L!Row, L!Box, L!LiveStatus, L!Call, L!LabRunsAssumption
<1>5. \A c \in L!Caller : call[c] = L!Over /\ call[c].at = "over"
    BY <1>3 DEF L!Over
<1>6. RowsFit /\ TodoFits
    BY <1>1, <1>3 DEF RowsFit, TodoFits
<1> QED BY <1>4, <1>5, <1>6 DEF RunsInv, CallFits, AskedOnce

LEMMA RunsHold == L!LabRunsAssumption => (L!Spec => []RunsInv)
<1> SUFFICES ASSUME L!LabRunsAssumption PROVE L!Spec => []RunsInv
    OBVIOUS
<1>1. L!Init => RunsInv
    BY InitRuns
<1>2. RunsInv /\ [L!Next]_L!vars => RunsInv'
    BY StepKeeps
<1> QED BY <1>1, <1>2, PTL DEF L!Spec

\* Every variable holds what the code could hold, and a session has one lab
\* run at most, whatever requests overlap or fail (start of
\* lab-run.service.ts and the unique index it inserts under).
THEOREM SessionsHaveOneRun == L!LabRunsAssumption => (L!Spec => []L!TypeOK)
<1> SUFFICES ASSUME L!LabRunsAssumption PROVE L!Spec => []L!TypeOK
    OBVIOUS
<1>1. RunsInv => L!TypeOK
    BY DEF RunsInv
<1> QED BY <1>1, RunsHold, PTL

\* A run goes only if its sandbox or its session has ended, its client
\* released it or its start failed (finish() of lab-run.service.ts).
THEOREM LiveRunsAreKept == L!LabRunsAssumption => (L!Spec => L!LiveRunsStay)
<1> DEFINE Leaving(r) ==
        \/ box[r] = "ended" \/ ~active
        \/ \E c \in L!Caller :
              /\ call[c] # L!Over /\ call[c].at \in {"delete", "undo"}
              /\ call[c].op \in {"release", "starting"} /\ call[c].id = r
<1> SUFFICES ASSUME L!LabRunsAssumption PROVE L!Spec => L!LiveRunsStay
    OBVIOUS
<1>1. ASSUME RunsInv, [L!Next]_L!vars, NEW r \in L!Current, r \notin L!Current' PROVE Leaving(r)
  <2>0. row \in [LabRun -> L!Row] /\ r \in LabRun /\ ~UNCHANGED row
    BY <1>1 DEF RunsInv, L!TypeOK, L!Current
  <2>1. ASSUME NEW c \in L!Caller, L!Delete(c) \/ L!Undo(c) PROVE Leaving(r)
    <3>1. L!Remove(call[c].id) /\ call[c].at \in {"delete", "undo"}
      BY <2>1 DEF L!Delete, L!Undo
    <3>2. call[c].id = r
      BY <1>1, <2>0, <3>1 DEF L!Remove, L!Current
    <3>3. call[c] # L!Over /\ CallFits(c)
      BY <1>1, <3>1 DEF L!Over, RunsInv
    <3> QED BY <3>1, <3>2, <3>3 DEF CallFits
  <2>2. ASSUME NEW c \in L!Caller, L!Insert(c) \/ L!Bind(c) \/ L!CallFault(c) PROVE r \in L!Current'
    <3>1. \/ UNCHANGED row
          \/ \E s \in LabRun : row[s] = "absent" /\ row' = [row EXCEPT ![s] = "unbound"]
          \/ \E s : row' = [row EXCEPT ![s] = "bound"]
          \/ \E s : row' = [row EXCEPT ![s] = IF @ = "unbound" THEN "bound" ELSE @]
      BY <2>2 DEF L!Insert, L!Bind, L!CallFault
    <3> QED BY <1>1, <2>0, <3>1 DEF L!Current
  <2>3. ASSUME NEW c \in L!Caller, L!Request(c) \/ L!Get(c) \/ L!Beat(c) \/ L!Update(c) \/ L!Release(c)
        PROVE  UNCHANGED row
    BY <2>3 DEF L!Request, L!Get, L!Beat, L!Update, L!Release
  <2>4. ASSUME \/ UNCHANGED L!vars \/ L!Watching \/ L!SessionEnds \/ L!Crash
               \/ (\E c \in Calls : L!Begin(c)) \/ \E s \in LabRun : L!ManagerMoves(s)
        PROVE  UNCHANGED row
    BY <2>4 DEF L!vars, L!Watching, L!Tick, L!Watch, L!SessionEnds, L!Crash, L!Begin, L!ManagerMoves
  <2> QED BY <1>1, <2>0, <2>1, <2>2, <2>3, <2>4 DEF L!Next, L!Step
<1>2. RunsInv /\ [L!Next]_L!vars => [\A r \in L!Current : r \notin L!Current' => Leaving(r)]_L!vars
    BY <1>1
<1> QED BY <1>2, RunsHold, PTL DEF L!Spec, L!LiveRunsStay

-----------------------------------------------------------------------------
DestroyPc == {"idle", "remove", "removal", "inspect", "detach", "unlink"}
Destroying ==
    [pc : DestroyPc, left : SUBSET (Clients \cup {"sandbox"}), outcome : D!Outcome, late : BOOLEAN]

\* Nothing is built any more.
Built == provision.pc \in {"ok", "failed"}
Going == container \in {"none", "removing"}

\* How far a destroy that came after the provisioning has come.
DestroyFits(d) ==
    ~destroy[d].late =>
        /\ destroy[d].pc # "idle" => Built /\ destroy[d].outcome = "none"
        /\ destroy[d].pc \in {"removal", "inspect", "detach", "unlink"} => Going
        /\ destroy[d].outcome = "ok" => Built /\ Going /\ ~network

DockerInv == D!TypeOK /\ \A d \in Destroyers : DestroyFits(d)

-----------------------------------------------------------------------------
(***************************************************************************)
(* Types                                                                   *)
(***************************************************************************)
ProvisionTypes ==
    /\ wanted \in BOOLEAN
    /\ provision \in [pc : D!Building \cup {"off", "ok", "failed"}, left : SUBSET Clients]
    /\ reattach \in [pc : {"idle", "inspect", "connect"}, left : SUBSET Clients]

EngineTypes ==
    /\ container \in D!Container /\ network \in BOOLEAN
    /\ up \subseteq Clients /\ ends \subseteq up \cup {"sandbox"}

LEMMA TypesSplit ==
    D!TypeOK <=> /\ EngineTypes /\ ProvisionTypes
                 /\ engineFaults \in 0..MaxFaults /\ destroy \in [Destroyers -> Destroying]
    BY DEF D!TypeOK, EngineTypes, ProvisionTypes, Destroying, DestroyPc

\* What a destroy may become, field by field.
LEMMA DestroySteps ==
    ASSUME destroy \in [Destroyers -> Destroying], NEW d \in Destroyers
    PROVE  /\ \A pc \in DestroyPc : D!DestroyGoes(d, pc) =>
                 /\ destroy' \in [Destroyers -> Destroying]
                 /\ destroy'[d].pc = pc /\ destroy'[d].late = destroy[d].late
                 /\ destroy'[d].outcome = destroy[d].outcome
                 /\ \A e \in Destroyers \ {d} : destroy'[e] = destroy[e]
           /\ \A o \in D!Outcome : D!Returns(d, o) =>
                 /\ destroy' \in [Destroyers -> Destroying]
                 /\ destroy'[d].pc = "idle" /\ destroy'[d].late = destroy[d].late
                 /\ destroy'[d].outcome = o
                 /\ \A e \in Destroyers \ {d} : destroy'[e] = destroy[e]
<1>1. ASSUME NEW pc \in DestroyPc, D!DestroyGoes(d, pc)
      PROVE  /\ destroy' \in [Destroyers -> Destroying]
             /\ destroy'[d].pc = pc /\ destroy'[d].late = destroy[d].late
             /\ destroy'[d].outcome = destroy[d].outcome
             /\ \A e \in Destroyers \ {d} : destroy'[e] = destroy[e]
    BY <1>1 DEF D!DestroyGoes, Destroying
<1>2. ASSUME NEW o \in D!Outcome, D!Returns(d, o)
      PROVE  /\ destroy' \in [Destroyers -> Destroying]
             /\ destroy'[d].pc = "idle" /\ destroy'[d].late = destroy[d].late
             /\ destroy'[d].outcome = o
             /\ \A e \in Destroyers \ {d} : destroy'[e] = destroy[e]
  <2> DEFINE r == [pc |-> "idle", left |-> {}, outcome |-> o, late |-> destroy[d].late]
  <2>1. destroy[d] \in Destroying
    OBVIOUS
  <2>2. r \in Destroying
    BY <2>1 DEF Destroying, DestroyPc
  <2>3. [[[destroy[d] EXCEPT !.pc = "idle"] EXCEPT !.left = {}] EXCEPT !.outcome = o] = r
    <3>1. [destroy[d] EXCEPT !.pc = "idle"]
             = [pc |-> "idle", left |-> destroy[d].left, outcome |-> destroy[d].outcome,
                late |-> destroy[d].late]
      BY <2>1 DEF Destroying
    <3>2. [[pc |-> "idle", left |-> destroy[d].left, outcome |-> destroy[d].outcome,
            late |-> destroy[d].late] EXCEPT !.left = {}]
             = [pc |-> "idle", left |-> {}, outcome |-> destroy[d].outcome, late |-> destroy[d].late]
      OBVIOUS
    <3>3. [[pc |-> "idle", left |-> {}, outcome |-> destroy[d].outcome, late |-> destroy[d].late]
              EXCEPT !.outcome = o] = r
      OBVIOUS
    <3> QED BY ONLY <3>1, <3>2, <3>3
  <2>4. destroy' = [destroy EXCEPT ![d] =
           [[[destroy[d] EXCEPT !.pc = "idle"] EXCEPT !.left = {}] EXCEPT !.outcome = o]]
    BY <1>2 DEF D!Returns
  <2>5. r.pc = "idle" /\ r.outcome = o /\ r.late = destroy[d].late
    OBVIOUS
  <2> HIDE DEF r
  <2>6. destroy' = [destroy EXCEPT ![d] = r]
    BY ONLY <2>3, <2>4
  <2> QED BY <2>2, <2>5, <2>6
<1> QED BY <1>1, <1>2

LEMMA EngineFaultCounts ==
    ASSUME D!DockerRuntimeAssumption, D!TypeOK, D!Fault
    PROVE  engineFaults' \in 0..MaxFaults
    BY DEF D!DockerRuntimeAssumption, D!TypeOK, D!Fault

-----------------------------------------------------------------------------
(***************************************************************************)
(* What lasts                                                              *)
(***************************************************************************)

\* Past the provisioning, what is gone or going stays so.
EngineLasts ==
    Built => /\ Built'
             /\ Going => Going'
             /\ network' => network

LEMMA DestroyFitsLasts ==
    ASSUME EngineLasts, NEW d \in Destroyers, DestroyFits(d), destroy'[d] = destroy[d]
    PROVE  DestroyFits(d)'
<1> USE DEF DestroyFits
<1>1. CASE Built
    BY <1>1 DEF EngineLasts
<1>2. CASE ~Built
    BY <1>2
<1> QED BY <1>1, <1>2

LEMMA ProvisionKeeps ==
    ASSUME D!DockerRuntimeAssumption, DockerInv, D!Provision \/ D!ProvisionFault
    PROVE  DockerInv'
<1>0. /\ D!TypeOK /\ EngineTypes /\ ProvisionTypes
      /\ engineFaults \in 0..MaxFaults /\ destroy \in [Destroyers -> Destroying]
    BY TypesSplit DEF DockerInv
<1>1. UNCHANGED <<destroy, reattach>> /\ ~Built
    BY DEF D!Provision, D!ProvisionFault, D!BeginProvision, D!CreateNetwork, D!CreateContainer, D!Attach,
           D!StartContainer, D!WaitHealthy, D!Building, Built
<1>2. engineFaults' \in 0..MaxFaults
    BY <1>0, EngineFaultCounts DEF D!Provision, D!ProvisionFault, D!BeginProvision, D!CreateNetwork, D!CreateContainer,
           D!Attach, D!StartContainer, D!WaitHealthy
<1>3. EngineTypes'
  <2> USE <1>0 DEF EngineTypes, D!Container
  <2>1. CASE D!BeginProvision \/ D!WaitHealthy \/ D!ProvisionFault
    BY <2>1 DEF D!BeginProvision, D!WaitHealthy, D!ProvisionFault, D!engine
  <2>2. CASE D!CreateNetwork \/ D!CreateContainer
    BY <2>2 DEF D!CreateNetwork, D!CreateContainer
  <2>3. CASE D!Attach
    BY <2>3 DEF D!Attach, D!Connect
  <2>4. CASE D!StartContainer
    BY <2>4 DEF D!StartContainer
  <2> QED BY <2>1, <2>2, <2>3, <2>4 DEF D!Provision
<1>4. ProvisionTypes'
  <2>1. /\ \A pc \in D!Building \cup {"off", "ok", "failed"} : D!Provisions(pc) =>
              provision' \in [pc : D!Building \cup {"off", "ok", "failed"}, left : SUBSET Clients]
        /\ \A c : provision' = [provision EXCEPT !.left = @ \ {c}] =>
              provision' \in [pc : D!Building \cup {"off", "ok", "failed"}, left : SUBSET Clients]
    BY <1>0 DEF ProvisionTypes, D!Provisions
  <2>2. \/ \E pc \in D!Building \cup {"off", "ok", "failed"} : D!Provisions(pc)
        \/ \E c : provision' = [provision EXCEPT !.left = @ \ {c}]
    BY DEF D!Provision, D!ProvisionFault, D!BeginProvision, D!CreateNetwork, D!CreateContainer, D!Attach,
           D!StartContainer, D!WaitHealthy, D!ProvisionFails, D!Building
  <2>3. wanted' \in BOOLEAN
    BY <1>0 DEF D!Provision, D!ProvisionFault, D!BeginProvision, D!CreateNetwork, D!CreateContainer, D!Attach,
           D!StartContainer, D!WaitHealthy, D!ProvisionFails, ProvisionTypes
  <2> QED BY <1>0, <1>1, <2>1, <2>2, <2>3 DEF ProvisionTypes
<1>5. D!TypeOK'
    BY <1>0, <1>1, <1>2, <1>3, <1>4
       DEF D!TypeOK, EngineTypes, ProvisionTypes, Destroying, DestroyPc
<1>6. \A d \in Destroyers : DestroyFits(d)'
    BY <1>1, DestroyFitsLasts DEF DockerInv, EngineLasts
<1> QED BY <1>5, <1>6 DEF DockerInv

LEMMA DestroyKeeps ==
    ASSUME D!DockerRuntimeAssumption, DockerInv, NEW d \in Destroyers, D!Destroy(d) \/ D!DestroyFault(d)
    PROVE  DockerInv'
<1>0. /\ D!TypeOK /\ EngineTypes /\ ProvisionTypes
      /\ engineFaults \in 0..MaxFaults /\ destroy \in [Destroyers -> Destroying]
    BY TypesSplit DEF DockerInv
<1>1. UNCHANGED <<provision, wanted, reattach, up>>
    BY DEF D!Destroy, D!DestroyFault, D!BeginDestroy, D!Remove, D!Removed, D!Inspect, D!Detach, D!Unlink, D!engine
<1>2. engineFaults' \in 0..MaxFaults
    BY <1>0, EngineFaultCounts DEF D!Destroy, D!DestroyFault, D!BeginDestroy, D!Remove, D!Removed, D!Inspect, D!Detach, D!Unlink
<1>3. /\ container' \in {container, "removing"}
      /\ network' = network \/ network' = FALSE
      /\ ends' \subseteq ends
    BY DEF D!Destroy, D!DestroyFault, D!BeginDestroy, D!Remove, D!Removed, D!Inspect, D!Detach, D!Unlink, D!engine
<1>4. EngineLasts
    BY <1>1, <1>3 DEF EngineLasts, Built, Going
<1>5. destroy' \in [Destroyers -> Destroying] /\ DestroyFits(d)'
      /\ \A e \in Destroyers \ {d} : destroy'[e] = destroy[e]
  <2>0. DestroyFits(d) /\ "ok" \in D!Outcome /\ "failed" \in D!Outcome
        /\ {"removal", "inspect", "unlink"} \subseteq DestroyPc
    BY DEF DockerInv, D!Outcome, DestroyPc
  <2>1. CASE D!BeginDestroy(d)
    <3> DEFINE new == [pc |-> "remove", left |-> {}, outcome |-> "none",
                       late |-> provision.pc \notin {"ok", "failed"}]
    <3>1. new \in Destroying /\ new.pc = "remove" /\ new.outcome = "none" /\ (~new.late => Built)
      BY DEF Destroying, DestroyPc, D!Outcome, Built
    <3>2. destroy' = [destroy EXCEPT ![d] = new]
      BY <2>1 DEF D!BeginDestroy
    <3> HIDE DEF new
    <3> QED BY <1>0, <1>1, <3>1, <3>2 DEF DestroyFits, Built
  <2>2. CASE D!Remove(d)
    <3>1. \/ container \in {"none", "removing"} /\ D!DestroyGoes(d, "inspect") /\ UNCHANGED container
          \/ container' = "removing" /\ D!DestroyGoes(d, "removal")
      BY <2>2 DEF D!Remove
    <3>2. destroy[d].pc = "remove"
      BY <2>2 DEF D!Remove
    <3> QED BY <1>0, <1>1, <2>0, <3>1, <3>2, DestroySteps DEF DestroyFits, Built, Going
  <2>3. CASE D!Removed(d)
    <3>1. destroy[d].pc = "removal" /\ container' = "none" /\ D!DestroyGoes(d, "inspect")
      BY <2>3 DEF D!Removed, D!engine
    <3> QED BY <1>0, <1>1, <2>0, <3>1, DestroySteps DEF DestroyFits, Built, Going
  <2>4. CASE D!Inspect(d)
    <3>1. destroy[d].pc = "inspect" /\ UNCHANGED <<container, network>>
      BY <2>4 DEF D!Inspect, D!engine
    <3>2. CASE network
      <4>1. destroy' = [destroy EXCEPT ![d].pc = "detach", ![d].left = ends]
        BY <2>4, <3>2 DEF D!Inspect
      <4>2. ends \in SUBSET (Clients \cup {"sandbox"})
        BY <1>0 DEF EngineTypes
      <4>3. destroy' \in [Destroyers -> Destroying] /\ destroy'[d].pc = "detach"
            /\ destroy'[d].late = destroy[d].late /\ destroy'[d].outcome = destroy[d].outcome
            /\ \A e \in Destroyers \ {d} : destroy'[e] = destroy[e]
        BY <1>0, <4>1, <4>2 DEF Destroying, DestroyPc
      <4> QED BY <1>1, <2>0, <3>1, <4>3 DEF DestroyFits, Built, Going
    <3>3. CASE ~network
      <4>1. D!Returns(d, "ok")
        BY <2>4, <3>3 DEF D!Inspect
      <4> QED BY <1>0, <1>1, <2>0, <3>1, <3>3, <4>1, DestroySteps DEF DestroyFits, Built, Going
    <3> QED BY <3>2, <3>3
  <2>5. CASE D!Detach(d)
    <3>1. destroy[d].pc = "detach" /\ UNCHANGED <<container, network>>
      BY <2>5 DEF D!Detach
    <3>2. CASE D!DestroyGoes(d, "unlink")
      BY <1>0, <1>1, <2>0, <3>1, <3>2, DestroySteps DEF DestroyFits, Built, Going
    <3>3. ASSUME NEW e, destroy' = [destroy EXCEPT ![d].left = @ \ {e}]
          PROVE  /\ destroy' \in [Destroyers -> Destroying] /\ DestroyFits(d)'
                 /\ \A f \in Destroyers \ {d} : destroy'[f] = destroy[f]
      <4>1. destroy' \in [Destroyers -> Destroying] /\ destroy'[d].pc = "detach"
            /\ destroy'[d].late = destroy[d].late /\ destroy'[d].outcome = destroy[d].outcome
            /\ \A f \in Destroyers \ {d} : destroy'[f] = destroy[f]
        BY <1>0, <3>1, <3>3 DEF Destroying
      <4> QED BY <1>1, <2>0, <3>1, <4>1 DEF DestroyFits, Built, Going
    <3> QED BY <2>5, <3>2, <3>3 DEF D!Detach
  <2>6. CASE D!Unlink(d)
    <3>1. destroy[d].pc = "unlink" /\ UNCHANGED container
          /\ ((D!Returns(d, "ok") /\ network' = FALSE) \/ D!Returns(d, "failed"))
      BY <2>6 DEF D!Unlink
    <3> QED BY <1>0, <1>1, <2>0, <3>1, DestroySteps DEF DestroyFits, Built, Going
  <2>7. CASE D!DestroyFault(d)
    <3>1. D!Returns(d, "failed")
      BY <2>7 DEF D!DestroyFault
    <3> QED BY <1>0, <2>0, <3>1, DestroySteps DEF DestroyFits
  <2> QED BY <2>1, <2>2, <2>3, <2>4, <2>5, <2>6, <2>7 DEF D!Destroy
<1>6. D!TypeOK'
  <2>1. EngineTypes' /\ ProvisionTypes'
    BY <1>0, <1>1, <1>3 DEF EngineTypes, ProvisionTypes, D!Container
  <2> QED BY <1>2, <1>5, <2>1 DEF D!TypeOK, EngineTypes, ProvisionTypes, Destroying, DestroyPc
<1>7. \A e \in Destroyers : DestroyFits(e)'
    BY <1>4, <1>5, DestroyFitsLasts DEF DockerInv
<1> QED BY <1>6, <1>7 DEF DockerInv

\* reattach(), the engine by itself, the deploys and a release.
LEMMA OthersKeep ==
    ASSUME D!DockerRuntimeAssumption, DockerInv,
           \/ D!Reattach \/ D!ReattachFault \/ D!Seeded \/ D!Stops \/ D!RemovalEnds \/ D!Release
           \/ \E c \in Clients : D!ClientGoes(c) \/ D!ClientComes(c)
    PROVE  DockerInv'
<1>0. /\ D!TypeOK /\ EngineTypes /\ ProvisionTypes
      /\ engineFaults \in 0..MaxFaults /\ destroy \in [Destroyers -> Destroying]
    BY TypesSplit DEF DockerInv
<1> USE DEF D!Reattach, D!BeginReattach, D!Missing, D!Reconnect, D!ReattachFault, D!Seeded, D!Stops, D!RemovalEnds,
            D!Release, D!ClientGoes, D!ClientComes, D!engine
<1>1. UNCHANGED <<network, provision, destroy>>
    BY Zenon
<1>2. engineFaults' \in 0..MaxFaults
    BY <1>0, EngineFaultCounts
<1>3. EngineTypes'
  <2>1. CASE D!Reattach
    BY <1>0, <2>1 DEF EngineTypes, D!Connect
  <2>2. CASE D!ReattachFault \/ D!Release
    BY <1>0, <2>2 DEF EngineTypes
  <2>3. CASE D!Seeded \/ D!Stops \/ D!RemovalEnds
    BY <1>0, <2>3 DEF EngineTypes, D!Container
  <2>4. ASSUME NEW c \in Clients, D!ClientGoes(c) \/ D!ClientComes(c) PROVE EngineTypes'
    BY <1>0, <2>4 DEF EngineTypes
  <2> QED BY <2>1, <2>2, <2>3, <2>4
<1>4. ProvisionTypes'
  <2>1. wanted' \in BOOLEAN
    BY <1>0 DEF ProvisionTypes
  <2>2. \/ UNCHANGED reattach
        \/ \E pc \in {"idle", "inspect", "connect"} : \E x \in SUBSET Clients :
              reattach' = [pc |-> pc, left |-> x]
        \/ reattach' = [reattach EXCEPT !.pc = "idle"]
        \/ \E c : reattach' = [reattach EXCEPT !.left = @ \ {c}]
    <3>1. {} \in SUBSET Clients /\ Clients \ ends \in SUBSET Clients
      OBVIOUS
    <3>2. CASE D!Reattach
      BY <3>1, <3>2
    <3>3. CASE D!ReattachFault
      BY <3>1, <3>3
    <3> QED BY <3>2, <3>3
  <2>3. reattach' \in [pc : {"idle", "inspect", "connect"}, left : SUBSET Clients]
    BY <1>0, <2>2 DEF ProvisionTypes
  <2> QED BY <1>0, <1>1, <2>1, <2>3 DEF ProvisionTypes
<1>5. EngineLasts
    BY <1>1 DEF EngineLasts, Built, Going
<1>6. D!TypeOK'
    BY <1>0, <1>1, <1>2, <1>3, <1>4 DEF D!TypeOK, EngineTypes, ProvisionTypes, Destroying, DestroyPc
<1> QED BY <1>1, <1>5, <1>6, DestroyFitsLasts DEF DockerInv

LEMMA CrashKeeps ==
    ASSUME D!DockerRuntimeAssumption, DockerInv, D!Crash
    PROVE  DockerInv'
<1>0. /\ D!TypeOK /\ EngineTypes /\ ProvisionTypes
      /\ engineFaults \in 0..MaxFaults /\ destroy \in [Destroyers -> Destroying]
    BY TypesSplit DEF DockerInv
<1>1. engineFaults' \in 0..MaxFaults
    BY <1>0, EngineFaultCounts DEF D!Crash
<1>2. /\ UNCHANGED D!engine /\ reattach' = [pc |-> "idle", left |-> {}]
      /\ UNCHANGED <<provision, wanted>> \/ D!ProvisionFails
      /\ Built => UNCHANGED <<provision, wanted>>
    BY DEF D!Crash, Built, D!Building
<1>3. ProvisionTypes'
    BY <1>0, <1>2 DEF ProvisionTypes, D!ProvisionFails, D!Provisions
<1>4. /\ destroy' \in [Destroyers -> Destroying]
      /\ \A d \in Destroyers :
            \/ destroy'[d] = destroy[d]
            \/ /\ destroy'[d].pc = "idle" /\ destroy'[d].outcome = "failed"
               /\ destroy'[d].late = destroy[d].late
  <2> DEFINE r(d) == IF destroy[d].pc = "idle" THEN destroy[d]
                     ELSE [destroy[d] EXCEPT !.pc = "idle", !.left = {}, !.outcome = "failed"]
  <2>1. destroy' = [d \in Destroyers |-> r(d)]
    BY DEF D!Crash
  <2>2. ASSUME NEW d \in Destroyers
        PROVE  /\ r(d) \in Destroying
               /\ \/ r(d) = destroy[d]
                  \/ /\ r(d).pc = "idle" /\ r(d).outcome = "failed"
                     /\ r(d).late = destroy[d].late
    <3>1. destroy[d] \in Destroying
      BY <1>0
    <3> QED BY <3>1 DEF Destroying, DestroyPc, D!Outcome
  <2> HIDE DEF r
  <2> QED BY <2>1, <2>2
<1>5. EngineLasts
    BY <1>2 DEF EngineLasts, Built, Going, D!engine
<1>6. ASSUME NEW d \in Destroyers PROVE DestroyFits(d)'
  <2>1. CASE destroy'[d] = destroy[d]
    BY <1>5, <2>1, DestroyFitsLasts DEF DockerInv
  <2>2. CASE destroy'[d].pc = "idle" /\ destroy'[d].outcome = "failed"
    BY <2>2 DEF DestroyFits
  <2> QED BY <1>4, <2>1, <2>2
<1>7. D!TypeOK'
    BY <1>0, <1>1, <1>2, <1>3, <1>4
       DEF D!TypeOK, EngineTypes, ProvisionTypes, Destroying, DestroyPc, D!engine
<1> QED BY <1>6, <1>7 DEF DockerInv

LEMMA DockerHolds ==
    D!DockerRuntimeAssumption => (D!Init /\ [][D!Next]_(D!vars) => []DockerInv)
<1> SUFFICES ASSUME D!DockerRuntimeAssumption
             PROVE  D!Init /\ [][D!Next]_(D!vars) => []DockerInv
    OBVIOUS
<1>1. D!Init => DockerInv
  <2> SUFFICES ASSUME D!Init PROVE DockerInv
    OBVIOUS
  <2>1. D!TypeOK
    <3>1. EngineTypes /\ ProvisionTypes
      BY DEF D!Init, EngineTypes, ProvisionTypes, D!Container
    <3>2. engineFaults \in 0..MaxFaults
      BY DEF D!Init, D!DockerRuntimeAssumption
    <3>3. destroy \in [Destroyers -> Destroying]
      BY DEF D!Init, Destroying, DestroyPc, D!Outcome
    <3> QED BY <3>1, <3>2, <3>3, TypesSplit
  <2>2. \A d \in Destroyers : destroy[d].pc = "idle" /\ destroy[d].outcome = "none"
    BY DEF D!Init
  <2> QED BY <2>1, <2>2 DEF DockerInv, DestroyFits
<1>2. DockerInv /\ [D!Next]_D!vars => DockerInv'
  <2> SUFFICES ASSUME DockerInv, [D!Next]_D!vars PROVE DockerInv'
    OBVIOUS
  <2>1. CASE UNCHANGED D!vars
    BY <2>1 DEF D!vars, D!engine, DockerInv, D!TypeOK, DestroyFits, Built, Going
  <2> QED BY <2>1, ProvisionKeeps, DestroyKeeps, OthersKeep, CrashKeeps DEF D!Next
<1> QED BY <1>1, <1>2, PTL DEF D!Spec

\* Every variable holds what the engine and the provider could hold.
THEOREM ContainersAreTyped == D!DockerRuntimeAssumption => (D!Spec => []D!TypeOK)
<1> SUFFICES ASSUME D!DockerRuntimeAssumption PROVE D!Spec => []D!TypeOK
    OBVIOUS
<1>1. DockerInv => D!TypeOK
    BY DEF DockerInv
<1> QED BY <1>1, DockerHolds, PTL DEF D!Spec

\* A destroy that began after the provisioning and returned has left neither a
\* network nor a container that nobody is removing, however many destroy, join
\* or leave at once (destroy of docker-provider.ts).
THEOREM DestroyLeavesNothing == D!DockerRuntimeAssumption => (D!Spec => []D!DestroyedIsGone)
<1> SUFFICES ASSUME D!DockerRuntimeAssumption PROVE D!Spec => []D!DestroyedIsGone
    OBVIOUS
<1>1. DockerInv => D!DestroyedIsGone
    BY DEF DockerInv, DestroyFits, Going, D!DestroyedIsGone
<1> QED BY <1>1, DockerHolds, PTL DEF D!Spec


-----------------------------------------------------------------------------
(***************************************************************************)
(* The parts together                                                      *)
(***************************************************************************)
\* Whatever part a behaviour is of, what it does to the state of a part are
\* steps of that part's specification, or none.
liveVars == <<part, vars, pageVars, runVars, engineVars>>

LEMMA RunsStep == [LiveNext]_liveVars => [L!Next]_(L!vars)
    BY DEF LiveNext, liveVars, runVars, L!vars

LEMMA EngineStep == [LiveNext]_liveVars => [D!Next]_(D!vars)
    BY DEF LiveNext, liveVars, engineVars, D!vars, D!engine

\* Of the parts together, too: a destroy that began after the provisioning and
\* returned has left nothing behind (destroy of docker-provider.ts).
THEOREM LiveDestroysLeaveNothing == LiveSpec => []DestroyedIsGone
<1>1. D!DockerRuntimeAssumption
    BY LiveAssumption DEF LiveAssumption
<1>2. LiveInit => D!Init
    BY DEF LiveInit
<1>3. DockerInv => DestroyedIsGone
    BY DEF DestroyedIsGone, DockerInv, DestroyFits, Going, D!DestroyedIsGone
<1>4. D!Init /\ [][D!Next]_(D!vars) => []DockerInv
    BY <1>1, DockerHolds
<1> QED BY <1>2, <1>3, <1>4, EngineStep, PTL DEF LiveSpec, liveVars

\* Of the parts together, too: a run whose sandbox and session live is only
\* ended by who asked for it (finish() of lab-run.service.ts).
THEOREM LiveRunsAreKeptAlive == LiveSpec => LiveRunsStay
<1>1. LiveInit => L!Init
    BY DEF LiveInit
<1>2. L!Spec => L!LiveRunsStay
    BY LiveRunsAreKept, LiveAssumption DEF LiveAssumption
<1>3. L!LiveRunsStay => LiveRunsStay
    BY DEF LiveRunsStay
<1> QED BY <1>1, <1>2, <1>3, RunsStep, PTL DEF LiveSpec, liveVars, L!Spec

================================================================================
