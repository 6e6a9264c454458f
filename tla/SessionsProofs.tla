---------------------------- MODULE SessionsProofs ----------------------------
(***************************************************************************)
(* Theorems about the sessions of the API and their proofs: the type       *)
(* invariant, and, when no POST outlasts the five minutes after which the  *)
(* reaper calls its row stuck, that rows only move on, that nobody drops   *)
(* the database of a live session, and that an active session has one.     *)
(*                                                                         *)
(* Most writes of this code do not test the status they replace.  They are *)
(* right because of who may be about to write: a POST owns its row until   *)
(* it is active, and an end or a destroy is only under way for a row that  *)
(* has been active or has ended.  SessionInv says so.                      *)
(***************************************************************************)
EXTENDS Sessions, TLAPS

-----------------------------------------------------------------------------
(***************************************************************************)
(* The inductive invariant                                                 *)
(***************************************************************************)

Building == {"role", "database", "activate", "undo", "fail"}
Begun == {"ACTIVE"} \cup Ended

\* Only the limits of its status count for a row.
DueFits == \A s \in Session : due[s] \subseteq Limits(status[s])

\* While a POST builds a session, its row is as the POST left it.
PostOwnsRow ==
    \A s \in Session :
        /\ creating[s] = "insert" => status[s] = "absent"
        /\ creating[s] \in Building => status[s] = "PROVISIONING"
        /\ "stuck" \in due[s] => creating[s] = "none"

\* What the cluster has is what the row and its POST say.
DatabaseFits ==
    \A s \in Session :
        /\ status[s] = "absent" \/ creating[s] = "role" => database[s] = "absent"
        /\ status[s] = "ACTIVE" \/ creating[s] = "activate" => database[s] = "database"

\* A row is expired only if it was active, and dropped and recorded as
\* destroyed only if it has ended.
EndersOwnRow ==
    \A e \in Enders :
        /\ ending[e].pc = "expire" => status[ending[e].id] \in Begun
        /\ ending[e].pc \in {"drop", "record"} => status[ending[e].id] \in Ended

\* What the reaper has read stays true of the rows until it acts on it.
ReadsStayTrue ==
    /\ sweep = "expiring" => \A k \in todo : status[k.id] \in Begun
    /\ sweep \in {"retrying", "orphans"} => todo \subseteq With(Ended)
    /\ \A s \in listing : status[s] # "absent"

SessionInv ==
    TypeOK /\ DueFits /\ PostOwnsRow /\ DatabaseFits /\ EndersOwnRow /\ ReadsStayTrue

USE SessionsAssumption DEF rowVars, sweepVars

-----------------------------------------------------------------------------
(***************************************************************************)
(* Types                                                                   *)
(***************************************************************************)

LEMMA SetStatusType ==
    ASSUME TypeOK, NEW s \in Session, NEW to \in Status, SetStatus(s, to)
    PROVE  /\ status' \in [Session -> Status]
           /\ due' \in [Session -> SUBSET {"idle", "max-lifetime", "quota", "stuck"}]
    BY DEF TypeOK, SetStatus

LEMMA FaultType == TypeOK /\ Fault => faults' \in 0..MaxFaults
    BY DEF TypeOK, Fault

\* Where an end may go.
LEMMA EndGoesType ==
    ASSUME TypeOK, NEW e \in Enders, NEW s \in Session,
           NEW pc \in {"none", "expire", "drop", "record"}, EndGoes(e, pc, s)
    PROVE  /\ ending' \in [Enders -> Ending]
           /\ e # "reaper" => ending'["reaper"] = ending["reaper"]
           /\ pc = "none" => ending'[e] = Done
    BY DEF TypeOK, EndGoes, Ending, Enders

\* The session an end in progress is about.
LEMMA EndingId ==
    ASSUME TypeOK, NEW e \in Enders, ending[e].pc \in {"expire", "drop", "record"}
    PROVE  /\ ending[e].id \in Session /\ ending[e] # Done
           /\ e = "reaper" => sweep \in {"expiring", "retrying", "orphans"}
    BY DEF TypeOK, Ending, Done, Sweep

LEMMA CreateType ==
    ASSUME TypeOK, NEW s \in Session, BeginCreate(s) \/ Create(s)
    PROVE  TypeOK'
<1>1. CASE BeginCreate(s)
    BY <1>1 DEF BeginCreate, TypeOK, Creating
<1>2. CASE Insert(s)
    BY <1>2, SetStatusType DEF Insert, TypeOK, Creating, Status, CreateGoes
<1>3. CASE CreateRole(s)
    BY <1>3 DEF CreateRole, TypeOK, Creating, Database, CreateGoes
<1>4. CASE CreateDatabase(s)
    BY <1>4 DEF CreateDatabase, TypeOK, Creating, Database, CreateGoes
<1>5. CASE Activate(s)
    BY <1>5, SetStatusType DEF Activate, TypeOK, Creating, Status, CreateGoes
<1>6. CASE Undo(s)
    BY <1>6, FaultType DEF Undo, TypeOK, Creating, Database, CreateGoes, Destroy, DestroyFails
<1>7. CASE RecordFailure(s)
    BY <1>7, SetStatusType DEF RecordFailure, TypeOK, Creating, Status, CreateGoes
<1> QED BY <1>1, <1>2, <1>3, <1>4, <1>5, <1>6, <1>7 DEF Create

LEMMA CreateFaultType ==
    ASSUME TypeOK, NEW s \in Session, CreateFault(s)
    PROVE  TypeOK'
<1>1. faults' \in 0..MaxFaults
    BY FaultType DEF CreateFault
<1>2. /\ status' \in [Session -> Status]
      /\ due' \in [Session -> SUBSET {"idle", "max-lifetime", "quota", "stuck"}]
  <2>1. {"PROVISIONING", "ACTIVE", "FAILED"} \subseteq Status
    BY DEF Status
  <2>2. \/ UNCHANGED rowVars
        \/ \E to \in {"PROVISIONING", "ACTIVE", "FAILED"} : SetStatus(s, to)
    BY DEF CreateFault
  <2> QED BY <2>1, <2>2, SetStatusType DEF TypeOK
<1>3. creating' \in [Session -> Creating]
    BY DEF CreateFault, CreateGoes, TypeOK, Creating
<1>4. database' \in [Session -> Database]
    BY DEF CreateFault, TypeOK, Database
<1> QED BY <1>1, <1>2, <1>3, <1>4 DEF CreateFault, TypeOK

LEMMA EndType ==
    ASSUME TypeOK, NEW e \in Enders, End(e)
    PROVE  TypeOK'
<1> DEFINE s == ending[e].id
<1>1. ASSUME Expire(e) PROVE TypeOK'
  <2>1. s \in Session /\ (e = "reaper" => sweep \in {"expiring", "retrying", "orphans"})
    BY <1>1, EndingId DEF Expire
  <2>2. "EXPIRED" \in Status
    BY DEF Status
  <2> QED BY <1>1, <2>1, <2>2, SetStatusType, EndGoesType DEF Expire, TypeOK
<1>2. ASSUME Drop(e) PROVE TypeOK'
  <2>1. s \in Session /\ (e = "reaper" => sweep \in {"expiring", "retrying", "orphans"})
    BY <1>2, EndingId DEF Drop
  <2>2. database' \in [Session -> Database]
    BY <1>2 DEF Drop, Destroy, TypeOK, Database
  <2> QED BY <1>2, <2>1, <2>2, EndGoesType DEF Drop, TypeOK
<1>3. ASSUME RecordDestroyed(e) PROVE TypeOK'
  <2>1. s \in Session /\ (e = "reaper" => sweep \in {"expiring", "retrying", "orphans"})
    BY <1>3, EndingId DEF RecordDestroyed
  <2>2. "DESTROYED" \in Status
    BY DEF Status
  <2> QED BY <1>3, <2>1, <2>2, SetStatusType, EndGoesType DEF RecordDestroyed, TypeOK
<1> QED BY <1>1, <1>2, <1>3 DEF End

LEMMA EndFaultType ==
    ASSUME TypeOK, NEW e \in Enders, EndFault(e)
    PROVE  TypeOK'
<1> DEFINE s == ending[e].id
<1>1. s \in Session /\ (e = "reaper" => sweep \in {"expiring", "retrying", "orphans"})
    BY EndingId DEF EndFault
<1>2. faults' \in 0..MaxFaults
    BY FaultType DEF EndFault, DestroyFails
<1>3. /\ status' \in [Session -> Status]
      /\ due' \in [Session -> SUBSET {"idle", "max-lifetime", "quota", "stuck"}]
  <2>1. {"EXPIRED", "DESTROYED"} \subseteq Status
    BY DEF Status
  <2>2. UNCHANGED rowVars \/ \E to \in {"EXPIRED", "DESTROYED"} : SetStatus(s, to)
    BY DEF EndFault
  <2> QED BY <1>1, <2>1, <2>2, SetStatusType DEF TypeOK
<1>4. database' \in [Session -> Database]
    BY <1>1 DEF EndFault, DestroyFails, TypeOK, Database
<1>5. /\ ending' \in [Enders -> Ending]
      /\ sweep' \in {"idle", "marked", "listed"} => ending'["reaper"] = Done
    BY <1>1 DEF EndFault, TypeOK, Ending, Enders
<1>6. /\ sweep' \in Sweep
      /\ \/ sweep' = sweep /\ todo' = todo
         \/ sweep' = "idle" /\ todo' = {}
      /\ sweep' = "listed" => sweep = "listed"
    BY DEF EndFault, TypeOK, Sweep
<1>7. listing' = listing /\ (sweep # sweep' => listing = {}) /\ creating' = creating
    BY <1>1 DEF EndFault, TypeOK
<1> QED BY <1>2, <1>3, <1>4, <1>5, <1>6, <1>7 DEF TypeOK

LEMMA ReapType ==
    ASSUME TypeOK, Reap
    PROVE  TypeOK'
<1>1. CASE BeginSweep
  <2>1. ASSUME NEW s \in Session PROVE Known(s) \in [id : Session, over : BOOLEAN]
    BY DEF Known
  <2>2. todo' = {Known(s) : s \in With({"ACTIVE"})} /\ With({"ACTIVE"}) \subseteq Session
    BY <1>1 DEF BeginSweep, Reads, With
  <2>3. todo' \subseteq [id : Session, over : BOOLEAN]
    BY <2>1, <2>2
  <2> QED BY <1>1, <2>3 DEF BeginSweep, Sweeping, Reads, TypeOK, Sweep
<1>2. ASSUME NEW k \in todo, ExpireOrNot(k) PROVE TypeOK'
  <2>1. k.id \in Session /\ "reaper" \in Enders
    BY <1>2 DEF ExpireOrNot, Sweeping, TypeOK, Enders
  <2> QED BY <1>2, <2>1, EndGoesType DEF ExpireOrNot, Sweeping, TypeOK
<1>3. CASE MarkStuck
    BY <1>3 DEF MarkStuck, Sweeping, With, TypeOK, Sweep, Status
<1>4. CASE ReadEnded
    BY <1>4 DEF ReadEnded, Sweeping, Reads, With, TypeOK, Sweep
<1>5. ASSUME NEW s \in todo, DropNext(s) PROVE TypeOK'
  <2>1. s \in Session /\ "reaper" \in Enders /\ sweep \in {"retrying", "orphans"}
    BY <1>5 DEF DropNext, Sweeping, TypeOK, Enders
  <2> QED BY <1>5, <2>1, EndGoesType DEF DropNext, TypeOK
<1>6. CASE ListCluster
    BY <1>6 DEF ListCluster, Sweeping, Reads, TypeOK, Sweep
<1>7. CASE ReadOwned
    BY <1>7 DEF ReadOwned, Sweeping, Reads, With, TypeOK, Sweep
<1>8. CASE EndSweep
    BY <1>8 DEF EndSweep, Sweeping, Reads, TypeOK, Sweep
<1> QED BY <1>1, <1>2, <1>3, <1>4, <1>5, <1>6, <1>7, <1>8 DEF Reap

LEMMA StepType == TypeOK /\ [Next]_vars => TypeOK'
<1> SUFFICES ASSUME TypeOK, [Next]_vars PROVE TypeOK'
    OBVIOUS
<1>1. ASSUME NEW s \in Session, Touch(s) PROVE TypeOK'
    BY <1>1 DEF Touch, TypeOK
<1>2. ASSUME NEW s \in Session, NEW q \in Deletes, BeginEnd(q, s) PROVE TypeOK'
  <2>1. q \in Enders /\ q # "reaper"
    BY DEF Enders
  <2> QED BY <1>2, <2>1, EndGoesType DEF BeginEnd, TypeOK
<1>3. CASE SweepFault
    BY <1>3, FaultType DEF SweepFault, TypeOK, Sweep
<1>4. ASSUME NEW s \in Session, NEW limit \in Limits(status[s]), Exceed(s, limit)
      PROVE  TypeOK'
    BY <1>4 DEF Exceed, Limits, TypeOK
<1>5. CASE Crash
    BY <1>5, FaultType DEF Crash, TypeOK, Creating, Ending, Enders, Sweep
<1>6. CASE UNCHANGED vars
    BY <1>6 DEF vars, TypeOK
<1> QED
    BY <1>1, <1>2, <1>3, <1>4, <1>5, <1>6,
       CreateType, CreateFaultType, EndType, EndFaultType, ReapType DEF Next

\* Every variable of the sessions stays in its type, whatever the numbers of
\* sessions, requests and faults.
THEOREM TypeCorrectness == Spec => []TypeOK
<1>1. Init => TypeOK
    BY DEF Init, TypeOK, Status, Database, Creating, Ending, Sweep, Enders
<1> QED BY <1>1, StepType, PTL DEF Spec

-----------------------------------------------------------------------------
(***************************************************************************)
(* Rows only move on                                                       *)
(***************************************************************************)

Onward == \A s \in Session : status'[s] # status[s] => status'[s] \in Moves[status[s]]

LEMMA LimitsAre ==
    /\ Limits("PROVISIONING") = {"stuck"}
    /\ Limits("ACTIVE") = {"idle", "max-lifetime", "quota"}
    /\ Limits("absent") = {} /\ \A st \in Ended : Limits(st) = {}
    BY DEF Limits, Ended

LEMMA SetStatusOnward ==
    ASSUME TypeOK, NEW s \in Session, NEW to \in Status, SetStatus(s, to),
           to = status[s] \/ to \in Moves[status[s]]
    PROVE  Onward
    BY DEF TypeOK, SetStatus, Onward

\* What a row has behind it stays behind it.
LEMMA OnwardKeeps ==
    ASSUME TypeOK, Onward, NEW s \in Session
    PROVE  /\ status[s] \in Begun => status'[s] \in Begun
           /\ status[s] \in Ended => status'[s] \in Ended
           /\ status[s] # "absent" => status'[s] # "absent"
<1>1. status[s] \in Status
    BY DEF TypeOK
<1>2. status'[s] = status[s] \/ status'[s] \in Moves[status[s]]
    BY DEF Onward
<1> QED BY <1>1, <1>2 DEF Status, Moves, Begun, Ended

LEMMA CreateOnward ==
    ASSUME SessionInv, NEW s \in Session, Create(s) \/ CreateFault(s)
    PROVE  Onward
<1>1. CASE UNCHANGED rowVars
    BY <1>1 DEF Onward
<1>2. CASE creating[s] = "insert" /\ SetStatus(s, "PROVISIONING")
  <2>1. status[s] = "absent"
    BY <1>2 DEF SessionInv, PostOwnsRow
  <2> QED BY <1>2, <2>1, SetStatusOnward DEF SessionInv, Moves, Status
<1>3. CASE creating[s] \in Building /\ (SetStatus(s, "ACTIVE") \/ SetStatus(s, "FAILED"))
  <2>1. status[s] = "PROVISIONING"
    BY <1>3 DEF SessionInv, PostOwnsRow
  <2> QED BY <1>3, <2>1, SetStatusOnward DEF SessionInv, Moves, Status
<1> QED
    BY <1>1, <1>2, <1>3
    DEF Create, CreateFault, Insert, CreateRole, CreateDatabase, Activate, Undo,
        RecordFailure, Building

LEMMA EndOnward ==
    ASSUME SessionInv, NEW e \in Enders, End(e) \/ EndFault(e)
    PROVE  Onward
<1> DEFINE s == ending[e].id
<1>1. CASE UNCHANGED rowVars
    BY <1>1 DEF Onward
<1>2. CASE ending[e].pc = "expire" /\ status[s] \in Live /\ SetStatus(s, "EXPIRED")
  <2>1. s \in Session /\ status[s] = "ACTIVE"
    BY <1>2, EndingId DEF SessionInv, EndersOwnRow, Begun, Live, Ended
  <2> QED BY <1>2, <2>1, SetStatusOnward DEF SessionInv, Moves, Status
<1>3. CASE ending[e].pc = "record" /\ SetStatus(s, "DESTROYED")
  <2>1. s \in Session /\ status[s] \in Ended
    BY <1>3, EndingId DEF SessionInv, EndersOwnRow
  <2> QED BY <1>3, <2>1, SetStatusOnward DEF SessionInv, Moves, Status, Ended
<1> QED
    BY <1>1, <1>2, <1>3 DEF End, EndFault, Expire, Drop, RecordDestroyed

LEMMA StepOnward == SessionInv /\ [Next]_vars => Onward
<1> SUFFICES ASSUME SessionInv, [Next]_vars PROVE Onward
    OBVIOUS
<1>1. CASE UNCHANGED status
    BY <1>1 DEF Onward
<1>2. CASE MarkStuck
    BY <1>2 DEF MarkStuck, Onward, With, Moves
<1>3. CASE Reap /\ ~MarkStuck
    BY <1>3, <1>1
    DEF Reap, BeginSweep, ExpireOrNot, ReadEnded, DropNext, ListCluster, ReadOwned,
        EndSweep, Reads
<1> QED
    BY <1>1, <1>2, <1>3, CreateOnward, EndOnward
    DEF Next, vars, BeginCreate, Touch, BeginEnd, SweepFault, Exceed, Crash

-----------------------------------------------------------------------------
(***************************************************************************)
(* A POST owns its row, and its database                                   *)
(***************************************************************************)

RowInv == DueFits /\ PostOwnsRow /\ DatabaseFits

LEMMA CreateKeepsRows ==
    ASSUME SessionInv, NEW s \in Session, BeginCreate(s) \/ Create(s) \/ CreateFault(s)
    PROVE  RowInv'
<1> USE LimitsAre DEF SessionInv, RowInv, TypeOK, DueFits, PostOwnsRow, DatabaseFits, Building
<1>1. CASE BeginCreate(s)
    BY <1>1 DEF BeginCreate
<1>2. CASE Insert(s)
    BY <1>2 DEF Insert, SetStatus, CreateGoes
<1>3. CASE CreateRole(s)
    BY <1>3 DEF CreateRole, CreateGoes
<1>4. CASE CreateDatabase(s)
    BY <1>4 DEF CreateDatabase, CreateGoes
<1>5. CASE Activate(s)
    BY <1>5 DEF Activate, SetStatus, CreateGoes
<1>6. CASE Undo(s)
    BY <1>6 DEF Undo, CreateGoes, Destroy, DestroyFails
<1>7. CASE RecordFailure(s)
    BY <1>7 DEF RecordFailure, SetStatus, CreateGoes, Ended
<1>8. CASE CreateFault(s)
  <2>1. CASE creating[s] = "insert"
    BY <1>8, <2>1 DEF CreateFault, SetStatus, CreateGoes
  <2>2. CASE creating[s] \in {"role", "database"}
    BY <1>8, <2>2 DEF CreateFault, CreateGoes
  <2>3. CASE creating[s] \in {"activate", "fail"}
    BY <1>8, <2>3 DEF CreateFault, SetStatus, CreateGoes, Ended
  <2> QED BY <1>8, <2>1, <2>2, <2>3 DEF CreateFault
<1> QED BY <1>1, <1>2, <1>3, <1>4, <1>5, <1>6, <1>7, <1>8 DEF Create

LEMMA EndKeepsRows ==
    ASSUME SessionInv, NEW e \in Enders, End(e) \/ EndFault(e)
    PROVE  RowInv'
<1> DEFINE s == ending[e].id
<1>1. s \in Session
    BY EndingId DEF SessionInv, End, EndFault, Expire, Drop, RecordDestroyed
<1>2. CASE /\ status[s] \in Begun /\ UNCHANGED <<database, creating>>
           /\ \E to \in Ended : SetStatus(s, to)
    BY <1>1, <1>2, LimitsAre
    DEF SessionInv, RowInv, TypeOK, DueFits, PostOwnsRow, DatabaseFits, Building, Begun,
        Ended, SetStatus
<1>3. CASE /\ status[s] \in Ended /\ UNCHANGED <<rowVars, creating>>
           /\ \E left : database' = [database EXCEPT ![s] = left]
    BY <1>1, <1>3
    DEF SessionInv, RowInv, TypeOK, DueFits, PostOwnsRow, DatabaseFits, Building, Ended
<1>4. CASE UNCHANGED <<rowVars, database, creating>>
    BY <1>4 DEF SessionInv, RowInv, DueFits, PostOwnsRow, DatabaseFits
<1>5. /\ ending[e].pc = "expire" => status[s] \in Begun
      /\ ending[e].pc \in {"drop", "record"} => status[s] \in Ended
      /\ Ended \subseteq Begun /\ {"EXPIRED", "DESTROYED"} \subseteq Ended
    BY DEF SessionInv, EndersOwnRow, Begun, Ended
<1> QED
    BY <1>2, <1>3, <1>4, <1>5
    DEF End, EndFault, Expire, Drop, RecordDestroyed, Destroy, DestroyFails

LEMMA StepKeepsRows == ~SlowCreate /\ SessionInv /\ [Next]_vars => RowInv'
<1> SUFFICES ASSUME ~SlowCreate, SessionInv, [Next]_vars PROVE RowInv'
    OBVIOUS
<1>1. CASE UNCHANGED <<rowVars, database, creating>>
    BY <1>1 DEF SessionInv, RowInv, DueFits, PostOwnsRow, DatabaseFits
<1>2. CASE MarkStuck
    BY <1>2, LimitsAre
    DEF MarkStuck, With, SessionInv, RowInv, TypeOK, DueFits, PostOwnsRow, DatabaseFits,
        Building, Ended
<1>3. CASE Reap /\ ~MarkStuck
    BY <1>1, <1>3
    DEF Reap, BeginSweep, ExpireOrNot, ReadEnded, DropNext, ListCluster, ReadOwned,
        EndSweep, Reads
<1>4. ASSUME NEW s \in Session, Touch(s) PROVE RowInv'
    BY <1>4
    DEF Touch, SessionInv, RowInv, TypeOK, DueFits, PostOwnsRow, DatabaseFits
<1>5. ASSUME NEW s \in Session, NEW limit \in Limits(status[s]), Exceed(s, limit)
      PROVE  RowInv'
    BY <1>5
    DEF Exceed, SessionInv, RowInv, TypeOK, DueFits, PostOwnsRow, DatabaseFits
<1>6. CASE Crash
    BY <1>6
    DEF Crash, SessionInv, RowInv, DueFits, PostOwnsRow, DatabaseFits, Building
<1> QED
    BY <1>1, <1>2, <1>3, <1>4, <1>5, <1>6, CreateKeepsRows, EndKeepsRows
    DEF Next, vars, BeginEnd, SweepFault

-----------------------------------------------------------------------------
(***************************************************************************)
(* Ends and the reaper act on what is still true                           *)
(***************************************************************************)

ReadInv == EndersOwnRow /\ ReadsStayTrue

\* What only waits stays true, since rows move on.
LEMMA WaitingStaysTrue ==
    ASSUME SessionInv, Onward, UNCHANGED <<ending, sweepVars>>
    PROVE  ReadInv'
<1>1. ASSUME NEW e \in Enders, ending[e].pc \in {"expire", "drop", "record"}
      PROVE  /\ ending[e].pc = "expire" => status'[ending[e].id] \in Begun
             /\ ending[e].pc \in {"drop", "record"} => status'[ending[e].id] \in Ended
    BY <1>1, EndingId, OnwardKeeps DEF SessionInv, EndersOwnRow
<1>2. ASSUME sweep = "expiring", NEW k \in todo PROVE status'[k.id] \in Begun
    BY <1>2, OnwardKeeps DEF SessionInv, TypeOK, ReadsStayTrue
<1>3. ASSUME sweep \in {"retrying", "orphans"}, NEW s \in todo PROVE s \in With(Ended)'
    BY <1>3, OnwardKeeps DEF SessionInv, TypeOK, ReadsStayTrue, With
<1>4. ASSUME NEW s \in listing PROVE status'[s] # "absent"
    BY <1>4, OnwardKeeps DEF SessionInv, TypeOK, ReadsStayTrue
<1> QED BY <1>1, <1>2, <1>3, <1>4 DEF ReadInv, EndersOwnRow, ReadsStayTrue

\* An end in progress that goes on to a place its row allows.
LEMMA EnderMoves ==
    ASSUME SessionInv, Onward, NEW e \in Enders,
           NEW to \in Ending, ending' = [ending EXCEPT ![e] = to],
           to.pc = "expire" => status'[to.id] \in Begun,
           to.pc \in {"drop", "record"} => status'[to.id] \in Ended
    PROVE  EndersOwnRow'
<1>1. ASSUME NEW f \in Enders
      PROVE  /\ ending'[f].pc = "expire" => status'[ending'[f].id] \in Begun
             /\ ending'[f].pc \in {"drop", "record"} => status'[ending'[f].id] \in Ended
  <2>1. CASE f = e
    BY <2>1 DEF SessionInv, TypeOK
  <2>2. CASE f # e
    BY <2>2, EndingId, OnwardKeeps DEF SessionInv, TypeOK, EndersOwnRow
  <2> QED BY <2>1, <2>2
<1> QED BY <1>1 DEF EndersOwnRow

\* The reaper works off what it has read.
LEMMA TodoShrinks ==
    ASSUME SessionInv, Onward, todo' \subseteq todo, listing' \subseteq listing,
           sweep' = sweep \/ todo' = {}
    PROVE  ReadsStayTrue'
<1>1. ASSUME sweep' = "expiring", NEW k \in todo' PROVE status'[k.id] \in Begun
    BY <1>1, OnwardKeeps DEF SessionInv, TypeOK, ReadsStayTrue
<1>2. ASSUME sweep' \in {"retrying", "orphans"}, NEW s \in todo' PROVE s \in With(Ended)'
    BY <1>2, OnwardKeeps DEF SessionInv, TypeOK, ReadsStayTrue, With
<1>3. ASSUME NEW s \in listing' PROVE status'[s] # "absent"
    BY <1>3, OnwardKeeps DEF SessionInv, TypeOK, ReadsStayTrue
<1> QED BY <1>1, <1>2, <1>3 DEF ReadsStayTrue

LEMMA EndKeepsReads ==
    ASSUME SessionInv, Onward, NEW e \in Enders, End(e) \/ EndFault(e)
    PROVE  ReadInv'
<1> DEFINE s == ending[e].id
<1>1. /\ s \in Session
      /\ ending[e].pc = "expire" => status[s] \in Begun
      /\ ending[e].pc \in {"drop", "record"} => status[s] \in Ended
    BY EndingId DEF SessionInv, EndersOwnRow, End, EndFault, Expire, Drop, RecordDestroyed
<1>2. ReadsStayTrue'
    BY TodoShrinks DEF End, EndFault, Expire, Drop, RecordDestroyed
<1>3. CASE Expire(e)
  <2>1. status'[s] \in Ended
    BY <1>1, <1>3 DEF Expire, SetStatus, Begun, Live, Ended, SessionInv, TypeOK
  <2>2. [pc |-> "drop", id |-> s] \in Ending
    BY <1>1 DEF Ending
  <2> QED BY <1>2, <1>3, <2>1, <2>2, EnderMoves DEF Expire, EndGoes, ReadInv
<1>4. CASE Drop(e)
  <2>1. status'[s] \in Ended
    BY <1>1, <1>4 DEF Drop
  <2>2. [pc |-> "record", id |-> s] \in Ending /\ Done \in Ending /\ Done.pc = "none"
    BY <1>1 DEF Ending, Done
  <2> QED BY <1>2, <1>4, <2>1, <2>2, EnderMoves DEF Drop, EndGoes, ReadInv
<1>5. CASE RecordDestroyed(e) \/ EndFault(e)
  <2>1. Done \in Ending /\ Done.pc = "none"
    BY DEF Ending, Done
  <2> QED BY <1>2, <1>5, <2>1, EnderMoves DEF RecordDestroyed, EndFault, EndGoes, ReadInv
<1> QED BY <1>3, <1>4, <1>5 DEF End

LEMMA ReapKeepsReads ==
    ASSUME SessionInv, Onward, Reap
    PROVE  ReadInv'
<1> USE DEF SessionInv, ReadInv
<1>0. UNCHANGED ending => EndersOwnRow'
  <2> SUFFICES ASSUME UNCHANGED ending, NEW e \in Enders,
                      ending[e].pc \in {"expire", "drop", "record"}
               PROVE  /\ ending[e].pc = "expire" => status'[ending[e].id] \in Begun
                      /\ ending[e].pc \in {"drop", "record"} => status'[ending[e].id] \in Ended
    BY DEF EndersOwnRow
  <2> QED BY EndingId, OnwardKeeps DEF EndersOwnRow
<1>1. CASE BeginSweep
  <2>1. ASSUME NEW k \in todo' PROVE status'[k.id] \in Begun
    BY <1>1, <2>1 DEF BeginSweep, Reads, Known, With, Begun
  <2>2. listing' = {} /\ sweep' = "expiring"
    BY <1>1 DEF BeginSweep, Reads, Sweeping, TypeOK
  <2> QED BY <1>0, <1>1, <2>1, <2>2 DEF BeginSweep, Reads, ReadsStayTrue
<1>2. ASSUME NEW k \in todo, ExpireOrNot(k) PROVE ReadInv'
  <2>1. /\ "reaper" \in Enders /\ k.id \in Session /\ status'[k.id] \in Begun
        /\ [pc |-> "expire", id |-> k.id] \in Ending
    BY <1>2 DEF ExpireOrNot, Sweeping, ReadsStayTrue, TypeOK, Enders, Ending
  <2>2. ReadsStayTrue'
    BY <1>2, TodoShrinks DEF ExpireOrNot
  <2> QED BY <1>0, <1>2, <2>1, <2>2, EnderMoves DEF ExpireOrNot, EndGoes
<1>3. CASE MarkStuck
  <2>1. todo' = {} /\ listing' = listing /\ UNCHANGED ending
    BY <1>3 DEF MarkStuck, Sweeping
  <2> QED BY <1>0, <2>1, TodoShrinks
<1>4. CASE ReadEnded
  <2>1. todo' \subseteq With(Ended)' /\ listing' = listing /\ sweep' = "retrying"
    BY <1>4 DEF ReadEnded, Reads, With, Ended
  <2> QED BY <1>0, <1>4, <2>1 DEF ReadEnded, Reads, ReadsStayTrue
<1>5. ASSUME NEW s \in todo, DropNext(s) PROVE ReadInv'
  <2>1. /\ "reaper" \in Enders /\ s \in Session /\ status'[s] \in Ended
        /\ [pc |-> "drop", id |-> s] \in Ending
    BY <1>5 DEF DropNext, Sweeping, ReadsStayTrue, TypeOK, Enders, Ending, With
  <2>2. ReadsStayTrue'
    BY <1>5, TodoShrinks DEF DropNext
  <2> QED BY <1>5, <2>1, <2>2, EnderMoves DEF DropNext, EndGoes
<1>6. CASE ListCluster
  <2>1. ASSUME NEW s \in listing' PROVE status'[s] # "absent"
    BY <1>6, <2>1 DEF ListCluster, Reads, DatabaseFits
  <2> QED BY <1>0, <1>6, <2>1 DEF ListCluster, Reads, ReadsStayTrue
<1>7. CASE ReadOwned
  <2>1. ASSUME NEW s \in todo' PROVE s \in With(Ended)'
    BY <1>7, <2>1 DEF ReadOwned, Reads, With, Live, Ended, ReadsStayTrue, TypeOK, Status
  <2> QED BY <1>0, <1>7, <2>1 DEF ReadOwned, Reads, ReadsStayTrue
<1>8. CASE EndSweep
    BY <1>0, <1>8, TodoShrinks DEF EndSweep, Reads
<1> QED BY <1>1, <1>2, <1>3, <1>4, <1>5, <1>6, <1>7, <1>8 DEF Reap

LEMMA StepKeepsReads == SessionInv /\ Onward /\ [Next]_vars => ReadInv'
<1> SUFFICES ASSUME SessionInv, Onward, [Next]_vars PROVE ReadInv'
    OBVIOUS
<1>1. CASE UNCHANGED <<ending, sweepVars>>
    BY <1>1, WaitingStaysTrue
<1>2. ASSUME NEW s \in Session, NEW q \in Deletes, BeginEnd(q, s) PROVE ReadInv'
  <2>1. q \in Enders /\ [pc |-> "expire", id |-> s] \in Ending /\ status'[s] \in Begun
    BY <1>2 DEF BeginEnd, Enders, Ending, Begun
  <2>2. ReadsStayTrue'
    BY <1>2, TodoShrinks DEF BeginEnd
  <2> QED BY <1>2, <2>1, <2>2, EnderMoves DEF BeginEnd, EndGoes, ReadInv
<1>3. CASE SweepFault
  <2>1. ReadsStayTrue'
    BY <1>3, TodoShrinks DEF SweepFault
  <2>2. ASSUME NEW e \in Enders, ending[e].pc \in {"expire", "drop", "record"}
        PROVE  /\ ending[e].pc = "expire" => status'[ending[e].id] \in Begun
               /\ ending[e].pc \in {"drop", "record"} => status'[ending[e].id] \in Ended
    BY <1>3, <2>2, EndingId DEF SweepFault, SessionInv, EndersOwnRow
  <2> QED BY <1>3, <2>1, <2>2 DEF SweepFault, EndersOwnRow, ReadInv
<1>4. CASE Crash
    BY <1>4, TodoShrinks DEF Crash, Done, EndersOwnRow, ReadInv
<1> QED
    BY <1>1, <1>2, <1>3, <1>4, EndKeepsReads, ReapKeepsReads
    DEF Next, vars, BeginCreate, Create, CreateFault, Insert, CreateRole, CreateDatabase,
        Activate, Undo, RecordFailure, Touch, Exceed

-----------------------------------------------------------------------------
(***************************************************************************)
(* Databases are dropped of ended sessions only                            *)
(***************************************************************************)

Kept(s) ==
    Loses(s) => \/ status[s] \notin Live
                \/ creating[s] = "undo" /\ creating'[s] = "fail"

LEMMA StepKeepsDatabases ==
    ASSUME SessionInv, [Next]_vars
    PROVE  \A s \in Session : Kept(s)
<1> USE DEF Kept
<1>1. CASE UNCHANGED database
    BY <1>1 DEF Loses
<1>2. ASSUME NEW s \in Session, Create(s) \/ CreateFault(s)
      PROVE  \A t \in Session : Kept(t)
  <2>1. CASE creating[s] = "undo"
    <3>1. /\ creating'[s] = "fail"
          /\ \A t \in Session : t # s => database'[t] = database[t]
        BY <1>2, <2>1
        DEF Create, CreateFault, Insert, CreateRole, CreateDatabase, Activate, Undo,
            RecordFailure, CreateGoes, Destroy, DestroyFails, SessionInv, TypeOK
    <3> QED BY <2>1, <3>1 DEF Loses
  <2>2. CASE creating[s] = "role"
    <3>1. database[s] = "absent"
        BY <2>2 DEF SessionInv, DatabaseFits
    <3>2. \A t \in Session : t # s => database'[t] = database[t]
        BY <1>2, <2>2
        DEF Create, CreateFault, Insert, CreateRole, CreateDatabase, Activate, Undo,
            RecordFailure, SessionInv, TypeOK
    <3> QED BY <3>1, <3>2 DEF Loses
  <2>3. CASE creating[s] = "database"
    <3>1. \/ UNCHANGED database
          \/ database' = [database EXCEPT ![s] = "database"]
        BY <1>2, <2>3
        DEF Create, CreateFault, Insert, CreateRole, CreateDatabase, Activate, Undo,
            RecordFailure
    <3> QED BY <3>1 DEF Loses, SessionInv, TypeOK
  <2>4. CASE creating[s] \notin {"undo", "role", "database"}
    BY <1>1, <1>2, <2>4
    DEF Create, CreateFault, Insert, CreateRole, CreateDatabase, Activate, Undo,
        RecordFailure
  <2> QED BY <2>1, <2>2, <2>3, <2>4
<1>3. ASSUME NEW e \in Enders, End(e) \/ EndFault(e)
      PROVE  \A t \in Session : Kept(t)
  <2>1. CASE ending[e].pc = "drop"
    <3>1. status[ending[e].id] \in Ended
        BY <2>1 DEF SessionInv, EndersOwnRow
    <3>2. \/ UNCHANGED database
          \/ \E left : database' = [database EXCEPT ![ending[e].id] = left]
        BY <1>3, <2>1
        DEF End, EndFault, Expire, Drop, RecordDestroyed, Destroy, DestroyFails
    <3>3. \A t \in Session : t # ending[e].id => database'[t] = database[t]
        BY <3>2 DEF SessionInv, TypeOK
    <3> QED BY <3>1, <3>3 DEF Loses, Live, Ended
  <2>2. CASE ending[e].pc # "drop"
    BY <1>1, <1>3, <2>2 DEF End, EndFault, Expire, Drop, RecordDestroyed
  <2> QED BY <2>1, <2>2
<1>4. CASE Reap
    BY <1>1, <1>4
    DEF Reap, BeginSweep, ExpireOrNot, MarkStuck, ReadEnded, DropNext, ListCluster,
        ReadOwned, EndSweep, Reads
<1> QED
    BY <1>1, <1>2, <1>3, <1>4
    DEF Next, vars, BeginCreate, Touch, BeginEnd, SweepFault, Exceed, Crash

-----------------------------------------------------------------------------
(***************************************************************************)
(* The theorems                                                            *)
(***************************************************************************)

\* The invariant holds as long as no POST outlasts the reaper's patience.
LEMMA SessionInvHolds == ~SlowCreate => (Spec => []SessionInv)
<1> SUFFICES ASSUME ~SlowCreate PROVE Spec => []SessionInv
    OBVIOUS
<1>1. Init => SessionInv
  <2> SUFFICES ASSUME Init PROVE SessionInv
    OBVIOUS
  <2>1. TypeOK
    BY DEF Init, TypeOK, Status, Database, Creating, Ending, Sweep, Enders
  <2>2. DueFits /\ PostOwnsRow /\ DatabaseFits
    BY DEF Init, DueFits, PostOwnsRow, DatabaseFits, Building
  <2>3. EndersOwnRow /\ ReadsStayTrue
    BY DEF Init, EndersOwnRow, ReadsStayTrue, Done
  <2> QED BY <2>1, <2>2, <2>3 DEF SessionInv
<1>2. SessionInv /\ [Next]_vars => SessionInv'
  <2> SUFFICES ASSUME SessionInv, [Next]_vars PROVE SessionInv'
    OBVIOUS
  <2>1. TypeOK'
    BY StepType DEF SessionInv
  <2> QED BY <2>1, StepOnward, StepKeepsRows, StepKeepsReads DEF SessionInv, RowInv, ReadInv
<1> QED BY <1>1, <1>2, PTL DEF Spec

\* A session never goes back: the late write of a POST, of an end or of the
\* reaper finds the row where it may be written.
THEOREM SessionsMoveOn == ~SlowCreate => (Spec => OnlyForward)
<1> SUFFICES ASSUME ~SlowCreate PROVE Spec => OnlyForward
    OBVIOUS
<1>1. SessionInv /\ [Next]_vars
      => [\A s \in Session : status'[s] # status[s] => status'[s] \in Moves[status[s]]]_vars
    BY StepOnward DEF Onward
<1> QED BY <1>1, SessionInvHolds, PTL DEF Spec, OnlyForward

\* An active session has its database.
THEOREM ActiveSessionsHaveDatabases == ~SlowCreate => (Spec => []ActiveHasDatabase)
<1> SUFFICES ASSUME ~SlowCreate PROVE Spec => []ActiveHasDatabase
    OBVIOUS
<1>1. SessionInv => ActiveHasDatabase
    BY DEF SessionInv, DatabaseFits, ActiveHasDatabase
<1> QED BY <1>1, SessionInvHolds, PTL

\* Nobody drops a database of a live session but the POST that could not
\* build it: neither an end nor a retry nor the collection of orphans.
THEOREM LiveDatabasesAreKept == ~SlowCreate => (Spec => LiveDatabasesStay)
<1> SUFFICES ASSUME ~SlowCreate PROVE Spec => LiveDatabasesStay
    OBVIOUS
<1>1. SessionInv /\ [Next]_vars
      => [\A s \in Session :
            Loses(s) => \/ status[s] \notin Live
                        \/ creating[s] = "undo" /\ creating'[s] = "fail"]_vars
    BY StepKeepsDatabases DEF Kept
<1> QED BY <1>1, SessionInvHolds, PTL DEF Spec, LiveDatabasesStay

=============================================================================
