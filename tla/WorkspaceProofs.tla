---------------------------- MODULE WorkspaceProofs ----------------------------
(***************************************************************************)
(* Theorems about the workspace and their proofs: however often a view     *)
(* comes and goes and resets, the tab keeps one database, and an answer    *)
(* that is shown as current is the newest.                                 *)
(*                                                                         *)
(* serial() only orders what is queued.  That two opens never follow each  *)
(* other rests on who queues them: attach() only when nobody is attached,  *)
(* reset() behind its own close.  OpensInTurn says what this makes of the  *)
(* queue as long as nothing is queued behind a reset.                      *)
(***************************************************************************)
EXTENDS Workspace, FiniteSetTheorems, SequenceTheorems, TLAPS

-----------------------------------------------------------------------------
(***************************************************************************)
(* The inductive invariant                                                 *)
(***************************************************************************)

\* What is running is the first of the queue.
StepIsFirst ==
    /\ lifecycle \in Seq(Op) /\ stage \in Stage
    /\ stage \in {"opening", "setup"} => Next1("open")
    /\ stage = "closing" => Next1("close") \/ Next1("reset")

\* A view that is there is attached, and no timer runs.
ViewIsAttached == mounted => attached /\ ~timer

Last(op) == lifecycle # <<>> /\ lifecycle[Len(lifecycle)] = op

\* Every open but the first follows a close; a reset is the last, and someone
\* is attached; and who is not attached has queued the last close.
OpensInTurn ==
    /\ \A i \in 2..Len(lifecycle) : lifecycle[i] = "open" => lifecycle[i - 1] = "close"
    /\ \A i \in 1..Len(lifecycle) :
          lifecycle[i] = "reset" => i = Len(lifecycle) /\ attached
    /\ lifecycle # <<>> => (attached <=> ~Last("close"))

\* When the next step is an open, or would be, there is no PGlite.
Vacant == tier = "T0" => alive = {}

OneAtATime ==
    /\ alive \subseteq {db}
    /\ Next1("open") /\ stage \in {"idle", "opening"} => Vacant
    /\ lifecycle = <<>> /\ ~attached => Vacant

\* What a reset of a view that has left makes of the queue is not in turn; it
\* is of a session, and the API gives the tab no second one.
InTurn == "overlap" \notin incidents /\ (tier = "T1" => "late" \notin incidents)

TurnsInv ==
    /\ StepIsFirst /\ ViewIsAttached
    /\ tier = "T1" => alive \subseteq {db}
    /\ InTurn => OpensInTurn /\ OneAtATime

-----------------------------------------------------------------------------
(***************************************************************************)
(* The kinds of what the workspace holds                                   *)
(***************************************************************************)

Notices == [ended : BOOLEAN, db : Database, version : Nat]
Requests == [kind : Kind, ticket : Nat, to : Database \cup {0}, progress : Progress,
             version : Nat]

\* Only a session is discarded.
RequestsFit ==
    /\ requests \subseteq Requests
    /\ \A r \in requests : r.kind = "discard" => tier = "T1"

KindsFit ==
    /\ tier \in Tiers /\ clicks \in Nat
    /\ db \in Database \cup {0} /\ alive \subseteq Database /\ version \in [Database -> Nat]
    /\ \A d \in alive : version[d] # 0
    /\ RequestsFit /\ notices \in Seq(Notices)

LEMMA BecomesFits ==
    ASSUME KindsFit, NEW r \in requests, NEW p \in Progress, NEW v \in Nat, Becomes(r, p, v),
           UNCHANGED tier
    PROVE  RequestsFit'
<1> DEFINE q == [r EXCEPT !.progress = p, !.version = v, !.to = Served(r)]
<1>1. q \in Requests /\ q.kind = r.kind
    BY DEF KindsFit, RequestsFit, Requests, Served
<1>2. requests' = (requests \ {r}) \cup {q}
    BY DEF Becomes
<1> HIDE DEF q
<1> QED BY <1>1, <1>2 DEF RequestsFit, KindsFit

LEMMA AskFits ==
    ASSUME KindsFit, NEW k \in Kind, Ask(k, clicks + 1), UNCHANGED tier,
           k = "discard" => tier = "T1"
    PROVE  RequestsFit' /\ clicks' \in Nat
<1>1. [kind |-> k, ticket |-> clicks + 1, to |-> db, progress |-> "sent", version |-> 0] \in Requests
    BY DEF KindsFit, Requests, Progress
<1> QED BY <1>1 DEF Ask, Click, KindsFit, RequestsFit

LEMMA PublishFits ==
    ASSUME KindsFit, NEW d \in Database, NEW e \in BOOLEAN, NEW v \in Nat, Publish(d, e, v)
    PROVE  notices' \in Seq(Notices)
<1>1. [ended |-> e, db |-> d, version |-> v] \in Notices
    BY DEF Notices
<1> QED BY <1>1 DEF Publish, KindsFit

LEMMA OpenCreatesKinds == KindsFit /\ OpenCreates => KindsFit'
<1> SUFFICES ASSUME KindsFit, OpenCreates PROVE KindsFit'
    OBVIOUS
<1>1. UNCHANGED <<tier, clicks, requests, notices>>
    BY DEF OpenCreates, viewVars, askVars, streamVars
<1>2. CASE UNCHANGED backVars
    BY <1>1, <1>2 DEF KindsFit, RequestsFit, backVars
<1>3. ASSUME NEW d \in Database, db' = d, alive' = alive \cup {d},
             version' = [version EXCEPT ![d] = 1]
      PROVE  KindsFit'
    BY <1>1, <1>3 DEF KindsFit, RequestsFit
<1> QED BY <1>2, <1>3 DEF OpenCreates

LEMMA ServeKinds == ASSUME KindsFit, NEW r \in requests, Serve(r) PROVE KindsFit'
<1>1. UNCHANGED <<tier, clicks, db, alive>> /\ Served(r) \in Database /\ version[Served(r)] \in Nat
    BY DEF Serve, viewVars, KindsFit
<1>2. CASE Becomes(r, "done", 0) /\ UNCHANGED <<version, notices>>
    BY <1>1, <1>2, BecomesFits DEF KindsFit, Progress
<1>3. CASE /\ version' = [version EXCEPT ![Served(r)] = @ + 1]
           /\ Becomes(r, "done", version[Served(r)] + 1)
           /\ \/ Publish(Served(r), FALSE, version[Served(r)] + 1)
              \/ UNCHANGED notices
  <2>1. RequestsFit'
    BY <1>1, <1>3, BecomesFits DEF Progress
  <2>2. notices' \in Seq(Notices)
    <3>1. version[Served(r)] + 1 \in Nat /\ FALSE \in BOOLEAN
      BY <1>1
    <3> QED BY <1>1, <1>3, <3>1, PublishFits DEF KindsFit
  <2>3. version' \in [Database -> Nat] /\ \A d \in alive : version'[d] # 0
    BY <1>1, <1>3 DEF KindsFit
  <2> QED BY <1>1, <2>1, <2>2, <2>3 DEF KindsFit
<1> QED BY <1>2, <1>3 DEF Serve

\* What is asked of nobody and told to nobody keeps its kind.
LEMMA KindsStay ==
    ASSUME KindsFit, clicks' \in Nat, requests' \subseteq requests, notices' \in Seq(Notices),
           alive' \subseteq alive, db' \in {db, 0}, UNCHANGED <<tier, version>>
    PROVE  KindsFit'
    BY DEF KindsFit, RequestsFit

LEMMA KindsNext == KindsFit /\ [Next]_vars => KindsFit'
<1> SUFFICES ASSUME KindsFit, [Next]_vars PROVE KindsFit'
    OBVIOUS
<1> USE DEF viewVars, stepVars, stateVars, askVars, backVars, streamVars
<1>1. CASE Mount \/ Unmount \/ LinkRead \/ Detach \/ Reset \/ TimeTravel \/ UNCHANGED vars
  <2>1. /\ clicks' \in Nat
        /\ UNCHANGED <<tier, requests, notices, alive, db, version>>
    BY <1>1 DEF Mount, Unmount, LinkRead, Detach, Reset, TimeTravel, Click, vars, KindsFit
  <2> QED BY <2>1, KindsStay DEF KindsFit
<1>2. CASE OpenBegins \/ OpenReady \/ OpenFails
  <2>1. UNCHANGED <<tier, clicks, requests, notices, alive, db, version>>
    BY <1>2 DEF OpenBegins, OpenReady, OpenFails
  <2> QED BY <2>1, KindsStay DEF KindsFit
<1>3. CASE CloseBegins \/ StreamDrops
  <2>1. notices' = <<>> /\ UNCHANGED <<tier, clicks, requests, alive, db, version>>
    BY <1>3 DEF CloseBegins, StreamDrops
  <2>2. <<>> \in Seq(Notices)
    OBVIOUS
  <2> QED BY <2>1, <2>2, KindsStay DEF KindsFit
<1>4. CASE CloseEnds
  <2>1. /\ UNCHANGED <<tier, clicks, requests, notices, version>>
        /\ alive' \subseteq alive /\ db' \in {db, 0}
    BY <1>4 DEF CloseEnds
  <2> QED BY <2>1, KindsStay DEF KindsFit
<1>5. ASSUME NEW k \in Kind, Ask(k, clicks + 1), k = "discard" => tier = "T1",
             UNCHANGED <<tier, backVars, notices>>
      PROVE  KindsFit'
    BY <1>5, AskFits DEF KindsFit
<1>6. CASE RunAsked \/ LoadAsked \/ DiscardAsked
    BY <1>5, <1>6 DEF RunAsked, LoadAsked, DiscardAsked, Kind
<1>7. ASSUME NEW r \in requests, ServeNone(r) \/ ServeFails(r) PROVE KindsFit'
    BY <1>7, BecomesFits DEF ServeNone, ServeFails, Progress, KindsFit
<1>8. ASSUME NEW r \in requests, ServeDiscard(r) PROVE KindsFit'
  <2>1. r.to \in Database /\ UNCHANGED <<tier, clicks, db, version>> /\ alive' \subseteq alive
    BY <1>8 DEF ServeDiscard, KindsFit
  <2>2. RequestsFit'
    BY <1>8, <2>1, BecomesFits DEF ServeDiscard, Progress
  <2>3. notices' \in Seq(Notices)
    BY <1>8, <2>1, PublishFits DEF ServeDiscard
  <2> QED BY <2>1, <2>2, <2>3 DEF KindsFit
<1>9. ASSUME NEW r \in requests, RunAnswered(r) \/ LoadAnswered(r) \/ DiscardAnswered(r)
      PROVE  KindsFit'
  <2>1. requests' \subseteq requests /\ UNCHANGED <<tier, clicks, notices, alive, db, version>>
    BY <1>9 DEF RunAnswered, LoadAnswered, DiscardAnswered
  <2> QED BY <2>1, KindsStay DEF KindsFit
<1>10. CASE StreamConnects
  <2>1. UNCHANGED <<tier, clicks, requests, notices, alive, db, version>>
    BY <1>10 DEF StreamConnects
  <2> QED BY <2>1, KindsStay DEF KindsFit
<1>11. CASE OtherTabRuns
  <2>1. db \in Database /\ version[db] \in Nat /\ UNCHANGED <<tier, clicks, requests, alive, db>>
    BY <1>11 DEF OtherTabRuns, KindsFit
  <2>2. notices' \in Seq(Notices)
    <3>1. version[db] + 1 \in Nat /\ FALSE \in BOOLEAN
      BY <2>1
    <3> QED BY <1>11, <2>1, <3>1, PublishFits DEF OtherTabRuns
  <2>3. version' = [version EXCEPT ![db] = @ + 1]
    BY <1>11 DEF OtherTabRuns
  <2> QED BY <2>1, <2>2, <2>3 DEF KindsFit, RequestsFit
<1>12. CASE SessionEnds
  <2>1. notices' \in Seq(Notices)
    BY <1>12, PublishFits DEF SessionEnds, KindsFit
  <2>2. UNCHANGED <<tier, clicks, requests, db, version>> /\ alive' \subseteq alive
    BY <1>12 DEF SessionEnds
  <2> QED BY <2>1, <2>2, KindsStay DEF KindsFit
<1>13. CASE Hear
  <2>1. notices' \in Seq(Notices) /\ UNCHANGED <<tier, clicks, requests, alive, db, version>>
    BY <1>13, HeadTailProperties DEF Hear, KindsFit
  <2> QED BY <2>1, KindsStay DEF KindsFit
<1> QED BY <1>1, <1>2, <1>3, <1>4, <1>6, <1>7, <1>8, <1>9, <1>10, <1>11, <1>12, <1>13,
           OpenCreatesKinds, ServeKinds DEF Next, Serial, Service, Answer

-----------------------------------------------------------------------------
(***************************************************************************)
(* The queue                                                               *)
(***************************************************************************)

\* What is queued is the last, behind all that was there.
LEMMA Queued ==
    ASSUME lifecycle \in Seq(Op), NEW op \in Op, lifecycle' = Append(lifecycle, op)
    PROVE  /\ lifecycle' \in Seq(Op) /\ lifecycle' # <<>>
           /\ Len(lifecycle) \in Nat /\ Len(lifecycle') = Len(lifecycle) + 1
           /\ \A i \in 1..Len(lifecycle) : lifecycle'[i] = lifecycle[i]
           /\ lifecycle'[Len(lifecycle) + 1] = op
           /\ lifecycle # <<>> => lifecycle'[1] = lifecycle[1] /\ Len(lifecycle) > 0
           /\ lifecycle = <<>> => lifecycle'[1] = op /\ Len(lifecycle) = 0
    OBVIOUS

\* Who is done leaves the others, one place further.
LEMMA Dequeued ==
    ASSUME lifecycle \in Seq(Op), lifecycle # <<>>, lifecycle' = Tail(lifecycle)
    PROVE  /\ lifecycle' \in Seq(Op)
           /\ Len(lifecycle) \in Nat /\ Len(lifecycle') = Len(lifecycle) - 1
           /\ \A i \in 1..Len(lifecycle') : lifecycle'[i] = lifecycle[i + 1]
           /\ (lifecycle' = <<>>) <=> (Len(lifecycle) = 1)
<1>1. /\ lifecycle' \in Seq(Op) /\ Len(lifecycle) \in Nat /\ Len(lifecycle') = Len(lifecycle) - 1
      /\ \A i \in 1..Len(lifecycle') : lifecycle'[i] = lifecycle[i + 1]
    BY HeadTailProperties, LenProperties
<1>2. (lifecycle' = <<>>) <=> (Len(lifecycle') = 0)
    BY <1>1, EmptySeq
<1> QED BY <1>1, <1>2

\* The others are still in turn.
LEMMA DequeuedInTurn ==
    ASSUME lifecycle \in Seq(Op), lifecycle # <<>>, lifecycle' = Tail(lifecycle),
           OpensInTurn, UNCHANGED attached
    PROVE  OpensInTurn'
<1>1. /\ Len(lifecycle) \in Nat /\ Len(lifecycle') = Len(lifecycle) - 1
      /\ \A i \in 1..Len(lifecycle') : lifecycle'[i] = lifecycle[i + 1]
      /\ lifecycle' # <<>> => Len(lifecycle') # 0
    BY Dequeued
<1>2. \A i \in 2..Len(lifecycle') : lifecycle'[i] = "open" => lifecycle'[i - 1] = "close"
  <2> SUFFICES ASSUME NEW i \in 2..Len(lifecycle'), lifecycle'[i] = "open"
               PROVE  lifecycle'[i - 1] = "close"
      OBVIOUS
  <2>1. lifecycle'[i] = lifecycle[i + 1] /\ lifecycle'[i - 1] = lifecycle[i]
    BY <1>1
  <2>2. i + 1 \in 2..Len(lifecycle) /\ (i + 1) - 1 = i
    BY <1>1
  <2> QED BY <2>1, <2>2 DEF OpensInTurn
<1>3. \A i \in 1..Len(lifecycle') :
         lifecycle'[i] = "reset" => i = Len(lifecycle') /\ attached'
  <2> SUFFICES ASSUME NEW i \in 1..Len(lifecycle'), lifecycle'[i] = "reset"
               PROVE  i = Len(lifecycle') /\ attached
      OBVIOUS
  <2>1. lifecycle[i + 1] = "reset" /\ i + 1 \in 1..Len(lifecycle)
    BY <1>1
  <2>2. i + 1 = Len(lifecycle) /\ attached
    BY <2>1 DEF OpensInTurn
  <2>3. i \in Nat /\ Len(lifecycle') = Len(lifecycle) - 1 /\ Len(lifecycle) \in Nat
    BY <1>1
  <2> QED BY <2>2, <2>3
<1>4. lifecycle' # <<>> => lifecycle'[Len(lifecycle')] = lifecycle[Len(lifecycle)]
    BY <1>1
<1> QED BY <1>2, <1>3, <1>4 DEF OpensInTurn, Last

\* Most steps are not about the queue, and the history only grows.
LEMMA Quiet ==
    ASSUME TurnsInv, incidents \subseteq incidents',
           UNCHANGED <<tier, mounted, attached, timer, lifecycle, stage, db, alive>>
    PROVE  TurnsInv'
    BY DEF InTurn, TurnsInv, StepIsFirst, ViewIsAttached, OpensInTurn, OneAtATime, Last, Next1,
        Vacant

-----------------------------------------------------------------------------
(***************************************************************************)
(* The view queues                                                         *)
(***************************************************************************)

\* attach(): a view that finds nobody attached opens.
LEMMA AttachTurns ==
    ASSUME TurnsInv, Attach, incidents \subseteq incidents', UNCHANGED <<tier, stage, db, alive>>
    PROVE  TurnsInv'
<1>1. CASE attached
    BY <1>1 DEF Attach, InTurn, TurnsInv, StepIsFirst, ViewIsAttached, OpensInTurn, OneAtATime,
        Last, Next1, Vacant
<1>2. CASE ~attached
  <2>1. /\ lifecycle \in Seq(Op) /\ "open" \in Op
        /\ lifecycle' = Append(lifecycle, "open")
        /\ attached' /\ timer' = FALSE
        /\ InTurn' => InTurn
    BY <1>2 DEF Attach, InTurn, TurnsInv, StepIsFirst, Op
  <2>2. StepIsFirst'
    BY <2>1, Queued DEF TurnsInv, StepIsFirst, Next1
  <2>3. ASSUME InTurn' PROVE OpensInTurn'
    BY <1>2, <2>1, <2>3, Queued DEF TurnsInv, OpensInTurn, Last
  <2>4. ASSUME InTurn' PROVE OneAtATime'
    BY <1>2, <2>1, <2>4, Queued DEF TurnsInv, OneAtATime, Next1, Vacant
  <2> QED BY <2>1, <2>2, <2>3, <2>4 DEF TurnsInv, ViewIsAttached
<1> QED BY <1>1, <1>2

LEMMA MountTurns ==
    ASSUME TurnsInv, Mount \/ LinkRead
    PROVE  TurnsInv'
<1>1. UNCHANGED <<tier, stage, db, alive>> /\ incidents \subseteq incidents'
    BY DEF Mount, LinkRead, Note, stepVars, backVars
<1>2. CASE Attach
    BY <1>1, <1>2, AttachTurns
<1>3. CASE mounted' = FALSE /\ UNCHANGED <<attached, lifecycle, incidents>>
    BY <1>1, <1>3 DEF InTurn, TurnsInv, StepIsFirst, ViewIsAttached, OpensInTurn, OneAtATime,
        Last, Next1, Vacant
<1> QED BY <1>2, <1>3 DEF Mount, LinkRead

LEMMA DetachTurns ==
    ASSUME TurnsInv, Detach
    PROVE  TurnsInv'
<1>1. /\ lifecycle \in Seq(Op) /\ "close" \in Op
      /\ lifecycle' = Append(lifecycle, "close")
      /\ attached' = FALSE /\ timer' = FALSE /\ ~mounted'
      /\ UNCHANGED <<tier, stage, db, alive>>
      /\ InTurn' => InTurn /\ ~Resetting
    BY DEF Detach, Note, InTurn, TurnsInv, StepIsFirst, ViewIsAttached, Op, backVars
<1>2. StepIsFirst'
    BY <1>1, Queued DEF TurnsInv, StepIsFirst, Next1
<1>3. ASSUME InTurn' PROVE OpensInTurn'
  <2>1. OpensInTurn /\ \A i \in 1..Len(lifecycle) : lifecycle[i] # "reset"
    BY <1>1, <1>3 DEF TurnsInv, Resetting
  <2> QED BY <1>1, <2>1, Queued DEF OpensInTurn, Last
<1>4. ASSUME InTurn' PROVE OneAtATime'
    BY <1>1, <1>4, Queued DEF TurnsInv, OneAtATime, Next1, Vacant
<1> QED BY <1>1, <1>2, <1>3, <1>4 DEF TurnsInv, ViewIsAttached

\* A reset of a session may find nobody attached, and is not in turn then.
LEMMA ResetTurns ==
    ASSUME TurnsInv, BeginReset, attached \/ tier = "T1",
           UNCHANGED <<tier, mounted, attached, timer, stage, db, alive>>
    PROVE  TurnsInv'
<1>1. /\ lifecycle \in Seq(Op) /\ "reset" \in Op
      /\ lifecycle' = Append(lifecycle, "reset")
      /\ InTurn' => InTurn /\ ~Resetting /\ attached
    BY DEF BeginReset, Note, InTurn, TurnsInv, StepIsFirst, Op
<1>2. StepIsFirst'
    BY <1>1, Queued DEF TurnsInv, StepIsFirst, Next1
<1>3. ASSUME InTurn' PROVE OpensInTurn'
  <2>1. OpensInTurn /\ attached /\ \A i \in 1..Len(lifecycle) : lifecycle[i] # "reset"
    BY <1>1, <1>3 DEF TurnsInv, Resetting
  <2> QED BY <1>1, <2>1, Queued DEF OpensInTurn, Last
<1>4. ASSUME InTurn' PROVE OneAtATime'
  <2>1. OneAtATime /\ attached
    BY <1>1, <1>4 DEF TurnsInv
  <2> QED BY <1>1, <2>1, Queued DEF OneAtATime, Next1, Vacant
<1> QED BY <1>2, <1>3, <1>4 DEF TurnsInv, ViewIsAttached

-----------------------------------------------------------------------------
(***************************************************************************)
(* The queue is worked off                                                 *)
(***************************************************************************)

LEMMA OpenBeginsTurns ==
    ASSUME TurnsInv, OpenBegins
    PROVE  TurnsInv'
    BY DEF OpenBegins, Note, InTurn, TurnsInv, StepIsFirst, ViewIsAttached, OpensInTurn, OneAtATime, Last,
        Next1, Vacant, Stage, viewVars, askVars, backVars

LEMMA CloseBeginsTurns ==
    ASSUME TurnsInv, CloseBegins
    PROVE  TurnsInv'
    BY DEF CloseBegins, Note, InTurn, TurnsInv, StepIsFirst, ViewIsAttached, OpensInTurn, OneAtATime, Last,
        Next1, Vacant, Stage, viewVars, askVars, backVars

\* The only step that makes a database finds none.
LEMMA OpenCreatesTurns ==
    ASSUME TurnsInv, OpenCreates
    PROVE  TurnsInv'
<1>1. /\ stage = "opening" /\ stage' = "setup"
      /\ UNCHANGED <<tier, mounted, attached, timer, lifecycle, incidents>>
    BY DEF OpenCreates, viewVars
<1>2. StepIsFirst' /\ ViewIsAttached'
    BY <1>1 DEF TurnsInv, StepIsFirst, ViewIsAttached, Next1, Stage
<1>3. ASSUME InTurn PROVE OpensInTurn' /\ OneAtATime'
  <2>1. OpensInTurn /\ OneAtATime /\ Next1("open")
    BY <1>1, <1>3 DEF TurnsInv, StepIsFirst
  <2>2. CASE UNCHANGED backVars
    BY <1>1, <2>1, <2>2 DEF OpensInTurn, OneAtATime, Last, Next1, backVars
  <2>3. CASE tier = "T0" \/ db \notin alive
    <3>1. alive = {}
      BY <1>1, <2>1, <2>3 DEF OneAtATime, Vacant
    <3>2. UNCHANGED backVars \/ alive' \subseteq {db'}
      BY <3>1 DEF OpenCreates
    <3> QED BY <1>1, <2>1, <2>2, <3>2 DEF OpensInTurn, OneAtATime, Last, Next1
  <2> QED BY <2>2, <2>3 DEF OpenCreates
<1>4. tier = "T1" => alive' \subseteq {db'}
  <2> SUFFICES ASSUME tier = "T1" PROVE alive' \subseteq {db'}
      OBVIOUS
  <2>1. alive \subseteq {db} /\ tier # "T0"
    BY DEF TurnsInv
  <2> QED BY <2>1 DEF OpenCreates, backVars
<1> QED BY <1>1, <1>2, <1>3, <1>4 DEF TurnsInv, InTurn

\* An open is followed by no other open, and whoever queued it is attached.
LEMMA OpenLeaves ==
    ASSUME lifecycle \in Seq(Op), Next1("open"), OpensInTurn, lifecycle' = Tail(lifecycle)
    PROVE  ~Next1("open")' /\ (lifecycle' = <<>> => attached)
<1>1. /\ Len(lifecycle) \in Nat /\ Len(lifecycle') = Len(lifecycle) - 1
      /\ lifecycle' # <<>> => Len(lifecycle') # 0 /\ lifecycle'[1] = lifecycle[2]
    BY Dequeued DEF Next1
<1>2. Len(lifecycle) >= 2 => (lifecycle[2] = "open" => lifecycle[1] = "close")
  <2> SUFFICES ASSUME Len(lifecycle) >= 2, lifecycle[2] = "open"
               PROVE  lifecycle[1] = "close"
      OBVIOUS
  <2>1. 2 \in 2..Len(lifecycle) /\ 2 - 1 = 1
    BY <1>1
  <2> QED BY <2>1 DEF OpensInTurn
<1>3. lifecycle' # <<>> => Len(lifecycle) >= 2 /\ lifecycle'[1] = lifecycle[2]
    BY <1>1
<1>4. lifecycle' = <<>> => attached
  <2>1. lifecycle # <<>> /\ lifecycle[1] = "open" /\ (lifecycle' = <<>> => Len(lifecycle) = 1)
    BY Dequeued DEF Next1
  <2> QED BY <2>1 DEF OpensInTurn, Last
<1> QED BY <1>2, <1>3, <1>4 DEF Next1

\* An open, finished or failed, is followed by no other open.
LEMMA OpenEndsTurns ==
    ASSUME TurnsInv, OpenReady \/ OpenFails
    PROVE  TurnsInv'
<1>1. /\ lifecycle \in Seq(Op) /\ Next1("open")
      /\ lifecycle' = Tail(lifecycle) /\ stage' = "idle"
      /\ UNCHANGED <<tier, mounted, attached, timer, db, alive>>
      /\ incidents \subseteq incidents'
    BY DEF OpenReady, OpenFails, Note, Fault, TurnsInv, StepIsFirst, viewVars, backVars
<1>2. StepIsFirst' /\ ViewIsAttached'
    BY <1>1, Dequeued DEF TurnsInv, StepIsFirst, ViewIsAttached, Next1, Stage
<1>3. ASSUME InTurn PROVE OpensInTurn' /\ OneAtATime'
  <2>1. OpensInTurn /\ OneAtATime
    BY <1>3 DEF TurnsInv
  <2>2. OpensInTurn'
    BY <1>1, <2>1, DequeuedInTurn DEF Next1
  <2>3. ~Next1("open")' /\ (lifecycle' = <<>> => attached)
    BY <1>1, <2>1, OpenLeaves
  <2> QED BY <1>1, <2>1, <2>2, <2>3 DEF OneAtATime
<1> QED BY <1>1, <1>2, <1>3 DEF TurnsInv, InTurn

\* Nothing is queued behind a reset: its open comes next.
LEMMA ResetIsAlone ==
    ASSUME lifecycle \in Seq(Op), Next1("reset"), OpensInTurn,
           lifecycle' = Append(Tail(lifecycle), "open")
    PROVE  lifecycle' = <<"open">> /\ attached
<1>1. Len(lifecycle) = 1 /\ attached
  <2>1. Len(lifecycle) \in Nat /\ Len(lifecycle) # 0 /\ lifecycle[1] = "reset"
    BY LenProperties, EmptySeq DEF Next1
  <2>2. 1 \in 1..Len(lifecycle)
    BY <2>1
  <2> QED BY <2>1, <2>2 DEF OpensInTurn
<1>2. Tail(lifecycle) = <<>>
  <2>1. lifecycle # <<>>
    BY DEF Next1
  <2>2. Tail(lifecycle) \in Seq(Op) /\ Len(Tail(lifecycle)) = 0
    BY <1>1, <2>1, HeadTailProperties
  <2> QED BY <2>2, EmptySeq
<1>3. Append(<<>>, "open") = <<"open">>
    OBVIOUS
<1> QED BY <1>1, <1>2, <1>3

\* A close leaves nothing for an open to find; behind a reset there is none.
LEMMA CloseEndsTurns ==
    ASSUME TurnsInv, CloseEnds
    PROVE  TurnsInv'
<1>1. /\ lifecycle \in Seq(Op) /\ stage' = "idle"
      /\ UNCHANGED <<tier, mounted, attached, timer, incidents>>
      /\ \/ tier = "T0" /\ db' = 0 /\ alive' = alive \ {db}
         \/ tier = "T1" /\ UNCHANGED <<db, alive>>
    BY DEF CloseEnds, TurnsInv, StepIsFirst, viewVars
<1>2. /\ tier = "T1" => alive' \subseteq {db'}
      /\ InTurn => alive' \subseteq {db'} /\ Vacant'
      /\ InTurn' => InTurn
    BY <1>1 DEF TurnsInv, InTurn, OneAtATime, Vacant
<1>3. CASE Next1("close") /\ lifecycle' = Tail(lifecycle)
  <2>1. StepIsFirst' /\ ViewIsAttached'
    BY <1>1, <1>3, Dequeued DEF TurnsInv, StepIsFirst, ViewIsAttached, Next1, Stage
  <2>2. ASSUME InTurn PROVE OpensInTurn'
    BY <1>1, <1>3, <2>2, DequeuedInTurn DEF TurnsInv, Next1
  <2> QED BY <1>1, <1>2, <2>1, <2>2 DEF TurnsInv, OneAtATime
<1>4. CASE Next1("reset") /\ lifecycle' = Append(Tail(lifecycle), "open")
  <2>1. StepIsFirst' /\ ViewIsAttached'
    BY <1>1, <1>4 DEF TurnsInv, StepIsFirst, ViewIsAttached, Next1, Stage, Op
  <2>2. ASSUME InTurn PROVE OpensInTurn'
    <3>1. lifecycle' = <<"open">> /\ attached
      BY <1>1, <1>4, <2>2, ResetIsAlone DEF TurnsInv
    <3> QED BY <1>1, <3>1 DEF OpensInTurn, Last
  <2> QED BY <1>1, <1>2, <2>1, <2>2 DEF TurnsInv, OneAtATime
<1> QED BY <1>3, <1>4 DEF CloseEnds

-----------------------------------------------------------------------------
(***************************************************************************)
(* The theorems                                                            *)
(***************************************************************************)

\* Requests and the stream are not about the queue, nor is a view that goes.
LEMMA OtherTurns ==
    ASSUME TurnsInv,
           Unmount \/ TimeTravel \/ RunAsked \/ LoadAsked \/ DiscardAsked \/ Service
           \/ StreamConnects \/ StreamDrops \/ OtherTabRuns \/ SessionEnds \/ Hear
           \/ UNCHANGED vars
    PROVE  TurnsInv'
<1> USE DEF viewVars, stepVars, stateVars, askVars, backVars, streamVars
<1>1. CASE Unmount
    BY <1>1 DEF Unmount, InTurn, TurnsInv, StepIsFirst, ViewIsAttached, OpensInTurn, OneAtATime,
        Last, Next1, Vacant
<1>2. CASE TimeTravel \/ RunAsked \/ LoadAsked \/ DiscardAsked
    BY <1>2, Quiet DEF TimeTravel, RunAsked, LoadAsked, DiscardAsked, Ask, Click
<1>3. ASSUME NEW r \in requests, Serve(r) \/ ServeNone(r) \/ ServeFails(r) PROVE TurnsInv'
    BY <1>3, Quiet DEF Serve, ServeNone, ServeFails, Note
<1>4. CASE StreamConnects \/ StreamDrops \/ OtherTabRuns \/ Hear \/ UNCHANGED vars
    BY <1>4, Quiet DEF StreamConnects, StreamDrops, OtherTabRuns, Hear, Note, vars
<1>5. ASSUME alive' \subseteq alive,
             UNCHANGED <<tier, mounted, attached, timer, lifecycle, stage, db, incidents>>
      PROVE  TurnsInv'
    BY <1>5 DEF InTurn, TurnsInv, StepIsFirst, ViewIsAttached, OpensInTurn, OneAtATime, Last,
        Next1, Vacant
<1>6. ASSUME NEW r \in requests, ServeDiscard(r) PROVE TurnsInv'
    BY <1>5, <1>6 DEF ServeDiscard
<1>7. CASE SessionEnds
    BY <1>5, <1>7 DEF SessionEnds
<1> QED BY <1>1, <1>2, <1>3, <1>4, <1>6, <1>7 DEF Service

\* A discard answered queues a reset, whatever has become of its view.
LEMMA AnswerTurns ==
    ASSUME TurnsInv, KindsFit, Answer
    PROVE  TurnsInv'
<1> USE DEF viewVars, stepVars, stateVars, askVars, backVars, streamVars
<1>1. ASSUME NEW r \in requests, RunAnswered(r) \/ LoadAnswered(r) PROVE TurnsInv'
    BY <1>1, Quiet DEF RunAnswered, LoadAnswered, Note
<1>2. ASSUME NEW r \in requests, DiscardAnswered(r) PROVE TurnsInv'
  <2>1. tier = "T1" /\ UNCHANGED <<tier, mounted, attached, timer, stage, db, alive>>
    BY <1>2 DEF DiscardAnswered, KindsFit, RequestsFit
  <2>2. CASE BeginReset
    BY <2>1, <2>2, ResetTurns
  <2>3. CASE UNCHANGED <<lifecycle, incidents>>
    BY <2>1, <2>3, Quiet
  <2> QED BY <1>2, <2>2, <2>3 DEF DiscardAnswered
<1> QED BY <1>1, <1>2 DEF Answer

LEMMA TurnsNext == TurnsInv /\ KindsFit /\ [Next]_vars => TurnsInv'
<1> SUFFICES ASSUME TurnsInv, KindsFit, [Next]_vars PROVE TurnsInv'
    OBVIOUS
<1>1. CASE Reset
  <2>1. BeginReset /\ attached /\ UNCHANGED <<tier, mounted, attached, timer, stage, db, alive>>
    BY <1>1 DEF Reset, TurnsInv, ViewIsAttached, backVars
  <2> QED BY <2>1, ResetTurns
<1> QED BY <1>1, MountTurns, DetachTurns, OpenBeginsTurns, OpenCreatesTurns, OpenEndsTurns,
           CloseBeginsTurns, CloseEndsTurns, OtherTurns, AnswerTurns DEF Next, Serial

LEMMA TurnsInit == Init => TurnsInv /\ KindsFit
    BY DEF Init, TurnsInv, InTurn, StepIsFirst, ViewIsAttached, OpensInTurn, OneAtATime, Last,
        Next1, Vacant, Stage, KindsFit, RequestsFit

\* A tab keeps one database, however its views come, go and reset, unless a
\* reset crosses another reset or the closing of a view (store.ts, serial).
THEOREM TabKeepsOneDatabase == Spec => []OneDatabase
<1>1. TurnsInv /\ KindsFit => OneDatabase
  <2> SUFFICES ASSUME alive \subseteq {db} PROVE Cardinality(alive) <= 1
      BY WorkspaceAssumption DEF TurnsInv, InTurn, OneAtATime, OneDatabase, KindsFit
  <2>1. alive = {} \/ alive = {db}
    OBVIOUS
  <2>2. Cardinality({}) = 0 /\ Cardinality({db}) = 1
    BY FS_EmptySet, FS_Singleton
  <2> QED BY <2>1, <2>2
<1> QED BY <1>1, TurnsInit, TurnsNext, KindsNext, PTL DEF Spec

\* Only the newest request of a kind writes its answer (store.ts, load).
THEOREM NewestIsShown == Spec => []NewestAnswerWins
<1>1. Init => NewestAnswerWins
    BY DEF Init, NewestAnswerWins, IdleSlice
<1>2. NewestAnswerWins /\ [Next]_vars => NewestAnswerWins'
  <2> SUFFICES ASSUME NewestAnswerWins, [Next]_vars PROVE NewestAnswerWins'
      OBVIOUS
  <2> USE DEF viewVars, stepVars, stateVars, askVars, backVars, streamVars
  <2>1. CASE Mount \/ Unmount \/ LinkRead \/ Detach \/ Reset \/ TimeTravel \/ UNCHANGED vars
    BY <2>1 DEF Mount, Unmount, LinkRead, Detach, Reset, TimeTravel, vars, NewestAnswerWins
  <2>2. CASE OpenBegins \/ OpenCreates \/ OpenReady \/ OpenFails \/ CloseBegins
    BY <2>2 DEF OpenBegins, OpenCreates, OpenReady, OpenFails, CloseBegins, NewestAnswerWins
  <2>3. CASE CloseEnds
    BY <2>3 DEF CloseEnds, Forget, IdleSlice, NewestAnswerWins
  <2>4. CASE RunAsked \/ DiscardAsked
    BY <2>4 DEF RunAsked, DiscardAsked, NewestAnswerWins
  <2>5. CASE LoadAsked
    <3>1. slice'.status = "loading" \/ slice'.status = slice.status
      BY <2>5 DEF LoadAsked
    <3> QED BY <2>5, <3>1 DEF LoadAsked, NewestAnswerWins
  <2>6. ASSUME NEW r \in requests,
               \/ Serve(r) \/ ServeDiscard(r) \/ ServeNone(r) \/ ServeFails(r)
               \/ RunAnswered(r) \/ DiscardAnswered(r)
        PROVE  NewestAnswerWins'
    BY <2>6 DEF Serve, ServeDiscard, ServeNone, ServeFails, RunAnswered, DiscardAnswered,
        NewestAnswerWins
  <2>7. ASSUME NEW r \in requests, LoadAnswered(r) PROVE NewestAnswerWins'
    BY <2>7 DEF LoadAnswered, LandsIfNewest, NewestAnswerWins
  <2>8. CASE StreamConnects \/ StreamDrops \/ OtherTabRuns \/ SessionEnds \/ Hear
    BY <2>8 DEF StreamConnects, StreamDrops, OtherTabRuns, SessionEnds, Hear, NewestAnswerWins
  <2> QED BY <2>1, <2>2, <2>3, <2>4, <2>5, <2>6, <2>7, <2>8 DEF Next, Serial, Service, Answer
<1> QED BY <1>1, <1>2, PTL DEF Spec

-----------------------------------------------------------------------------
(***************************************************************************)
(* The canvas                                                              *)
(*                                                                         *)
(* What the store shows is behind the database only by what is still on    *)
(* its way: a notice, or the answer of the run.  So this says, as long as  *)
(* no step has crossed another, where the newest version is to be found.   *)
(***************************************************************************)
\* Who waits for the delay of detach() is attached, and a view that comes back
\* is queued behind the close of the one that went.
ViewsInTurn ==
    /\ timer => attached
    /\ \A i \in 1..(Len(lifecycle) - 1) : lifecycle[i] = "close" => lifecycle[i + 1] = "open"

\* From the begin of a close to the end of the open behind it, nothing is
\* shown that has to be current.
Away ==
    \/ stage = "closing" \/ Next1("open")
    \/ lifecycle = <<>> /\ ~attached

\* One script runs at a time, and none while a database is opened.
OneRun ==
    /\ \A r, s \in requests : r.kind = "run" /\ s.kind = "run" => r = s
    /\ RunInFlight => status \in {"running", "ended"}
    /\ stage \in {"opening", "setup"} => status = "opening"

\* The database that is opened is the one whose version was answered.
OpensWhatIs ==
    stage = "setup" => db # 0 /\ version[db] # 0 /\ (tier = "T1" => opened = version[db])

\* There is a stream only of a session, and only while its schema is shown.
StreamFits ==
    /\ stream = "open" => heard = db /\ db # 0
    /\ stream # "none" => tier = "T1" /\ ~Away /\ status \notin {"opening", "failed"}
    /\ notices # <<>> => stream = "open"

\* An answer is of the database there is, and never ahead of it.
AnswersFit ==
    \A r \in requests :
        r.kind = "run" =>
            /\ r.version # 0 => r.progress = "done"
            /\ tier = "T1" => r.to = db
            /\ db # 0 /\ r.version # 0 => r.to = db /\ r.version <= version[db]

\* A change on its way is the newest, or a newer one is behind it.
Change(i) == ~notices[i].ended
NoticesFit ==
    \A i \in 1..Len(notices) :
        /\ notices[i].db = db
        /\ Change(i) => \/ notices[i].version = version[db]
                        \/ \E j \in (i + 1)..Len(notices) : Change(j)

\* The newest version is in a notice, is shown, or is the answer of the run.
Current == snapshot = [db |-> db, version |-> version[db]]
Answered(r) == r.kind = "run" /\ r.version = version[db]
NewestIsComing ==
    ~Away /\ status \notin {"opening", "failed"} =>
        /\ db # 0 /\ version[db] # 0
        /\ \/ \E i \in 1..Len(notices) : Change(i)
           \/ Current
           \/ \E r \in requests : Answered(r)

CanvasFits ==
    /\ ViewsInTurn /\ OneRun /\ OpensWhatIs /\ StreamFits /\ AnswersFit /\ NoticesFit
    /\ NewestIsComing

CanvasInv ==
    /\ TurnsInv /\ KindsFit
    /\ incidents = {} => CanvasFits

\* In a step that crosses nothing, nothing has been crossed before it.
Calm == incidents = {} /\ incidents' = {}

-----------------------------------------------------------------------------
(***************************************************************************)
(* The canvas: the view and the queue                                      *)
(***************************************************************************)

\* What neither the queue nor the requests nor the stream notice.
LEMMA CanvasStays ==
    ASSUME CanvasFits, timer' => attached',
           UNCHANGED <<tier, attached, lifecycle, stage, opened, status, snapshot, requests, db,
                       version, streamVars>>
    PROVE  CanvasFits'
<1>1. Away' = Away
    BY DEF Away, Next1
<1>2. ViewsInTurn' /\ OneRun' /\ OpensWhatIs'
    BY DEF CanvasFits, ViewsInTurn, OneRun, RunInFlight, OpensWhatIs
<1>3. StreamFits' /\ AnswersFit' /\ NoticesFit'
    BY <1>1 DEF CanvasFits, StreamFits, AnswersFit, NoticesFit, Change, streamVars
<1>4. NewestIsComing'
    BY <1>1 DEF CanvasFits, NewestIsComing, Change, Current, Answered, streamVars
<1> QED BY <1>2, <1>3, <1>4 DEF CanvasFits

\* The runs in flight are those that were.
RunsStay == \A r : r.kind = "run" => (r \in requests <=> r \in requests')

LEMMA RunsFit ==
    ASSUME OneRun, AnswersFit, RunsStay, UNCHANGED <<tier, stage, status, db, version>>
    PROVE  OneRun' /\ AnswersFit'
<1>1. RunInFlight' <=> RunInFlight
    BY DEF RunsStay, RunInFlight
<1>2. OneRun'
    BY <1>1 DEF OneRun, RunsStay
<1>3. AnswersFit'
    BY DEF AnswersFit, RunsStay
<1> QED BY <1>2, <1>3

\* What is queued is behind what is there.
LEMMA CanvasQueues ==
    ASSUME CanvasFits, TurnsInv, OpensInTurn, timer' => attached',
           NEW op \in Op, lifecycle' = Append(lifecycle, op),
           UNCHANGED <<tier, stage, opened, status, snapshot, db, version, streamVars>>,
           RunsStay,
           \/ attached /\ op # "open"
           \/ ~attached /\ op = "open"
    PROVE  CanvasFits'
<1>1. lifecycle \in Seq(Op) /\ stage \in Stage
    BY DEF TurnsInv, StepIsFirst
<1>2. Away' = Away
  <2>1. lifecycle # <<>> => lifecycle' # <<>> /\ lifecycle'[1] = lifecycle[1]
    BY <1>1, Queued
  <2>2. lifecycle = <<>> => lifecycle' # <<>> /\ lifecycle'[1] = op /\ stage \notin {"closing"}
    BY <1>1, Queued DEF TurnsInv, StepIsFirst, Next1
  <2> QED BY <2>1, <2>2 DEF Away, Next1
<1>3. ViewsInTurn'
  <2>1. /\ Len(lifecycle) \in Nat /\ Len(lifecycle') = Len(lifecycle) + 1
        /\ \A i \in 1..Len(lifecycle) : lifecycle'[i] = lifecycle[i]
        /\ lifecycle'[Len(lifecycle) + 1] = op
        /\ lifecycle = <<>> => Len(lifecycle) = 0
    BY <1>1, Queued
  <2> SUFFICES ASSUME NEW i \in 1..(Len(lifecycle') - 1), lifecycle'[i] = "close"
               PROVE  lifecycle'[i + 1] = "open"
      BY DEF ViewsInTurn
  <2>2. i \in 1..Len(lifecycle) /\ lifecycle[i] = "close"
    BY <2>1
  <2>3. CASE i = Len(lifecycle)
    BY <2>1, <2>2, <2>3 DEF OpensInTurn, Last
  <2>4. CASE i # Len(lifecycle)
    <3>1. i \in 1..(Len(lifecycle) - 1) /\ i + 1 \in 1..Len(lifecycle)
      BY <2>1, <2>2, <2>4
    <3> QED BY <2>1, <2>2, <3>1 DEF CanvasFits, ViewsInTurn
  <2> QED BY <2>3, <2>4
<1>4. OneRun' /\ AnswersFit'
    BY RunsFit DEF CanvasFits
<1>5. OpensWhatIs' /\ StreamFits' /\ NoticesFit'
    BY <1>2 DEF CanvasFits, OpensWhatIs, StreamFits, NoticesFit, Change, streamVars
<1>6. NewestIsComing'
    BY <1>2 DEF CanvasFits, NewestIsComing, Change, Current, Answered, RunsStay, streamVars
<1> QED BY <1>3, <1>4, <1>5, <1>6 DEF CanvasFits

LEMMA ViewCanvas ==
    ASSUME CanvasInv, Calm,
           Mount \/ Unmount \/ LinkRead \/ Detach \/ Reset \/ TimeTravel \/ UNCHANGED vars
    PROVE  CanvasFits'
<1>1. /\ CanvasFits /\ TurnsInv /\ OpensInTurn /\ ViewIsAttached /\ (timer => attached)
      /\ UNCHANGED <<tier, stage, opened, status, snapshot, requests, db, version, streamVars>>
      /\ RunsStay
  <2>1. UNCHANGED <<tier, stage, opened, status, snapshot, requests, db, version, streamVars>>
    BY DEF Mount, Unmount, LinkRead, Detach, Reset, TimeTravel, vars, stepVars, stateVars, askVars,
        backVars
  <2> QED BY <2>1 DEF CanvasInv, Calm, CanvasFits, ViewsInTurn, TurnsInv, InTurn, RunsStay
<1>2. CASE Attach
  <2>1. CASE attached
    <3>1. UNCHANGED lifecycle /\ attached' = TRUE /\ timer' = FALSE
      BY <1>2, <2>1 DEF Attach
    <3> QED BY <1>1, <2>1, <3>1, CanvasStays
  <2>2. CASE ~attached
    BY <1>1, <1>2, <2>2, CanvasQueues DEF Attach, Op
  <2> QED BY <2>1, <2>2
<1>3. CASE LinkRead /\ ~Attach
  <2>1. UNCHANGED <<attached, lifecycle>> /\ (timer' => timer \/ mounted)
    BY <1>3 DEF LinkRead
  <2> QED BY <1>1, <2>1, CanvasStays DEF ViewIsAttached
<1>4. CASE Unmount \/ TimeTravel \/ UNCHANGED vars
  <2>1. UNCHANGED <<attached, lifecycle>> /\ (timer' => timer \/ mounted)
    BY <1>4 DEF Unmount, TimeTravel, vars, stepVars, viewVars
  <2> QED BY <1>1, <2>1, CanvasStays DEF ViewIsAttached
<1>5. CASE Detach
  <2>1. lifecycle' = Append(lifecycle, "close") /\ "close" \in Op /\ attached /\ ~timer'
    BY <1>1, <1>5 DEF Detach, Op
  <2> QED BY <1>1, <2>1, CanvasQueues
<1>6. CASE Reset
  <2>1. lifecycle' = Append(lifecycle, "reset") /\ "reset" \in Op /\ attached /\ attached'
    BY <1>1, <1>6 DEF Reset, BeginReset, ViewIsAttached, Op
  <2> QED BY <1>1, <2>1, CanvasQueues
<1> QED BY <1>2, <1>3, <1>4, <1>5, <1>6 DEF Mount, LinkRead

-----------------------------------------------------------------------------
(***************************************************************************)
(* The canvas: opening and closing                                         *)
(***************************************************************************)

LEMMA BeginsCanvas ==
    ASSUME CanvasInv, Calm, OpenBegins \/ CloseBegins
    PROVE  CanvasFits'
<1>1. CanvasFits /\ TurnsInv /\ ~RunInFlight
    BY DEF CanvasInv, Calm, OpenBegins, CloseBegins, Note
<1>2. /\ UNCHANGED <<tier, attached, timer, lifecycle, requests, db, version>>
      /\ stage' \in {"opening", "closing"} /\ Away'
    BY DEF OpenBegins, CloseBegins, Away, Next1, viewVars, askVars, backVars
<1>3. ViewsInTurn' /\ OneRun'
    BY <1>1, <1>2 DEF OpenBegins, CloseBegins, CanvasFits, ViewsInTurn, OneRun, RunInFlight
<1>4. stream' = "none" /\ notices' = <<>>
    BY <1>1 DEF OpenBegins, CloseBegins, CanvasFits, StreamFits, Away, streamVars
<1>5. StreamFits' /\ NoticesFit' /\ OpensWhatIs'
    BY <1>2, <1>4 DEF StreamFits, NoticesFit, OpensWhatIs
<1>6. AnswersFit' /\ NewestIsComing'
    BY <1>1, <1>2 DEF CanvasFits, AnswersFit, NewestIsComing
<1> QED BY <1>3, <1>5, <1>6 DEF CanvasFits

\* While it opens, no run is in flight and no stream is open.
LEMMA OpeningIsQuiet ==
    ASSUME CanvasFits, TurnsInv, stage \in {"opening", "setup"}
    PROVE  ~RunInFlight /\ Away /\ stream = "none" /\ notices = <<>> /\ Next1("open")
<1>1. Next1("open") /\ Away
    BY DEF TurnsInv, StepIsFirst, Away
<1> QED BY <1>1 DEF CanvasFits, OneRun, StreamFits

LEMMA OpenCreatesCanvas ==
    ASSUME CanvasInv, Calm, OpenCreates
    PROVE  CanvasFits'
<1>1. CanvasFits /\ TurnsInv /\ KindsFit /\ stage = "opening" /\ stage' = "setup"
    BY DEF CanvasInv, Calm, OpenCreates
<1>2. ~RunInFlight /\ Away /\ stream = "none" /\ notices = <<>> /\ Next1("open")
    BY <1>1, OpeningIsQuiet
<1>3. /\ UNCHANGED <<tier, attached, timer, lifecycle, status, snapshot, requests, stream,
                     heard, notices>>
      /\ Away'
    BY <1>2 DEF OpenCreates, Away, Next1, viewVars, stateVars, askVars, streamVars
<1>4. ViewsInTurn' /\ OneRun'
    BY <1>1, <1>2, <1>3 DEF CanvasFits, ViewsInTurn, OneRun, RunInFlight
<1>5. StreamFits' /\ NoticesFit' /\ AnswersFit' /\ NewestIsComing'
    BY <1>2, <1>3 DEF StreamFits, NoticesFit, AnswersFit, NewestIsComing, RunInFlight
<1>6. OpensWhatIs'
  <2>1. CASE tier = "T1" /\ db \in alive /\ opened' = version[db] /\ UNCHANGED backVars
    BY <1>1, <2>1 DEF KindsFit, OpensWhatIs, Database, backVars
  <2>2. ASSUME NEW d \in Database, db' = d, version' = [version EXCEPT ![d] = 1], opened' = 1
        PROVE  OpensWhatIs'
    BY <1>1, <2>2 DEF KindsFit, OpensWhatIs, Database
  <2> QED BY <2>1, <2>2 DEF OpenCreates
<1> QED BY <1>4, <1>5, <1>6 DEF CanvasFits

\* The others are still in turn.
LEMMA ViewsDequeued ==
    ASSUME lifecycle \in Seq(Op), lifecycle # <<>>, lifecycle' = Tail(lifecycle),
           ViewsInTurn, UNCHANGED <<attached, timer>>
    PROVE  ViewsInTurn'
<1>1. /\ Len(lifecycle) \in Nat /\ Len(lifecycle') = Len(lifecycle) - 1
      /\ \A i \in 1..Len(lifecycle') : lifecycle'[i] = lifecycle[i + 1]
    BY Dequeued
<1> SUFFICES ASSUME NEW i \in 1..(Len(lifecycle') - 1), lifecycle'[i] = "close"
             PROVE  lifecycle'[i + 1] = "open"
    BY DEF ViewsInTurn
<1>2. i \in 1..Len(lifecycle') /\ i + 1 \in 1..Len(lifecycle') /\ i + 1 \in 1..(Len(lifecycle) - 1)
    BY <1>1
<1>3. lifecycle[i + 1] = "close" /\ lifecycle'[i + 1] = lifecycle[(i + 1) + 1]
    BY <1>1, <1>2
<1> QED BY <1>2, <1>3 DEF ViewsInTurn

LEMMA OpenEndsCanvas ==
    ASSUME CanvasInv, Calm, OpenReady \/ OpenFails
    PROVE  CanvasFits'
<1>1. /\ CanvasFits /\ TurnsInv /\ KindsFit /\ OpensInTurn /\ lifecycle \in Seq(Op)
      /\ stage \in {"opening", "setup"} /\ stage' = "idle"
    BY DEF CanvasInv, Calm, TurnsInv, InTurn, StepIsFirst, OpenReady, OpenFails
<1>2. ~RunInFlight /\ Away /\ stream = "none" /\ notices = <<>> /\ Next1("open")
    BY <1>1, OpeningIsQuiet
<1>3. /\ lifecycle' = Tail(lifecycle) /\ notices' = <<>>
      /\ UNCHANGED <<tier, attached, timer, requests, db, version>>
    BY <1>2 DEF OpenReady, OpenFails, viewVars, askVars, backVars, streamVars
<1>4. ViewsInTurn' /\ OneRun' /\ OpensWhatIs' /\ AnswersFit' /\ NoticesFit'
  <2>1. ViewsInTurn'
    BY <1>1, <1>2, <1>3, ViewsDequeued DEF CanvasFits, Next1
  <2> QED BY <1>1, <1>2, <1>3, <2>1 DEF CanvasFits, OneRun, RunInFlight, OpensWhatIs, AnswersFit,
          NoticesFit
<1>5. ~Away'
    BY <1>1, <1>2, <1>3, OpenLeaves DEF Away
<1>6. CASE OpenReady
  <2>1. status' = "ready" /\ stream' \in {"none", "connecting"} /\ (stream' # "none" => tier = "T1")
    BY <1>2, <1>6 DEF OpenReady
  <2>2. StreamFits'
    BY <1>3, <1>5, <2>1 DEF StreamFits
  <2>3. db # 0 /\ version[db] # 0 /\ (tier = "T1" => opened = version[db])
    BY <1>1, <1>6 DEF OpenReady, CanvasFits, OpensWhatIs
  <2>4. snapshot' = [db |-> db, version |-> IF tier = "T0" /\ db # 0 THEN version[db] ELSE opened]
    BY <1>6 DEF OpenReady
  <2>5. tier = "T0" \/ tier = "T1"
    BY <1>1, WorkspaceAssumption DEF KindsFit
  <2>6. Current'
    BY <1>3, <2>3, <2>4, <2>5 DEF Current
  <2> QED BY <1>3, <1>4, <2>2, <2>3, <2>6 DEF CanvasFits, NewestIsComing
<1>7. CASE OpenFails
  <2>1. status' = "failed" /\ stream' = "none"
    BY <1>2, <1>7 DEF OpenFails, streamVars
  <2> QED BY <1>3, <1>4, <2>1 DEF CanvasFits, StreamFits, NewestIsComing
<1> QED BY <1>6, <1>7

\* Behind a close comes an open, or nobody is attached.
LEMMA CloseLeaves ==
    ASSUME lifecycle \in Seq(Op), Next1("close"), OpensInTurn, ViewsInTurn,
           lifecycle' = Tail(lifecycle)
    PROVE  Next1("open")' \/ (lifecycle' = <<>> /\ ~attached)
<1>1. /\ Len(lifecycle) \in Nat /\ Len(lifecycle') = Len(lifecycle) - 1
      /\ \A i \in 1..Len(lifecycle') : lifecycle'[i] = lifecycle[i + 1]
      /\ (lifecycle' = <<>>) <=> (Len(lifecycle) = 1)
    BY Dequeued DEF Next1
<1>2. CASE lifecycle' = <<>>
    BY <1>1, <1>2 DEF OpensInTurn, Last, Next1
<1>3. CASE lifecycle' # <<>>
  <2>1. Len(lifecycle) # 0
    BY EmptySeq DEF Next1
  <2>2. 1 \in 1..(Len(lifecycle) - 1) /\ 1 \in 1..Len(lifecycle') /\ lifecycle'[1] = lifecycle[1 + 1]
    BY <1>1, <1>3, <2>1
  <2> QED BY <1>3, <2>2 DEF ViewsInTurn, Next1
<1> QED BY <1>2, <1>3

LEMMA CloseEndsCanvas ==
    ASSUME CanvasInv, Calm, CloseEnds
    PROVE  CanvasFits'
<1>1. /\ CanvasFits /\ TurnsInv /\ OpensInTurn /\ lifecycle \in Seq(Op)
      /\ stage = "closing" /\ stage' = "idle"
    BY DEF CanvasInv, Calm, TurnsInv, InTurn, StepIsFirst, CloseEnds
<1>2. stream = "none" /\ notices = <<>>
    BY <1>1 DEF CanvasFits, StreamFits, Away
<1>3. UNCHANGED <<tier, attached, timer, status, requests, version, stream, notices>>
    BY DEF CloseEnds, viewVars, askVars, streamVars
<1>4. Away' /\ ViewsInTurn'
  <2>1. CASE Next1("close") /\ lifecycle' = Tail(lifecycle)
    <3>1. Next1("open")' \/ (lifecycle' = <<>> /\ ~attached)
      BY <1>1, <2>1, CloseLeaves DEF CanvasFits
    <3>2. ViewsInTurn'
      BY <1>1, <1>3, <2>1, ViewsDequeued DEF CanvasFits, Next1
    <3> QED BY <1>3, <3>1, <3>2 DEF Away
  <2>2. CASE Next1("reset") /\ lifecycle' = Append(Tail(lifecycle), "open")
    <3>1. lifecycle' = <<"open">>
      BY <1>1, <2>2, ResetIsAlone
    <3> QED BY <1>1, <1>3, <3>1 DEF Away, Next1, CanvasFits, ViewsInTurn
  <2> QED BY <2>1, <2>2 DEF CloseEnds
<1>5. OneRun' /\ OpensWhatIs' /\ StreamFits' /\ NoticesFit' /\ NewestIsComing'
    BY <1>1, <1>2, <1>3, <1>4 DEF CanvasFits, OneRun, RunInFlight, OpensWhatIs, StreamFits,
        NoticesFit, NewestIsComing
<1>6. AnswersFit'
    BY <1>1, <1>3 DEF CloseEnds, CanvasFits, AnswersFit
<1> QED BY <1>4, <1>5, <1>6 DEF CanvasFits

-----------------------------------------------------------------------------
(***************************************************************************)
(* The canvas: requests and the stream                                     *)
(***************************************************************************)

\* The database, the queue and the stream as they were.
Elsewhere ==
    UNCHANGED <<tier, attached, timer, lifecycle, stage, opened, db, version, streamVars>>

LEMMA ElsewhereFits ==
    ASSUME CanvasFits, Elsewhere
    PROVE  Away' = Away /\ ViewsInTurn' /\ OpensWhatIs' /\ NoticesFit'
    BY DEF Elsewhere, CanvasFits, Away, Next1, ViewsInTurn, OpensWhatIs, NoticesFit, Change,
        streamVars

\* A script is sent by who shows a schema and waits for no other script.
LEMMA AskedCanvas ==
    ASSUME CanvasInv, Calm, RunAsked \/ LoadAsked
    PROVE  CanvasFits'
<1>1. CanvasFits /\ status = "ready" /\ status' \in {"ready", "running"} /\ Elsewhere
      /\ UNCHANGED snapshot
    BY DEF CanvasInv, Calm, RunAsked, LoadAsked, Elsewhere, stepVars, backVars
<1>2. PICK k \in {"run", "load"} :
         /\ requests' = requests \cup {[kind |-> k, ticket |-> clicks + 1, to |-> db,
                                        progress |-> "sent", version |-> 0]}
         /\ k = "run" => status' = "running"
    BY DEF RunAsked, LoadAsked, Ask
<1>3. Away' = Away /\ ViewsInTurn' /\ OpensWhatIs' /\ NoticesFit'
    BY <1>1, ElsewhereFits
<1>4. ~RunInFlight /\ stage \notin {"opening", "setup"}
    BY <1>1 DEF CanvasFits, OneRun
<1>5. OneRun'
    BY <1>1, <1>2, <1>4 DEF OneRun, RunInFlight, Elsewhere
<1>6. StreamFits'
    BY <1>1, <1>3 DEF CanvasFits, StreamFits, Elsewhere, streamVars
<1>7. AnswersFit'
    BY <1>1, <1>2 DEF CanvasFits, AnswersFit, Elsewhere
<1>8. NewestIsComing'
  <2> SUFFICES ASSUME ~Away PROVE NewestIsComing'
      BY <1>3 DEF NewestIsComing
  <2>1. db # 0 /\ version[db] # 0 /\ \/ \E i \in 1..Len(notices) : Change(i)
                                     \/ Current
                                     \/ \E r \in requests : Answered(r)
    BY <1>1 DEF CanvasFits, NewestIsComing
  <2>2. UNCHANGED <<db, version, notices, snapshot>> /\ requests \subseteq requests'
    BY <1>1, <1>2 DEF Elsewhere, streamVars
  <2> QED BY <2>1, <2>2 DEF NewestIsComing, Change, Current, Answered
<1> QED BY <1>3, <1>5, <1>6, <1>7, <1>8 DEF CanvasFits

\* Whatever else is asked or answered meanwhile.
LEMMA OthersAsked ==
    ASSUME CanvasFits, Elsewhere, UNCHANGED <<status, snapshot>>, RunsStay
    PROVE  CanvasFits'
<1>1. Away' = Away /\ ViewsInTurn' /\ OpensWhatIs' /\ NoticesFit'
    BY ElsewhereFits
<1>2. OneRun' /\ AnswersFit'
    BY RunsFit DEF CanvasFits, Elsewhere
<1>3. StreamFits'
    BY <1>1 DEF CanvasFits, StreamFits, Elsewhere, streamVars
<1>4. NewestIsComing'
    BY <1>1 DEF CanvasFits, NewestIsComing, Change, Current, Answered, RunsStay, Elsewhere, streamVars
<1> QED BY <1>1, <1>2, <1>3, <1>4 DEF CanvasFits

LEMMA DiscardAskedCanvas ==
    ASSUME CanvasInv, Calm, DiscardAsked
    PROVE  CanvasFits'
<1>1. CanvasFits /\ Elsewhere /\ UNCHANGED <<status, snapshot>>
    BY DEF CanvasInv, Calm, DiscardAsked, Elsewhere, stepVars, stateVars, backVars
<1>2. RunsStay
  <2> DEFINE q == [kind |-> "discard", ticket |-> clicks + 1, to |-> db, progress |-> "sent",
                   version |-> 0]
  <2>1. requests' = requests \cup {q} /\ q.kind = "discard"
    BY DEF DiscardAsked, Ask
  <2> HIDE DEF q
  <2> QED BY <2>1 DEF RunsStay
<1> QED BY <1>1, <1>2, OthersAsked

\* The reset after a discard is queued as any other.
LEMMA DiscardAnsweredCanvas ==
    ASSUME CanvasInv, Calm, NEW r \in requests, DiscardAnswered(r)
    PROVE  CanvasFits'
<1>1. /\ CanvasFits /\ TurnsInv /\ OpensInTurn /\ (timer => attached) /\ RunsStay
      /\ UNCHANGED <<tier, attached, timer, stage, opened, status, snapshot, db, version,
                     streamVars>>
  <2>1. r.kind = "discard" /\ requests' = requests \ {r}
    BY DEF DiscardAnswered
  <2>2. UNCHANGED <<tier, attached, timer, stage, opened, status, snapshot, db, version,
                    streamVars>>
    BY DEF DiscardAnswered, viewVars, stateVars, backVars
  <2> QED BY <2>1, <2>2 DEF CanvasInv, Calm, CanvasFits, ViewsInTurn, TurnsInv, InTurn, RunsStay
<1>2. CASE BeginReset
  <2>1. lifecycle' = Append(lifecycle, "reset") /\ "reset" \in Op /\ attached
    BY <1>2 DEF BeginReset, Note, Calm, Op
  <2> QED BY <1>1, <2>1, CanvasQueues
<1>3. CASE UNCHANGED lifecycle
    BY <1>1, <1>3, OthersAsked DEF Elsewhere
<1> QED BY <1>2, <1>3 DEF DiscardAnswered

\* An answer without a schema takes nothing from what is on its way.
LEMMA ReplacedCanvas ==
    ASSUME CanvasFits, Elsewhere, UNCHANGED <<status, snapshot>>,
           NEW r \in requests, NEW q, requests' = (requests \ {r}) \cup {q},
           q.kind = r.kind, q.version = 0,
           r.kind = "run" => r.version = 0 /\ (tier = "T1" => q.to = r.to)
    PROVE  CanvasFits'
<1>1. Away' = Away /\ ViewsInTurn' /\ OpensWhatIs' /\ NoticesFit'
    BY ElsewhereFits
<1>2. OneRun'
    BY DEF CanvasFits, OneRun, RunInFlight, Elsewhere
<1>3. StreamFits'
    BY <1>1 DEF CanvasFits, StreamFits, Elsewhere, streamVars
<1>4. AnswersFit'
    BY DEF CanvasFits, AnswersFit, Elsewhere
<1>5. NewestIsComing'
  <2> SUFFICES ASSUME ~Away, status \notin {"opening", "failed"} PROVE NewestIsComing'
      BY <1>1 DEF NewestIsComing
  <2>1. db # 0 /\ version[db] # 0 /\ \/ \E i \in 1..Len(notices) : Change(i)
                                     \/ Current
                                     \/ \E s \in requests : Answered(s)
    BY DEF CanvasFits, NewestIsComing
  <2>2. UNCHANGED <<db, version, notices, snapshot>>
    BY DEF Elsewhere, streamVars
  <2>3. \A s \in requests : Answered(s) => s # r /\ s \in requests'
    BY <2>1 DEF Answered
  <2> QED BY <2>1, <2>2, <2>3 DEF NewestIsComing, Change, Current, Answered
<1> QED BY <1>1, <1>2, <1>3, <1>4, <1>5 DEF CanvasFits

\* The request that Becomes leaves.
Became(r, p, v) == [r EXCEPT !.progress = p, !.version = v, !.to = Served(r)]

LEMMA BecameIs ==
    ASSUME KindsFit, NEW r \in requests, NEW p, NEW v
    PROVE  /\ Became(r, p, v).kind = r.kind /\ Became(r, p, v).version = v
           /\ Became(r, p, v).progress = p /\ Became(r, p, v).to = Served(r)
    BY DEF KindsFit, Requests, Became

LEMMA ServedNothing ==
    ASSUME CanvasInv, Calm, NEW r \in requests,
           \/ Serve(r) /\ Becomes(r, "done", 0) /\ UNCHANGED <<version, notices>>
           \/ ServeNone(r)
           \/ ServeFails(r)
    PROVE  CanvasFits'
<1>1. CanvasFits /\ KindsFit /\ Elsewhere /\ UNCHANGED <<status, snapshot>>
    BY DEF CanvasInv, Calm, Serve, ServeNone, ServeFails, Elsewhere, viewVars, stepVars, stateVars,
        backVars, streamVars
<1>2. PICK p : requests' = (requests \ {r}) \cup {Became(r, p, 0)}
    BY DEF Serve, ServeNone, ServeFails, Becomes, Became
<1>3. r.kind = "run" => r.version = 0 /\ (tier = "T1" => Served(r) = r.to)
  <2>1. r.progress = "sent" \/ r.version = 0
    BY DEF Serve, ServeNone, ServeFails, Note, Calm
  <2>2. tier = "T1" => tier # "T0"
    OBVIOUS
  <2> QED BY <1>1, <2>1, <2>2 DEF CanvasFits, AnswersFit, Served
<1> QED BY <1>1, <1>2, <1>3, BecameIs, ReplacedCanvas

\* Whatever is told of the database, the schema told last is its newest.
LEMMA Told ==
    ASSUME KindsFit, NoticesFit, NEW n \in Notices, n.db = db,
           notices' = Append(notices, n), UNCHANGED db,
           \/ ~n.ended /\ n.version = version'[db]
           \/ n.ended /\ UNCHANGED version
    PROVE  NoticesFit'
<1>1. /\ notices \in Seq(Notices) /\ Len(notices) \in Nat /\ Len(notices') = Len(notices) + 1
      /\ \A i \in 1..Len(notices) : notices'[i] = notices[i]
      /\ notices'[Len(notices) + 1] = n
    BY DEF KindsFit
<1> SUFFICES ASSUME NEW i \in 1..Len(notices')
             PROVE  /\ notices'[i].db = db
                    /\ ~notices'[i].ended =>
                          \/ notices'[i].version = version'[db]
                          \/ \E j \in (i + 1)..Len(notices') : ~notices'[j].ended
    BY DEF NoticesFit, Change
<1>2. CASE i = Len(notices) + 1
    BY <1>1, <1>2
<1>3. CASE i # Len(notices) + 1
  <2>1. i \in 1..Len(notices) /\ Len(notices) + 1 \in (i + 1)..Len(notices')
    BY <1>1, <1>3
  <2>2. CASE ~n.ended
    BY <1>1, <2>1, <2>2 DEF NoticesFit
  <2>3. CASE n.ended
    <3>1. \A j \in (i + 1)..Len(notices) :
             j \in (i + 1)..Len(notices') /\ notices'[j] = notices[j]
      BY <1>1, <2>1
    <3> QED BY <1>1, <2>1, <2>3, <3>1 DEF NoticesFit, Change
  <2> QED BY <2>2, <2>3
<1> QED BY <1>2, <1>3

\* A script that changes the schema: the stream is told, or the answer tells.
LEMMA ServedChange ==
    ASSUME CanvasInv, Calm, NEW r \in requests, Serve(r), r.kind = "run",
           version' = [version EXCEPT ![Served(r)] = @ + 1],
           Becomes(r, "done", version[Served(r)] + 1),
           IF tier = "T1" THEN Publish(Served(r), FALSE, version[Served(r)] + 1)
           ELSE UNCHANGED notices
    PROVE  CanvasFits'
<1>1. /\ CanvasFits /\ KindsFit /\ TurnsInv /\ alive \subseteq {db}
      /\ UNCHANGED <<tier, attached, timer, lifecycle, stage, opened, status, snapshot, db,
                     stream, heard>>
    BY DEF CanvasInv, Calm, TurnsInv, InTurn, OneAtATime, Serve, viewVars, stepVars, stateVars
<1>2. /\ Served(r) = db /\ db \in Database /\ db # 0 /\ version[db] \in Nat
      /\ version'[db] = version[db] + 1
  <2>1. Served(r) = db /\ db \in alive
    BY <1>1 DEF Serve
  <2>2. db \in Database /\ db # 0 /\ version[db] \in Nat
    BY <1>1, <2>1 DEF KindsFit, Database
  <2> QED BY <1>1, <2>1, <2>2 DEF KindsFit
<1> DEFINE q == Became(r, "done", version[db] + 1)
<1>3. /\ requests' = (requests \ {r}) \cup {q}
      /\ q.kind = "run" /\ q.version = version'[db] /\ q.progress = "done" /\ q.to = db
    BY <1>1, <1>2, BecameIs DEF Becomes, Became
<1>4. /\ \A s \in requests : s.kind = "run" => s = r
      /\ status \in {"running", "ended"} /\ stage \notin {"opening", "setup"}
    BY <1>1 DEF CanvasFits, OneRun, RunInFlight
<1>5. Away' = Away /\ ViewsInTurn' /\ OpensWhatIs'
    BY <1>1, <1>4 DEF Away, Next1, CanvasFits, ViewsInTurn, OpensWhatIs
<1>6. OneRun' /\ AnswersFit'
  <2>1. \A s \in requests' : s.kind = "run" => s = q
    BY <1>3, <1>4
  <2> HIDE DEF q
  <2> QED BY <1>1, <1>2, <1>3, <1>4, <2>1 DEF OneRun, RunInFlight, AnswersFit
<1>7. StreamFits' /\ NoticesFit'
  <2>1. CASE notices' = notices /\ notices = <<>>
    BY <1>1, <1>5, <2>1 DEF CanvasFits, StreamFits, NoticesFit
  <2>2. CASE stream = "open" /\ notices' = Append(notices, [ended |-> FALSE, db |-> db,
                                                           version |-> version'[db]])
    <3>1. [ended |-> FALSE, db |-> db, version |-> version'[db]] \in Notices
      BY <1>2 DEF Notices
    <3>2. NoticesFit'
      BY <1>1, <2>2, <3>1, Told DEF CanvasFits
    <3> QED BY <1>1, <1>5, <2>2, <3>2 DEF CanvasFits, StreamFits
  <2>3. stream # "open" => notices = <<>>
    BY <1>1 DEF CanvasFits, StreamFits
  <2>4. stream = "open" => heard = db /\ tier = "T1"
    BY <1>1 DEF CanvasFits, StreamFits
  <2> QED BY <1>2, <2>1, <2>2, <2>3, <2>4 DEF Publish
<1>8. NewestIsComing'
  <2>1. \E s \in requests' : s.kind = "run" /\ s.version = version'[db]
    BY <1>3
  <2> QED BY <1>1, <1>2, <2>1 DEF NewestIsComing, Answered
<1> QED BY <1>5, <1>6, <1>7, <1>8 DEF CanvasFits

\* An answer that crosses nothing is not behind what is shown.
LEMMA AnsweredCanvas ==
    ASSUME CanvasInv, Calm, NEW r \in requests, RunAnswered(r)
    PROVE  CanvasFits'
<1>1. /\ CanvasFits /\ KindsFit /\ Elsewhere /\ r.kind = "run" /\ requests' = requests \ {r}
      /\ status' \in {"ready", "ended"}
    BY DEF CanvasInv, Calm, RunAnswered, Elsewhere, viewVars, stepVars, backVars
<1>2. Away' = Away /\ ViewsInTurn' /\ OpensWhatIs' /\ NoticesFit'
    BY <1>1, ElsewhereFits
<1>3. /\ \A s \in requests : s.kind = "run" => s = r
      /\ status \in {"running", "ended"} /\ stage \notin {"opening", "setup"}
    BY <1>1 DEF CanvasFits, OneRun, RunInFlight
<1>4. OneRun' /\ AnswersFit'
    BY <1>1, <1>3 DEF CanvasFits, OneRun, RunInFlight, AnswersFit, Elsewhere
<1>5. StreamFits'
    BY <1>1, <1>2 DEF CanvasFits, StreamFits, Elsewhere, streamVars
<1>6. NewestIsComing'
  <2> SUFFICES ASSUME ~Away, ~(\E i \in 1..Len(notices) : Change(i))
               PROVE  db # 0 /\ version[db] # 0 /\ Current'
    <3>1. /\ UNCHANGED <<db, version, notices>>
          /\ status \notin {"opening", "failed"}
      BY <1>1, <1>3 DEF Elsewhere, streamVars
    <3>2. ~Away => db # 0 /\ version[db] # 0
      BY <1>1, <3>1 DEF CanvasFits, NewestIsComing
    <3> QED BY <1>2, <3>1, <3>2 DEF NewestIsComing, Change
  <2>1. /\ db # 0 /\ version[db] # 0 /\ db \in Database /\ version[db] \in Nat
        /\ Current \/ Answered(r)
    BY <1>1, <1>3 DEF CanvasFits, NewestIsComing, Answered, KindsFit
  <2>2. CASE r.version = 0
    <3>1. Current /\ snapshot' = snapshot
      BY <2>1, <2>2 DEF RunAnswered, Answered
    <3> QED BY <1>1, <2>1, <3>1 DEF Current, Elsewhere
  <2>3. CASE r.version # 0
    <3>1. r.progress = "done" /\ r.to = db /\ r.version <= version[db] /\ r.version \in Nat
      BY <1>1, <2>1, <2>3 DEF CanvasFits, AnswersFit, KindsFit, RequestsFit, Requests
    <3>2. snapshot' = [db |-> db, version |-> r.version]
      BY <2>3, <3>1 DEF RunAnswered
    <3>3. ~(snapshot.db = db /\ r.version < snapshot.version)
      BY <2>3, <3>1 DEF RunAnswered, Note, Calm
    <3>4. r.version = version[db]
      BY <2>1, <3>1, <3>3 DEF Current, Answered
    <3> QED BY <1>1, <2>1, <3>2, <3>4 DEF Current, Elsewhere
  <2> QED BY <2>1, <2>2, <2>3
<1> QED BY <1>2, <1>4, <1>5, <1>6 DEF CanvasFits

LEMMA LoadedCanvas ==
    ASSUME CanvasInv, Calm, NEW r \in requests, LoadAnswered(r)
    PROVE  CanvasFits'
<1>1. /\ CanvasFits /\ Elsewhere /\ r.kind # "run" /\ requests' = requests \ {r}
      /\ UNCHANGED <<status, snapshot>>
    BY DEF CanvasInv, Calm, LoadAnswered, Elsewhere, viewVars, stepVars, backVars
<1>2. Away' = Away /\ ViewsInTurn' /\ OpensWhatIs' /\ NoticesFit'
    BY <1>1, ElsewhereFits
<1>3. OneRun' /\ AnswersFit'
    BY <1>1 DEF CanvasFits, OneRun, RunInFlight, AnswersFit, Elsewhere
<1>4. StreamFits'
    BY <1>1, <1>2 DEF CanvasFits, StreamFits, Elsewhere, streamVars
<1>5. NewestIsComing'
  <2>1. \A s \in requests : Answered(s) => s \in requests' /\ Answered(s)'
    BY <1>1 DEF Answered, Elsewhere
  <2> QED BY <1>1, <1>2, <2>1 DEF CanvasFits, NewestIsComing, Change, Current, Elsewhere, streamVars
<1> QED BY <1>2, <1>3, <1>4, <1>5 DEF CanvasFits

LEMMA StreamCanvas ==
    ASSUME CanvasInv, Calm, StreamConnects \/ StreamDrops
    PROVE  CanvasFits'
<1>1. /\ CanvasFits /\ KindsFit /\ stream # "none"
      /\ UNCHANGED <<tier, attached, timer, lifecycle, stage, opened, status, snapshot, requests,
                     db, version>>
    BY DEF CanvasInv, Calm, StreamConnects, StreamDrops, viewVars, stepVars, stateVars, askVars,
        backVars
<1>2. Away' = Away /\ ViewsInTurn' /\ OpensWhatIs' /\ OneRun' /\ AnswersFit'
    BY <1>1 DEF CanvasFits, Away, Next1, ViewsInTurn, OpensWhatIs, OneRun, RunInFlight, AnswersFit
<1>3. notices = <<>> /\ notices' = <<>>
    BY <1>1 DEF StreamConnects, StreamDrops, CanvasFits, StreamFits, Note, Calm
<1>4. stream' = "open" => heard' = db /\ db # 0
    BY <1>1 DEF StreamConnects, StreamDrops, KindsFit, Database
<1>5. StreamFits' /\ NoticesFit'
    BY <1>1, <1>2, <1>3, <1>4 DEF CanvasFits, StreamFits, NoticesFit
<1>6. NewestIsComing'
    BY <1>1, <1>2, <1>3 DEF CanvasFits, NewestIsComing, Change, Current, Answered
<1> QED BY <1>2, <1>5, <1>6 DEF CanvasFits

\* The end of a session is told to the stream that listens to it.
LEMMA EndedCanvas ==
    ASSUME CanvasFits, KindsFit, NEW d \in Database, Publish(d, TRUE, 1), RunsStay,
           UNCHANGED <<tier, attached, timer, lifecycle, stage, opened, status, snapshot, db, version,
                       stream, heard>>
    PROVE  CanvasFits'
<1>1. Away' = Away /\ ViewsInTurn' /\ OpensWhatIs'
    BY DEF CanvasFits, Away, Next1, ViewsInTurn, OpensWhatIs
<1>2. OneRun' /\ AnswersFit'
    BY RunsFit DEF CanvasFits
<1>3. CASE notices' = notices
  <2>1. StreamFits' /\ NoticesFit'
    BY <1>1, <1>3 DEF CanvasFits, StreamFits, NoticesFit, Change
  <2>2. NewestIsComing'
    BY <1>1, <1>3 DEF CanvasFits, NewestIsComing, Change, Current, Answered, RunsStay
  <2> QED BY <1>1, <1>2, <2>1, <2>2 DEF CanvasFits
<1>4. CASE /\ stream = "open" /\ heard = d
           /\ notices' = Append(notices, [ended |-> TRUE, db |-> d, version |-> 1])
  <2>1. d = db
    BY <1>4 DEF CanvasFits, StreamFits
  <2>2. NoticesFit'
    <3>1. [ended |-> TRUE, db |-> db, version |-> 1] \in Notices
      BY <2>1 DEF Notices
    <3> QED BY <1>4, <2>1, <3>1, Told DEF CanvasFits
  <2>3. StreamFits'
    BY <1>1, <1>4 DEF CanvasFits, StreamFits
  <2>4. NewestIsComing'
    <3>1. \A i \in 1..Len(notices) : i \in 1..Len(notices') /\ notices'[i] = notices[i]
      BY <1>4 DEF KindsFit
    <3> QED BY <1>1, <3>1 DEF CanvasFits, NewestIsComing, Change, Current, Answered, RunsStay
  <2> QED BY <1>1, <1>2, <2>2, <2>3, <2>4 DEF CanvasFits
<1> QED BY <1>3, <1>4 DEF Publish

\* What happens to the session elsewhere is told to a stream that is open.
LEMMA SessionCanvas ==
    ASSUME CanvasInv, Calm, OtherTabRuns \/ SessionEnds
    PROVE  CanvasFits'
<1>1. /\ CanvasFits /\ KindsFit /\ db \in Database /\ db # 0 /\ version[db] \in Nat
      /\ UNCHANGED <<tier, attached, timer, lifecycle, stage, opened, status, snapshot, requests,
                     db, stream, heard>>
  <2>1. CanvasFits /\ KindsFit /\ db \in alive
    BY DEF CanvasInv, Calm, OtherTabRuns, SessionEnds
  <2>2. db \in Database /\ db # 0 /\ version[db] \in Nat
    BY <2>1 DEF KindsFit, Database
  <2> QED BY <2>1, <2>2 DEF OtherTabRuns, SessionEnds, viewVars, stepVars, stateVars, askVars
<1>2. Away' = Away /\ ViewsInTurn' /\ OneRun'
    BY <1>1 DEF CanvasFits, Away, Next1, ViewsInTurn, OneRun, RunInFlight
<1>3. CASE OtherTabRuns
  <2>1. /\ stream = "open" /\ heard = db /\ version'[db] = version[db] + 1
        /\ notices' = Append(notices, [ended |-> FALSE, db |-> db, version |-> version[db] + 1])
    BY <1>1, <1>3 DEF OtherTabRuns, Note, Calm, Publish, KindsFit
  <2>2. /\ ~Away /\ status \notin {"opening", "failed"} /\ stage # "setup"
    BY <1>1, <2>1 DEF CanvasFits, StreamFits, OneRun
  <2>3. NoticesFit'
    <3>1. [ended |-> FALSE, db |-> db, version |-> version[db] + 1] \in Notices
      BY <1>1 DEF Notices
    <3> QED BY <1>1, <2>1, <3>1, Told DEF CanvasFits
  <2>4. OpensWhatIs' /\ StreamFits'
    BY <1>1, <1>2, <2>1, <2>2 DEF CanvasFits, OpensWhatIs, StreamFits
  <2>5. AnswersFit'
    <3>1. \A r \in requests : r.version \in Nat
      BY <1>1 DEF KindsFit, RequestsFit, Requests
    <3> QED BY <1>1, <2>1, <3>1 DEF CanvasFits, AnswersFit
  <2>6. NewestIsComing'
    <3>1. /\ Len(notices) + 1 \in 1..Len(notices') /\ ~notices'[Len(notices) + 1].ended
      BY <1>1, <2>1 DEF KindsFit
    <3> QED BY <1>1, <2>1, <3>1 DEF NewestIsComing, Change
  <2> QED BY <1>2, <2>3, <2>4, <2>5, <2>6 DEF CanvasFits
<1>4. CASE SessionEnds
  <2>1. Publish(db, TRUE, 1) /\ version' = version /\ RunsStay
    BY <1>1, <1>4 DEF SessionEnds, RunsStay
  <2> QED BY <1>1, <2>1, EndedCanvas
<1> QED BY <1>3, <1>4

LEMMA DiscardedCanvas ==
    ASSUME CanvasInv, Calm, NEW r \in requests, ServeDiscard(r)
    PROVE  CanvasFits'
<1>1. /\ CanvasFits /\ KindsFit /\ r.to \in Database
      /\ Publish(r.to, TRUE, 1)
      /\ UNCHANGED <<tier, attached, timer, lifecycle, stage, opened, status, snapshot, db, version,
                     stream, heard>>
    BY DEF CanvasInv, Calm, ServeDiscard, KindsFit, viewVars, stepVars, stateVars
<1>2. RunsStay
  <2>1. requests' = (requests \ {r}) \cup {Became(r, "done", 0)} /\ r.kind = "discard"
    BY DEF ServeDiscard, Becomes, Became
  <2>2. Became(r, "done", 0).kind = "discard"
    BY <1>1, <2>1, BecameIs
  <2> QED BY <2>1, <2>2 DEF RunsStay
<1> QED BY <1>1, <1>2, EndedCanvas

\* A notice is applied in its turn: the last one is the newest.
LEMMA HeardCanvas ==
    ASSUME CanvasInv, Calm, Hear
    PROVE  CanvasFits'
<1>1. /\ CanvasFits /\ KindsFit /\ notices # <<>> /\ notices' = Tail(notices)
      /\ UNCHANGED <<tier, attached, timer, lifecycle, stage, opened, requests, db, version,
                     stream, heard>>
    BY DEF CanvasInv, Calm, Hear, viewVars, stepVars, askVars, backVars
<1>2. /\ stream = "open" /\ ~Away /\ status \notin {"opening", "failed"}
      /\ stage \notin {"opening", "setup"}
    BY <1>1 DEF CanvasFits, StreamFits, OneRun
<1>3. status' \in {status, "ended"}
    BY DEF Hear
<1>4. Away' = Away /\ ViewsInTurn' /\ OpensWhatIs' /\ OneRun' /\ AnswersFit' /\ StreamFits'
  <2>1. Away' = Away
    BY <1>1 DEF Away, Next1
  <2> QED BY <1>1, <1>2, <1>3, <2>1 DEF CanvasFits, ViewsInTurn, OpensWhatIs, OneRun, RunInFlight,
          AnswersFit, StreamFits
<1>5. /\ Len(notices) \in Nat /\ Len(notices) # 0 /\ Len(notices') = Len(notices) - 1
      /\ \A i \in 1..Len(notices') : notices'[i] = notices[i + 1]
      /\ Head(notices) = notices[1]
    BY <1>1, HeadTailProperties, LenProperties, EmptySeq DEF KindsFit
<1>6. \A i \in 2..Len(notices) : i - 1 \in 1..Len(notices') /\ notices'[i - 1] = notices[i]
  <2> SUFFICES ASSUME NEW i \in 2..Len(notices)
               PROVE  i - 1 \in 1..Len(notices') /\ notices'[i - 1] = notices[i]
      OBVIOUS
  <2>1. i - 1 \in 1..Len(notices') /\ (i - 1) + 1 = i
    BY <1>5
  <2> QED BY <1>5, <2>1
<1>7. NoticesFit'
  <2> SUFFICES ASSUME NEW i \in 1..Len(notices')
               PROVE  /\ notices'[i].db = db
                      /\ ~notices'[i].ended =>
                            \/ notices'[i].version = version[db]
                            \/ \E j \in (i + 1)..Len(notices') : ~notices'[j].ended
      BY <1>1 DEF NoticesFit, Change
  <2>1. i + 1 \in 1..Len(notices) /\ notices'[i] = notices[i + 1]
    BY <1>5
  <2>2. \A j \in ((i + 1) + 1)..Len(notices) :
           j \in 2..Len(notices) /\ j - 1 \in (i + 1)..Len(notices')
    BY <1>5, <2>1
  <2> QED BY <1>1, <1>6, <2>1, <2>2 DEF CanvasFits, NoticesFit, Change
<1>8. NewestIsComing'
  <2>1. db # 0 /\ version[db] # 0 /\ \/ \E i \in 1..Len(notices) : Change(i)
                                     \/ Current
                                     \/ \E r \in requests : Answered(r)
    BY <1>1, <1>2 DEF CanvasFits, NewestIsComing
  <2>2. ASSUME NEW i \in 2..Len(notices), Change(i) PROVE NewestIsComing'
    BY <1>1, <1>6, <2>1, <2>2 DEF NewestIsComing, Change
  <2>3. CASE Change(1)
    <3>1. notices[1].db = db /\ snapshot' = [db |-> db, version |-> notices[1].version]
      BY <1>1, <1>5, <2>3 DEF Hear, Applies, CanvasFits, NoticesFit, Change
    <3>2. notices[1].version = version[db] \/ \E j \in (1 + 1)..Len(notices) : Change(j)
      BY <1>1, <1>5, <2>3 DEF CanvasFits, NoticesFit
    <3>3. CASE notices[1].version = version[db]
      BY <1>1, <2>1, <3>1, <3>3 DEF NewestIsComing, Current
    <3> QED BY <2>2, <3>2, <3>3
  <2>4. CASE ~Change(1) /\ ~(\E i \in 2..Len(notices) : Change(i))
    <3>1. ~(\E i \in 1..Len(notices) : Change(i))
      BY <1>5, <2>4
    <3>2. UNCHANGED snapshot
      BY <1>5, <2>4 DEF Hear, Change
    <3> QED BY <1>1, <2>1, <3>1, <3>2 DEF NewestIsComing, Current, Answered
  <2> QED BY <2>2, <2>3, <2>4
<1> QED BY <1>4, <1>7, <1>8 DEF CanvasFits

-----------------------------------------------------------------------------
LEMMA CanvasNext == CanvasInv /\ [Next]_vars => CanvasInv'
<1> SUFFICES ASSUME CanvasInv, [Next]_vars PROVE CanvasInv'
    OBVIOUS
<1>1. TurnsInv' /\ KindsFit'
    BY TurnsNext, KindsNext DEF CanvasInv
<1>2. incidents \subseteq incidents'
  <2> USE DEF Note, Fault
  <2>1. CASE Mount \/ Unmount \/ LinkRead \/ Detach \/ Reset \/ TimeTravel \/ UNCHANGED vars
    BY <2>1 DEF Mount, Unmount, LinkRead, Detach, Reset, BeginReset, TimeTravel, vars
  <2>2. CASE Serial
    BY <2>2 DEF Serial, OpenBegins, OpenCreates, OpenReady, OpenFails, CloseBegins, CloseEnds
  <2>3. CASE RunAsked \/ LoadAsked \/ DiscardAsked \/ Service
    BY <2>3 DEF RunAsked, LoadAsked, DiscardAsked, Service, Serve, ServeDiscard, ServeNone,
        ServeFails
  <2>4. CASE StreamConnects \/ StreamDrops \/ OtherTabRuns \/ SessionEnds \/ Hear
    BY <2>4 DEF StreamConnects, StreamDrops, OtherTabRuns, SessionEnds, Hear
  <2>5. CASE Answer
    BY <2>5 DEF Answer, RunAnswered, LoadAnswered, DiscardAnswered, BeginReset
  <2> QED BY <2>1, <2>2, <2>3, <2>4, <2>5 DEF Next
<1>3. ASSUME incidents' = {} PROVE CanvasFits'
  <2>1. Calm
    BY <1>2, <1>3 DEF Calm
  <2>2. CASE Serial
    BY <2>1, <2>2, BeginsCanvas, OpenCreatesCanvas, OpenEndsCanvas, CloseEndsCanvas DEF Serial
  <2>3. CASE Service
    BY <2>1, <2>3, ServedNothing, ServedChange, DiscardedCanvas DEF Service, Serve
  <2>4. CASE Answer
    BY <2>1, <2>4, AnsweredCanvas, LoadedCanvas, DiscardAnsweredCanvas DEF Answer
  <2> QED BY <2>1, <2>2, <2>3, <2>4, ViewCanvas, AskedCanvas, DiscardAskedCanvas, StreamCanvas, SessionCanvas,
          HeardCanvas DEF Next
<1> QED BY <1>1, <1>3 DEF CanvasInv

LEMMA CanvasInit == Init => CanvasInv
<1> SUFFICES ASSUME Init PROVE CanvasInv
    OBVIOUS
<1>1. TurnsInv /\ KindsFit
    BY TurnsInit
<1>3. Away
    BY DEF Init, Away
<1>4. CanvasFits
    BY <1>3 DEF Init, CanvasFits, ViewsInTurn, OneRun, RunInFlight, OpensWhatIs, StreamFits,
        AnswersFit, NoticesFit, NewestIsComing
<1> QED BY <1>1, <1>4 DEF CanvasInv

\* At rest the canvas shows the schema of the database there is, in either
\* tier, unless an answer, a notice or an open crossed another (store.ts, run,
\* open and the listener of subscribe).
THEOREM CanvasShowsTheDatabase == Spec => []CanvasIsCurrent
<1>1. CanvasInv => CanvasIsCurrent
  <2> SUFFICES ASSUME CanvasInv, AtRest PROVE snapshot = [db |-> db, version |-> version[db]]
      BY DEF CanvasIsCurrent
  <2>1. CanvasFits /\ ~Away
    BY DEF CanvasInv, AtRest, TurnsInv, StepIsFirst, Away, Next1
  <2>2. ~(\E i \in 1..Len(notices) : Change(i))
    BY DEF AtRest
  <2> QED BY <2>1, <2>2 DEF CanvasFits, NewestIsComing, Current, AtRest
<1> QED BY <1>1, CanvasInit, CanvasNext, PTL DEF Spec

=============================================================================
