------------------------- MODULE ManagerProcessProofs -------------------------
(***************************************************************************)
(* Theorems about the process of the sandbox manager and their proofs, for *)
(* any number of processes of any versions, requests and sandboxes:        *)
(* migrations are applied in order and once, however many processes start  *)
(* and die, and one that stops has finished what it began.                 *)
(*                                                                         *)
(* The migrations rest on who holds the lock: it alone reads the names and *)
(* applies, and a lock whose holder has died is nobody's until the         *)
(* database has noticed.  The shutdown rests on an order: no more requests,*)
(* then no more passes, then nothing more is begun, and so those that      *)
(* drain() found in flight are all there are.  Until its server listens a  *)
(* process has nothing to finish, and a signal may come as soon as that.   *)
(***************************************************************************)
EXTENDS MCShared, SequenceTheorems, TLAPS

-----------------------------------------------------------------------------
(***************************************************************************)
(* The inductive invariant                                                 *)
(***************************************************************************)
Early == {"down", "locking", "reading", "migrating", "failed", "starting"}
Point == Early \cup {"serving", "closing"} \cup P!Late

ProcessKind ==
    [at : Point, main : {"listen", "start", "done"}, done : SUBSET Nat, timer : BOOLEAN,
     pass : BOOLEAN, building : SUBSET Boxes, awaited : SUBSET Boxes, forsaken : BOOLEAN]

\* A request that is there is of a process and about a sandbox.
RequestKind ==
    [at : {"insert", "admit", "release", "answer"}, on : Processes, box : Boxes, gone : BOOLEAN]

Row == {"absent", "PENDING", "PROVISIONING", "READY", "ended"}

KindsFit ==
    /\ process \in [Processes -> ProcessKind]
    /\ served \in [Clients -> RequestKind \cup {P!NoRequest}]
    /\ box \in [Boxes -> Row]
    /\ schema \in Seq(Nat)

\* The names are those of the first migrations, whose statements have been run.
InOrder ==
    /\ \A i \in 1..Len(schema) : schema[i] = i
    /\ recorded = 1..Len(schema)

\* Who migrates holds the lock, and knows all the names.
HolderKnows ==
    \A p \in Processes :
        /\ process[p].at \in {"reading", "migrating", "failed"} => lock = p
        /\ P!At(p, "migrating") => process[p].done = recorded

\* Who is past its migrations finds them applied; who failed was made to.
ServersMigrated ==
    \A p \in Processes :
        /\ process[p].at \notin Early \ {"starting"} => 1..Versions[p] \subseteq recorded
        /\ P!At(p, "failed") => "mishap" \in troubled

\* A process whose server does not listen yet does nothing else.
NothingBegun(p) ==
    /\ ~process[p].timer /\ ~process[p].pass
    /\ process[p].building = {} /\ process[p].awaited = {} /\ ~process[p].forsaken
    /\ P!Of(p) = {}

\* What a process that stops may still have, step by step.
StopsInOrder(p) ==
    /\ process[p].at \in Early => process[p].main = "listen"
    /\ process[p].main = "listen" => NothingBegun(p) /\ ~P!At(p, "serving")
    /\ process[p].main # "done" => ~process[p].timer
    /\ process[p].forsaken => troubled # {}
    /\ process[p].at \in P!Late /\ ~process[p].forsaken => ~process[p].timer /\ P!Of(p) = {}
    /\ P!At(p, "draining") /\ ~process[p].forsaken =>
          ~process[p].pass /\ process[p].building \subseteq process[p].awaited
    /\ P!At(p, "ended") /\ ~process[p].forsaken => process[p].building = {} /\ ~process[p].pass

RowsAreBuilt ==
    \A b \in Boxes : box[b] = "PROVISIONING" =>
        troubled # {} \/ \E p \in Processes : b \in process[p].building

MigrationInv == KindsFit /\ InOrder /\ HolderKnows /\ ServersMigrated
StopInv == (\A p \in Processes : StopsInOrder(p)) /\ RowsAreBuilt

-----------------------------------------------------------------------------
(***************************************************************************)
(* Kinds                                                                   *)
(***************************************************************************)

\* A process that is somewhere else, and what else a step writes of it.
LEMMA ProcessKinds ==
    ASSUME process \in [Processes -> ProcessKind], NEW p \in Processes, NEW q \in ProcessKind,
           process' = [process EXCEPT ![p] = q]
    PROVE  process' \in [Processes -> ProcessKind]
    OBVIOUS

LEMMA RequestKinds ==
    ASSUME served \in [Clients -> RequestKind \cup {P!NoRequest}], NEW c \in Clients,
           NEW r \in RequestKind \cup {P!NoRequest}, served' = [served EXCEPT ![c] = r]
    PROVE  served' \in [Clients -> RequestKind \cup {P!NoRequest}]
    OBVIOUS

\* What the end of a pass makes of its process.
PassEnded(p, promoted) ==
    [process[p] EXCEPT
        !.pass = FALSE, !.building = process[p].building \cup promoted,
        !.at = IF P!At(p, "stopping") THEN "draining" ELSE process[p].at,
        !.awaited = IF P!At(p, "stopping") THEN process[p].building \cup promoted
                    ELSE process[p].awaited]

LEMMA PassEndsAs ==
    ASSUME process \in [Processes -> ProcessKind], NEW p \in Processes, P!PassEnds(p)
    PROVE  \E promoted \in SUBSET P!Waiting :
              P!Promote(promoted) /\ process' = [process EXCEPT ![p] = PassEnded(p, promoted)]
<1>1. PICK promoted \in SUBSET P!Waiting :
         /\ P!Promote(promoted)
         /\ process' = [process EXCEPT
               ![p].pass = FALSE, ![p].building = process[p].building \cup promoted,
               ![p].at = IF @ = "stopping" THEN "draining" ELSE @,
               ![p].awaited = IF P!At(p, "stopping") THEN process[p].building \cup promoted
                              ELSE @]
    BY DEF P!PassEnds
<1>2. process' = [process EXCEPT ![p] = PassEnded(p, promoted)]
    BY <1>1 DEF PassEnded, P!At, ProcessKind
<1> QED BY <1>1, <1>2

\* What the main module makes of its process when it goes on.
Listening(p) ==
    [process[p] EXCEPT
        !.main = "start", !.at = IF process[p].at = "starting" THEN "serving" ELSE process[p].at]
Started(p) ==
    [process[p] EXCEPT
        !.main = "done", !.timer = TRUE, !.pass = TRUE,
        !.forsaken = process[p].forsaken \/ process[p].at \in P!Late]

LEMMA ListenAs ==
    ASSUME process \in [Processes -> ProcessKind], NEW p \in Processes, P!Listen(p)
    PROVE  process' = [process EXCEPT ![p] = Listening(p)]
    BY DEF P!Listen, Listening, ProcessKind

LEMMA StartAs ==
    ASSUME process \in [Processes -> ProcessKind], NEW p \in Processes, P!Start(p)
    PROVE  process' = [process EXCEPT ![p] = Started(p)]
    BY DEF P!Start, Started, ProcessKind

LEMMA DownFits == P!Down \in ProcessKind
    BY DEF P!Down, ProcessKind, Point, Early

LEMMA PromoteFits ==
    ASSUME box \in [Boxes -> Row], NEW promoted \in SUBSET P!Waiting, P!Promote(promoted)
    PROVE  box' \in [Boxes -> Row] /\ promoted \subseteq Boxes
    BY DEF P!Promote, P!Waiting, Row

\* A request that is there, and where it may go.
LEMMA RequestIs ==
    ASSUME KindsFit, NEW c \in Clients, served[c].at # "none"
    PROVE  /\ served[c] \in RequestKind /\ served[c].on \in Processes /\ served[c].box \in Boxes
           /\ [served[c] EXCEPT !.at = "answer"] \in RequestKind
           /\ [served[c] EXCEPT !.at = "admit"] \in RequestKind
           /\ [served[c] EXCEPT !.gone = TRUE] \in RequestKind
<1>1. served[c] \in RequestKind
    BY DEF KindsFit, P!NoRequest
<1> QED BY <1>1 DEF RequestKind

LEMMA MigratingKinds ==
    ASSUME KindsFit, P!ManagerProcessAssumption, NEW p \in Processes,
           P!Boot(p) \/ P!Lock(p) \/ P!LockTimesOut(p) \/ P!ReadDone(p) \/ P!Unlock(p) \/ P!Listen(p)
              \/ P!ListenFails(p),
           recorded \subseteq Nat
    PROVE  KindsFit'
<1> USE DEF P!database
<1>1. process[p] \in ProcessKind /\ UNCHANGED <<schema, box, served>>
    BY DEF KindsFit, P!Boot, P!Lock, P!LockTimesOut, P!ReadDone, P!Unlock, P!Listen,
           P!ListenFails
<1>2. \E q \in ProcessKind : process' = [process EXCEPT ![p] = q]
  <2>1. CASE P!Boot(p)
    <3>1. process' = [process EXCEPT ![p] = [process[p] EXCEPT !.at = "locking"]]
      BY <2>1 DEF P!Boot
    <3>2. [process[p] EXCEPT !.at = "locking"] \in ProcessKind
      BY <1>1 DEF ProcessKind, Point, Early
    <3> QED BY <3>1, <3>2
  <2>2. CASE P!Lock(p)
    <3>1. process' = [process EXCEPT ![p] = [process[p] EXCEPT !.at = "reading"]]
      BY <2>2 DEF P!Lock
    <3>2. [process[p] EXCEPT !.at = "reading"] \in ProcessKind
      BY <1>1 DEF ProcessKind, Point, Early
    <3> QED BY <3>1, <3>2
  <2>3. CASE P!LockTimesOut(p)
    BY <2>3, DownFits DEF P!LockTimesOut
  <2>4. CASE P!ReadDone(p)
    <3>1. process' = [process EXCEPT ![p] = [process[p] EXCEPT !.at = "migrating", !.done = recorded]]
      BY <2>4 DEF P!ReadDone
    <3>2. [process[p] EXCEPT !.at = "migrating", !.done = recorded] \in ProcessKind
      BY <1>1 DEF ProcessKind, Point, Early
    <3> QED BY <3>1, <3>2
  <2>5. CASE P!Unlock(p)
    <3>1. [process[p] EXCEPT !.at = "starting"] \in ProcessKind
      BY <1>1 DEF ProcessKind, Point, Early
    <3> QED BY <2>5, <3>1, DownFits DEF P!Unlock
  <2>6. CASE P!Listen(p)
    <3>1. process' = [process EXCEPT ![p] = Listening(p)]
      BY <2>6, ListenAs DEF KindsFit
    <3>2. Listening(p) \in ProcessKind
      BY <1>1 DEF ProcessKind, Point, Listening
    <3> QED BY <3>1, <3>2
  <2>7. CASE P!ListenFails(p)
    BY <2>7, DownFits DEF P!ListenFails
  <2> QED BY <2>1, <2>2, <2>3, <2>4, <2>5, <2>6, <2>7
<1> QED BY <1>1, <1>2, ProcessKinds DEF KindsFit

LEMMA ServingKinds ==
    ASSUME KindsFit, NEW p \in Processes,
           P!Tick(p) \/ P!PassEnds(p) \/ P!Signal(p) \/ P!Close(p) \/ P!Drain(p) \/ P!Refused(p) \/ P!Exit(p)
    PROVE  KindsFit'
<1> USE DEF P!database
<1>1. process[p] \in ProcessKind /\ UNCHANGED schema
    BY DEF KindsFit, P!Tick, P!PassEnds, P!Signal, P!Close, P!Drain, P!Refused, P!Exit
<1>2. CASE P!Tick(p)
  <2>1. process' = [process EXCEPT ![p] = [process[p] EXCEPT !.pass = TRUE]]
    BY <1>2 DEF P!Tick
  <2>2. [process[p] EXCEPT !.pass = TRUE] \in ProcessKind
    BY <1>1 DEF ProcessKind
  <2> QED BY <1>2, <2>1, <2>2, ProcessKinds DEF P!Tick, KindsFit
<1>3. CASE P!PassEnds(p)
  <2>1. PICK promoted \in SUBSET P!Waiting :
           P!Promote(promoted) /\ process' = [process EXCEPT ![p] = PassEnded(p, promoted)]
    BY <1>3, PassEndsAs DEF KindsFit
  <2>2. box' \in [Boxes -> Row] /\ promoted \subseteq Boxes
    BY <2>1, PromoteFits DEF KindsFit
  <2>3. PassEnded(p, promoted) \in ProcessKind
    BY <1>1, <2>2 DEF ProcessKind, Point, P!Late, P!At, PassEnded
  <2>4. process' \in [Processes -> ProcessKind]
    BY <2>1, <2>3, ProcessKinds DEF KindsFit
  <2>5. UNCHANGED served
    BY <1>3 DEF P!PassEnds
  <2> QED BY <1>1, <2>2, <2>4, <2>5 DEF KindsFit
<1>4. CASE P!Signal(p)
  <2>1. process' = [process EXCEPT ![p] = [process[p] EXCEPT !.at = "closing"]]
    BY <1>4 DEF P!Signal
  <2>2. [process[p] EXCEPT !.at = "closing"] \in ProcessKind
    BY <1>1 DEF ProcessKind, Point
  <2> QED BY <1>4, <2>1, <2>2, ProcessKinds DEF P!Signal, KindsFit
<1>5. CASE P!Close(p)
  <2>1. [P!Stopped(p) EXCEPT !.forsaken = P!Of(p) # {}] \in ProcessKind
    <3>1. P!Stopped(p) \in ProcessKind
      BY <1>1 DEF P!Stopped, ProcessKind, Point, P!Late
    <3>2. (P!Of(p) # {}) \in BOOLEAN
      OBVIOUS
    <3> HIDE DEF P!Stopped
    <3> QED BY <3>1, <3>2 DEF ProcessKind
  <2> QED BY <1>5, <2>1, ProcessKinds DEF P!Close, KindsFit
<1>6. CASE P!Drain(p)
  <2>1. process' = [process EXCEPT ![p] = [process[p] EXCEPT !.at = "ended"]]
    BY <1>6 DEF P!Drain
  <2>2. [process[p] EXCEPT !.at = "ended"] \in ProcessKind
    BY <1>1 DEF ProcessKind, Point, P!Late
  <2> QED BY <1>6, <2>1, <2>2, ProcessKinds DEF P!Drain, KindsFit
<1>7. CASE P!Refused(p)
  <2>1. CASE process' = [process EXCEPT ![p].pass = FALSE] /\ UNCHANGED served
    <3>1. process' = [process EXCEPT ![p] = [process[p] EXCEPT !.pass = FALSE]]
      BY <2>1
    <3>2. [process[p] EXCEPT !.pass = FALSE] \in ProcessKind
      BY <1>1 DEF ProcessKind
    <3> QED BY <1>7, <2>1, <3>1, <3>2, ProcessKinds DEF P!Refused, KindsFit
  <2>2. ASSUME NEW c \in P!Of(p), served' = [served EXCEPT ![c] = P!NoRequest], UNCHANGED process
        PROVE  KindsFit'
    BY <1>7, <2>2, RequestKinds DEF P!Refused, KindsFit, P!Of
  <2> QED BY <1>7, <2>1, <2>2 DEF P!Refused
<1>8. CASE P!Exit(p)
    BY <1>8, ProcessKinds, DownFits DEF P!Exit, KindsFit
<1> QED BY <1>2, <1>3, <1>4, <1>5, <1>6, <1>7, <1>8

LEMMA ProvisionedKinds ==
    ASSUME KindsFit, NEW p \in Processes, NEW b \in Boxes, P!Provisioned(p, b)
    PROVE  KindsFit'
<1>1. process' = [process EXCEPT ![p] = [process[p] EXCEPT !.building = @ \ {b}]]
    BY DEF P!Provisioned
<1>2. [process[p] EXCEPT !.building = @ \ {b}] \in ProcessKind
    BY DEF KindsFit, ProcessKind
<1>3. box' \in [Boxes -> Row]
    BY DEF KindsFit, P!Provisioned, Row
<1> QED BY <1>1, <1>2, <1>3, ProcessKinds DEF P!Provisioned, KindsFit, P!database

LEMMA CallKinds ==
    ASSUME KindsFit, NEW p \in Processes, NEW c \in Clients, NEW b \in Boxes, P!Call(c, p, b)
    PROVE  KindsFit'
<1>1. PICK at \in {"insert", "release"} :
         served' = [served EXCEPT ![c] = [at |-> at, on |-> p, box |-> b, gone |-> FALSE]]
    BY DEF P!Call
<1>2. [at |-> at, on |-> p, box |-> b, gone |-> FALSE] \in RequestKind
    BY DEF RequestKind
<1> QED BY <1>1, <1>2, RequestKinds DEF P!Call, KindsFit, P!database

LEMMA RequestStepKinds ==
    ASSUME KindsFit, NEW c \in Clients,
           P!Insert(c) \/ P!Admit(c) \/ P!Release(c) \/ P!Answer(c) \/ P!HangUp(c)
    PROVE  KindsFit'
<1> USE DEF P!database
<1>1. served[c].at # "none"
    BY DEF P!Insert, P!Admit, P!Release, P!Answer, P!HangUp
<1>2. served' \in [Clients -> RequestKind \cup {P!NoRequest}]
  <2>1. \E r \in RequestKind \cup {P!NoRequest} : served' = [served EXCEPT ![c] = r]
    BY <1>1, RequestIs DEF P!Insert, P!Admit, P!Release, P!Answer, P!HangUp
  <2> QED BY <2>1, RequestKinds DEF KindsFit
<1>3. CASE P!Insert(c)
    BY <1>1, <1>2, <1>3, RequestIs DEF P!Insert, KindsFit, Row
<1>4. CASE P!Admit(c)
  <2> DEFINE p == served[c].on
  <2>1. p \in Processes
    BY <1>1, RequestIs
  <2>2. PICK promoted \in SUBSET P!Waiting :
           /\ P!Promote(promoted)
           /\ process' = [process EXCEPT ![p] = [process[p] EXCEPT !.building = @ \cup promoted]]
    BY <1>4 DEF P!Admit
  <2>3. box' \in [Boxes -> Row] /\ promoted \subseteq Boxes
    BY <2>2, PromoteFits DEF KindsFit
  <2>4. [process[p] EXCEPT !.building = @ \cup promoted] \in ProcessKind
    <3>1. process[p] \in ProcessKind
      BY <2>1 DEF KindsFit
    <3> HIDE DEF p
    <3> QED BY <2>3, <3>1 DEF ProcessKind
  <2> HIDE DEF p
  <2> QED BY <1>2, <1>4, <2>1, <2>2, <2>3, <2>4, ProcessKinds DEF P!Admit, KindsFit
<1>5. CASE P!Release(c)
  <2>1. served[c].on \in Processes /\ served[c].box \in Boxes
    BY <1>1, RequestIs
  <2>2. box' \in [Boxes -> Row]
    BY <1>5, <2>1 DEF P!Release, KindsFit, Row
  <2>3. process' \in [Processes -> ProcessKind]
    <3>1. [process[served[c].on] EXCEPT !.pass = TRUE] \in ProcessKind
      <4>1. process[served[c].on] \in ProcessKind
        BY <2>1 DEF KindsFit
      <4> QED BY <4>1 DEF ProcessKind
    <3>2. \/ process' = [process EXCEPT ![served[c].on] =
                                    [process[served[c].on] EXCEPT !.pass = TRUE]]
          \/ process' = process
      BY <1>5 DEF P!Release
    <3> QED BY <2>1, <3>1, <3>2, ProcessKinds DEF KindsFit
  <2> QED BY <1>2, <1>5, <2>2, <2>3 DEF P!Release, KindsFit
<1>6. CASE P!Answer(c) \/ P!HangUp(c)
    BY <1>2, <1>6 DEF P!Answer, P!HangUp, KindsFit
<1> QED BY <1>3, <1>4, <1>5, <1>6

-----------------------------------------------------------------------------
(***************************************************************************)
(* The migrations                                                          *)
(***************************************************************************)

\* After the first n the next is the one behind them.
LEMMA NextIsNext ==
    ASSUME NEW k \in Nat, NEW n \in Nat, (1..k) \ (1..n) # {}
    PROVE  P!Min((1..k) \ (1..n)) = n + 1 /\ n + 1 \in 1..k
<1>1. n + 1 \in (1..k) \ (1..n) /\ \A y \in (1..k) \ (1..n) : n + 1 =< y
    OBVIOUS
<1>2. \A x \in (1..k) \ (1..n) :
         (\A y \in (1..k) \ (1..n) : x =< y) => x = n + 1
    BY <1>1
<1> QED BY <1>1, <1>2 DEF P!Min

\* The holder of the lock applies what comes next.
LEMMA CommitFits ==
    ASSUME P!ManagerProcessAssumption, schema \in Seq(Nat), InOrder, NEW p \in Processes,
           process[p].done = recorded, P!Missing(p) # {}, P!Commits(P!Min(P!Missing(p)))
    PROVE  /\ schema' \in Seq(Nat) /\ InOrder'
           /\ recorded' = recorded \cup {P!Min(P!Missing(p))} /\ recorded \subseteq recorded'
<1>1. /\ Len(schema) \in Nat /\ Versions[p] \in Nat
      /\ P!Missing(p) = (1..Versions[p]) \ (1..Len(schema))
    BY DEF P!ManagerProcessAssumption, InOrder, P!Missing
<1>2. P!Min(P!Missing(p)) = Len(schema) + 1
    BY <1>1, NextIsNext
<1>3. schema' = Append(schema, Len(schema) + 1) /\ recorded' = recorded \cup {Len(schema) + 1}
    BY <1>2 DEF P!Commits
<1>4. /\ schema' \in Seq(Nat) /\ Len(schema') = Len(schema) + 1
      /\ \A i \in 1..Len(schema) : schema'[i] = schema[i]
      /\ schema'[Len(schema) + 1] = Len(schema) + 1
    BY <1>1, <1>3
<1>5. 1..(Len(schema) + 1) = (1..Len(schema)) \cup {Len(schema) + 1}
    BY <1>1
<1> QED BY <1>1, <1>2, <1>3, <1>4, <1>5 DEF InOrder

\* None is applied twice.
LEMMA NextIsNew ==
    ASSUME P!ManagerProcessAssumption, schema \in Seq(Nat), InOrder, NEW p \in Processes,
           process[p].done = recorded, P!Missing(p) # {}
    PROVE  P!Min(P!Missing(p)) \notin P!ToSet(schema) \cup recorded
<1>1. /\ Len(schema) \in Nat /\ Versions[p] \in Nat
      /\ P!Missing(p) = (1..Versions[p]) \ (1..Len(schema))
    BY DEF P!ManagerProcessAssumption, InOrder, P!Missing
<1>2. P!Min(P!Missing(p)) = Len(schema) + 1
    BY <1>1, NextIsNext
<1>3. P!ToSet(schema) = 1..Len(schema)
    BY DEF P!ToSet, InOrder
<1>4. Len(schema) + 1 \notin 1..Len(schema)
    BY <1>1
<1> QED BY <1>2, <1>3, <1>4 DEF InOrder

\* Steps that leave the database alone and no process where it migrates.
LEMMA MigrationsStay ==
    ASSUME MigrationInv, KindsFit', UNCHANGED P!database, troubled \subseteq troubled',
           \A p \in Processes :
              \/ process'[p].at = process[p].at /\ process'[p].done = process[p].done
              \/ process'[p].at = "down"
              \/ /\ process[p].at \notin Early \ {"starting"}
                 /\ process'[p].at \notin Early \ {"starting"}
    PROVE  MigrationInv'
<1>1. InOrder' /\ UNCHANGED <<lock, recorded>>
    BY DEF MigrationInv, InOrder, P!database
<1>2. HolderKnows' /\ ServersMigrated'
  <2> SUFFICES ASSUME NEW p \in Processes
               PROVE  /\ process'[p].at \in {"reading", "migrating", "failed"} => lock = p
                      /\ process'[p].at = "migrating" => process'[p].done = recorded
                      /\ process'[p].at \notin Early \ {"starting"} => 1..Versions[p] \subseteq recorded
                      /\ process'[p].at = "failed" => "mishap" \in troubled'
      BY <1>1 DEF HolderKnows, ServersMigrated, P!At
  <2>1. /\ process[p].at \in {"reading", "migrating", "failed"} => lock = p
        /\ process[p].at = "migrating" => process[p].done = recorded
        /\ process[p].at \notin Early \ {"starting"} => 1..Versions[p] \subseteq recorded
        /\ process[p].at = "failed" => "mishap" \in troubled
    BY DEF MigrationInv, HolderKnows, ServersMigrated, P!At
  <2> QED BY <2>1 DEF Early
<1> QED BY <1>1, <1>2 DEF MigrationInv

\* A step of one process, which may take or leave the lock and apply what is
\* next: the others neither hold the lock nor hear of it.
LEMMA MigrationMoves ==
    ASSUME MigrationInv, KindsFit', NEW p \in Processes, InOrder', recorded \subseteq recorded',
           troubled \subseteq troubled',
           \A q \in Processes \ {p} : process'[q] = process[q] /\ (lock = q => lock' = q),
           lock # p => recorded' = recorded,
           /\ process'[p].at \in {"reading", "migrating", "failed"} => lock' = p
           /\ process'[p].at = "migrating" => process'[p].done = recorded'
           /\ process'[p].at \notin Early \ {"starting"} => 1..Versions[p] \subseteq recorded'
           /\ process'[p].at = "failed" => "mishap" \in troubled'
    PROVE  MigrationInv'
<1> SUFFICES ASSUME NEW q \in Processes
             PROVE  /\ process'[q].at \in {"reading", "migrating", "failed"} => lock' = q
                    /\ process'[q].at = "migrating" => process'[q].done = recorded'
                    /\ process'[q].at \notin Early \ {"starting"} => 1..Versions[q] \subseteq recorded'
                    /\ process'[q].at = "failed" => "mishap" \in troubled'
    BY DEF MigrationInv, HolderKnows, ServersMigrated, P!At
<1>1. /\ process[q].at \in {"reading", "migrating", "failed"} => lock = q
      /\ process[q].at = "migrating" => process[q].done = recorded
      /\ process[q].at \notin Early \ {"starting"} => 1..Versions[q] \subseteq recorded
      /\ process[q].at = "failed" => "mishap" \in troubled
    BY DEF MigrationInv, HolderKnows, ServersMigrated, P!At
<1>2. CASE q = p
    BY <1>2
<1>3. CASE q # p
    BY <1>1, <1>3
<1> QED BY <1>2, <1>3

LEMMA CommitKinds ==
    ASSUME KindsFit, schema' \in Seq(Nat), NEW p \in Processes, NEW q \in ProcessKind,
           process' = [process EXCEPT ![p] = q], UNCHANGED <<box, served>>
    PROVE  KindsFit'
    BY ProcessKinds DEF KindsFit

\* What the process that migrates has: the lock, the names, the next of them.
LEMMA HolderHas ==
    ASSUME MigrationInv, P!ManagerProcessAssumption, NEW p \in Processes, P!At(p, "migrating")
    PROVE  /\ lock = p /\ process[p].done = recorded /\ recorded \subseteq Nat
           /\ process[p] \in ProcessKind /\ schema \in Seq(Nat)
           /\ P!Missing(p) = {} => 1..Versions[p] \subseteq recorded
           /\ P!Missing(p) # {} => P!Min(P!Missing(p)) \in Nat
<1>1. /\ lock = p /\ process[p].done = recorded /\ Versions[p] \in Nat
      /\ process[p] \in ProcessKind /\ schema \in Seq(Nat)
    BY DEF MigrationInv, HolderKnows, KindsFit, P!ManagerProcessAssumption, P!At
<1>2. recorded = 1..Len(schema) /\ Len(schema) \in Nat
    BY <1>1 DEF MigrationInv, InOrder
<1>3. P!Missing(p) # {} => P!Min(P!Missing(p)) = Len(schema) + 1
    BY <1>1, <1>2, NextIsNext DEF P!Missing
<1> QED BY <1>1, <1>2, <1>3 DEF P!Missing

LEMMA MigrateMigrates ==
    ASSUME MigrationInv, P!ManagerProcessAssumption, NEW p \in Processes, P!Migrate(p)
    PROVE  MigrationInv'
<1>1. /\ P!At(p, "migrating") /\ P!Missing(p) # {}
      /\ UNCHANGED <<lock, box, served, troubled>>
    BY DEF P!Migrate
<1>2. /\ lock = p /\ process[p].done = recorded /\ process[p] \in ProcessKind
      /\ schema \in Seq(Nat) /\ InOrder /\ P!Min(P!Missing(p)) \in Nat
    BY <1>1, HolderHas DEF MigrationInv
<1>3. /\ P!Commits(P!Min(P!Missing(p)))
      /\ process' = [process EXCEPT ![p] =
            [process[p] EXCEPT !.done = process[p].done \cup {P!Min(P!Missing(p))}]]
    BY <1>1, <1>2, NextIsNew DEF P!Migrate
<1> DEFINE m == [process[p] EXCEPT !.done = process[p].done \cup {P!Min(P!Missing(p))}]
<1>4. m \in ProcessKind /\ m.at = "migrating" /\ m.done = recorded \cup {P!Min(P!Missing(p))}
    BY <1>1, <1>2 DEF ProcessKind, P!At
<1> HIDE DEF m
<1>5. /\ schema' \in Seq(Nat) /\ InOrder' /\ recorded \subseteq recorded'
      /\ recorded' = recorded \cup {P!Min(P!Missing(p))}
    BY <1>1, <1>2, <1>3, CommitFits
<1>6. process' = [process EXCEPT ![p] = m]
    BY <1>3 DEF m
<1>7. KindsFit'
    BY <1>1, <1>4, <1>5, <1>6, CommitKinds DEF MigrationInv
<1>8. process'[p] = m /\ \A q \in Processes \ {p} : process'[q] = process[q]
    BY <1>6 DEF MigrationInv, KindsFit
<1> QED BY <1>1, <1>2, <1>4, <1>5, <1>7, <1>8, MigrationMoves DEF Early

LEMMA FailureMigrates ==
    ASSUME MigrationInv, P!ManagerProcessAssumption, NEW p \in Processes, P!MigrationFails(p)
    PROVE  MigrationInv'
<1>1. /\ P!At(p, "migrating") /\ P!Missing(p) # {} /\ troubled' = troubled \cup {"mishap"}
      /\ UNCHANGED <<lock, box, served>>
      /\ process' = [process EXCEPT ![p] = [process[p] EXCEPT !.at = "failed"]]
    BY DEF P!MigrationFails
<1>2. /\ lock = p /\ process[p].done = recorded /\ process[p] \in ProcessKind
      /\ schema \in Seq(Nat) /\ InOrder
    BY <1>1, HolderHas DEF MigrationInv
<1>3. /\ [process[p] EXCEPT !.at = "failed"] \in ProcessKind
      /\ [process[p] EXCEPT !.at = "failed"].at = "failed"
    BY <1>2 DEF ProcessKind, Point, Early
<1>4. schema' \in Seq(Nat) /\ InOrder' /\ recorded \subseteq recorded'
  <2>1. CASE P!Commits(P!Min(P!Missing(p)))
    BY <1>1, <1>2, <2>1, CommitFits
  <2>2. CASE UNCHANGED <<schema, recorded>>
    BY <1>2, <2>2 DEF InOrder
  <2> QED BY <2>1, <2>2 DEF P!MigrationFails
<1>5. KindsFit'
    BY <1>1, <1>3, <1>4, CommitKinds DEF MigrationInv
<1>6. process'[p].at = "failed" /\ \A q \in Processes \ {p} : process'[q] = process[q]
    BY <1>1, <1>3 DEF MigrationInv, KindsFit
<1> QED BY <1>1, <1>2, <1>4, <1>5, <1>6, MigrationMoves DEF Early

\* The lock of a process that dies is nobody's, until the database notices.
LEMMA CrashMigrates ==
    ASSUME MigrationInv, P!ManagerProcessAssumption, NEW p \in Processes, P!Crash(p)
    PROVE  MigrationInv'
<1>1. /\ process' = [process EXCEPT ![p] = P!Down] /\ troubled' = troubled \cup {"mishap"}
      /\ lock' = (IF lock = p THEN "nobody" ELSE lock)
      /\ served' = [c \in Clients |-> IF c \in P!Of(p) THEN P!NoRequest ELSE served[c]]
      /\ UNCHANGED box
    BY DEF P!Crash
<1>2. /\ schema' \in Seq(Nat) /\ InOrder' /\ recorded \subseteq recorded'
      /\ lock # p => recorded' = recorded
  <2>1. CASE P!At(p, "migrating") /\ P!Missing(p) # {} /\ P!Commits(P!Min(P!Missing(p)))
    <3>1. lock = p /\ process[p].done = recorded /\ schema \in Seq(Nat) /\ InOrder
      BY <2>1, HolderHas DEF MigrationInv
    <3> QED BY <2>1, <3>1, CommitFits
  <2>2. CASE UNCHANGED <<schema, recorded>>
    BY <2>2 DEF MigrationInv, KindsFit, InOrder
  <2> QED BY <2>1, <2>2 DEF P!Crash
<1>3. KindsFit'
  <2>1. process' \in [Processes -> ProcessKind]
    BY <1>1, ProcessKinds, DownFits DEF MigrationInv, KindsFit
  <2>2. served' \in [Clients -> RequestKind \cup {P!NoRequest}]
    BY <1>1 DEF MigrationInv, KindsFit
  <2> QED BY <1>1, <1>2, <2>1, <2>2 DEF MigrationInv, KindsFit
<1>4. process'[p].at = "down" /\ \A q \in Processes \ {p} : process'[q] = process[q]
    BY <1>1 DEF MigrationInv, KindsFit, P!Down
<1> QED BY <1>1, <1>2, <1>3, <1>4, MigrationMoves DEF Early

LEMMA EarlyMigrates ==
    ASSUME MigrationInv, P!ManagerProcessAssumption, NEW p \in Processes,
           P!Boot(p) \/ P!Lock(p) \/ P!LockTimesOut(p) \/ P!ReadDone(p) \/ P!Unlock(p) \/ P!Listen(p)
              \/ P!ListenFails(p)
    PROVE  MigrationInv'
<1> USE DEF P!database
<1>1. recorded \subseteq Nat
    BY DEF MigrationInv, InOrder
<1>2. KindsFit'
    BY <1>1, MigratingKinds DEF MigrationInv
<1>3. /\ UNCHANGED <<schema, recorded, troubled>> /\ process[p] \in ProcessKind
      /\ \A q \in Processes \ {p} : process'[q] = process[q]
    BY DEF MigrationInv, KindsFit, P!Boot, P!Lock, P!LockTimesOut, P!ReadDone, P!Unlock, P!Listen,
           P!ListenFails
<1>4. InOrder'
    BY <1>3 DEF MigrationInv, InOrder
<1>5. \A q \in Processes : q # "free" /\ q # "nobody"
    BY DEF P!ManagerProcessAssumption
<1>6. CASE P!Boot(p)
  <2>1. process'[p].at = "locking" /\ UNCHANGED lock
    BY <1>6 DEF P!Boot, MigrationInv, KindsFit, ProcessKind
  <2> QED BY <1>2, <1>3, <1>4, <2>1, MigrationMoves DEF Early
<1>7. CASE P!Lock(p)
  <2>1. process'[p].at = "reading" /\ lock' = p /\ lock = "free"
    BY <1>7 DEF P!Lock, P!MayLock, MigrationInv, KindsFit, ProcessKind
  <2> QED BY <1>2, <1>3, <1>4, <1>5, <2>1, MigrationMoves DEF Early
<1>8. CASE P!LockTimesOut(p)
  <2>1. process'[p].at = "down" /\ UNCHANGED lock
    BY <1>8 DEF P!LockTimesOut, MigrationInv, KindsFit, P!Down
  <2> QED BY <1>2, <1>3, <1>4, <2>1, MigrationMoves DEF Early
<1>9. CASE P!ReadDone(p)
  <2>1. process'[p].at = "migrating" /\ process'[p].done = recorded /\ UNCHANGED lock /\ lock = p
    BY <1>9 DEF P!ReadDone, MigrationInv, HolderKnows, KindsFit, ProcessKind, P!At
  <2> QED BY <1>2, <1>3, <1>4, <2>1, MigrationMoves DEF Early
<1>10. CASE P!Unlock(p)
  <2>1. lock = p /\ lock' = "free"
    BY <1>10 DEF P!Unlock, MigrationInv, HolderKnows, P!At
  <2>2. \/ process'[p].at = "down"
        \/ process'[p].at = "starting" /\ P!At(p, "migrating") /\ P!Missing(p) = {}
    BY <1>3, <1>10 DEF P!Unlock, MigrationInv, KindsFit, ProcessKind, P!Down, P!At
  <2>3. process'[p].at = "starting" => 1..Versions[p] \subseteq recorded
    BY <2>2, HolderHas DEF Early
  <2> QED BY <1>2, <1>3, <1>4, <2>1, <2>2, <2>3, MigrationMoves DEF Early
<1>11. CASE P!Listen(p)
  <2>1. /\ process[p].at \in {"starting", "serving", "closing"} \cup P!Late /\ UNCHANGED lock
        /\ process' = [process EXCEPT ![p] = Listening(p)]
    BY <1>11, ListenAs DEF P!Listen, P!Running, MigrationInv, KindsFit
  <2>2. process'[p].at \in {"serving", "closing"} \cup P!Late
    BY <1>3, <2>1 DEF MigrationInv, KindsFit, ProcessKind, Listening
  <2>3. 1..Versions[p] \subseteq recorded
    BY <2>1 DEF MigrationInv, ServersMigrated, Early, P!Late
  <2>4. process'[p].at \notin Early
    BY <2>2 DEF Early, P!Late
  <2> QED BY <1>2, <1>3, <1>4, <2>1, <2>3, <2>4, MigrationMoves DEF Early
<1>12. CASE P!ListenFails(p)
  <2>1. process'[p].at = "down" /\ UNCHANGED lock
    BY <1>12 DEF P!ListenFails, MigrationInv, KindsFit, P!Down
  <2> QED BY <1>2, <1>3, <1>4, <2>1, MigrationMoves DEF Early
<1> QED BY <1>6, <1>7, <1>8, <1>9, <1>10, <1>11, <1>12

LEMMA StartMigrates ==
    ASSUME MigrationInv, NEW p \in Processes, P!Start(p)
    PROVE  MigrationInv'
<1>1. /\ process' = [process EXCEPT ![p] = Started(p)]
      /\ UNCHANGED <<lock, schema, recorded>> /\ troubled \subseteq troubled'
    BY StartAs DEF P!Start, P!database, MigrationInv, KindsFit
<1>2. process'[p].at = process[p].at /\ process'[p].done = process[p].done
    BY <1>1 DEF MigrationInv, KindsFit, ProcessKind, Started
<1>3. \A q \in Processes \ {p} : process'[q] = process[q]
    BY <1>1 DEF MigrationInv, KindsFit
<1>4. KindsFit'
  <2>1. Started(p) \in ProcessKind
    BY DEF MigrationInv, KindsFit, ProcessKind, Started
  <2> QED BY <1>1, <2>1, ProcessKinds DEF P!Start, P!database, MigrationInv, KindsFit
<1> QED BY <1>1, <1>2, <1>3, <1>4, MigrationsStay DEF P!database

LEMMA ServingMigrates ==
    ASSUME MigrationInv, NEW p \in Processes,
           P!Tick(p) \/ P!PassEnds(p) \/ P!Signal(p) \/ P!Close(p) \/ P!Drain(p) \/ P!Refused(p) \/ P!Exit(p)
    PROVE  MigrationInv'
<1>1. KindsFit'
    BY ServingKinds DEF MigrationInv
<1>2. UNCHANGED P!database /\ troubled \subseteq troubled'
    BY DEF P!Tick, P!PassEnds, P!Signal, P!Close, P!Drain, P!Refused, P!Exit
<1>3. \/ process'[p].at = process[p].at /\ process'[p].done = process[p].done
      \/ process'[p].at = "down"
      \/ process[p].at \notin Early \ {"starting"} /\ process'[p].at \notin Early \ {"starting"}
  <2> USE DEF MigrationInv, KindsFit, ProcessKind, P!At
  <2>1. CASE P!Tick(p) \/ P!Refused(p)
    BY <2>1 DEF P!Tick, P!Refused
  <2>2. CASE P!PassEnds(p)
    <3>1. PICK promoted \in SUBSET P!Waiting : process' = [process EXCEPT ![p] = PassEnded(p, promoted)]
      BY <2>2, PassEndsAs
    <3>2. process'[p] = PassEnded(p, promoted)
      BY <3>1
    <3> QED BY <3>2 DEF PassEnded, Early
  <2>3. CASE P!Signal(p) \/ P!Drain(p)
    BY <2>3 DEF P!Signal, P!Drain, Early
  <2>4. CASE P!Close(p)
    <3>1. process'[p].at = P!Stopped(p).at
      BY <2>4 DEF P!Close, P!Stopped
    <3>2. P!Stopped(p).at \in {"stopping", "draining"}
      BY DEF P!Stopped
    <3> QED BY <2>4, <3>1, <3>2 DEF P!Close, Early
  <2>5. CASE P!Exit(p)
    BY <2>5 DEF P!Exit, P!Down
  <2> QED BY <2>1, <2>2, <2>3, <2>4, <2>5
<1>4. \A q \in Processes \ {p} : process'[q] = process[q]
    BY DEF MigrationInv, KindsFit, P!Tick, P!PassEnds, P!Signal, P!Close, P!Drain, P!Refused, P!Exit
<1> QED BY <1>1, <1>2, <1>3, <1>4, MigrationsStay

LEMMA RequestMigrates ==
    ASSUME MigrationInv,
           \/ \E p \in Processes, b \in Boxes : P!Provisioned(p, b)
           \/ \E p \in Processes, c \in Clients, b \in Boxes : P!Call(c, p, b)
           \/ \E c \in Clients : P!Insert(c) \/ P!Admit(c) \/ P!Release(c) \/ P!Answer(c) \/ P!HangUp(c)
           \/ UNCHANGED P!vars
    PROVE  MigrationInv'
<1>1. KindsFit'
    BY ProvisionedKinds, CallKinds, RequestStepKinds DEF MigrationInv, KindsFit, P!vars, P!database
<1>2. UNCHANGED P!database /\ troubled \subseteq troubled'
    BY DEF P!Provisioned, P!Call, P!Insert, P!Admit, P!Release, P!Answer, P!HangUp, P!vars
<1>3. \A q \in Processes : process'[q].at = process[q].at /\ process'[q].done = process[q].done
  <2> USE DEF MigrationInv, KindsFit, ProcessKind
  <2>1. ASSUME NEW p \in Processes, NEW b \in Boxes, P!Provisioned(p, b) PROVE <1>3
    BY <2>1 DEF P!Provisioned
  <2>2. ASSUME NEW c \in Clients, P!Admit(c) PROVE <1>3
    BY <2>2 DEF P!Admit
  <2>3. ASSUME NEW c \in Clients, P!Release(c) PROVE <1>3
    <3>1. served[c].on \in Processes
      BY <2>3, RequestIs DEF P!Release
    <3>2. PICK p \in Processes : process' = [process EXCEPT ![p].pass = TRUE] \/ UNCHANGED process
      BY <2>3, <3>1 DEF P!Release
    <3>3. CASE UNCHANGED process
      BY <3>3
    <3>4. CASE process' = [process EXCEPT ![p].pass = TRUE]
      <4> SUFFICES ASSUME NEW q \in Processes
                   PROVE  process'[q].at = process[q].at /\ process'[q].done = process[q].done
          OBVIOUS
      <4>1. process \in [Processes -> ProcessKind]
        BY DEF MigrationInv, KindsFit
      <4> QED BY <3>4, <4>1 DEF ProcessKind
    <3> QED BY <3>2, <3>3, <3>4
  <2>4. CASE UNCHANGED process
    BY <2>4
  <2> QED BY <2>1, <2>2, <2>3, <2>4 DEF P!Call, P!Insert, P!Answer, P!HangUp, P!vars
<1> QED BY <1>1, <1>2, <1>3, MigrationsStay

LEMMA MigrationNext ==
    ASSUME MigrationInv, P!ManagerProcessAssumption, [P!Next]_P!vars
    PROVE  MigrationInv'
<1>1. CASE P!ConnectionEnds
  <2>1. UNCHANGED <<schema, recorded, box, process, served, troubled>> /\ lock = "nobody"
    BY <1>1 DEF P!ConnectionEnds
  <2>2. \A p \in Processes : p # "nobody"
    BY DEF P!ManagerProcessAssumption
  <2>3. KindsFit' /\ InOrder' /\ ServersMigrated'
    BY <2>1 DEF MigrationInv, KindsFit, InOrder, ServersMigrated, P!At
  <2>4. HolderKnows'
    BY <2>1, <2>2 DEF MigrationInv, HolderKnows, P!At
  <2> QED BY <2>3, <2>4 DEF MigrationInv
<1> QED BY <1>1, EarlyMigrates, MigrateMigrates, FailureMigrates, CrashMigrates, StartMigrates,
           ServingMigrates, RequestMigrates DEF P!Next

LEMMA MigrationInit == P!Init => MigrationInv
<1> SUFFICES ASSUME P!Init PROVE MigrationInv
    OBVIOUS
<1>1. KindsFit
    BY DownFits DEF P!Init, KindsFit, Row
<1>2. InOrder
    BY DEF P!Init, InOrder
<1>3. \A p \in Processes : process[p].at = "down"
    BY DEF P!Init, P!Down
<1>4. HolderKnows /\ ServersMigrated
    BY <1>3 DEF HolderKnows, ServersMigrated, P!At, Early
<1> QED BY <1>1, <1>2, <1>4 DEF MigrationInv

\* However many processes start at the same time, of whatever versions, and
\* die wherever, the migrations are applied in order and once, and a process
\* serves when all it knows have been (migrate.ts).
THEOREM MigrationsAreApplied == P!ManagerProcessAssumption => (P!Spec => []P!MigrationsHold)
<1> SUFFICES ASSUME P!ManagerProcessAssumption PROVE P!Spec => []P!MigrationsHold
    OBVIOUS
<1>1. MigrationInv => P!MigrationsHold
  <2> SUFFICES ASSUME MigrationInv PROVE P!MigrationsHold
      OBVIOUS
  <2>1. schema \in Seq(Nat) /\ DOMAIN schema = 1..Len(schema)
    BY DEF MigrationInv, KindsFit
  <2>2. schema = [i \in DOMAIN schema |-> i]
    BY <2>1 DEF MigrationInv, InOrder
  <2>3. recorded = P!ToSet(schema)
    BY <2>1 DEF MigrationInv, InOrder, P!ToSet
  <2> QED BY <2>2, <2>3 DEF P!MigrationsHold, MigrationInv, ServersMigrated, P!At, Early
<1>2. MigrationInv /\ [P!Next]_P!vars => MigrationInv'
    BY MigrationNext
<1> QED BY <1>1, <1>2, MigrationInit, PTL DEF P!Spec

-----------------------------------------------------------------------------
(***************************************************************************)
(* The shutdown                                                            *)
(***************************************************************************)

\* A step is of one process, or of a request of one.
LEMMA StopMoves ==
    ASSUME StopInv, NEW p \in Processes, troubled \subseteq troubled',
           \A q \in Processes \ {p} : process'[q] = process[q] /\ P!Of(q)' \subseteq P!Of(q),
           StopsInOrder(p)', RowsAreBuilt'
    PROVE  StopInv'
<1> SUFFICES ASSUME NEW q \in Processes, q # p PROVE StopsInOrder(q)'
    BY DEF StopInv
<1>1. process'[q] = process[q] /\ P!Of(q)' \subseteq P!Of(q) /\ StopsInOrder(q)
    BY DEF StopInv
<1> QED BY <1>1 DEF StopsInOrder, NothingBegun, P!At

\* No row is begun, and what is being built is not dropped.
LEMMA RowsStay ==
    ASSUME StopInv, troubled \subseteq troubled',
           \A b \in Boxes : box'[b] = "PROVISIONING" => box[b] = "PROVISIONING",
           \A p \in Processes : process[p].building \subseteq process'[p].building
    PROVE  RowsAreBuilt'
    BY DEF StopInv, RowsAreBuilt

\* What is promoted is begun by who promoted it.
LEMMA RowsPromoted ==
    ASSUME KindsFit, StopInv, UNCHANGED troubled, NEW promoted \in SUBSET P!Waiting,
           P!Promote(promoted), NEW p \in Processes, promoted \subseteq process'[p].building,
           \A q \in Processes : process[q].building \subseteq process'[q].building
    PROVE  RowsAreBuilt'
    BY DEF KindsFit, StopInv, RowsAreBuilt, P!Promote, P!Waiting

\* Requests come only to a process that serves.
LEMMA OfStays ==
    ASSUME KindsFit, UNCHANGED served, NEW q
    PROVE  P!Of(q)' = P!Of(q)
    BY DEF P!Of

LEMMA OfLeaves ==
    ASSUME KindsFit, P!ManagerProcessAssumption, NEW c \in Clients,
           \/ served' = [served EXCEPT ![c] = P!NoRequest]
           \/ \E at : served' = [served EXCEPT ![c].at = at]
           \/ served' = [served EXCEPT ![c].gone = TRUE],
           served[c].at # "none", NEW q \in Processes
    PROVE  P!Of(q)' \subseteq P!Of(q)
<1>1. served[c] \in RequestKind /\ q # "nobody"
    BY RequestIs DEF P!ManagerProcessAssumption
<1>2. \A d \in Clients : d # c => served'[d] = served[d]
    BY DEF KindsFit
<1>3. served'[c].on = q => served[c].on = q
    BY <1>1 DEF KindsFit, RequestKind, P!NoRequest
<1> QED BY <1>2, <1>3 DEF P!Of

LEMMA EarlyStops ==
    ASSUME KindsFit, StopInv, NEW p \in Processes,
           \/ P!Boot(p) \/ P!Lock(p) \/ P!LockTimesOut(p) \/ P!ReadDone(p) \/ P!Unlock(p) \/ P!Listen(p)
           \/ P!ListenFails(p) \/ P!Migrate(p) \/ P!MigrationFails(p)
    PROVE  StopInv'
<1> USE DEF P!Boot, P!Lock, P!LockTimesOut, P!ReadDone, P!Unlock, P!ListenFails, P!Migrate,
            P!MigrationFails
<1>1. /\ process[p].main = "listen" /\ NothingBegun(p) /\ process[p] \in ProcessKind
      /\ UNCHANGED <<box, served>> /\ troubled \subseteq troubled'
    BY DEF KindsFit, StopInv, StopsInOrder, Early, P!At, P!Listen
<1>2. \A q \in Processes \ {p} : process'[q] = process[q] /\ P!Of(q)' \subseteq P!Of(q)
    BY <1>1, OfStays DEF KindsFit, P!Listen
<1>3. /\ process'[p].building = {} /\ process'[p].awaited = {} /\ ~process'[p].forsaken
      /\ ~process'[p].timer /\ ~process'[p].pass
      /\ process'[p].at \notin Early \/ process'[p].main = "listen"
      /\ process'[p].at = "serving" => process'[p].main # "listen"
  <2>1. CASE P!Boot(p)
    <3>1. process'[p] = [process[p] EXCEPT !.at = "locking"]
      BY <2>1 DEF KindsFit
    <3> QED BY <1>1, <3>1 DEF ProcessKind, NothingBegun, Early
  <2>2. CASE P!Lock(p)
    <3>1. process'[p] = [process[p] EXCEPT !.at = "reading"]
      BY <2>2 DEF KindsFit
    <3> QED BY <1>1, <3>1 DEF ProcessKind, NothingBegun, Early
  <2>3. CASE P!LockTimesOut(p)
    <3>1. process'[p] = P!Down
      BY <2>3 DEF KindsFit
    <3> QED BY <1>1, <3>1 DEF ProcessKind, NothingBegun, Early, P!Down
  <2>4. CASE P!ReadDone(p)
    <3>1. process'[p] = [process[p] EXCEPT !.at = "migrating", !.done = recorded]
      BY <2>4 DEF KindsFit
    <3> QED BY <1>1, <3>1 DEF ProcessKind, NothingBegun, Early
  <2>5. CASE P!Listen(p)
    <3>1. process' = [process EXCEPT ![p] = Listening(p)]
      BY <2>5, ListenAs DEF KindsFit
    <3>2. process[p].at \in {"starting", "serving", "closing"} \cup P!Late
      BY <2>5 DEF P!Listen, P!Running
    <3>3. process'[p] = Listening(p)
      BY <3>1 DEF KindsFit
    <3> QED BY <1>1, <3>2, <3>3 DEF ProcessKind, NothingBegun, Early, P!Late, Listening
  <2>6. CASE P!MigrationFails(p)
    <3>1. process'[p] = [process[p] EXCEPT !.at = "failed"]
      BY <2>6 DEF KindsFit
    <3> QED BY <1>1, <3>1 DEF ProcessKind, NothingBegun, Early
  <2>7. CASE P!Unlock(p)
    <3>1. process'[p] = P!Down \/ process'[p] = [process[p] EXCEPT !.at = "starting"]
      BY <2>7 DEF KindsFit
    <3> QED BY <1>1, <3>1 DEF ProcessKind, NothingBegun, Early, P!Down
  <2>8. CASE P!Migrate(p)
    <3>1. \/ process'[p] = [process[p] EXCEPT !.done = process[p].done \cup {P!Min(P!Missing(p))}]
          \/ process'[p] = [process[p] EXCEPT !.at = "failed"]
      BY <2>8 DEF KindsFit
    <3>2. process[p].at = "migrating"
      BY <2>8 DEF P!At
    <3> QED BY <1>1, <3>1, <3>2 DEF ProcessKind, NothingBegun, Early
  <2>9. CASE P!ListenFails(p)
    <3>1. process'[p] = P!Down
      BY <2>9 DEF KindsFit
    <3> QED BY <1>1, <3>1 DEF ProcessKind, NothingBegun, Early, P!Down
  <2> QED BY <2>1, <2>2, <2>3, <2>4, <2>5, <2>6, <2>7, <2>8, <2>9
<1>4. P!Of(p)' = {}
    BY <1>1, OfStays DEF NothingBegun
<1>5. StopsInOrder(p)'
    BY <1>3, <1>4 DEF StopsInOrder, NothingBegun, Early, P!Late, P!At
<1>6. RowsAreBuilt'
  <2>1. \A q \in Processes : process[q].building \subseteq process'[q].building
    BY <1>1, <1>2, <1>3 DEF NothingBegun
  <2> QED BY <1>1, <2>1, RowsStay
<1> QED BY <1>1, <1>2, <1>5, <1>6, StopMoves

\* While a pass runs, or the timer, the process has not got beyond waiting for
\* it, unless a request was left behind.
LEMMA BusyIs ==
    ASSUME KindsFit, StopInv, NEW p \in Processes
    PROVE  /\ process[p] \in ProcessKind /\ StopsInOrder(p)
           /\ process[p].timer \/ process[p].pass \/ process[p].building # {} \/ P!Of(p) # {} =>
                 process[p].at \notin Early /\ process[p].main # "listen"
           /\ process[p].timer => process[p].main = "done"
           /\ process[p].timer => process[p].at \notin P!Late \/ process[p].forsaken
           /\ process[p].pass => process[p].at \notin {"draining", "ended"} \/ process[p].forsaken
           /\ P!Of(p) # {} => process[p].at \notin P!Late \/ process[p].forsaken
           /\ process[p].building # {} => ~P!At(p, "ended") \/ process[p].forsaken
           /\ process[p].forsaken => troubled # {}
<1>1. process[p] \in ProcessKind /\ StopsInOrder(p)
    BY DEF KindsFit, StopInv
<1> QED BY <1>1 DEF StopsInOrder, NothingBegun, P!At, P!Late

\* Started before its stop, the loop is stopped with the rest; after it, it is
\* one of the troubles.
LEMMA StartStops ==
    ASSUME KindsFit, StopInv, NEW p \in Processes, P!Start(p)
    PROVE  StopInv'
<1>1. /\ process' = [process EXCEPT ![p] = Started(p)] /\ process[p].main = "start"
      /\ UNCHANGED <<box, served>> /\ troubled \subseteq troubled'
      /\ process[p].at \in P!Late => troubled' # {}
    BY StartAs DEF P!Start, KindsFit
<1>2. /\ process'[p].at = process[p].at /\ process'[p].main = "done"
      /\ process'[p].building = process[p].building
      /\ process'[p].forsaken = (process[p].forsaken \/ process[p].at \in P!Late)
    BY <1>1 DEF KindsFit, ProcessKind, Started
<1>3. \A q \in Processes \ {p} : process'[q] = process[q]
    BY <1>1 DEF KindsFit
<1>4. StopsInOrder(p)'
  <2>1. process[p].at \notin Early /\ (process[p].forsaken => troubled # {})
    BY <1>1 DEF StopInv, StopsInOrder
  <2>2. process'[p].at \in P!Late => process'[p].forsaken /\ troubled' # {}
    BY <1>1, <1>2
  <2>3. process'[p].forsaken => troubled' # {}
    BY <1>1, <1>2, <2>1
  <2>4. process'[p].at \notin Early
    BY <1>2, <2>1
  <2> QED BY <1>2, <2>2, <2>3, <2>4 DEF StopsInOrder, P!At, P!Late
<1>5. RowsAreBuilt'
  <2>1. \A q \in Processes : process[q].building \subseteq process'[q].building
    BY <1>2, <1>3
  <2> QED BY <1>1, <2>1, RowsStay
<1> QED BY <1>1, <1>3, <1>4, <1>5, OfStays, StopMoves

LEMMA TickStops ==
    ASSUME KindsFit, StopInv, NEW p \in Processes, P!Tick(p)
    PROVE  StopInv'
<1>1. /\ process' = [process EXCEPT ![p].pass = TRUE] /\ process[p].timer
      /\ UNCHANGED <<box, served, troubled>>
    BY DEF P!Tick
<1>2. /\ process'[p].at = process[p].at /\ process'[p].forsaken = process[p].forsaken
      /\ process'[p].building = process[p].building /\ process[p].at \notin Early
      /\ process'[p].main = "done"
      /\ process[p].at \notin P!Late \/ process[p].forsaken
      /\ process[p].forsaken => troubled # {}
    BY <1>1, BusyIs DEF KindsFit, ProcessKind
<1>3. \A q \in Processes \ {p} : process'[q] = process[q]
    BY <1>1 DEF KindsFit
<1>4. StopsInOrder(p)'
    BY <1>1, <1>2 DEF StopsInOrder, P!At, P!Late
<1>5. RowsAreBuilt'
  <2>1. \A q \in Processes : process[q].building \subseteq process'[q].building
    BY <1>2, <1>3
  <2> QED BY <1>1, <2>1, RowsStay
<1> QED BY <1>1, <1>3, <1>4, <1>5, OfStays, StopMoves

LEMMA PassEndsStops ==
    ASSUME KindsFit, StopInv, NEW p \in Processes, P!PassEnds(p)
    PROVE  StopInv'
<1>1. PICK promoted \in SUBSET P!Waiting :
         P!Promote(promoted) /\ process' = [process EXCEPT ![p] = PassEnded(p, promoted)]
    BY PassEndsAs DEF KindsFit
<1>2. process[p].pass /\ P!HasPool(p) /\ UNCHANGED <<served, troubled>>
    BY DEF P!PassEnds
<1>3. /\ process'[p] = PassEnded(p, promoted)
      /\ \A q \in Processes \ {p} : process'[q] = process[q]
    BY <1>1 DEF KindsFit
<1>4. /\ process'[p].building = process[p].building \cup promoted
      /\ ~process'[p].pass /\ process'[p].timer = process[p].timer
      /\ process'[p].forsaken = process[p].forsaken /\ process'[p].main = process[p].main
      /\ process'[p].at = (IF P!At(p, "stopping") THEN "draining" ELSE process[p].at)
      /\ P!At(p, "stopping") => process'[p].awaited = process[p].building \cup promoted
    BY <1>3, BusyIs DEF PassEnded, ProcessKind
<1>5. StopsInOrder(p)'
  <2>1. /\ process[p].at \notin Early \cup {"ended"}
        /\ process[p].at # "draining" \/ process[p].forsaken
        /\ process[p].main # "listen" /\ (process[p].main # "done" => ~process[p].timer)
        /\ process[p].forsaken => troubled # {}
        /\ process[p].at \in P!Late /\ ~process[p].forsaken => ~process[p].timer /\ P!Of(p) = {}
    BY <1>2, BusyIs DEF P!HasPool, StopsInOrder
  <2>2. P!Of(p)' = P!Of(p)
    BY <1>2, OfStays
  <2>3. process'[p].at \notin Early
    BY <1>4, <2>1 DEF Early
  <2> QED BY <1>2, <1>4, <2>1, <2>2, <2>3 DEF StopsInOrder, P!At, P!Late
<1>6. RowsAreBuilt'
  <2>1. \A q \in Processes : process[q].building \subseteq process'[q].building
    BY <1>3, <1>4
  <2>2. promoted \subseteq process'[p].building
    BY <1>4
  <2> QED BY <1>1, <1>2, <2>1, <2>2, RowsPromoted
<1> QED BY <1>2, <1>3, <1>5, <1>6, OfStays, StopMoves

\* After close() there are no requests but of clients that hung up; after
\* stop() no pass; after drain() nothing that is being built.
LEMMA ShutdownStops ==
    ASSUME KindsFit, StopInv, NEW p \in Processes, P!Signal(p) \/ P!Close(p) \/ P!Drain(p)
    PROVE  StopInv'
<1>1. /\ UNCHANGED <<box, served>> /\ troubled \subseteq troubled'
      /\ process[p] \in ProcessKind /\ StopsInOrder(p)
      /\ \A q \in Processes \ {p} : process'[q] = process[q]
    BY DEF KindsFit, StopInv, P!Signal, P!Close, P!Drain
<1>2. P!Of(p)' = P!Of(p)
    BY <1>1, OfStays
<1>3. process'[p].building = process[p].building /\ StopsInOrder(p)'
  <2>1. CASE P!Signal(p)
    <3>1. /\ process'[p] = [process[p] EXCEPT !.at = "closing"] /\ UNCHANGED troubled
          /\ process[p].at \in {"starting", "serving"}
      BY <2>1 DEF P!Signal, KindsFit
    <3>2. /\ process'[p].at = "closing" /\ process'[p].main = process[p].main
          /\ process'[p].timer = process[p].timer /\ process'[p].pass = process[p].pass
          /\ process'[p].building = process[p].building /\ process'[p].awaited = process[p].awaited
          /\ process'[p].forsaken = process[p].forsaken
      BY <1>1, <3>1 DEF ProcessKind
    <3>3. process[p].main = "listen" => NothingBegun(p)'
      BY <1>1, <1>2, <3>2 DEF StopsInOrder, NothingBegun
    <3> QED BY <1>1, <3>1, <3>2, <3>3 DEF StopsInOrder, P!At, Early, P!Late
  <2>2. CASE P!Close(p)
    <3>1. /\ process'[p] = [P!Stopped(p) EXCEPT !.forsaken = P!Of(p) # {}]
          /\ P!Of(p) # {} => troubled' # {}
      <4>1. P!Of(p) # {} => "forsaken" \in troubled'
        BY <2>2 DEF P!Close
      <4> QED BY <2>2, <4>1 DEF P!Close, KindsFit
    <3>2. /\ process'[p].building = process[p].building /\ process'[p].pass = process[p].pass
          /\ ~process'[p].timer /\ (process'[p].forsaken <=> P!Of(p) # {})
          /\ process'[p].main = process[p].main
          /\ \/ process'[p].at = "stopping"
             \/ /\ process'[p].at = "draining" /\ ~process[p].pass
                /\ process'[p].awaited = process[p].building
      BY <1>1, <3>1 DEF P!Stopped, ProcessKind
    <3>3. process[p].main = "listen" => NothingBegun(p)'
      <4> SUFFICES ASSUME process[p].main = "listen" PROVE NothingBegun(p)'
          OBVIOUS
      <4>1. NothingBegun(p)
        BY <1>1 DEF StopsInOrder
      <4>2. process'[p].awaited = {}
        BY <1>1, <3>1, <4>1 DEF P!Stopped, ProcessKind, NothingBegun
      <4>3. /\ ~process[p].timer /\ ~process[p].pass /\ process[p].building = {}
            /\ P!Of(p) = {}
        BY <4>1 DEF NothingBegun
      <4>4. /\ ~process'[p].timer /\ ~process'[p].pass /\ process'[p].building = {}
            /\ ~process'[p].forsaken /\ P!Of(p)' = {}
        BY <1>2, <3>2, <4>3
      <4> QED BY <4>2, <4>4 DEF NothingBegun
    <3> QED BY <1>2, <3>1, <3>2, <3>3 DEF StopsInOrder, P!At, Early, P!Late
  <2>3. CASE P!Drain(p)
    <3>1. /\ process'[p] = [process[p] EXCEPT !.at = "ended"] /\ UNCHANGED troubled
          /\ P!At(p, "draining") /\ process[p].awaited \cap process[p].building = {}
      BY <2>3 DEF P!Drain, KindsFit
    <3>2. /\ process'[p].at = "ended" /\ process'[p].building = process[p].building
          /\ process'[p].pass = process[p].pass /\ process'[p].timer = process[p].timer
          /\ process'[p].forsaken = process[p].forsaken /\ process'[p].main = process[p].main
          /\ process'[p].awaited = process[p].awaited
      BY <1>1, <3>1 DEF ProcessKind
    <3>3. ~process[p].forsaken =>
             ~process[p].pass /\ process[p].building = {} /\ ~process[p].timer /\ P!Of(p) = {}
      BY <1>1, <3>1 DEF StopsInOrder, P!At, P!Late
    <3>4. process[p].forsaken => troubled # {}
      BY <1>1 DEF StopsInOrder
    <3>5. /\ process[p].main = "listen" => NothingBegun(p)'
          /\ process[p].main # "done" => ~process[p].timer
      BY <1>1, <1>2, <3>2 DEF StopsInOrder, NothingBegun
    <3> QED BY <1>2, <3>1, <3>2, <3>3, <3>4, <3>5 DEF StopsInOrder, P!At, Early
  <2> QED BY <2>1, <2>2, <2>3
<1>4. RowsAreBuilt'
  <2>1. \A q \in Processes : process[q].building \subseteq process'[q].building
    BY <1>1, <1>3
  <2> QED BY <1>1, <2>1, RowsStay
<1> QED BY <1>1, <1>3, <1>4, OfStays, StopMoves

LEMMA EndStops ==
    ASSUME KindsFit, P!ManagerProcessAssumption, StopInv, NEW p \in Processes,
           P!Refused(p) \/ P!Exit(p) \/ P!Crash(p)
    PROVE  StopInv'
<1>1. /\ UNCHANGED box /\ troubled \subseteq troubled'
      /\ process[p] \in ProcessKind /\ StopsInOrder(p)
      /\ \A q \in Processes \ {p} : process'[q] = process[q]
    BY DEF KindsFit, StopInv, P!Refused, P!Exit, P!Crash
<1>2. CASE P!Refused(p)
  <2>1. \A q \in Processes : P!Of(q)' \subseteq P!Of(q)
    <3>1. CASE UNCHANGED served
      BY <3>1, OfStays
    <3>2. ASSUME NEW c \in P!Of(p), served' = [served EXCEPT ![c] = P!NoRequest]
          PROVE  \A q \in Processes : P!Of(q)' \subseteq P!Of(q)
      <4>1. c \in Clients /\ served[c].at # "none"
        <5>1. c \in Clients /\ served[c].on \in Processes
          BY <3>2 DEF P!Of
        <5>2. served[c] # P!NoRequest
          BY <5>1 DEF P!NoRequest, P!ManagerProcessAssumption
        <5> QED BY <5>1, <5>2 DEF KindsFit, RequestKind
      <4> QED BY <3>2, <4>1, OfLeaves
    <3> QED BY <1>2, <3>1, <3>2 DEF P!Refused
  <2>2. /\ process'[p].at = process[p].at /\ process'[p].forsaken = process[p].forsaken
        /\ process'[p].building = process[p].building /\ process'[p].timer = process[p].timer
        /\ process'[p].awaited = process[p].awaited /\ (process'[p].pass => process[p].pass)
        /\ process'[p].main = process[p].main
    BY <1>1, <1>2 DEF P!Refused, KindsFit, ProcessKind
  <2>3. StopsInOrder(p)'
    BY <1>1, <2>1, <2>2 DEF StopsInOrder, NothingBegun, P!At
  <2>4. RowsAreBuilt'
    <3>1. \A q \in Processes : process[q].building \subseteq process'[q].building
      BY <1>1, <2>2
    <3> QED BY <1>1, <3>1, RowsStay
  <2> QED BY <1>1, <2>1, <2>3, <2>4, StopMoves
<1>3. CASE P!Exit(p) \/ P!Crash(p)
  <2>1. process'[p] = P!Down
    BY <1>3 DEF P!Exit, P!Crash, KindsFit
  <2>2. P!Of(p)' = {} /\ \A q \in Processes : P!Of(q)' \subseteq P!Of(q)
    <3>1. CASE P!Exit(p)
      BY <3>1, OfStays DEF P!Exit
    <3>2. CASE P!Crash(p)
      BY <3>2 DEF P!Crash, P!Of, P!NoRequest, P!ManagerProcessAssumption
    <3> QED BY <1>3, <3>1, <3>2
  <2>3. StopsInOrder(p)'
    BY <2>1, <2>2 DEF StopsInOrder, NothingBegun, P!Down, P!At, P!Late
  <2>4. RowsAreBuilt'
    <3>1. CASE P!Exit(p)
      <4>1. \A q \in Processes : process[q].building \subseteq process'[q].building
        BY <1>1, <3>1 DEF P!Exit
      <4> QED BY <1>1, <4>1, RowsStay
    <3>2. CASE P!Crash(p)
      BY <3>2 DEF P!Crash, RowsAreBuilt
    <3> QED BY <1>3, <3>1, <3>2
  <2> QED BY <1>1, <2>2, <2>3, <2>4, StopMoves
<1> QED BY <1>2, <1>3

\* What cannot be recorded for want of a pool is of a process that left a
\* request or its loop behind.
LEMMA ProvisionedStops ==
    ASSUME KindsFit, StopInv, NEW p \in Processes, NEW b \in Boxes, P!Provisioned(p, b)
    PROVE  StopInv'
<1>1. /\ process'[p] = [process[p] EXCEPT !.building = process[p].building \ {b}]
      /\ \A q \in Processes \ {p} : process'[q] = process[q]
      /\ UNCHANGED <<served, troubled>> /\ b \in process[p].building
    BY DEF KindsFit, P!Provisioned
<1>2. /\ process'[p].building = process[p].building \ {b} /\ process'[p].at = process[p].at
      /\ process'[p].pass = process[p].pass /\ process'[p].timer = process[p].timer
      /\ process'[p].awaited = process[p].awaited /\ process'[p].forsaken = process[p].forsaken
      /\ process'[p].main = process[p].main
    BY <1>1 DEF KindsFit, ProcessKind
<1>3. StopsInOrder(p)'
  <2>1. P!Of(p)' = P!Of(p) /\ StopsInOrder(p)
    BY <1>1, OfStays DEF StopInv
  <2> QED BY <1>1, <1>2, <2>1 DEF StopsInOrder, NothingBegun, P!At
<1>4. RowsAreBuilt'
  <2> SUFFICES ASSUME NEW d \in Boxes, box'[d] = "PROVISIONING", troubled = {}
               PROVE  \E q \in Processes : d \in process'[q].building
      BY <1>1 DEF RowsAreBuilt
  <2>1. P!HasPool(p)
    BY <1>1, BusyIs DEF P!HasPool, Early, P!At
  <2>2. d # b /\ box[d] = "PROVISIONING"
    BY <2>1 DEF P!Provisioned, KindsFit
  <2>3. PICK q \in Processes : d \in process[q].building
    BY <2>2 DEF StopInv, RowsAreBuilt
  <2> QED BY <1>1, <1>2, <2>2, <2>3
<1> QED BY <1>1, <1>3, <1>4, OfStays, StopMoves

LEMMA CallStops ==
    ASSUME KindsFit, StopInv, NEW p \in Processes, NEW c \in Clients, NEW b \in Boxes,
           P!Call(c, p, b)
    PROVE  StopInv'
<1>1. UNCHANGED <<process, box, troubled>> /\ P!At(p, "serving")
    BY DEF P!Call
<1>2. \A d \in Clients : served'[d] = served[d] \/ served'[d].on = p
    BY DEF P!Call, KindsFit
<1>3. \A q \in Processes \ {p} : P!Of(q)' \subseteq P!Of(q)
    BY <1>2 DEF P!Of
<1>4. StopsInOrder(p)'
    BY <1>1 DEF StopInv, StopsInOrder, P!At, Early, P!Late
<1>5. RowsAreBuilt'
    BY <1>1, RowsStay
<1> QED BY <1>1, <1>3, <1>4, <1>5, StopMoves

LEMMA RequestStops ==
    ASSUME KindsFit, P!ManagerProcessAssumption, StopInv, NEW c \in Clients,
           P!Insert(c) \/ P!Admit(c) \/ P!Release(c) \/ P!Answer(c) \/ P!HangUp(c)
    PROVE  StopInv'
<1>1. served[c].at # "none"
    BY DEF P!Insert, P!Admit, P!Release, P!Answer, P!HangUp
<1>2. PICK p \in Processes : p = served[c].on
    BY <1>1, RequestIs
<1>3. c \in P!Of(p)
    BY <1>2 DEF P!Of
<1>4. /\ \A q \in Processes : P!Of(q)' \subseteq P!Of(q)
      /\ UNCHANGED troubled
  <2>1. UNCHANGED troubled
    BY DEF P!Insert, P!Admit, P!Release, P!Answer, P!HangUp
  <2>2. \/ served' = [served EXCEPT ![c] = P!NoRequest]
        \/ \E at : served' = [served EXCEPT ![c].at = at]
        \/ served' = [served EXCEPT ![c].gone = TRUE]
    BY DEF P!Insert, P!Admit, P!Release, P!Answer, P!HangUp
  <2> QED BY <1>1, <2>1, <2>2, OfLeaves
<1>5. /\ process[p] \in ProcessKind /\ StopsInOrder(p) /\ process[p].at \notin Early
      /\ process[p].main # "listen" /\ (process[p].main # "done" => ~process[p].timer)
      /\ process[p].at \notin P!Late \/ process[p].forsaken
      /\ process[p].forsaken => troubled # {}
    BY <1>3, BusyIs DEF StopsInOrder
<1>6. CASE UNCHANGED process /\ ~P!Admit(c)
  <2>1. \A b \in Boxes : box'[b] = "PROVISIONING" => box[b] = "PROVISIONING"
    <3>1. CASE P!Insert(c)
      BY <1>1, <3>1, RequestIs DEF P!Insert, KindsFit
    <3>2. CASE P!Release(c)
      BY <1>1, <3>2, RequestIs DEF P!Release, KindsFit
    <3>3. CASE P!Answer(c) \/ P!HangUp(c)
      BY <3>3 DEF P!Answer, P!HangUp
    <3> QED BY <1>6, <3>1, <3>2, <3>3
  <2>2. RowsAreBuilt'
    BY <1>4, <1>6, <2>1, RowsStay
  <2>3. StopsInOrder(p)'
    BY <1>4, <1>5, <1>6 DEF StopsInOrder, P!At
  <2> QED BY <1>4, <1>6, <2>2, <2>3, StopMoves
<1>7. CASE P!Admit(c)
  <2>1. PICK promoted \in SUBSET P!Waiting :
           /\ P!Promote(promoted)
           /\ process' = [process EXCEPT ![p].building = process[p].building \cup promoted]
    BY <1>2, <1>7 DEF P!Admit
  <2>2. /\ process'[p].building = process[p].building \cup promoted
        /\ process'[p].at = process[p].at /\ process'[p].forsaken = process[p].forsaken
        /\ process'[p].main = process[p].main /\ process'[p].timer = process[p].timer
        /\ \A q \in Processes \ {p} : process'[q] = process[q]
    BY <1>5, <2>1 DEF KindsFit, ProcessKind
  <2>3. StopsInOrder(p)'
    BY <1>4, <1>5, <2>2 DEF StopsInOrder, P!At, P!Late
  <2>4. RowsAreBuilt'
    <3>1. /\ promoted \subseteq process'[p].building
          /\ \A q \in Processes : process[q].building \subseteq process'[q].building
      BY <2>2
    <3> QED BY <1>4, <2>1, <3>1, RowsPromoted
  <2> QED BY <1>4, <2>2, <2>3, <2>4, StopMoves
<1>8. CASE P!Release(c) /\ ~(UNCHANGED process)
  <2>1. process' = [process EXCEPT ![p].pass = TRUE]
    BY <1>2, <1>8 DEF P!Release
  <2>2. /\ process'[p].building = process[p].building
        /\ process'[p].at = process[p].at /\ process'[p].forsaken = process[p].forsaken
        /\ process'[p].main = process[p].main /\ process'[p].timer = process[p].timer
        /\ \A q \in Processes \ {p} : process'[q] = process[q]
    BY <1>5, <2>1 DEF KindsFit, ProcessKind
  <2>3. StopsInOrder(p)'
    BY <1>4, <1>5, <2>2 DEF StopsInOrder, P!At, P!Late
  <2>4. RowsAreBuilt'
    <3>1. \A b \in Boxes : box'[b] = "PROVISIONING" => box[b] = "PROVISIONING"
      BY <1>1, <1>8, RequestIs DEF P!Release, KindsFit
    <3>2. \A q \in Processes : process[q].building \subseteq process'[q].building
      BY <2>2
    <3> QED BY <1>4, <3>1, <3>2, RowsStay
  <2> QED BY <1>4, <2>2, <2>3, <2>4, StopMoves
<1> QED BY <1>6, <1>7, <1>8 DEF P!Insert, P!Answer, P!HangUp

LEMMA StopNext ==
    ASSUME KindsFit, P!ManagerProcessAssumption, StopInv, [P!Next]_P!vars
    PROVE  StopInv'
<1>1. CASE P!ConnectionEnds \/ UNCHANGED P!vars
  <2>1. UNCHANGED <<box, process, served, troubled>>
    BY <1>1 DEF P!ConnectionEnds, P!vars
  <2> QED BY <2>1 DEF StopInv, StopsInOrder, NothingBegun, RowsAreBuilt, P!Of, P!At
<1> QED BY <1>1, EarlyStops, StartStops, TickStops, PassEndsStops, ShutdownStops, EndStops, ProvisionedStops,
           CallStops, RequestStops DEF P!Next

LEMMA StopInit == P!ManagerProcessAssumption /\ P!Init => StopInv
<1> SUFFICES ASSUME P!ManagerProcessAssumption, P!Init PROVE StopInv
    OBVIOUS
<1>1. \A p \in Processes : process[p] = P!Down /\ P!Of(p) = {}
    BY DEF P!Init, P!Of, P!NoRequest, P!ManagerProcessAssumption
<1>2. \A p \in Processes : StopsInOrder(p)
    BY <1>1 DEF StopsInOrder, NothingBegun, P!Down, P!At, P!Late
<1>3. RowsAreBuilt
    BY DEF P!Init, RowsAreBuilt
<1> QED BY <1>2, <1>3 DEF StopInv

\* A process that has ended its pool has finished what it had begun, for any
\* number of processes, requests and sandboxes and wherever in its start the
\* signal reached it, but for a request that outlived its client and a loop
\* that was started after it had been stopped; and a row being provisioned is
\* being provisioned, unless a process was killed or one of these was left
\* (main.ts, shutdown).
THEOREM ShutdownFinishes == P!ManagerProcessAssumption => (P!Spec => []P!StopsClean)
<1> SUFFICES ASSUME P!ManagerProcessAssumption PROVE P!Spec => []P!StopsClean
    OBVIOUS
<1>1. StopInv => P!StopsClean
  <2> SUFFICES ASSUME StopInv PROVE P!StopsClean
      OBVIOUS
  <2>1. \A p \in Processes : P!At(p, "ended") /\ ~process[p].forsaken =>
           process[p].building = {} /\ ~process[p].pass /\ P!Of(p) = {}
    BY DEF StopInv, StopsInOrder, P!At, P!Late
  <2> QED BY <2>1 DEF P!StopsClean, StopInv, RowsAreBuilt
<1>2. P!Init => MigrationInv /\ StopInv
    BY MigrationInit, StopInit
<1>3. MigrationInv /\ StopInv /\ [P!Next]_P!vars => (MigrationInv /\ StopInv)'
    BY MigrationNext, StopNext DEF MigrationInv
<1> QED BY <1>1, <1>2, <1>3, PTL DEF P!Spec

===============================================================================
