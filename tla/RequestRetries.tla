---------------------------- MODULE RequestRetries ----------------------------
(***************************************************************************)
(* The two requests that read a record of the sandbox manager and then     *)
(* compare-and-set what they read: Scheduler.heartbeat and                 *)
(* Scheduler.release, on one sandbox, with their retry loops step by step. *)
(* SandboxManager takes each for one step; here the loops are shown to do  *)
(* no more than that, and what happens when they run out of attempts.      *)
(***************************************************************************)
EXTENDS SandboxStates, Naturals, FiniteSets

CONSTANTS
    Heartbeats,     \* heartbeat requests
    Deletes,        \* DELETE requests
    CasRetries      \* CAS_RETRIES

\* What the constants must be (assumed by the instance).
RetriesAssumption ==
    /\ Heartbeats \cap Deletes = {}
    /\ CasRetries \in Nat \ {0}

VARIABLES
    status,     \* status of the row
    call        \* the loop of each request

vars == <<status, call>>

Calls == Heartbeats \cup Deletes

\* read: before store.get; cas: before the compare-and-set; last: before the
\* read that follows the last attempt.  The others are how a call returns:
\* moved (it changed or renewed the record), refused (a conflict, or a record
\* already on its way out) or exhausted (the record read after the attempts).
Pc == {"idle", "read", "cas", "last", "moved", "refused", "exhausted"}

Call == [pc : Pc, left : 0..CasRetries, seen : Status]

Goes(c, pc, left, st) ==
    call' = [call EXCEPT ![c] = [pc |-> pc, left |-> left, seen |-> st]]

\* A mistake the runs must catch: a single attempt.
OneAttempt == 1

\* What the loop of a request counts down from.
Attempts == CasRetries

Start(c) ==
    /\ call[c].pc = "idle"
    /\ Goes(c, "read", Attempts, "absent")
    /\ UNCHANGED status

\* The statuses the request has something to do about.
Concerns(c) == IF c \in Heartbeats THEN {"READY", "ACTIVE"} ELSE Releasable

Read(c) ==
    /\ call[c].pc = "read"
    /\ IF status \in Concerns(c) THEN Goes(c, "cas", call[c].left - 1, status)
                                 ELSE Goes(c, "refused", 0, status)
    /\ UNCHANGED status

\* Where the request takes a record it read in this status.
Target(c, from) ==
    IF c \in Heartbeats THEN "ACTIVE" ELSE IF from = "PENDING" THEN "DESTROYED" ELSE "EXPIRING"

CompareAndSet(c) ==
    LET from == call[c].seen IN
    /\ call[c].pc = "cas"
    /\ IF status = from
       THEN status' = Target(c, from) /\ Goes(c, "moved", 0, from)
       ELSE /\ Goes(c, IF call[c].left = 0 THEN "last" ELSE "read", call[c].left, "absent")
            /\ UNCHANGED status

ReadLast(c) ==
    /\ call[c].pc = "last"
    /\ Goes(c, "exhausted", 0, status)
    /\ UNCHANGED status

\* Admission, provisioning and the loop: every other way a record moves.
Elsewhere ==
    /\ \E to \in Transitions[status] :
          /\ <<status, to>> \notin {<<"READY", "ACTIVE">>, <<"PENDING", "DESTROYED">>}
          /\ status' = to
    /\ UNCHANGED call

Init ==
    /\ status = "PENDING"
    /\ call = [c \in Calls |-> [pc |-> "idle", left |-> 0, seen |-> "absent"]]

Next ==
    \/ \E c \in Calls : Start(c) \/ Read(c) \/ CompareAndSet(c) \/ ReadLast(c)
    \/ Elsewhere

Spec == Init /\ [][Next]_vars

-----------------------------------------------------------------------------
TypeOK ==
    /\ status \in Status
    /\ call \in [Calls -> Call]

\* A heartbeat is refused only for a record that is not in use: the attempts
\* are as many as a sandbox has ways out of READY and ACTIVE.
HeartbeatRefusalIsReal ==
    \A c \in Heartbeats :
        call[c].pc \in {"refused", "exhausted"} => call[c].seen \notin {"READY", "ACTIVE"}

=============================================================================
