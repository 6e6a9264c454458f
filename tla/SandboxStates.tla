---------------------------- MODULE SandboxStates ----------------------------
(***************************************************************************)
(* The vocabulary of the sandbox manager: the statuses of a T2 sandbox     *)
(* record, the transitions the code allows between them, and the two       *)
(* groups of statuses the rest of the manager is written in terms of       *)
(* (apps/sandbox-manager/src/domain).                                      *)
(***************************************************************************)

\* "absent" is the lack of a row; the other eight are SANDBOX_STATUSES.
Status == {"absent", "PENDING", "PROVISIONING", "READY", "ACTIVE",
           "EXPIRING", "DESTROYING", "DESTROYED", "FAILED"}

Terminal == {"DESTROYED", "FAILED"}

\* The statuses that take a slot of MAX_ACTIVE_SANDBOXES.
SlotStatuses == {"PROVISIONING", "READY", "ACTIVE", "EXPIRING", "DESTROYING"}

\* What listLive returns: every row not yet in a terminal status.
Live == {"PENDING"} \cup SlotStatuses

\* The statuses a DELETE still has something to do about.
Releasable == {"PENDING", "PROVISIONING", "READY", "ACTIVE"}

\* TRANSITIONS of the state machine, plus the insert of the row.
Transitions ==
    [absent       |-> {"PENDING"},
     PENDING      |-> {"PROVISIONING", "DESTROYED", "FAILED"},
     PROVISIONING |-> {"READY", "EXPIRING", "FAILED"},
     READY        |-> {"ACTIVE", "EXPIRING", "FAILED"},
     ACTIVE       |-> {"EXPIRING", "FAILED"},
     EXPIRING     |-> {"DESTROYING", "FAILED"},
     DESTROYING   |-> {"DESTROYED", "FAILED"},
     DESTROYED    |-> {},
     FAILED       |-> {}]

=============================================================================
