--------------------------- MODULE SandboxLifecycle ---------------------------
(***************************************************************************)
(* What the sandbox manager promises its callers, without replicas, locks, *)
(* containers or failures: a sandbox is requested, waits in the queue,     *)
(* holds one of MaxActive slots, and ends once and for all; admission and  *)
(* the count of the slots are one step.                                    *)
(***************************************************************************)
EXTENDS Naturals, FiniteSets

CONSTANTS Sandbox, MaxActive

VARIABLE stage

Held == {s \in Sandbox : stage[s] = "held"}

Init == stage = [s \in Sandbox |-> "absent"]

Request(s) == stage[s] = "absent" /\ stage' = [stage EXCEPT ![s] = "queued"]

\* Queued sandboxes take slots, as many as are free.
Admit(S) ==
    /\ \A s \in S : stage[s] = "queued"
    /\ Cardinality(Held \cup S) <= MaxActive
    /\ stage' = [s \in Sandbox |-> IF s \in S THEN "held" ELSE stage[s]]

\* Released from the queue, torn down, or failed.
End(s) == stage[s] \in {"queued", "held"} /\ stage' = [stage EXCEPT ![s] = "ended"]

Next ==
    \/ \E s \in Sandbox : Request(s) \/ End(s)
    \/ \E S \in SUBSET Sandbox : Admit(S)

Spec == Init /\ [][Next]_stage

=============================================================================
