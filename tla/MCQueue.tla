-------------------------------- MODULE MCQueue --------------------------------
(***************************************************************************)
(* An instance of the sandbox manager for TLC that is about its queue.  A  *)
(* behaviour is of one kind, chosen at its start: requests that come one at*)
(* a time, for the first two sandboxes, after which anything may happen; or*)
(* a burst, of all handlers at once and for all sandboxes, upon a manager  *)
(* that has not built anything yet.                                        *)
(***************************************************************************)
EXTENDS MCSandboxManager

VARIABLE kind

\* One at a time, which one handler does.
Calm ==
    \A h \in Handlers : post[h].pc # "idle" =>
        post[h].req <= 2 /\ h = CHOOSE only \in Handlers : TRUE

\* A burst is over before a pass begins and before anything is on the runtime.
Burst == runtime = Unseen /\ \A r \in Replicas : phase[r] = "idle"

-----------------------------------------------------------------------------
QueueInit == Init /\ kind \in {"calm", "burst"}

QueueNext ==
    /\ UNCHANGED kind
    /\ \/ kind = "calm" /\ Next /\ Calm'
       \/ kind = "burst" /\ Next /\ Burst'
       \/ kind = "burst" /\ UNCHANGED vars

QueueSpec == QueueInit /\ [][QueueNext]_<<kind, vars>> /\ Fairness

=============================================================================
