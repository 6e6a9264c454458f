----------------------------- MODULE DockerRuntime -----------------------------
(***************************************************************************)
(* The container and the network of one sandbox, call by call to the       *)
(* Docker Engine (apps/sandbox-manager, provider/docker): provision and    *)
(* destroy, which SandboxManager takes in fewer steps, and reattach, which *)
(* it leaves out.  A destroy may overlap the provisioning, another destroy *)
(* and a reattach; the clients of the sandbox (the API) are recreated by   *)
(* every deploy, which takes them off its network.                         *)
(***************************************************************************)
EXTENDS Naturals, FiniteSets

CONSTANTS
    Clients,    \* SANDBOX_ATTACH_CONTAINERS
    Destroyers, \* who may call destroy at once: two replicas and a clean-up
    MaxFaults   \* bound: failed calls, crashes, containers that stop, deploys

\* What the constants must be (assumed by the instance).
DockerRuntimeAssumption == "sandbox" \notin Clients /\ MaxFaults \in Nat

VARIABLES
    container,  \* its state, as inspect tells it
    network,    \* whether the network exists
    ends,       \* endpoints on the network: clients, and the sandbox if it runs
    up,         \* the clients that exist
    wanted,     \* the record is neither ended nor being torn down
    provision,  \* [pc, left]: how far provision() has come, who is still to join
    destroy,    \* for each destroyer [pc, left, outcome, late]
    reattach,   \* [pc, left]: reattach(), as the loop calls it
    faults

engine == <<container, network, ends, up>>
vars == <<engine, wanted, provision, destroy, reattach, faults>>

-----------------------------------------------------------------------------
Container == {"none", "created", "running", "healthy", "exited", "removing"}
Building == {"network", "container", "attach", "start", "health"}
Outcome == {"none", "ok", "failed"}

TypeOK ==
    /\ container \in Container /\ network \in BOOLEAN
    /\ up \subseteq Clients /\ ends \subseteq up \cup {"sandbox"}
    /\ wanted \in BOOLEAN /\ faults \in 0..MaxFaults
    /\ provision \in [pc : Building \cup {"off", "ok", "failed"}, left : SUBSET Clients]
    /\ destroy \in [Destroyers -> [pc : {"idle", "remove", "removal", "inspect", "detach", "unlink"},
                                   left : SUBSET (Clients \cup {"sandbox"}),
                                   outcome : Outcome, late : BOOLEAN]]
    /\ reattach \in [pc : {"idle", "inspect", "connect"}, left : SUBSET Clients]

Fault == faults < MaxFaults /\ faults' = faults + 1

Left == container # "none" \/ network

-----------------------------------------------------------------------------
(***************************************************************************)
(* DockerProvider.provision                                                *)
(***************************************************************************)
Provisions(pc) == provision' = [provision EXCEPT !.pc = pc]

\* It throws: the record becomes FAILED, if it was still PROVISIONING.
ProvisionFails == Provisions("failed") /\ wanted' = FALSE

\* The record is PROVISIONING, or has left it since it was admitted.
BeginProvision ==
    /\ provision.pc = "off"
    /\ Provisions("network")
    /\ UNCHANGED <<engine, wanted, destroy, reattach, faults>>

\* 201, or 409 because it exists, which is as good.
CreateNetwork ==
    /\ provision.pc = "network"
    /\ network' = TRUE
    /\ Provisions("container")
    /\ UNCHANGED <<container, ends, up, wanted, destroy, reattach, faults>>

\* Docker may notice only at the start that its network is gone.
CreateContainer ==
    /\ provision.pc = "container"
    /\ \/ /\ container' = "created"
          /\ Provisions("attach")
          /\ UNCHANGED wanted
       \/ /\ ~network
          /\ ProvisionFails
          /\ UNCHANGED container
    /\ UNCHANGED <<network, ends, up, destroy, reattach, faults>>

\* connectNetwork succeeds: the client was not on the network, or was.
Connect(c) == network /\ c \in up /\ ends' = ends \cup {c}

\* The clients join; a client or a network that is not there fails it all.
Attach ==
    /\ provision.pc = "attach"
    /\ IF provision.left = {}
       THEN Provisions("start") /\ UNCHANGED <<ends, wanted>>
       ELSE \E c \in provision.left :
               \/ /\ Connect(c)
                  /\ provision' = [provision EXCEPT !.left = @ \ {c}]
                  /\ UNCHANGED wanted
               \/ ~(network /\ c \in up) /\ ProvisionFails /\ UNCHANGED ends
    /\ UNCHANGED <<container, network, up, destroy, reattach, faults>>

StartContainer ==
    /\ provision.pc = "start"
    /\ IF container = "created" /\ network
       THEN /\ container' = "running"
            /\ ends' = ends \cup {"sandbox"}
            /\ Provisions("health")
            /\ UNCHANGED wanted
       ELSE ProvisionFails /\ UNCHANGED <<container, ends>>
    /\ UNCHANGED <<network, up, destroy, reattach, faults>>

\* waitHealthy(): healthy, vanished, exited, or not healthy in time.
WaitHealthy ==
    /\ provision.pc = "health"
    /\ \/ container = "healthy" /\ Provisions("ok") /\ UNCHANGED wanted
       \/ container # "healthy" /\ ProvisionFails
    /\ UNCHANGED <<engine, destroy, reattach, faults>>

ProvisionFault ==
    /\ provision.pc \in Building
    /\ Fault
    /\ ProvisionFails
    /\ UNCHANGED <<engine, destroy, reattach>>

-----------------------------------------------------------------------------
(***************************************************************************)
(* DockerProvider.destroy                                                  *)
(***************************************************************************)
DestroyGoes(d, pc) == destroy' = [destroy EXCEPT ![d].pc = pc]

Returns(d, outcome) ==
    destroy' = [destroy EXCEPT ![d].pc = "idle", ![d].left = {}, ![d].outcome = outcome]

\* A teardown or a clean-up, and again while it fails or something is left,
\* which every pass finds by its labels.
BeginDestroy(d) ==
    /\ ~wanted /\ destroy[d].pc = "idle"
    /\ destroy[d].outcome # "ok" \/ Left
    /\ destroy' = [destroy EXCEPT
            ![d] = [pc |-> "remove", left |-> {}, outcome |-> "none",
                    late |-> provision.pc \notin {"ok", "failed"}]]
    /\ UNCHANGED <<engine, wanted, provision, reattach, faults>>

\* A mistake the runs must catch: the network is taken for all there is.
RemoveWithNetwork(d) ==
    /\ destroy[d].pc = "remove"
    /\ IF network /\ container \notin {"none", "removing"}
       THEN /\ container' = "removing" /\ ends' = ends \ {"sandbox"}
            /\ DestroyGoes(d, "removal")
       ELSE DestroyGoes(d, "inspect") /\ UNCHANGED <<container, ends>>
    /\ UNCHANGED <<network, up, wanted, provision, reattach, faults>>

\* removeContainer(): it kills and removes; already gone, or on its way out
\* for another, is fine, and then is not waited for.
Remove(d) ==
    /\ destroy[d].pc = "remove"
    /\ IF container \in {"none", "removing"}
       THEN DestroyGoes(d, "inspect") /\ UNCHANGED <<container, ends>>
       ELSE /\ container' = "removing" /\ ends' = ends \ {"sandbox"}
            /\ DestroyGoes(d, "removal")
    /\ UNCHANGED <<network, up, wanted, provision, reattach, faults>>

Removed(d) ==
    /\ destroy[d].pc = "removal" /\ container = "none"
    /\ DestroyGoes(d, "inspect")
    /\ UNCHANGED <<engine, wanted, provision, reattach, faults>>

\* inspectNetwork(): nothing more to do, or who is to be detached.
Inspect(d) ==
    /\ destroy[d].pc = "inspect"
    /\ IF network THEN destroy' = [destroy EXCEPT ![d].pc = "detach", ![d].left = ends]
                  ELSE Returns(d, "ok")
    /\ UNCHANGED <<engine, wanted, provision, reattach, faults>>

\* disconnectNetwork(): by force, so a container that runs loses its network.
Detach(d) ==
    /\ destroy[d].pc = "detach"
    /\ IF destroy[d].left = {}
       THEN DestroyGoes(d, "unlink") /\ UNCHANGED ends
       ELSE \E e \in destroy[d].left :
               /\ ends' = ends \ {e}
               /\ destroy' = [destroy EXCEPT ![d].left = @ \ {e}]
    /\ UNCHANGED <<container, network, up, wanted, provision, reattach, faults>>

\* removeNetwork(): refused while anything is, or is again, on the network.
Unlink(d) ==
    /\ destroy[d].pc = "unlink"
    /\ IF ends = {} THEN network' = FALSE /\ Returns(d, "ok")
                    ELSE Returns(d, "failed") /\ UNCHANGED network
    /\ UNCHANGED <<container, ends, up, wanted, provision, reattach, faults>>

DestroyFault(d) ==
    /\ destroy[d].pc # "idle"
    /\ Fault
    /\ Returns(d, "failed")
    /\ UNCHANGED <<engine, wanted, provision, reattach>>

-----------------------------------------------------------------------------
(***************************************************************************)
(* DockerProvider.reattach, at the end of every pass                       *)
(***************************************************************************)
BeginReattach ==
    /\ reattach.pc = "idle" /\ wanted /\ provision.pc = "ok"
    /\ reattach' = [pc |-> "inspect", left |-> {}]
    /\ UNCHANGED <<engine, wanted, provision, destroy, faults>>

Missing ==
    /\ reattach.pc = "inspect"
    /\ reattach' = IF network THEN [pc |-> "connect", left |-> Clients \ ends]
                              ELSE [pc |-> "idle", left |-> {}]
    /\ UNCHANGED <<engine, wanted, provision, destroy, faults>>

\* A mistake the runs must catch: a client that is not there fails the rest.
ReconnectAll ==
    /\ reattach.pc = "connect"
    /\ \/ /\ reattach.left = {}
          /\ reattach' = [reattach EXCEPT !.pc = "idle"]
          /\ UNCHANGED ends
       \/ \E c \in reattach.left :
             IF network /\ c \in up
             THEN Connect(c) /\ reattach' = [reattach EXCEPT !.left = @ \ {c}]
             ELSE reattach' = [pc |-> "idle", left |-> {}] /\ UNCHANGED ends
    /\ UNCHANGED <<container, network, up, wanted, provision, destroy, faults>>

\* A client or a network that is not there is skipped.
Reconnect ==
    /\ reattach.pc = "connect"
    /\ \/ /\ reattach.left = {}
          /\ reattach' = [reattach EXCEPT !.pc = "idle"]
          /\ UNCHANGED ends
       \/ \E c \in reattach.left :
             /\ Connect(c) \/ (~(network /\ c \in up) /\ UNCHANGED ends)
             /\ reattach' = [reattach EXCEPT !.left = @ \ {c}]
    /\ UNCHANGED <<container, network, up, wanted, provision, destroy, faults>>

ReattachFault ==
    /\ reattach.pc # "idle"
    /\ Fault
    /\ reattach' = [pc |-> "idle", left |-> {}]
    /\ UNCHANGED <<engine, wanted, provision, destroy>>

-----------------------------------------------------------------------------
(***************************************************************************)
(* The engine, the clients and the manager                                 *)
(***************************************************************************)

\* The seed has run: the healthcheck passes.
Seeded ==
    /\ container = "running"
    /\ container' = "healthy"
    /\ UNCHANGED <<network, ends, up, wanted, provision, destroy, reattach, faults>>

Stops ==
    /\ container \in {"running", "healthy"}
    /\ Fault
    /\ container' = "exited"
    /\ ends' = ends \ {"sandbox"}
    /\ UNCHANGED <<network, up, wanted, provision, destroy, reattach>>

\* The engine removes a container, whether or not anybody waits for it.
RemovalEnds ==
    /\ container = "removing"
    /\ container' = "none"
    /\ UNCHANGED <<network, ends, up, wanted, provision, destroy, reattach, faults>>

\* A deploy takes a client away, as often as it likes, and brings it back on
\* none of the networks.
ClientGoes(c) ==
    /\ c \in up
    /\ up' = up \ {c}
    /\ ends' = ends \ {c}
    /\ UNCHANGED <<container, network, wanted, provision, destroy, reattach, faults>>

ClientComes(c) ==
    /\ c \notin up
    /\ up' = up \cup {c}
    /\ UNCHANGED <<container, network, ends, wanted, provision, destroy, reattach, faults>>

\* A DELETE, a deadline or a failure: the record is no longer live.
Release ==
    /\ wanted
    /\ wanted' = FALSE
    /\ UNCHANGED <<engine, provision, destroy, reattach, faults>>

\* The manager dies with what it was doing; a provisioning is never resumed,
\* and its record fails when its time is up.
Crash ==
    /\ Fault
    /\ IF provision.pc \in Building THEN ProvisionFails ELSE UNCHANGED <<provision, wanted>>
    /\ destroy' = [d \in Destroyers |->
            IF destroy[d].pc = "idle" THEN destroy[d]
            ELSE [destroy[d] EXCEPT !.pc = "idle", !.left = {}, !.outcome = "failed"]]
    /\ reattach' = [pc |-> "idle", left |-> {}]
    /\ UNCHANGED engine

-----------------------------------------------------------------------------
Init ==
    /\ container = "none" /\ network = FALSE /\ ends = {}
    /\ up \in SUBSET Clients
    /\ wanted = TRUE
    /\ provision = [pc |-> "off", left |-> Clients]
    /\ destroy = [d \in Destroyers |->
                    [pc |-> "idle", left |-> {}, outcome |-> "none", late |-> FALSE]]
    /\ reattach = [pc |-> "idle", left |-> {}]
    /\ faults = 0

Provision ==
    \/ BeginProvision \/ CreateNetwork \/ CreateContainer \/ Attach \/ StartContainer
    \/ WaitHealthy

Destroy(d) == BeginDestroy(d) \/ Remove(d) \/ Removed(d) \/ Inspect(d) \/ Detach(d) \/ Unlink(d)

Reattach == BeginReattach \/ Missing \/ Reconnect

Next ==
    \/ Provision \/ ProvisionFault
    \/ \E d \in Destroyers : Destroy(d) \/ DestroyFault(d)
    \/ Reattach \/ ReattachFault
    \/ Seeded \/ Stops \/ RemovalEnds \/ Release \/ Crash
    \/ \E c \in Clients : ClientGoes(c) \/ ClientComes(c)

\* What is called is answered or given up, and the loop goes on.
Fairness ==
    /\ WF_vars(Provision) /\ WF_vars(Reattach) /\ WF_vars(RemovalEnds)
    /\ \A d \in Destroyers : WF_vars(Destroy(d))

Spec == Init /\ [][Next]_vars /\ Fairness

-----------------------------------------------------------------------------
\* A destroy that returned has left nothing, whoever else was destroying,
\* joining or leaving: at most a container that the engine is still removing
\* for another.  (One that began before the provisioning had ended may have
\* come too early: what it missed is listed, and destroyed as an orphan.)
DestroyedIsGone ==
    \A d \in Destroyers :
        destroy[d].outcome = "ok" /\ ~destroy[d].late =>
            ~network /\ container \in {"none", "removing"}

\* The engine comes to agree with the record.  A sandbox that is no longer
\* wanted goes for good, although a client that joins again makes the removal
\* of its network fail; and a client recreated by a deploy is back on the
\* network of a live sandbox, whether or not the other clients exist.
EngineFollows ==
    /\ <>[](wanted \/ ~Left)
    /\ \A c \in Clients :
          <>[](wanted /\ provision.pc = "ok" /\ network /\ c \in up) => []<>(c \in ends)

=============================================================================
