--------------------------- MODULE MCSandboxManager ---------------------------
(***************************************************************************)
(* Instances of the sandbox manager for TLC.  Handlers are interchangeable,*)
(* and so are replicas that all run the loop; sandboxes are not: they are  *)
(* ordered.                                                                *)
(***************************************************************************)
EXTENDS SandboxManager, TLC

Symmetry == Permutations(Replicas) \cup Permutations(Handlers)

=============================================================================
