------------------------------ MODULE MCSessions ------------------------------
(* Instances of the sessions for TLC: they all belong to one client. *)
EXTENDS Sessions

OneClient == [s \in Session |-> "client"]

=============================================================================
