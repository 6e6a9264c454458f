----------------------------- MODULE MCExecutions -----------------------------
(***************************************************************************)
(* Instances of Executions for TLC: scripts with and without a transaction,*)
(* split over several requests, next to an analysis and a report.          *)
(***************************************************************************)
EXTENDS Executions

Script(s) == [kind |-> "script", script |-> s]

MixedJobs ==
    {Script(<<"begin", "create">>), Script(<<"rollback">>),
     [kind |-> "analyze", script |-> <<"read">>], [kind |-> "report", script |-> <<>>]}

TransactionJobs == {Script(<<"begin", "create">>), Script(<<"read">>), Script(<<"commit">>)}

==============================================================================
