------------------------------- MODULE Analyses --------------------------------
(***************************************************************************)
(* The analysis of a query and its comparison with the last one of the     *)
(* same query: analyze.ts and display.ts of packages/engine, classify.ts   *)
(* of packages/sql-parser, pglite-backend.ts and PlanPanel.tsx of          *)
(* apps/web, analysis.service.ts and session-log.ts of apps/api.           *)
(*                                                                         *)
(* What an execution costs, on either access path, is part of the shape of *)
(* a query, of which an index may change the path; a run takes a little    *)
(* longer at times, and the first of an analysis may find a cold cache.    *)
(* Time is in thousandths of a millisecond.                                *)
(***************************************************************************)
EXTENDS Integers, Sequences, FiniteSets, SequencesExt

CONSTANTS
    Shapes,     \* the queries: what a fingerprint tells apart
    Jitters,    \* what a run may take on top
    ColdCache,  \* what the first may take on top
    Runs,       \* how often a query is run
    Analyzers,  \* analyses that may be under way at once
    MaxAnalyses,\* bound
    MaxAlters,  \* bound: indexes created and dropped
    MaxResets   \* bound: databases thrown away

NodeTypes == {"SelectStmt", "CopyStmt", "InsertStmt", "UpdateStmt", "DeleteStmt",
              "CreateTableAsStmt", "GrantStmt", "VariableSetStmt", "TransactionStmt",
              "ExplainStmt", "CallStmt"}

\* A query is a statement by its node in the parser's tree, where its INTO is
\* (of a UNION, in the leftmost SELECT), the node of its WITH, whether it calls
\* a function that writes, and its costs.
Shape == [node : NodeTypes, into : {"nowhere", "top", "leftmost"},
          with : NodeTypes \cup {"none"}, from : BOOLEAN, calls : BOOLEAN,
          scan : Nat \ {0}, indexed : Nat \ {0}]

\* What the constants must be (assumed by the instance).
AnalysesAssumption ==
    /\ Shapes \subseteq Shape
    /\ Jitters \cup {ColdCache, MaxAnalyses, MaxAlters, MaxResets} \subseteq Nat
    /\ Runs \in Nat /\ Runs > 1

VARIABLES
    tier,
    path,       \* how the database reaches the rows: "scan" or "indexed"
    era,        \* the database it is, counting those thrown away
    asked,      \* the analyses under way
    measured,   \* T0: the measurements of the tab, the last of every shape
    log,        \* the measurements in the order they were made; on T1 the events
    seen,       \* what the panel was last given: [before, after, stale]; with the last
                \* measurement in this database, which it should be compared with
    wrote,      \* how often an analysis of a shape has written in this database
    changes     \* [analyses, alters]: how many, to bound them

vars == <<tier, path, era, asked, measured, log, seen, wrote, changes>>

-----------------------------------------------------------------------------
(***************************************************************************)
(* classify()                                                              *)
(***************************************************************************)
dmlNodes == {"InsertStmt", "UpdateStmt", "DeleteStmt"}
dclNodes == {"GrantStmt"}
ddlNodes == {"CreateTableAsStmt"}
inertUtilityNodes == {"VariableSetStmt"}

\* The statements of a WITH that write.
ChangesData(node) == node \in dmlNodes

\* A mistake the runs must catch: nobody looks into a WITH.
Unlooked(s) ==
    CASE s.node = "SelectStmt" -> IF s.into = "top" THEN "ddl" ELSE "read"
      [] s.node = "CopyStmt" -> IF s.from THEN "dml" ELSE "read"
      [] OTHER -> "utility"

Classify(s) ==
    CASE s.node = "SelectStmt" ->
            IF s.into = "top" THEN "ddl" ELSE IF ChangesData(s.with) THEN "dml" ELSE "read"
      [] s.node = "CopyStmt" -> IF s.from THEN "dml" ELSE "read"
      [] s.node = "TransactionStmt" -> "transaction"
      [] s.node = "ExplainStmt" -> "explain"
      [] s.node \in dmlNodes -> "dml"
      [] s.node \in dclNodes -> "dcl"
      [] s.node \in ddlNodes -> "ddl"
      [] OTHER -> "utility"     \* those of inertUtilityNodes, too

-----------------------------------------------------------------------------
(***************************************************************************)
(* The server                                                              *)
(***************************************************************************)

\* Whether to run it is to make a table, which goes once; whether it is to
\* write; and what EXPLAIN can be asked of.
Creates(s) == s.node \in ddlNodes \/ s.into # "nowhere"
Writes(s) == Creates(s) \/ s.node \in dmlNodes \/ s.with \in dmlNodes \/ s.calls
Explainable(s) == s.node \in {"SelectStmt", "CreateTableAsStmt"} \cup dmlNodes

-----------------------------------------------------------------------------
(***************************************************************************)
(* analyzeQuery()                                                          *)
(***************************************************************************)
Idle == [stage |-> "idle"]

ReadOnly(s) == Classify(s) = "read"

\* The mean of the middle two, of which one is the other when their number is
\* odd; rounded.
Median(samples) ==
    LET sorted == SortSeq(samples, <)
        low == sorted[(Len(samples) + 1) \div 2]
        high == sorted[Len(samples) \div 2 + 1]
    IN  (low + high + 1) \div 2

\* The outcome, of the runs but the first; without samples there is no median
\* (-1).  `crossed`, `version` and `era` are history: whether a script changed
\* something meanwhile, and what it was made of.
Analysis(a) ==
    LET samples == IF Runs > 1 THEN Tail(a.samples) ELSE a.samples IN
    [shape |-> a.shape, access |-> a.access,
     median |-> IF ~ReadOnly(a.shape) THEN -1 ELSE Median(samples),
     notMeasured |-> ~ReadOnly(a.shape),
     crossed |-> a.crossed, version |-> a.version, era |-> a.era]

\* What is kept of it.
ToMeasurement(analysis) ==
    [field \in DOMAIN analysis \ {"notMeasured"} |-> analysis[field]]

\* On T1 it is one at a time with everything else of its session, which is
\* what `exclusive` is for; in the tab scripts come in between.
Exclusive == tier = "T1"
Busy == \E a \in Analyzers : asked[a].stage = "running"

Ask(a, s) ==
    /\ asked[a] = Idle /\ changes.analyses < MaxAnalyses
    /\ asked' = [asked EXCEPT ![a] = [stage |-> "asked", shape |-> s]]
    /\ changes' = [changes EXCEPT !.analyses = @ + 1]
    /\ UNCHANGED <<tier, path, era, measured, log, seen, wrote>>

Begin(a) ==
    /\ asked[a].stage = "asked"
    /\ ~(Exclusive /\ Busy)
    /\ asked' = [asked EXCEPT ![a] =
          [stage |-> "running", shape |-> @.shape, left |-> IF ReadOnly(@.shape) THEN Runs ELSE 1,
           samples |-> <<>>, access |-> path,
           crossed |-> FALSE, version |-> changes.alters, era |-> era]]
    /\ UNCHANGED <<tier, path, era, measured, log, seen, wrote, changes>>

\* The table it makes is there: an analysis has made it.
Made(s) == Creates(s) /\ wrote[s] > 0

\* An EXPLAIN, which runs the query when it passes for one that only reads:
\* then there is a sample, and what a function it calls writes is written.
Explain(a) ==
    LET mine == asked[a] IN
    /\ mine.stage = "running" /\ mine.left > 0 /\ Explainable(mine.shape)
    /\ ~Made(mine.shape)
    /\ \E jitter \in Jitters, cold \in {0, ColdCache} :
          /\ ~ReadOnly(mine.shape) => jitter = 0
          /\ mine.samples # <<>> \/ ~ReadOnly(mine.shape) => cold = 0
          /\ asked' = [asked EXCEPT ![a] =
                [mine EXCEPT !.left = @ - 1, !.access = path,
                             !.samples = IF ReadOnly(mine.shape)
                                         THEN Append(@, mine.shape[path] + jitter + cold)
                                         ELSE @]]
    /\ wrote' = IF ReadOnly(mine.shape) /\ Writes(mine.shape)
                THEN [wrote EXCEPT ![mine.shape] = @ + 1] ELSE wrote
    /\ UNCHANGED <<tier, path, era, measured, log, seen, changes>>

\* The server refuses: it cannot explain that, or the table is there already.
Refuse(a) ==
    /\ asked[a].stage = "running" /\ asked[a].left > 0
    /\ ~Explainable(asked[a].shape) \/ Made(asked[a].shape)
    /\ asked' = [asked EXCEPT ![a] = Idle]
    /\ UNCHANGED <<tier, path, era, measured, log, seen, wrote, changes>>

-----------------------------------------------------------------------------
(***************************************************************************)
(* What it is compared with                                                *)
(***************************************************************************)
Nothing == [shape |-> "none"]
Unseen == [before |-> Nothing, after |-> Nothing, last |-> Nothing, stale |-> FALSE]

\* The newest in what there is of a session.
LastAnalysis(events, s) ==
    LET same == SelectSeq(events, LAMBDA m : m.shape = s /\ m.era = era)
    IN  IF same = <<>> THEN Nothing ELSE same[Len(same)]

Remembered(s) == IF s \in DOMAIN measured THEN measured[s] ELSE Nothing

Previous(s) == IF tier = "T0" THEN Remembered(s) ELSE LastAnalysis(log, s)

Record(m) ==
    /\ log' = Append(log, m)
    /\ measured' = IF tier = "T0" THEN (m.shape :> m) @@ measured ELSE measured


\* The panel is given the analysis and the measurement before, which it
\* replaces; what it had been given is not stale any more.
Finish(a) ==
    LET analysis == Analysis(asked[a]) IN
    /\ asked[a].stage = "running" /\ asked[a].left = 0
    /\ seen' = [before |-> Previous(analysis.shape), after |-> analysis, stale |-> FALSE,
                last |-> LastAnalysis(log, analysis.shape)]
    /\ Record(ToMeasurement(analysis))
    /\ asked' = [asked EXCEPT ![a] = Idle]
    /\ UNCHANGED <<tier, path, era, wrote, changes>>

\* A script creates an index, or drops it: applySchema() marks what is shown,
\* and knows nothing of what is under way.
Alter ==
    /\ changes.alters < MaxAlters
    /\ ~(Exclusive /\ Busy)
    /\ path' = IF path = "scan" THEN "indexed" ELSE "scan"
    /\ changes' = [changes EXCEPT !.alters = @ + 1]
    /\ seen' = [seen EXCEPT !.stale = seen.after # Nothing]
    /\ asked' = [a \in Analyzers |-> IF asked[a].stage # "running" THEN asked[a]
                                     ELSE [asked[a] EXCEPT !.crossed = TRUE]]
    /\ UNCHANGED <<tier, era, measured, log, wrote>>

\* reset(): in the tab another database takes its place; what was measured stays.
Reset ==
    /\ era < MaxResets
    /\ ~(Exclusive /\ Busy)
    /\ era' = era + 1 /\ path' = "scan"
    /\ asked' = [a \in Analyzers |-> Idle]
    /\ seen' = Unseen
    /\ wrote' = [s \in Shapes |-> 0]
    /\ UNCHANGED <<tier, measured, log, changes>>

-----------------------------------------------------------------------------
(***************************************************************************)
(* compareAnalyses()                                                       *)
(***************************************************************************)
NoiseFloor == 1000

\* The ratio of two medians, in thousandths, rounded.
Speedup(before, after) == (2000 * before + after) \div (2 * after)

Measurable(before, after) == before.median >= 0 /\ after.median > 0

\* Whether the difference means anything: a tenth, and not in the noise.
Significant(before, after) ==
    LET speedup == Speedup(before.median, after.median) IN
    /\ Measurable(before, after)
    /\ speedup >= 1100 \/ 11 * speedup <= 10000
    /\ \/ before.median >= NoiseFloor \/ after.median >= NoiseFloor
       \/ before.access # after.access

\* What the panel says of the two, if there are two.
Comparison(before, after) ==
    IF ~Measurable(before, after) THEN "nothing"
    ELSE IF ~Significant(before, after) THEN "no difference"
    ELSE IF Speedup(before.median, after.median) > 1000 THEN "faster" ELSE "slower"

\* Whether it says that a statement that writes was only estimated.
SaysNotMeasured(analysis) == analysis.notMeasured

-----------------------------------------------------------------------------
Init ==
    /\ tier \in {"T0", "T1"}
    /\ path = "scan" /\ era = 0
    /\ asked = [a \in Analyzers |-> Idle]
    /\ measured = <<>> /\ log = <<>>
    /\ seen = Unseen
    /\ wrote = [s \in Shapes |-> 0]
    /\ changes = [analyses |-> 0, alters |-> 0]

Next ==
    \/ \E a \in Analyzers :
          \/ \E s \in Shapes : Ask(a, s)
          \/ Begin(a) \/ Explain(a) \/ Refuse(a) \/ Finish(a)
    \/ Alter \/ Reset

Spec == Init /\ [][Next]_vars

-----------------------------------------------------------------------------
\* Two measurements of one database, and no script came between their runs.
Comparable(before, after) ==
    /\ before.era = after.era
    /\ ~before.crossed /\ ~after.crossed

\* What a query is compared with is its last measurement in this database - or,
\* in the tab, of one that was thrown away.  Where nothing changed no gain and
\* no loss is claimed, however cold the first run was; where the path did, and
\* the cost by more than half and the noise, it is, and the right one; and of
\* what was not measured nothing is.  What is shown is marked as stale exactly
\* when the schema changed since, unless it did while it was being made.
AnalysisIsHonest ==
    seen.after # Nothing =>
        LET before == seen.before
            after == seen.after
            said == Comparison(before, after)
            cost(m) == m.shape[m.access]
        IN
        /\ before = seen.last \/ (tier = "T0" /\ seen.last = Nothing /\ before.era < after.era)
        /\ after.crossed \/ (seen.stale <=> after.version # changes.alters)
        /\ SaysNotMeasured(after) <=> after.median = -1
        /\ before # Nothing /\ SaysNotMeasured(after) => said = "nothing"
        /\ before # Nothing /\ ~SaysNotMeasured(after) /\ Comparable(before, after) =>
              /\ cost(before) = cost(after) => said = "no difference"
              /\ cost(before) > 2 * cost(after) /\ cost(before) > NoiseFloor => said = "faster"
              /\ cost(after) > 2 * cost(before) /\ cost(after) > NoiseFloor => said = "slower"

\* The measurements of a query in this database, and its samples under way.
Measured(s) == {i \in DOMAIN log : log[i].shape = s /\ log[i].era = era}
UnderWay(s) ==
    LET running == {a \in Analyzers : asked[a].stage = "running" /\ asked[a].shape = s}
    IN  UNION {{a} \X DOMAIN asked[a].samples : a \in running}

\* What analysing has written is what no look at the statement shows: a table by
\* an INTO that a set operation hides, made once and never measured, and what a
\* function writes that is called - as many times as the query was run for the
\* measurements there are of it, and not a time more.
AnalysesWriteUnseen ==
    \A s \in Shapes : wrote[s] > 0 =>
        /\ s.into = "leftmost" \/ s.calls
        /\ s.into = "leftmost" => wrote[s] = 1 /\ Measured(s) = {}
        /\ s.into = "nowhere" =>
              wrote[s] = Runs * Cardinality(Measured(s)) + Cardinality(UnderWay(s))

=============================================================================
