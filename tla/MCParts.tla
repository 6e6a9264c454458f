-------------------------------- MODULE MCParts --------------------------------
(***************************************************************************)
(* An instance for TLC of the parts of which safety is asked: the retry    *)
(* loops of the manager, which this module extends, and by INSTANCE what is*)
(* computed from a schema, the connections to a lab, the challenges, what is*)
(* replayed, the labs about roles, what is read out of a plan, where the   *)
(* canvas puts tables, how a script is cut and its results are, and what an*)
(* analysis says.  They share no state: a behaviour is one of one part,    *)
(* chosen at its start; the others stay as they begin.                     *)
(***************************************************************************)
EXTENDS RequestRetries, Sequences, TLC

CONSTANTS
    TableNames, ColumnNames, TenantNames, SecretNames, Catalogs, MaxStatements,
    Uses, MaxUses, MaxFaults,
    Panels, Variants, Questions, Answers, MaxChecks,
    Scripts, MaxRuns, MaxScripts, MaxScript, MaxDecoded, MaxLink, MaxMishaps,
    Catalog, MaxRows,
    RowCounts, OwnTimes, Discards, MaxNodes,
    Tables, Relations, ColumnCounts, Seeds, Drops, MaxSteps,
    Characters, MaxLength, RowSizes, MaxResult, Limits, BatchSize,
    Shapes, Jitters, ColdCache, Runs, Analyzers, MaxAnalyses, MaxAlters, MaxResets

VARIABLES
    part,
    catalog, before, count,
    row, sandbox, known, entry, pair, client, doomed, queue, caller, used, faults,
    panel, verdict, check, template, stored, checks, tried, moved,
    kind, authored, runs, sent, reader, built, mishaps, apart,
    lab, db, index, loaded, walk, shown,
    plan,
    snapshot, past, viewing, positions, rendered, renewed, effect, generation, layouts,
    starting, room, failed, steps,
    script, produced,
    tier, path, era, asked, measured, log, seen, wrote, changes

schemaVars == <<catalog, before, count>>
consoleVars ==
    <<row, sandbox, known, entry, pair, client, doomed, queue, caller, used, faults>>
panelVars == <<panel, verdict, check, template, stored, checks, tried, moved>>
replayVars == <<kind, authored, runs, sent, reader, built, mishaps, apart>>
labVars == <<lab, db, index, loaded, walk, shown>>
canvasVars ==
    <<snapshot, past, viewing, positions, rendered, renewed, effect, generation, layouts,
      starting, room, failed, steps>>

statementVars == <<script, produced>>
analysisVars == <<tier, path, era, asked, measured, log, seen, wrote, changes>>
partsVars ==
    <<part, schemaVars, vars, consoleVars, panelVars, replayVars, labVars, plan, canvasVars,
      statementVars, analysisVars>>

T == INSTANCE SchemaTools
L == INSTANCE LabConsole
C == INSTANCE Challenges
P == INSTANCE Replays
B == INSTANCE Labs
E == INSTANCE Plans
V == INSTANCE Canvas
R == INSTANCE Statements
N == INSTANCE Analyses

\* What each part asks of its constants.
ASSUME PartsAssumption ==
    /\ T!SchemaToolsAssumption /\ RetriesAssumption /\ L!LabConsoleAssumption
    /\ C!ChallengesAssumption /\ P!ReplaysAssumption
    /\ B!LabsAssumption /\ E!PlansAssumption /\ V!CanvasAssumption
    /\ R!StatementsAssumption /\ N!AnalysesAssumption

-----------------------------------------------------------------------------
(***************************************************************************)
(* Two databases to start from                                             *)
(***************************************************************************)
Column(p, n, t) == [position |-> p, name |-> n, type |-> t, nullable |-> p > 1]

Key(id, sort, p, table, target) ==
    [id |-> id, name |-> ToString(id), kind |-> sort, columns |-> <<p>>, table |-> table,
     target |-> target, deferrable |-> FALSE]

Plain(id, name) ==
    [id |-> id, name |-> name, width |-> 1, columns |-> {Column(1, "id", "int")},
     constraints |-> {}, indexes |-> {}, rowSecurity |-> [enabled |-> FALSE, forced |-> FALSE],
     policies |-> {}, grants |-> {}]

\* A table that refers to another, and has something to say to most rules.
Shop ==
    [tables |->
        {[Plain(1, "a") EXCEPT !.constraints = {Key(3, "primary key", 1, 0, 0)}],
         [Plain(2, "b") EXCEPT
            !.width = 3,
            !.columns = {Column(1, "id", "int"), Column(2, "tenant_id", "int"),
                         Column(3, "password", "text")},
            !.constraints = {Key(4, "primary key", 1, 0, 0), Key(5, "foreign key", 2, 1, 1)},
            !.indexes = {[id |-> 6, name |-> "6", columns |-> <<3>>, unique |-> FALSE]},
            !.grants = {<<"app", "TRUNCATE">>}]},
     next |-> 7]

\* A table that refers to itself, with row security.
Tree ==
    [tables |->
        {[Plain(1, "a") EXCEPT
            !.rowSecurity = [enabled |-> TRUE, forced |-> TRUE],
            !.policies = {[id |-> 2, name |-> "2", roles |-> {}]},
            !.constraints = {Key(3, "unique", 1, 0, 0), Key(4, "foreign key", 1, 1, 1)},
            !.grants = {<<"PUBLIC", "SELECT">>}]},
     next |-> 5]

ShopAndTree == {Shop, Tree}

-----------------------------------------------------------------------------
(***************************************************************************)
(* Two challenges, one of which counts the order, over two variants        *)
(***************************************************************************)
Rows(s) == [ok |-> TRUE, columns |-> 1, rows |-> s]
Fails == [ok |-> FALSE, columns |-> 0, rows |-> <<>>]
InTurn(a, b) == [v \in 0..1 |-> IF v = 0 THEN a ELSE b]

TwoQuestions ==
    <<[ordered |-> FALSE, solution |-> InTurn(Rows(<<1, 1, 2>>), Rows(<<2, 3>>))],
      [ordered |-> TRUE, solution |-> InTurn(Rows(<<1, 1, 2>>), Rows(<<3, 2>>))]>>

\* One solves the first challenge only, its rows being out of order; one holds
\* for the data on the screen and fails on the other.
TwoAnswers ==
    {[kind |-> "read", returns |-> InTurn(Rows(<<1, 2, 1>>), Rows(<<3, 2>>))],
     [kind |-> "read", returns |-> InTurn(Rows(<<1, 1, 2>>), Fails)]}

-----------------------------------------------------------------------------
(***************************************************************************)
(* Scripts: one that fails halfway, one that leaves a transaction open, two*)
(* that end it, and one that is too long for the reader of a link          *)
(***************************************************************************)
St(op, table) == [op |-> op, table |-> table]

FiveScripts ==
    {<<St("create", 1), St("bad", 0)>>, <<St("begin", 0), St("create", 2)>>,
     <<St("rollback", 0), St("create", 1)>>, <<St("commit", 0), St("drop", 1)>>,
     <<St("create", 2), St("drop", 2), St("create", 1)>>}

-----------------------------------------------------------------------------
(***************************************************************************)
(* Three tables, two of which refer to the first                           *)
(***************************************************************************)
TwoRelations == {<<2, 1>>, <<3, 1>>}
Growing == [t \in Tables |-> IF t = 2 THEN {2, 3} ELSE {t}]
NoneOrTwo == {[t \in {} |-> 0], [t \in {1, 2} |-> t]}
Corner == {[x |-> 0, y |-> 0]}

-----------------------------------------------------------------------------
(***************************************************************************)
(* Limits that cut a result by its rows, or by its size; a query an index  *)
(* helps, one too short to tell, one that deletes, and one that creates    *)
(***************************************************************************)
RowsOrBytes == {[maxRows |-> 3, maxBytes |-> 100], [maxRows |-> 4, maxBytes |-> 5]}

Select(into, with, calls, scan) ==
    [node |-> "SelectStmt", into |-> into, with |-> with, from |-> FALSE, calls |-> calls,
     scan |-> scan, indexed |-> 60]

FourShapes ==
    {Select("nowhere", "none", FALSE, 4000), Select("nowhere", "none", TRUE, 90),
     Select("nowhere", "DeleteStmt", FALSE, 90), Select("leftmost", "none", FALSE, 90)}

-----------------------------------------------------------------------------
PartsInit ==
    /\ part \in {"schema", "retries", "console", "challenges", "replays", "labs",
                 "plans", "canvas", "statements", "analyses"}
    /\ T!Init /\ Init /\ L!Init /\ C!Init /\ P!Init /\ B!Init /\ E!Init /\ V!Init
    /\ R!Init /\ N!Init
    /\ part # "schema" => catalog = Tree
    /\ part # "console" => known
    /\ part # "replays" => kind = "link"
    /\ part # "labs" => lab = "basics"
    /\ part # "analyses" => tier = "T0"

PartsNext ==
    /\ UNCHANGED part
    /\ \/ /\ part = "schema" /\ T!Next
          /\ UNCHANGED <<vars, consoleVars, panelVars, replayVars, labVars,
                         plan, canvasVars, statementVars, analysisVars>>
       \/ /\ part = "retries" /\ Next
          /\ UNCHANGED <<schemaVars, consoleVars, panelVars, replayVars, labVars,
                         plan, canvasVars, statementVars, analysisVars>>
       \/ /\ part = "console" /\ L!Next
          /\ UNCHANGED <<schemaVars, vars, panelVars, replayVars, labVars,
                         plan, canvasVars, statementVars, analysisVars>>
       \/ /\ part = "challenges" /\ C!Next
          /\ UNCHANGED <<schemaVars, vars, consoleVars, replayVars, labVars,
                         plan, canvasVars, statementVars, analysisVars>>
       \/ /\ part = "replays" /\ P!Next
          /\ UNCHANGED <<schemaVars, vars, consoleVars, panelVars, labVars,
                         plan, canvasVars, statementVars, analysisVars>>
       \/ /\ part = "labs" /\ B!Next
          /\ UNCHANGED <<schemaVars, vars, consoleVars, panelVars, replayVars,
                         plan, canvasVars, statementVars, analysisVars>>
       \/ /\ part = "plans" /\ E!Next
          /\ UNCHANGED <<schemaVars, vars, consoleVars, panelVars, replayVars,
                         labVars, canvasVars, statementVars, analysisVars>>
       \/ /\ part = "canvas" /\ V!Next
          /\ UNCHANGED <<schemaVars, vars, consoleVars, panelVars, replayVars,
                         labVars, plan, statementVars, analysisVars>>
       \/ /\ part = "statements" /\ R!Next
          /\ UNCHANGED <<schemaVars, vars, consoleVars, panelVars, replayVars,
                         labVars, plan, canvasVars, analysisVars>>
       \/ /\ part = "analyses" /\ N!Next
          /\ UNCHANGED <<schemaVars, vars, consoleVars, panelVars, replayVars,
                         labVars, plan, canvasVars, statementVars>>

PartsSpec == PartsInit /\ [][PartsNext]_partsVars

-----------------------------------------------------------------------------
\* Each is the property of that name of the part it is about, or those there
\* are of that part; those that take time to compute are looked at in the
\* behaviours of that part.
ChangesAreTold == part = "schema" => T!ChangesAreTold

ExportRecreates == part = "schema" => T!ExportRecreates

AdviceDescends == part = "schema" => T!AdviceDescends

ConsoleSettles == part = "console" => L!ConsoleSettles

AnswersAreJudged == part = "challenges" => C!JudgedRightly

ReplayRebuilds == P!ReplayRebuilds

CanvasSettles == part = "canvas" => V!CanvasSettles

StatementsAreTold ==
    /\ part = "statements" => R!ErrorsPointRight /\ R!ResultsAgree
    /\ part = "labs" => B!PromisesKept


=============================================================================
