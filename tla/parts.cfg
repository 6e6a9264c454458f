SPECIFICATION PartsSpec
CHECK_DEADLOCK FALSE
CONSTANTS
    Heartbeats = {h1, h2}
    Deletes = {d1}
    CasRetries = 3
    TableNames = {"a", "b", "c"}
    ColumnNames = {"id", "tenant_id", "password"}
    TenantNames = {"tenant_id"}
    SecretNames = {"password"}
    Catalogs <- ShopAndTree
    MaxStatements = 2
    Uses = {u1, u2}
    MaxUses = 2
    MaxFaults = 1
    Panels = {p1, p2}
    Variants = 2
    Questions <- TwoQuestions
    Answers <- TwoAnswers
    MaxChecks = 2
    Scripts <- FiveScripts
    MaxRuns = 2
    MaxScripts = 2
    MaxScript = 2
    MaxDecoded = 4
    MaxLink = 5
    MaxMishaps = 1
    Catalog = {"basics", "roles", "owner", "tenants", "restrictive"}
    MaxRows = 5
    RowCounts = {0, 1, 1200}
    OwnTimes = {0, 40}
    Discards = {0, 12000}
    MaxNodes = 4
    Tables = {1, 2, 3}
    Relations <- TwoRelations
    ColumnCounts <- Growing
    Seeds <- NoneOrTwo
    Drops <- Corner
    MaxSteps = 3
    Characters = {"letter", "accent", "emoji", "blank", "semicolon"}
    MaxLength = 5
    RowSizes = {1, 3, 9}
    MaxResult = 6
    Limits <- RowsOrBytes
    BatchSize = 2
    Shapes <- FourShapes
    Jitters = {0, 40}
    ColdCache = 900
    Runs = 2
    Analyzers = {a1, a2}
    MaxAnalyses = 3
    MaxAlters = 1
    MaxResets = 1
INVARIANTS
    ChangesAreTold
    ExportRecreates
    AdviceDescends
    HeartbeatRefusalIsReal
    ConsoleSettles
    ReplayRebuilds
    AnswersAreJudged
    CanvasSettles
    StatementsAreTold
    
