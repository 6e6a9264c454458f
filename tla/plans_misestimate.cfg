SPECIFICATION Spec
CHECK_DEADLOCK FALSE
CONSTANTS
    RowCounts = {0, 1, 1200}
    OwnTimes = {0, 40}
    Discards = {0}
    MaxNodes = 3
INVARIANT MisestimationIsReal
