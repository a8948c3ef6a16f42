\* Put must always return (spec.md 4.B): a put that does not fit retries forever.
CONSTANTS
    h1 = h1
    h2 = h2
    v1 = v1
    v2 = v2
    HKeys = {h1, h2}
    Values = {v1}
    TTLs = {0, 1}
    Lens = {1, 2}
    MinimumSize = 4
    MaxTables = 3
    Matching = {h1}
    None = None
SPECIFICATION Spec
CHECK_DEADLOCK FALSE
INVARIANT PutReturns
