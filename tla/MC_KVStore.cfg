\* Engine safety: table accounting, frozen tables, export/import round trip,
\* MatchOnKey stopping early.
\* A Put that spins forever leaves no step to take (kvstore.go:106-123), so
\* deadlock is not an error here; the kv_put_loop run reports that state.
CONSTANTS
    h1 = h1
    h2 = h2
    v1 = v1
    v2 = v2
    HKeys = {h1, h2}
    Values = {v1}
    TTLs = {0, 1}
    Lens = {1, 2}
    MinimumSize = 4
    MaxTables = 3
    Matching = {h1}
    None = None
SPECIFICATION Spec
CHECK_DEADLOCK FALSE
INVARIANT TypeOK
INVARIANT TableAccounting
PROPERTY FrozenTablesStayFrozen
PROPERTY ExportRoundTrip
