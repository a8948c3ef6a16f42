\* LockWithTimeout as well as Lock, both kinds of foreign value, and a
\* partition move that migrates or loses the entry: every NoSuchLock an
\* unlock reports has a cause.
CONSTANTS
    c1 = c1
    c2 = c2
    n1 = n1
    n2 = n2
    fb = fb
    fs = fs
    Clients = {c1, c2}
    Keys = {k1}
    Nodes = {n1, n2}
    HomeOf <- MC_HomeOf
    Owner <- MC_Owner
    MaxLocks = 1
    MaxUnlocks = 2
    UseTTL = TRUE
    MaxMoves = 1
    Lossy = TRUE
    ForeignValues = {fb, fs}
    BytesValues = {fb}
    None = None
SPECIFICATION Spec
INVARIANT NoSuchLockExplained
