\* Lock without TTL (Lock), two callers, local and remote paths, and a
\* []byte value put over the lock key by another client.
CONSTANTS
    c1 = c1
    c2 = c2
    n1 = n1
    n2 = n2
    fb = fb
    fs = fs
    Clients = {c1, c2}
    Keys = {k1}
    Nodes = {n1, n2}
    HomeOf <- MC_HomeOf
    Owner <- MC_Owner
    MaxLocks = 2
    MaxUnlocks = 2
    UseTTL = FALSE
    MaxMoves = 0
    Lossy = FALSE
    ForeignValues = {fb}
    BytesValues = {fb}
    None = None
SPECIFICATION Spec
INVARIANT TypeOK
INVARIANT LockHeldUntilReleased
PROPERTY ImplementsLockSpec
