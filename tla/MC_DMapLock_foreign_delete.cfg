\* Lock without TTL, one lock and one unlock per client, and a []byte value
\* put over the key by another client while an unlock is in progress.
CONSTANTS
    c1 = c1
    c2 = c2
    n1 = n1
    n2 = n2
    fb = fb
    fs = fs
    Clients = {c1, c2}
    Keys = {k1}
    Nodes = {n1, n2}
    HomeOf <- MC_HomeOf
    Owner <- MC_Owner
    MaxLocks = 1
    MaxUnlocks = 1
    UseTTL = FALSE
    MaxMoves = 0
    Lossy = FALSE
    ForeignValues = {fb}
    BytesValues = {fb}
    None = None
SPECIFICATION Spec
PROPERTY UnlockDeletesOwnToken
