\* PUT and PUT.ENTRY handlers over the owner's store, every argument
\* combination against absent, live and expired entries: the state keeps its type.
CONSTANTS
    k1 = k1
    k2 = k2
    v1 = v1
    v2 = v2
    v3 = v3
    v4 = v4
    Keys = {k1, k2}
    Values = {v1, v2, v3, v4}
    None = None
SPECIFICATION Spec
INVARIANT TypeOK
