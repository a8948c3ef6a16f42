\* PUT with NX (or XX) and an expiry argument: the expiry is dropped.
CONSTANTS
    k1 = k1
    k2 = k2
    v1 = v1
    v2 = v2
    v3 = v3
    v4 = v4
    Keys = {k1, k2}
    Values = {v1, v2, v3, v4}
    None = None
SPECIFICATION Spec
PROPERTY ExpiryHonoured
