\* Every PX from 0 to 2147 ms and three at the int64 edge; one conversion.
CONSTANTS
    Inputs <- MC_AllPX
    None = None
SPECIFICATION Spec
CHECK_DEADLOCK FALSE
INVARIANT DurationIsMilliseconds
