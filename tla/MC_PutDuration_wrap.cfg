\* PX values at the int64 edge: the product wraps.
CONSTANTS
    Inputs <- MC_LargePX
    None = None
SPECIFICATION Spec
CHECK_DEADLOCK FALSE
INVARIANT PositiveTTL
