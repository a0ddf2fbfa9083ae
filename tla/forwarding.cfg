SPECIFICATION Spec
CONSTANTS
    s1 = s1
    s2 = s2
    NoSignal = NoSignal
    Signals = {s1, s2}
    MaxSends = 2
    MaxConns = 2
    MaxCrashes = 1
SYMMETRY Symmetry
CHECK_DEADLOCK FALSE
INVARIANTS
    ForwardedOnce
    SuccessIsReal
PROPERTIES
    ForwardingKeepsContract
