CONSTANTS
    Invalid = Invalid
    Pending = Pending
    None = None
    G1 = G1
    G2 = G2
    UseDefGraphs <- AllGraphs

SPECIFICATION Spec
CHECK_DEADLOCK FALSE
PROPERTY Termination
PROPERTY PointerPhiSoundness
