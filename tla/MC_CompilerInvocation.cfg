CONSTANTS
    NoDecl = NoDecl
    Unreachable = Unreachable
    Pending = Pending

SPECIFICATION Spec
\* Each query returns once, and a client makes at most two setter calls.
CHECK_DEADLOCK FALSE
INVARIANT SingleInitDecided
INVARIANT DestroysCollected
INVARIANT AccessedAddressIsRoot
INVARIANT LetAddressNotFormallyAccessed
INVARIANT ClosureAccessesVisited
INVARIANT RemovalComplete
INVARIANT RuntimePathsCurrent
INVARIANT ExplicitPathsWin
INVARIANT AssertConfigFollowsOptimization
INVARIANT ExclusivityEnforced
