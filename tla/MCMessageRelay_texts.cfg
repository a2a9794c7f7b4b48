\* A statement, a session or a reader may fail: the texts.
CONSTANTS
    alice = alice
    bob = bob
    carol = carol
    hi = hi
    yo = yo
    longhi = longhi
    Users <- MCUsers
    Strangers = {}
    Texts = {hi, longhi, yo}
    Fold <- MCFold
    Long = {longhi}
    Skew <- MCSame
    TicksPerSecond = 1
    Wait = 0
    MaxTime = 1
    MaxSends = 2
    MaxFaults = 1
SYMMETRY MCSymmetry
SPECIFICATION Spec
INVARIANTS
    TypeOK
    FaithfulDelivery
    EndsOnLongOnly
\* The bounded time runs out.
CHECK_DEADLOCK FALSE
