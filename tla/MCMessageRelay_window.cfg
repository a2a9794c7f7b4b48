\* One clock is ahead and one thing may fail: the windows of the polls.
CONSTANTS
    alice = alice
    bob = bob
    carol = carol
    hi = hi
    yo = yo
    longhi = longhi
    Users <- MCUsers
    Strangers = {carol}
    Texts = {yo}
    Fold <- MCFold
    Long = {}
    Skew <- MCAhead
    TicksPerSecond = 2
    Wait = 2
    MaxTime = 6
    MaxSends = 1
    MaxFaults = 1
SPECIFICATION Spec
INVARIANTS
    MissedOnlyIfOvertaken
    TwiceOnlyIfLate
\* The bounded time runs out.
CHECK_DEADLOCK FALSE
