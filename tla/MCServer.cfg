\* Three clients, one of which never says anything, that come back again and again
\* against the limits of the process and of the database.
CONSTANTS
    c1 = c1
    c2 = c2
    c3 = c3
    Conns <- MCThree
    Talkers <- MCTwo
    NoConn = NoConn
    MaxFds = 2
    MaxThreads = 2
    MaxDb = 3
    QueueLen = 1
    MaxRows = 2
    MaxInbox = 1
    MaxOutbox = 1
    MaxFails = 2
SYMMETRY MCSymmetry
SPECIFICATION Spec
INVARIANTS
    KilledByLeaver
    NoDescriptorLost
    RefusedAfterFailures
