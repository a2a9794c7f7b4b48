\* Three clients and two descriptors, under fairness of main and the threads.
CONSTANTS
    c1 = c1
    c2 = c2
    c3 = c3
    Conns <- MCThree
    Talkers <- MCOne
    NoConn = NoConn
    MaxFds = 2
    MaxThreads = 2
    MaxDb = 2
    QueueLen = 1
    MaxRows = 1
    MaxInbox = 1
    MaxOutbox = 1
    MaxFails = 0
SPECIFICATION FairSpec
PROPERTIES
    LeaverReleased
    QueuedServed
