\* A client that leaves with replies still to come.
CONSTANTS
    c1 = c1
    c2 = c2
    c3 = c3
    Conns <- MCOne
    Talkers <- MCOne
    NoConn = NoConn
    MaxFds = 1
    MaxThreads = 3
    MaxDb = 2
    QueueLen = 1
    MaxRows = 2
    MaxInbox = 3
    MaxOutbox = 2
    MaxFails = 2
SPECIFICATION Spec
INVARIANT
    SendThrows
