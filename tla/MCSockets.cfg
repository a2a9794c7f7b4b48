\* Three objects and two threads, for two descriptors and two ports; a buffer
\* of two characters, two connections, and characters to fill it twice.
CONSTANTS
    Objects = {o1, o2, o3}
    Nobody = nobody
    MaxFd = 1
    MaxAddresses = 2
    MaxThreads = 2
    Threads = {t1, t2}
    Lists <- MCLists
    Sockaddrs <- MCSockaddrs
    ntop <- MCntop
    ntohs <- MCntohs
    Size = 2
    MaxWrites = 4
    MaxConns = 2
    UDPSockets = {o1, o2, o3}
    Ports = {p1, p2}
    NoPort = noPort
    MaxSent = 2
    MaxEra = 1
    MaxCopies = 2
SPECIFICATION PartsSpec
SYMMETRY Symmetry
INVARIANTS
    OwnDescriptor
    LostOnlyByServerBind
    AloneRight
    InTurn
    AnswerFindsAsker
\* The bounds of a part are used up.
CHECK_DEADLOCK FALSE
