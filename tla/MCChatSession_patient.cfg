\* A user who presses OK once and sends only when polling: liveness.
CONSTANTS
    alice = alice
    bob = bob
    badname = badname
    longname = longname
    pw = pw
    wrong = wrong
    Names <- MCNames
    WellFormed <- MCWellFormed
    Overlong <- MCOverlong
    Passwords <- MCPasswords
    account <- MCAccount
    NoName = NoName
    NoPass = NoPass
    Partial = Partial
    Zeroed = Zeroed
    EagerSend = FALSE
    MaxPress = 1
    MaxSends = 1
    MaxQueue = 2
    MaxBatch = 2
SPECIFICATION FairSpec
PROPERTIES
    LoginConcludes
    ServerThreadEnds
    SessionExpires
\* After WindowClosing both sides come to rest.
CHECK_DEADLOCK FALSE
