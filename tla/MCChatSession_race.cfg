\* A user who presses OK up to three times and may click Send at once: safety.
CONSTANTS
    alice = alice
    bob = bob
    badname = badname
    longname = longname
    pw = pw
    wrong = wrong
    Names <- MCNames
    WellFormed <- MCWellFormed
    Overlong <- MCOverlong
    Passwords <- MCPasswords
    account <- MCAccount
    NoName = NoName
    NoPass = NoPass
    Partial = Partial
    Zeroed = Zeroed
    EagerSend = TRUE
    MaxPress = 3
    MaxSends = 1
    MaxQueue = 3
    MaxBatch = 1
SPECIFICATION Spec
INVARIANTS
    TypeOK
    AuthSound
    SuccessNotDropped
    PollerOnce
    PollAfterHandshake
    NoMutualWait
    AtMostOneLate
PROPERTY
    KeepsContract
\* After WindowClosing both sides come to rest.
CHECK_DEADLOCK FALSE
