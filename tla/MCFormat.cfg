\* Two threads write at once, one or two messages each; a greeting and two
\* texts come back; every class is encoded and decoded.
CONSTANTS
    Threads <- MCThreads
    Scripts <- MCScripts
    MaxSwitches = 2
    Samples <- MCSamples
    Heap <- MCHeap
    Strings <- MCStrings
    MaxThrows = 2
    Texts <- MCLineTexts
    Surveys <- MCSurveys
SPECIFICATION FormatSpec
INVARIANTS
    Intact
    RefusedForAReason
    DamageIsLast
    NamesGenuine
    HandledAsSent
    RoundTrip
    InStep
    TrueIfWhole
PROPERTIES
    ShortIsLast
    EachHandled
\* Everything is written, or the session has ended.
CHECK_DEADLOCK FALSE
