\* Two names in the recipient field, texts up to and beyond the limit.
CONSTANTS
    bob = bob
    carol = carol
    bad = bad
    long = long
    Names = {bob, carol, bad, long}
    BadNames = {bad}
    Overlong = {long}
    BitLength = 2
    Block = 2
    MaxBits = 2
    MaxLength = 4
    MaxDrafts = 2
    MaxClicks = 2
SPECIFICATION Spec
INVARIANTS
    WholeTexts
    RepeatOnlyAfterFailure
PROPERTIES
    NoLengthRefused
    ClearedOnlyIfSent
\* The bounds on texts and clicks are used up.
CHECK_DEADLOCK FALSE
