\* The dialog of the Send button.
CONSTANTS
    bob = bob
    carol = carol
    bad = bad
    long = long
    Names = {bob, carol, bad, long}
    BadNames = {bad}
    Overlong = {long}
    BitLength = 2
    Block = 2
    MaxBits = 2
    MaxLength = 4
    MaxDrafts = 2
    MaxClicks = 2
SPECIFICATION Spec
INVARIANT
    TooLongDialog
CHECK_DEADLOCK FALSE
