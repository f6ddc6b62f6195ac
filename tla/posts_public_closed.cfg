SPECIFICATION Spec
CONSTANTS
    Guests = {g1}
    Slots = {1}
    PublicPost = TRUE
    MaxEdits = 0
    MaxWork = 1
    MaxFaults = 0
    NoCopy = NoCopy
CHECK_DEADLOCK FALSE
PROPERTY ClosedListKept
