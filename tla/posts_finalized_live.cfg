SPECIFICATION Spec
CONSTANTS
    Guests = {g1}
    Slots = {1}
    PublicPost = FALSE
    MaxEdits = 0
    MaxWork = 2
    MaxFaults = 0
    NoCopy = NoCopy
CHECK_DEADLOCK FALSE
INVARIANT FinalizedNotLive
