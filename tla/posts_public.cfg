SPECIFICATION Spec
CONSTANTS
    Guests = {g1}
    Slots = {1, 2}
    PublicPost = TRUE
    MaxEdits = 0
    MaxWork = 1
    MaxFaults = 1
    NoCopy = NoCopy
ACTION_CONSTRAINT OneCardIfRepeated
CHECK_DEADLOCK FALSE
INVARIANT InterestedCountExact
INVARIANT GuestCopyMeansMember
PROPERTY ImplementsBoard
