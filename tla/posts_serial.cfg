SPECIFICATION FairSpec
CONSTANTS
    Guests = {g1}
    Slots = {1}
    PublicPost = FALSE
    MaxEdits = 1
    MaxWork = 1
    MaxFaults = 0
    NoCopy = NoCopy
CHECK_DEADLOCK FALSE
PROPERTY EventuallyLive
PROPERTY EventuallyWithdrawn
PROPERTY EventuallyOnDashboard
