SPECIFICATION SlicedSpec
CONSTANTS
    Guests = {g1, g2}
    Slots = {1}
    PublicPost = FALSE
    MaxEdits = 0
    MaxWork = 2
    MaxFaults = 1
    NoCopy = NoCopy
CHECK_DEADLOCK FALSE
SYMMETRY GuestSymmetry
INVARIANT TypeOK
INVARIANT CopiesNeverAhead
INVARIANT GuestCopyMeansMember
INVARIANT MembersCounted
INVARIANT SettledAgreement
PROPERTY ClosedListKept
