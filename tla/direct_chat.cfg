SPECIFICATION Spec
CHECK_DEADLOCK FALSE
CONSTANTS
    Students = {1, 2, 3}
    Allowing <- FirstTwo
    MaxMessages = 2
    MaxPending = 1
    MaxVisits = 3
    MaxFaults = 1
    NoOne = NoOne
INVARIANT TypeOK
INVARIANT AtMostOneTooMany
INVARIANT EntriesHaveCause
INVARIANT MessagesStayAmongOpened
INVARIANT OpenedWasAllowed
INVARIANT AnnouncedUnlessTouched
