SPECIFICATION FairListSpec
CONSTANTS
    Students = {1, 2}
    Allowing <- JustOne
    Viewers <- JustOne
    MaxMessages = 1
    MaxPending = 2
    MaxVisits = 4
    MaxFaults = 0
    NoOne = NoOne
INVARIANT ListTypeOK
INVARIANT RowsAreEntries
PROPERTY EventuallyListed
