SPECIFICATION FairSpec
CONSTANTS
    Students = {s1, s2}
    Interested <- Everybody
    MaxCalls = 2
    MaxFaults = 1
INVARIANT TypeOK
INVARIANT SidesExplained
INVARIANT BlockCountExact
PROPERTY ImplementsBook
PROPERTY EventuallyBlocked
PROPERTY EventuallyListed
