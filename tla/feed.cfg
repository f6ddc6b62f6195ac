SPECIFICATION FairSpec
CONSTANTS
    p1 = p1
    h1 = h1
    Posts = {p1}
    Hosts = {h1}
    HostOf <- OneHost
    Loads = {1, 2}
    MaxChanges = 3
    MaxJoins = 1
CHECK_DEADLOCK FALSE
INVARIANT TypeOK
INVARIANT CopiesPerLoad
INVARIANT BarredStayOut
PROPERTY DealtUndecided
PROPERTY EventuallyDealt
