SPECIFICATION Spec
CONSTANTS
    s1 = s1
    s2 = s2
    c1 = c1
    c2 = c2
    Students = {s1, s2}
    Chats = {c1, c2}
    Involved <- OneShared
    MaxMessages = 2
    MaxFaults = 1
    NoChat = NoChat
INVARIANT TypeOK
INVARIANT NeverOvercounted
INVARIANT AuthorsWereLed
INVARIANT AnnouncedUnlessReset
