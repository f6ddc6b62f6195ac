SPECIFICATION Spec
CONSTANTS
    Students = {s1, s2}
    Interested <- Everybody
    MaxCalls = 2
    MaxFaults = 0
INVARIANT ConversationsAlertKept
