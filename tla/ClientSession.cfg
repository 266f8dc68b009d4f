SPECIFICATION FairSpec
CONSTANTS
    s1 = s1
    s2 = s2
    Sessions = {s1, s2}
    Options <- SomeOptions
    GatewayTimeout = TRUE
    MaxRequests <- TwoAndOne
    MaxCrashes = 1
INVARIANTS
    TypeOK
    AnswersMatch
    NoOvertaking
PROPERTIES
    OneIsLeftBehind
    ThreadsEnd
CHECK_DEADLOCK FALSE
