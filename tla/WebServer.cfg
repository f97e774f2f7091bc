SPECIFICATION ServerSpec
CONSTANTS
    Viewers = {"tab"}
    Capacity = 2
    MaxLines = 3
    Clients = {"alice", "bob"}
    Sessions = {"s1", "s2", "s3"}
    Mistyping = {"alice"}
    Passwords = {"old", "new"}
    Ttl = 1
    WaitStep = 1
    MaxWait = 2
    MaxCrashes = 1
INVARIANTS
    LogInOrder
    CompleteStream
    OldSessionsEnd
    SessionKept
PROPERTIES
    EarlyStreamEnds
    ChangeIsAuthenticated
    SessionsEnd
    LoginEventually
CHECK_DEADLOCK FALSE
