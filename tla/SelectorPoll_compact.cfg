\* two Selectables, one is closed and the other stays
CONSTANTS
    c1 = c1
    c2 = c2
    c3 = c3
    c4 = c4
    Null = Null
    Selectables <- TwoSelectables
    Fds = {1, 2}
    MaxFds = 4
    ReadySets <- ReadyToRead
    MaxDeletes = 2
SPECIFICATION PollSpec
INVARIANT RegisteredIsPolled
CHECK_DEADLOCK FALSE
