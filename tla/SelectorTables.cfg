\* four Selectables share three descriptors and a table of four, or three share
\* two with two events in a step; two threads and heaps of up to three alarms
CONSTANTS
    c1 = c1
    c2 = c2
    c3 = c3
    c4 = c4
    Null = Null
    Selectables <- FourSelectables
    Fds = {1, 2, 3}
    MaxFds = 4
    ReadySets <- Ready
    MaxDeletes = 2
    EpollFds = {1, 2}
    MaxEventsPerStep = 2
    MaxUsed = 3
    Threads = {t1, t2}
    Delays = {0, 1}
    DefaultTimeout = 1
    MaxTime = 2
    MaxAlarms = 3
    MaxHeap = 3
SPECIFICATION TablesSpec
SYMMETRY Alike
INVARIANTS PollInv EpollInv StaleEventsHarmless NobodyStarves AlarmsInv
PROPERTY ImplementsService
CHECK_DEADLOCK FALSE
