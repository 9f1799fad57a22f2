\* two entries in the heap
CONSTANTS
    Threads = {t1}
    Delays = {0, 1, 2}
    DefaultTimeout = 2
    MaxTime = 3
    MaxAlarms = 2
    MaxHeap = 2
SPECIFICATION AlarmsFairSpec
PROPERTY AlarmRuns
CHECK_DEADLOCK FALSE
