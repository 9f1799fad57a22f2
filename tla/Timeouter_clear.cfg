\* ClearTimeout between the extraction of an alarm and its run
CONSTANTS
    TimeoutIds = {x, y}
    NoTimeout = NoTimeout
    AnyThread = TRUE
    MaxAlarms = 2
SPECIFICATION TimeouterSpec
INVARIANT ClearedStaysQuiet
CHECK_DEADLOCK FALSE
