\* a request that a queue took
CONSTANTS
    Callers = {c1, c2}
    Requests = {r1, r2}
    num_threads = 1
    queue_size = 1
    End = End
SPECIFICATION DnsSpec
INVARIANT CalledOnce
CHECK_DEADLOCK FALSE
