\* Violation: with redis-py 2.x, running() answers True for a job that has exited
\* (a TTL reply rounded to 0, or the flag expiring between EXISTS and TTL).
CONSTANTS
    t1 = t1
    t2 = t2
    j1 = j1
    j2 = j2
    None = None
    Threads <- StreamThreads
    Jobs <- StreamJobs
    JobOf <- StreamJobOf
    DispatchOf <- SameJob
    CallsOf <- StreamCallsOf
    TimeoutArg = None
    GetTimeout = 15
    RedisPy = 2
    MaxMsgs = 2
    Retention = 2

SPECIFICATION FairSpec

PROPERTY RunningAccurate
