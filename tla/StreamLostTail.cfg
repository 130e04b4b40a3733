\* Violation: stream() returns before the last messages of the job are read.
CONSTANTS
    t1 = t1
    t2 = t2
    j1 = j1
    j2 = j2
    None = None
    Threads <- StreamThreads
    Jobs <- StreamJobs
    JobOf <- StreamJobOf
    DispatchOf <- SameJob
    CallsOf <- StreamCallsOf
    TimeoutArg = None
    GetTimeout = 15
    RedisPy = 2
    MaxMsgs = 2
    Retention = 2

SPECIFICATION FairSpec

INVARIANT StreamComplete
