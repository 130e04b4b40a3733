\* Violation: Client(timeout=2) gives a 7s socket timeout, shorter than the 10s waits.
CONSTANTS
    t1 = t1
    t2 = t2
    j1 = j1
    j2 = j2
    None = None
    Threads <- GetThreads
    Jobs <- GetJobs
    JobOf <- GetJobOf
    DispatchOf <- GetDispatchOf
    CallsOf <- GetCallsOf
    TimeoutArg = 2
    GetTimeout = 15
    RedisPy = 2
    MaxMsgs = 1
    Retention = 2

SPECIFICATION FairSpec

INVARIANT NoSocketTimeout
