\* Violation: a second dispatch of a tracked id puts DUPLICATE_ID on the
\* same result list, and rotating reads return one envelope, then the other.
CONSTANTS
    t1 = t1
    t2 = t2
    j1 = j1
    j2 = j2
    None = None
    Threads <- GetThreads
    Jobs <- GetJobs
    JobOf <- GetJobOf
    DispatchOf <- GetDispatchOf
    CallsOf <- GetCallsOf
    TimeoutArg = None
    GetTimeout = 15
    RedisPy = 2
    MaxMsgs = 1
    Retention = 2

SPECIFICATION FairSpec

INVARIANT ResultStable
