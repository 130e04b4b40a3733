\* Result retrieval with the default client (timeout None: 10s calls, 15s
\* socket timeout), redis-py 2.x, get(15) on a rebuilt handle.
CONSTANTS
    t1 = t1
    t2 = t2
    j1 = j1
    j2 = j2
    None = None
    Threads <- GetThreads
    Jobs <- GetJobs
    JobOf <- GetJobOf
    DispatchOf <- GetDispatchOf
    CallsOf <- GetCallsOf
    TimeoutArg = None
    GetTimeout = 15
    RedisPy = 2
    MaxMsgs = 1
    Retention = 2

SPECIFICATION FairSpec

INVARIANT ResultRetained
INVARIANT GetDeadline
