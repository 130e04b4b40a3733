\* Violation: Client(timeout=0) keeps self.timeout = 0, so get() with the
\* client timeout raises TimeoutError without polling the result list.
CONSTANTS
    t1 = t1
    t2 = t2
    j1 = j1
    j2 = j2
    None = None
    Threads <- GetThreads
    Jobs <- GetJobs
    JobOf <- GetJobOf
    DispatchOf <- GetDispatchOf
    CallsOf <- GetCallsOf
    TimeoutArg = 0
    GetTimeout = 15
    RedisPy = 2
    MaxMsgs = 1
    Retention = 2

SPECIFICATION FairSpec

INVARIANT GetPolls
