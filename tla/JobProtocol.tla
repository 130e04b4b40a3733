----------------------------- MODULE JobProtocol -----------------------------
(***************************************************************************)
(* The job lifecycle of the zero-os core0 python client                    *)
(* (src/client/py-client/zeroos/core0/client/client.py).                   *)
(*                                                                         *)
(* Caller threads dispatch jobs (Client.raw), wait for their result        *)
(* (Response.get, BaseClient.sync/json) or read their live output          *)
(* (Response.stream), all through one redis broker.  The remote agent      *)
(* (core0) is not part of this repository: its behaviour at the broker    *)
(* (accept, write output, exit, expire) is modelled from the spec.         *)
(*                                                                         *)
(* Time is abstracted to the waits the client asks for: a blocking pop on  *)
(* an empty list returns nil after its whole slice, or fails with a socket *)
(* timeout when the slice is longer than the connection's socket_timeout.  *)
(***************************************************************************)
EXTENDS Integers, Sequences, SequencesExt, FiniteSets

CONSTANTS
    Threads,     \* caller threads; each makes one client call
    Jobs,        \* job ids (caller supplied or uuid4)
    JobOf,       \* [Threads -> Jobs]: the id a thread's call uses
    DispatchOf,  \* [Threads -> Jobs]: the uuid4 of a container call's
                 \* corex.dispatch job
    CallsOf,     \* [Threads -> SUBSET Calls]: the calls a thread may make
    None,        \* Python None
    TimeoutArg,  \* the timeout argument of Client(...): a Nat or None
    GetTimeout,  \* the timeout a "get" call passes to Response.get: a Nat or None
    RedisPy,     \* major version of redis-py (2 or 3): how TTL replies convert
    MaxMsgs,     \* output messages an agent job writes before it exits
    Retention    \* seconds a finished job's flag and result are kept

(* The kinds of call a caller makes:                                        *)
(*   "raw"    raw(...).get(): the handle's result, whatever its state       *)
(*   "sync"   BaseClient.sync: raw, then get, then raise unless SUCCESS     *)
(*   "json"   BaseClient.json: sync, then raise unless level 20             *)
(*   "get"    response_for(id).get(GetTimeout) on a handle rebuilt from id  *)
(*   "stream" raw(..., stream=True).stream()                                *)
(*   "container" ContainerClient.raw(..., id=JobOf[t]).get(): the command   *)
(*            is sent as a corex.dispatch job of the node; its result       *)
(*            names the command's job, whose handle is then read            *)
Calls == {"raw", "sync", "json", "get", "stream", "container"}

(* Request builders: the managers hung off the client.  Each method checks *)
(* its arguments with typchk (raising before anything is sent) and makes   *)
(* one call of these kinds with a fixed command name.                      *)
InfoManager == {"json"}
JobManager == {"json"}
ProcessManager == {"json"}
\* open/read/write/close are json calls; upload/download loop over them.
FilesystemManager == {"json"}
\* system and bash return the raw handle; the caller gets or streams it.
SystemCalls == {"raw", "stream"}
\* create/backup/restore return a JSONResponse, whose get() makes the json
\* checks; terminate raises unless SUCCESS.
ContainerManager == {"json", "sync"}
IPManager == {"json"}
BridgeManager == {"json"}
\* raw + get + raise unless SUCCESS; list/getinfo also require level 20.
DiskManager == {"sync", "json"}
BtrfsManager == {"sync", "json"}
ZerotierManager == {"sync", "json"}
KvmManager == {"sync", "json"}
Logger == {"json"}
Nft == {"json"}
Config == {"json"}
AggregatorManager == {"json"}
RTInfoManager == {"json"}
CGroupManager == {"json"}
SocatManager == {"json"}
\* reboot/poweroff/update: raw(..., stream=True).stream()
PowerManager == {"stream"}

ManagerCalls ==
    UNION {InfoManager, JobManager, ProcessManager, FilesystemManager, SystemCalls,
           ContainerManager, IPManager, BridgeManager, DiskManager, BtrfsManager,
           ZerotierManager, KvmManager, Logger, Nft, Config, AggregatorManager,
           RTInfoManager, CGroupManager, SocatManager, PowerManager}

ASSUME /\ JobOf \in [Threads -> Jobs]
       /\ DispatchOf \in [Threads -> Jobs]
       /\ CallsOf \in [Threads -> (SUBSET (ManagerCalls \cup {"get", "container"})) \ {{}}]
       /\ TimeoutArg \in Nat \cup {None}
       /\ GetTimeout \in Nat \cup {None}
       /\ RedisPy \in {2, 3}
       /\ MaxMsgs \in Nat
       /\ Retention \in Nat \ {0}

-----------------------------------------------------------------------------
(* Wire data, abstracted to what the client branches on.                    *)

States == {"SUCCESS", "ERROR", "DUPLICATE_ID"}
JsonLevel == 20
Levels == {0, JsonLevel}
\* inner: the command id of a corex.dispatch envelope, None for others.
Envelope == [id: Jobs, stream: BOOLEAN, inner: Jobs \cup {None}]
ResultEnv == [state: States, level: Levels]
\* Output levels of a process job: 1 stdout, 2 stderr.
OutLevels == {1, 2}
\* Stream message flags: 0x2 end of stream after success, 0x4 after error.
EofSuccess == 2
EofError == 4
\* The meta field of a stream message: level in the high 16 bits, flags in
\* the low 8.
Meta(level, flags) == level * 65536 + flags
\* A stream message as written: its position in the job's output and meta.
Msg == [n: 1..(MaxMsgs + 1), meta: {Meta(l, f) : l \in OutLevels, f \in {0, EofSuccess, EofError}}]
\* A stream message as the callback sees it: callback(level, line, flags).
Seen == [n: 1..(MaxMsgs + 1), level: OutLevels, flags: {0, EofSuccess, EofError}]

FlagStates == {"absent", "running", "expiring"}
Outcomes == {"none", "OK", "SchemaError", "JobNotFound", "Timeout",
             "ResultError", "LevelError", "SocketTimeout", "DispatchError"}
PCs == {"idle", "raw", "accept", "getLoop", "getPop",
        "stream", "strExists", "strTtl", "done"}

-----------------------------------------------------------------------------
(* Client configuration.                                                    *)

DefaultTimeout == 10

\* BaseClient.__init__: self.timeout
ClientTimeout == IF TimeoutArg = None THEN DefaultTimeout ELSE TimeoutArg

\* Client.__init__: socket_timeout = (timeout + 5) if timeout else 15
SocketTimeout == IF TimeoutArg \in {None, 0} THEN 15 ELSE TimeoutArg + 5

-----------------------------------------------------------------------------
VARIABLES
    coreQueue,  \* the list "core:default": envelopes not yet taken by the agent
    flag,       \* [Jobs -> FlagStates]: key "result:<id>:flag" and its expiry
    ttl,        \* [Jobs -> 0..Retention]: whole seconds of expiry left
    results,    \* [Jobs -> Seq(ResultEnv)]: the list "result:<id>"
    streamQ,    \* [Jobs -> Seq(Msg)]: the list "stream:<id>"
    streaming,  \* [Jobs -> BOOLEAN]: the running job was started with stream
    sent,       \* [Jobs -> Seq(Msg)]: every message the current run wrote
    dispatch,   \* [Jobs -> Jobs \cup {None}]: the command a running
                \* corex.dispatch job sends to the container
    corexQueue, \* Seq(Envelope): commands sent to the container, not yet
                \* taken by its agent (corex)
    pc,         \* [Threads -> PCs]
    call,       \* [Threads -> Calls]: the call the thread makes
    maxwait,    \* [Threads -> Int]: Response.get's remaining budget
    waited,     \* [Threads -> Nat]: seconds get() spent in nil pops
    recv,       \* [Threads -> Seq(Seen)]: what stream() passed to its callback
    tracked,    \* [Threads -> BOOLEAN]: the handle's job was tracked when
                \* the handle was returned
    inner,      \* [Threads -> BOOLEAN]: a container call holds the handle of
                \* its command (response_for(cmd_id)), not of the dispatch
    outcome,    \* [Threads -> Outcomes]: how the call ended
    gotten      \* [Jobs -> SUBSET ResultEnv]: envelopes get() returned while
                \* the id was tracked (history, for ResultStable)

broker == <<coreQueue, flag, ttl, results, streamQ>>
agent  == <<streaming, sent, dispatch, corexQueue>>
client == <<pc, call, maxwait, waited, recv, tracked, inner, outcome>>
history == <<gotten>>
vars   == <<broker, agent, client, history>>

-----------------------------------------------------------------------------
(* Broker queries the client makes.                                         *)

\* Response.exists: r.exists(flag)
Exists(j) == flag[j] # "absent"

\* Replies redis can give to TTL flag: -2 no key, -1 no expiry, else the
\* seconds left rounded to the nearest second, so ttl or ttl - 1.
TtlCommand(j) ==
    CASE flag[j] = "absent"   -> {-2}
      [] flag[j] = "running"  -> {-1}
      [] flag[j] = "expiring" -> {ttl[j], ttl[j] - 1}

\* redis-py's conversion of a TTL reply: 2.x maps it with
\* `r >= 0 and r or None` (so -2, -1 and 0 all become None); 3.x returns it.
\* Mutant: the conversion drops the sign test (`r and r or None`).
TtlReplyNoSign(r) ==
    IF RedisPy = 2 THEN (IF r # 0 THEN r ELSE None) ELSE r

TtlReply(r) ==
    IF RedisPy = 2 THEN (IF r > 0 THEN r ELSE None) ELSE r

\* The result of a blocking pop that found its list empty for the whole
\* slice: nil, or a socket timeout when the slice outlasts socket_timeout.
NilPopFails(slice) == slice > SocketTimeout

\* The job a thread's handle refers to: a container call holds the
\* corex.dispatch job's handle first, then its command's.
Handle(t) == IF call[t] = "container" /\ ~inner[t] THEN DispatchOf[t] ELSE JobOf[t]

Budget(t) ==
    IF call[t] = "get" /\ GetTimeout # None THEN GetTimeout ELSE ClientTimeout

-----------------------------------------------------------------------------
(* Client threads.                                                          *)

Finish(t, o) == pc' = [pc EXCEPT ![t] = "done"] /\ outcome' = [outcome EXCEPT ![t] = o]

\* A caller starts one of its calls.  "get" rebuilds a handle from the id
\* (response_for) and enters Response.get with timeout GetTimeout.
StartCall(t) ==
    /\ pc[t] = "idle"
    /\ \E c \in CallsOf[t] :
         /\ call' = [call EXCEPT ![t] = c]
         /\ pc' = [pc EXCEPT ![t] = IF c = "get" THEN "getLoop" ELSE "raw"]
         /\ maxwait' = [maxwait EXCEPT ![t] =
                          IF c = "get" /\ GetTimeout # None THEN GetTimeout
                                                           ELSE ClientTimeout]
    /\ UNCHANGED <<broker, agent, waited, recv, tracked, inner, outcome, gotten>>

\* Client.raw, first half: the argument check (typchk) either raises before
\* anything is sent, or the envelope is pushed on "core:default".  For a
\* container call ContainerClient.raw first makes its own check, then sends
\* the command, with its id, as the arguments of a corex.dispatch job.
RawPush(t) ==
    /\ pc[t] = "raw"
    /\ \/ /\ Finish(t, "SchemaError")
          /\ UNCHANGED coreQueue
       \/ /\ coreQueue' = Append(coreQueue,
                               [id |-> Handle(t), stream |-> call[t] = "stream",
                                inner |-> IF call[t] = "container" THEN JobOf[t] ELSE None])
          /\ pc' = [pc EXCEPT ![t] = "accept"]
          /\ UNCHANGED outcome
    /\ UNCHANGED <<flag, ttl, results, streamQ, agent, call, maxwait, waited, recv, tracked, inner, gotten>>

\* Client.raw, second half: brpoplpush(flag, flag, DefaultTimeout).  A nil
\* reply builds a TimeoutError that is never raised, so the handle is
\* returned either way; sync/json then call get(), stream() starts reading.
RawAccept(t) ==
    /\ pc[t] = "accept"
    /\ \/ /\ ~Exists(Handle(t)) /\ NilPopFails(DefaultTimeout)
          /\ Finish(t, "SocketTimeout")
          /\ UNCHANGED tracked
       \/ /\ Exists(Handle(t)) \/ ~NilPopFails(DefaultTimeout)
          /\ tracked' = [tracked EXCEPT ![t] = Exists(Handle(t))]
          /\ pc' = [pc EXCEPT ![t] = IF call[t] = "stream" THEN "stream" ELSE "getLoop"]
          /\ UNCHANGED outcome
    /\ UNCHANGED <<broker, agent, call, maxwait, waited, recv, inner, gotten>>

\* Response.get, loop head: `while maxwait > 0: if not self.exists: raise`.
GetLoop(t) ==
    /\ pc[t] = "getLoop"
    /\ \/ /\ maxwait[t] <= 0
          /\ Finish(t, "Timeout")
       \/ /\ maxwait[t] > 0 /\ ~Exists(Handle(t))
          /\ Finish(t, "JobNotFound")
       \/ /\ maxwait[t] > 0 /\ Exists(Handle(t))
          /\ pc' = [pc EXCEPT ![t] = "getPop"]
          /\ UNCHANGED outcome
    /\ UNCHANGED <<broker, agent, call, maxwait, waited, recv, tracked, inner, gotten>>

\* What the caller of get() makes of the result: BaseClient.sync raises
\* unless SUCCESS, BaseClient.json also unless level 20.
ResultOutcome(t, v) ==
    CASE call[t] \in {"get", "raw", "container"} -> "OK"
      [] v.state # "SUCCESS" -> "ResultError"
      [] call[t] = "json" /\ v.level # JsonLevel -> "LevelError"
      [] OTHER -> "OK"

\* What get() returning v leads to.  For the corex.dispatch job of a
\* container call (ContainerClient.raw): RuntimeError unless SUCCESS, else
\* the data names the command's job and the caller gets a fresh handle for
\* it (response_for, no acceptance wait) and calls get() on it with the
\* client's timeout.  Otherwise the caller's check of the result.
Returned(t, v) ==
    IF call[t] = "container" /\ ~inner[t]
    THEN IF v.state # "SUCCESS"
         THEN /\ Finish(t, "DispatchError")
              /\ UNCHANGED <<maxwait, waited, tracked, inner>>
         ELSE /\ inner' = [inner EXCEPT ![t] = TRUE]
              /\ tracked' = [tracked EXCEPT ![t] = Exists(JobOf[t])]
              /\ maxwait' = [maxwait EXCEPT ![t] = ClientTimeout]
              /\ waited' = [waited EXCEPT ![t] = 0]
              /\ pc' = [pc EXCEPT ![t] = "getLoop"]
              /\ UNCHANGED outcome
    ELSE /\ Finish(t, ResultOutcome(t, v))
         /\ UNCHANGED <<maxwait, waited, tracked, inner>>

\* Mutant: the result read destroys the result (rpop instead of rpoplpush).
GetPopConsumes(t) ==
    LET j == Handle(t)
        slice == Min({maxwait[t], 10})
    IN  /\ pc[t] = "getPop"
        /\ \/ /\ results[j] # <<>>
              /\ results' = [results EXCEPT ![j] = Front(@)]
              /\ Returned(t, Last(results[j]))
              /\ gotten' = [gotten EXCEPT ![j] = @ \cup {Last(results[j])}]
           \/ /\ results[j] = <<>> /\ NilPopFails(slice)
              /\ Finish(t, "SocketTimeout")
              /\ UNCHANGED <<results, maxwait, waited, tracked, inner, gotten>>
           \/ /\ results[j] = <<>> /\ ~NilPopFails(slice)
              /\ maxwait' = [maxwait EXCEPT ![t] = @ - 10]
              /\ waited' = [waited EXCEPT ![t] = @ + slice]
              /\ pc' = [pc EXCEPT ![t] = "getLoop"]
              /\ UNCHANGED <<results, outcome, tracked, inner, gotten>>
        /\ UNCHANGED <<coreQueue, flag, ttl, streamQ, agent, call, recv>>

\* Mutant: every poll waits a full 10 seconds, ignoring the budget left.
GetPopFullSlice(t) ==
    LET j == Handle(t)
        slice == 10
    IN  /\ pc[t] = "getPop"
        /\ \/ /\ results[j] # <<>>
              /\ results' = [results EXCEPT ![j] = Cons(Last(@), Front(@))]
              /\ Returned(t, Last(results[j]))
              /\ gotten' = [gotten EXCEPT ![j] = @ \cup {Last(results[j])}]
           \/ /\ results[j] = <<>> /\ NilPopFails(slice)
              /\ Finish(t, "SocketTimeout")
              /\ UNCHANGED <<results, maxwait, waited, tracked, inner, gotten>>
           \/ /\ results[j] = <<>> /\ ~NilPopFails(slice)
              /\ maxwait' = [maxwait EXCEPT ![t] = @ - 10]
              /\ waited' = [waited EXCEPT ![t] = @ + slice]
              /\ pc' = [pc EXCEPT ![t] = "getLoop"]
              /\ UNCHANGED <<results, outcome, tracked, inner, gotten>>
        /\ UNCHANGED <<coreQueue, flag, ttl, streamQ, agent, call, recv>>

\* Response.get, loop body: brpoplpush(queue, queue, min(maxwait, 10)).  A
\* result is rotated from the tail to the head (not consumed) and returned;
\* a nil reply costs the slice and `maxwait -= 10`.
GetPop(t) ==
    LET j == Handle(t)
        slice == Min({maxwait[t], 10})
    IN  /\ pc[t] = "getPop"
        /\ \/ /\ results[j] # <<>>
              /\ results' = [results EXCEPT ![j] = Cons(Last(@), Front(@))]
              /\ Returned(t, Last(results[j]))
              /\ gotten' = [gotten EXCEPT ![j] = @ \cup {Last(results[j])}]
           \/ /\ results[j] = <<>> /\ NilPopFails(slice)
              /\ Finish(t, "SocketTimeout")
              /\ UNCHANGED <<results, maxwait, waited, tracked, inner, gotten>>
           \/ /\ results[j] = <<>> /\ ~NilPopFails(slice)
              /\ maxwait' = [maxwait EXCEPT ![t] = @ - 10]
              /\ waited' = [waited EXCEPT ![t] = @ + slice]
              /\ pc' = [pc EXCEPT ![t] = "getLoop"]
              /\ UNCHANGED <<results, outcome, tracked, inner, gotten>>
        /\ UNCHANGED <<coreQueue, flag, ttl, streamQ, agent, call, recv>>

(* The bit operations on the non-negative meta, as arithmetic:              *)
(* x >> k is x \div 2^k, x & 0xff is x % 256, x & 0x6 # 0 is bit 1 or 2.   *)

\* Mutant: the level is read as meta >> 8.
DecodeShift8(m) == [n |-> m.n, level |-> m.meta \div 256, flags |-> m.meta % 256]

\* Response.stream: callback(meta >> 16, line, meta & 0xff).
Decode(m) == [n |-> m.n, level |-> m.meta \div 65536, flags |-> m.meta % 256]

\* Response.stream: `if meta & 0x6 != 0: break`.
IsEof(m) == (m.meta % 8) \div 2 # 0

\* Mutant: brpop, the newest message first.
StreamPopTail(t) ==
    LET j == JobOf[t]
    IN  /\ pc[t] = "stream"
        /\ \/ /\ streamQ[j] # <<>>
              /\ streamQ' = [streamQ EXCEPT ![j] = Front(@)]
              /\ recv' = [recv EXCEPT ![t] = Append(@, Decode(Last(streamQ[j])))]
              /\ IF IsEof(Last(streamQ[j])) THEN Finish(t, "OK")
                                             ELSE UNCHANGED <<pc, outcome>>
           \/ /\ streamQ[j] = <<>> /\ NilPopFails(DefaultTimeout)
              /\ Finish(t, "SocketTimeout")
              /\ UNCHANGED <<streamQ, recv>>
           \/ /\ streamQ[j] = <<>> /\ ~NilPopFails(DefaultTimeout)
              /\ pc' = [pc EXCEPT ![t] = "strExists"]
              /\ UNCHANGED <<streamQ, recv, outcome>>
        /\ UNCHANGED <<coreQueue, flag, ttl, results, agent, call, maxwait, waited, tracked, inner, gotten>>

\* Response.stream, loop body: blpop(stream:<id>, 10).  A message is
\* decoded and passed to the callback, count += 1, and a message with
\* meta & 0x6 ends the stream.  A nil reply goes on to `if not self.running`.
StreamPop(t) ==
    LET j == JobOf[t]
    IN  /\ pc[t] = "stream"
        /\ \/ /\ streamQ[j] # <<>>
              /\ streamQ' = [streamQ EXCEPT ![j] = Tail(@)]
              /\ recv' = [recv EXCEPT ![t] = Append(@, Decode(Head(streamQ[j])))]
              /\ IF IsEof(Head(streamQ[j])) THEN Finish(t, "OK")
                                             ELSE UNCHANGED <<pc, outcome>>
           \/ /\ streamQ[j] = <<>> /\ NilPopFails(DefaultTimeout)
              /\ Finish(t, "SocketTimeout")
              /\ UNCHANGED <<streamQ, recv>>
           \/ /\ streamQ[j] = <<>> /\ ~NilPopFails(DefaultTimeout)
              /\ pc' = [pc EXCEPT ![t] = "strExists"]
              /\ UNCHANGED <<streamQ, recv, outcome>>
        /\ UNCHANGED <<coreQueue, flag, ttl, results, agent, call, maxwait, waited, tracked, inner, gotten>>

\* Mutant: running() is `r.ttl(flag) is None` without the exists check.
StreamRunningNoExists(t) ==
    /\ pc[t] = "strExists"
    /\ pc' = [pc EXCEPT ![t] = "strTtl"]
    /\ UNCHANGED <<broker, agent, call, maxwait, waited, recv, tracked, inner, outcome, gotten>>

\* Response.running, first query: `if bool(r.exists(flag))`, else False and
\* stream() breaks.
StreamExists(t) ==
    /\ pc[t] = "strExists"
    /\ IF Exists(JobOf[t]) THEN pc' = [pc EXCEPT ![t] = "strTtl"] /\ UNCHANGED outcome
                           ELSE Finish(t, "OK")
    /\ UNCHANGED <<broker, agent, call, maxwait, waited, recv, tracked, inner, gotten>>

\* Response.running, second query: `return r.ttl(flag) is None`; stream()
\* keeps reading while it is True and breaks otherwise.
StreamTtl(t) ==
    /\ pc[t] = "strTtl"
    /\ \E r \in TtlCommand(JobOf[t]) :
         IF TtlReply(r) = None THEN pc' = [pc EXCEPT ![t] = "stream"] /\ UNCHANGED outcome
                               ELSE Finish(t, "OK")
    /\ UNCHANGED <<broker, agent, call, maxwait, waited, recv, tracked, inner, gotten>>

-----------------------------------------------------------------------------
(* The remote agent (core0, and corex in a container), at the broker.        *)

\* An agent takes envelope e.  A new id starts a run and sets the flag with
\* no expiry; an id still tracked gets a DUPLICATE_ID result on its result
\* list (spec 3, scenario B).
StartJob(e) ==
    IF flag[e.id] = "absent"
    THEN /\ flag' = [flag EXCEPT ![e.id] = "running"]
         /\ streaming' = [streaming EXCEPT ![e.id] = e.stream]
         /\ sent' = [sent EXCEPT ![e.id] = <<>>]
         /\ dispatch' = [dispatch EXCEPT ![e.id] = e.inner]
         /\ UNCHANGED results
    ELSE /\ results' = [results EXCEPT ![e.id] =
                          Append(@, [state |-> "DUPLICATE_ID", level |-> 0])]
         /\ UNCHANGED <<flag, streaming, sent, dispatch>>

\* core0 takes the oldest envelope of "core:default".
AgentAccept ==
    /\ coreQueue # <<>>
    /\ coreQueue' = Tail(coreQueue)
    /\ StartJob(Head(coreQueue))
    /\ UNCHANGED <<ttl, streamQ, corexQueue, client, history>>

\* The container's agent takes the oldest command sent to it.
CorexAccept ==
    /\ corexQueue # <<>>
    /\ corexQueue' = Tail(corexQueue)
    /\ StartJob(Head(corexQueue))
    /\ UNCHANGED <<coreQueue, ttl, streamQ, client, history>>

\* A running job started with stream=True writes one output message.
AgentEmit(j) ==
    /\ flag[j] = "running" /\ streaming[j]
    /\ Len(sent[j]) < MaxMsgs
    /\ \E level \in OutLevels :
         LET m == [n |-> Len(sent[j]) + 1, meta |-> Meta(level, 0)]
         IN  /\ streamQ' = [streamQ EXCEPT ![j] = Append(@, m)]
             /\ sent' = [sent EXCEPT ![j] = Append(@, m)]
    /\ UNCHANGED <<coreQueue, flag, ttl, results, streaming, dispatch, corexQueue, client, history>>

\* A running job exits: a streamed process job writes a last message with
\* the end-of-stream flag of its exit state (an internal command may write
\* none), then the result is pushed and the flag gets the retention expiry.
\* A corex.dispatch job that succeeds has sent its command to the container.
AgentExit(j) ==
    /\ flag[j] = "running"
    /\ \E v \in [state: {"SUCCESS", "ERROR"}, level: Levels], eof \in BOOLEAN :
         /\ eof => streaming[j]
         /\ LET f == IF v.state = "SUCCESS" THEN EofSuccess ELSE EofError
                 m == [n |-> Len(sent[j]) + 1, meta |-> Meta(1, f)]
            IN  /\ streamQ' = [streamQ EXCEPT ![j] = IF eof THEN Append(@, m) ELSE @]
                /\ sent' = [sent EXCEPT ![j] = IF eof THEN Append(@, m) ELSE @]
         /\ results' = [results EXCEPT ![j] = Append(@, v)]
         /\ corexQueue' = IF dispatch[j] # None /\ v.state = "SUCCESS"
                          THEN Append(corexQueue, [id |-> dispatch[j], stream |-> FALSE, inner |-> None])
                          ELSE corexQueue
    /\ flag' = [flag EXCEPT ![j] = "expiring"]
    /\ ttl' = [ttl EXCEPT ![j] = Retention]
    /\ UNCHANGED <<coreQueue, streaming, dispatch, client, history>>

\* A second of the retention window passes; at its end redis drops the flag
\* and the result list.
Expire(j) ==
    /\ flag[j] = "expiring"
    /\ IF ttl[j] > 1
       THEN /\ ttl' = [ttl EXCEPT ![j] = @ - 1]
            /\ UNCHANGED <<flag, results, gotten>>
       ELSE /\ ttl' = [ttl EXCEPT ![j] = 0]
            /\ flag' = [flag EXCEPT ![j] = "absent"]
            /\ results' = [results EXCEPT ![j] = <<>>]
            /\ gotten' = [gotten EXCEPT ![j] = {}]
    /\ UNCHANGED <<coreQueue, streamQ, agent, client>>

\* Every call has returned and the agent has nothing left to do.
Quiescent ==
    /\ \A t \in Threads : pc[t] = "done"
    /\ coreQueue = <<>> /\ corexQueue = <<>>
    /\ \A j \in Jobs : flag[j] = "absent"
    /\ UNCHANGED vars

-----------------------------------------------------------------------------
Init ==
    /\ coreQueue = <<>>
    /\ flag = [j \in Jobs |-> "absent"]
    /\ ttl = [j \in Jobs |-> 0]
    /\ results = [j \in Jobs |-> <<>>]
    /\ streamQ = [j \in Jobs |-> <<>>]
    /\ streaming = [j \in Jobs |-> FALSE]
    /\ sent = [j \in Jobs |-> <<>>]
    /\ dispatch = [j \in Jobs |-> None]
    /\ corexQueue = <<>>
    /\ pc = [t \in Threads |-> "idle"]
    /\ call = [t \in Threads |-> CHOOSE c \in CallsOf[t] : TRUE]
    /\ maxwait = [t \in Threads |-> 0]
    /\ waited = [t \in Threads |-> 0]
    /\ recv = [t \in Threads |-> <<>>]
    /\ tracked = [t \in Threads |-> FALSE]
    /\ inner = [t \in Threads |-> FALSE]
    /\ outcome = [t \in Threads |-> "none"]
    /\ gotten = [j \in Jobs |-> {}]

ThreadStep(t) ==
    \/ StartCall(t) \/ RawPush(t) \/ RawAccept(t) \/ GetLoop(t) \/ GetPop(t)
    \/ StreamPop(t) \/ StreamExists(t) \/ StreamTtl(t)

AgentStep ==
    \/ AgentAccept \/ CorexAccept
    \/ \E j \in Jobs : AgentEmit(j) \/ AgentExit(j) \/ Expire(j)

Next ==
    \/ \E t \in Threads : ThreadStep(t)
    \/ AgentStep
    \/ Quiescent

\* Threads never stop between steps; the agent takes every envelope and
\* every job exits (a server-side max_time or the process ending); redis
\* expires keys.  Writing output is not forced.
Fairness ==
    /\ \A t \in Threads : WF_vars(ThreadStep(t))
    /\ WF_vars(AgentAccept) /\ WF_vars(CorexAccept)
    /\ \A j \in Jobs : WF_vars(AgentExit(j)) /\ WF_vars(Expire(j))

Spec == Init /\ [][Next]_vars
FairSpec == Spec /\ Fairness

-----------------------------------------------------------------------------
(* Properties.                                                              *)

TypeOK ==
    /\ coreQueue \in Seq(Envelope)
    /\ flag \in [Jobs -> FlagStates]
    /\ ttl \in [Jobs -> 0..Retention]
    /\ results \in [Jobs -> Seq(ResultEnv)]
    /\ streamQ \in [Jobs -> Seq(Msg)]
    /\ streaming \in [Jobs -> BOOLEAN]
    /\ sent \in [Jobs -> Seq(Msg)]
    /\ dispatch \in [Jobs -> Jobs \cup {None}]
    /\ corexQueue \in Seq(Envelope)
    /\ pc \in [Threads -> PCs]
    /\ call \in [Threads -> Calls]
    /\ maxwait \in [Threads -> Int]
    /\ waited \in [Threads -> Nat]
    /\ recv \in [Threads -> Seq(Seen)]
    /\ tracked \in [Threads -> BOOLEAN]
    /\ inner \in [Threads -> BOOLEAN]
    /\ outcome \in [Threads -> Outcomes]
    /\ gotten \in [Jobs -> SUBSET ResultEnv]

\* Retention (Response.get docstring): while a finished job is remembered,
\* its result stays fetchable, whatever reads get() has made of it.
ResultRetained ==
    \A j \in Jobs : flag[j] = "expiring" => results[j] # <<>>

\* Client deadline (Response.get): the nil polls of get() never add up to
\* more than its timeout, and get() raises TimeoutError only once they have
\* used all of it.
GetDeadline ==
    \A t \in Threads :
        call[t] \in {"raw", "sync", "json", "get"} =>
            /\ waited[t] <= Budget(t)
            /\ outcome[t] = "Timeout" => waited[t] = Budget(t)

\* Stream order (spec 5): stream() hands the callback the job's output in
\* the order the job wrote it, each message once.
StreamInOrder ==
    \A t \in Threads :
        call[t] = "stream" => IsPrefix(recv[t], [i \in DOMAIN sent[JobOf[t]] |-> Decode(sent[JobOf[t]][i])])

\* Every call returns: get() within its budget, stream() once the job has
\* exited (Response.stream: "block until it reaches end of stream or the
\* process is no longer running").
CallsReturn == \A t \in Threads : <>(pc[t] = "done")

\* Stream completeness (spec 8, stream termination): a stream() on a job the
\* agent had already taken when raw() returned, once it has returned
\* normally, has passed every message the job wrote to the callback.
StreamComplete ==
    \A t \in Threads :
        call[t] = "stream" /\ tracked[t] /\ pc[t] = "done" /\ outcome[t] = "OK"
            => Len(recv[t]) = Len(sent[JobOf[t]])

\* Dispatch (Client.raw builds TimeoutError('failed to queue job')): a
\* handle is returned only for a job the agent has started tracking.
HandleTracked ==
    \A t \in Threads :
        call[t] # "get" /\ pc[t] \in {"getLoop", "getPop", "stream", "strExists", "strTtl"}
            => tracked[t]

\* Connection (Client.__init__ socket_timeout): no blocking call of the
\* client fails because the socket timed out before its own wait ended.
NoSocketTimeout == \A t \in Threads : outcome[t] # "SocketTimeout"

\* Client timeout (Response.get: "max time to wait for the job to finish";
\* BaseClient.ping: "a Ping should never fail unless the node is not
\* reachable or not responsive"): get() raises TimeoutError only after it
\* has polled the job's result list at least once.
GetPolls == \A t \in Threads : outcome[t] = "Timeout" => waited[t] > 0

\* Liveness monotonicity (spec 8; Response.running docstring "true if job
\* still in running state"): after a nil blpop, stream() goes back to
\* reading exactly when the job is still running, and breaks exactly when
\* it is not.
RunningAccurate ==
    [][\A t \in Threads :
         pc[t] = "strTtl" /\ pc'[t] # "strTtl"
             => (pc'[t] = "stream" <=> flag[JobOf[t]] = "running")]_vars

\* Result stability (spec 3 and 5: "the Result Envelope is stable once
\* observed"): while an id is tracked, every get() on it returns the same
\* envelope.
ResultStable == \A j \in Jobs : Cardinality(gotten[j]) <= 1

-----------------------------------------------------------------------------
(* Refinement: the job handle's promises (JobHandle).  A flag with no       *)
(* expiry is a running job, a flag with an expiry a finished one; a thread  *)
(* is idle before its call, done after it, busy in between.                 *)

LifeOf(f) == CASE f = "absent" -> "unknown" [] f = "running" -> "running" [] OTHER -> "finished"
StatusOf(p) == CASE p = "idle" -> "idle" [] p = "done" -> "done" [] OTHER -> "busy"

JH == INSTANCE JobHandle WITH
        life   <- [j \in Jobs |-> LifeOf(flag[j])],
        status <- [t \in Threads |-> StatusOf(pc[t])],
        kind   <- call,
        out    <- outcome

\* Every call ends with an outcome that fits the state of its job (JobHandle):
\* JobNotFound only for an untracked id, a result only from a finished job,
\* stream() only once the job no longer runs (Response.get, Response.stream,
\* Response.running).
ImplementsJobHandle == JH!Spec

=============================================================================
