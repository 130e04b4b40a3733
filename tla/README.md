# TLA+ models of the zero-os core0 Python client

This directory models
`src/client/py-client/zeroos/core0/client/client.py`. That client sends
commands to a zero-os node (the core0 agent) through redis. Two parts are
modelled: the job protocol between the client, redis and the agent, and
the ZFS routing table the client stores on the node as a file. Both are
checked with TLC.

## 1. The system and its parts

The client never talks to the agent directly. Everything goes through four
redis keys per job:

| key | type | written by | read by |
|---|---|---|---|
| `core:default` | list | `Client.raw` (`rpush`, line 3481) | agent (takes envelopes in order) |
| `result:<id>:flag` | key with optional TTL | agent (set while running; expiry set on exit) | `raw` acceptance wait (3482), `Response.exists` (166-176), `Response.running` (178-189) |
| `result:<id>` | list | agent (result envelope on exit, or `DUPLICATE_ID`) | `Response.get` (`brpoplpush` onto the same list, 268) |
| `stream:<id>` | list | agent (one entry per output line) | `Response.stream` (`blpop`, 228) |

The parts, as listed in `PROJECT.json`:

* **Dispatch client.** This is `Client.__init__` (timeouts, socket timeout,
  manager construction and the connection test) and `Client.raw` (argument
  check, envelope, `rpush`, then a 10 s `brpoplpush(flag, flag)` acceptance
  wait). It also covers `BaseClient.sync`, `json`, `system`, `bash` and
  `Client.response_for`. sync and json call `get()` and then check `state`,
  and json also checks `level == 20`. system, bash and the Power manager
  return the handle.
* **Job handle** (`Response`).
  * `exists` is one `EXISTS`.
  * `running` is `EXISTS`, then `TTL`, with `ttl is None` meaning "no
    expiry yet".
  * `get` spends a client-side budget in slices of `min(maxwait, 10)`.
    Before each slice it checks `exists`, and it subtracts a full 10 per
    slice.
  * `stream` loops on `blpop`. It decodes `meta` as level `meta >> 16` and
    flags `meta & 0xff`, and stops on an EOF flag (`meta & 0x6`). On a nil
    pop it stops if the job is not running.
* **Result value** (`Return`, `JSONResponse`): `state` and `level` are what
  callers branch on.
* **Managers.** These are nineteen request builders. Each method checks
  its arguments and makes one call of a fixed kind (sync, json, raw or
  stream).
* **Broker** (redis) and **remote agent** (core0). Neither is in this
  repository. They are modelled from `spec.md` at the level of the keys
  above.
* **ZFS routing table** (`ZFSManager`, 3096-3211). The config setter
  validates a table (`_valid_hash_range`, `_valid_dest`, the lookup and
  cache names), then uploads its YAML to `/var/cache/router.yaml`. The
  getter checks `exists`, downloads and yaml-loads the file. `purge`
  removes it, and `set_cache` sets a fixed one-pool table. Upload and
  download are the `FilesystemManager` loops (`open`/`write`/`close`,
  `open`/`read` until `b''`/`close`, 586-659). Each of those steps is a
  separate json job, so the calls of two callers interleave between them.
* **Container client** (`ContainerClient.raw`, 947-988). It checks its
  arguments and sends the command, with its id, as the arguments of a
  `corex.dispatch` job of the node (a fresh uuid). It `get()`s that job,
  raises `RuntimeError` unless the job succeeded, and returns
  `response_for(cmd_id)`, a handle on the command's own id, with no
  acceptance wait. The container's agent (corex) takes the command from
  its own queue.
* **Not modelled:**
  * `subscribe`;
  * `typchk`.

## 2. Modules

### `JobProtocol.tla`

This module holds the broker, the agent and a set of client threads. Each
thread runs one call of one kind on one job id.

**Constants**

| constant | meaning |
|---|---|
| `Threads`, `Jobs`, `JobOf` | client threads, job ids, and the id each thread works on |
| `CallsOf` | the call kinds each thread may make: a manager class's set, or `"get"` on a rebuilt handle |
| `TimeoutArg` | the `timeout` given to `Client(...)` |
| `GetTimeout` | the explicit `get(timeout)` |
| `RedisPy` | the redis-py major version, which decides how a `TTL` reply is converted |
| `MaxMsgs` | the maximum stream output per job |
| `Retention` | the result's expiry in whole seconds |

**State and the code it stands for**

* `coreQueue`, `flag`, `ttl`, `results` and `streamQ` are the four keys.
* `streaming` and `sent` are the agent's record of the stream flag and
  of what it wrote.
* Each thread has:
  * `pc`, `call` and `maxwait` (the local variable of `get`);
  * `waited`, the time spent in blocking waits;
  * `recv`, what the callback was handed, decoded;
  * `tracked`, whether the handle's job was tracked when the handle was
    returned;
  * `inner`, whether a container call holds its command's handle yet.
    `Handle(t)` is the job the thread's handle refers to: the
    `corex.dispatch` job (`DispatchOf`) before, and `JobOf` after.
  * `outcome`, the result, or the exception the call ends with.

**Client actions**

| action | code |
|---|---|
| `StartCall` | `response_for` and the timeout defaulting of `get` |
| `RawPush` | `Client.raw` up to the `rpush` |
| `RawAccept` | the acceptance `brpoplpush`, whose `TimeoutError` is built but never raised |
| `GetLoop` | the `while maxwait > 0` test and the `exists` check |
| `GetPop` | the rotating `brpoplpush`, then `Returned`: the result check of sync/json (`ResultOutcome`), or for a `corex.dispatch` result the `RuntimeError` check and the switch to the command's handle; or `maxwait -= 10` |
| `StreamPop` | one `blpop` of `stream`, with decode, callback and the EOF test |
| `StreamExists`, `StreamTtl` | the two round trips of `running` after a nil pop |

**Agent actions**

These actions are spec-modelled: the agent's code is not in this
repository. `StartJob` is shared by core0 and corex.

| action | what it does |
|---|---|
| `AgentAccept` | takes an envelope. A new id starts running, and an id already flagged gets a `DUPLICATE_ID` result. |
| `AgentEmit` | writes one stream message |
| `CorexAccept` | the container's agent takes a command sent by `corex.dispatch`, as `AgentAccept` does |
| `AgentExit` | pushes the result, writes an EOF message on success or error if streaming, and sets the expiry. A successful `corex.dispatch` job sends its command to the container's queue. |
| `Expire` | redis deleting the keys |

**Time and socket timeouts**

Time is abstracted to the blocking waits. A nil pop costs its whole slice.
A pop whose slice is longer than the socket timeout
(`timeout + 5 if timeout else 15`, line 3301) raises a redis `TimeoutError`
instead.

**History and refinement**

* `gotten[j]` is a history variable. It holds the set of result envelopes
  that any `get` of job `j` has returned since the flag last appeared.
  `Expire` resets it.
* `ImplementsJobHandle` instantiates `JobHandle` with a refinement
  mapping. `LifeOf` maps the flag to the abstract life of the job:
  absent is unknown, running is running, and expiring is finished.
  `StatusOf` maps a thread's `pc` to idle, busy or done. `call` and
  `outcome` map to `kind` and `out` directly.

### `JobHandle.tla`

This is the abstract specification of what a handle promises its caller
(`spec.md` §4.4 and §5), with no broker, no polling and no time. A job is
unknown, then running, then finished, then unknown again once its
retention ends. A call ends with one outcome, and the outcome must fit the
job's state at that moment:

* `JobNotFound` only for an unknown job;
* a result of `get`, `sync` or `json` only once the job has finished;
* a normal end of `stream` only once the job no longer runs;
* a client-side failure (`SchemaError`, `Timeout`, `SocketTimeout`) at any
  time.

### `MCJobProtocol.tla`

This module defines three two-thread instances: Get, Stream and Mixed (see
its header).

### `ZfsRouting.tla`

**Abstraction.** Strings are token sequences: `"h"` is a hex digit, `"g"`
any other character, `":"` a colon. A destination is its url scheme. The
file's bytes are units, each tagged with the table whose YAML it belongs
to. A table's YAML is `Size(table)` units.

**Pure operators.** `ValidHashRange`, `ValidDest` and `SetterError` follow
the setter's checks in the code's order. The cache check formats its
message with `lookup`, the leftover loop variable, so `SetterError`
names the last lookup entry (or gives a `NameError` when lookup is empty).
`Load` is `yaml.load`: None for an empty file, the table for exactly one
table's units, and otherwise corrupt. `DocValid` is the docstring's rules,
the reference the setter is checked against.

**State.** `path` is the inode the file name refers to, and `inodes` holds
the contents by inode. So truncating, unlinking and recreating the file
behave as on a real filesystem. Each caller has `pc`, `op`, `arg`, an open
`fd` and its offset `pos`, the download buffer `buf`, and `ret`.

**History.** Three history variables serve the getter's property, in the
style of a linearizability check against an atomic store. `seen[t]` holds
every answer an atomic getter could have given at some moment of t's
call. `AtomicAnswer` gives it for a state: None when no file exists, the
table when the file holds one whole table, and nothing for an empty or
mixed file. `Observe` is a conjunct of `Next` that adds the answer of every
state reached while a call is under way. `failed[t]` is set by `Fail`.
A write that has begun and not returned may take effect at any moment of
its call. So `StoreAnswers` also allows, for every write under way, the
value the store could hold when that write began (`before`) and the
write's own value (`Effect`). `AsPython` identifies the two Nones the
getter can return: no file, and `yaml.load` of an empty file.

**Actions.**

| action | code |
|---|---|
| `Start`, `Validate` | `ZFSManager.config`, `set_cache`, `purge` entry and the setter checks |
| `Open` | `filesystem.open(path, 'w')`: truncates an existing file, or creates one |
| `Write`, `Close` | the upload loop's `write` and `close` |
| `Exists` | the getter's `exists` check |
| `ROpen`, `Read`, `RClose` | the download loop: `open`, `read` until empty, `close`, then `yaml.load` |
| `Remove` | `purge`'s `remove` |
| `Fail` | any remote step raising (a json job failing before its effect) |

`MCZfsRouting.tla` gives two callers, two pool names, two schemes and four
hash ranges. `GrammarTables` is every range of up to four tokens.

## 3. Runs

| run | cfg | expect | what it shows |
|---|---|---|---|
| get_retrieval | `MCJobProtocolGet.cfg` | pass | See below. |
| stream_output | `MCJobProtocolStream.cfg` | pass | See below. |
| stream_lost_tail | `StreamLostTail.cfg` | violation | See Findings. |
| dispatch_untracked | `DispatchUntracked.cfg` | violation | See Findings. |
| socket_timeout_short | `SocketTimeoutShort.cfg` | violation | See Findings. |
| running_after_exit | `RunningAfterExit.cfg` | violation | See Findings. |
| duplicate_result | `DuplicateResult.cfg` | violation | See Findings. |
| timeout_zero | `TimeoutZero.cfg` | violation | See Findings. |
| zfs_routing | `MCZfsRouting.cfg` | pass | See below. |
| zfs_torn_read | `ZfsTornRead.cfg` | violation | See Findings. |
| zfs_setter_race | `ZfsSetterRace.cfg` | violation | See Findings. |
| zfs_setter_complete | `ZfsSetterComplete.cfg` | violation | See Findings. |

**get_retrieval.** A DiskManager caller and a second caller share one id.
The first caller may instead run a container command with that id. The
second caller either rebuilds a handle and calls `get(15)`, or dispatches
the same id again. The run checks:

* `ResultRetained`: reading never destroys a retained result;
* `GetDeadline`: `get` never waits past its budget, and raises
  `TimeoutError` only after spending exactly its budget.

**stream_output.** A PowerManager call streams while a second caller gets.
The run checks:

* `TypeOK`: decoded levels are output levels;
* `StreamInOrder`: the callback gets a prefix of what the job wrote, in
  order;
* `CallsReturn`: every call returns;
* `ImplementsJobHandle`: the protocol refines `JobHandle`. Every outcome
  a call ends with is one the abstract handle allows for the job's state
  at that step.

**zfs_routing.** Two callers get, set, `set_cache` and purge the routing
file concurrently, and any remote step may fail. The run checks:

* `TypeOK`, which also bounds the file to one table's units, so an
  append instead of a truncate is caught;
* `SetterSound`: whenever the file holds one whole table, that table obeys
  the docstring's rules. No interleaving or failure lets the setter store
  a table it should have rejected.

**Findings.** Each violation run found a disagreement with the code:

1. **`StreamComplete`** (line 229). `stream()` breaks on
   `not self.running` without draining the list. If the job writes its EOF
   message and exits between the nil `blpop` and the `running` check, the
   EOF is never read, and the count is one short of what the job fed.
   `spec.md` §8 says it should equal that number.
2. **`HandleTracked`** (line 3483). `raw()` returns a handle while the
   job is still queued, because `TimeoutError('failed to queue job')` is
   never raised. `sync` then raises `JobNotFoundError` for a job that will
   run.
3. **`NoSocketTimeout`** (line 3301). `Client(timeout=2)` gives a 7 s
   socket timeout, and the 10 s acceptance wait fails with a redis
   `TimeoutError`.
4. **`RunningAccurate`, redis-py 2** (line 187). The TTL of the flag is
   rounded to whole seconds, and redis-py 2 turns a reply of 0 into None.
   In the last second of retention `running` therefore answers True for a
   job that has exited, and `stream` keeps polling.
5. **`GetPolls`** (line 703). `Client(timeout=0)` sets the socket
   timeout as if no timeout were given (15 s). But `BaseClient` keeps
   `self.timeout = 0`, so `get()` skips its loop and raises
   `TimeoutError` at once. Every sync and json call fails, `ping`
   included, so the connection test raises `ConnectionError` for a
   reachable node. `ping`'s docstring says it fails only when the node is
   unreachable.
6. **`ResultStable`** (line 268). A second dispatch of the same id makes
   the agent push `DUPLICATE_ID` onto `result:<id>`. The first caller
   reads it, the real result follows, and a later `get` returns a
   different envelope. The spec says re-reads of a result are stable.
7. **`GetInOneGo`** (line 637). The setter's upload opens the file with
   `'w'`, which truncates it in place, and writes it in a later job. In the
   trace, the file holds a table when the read begins. The getter opens
   the file, then the setter truncates it, and the getter reads it empty
   and returns None. That is neither the old table nor the one being set,
   so no atomic store could answer it. The run's callers only get and set,
   so that its trace shows this race.
   With a purge among the operations, the same property also fails
   (hazard 3141). The getter's `exists` succeeds and a purge removes the
   file. The getter's `open` then raises, although none of its own calls
   failed.
8. **`UploadsWhole`** (line 637). Two setters race. Both open the same
   inode with truncation and write at their own offsets, and both return
   success. The file then holds the head of one table's YAML and the tail
   of the other's.
9. **`SetterComplete`** (line 3150). The regex makes `:YY` mandatory, so a
   range `XX` of the form the docstring allows is rejected with a
   `ValueError`.

**Hazards found by TLC but not run.**

These are reproduced by changing one constant or operator of an existing
run; they have no cfg of their own.

* With `RedisPy = 3` in `RunningAfterExit.cfg`, `RunningAccurate` is also
  violated. redis-py 3 returns -1 for a key with no expiry, `ttl is None`
  is never true, and `running` answers False while the job runs.
* The inner handle of a container call has the same race as finding 2.
  If corex has not yet taken the command, `get()` raises
  `JobNotFoundError`. This shows when `HandleTracked` is stated for the
  handle `Handle(t)` rather than `JobOf[t]`.

**Mutants.** Each property of a passing run is killed by a plausible bug
in the code it is about:

| mutant | what it does | kills |
|---|---|---|
| `GetPopConsumes` | `rpop` instead of a rotation | `ResultRetained` |
| `GetPopFullSlice` | always waits 10 | `GetDeadline` |
| `DecodeShift8` | `meta >> 8` | `TypeOK` |
| `StreamPopTail` | pops the tail | `StreamInOrder` |
| `StreamRunningNoExists` | `running` without the `exists` check | `CallsReturn` (redis-py 2 maps -2 to None, so the loop never ends) |
| `TtlReplyNoSign` | redis-py 2 keeping negative TTL replies | `ImplementsJobHandle` |
| `OpenAppend` | `open` without truncation | `TypeOK` (ZfsRouting) |
| `SetterErrorNoCache` | the setter without the cache-name loop | `SetterSound` |

## 4. Bounds, fairness and why they suffice

**Bounds.** Each instance has two threads, because every interleaving
question here is between two actors on one id plus the agent. The other
bounds:

* `MaxMsgs = 1..2`: two messages are enough to reorder.
* `Retention = 2`: this makes TTL values 2 and 1 reachable, so the
  rounding and expiry orders occur.
* Get budgets of 15 (not a multiple of 10), so the short final slice
  happens.
* Client timeouts of `None` and 2, which lie on both sides of the 5 s
  socket margin, and 0, the value the code treats two ways.

Runs finish in seconds with 2.5k to 100k distinct states. The Get
instance has two job ids: the one the callers share, and the uuid of the
container call's `corex.dispatch` job.

The ZFS instance has two callers, because every race is between a set or
purge and another call. Its tables come from four hash ranges (hex only,
split, unequal lengths, non-hex), two schemes (one accepted, one not) and
three name lists (empty, a pool, a missing pool). That covers every error
branch of the setter. The grammar run enumerates every token string of up
to four tokens, which includes every short form the docstring allows. The
zfs_routing run reaches about 240k distinct states in seconds.

**Fairness.** Client threads are weakly fair: a Python thread that is not
blocked keeps running. The agent's accept and exit and redis's expiry are
weakly fair, and so is corex's accept: the agents take queued jobs, jobs end, and keys expire.
Emitting output is not fair, because a job may write nothing. Liveness is
checked only in the stream run. `Quiescent` is a stuttering step once every
thread is done and nothing is left to expire, so deadlock checking stays
on.

`ZfsRouting` has no fairness and is checked for safety only: a caller may
stop anywhere, as a failing node would make it.

## 5. What is not modelled

* **The file descriptor left open when an upload or download raises.**
  The leak is a resource on the node, and no property is about it.
* **`upload_file` and `download_file`.** They wrap the loops in local
  file I/O.
* **The wrong name in the cache check's message.** It is modelled in
  `SetterError`, but it only changes an exception's wording, so no run
  checks it.
* **Formatting, logging, the default callback and JSON encoding.** They do
  not change control flow, except the meta decoding, which is modelled
  arithmetically.
* **`typchk` argument schemas.** They are reduced to a `SchemaError`
  branch before the push.
* **The connection-test loop of `Client.__init__`.** It repeats one json
  call (`ping`) and swallows its exceptions. The failures it repeats are
  checked on the single call (`GetPolls`, `NoSocketTimeout`).
* **A container call whose dispatch timed out.** The model reaches it: the
  outer `get()` raises while the command runs anyway. But nothing in the
  code or the spec says what the caller is owed, so no property is about
  it.
* **Network partitions of redis.** The client does not handle them beyond
  the socket timeout.

## 6. Plan for later work

Work in this order:

1. **`Subscribe`.** On the client this is one streamed `raw` call. The
   fan-out of a job's output to subscription lists is agent behaviour
   that `spec.md` leaves external, so it waits for a description of the
   agent.
2. **Larger instances.** Three threads on one id in the Get instance, and
   two tables per caller in the ZFS instance.
