----------------------------- MODULE ZfsRouting -----------------------------
(***************************************************************************)
(* The local zfs routing table of a node (ZFSManager in                    *)
(* src/client/py-client/zeroos/core0/client/client.py) and the             *)
(* FilesystemManager upload/download loops it is stored and read with.     *)
(*                                                                         *)
(* The table lives in the file /var/cache/router.yaml on the node.  The    *)
(* config setter validates a table, then uploads its YAML with             *)
(* open(path, 'w') / write / close; the getter checks exists, downloads    *)
(* with open / read until b'' / close, and yaml-loads what it read; purge  *)
(* removes the file.  Every one of these is a separate json job, so calls  *)
(* of several callers interleave, and each can raise on its own.           *)
(*                                                                         *)
(* Strings are abstracted to token sequences: "h" a hex digit, "g" any     *)
(* other character, ":" a colon.  A destination url is its parsed scheme.  *)
(* The file's bytes are abstracted to units, each tagged with the table    *)
(* whose YAML it belongs to; a table's YAML is Size(table) units.          *)
(***************************************************************************)
EXTENDS Integers, Sequences, FiniteSets, TLC

Max2(a, b) == IF a >= b THEN a ELSE b

CONSTANTS
    Callers,    \* caller threads, each making one ZFSManager call
    PoolNames,  \* pool names a table may use ("local" among them)
    Tables,     \* tables the callers pass to the config setter
    Schemes,    \* url schemes of destinations the callers pass
    OpsOf,      \* [Callers -> SUBSET Ops]
    NoFile,     \* the routing file does not exist
    NoName      \* an error message that names no pool

Ops == {"get", "set", "set_cache", "purge"}

ASSUME /\ "local" \in PoolNames
       /\ OpsOf \in [Callers -> (SUBSET Ops) \ {{}}]

-----------------------------------------------------------------------------
(* ZFSManager._valid_hash_range and _valid_dest.                            *)

IsHex(s) == Len(s) > 0 /\ \A i \in 1..Len(s) : s[i] = "h"

\* Positions of a colon that splits s into two hex runs.
HexSplits(s) ==
    {i \in 1..Len(s) : s[i] = ":" /\ IsHex(SubSeq(s, 1, i - 1))
                                  /\ IsHex(SubSeq(s, i + 1, Len(s)))}

\* re.match(r'^([0-9a-fA-F]+)(?::([0-9a-fA-F]+))$', hr), then the check
\* that start and end have the same length.
ValidHashRangeNoLength(hr) == IF HexSplits(hr) = {} THEN "invalid" ELSE "ok"

ValidHashRange(hr) ==
    IF HexSplits(hr) = {} THEN "invalid"
    ELSE LET i == CHOOSE k \in HexSplits(hr) : TRUE
         IN  IF i - 1 # Len(hr) - i THEN "length" ELSE "ok"

\* urlparse(dest).scheme in ['ardb', 'zdb', 'redis']
ValidDest(scheme) == scheme \in {"ardb", "zdb", "redis"}

-----------------------------------------------------------------------------
(* The config setter's checks, in the order the code makes them.            *)

\* A rule of a pool: hash range -> destination.  A pool here has one rule.
Rule == [range: Seq({"h", "g", ":"}), dest: Schemes]

Ok == [err |-> "none", name |-> NoName]
RuleError == [err |-> "ValueError", name |-> NoName]

\* The first name of seq that is not a pool of tbl.
Unknown(seq, tbl) ==
    {i \in 1..Len(seq) : seq[i] \notin DOMAIN tbl.pools}

FirstUnknown(seq, tbl) ==
    seq[CHOOSE i \in Unknown(seq, tbl) : \A k \in Unknown(seq, tbl) : i <= k]

\* Mutant: the cache loop is missing.
SetterErrorNoCache(tbl) ==
    CASE \E p \in DOMAIN tbl.pools :
            ValidHashRange(tbl.pools[p].range) # "ok" \/ ~ValidDest(tbl.pools[p].dest)
                -> RuleError
      [] Unknown(tbl.lookup, tbl) # {}
                -> [err |-> "ValueError", name |-> FirstUnknown(tbl.lookup, tbl)]
      [] OTHER -> Ok

\* ZFSManager.config setter: every rule's range and destination, then every
\* lookup name, then every cache name must be a pool.  The cache check
\* formats its message with `lookup`, the loop variable of the lookup loop:
\* its last name, or an UnboundLocalError (a NameError) when lookup is empty.
SetterError(tbl) ==
    CASE \E p \in DOMAIN tbl.pools :
            ValidHashRange(tbl.pools[p].range) # "ok" \/ ~ValidDest(tbl.pools[p].dest)
                -> RuleError
      [] Unknown(tbl.lookup, tbl) # {}
                -> [err |-> "ValueError", name |-> FirstUnknown(tbl.lookup, tbl)]
      [] Unknown(tbl.cache, tbl) # {} /\ tbl.lookup = <<>>
                -> [err |-> "NameError", name |-> NoName]
      [] Unknown(tbl.cache, tbl) # {}
                -> [err |-> "ValueError", name |-> tbl.lookup[Len(tbl.lookup)]]
      [] OTHER -> Ok

\* ZFSManager.set_cache(destination): the table it passes to the setter.
CacheTable(scheme) ==
    [pools  |-> "local" :> [range |-> <<"h", "h", ":", "h", "h">>, dest |-> scheme],
     lookup |-> <<"local">>,
     cache  |-> <<"local">>]

\* Units of the YAML of a table (yaml.dump of pools, lookup and cache).
Size(tbl) == 1 + Cardinality(DOMAIN tbl.pools)

\* yaml.load of what download() collected: None for an empty file, the
\* table when the units are exactly one table's YAML, else a parse error or
\* a wrong document.
Load(buf) ==
    IF buf = <<>> THEN [kind |-> "None", tbl |-> NoFile]
    ELSE IF \A i \in 1..Len(buf) : buf[i] = buf[1] /\ Len(buf) = Size(buf[1])
         THEN [kind |-> "table", tbl |-> buf[1]]
         ELSE [kind |-> "corrupt", tbl |-> NoFile]

\* The docstring's rules, the reference the setter is checked against: a
\* hash range is XX[:YY] with XX and YY hex prefixes (of one length, the
\* code's own rule at the length check), a destination is a zdb, redis or
\* ardb url, and lookup and cache are ordered lists of pool names.
DocRange(s) ==
    \/ IsHex(s)
    \/ \E i \in HexSplits(s) : i - 1 = Len(s) - i

DocValid(tbl) ==
    /\ \A p \in DOMAIN tbl.pools :
          DocRange(tbl.pools[p].range) /\ tbl.pools[p].dest \in {"zdb", "redis", "ardb"}
    /\ \A i \in 1..Len(tbl.lookup) : tbl.lookup[i] \in DOMAIN tbl.pools
    /\ \A i \in 1..Len(tbl.cache) : tbl.cache[i] \in DOMAIN tbl.pools

AllTables == Tables \cup {CacheTable(s) : s \in Schemes}
MaxUnits == 1 + Cardinality(PoolNames)
Yaml(tbl) == [i \in 1..Size(tbl) |-> tbl]

RemoteError == [err |-> "RemoteError", name |-> NoName]
Pending == [err |-> "pending", name |-> NoName]
Absent == [kind |-> "absent", tbl |-> NoFile]

PCs == {"idle", "validate", "open", "write", "close",
        "exists", "ropen", "read", "rclose", "remove", "done"}
\* The steps that are a json call to the node.
RemoteSteps == PCs \ {"idle", "validate", "done"}

-----------------------------------------------------------------------------
VARIABLES
    path,    \* the inode /var/cache/router.yaml names, 0 when there is none
    inodes,  \* Seq of file contents (Seq of units) by inode number
    pc,      \* [Callers -> PCs]
    op,      \* [Callers -> Ops]
    arg,     \* [Callers -> AllTables \cup {NoFile}]: the table being set
    fd,      \* [Callers -> Nat]: the inode the caller's open fd refers to
    pos,     \* [Callers -> Nat]: the fd's offset
    buf,     \* [Callers -> Seq of units]: download's writer (io.BytesIO)
    ret,     \* [Callers -> record]: what the call returned or raised
    seen,    \* history: [Callers -> set of answers]: the answers an atomic
             \* getter could have given at some moment of the caller's call
    failed,  \* history: [Callers -> BOOLEAN]: a json call of the caller raised
    before   \* history: [Callers -> set of answers]: what the store could
             \* hold when the caller's call began

vars == <<path, inodes, pc, op, arg, fd, pos, buf, ret, seen, failed, before>>

Init ==
    /\ \/ path = 0 /\ inodes = <<>>
       \/ path = 1 /\ \E tbl \in AllTables : SetterError(tbl) = Ok /\ inodes = <<Yaml(tbl)>>
    /\ pc = [t \in Callers |-> "idle"]
    /\ op = [t \in Callers |-> "get"]
    /\ arg = [t \in Callers |-> NoFile]
    /\ fd = [t \in Callers |-> 0]
    /\ pos = [t \in Callers |-> 0]
    /\ buf = [t \in Callers |-> <<>>]
    /\ ret = [t \in Callers |-> Pending]
    /\ seen = [t \in Callers |-> {}]
    /\ failed = [t \in Callers |-> FALSE]
    /\ before = [t \in Callers |-> {}]

Goto(t, where) == pc' = [pc EXCEPT ![t] = where]
Return(t, v) == pc' = [pc EXCEPT ![t] = "done"] /\ ret' = [ret EXCEPT ![t] = v]

\* A caller calls config (get), config = table (set), set_cache(dest) or
\* purge().
Start(t) ==
    /\ pc[t] = "idle"
    /\ \E o \in OpsOf[t] :
         /\ op' = [op EXCEPT ![t] = o]
         /\ CASE o = "get"   -> Goto(t, "exists") /\ UNCHANGED arg
              [] o = "purge" -> Goto(t, "remove") /\ UNCHANGED arg
              [] o = "set"   -> Goto(t, "validate") /\ \E tbl \in Tables : arg' = [arg EXCEPT ![t] = tbl]
              [] o = "set_cache" -> Goto(t, "validate")
                                 /\ \E s \in Schemes : arg' = [arg EXCEPT ![t] = CacheTable(s)]
    /\ UNCHANGED <<path, inodes, fd, pos, buf, ret>>

\* The setter's checks, all made before anything is sent; a failing one
\* raises.
Validate(t) ==
    /\ pc[t] = "validate"
    /\ IF SetterError(arg[t]) = Ok THEN Goto(t, "open") /\ UNCHANGED ret
                                   ELSE Return(t, SetterError(arg[t]))
    /\ UNCHANGED <<path, inodes, op, arg, fd, pos, buf>>

\* Mutant: upload opens with mode 'a', appending to the old table.
OpenAppend(t) ==
    /\ pc[t] = "open"
    /\ IF path = 0
       THEN /\ inodes' = Append(inodes, <<>>)
            /\ path' = Len(inodes) + 1
            /\ fd' = [fd EXCEPT ![t] = Len(inodes) + 1]
            /\ pos' = [pos EXCEPT ![t] = 0]
       ELSE /\ fd' = [fd EXCEPT ![t] = path]
            /\ pos' = [pos EXCEPT ![t] = Len(inodes[path])]
            /\ UNCHANGED <<path, inodes>>
    /\ Goto(t, "write")
    /\ UNCHANGED <<op, arg, buf, ret>>

\* upload: fd = self.open(remote, 'w'): truncates the file, or creates a new
\* one when the path names none.
Open(t) ==
    /\ pc[t] = "open"
    /\ IF path = 0
       THEN /\ inodes' = Append(inodes, <<>>)
            /\ path' = Len(inodes) + 1
            /\ fd' = [fd EXCEPT ![t] = Len(inodes) + 1]
       ELSE /\ inodes' = [inodes EXCEPT ![path] = <<>>]
            /\ fd' = [fd EXCEPT ![t] = path]
            /\ UNCHANGED path
    /\ pos' = [pos EXCEPT ![t] = 0]
    /\ Goto(t, "write")
    /\ UNCHANGED <<op, arg, buf, ret>>

\* upload loop: the table's YAML is one chunk of reader.read(512 * 1024):
\* self.write(fd, chunk) writes it at the fd's offset; the next read is b''
\* and the loop breaks.
Write(t) ==
    LET old == inodes[fd[t]]
        n == pos[t] + Size(arg[t])
        new == [i \in 1..Max2(Len(old), n) |->
                  IF i > pos[t] /\ i <= n THEN arg[t] ELSE old[i]]
    IN  /\ pc[t] = "write"
        /\ inodes' = [inodes EXCEPT ![fd[t]] = new]
        /\ pos' = [pos EXCEPT ![t] = n]
        /\ Goto(t, "close")
        /\ UNCHANGED <<path, op, arg, fd, buf, ret>>

\* upload: self.close(fd); the setter returns.
Close(t) ==
    /\ pc[t] = "close"
    /\ Return(t, Ok)
    /\ UNCHANGED <<path, inodes, op, arg, fd, pos, buf>>

\* getter: `if not self._client.filesystem.exists(self.PATH): return None`
Exists(t) ==
    /\ pc[t] = "exists"
    /\ IF path = 0 THEN Return(t, Absent) ELSE Goto(t, "ropen") /\ UNCHANGED ret
    /\ UNCHANGED <<path, inodes, op, arg, fd, pos, buf>>

\* download: fd = self.open(remote); opening a path that names no file fails.
ROpen(t) ==
    /\ pc[t] = "ropen"
    /\ IF path = 0
       THEN Return(t, RemoteError) /\ UNCHANGED <<fd, pos>>
       ELSE /\ fd' = [fd EXCEPT ![t] = path]
            /\ pos' = [pos EXCEPT ![t] = 0]
            /\ Goto(t, "read")
            /\ UNCHANGED ret
    /\ UNCHANGED <<path, inodes, op, arg, buf>>

\* download loop: chunk = self.read(fd) returns what lies past the offset;
\* b'' breaks the loop, anything else goes to writer.write(chunk).
Read(t) ==
    LET data == inodes[fd[t]]
        rest == SubSeq(data, pos[t] + 1, Len(data))
    IN  /\ pc[t] = "read"
        /\ IF rest = <<>>
           THEN Goto(t, "rclose") /\ UNCHANGED <<pos, buf>>
           ELSE /\ buf' = [buf EXCEPT ![t] = @ \o rest]
                /\ pos' = [pos EXCEPT ![t] = Len(data)]
                /\ UNCHANGED pc
        /\ UNCHANGED <<path, inodes, op, arg, fd, ret>>

\* download: self.close(fd); the getter returns yaml.load(buf).
RClose(t) ==
    /\ pc[t] = "rclose"
    /\ Return(t, Load(buf[t]))
    /\ UNCHANGED <<path, inodes, op, arg, fd, pos, buf>>

\* purge: self._client.filesystem.remove(self.PATH); removing a path that
\* names no file fails.
Remove(t) ==
    /\ pc[t] = "remove"
    /\ IF path = 0 THEN Return(t, RemoteError) /\ UNCHANGED path
                   ELSE Return(t, Ok) /\ path' = 0
    /\ UNCHANGED <<inodes, op, arg, fd, pos, buf>>

\* Any json call can raise (an error result, a timeout, a lost connection)
\* before its effect; the exception propagates out of the ZFSManager call,
\* past the remaining steps (upload and download have no try/finally).
Fail(t) ==
    /\ pc[t] \in RemoteSteps
    /\ Return(t, RemoteError)
    /\ UNCHANGED <<path, inodes, op, arg, fd, pos, buf>>

Done ==
    /\ \A t \in Callers : pc[t] = "done"
    /\ UNCHANGED <<path, inodes, pc, op, arg, fd, pos, buf, ret>>

Step ==
    \/ \E t \in Callers :
          \/ /\ \/ Start(t) \/ Validate(t) \/ Open(t) \/ Write(t) \/ Close(t)
                \/ Exists(t) \/ ROpen(t) \/ Read(t) \/ RClose(t) \/ Remove(t)
             /\ UNCHANGED failed
          \/ Fail(t) /\ failed' = [failed EXCEPT ![t] = TRUE]
    \/ Done /\ UNCHANGED failed

(* History.  The answer an atomic getter would give in a state: None       *)
(* (Absent) when no file exists, the table when the file holds one whole   *)
(* table; an empty or mixed file is no state an atomic store can be in.    *)
AtomicAnswer(p, ino) ==
    IF p = 0 THEN {Absent}
    ELSE IF Load(ino[p]).kind = "table" THEN {Load(ino[p])} ELSE {}

\* The getter returns None both when no file exists and when yaml.load
\* reads an empty file: the caller cannot tell the two apart.
AsPython(r) == IF r = Load(<<>>) THEN Absent ELSE r

\* A write (set, set_cache, purge) that has begun and not returned may
\* take effect at any moment of its call: until it returns, the store may
\* still hold what it held when the write began, or already the write's
\* value.
Writing == {s \in Callers : op[s] \in {"set", "set_cache", "purge"} /\ pc[s] \notin {"idle", "done"}}
Effect(s) == IF op[s] = "purge" THEN {Absent} ELSE {[kind |-> "table", tbl |-> arg[s]]}
StoreAnswers == AtomicAnswer(path, inodes) \cup UNION {before[s] \cup Effect(s) : s \in Writing}

\* A call that begins records what the store could hold; every caller whose
\* call is under way before or after a step records what the store could
\* hold in the state the step leads to.
Observe ==
    /\ before' = [t \in Callers |-> IF pc[t] = "idle" /\ pc'[t] # "idle" THEN StoreAnswers ELSE before[t]]
    /\ seen' = [t \in Callers |->
                  IF pc[t] \notin {"idle", "done"} \/ pc'[t] \notin {"idle", "done"}
                  THEN seen[t] \cup StoreAnswers'
                  ELSE seen[t]]

Next ==
    /\ Step
    /\ Observe

Spec == Init /\ [][Next]_vars

-----------------------------------------------------------------------------
(* Properties.                                                              *)

Rets == [err: {"none", "ValueError", "NameError", "RemoteError", "pending"},
         name: PoolNames \cup {NoName}]
        \cup [kind: {"absent", "None", "corrupt"}, tbl: {NoFile}]
        \cup [kind: {"table"}, tbl: AllTables]

\* Types of the variables; besides, the routing file is never longer than
\* the largest table's YAML, since upload opens it with mode 'w'.
TypeOK ==
    /\ path \in 0..Len(inodes)
    /\ inodes \in Seq(Seq(AllTables))
    /\ \A g \in 1..Len(inodes) : Len(inodes[g]) <= MaxUnits
    /\ pc \in [Callers -> PCs]
    /\ op \in [Callers -> Ops]
    /\ arg \in [Callers -> AllTables \cup {NoFile}]
    /\ fd \in [Callers -> 0..Len(inodes)]
    /\ pos \in [Callers -> 0..MaxUnits]
    /\ buf \in [Callers -> Seq(AllTables)]
    /\ ret \in [Callers -> Rets]
    /\ seen \in [Callers -> SUBSET Rets]
    /\ failed \in [Callers -> BOOLEAN]
    /\ before \in [Callers -> SUBSET Rets]

\* Setter soundness (ZFSManager.config setter): whenever the routing file
\* holds one whole table, that table obeys the docstring's rules, whatever
\* the callers set, in whatever order their uploads ran.
SetterSound ==
    path # 0 /\ Load(inodes[path]).kind = "table" => DocValid(Load(inodes[path]).tbl)

\* The getter reads the table "in one go" (config docstring): whatever
\* uploads, purges or failures run beside it, a config read that returns
\* answers what an atomic store could have held at some moment of the
\* call: None for no table, or a whole table, the value from before a
\* write still under way included.  A read raises only when one of its own
\* json calls raised.
GetInOneGo ==
    \A t \in Callers :
        op[t] = "get" /\ pc[t] = "done"
            => AsPython(ret[t]) \in seen[t] \/ failed[t]

\* Uploads in one go (config setter docstring: the table is set "in one
\* go" and "fully override[s]" the old one): once no upload is under way and
\* none has raised, the routing file is absent or holds one whole table,
\* however the open, write and close jobs of concurrent setters interleaved.
UploadsWhole ==
    (\A t \in Callers : pc[t] \notin {"open", "write", "close"}
                        /\ ~(failed[t] /\ op[t] \in {"set", "set_cache"}))
        => AtomicAnswer(path, inodes) # {}

\* Setter completeness (ZFSManager.config docstring: "a valid hash range is
\* of the form XX[:YY] ... the YY is optional"): a table that follows the
\* docstring's rules is accepted; setting it fails only when a json call of
\* the upload raises.
SetterComplete ==
    \A t \in Callers :
        op[t] \in {"set", "set_cache"} /\ pc[t] = "done" /\ DocValid(arg[t])
            => ret[t] \in {Ok, RemoteError}

=============================================================================
