------------------------------ MODULE JobHandle ------------------------------
(***************************************************************************)
(* What a job handle promises its caller (spec 4.4 and 5), with no broker, *)
(* no polling and no time.  A job id is UNKNOWN, then TRACKED-RUNNING,     *)
(* then TRACKED-EXPIRING with its result ("finished" here), then UNKNOWN   *)
(* again once the retention window ends.  A caller's call ends with one    *)
(* outcome, and the outcome must fit the job's state at that moment:       *)
(*   JobNotFound      only for an id that is not tracked;                  *)
(*   a result (OK, ResultError, LevelError) of get(), sync() or json()     *)
(*                    only once the job has finished;                      *)
(*   stream() ends normally only once the job no longer runs;              *)
(*   client-side failures (SchemaError, Timeout, SocketTimeout) at any     *)
(*   time.                                                                 *)
(* JobProtocol implements this specification under a refinement mapping.  *)
(***************************************************************************)
CONSTANTS Threads, Jobs, JobOf

VARIABLES
    life,    \* [Jobs -> {"unknown", "running", "finished"}]
    status,  \* [Threads -> {"idle", "busy", "done"}]
    kind,    \* [Threads -> Kinds]: the call a thread makes
    out      \* [Threads -> outcome names]: how its call ended

Kinds == {"raw", "sync", "json", "get", "stream"}
ClientSide == {"SchemaError", "Timeout", "SocketTimeout"}
ResultOutcomes == {"OK", "ResultError", "LevelError"}

Init ==
    /\ life = [j \in Jobs |-> "unknown"]
    /\ status = [t \in Threads |-> "idle"]
    /\ kind \in [Threads -> Kinds]
    /\ out = [t \in Threads |-> "none"]

Begin(t) ==
    /\ status[t] = "idle"
    /\ status' = [status EXCEPT ![t] = "busy"]
    /\ \E k \in Kinds : kind' = [kind EXCEPT ![t] = k]
    /\ UNCHANGED <<life, out>>

\* The outcomes a call may end with, given the state of its job.
Allowed(t) ==
    LET l == life[JobOf[t]]
    IN  ClientSide
        \cup (IF l = "unknown" THEN {"JobNotFound"} ELSE {})
        \cup (IF kind[t] # "stream" /\ l = "finished" THEN ResultOutcomes ELSE {})
        \cup (IF kind[t] = "stream" /\ l # "running" THEN {"OK"} ELSE {})

Return(t) ==
    /\ status[t] = "busy"
    /\ \E o \in Allowed(t) : out' = [out EXCEPT ![t] = o]
    /\ status' = [status EXCEPT ![t] = "done"]
    /\ UNCHANGED <<life, kind>>

Track(j) ==
    /\ life[j] = "unknown"
    /\ life' = [life EXCEPT ![j] = "running"]
    /\ UNCHANGED <<status, kind, out>>

Finish(j) ==
    /\ life[j] = "running"
    /\ life' = [life EXCEPT ![j] = "finished"]
    /\ UNCHANGED <<status, kind, out>>

Forget(j) ==
    /\ life[j] = "finished"
    /\ life' = [life EXCEPT ![j] = "unknown"]
    /\ UNCHANGED <<status, kind, out>>

Next ==
    \/ \E t \in Threads : Begin(t) \/ Return(t)
    \/ \E j \in Jobs : Track(j) \/ Finish(j) \/ Forget(j)

Spec == Init /\ [][Next]_<<life, status, kind, out>>

=============================================================================
