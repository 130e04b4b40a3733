---------------------------- MODULE MCJobProtocol ----------------------------
(***************************************************************************)
(* Model-checking instances of JobProtocol.                                *)
(*                                                                         *)
(* Result retrieval: two callers on job id j1.  t1 makes a DiskManager     *)
(* call (sync or json), or runs a command with id j1 in a container        *)
(* (ContainerClient.raw, whose corex.dispatch job has the uuid j2); t2     *)
(* rebuilds a handle for j1 and calls              *)
(* get(GetTimeout), or dispatches j1 again through system() (a duplicate   *)
(* id while j1 may still be tracked) and gets the handle.                  *)
(*                                                                         *)
(* Streaming: t1 makes a PowerManager call (raw with stream=True, then     *)
(* stream()) on j2; t2 rebuilds a handle for j2 and calls get.             *)
(*                                                                         *)
(* Short client timeout: t1 runs system() on j1 and gets or streams the    *)
(* handle; t2 calls get(GetTimeout) on a rebuilt handle for j1.            *)
(***************************************************************************)
EXTENDS JobProtocol

CONSTANTS t1, t2, j1, j2

GetThreads == {t1, t2}
GetJobs == {j1, j2}
GetJobOf == (t1 :> j1) @@ (t2 :> j1)
GetDispatchOf == (t1 :> j2) @@ (t2 :> j2)
GetCallsOf == (t1 :> DiskManager \cup {"container"}) @@ (t2 :> {"get", "raw"})

StreamThreads == {t1, t2}
StreamJobs == {j2}
StreamJobOf == (t1 :> j2) @@ (t2 :> j2)
\* No container calls in the other instances: the dispatch uuid is unused.
SameJob == (t1 :> j2) @@ (t2 :> j2)
StreamCallsOf == (t1 :> PowerManager) @@ (t2 :> {"get"})

MixedThreads == {t1, t2}
MixedJobs == {j1}
MixedJobOf == (t1 :> j1) @@ (t2 :> j1)
MixedCallsOf == (t1 :> SystemCalls) @@ (t2 :> {"get"})
=============================================================================
