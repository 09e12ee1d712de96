----------------------------- MODULE SpawnSync -----------------------------
(***************************************************************************)
(* spawnSync: js_spawn_sync in libuv/qn-uv-process.c.  It runs a child on a *)
(* loop of its own, which lives on the stack, so every handle must be       *)
(* closed before the function returns; sync_loop_cleanup aborts the program *)
(* if one is not.  The exit of the child, the timer, the ends of the output *)
(* pipes and the write of the input come in any order, and each closes      *)
(* handles that another may have closed already.                            *)
(***************************************************************************)
EXTENDS Naturals, FiniteSets

CONSTANT StdioEntries  \* values the program may put into options.stdio

VARIABLES
  stdio,      \* options.stdio
  timeout,    \* options.timeout > 0
  input,      \* options.input is not empty
  at,         \* where js_spawn_sync is
  handle,     \* libuv's view of each handle
  child,      \* the child process
  holders,    \* who has the child's end of each pipe: it, or others it started
  writing,    \* the write request of the input is pending
  timed_out,
  strayKill   \* a signal was sent to a process that was already reaped

ssVars == <<stdio, timeout, input, at, handle, child, holders, writing,
          timed_out, strayKill>>

Pipes == {"stdin", "stdout", "stderr"}
Outputs == {"stdout", "stderr"}
SyncHandles == Pipes \union {"process", "timer", "child_watcher"}

(* parse_stdio_entry: what becomes of an entry.  A handle of a stream is a   *)
(* pipe too, and spawnSync puts a pipe of its own in its place.              *)
StdioFlags(v) ==
  CASE v \in {"pipe", "stream"}               -> "UV_CREATE_PIPE"
    [] v \in {"undefined", "inherit", "fd"}   -> "UV_INHERIT_FD"
    [] OTHER                                  -> "UV_IGNORE"

piped == {p \in Pipes : StdioFlags(stdio[p]) = "UV_CREATE_PIPE"}

SsTypeOK ==
  /\ stdio \in [Pipes -> StdioEntries \union {"undefined"}]
  /\ timeout \in BOOLEAN /\ input \in BOOLEAN
  /\ at \in {"idle", "parse", "uv_run", "cleanup", "returned", "aborted"}
  /\ handle \in [SyncHandles -> {"none", "open", "closing", "closed"}]
  /\ child \in {"none", "running", "zombie", "reaped"}
  /\ holders \in [Pipes -> SUBSET {"child", "other"}]
  /\ writing \in BOOLEAN /\ timed_out \in BOOLEAN /\ strayKill \in BOOLEAN

SsInit ==
  /\ stdio = [p \in Pipes |-> "undefined"]
  /\ timeout = FALSE /\ input = FALSE
  /\ at = "idle"
  /\ handle = [h \in SyncHandles |-> "none"]
  /\ child = "none"
  /\ holders = [p \in Pipes |-> {}]
  /\ writing = FALSE /\ timed_out = FALSE /\ strayKill = FALSE

scenario == <<stdio, timeout, input>>

(* The program calls spawnSync with some options.  *)
CallSpawnSync ==
  /\ at = "idle"
  /\ stdio' \in [Pipes -> StdioEntries] /\ timeout' \in BOOLEAN /\ input' \in BOOLEAN
  /\ at' = "parse"
  /\ UNCHANGED <<handle, child, holders, writing, timed_out, strayKill>>

-----------------------------------------------------------------------------

(* uv_close of the handles in S; libuv asserts that none is closing.  *)
Close(S) ==
  IF \A h \in S : handle[h] = "open"
  THEN handle' = [h \in SyncHandles |-> IF h \in S THEN "closing" ELSE handle[h]]
       /\ UNCHANGED at
  ELSE at' = "aborted" /\ UNCHANGED handle

NotClosing(S) == {h \in S : handle[h] = "open"}

(* uv_spawn succeeded: the pipes, the timer and libuv's SIGCHLD watcher are  *)
(* open, the input is being written or stdin is closed at once.              *)
Spawn ==
  /\ at = "parse"
  /\ at' = "uv_run"
  /\ child' = "running"
  /\ handle' = [h \in SyncHandles |->
                  CASE h = "stdin" /\ h \in piped -> IF input THEN "open" ELSE "closing"
                    [] h \in Outputs \intersect piped -> "open"
                    [] h = "timer" -> IF timeout THEN "open" ELSE "none"
                    [] h \in {"process", "child_watcher"} -> "open"
                    [] OTHER -> "none"]
  /\ \E other \in SUBSET piped :
       holders' = [p \in Pipes |-> (IF p \in piped THEN {"child"} ELSE {})
                                   \union (IF p \in other THEN {"other"} ELSE {})]
  /\ writing' = (input /\ "stdin" \in piped)
  /\ UNCHANGED <<scenario, timed_out, strayKill>>

(* uv_spawn failed: the pipes and the process handle it leaves are closed,   *)
(* then sync_loop_cleanup runs the loop.                                     *)
SpawnFails ==
  /\ at = "parse"
  /\ at' = "cleanup"
  /\ handle' = [h \in SyncHandles |->
                  IF h \in piped \union {"process", "child_watcher"} THEN "closing"
                  ELSE "none"]
  /\ UNCHANGED <<scenario, child, holders, writing, timed_out, strayKill>>

-----------------------------------------------------------------------------
(* The operating system.                                                     *)

(* A process lets go of its end of a pipe; it closes all when it ends.  *)
LetGo(p, who) ==
  /\ who \in holders[p]
  /\ holders' = [holders EXCEPT ![p] = @ \ {who}]
  /\ UNCHANGED <<scenario, at, handle, child, writing, timed_out, strayKill>>

ChildEnds ==
  /\ child = "running"
  /\ child' = "zombie"
  /\ holders' = [p \in Pipes |-> holders[p] \ {"child"}]
  /\ UNCHANGED <<scenario, at, handle, writing, timed_out, strayKill>>

-----------------------------------------------------------------------------
(* The callbacks of the loop.                                                *)

Looping == at \in {"uv_run", "cleanup"}

(* sync_write_cb: the input was read, or nobody is left to read it.  *)
WriteCb ==
  /\ Looping /\ writing
  /\ "child" \in holders["stdin"] \/ holders["stdin"] = {}
  /\ writing' = FALSE
  /\ Close({"stdin"})
  /\ UNCHANGED <<scenario, child, holders, timed_out, strayKill>>

(* sync_read_cb at the end of an output, which comes after all its data.  *)
ReadEof(p) ==
  /\ Looping
  /\ handle[p] = "open" /\ holders[p] = {}
  /\ Close({p})
  /\ UNCHANGED <<scenario, child, holders, writing, timed_out, strayKill>>

(* Mutant: the timer is left to run out.  *)
ExitCbKeepsTimer ==
  /\ Looping /\ handle["process"] = "open"
  /\ child = "zombie"
  /\ child' = "reaped"
  /\ Close({"process"})
  /\ UNCHANGED <<scenario, holders, writing, timed_out, strayKill>>

(* sync_exit_cb.  *)
ExitCb ==
  /\ Looping /\ handle["process"] = "open"
  /\ child = "zombie"
  /\ child' = "reaped"
  /\ Close({"process"} \union NotClosing({"timer"}))
  /\ UNCHANGED <<scenario, holders, writing, timed_out, strayKill>>

(* The handles sync_timer_cb closes; stdin is not among them.  *)
TimerCloses == {"timer"} \union NotClosing(Outputs)

(* sync_timer_cb: the kill may be caught by the child.  *)
TimerCb ==
  /\ Looping /\ handle["timer"] = "open"
  /\ timed_out' = TRUE
  /\ strayKill' = (strayKill \/ child = "reaped")
  /\ \E killed \in BOOLEAN :
       /\ child' = IF child = "running" /\ killed THEN "zombie" ELSE child
       /\ holders' = IF child = "running" /\ killed
                     THEN [p \in Pipes |-> holders[p] \ {"child"}] ELSE holders
  /\ Close(TimerCloses)
  /\ UNCHANGED <<scenario, writing>>

(* sync_close_cb.  *)
CloseCb(h) ==
  /\ Looping
  /\ handle[h] = "closing"
  /\ handle' = [handle EXCEPT ![h] = "closed"]
  /\ UNCHANGED <<scenario, at, child, holders, writing, timed_out, strayKill>>

-----------------------------------------------------------------------------

(* uv_run goes on while a handle is closing or active; a process is active   *)
(* once it was spawned, and libuv unreferences the SIGCHLD watcher.          *)
SsLoopAlive ==
  \/ \E h \in SyncHandles : handle[h] = "closing"
  \/ \E h \in {"timer"} \union Outputs : handle[h] = "open"
  \/ handle["process"] = "open" /\ child # "none"
  \/ writing

(* sync_loop_cleanup: close the watcher and run the loop again.  *)
StartCleanup ==
  /\ at = "uv_run" /\ ~SsLoopAlive
  /\ handle' = [handle EXCEPT !["child_watcher"] = "closing"]
  /\ at' = "cleanup"
  /\ UNCHANGED <<scenario, child, holders, writing, timed_out, strayKill>>

(* uv_loop_close, and the abort when it finds an open handle.  *)
LoopClose ==
  /\ at = "cleanup" /\ ~SsLoopAlive
  /\ at' = IF \A h \in SyncHandles : handle[h] \in {"none", "closed"}
           THEN "returned" ELSE "aborted"
  /\ UNCHANGED <<scenario, handle, child, holders, writing, timed_out, strayKill>>

SsNext ==
  \/ CallSpawnSync \/ Spawn \/ SpawnFails
  \/ ChildEnds \/ \E p \in Pipes, who \in {"child", "other"} : LetGo(p, who)
  \/ WriteCb \/ (\E p \in Outputs : ReadEof(p)) \/ ExitCb \/ TimerCb
  \/ (\E h \in SyncHandles : CloseCb(h))
  \/ StartCleanup \/ LoopClose

(* The loop runs; nothing makes the child or its descendants end, or read    *)
(* their input.                                                              *)
SsFairness ==
  /\ WF_ssVars(holders["stdin"] = {} /\ WriteCb) /\ WF_ssVars(ExitCb) /\ WF_ssVars(TimerCb)
  /\ \A p \in Outputs : WF_ssVars(ReadEof(p))
  /\ \A h \in SyncHandles : WF_ssVars(CloseCb(h))
  /\ WF_ssVars(StartCleanup) /\ WF_ssVars(LoopClose)

-----------------------------------------------------------------------------
(* Properties.                                                               *)

(* In no order of events is a handle closed twice or left open: neither      *)
(* libuv's assertion nor the abort of sync_loop_cleanup is reached.          *)
NeverAborts == at # "aborted"

(* The kill of the timer never goes to a process id that was given back.  *)
NoStrayKill == ~strayKill

(* Without a timeout the call returns only when the child was reaped and     *)
(* nobody can write to the captured outputs: none of it is missing.          *)
OutputIsComplete ==
  at = "returned" /\ ~timed_out /\ child # "none"
    => child = "reaped" /\ \A p \in Outputs \intersect piped : holders[p] = {}

(* After the timeout has killed the child the call returns, however long     *)
(* descendants hold the outputs, if the input was written by then.           *)
TimeoutReturns ==
  (timed_out /\ child # "running" /\ ~writing) ~> (at = "returned")

(* spawnSync in every order of exit, timer, ends of output and input: each   *)
(* handle is closed once, no stranger is killed, and no output is missing.   *)
SpawnSyncInv == SsTypeOK /\ NeverAborts /\ NoStrayKill /\ OutputIsComplete
=============================================================================
