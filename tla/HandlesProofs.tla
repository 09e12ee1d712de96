--------------------------- MODULE HandlesProofs ---------------------------
(***************************************************************************)
(* Safety of the handle modules, for any number of processes, sockets,      *)
(* terminals, watchers and signal handlers, any number of sends and any     *)
(* descriptors.  Each kind has an inductive invariant, a statement about    *)
(* one struct where the structs of the kind do not touch each other, and a  *)
(* lemma for every action; the theorems at the end put them together for    *)
(* the runtime with its shutdown.                                           *)
(***************************************************************************)
EXTENDS Handles, TLAPS

-----------------------------------------------------------------------------
(* spawn_setsid.                                                             *)

SetsidRecord ==
  [at : {"idle", "options", "fork", "exception", "parent", "returned", "thrown"},
   child : {"none", "redirect", "exec", "running", "exited"},
   held : SUBSET {"exec_argv", "cwd", "alloc_envp"},
   std_fds : [Std -> Fds], next : 0..3]

(* Number i was redirected: it has the file that was asked for, unless the   *)
(* number that named it had been redirected before.                          *)
RedirectDone(i) ==
  /\ ~Overwritten(i) => table[i] \in {call.std_fds[i], None}
  /\ call.std_fds[i] # i => table[i] # None

(* While the child redirects, the numbers below next are done and every      *)
(* number that was not redirected still names the parent's file.             *)
RedirectInv ==
  call.child = "redirect" =>
    /\ \A i \in Std : i < call.next => RedirectDone(i)
    /\ \A fd \in Fds : ~(fd \in Std /\ fd < call.next /\ call.std_fds[fd] # fd)
                       => table[fd] \in {fd, None}

SetsidIInv ==
  /\ call \in SetsidRecord
  /\ table \in [Fds -> Fds \union {None}]
  /\ call.at \in {"idle", "returned", "thrown"} => call.held = {}
  /\ call.at \notin {"parent", "returned"} => call.child = "none"
  /\ call.child = "none" => call.next = 0
  /\ RedirectInv
  /\ call.child \in {"exec", "running"} =>
       /\ \A i \in Std : RedirectDone(i)
       /\ \A fd \in 3..(CloseLimit - 1) : fd \in Fds => table[fd] = None

LEMMA StdFacts == Std \subseteq Fds /\ None \notin Fds /\ Std = {0, 1, 2} /\ Fds \subseteq Nat
  BY SetsidAssumption DEF Std, Fds, None

LEMMA SetsidInitIInv == SetsidInit => SetsidIInv
<1> SUFFICES ASSUME SetsidInit PROVE SetsidIInv
  OBVIOUS
<1>1. [i \in Std |-> i] \in [Std -> Fds]
  BY StdFacts
<1>2. call \in SetsidRecord
  BY <1>1 DEF SetsidInit, SetsidRecord
<1>3. table \in [Fds -> Fds \union {None}]
  BY DEF SetsidInit
<1> QED BY <1>2, <1>3 DEF SetsidInit, SetsidIInv, RedirectInv

(* The steps of the parent before the fork, and after.  *)
LEMMA SetsidParentKeeps ==
  SetsidIInv /\ (SetsidArgs \/ SetsidOptions \/ SetsidException \/ SetsidReturn) => SetsidIInv'
<1> SUFFICES ASSUME SetsidIInv, SetsidArgs \/ SetsidOptions \/ SetsidException \/ SetsidReturn
             PROVE  SetsidIInv'
  OBVIOUS
<1>1. CASE SetsidArgs
  BY <1>1 DEF SetsidArgs, SetsidIInv, SetsidRecord, RedirectInv
<1>2. CASE SetsidOptions
  <2>1. PICK std \in [Std -> Fds], opts \in SUBSET {"cwd", "alloc_envp"} :
          call' \in {[call EXCEPT !.at = "fork", !.std_fds = std, !.held = call.held \union opts],
                     [call EXCEPT !.at = "exception", !.held = call.held \union opts]}
    BY <1>2 DEF SetsidOptions
  <2> DEFINE h == call.held \union opts
  <2>2. h \in SUBSET {"exec_argv", "cwd", "alloc_envp"}
    BY DEF SetsidIInv, SetsidRecord
  <2> HIDE DEF h
  <2>3. call' \in SetsidRecord
    BY <2>1, <2>2 DEF SetsidIInv, SetsidRecord, h
  <2>4. call'.child = "none" /\ call'.next = call.next /\ call'.at \in {"fork", "exception"}
    BY <1>2, <2>1 DEF SetsidOptions, SetsidIInv, SetsidRecord
  <2> QED BY <1>2, <2>3, <2>4 DEF SetsidOptions, SetsidIInv, RedirectInv
<1>3. CASE SetsidException
  BY <1>3 DEF SetsidException, SetsidIInv, SetsidRecord, RedirectInv
<1>4. CASE SetsidReturn
  <2>1. call' \in SetsidRecord /\ table' = table
    BY <1>4 DEF SetsidReturn, SetsidIInv, SetsidRecord
  <2>2. call'.child = call.child /\ call'.next = call.next /\ call'.std_fds = call.std_fds
        /\ call'.at = "returned" /\ call'.held = {}
    BY <1>4 DEF SetsidReturn, SetsidIInv, SetsidRecord
  <2> QED BY <2>1, <2>2 DEF SetsidIInv, RedirectInv, RedirectDone, Overwritten
<1> QED BY <1>1, <1>2, <1>3, <1>4

LEMMA SetsidForkKeeps == SetsidIInv /\ SetsidFork => SetsidIInv'
<1> SUFFICES ASSUME SetsidIInv, SetsidFork PROVE SetsidIInv'
  OBVIOUS
<1>0. call.at = "fork" /\ call.child = "none" /\ call.next = 0
  BY DEF SetsidFork, SetsidIInv
<1>1. CASE call' = [call EXCEPT !.at = "exception"] /\ UNCHANGED table
  BY <1>0, <1>1 DEF SetsidIInv, SetsidRecord, RedirectInv
<1>2. CASE \E open \in SUBSET Fds :
             /\ table' = [fd \in Fds |-> IF fd \in open THEN fd ELSE None]
             /\ call' = [call EXCEPT !.at = "parent", !.child = "redirect"]
  <2>1. call' \in SetsidRecord /\ call'.next = 0 /\ call'.child = "redirect"
        /\ call'.at = "parent"
    BY <1>0, <1>2 DEF SetsidIInv, SetsidRecord
  <2>2. table' \in [Fds -> Fds \union {None}] /\ \A fd \in Fds : table'[fd] \in {fd, None}
    BY <1>2
  <2>3. \A i \in Std : ~(i < 0)
    BY DEF Std
  <2> QED BY <2>1, <2>2, <2>3 DEF SetsidIInv, RedirectInv
<1> QED BY <1>1, <1>2 DEF SetsidFork

LEMMA RedirectKeeps == SetsidIInv /\ Redirect => SetsidIInv'
<1> SUFFICES ASSUME SetsidIInv, Redirect PROVE SetsidIInv'
  OBVIOUS
<1>a. PICK i \in Std : i = call.next
  BY DEF Redirect
<1>b. PICK s \in Fds : s = call.std_fds[i]
  BY StdFacts DEF SetsidIInv, SetsidRecord
<1> DEFINE n == i + 1
<1>0. call \in SetsidRecord /\ call.child = "redirect" /\ i \in Std /\ s \in Fds /\ i \in Fds
      /\ table \in [Fds -> Fds \union {None}] /\ call.at \in {"parent", "returned"}
  BY StdFacts, <1>a, <1>b DEF Redirect, SetsidIInv, SetsidRecord
<1>1. n \in 0..3 /\ \A j \in Std : j < n <=> (j < i \/ j = i)
  BY <1>0 DEF Std
<1>2. CASE call.std_fds[call.next] = call.next
           /\ call' = [call EXCEPT !.next = call.next + 1] /\ UNCHANGED table
  <2>1. call' = [call EXCEPT !.next = n] /\ table' = table /\ s = i
    BY <1>2, <1>a, <1>b
  <2> HIDE DEF n
  <2>2. call' \in SetsidRecord /\ call'.next = n /\ call'.std_fds = call.std_fds
        /\ call'.child = call.child /\ call'.at = call.at /\ call'.held = call.held
    BY <2>1, <1>0, <1>1 DEF SetsidRecord
  <2>3. table[i] \in {i, None}
    BY <1>0, <1>a, <1>b, <2>1 DEF SetsidIInv, RedirectInv
  <2>4. \A j \in Std : j < n => RedirectDone(j)'
    BY <1>0, <1>a, <1>b, <1>1, <2>1, <2>2, <2>3 DEF SetsidIInv, RedirectInv, RedirectDone, Overwritten
  <2>5. \A fd \in Fds : ~(fd \in Std /\ fd < n /\ call.std_fds[fd] # fd) => table[fd] \in {fd, None}
    BY <1>0, <1>a, <1>b, <1>1, <2>3 DEF SetsidIInv, RedirectInv
  <2> QED BY <1>0, <2>1, <2>2, <2>4, <2>5 DEF SetsidIInv, RedirectInv
<1>3. CASE call.std_fds[call.next] # call.next /\ table[call.std_fds[call.next]] # None
           /\ table' = Dup2(call.next) /\ call' = [call EXCEPT !.next = call.next + 1]
  <2>1. call' = [call EXCEPT !.next = n] /\ table' = [table EXCEPT ![i] = table[s]]
        /\ s # i /\ table[s] # None
    BY <1>3, <1>a, <1>b DEF Dup2
  <2> HIDE DEF n
  <2>2. call' \in SetsidRecord /\ call'.next = n /\ call'.std_fds = call.std_fds
        /\ call'.child = call.child /\ call'.at = call.at /\ call'.held = call.held
    BY <2>1, <1>0, <1>1 DEF SetsidRecord
  <2>3. table' \in [Fds -> Fds \union {None}] /\ table'[i] = table[s]
        /\ \A fd \in Fds : fd # i => table'[fd] = table[fd]
    BY <2>1, <1>0
  <2>4. ~Overwritten(i) => table[s] \in {s, None}
    <3>1. SUFFICES ASSUME ~Overwritten(i) PROVE ~(s \in Std /\ s < i /\ call.std_fds[s] # s)
      BY <1>0, <1>a, <1>b DEF SetsidIInv, RedirectInv
    <3> QED BY <1>b, <3>1 DEF Overwritten
  <2>5. RedirectDone(i)'
    BY <1>0, <1>b, <2>1, <2>2, <2>3, <2>4 DEF RedirectDone, Overwritten
  <2>6. ASSUME NEW j \in Std, j < i PROVE RedirectDone(j)'
    <3>1. RedirectDone(j) /\ j # i /\ j \in Fds
      BY <1>0, <1>a, <2>6, StdFacts DEF SetsidIInv, RedirectInv
    <3> QED BY <3>1, <2>2, <2>3 DEF RedirectDone, Overwritten
  <2>7. \A j \in Std : j < n => RedirectDone(j)'
    BY <1>1, <2>5, <2>6
  <2>8. \A fd \in Fds : ~(fd \in Std /\ fd < n /\ call.std_fds[fd] # fd) => table'[fd] \in {fd, None}
    BY <1>0, <1>a, <1>b, <1>1, <2>1, <2>3 DEF SetsidIInv, RedirectInv
  <2> QED BY <1>0, <2>2, <2>3, <2>7, <2>8 DEF SetsidIInv, RedirectInv
<1>4. CASE call' = [call EXCEPT !.child = "exited"] /\ UNCHANGED table
  BY <1>0, <1>4 DEF SetsidIInv, SetsidRecord, RedirectInv
<1> QED BY <1>2, <1>3, <1>4 DEF Redirect

LEMMA CloseOthersKeeps == SetsidIInv /\ CloseOthers => SetsidIInv'
<1> SUFFICES ASSUME SetsidIInv, CloseOthers PROVE SetsidIInv'
  OBVIOUS
<1>0. call \in SetsidRecord /\ call.child = "redirect" /\ call.next \notin Std
      /\ table \in [Fds -> Fds \union {None}]
  BY DEF CloseOthers, SetsidIInv
<1>1. \A i \in Std : i < call.next
  BY <1>0, StdFacts DEF SetsidRecord
<1>2. \A i \in Std : RedirectDone(i)
  BY <1>0, <1>1 DEF SetsidIInv, RedirectInv
<1>3. call' \in SetsidRecord /\ call'.std_fds = call.std_fds /\ call'.child = "exec"
      /\ call'.at = call.at /\ call'.held = call.held
  BY <1>0 DEF CloseOthers, SetsidRecord
<1>4. /\ table' \in [Fds -> Fds \union {None}]
      /\ \A i \in Std : table'[i] = table[i]
      /\ \A fd \in 3..(CloseLimit - 1) : fd \in Fds => table'[fd] = None
  <2>1. \A i \in Std : i \in Fds /\ i \notin 3..(CloseLimit - 1)
    BY StdFacts
  <2> QED BY <1>0, <2>1 DEF CloseOthers
<1>5. \A i \in Std : RedirectDone(i)'
  BY <1>2, <1>3, <1>4 DEF RedirectDone, Overwritten
<1> QED BY <1>0, <1>3, <1>4, <1>5 DEF SetsidIInv, RedirectInv

LEMMA ExecChildKeeps == SetsidIInv /\ ExecChild => SetsidIInv'
<1> SUFFICES ASSUME SetsidIInv, ExecChild PROVE SetsidIInv'
  OBVIOUS
<1>1. call' \in SetsidRecord /\ call'.std_fds = call.std_fds /\ call'.child \in {"running", "exited"}
      /\ call'.at = call.at /\ call'.held = call.held /\ table' = table /\ call.child = "exec"
  BY DEF ExecChild, SetsidIInv, SetsidRecord
<1> QED BY <1>1 DEF SetsidIInv, RedirectInv, RedirectDone, Overwritten

LEMMA SetsidNextKeeps == SetsidIInv /\ SetsidNext => SetsidIInv'
  BY SetsidParentKeeps, SetsidForkKeeps, RedirectKeeps, CloseOthersKeeps, ExecChildKeeps
     DEF SetsidNext

LEMMA SetsidStutter == SetsidIInv /\ UNCHANGED setsidVars => SetsidIInv'
  BY DEF SetsidIInv, setsidVars, RedirectInv, RedirectDone, Overwritten

LEMMA SetsidIInvImplies == SetsidIInv => SetsidInv
<1> SUFFICES ASSUME SetsidIInv PROVE SetsidInv
  OBVIOUS
<1>1. SetsidTypeOK
  BY DEF SetsidIInv, SetsidTypeOK, SetsidRecord
<1>2. ChildHasItsStdio
  BY DEF SetsidIInv, ChildHasItsStdio, RedirectDone
<1>3. SetsidFreesAll
  BY DEF SetsidIInv, SetsidFreesAll
<1> QED BY <1>1, <1>2, <1>3 DEF SetsidInv

-----------------------------------------------------------------------------
(* spawnSync.                                                                *)

(* Before uv_spawn nothing is open; a loop that runs has a child; once the   *)
(* loop has run out only closing handles are left.                           *)
SsStageInv ==
  /\ at # "aborted"
  /\ at \in {"idle", "parse"} => child = "none" /\ \A h \in SyncHandles : handle[h] = "none"
  /\ at = "uv_run" => child # "none"
  /\ child = "none" =>
       /\ \A h \in SyncHandles : handle[h] # "open"
       /\ \A p \in Pipes : holders[p] = {}
  /\ at \in {"cleanup", "returned"} =>
       child \in {"none", "reaped"} /\ \A h \in SyncHandles : handle[h] # "open"

(* Each handle is open exactly while what closes it is still to come.  *)
SsHandleInv ==
  /\ handle["process"] = "open" <=> child \in {"running", "zombie"}
  /\ child = "reaped" => handle["timer"] # "open"
  /\ writing <=> handle["stdin"] = "open"
  /\ at = "uv_run" => handle["child_watcher"] = "open"
  /\ child # "none" => \A p \in Outputs \intersect piped :
       handle[p] = "open" \/ timed_out \/ holders[p] = {}

SsIInv == SsTypeOK /\ ~strayKill /\ SsStageInv /\ SsHandleInv

LEMMA SsHandles ==
  /\ SyncHandles = {"stdin", "stdout", "stderr", "process", "timer", "child_watcher"}
  /\ Pipes \subseteq SyncHandles /\ Outputs \subseteq Pipes /\ "stdin" \notin Outputs
  BY DEF SyncHandles, Pipes, Outputs

LEMMA CloseOfOpen ==
  ASSUME NEW S, \A h \in S : handle[h] = "open", Close(S)
  PROVE  /\ at' = at
         /\ handle' = [h \in SyncHandles |-> IF h \in S THEN "closing" ELSE handle[h]]
  BY DEF Close

LEMMA SsInitIInv == SsInit => SsIInv
<1> SUFFICES ASSUME SsInit PROVE SsIInv
  OBVIOUS
<1>1. SsTypeOK
  BY DEF SsInit, SsTypeOK
<1> QED BY <1>1, SsHandles DEF SsInit, SsIInv, SsStageInv, SsHandleInv

LEMMA SsCallKeeps == SsIInv /\ CallSpawnSync => SsIInv'
<1> SUFFICES ASSUME SsIInv, CallSpawnSync PROVE SsIInv'
  OBVIOUS
<1>1. stdio' \in [Pipes -> StdioEntries \union {"undefined"}]
  BY DEF CallSpawnSync
<1>2. SsTypeOK'
  BY <1>1 DEF CallSpawnSync, SsIInv, SsTypeOK
<1> QED BY <1>2 DEF CallSpawnSync, SsIInv, SsStageInv, SsHandleInv

LEMMA SpawnKeeps == SsIInv /\ Spawn => SsIInv'
<1> SUFFICES ASSUME SsIInv, Spawn PROVE SsIInv'
  OBVIOUS
<1>1. UNCHANGED <<stdio, timeout, input, timed_out, strayKill>> /\ at = "parse" /\ at' = "uv_run"
      /\ child' = "running" /\ piped' = piped /\ piped \subseteq Pipes
  BY DEF Spawn, scenario, piped
<1>2. writing' = (input /\ "stdin" \in piped) /\ writing' \in BOOLEAN
  BY DEF Spawn, SsIInv, SsTypeOK
<1>3. holders' \in [Pipes -> SUBSET {"child", "other"}]
  <2>1. PICK other \in SUBSET piped :
          holders' = [p \in Pipes |-> (IF p \in piped THEN {"child"} ELSE {})
                                      \union (IF p \in other THEN {"other"} ELSE {})]
    BY DEF Spawn
  <2> QED BY <2>1
<1>4. /\ handle' \in [SyncHandles -> {"none", "open", "closing", "closed"}]
      /\ handle'["stdin"] = "open" <=> (input /\ "stdin" \in piped)
      /\ \A p \in Outputs \intersect piped : handle'[p] = "open"
      /\ handle'["process"] = "open" /\ handle'["child_watcher"] = "open"
  <2>1. handle' = [h \in SyncHandles |->
                     CASE h = "stdin" /\ h \in piped -> IF input THEN "open" ELSE "closing"
                       [] h \in Outputs \intersect piped -> "open"
                       [] h = "timer" -> IF timeout THEN "open" ELSE "none"
                       [] h \in {"process", "child_watcher"} -> "open"
                       [] OTHER -> "none"]
    BY DEF Spawn
  <2>2. handle' \in [SyncHandles -> {"none", "open", "closing", "closed"}]
    BY <2>1 DEF Outputs
  <2>3. handle'["stdin"] = "open" <=> (input /\ "stdin" \in piped)
    BY <2>1, SsHandles
  <2>4. \A p \in Outputs \intersect piped : handle'[p] = "open"
    <3> SUFFICES ASSUME NEW p \in Outputs, p \in piped PROVE handle'[p] = "open"
      OBVIOUS
    <3>1. p \in SyncHandles /\ p \in Outputs \intersect piped
          /\ p \notin {"stdin", "timer", "process", "child_watcher"}
      BY SsHandles DEF Outputs
    <3> QED BY <2>1, <3>1
  <2>5. handle'["process"] = "open" /\ handle'["child_watcher"] = "open"
    BY <2>1, SsHandles DEF Outputs
  <2> QED BY <2>2, <2>3, <2>4, <2>5
<1>5. SsTypeOK'
  BY <1>1, <1>2, <1>3, <1>4 DEF SsIInv, SsTypeOK
<1>6. SsStageInv'
  BY <1>1 DEF SsStageInv
<1>7. SsHandleInv'
  BY <1>1, <1>2, <1>4 DEF SsHandleInv
<1> QED BY <1>1, <1>5, <1>6, <1>7 DEF SsIInv

LEMMA SpawnFailsKeeps == SsIInv /\ SpawnFails => SsIInv'
<1> SUFFICES ASSUME SsIInv, SpawnFails PROVE SsIInv'
  OBVIOUS
<1>1. UNCHANGED <<stdio, timeout, input, child, holders, writing, timed_out, strayKill>>
      /\ at = "parse" /\ at' = "cleanup" /\ child = "none" /\ ~writing
      /\ \A p \in Pipes : holders[p] = {}
  BY SsHandles DEF SpawnFails, scenario, SsIInv, SsStageInv, SsHandleInv
<1>2. handle' \in [SyncHandles -> {"none", "open", "closing", "closed"}]
      /\ \A h \in SyncHandles : handle'[h] # "open"
  BY DEF SpawnFails
<1>3. SsTypeOK'
  BY <1>1, <1>2 DEF SsIInv, SsTypeOK
<1> QED BY <1>1, <1>2, <1>3, SsHandles DEF SsIInv, SsStageInv, SsHandleInv

(* A step that closes open handles while the child is as it was, or ends.    *)
LEMMA SsCloseKeeps ==
  ASSUME SsIInv, NEW S \in SUBSET (SyncHandles \ {"process", "child_watcher"}),
         \A h \in S : handle[h] = "open",
         handle' = [h \in SyncHandles |-> IF h \in S THEN "closing" ELSE handle[h]],
         at' = at, UNCHANGED scenario, strayKill' = strayKill,
         timed_out' \in BOOLEAN, timed_out => timed_out', writing' \in BOOLEAN,
         writing' <=> (writing /\ "stdin" \notin S),
         child' = child \/ (child = "running" /\ child' = "zombie"),
         holders' \in [Pipes -> SUBSET {"child", "other"}],
         \A p \in Pipes : holders'[p] \subseteq holders[p],
         \A p \in S \intersect Outputs : timed_out' \/ holders'[p] = {}
  PROVE  SsIInv'
<1>1. UNCHANGED <<stdio, timeout, input>> /\ piped' = piped
  BY DEF scenario, piped
<1>2. handle' \in [SyncHandles -> {"none", "open", "closing", "closed"}]
      /\ (\A h \in SyncHandles : handle'[h] = "open" <=> (handle[h] = "open" /\ h \notin S))
      /\ (\A h \in SyncHandles : h \notin S => handle'[h] = handle[h])
  BY DEF SsIInv, SsTypeOK
<1>3. SsTypeOK'
  BY <1>1, <1>2 DEF SsIInv, SsTypeOK
<1>4. SsStageInv'
  <2>1. ASSUME at \in {"idle", "parse"} PROVE child' = "none" /\ \A h \in SyncHandles : handle[h] = "none"
    BY <2>1 DEF SsIInv, SsStageInv
  <2>2. ASSUME at \in {"idle", "parse"}, NEW h \in SyncHandles PROVE handle'[h] = "none"
    BY <2>1, <2>2, <1>2
  <2> QED BY <2>1, <2>2, <1>2 DEF SsIInv, SsStageInv
<1>5. SsHandleInv'
  <2>1. handle'["process"] = handle["process"] /\ handle'["child_watcher"] = handle["child_watcher"]
    BY <1>2, SsHandles
  <2>2. handle'["timer"] = "open" => handle["timer"] = "open"
    BY <1>2, SsHandles
  <2>3. writing' <=> handle'["stdin"] = "open"
    BY <1>2, SsHandles DEF SsIInv, SsHandleInv
  <2>4. ASSUME child' # "none", NEW p \in Outputs \intersect piped
        PROVE  handle'[p] = "open" \/ timed_out' \/ holders'[p] = {}
    <3>1. handle[p] = "open" \/ timed_out \/ holders[p] = {}
      BY <2>4 DEF SsIInv, SsHandleInv
    <3>2. p \in SyncHandles /\ p \in Pipes
      BY SsHandles
    <3> QED BY <3>1, <3>2, <1>2
  <2> QED BY <1>1, <2>1, <2>2, <2>3, <2>4 DEF SsIInv, SsHandleInv
<1> QED BY <1>3, <1>4, <1>5 DEF SsIInv

LEMMA LetGoKeeps ==
  ASSUME SsIInv, NEW p \in Pipes, NEW who \in {"child", "other"}, LetGo(p, who)
  PROVE  SsIInv'
<1>1. holders' \in [Pipes -> SUBSET {"child", "other"}]
      /\ \A q \in Pipes : holders'[q] \subseteq holders[q]
  BY DEF LetGo, SsIInv, SsTypeOK
<1>2. handle' = [h \in SyncHandles |-> IF h \in {} THEN "closing" ELSE handle[h]]
  BY DEF LetGo, SsIInv, SsTypeOK
<1>3. {} \in SUBSET (SyncHandles \ {"process", "child_watcher"}) /\ "stdin" \notin {}
      /\ \A h \in {} : handle[h] = "open"
  OBVIOUS
<1>4. at' = at /\ UNCHANGED scenario /\ strayKill' = strayKill /\ timed_out' = timed_out
      /\ writing' = writing /\ timed_out \in BOOLEAN /\ writing \in BOOLEAN
      /\ (child' = child \/ (child = "running" /\ child' = "zombie"))
  BY DEF LetGo, SsIInv, SsTypeOK
<1>5. \A q \in {} \intersect Outputs : timed_out' \/ holders'[q] = {}
  OBVIOUS
<1> QED BY <1>1, <1>2, <1>3, <1>4, <1>5, SsCloseKeeps

LEMMA ChildEndsKeeps == SsIInv /\ ChildEnds => SsIInv'
<1> SUFFICES ASSUME SsIInv, ChildEnds PROVE SsIInv'
  OBVIOUS
<1>1. holders' \in [Pipes -> SUBSET {"child", "other"}]
      /\ \A q \in Pipes : holders'[q] \subseteq holders[q]
  BY DEF ChildEnds, SsIInv, SsTypeOK
<1>2. handle' = [h \in SyncHandles |-> IF h \in {} THEN "closing" ELSE handle[h]]
  BY DEF ChildEnds, SsIInv, SsTypeOK
<1>3. {} \in SUBSET (SyncHandles \ {"process", "child_watcher"}) /\ "stdin" \notin {}
      /\ \A h \in {} : handle[h] = "open"
  OBVIOUS
<1>4. at' = at /\ UNCHANGED scenario /\ strayKill' = strayKill /\ timed_out' = timed_out
      /\ writing' = writing /\ timed_out \in BOOLEAN /\ writing \in BOOLEAN
      /\ (child' = child \/ (child = "running" /\ child' = "zombie"))
  BY DEF ChildEnds, SsIInv, SsTypeOK
<1>5. \A q \in {} \intersect Outputs : timed_out' \/ holders'[q] = {}
  OBVIOUS
<1> QED BY <1>1, <1>2, <1>3, <1>4, <1>5, SsCloseKeeps

LEMMA WriteCbKeeps == SsIInv /\ WriteCb => SsIInv'
<1> SUFFICES ASSUME SsIInv, WriteCb PROVE SsIInv'
  OBVIOUS
<1> DEFINE S == {"stdin"}
<1>1. \A h \in S : handle[h] = "open"
  BY DEF WriteCb, SsIInv, SsHandleInv
<1>2. at' = at /\ handle' = [h \in SyncHandles |-> IF h \in S THEN "closing" ELSE handle[h]]
  BY <1>1, CloseOfOpen DEF WriteCb
<1>3. S \in SUBSET (SyncHandles \ {"process", "child_watcher"}) /\ S \intersect Outputs = {}
  BY SsHandles
<1> QED BY <1>1, <1>2, <1>3, SsCloseKeeps DEF WriteCb, SsIInv, SsTypeOK

LEMMA ReadEofKeeps ==
  ASSUME SsIInv, NEW p \in Outputs, ReadEof(p) PROVE SsIInv'
<1> DEFINE S == {p}
<1>1. \A h \in S : handle[h] = "open"
  BY DEF ReadEof
<1>2. at' = at /\ handle' = [h \in SyncHandles |-> IF h \in S THEN "closing" ELSE handle[h]]
  BY <1>1, CloseOfOpen DEF ReadEof
<1>3. S \in SUBSET (SyncHandles \ {"process", "child_watcher"}) /\ "stdin" \notin S
  BY SsHandles DEF Outputs
<1> QED BY <1>1, <1>2, <1>3, SsCloseKeeps DEF ReadEof, SsIInv, SsTypeOK

LEMMA TimerCbKeeps == SsIInv /\ TimerCb => SsIInv'
<1> SUFFICES ASSUME SsIInv, TimerCb PROVE SsIInv'
  OBVIOUS
<1> DEFINE S == TimerCloses
<1>1. \A h \in S : handle[h] = "open"
  BY DEF TimerCb, TimerCloses, NotClosing
<1>2. at' = at /\ handle' = [h \in SyncHandles |-> IF h \in S THEN "closing" ELSE handle[h]]
  BY <1>1, CloseOfOpen DEF TimerCb
<1>3. S \in SUBSET (SyncHandles \ {"process", "child_watcher"}) /\ "stdin" \notin S
  BY SsHandles DEF TimerCloses, NotClosing, Outputs
<1>4. strayKill' = strayKill
  BY DEF TimerCb, SsIInv, SsTypeOK, SsHandleInv
<1>5. child' = child \/ (child = "running" /\ child' = "zombie")
  BY DEF TimerCb
<1>6. holders' \in [Pipes -> SUBSET {"child", "other"}]
      /\ \A q \in Pipes : holders'[q] \subseteq holders[q]
  BY DEF TimerCb, SsIInv, SsTypeOK
<1>7. timed_out' = TRUE /\ writing' = writing /\ UNCHANGED scenario /\ writing \in BOOLEAN
  BY DEF TimerCb, SsIInv, SsTypeOK
<1> HIDE DEF S
<1> QED BY <1>1, <1>2, <1>3, <1>4, <1>5, <1>6, <1>7, SsCloseKeeps

LEMMA ExitCbKeeps == SsIInv /\ ExitCb => SsIInv'
<1> SUFFICES ASSUME SsIInv, ExitCb PROVE SsIInv'
  OBVIOUS
<1> DEFINE S == {"process"} \union NotClosing({"timer"})
<1>1. \A h \in S : handle[h] = "open"
  BY DEF ExitCb, NotClosing
<1>2. at' = at /\ handle' = [h \in SyncHandles |-> IF h \in S THEN "closing" ELSE handle[h]]
  BY <1>1, CloseOfOpen DEF ExitCb
<1>3. child = "zombie" /\ child' = "reaped" /\ piped' = piped
      /\ UNCHANGED <<stdio, timeout, input, holders, writing, timed_out, strayKill>>
  BY DEF ExitCb, scenario, piped
<1>4. /\ handle' \in [SyncHandles -> {"none", "open", "closing", "closed"}]
      /\ handle'["process"] # "open" /\ handle'["timer"] # "open"
      /\ \A h \in SyncHandles \ {"process", "timer"} : handle'[h] = handle[h]
  BY <1>2, SsHandles DEF SsIInv, SsTypeOK, NotClosing
<1>5. SsTypeOK'
  BY <1>2, <1>3, <1>4 DEF SsIInv, SsTypeOK
<1>6. at = "uv_run"
  BY <1>3 DEF SsIInv, SsTypeOK, SsStageInv, ExitCb, Looping
<1>7. SsStageInv'
  BY <1>2, <1>3, <1>6 DEF SsStageInv
<1>8. SsHandleInv'
  <2>1. handle'["stdin"] = handle["stdin"] /\ handle'["child_watcher"] = handle["child_watcher"]
        /\ \A p \in Outputs : handle'[p] = handle[p]
    BY <1>4, SsHandles DEF Outputs
  <2> QED BY <2>1, <1>2, <1>3, <1>4 DEF SsIInv, SsHandleInv
<1> QED BY <1>3, <1>5, <1>7, <1>8 DEF SsIInv

LEMMA CloseCbKeeps ==
  ASSUME SsIInv, NEW h \in SyncHandles, CloseCb(h) PROVE SsIInv'
<1>1. UNCHANGED <<stdio, timeout, input, at, child, holders, writing, timed_out, strayKill>>
      /\ piped' = piped /\ at \in {"uv_run", "cleanup"}
  BY DEF CloseCb, scenario, piped, Looping
<1>2. handle' \in [SyncHandles -> {"none", "open", "closing", "closed"}]
      /\ \A g \in SyncHandles : handle'[g] = "open" <=> handle[g] = "open"
  BY DEF CloseCb, SsIInv, SsTypeOK
<1>3. SsTypeOK'
  BY <1>1, <1>2 DEF SsIInv, SsTypeOK
<1>4. SsStageInv'
  BY <1>1, <1>2 DEF SsIInv, SsStageInv
<1>5. SsHandleInv'
  BY <1>1, <1>2, SsHandles DEF SsIInv, SsHandleInv
<1> QED BY <1>1, <1>3, <1>4, <1>5 DEF SsIInv

LEMMA StartCleanupKeeps == SsIInv /\ StartCleanup => SsIInv'
<1> SUFFICES ASSUME SsIInv, StartCleanup PROVE SsIInv'
  OBVIOUS
<1>1. UNCHANGED <<stdio, timeout, input, child, holders, writing, timed_out, strayKill>>
      /\ piped' = piped /\ at = "uv_run" /\ at' = "cleanup"
  BY DEF StartCleanup, scenario, piped
<1>2. child = "reaped" /\ ~writing
  BY DEF StartCleanup, SsLoopAlive, SsIInv, SsTypeOK, SsStageInv, SsHandleInv
<1>3. \A h \in SyncHandles \ {"child_watcher"} : handle[h] # "open"
  BY <1>2, SsHandles DEF StartCleanup, SsLoopAlive, SsIInv, SsHandleInv, Outputs
<1>4. handle' \in [SyncHandles -> {"none", "open", "closing", "closed"}]
      /\ (\A h \in SyncHandles \ {"child_watcher"} : handle'[h] = handle[h])
      /\ handle'["child_watcher"] = "closing"
  BY SsHandles DEF StartCleanup, SsIInv, SsTypeOK
<1>5. \A h \in SyncHandles : handle'[h] # "open"
  BY <1>3, <1>4
<1>6. SsTypeOK'
  BY <1>1, <1>4 DEF SsIInv, SsTypeOK
<1>7. SsStageInv'
  BY <1>1, <1>2, <1>5 DEF SsIInv, SsStageInv
<1>8. SsHandleInv'
  <2>1. ASSUME NEW p \in Outputs \intersect piped PROVE timed_out \/ holders[p] = {}
    BY <1>2, <1>3, SsHandles DEF SsIInv, SsHandleInv, Outputs
  <2> QED BY <1>1, <1>2, <1>5, <2>1, SsHandles DEF SsHandleInv
<1> QED BY <1>1, <1>6, <1>7, <1>8 DEF SsIInv

LEMMA LoopCloseKeeps == SsIInv /\ LoopClose => SsIInv'
<1> SUFFICES ASSUME SsIInv, LoopClose PROVE SsIInv'
  OBVIOUS
<1>1. UNCHANGED <<stdio, timeout, input, handle, child, holders, writing, timed_out, strayKill>>
      /\ piped' = piped /\ at = "cleanup"
  BY DEF LoopClose, scenario, piped
<1>2. \A h \in SyncHandles : handle[h] \in {"none", "closed"}
  BY <1>1 DEF LoopClose, SsLoopAlive, SsIInv, SsTypeOK, SsStageInv
<1>3. at' = "returned"
  BY <1>2 DEF LoopClose
<1> QED BY <1>1, <1>3 DEF SsIInv, SsTypeOK, SsStageInv, SsHandleInv

LEMMA SsNextKeeps == SsIInv /\ SsNext => SsIInv'
  BY SsCallKeeps, SpawnKeeps, SpawnFailsKeeps, ChildEndsKeeps, LetGoKeeps, WriteCbKeeps,
     ReadEofKeeps, ExitCbKeeps, TimerCbKeeps, CloseCbKeeps, StartCleanupKeeps, LoopCloseKeeps
     DEF SsNext

LEMMA SsStutter == SsIInv /\ UNCHANGED ssVars => SsIInv'
<1> SUFFICES ASSUME SsIInv, UNCHANGED ssVars PROVE SsIInv'
  OBVIOUS
<1>1. piped' = piped
  BY DEF piped, ssVars
<1> QED BY <1>1 DEF SsIInv, SsTypeOK, SsStageInv, SsHandleInv, ssVars

LEMMA SsIInvImplies == SsIInv => SpawnSyncInv
<1> SUFFICES ASSUME SsIInv PROVE SpawnSyncInv
  OBVIOUS
<1>1. OutputIsComplete
  <2> SUFFICES ASSUME at = "returned", ~timed_out, child # "none"
               PROVE  child = "reaped" /\ \A p \in Outputs \intersect piped : holders[p] = {}
    BY DEF OutputIsComplete
  <2>1. child = "reaped" /\ \A h \in SyncHandles : handle[h] # "open"
    BY DEF SsIInv, SsStageInv
  <2> QED BY <2>1, SsHandles DEF SsIInv, SsHandleInv
<1> QED BY <1>1 DEF SsIInv, SpawnSyncInv, NeverAborts, NoStrayKill, SsStageInv

-----------------------------------------------------------------------------
(* Child processes.                                                          *)

(* One QNProcess, with the reference counts of its object aside.  *)
ProcBody(r) ==
  /\ r \in ProcRecord
  /\ r.mem = "none" => r.uv = "none" /\ r.child = "none"
  /\ r.closed <=> r.uv = "closed"
  /\ r.finalized <=> r.obj = "gone"
  /\ r.this_val \/ r.ref => r.obj = "alive"
  /\ r.child = "none" => r.obj = "none" /\ r.uv \in {"none", "open"} /\ r.mem # "live"
  /\ r.obj = "alive" => r.mem = "live"
  /\ r.mem = "freed" /\ r.child # "none" => r.closed /\ r.finalized /\ ~r.linked
  /\ r.exits = 1 => r.child = "reaped"

(* An object that nobody counts a reference to was finalized.  *)
ProcOK(r) == ProcBody(r) /\ (r.obj = "alive" => r.this_val \/ r.ref)

(* this_val is held until the close is asked for.  *)
ProcPinned(r) == r.obj # "none" /\ r.uv = "open" => r.this_val

ProcIInv ==
  /\ proc \in [Processes -> ProcRecord]
  /\ \A p \in Processes : ProcOK(proc[p])
  /\ phase = "run" => \A p \in Processes : ProcPinned(proc[p])
  /\ kind = "process" =>
       /\ cb \in {NoHandle} \union Processes
       /\ \A p \in Processes :
            cb = p => proc[p].uv \in {"open", "closing"} /\ proc[p].child # "none"
  /\ kind # "process" => \A p \in Processes : proc[p].mem = "none"

(* Giving back the last reference runs the finalizer, which closes the       *)
(* handle or, when it is closed, frees the struct.                           *)
LEMMA ProcReleasedOK ==
  ASSUME NEW r, ProcBody(r)
  PROVE  LET s == Released(r, ProcFinalizer)
         IN  /\ ProcOK(s)
             /\ s.uv = "closed" <=> r.uv = "closed"
             /\ s.uv = "none" <=> r.uv = "none"
             /\ s.child = r.child
             /\ ProcPinned(r) => ProcPinned(s)
             /\ r.mem = "none" => s.mem = "none"
<1> DEFINE f == [r EXCEPT !.on_exit = FALSE, !.this_val = FALSE,
                          !.finalized = TRUE, !.obj = "gone"]
           s == Released(r, ProcFinalizer)
<1>1. CASE ~Unheld(r)
  <2>1. s = r
    BY <1>1 DEF Released
  <2> QED BY <1>1, <2>1 DEF ProcOK, Unheld, ProcBody
<1>2. CASE Unheld(r)
  <2>1. s = IF f.closed THEN ProcMaybeFree(f) ELSE UvClose(f)
    BY <1>2 DEF Released, ProcFinalizer
  <2>2. f \in ProcRecord /\ f.finalized /\ ~f.this_val /\ ~f.ref /\ f.obj = "gone"
        /\ f.mem = "live" /\ f.uv = r.uv /\ f.closed = r.closed /\ f.child = r.child
        /\ f.linked = r.linked /\ f.exits = r.exits
    BY <1>2 DEF ProcBody, ProcRecord, Unheld
  <2> HIDE DEF f, s
  <2>3. CASE f.closed
    <3>1. s = [f EXCEPT !.mem = "freed", !.linked = FALSE]
      BY <2>1, <2>2, <2>3 DEF ProcMaybeFree
    <3>2. s \in ProcRecord /\ s.finalized /\ ~s.this_val /\ ~s.ref /\ s.obj = "gone"
          /\ s.mem = "freed" /\ s.uv = r.uv /\ s.closed = r.closed /\ s.child = r.child
          /\ ~s.linked /\ s.exits = r.exits
      BY <2>2, <3>1 DEF ProcRecord
    <3> QED BY <1>2, <2>2, <2>3, <3>2 DEF ProcOK, ProcBody, ProcPinned, Unheld, s
  <2>4. CASE ~f.closed
    <3>1. s = UvClose(f)
      BY <2>1, <2>4
    <3>2. s \in ProcRecord /\ s.finalized /\ ~s.this_val /\ ~s.ref /\ s.obj = "gone"
          /\ s.mem = "live" /\ s.closed = r.closed /\ s.child = r.child /\ s.exits = r.exits
          /\ s.uv = IF r.uv = "open" THEN "closing" ELSE r.uv
      BY <2>2, <3>1 DEF ProcRecord, UvClose, HandleStates
    <3> QED BY <1>2, <2>2, <2>4, <3>2 DEF ProcOK, ProcBody, ProcPinned, Unheld, s
  <2> QED BY <2>3, <2>4
<1> QED BY <1>1, <1>2

LEMMA ProcCloseHandleOK ==
  ASSUME NEW r, ProcOK(r), r.child # "none"
  PROVE  LET s == ProcCloseHandle(r)
         IN  /\ ProcOK(s)
             /\ s.uv = "closed" <=> r.uv = "closed"
             /\ s.uv = "none" <=> r.uv = "none"
             /\ s.child = r.child
             /\ ProcPinned(r) => ProcPinned(s)
<1> DEFINE c == [UvClose(r) EXCEPT !.this_val = FALSE]
           s == ProcCloseHandle(r)
<1>1. CASE r.uv # "open"
  BY <1>1 DEF ProcCloseHandle
<1>2. CASE r.uv = "open"
  <2>1. s = Released(c, ProcFinalizer)
    BY <1>2 DEF ProcCloseHandle
  <2>2. c \in ProcRecord /\ c.uv = "closing" /\ ~c.this_val /\ c.ref = r.ref /\ c.obj = r.obj
        /\ c.mem = r.mem /\ c.closed = r.closed /\ c.finalized = r.finalized
        /\ c.child = r.child /\ c.linked = r.linked /\ c.exits = r.exits
    BY <1>2 DEF ProcOK, ProcBody, ProcRecord, UvClose, HandleStates
  <2> HIDE DEF c, s
  <2>3. ProcBody(c) /\ ProcPinned(c)
    BY <1>2, <2>2 DEF ProcOK, ProcBody, ProcPinned
  <2>4. ProcOK(s) /\ (s.uv = "closed" <=> c.uv = "closed") /\ (s.uv = "none" <=> c.uv = "none")
        /\ s.child = c.child /\ (ProcPinned(c) => ProcPinned(s))
    BY <2>1, <2>3, ProcReleasedOK
  <2> QED BY <1>2, <2>2, <2>3, <2>4 DEF s
<1> QED BY <1>1, <1>2

(* A step that writes one struct and may enter or leave its callback.  *)
LEMMA ProcPutKeeps ==
  ASSUME ProcIInv, kind = "process", kind' = kind, NEW p \in Processes, NEW r,
         ProcSet(p, r), ProcOK(r), phase = "run" => ProcPinned(r),
         cb' \in {cb, p, NoHandle},
         cb' = p => r.uv \in {"open", "closing"} /\ r.child # "none"
  PROVE  ProcIInv'
<1>1. proc' = [proc EXCEPT ![p] = r] /\ phase' = phase
  BY DEF ProcSet
<1>2. r \in ProcRecord
  BY DEF ProcOK, ProcBody
<1>3. proc' \in [Processes -> ProcRecord] /\ proc'[p] = r
      /\ \A q \in Processes : q # p => proc'[q] = proc[q]
  BY <1>1, <1>2 DEF ProcIInv
<1>4. \A q \in Processes : ProcOK(proc'[q])
  BY <1>3 DEF ProcIInv
<1>5. phase' = "run" => \A q \in Processes : ProcPinned(proc'[q])
  BY <1>1, <1>3 DEF ProcIInv
<1>6. cb' \in {NoHandle} \union Processes
  BY DEF ProcIInv
<1>7. ASSUME NEW q \in Processes, cb' = q PROVE proc'[q].uv \in {"open", "closing"} /\ proc'[q].child # "none"
  BY <1>3, <1>7, ProcessesAssumption DEF ProcIInv
<1> QED BY <1>3, <1>4, <1>5, <1>6, <1>7 DEF ProcIInv

LEMMA NoProcOK ==
  /\ NoProc \in ProcRecord /\ NoProc.mem = "none" /\ NoProc.uv = "none" /\ NoProc.child = "none"
  /\ NoProc.obj = "none" /\ NoProc.exits = 0 /\ ~NoProc.closed /\ ~NoProc.finalized
  /\ ~NoProc.this_val /\ ~NoProc.ref /\ ~NoProc.linked
  BY DEF NoProc, ProcRecord, HandleStates

LEMMA ProcSpawnKeeps ==
  ASSUME ProcIInv, kind = "process", kind' = kind, NEW p \in Processes, ProcSpawn(p)
  PROVE  ProcIInv'
<1>1. PICK r \in {Spawned, SpawnFailed, SpawnUnwrapped} : ProcSet(p, r)
  BY DEF ProcSpawn
<1>2. ProcOK(r) /\ ProcPinned(r)
  <2>1. Spawned \in ProcRecord /\ ProcOK(Spawned) /\ ProcPinned(Spawned)
    <3>1. Spawned \in ProcRecord /\ Spawned.exits = 0 /\ Spawned.mem = "live"
          /\ Spawned.linked /\ Spawned.uv = "open" /\ Spawned.child = "running"
          /\ Spawned.this_val /\ Spawned.obj = "alive" /\ Spawned.ref
          /\ ~Spawned.closed /\ ~Spawned.finalized
      BY NoProcOK DEF Spawned, ProcRecord, HandleStates
    <3> QED BY <3>1 DEF ProcOK, ProcBody, ProcPinned
  <2>2. ProcOK(SpawnFailed) /\ ProcPinned(SpawnFailed)
    <3>1. SpawnFailed \in ProcRecord /\ SpawnFailed.exits = 0 /\ SpawnFailed.mem = "freed"
          /\ SpawnFailed.uv = "open" /\ SpawnFailed.child = "none" /\ SpawnFailed.obj = "none"
          /\ ~SpawnFailed.this_val /\ ~SpawnFailed.ref
          /\ ~SpawnFailed.closed /\ ~SpawnFailed.finalized
      BY NoProcOK DEF SpawnFailed, ProcRecord, HandleStates
    <3> QED BY <3>1 DEF ProcOK, ProcBody, ProcPinned
  <2>3. ProcOK(SpawnUnwrapped) /\ ProcPinned(SpawnUnwrapped)
    <3>1. Spawned.exits = 0 /\ Spawned.mem = "live" /\ Spawned.child = "running"
          /\ ~Spawned.closed /\ ~Spawned.finalized
      BY NoProcOK DEF Spawned, ProcRecord
    <3>2. SpawnUnwrapped \in ProcRecord /\ SpawnUnwrapped.exits = 0
          /\ SpawnUnwrapped.mem = "live" /\ SpawnUnwrapped.uv = "closing"
          /\ SpawnUnwrapped.child = "running" /\ SpawnUnwrapped.obj = "none"
          /\ ~SpawnUnwrapped.this_val /\ ~SpawnUnwrapped.ref
          /\ ~SpawnUnwrapped.closed /\ ~SpawnUnwrapped.finalized
      BY <2>1, <3>1 DEF SpawnUnwrapped, ProcRecord, HandleStates
    <3> QED BY <3>2 DEF ProcOK, ProcBody, ProcPinned
  <2> QED BY <2>1, <2>2, <2>3
<1>3. cb' = cb /\ (cb = p => FALSE)
  BY DEF ProcSpawn, ProcIInv, ProcOK, ProcBody
<1> QED BY <1>1, <1>2, <1>3, ProcPutKeeps

LEMMA ProcSetOnExitKeeps ==
  ASSUME ProcIInv, kind = "process", kind' = kind, NEW p \in Processes, ProcSetOnExit(p)
  PROVE  ProcIInv'
<1>1. PICK f \in BOOLEAN : ProcSet(p, [proc[p] EXCEPT !.on_exit = f])
  BY DEF ProcSetOnExit
<1> DEFINE r == [proc[p] EXCEPT !.on_exit = f]
<1>2. ProcOK(r) /\ (ProcPinned(proc[p]) => ProcPinned(r)) /\ r.uv = proc[p].uv /\ r.child # "none"
  BY DEF ProcSetOnExit, ProcReachable, ProcIInv, ProcOK, ProcBody, ProcPinned, ProcRecord
<1>3. cb' = cb
  BY DEF ProcSetOnExit
<1> HIDE DEF r
<1>4. ProcSet(p, r)
  BY <1>1 DEF r
<1>5. (phase = "run" => ProcPinned(r)) /\ (cb' = p => r.uv \in {"open", "closing"} /\ r.child # "none")
  BY <1>2, <1>3 DEF ProcIInv
<1> QED BY <1>2, <1>3, <1>4, <1>5, ProcPutKeeps

LEMMA ProcChildEndsKeeps ==
  ASSUME ProcIInv, kind = "process", kind' = kind, NEW p \in Processes,
         ProcKill(p) \/ ProcChildExits(p)
  PROVE  ProcIInv'
<1> DEFINE r == [proc[p] EXCEPT !.child = "zombie"]
<1>1. ProcSet(p, r) /\ cb' = cb /\ proc[p].child = "running"
  BY DEF ProcKill, ProcChildExits
<1>2. ProcOK(r) /\ (ProcPinned(proc[p]) => ProcPinned(r)) /\ r.uv = proc[p].uv /\ r.child # "none"
  BY <1>1 DEF ProcIInv, ProcOK, ProcBody, ProcPinned, ProcRecord
<1> HIDE DEF r
<1>3. (phase = "run" => ProcPinned(r)) /\ (cb' = p => r.uv \in {"open", "closing"} /\ r.child # "none")
  BY <1>1, <1>2 DEF ProcIInv
<1> QED BY <1>1, <1>2, <1>3, ProcPutKeeps

LEMMA ProcCloseKeeps ==
  ASSUME ProcIInv, kind = "process", kind' = kind, NEW p \in Processes,
         ProcClose(p) \/ ProcExitCbEnd(p)
  PROVE  ProcIInv'
<1> DEFINE r == ProcCloseHandle(proc[p])
<1>1. ProcSet(p, r) /\ cb' \in {cb, NoHandle} /\ (cb = p \/ proc[p].ref)
  BY DEF ProcClose, ProcExitCbEnd, ProcReachable
<1>2. ProcOK(proc[p]) /\ (phase = "run" => ProcPinned(proc[p]))
      /\ (cb = p => proc[p].uv \in {"open", "closing"} /\ proc[p].child # "none")
  BY DEF ProcIInv
<1>3. proc[p].child # "none" \/ proc[p].uv # "open"
  BY <1>1, <1>2 DEF ProcOK, ProcBody
<1>4. ProcOK(r) /\ (ProcPinned(proc[p]) => ProcPinned(r))
      /\ (r.uv = "closed" <=> proc[p].uv = "closed") /\ (r.uv = "none" <=> proc[p].uv = "none")
      /\ r.child = proc[p].child
  <2>1. CASE proc[p].child # "none"
    BY <1>2, <2>1, ProcCloseHandleOK
  <2>2. CASE proc[p].uv # "open"
    <3>1. r = proc[p]
      BY <2>2 DEF ProcCloseHandle
    <3> QED BY <1>2, <3>1
  <2> QED BY <1>3, <2>1, <2>2
<1> HIDE DEF r
<1>5. r.uv \in {"none", "open", "closing", "closed"}
  BY <1>4 DEF ProcOK, ProcBody, ProcRecord, HandleStates
<1> QED BY <1>1, <1>2, <1>4, <1>5, ProcPutKeeps, ProcessesAssumption

LEMMA ProcDropKeeps ==
  ASSUME ProcIInv, kind = "process", kind' = kind, NEW p \in Processes, ProcDrop(p)
  PROVE  ProcIInv'
<1> DEFINE l == [proc[p] EXCEPT !.ref = FALSE]
           r == Released(l, ProcFinalizer)
<1>1. ProcSet(p, r) /\ cb' = cb
  BY DEF ProcDrop, Lost
<1>0. ProcOK(proc[p])
  BY DEF ProcIInv
<1>2. ProcBody(l) /\ (ProcPinned(proc[p]) => ProcPinned(l)) /\ l.uv = proc[p].uv
      /\ l.child = proc[p].child
  BY <1>0 DEF ProcOK, ProcBody, ProcPinned, ProcRecord
<1> HIDE DEF l
<1>3. ProcOK(r) /\ (ProcPinned(l) => ProcPinned(r))
      /\ (r.uv = "closed" <=> l.uv = "closed") /\ (r.uv = "none" <=> l.uv = "none")
      /\ r.child = l.child
  BY <1>2, ProcReleasedOK
<1> HIDE DEF r
<1>4. r.uv \in {"none", "open", "closing", "closed"}
  BY <1>3 DEF ProcOK, ProcBody, ProcRecord, HandleStates
<1>5. (phase = "run" => ProcPinned(r)) /\ (cb' = p => r.uv \in {"open", "closing"} /\ r.child # "none")
  BY <1>1, <1>2, <1>3, <1>4 DEF ProcIInv
<1> QED BY <1>1, <1>3, <1>5, ProcPutKeeps

LEMMA ProcExitCbKeeps ==
  ASSUME ProcIInv, kind = "process", kind' = kind, NEW p \in Processes, ProcExitCb(p)
  PROVE  ProcIInv'
<1> DEFINE r == [proc[p] EXCEPT !.child = "reaped"]
           e == r.exits + 1
<1>1. proc[p].uv = "open" /\ proc[p].child = "zombie" /\ cb = NoHandle
  BY DEF ProcExitCb, Polling
<1>2. ProcOK(r) /\ (ProcPinned(proc[p]) => ProcPinned(r)) /\ r.uv = "open" /\ r.child = "reaped"
      /\ r.exits = 0
  BY <1>1 DEF ProcIInv, ProcOK, ProcBody, ProcPinned, ProcRecord
<1>3. phase = "run" => ProcPinned(r)
  BY <1>2 DEF ProcIInv
<1>4. CASE r.on_exit
  <2> DEFINE x == [r EXCEPT !.exits = e]
  <2>1. ProcSet(p, x) /\ cb' = p
    BY <1>4 DEF ProcExitCb
  <2>2. e = 1
    BY <1>2
  <2> HIDE DEF e, r
  <2>3. ProcOK(x) /\ (ProcPinned(r) => ProcPinned(x)) /\ x.uv = "open" /\ x.child # "none"
    BY <1>2, <2>2 DEF ProcOK, ProcBody, ProcPinned, ProcRecord
  <2> HIDE DEF x
  <2> QED BY <1>3, <2>1, <2>3, ProcPutKeeps
<1>5. CASE ~r.on_exit
  <2> DEFINE x == ProcCloseHandle(r)
  <2>1. ProcSet(p, x) /\ cb' = cb /\ cb # p
    BY <1>1, <1>5, ProcessesAssumption DEF ProcExitCb
  <2> HIDE DEF r
  <2>2. ProcOK(x) /\ (ProcPinned(r) => ProcPinned(x))
    BY <1>2, ProcCloseHandleOK
  <2> HIDE DEF x
  <2> QED BY <1>3, <2>1, <2>2, ProcPutKeeps
<1> QED BY <1>4, <1>5

LEMMA ProcCloseCbKeeps ==
  ASSUME ProcIInv, kind = "process", kind' = kind, NEW p \in Processes, ProcCloseCb(p)
  PROVE  ProcIInv'
<1> DEFINE c == [proc[p] EXCEPT !.uv = "closed", !.closed = TRUE]
           r == ProcMaybeFree(c)
<1>1. ProcSet(p, r) /\ cb' = cb /\ cb # p /\ proc[p].uv = "closing"
  BY ProcessesAssumption DEF ProcCloseCb, Polling
<1>2. ProcOK(proc[p])
  BY DEF ProcIInv
<1>3. c \in ProcRecord /\ c.uv = "closed" /\ c.closed /\ c.this_val = proc[p].this_val
      /\ c.ref = proc[p].ref /\ c.obj = proc[p].obj /\ c.finalized = proc[p].finalized
      /\ c.mem = proc[p].mem /\ c.child = proc[p].child /\ c.linked = proc[p].linked
      /\ c.exits = proc[p].exits
  BY <1>2 DEF ProcOK, ProcBody, ProcRecord, HandleStates
<1>4. proc[p].child # "none" /\ proc[p].mem = "live"
  BY <1>1, <1>2 DEF ProcOK, ProcBody, ProcRecord
<1> HIDE DEF c
<1>5. ProcOK(r) /\ ProcPinned(r)
  <2>1. CASE c.finalized
    <3>1. r = [c EXCEPT !.mem = "freed", !.linked = FALSE]
      BY <1>3, <2>1 DEF ProcMaybeFree
    <3>2. r \in ProcRecord /\ r.uv = "closed" /\ r.closed /\ r.this_val = c.this_val
          /\ r.ref = c.ref /\ r.obj = c.obj /\ r.finalized = c.finalized /\ r.mem = "freed"
          /\ r.child = c.child /\ ~r.linked /\ r.exits = c.exits
      BY <1>3, <3>1 DEF ProcRecord
    <3> HIDE DEF r
    <3> QED BY <1>2, <1>3, <1>4, <2>1, <3>2 DEF ProcOK, ProcBody, ProcPinned
  <2>2. CASE ~c.finalized
    <3>1. r = c
      BY <2>2 DEF ProcMaybeFree
    <3> QED BY <1>2, <1>3, <1>4, <2>2, <3>1 DEF ProcOK, ProcBody, ProcPinned
  <2> QED BY <2>1, <2>2
<1> HIDE DEF r
<1> QED BY <1>1, <1>5, ProcPutKeeps

LEMMA ProcNextKeeps ==
  ASSUME ProcIInv, kind = "process", kind' = kind, ProcNext PROVE ProcIInv'
  BY ProcSpawnKeeps, ProcSetOnExitKeeps, ProcChildEndsKeeps, ProcCloseKeeps, ProcDropKeeps,
     ProcExitCbKeeps, ProcCloseCbKeeps DEF ProcNext

(* qn_process_cleanup and JS_FreeRuntime: no callback is running.  *)
LEMMA ProcCleanUpKeeps ==
  ASSUME ProcIInv, kind' = kind, cb' = cb, cb = NoHandle, phase' # "run", proc' = ProcCleanedUp
  PROVE  ProcIInv'
<1>1. ASSUME NEW p \in Processes
      PROVE  ProcOK(proc'[p]) /\ (proc[p].mem = "none" => proc'[p].mem = "none")
  <2> DEFINE l == [proc[p] EXCEPT !.this_val = FALSE]
  <2>1. ProcOK(proc[p])
    BY DEF ProcIInv
  <2>2. ProcBody(l) /\ l.mem = proc[p].mem
    BY <2>1 DEF ProcOK, ProcBody, ProcRecord
  <2>3. proc'[p] = proc[p] \/ proc'[p] = Released(l, ProcFinalizer)
    BY DEF ProcCleanedUp
  <2> HIDE DEF l
  <2>4. ProcOK(Released(l, ProcFinalizer))
        /\ (l.mem = "none" => Released(l, ProcFinalizer).mem = "none")
    BY <2>2, ProcReleasedOK
  <2> QED BY <2>1, <2>2, <2>3, <2>4
<1>2. proc' \in [Processes -> ProcRecord]
  BY <1>1 DEF ProcCleanedUp, ProcOK, ProcBody
<1> QED BY <1>1, <1>2, ProcessesAssumption DEF ProcIInv

LEMMA ProcCollectedKeeps ==
  ASSUME ProcIInv, kind' = kind, cb' = cb, cb = NoHandle, phase' # "run", proc' = ProcCollected
  PROVE  ProcIInv'
<1>1. ASSUME NEW p \in Processes
      PROVE  ProcOK(proc'[p]) /\ (proc[p].mem = "none" => proc'[p].mem = "none")
  <2> DEFINE l == [proc[p] EXCEPT !.ref = FALSE]
  <2>1. ProcOK(proc[p])
    BY DEF ProcIInv
  <2>2. ProcBody(l) /\ l.mem = proc[p].mem
    BY <2>1 DEF ProcOK, ProcBody, ProcRecord
  <2>3. proc'[p] = Released(l, ProcFinalizer)
    BY DEF ProcCollected, Collected
  <2> HIDE DEF l
  <2>4. ProcOK(Released(l, ProcFinalizer))
        /\ (l.mem = "none" => Released(l, ProcFinalizer).mem = "none")
    BY <2>2, ProcReleasedOK
  <2> QED BY <2>2, <2>3, <2>4
<1>2. proc' \in [Processes -> ProcRecord]
  BY <1>1 DEF ProcCollected, ProcOK, ProcBody
<1> QED BY <1>1, <1>2, ProcessesAssumption DEF ProcIInv

LEMMA ProcStutter ==
  ASSUME ProcIInv, kind' = kind, proc' = proc,
         (phase' = phase /\ cb' = cb) \/ (kind # "process" /\ (phase' = "run" => phase = "run"))
  PROVE  ProcIInv'
  BY DEF ProcIInv

LEMMA ProcIInvImplies ==
  ProcIInv => ProcFreedWhenBothDone /\ ProcPinnedUntilExit
<1> SUFFICES ASSUME ProcIInv PROVE ProcFreedWhenBothDone /\ ProcPinnedUntilExit
  OBVIOUS
<1>1. ProcFreedWhenBothDone
  <2> SUFFICES ASSUME NEW p \in Processes, proc[p].mem = "freed", proc[p].child # "none"
               PROVE  proc[p].uv = "closed" /\ proc[p].obj = "gone" /\ cb # p /\ ~proc[p].linked
    BY DEF ProcFreedWhenBothDone
  <2>1. proc[p].uv = "closed" /\ proc[p].obj = "gone" /\ ~proc[p].linked
    BY DEF ProcIInv, ProcOK, ProcBody
  <2>2. cb # p
    BY <2>1 DEF ProcIInv
  <2> QED BY <2>1, <2>2
<1>2. ProcPinnedUntilExit
  BY DEF ProcPinnedUntilExit, ProcIInv, ProcOK, ProcBody, ProcPinned, Running
<1> QED BY <1>1, <1>2

-----------------------------------------------------------------------------
(* File watchers and signal handlers.                                        *)

FseRecord ==
  [mem : {"none", "live", "freed"}, uv : HandleStates, closed : BOOLEAN, detached : BOOLEAN,
   this_val : BOOLEAN, obj : {"none", "alive", "gone"}, ref : BOOLEAN, func : BOOLEAN,
   active : BOOLEAN]

ShRecord ==
  [mem : {"none", "live", "freed"}, uv : HandleStates, closed : BOOLEAN, finalized : BOOLEAN,
   this_val : {FALSE}, obj : {"none", "alive", "gone"}, ref : BOOLEAN, func : BOOLEAN]

(* One QNFsEvent: detached means that no object is left to finalize.  *)
FseOK(r) ==
  /\ r \in FseRecord
  /\ r.mem = "none" => r.uv = "none"
  /\ r.closed <=> r.uv = "closed"
  /\ r.detached => r.obj # "alive"
  /\ r.this_val \/ r.ref => r.obj = "alive"
  /\ r.obj = "alive" => r.mem = "live"
  /\ r.mem = "freed" => r.uv = "closed"

(* One QNSignalHandler: the handle is open only as long as the object lives. *)
ShOK(r) ==
  /\ r \in ShRecord
  /\ r.mem = "none" => r.uv = "none"
  /\ r.closed <=> r.uv = "closed"
  /\ r.finalized <=> r.obj = "gone"
  /\ r.ref => r.obj = "alive"
  /\ r.obj = "alive" => r.mem = "live"
  /\ r.uv = "open" => r.obj = "alive" /\ r.func
  /\ r.mem = "freed" => r.uv = "closed" /\ r.finalized

WatchIInv ==
  /\ fse \in [FsEvents -> FseRecord] /\ sh \in [Signals -> ShRecord]
  /\ \A f \in FsEvents : FseOK(fse[f])
  /\ \A s \in Signals : ShOK(sh[s])
  /\ kind = "watch" =>
       /\ cb \in {NoHandle} \union FsEvents \union Signals
       /\ \A f \in FsEvents : cb = f => fse[f].uv \in {"open", "closing"}
  /\ kind # "watch" => \A f \in FsEvents : fse[f].mem = "none"

LEMMA FseReleasedOK ==
  ASSUME NEW r, FseOK(r)
  PROVE  LET s == Released(r, FseFinalizer)
         IN  /\ FseOK(s)
             /\ s.uv = "closed" <=> r.uv = "closed"
             /\ s.uv = "none" <=> r.uv = "none"
             /\ r.mem = "none" => s.mem = "none"
<1> DEFINE d == [r EXCEPT !.func = FALSE, !.this_val = FALSE,
                          !.detached = TRUE, !.obj = "gone"]
           s == Released(r, FseFinalizer)
<1>1. CASE ~Unheld(r)
  BY <1>1 DEF Released
<1>2. CASE Unheld(r)
  <2>1. s = IF d.closed THEN [d EXCEPT !.mem = "freed"] ELSE UvClose(d)
    BY <1>2 DEF Released, FseFinalizer
  <2>2. d \in FseRecord /\ d.detached /\ ~d.this_val /\ ~d.ref /\ d.obj = "gone"
        /\ d.mem = "live" /\ d.uv = r.uv /\ d.closed = r.closed
    BY <1>2 DEF FseOK, FseRecord, Unheld
  <2> HIDE DEF d, s
  <2>3. CASE d.closed
    <3>1. s \in FseRecord /\ s.detached /\ ~s.this_val /\ ~s.ref /\ s.obj = "gone"
          /\ s.mem = "freed" /\ s.uv = r.uv /\ s.closed = r.closed
      BY <2>1, <2>2, <2>3 DEF FseRecord
    <3> QED BY <1>2, <2>2, <2>3, <3>1 DEF FseOK, Unheld, s
  <2>4. CASE ~d.closed
    <3>1. s = UvClose(d)
      BY <2>1, <2>4
    <3>2. s \in FseRecord /\ s.detached /\ ~s.this_val /\ ~s.ref /\ s.obj = "gone"
          /\ s.mem = "live" /\ s.closed = r.closed
          /\ s.uv = IF r.uv = "open" THEN "closing" ELSE r.uv
      BY <2>2, <3>1 DEF FseRecord, UvClose, HandleStates
    <3> QED BY <1>2, <2>2, <2>4, <3>2 DEF FseOK, Unheld, s
  <2> QED BY <2>3, <2>4
<1> QED BY <1>1, <1>2

LEMMA ShReleasedOK ==
  ASSUME NEW r, ShOK(r)
  PROVE  ShOK(Released(r, ShFinalizer))
<1> DEFINE f == [r EXCEPT !.func = FALSE, !.finalized = TRUE, !.obj = "gone"]
           s == Released(r, ShFinalizer)
<1>1. CASE ~Unheld(r)
  BY <1>1 DEF Released
<1>2. CASE Unheld(r)
  <2>1. s = IF f.closed THEN [f EXCEPT !.mem = "freed"] ELSE UvClose(f)
    BY <1>2 DEF Released, ShFinalizer
  <2>2. f \in ShRecord /\ f.finalized /\ ~f.this_val /\ ~f.ref /\ f.obj = "gone"
        /\ f.mem = "live" /\ f.uv = r.uv /\ f.closed = r.closed
    BY <1>2 DEF ShOK, ShRecord, Unheld
  <2> HIDE DEF f, s
  <2>3. CASE f.closed
    <3>1. s \in ShRecord /\ s.finalized /\ ~s.ref /\ s.obj = "gone"
          /\ s.mem = "freed" /\ s.uv = r.uv /\ s.closed = r.closed
      BY <2>1, <2>2, <2>3 DEF ShRecord
    <3> QED BY <1>2, <2>2, <2>3, <3>1 DEF ShOK, Unheld, s
  <2>4. CASE ~f.closed
    <3>1. s = UvClose(f)
      BY <2>1, <2>4
    <3>2. s \in ShRecord /\ s.finalized /\ ~s.ref /\ s.obj = "gone"
          /\ s.mem = "live" /\ s.closed = r.closed
          /\ s.uv = IF r.uv = "open" THEN "closing" ELSE r.uv
      BY <2>2, <3>1 DEF ShRecord, UvClose, HandleStates
    <3> QED BY <1>2, <2>2, <2>4, <3>2 DEF ShOK, Unheld, s
  <2> QED BY <2>3, <2>4
<1> QED BY <1>1, <1>2

(* A step that writes one watcher.  *)
LEMMA FsePutKeeps ==
  ASSUME WatchIInv, kind = "watch", kind' = kind, NEW f \in FsEvents, NEW r,
         FseSet(f, r), FseOK(r), cb = f => r.uv \in {"open", "closing"}
  PROVE  WatchIInv'
<1>1. fse' = [fse EXCEPT ![f] = r] /\ sh' = sh /\ cb' = cb
  BY DEF FseSet
<1>2. r \in FseRecord
  BY DEF FseOK
<1>3. fse' \in [FsEvents -> FseRecord] /\ fse'[f] = r
      /\ \A g \in FsEvents : g # f => fse'[g] = fse[g]
  BY <1>1, <1>2 DEF WatchIInv
<1>4. \A g \in FsEvents : FseOK(fse'[g])
  BY <1>3 DEF WatchIInv
<1>5. ASSUME NEW g \in FsEvents, cb' = g PROVE fse'[g].uv \in {"open", "closing"}
  BY <1>1, <1>3, <1>5 DEF WatchIInv
<1> QED BY <1>1, <1>3, <1>4, <1>5 DEF WatchIInv

LEMMA FsWatchKeeps ==
  ASSUME WatchIInv, kind = "watch", kind' = kind, NEW f \in FsEvents, FsWatch(f)
  PROVE  WatchIInv'
<1>1. PICK r \in {FseWatching, FseNotStarted} : FseSet(f, r)
  BY DEF FsWatch
<1>2. NoFsEvent \in FseRecord /\ NoFsEvent.obj = "none" /\ ~NoFsEvent.this_val
      /\ ~NoFsEvent.ref /\ ~NoFsEvent.closed /\ ~NoFsEvent.detached
  BY DEF NoFsEvent, FseRecord, HandleStates
<1>3. FseOK(FseWatching)
  <2>1. FseWatching \in FseRecord /\ FseWatching.mem = "live" /\ FseWatching.uv = "open"
        /\ FseWatching.obj = "alive" /\ ~FseWatching.closed /\ ~FseWatching.detached
    BY <1>2 DEF FseWatching, FseRecord, HandleStates
  <2> QED BY <2>1 DEF FseOK
<1>4. FseOK(FseNotStarted)
  <2>1. FseNotStarted \in FseRecord /\ FseNotStarted.mem = "live" /\ FseNotStarted.uv = "closing"
        /\ FseNotStarted.obj = "none" /\ ~FseNotStarted.this_val /\ ~FseNotStarted.ref
        /\ ~FseNotStarted.closed
    BY <1>2 DEF FseNotStarted, FseRecord, HandleStates
  <2> QED BY <2>1 DEF FseOK
<1>5. cb # f
  BY DEF FsWatch, WatchIInv, FseOK
<1> QED BY <1>1, <1>3, <1>4, <1>5, FsePutKeeps

LEMMA FseOpKeeps ==
  ASSUME WatchIInv, kind = "watch", kind' = kind, NEW f \in FsEvents,
         FseClose(f) \/ FseRef(f) \/ FseUnref(f) \/ FseDrop(f)
  PROVE  WatchIInv'
<1>0. FseOK(fse[f]) /\ (cb = f => fse[f].uv \in {"open", "closing"})
  BY DEF WatchIInv
<1>1. CASE FseClose(f)
  <2> DEFINE r == UvClose(fse[f])
  <2>1. FseSet(f, r)
    BY <1>1 DEF FseClose
  <2>2. FseOK(r) /\ r.uv = IF fse[f].uv = "open" THEN "closing" ELSE fse[f].uv
    <3>1. CASE fse[f].uv = "open"
      <4>1. r = [fse[f] EXCEPT !.uv = "closing"]
        BY <3>1 DEF UvClose
      <4> QED BY <1>0, <3>1, <4>1 DEF FseOK, FseRecord, HandleStates
    <3>2. CASE fse[f].uv # "open"
      BY <1>0, <3>2 DEF UvClose
    <3> QED BY <3>1, <3>2
  <2> HIDE DEF r
  <2> QED BY <1>0, <2>1, <2>2, FsePutKeeps
<1>2. CASE FseRef(f) \/ FseUnref(f)
  <2>1. PICK b \in BOOLEAN : FseSet(f, [fse[f] EXCEPT !.active = b])
    BY <1>2 DEF FseRef, FseUnref
  <2> DEFINE r == [fse[f] EXCEPT !.active = b]
  <2>2. FseOK(r) /\ r.uv = fse[f].uv
    BY <1>0 DEF FseOK, FseRecord
  <2>3. FseSet(f, r)
    BY <2>1
  <2> HIDE DEF r
  <2> QED BY <1>0, <2>2, <2>3, FsePutKeeps
<1>3. CASE FseDrop(f)
  <2> DEFINE l == [fse[f] EXCEPT !.ref = FALSE]
             r == Released(l, FseFinalizer)
  <2>1. FseSet(f, r)
    BY <1>3 DEF FseDrop, Lost
  <2>2. FseOK(l) /\ l.uv = fse[f].uv
    BY <1>0 DEF FseOK, FseRecord
  <2> HIDE DEF l
  <2>3. FseOK(r) /\ (r.uv = "closed" <=> l.uv = "closed") /\ (r.uv = "none" <=> l.uv = "none")
    BY <2>2, FseReleasedOK
  <2> HIDE DEF r
  <2>4. r.uv \in {"none", "open", "closing", "closed"}
    BY <2>3 DEF FseOK, FseRecord, HandleStates
  <2> QED BY <1>0, <2>1, <2>2, <2>3, <2>4, FsePutKeeps
<1> QED BY <1>1, <1>2, <1>3

LEMMA FseCloseCbKeeps ==
  ASSUME WatchIInv, kind = "watch", kind' = kind, NEW f \in FsEvents, FseCloseCb(f)
  PROVE  WatchIInv'
<1> DEFINE c == [fse[f] EXCEPT !.uv = "closed", !.closed = TRUE]
           l == [c EXCEPT !.this_val = FALSE]
           r == FseClosed(fse[f])
<1>1. FseSet(f, r) /\ cb # f /\ fse[f].uv = "closing" /\ FseOK(fse[f])
  BY WatchAssumption DEF FseCloseCb, Polling, WatchIInv
<1>2. c \in FseRecord /\ c.uv = "closed" /\ c.closed /\ c.mem = fse[f].mem /\ c.obj = fse[f].obj
      /\ c.detached = fse[f].detached /\ c.this_val = fse[f].this_val /\ c.ref = fse[f].ref
  BY <1>1 DEF FseOK, FseRecord, HandleStates
<1>3. r = IF ~c.detached /\ c.this_val THEN Released(l, FseFinalizer)
          ELSE IF c.detached THEN [c EXCEPT !.mem = "freed"] ELSE c
  BY DEF FseClosed
<1> HIDE DEF c
<1>4. FseOK(c)
  BY <1>1, <1>2 DEF FseOK
<1>5. FseOK(l)
  BY <1>4 DEF FseOK, FseRecord
<1> HIDE DEF l, r
<1>6. FseOK(Released(l, FseFinalizer))
  BY <1>5, FseReleasedOK
<1>7. c.detached => FseOK([c EXCEPT !.mem = "freed"])
  BY <1>2, <1>4 DEF FseOK, FseRecord
<1>8. FseOK(r)
  BY <1>3, <1>4, <1>6, <1>7
<1> QED BY <1>1, <1>8, FsePutKeeps

(* A step that writes one signal handler.  *)
LEMMA ShPutKeeps ==
  ASSUME WatchIInv, kind' = kind, NEW s \in Signals, NEW r, ShSet(s, r), ShOK(r)
  PROVE  WatchIInv'
<1>1. sh' = [sh EXCEPT ![s] = r] /\ fse' = fse /\ cb' = cb
  BY DEF ShSet
<1>2. r \in ShRecord
  BY DEF ShOK
<1>3. sh' \in [Signals -> ShRecord] /\ sh'[s] = r /\ \A q \in Signals : q # s => sh'[q] = sh[q]
  BY <1>1, <1>2 DEF WatchIInv
<1>4. \A q \in Signals : ShOK(sh'[q])
  BY <1>3 DEF WatchIInv
<1> QED BY <1>1, <1>3, <1>4 DEF WatchIInv

LEMMA SignalKeeps ==
  ASSUME WatchIInv, kind' = kind, NEW s \in Signals, Signal(s)
  PROVE  WatchIInv'
<1> DEFINE a == [NoSignal EXCEPT !.mem = "live", !.uv = "open", !.func = TRUE,
                                 !.obj = "alive", !.ref = TRUE]
           b == [NoSignal EXCEPT !.mem = "live", !.uv = "closing"]
<1>1. ShSet(s, a) \/ ShSet(s, b)
  BY DEF Signal
<1>2. NoSignal \in ShRecord /\ NoSignal.obj = "none" /\ ~NoSignal.ref
      /\ ~NoSignal.closed /\ ~NoSignal.finalized
  BY DEF NoSignal, ShRecord, HandleStates
<1>3. ShOK(a)
  <2>1. a \in ShRecord /\ a.mem = "live" /\ a.uv = "open" /\ a.func /\ a.obj = "alive"
        /\ ~a.closed /\ ~a.finalized
    BY <1>2 DEF ShRecord, HandleStates
  <2> QED BY <2>1 DEF ShOK
<1>4. ShOK(b)
  <2>1. b \in ShRecord /\ b.mem = "live" /\ b.uv = "closing" /\ b.obj = "none" /\ ~b.ref
        /\ ~b.closed /\ ~b.finalized
    BY <1>2 DEF ShRecord, HandleStates
  <2> QED BY <2>1 DEF ShOK
<1> HIDE DEF a, b
<1> QED BY <1>1, <1>3, <1>4, ShPutKeeps

LEMMA ShCloseKeeps ==
  ASSUME WatchIInv, kind' = kind, NEW s \in Signals, ShClose(s)
  PROVE  WatchIInv'
<1> DEFINE r == UvClose(sh[s])
<1>1. ShSet(s, r) /\ ShOK(sh[s])
  BY DEF ShClose, WatchIInv
<1>2. ShOK(r)
  <2>1. CASE sh[s].uv = "open"
    <3>1. r = [sh[s] EXCEPT !.uv = "closing"]
      BY <2>1 DEF UvClose
    <3> QED BY <1>1, <2>1, <3>1 DEF ShOK, ShRecord, HandleStates
  <2>2. CASE sh[s].uv # "open"
    BY <1>1, <2>2 DEF UvClose
  <2> QED BY <2>1, <2>2
<1> HIDE DEF r
<1> QED BY <1>1, <1>2, ShPutKeeps

LEMMA ShDropKeeps ==
  ASSUME WatchIInv, kind' = kind, NEW s \in Signals, ShDrop(s)
  PROVE  WatchIInv'
<1> DEFINE l == [sh[s] EXCEPT !.ref = FALSE]
           r == Released(l, ShFinalizer)
<1>1. ShSet(s, r) /\ ShOK(sh[s])
  BY DEF ShDrop, Lost, WatchIInv
<1>2. ShOK(l)
  BY <1>1 DEF ShOK, ShRecord
<1> HIDE DEF l
<1>3. ShOK(r)
  BY <1>2, ShReleasedOK
<1> HIDE DEF r
<1> QED BY <1>1, <1>3, ShPutKeeps

LEMMA ShCloseCbKeeps ==
  ASSUME WatchIInv, kind' = kind, NEW s \in Signals, ShCloseCb(s)
  PROVE  WatchIInv'
<1> DEFINE c == [sh[s] EXCEPT !.uv = "closed", !.closed = TRUE]
           r == IF c.finalized THEN [c EXCEPT !.mem = "freed"] ELSE c
<1>1. ShSet(s, r) /\ ShOK(sh[s]) /\ sh[s].uv = "closing"
  BY DEF ShCloseCb, WatchIInv
<1>2. c \in ShRecord /\ c.uv = "closed" /\ c.closed /\ c.mem = sh[s].mem /\ c.obj = sh[s].obj
      /\ c.finalized = sh[s].finalized /\ c.ref = sh[s].ref
  BY <1>1 DEF ShOK, ShRecord, HandleStates
<1> HIDE DEF c
<1>3. ShOK(c)
  BY <1>1, <1>2 DEF ShOK
<1>4. c.finalized => ShOK([c EXCEPT !.mem = "freed"])
  BY <1>2, <1>3 DEF ShOK, ShRecord
<1>5. ShOK(r)
  BY <1>3, <1>4
<1> HIDE DEF r
<1> QED BY <1>1, <1>5, ShPutKeeps

(* The callbacks that call JavaScript, and their returns.  *)
LEMMA WatchCbKeeps ==
  ASSUME WatchIInv, kind = "watch", kind' = kind,
         \/ \E f \in FsEvents : FseEventCb(f) \/ FseEventEnd(f)
         \/ \E s \in Signals : ShSignalCb(s) \/ ShSignalEnd(s)
  PROVE  WatchIInv'
<1>1. fse' = fse /\ sh' = sh
  BY DEF FseEventCb, FseEventEnd, ShSignalCb, ShSignalEnd
<1>2. cb' \in {NoHandle} \union FsEvents \union Signals
  BY DEF FseEventCb, FseEventEnd, ShSignalCb, ShSignalEnd
<1>3. ASSUME NEW g \in FsEvents, cb' = g PROVE fse[g].uv \in {"open", "closing"}
  BY <1>3, WatchAssumption DEF FseEventCb, FseEventEnd, ShSignalCb, ShSignalEnd
<1> QED BY <1>1, <1>2, <1>3 DEF WatchIInv

LEMMA WatchNextKeeps ==
  ASSUME WatchIInv, kind = "watch", kind' = kind, WatchNext PROVE WatchIInv'
  BY FsWatchKeeps, FseOpKeeps, FseCloseCbKeeps, SignalKeeps, ShCloseKeeps, ShDropKeeps,
     ShCloseCbKeeps, WatchCbKeeps DEF WatchNext

LEMMA WatchStutter ==
  ASSUME WatchIInv, kind' = kind, fse' = fse, sh' = sh, kind = "watch" => cb' = cb
  PROVE  WatchIInv'
  BY DEF WatchIInv

LEMMA WatchCollectedKeeps ==
  ASSUME WatchIInv, kind' = kind, cb' = cb, cb = NoHandle,
         fse' = FseCollected, sh' = ShCollected
  PROVE  WatchIInv'
<1>1. ASSUME NEW f \in FsEvents
      PROVE  FseOK(fse'[f]) /\ (fse[f].mem = "none" => fse'[f].mem = "none")
  <2> DEFINE l == [fse[f] EXCEPT !.ref = FALSE]
  <2>1. FseOK(l) /\ l.mem = fse[f].mem
    BY DEF WatchIInv, FseOK, FseRecord
  <2>2. fse'[f] = Released(l, FseFinalizer)
    BY DEF FseCollected, Collected
  <2> HIDE DEF l
  <2>3. FseOK(Released(l, FseFinalizer))
        /\ (l.mem = "none" => Released(l, FseFinalizer).mem = "none")
    BY <2>1, FseReleasedOK
  <2> QED BY <2>1, <2>2, <2>3
<1>2. ASSUME NEW s \in Signals PROVE ShOK(sh'[s])
  <2> DEFINE l == [sh[s] EXCEPT !.ref = FALSE]
  <2>0. ShOK(sh[s])
    BY DEF WatchIInv
  <2>1. ShOK(l)
    BY <2>0 DEF ShOK, ShRecord
  <2>2. sh'[s] = Released(l, ShFinalizer)
    BY DEF ShCollected, Collected
  <2> HIDE DEF l
  <2> QED BY <2>1, <2>2, ShReleasedOK
<1>3. fse' \in [FsEvents -> FseRecord]
  BY <1>1 DEF FseCollected, FseOK
<1>4. sh' \in [Signals -> ShRecord]
  BY <1>2 DEF ShCollected, ShOK
<1> QED BY <1>1, <1>2, <1>3, <1>4, WatchAssumption DEF WatchIInv

LEMMA WatchIInvImplies == WatchIInv => FseFreedWhenBothDone /\ ShSignalFindsHandler
<1> SUFFICES ASSUME WatchIInv PROVE FseFreedWhenBothDone /\ ShSignalFindsHandler
  OBVIOUS
<1>1. FseFreedWhenBothDone
  <2> SUFFICES ASSUME NEW f \in FsEvents, fse[f].mem = "freed"
               PROVE  fse[f].uv = "closed" /\ fse[f].obj # "alive" /\ cb # f
    BY DEF FseFreedWhenBothDone
  <2>1. fse[f].uv = "closed" /\ fse[f].obj # "alive"
    BY DEF WatchIInv, FseOK
  <2>2. cb # f
    BY <2>1 DEF WatchIInv
  <2> QED BY <2>1, <2>2
<1>2. ShSignalFindsHandler
  BY DEF ShSignalFindsHandler, WatchIInv, ShOK
<1> QED BY <1>1, <1>2

-----------------------------------------------------------------------------
(* Datagram sockets.                                                         *)

Answers == {"pending", "resolved", "rejected", "thrown"}

DgRecord ==
  [mem : {"none", "live", "freed"}, uv : HandleStates, closed : BOOLEAN, finalized : BOOLEAN,
   this_val : BOOLEAN, obj : {"none", "alive", "gone"}, ref : BOOLEAN,
   bound : BOOLEAN, receiving : BOOLEAN, on_message : BOOLEAN, option : BOOLEAN,
   queue : Seq(Nat), wire : Seq(Nat), result : Seq(Answers)]

(* The sends of one socket, q in flight, w gone, with the answers a: both    *)
(* are in the order of the calls and what has gone was called first.         *)
Ordered(s) == \A i, j \in 1..Len(s) : i < j => s[i] < s[j]
Marked(s, a, v) == \A i \in 1..Len(s) : s[i] \in 1..Len(a) /\ a[s[i]] = v
AllBefore(w, q) == \A i \in 1..Len(w), j \in 1..Len(q) : w[i] < q[j]
AllOnWire(w, a) == \A n \in 1..Len(a) : a[n] = "resolved" => \E i \in 1..Len(w) : w[i] = n

SendsOK(q, w, a) ==
  /\ q \in Seq(Nat) /\ w \in Seq(Nat) /\ a \in Seq(Answers)
  /\ Ordered(q) /\ Ordered(w) /\ AllBefore(w, q)
  /\ Marked(q, a, "pending") /\ Marked(w, a, "resolved") /\ AllOnWire(w, a)

LEMMA AppendFacts ==
  ASSUME NEW S, NEW s \in Seq(S), NEW e \in S
  PROVE  /\ Append(s, e) \in Seq(S) /\ Len(s) \in Nat /\ Len(Append(s, e)) = Len(s) + 1
         /\ Append(s, e)[Len(s) + 1] = e /\ Len(s) + 1 \in 1..Len(Append(s, e))
         /\ \A i \in 1..Len(s) : Append(s, e)[i] = s[i] /\ i \in 1..Len(Append(s, e))
         /\ \A i \in 1..Len(Append(s, e)) : i = Len(s) + 1 \/ i \in 1..Len(s)
  OBVIOUS

(* The oldest request in flight is taken off.  *)
LEMMA TailFacts ==
  ASSUME NEW q \in Seq(Nat), q # <<>>
  PROVE  /\ Tail(q) \in Seq(Nat) /\ Len(q) \in Nat /\ Len(q) >= 1 /\ Len(Tail(q)) = Len(q) - 1
         /\ Head(q) = q[1] /\ Head(q) \in Nat /\ 1 \in 1..Len(q)
         /\ \A i \in 1..Len(Tail(q)) : Tail(q)[i] = q[i + 1] /\ i + 1 \in 1..Len(q)
  OBVIOUS

LEMMA OrderedAppend ==
  ASSUME NEW s \in Seq(Nat), NEW n \in Nat, Ordered(s), \A i \in 1..Len(s) : s[i] < n
  PROVE  Ordered(Append(s, n))
<1> DEFINE v == Append(s, n)
<1> SUFFICES ASSUME NEW i \in 1..Len(v), NEW j \in 1..Len(v), i < j PROVE v[i] < v[j]
  BY DEF Ordered
<1>1. Len(s) \in Nat /\ Len(v) = Len(s) + 1 /\ v[Len(s) + 1] = n /\ \A k \in 1..Len(s) : v[k] = s[k]
  BY AppendFacts
<1> HIDE DEF v
<1>2. i \in 1..Len(s) /\ v[i] = s[i]
  BY <1>1
<1>3. CASE j = Len(s) + 1
  BY <1>1, <1>2, <1>3
<1>4. CASE j # Len(s) + 1
  <2>1. j \in 1..Len(s) /\ v[j] = s[j]
    BY <1>1, <1>4
  <2> QED BY <1>2, <2>1 DEF Ordered
<1> QED BY <1>3, <1>4

LEMMA OrderedTail ==
  ASSUME NEW q \in Seq(Nat), q # <<>>, Ordered(q)
  PROVE  Ordered(Tail(q)) /\ \A i \in 1..Len(Tail(q)) : Head(q) < Tail(q)[i]
<1> DEFINE p == Tail(q)
<1>1. Len(q) \in Nat /\ Len(p) = Len(q) - 1 /\ Head(q) = q[1] /\ 1 \in 1..Len(q)
      /\ \A i \in 1..Len(p) : p[i] = q[i + 1] /\ i + 1 \in 1..Len(q)
  BY TailFacts
<1> HIDE DEF p
<1>2. ASSUME NEW i \in 1..Len(p), NEW j \in 1..Len(p), i < j PROVE p[i] < p[j]
  <2>1. i + 1 \in 1..Len(q) /\ j + 1 \in 1..Len(q) /\ i + 1 < j + 1
    BY <1>1, <1>2
  <2>2. q[i + 1] < q[j + 1]
    BY <2>1 DEF Ordered
  <2> QED BY <1>1, <2>2
<1>3. ASSUME NEW i \in 1..Len(p) PROVE Head(q) < p[i]
  <2>1. i + 1 \in 1..Len(q) /\ 1 < i + 1
    BY <1>1
  <2>2. q[1] < q[i + 1]
    BY <1>1, <2>1 DEF Ordered
  <2> QED BY <1>1, <2>2
<1> QED BY <1>2, <1>3 DEF Ordered, p

LEMMA MarkedMore ==
  ASSUME NEW s, NEW a \in Seq(Answers), NEW v, NEW x \in Answers, Marked(s, a, v)
  PROVE  Marked(s, Append(a, x), v)
<1> DEFINE b == Append(a, x)
<1>1. \A i \in 1..Len(a) : b[i] = a[i] /\ i \in 1..Len(b)
  BY AppendFacts
<1> HIDE DEF b
<1>2. Marked(s, b, v)
  BY <1>1 DEF Marked
<1> QED BY <1>2 DEF b

LEMMA MarkedAppend ==
  ASSUME NEW s \in Seq(Nat), NEW a, NEW v, NEW n \in Nat, Marked(s, a, v),
         n \in 1..Len(a), a[n] = v
  PROVE  Marked(Append(s, n), a, v)
<1> DEFINE u == Append(s, n)
<1> SUFFICES ASSUME NEW i \in 1..Len(u) PROVE u[i] \in 1..Len(a) /\ a[u[i]] = v
  BY DEF Marked
<1>1. u[Len(s) + 1] = n /\ (i = Len(s) + 1 \/ i \in 1..Len(s)) /\ \A k \in 1..Len(s) : u[k] = s[k]
  BY AppendFacts
<1> HIDE DEF u
<1>2. CASE i = Len(s) + 1
  BY <1>1, <1>2
<1>3. CASE i \in 1..Len(s)
  <2>1. u[i] = s[i]
    BY <1>1, <1>3
  <2> QED BY <1>3, <2>1 DEF Marked
<1> QED BY <1>1, <1>2, <1>3

LEMMA MarkedTail ==
  ASSUME NEW q \in Seq(Nat), q # <<>>, NEW a, NEW v, Marked(q, a, v)
  PROVE  Marked(Tail(q), a, v) /\ Head(q) \in 1..Len(a) /\ a[Head(q)] = v
<1> DEFINE p == Tail(q)
<1>1. Head(q) = q[1] /\ 1 \in 1..Len(q)
      /\ \A i \in 1..Len(p) : p[i] = q[i + 1] /\ i + 1 \in 1..Len(q)
  BY TailFacts
<1> HIDE DEF p
<1>2. ASSUME NEW i \in 1..Len(p) PROVE p[i] \in 1..Len(a) /\ a[p[i]] = v
  <2>1. p[i] = q[i + 1] /\ i + 1 \in 1..Len(q)
    BY <1>1
  <2> QED BY <2>1 DEF Marked
<1>3. Marked(p, a, v)
  BY <1>2 DEF Marked
<1>4. Head(q) \in 1..Len(a) /\ a[Head(q)] = v
  BY <1>1 DEF Marked
<1> QED BY <1>3, <1>4 DEF p

(* The answer of a request other than those of s is given.  *)
LEMMA MarkedExcept ==
  ASSUME NEW s, NEW a \in Seq(Answers), NEW v, NEW h \in 1..Len(a), NEW x \in Answers,
         Marked(s, a, v), \A i \in 1..Len(s) : s[i] # h
  PROVE  Marked(s, [a EXCEPT ![h] = x], v)
<1> DEFINE b == [a EXCEPT ![h] = x]
<1>1. Len(b) = Len(a) /\ \A i \in 1..Len(a) : i # h => b[i] = a[i]
  OBVIOUS
<1> HIDE DEF b
<1>2. Marked(s, b, v)
  BY <1>1 DEF Marked
<1> QED BY <1>2 DEF b

LEMMA AnswerGiven ==
  ASSUME NEW a \in Seq(Answers), NEW h \in 1..Len(a), NEW x \in Answers
  PROVE  LET b == [a EXCEPT ![h] = x]
         IN  b \in Seq(Answers) /\ Len(b) = Len(a) /\ b[h] = x
             /\ \A i \in 1..Len(a) : i # h => b[i] = a[i]
  OBVIOUS

LEMMA SentAtOnce ==
  ASSUME NEW w, NEW a, SendsOK(<<>>, w, a)
  PROVE  SendsOK(<<>>, Append(w, Len(a) + 1), Append(a, "resolved"))
<1> DEFINE n == Len(a) + 1
           v == Append(w, n)
           b == Append(a, "resolved")
<1>1. w \in Seq(Nat) /\ a \in Seq(Answers) /\ "resolved" \in Answers /\ Len(a) \in Nat
      /\ Ordered(w) /\ Marked(w, a, "resolved") /\ AllOnWire(w, a)
  BY DEF SendsOK, Answers
<1>2. n \in Nat /\ \A i \in 1..Len(a) : i < n
  BY <1>1
<1>3. b \in Seq(Answers) /\ b[n] = "resolved" /\ n \in 1..Len(b)
      /\ (\A i \in 1..Len(a) : b[i] = a[i])
      /\ \A i \in 1..Len(b) : i = n \/ i \in 1..Len(a)
  BY <1>1, AppendFacts
<1>4. v \in Seq(Nat) /\ v[Len(w) + 1] = n /\ Len(w) + 1 \in 1..Len(v)
      /\ \A i \in 1..Len(w) : v[i] = w[i] /\ i \in 1..Len(v)
  BY <1>1, <1>2, AppendFacts
<1>5. \A i \in 1..Len(w) : w[i] < n
  BY <1>1, <1>2 DEF Marked
<1>6. Ordered(v)
  BY <1>1, <1>2, <1>5, OrderedAppend
<1>7. Marked(w, b, "resolved")
  BY <1>1, MarkedMore
<1> HIDE DEF b, n
<1>8. Marked(v, b, "resolved")
  BY <1>1, <1>2, <1>3, <1>7, MarkedAppend
<1> HIDE DEF v
<1>9. AllOnWire(v, b)
  <2> SUFFICES ASSUME NEW m \in 1..Len(b), b[m] = "resolved" PROVE \E i \in 1..Len(v) : v[i] = m
    BY DEF AllOnWire
  <2>1. CASE m = n
    BY <1>4, <2>1
  <2>2. CASE m # n
    <3>1. m \in 1..Len(a) /\ a[m] = "resolved"
      BY <1>3, <2>2
    <3>2. PICK i \in 1..Len(w) : w[i] = m
      BY <1>1, <3>1 DEF AllOnWire
    <3> QED BY <1>4, <3>2
  <2> QED BY <2>1, <2>2
<1>10. <<>> \in Seq(Nat) /\ Ordered(<<>>) /\ AllBefore(v, <<>>) /\ Marked(<<>>, b, "pending")
  BY DEF Ordered, AllBefore, Marked
<1>11. SendsOK(<<>>, v, b)
  BY <1>3, <1>4, <1>6, <1>8, <1>9, <1>10 DEF SendsOK
<1> QED BY <1>11 DEF v, b, n

LEMMA SendThrown ==
  ASSUME NEW q, NEW w, NEW a, SendsOK(q, w, a)
  PROVE  SendsOK(q, w, Append(a, "thrown"))
<1> DEFINE b == Append(a, "thrown")
<1>1. a \in Seq(Answers) /\ "thrown" \in Answers /\ AllOnWire(w, a)
      /\ Marked(q, a, "pending") /\ Marked(w, a, "resolved")
  BY DEF SendsOK, Answers
<1>2. b \in Seq(Answers) /\ b[Len(a) + 1] = "thrown"
      /\ (\A i \in 1..Len(a) : b[i] = a[i])
      /\ \A i \in 1..Len(b) : i = Len(a) + 1 \/ i \in 1..Len(a)
  BY <1>1, AppendFacts
<1>3. Marked(q, b, "pending") /\ Marked(w, b, "resolved")
  BY <1>1, MarkedMore
<1> HIDE DEF b
<1>4. AllOnWire(w, b)
  <2> SUFFICES ASSUME NEW m \in 1..Len(b), b[m] = "resolved" PROVE \E i \in 1..Len(w) : w[i] = m
    BY DEF AllOnWire
  <2>1. m \in 1..Len(a) /\ a[m] = "resolved"
    BY <1>2
  <2> QED BY <1>1, <2>1 DEF AllOnWire
<1>5. SendsOK(q, w, b)
  BY <1>2, <1>3, <1>4 DEF SendsOK
<1> QED BY <1>5 DEF b

LEMMA SendQueued ==
  ASSUME NEW q, NEW w, NEW a, SendsOK(q, w, a)
  PROVE  SendsOK(Append(q, Len(a) + 1), w, Append(a, "pending"))
<1> DEFINE n == Len(a) + 1
           p == Append(q, n)
           b == Append(a, "pending")
<1>1. q \in Seq(Nat) /\ w \in Seq(Nat) /\ a \in Seq(Answers) /\ "pending" \in Answers
      /\ Len(a) \in Nat /\ Ordered(q) /\ AllBefore(w, q) /\ AllOnWire(w, a)
      /\ Marked(q, a, "pending") /\ Marked(w, a, "resolved")
  BY DEF SendsOK, Answers
<1>2. n \in Nat /\ \A i \in 1..Len(a) : i < n
  BY <1>1
<1>3. b \in Seq(Answers) /\ b[n] = "pending" /\ n \in 1..Len(b)
      /\ (\A i \in 1..Len(a) : b[i] = a[i])
      /\ \A i \in 1..Len(b) : i = n \/ i \in 1..Len(a)
  BY <1>1, AppendFacts
<1>4. p \in Seq(Nat) /\ p[Len(q) + 1] = n /\ (\A i \in 1..Len(q) : p[i] = q[i])
      /\ \A i \in 1..Len(p) : i = Len(q) + 1 \/ i \in 1..Len(q)
  BY <1>1, <1>2, AppendFacts
<1>5. (\A i \in 1..Len(q) : q[i] < n) /\ (\A i \in 1..Len(w) : w[i] < n)
  BY <1>1, <1>2 DEF Marked
<1>6. Ordered(p)
  BY <1>1, <1>2, <1>5, OrderedAppend
<1>7. Marked(q, b, "pending") /\ Marked(w, b, "resolved")
  BY <1>1, MarkedMore
<1> HIDE DEF b, n
<1>8. Marked(p, b, "pending")
  BY <1>1, <1>2, <1>3, <1>7, MarkedAppend
<1> HIDE DEF p
<1>9. AllOnWire(w, b)
  <2> SUFFICES ASSUME NEW m \in 1..Len(b), b[m] = "resolved" PROVE \E i \in 1..Len(w) : w[i] = m
    BY DEF AllOnWire
  <2>1. m \in 1..Len(a) /\ a[m] = "resolved"
    BY <1>3
  <2> QED BY <1>1, <2>1 DEF AllOnWire
<1>10. AllBefore(w, p)
  <2> SUFFICES ASSUME NEW i \in 1..Len(w), NEW j \in 1..Len(p) PROVE w[i] < p[j]
    BY DEF AllBefore
  <2>1. CASE j = Len(q) + 1
    BY <1>4, <1>5, <2>1
  <2>2. CASE j \in 1..Len(q)
    BY <1>1, <1>4, <2>2 DEF AllBefore
  <2> QED BY <1>4, <2>1, <2>2
<1>11. SendsOK(p, w, b)
  BY <1>3, <1>4, <1>6, <1>7, <1>8, <1>9, <1>10 DEF SendsOK
<1> QED BY <1>11 DEF p, b, n

LEMMA SendRejected ==
  ASSUME NEW q, NEW w, NEW a, SendsOK(q, w, a), q # <<>>
  PROVE  SendsOK(Tail(q), w, [a EXCEPT ![Head(q)] = "rejected"])
<1> DEFINE h == Head(q)
           p == Tail(q)
           b == [a EXCEPT ![h] = "rejected"]
<1>1. q \in Seq(Nat) /\ w \in Seq(Nat) /\ a \in Seq(Answers) /\ "rejected" \in Answers
      /\ Ordered(q) /\ AllBefore(w, q) /\ AllOnWire(w, a)
      /\ Marked(q, a, "pending") /\ Marked(w, a, "resolved")
  BY DEF SendsOK, Answers
<1>2. p \in Seq(Nat) /\ h = q[1] /\ 1 \in 1..Len(q) /\ h \in Nat
      /\ \A i \in 1..Len(p) : p[i] = q[i + 1] /\ i + 1 \in 1..Len(q)
  BY <1>1, TailFacts
<1>3. Ordered(p) /\ (\A i \in 1..Len(p) : h < p[i]) /\ Marked(p, a, "pending") /\ h \in 1..Len(a)
  BY <1>1, OrderedTail, MarkedTail
<1>4. \A i \in 1..Len(w) : w[i] \in 1..Len(a) /\ w[i] < h
  BY <1>1, <1>2 DEF AllBefore, Marked
<1>5. (\A i \in 1..Len(w) : w[i] # h) /\ (\A i \in 1..Len(p) : p[i] # h)
  BY <1>2, <1>3, <1>4
<1>6. b \in Seq(Answers) /\ Len(b) = Len(a) /\ b[h] = "rejected"
      /\ \A i \in 1..Len(a) : i # h => b[i] = a[i]
  BY <1>1, <1>3, AnswerGiven
<1>7. Marked(p, b, "pending") /\ Marked(w, b, "resolved")
  BY <1>1, <1>3, <1>5, MarkedExcept
<1> HIDE DEF b, h, p
<1>8. AllOnWire(w, b)
  BY <1>1, <1>6 DEF AllOnWire
<1>9. AllBefore(w, p)
  BY <1>1, <1>2 DEF AllBefore
<1>10. SendsOK(p, w, b)
  BY <1>1, <1>2, <1>3, <1>6, <1>7, <1>8, <1>9 DEF SendsOK
<1> QED BY <1>10 DEF p, b, h

LEMMA SendResolved ==
  ASSUME NEW q, NEW w, NEW a, SendsOK(q, w, a), q # <<>>
  PROVE  SendsOK(Tail(q), Append(w, Head(q)), [a EXCEPT ![Head(q)] = "resolved"])
<1> DEFINE h == Head(q)
           p == Tail(q)
           v == Append(w, h)
           b == [a EXCEPT ![h] = "resolved"]
<1>1. q \in Seq(Nat) /\ w \in Seq(Nat) /\ a \in Seq(Answers) /\ "resolved" \in Answers
      /\ Ordered(q) /\ Ordered(w) /\ AllBefore(w, q) /\ AllOnWire(w, a)
      /\ Marked(q, a, "pending") /\ Marked(w, a, "resolved")
  BY DEF SendsOK, Answers
<1>2. p \in Seq(Nat) /\ h = q[1] /\ 1 \in 1..Len(q) /\ h \in Nat
      /\ \A i \in 1..Len(p) : p[i] = q[i + 1] /\ i + 1 \in 1..Len(q)
  BY <1>1, TailFacts
<1>3. Ordered(p) /\ (\A i \in 1..Len(p) : h < p[i]) /\ Marked(p, a, "pending") /\ h \in 1..Len(a)
  BY <1>1, OrderedTail, MarkedTail
<1>4. \A i \in 1..Len(w) : w[i] \in 1..Len(a) /\ w[i] < h
  BY <1>1, <1>2 DEF AllBefore, Marked
<1>5. (\A i \in 1..Len(w) : w[i] # h) /\ (\A i \in 1..Len(p) : p[i] # h)
  BY <1>2, <1>3, <1>4
<1>6. b \in Seq(Answers) /\ Len(b) = Len(a) /\ b[h] = "resolved"
      /\ \A i \in 1..Len(a) : i # h => b[i] = a[i]
  BY <1>1, <1>3, AnswerGiven
<1>7. Marked(p, b, "pending") /\ Marked(w, b, "resolved")
  BY <1>1, <1>3, <1>5, MarkedExcept
<1>v. v \in Seq(Nat) /\ v[Len(w) + 1] = h /\ Len(w) + 1 \in 1..Len(v)
      /\ (\A i \in 1..Len(w) : v[i] = w[i] /\ i \in 1..Len(v))
      /\ \A i \in 1..Len(v) : i = Len(w) + 1 \/ i \in 1..Len(w)
  BY <1>1, <1>2, AppendFacts
<1> HIDE DEF b, h, p
<1>8. Ordered(v)
  BY <1>1, <1>2, <1>4, OrderedAppend
<1>9. Marked(v, b, "resolved")
  BY <1>1, <1>2, <1>3, <1>6, <1>7, MarkedAppend
<1> HIDE DEF v
<1>10. AllOnWire(v, b)
  <2> SUFFICES ASSUME NEW n \in 1..Len(b), b[n] = "resolved" PROVE \E i \in 1..Len(v) : v[i] = n
    BY DEF AllOnWire
  <2>1. CASE n = h
    BY <1>v, <2>1
  <2>2. CASE n # h
    <3>1. PICK i \in 1..Len(w) : w[i] = n
      BY <1>1, <1>6, <2>2 DEF AllOnWire
    <3> QED BY <1>v, <3>1
  <2> QED BY <2>1, <2>2
<1>11. AllBefore(v, p)
  <2> SUFFICES ASSUME NEW i \in 1..Len(v), NEW j \in 1..Len(p) PROVE v[i] < p[j]
    BY DEF AllBefore
  <2>1. CASE i = Len(w) + 1
    BY <1>v, <1>3, <2>1
  <2>2. CASE i \in 1..Len(w)
    BY <1>1, <1>2, <1>v, <2>2 DEF AllBefore
  <2> QED BY <1>v, <2>1, <2>2
<1>12. SendsOK(p, v, b)
  BY <1>v, <1>2, <1>3, <1>6, <1>7, <1>8, <1>9, <1>10, <1>11 DEF SendsOK
<1> QED BY <1>12 DEF p, b, h, v

(* One QNDgram: the handle is read only while it is open, and has no request *)
(* left when it is closed.                                                   *)
DgLife(r) ==
  /\ r.mem = "none" => r.uv = "none"
  /\ r.closed <=> r.uv = "closed"
  /\ r.finalized <=> r.obj = "gone"
  /\ r.this_val \/ r.ref => r.obj = "alive"
  /\ r.obj = "alive" => r.mem = "live"
  /\ r.mem = "freed" => r.closed /\ r.finalized
  /\ r.closed => r.queue = <<>>
  /\ r.receiving => r.uv = "open"

DgOK(r) == r \in DgRecord /\ DgLife(r) /\ SendsOK(r.queue, r.wire, r.result)

(* this_val is held until the close callback.  *)
DgPinned(r) == r.obj = "alive" /\ r.uv # "closed" => r.this_val

DgIInv ==
  /\ dg \in [Dgrams -> DgRecord]
  /\ \A d \in Dgrams : DgOK(dg[d])
  /\ phase = "run" => \A d \in Dgrams : DgPinned(dg[d])
  /\ kind = "dgram" =>
       /\ cb \in {NoHandle} \union Dgrams
       /\ \A d \in Dgrams : cb = d => dg[d].uv \in {"open", "closing"}
  /\ kind # "dgram" => \A d \in Dgrams : dg[d].mem = "none"

LEMMA DgReleasedOK ==
  ASSUME NEW r, DgOK(r), Unheld(r) => ~r.receiving
  PROVE  LET s == Released(r, DgFinalizer)
         IN  /\ DgOK(s)
             /\ s.uv = "closed" <=> r.uv = "closed"
             /\ s.uv = "none" <=> r.uv = "none"
             /\ DgPinned(r) => DgPinned(s)
             /\ r.mem = "none" => s.mem = "none"
<1> DEFINE f == [r EXCEPT !.on_message = FALSE, !.this_val = FALSE,
                          !.finalized = TRUE, !.obj = "gone"]
           s == Released(r, DgFinalizer)
<1>1. CASE ~Unheld(r)
  BY <1>1 DEF Released
<1>2. CASE Unheld(r)
  <2>1. s = IF f.closed THEN DgMaybeFree(f) ELSE UvClose(f)
    BY <1>2 DEF Released, DgFinalizer
  <2>2. f \in DgRecord /\ f.finalized /\ ~f.this_val /\ ~f.ref /\ f.obj = "gone"
        /\ f.mem = "live" /\ f.uv = r.uv /\ f.closed = r.closed /\ ~f.receiving
        /\ f.queue = r.queue /\ f.wire = r.wire /\ f.result = r.result
    BY <1>2 DEF DgOK, DgLife, DgRecord, Unheld
  <2> HIDE DEF f, s
  <2>3. CASE f.closed
    <3>1. s = [f EXCEPT !.mem = "freed"]
      BY <2>1, <2>2, <2>3 DEF DgMaybeFree
    <3>2. s \in DgRecord /\ s.finalized /\ ~s.this_val /\ ~s.ref /\ s.obj = "gone"
          /\ s.mem = "freed" /\ s.uv = r.uv /\ s.closed = r.closed /\ ~s.receiving
          /\ s.queue = r.queue /\ s.wire = r.wire /\ s.result = r.result
      BY <2>2, <3>1 DEF DgRecord
    <3> QED BY <1>2, <2>2, <2>3, <3>2 DEF DgOK, DgLife, DgPinned, Unheld, s
  <2>4. CASE ~f.closed
    <3>1. s = UvClose(f)
      BY <2>1, <2>4
    <3>2. s \in DgRecord /\ s.finalized /\ ~s.this_val /\ ~s.ref /\ s.obj = "gone"
          /\ s.mem = "live" /\ s.closed = r.closed /\ ~s.receiving
          /\ s.uv = (IF r.uv = "open" THEN "closing" ELSE r.uv)
          /\ s.queue = r.queue /\ s.wire = r.wire /\ s.result = r.result
      BY <2>2, <3>1 DEF DgRecord, UvClose, HandleStates
    <3> QED BY <1>2, <2>2, <2>4, <3>2 DEF DgOK, DgLife, DgPinned, Unheld, s
  <2> QED BY <2>3, <2>4
<1> QED BY <1>1, <1>2

(* A step that writes one socket and may enter or leave its callback.  *)
LEMMA DgPutKeeps ==
  ASSUME DgIInv, kind = "dgram", kind' = kind, NEW d \in Dgrams, NEW r,
         DgPut(d, r), DgOK(r), phase = "run" => DgPinned(r),
         cb' \in {cb, d, NoHandle}, cb' = d => r.uv \in {"open", "closing"}
  PROVE  DgIInv'
<1>1. dg' = [dg EXCEPT ![d] = r] /\ phase' = phase
  BY DEF DgPut
<1>2. r \in DgRecord
  BY DEF DgOK
<1>3. dg' \in [Dgrams -> DgRecord] /\ dg'[d] = r
      /\ \A e \in Dgrams : e # d => dg'[e] = dg[e]
  BY <1>1, <1>2 DEF DgIInv
<1>4. \A e \in Dgrams : DgOK(dg'[e])
  BY <1>3 DEF DgIInv
<1>5. phase' = "run" => \A e \in Dgrams : DgPinned(dg'[e])
  BY <1>1, <1>3 DEF DgIInv
<1>6. cb' \in {NoHandle} \union Dgrams
  BY DEF DgIInv
<1>7. ASSUME NEW e \in Dgrams, cb' = e PROVE dg'[e].uv \in {"open", "closing"}
  BY <1>3, <1>7, DgramAssumption DEF DgIInv
<1> QED BY <1>3, <1>4, <1>5, <1>6, <1>7 DEF DgIInv

LEMMA NoDgramOK ==
  /\ NoDgram \in DgRecord /\ NoDgram.mem = "none" /\ NoDgram.uv = "none" /\ NoDgram.obj = "none"
  /\ ~NoDgram.closed /\ ~NoDgram.finalized /\ ~NoDgram.this_val /\ ~NoDgram.ref
  /\ ~NoDgram.receiving /\ NoDgram.queue = <<>> /\ NoDgram.wire = <<>> /\ NoDgram.result = <<>>
  BY DEF NoDgram, DgRecord, HandleStates

LEMMA NothingSentOK == SendsOK(<<>>, <<>>, <<>>)
  BY DEF SendsOK, Ordered, Marked, AllBefore, AllOnWire

LEMMA DgNewKeeps ==
  ASSUME DgIInv, kind = "dgram", kind' = kind, NEW d \in Dgrams, DgNew(d)
  PROVE  DgIInv'
<1>1. PICK r \in {DgNewRecord, DgUnwrapped} : DgPut(d, r)
  BY DEF DgNew, DgSet
<1>2. cb' = cb /\ cb # d
  BY DEF DgNew, DgSet, DgIInv, DgOK, DgLife
<1>3. DgOK(DgNewRecord) /\ DgPinned(DgNewRecord)
  <2> DEFINE n == DgNewRecord
  <2>1. n \in DgRecord /\ n.mem = "live" /\ n.uv = "open" /\ n.obj = "alive" /\ n.this_val
        /\ ~n.closed /\ ~n.finalized /\ ~n.receiving
        /\ n.queue = <<>> /\ n.wire = <<>> /\ n.result = <<>>
    BY NoDgramOK DEF DgNewRecord, DgRecord, HandleStates
  <2> QED BY <2>1, NothingSentOK DEF DgOK, DgLife, DgPinned
<1>4. DgOK(DgUnwrapped) /\ DgPinned(DgUnwrapped)
  <2> DEFINE n == DgUnwrapped
  <2>1. n \in DgRecord /\ n.mem = "live" /\ n.uv = "closing" /\ n.obj = "none"
        /\ ~n.closed /\ ~n.finalized /\ ~n.receiving /\ ~n.this_val /\ ~n.ref
        /\ n.queue = <<>> /\ n.wire = <<>> /\ n.result = <<>>
    BY NoDgramOK DEF DgUnwrapped, DgRecord, HandleStates
  <2> QED BY <2>1, NothingSentOK DEF DgOK, DgLife, DgPinned
<1> QED BY <1>1, <1>2, <1>3, <1>4, DgPutKeeps

(* The operations that change neither the life of the struct nor its sends.  *)
LEMMA DgSameKeeps ==
  ASSUME DgIInv, kind = "dgram", kind' = kind, NEW d \in Dgrams, NEW r \in DgRecord,
         DgSet(d, r),
         /\ r.mem = dg[d].mem /\ r.uv = dg[d].uv /\ r.closed = dg[d].closed
         /\ r.finalized = dg[d].finalized /\ r.this_val = dg[d].this_val
         /\ r.obj = dg[d].obj /\ r.ref = dg[d].ref
         /\ r.queue = dg[d].queue /\ r.wire = dg[d].wire /\ r.result = dg[d].result,
         r.receiving => dg[d].receiving \/ dg[d].uv = "open"
  PROVE  DgIInv'
<1>1. DgOK(dg[d]) /\ (phase = "run" => DgPinned(dg[d]))
      /\ (cb = d => dg[d].uv \in {"open", "closing"})
  BY DEF DgIInv
<1>2. DgOK(r) /\ (DgPinned(dg[d]) => DgPinned(r))
  BY <1>1 DEF DgOK, DgLife, DgPinned
<1>3. DgPut(d, r) /\ cb' = cb
  BY DEF DgSet
<1> QED BY <1>1, <1>2, <1>3, DgPutKeeps

LEMMA DgPlainKeeps ==
  ASSUME DgIInv, kind = "dgram", kind' = kind, NEW d \in Dgrams,
         DgBind(d) \/ DgSetOption(d) \/ DgRecvStart(d) \/ DgRecvStop(d) \/ DgSetOnMessage(d)
  PROVE  DgIInv'
<1>0. dg[d] \in DgRecord
  BY DEF DgIInv
<1>1. CASE DgBind(d)
  <2> DEFINE r == [dg[d] EXCEPT !.bound = TRUE]
  <2>1. DgSet(d, r)
    BY <1>1 DEF DgBind
  <2>2. r \in DgRecord
         /\ r.mem = dg[d].mem /\ r.uv = dg[d].uv /\ r.closed = dg[d].closed
         /\ r.finalized = dg[d].finalized /\ r.this_val = dg[d].this_val
         /\ r.obj = dg[d].obj /\ r.ref = dg[d].ref /\ r.receiving = dg[d].receiving
         /\ r.queue = dg[d].queue /\ r.wire = dg[d].wire /\ r.result = dg[d].result
    BY <1>0 DEF DgRecord
  <2> HIDE DEF r
  <2> QED BY <2>1, <2>2, DgSameKeeps
<1>2. CASE DgSetOption(d)
  <2> DEFINE r == [dg[d] EXCEPT !.option = TRUE]
  <2>1. DgSet(d, r)
    BY <1>2 DEF DgSetOption
  <2>2. r \in DgRecord
         /\ r.mem = dg[d].mem /\ r.uv = dg[d].uv /\ r.closed = dg[d].closed
         /\ r.finalized = dg[d].finalized /\ r.this_val = dg[d].this_val
         /\ r.obj = dg[d].obj /\ r.ref = dg[d].ref /\ r.receiving = dg[d].receiving
         /\ r.queue = dg[d].queue /\ r.wire = dg[d].wire /\ r.result = dg[d].result
    BY <1>0 DEF DgRecord
  <2> HIDE DEF r
  <2> QED BY <2>1, <2>2, DgSameKeeps
<1>3. CASE DgRecvStart(d)
  <2> DEFINE r == [dg[d] EXCEPT !.receiving = TRUE, !.bound = TRUE]
  <2>1. DgSet(d, r) /\ dg[d].uv = "open"
    BY <1>3 DEF DgRecvStart
  <2>2. r \in DgRecord
         /\ r.mem = dg[d].mem /\ r.uv = dg[d].uv /\ r.closed = dg[d].closed
         /\ r.finalized = dg[d].finalized /\ r.this_val = dg[d].this_val
         /\ r.obj = dg[d].obj /\ r.ref = dg[d].ref
         /\ r.queue = dg[d].queue /\ r.wire = dg[d].wire /\ r.result = dg[d].result
    BY <1>0 DEF DgRecord
  <2> HIDE DEF r
  <2> QED BY <2>1, <2>2, DgSameKeeps
<1>4. CASE DgRecvStop(d)
  <2> DEFINE r == [dg[d] EXCEPT !.receiving = FALSE]
  <2>1. DgSet(d, r)
    BY <1>4 DEF DgRecvStop
  <2>2. r \in DgRecord /\ ~r.receiving
         /\ r.mem = dg[d].mem /\ r.uv = dg[d].uv /\ r.closed = dg[d].closed
         /\ r.finalized = dg[d].finalized /\ r.this_val = dg[d].this_val
         /\ r.obj = dg[d].obj /\ r.ref = dg[d].ref
         /\ r.queue = dg[d].queue /\ r.wire = dg[d].wire /\ r.result = dg[d].result
    BY <1>0 DEF DgRecord
  <2> HIDE DEF r
  <2> QED BY <2>1, <2>2, DgSameKeeps
<1>5. CASE DgSetOnMessage(d)
  <2>0. PICK b \in BOOLEAN : DgSet(d, [dg[d] EXCEPT !.on_message = b])
    BY <1>5 DEF DgSetOnMessage
  <2> DEFINE r == [dg[d] EXCEPT !.on_message = b]
  <2>1. DgSet(d, r)
    BY <2>0
  <2>2. r \in DgRecord
         /\ r.mem = dg[d].mem /\ r.uv = dg[d].uv /\ r.closed = dg[d].closed
         /\ r.finalized = dg[d].finalized /\ r.this_val = dg[d].this_val
         /\ r.obj = dg[d].obj /\ r.ref = dg[d].ref /\ r.receiving = dg[d].receiving
         /\ r.queue = dg[d].queue /\ r.wire = dg[d].wire /\ r.result = dg[d].result
    BY <1>0 DEF DgRecord
  <2> HIDE DEF r
  <2> QED BY <2>1, <2>2, DgSameKeeps
<1> QED BY <1>1, <1>2, <1>3, <1>4, <1>5

LEMMA DgCloseKeeps ==
  ASSUME DgIInv, kind = "dgram", kind' = kind, NEW d \in Dgrams, DgClose(d)
  PROVE  DgIInv'
<1> DEFINE c == [dg[d] EXCEPT !.receiving = FALSE]
           r == UvClose(c)
<1>1. DgPut(d, r) /\ cb' = cb /\ dg[d].uv = "open"
  BY DEF DgClose, DgSet
<1>2. DgOK(dg[d]) /\ (phase = "run" => DgPinned(dg[d]))
  BY DEF DgIInv
<1>3. c \in DgRecord /\ c.uv = "open" /\ ~c.receiving
      /\ c.mem = dg[d].mem /\ c.closed = dg[d].closed
      /\ c.finalized = dg[d].finalized /\ c.this_val = dg[d].this_val
      /\ c.obj = dg[d].obj /\ c.ref = dg[d].ref
      /\ c.queue = dg[d].queue /\ c.wire = dg[d].wire /\ c.result = dg[d].result
  BY <1>1, <1>2 DEF DgOK, DgRecord
<1> HIDE DEF c
<1>4. r \in DgRecord /\ r.uv = "closing" /\ ~r.receiving
      /\ r.mem = dg[d].mem /\ r.closed = dg[d].closed
      /\ r.finalized = dg[d].finalized /\ r.this_val = dg[d].this_val
      /\ r.obj = dg[d].obj /\ r.ref = dg[d].ref
      /\ r.queue = dg[d].queue /\ r.wire = dg[d].wire /\ r.result = dg[d].result
  BY <1>3 DEF UvClose, DgRecord, HandleStates
<1> HIDE DEF r
<1>5. DgOK(r) /\ (DgPinned(dg[d]) => DgPinned(r))
  BY <1>1, <1>2, <1>4 DEF DgOK, DgLife, DgPinned
<1> QED BY <1>1, <1>2, <1>4, <1>5, DgPutKeeps

LEMMA DgDropKeeps ==
  ASSUME DgIInv, kind = "dgram", kind' = kind, NEW d \in Dgrams, DgDrop(d)
  PROVE  DgIInv'
<1> DEFINE l == [dg[d] EXCEPT !.ref = FALSE]
           r == Released(l, DgFinalizer)
<1>1. DgPut(d, r) /\ cb' = cb /\ phase = "run"
  BY DEF DgDrop, DgSet, Lost, DgReachable, Running
<1>2. DgOK(dg[d]) /\ DgPinned(dg[d]) /\ (cb = d => dg[d].uv \in {"open", "closing"})
  BY <1>1 DEF DgIInv
<1>3. l \in DgRecord /\ l.uv = dg[d].uv /\ l.receiving = dg[d].receiving
      /\ l.mem = dg[d].mem /\ l.closed = dg[d].closed
      /\ l.finalized = dg[d].finalized /\ l.this_val = dg[d].this_val
      /\ l.obj = dg[d].obj /\ ~l.ref
      /\ l.queue = dg[d].queue /\ l.wire = dg[d].wire /\ l.result = dg[d].result
  BY <1>2 DEF DgOK, DgRecord
<1> HIDE DEF l
<1>4. DgOK(l) /\ DgPinned(l) /\ (Unheld(l) => ~l.receiving)
  BY <1>2, <1>3 DEF DgOK, DgLife, DgPinned, Unheld
<1>5. DgOK(r) /\ DgPinned(r) /\ (r.uv = "closed" <=> l.uv = "closed")
      /\ (r.uv = "none" <=> l.uv = "none")
  BY <1>4, DgReleasedOK
<1> HIDE DEF r
<1>6. r.uv \in {"none", "open", "closing", "closed"}
  BY <1>5 DEF DgOK, DgRecord, HandleStates
<1> QED BY <1>1, <1>2, <1>3, <1>5, <1>6, DgPutKeeps

(* The operations that only change the sends.  *)
LEMMA DgSendsKeep ==
  ASSUME DgIInv, kind = "dgram", kind' = kind, NEW d \in Dgrams, NEW r \in DgRecord,
         DgSet(d, r),
         /\ r.mem = dg[d].mem /\ r.uv = dg[d].uv /\ r.closed = dg[d].closed
         /\ r.finalized = dg[d].finalized /\ r.this_val = dg[d].this_val
         /\ r.obj = dg[d].obj /\ r.ref = dg[d].ref /\ r.receiving = dg[d].receiving,
         SendsOK(r.queue, r.wire, r.result), dg[d].uv # "closed"
  PROVE  DgIInv'
<1>1. DgOK(dg[d]) /\ (phase = "run" => DgPinned(dg[d]))
      /\ (cb = d => dg[d].uv \in {"open", "closing"})
  BY DEF DgIInv
<1>2. DgOK(r) /\ (DgPinned(dg[d]) => DgPinned(r))
  BY <1>1 DEF DgOK, DgLife, DgPinned
<1>3. DgPut(d, r) /\ cb' = cb
  BY DEF DgSet
<1> QED BY <1>1, <1>2, <1>3, DgPutKeeps

LEMMA DgSendKeeps ==
  ASSUME DgIInv, kind = "dgram", kind' = kind, NEW d \in Dgrams, DgSend(d)
  PROVE  DgIInv'
<1> DEFINE b == [dg[d] EXCEPT !.bound = TRUE]
           num == Len(b.result) + 1
<1>1. PICK n \in TrySend(dg[d]) : DgSet(d, DgSendResult(b, n))
  BY DEF DgSend
<1>2. dg[d].uv = "open"
  BY DEF DgSend
<1>3. DgOK(dg[d]) /\ dg[d] \in DgRecord
  BY DEF DgIInv, DgOK
<1>4. b \in DgRecord
      /\ b.mem = dg[d].mem /\ b.uv = dg[d].uv /\ b.closed = dg[d].closed
      /\ b.finalized = dg[d].finalized /\ b.this_val = dg[d].this_val
      /\ b.obj = dg[d].obj /\ b.ref = dg[d].ref /\ b.receiving = dg[d].receiving
      /\ b.queue = dg[d].queue /\ b.wire = dg[d].wire /\ b.result = dg[d].result
  BY <1>3 DEF DgRecord
<1>5. SendsOK(b.queue, b.wire, b.result)
  BY <1>3, <1>4 DEF DgOK
<1>6. num \in Nat /\ b.queue \in Seq(Nat) /\ b.wire \in Seq(Nat) /\ b.result \in Seq(Answers)
  BY <1>5 DEF SendsOK
<1>7. n \in {"sent", "error", "EAGAIN"} /\ (n = "sent" => b.queue = <<>>)
  BY <1>4 DEF TrySend
<1>8. DgSendResult(b, n) =
        CASE n = "sent"  -> [b EXCEPT !.wire = Append(@, num), !.result = Append(@, "resolved")]
          [] n = "error" -> [b EXCEPT !.result = Append(@, "thrown")]
          [] n = "EAGAIN" -> [b EXCEPT !.queue = Append(@, num), !.result = Append(@, "pending")]
  BY DEF DgSendResult
<1> HIDE DEF b
<1>9. CASE n = "sent"
  <2> DEFINE w == Append(b.wire, num)
             a == Append(b.result, "resolved")
             r == [b EXCEPT !.wire = w, !.result = a]
  <2>1. DgSet(d, r)
    BY <1>1, <1>8, <1>9
  <2>2. SendsOK(b.queue, w, a)
    BY <1>5, <1>7, <1>9, SentAtOnce
  <2>3. w \in Seq(Nat) /\ a \in Seq(Answers)
    BY <2>2 DEF SendsOK
  <2> HIDE DEF w, a
  <2>4. r \in DgRecord
      /\ r.mem = dg[d].mem /\ r.uv = dg[d].uv /\ r.closed = dg[d].closed
      /\ r.finalized = dg[d].finalized /\ r.this_val = dg[d].this_val
      /\ r.obj = dg[d].obj /\ r.ref = dg[d].ref /\ r.receiving = dg[d].receiving
      /\ r.queue = b.queue /\ r.wire = w /\ r.result = a
    BY <1>4, <2>3 DEF DgRecord
  <2> HIDE DEF r
  <2> QED BY <1>2, <2>1, <2>2, <2>4, DgSendsKeep
<1>10. CASE n = "error"
  <2> DEFINE a == Append(b.result, "thrown")
             r == [b EXCEPT !.result = a]
  <2>1. DgSet(d, r)
    BY <1>1, <1>8, <1>10
  <2>2. SendsOK(b.queue, b.wire, a)
    BY <1>5, SendThrown
  <2>3. a \in Seq(Answers)
    BY <2>2 DEF SendsOK
  <2> HIDE DEF a
  <2>4. r \in DgRecord
      /\ r.mem = dg[d].mem /\ r.uv = dg[d].uv /\ r.closed = dg[d].closed
      /\ r.finalized = dg[d].finalized /\ r.this_val = dg[d].this_val
      /\ r.obj = dg[d].obj /\ r.ref = dg[d].ref /\ r.receiving = dg[d].receiving
      /\ r.queue = b.queue /\ r.wire = b.wire /\ r.result = a
    BY <1>4, <2>3 DEF DgRecord
  <2> HIDE DEF r
  <2> QED BY <1>2, <2>1, <2>2, <2>4, DgSendsKeep
<1>11. CASE n = "EAGAIN"
  <2> DEFINE q == Append(b.queue, num)
             a == Append(b.result, "pending")
             r == [b EXCEPT !.queue = q, !.result = a]
  <2>1. DgSet(d, r)
    BY <1>1, <1>8, <1>11
  <2>2. SendsOK(q, b.wire, a)
    BY <1>5, SendQueued
  <2>3. q \in Seq(Nat) /\ a \in Seq(Answers)
    BY <2>2 DEF SendsOK
  <2> HIDE DEF q, a
  <2>4. r \in DgRecord
      /\ r.mem = dg[d].mem /\ r.uv = dg[d].uv /\ r.closed = dg[d].closed
      /\ r.finalized = dg[d].finalized /\ r.this_val = dg[d].this_val
      /\ r.obj = dg[d].obj /\ r.ref = dg[d].ref /\ r.receiving = dg[d].receiving
      /\ r.queue = q /\ r.wire = b.wire /\ r.result = a
    BY <1>4, <2>3 DEF DgRecord
  <2> HIDE DEF r
  <2> QED BY <1>2, <2>1, <2>2, <2>4, DgSendsKeep
<1> QED BY <1>7, <1>9, <1>10, <1>11

LEMMA DgSendCbKeeps ==
  ASSUME DgIInv, kind = "dgram", kind' = kind, NEW d \in Dgrams, DgSendCb(d)
  PROVE  DgIInv'
<1> DEFINE q == Tail(dg[d].queue)
           h == Head(dg[d].queue)
           w == Append(dg[d].wire, h)
           a == [dg[d].result EXCEPT ![h] = "resolved"]
           z == [dg[d].result EXCEPT ![h] = "rejected"]
           b == [dg[d] EXCEPT !.queue = q]
           x == [dg[d] EXCEPT !.queue = q, !.wire = w, !.result = a]
           y == [dg[d] EXCEPT !.queue = q, !.result = z]
<1>1. DgOK(dg[d]) /\ dg[d] \in DgRecord /\ dg[d].queue # <<>>
  BY DEF DgIInv, DgOK, DgSendCb
<1>2. SendsOK(q, w, a) /\ SendsOK(q, dg[d].wire, z)
  BY <1>1, SendResolved, SendRejected DEF DgOK
<1>3. q \in Seq(Nat) /\ w \in Seq(Nat) /\ a \in Seq(Answers) /\ z \in Seq(Answers)
  BY <1>2 DEF SendsOK
<1>4. dg[d].uv # "closed"
  BY <1>1 DEF DgOK, DgLife
<1>5. DgSet(d, [b EXCEPT !.wire = Append(@, h), !.result[h] = "resolved"])
      \/ DgSet(d, [b EXCEPT !.result[h] = "rejected"])
  BY DEF DgSendCb
<1>6. b \in DgRecord /\ b.wire = dg[d].wire /\ b.result = dg[d].result
  BY <1>1, <1>3 DEF DgRecord
<1>7. [b EXCEPT !.wire = Append(@, h), !.result[h] = "resolved"] = x
  BY <1>1, <1>3, <1>6 DEF DgRecord
<1>8. [b EXCEPT !.result[h] = "rejected"] = y
  BY <1>1, <1>3, <1>6 DEF DgRecord
<1>9. DgSet(d, x) \/ DgSet(d, y)
  BY <1>5, <1>7, <1>8
<1> HIDE DEF q, h, w, a, z, b
<1>10. /\ x \in DgRecord
       /\ x.mem = dg[d].mem /\ x.uv = dg[d].uv /\ x.closed = dg[d].closed
       /\ x.finalized = dg[d].finalized /\ x.this_val = dg[d].this_val
       /\ x.obj = dg[d].obj /\ x.ref = dg[d].ref /\ x.receiving = dg[d].receiving
       /\ x.queue = q /\ x.wire = w /\ x.result = a
  BY <1>1, <1>3 DEF DgRecord
<1>11. /\ y \in DgRecord
       /\ y.mem = dg[d].mem /\ y.uv = dg[d].uv /\ y.closed = dg[d].closed
       /\ y.finalized = dg[d].finalized /\ y.this_val = dg[d].this_val
       /\ y.obj = dg[d].obj /\ y.ref = dg[d].ref /\ y.receiving = dg[d].receiving
       /\ y.queue = q /\ y.wire = dg[d].wire /\ y.result = z
  BY <1>1, <1>3 DEF DgRecord
<1> HIDE DEF x, y
<1>12. CASE DgSet(d, x)
  BY <1>2, <1>4, <1>10, <1>12, DgSendsKeep
<1>13. CASE DgSet(d, y)
  BY <1>2, <1>4, <1>11, <1>13, DgSendsKeep
<1> QED BY <1>9, <1>12, <1>13

LEMMA DgCloseCbKeeps ==
  ASSUME DgIInv, kind = "dgram", kind' = kind, NEW d \in Dgrams, DgCloseCb(d)
  PROVE  DgIInv'
<1> DEFINE c == [dg[d] EXCEPT !.uv = "closed", !.closed = TRUE]
           l == [c EXCEPT !.this_val = FALSE]
           r == DgClosed(dg[d])
<1>1. DgPut(d, r) /\ cb' = cb /\ cb # d /\ dg[d].uv = "closing" /\ dg[d].queue = <<>>
  BY DgramAssumption DEF DgCloseCb, DgSet, Polling
<1>2. DgOK(dg[d])
  BY DEF DgIInv
<1>3. c \in DgRecord /\ c.uv = "closed" /\ c.closed /\ c.receiving = dg[d].receiving
      /\ c.mem = dg[d].mem /\ c.finalized = dg[d].finalized /\ c.this_val = dg[d].this_val
      /\ c.obj = dg[d].obj /\ c.ref = dg[d].ref
      /\ c.queue = dg[d].queue /\ c.wire = dg[d].wire /\ c.result = dg[d].result
  BY <1>2 DEF DgOK, DgRecord, HandleStates
<1>4. r = IF ~c.finalized /\ c.this_val THEN Released(l, DgFinalizer) ELSE DgMaybeFree(c)
  BY DEF DgClosed
<1> HIDE DEF c
<1>5. l \in DgRecord /\ l.uv = "closed" /\ l.closed /\ l.receiving = c.receiving
      /\ l.mem = c.mem /\ l.finalized = c.finalized /\ ~l.this_val
      /\ l.obj = c.obj /\ l.ref = c.ref
      /\ l.queue = c.queue /\ l.wire = c.wire /\ l.result = c.result
  BY <1>3 DEF DgRecord
<1> HIDE DEF l
<1>6. DgOK(c) /\ DgOK(l) /\ ~l.receiving /\ DgPinned(l)
  BY <1>1, <1>2, <1>3, <1>5 DEF DgOK, DgLife, DgPinned
<1>7. DgOK(Released(l, DgFinalizer)) /\ DgPinned(Released(l, DgFinalizer))
  BY <1>6, DgReleasedOK
<1>8. DgOK(DgMaybeFree(c)) /\ DgPinned(DgMaybeFree(c))
  <2>1. CASE c.finalized
    <3> DEFINE e == [c EXCEPT !.mem = "freed"]
    <3>1. DgMaybeFree(c) = e
      BY <1>3, <2>1 DEF DgMaybeFree
    <3>2. e \in DgRecord /\ e.uv = "closed" /\ e.closed /\ e.receiving = c.receiving
          /\ e.mem = "freed" /\ e.finalized = c.finalized /\ e.this_val = c.this_val
          /\ e.obj = c.obj /\ e.ref = c.ref
          /\ e.queue = c.queue /\ e.wire = c.wire /\ e.result = c.result
      BY <1>3 DEF DgRecord
    <3> HIDE DEF e
    <3>3. DgOK(e) /\ DgPinned(e)
      BY <1>3, <1>6, <2>1, <3>2 DEF DgOK, DgLife, DgPinned
    <3> QED BY <3>1, <3>3
  <2>2. CASE ~c.finalized
    <3>1. DgMaybeFree(c) = c
      BY <2>2 DEF DgMaybeFree
    <3> QED BY <1>3, <1>6, <3>1 DEF DgPinned
  <2> QED BY <2>1, <2>2
<1>9. DgOK(r) /\ DgPinned(r)
  BY <1>4, <1>7, <1>8
<1> HIDE DEF r
<1> QED BY <1>1, <1>9, DgPutKeeps

LEMMA DgRecvKeeps ==
  ASSUME DgIInv, kind = "dgram", kind' = kind, NEW d \in Dgrams,
         DgRecvCb(d) \/ DgRecvCbEnd(d)
  PROVE  DgIInv'
<1>1. DgPut(d, dg[d]) /\ cb' \in {d, NoHandle}
      /\ (cb' = d => dg[d].receiving)
  BY DgramAssumption DEF DgRecvCb, DgRecvCbEnd
<1>2. DgOK(dg[d]) /\ (phase = "run" => DgPinned(dg[d]))
  BY DEF DgIInv
<1>3. cb' = d => dg[d].uv \in {"open", "closing"}
  BY <1>1, <1>2 DEF DgOK, DgLife
<1> QED BY <1>1, <1>2, <1>3, DgPutKeeps

LEMMA DgNextKeeps ==
  ASSUME DgIInv, kind = "dgram", kind' = kind, DgNext PROVE DgIInv'
  BY DgNewKeeps, DgPlainKeeps, DgSendKeeps, DgCloseKeeps, DgDropKeeps, DgSendCbKeeps,
     DgCloseCbKeeps, DgRecvKeeps DEF DgNext

(* qn_dgram_cleanup and JS_FreeRuntime: the loop is not alive, so no socket  *)
(* is being read.                                                            *)
LEMMA DgCleanUpKeeps ==
  ASSUME DgIInv, kind' = kind, cb' = cb, cb = NoHandle, phase' # "run",
         \A d \in Dgrams : ~DgAlive(d), dg' = DgCleanedUp
  PROVE  DgIInv'
<1>1. ASSUME NEW d \in Dgrams
      PROVE  DgOK(dg'[d]) /\ (dg[d].mem = "none" => dg'[d].mem = "none")
  <2> DEFINE l == [dg[d] EXCEPT !.this_val = FALSE]
  <2>1. DgOK(dg[d]) /\ ~dg[d].receiving
    BY DEF DgIInv, DgAlive
  <2>2. l \in DgRecord /\ l.uv = dg[d].uv /\ ~l.receiving
        /\ l.mem = dg[d].mem /\ l.closed = dg[d].closed
        /\ l.finalized = dg[d].finalized /\ ~l.this_val
        /\ l.obj = dg[d].obj /\ l.ref = dg[d].ref
        /\ l.queue = dg[d].queue /\ l.wire = dg[d].wire /\ l.result = dg[d].result
    BY <2>1 DEF DgOK, DgRecord
  <2>3. dg'[d] = dg[d] \/ dg'[d] = Released(l, DgFinalizer)
    BY DEF DgCleanedUp
  <2> HIDE DEF l
  <2>4. DgOK(l)
    BY <2>1, <2>2 DEF DgOK, DgLife
  <2>5. DgOK(Released(l, DgFinalizer))
        /\ (l.mem = "none" => Released(l, DgFinalizer).mem = "none")
    BY <2>2, <2>4, DgReleasedOK
  <2> QED BY <2>1, <2>2, <2>3, <2>5
<1>2. dg' \in [Dgrams -> DgRecord]
  BY <1>1 DEF DgCleanedUp, DgOK
<1> QED BY <1>1, <1>2, DgramAssumption DEF DgIInv

LEMMA DgCollectedKeeps ==
  ASSUME DgIInv, kind' = kind, cb' = cb, cb = NoHandle, phase' # "run",
         \A d \in Dgrams : ~DgAlive(d), dg' = DgCollected
  PROVE  DgIInv'
<1>1. ASSUME NEW d \in Dgrams
      PROVE  DgOK(dg'[d]) /\ (dg[d].mem = "none" => dg'[d].mem = "none")
  <2> DEFINE l == [dg[d] EXCEPT !.ref = FALSE]
  <2>1. DgOK(dg[d]) /\ ~dg[d].receiving
    BY DEF DgIInv, DgAlive
  <2>2. l \in DgRecord /\ l.uv = dg[d].uv /\ ~l.receiving
        /\ l.mem = dg[d].mem /\ l.closed = dg[d].closed
        /\ l.finalized = dg[d].finalized /\ l.this_val = dg[d].this_val
        /\ l.obj = dg[d].obj /\ ~l.ref
        /\ l.queue = dg[d].queue /\ l.wire = dg[d].wire /\ l.result = dg[d].result
    BY <2>1 DEF DgOK, DgRecord
  <2>3. dg'[d] = Released(l, DgFinalizer)
    BY DEF DgCollected, Collected
  <2> HIDE DEF l
  <2>4. DgOK(l)
    BY <2>1, <2>2 DEF DgOK, DgLife
  <2>5. DgOK(Released(l, DgFinalizer))
        /\ (l.mem = "none" => Released(l, DgFinalizer).mem = "none")
    BY <2>2, <2>4, DgReleasedOK
  <2> QED BY <2>2, <2>3, <2>5
<1>2. dg' \in [Dgrams -> DgRecord]
  BY <1>1 DEF DgCollected, DgOK
<1> QED BY <1>1, <1>2, DgramAssumption DEF DgIInv

LEMMA DgStutter ==
  ASSUME DgIInv, kind' = kind, dg' = dg,
         (phase' = phase /\ cb' = cb) \/ (kind # "dgram" /\ (phase' = "run" => phase = "run"))
  PROVE  DgIInv'
  BY DEF DgIInv

LEMMA DgIInvImplies == DgIInv => DgFreedWhenBothDone /\ DgPromiseTellsTruth
<1> SUFFICES ASSUME DgIInv PROVE DgFreedWhenBothDone /\ DgPromiseTellsTruth
  OBVIOUS
<1>1. DgFreedWhenBothDone
  <2> SUFFICES ASSUME NEW d \in Dgrams, dg[d].mem = "freed"
               PROVE  dg[d].uv = "closed" /\ dg[d].obj = "gone" /\ dg[d].queue = <<>> /\ cb # d
    BY DEF DgFreedWhenBothDone
  <2>1. dg[d].uv = "closed" /\ dg[d].obj = "gone" /\ dg[d].queue = <<>>
    BY DEF DgIInv, DgOK, DgLife
  <2>2. cb # d
    BY <2>1 DEF DgIInv
  <2> QED BY <2>1, <2>2
<1>2. DgPromiseTellsTruth
  <2> SUFFICES ASSUME NEW d \in Dgrams
               PROVE  /\ \A n \in 1..Len(dg[d].result) :
                           dg[d].result[n] = "resolved" <=> Contains(dg[d].wire, n)
                      /\ \A i, j \in 1..Len(dg[d].wire) : i < j => dg[d].wire[i] < dg[d].wire[j]
    BY DEF DgPromiseTellsTruth
  <2>1. Ordered(dg[d].wire) /\ Marked(dg[d].wire, dg[d].result, "resolved")
        /\ AllOnWire(dg[d].wire, dg[d].result)
    BY DEF DgIInv, DgOK, SendsOK
  <2>2. ASSUME NEW n \in 1..Len(dg[d].result)
        PROVE  dg[d].result[n] = "resolved" <=> Contains(dg[d].wire, n)
    BY <2>1 DEF Contains, Marked, AllOnWire
  <2> QED BY <2>1, <2>2 DEF Ordered
<1> QED BY <1>1, <1>2

-----------------------------------------------------------------------------
(* Pseudo-terminals.                                                         *)

PtyRecord ==
  [mem : {"none", "live", "freed"}, pipe : HandleStates, sig : HandleStates,
   pipe_closed : BOOLEAN, sigchld_closed : BOOLEAN, closed : BOOLEAN,
   finalized : BOOLEAN, this_val : BOOLEAN, obj : {"none", "alive", "gone"}, ref : BOOLEAN,
   on_exit : BOOLEAN, exited : BOOLEAN, exits : 0..1, reading : {"off", "on", "paused", "eof"},
   signalled : BOOLEAN, child : {"none", "running", "zombie", "reaped"},
   slave : SUBSET {"child", "other"}, writing : BOOLEAN, leaked : BOOLEAN]

(* One QNPty: closed says that both handles are; the pipe is read only while *)
(* it is open and written only until it is closed.                           *)
PtyLife(r) ==
  /\ r.mem = "none" => r.pipe = "none" /\ r.sig = "none"
  /\ r.pipe_closed <=> r.pipe = "closed"
  /\ r.sigchld_closed <=> r.sig = "closed"
  /\ r.closed <=> r.pipe_closed /\ r.sigchld_closed
  /\ r.finalized <=> r.obj = "gone"
  /\ r.this_val \/ r.ref => r.obj = "alive"
  /\ r.obj = "alive" => r.mem = "live"
  /\ r.mem = "freed" => r.closed /\ r.finalized
  /\ r.writing => r.pipe \in {"open", "closing"}
  /\ r.reading = "on" => r.pipe = "open"
  /\ r.exited <=> r.child = "reaped"
  /\ r.exits = 1 => r.exited

PtyOK(r) == r \in PtyRecord /\ PtyLife(r)

(* A handle of the terminal is left.  *)
PtyBusy(r) == r.pipe \in {"open", "closing"} \/ r.sig \in {"open", "closing"}

PtyIInv ==
  /\ pty \in [Ptys -> PtyRecord]
  /\ \A p \in Ptys : PtyOK(pty[p])
  /\ kind = "pty" =>
       /\ cb \in {NoHandle} \union Ptys
       /\ \A p \in Ptys : cb = p => PtyBusy(pty[p])
  /\ kind # "pty" => \A p \in Ptys : pty[p].mem = "none"

LEMMA PtyCloseHandlesOK ==
  ASSUME NEW r, PtyOK(r)
  PROVE  LET s == PtyCloseHandles(r)
         IN  PtyOK(s) /\ (PtyBusy(r) => PtyBusy(s)) /\ s.mem = r.mem
<1> DEFINE u == IF r.pipe = "open" THEN "closing" ELSE r.pipe
           v == IF r.pipe = "open" THEN "off" ELSE r.reading
           w == IF r.sig = "open" THEN "closing" ELSE r.sig
           s == [r EXCEPT !.pipe = u, !.reading = v, !.sig = w, !.signalled = FALSE]
<1>1. PtyCloseHandles(r) = s
  BY DEF PtyCloseHandles
<1>2. r \in PtyRecord
  BY DEF PtyOK
<1>a. u \in HandleStates /\ w \in HandleStates /\ v \in {"off", "on", "paused", "eof"}
  BY <1>2 DEF PtyRecord, HandleStates
<1>3. u # "open" /\ (u = "closed" <=> r.pipe = "closed") /\ (u = "none" <=> r.pipe = "none")
      /\ (w = "closed" <=> r.sig = "closed") /\ (w = "none" <=> r.sig = "none")
      /\ (v = "on" => r.pipe # "open" /\ r.reading = "on")
  BY <1>2 DEF PtyRecord, HandleStates
<1> HIDE DEF u, v, w
<1>4. s \in PtyRecord /\ s.pipe = u /\ s.reading = v /\ s.sig = w
      /\ s.mem = r.mem /\ s.pipe_closed = r.pipe_closed /\ s.sigchld_closed = r.sigchld_closed
      /\ s.closed = r.closed /\ s.finalized = r.finalized /\ s.this_val = r.this_val
      /\ s.obj = r.obj /\ s.ref = r.ref /\ s.exited = r.exited /\ s.exits = r.exits
      /\ s.child = r.child /\ s.writing = r.writing /\ s.on_exit = r.on_exit
  BY <1>2, <1>a DEF PtyRecord
<1>5. r.pipe \in HandleStates /\ r.sig \in HandleStates
  BY <1>2 DEF PtyRecord
<1> HIDE DEF s
<1>6. PtyOK(s)
  BY <1>a, <1>3, <1>4, <1>5 DEF PtyOK, PtyLife, HandleStates
<1>7. PtyBusy(r) => PtyBusy(s)
  BY <1>a, <1>3, <1>4, <1>5 DEF PtyBusy, HandleStates
<1> QED BY <1>1, <1>4, <1>6, <1>7

LEMMA PtyReleasedOK ==
  ASSUME NEW r, PtyOK(r)
  PROVE  LET s == Released(r, PtyFinalizer)
         IN  PtyOK(s) /\ (PtyBusy(r) => PtyBusy(s)) /\ (r.mem = "none" => s.mem = "none")
<1> DEFINE f == [r EXCEPT !.on_exit = FALSE, !.this_val = FALSE,
                          !.finalized = TRUE, !.obj = "gone"]
           s == Released(r, PtyFinalizer)
<1>1. CASE ~Unheld(r)
  BY <1>1 DEF Released
<1>2. CASE Unheld(r)
  <2>1. s = IF f.closed THEN PtyMaybeFree(f) ELSE PtyCloseHandles(f)
    BY <1>2 DEF Released, PtyFinalizer
  <2>2. f \in PtyRecord /\ f.finalized /\ ~f.this_val /\ f.obj = "gone"
        /\ f.mem = r.mem /\ f.pipe = r.pipe /\ f.sig = r.sig /\ f.pipe_closed = r.pipe_closed
        /\ f.sigchld_closed = r.sigchld_closed /\ f.closed = r.closed /\ f.ref = r.ref
        /\ f.exited = r.exited /\ f.exits = r.exits /\ f.reading = r.reading
        /\ f.child = r.child /\ f.writing = r.writing
    BY DEF PtyOK, PtyRecord
  <2> HIDE DEF f
  <2>3. PtyOK(f) /\ (PtyBusy(r) => PtyBusy(f)) /\ f.mem = "live"
    BY <1>2, <2>2 DEF PtyOK, PtyLife, PtyBusy, Unheld
  <2>4. CASE f.closed
    <3> DEFINE e == [f EXCEPT !.mem = "freed"]
    <3>1. s = e
      BY <2>1, <2>2, <2>3, <2>4 DEF PtyMaybeFree, PtyOK, PtyLife
    <3>2. e \in PtyRecord /\ e.mem = "freed"
          /\ e.pipe = f.pipe /\ e.sig = f.sig /\ e.pipe_closed = f.pipe_closed
          /\ e.sigchld_closed = f.sigchld_closed /\ e.closed = f.closed
          /\ e.finalized = f.finalized /\ e.this_val = f.this_val /\ e.obj = f.obj
          /\ e.ref = f.ref /\ e.exited = f.exited /\ e.exits = f.exits /\ e.reading = f.reading
          /\ e.child = f.child /\ e.writing = f.writing /\ e.on_exit = f.on_exit
      BY <2>2 DEF PtyRecord
    <3> HIDE DEF e
    <3>3. PtyOK(e) /\ (PtyBusy(f) => PtyBusy(e))
      BY <2>2, <2>3, <2>4, <3>2 DEF PtyOK, PtyLife, PtyBusy
    <3> QED BY <2>2, <2>3, <3>1, <3>3
  <2>5. CASE ~f.closed
    <3>1. s = PtyCloseHandles(f)
      BY <2>1, <2>5
    <3>2. PtyOK(s) /\ (PtyBusy(f) => PtyBusy(s)) /\ s.mem = f.mem
      BY <2>3, <3>1, PtyCloseHandlesOK
    <3> QED BY <2>2, <2>3, <3>2
  <2> QED BY <2>4, <2>5
<1> QED BY <1>1, <1>2

LEMMA PtyEndOK ==
  ASSUME NEW r, PtyOK(r)
  PROVE  PtyOK(PtyEnd(r)) /\ (PtyBusy(r) => PtyBusy(PtyEnd(r)))
<1> DEFINE l == [r EXCEPT !.this_val = FALSE]
           m == Released(l, PtyFinalizer)
<1>1. PtyEnd(r) = PtyCloseHandles(m)
  BY DEF PtyEnd
<1>2. l \in PtyRecord /\ ~l.this_val
      /\ l.mem = r.mem /\ l.pipe = r.pipe /\ l.sig = r.sig /\ l.pipe_closed = r.pipe_closed
      /\ l.sigchld_closed = r.sigchld_closed /\ l.closed = r.closed /\ l.finalized = r.finalized
      /\ l.obj = r.obj /\ l.ref = r.ref /\ l.exited = r.exited /\ l.exits = r.exits
      /\ l.reading = r.reading /\ l.child = r.child /\ l.writing = r.writing
      /\ l.on_exit = r.on_exit
  BY DEF PtyOK, PtyRecord
<1> HIDE DEF l
<1>3. PtyOK(l) /\ (PtyBusy(r) => PtyBusy(l))
  BY <1>2 DEF PtyOK, PtyLife, PtyBusy
<1>4. PtyOK(m) /\ (PtyBusy(l) => PtyBusy(m))
  BY <1>3, PtyReleasedOK
<1> HIDE DEF m
<1> QED BY <1>1, <1>3, <1>4, PtyCloseHandlesOK

(* A step that writes one terminal and may enter or leave its callback.  *)
LEMMA PtyPutKeeps ==
  ASSUME PtyIInv, kind = "pty", kind' = kind, NEW p \in Ptys, NEW r,
         PtyPut(p, r), PtyOK(r), cb' \in {cb, p, NoHandle}, cb' = p => PtyBusy(r)
  PROVE  PtyIInv'
<1>1. pty' = [pty EXCEPT ![p] = r] /\ r \in PtyRecord
  BY DEF PtyPut, PtyOK
<1>2. pty' \in [Ptys -> PtyRecord] /\ pty'[p] = r
      /\ \A q \in Ptys : q # p => pty'[q] = pty[q]
  BY <1>1 DEF PtyIInv
<1>3. \A q \in Ptys : PtyOK(pty'[q])
  BY <1>2 DEF PtyIInv
<1>4. cb' \in {NoHandle} \union Ptys
  BY DEF PtyIInv
<1>5. ASSUME NEW q \in Ptys, cb' = q PROVE PtyBusy(pty'[q])
  BY <1>2, <1>5, PtysAssumption DEF PtyIInv
<1> QED BY <1>2, <1>3, <1>4, <1>5 DEF PtyIInv

LEMMA PtySetKeeps ==
  ASSUME PtyIInv, kind = "pty", kind' = kind, NEW p \in Ptys, NEW r,
         PtySet(p, r), PtyOK(r), PtyBusy(pty[p]) => PtyBusy(r)
  PROVE  PtyIInv'
<1>1. PtyPut(p, r) /\ cb' = cb
  BY DEF PtySet
<1>2. cb = p => PtyBusy(pty[p])
  BY DEF PtyIInv
<1> QED BY <1>1, <1>2, PtyPutKeeps

LEMMA NoPtyOK ==
  /\ NoPty \in PtyRecord /\ NoPty.mem = "none" /\ NoPty.pipe = "none" /\ NoPty.sig = "none"
  /\ ~NoPty.pipe_closed /\ ~NoPty.sigchld_closed /\ ~NoPty.closed /\ ~NoPty.finalized
  /\ ~NoPty.this_val /\ NoPty.obj = "none" /\ ~NoPty.ref /\ ~NoPty.exited /\ NoPty.exits = 0
  /\ NoPty.reading = "off" /\ NoPty.child = "none" /\ ~NoPty.writing
  BY DEF NoPty, PtyRecord, HandleStates

LEMMA PtySpawnKeeps ==
  ASSUME PtyIInv, kind = "pty", kind' = kind, NEW p \in Ptys, PtySpawn(p)
  PROVE  PtyIInv'
<1>1. PICK c \in {"running", "zombie"}, other \in BOOLEAN :
       PtySet(p, [NoPty EXCEPT
         !.mem = "live", !.pipe = "open", !.sig = "open", !.reading = "on",
         !.this_val = TRUE, !.obj = "alive", !.ref = TRUE, !.child = c,
         !.slave = (IF c = "running" THEN {"child"} ELSE {})
                   \union (IF other THEN {"other"} ELSE {})])
  BY DEF PtySpawn
<1> DEFINE h == (IF c = "running" THEN {"child"} ELSE {})
                \union (IF other THEN {"other"} ELSE {})
           r == [NoPty EXCEPT
                  !.mem = "live", !.pipe = "open", !.sig = "open", !.reading = "on",
                  !.this_val = TRUE, !.obj = "alive", !.ref = TRUE, !.child = c, !.slave = h]
<1>2. h \in SUBSET {"child", "other"}
  OBVIOUS
<1>3. PtySet(p, r)
  BY <1>1
<1> HIDE DEF h
<1>4. r \in PtyRecord /\ r.mem = "live" /\ r.pipe = "open" /\ r.sig = "open" /\ r.obj = "alive"
      /\ ~r.pipe_closed /\ ~r.sigchld_closed /\ ~r.closed /\ ~r.finalized
      /\ ~r.exited /\ r.exits = 0 /\ r.child \in {"running", "zombie"} /\ ~r.writing
  BY <1>2, NoPtyOK DEF PtyRecord, HandleStates
<1> HIDE DEF r
<1>5. PtyOK(r) /\ PtyBusy(r)
  BY <1>4 DEF PtyOK, PtyLife, PtyBusy
<1> QED BY <1>3, <1>5, PtySetKeeps

(* The operations that touch neither a handle nor the reap.  *)
LEMMA PtyPlainKeeps ==
  ASSUME PtyIInv, kind = "pty", kind' = kind, NEW p \in Ptys,
         PtyWrite(p) \/ PtyWriteCb(p) \/ PtyPause(p) \/ PtyResume(p) \/ PtySetOnExit(p)
  PROVE  PtyIInv'
<1>0. PtyOK(pty[p]) /\ pty[p] \in PtyRecord
  BY DEF PtyIInv, PtyOK
<1>1. CASE PtyWrite(p) \/ PtyWriteCb(p)
  <2>1. CASE PtyWrite(p) /\ pty[p].pipe = "open"
    <3> DEFINE r == [pty[p] EXCEPT !.writing = TRUE]
    <3>1. PtySet(p, r)
      BY <2>1 DEF PtyWrite
    <3>2. r \in PtyRecord /\ r.writing
          /\ r.mem = pty[p].mem /\ r.pipe = pty[p].pipe /\ r.sig = pty[p].sig
          /\ r.pipe_closed = pty[p].pipe_closed /\ r.sigchld_closed = pty[p].sigchld_closed
          /\ r.closed = pty[p].closed /\ r.finalized = pty[p].finalized
          /\ r.this_val = pty[p].this_val /\ r.obj = pty[p].obj /\ r.ref = pty[p].ref
          /\ r.exited = pty[p].exited /\ r.exits = pty[p].exits /\ r.reading = pty[p].reading
          /\ r.child = pty[p].child /\ r.on_exit = pty[p].on_exit
      BY <1>0 DEF PtyRecord
    <3> HIDE DEF r
    <3>3. PtyOK(r) /\ (PtyBusy(pty[p]) => PtyBusy(r))
      BY <1>0, <2>1, <3>2 DEF PtyOK, PtyLife, PtyBusy
    <3> QED BY <3>1, <3>3, PtySetKeeps
  <2>2. CASE PtyWrite(p) /\ pty[p].pipe # "open"
    <3> DEFINE r == [pty[p] EXCEPT !.leaked = TRUE]
    <3>1. PtySet(p, r)
      BY <2>2 DEF PtyWrite
    <3>2. r \in PtyRecord /\ r.leaked
          /\ r.mem = pty[p].mem /\ r.pipe = pty[p].pipe /\ r.sig = pty[p].sig
          /\ r.pipe_closed = pty[p].pipe_closed /\ r.sigchld_closed = pty[p].sigchld_closed
          /\ r.closed = pty[p].closed /\ r.finalized = pty[p].finalized
          /\ r.this_val = pty[p].this_val /\ r.obj = pty[p].obj /\ r.ref = pty[p].ref
          /\ r.exited = pty[p].exited /\ r.exits = pty[p].exits /\ r.reading = pty[p].reading
          /\ r.child = pty[p].child /\ r.writing = pty[p].writing /\ r.on_exit = pty[p].on_exit
      BY <1>0 DEF PtyRecord
    <3> HIDE DEF r
    <3>3. PtyOK(r) /\ (PtyBusy(pty[p]) => PtyBusy(r))
      BY <1>0, <2>2, <3>2 DEF PtyOK, PtyLife, PtyBusy
    <3> QED BY <3>1, <3>3, PtySetKeeps
  <2>3. CASE PtyWriteCb(p)
    <3> DEFINE r == [pty[p] EXCEPT !.writing = FALSE]
    <3>1. PtySet(p, r)
      BY <2>3 DEF PtyWriteCb
    <3>2. r \in PtyRecord /\ ~r.writing
          /\ r.mem = pty[p].mem /\ r.pipe = pty[p].pipe /\ r.sig = pty[p].sig
          /\ r.pipe_closed = pty[p].pipe_closed /\ r.sigchld_closed = pty[p].sigchld_closed
          /\ r.closed = pty[p].closed /\ r.finalized = pty[p].finalized
          /\ r.this_val = pty[p].this_val /\ r.obj = pty[p].obj /\ r.ref = pty[p].ref
          /\ r.exited = pty[p].exited /\ r.exits = pty[p].exits /\ r.reading = pty[p].reading
          /\ r.child = pty[p].child /\ r.on_exit = pty[p].on_exit
      BY <1>0 DEF PtyRecord
    <3> HIDE DEF r
    <3>3. PtyOK(r) /\ (PtyBusy(pty[p]) => PtyBusy(r))
      BY <1>0, <2>3, <3>2 DEF PtyOK, PtyLife, PtyBusy
    <3> QED BY <3>1, <3>3, PtySetKeeps
  <2> QED BY <1>1, <2>1, <2>2, <2>3
<1>2. CASE PtyPause(p) \/ PtyResume(p)
  <2>1. PICK v \in {"on", "paused"} :
          PtySet(p, [pty[p] EXCEPT !.reading = v]) /\ (v = "on" => pty[p].pipe = "open")
    BY <1>2 DEF PtyPause, PtyResume
  <2> DEFINE r == [pty[p] EXCEPT !.reading = v]
  <2>2. r \in PtyRecord /\ r.reading = v
        /\ r.mem = pty[p].mem /\ r.pipe = pty[p].pipe /\ r.sig = pty[p].sig
        /\ r.pipe_closed = pty[p].pipe_closed /\ r.sigchld_closed = pty[p].sigchld_closed
        /\ r.closed = pty[p].closed /\ r.finalized = pty[p].finalized
        /\ r.this_val = pty[p].this_val /\ r.obj = pty[p].obj /\ r.ref = pty[p].ref
        /\ r.exited = pty[p].exited /\ r.exits = pty[p].exits /\ r.child = pty[p].child
        /\ r.writing = pty[p].writing /\ r.on_exit = pty[p].on_exit
    BY <1>0 DEF PtyRecord
  <2>3. PtySet(p, r)
    BY <2>1
  <2> HIDE DEF r
  <2>4. PtyOK(r) /\ (PtyBusy(pty[p]) => PtyBusy(r))
    BY <1>0, <2>1, <2>2 DEF PtyOK, PtyLife, PtyBusy
  <2> QED BY <2>3, <2>4, PtySetKeeps
<1>3. CASE PtySetOnExit(p)
  <2> DEFINE r == [pty[p] EXCEPT !.on_exit = TRUE]
  <2>2. r \in PtyRecord
        /\ r.mem = pty[p].mem /\ r.pipe = pty[p].pipe /\ r.sig = pty[p].sig
        /\ r.pipe_closed = pty[p].pipe_closed /\ r.sigchld_closed = pty[p].sigchld_closed
        /\ r.closed = pty[p].closed /\ r.finalized = pty[p].finalized
        /\ r.this_val = pty[p].this_val /\ r.obj = pty[p].obj /\ r.ref = pty[p].ref
        /\ r.exited = pty[p].exited /\ r.exits = pty[p].exits /\ r.reading = pty[p].reading
        /\ r.child = pty[p].child /\ r.writing = pty[p].writing
    BY <1>0 DEF PtyRecord
  <2>3. PtySet(p, r)
    BY <1>3 DEF PtySetOnExit
  <2> HIDE DEF r
  <2>4. PtyOK(r) /\ (PtyBusy(pty[p]) => PtyBusy(r))
    BY <1>0, <2>2 DEF PtyOK, PtyLife, PtyBusy
  <2> QED BY <2>3, <2>4, PtySetKeeps
<1> QED BY <1>1, <1>2, <1>3

(* The other side of the terminal is given up, and the child ends.  *)
LEMMA PtySlaveKeeps ==
  ASSUME PtyIInv, kind = "pty", kind' = kind, NEW p \in Ptys, PtyKill(p) \/ PtyLeaves(p)
  PROVE  PtyIInv'
<1>0. PtyOK(pty[p]) /\ pty[p] \in PtyRecord
  BY DEF PtyIInv, PtyOK
<1>1. PICK h : PtySet(p, [pty[p] EXCEPT !.slave = @ \ {h}])
  BY DEF PtyKill, PtyLeaves
<1> DEFINE u == pty[p].slave \ {h}
           r == [pty[p] EXCEPT !.slave = u]
<1>2. u \in SUBSET {"child", "other"}
  BY <1>0 DEF PtyRecord
<1>3. PtySet(p, r)
  BY <1>1
<1> HIDE DEF u
<1>4. r \in PtyRecord
      /\ r.mem = pty[p].mem /\ r.pipe = pty[p].pipe /\ r.sig = pty[p].sig
      /\ r.pipe_closed = pty[p].pipe_closed /\ r.sigchld_closed = pty[p].sigchld_closed
      /\ r.closed = pty[p].closed /\ r.finalized = pty[p].finalized
      /\ r.this_val = pty[p].this_val /\ r.obj = pty[p].obj /\ r.ref = pty[p].ref
      /\ r.exited = pty[p].exited /\ r.exits = pty[p].exits /\ r.reading = pty[p].reading
      /\ r.child = pty[p].child /\ r.writing = pty[p].writing /\ r.on_exit = pty[p].on_exit
  BY <1>0, <1>2 DEF PtyRecord
<1> HIDE DEF r
<1>5. PtyOK(r) /\ (PtyBusy(pty[p]) => PtyBusy(r))
  BY <1>0, <1>4 DEF PtyOK, PtyLife, PtyBusy
<1> QED BY <1>3, <1>5, PtySetKeeps

LEMMA PtyChildExitsKeeps ==
  ASSUME PtyIInv, kind = "pty", kind' = kind, NEW p \in Ptys, PtyChildExits(p)
  PROVE  PtyIInv'
<1>0. PtyOK(pty[p]) /\ pty[p] \in PtyRecord /\ pty[p].child = "running"
  BY DEF PtyIInv, PtyOK, PtyChildExits
<1> DEFINE v == pty[p].sig = "open" /\ ~pty[p].exited
           r == [pty[p] EXCEPT !.child = "zombie", !.signalled = v]
<1>1. PtySet(p, r)
  BY DEF PtyChildExits
<1>2. v \in BOOLEAN
  OBVIOUS
<1> HIDE DEF v
<1>3. r \in PtyRecord /\ r.child = "zombie"
      /\ r.mem = pty[p].mem /\ r.pipe = pty[p].pipe /\ r.sig = pty[p].sig
      /\ r.pipe_closed = pty[p].pipe_closed /\ r.sigchld_closed = pty[p].sigchld_closed
      /\ r.closed = pty[p].closed /\ r.finalized = pty[p].finalized
      /\ r.this_val = pty[p].this_val /\ r.obj = pty[p].obj /\ r.ref = pty[p].ref
      /\ r.exited = pty[p].exited /\ r.exits = pty[p].exits /\ r.reading = pty[p].reading
      /\ r.writing = pty[p].writing /\ r.on_exit = pty[p].on_exit
  BY <1>0, <1>2 DEF PtyRecord
<1> HIDE DEF r
<1>4. PtyOK(r) /\ (PtyBusy(pty[p]) => PtyBusy(r))
  BY <1>0, <1>3 DEF PtyOK, PtyLife, PtyBusy
<1> QED BY <1>1, <1>4, PtySetKeeps

LEMMA PtyEndKeeps ==
  ASSUME PtyIInv, kind = "pty", kind' = kind, NEW p \in Ptys, PtyClose(p) \/ PtyReapEnd(p)
  PROVE  PtyIInv'
<1> DEFINE r == PtyEnd(pty[p])
<1>1. PtyPut(p, r) /\ cb' \in {cb, NoHandle}
  BY DEF PtyClose, PtySet, PtyReapEnd
<1>2. PtyOK(pty[p]) /\ (cb = p => PtyBusy(pty[p]))
  BY DEF PtyIInv
<1>3. PtyOK(r) /\ (PtyBusy(pty[p]) => PtyBusy(r))
  BY <1>2, PtyEndOK
<1> HIDE DEF r
<1> QED BY <1>1, <1>2, <1>3, PtyPutKeeps, PtysAssumption

LEMMA PtyDropKeeps ==
  ASSUME PtyIInv, kind = "pty", kind' = kind, NEW p \in Ptys, PtyDrop(p)
  PROVE  PtyIInv'
<1> DEFINE l == [pty[p] EXCEPT !.ref = FALSE]
           r == Released(l, PtyFinalizer)
<1>1. PtySet(p, r)
  BY DEF PtyDrop, Lost
<1>2. PtyOK(pty[p])
  BY DEF PtyIInv
<1>3. l \in PtyRecord /\ ~l.ref
      /\ l.mem = pty[p].mem /\ l.pipe = pty[p].pipe /\ l.sig = pty[p].sig
      /\ l.pipe_closed = pty[p].pipe_closed /\ l.sigchld_closed = pty[p].sigchld_closed
      /\ l.closed = pty[p].closed /\ l.finalized = pty[p].finalized
      /\ l.this_val = pty[p].this_val /\ l.obj = pty[p].obj /\ l.exited = pty[p].exited
      /\ l.exits = pty[p].exits /\ l.reading = pty[p].reading /\ l.child = pty[p].child
      /\ l.writing = pty[p].writing /\ l.on_exit = pty[p].on_exit
  BY <1>2 DEF PtyOK, PtyRecord
<1> HIDE DEF l
<1>4. PtyOK(l) /\ (PtyBusy(pty[p]) => PtyBusy(l))
  BY <1>2, <1>3 DEF PtyOK, PtyLife, PtyBusy
<1>5. PtyOK(r) /\ (PtyBusy(l) => PtyBusy(r))
  BY <1>4, PtyReleasedOK
<1> HIDE DEF r
<1> QED BY <1>1, <1>4, <1>5, PtySetKeeps

(* pty_try_reap, from either of the callbacks that look for the child's end. *)
LEMMA PtyTryReapKeeps ==
  ASSUME PtyIInv, kind = "pty", kind' = kind, NEW p \in Ptys, NEW r, PtyOK(r), PtyBusy(r),
         PtyTryReap(p, r)
  PROVE  PtyIInv'
<1>1. CASE r.exited \/ r.child # "zombie"
  <2>1. PtySet(p, r)
    BY <1>1 DEF PtyTryReap
  <2> QED BY <2>1, PtySetKeeps
<1>2. CASE ~(r.exited \/ r.child # "zombie")
  <2> DEFINE x == [r EXCEPT !.exited = TRUE, !.child = "reaped", !.signalled = FALSE]
             e == x.exits + 1
             y == [x EXCEPT !.exits = e]
  <2>1. (PtyPut(p, y) /\ cb' = p) \/ PtySet(p, PtyEnd(x))
    BY <1>2 DEF PtyTryReap
  <2>2. x \in PtyRecord /\ x.exited /\ x.child = "reaped"
        /\ x.mem = r.mem /\ x.pipe = r.pipe /\ x.sig = r.sig /\ x.pipe_closed = r.pipe_closed
        /\ x.sigchld_closed = r.sigchld_closed /\ x.closed = r.closed
        /\ x.finalized = r.finalized /\ x.this_val = r.this_val /\ x.obj = r.obj
        /\ x.ref = r.ref /\ x.exits = r.exits /\ x.reading = r.reading /\ x.writing = r.writing
        /\ x.on_exit = r.on_exit
    BY DEF PtyOK, PtyRecord
  <2>3. x.exits = 0
    <3>1. r.exits \in 0..1 /\ r.exits # 1
      BY <1>2 DEF PtyOK, PtyLife, PtyRecord
    <3> QED BY <2>2, <3>1
  <2>4. e = 1
    BY <2>3
  <2> HIDE DEF x, e
  <2>5. PtyOK(x) /\ PtyBusy(x)
    BY <1>2, <2>2 DEF PtyOK, PtyLife, PtyBusy
  <2>6. e \in 0..1
    BY <2>4
  <2>7. y \in PtyRecord
        /\ y.mem = x.mem /\ y.pipe = x.pipe /\ y.sig = x.sig /\ y.pipe_closed = x.pipe_closed
        /\ y.sigchld_closed = x.sigchld_closed /\ y.closed = x.closed
        /\ y.finalized = x.finalized /\ y.this_val = x.this_val /\ y.obj = x.obj
        /\ y.ref = x.ref /\ y.exited = x.exited /\ y.reading = x.reading /\ y.child = x.child
        /\ y.writing = x.writing /\ y.on_exit = x.on_exit
    BY <2>2, <2>6 DEF PtyRecord
  <2> HIDE DEF y
  <2>8. PtyOK(y) /\ PtyBusy(y)
    BY <2>2, <2>5, <2>7 DEF PtyOK, PtyLife, PtyBusy
  <2>9. PtyOK(PtyEnd(x)) /\ PtyBusy(PtyEnd(x))
    BY <2>5, PtyEndOK
  <2>10. CASE PtyPut(p, y) /\ cb' = p
    BY <2>8, <2>10, PtyPutKeeps
  <2>11. CASE PtySet(p, PtyEnd(x))
    BY <2>9, <2>11, PtySetKeeps
  <2> QED BY <2>1, <2>10, <2>11
<1> QED BY <1>1, <1>2

LEMMA PtyNoticeKeeps ==
  ASSUME PtyIInv, kind = "pty", kind' = kind, NEW p \in Ptys, PtySigchldCb(p) \/ PtyReadEof(p)
  PROVE  PtyIInv'
<1>0. PtyOK(pty[p]) /\ pty[p] \in PtyRecord
  BY DEF PtyIInv, PtyOK
<1>1. CASE PtySigchldCb(p)
  <2> DEFINE r == [pty[p] EXCEPT !.signalled = FALSE]
  <2>1. PtyTryReap(p, r) /\ pty[p].sig = "open"
    BY <1>1 DEF PtySigchldCb
  <2>2. r \in PtyRecord
        /\ r.mem = pty[p].mem /\ r.pipe = pty[p].pipe /\ r.sig = pty[p].sig
        /\ r.pipe_closed = pty[p].pipe_closed /\ r.sigchld_closed = pty[p].sigchld_closed
        /\ r.closed = pty[p].closed /\ r.finalized = pty[p].finalized
        /\ r.this_val = pty[p].this_val /\ r.obj = pty[p].obj /\ r.ref = pty[p].ref
        /\ r.exited = pty[p].exited /\ r.exits = pty[p].exits /\ r.reading = pty[p].reading
        /\ r.child = pty[p].child /\ r.writing = pty[p].writing /\ r.on_exit = pty[p].on_exit
    BY <1>0 DEF PtyRecord
  <2> HIDE DEF r
  <2>3. PtyOK(r) /\ PtyBusy(r)
    BY <1>0, <2>1, <2>2 DEF PtyOK, PtyLife, PtyBusy
  <2> QED BY <2>1, <2>3, PtyTryReapKeeps
<1>2. CASE PtyReadEof(p)
  <2> DEFINE r == [pty[p] EXCEPT !.reading = "eof"]
  <2>1. PtyTryReap(p, r) /\ pty[p].reading = "on"
    BY <1>2 DEF PtyReadEof
  <2>2. r \in PtyRecord /\ r.reading = "eof"
        /\ r.mem = pty[p].mem /\ r.pipe = pty[p].pipe /\ r.sig = pty[p].sig
        /\ r.pipe_closed = pty[p].pipe_closed /\ r.sigchld_closed = pty[p].sigchld_closed
        /\ r.closed = pty[p].closed /\ r.finalized = pty[p].finalized
        /\ r.this_val = pty[p].this_val /\ r.obj = pty[p].obj /\ r.ref = pty[p].ref
        /\ r.exited = pty[p].exited /\ r.exits = pty[p].exits /\ r.child = pty[p].child
        /\ r.writing = pty[p].writing /\ r.on_exit = pty[p].on_exit
    BY <1>0 DEF PtyRecord
  <2> HIDE DEF r
  <2>3. PtyOK(r) /\ PtyBusy(r)
    BY <1>0, <2>1, <2>2 DEF PtyOK, PtyLife, PtyBusy
  <2> QED BY <2>1, <2>3, PtyTryReapKeeps
<1> QED BY <1>1, <1>2

(* The second of the two close callbacks frees what was finalized.  *)
LEMMA PtyAllClosedOK ==
  ASSUME NEW r \in PtyRecord, ~r.closed, r.pipe_closed, r.sigchld_closed,
         r.pipe = "closed", r.sig = "closed", PtyLife([r EXCEPT !.closed = TRUE])
  PROVE  PtyOK(PtyMaybeFree([r EXCEPT !.closed = TRUE]))
<1> DEFINE c == [r EXCEPT !.closed = TRUE]
           f == [c EXCEPT !.mem = "freed"]
<1>1. c \in PtyRecord /\ c.closed
      /\ c.mem = r.mem /\ c.pipe = r.pipe /\ c.sig = r.sig /\ c.pipe_closed = r.pipe_closed
      /\ c.sigchld_closed = r.sigchld_closed /\ c.finalized = r.finalized
      /\ c.this_val = r.this_val /\ c.obj = r.obj /\ c.ref = r.ref /\ c.exited = r.exited
      /\ c.exits = r.exits /\ c.reading = r.reading /\ c.child = r.child
      /\ c.writing = r.writing /\ c.on_exit = r.on_exit
  BY DEF PtyRecord
<1>2. PtyLife(c)
  OBVIOUS
<1> HIDE DEF c
<1>3. CASE c.finalized
  <2>1. PtyMaybeFree(c) = f
    BY <1>1, <1>3 DEF PtyMaybeFree
  <2>2. f \in PtyRecord /\ f.mem = "freed"
        /\ f.pipe = c.pipe /\ f.sig = c.sig /\ f.pipe_closed = c.pipe_closed
        /\ f.sigchld_closed = c.sigchld_closed /\ f.closed = c.closed
        /\ f.finalized = c.finalized /\ f.this_val = c.this_val /\ f.obj = c.obj
        /\ f.ref = c.ref /\ f.exited = c.exited /\ f.exits = c.exits /\ f.reading = c.reading
        /\ f.child = c.child /\ f.writing = c.writing /\ f.on_exit = c.on_exit
    BY <1>1 DEF PtyRecord
  <2> HIDE DEF f
  <2>3. PtyOK(f)
    BY <1>1, <1>2, <1>3, <2>2 DEF PtyOK, PtyLife
  <2> QED BY <2>1, <2>3 DEF c
<1>4. CASE ~c.finalized
  <2>1. PtyMaybeFree(c) = c
    BY <1>4 DEF PtyMaybeFree
  <2> QED BY <1>1, <1>2, <2>1 DEF PtyOK, c
<1> QED BY <1>3, <1>4

LEMMA PtyPipeCloseCbKeeps ==
  ASSUME PtyIInv, kind = "pty", kind' = kind, NEW p \in Ptys, PtyPipeCloseCb(p)
  PROVE  PtyIInv'
<1> DEFINE c == [pty[p] EXCEPT !.pipe = "closed", !.pipe_closed = TRUE]
           e == [c EXCEPT !.closed = TRUE]
           r == IF c.sigchld_closed THEN PtyMaybeFree(e) ELSE c
<1>0. PtyOK(pty[p]) /\ pty[p].pipe = "closing" /\ ~pty[p].writing
  BY DEF PtyIInv, PtyPipeCloseCb
<1>1. PtyPut(p, r) /\ cb' = cb /\ cb # p
  BY PtysAssumption DEF PtyPipeCloseCb, PtySet, Polling
<1>2. c \in PtyRecord /\ c.pipe = "closed" /\ c.pipe_closed
      /\ c.mem = pty[p].mem /\ c.sig = pty[p].sig /\ c.sigchld_closed = pty[p].sigchld_closed
      /\ c.closed = pty[p].closed /\ c.finalized = pty[p].finalized
      /\ c.this_val = pty[p].this_val /\ c.obj = pty[p].obj /\ c.ref = pty[p].ref
      /\ c.exited = pty[p].exited /\ c.exits = pty[p].exits /\ c.reading = pty[p].reading
      /\ c.child = pty[p].child /\ c.writing = pty[p].writing /\ c.on_exit = pty[p].on_exit
  BY <1>0 DEF PtyOK, PtyRecord, HandleStates
<1> HIDE DEF c
<1>3. e \in PtyRecord /\ e.closed
      /\ e.mem = c.mem /\ e.pipe = c.pipe /\ e.sig = c.sig /\ e.pipe_closed = c.pipe_closed
      /\ e.sigchld_closed = c.sigchld_closed /\ e.finalized = c.finalized
      /\ e.this_val = c.this_val /\ e.obj = c.obj /\ e.ref = c.ref /\ e.exited = c.exited
      /\ e.exits = c.exits /\ e.reading = c.reading /\ e.child = c.child
      /\ e.writing = c.writing /\ e.on_exit = c.on_exit
  BY <1>2 DEF PtyRecord
<1>4. PtyOK(r)
  <2>1. CASE c.sigchld_closed
    <3>1. PtyLife(e)
      BY <1>0, <1>2, <1>3, <2>1 DEF PtyOK, PtyLife
    <3>2. ~c.closed /\ c.sig = "closed"
      BY <1>0, <1>2, <2>1 DEF PtyOK, PtyLife
    <3>3. PtyOK(PtyMaybeFree(e))
      BY <1>2, <2>1, <3>1, <3>2, PtyAllClosedOK
    <3> QED BY <2>1, <3>3
  <2>2. CASE ~c.sigchld_closed
    <3>1. PtyOK(c)
      BY <1>0, <1>2, <2>2 DEF PtyOK, PtyLife
    <3> QED BY <2>2, <3>1
  <2> QED BY <2>1, <2>2
<1> HIDE DEF r
<1> QED BY <1>1, <1>4, PtyPutKeeps

LEMMA PtySigchldCloseCbKeeps ==
  ASSUME PtyIInv, kind = "pty", kind' = kind, NEW p \in Ptys, PtySigchldCloseCb(p)
  PROVE  PtyIInv'
<1> DEFINE c == [pty[p] EXCEPT !.sig = "closed", !.sigchld_closed = TRUE]
           e == [c EXCEPT !.closed = TRUE]
           r == IF c.pipe_closed THEN PtyMaybeFree(e) ELSE c
<1>0. PtyOK(pty[p]) /\ pty[p].sig = "closing"
  BY DEF PtyIInv, PtySigchldCloseCb
<1>1. PtyPut(p, r) /\ cb' = cb /\ cb # p
  BY PtysAssumption DEF PtySigchldCloseCb, PtySet, Polling
<1>2. c \in PtyRecord /\ c.sig = "closed" /\ c.sigchld_closed
      /\ c.mem = pty[p].mem /\ c.pipe = pty[p].pipe /\ c.pipe_closed = pty[p].pipe_closed
      /\ c.closed = pty[p].closed /\ c.finalized = pty[p].finalized
      /\ c.this_val = pty[p].this_val /\ c.obj = pty[p].obj /\ c.ref = pty[p].ref
      /\ c.exited = pty[p].exited /\ c.exits = pty[p].exits /\ c.reading = pty[p].reading
      /\ c.child = pty[p].child /\ c.writing = pty[p].writing /\ c.on_exit = pty[p].on_exit
  BY <1>0 DEF PtyOK, PtyRecord, HandleStates
<1> HIDE DEF c
<1>3. e \in PtyRecord /\ e.closed
      /\ e.mem = c.mem /\ e.pipe = c.pipe /\ e.sig = c.sig /\ e.pipe_closed = c.pipe_closed
      /\ e.sigchld_closed = c.sigchld_closed /\ e.finalized = c.finalized
      /\ e.this_val = c.this_val /\ e.obj = c.obj /\ e.ref = c.ref /\ e.exited = c.exited
      /\ e.exits = c.exits /\ e.reading = c.reading /\ e.child = c.child
      /\ e.writing = c.writing /\ e.on_exit = c.on_exit
  BY <1>2 DEF PtyRecord
<1>4. PtyOK(r)
  <2>1. CASE c.pipe_closed
    <3>1. PtyLife(e)
      BY <1>0, <1>2, <1>3, <2>1 DEF PtyOK, PtyLife
    <3>2. ~c.closed /\ c.pipe = "closed"
      BY <1>0, <1>2, <2>1 DEF PtyOK, PtyLife
    <3>3. PtyOK(PtyMaybeFree(e))
      BY <1>2, <2>1, <3>1, <3>2, PtyAllClosedOK
    <3> QED BY <2>1, <3>3
  <2>2. CASE ~c.pipe_closed
    <3>1. PtyOK(c)
      BY <1>0, <1>2, <2>2 DEF PtyOK, PtyLife
    <3> QED BY <2>2, <3>1
  <2> QED BY <2>1, <2>2
<1> HIDE DEF r
<1> QED BY <1>1, <1>4, PtyPutKeeps

LEMMA PtyNextKeeps ==
  ASSUME PtyIInv, kind = "pty", kind' = kind, PtyNext PROVE PtyIInv'
  BY PtySpawnKeeps, PtyPlainKeeps, PtySlaveKeeps, PtyChildExitsKeeps, PtyEndKeeps, PtyDropKeeps,
     PtyNoticeKeeps, PtyPipeCloseCbKeeps, PtySigchldCloseCbKeeps DEF PtyNext

LEMMA PtyCleanUpKeeps ==
  ASSUME PtyIInv, kind' = kind, cb' = cb, cb = NoHandle, pty' = PtyCleanedUp
  PROVE  PtyIInv'
<1>1. ASSUME NEW p \in Ptys
      PROVE  PtyOK(pty'[p]) /\ (pty[p].mem = "none" => pty'[p].mem = "none")
  <2> DEFINE l == [pty[p] EXCEPT !.this_val = FALSE]
  <2>1. PtyOK(pty[p])
    BY DEF PtyIInv
  <2>2. l \in PtyRecord /\ ~l.this_val
        /\ l.mem = pty[p].mem /\ l.pipe = pty[p].pipe /\ l.sig = pty[p].sig
        /\ l.pipe_closed = pty[p].pipe_closed /\ l.sigchld_closed = pty[p].sigchld_closed
        /\ l.closed = pty[p].closed /\ l.finalized = pty[p].finalized /\ l.obj = pty[p].obj
        /\ l.ref = pty[p].ref /\ l.exited = pty[p].exited /\ l.exits = pty[p].exits
        /\ l.reading = pty[p].reading /\ l.child = pty[p].child /\ l.writing = pty[p].writing
        /\ l.on_exit = pty[p].on_exit
    BY <2>1 DEF PtyOK, PtyRecord
  <2>3. pty'[p] = pty[p] \/ pty'[p] = Released(l, PtyFinalizer)
    BY DEF PtyCleanedUp
  <2> HIDE DEF l
  <2>4. PtyOK(l)
    BY <2>1, <2>2 DEF PtyOK, PtyLife
  <2>5. PtyOK(Released(l, PtyFinalizer))
        /\ (l.mem = "none" => Released(l, PtyFinalizer).mem = "none")
    BY <2>4, PtyReleasedOK
  <2> QED BY <2>1, <2>2, <2>3, <2>5
<1>2. pty' \in [Ptys -> PtyRecord]
  BY <1>1 DEF PtyCleanedUp, PtyOK
<1> QED BY <1>1, <1>2, PtysAssumption DEF PtyIInv

LEMMA PtyCollectedKeeps ==
  ASSUME PtyIInv, kind' = kind, cb' = cb, cb = NoHandle, pty' = PtyCollected
  PROVE  PtyIInv'
<1>1. ASSUME NEW p \in Ptys
      PROVE  PtyOK(pty'[p]) /\ (pty[p].mem = "none" => pty'[p].mem = "none")
  <2> DEFINE l == [pty[p] EXCEPT !.ref = FALSE]
  <2>1. PtyOK(pty[p])
    BY DEF PtyIInv
  <2>2. l \in PtyRecord /\ ~l.ref
        /\ l.mem = pty[p].mem /\ l.pipe = pty[p].pipe /\ l.sig = pty[p].sig
        /\ l.pipe_closed = pty[p].pipe_closed /\ l.sigchld_closed = pty[p].sigchld_closed
        /\ l.closed = pty[p].closed /\ l.finalized = pty[p].finalized
        /\ l.this_val = pty[p].this_val /\ l.obj = pty[p].obj /\ l.exited = pty[p].exited
        /\ l.exits = pty[p].exits /\ l.reading = pty[p].reading /\ l.child = pty[p].child
        /\ l.writing = pty[p].writing /\ l.on_exit = pty[p].on_exit
    BY <2>1 DEF PtyOK, PtyRecord
  <2>3. pty'[p] = Released(l, PtyFinalizer)
    BY DEF PtyCollected, Collected
  <2> HIDE DEF l
  <2>4. PtyOK(l)
    BY <2>1, <2>2 DEF PtyOK, PtyLife
  <2>5. PtyOK(Released(l, PtyFinalizer))
        /\ (l.mem = "none" => Released(l, PtyFinalizer).mem = "none")
    BY <2>4, PtyReleasedOK
  <2> QED BY <2>2, <2>3, <2>5
<1>2. pty' \in [Ptys -> PtyRecord]
  BY <1>1 DEF PtyCollected, PtyOK
<1> QED BY <1>1, <1>2, PtysAssumption DEF PtyIInv

LEMMA PtyStutter ==
  ASSUME PtyIInv, kind' = kind, pty' = pty, kind = "pty" => cb' = cb
  PROVE  PtyIInv'
  BY DEF PtyIInv, PtyBusy

LEMMA PtyIInvImplies == PtyIInv => PtyFreedWhenAllDone /\ PtyExitOnce
<1> SUFFICES ASSUME PtyIInv PROVE PtyFreedWhenAllDone /\ PtyExitOnce
  OBVIOUS
<1>1. PtyFreedWhenAllDone
  <2> SUFFICES ASSUME NEW p \in Ptys, pty[p].mem = "freed"
               PROVE  /\ pty[p].pipe = "closed" /\ pty[p].sig = "closed"
                      /\ pty[p].obj = "gone" /\ ~pty[p].writing /\ cb # p
    BY DEF PtyFreedWhenAllDone
  <2>1. pty[p].pipe = "closed" /\ pty[p].sig = "closed" /\ pty[p].obj = "gone" /\ ~pty[p].writing
    BY DEF PtyIInv, PtyOK, PtyLife
  <2>2. cb # p
    BY <2>1 DEF PtyIInv, PtyBusy
  <2> QED BY <2>1, <2>2
<1>2. PtyExitOnce
  <2> SUFFICES ASSUME NEW p \in Ptys
               PROVE  pty[p].exits <= 1 /\ (pty[p].exited <=> pty[p].child = "reaped")
    BY DEF PtyExitOnce
  <2>1. pty[p].exits \in 0..1
    BY DEF PtyIInv, PtyRecord
  <2>2. pty[p].exited <=> pty[p].child = "reaped"
    BY DEF PtyIInv, PtyOK, PtyLife
  <2> QED BY <2>1, <2>2
<1> QED BY <1>1, <1>2

-----------------------------------------------------------------------------
(* The runtime.                                                              *)

HandlesIInv ==
  /\ phase \in Phases /\ kind \in Kinds
  /\ kind \in {"spawnSync", "setsid"} => cb = NoHandle
  /\ ProcIInv /\ DgIInv /\ PtyIInv /\ WatchIInv /\ SsIInv /\ SetsidIInv

LEMMA HandlesInit == Init => HandlesIInv
<1> SUFFICES ASSUME Init PROVE HandlesIInv
  OBVIOUS
<1>0. phase = "run" /\ cb = NoHandle /\ kind \in Kinds /\ phase \in Phases
  BY DEF Init, Phases
<1>1. ProcIInv
  <2>1. proc = [p \in Processes |-> NoProc]
    BY DEF Init, ProcInit
  <2>2. ProcOK(NoProc) /\ ProcPinned(NoProc) /\ NoProc \in ProcRecord
    BY NoProcOK DEF ProcOK, ProcBody, ProcPinned
  <2>3. proc \in [Processes -> ProcRecord] /\ \A p \in Processes : proc[p] = NoProc
    BY <2>1, <2>2
  <2> QED BY <1>0, <2>2, <2>3, NoProcOK, ProcessesAssumption DEF ProcIInv
<1>2. DgIInv
  <2>1. dg = [d \in Dgrams |-> NoDgram]
    BY DEF Init, DgInit
  <2>2. DgOK(NoDgram) /\ DgPinned(NoDgram) /\ NoDgram \in DgRecord
    BY NoDgramOK, NothingSentOK DEF DgOK, DgLife, DgPinned
  <2>3. dg \in [Dgrams -> DgRecord] /\ \A d \in Dgrams : dg[d] = NoDgram
    BY <2>1, <2>2
  <2> QED BY <1>0, <2>2, <2>3, NoDgramOK, DgramAssumption DEF DgIInv
<1>3. PtyIInv
  <2>1. pty = [p \in Ptys |-> NoPty]
    BY DEF Init, PtyInit
  <2>2. PtyOK(NoPty) /\ NoPty \in PtyRecord
    BY NoPtyOK DEF PtyOK, PtyLife
  <2>3. pty \in [Ptys -> PtyRecord] /\ \A p \in Ptys : pty[p] = NoPty
    BY <2>1, <2>2
  <2> QED BY <1>0, <2>2, <2>3, NoPtyOK, PtysAssumption DEF PtyIInv
<1>4. WatchIInv
  <2>1. fse = [f \in FsEvents |-> NoFsEvent] /\ sh = [s \in Signals |-> NoSignal]
    BY DEF Init, WatchInit
  <2>2. NoFsEvent \in FseRecord /\ NoFsEvent.mem = "none" /\ NoFsEvent.uv = "none"
        /\ NoFsEvent.obj = "none" /\ ~NoFsEvent.this_val /\ ~NoFsEvent.ref /\ ~NoFsEvent.closed
    BY DEF NoFsEvent, FseRecord, HandleStates
  <2>3. NoSignal \in ShRecord /\ NoSignal.mem = "none" /\ NoSignal.uv = "none"
        /\ NoSignal.obj = "none" /\ ~NoSignal.ref /\ ~NoSignal.closed /\ ~NoSignal.finalized
    BY DEF NoSignal, ShRecord, HandleStates
  <2>4. FseOK(NoFsEvent) /\ ShOK(NoSignal)
    BY <2>2, <2>3 DEF FseOK, ShOK
  <2>5. fse \in [FsEvents -> FseRecord] /\ \A f \in FsEvents : fse[f] = NoFsEvent
    BY <2>1, <2>2
  <2>6. sh \in [Signals -> ShRecord] /\ \A s \in Signals : sh[s] = NoSignal
    BY <2>1, <2>3
  <2> QED BY <1>0, <2>2, <2>4, <2>5, <2>6, WatchAssumption DEF WatchIInv
<1>5. SsIInv /\ SetsidIInv
  BY SsInitIInv, SetsidInitIInv DEF Init
<1> QED BY <1>0, <1>1, <1>2, <1>3, <1>4, <1>5 DEF HandlesIInv

(* No step of a kind changes the phase of the runtime.  *)
LEMMA KindsKeepPhase == ProcNext \/ DgNext \/ PtyNext \/ WatchNext => phase' = phase
<1>1. ProcNext => phase' = phase
  BY DEF ProcNext, ProcSpawn, ProcSetOnExit, ProcKill, ProcClose, ProcDrop, ProcChildExits,
         ProcExitCb, ProcExitCbEnd, ProcCloseCb, ProcSet
<1>2. DgNext => phase' = phase
  BY DEF DgNext, DgNew, DgBind, DgSetOption, DgSend, DgRecvStart, DgRecvStop, DgClose,
         DgSetOnMessage, DgDrop, DgSendCb, DgCloseCb, DgRecvCb, DgRecvCbEnd, DgSet, DgPut
<1>3. PtyNext => phase' = phase
  BY DEF PtyNext, PtySpawn, PtyWrite, PtyPause, PtyResume, PtyKill, PtyClose, PtySetOnExit,
         PtyDrop, PtyLeaves, PtyChildExits, PtyWriteCb, PtySigchldCb, PtyReadEof, PtyReapEnd,
         PtyPipeCloseCb, PtySigchldCloseCb, PtyTryReap, PtySet, PtyPut
<1>4. WatchNext => phase' = phase
  BY DEF WatchNext, FsWatch, FseClose, FseRef, FseUnref, FseDrop, FseEventCb, FseEventEnd,
         FseCloseCb, Signal, ShClose, ShDrop, ShSignalCb, ShSignalEnd, ShCloseCb, FseSet, ShSet
<1> QED BY <1>1, <1>2, <1>3, <1>4

LEMMA HandlesNext == HandlesIInv /\ [Next]_vars => HandlesIInv'
<1> SUFFICES ASSUME HandlesIInv, [Next]_vars PROVE HandlesIInv'
  OBVIOUS
<1>0. phase \in Phases /\ kind \in Kinds /\ ProcIInv /\ DgIInv /\ PtyIInv /\ WatchIInv
      /\ SsIInv /\ SetsidIInv /\ (kind \in {"spawnSync", "setsid"} => cb = NoHandle)
  BY DEF HandlesIInv
<1>1. CASE kind = "process" /\ ProcNext
           /\ UNCHANGED <<kind, dg, pty, fse, sh, ssVars, setsidVars>>
  <2>1. phase' = phase /\ kind' = kind
    BY <1>1, KindsKeepPhase
  <2> QED BY <1>0, <1>1, <2>1, ProcNextKeeps, DgStutter, PtyStutter, WatchStutter, SsStutter,
             SetsidStutter DEF HandlesIInv
<1>2. CASE kind = "dgram" /\ DgNext
           /\ UNCHANGED <<kind, proc, pty, fse, sh, ssVars, setsidVars>>
  <2>1. phase' = phase /\ kind' = kind
    BY <1>2, KindsKeepPhase
  <2> QED BY <1>0, <1>2, <2>1, DgNextKeeps, ProcStutter, PtyStutter, WatchStutter, SsStutter,
             SetsidStutter DEF HandlesIInv
<1>3. CASE kind = "pty" /\ PtyNext
           /\ UNCHANGED <<kind, proc, dg, fse, sh, ssVars, setsidVars>>
  <2>1. phase' = phase /\ kind' = kind
    BY <1>3, KindsKeepPhase
  <2> QED BY <1>0, <1>3, <2>1, PtyNextKeeps, ProcStutter, DgStutter, WatchStutter, SsStutter,
             SetsidStutter DEF HandlesIInv
<1>4. CASE kind = "watch" /\ WatchNext
           /\ UNCHANGED <<kind, proc, dg, pty, ssVars, setsidVars>>
  <2>1. phase' = phase /\ kind' = kind
    BY <1>4, KindsKeepPhase
  <2> QED BY <1>0, <1>4, <2>1, WatchNextKeeps, ProcStutter, DgStutter, PtyStutter, SsStutter,
             SetsidStutter DEF HandlesIInv
<1>5. CASE kind = "spawnSync" /\ phase = "run" /\ SsNext
           /\ UNCHANGED <<phase, cb, kind, proc, dg, pty, fse, sh, setsidVars>>
  BY <1>0, <1>5, SsNextKeeps, ProcStutter, DgStutter, PtyStutter, WatchStutter, SetsidStutter
     DEF HandlesIInv
<1>6. CASE kind = "setsid" /\ phase = "run" /\ SetsidNext
           /\ UNCHANGED <<phase, cb, kind, proc, dg, pty, fse, sh, ssVars>>
  BY <1>0, <1>6, SetsidNextKeeps, ProcStutter, DgStutter, PtyStutter, WatchStutter, SsStutter
     DEF HandlesIInv
<1>7. CASE CleanUp
  <2>1. cb = NoHandle /\ cb' = cb /\ kind' = kind /\ phase' = "freeing" /\ fse' = fse /\ sh' = sh
        /\ proc' = ProcCleanedUp /\ dg' = DgCleanedUp /\ pty' = PtyCleanedUp
        /\ UNCHANGED ssVars /\ UNCHANGED setsidVars
    BY <1>7 DEF CleanUp
  <2>2. \A d \in Dgrams : ~DgAlive(d)
    BY <1>7 DEF CleanUp, LoopAlive
  <2>3. phase' \in Phases /\ phase' # "run"
    BY <2>1 DEF Phases
  <2>4. ProcIInv'
    BY <1>0, <2>1, <2>3, ProcCleanUpKeeps
  <2>5. DgIInv'
    BY <1>0, <2>1, <2>2, <2>3, DgCleanUpKeeps
  <2>6. PtyIInv' /\ WatchIInv'
    BY <1>0, <2>1, PtyCleanUpKeeps, WatchStutter
  <2>7. SsIInv' /\ SetsidIInv'
    BY <1>0, <2>1, SsStutter, SetsidStutter
  <2> QED BY <1>0, <2>1, <2>3, <2>4, <2>5, <2>6, <2>7 DEF HandlesIInv
<1>8. CASE FreeRuntime
  <2>1. cb = NoHandle /\ cb' = cb /\ kind' = kind /\ phase' = "done"
        /\ fse' = FseCollected /\ sh' = ShCollected
        /\ proc' = ProcCollected /\ dg' = DgCollected /\ pty' = PtyCollected
        /\ UNCHANGED ssVars /\ UNCHANGED setsidVars
    BY <1>8 DEF FreeRuntime
  <2>2. \A d \in Dgrams : ~DgAlive(d)
    BY <1>8 DEF FreeRuntime, LoopAlive
  <2>3. phase' \in Phases /\ phase' # "run"
    BY <2>1 DEF Phases
  <2>4. ProcIInv'
    BY <1>0, <2>1, <2>3, ProcCollectedKeeps
  <2>5. DgIInv'
    BY <1>0, <2>1, <2>2, <2>3, DgCollectedKeeps
  <2>6. PtyIInv' /\ WatchIInv'
    BY <1>0, <2>1, PtyCollectedKeeps, WatchCollectedKeeps
  <2>7. SsIInv' /\ SetsidIInv'
    BY <1>0, <2>1, SsStutter, SetsidStutter
  <2> QED BY <1>0, <2>1, <2>3, <2>4, <2>5, <2>6, <2>7 DEF HandlesIInv
<1>9. CASE UNCHANGED vars
  <2>1. phase' = phase /\ cb' = cb /\ kind' = kind /\ proc' = proc /\ dg' = dg /\ pty' = pty
        /\ fse' = fse /\ sh' = sh /\ UNCHANGED ssVars /\ UNCHANGED setsidVars
    BY <1>9 DEF vars
  <2> QED BY <1>0, <2>1, ProcStutter, DgStutter, PtyStutter, WatchStutter, SsStutter,
             SetsidStutter DEF HandlesIInv
<1> QED BY <1>1, <1>2, <1>3, <1>4, <1>5, <1>6, <1>7, <1>8, <1>9 DEF Next, Ended

LEMMA HandlesTypeOK == HandlesIInv => TypeOK
<1> SUFFICES ASSUME HandlesIInv PROVE TypeOK
  OBVIOUS
<1>1. phase \in Phases /\ kind \in Kinds /\ proc \in [Processes -> ProcRecord]
  BY DEF HandlesIInv, ProcIInv
<1>2. cb \in {NoHandle} \union Processes \union Dgrams \union Ptys \union FsEvents \union Signals
  BY <1>1 DEF HandlesIInv, ProcIInv, DgIInv, PtyIInv, WatchIInv, Kinds
<1>3. ASSUME NEW d \in Dgrams PROVE DOMAIN dg[d] = DOMAIN NoDgram
  <2>1. dg[d] \in DgRecord /\ NoDgram \in DgRecord
    BY NoDgramOK DEF HandlesIInv, DgIInv
  <2> QED BY <2>1 DEF DgRecord
<1>4. ASSUME NEW p \in Ptys PROVE DOMAIN pty[p] = DOMAIN NoPty
  <2>1. pty[p] \in PtyRecord /\ NoPty \in PtyRecord
    BY NoPtyOK DEF HandlesIInv, PtyIInv
  <2> QED BY <2>1 DEF PtyRecord
<1> QED BY <1>1, <1>2, <1>3, <1>4 DEF TypeOK

(* The inductive invariant of the handles holds in every behaviour of the    *)
(* runtime, its shutdown included.                                           *)
THEOREM HandlesInductive == Spec => []HandlesIInv
  BY HandlesInit, HandlesNext, PTL DEF Spec

(* Every handle struct outlives both of its owners, libuv and the collector, *)
(* and the callback that is running on it, whatever JavaScript does inside   *)
(* the callback and in the shutdown of qn_vm_free too, for any number of     *)
(* processes, sockets, terminals, watchers and signal handlers.              *)
THEOREM StructsSafe == Spec => []StructsOutliveOwners
<1>1. HandlesIInv => StructsOutliveOwners
  BY HandlesTypeOK, ProcIInvImplies, DgIInvImplies, PtyIInvImplies, WatchIInvImplies
     DEF HandlesIInv, StructsOutliveOwners
<1> QED BY <1>1, HandlesInductive, PTL

(* on_exit of a terminal is called at most once and only for a child that    *)
(* was reaped, although two callbacks look for its end; a datagram has left  *)
(* exactly when its promise is resolved, once, and in the order of the calls.*)
THEOREM ReportsTrue == Spec => []ReportsAreTrue
<1>1. HandlesIInv => ReportsAreTrue
  BY DgIInvImplies, PtyIInvImplies DEF HandlesIInv, ReportsAreTrue
<1> QED BY <1>1, HandlesInductive, PTL

(* In every order of exit, timer, ends of output and input, js_spawn_sync    *)
(* closes each of its handles once before it returns, kills no stranger, and *)
(* without a timeout has all the output.                                     *)
THEOREM SpawnSyncSafe == Spec => []SpawnSyncInv
<1>1. HandlesIInv => SpawnSyncInv
  BY SsIInvImplies DEF HandlesIInv
<1> QED BY <1>1, HandlesInductive, PTL

(* For any descriptors the parent has open and any it names, the child of    *)
(* js_qn_spawn_setsid gets the files it was promised and no others below the *)
(* limit, and the parent keeps nothing, whichever step fails.                *)
THEOREM SetsidSafe == Spec => []SetsidInv
<1>1. HandlesIInv => SetsidInv
  BY SetsidIInvImplies DEF HandlesIInv
<1> QED BY <1>1, HandlesInductive, PTL
=============================================================================
