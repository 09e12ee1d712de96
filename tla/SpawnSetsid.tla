---------------------------- MODULE SpawnSetsid ----------------------------
(***************************************************************************)
(* spawn_setsid of native/qn-native.c: fork, and in the child a session of  *)
(* its own, the redirection of the three standard descriptors, the closing  *)
(* of the others, chdir and exec.  The descriptors are duplicated one after *)
(* the other in one table, so a number that was redirected already no       *)
(* longer names the parent's file.                                          *)
(*                                                                         *)
(* A file is told by the number the parent has it under.                    *)
(***************************************************************************)
EXTENDS Naturals

CONSTANTS
  MaxFd,      \* bound: largest descriptor number
  CloseLimit  \* the child closes the numbers below it: at most 1024 in the code

ASSUME SetsidAssumption == MaxFd \in Nat /\ CloseLimit \in Nat /\ CloseLimit > 2 /\ MaxFd > 2

VARIABLES
  call,   \* js_qn_spawn_setsid: where it is, what it holds, its descriptors
  table   \* descriptors of the child: number -> file of the parent, or None

setsidVars == <<call, table>>

Std == 0..2
Fds == 0..MaxFd
None == MaxFd + 1

SetsidInit ==
  /\ call = [at |-> "idle", child |-> "none", held |-> {}, std_fds |-> [i \in Std |-> i],
             next |-> 0]
  /\ table = [fd \in Fds |-> None]

-----------------------------------------------------------------------------
(* exec_argv is allocated and filled; the allocation may fail.  *)
SetsidArgs ==
  /\ call.at = "idle"
  /\ call' \in {[call EXCEPT !.at = "options", !.held = {"exec_argv"}],
                [call EXCEPT !.at = "thrown"]}
  /\ UNCHANGED table

(* The label exception.  *)
SetsidException ==
  /\ call.at = "exception"
  /\ call' = [call EXCEPT !.at = "thrown",
                          !.held = call.held \ {"exec_argv", "cwd", "alloc_envp"}]
  /\ UNCHANGED table

(* The arguments and the options are converted in turn: the descriptors, the *)
(* directory, the environment; each conversion may throw.                    *)
SetsidOptions ==
  /\ call.at = "options"
  /\ \E std \in [Std -> Fds], opts \in SUBSET {"cwd", "alloc_envp"} :
       call' \in {[call EXCEPT !.at = "fork", !.std_fds = std, !.held = call.held \union opts],
                  [call EXCEPT !.at = "exception", !.held = call.held \union opts]}
  /\ UNCHANGED table

(* fork: the child gets a copy of the table, in which the parent may have    *)
(* any of the numbers open.                                                  *)
SetsidFork ==
  /\ call.at = "fork"
  /\ \/ \E open \in SUBSET Fds :
          /\ table' = [fd \in Fds |-> IF fd \in open THEN fd ELSE None]
          /\ call' = [call EXCEPT !.at = "parent", !.child = "redirect"]
     \/ call' = [call EXCEPT !.at = "exception"] /\ UNCHANGED table

(* The parent frees its copies and returns the pid, whatever becomes of the  *)
(* child.                                                                    *)
SetsidReturn ==
  /\ call.at = "parent"
  /\ call' = [call EXCEPT !.at = "returned", !.held = {}]
  /\ UNCHANGED table

-----------------------------------------------------------------------------
(* The child, after setsid().                                                *)

(* Mutant: the target is taken for the source.  *)
Dup2Swapped(i) == [table EXCEPT ![call.std_fds[i]] = table[i]]

(* dup2(std_fds[i], i).  *)
Dup2(i) == [table EXCEPT ![i] = table[call.std_fds[i]]]

Redirect ==
  /\ call.child = "redirect" /\ call.next \in Std
  /\ LET i == call.next IN
       \/ /\ call.std_fds[i] = i
          /\ call' = [call EXCEPT !.next = i + 1]
          /\ UNCHANGED table
       \/ /\ call.std_fds[i] # i /\ table[call.std_fds[i]] # None
          /\ table' = Dup2(i)
          /\ call' = [call EXCEPT !.next = i + 1]
       \/ /\ call.std_fds[i] # i /\ table[call.std_fds[i]] = None  \* _exit(127)
          /\ call' = [call EXCEPT !.child = "exited"]
          /\ UNCHANGED table

(* The other descriptors, up to the limit.  *)
CloseOthers ==
  /\ call.child = "redirect" /\ call.next \notin Std
  /\ table' = [fd \in Fds |-> IF fd \in 3..(CloseLimit - 1) THEN None ELSE table[fd]]
  /\ call' = [call EXCEPT !.child = "exec"]

(* chdir fails, or execve and the search along PATH do: _exit(127).  *)
ExecChild ==
  /\ call.child = "exec"
  /\ call' \in {[call EXCEPT !.child = "running"], [call EXCEPT !.child = "exited"]}
  /\ UNCHANGED table

SetsidNext ==
  \/ SetsidArgs \/ SetsidOptions \/ SetsidException \/ SetsidFork \/ SetsidReturn
  \/ Redirect \/ CloseOthers \/ ExecChild

SetsidTypeOK ==
  /\ call.at \in {"idle", "options", "fork", "exception", "parent", "returned", "thrown"}
  /\ call.child \in {"none", "redirect", "exec", "running", "exited"}
  /\ call.next \in 0..3
  /\ table \in [Fds -> Fds \union {None}]

(* The source of number i is a number that was itself redirected before.  *)
Overwritten(i) == \E j \in Std : j < i /\ call.std_fds[i] = j /\ call.std_fds[j] # j

(* A program that runs has the files its parent named as its standard        *)
(* descriptors, unless it named a number that was redirected before it was   *)
(* used; and nothing else of what the parent had open, up to the limit.      *)
ChildHasItsStdio ==
  call.child = "running" =>
    /\ \A i \in Std : ~Overwritten(i) => table[i] \in {call.std_fds[i], None}
    /\ \A i \in Std : call.std_fds[i] # i => table[i] # None
    /\ \A fd \in 3..(CloseLimit - 1) : fd \in Fds => table[fd] = None

(* Whatever conversion fails, nothing is held when the call is over.  *)
SetsidFreesAll == call.at \in {"returned", "thrown"} => call.held = {}

(* js_spawn_setsid: the child gets the files it was promised and no others,  *)
(* and the parent keeps nothing, whichever step fails.                       *)
SetsidInv == SetsidTypeOK /\ ChildHasItsStdio /\ SetsidFreesAll
=============================================================================
