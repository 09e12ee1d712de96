---------------------------- MODULE PollHandlers ----------------------------
(***************************************************************************)
(* setReadHandler and setWriteHandler of libuv/qn-vm.c: one QNPoll with a   *)
(* uv_poll_t for each descriptor that has a handler.  A handler may clear   *)
(* and set the handlers of any descriptor, its own included, while poll_cb  *)
(* that called it is still on the stack with a pointer to the entry.        *)
(***************************************************************************)
EXTENDS Naturals

CONSTANTS
  Fds,    \* descriptors that can be polled
  Polls   \* QNPoll structs

NoFd   == "none"  \* the fd of a struct that is not allocated
NoPoll == "none"  \* no poll_cb is on the stack

ASSUME PollHandlersAssumption == NoFd \notin Fds /\ NoPoll \notin Polls

Dirs == {"read", "write"}

VARIABLES
  poll,  \* each QNPoll
  cb,    \* the poll_cb on the stack: its entry and the events not yet looked at
  running     \* whether a handler, or other JavaScript, runs

pollVars == <<poll, cb, running>>

NoCb   == [p |-> NoPoll, todo |-> {}]

(* linked: in the list at poll_head.  fns: the handlers that are not null.   *)
(* events: what uv_poll_start was last asked to watch; empty when stopped.   *)
FreePoll == [mem |-> "free", fd |-> NoFd, linked |-> FALSE, fns |-> {},
             inited |-> FALSE, events |-> {}]

PollRecord ==
  [mem : {"free", "live", "closing"}, fd : Fds \union {NoFd}, linked : BOOLEAN,
   fns : SUBSET Dirs, inited : BOOLEAN, events : SUBSET Dirs]

PollTypeOK ==
  /\ poll \in [Polls -> PollRecord]
  /\ \A p \in Polls : poll[p].mem = "free" => poll[p] = FreePoll
  /\ cb \in [p : Polls \union {NoPoll}, todo : SUBSET Dirs]
  /\ running \in BOOLEAN

PollInit ==
  /\ poll = [p \in Polls |-> FreePoll]
  /\ cb = NoCb
  /\ running = TRUE

-----------------------------------------------------------------------------

(* poll_find.  *)
Found(fd) == {p \in Polls : poll[p].linked /\ poll[p].fd = fd}

(* poll_update: the handle is made on first use and watches what has a       *)
(* handler.                                                                  *)
PollUpdate(r) ==
  IF r.fns = {} THEN [r EXCEPT !.events = {}]
                ELSE [r EXCEPT !.events = r.fns, !.inited = TRUE]

(* Mutant: it is freed without waiting for the close callback.  *)
PollFreeEntryAtOnce(r) == FreePoll

(* poll_free_entry: unlinked at once, freed by poll_close_cb if there is a   *)
(* handle.                                                                   *)
PollFreeEntry(r) ==
  IF r.inited
  THEN [r EXCEPT !.linked = FALSE, !.mem = "closing", !.events = {}]
  ELSE FreePoll

(* Mutant: the last handler is freed but not set to null.  *)
ClearHandlerKeepsFn(fd, d) ==
  /\ running
  /\ \E p \in Found(fd) :
       LET r == [poll[p] EXCEPT !.fns = @ \ {d}]
       IN  poll' = [poll EXCEPT ![p] = IF r.fns = {} THEN PollFreeEntry(poll[p])
                                                     ELSE PollUpdate(r)]
  /\ UNCHANGED <<cb, running>>

(* js_vm_setRWHandler with null.  *)
ClearHandler(fd, d) ==
  /\ running
  /\ \E p \in Found(fd) :
       LET r == [poll[p] EXCEPT !.fns = @ \ {d}]
       IN  poll' = [poll EXCEPT ![p] = IF r.fns = {} THEN PollFreeEntry(r)
                                                     ELSE PollUpdate(r)]
  /\ UNCHANGED <<cb, running>>

(* js_vm_setRWHandler with a function.  *)
SetHandler(fd, d) ==
  /\ running
  /\ \/ \E p \in Found(fd) :
          poll' = [poll EXCEPT ![p] = PollUpdate([poll[p] EXCEPT !.fns = @ \union {d}])]
     \/ /\ Found(fd) = {}
        /\ \E p \in Polls :
             /\ poll[p].mem = "free"
             /\ poll' = [poll EXCEPT ![p] = PollUpdate(
                  [FreePoll EXCEPT !.mem = "live", !.fd = fd, !.linked = TRUE,
                                   !.fns = {d}])]
  /\ UNCHANGED <<cb, running>>

HandlerReturns ==
  /\ running
  /\ running' = FALSE
  /\ UNCHANGED <<poll, cb>>

(* Some other callback runs JavaScript.  *)
JsTurn ==
  /\ ~running /\ cb = NoCb
  /\ running' = TRUE
  /\ UNCHANGED <<poll, cb>>

(* poll_cb with some of the events the handle watches.  *)
PollCb(p) ==
  /\ ~running /\ cb = NoCb
  /\ \E ev \in (SUBSET poll[p].events) \ {{}} : cb' = [p |-> p, todo |-> ev]
  /\ UNCHANGED <<poll, running>>

(* poll_cb with status < 0: libuv has stopped the handle, nobody is called.  *)
PollError(p) ==
  /\ ~running /\ cb = NoCb
  /\ poll[p].events # {}
  /\ poll' = [poll EXCEPT ![p].events = {}]
  /\ UNCHANGED <<cb, running>>

(* The two tests of poll_cb, read before write; each looks at the entry as   *)
(* it is now.                                                                *)
NextEvent == IF "read" \in cb.todo THEN "read" ELSE "write"

PollCbStep ==
  /\ ~running /\ cb.todo # {}
  /\ running' = (NextEvent \in poll[cb.p].fns)
  /\ cb' = [cb EXCEPT !.todo = @ \ {NextEvent}]
  /\ UNCHANGED poll

PollCbReturns ==
  /\ ~running /\ cb # NoCb /\ cb.todo = {}
  /\ cb' = NoCb
  /\ UNCHANGED <<poll, running>>

(* poll_close_cb.  *)
PollCloseCb(p) ==
  /\ ~running /\ cb = NoCb
  /\ poll[p].mem = "closing"
  /\ poll' = [poll EXCEPT ![p] = FreePoll]
  /\ UNCHANGED <<cb, running>>

PollNext ==
  \/ \E fd \in Fds, d \in Dirs : ClearHandler(fd, d) \/ SetHandler(fd, d)
  \/ HandlerReturns \/ JsTurn
  \/ \E p \in Polls : PollCb(p) \/ PollError(p) \/ PollCloseCb(p)
  \/ PollCbStep \/ PollCbReturns

PollSpec == PollInit /\ [][PollNext]_pollVars

-----------------------------------------------------------------------------
(* Properties.                                                               *)

(* An entry that can be found is live, has a handler, and is the only one of *)
(* its descriptor: "poll_find() won't return a stale/closing entry".         *)
ListIsLive ==
  \A p \in Polls : poll[p].linked =>
    /\ poll[p].mem = "live" /\ poll[p].fns # {} /\ poll[p].inited
    /\ Found(poll[p].fd) = {p}

(* poll_cb never holds a pointer to freed memory while its handlers run.     *)
EntryOutlivesCallback == cb # NoCb => poll[cb.p].mem # "free"

(* A handler that has been cleared is not called again, not even by the      *)
(* poll_cb that is on the stack: what poll_cb calls is set in the list, in   *)
(* the entry of the descriptor that had the event.                           *)
ClearedIsNotCalled ==
  [][cb.todo # {} /\ ~running /\ running' => poll[cb.p].linked]_pollVars

(* No descriptor is watched for an event that nobody handles; at most one    *)
(* handle watches it, since libuv allows one.                                *)
NoIdleWatch ==
  /\ \A p \in Polls : poll[p].events \subseteq poll[p].fns
  /\ \A p, q \in Polls : p # q /\ poll[p].events # {} /\ poll[q].events # {}
                           => poll[p].fd # poll[q].fd

(* What poll_find and poll_cb may meet, whatever the handlers do to the list *)
(* they are called from: live entries, one per descriptor, that watch what   *)
(* somebody handles.                                                         *)
EntriesInv == PollTypeOK /\ ListIsLive /\ EntryOutlivesCallback /\ NoIdleWatch
=============================================================================
