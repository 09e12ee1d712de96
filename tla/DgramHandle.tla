---------------------------- MODULE DgramHandle ----------------------------
(***************************************************************************)
(* UDP sockets, libuv/qn-uv-dgram.c: the QNDgram struct and its send        *)
(* requests.  DGRAM_SEND first tries to send at once; what the kernel does  *)
(* not take becomes a request with a promise of its own, which libuv sends  *)
(* later or cancels when the socket is closed.                              *)
(***************************************************************************)
EXTENDS Runtime, Sequences, SequencesExt

CONSTANTS
  Dgrams,   \* QNDgram structs
  MaxSends  \* datagrams sent per socket, at most

ASSUME DgramAssumption == MaxSends \in Nat /\ NoHandle \notin Dgrams

VARIABLE dg  \* each QNDgram

(* queue: the send requests in flight, by number.  wire: what has left.      *)
(* result: what each send's promise became.  option: a socket option is set. *)
NoDgram ==
  [mem |-> "none", uv |-> "none", closed |-> FALSE, finalized |-> FALSE,
   this_val |-> FALSE, obj |-> "none", ref |-> FALSE,
   bound |-> FALSE, receiving |-> FALSE, on_message |-> FALSE, option |-> FALSE,
   queue |-> <<>>, wire |-> <<>>, result |-> <<>>]

DgInit == dg = [d \in Dgrams |-> NoDgram]

-----------------------------------------------------------------------------

(* qn_dgram_maybe_free.  *)
DgMaybeFree(r) == IF r.closed /\ r.finalized THEN [r EXCEPT !.mem = "freed"] ELSE r

(* qn_dgram_finalizer.  *)
DgFinalizer(r) ==
  LET f == [r EXCEPT !.on_message = FALSE, !.this_val = FALSE,
                     !.finalized = TRUE, !.obj = "gone"]
  IN  IF f.closed THEN DgMaybeFree(f) ELSE UvClose(f)

(* qn_dgram_close_cb: this_val, or else the struct.  *)
DgClosed(r) ==
  LET c == [r EXCEPT !.uv = "closed", !.closed = TRUE]
  IN  IF ~c.finalized /\ c.this_val
      THEN Released([c EXCEPT !.this_val = FALSE], DgFinalizer)
      ELSE DgMaybeFree(c)

(* qn_dgram_new, uv_udp_init and qn_dgram_wrap, which closes the handle when *)
(* it cannot make the object.                                                *)
DgNewRecord ==
  [NoDgram EXCEPT !.mem = "live", !.uv = "open",
                  !.this_val = TRUE, !.obj = "alive", !.ref = TRUE]
DgUnwrapped == [NoDgram EXCEPT !.mem = "live", !.uv = "closing"]

-----------------------------------------------------------------------------
(* js_uv_dgram_op.                                                           *)

DgPut(d, r) == dg' = [dg EXCEPT ![d] = r] /\ UNCHANGED phase
DgSet(d, r) == DgPut(d, r) /\ UNCHANGED cb
DgReachable(d) == Running /\ dg[d].ref

DgNew(d) ==
  /\ Running
  /\ dg[d].mem = "none"
  /\ DgSet(d, DgNewRecord) \/ DgSet(d, DgUnwrapped)

(* DGRAM_BIND, once the address parses.  *)
DgBind(d) ==
  /\ DgReachable(d)
  /\ dg[d].uv = "open" /\ ~dg[d].bound
  /\ DgSet(d, [dg[d] EXCEPT !.bound = TRUE])

(* DGRAM_SET_BROADCAST, SET_TTL, SET_MULTICAST_TTL and                       *)
(* SET_MULTICAST_LOOPBACK; without a socket libuv reports EBADF.             *)
DgSetOption(d) ==
  /\ DgReachable(d)
  /\ dg[d].uv = "open" /\ dg[d].bound
  /\ DgSet(d, [dg[d] EXCEPT !.option = TRUE])

(* What DGRAM_SEND does with the answer n of uv_udp_try_send: the promise is *)
(* resolved, or the error thrown, or the datagram is queued.                 *)
DgSendResult(r, n) ==
  LET num == Len(r.result) + 1
  IN  CASE n = "sent"  -> [r EXCEPT !.wire = Append(@, num),
                                    !.result = Append(@, "resolved")]
        [] n = "error" -> [r EXCEPT !.result = Append(@, "thrown")]
        [] n = "EAGAIN" -> [r EXCEPT !.queue = Append(@, num),
                                     !.result = Append(@, "pending")]

(* uv_udp_try_send on an open socket, bound or bound by this call.  libuv    *)
(* answers EAGAIN while requests are queued.                                 *)
TrySend(r) == IF r.queue # <<>> THEN {"EAGAIN"} ELSE {"sent", "error", "EAGAIN"}

(* DGRAM_SEND.  *)
DgSend(d) ==
  /\ DgReachable(d)
  /\ dg[d].uv = "open"
  /\ Len(dg[d].result) < MaxSends
  /\ \E n \in TrySend(dg[d]) :
       DgSet(d, DgSendResult([dg[d] EXCEPT !.bound = TRUE], n))

(* DGRAM_RECV_START; libuv refuses a closing handle.  *)
DgRecvStart(d) ==
  /\ DgReachable(d)
  /\ dg[d].uv = "open" /\ ~dg[d].receiving
  /\ DgSet(d, [dg[d] EXCEPT !.receiving = TRUE, !.bound = TRUE])

DgRecvStop(d) ==
  /\ DgReachable(d)
  /\ dg[d].receiving
  /\ DgSet(d, [dg[d] EXCEPT !.receiving = FALSE])

(* DGRAM_CLOSE.  *)
DgClose(d) ==
  /\ DgReachable(d)
  /\ dg[d].uv = "open"
  /\ DgSet(d, UvClose([dg[d] EXCEPT !.receiving = FALSE]))

(* DGRAM_SET_ON_MESSAGE.  *)
DgSetOnMessage(d) ==
  /\ DgReachable(d)
  /\ \E f \in BOOLEAN : DgSet(d, [dg[d] EXCEPT !.on_message = f])

DgDrop(d) == DgReachable(d) /\ DgSet(d, Lost(dg[d], DgFinalizer))

-----------------------------------------------------------------------------
(* Callbacks.                                                                *)

(* qn_dgram_send_cb for the oldest request, with the status libuv gives it:  *)
(* a request of a closing socket is cancelled.                               *)
DgSendCb(d) ==
  /\ Polling
  /\ dg[d].queue # <<>>
  /\ LET num == Head(dg[d].queue)
         r   == [dg[d] EXCEPT !.queue = Tail(@)]
     IN  \/ /\ r.uv = "open"
            /\ DgSet(d, [r EXCEPT !.wire = Append(@, num),
                                  !.result[num] = "resolved"])
         \/ DgSet(d, [r EXCEPT !.result[num] = "rejected"])

(* libuv calls the close callback after those of the cancelled requests.  *)
DgCloseCb(d) ==
  /\ Polling
  /\ dg[d].uv = "closing"
  /\ dg[d].queue = <<>>
  /\ DgSet(d, DgClosed(dg[d]))

(* qn_dgram_recv_cb with a datagram or an error, if there is an on_message.  *)
(* libuv looks at the handle again when on_message returns.                  *)
DgRecvCb(d) ==
  /\ Polling
  /\ dg[d].receiving /\ dg[d].on_message
  /\ DgPut(d, dg[d])
  /\ cb' = d

DgRecvCbEnd(d) == cb = d /\ DgPut(d, dg[d]) /\ cb' = NoHandle

DgNext ==
  \E d \in Dgrams :
    \/ DgNew(d) \/ DgBind(d) \/ DgSetOption(d) \/ DgSend(d)
    \/ DgRecvStart(d) \/ DgRecvStop(d) \/ DgClose(d) \/ DgSetOnMessage(d)
    \/ DgDrop(d) \/ DgSendCb(d) \/ DgCloseCb(d) \/ DgRecvCb(d) \/ DgRecvCbEnd(d)

DgAlive(d) == dg[d].uv = "closing" \/ dg[d].receiving \/ dg[d].queue # <<>>

(* qn_dgram_cleanup.  *)
DgCleanedUp ==
  [d \in Dgrams |->
     IF dg[d].mem = "live" /\ dg[d].this_val
     THEN Released([dg[d] EXCEPT !.this_val = FALSE], DgFinalizer)
     ELSE dg[d]]

DgCollected == [d \in Dgrams |-> Collected(dg[d], DgFinalizer)]

dgVars == <<phase, cb, dg>>

(* libuv goes on calling the callbacks that are due, however many datagrams  *)
(* come in between, and on_message returns.                                  *)
DgFairness ==
  \A d \in Dgrams :
    /\ SF_dgVars(DgSendCb(d)) /\ SF_dgVars(DgCloseCb(d))
    /\ WF_dgVars(DgRecvCbEnd(d))

-----------------------------------------------------------------------------
(* Properties.                                                               *)

(* The struct is freed after both owners are done with it, after every       *)
(* request that points at the handle, and never inside a callback that       *)
(* returns to the handle.                                                    *)
DgFreedWhenBothDone ==
  \A d \in Dgrams : dg[d].mem = "freed" =>
    dg[d].uv = "closed" /\ dg[d].obj = "gone" /\ dg[d].queue = <<>> /\ cb # d

(* The promise of a send tells the truth: a datagram has left exactly when   *)
(* its promise is resolved, it leaves once, and datagrams leave in the order *)
(* of the calls, queued ones and immediate ones together.                    *)
DgPromiseTellsTruth ==
  \A d \in Dgrams :
    /\ \A n \in 1..Len(dg[d].result) :
         dg[d].result[n] = "resolved" <=> Contains(dg[d].wire, n)
    /\ \A i, j \in 1..Len(dg[d].wire) : i < j => dg[d].wire[i] < dg[d].wire[j]

(* Every send is answered, also when the socket is closed under it.  *)
DgSendAnswered ==
  \A d \in Dgrams :
    (\E n \in 1..Len(dg[d].result) : dg[d].result[n] = "pending")
      ~> (\A n \in 1..Len(dg[d].result) : dg[d].result[n] # "pending")
=============================================================================
