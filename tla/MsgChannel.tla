----------------------------- MODULE MsgChannel -----------------------------
(***************************************************************************)
(* What postMessage promises in one direction: messages arrive in the order *)
(* they were sent, each at most once and unchanged; closing the sending end *)
(* may lose the ones that have not been written, never one in the middle.   *)
(* A receiver that has no handler, or cannot read a message, drops it.      *)
(***************************************************************************)
EXTENDS Naturals, Sequences

CONSTANT Message

VARIABLES
  queue,  \* sent and not yet delivered
  last,   \* the messages delivered so far
  open    \* the sender can still send

chanVars == <<queue, last, open>>

ChanInit == queue = <<>> /\ last = <<>> /\ open = TRUE

Send(m) ==
  /\ open
  /\ queue' = Append(queue, m)
  /\ UNCHANGED <<last, open>>

Deliver ==
  /\ queue # <<>>
  /\ last' = Append(last, Head(queue))
  /\ queue' = Tail(queue)
  /\ UNCHANGED open

(* The receiver has no handler or cannot read the message.  *)
Drop ==
  /\ queue # <<>>
  /\ queue' = Tail(queue)
  /\ UNCHANGED <<last, open>>

(* The sender closes: some suffix of the queue is dropped.  *)
Close ==
  /\ open
  /\ open' = FALSE
  /\ \E n \in 0..Len(queue) : queue' = SubSeq(queue, 1, n)
  /\ UNCHANGED last

ChanNext == (\E m \in Message : Send(m)) \/ Deliver \/ Drop \/ Close

ChanSpec == ChanInit /\ [][ChanNext]_chanVars
=============================================================================
