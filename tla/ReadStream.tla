----------------------------- MODULE ReadStream -----------------------------
(***************************************************************************)
(* fs.ReadStream: #run opens the file and then reads it in a loop that      *)
(* awaits every read.  pause, resume and destroy may be called whenever     *)
(* JavaScript runs: between two callbacks of the loop and, from a listener, *)
(* inside an emit.  resume starts #run again, so several loops may be in    *)
(* flight over the same #fd, #pos, #ended, #paused and #destroyed.          *)
(*                                                                         *)
(* The file is abstracted to RsChunks chunks of #readSize, #pos counts them;*)
(* the range asked for ends at some chunk, or beyond the file (Infinity).   *)
(***************************************************************************)
EXTENDS Naturals, Sequences

CONSTANTS
  RsChunks,  \* chunks of data in the file
  MaxRuns    \* bound: calls of #run

ASSUME RsAssumption == RsChunks \in Nat /\ MaxRuns \in Nat \ {0}

VARIABLES
  rs,     \* the fields of the stream, and what it emitted
  loops   \* the calls of #run: where each is, and the position it reads

rsVars == <<rs, loops>>

Runs == 1..MaxRuns
NoLoop == [pc |-> "idle", at |-> 0]
Idle == 0  \* no #run is inside an emit

(* Before the constructor.  *)
RsInit ==
  /\ rs = [fd |-> FALSE, pos |-> 0, last |-> 0, ended |-> FALSE, destroyed |-> FALSE,
           paused |-> TRUE, started |-> 0, emitting |-> Idle, opened |-> 0,
           closed |-> 0, data |-> <<>>, ends |-> 0, closes |-> 0]
  /\ loops = [l \in Runs |-> NoLoop]

(* The constructor takes the range and calls #run.  *)
RsNew ==
  /\ rs.started = 0
  /\ \E last \in 0..(RsChunks + 1) : rs' = [rs EXCEPT !.last = last, !.started = 1]
  /\ loops' = [loops EXCEPT ![1].pc = "opening"]

(* Fields after destroy().  *)
Destroyed(s) ==
  IF s.destroyed THEN s
  ELSE [s EXCEPT !.destroyed = TRUE, !.fd = FALSE,
                 !.closed = IF s.fd THEN s.closed + 1 ELSE s.closed,
                 !.closes = s.closes + 1]

(* Fields after #finish().  *)
RsFinished(s) ==
  IF s.ended THEN s
  ELSE Destroyed([s EXCEPT !.ended = TRUE, !.ends = s.ends + 1])

(* The condition of the while loop of #run, and the next read, unless the    *)
(* range is over, which finishes the stream.                                 *)
Looping(s) == ~s.destroyed /\ ~s.ended /\ ~s.paused
LoopFields(s) == IF Looping(s) /\ s.pos >= s.last THEN RsFinished(s) ELSE s
LoopOn(s, l, ls) ==
  IF Looping(s) /\ s.pos < s.last
  THEN [ls EXCEPT ![l] = [pc |-> "reading", at |-> s.pos]]
  ELSE [ls EXCEPT ![l] = NoLoop]

(* The open is answered.  The listener of 'open' or of 'error' runs inside.  *)
OpenDone(l) ==
  /\ rs.emitting = Idle /\ loops[l].pc = "opening"
  /\ \/ /\ rs' = [rs EXCEPT !.fd = TRUE, !.opened = rs.opened + 1, !.emitting = l]
        /\ loops' = [loops EXCEPT ![l].pc = "opened"]
     \/ UNCHANGED rs /\ loops' = [loops EXCEPT ![l] = NoLoop]

(* The listeners of 'open' have returned.  *)
Opened(l) ==
  /\ rs.emitting = l /\ loops[l].pc = "opened"
  /\ LET s == [rs EXCEPT !.emitting = Idle,
                         !.paused = IF rs.destroyed THEN rs.paused ELSE FALSE]
     IN /\ rs' = LoopFields(s)
        /\ loops' = LoopOn(s, l, loops)

(* Mutant: the position moves when the read is issued a second time.  *)
ReadDoneTwice(l) ==
  /\ rs.emitting = Idle /\ loops[l].pc = "reading"
  /\ rs' = [rs EXCEPT !.pos = rs.pos + 2, !.data = Append(rs.data, loops[l].at),
                      !.emitting = l]
  /\ loops' = [loops EXCEPT ![l].pc = "emitted"]

(* A read is answered: with data, which is emitted even if the stream was    *)
(* paused or destroyed meanwhile; with 0 at the end; or with an error.       *)
ReadDone(l) ==
  /\ rs.emitting = Idle /\ loops[l].pc = "reading"
  /\ \/ /\ loops[l].at < RsChunks
        /\ rs' = [rs EXCEPT !.pos = rs.pos + 1, !.data = Append(rs.data, loops[l].at),
                            !.emitting = l]
        /\ loops' = [loops EXCEPT ![l].pc = "emitted"]
     \/ /\ loops[l].at >= RsChunks
        /\ rs' = RsFinished(rs)
        /\ loops' = [loops EXCEPT ![l] = NoLoop]
     \/ /\ rs' = Destroyed(rs)
        /\ loops' = [loops EXCEPT ![l] = NoLoop]

(* The listeners of 'data' have returned; the loop goes round.  *)
DataEmitted(l) ==
  /\ rs.emitting = l /\ loops[l].pc = "emitted"
  /\ LET s == [rs EXCEPT !.emitting = Idle] IN rs' = LoopFields(s) /\ loops' = LoopOn(s, l, loops)

Pause ==
  /\ rs.started > 0 /\ ~rs.paused
  /\ rs' = [rs EXCEPT !.paused = TRUE]
  /\ UNCHANGED loops

(* resume of a paused stream calls #run, which opens the file when there is  *)
(* no #fd yet and else reads on.                                             *)
Resume ==
  /\ rs.paused /\ rs.started \in 1..(MaxRuns - 1)
  /\ IF rs.ended \/ rs.destroyed
     THEN rs' = [rs EXCEPT !.paused = FALSE] /\ UNCHANGED loops
     ELSE LET l == rs.started + 1
              s == [rs EXCEPT !.paused = FALSE, !.started = l]
          IN /\ rs' = IF rs.fd THEN LoopFields(s) ELSE s
             /\ loops' = IF rs.fd THEN LoopOn(s, l, loops)
                         ELSE [loops EXCEPT ![l].pc = "opening"]

RsDestroy ==
  /\ rs.started > 0 /\ ~rs.destroyed
  /\ rs' = Destroyed(rs)
  /\ UNCHANGED loops

RsNext ==
  \/ \E l \in Runs : OpenDone(l) \/ Opened(l) \/ ReadDone(l) \/ DataEmitted(l)
  \/ RsNew \/ Pause \/ Resume \/ RsDestroy

RsTypeOK ==
  /\ rs.pos \in Nat /\ rs.emitting \in Runs \union {Idle}
  /\ \A l \in Runs : loops[l].pc \in {"idle", "opening", "opened", "reading", "emitted"}

Consecutive(d) == \A i \in 1..Len(d) : d[i] = i - 1

(* A stream on which #run was called once emits the file in order, whatever  *)
(* pause and destroy do in between.                                          *)
OneRunReadsInOrder == rs.started = 1 => Consecutive(rs.data)

(* 'end' and 'close' are emitted at most once, however many loops meet the   *)
(* end of the file, an error or a destroy.                                   *)
EndAndCloseOnce == rs.ends =< 1 /\ rs.closes =< 1

(* A file stream with one run of its loop delivers the file in order, and    *)
(* with any number of them ends and closes once.                             *)
ReadStreamInv == RsTypeOK /\ OneRunReadsInOrder /\ EndAndCloseOnce
=============================================================================
