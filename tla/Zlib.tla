-------------------------------- MODULE Zlib --------------------------------
(***************************************************************************)
(* node:zlib.  A ZStream of qn-zlib.c wraps a miniz engine and runs it on   *)
(* the JavaScript thread or on libuv's pool, at most one run at a time.     *)
(* ZlibStream, a Transform, feeds it chunk by chunk and does the framing of *)
(* gzip around it: a header that may come in pieces, a window that holds    *)
(* back the trailer.  The one-shot calls feed everything at once.           *)
(*                                                                         *)
(* Data are sequences of units.  A compressed unit is one token, End closes *)
(* the compressed data, and the header and trailer of gzip are tokens of    *)
(* their own; a checksum is as good as the sequence it is taken of.  A       *)
(* header may carry a name, which ends with a token of its own.  The input   *)
(* may be cut short, spoiled in one place, or followed by something else.    *)
(* The reader of the stream keeps up, and there is no limit on what is       *)
(* queued.                                                                  *)
(***************************************************************************)
EXTENDS Naturals, Sequences, SequencesExt, FiniteSets

CONSTANTS
  ZUnits,     \* units of data
  HeaderLen,  \* length of the header of gzip: 10 in the code
  HeaderLimit, \* longest incomplete header that is waited with: 1024 in the code
  MaxName,    \* bound: length of the name in a header
  TrailerLen, \* length of its trailer: 8 in the code
  MaxRoom     \* bound: free room in the output buffer at a call of the engine

ASSUME ZlibAssumption ==
  /\ ZUnits \in Nat /\ HeaderLen \in Nat \ {0} /\ TrailerLen \in Nat \ {0} /\ MaxRoom \in Nat \ {0}
  /\ HeaderLimit \in Nat /\ HeaderLimit >= HeaderLen /\ MaxName \in Nat

VARIABLE zs  \* one ZlibStream or one-shot call, its ZStream and its program

Data == [i \in 1..ZUnits |-> i]
End == ZUnits + 1
Body == Append(Data, End)
HeaderTokens == [i \in 1..HeaderLen |-> End + i]
(* makeGzipTrailer: the checksum of seq, which only that of Data matches.  *)
TrailerTokens(seq) ==
  [i \in 1..TrailerLen |-> End + HeaderLen + i + IF seq = Data THEN 0 ELSE TrailerLen]
Gzipped(seq) == HeaderTokens \o Append(seq, End) \o TrailerTokens(seq)
GzipFile == Gzipped(Data)

Other == End + HeaderLen + 2 * TrailerLen  \* what belongs nowhere
NameByte == Other + 1
NameEnd == Other + 2
(* The header whose flags announce a name, and the file with a name of k.    *)
FlaggedHeader == [HeaderTokens EXCEPT ![HeaderLen] = Other + 3]
NamedHeader(k) == FlaggedHeader \o [i \in 1..(k + 1) |-> IF i > k THEN NameEnd ELSE NameByte]
NamedFile(k) == NamedHeader(k) \o SubSeq(GzipFile, HeaderLen + 1, Len(GzipFile))
NamedFiles == {NamedFile(k) : k \in 0..MaxName}

(* parseGzipHeader: the length of the header buf begins with; 0 for one that *)
(* is bad or not complete.                                                   *)
HeaderIn(buf) ==
  CASE IsPrefix(HeaderTokens, buf) -> HeaderLen
    [] IsPrefix(FlaggedHeader, buf) /\ Contains(buf, NameEnd) ->
         CHOOSE n \in 1..Len(buf) : buf[n] = NameEnd /\ NameEnd \notin Range(SubSeq(buf, 1, n - 1))
    [] OTHER -> 0

ZModes == {"gzip", "gunzip", "inflate", "gzipOnce", "gunzipOnce"}
Compresses(mode) == mode \in {"gzip", "gzipOnce"}
OneShot(mode) == mode \in {"gzipOnce", "gunzipOnce"}
(* What the program feeds: the data, or nothing, or a file that may be cut   *)
(* short, be spoiled or have something after it.                             *)
Cuts(file) == {SubSeq(file, 1, n) : n \in 0..Len(file)}
Spoiled(file) == {[file EXCEPT ![n] = Other] : n \in 1..Len(file)} \union {Append(file, Other)}
Sources(mode) ==
  CASE Compresses(mode)                  -> {Data, <<>>}
    [] mode \in {"gunzip", "gunzipOnce"} -> Cuts(GzipFile) \union Spoiled(GzipFile) \union NamedFiles
    [] OTHER                             -> Cuts(Body) \union Spoiled(Body)

NoRun == [on |-> FALSE, in |-> <<>>, out |-> <<>>, flush |-> FALSE, rc |-> "ok"]
NewZlib(mode, src) ==
  [mode |-> mode, src |-> src, todo |-> src,
   \* ZStream
   engine |-> "live", held |-> <<>>, finished |-> FALSE, bad |-> FALSE, busy |-> FALSE,
   ref |-> TRUE, pinned |-> FALSE, run |-> NoRun,
   \* Transform
   pc |-> "idle", pending |-> <<>>, fed |-> FALSE, ended |-> FALSE, flushed |-> FALSE,
   destroyed |-> FALSE, errored |-> FALSE, chunkBad |-> FALSE, ok |-> FALSE, out |-> <<>>, spurious |-> FALSE,
   \* ZlibStream
   hdrOut |-> FALSE, hdrBuf |-> <<>>, hdrIn |-> FALSE, window |-> <<>>, crc |-> <<>>]

(* Before the program asks for a stream or calls a one-shot function.  *)
ZInit == zs = [NewZlib("gzipOnce", <<>>) EXCEPT !.pc = "new"]

(* deflateInit or inflateInit.  *)
ZOpen ==
  /\ zs.pc = "new"
  /\ \E mode \in ZModes : \E src \in Sources(mode) : zs' = NewZlib(mode, src)

-----------------------------------------------------------------------------
(* ZStream.                                                                  *)

(* The object is finalized when neither JavaScript nor a request holds it.   *)
Counted(s) == IF s.ref \/ s.pinned THEN s ELSE [s EXCEPT !.engine = "freed"]

(* end().  *)
ZEnd(s) == IF s.busy THEN s ELSE [s EXCEPT !.engine = "ended"]

(* process() and processAsync() once their arguments are accepted.  *)
ZStart(s, in, flush) ==
  [s EXCEPT !.busy = TRUE, !.pinned = TRUE,
            !.run = [NoRun EXCEPT !.on = TRUE, !.in = in, !.flush = flush]]

(* One call of mz_deflate: it takes all the input and may sit on what it     *)
(* has, unless it is to finish; End is the last thing it writes.             *)
DeflateCalls(s, room) ==
  LET all  == s.held \o s.run.in
      emit == IF s.run.flush THEN Append(all, End) ELSE all
      most == IF Len(emit) < room THEN Len(emit) ELSE room
  IN  {[out |-> SubSeq(emit, 1, n), in |-> <<>>, held |-> SubSeq(all, n + 1, Len(all)),
        r |-> IF s.run.flush /\ n = Len(emit) THEN "end" ELSE "ok"]
         : n \in IF s.run.flush THEN {most} ELSE 0..most}

(* One call of mz_inflate: it goes on until the input, the room or the       *)
(* compressed data end, or meets something that is not compressed data, and  *)
(* then fails for ever.                                                      *)
InflateCall(s, room) ==
  LET in   == s.run.in
      good == CHOOSE n \in 0..Len(in) :
                /\ \A i \in 1..n : in[i] \in 1..ZUnits
                /\ n = Len(in) \/ in[n + 1] \notin 1..ZUnits
      n    == IF good < room THEN good ELSE room
      stop == n < room /\ n < Len(in)
  IN  IF s.bad THEN [out |-> <<>>, held |-> <<>>, in |-> in, r |-> "data"]
      ELSE [out |-> SubSeq(in, 1, n), held |-> <<>>,
            in |-> SubSeq(in, IF stop THEN n + 2 ELSE n + 1, Len(in)),
            r |-> IF ~stop THEN "ok" ELSE IF in[n + 1] = End THEN "end" ELSE "data"]

(* Mutant: a full output buffer ends the run.  *)
ZGoesOnShort(s, c, room) ==
  /\ c.r = "ok" /\ Len(c.out) # room
  /\ c.out # <<>> \/ c.in # s.run.in
  /\ ~(Compresses(s.mode) /\ ~s.run.flush /\ c.in = <<>>)

(* Whether the loop of qn_zlib_run goes on after the call c.  *)
ZGoesOn(s, c, room) ==
  /\ c.r = "ok"
  /\ \/ Len(c.out) = room
     \/ /\ c.out # <<>> \/ c.in # s.run.in
        /\ ~(Compresses(s.mode) /\ ~s.run.flush /\ c.in = <<>>)

(* One turn of the loop of qn_zlib_run, on a thread of the pool or, for a    *)
(* synchronous call, on this one.                                            *)
ZRunStep ==
  /\ zs.run.on /\ zs.run.rc = "ok"
  /\ \E room \in 1..MaxRoom :
     \E c \in IF Compresses(zs.mode) THEN DeflateCalls(zs, room) ELSE {InflateCall(zs, room)} :
       zs' = [zs EXCEPT !.held = c.held, !.finished = c.r = "end", !.bad = c.r = "data",
                        !.run = [on |-> TRUE, in |-> c.in, out |-> zs.run.out \o c.out,
                                 flush |-> zs.run.flush,
                                 rc |-> IF c.r = "data" THEN "data"
                                        ELSE IF ZGoesOn(zs, c, room) THEN "ok" ELSE "over"]]

-----------------------------------------------------------------------------
(* ZlibStream and Transform.                                                 *)

(* #fail.  *)
Fail(s) ==
  IF s.errored THEN s
  ELSE [s EXCEPT !.errored = TRUE, !.destroyed = TRUE, !.spurious = s.destroyed]

(* A chunk that _transform rejects: nothing is cleaned up.  *)
FailChunk(s) == [Fail(s) EXCEPT !.chunkBad = TRUE]

(* #cleanup, once: end() may refuse, and the handle is dropped all the same. *)
Cleanup(s) == IF s.ref THEN Counted([ZEnd(s) EXCEPT !.ref = FALSE]) ELSE s

(* #preProcess, when a file of gzip is read.  *)
PreProcess(s, chunk, final) ==
  LET merged == s.hdrBuf \o chunk
      head   == HeaderIn(merged)
      rest   == IF s.hdrIn THEN chunk ELSE SubSeq(merged, head + 1, Len(merged))
      all    == s.window \o rest
      n      == IF Len(all) =< TrailerLen THEN 0 ELSE Len(all) - TrailerLen
  IN  IF ~s.hdrIn /\ head = 0
      THEN IF ~final /\ Len(merged) < HeaderLimit
           THEN [s |-> [s EXCEPT !.hdrBuf = merged], body |-> <<>>, how |-> "more"]
           ELSE [s |-> s, body |-> <<>>, how |-> "error"]
      ELSE [s |-> [s EXCEPT !.hdrIn = TRUE, !.hdrBuf = <<>>,
                            !.window = SubSeq(all, n + 1, Len(all))],
            body |-> SubSeq(all, 1, n),
            how |-> IF final /\ Len(all) < TrailerLen THEN "error" ELSE "ok"]

(* #emitOutput.  *)
EmitOutput(s, out) ==
  [s EXCEPT !.out = s.out \o out,
            !.crc = IF s.mode = "gunzip" THEN s.crc \o out ELSE s.crc]

(* The header goes out with the first chunk, before its data.  *)
HeaderFirst(s, chunk) ==
  IF s.mode # "gzip" THEN s
  ELSE [s EXCEPT !.out = IF s.hdrOut THEN s.out ELSE s.out \o HeaderTokens,
                 !.hdrOut = TRUE, !.crc = s.crc \o chunk]

(* What _flush adds when the engine has finished, and whether it is content. *)
Framed(s) ==
  CASE s.mode = "gzip" ->
         [s |-> [s EXCEPT !.out = (IF s.hdrOut THEN s.out ELSE s.out \o HeaderTokens)
                                    \o TrailerTokens(s.crc)], ok |-> TRUE]
    [] s.mode = "gunzip" -> [s |-> s, ok |-> s.window = TrailerTokens(s.crc)]
    [] OTHER             -> [s |-> s, ok |-> TRUE]

Finished(s) == LET f == Framed(s) IN
  IF f.ok THEN [Cleanup(f.s) EXCEPT !.ok = TRUE] ELSE Fail(Cleanup(f.s))

(* #tryFlush and _flush up to its await.  *)
TryFlush(s) ==
  LET pre == IF s.mode = "gunzip" THEN PreProcess(s, <<>>, TRUE)
             ELSE [s |-> s, body |-> <<>>, how |-> "ok"]
      f   == [pre.s EXCEPT !.flushed = TRUE]
  IN  IF ~s.ended \/ s.flushed \/ s.pc # "idle" \/ s.pending # <<>> THEN s
      ELSE IF pre.how = "error" \/ ~s.ref \/ s.busy \/ (s.finished /\ pre.body # <<>>)
        THEN Fail(Cleanup(f))
      ELSE IF s.finished THEN Finished(f)
      ELSE [ZStart(f, pre.body, TRUE) EXCEPT !.pc = "flush"]

(* _transform up to its await: the chunk is only kept or skipped, the stream *)
(* fails, or the engine is started.                                          *)
Transformed(s, chunk) ==
  LET pre == IF s.mode = "gunzip" THEN PreProcess(s, chunk, FALSE)
             ELSE [s |-> s, body |-> chunk, how |-> "ok"]
      h   == HeaderFirst(pre.s, chunk)
  IN  IF pre.how = "error" THEN FailChunk(s)
      ELSE IF pre.how = "more" \/ (pre.body = <<>> /\ s.mode # "gzip") THEN h
      ELSE IF ~s.ref \/ s.busy \/ (s.finished /\ pre.body # <<>>) THEN FailChunk(h)
      ELSE IF s.finished THEN h
      ELSE [ZStart(h, pre.body, FALSE) EXCEPT !.pc = "transform"]

(* One turn of the loop of #drainPending.  *)
DrainOne(s) ==
  IF s.pc # "idle" \/ s.destroyed THEN s
  ELSE Transformed([s EXCEPT !.pending = Tail(s.pending)], Head(s.pending))

(* op(v), with v computed once: TLC expands a parameter wherever it is used   *)
(* when it looks at fairness.                                                *)
Applied(op(_), v) == CHOOSE u \in {op(x) : x \in {v}} : TRUE

(* #drainPending: the chunks that wait are transformed in turn until one     *)
(* starts the engine, fails, or none is left, which may flush.               *)
Drained(s) ==
  LET after[n \in 0..Len(s.pending)] == IF n = 0 THEN s ELSE Applied(DrainOne, after[n - 1])
  IN  after[Len(s.pending)]
DrainPending(s) == Applied(TryFlush, Applied(Drained, s))

(* #runTransform.  *)
RunTransform(s, chunk) ==
  LET t == Transformed(s, chunk) IN IF t.errored THEN t ELSE DrainPending(t)

ZWrite ==
  /\ ~OneShot(zs.mode) /\ zs.todo # <<>> /\ ~zs.ended /\ ~zs.destroyed
  /\ \E n \in 1..Len(zs.todo) :
       LET chunk == SubSeq(zs.todo, 1, n)
           s == [zs EXCEPT !.todo = SubSeq(zs.todo, n + 1, Len(zs.todo)), !.fed = TRUE]
       IN  zs' = IF s.pc # "idle" \/ s.pending # <<>>
                 THEN [s EXCEPT !.pending = Append(s.pending, chunk)]
                 ELSE RunTransform(s, chunk)

ZFinish ==
  /\ ~OneShot(zs.mode) /\ (zs.todo = <<>> \/ zs.destroyed) /\ ~zs.ended
  /\ zs' = TryFlush([zs EXCEPT !.ended = TRUE])

ZDestroy ==
  /\ ~OneShot(zs.mode) /\ zs.pc # "new" /\ (zs.ref \/ ~zs.destroyed)
  /\ zs' = [Cleanup(zs) EXCEPT !.destroyed = TRUE]

(* _transform and _flush after their await.  *)
Resumed(s, out, ok) ==
  IF s.pc = "flush" THEN (IF ok THEN Finished(EmitOutput(s, out)) ELSE Fail(Cleanup(s)))
  ELSE IF ok THEN DrainPending([EmitOutput(s, out) EXCEPT !.pc = "idle"])
  ELSE FailChunk([s EXCEPT !.pc = "idle"])

(* zlib_async_after, or the end of process(): the engine is free again, the  *)
(* caller goes on, and the request drops the object.                         *)
ZAfter ==
  /\ zs.run.on /\ zs.run.rc # "ok"
  /\ LET s == Resumed([zs EXCEPT !.busy = FALSE, !.run = NoRun],
                      zs.run.out, zs.run.rc = "over")
     IN  zs' = IF s.run.on THEN s ELSE Counted([s EXCEPT !.pinned = FALSE])
  /\ ~OneShot(zs.mode)

-----------------------------------------------------------------------------
(* compressSync, decompressSync and their asynchronous versions.             *)

ZOnce ==
  /\ OneShot(zs.mode) /\ zs.pc = "idle" /\ ~zs.ended
  /\ LET n == Len(zs.src)
         h == HeaderIn(zs.src)
         s == [zs EXCEPT !.ended = TRUE, !.pc = "once"]
     IN  zs' = IF zs.mode = "gzipOnce" THEN ZStart(s, zs.src, TRUE)
               ELSE IF h = 0 \/ n < h + TrailerLen THEN Counted([Fail(s) EXCEPT !.ref = FALSE])
               ELSE ZStart([s EXCEPT !.window = SubSeq(zs.src, n - TrailerLen + 1, n)],
                           SubSeq(zs.src, h + 1, n - TrailerLen), TRUE)

OnceOk(s, out) ==
  /\ s.run.rc = "over" /\ s.finished
  /\ s.mode = "gunzipOnce" => s.window = TrailerTokens(out)

ZOnceAfter ==
  /\ OneShot(zs.mode) /\ zs.run.on /\ zs.run.rc # "ok"
  /\ LET out == IF zs.mode = "gunzipOnce" THEN zs.run.out
                ELSE HeaderTokens \o zs.run.out \o TrailerTokens(zs.src)
         s   == Cleanup([zs EXCEPT !.busy = FALSE, !.pinned = FALSE, !.run = NoRun, !.pc = "over"])
     IN  zs' = IF OnceOk(zs, zs.run.out) THEN [s EXCEPT !.ok = TRUE, !.out = out] ELSE Fail(s)

ZNext == ZOpen \/ ZWrite \/ ZFinish \/ ZDestroy \/ ZRunStep \/ ZAfter \/ ZOnce \/ ZOnceAfter

(* The pool works and the loop calls back; the program writes and ends.  *)
ZFairness ==
  /\ WF_zs(ZRunStep) /\ WF_zs(ZAfter) /\ WF_zs(ZOnceAfter)
  /\ WF_zs(ZWrite) /\ WF_zs(ZFinish) /\ WF_zs(ZOnce)

-----------------------------------------------------------------------------
ZTypeOK ==
  /\ zs.engine \in {"live", "ended", "freed"}
  /\ zs.busy = zs.run.on
  /\ zs.pc \in {"new", "idle", "transform", "flush", "once", "over"}

(* A run has the engine to itself, and neither end() nor the garbage         *)
(* collector takes it away, whatever the program does to the stream while    *)
(* the pool is at work.                                                      *)
EngineLivesForItsRun == zs.run.on => zs.engine = "live"

Whole(s) == IF Compresses(s.mode) THEN Gzipped(s.src) ELSE Data

(* A stream or call that ends well has delivered everything once and in      *)
(* order, however the input was cut into chunks and however the work was     *)
(* spread over calls of the engine; a file of gzip that was cut short or     *)
(* spoiled never ends well.  Left out: an empty input to createGzip, and createInflate,    *)
(* which does not ask whether the engine has finished.                       *)
OkMeansWhole ==
  zs.ok => \/ zs.out = Whole(zs)
           \/ zs.mode = "gzip" /\ ~zs.fed
           \/ zs.mode = "inflate" /\ IsPrefix(zs.out, Data)

(* Inputs that are whole.  A stream may give up one whose header is longer    *)
(* than the limit, when a chunk ends inside it.                              *)
Acceptable(s) ==
  \/ Compresses(s.mode) \/ s.src \in {Body, GzipFile}
  \/ s.src \in NamedFiles /\ (OneShot(s.mode) \/ HeaderIn(s.src) =< HeaderLimit)

(* A file that was not cut short or spoiled is accepted, whatever the        *)
(* chunks: a stream fails on it only if the program has destroyed it first.  *)
WholeInputIsAccepted == zs.errored /\ Acceptable(zs) => zs.spurious

(* A stream that is ended and not destroyed ends or fails.  *)
ZlibStreamEnds == zs.ended /\ ~zs.destroyed ~> (zs.ok \/ zs.destroyed)

(* The engine of a stream is released once the stream is over.  Left out: a   *)
(* stream that has rejected a chunk keeps its engine until the program       *)
(* destroys it or ends it with nothing waiting, or the collector takes it.    *)
EngineIsReleased ==
  zs.ok \/ (zs.destroyed /\ ~(zs.chunkBad /\ zs.ref)) ~> zs.engine # "live"

(* A zlib stream: its engine lives while a thread runs it, and it accepts    *)
(* whole inputs and no others, however the chunks fall.                      *)
ZlibInv == ZTypeOK /\ EngineLivesForItsRun /\ OkMeansWhole /\ WholeInputIsAccepted
=============================================================================
