# Verification of qn

qn is a Node.js-compatible JavaScript runtime made of QuickJS, libuv and a
library of Node modules written in JavaScript. This directory holds TLA+ models
of its own core logic, the TLC configurations that check them, and TLAPS proofs
of their main safety properties. Paths below are relative to the repository
(`libuv/qn-vm.c` is `src/libuv/qn-vm.c`). `PROJECT.json` maps every definition
to the lines it models and lists the hazards that each property is aimed at.

## 1. Inventory

### The parts and how they interact

    JavaScript program
      |  calls                                     ^ callbacks, promise jobs
      v                                            |
    node:* and qn:* modules (timers, stream, net, http, fs, child_process, ...)
      |  calls                                     ^
      v                                            |
    native modules (qn_vm, qn_uv_stream, qn_uv_fs, qn_uv_process, qn_worker, ...)
      |  uv_*_start, requests, uv_close            ^ libuv callbacks
      v                                            |
    event loop: qn_vm_loop -> uv_run  --------------

There is one JSRuntime and one uv_loop_t per thread. The main thread has one and
each `Worker` has one; the two share nothing on purpose except a socketpair.
Inside a thread everything is single-threaded, and what is hard is *re-entrancy
and order*: a libuv callback calls JavaScript, which may close, free or replace
what the callback is working on; promise reactions are queued in one phase of
the loop and run in another; and objects are given up by two owners (libuv and
the garbage collector) in either order.

| Component | State it keeps | Operations | Hard behaviour | What makes it correct |
|---|---|---|---|---|
| event loop (`libuv/qn-vm.c`) | job queue, rejection list, prepare/idle/check handles | qn_vm_init, qn_vm_loop, execute_jobs, rejection_check, maybe_idle, qn_vm_free | jobs queued in any phase; uv_run returning with jobs left; freeing structs whose close callback is outstanding | never blocks on a job, serves every job, exits clean |
| timers (`libuv/qn-vm.c`, `node/node/timers.js`) | QNTimer list, id counter, cached clock, `_intervals` map | set/clear Timeout/Immediate/Interval, ref, unref | clearing an interval inside its own function, unref across re-arming, stale clock, id wrap | one timer per interval, never early, ids distinct |
| fd polling (`libuv/qn-vm.c`) | QNPoll list | setReadHandler, setWriteHandler, poll_cb | handlers that clear or set handlers while poll_cb holds the entry | no stale or freed entry, no cleared handler called, no spinning |
| web worker (`libuv/qn-worker.c`, `node/qn/worker.js`) | QNWorker, QNWorkerSelf, socketpair, QNReadBuf | create, postMessage, terminate, self.close, onmessage | two threads; EOF against terminate; last reference dropped in a callback; load failure | struct outlives its pipe, each end learns of the other's end, messages whole and in order |
| stream handles (`libuv/qn-uv-stream.c`) | QNStream list, closed/finalized, this_val | new, listen, accept, connect, read, write, shutdown, close, finalizer, cleanup | two-phase free, finalizer inside JS_FreeValue, thread end | freed once and only when both owners are done |
| child processes (`libuv/qn-uv-process.c`) | QNProcess list; for spawnSync a loop, pipes, timer and buffers on the stack | spawn, exit callback, kill, close, spawnSync | on_exit acting on the struct its callback uses; exit, timer, output and input in any order on a loop that must end empty | freed once, no handle closed twice or left, no kill of a stranger, output complete, the timeout returns |
| pty (`libuv/qn-uv-pty.c`) | QNPty: pipe, SIGCHLD watcher | spawn, write, pause, resume, kill, close | the end of the child seen twice or before the watcher exists | on_exit once, the end is noticed, freed after both handles |
| datagram sockets (`libuv/qn-uv-dgram.c`) | QNDgram, send requests | send, receive, close | immediate sends beside queued ones, close under a send | a promise tells what happened, order kept |
| watchers, signals (`libuv/qn-uv-fs-event.c`, `qn-uv-signals.c`) | QNFsEvent, QNSignalHandler | start, callback, close | start fails when the struct is half made | freed, dispatched to a live function |
| native module (`native/qn-native.c`) | descriptors of the child | spawn_setsid | redirections in one table, conversions that throw | the child has the files it was given |
| file requests, dns (`libuv/qn-uv-fs.c`, `qn-uv-dns.c`) | QNFsReq, QNFile | some forty operations on the thread pool | a bare descriptor number in another thread while the file is closed or collected | one owner per descriptor, promises tell the truth |
| read streams (`node/node/fs/streams.js`) | position, flags, loops | pause, resume, destroy | two loops over one position, destroy at an await | data in order, 'end' and 'close' once |
| zlib (`libuv/qn-zlib.c`, `node/node/zlib.js`, `node/node/stream/transform.js`) | ZStream, gzip header and trailer windows | write, flush, end, destroy, one-shot | chunks cut anywhere, destroy while the pool runs | ok means whole, the engine outlives its run |
| sqlite (`node/node/sqlite`) | connections, statements | open, close, prepare, run, get, all | close and finalizers in any order, statements reused | connection outlives statements, calls independent, values read back |
| sandboxed worker (`sandboxed-worker/sandboxed-worker.c`) | message pipes with a count and a waker | construct, postMessage, onmessage, timeout | the thread runs before its object exists; every allocation may fail | the pipe lives for its holders, messages are taken |
| tls, credentials, crypto (`node/qn/tls.js`, `node/qn/crypto/qn-crypto.c`, `node/node/crypto.js`) | engine state, records, trust anchors, cipher contexts | handshake, write, read, close, load, encrypt, sign | an operation given up at an await; realloc under pointers; chunk boundaries | records once and in order, credentials outlive connections, round trips |
| fetch (`node/node/fetch/index.js`, `node/node/http/parse.js`) | pool, transport, signals | fetch, abort | reuse, retry, stale connections, old signals | a response is its request's own, every fetch ends |
| module resolution, qnc (`module_resolution/module-resolution.h`, `qnc/engine.c`, `qnc/qnc.js`) | embedded list, import map | normalize, load, compile | cycles, links, two resolvers that must agree | the binary loads what the interpreter loads |
| qnc wrapper and pack (`qnc/wrapper.c`, `qnc/pack.c`) | cache directory with a stamp | pack, extract, exec | killed or rebuilt between two steps | what runs is what was packed |
| node:stream, net, http, child_process, events, abort | JavaScript state machines | read, write, pipe, end, destroy, kill, abort | backpressure, error against end, timeouts against exit | each event once and in order |
| cjs, bundler, watch, installer, git client | caches and graphs, files | require, bundle, install | cycles, partial failure | determinism, no half-installed state |
| url, path, glob, buffer, util | none | pure functions | boundaries | agreement with their standard |

`PROJECT.json` "components" lists all of them with their sources and status.

### Hazards

`PROJECT.json` "hazards" gives each at its line. It holds the forty
that matter most; section 6 has the smaller ones. In short: jobs and rejections
that arrive in the wrong phase of uv_run; callbacks that use a struct after
JavaScript ran; `this_val` released by both the close callback and the
finalizer; a reader cut at any byte; two threads closing the same pair; a thread
that fails after it has opened its handles; process-wide state (`stream_head`)
in code that runs once per thread; descriptor numbers and addresses that are
used after their owner has gone; two loops or two operations over one position;
framing cut anywhere; retries and stale connections; steps that fail in the
middle; a program killed between two writes; id and length counters at their
limit.

## 2. Plan

Done: the runtime (`EventLoop`, `Timers`, `PollHandlers`, `Worker`,
`FramedPipe`, `StreamHandle`), the other handles (`Handles`), the bindings with a
resource of their own (`Bindings`), the secure transport and fetch (`Net`), the
build tools (`Build`), and the proofs of section 5.

Left, most important first:

1. `child_process` over `ProcessHandle` and `StreamHandle` (exit against close,
   timeout and maxBuffer kills), `node:net`, the HTTP server with keep-alive;
2. `node:stream` as a whole (pipe, pipeline, backpressure), `events` and `abort`
   (listeners changed while they are emitted);
3. the cjs cache with cycles, the bundle graph, the installer's steps with a
   crash between them;
4. proofs: `ZlibInv`, by induction on a set of numbers as in
   `SequenceFacts`; `BinaryReplays` and `ResolversAgree` for a class of disks rather
   than for those of the run.

Abstract specifications: `MsgChannel` (what postMessage promises, implemented by
`FramedPipe`). A byte channel for streams belongs to 2.

## 3. Modules

In every module JavaScript is a nondeterministic program: while it is on the
stack it makes any sequence of the calls the runtime offers, and then returns.
A callback that calls JavaScript is split exactly there, so that whatever
JavaScript does happens between the two halves. Operators named in a comment
"Mutant:" are plausible bugs; they are not part of any specification and are
used only to see that a property can fail.

**EventLoop** - `qn_vm_loop` and the phases of `uv_run`. `pc` is the phase, `js`
what is on the stack, `jobs` the length of the runtime's queue, `rej` the list at
`rejection_head`, `idle` the state of `g_idle`; `timer` and `op` the state of
each timer and of each other request or handle. `StartOp` stands for every
native operation with a callback; an operation whose system call has finished at
once is *fed* to libuv's pending queue, otherwise the poll sees it.
`StartPending`, `CollectTimers` and `StartClosing` take the list libuv finds when
the phase starts, so that what a callback adds waits for the next round. The
order of phases is that of libuv 1.48 and later (timers last); libuv is not part
of the repository and is modelled from how `qn-vm.c` uses it.

**Timers** - the C list with its ids and the cached clock, and `timers.js` on top.
An interval is a chain of one-shot timers; `intervals` is the map `_intervals`,
`unrefd` and `idelay` the variables its closure holds. `ClearTimeout` takes any
handle: that of an interval is converted to the interval's id and looked up as a
timer's, and `mixed` keeps the timer ids closed in that way. `TimerCb` includes the test
`tick` makes first, `TickEnds` its re-arming. `serial` numbers the timers in list
order, and `at` (the wall clock when the timer was started) is there for the
properties only. The counter wraps because the Makefile's `-fwrapv` defines it.

**MsgChannel**, **FramedPipe** - one direction of the socketpair. `MsgChannel` is
the promise: FIFO, each message at most once and unchanged; closing may lose a
suffix. `FramedPipe` has the bytes: length prefix, kernel, `readbuf_append` and
`readbuf_extract`. Either end may close, and the read callback drops a message it
cannot read (`Unreadable`) or has no function for (`handler`): `taken` is what came out
of the buffer, `delivered` what JavaScript saw. `Base` and `HeaderSize` replace 256 and
4. The refinement maps the abstract queue to those messages that are not taken out and
whose frames can still arrive.

**Worker** - the two threads. A channel is the number of messages in it (their
contents are FramedPipe's subject). `reading` and `inbuf` are the while loop of
`worker_read_cb`, during which JavaScript may terminate or drop the worker.
`releases` counts how often the reference in `this_val` was given back.

**StreamHandle** - one record per QNStream. `MaybeFree`, `Finalizer`,
`FreeThisVal`, `CloseCbOf` and `CleanupOf` are the C functions as functions on the
record; `FreeThisVal` contains the finalizer when the reference was the last one,
which is where the order of the two statements in its callers matters.
`Cleanup` walks the streams of all threads, as `stream_head` is one list.

**PollHandlers** - one record per QNPoll; `cb` is the `poll_cb` on the stack and the
events it has not looked at yet.

**Runtime** - what the handle modules share: the phases of a runtime's life and
the callback on the stack. **ProcessHandle**, **PtyHandle**, **DgramHandle**,
**WatchHandles** - one record per C struct, one action per operation and per
callback; a callback that calls JavaScript is two actions. **SpawnSync** - one
call of `js_spawn_sync`: handles `open`, `closing`, `closed`, the child, a
descendant that may hold its outputs, the timer. **SpawnSetsid** - the descriptor
table of the child. **Handles** composes them in one runtime with its shutdown.

**FsRequests** - requests at JavaScript, on the pool, answered; the kernel's
descriptor table with lowest-free numbering; serial numbers tell two files with one
number apart. JavaScript may use a bare number where it has an object (`numbered`):
files closed by another than their owner are in `astray`, and descriptors whose QNFile
could not be allocated in `leaked`. **ReadStream** - the loops of `#run`, cut at each
await and each emit. **Zlib** - the engine, `ZlibStream` on `Transform`, the one-shot
calls; data are sequences of tokens, so that a header with or without a name, a
trailer and the end of the data can be cut anywhere, and spoiled in any place (`bad`
is the engine after that). A chunk that `_transform` rejects is `FailChunk`, which
cleans nothing up. **Sqlite** - connections, statements, the two classes over them,
and what binding and reading do to each class of value. **SandboxedWorker** - the
constructor, the thread, the object and the ports as holders of two pipes.
**Bindings** composes the five.

**TlsConn** - the operations of tls.js, cut at each await, over BearSSL's engine
as a set of flags with records; `StaleAbort` is the listener that an earlier
operation left on its signal. **Credentials** - trust anchors, chains and keys,
and the three PEM loaders as readers of events; `blocks` counts what a server
credential has allocated, with the byte vector of an object in which a loader
stopped. **Crypto** - contexts of ciphers,
digests, signatures and key agreement, with ideal primitives. **Fetch** - requests,
connections, the pool, the server's end; a response is cut into pieces anywhere, and
what comes behind the end that the framing has seen is a piece of its own (`rest`).
**Net** composes the four.

**ModuleResolution** - the functions of module-resolution.h under their own names,
on paths that are sequences of parts. **Qnc** - the compiler's input files one after
the other (`taken`), its stack of modules, and the resolution of the binary it makes,
at home or on another machine (`rt`). Where two resolvers come apart there is an
operator named for the case, which the properties exclude by name. **SupportCache** -
packing, extraction and execution, step by step. **Build** composes the two.

In the compositions a behaviour uses one component, chosen in the initial state:
the components share no state beside the runtime's phase, and a product would
multiply states without adding behaviours.

**MC\*** - the same modules with symmetry sets and values for TLC.
**\*Proofs** - theorems; **SequenceFacts** - what they share about sequences
(section 5).

## 4. Runs

| Run | States | Shows |
|---|---|---|
| event_loop | 121 k | `NeverSleepsOnJob`, `CleanExit`, `JobsServed` |
| timers | 2.8 M | `TimersInv`: `IntervalHasOneTimer`, `UnrefIsKept`, `IdsCollideOnlyAfterWrap`; `NeverEarly` |
| framed_pipe | 66 k | `FramingInv`: `InSync`; `ImplementsChannel`, `AllDelivered` |
| worker | 16 k | `PipeInv`: `StructOutlivesPipe`, `PipeClosedIsExact`; `NoReadAfterTerminate`, `WorkerEndReleasesParent`, `TerminateEndsIdleWorker` |
| stream_handle | 3 k | `LifetimeInv`: `PinnedWhileOpen`, `FreedWhenBothDone`; `ReleasedOnceWhileRunning`, `ClosedIsFreed` |
| poll_handlers | 1.5 k | `EntriesInv`: `ListIsLive`, `EntryOutlivesCallback`, `NoIdleWatch`; `ClearedIsNotCalled` |
| handles | 65 k | `StructsOutliveOwners`: `ProcFreedWhenBothDone`, `ProcPinnedUntilExit`, `DgFreedWhenBothDone`, `PtyFreedWhenAllDone`, `FseFreedWhenBothDone`, `ShSignalFindsHandler`; `ReportsAreTrue`: `PtyExitOnce`, `DgPromiseTellsTruth`; `SpawnSyncInv`: `NeverAborts`, `NoStrayKill`, `OutputIsComplete`; `SetsidInv`: `ChildHasItsStdio`, `SetsidFreesAll`; `ForgottenIsFreed`: `ProcForgottenIsFreed`, `FseUnreachableIsFreed`; `EndsAreReported`: `DgSendAnswered`, `PtyEndNoticed`, `TimeoutReturns` |
| bindings | 145 k | `FsInv`: `DescriptorHasOneOwner`, `OpActsOnItsFile`, `PathReportsTruth`; `ReadStreamInv`: `OneRunReadsInOrder`, `EndAndCloseOnce`; `SandboxInv`: `PipeLivesForItsHolders`, `WakerTellsQueue`; `ZlibInv`: `EngineLivesForItsRun`, `OkMeansWhole`, `WholeInputIsAccepted`; `SqliteInv`: `ConnectionIsSound`, `CallIsSelfContained`, `ValuesReadBack`, `ThrownRunWroteNothing`; `CallsAreAnswered`: `RequestSettles`, `SandboxTakesMessages`, `ZlibStreamEnds`; `NativeIsReleased`: `EngineIsReleased`, `ConnectionIsFreed` |
| net | 203 k | `FetchInv`: `ConnectionHasOneUser`, `ResponseIsOwn`; `TlsInv`: `RecordsGoOutOnce`, `InputIsComplete`, `ReadsInOrder`, `WritesAll`, `DriveMakesProgress`; `CredentialsInv`: `CredentialOutlivesConnection`, `AnchorsStayPut`, `OnlyGoodAnchors`, `LoadsAreFreed`; `CryptoInv`: `RoundTrips`, `ChangesAreNoticed`, `DigestIsOfAllFed`, `SignatureIsOfTheData`, `SecretsAgree`; `NetworkCallsEnd`: `FetchEnds`, `OperationEnds` |
| build | 12 k | `UnitsInv`: `CompiledOnce`, `CNamesDistinct`; `BinaryReplays`: `Replays`, `DynImportable`; `ResolversAgree`: `SameFileInterpreted`, `PortAgrees`; `RunsWhatWasPacked`, `StartedRunExecs` |

A name before a colon is the property the run checks, the names after it are its
parts, and the comment above each part says what it means and what it leaves out.
The conjunctions also hold their module's type invariant (that of the event loop
is proved, section 5).

Runs in which TLC finds what the code does at odds with a text of the repository:

| Run | Text | What happens |
|---|---|---|
| worker_this_val | `qn-worker.c:491` "already freed by close_cb or here if never started" | `worker_close_cb` frees `this_val` before it clears it, and the finalizer that runs inside frees it again (`qn_stream_close_cb` has the safe order) |
| stream_isolation | `node-compatibility.md:94` "Full isolation via `_Thread_local` state" | a worker's `qn_stream_cleanup` releases the streams of the main thread |

### Bounds

- event_loop: two timers and two operations, so that one callback can cancel or
  start the other in the same phase; two jobs, so that a job that throws leaves
  one behind; one promise, as rejections do not interact. No symmetry (there is a
  liveness property).
- timers: three structs (a closed one waiting for its callback, an armed one, and
  room for a new one), two intervals beside plain timeouts, clock 0..1 and delays
  0 and 1 (due at once, due later, stale cache). Ids 1..3 and four timers made: the
  counter wraps within the run, so that ids come round while their first holders are
  open, and before that an interval's number is the id of another's timer.
- framed_pipe: binary bytes and a two-byte header, messages of 1, 2 and 3 bytes:
  the header has zero bytes, payloads look like headers, and every cut position in
  a header and between two messages occurs; one of them cannot be read, and the
  handler comes and goes.
- worker: two messages in flight, so that the first one's handler can end the
  worker while the second is in the buffer. One worker: workers do not interact
  except through `stream_head`, which is StreamHandle's subject.
- stream_handle: two streams (a server and its connection), one thread;
  stream_isolation adds a second one.
- poll_handlers: two descriptors and four entries (a closing and a live one each).
- handles: two processes and two watchers (one spawned or started in the other's
  callback, one failing), one terminal and one signal handler (they do not
  interact), one socket with three sends (one at the kernel, one queued, one tried
  at once behind it); for spawn_setsid descriptors 0..3 and a limit of 4 in place
  of 1024: the three standard ones in every permutation and one beyond.
- bindings: two files, so that a number is freed and given again; one asynchronous
  request beside synchronous calls, which is where the number can change hands,
  and two opens; a stream of two chunks and two loops; two posted messages; three
  units of data with a header of two and a trailer of three tokens, so that every
  cut inside each and across them happens, names of up to two characters and a limit of
  four tokens in place of 1024 bytes, so that a header is below it, at it and beyond it;
  every file cut short or spoiled in one place; at most two units of output room;
  two connections to one file and two statements; every class of value; one row,
  since a second row only lengthens the walk over the first.
- net: two connections, two requests, a pool of one (so that a second drained
  connection is refused) and one redirect; responses of one to four pieces (`Shapes`):
  whole, head and end apart, cut in the head, followed by a rest; two units of data and
  at most three records each way; PEM files (`MCPemFiles`) with a broken, endless or
  misplaced object at every place of a block of three events, an anchor capacity of two
  so that the second load grows it; four
  units of text in blocks of two; three keys.
- build: some four hundred small programs (`MCPrograms`) over one disk with a link to
  a directory, packages of plain and of odd exports, NODE_PATH, aliases, C modules, a
  file outside the working directory and an import back into the entry, one file for
  each case in which two resolvers come apart, up to two `-D` modules, one or two input
  files (the second imported by the first, the first again, one that is missing) and a
  `-N` name (`InputNames` are the names qnc makes for `-D` modules). The binary starts at
  home and on two other machines: one with nothing on NODE_PATH, and one where NODE_PATH
  and node_modules have a file for each bare name. Three starts of qnc, two files and two
  builds of other sizes.

Counters with a bound: `MaxJobs`, `MaxCreated`, `MaxClock`, `MaxMsgs`,
`MaxInFlight`, `MaxSent`, `MaxSends`, `MaxOpens`, `MaxRuns`, `MaxSandboxPosts`,
`MaxConns`, `MaxStmts`, `MaxRows`, `MaxLoads`, `MaxCopies`, `MaxKeys`, `MaxPool`,
`MaxHops`, `MaxRoom`, `MaxName`.
`CHECK_DEADLOCK FALSE` is used where the bounds, not the code, stop the model, and
where a call or a tool really ends.

### Fairness

- EventLoop: synchronous JavaScript returns, the loop takes its next phase, and a
  poll with a zero timeout returns. Nothing is assumed of a poll that may block or
  of the program's calls.
- FramedPipe: the kernel moves bytes and libuv dispatches a readable descriptor.
- Worker: the same for both loops; strong fairness for the callbacks of the pipe,
  because libuv dispatches every readable or closing handle in each turn, however
  often other callbacks run JavaScript in between. None for MainExits, for
  RejectionExit, or for what the scripts do.
- StreamHandle, Handles: a loop that is alive runs the callbacks of closing handles
  and of finished requests, callbacks return, and dropped objects are collected
  (QuickJS counts references). Nothing is assumed of children: they may run for
  ever, except that a child that was killed ends.
- Bindings: the pool runs what it was given and the loop answers; the sandbox's
  thread polls. For zlib the program writes what it has and calls end(): without it
  no stream would ever end.
- Net: the loop runs what is ready; the server answers or closes; a TLS peer sends
  what the engine waits for or goes away.
- Build: a started run of qnc takes its next step or is killed.
- Timers and PollHandlers have safety properties only.

## 5. Proofs

All theorems hold for every value of the constants. The assumptions are the named
ASSUMEs, and of four kinds: a bound is a number, not 0 where the code's is not
(`MaxJobsAssumption`, `MaxMsgsAssumption`, `TimersAssumption`, `RsAssumption`,
`SqliteAssumption`, `TlsAssumption`, `CryptoAssumption`, `FetchAssumption`, ...); a
name for "none" is not a member of the set it stands beside
(`PollHandlersAssumption`, `ThreadsAssumption`, `ProcessesAssumption`,
`PtysAssumption`, `DgramAssumption`, `FetchAssumption`), and the watchers of the two
kinds are different structs (`WatchAssumption`); what is in flight at one time is
finite (`FsAssumption`); and of what the program is given: a message fits its header
(`FramedPipeAssumption`), an archive names each file once (`CacheAssumption`), no file
has the name qnc makes for a `-D` module (`QncAssumption`), and an input file that exists
is found under its canonical name too (`EntryAssumption`). `StartsWhatWasPacked` has the
hypothesis that two starts do not overlap, and two theorems on streams that there is one
thread. Each invariant was checked with TLC on the instance of its run before it was
proved.

- **LoopProofs**, of the event loop, the descriptors and the streams.
  `TypeCorrect`, `NoSleepOnJob`, `ExitIsClean`: the two
  properties are not inductive alone: before the poll one needs that `idle` agrees
  with the queue (`IdleCoversJobs`), that this is not disturbed because JavaScript
  cannot be on the stack there (`JsPhases`), and for the exit that what a phase has
  collected is gone when it ends (`Transient`); `LoopInv` is their conjunction.
  `EntriesStaySound` (of `ListStaysLive`, `NoFreedEntryOnStack` and `NoWatchIsIdle`)
  and the action property `NoCallOfCleared`: `PollInv` adds what the list does not
  show: an entry between `poll_free_entry` and `poll_close_cb` has no handler and
  watches nothing, and the entry of the `poll_cb` on the stack is not freed.
  `EntryUpdate` reduces each operation to the record it leaves behind.
  `FreedOnlyWhenBothDone` and `StreamTypeCorrect` for any number of threads,
  `LifetimeInOneThread` (of these two and `PinnedInOneThread`) and
  `ReleasedOnceInOneThread` under the hypothesis that there is one thread. The
  hypothesis is needed exactly once, in `EndPinned` (the walk over the shared list),
  which is what stream_isolation shows from the other side. `StreamOK` is a statement
  about one record that each of the C functions keeps (`FinalizerOK`,
  `FreeThisValOK`, `CloseCbOfOK`, ...).
- **WorkerProofs**: `PipeIsOwned` (of `WorkerTypeCorrect`, `StructIsSafe` and
  `FlagIsExact`) and the action property `TerminateStopsReading`. `WorkerInv` ties the
  struct, `this_val`, the read loop and the flags to libuv's state of the pipe.
  `FramingSafe` and the refinement `PipeIsChannel`. `FramedIInv` is `FramedTypeOK`,
  `NoneInvented` (no more was taken out than sent) and `InSync`: the bytes
  that are not worked off yet are the frames of the messages not taken out, or a prefix
  of them once the writer was closed. `readbuf_extract` takes whole frames off such bytes
  and nothing else, because a header determines the length of its frame; a step of the
  pipe is then a step of `MsgChannel` on the messages whose frames can still arrive.
- **SequenceFacts**: what the proofs need of sequences that are built up piece by
  piece. tlapm cannot use an induction theorem whose parameter is an operator, so
  induction is done on sets: `SetInduction` and `IntervalInduction` say that a set
  with 0 and with n + 1 for each n of it has all numbers, from the least number of its
  complement. `Recursion` gives a function that is defined by a step, and with it
  what flattening a sequence of sequences yields (`FlattenAppend`, `FlattenFirst`,
  `FlattenPlace`).
- **TimersProofs**: `TimersSafe` and the action property `NoTimerFiresEarly`.
  `TimersInductive` is the strengthening: the list holds each open timer once
  (`ListInv`, `Apart`), ids below the counter (`IdsInv`, and `NotWrappedInv` before
  the first wrap), the callback on the stack belongs to a timer that is still there
  (`TickInv`), and every interval in the map names one armed timer that is its own, or
  one that a `clearTimeout` with an interval's handle has closed (`MapInv`,
  `OneTimerInv`, `UnrefInv`). For the early firing one needs that the
  loop's cached time is never ahead of the clock and was refreshed before the timer
  was started (`ClockInv`).
- **BindingsProofs**: `FsSafe`, `ReadStreamSafe`, `SandboxSafe`, `SqliteSafe`.
  `FsIInv` follows the serial number of an open file through the descriptor table, the
  QNFile and the requests that hold it (`DescInv`): each has one holder or is in
  `leaked`, a holder whose file is not the one that is open is accounted for in
  `astray`, and `astray` is empty until a descriptor is closed by its number
  (`NumberedInv`). It counts what a path request has done (`PathInv`, the one place
  where finiteness is used). `RsIInv` gives the position each run of the stream's loop
  stands at. `SbIInv` counts the holders of each pipe, thread by thread, against its
  ref_count. `SqIInv` ties a statement's object, the library's statement and the
  iterator on it to the connection (`ConnsInv`, `StmtsInv`), and the table to what was
  written (`TableInv`, `DbInv`, `AnswerInv`).
- **HandlesProofs**: `StructsSafe`, `ReportsTrue`, `SpawnSyncSafe`, `SetsidSafe`,
  from `HandlesInductive`. One predicate per struct says which of its owners still
  has it (`ProcOK`, `DgLife`, `PtyLife`, `FseOK`, `ShOK`), one per phase which
  objects are pinned (`ProcPinned`, `DgPinned`), and the callback on the stack has a
  struct that is not freed (`PtyBusy`). For datagrams the queue, the wire and the
  results are one increasing numbering of the calls (`SendsOK`). spawnSync's
  invariant goes by its stages (`SsStageInv`) and says which handle is open in each
  (`SsHandleInv`); that of spawn_setsid says which of the three redirections are done
  (`RedirectInv`), since a later dup2 may overwrite what an earlier one needs.
- **NetProofs**: `FetchSafe`. `FetchIInv` says who holds a connection at each point
  of a call (`HeldInv`, `AloneInv`), that a read under way is the holder's
  (`PendingInv`), and what the wire then carries: nothing on an idle connection, rests of
  earlier responses, and behind them the pieces of the holder's one request while it reads
  (`HeadWire`, `BodyWire`), so that a request that has met no rest reads its own. An
  aborted signal of an earlier call may stop another's read (see `FetchEnds`), and the
  proof shows that it never mixes up the answers.
  `CredentialsKept`: `CredIInv` says that what an accepted connection points at is
  pinned, and that a credential which is over holds nothing but the vector of an object
  in which a loader stopped (`BlocksOK`). The loader itself decides whether there is
  one: it ends inside an object, or is broken off in one, only if the object was begun
  and the file is cut short or malformed behind that (`OpenBehindBegin`,
  `NothingLeft`); `ChainIsCounted` ties the buffers of the chain to the certificates
  read, which is what freeing a chain takes off. `AnchorsIInv` that the array a client was
  given is still the store's or holds less than the store does. The loop over the
  events of a PEM file is followed event by event (`EventStep`, `WhatIsRead`): a good
  object that is not begun behind a broken one closes with its last event
  (`GoodObjectCloses`), and no other event adds an anchor (`AnchorsAreGood`), whatever
  block it is in. The numbers are compared by one-to-one functions between objects and
  their last events.
  `CryptoAgrees`: `CrIInv` is `SessionOK` of the one session. A call of a cipher begins
  in the key stream where the one before it ended, which for AES-CTR needs whole
  blocks in all calls but the last (`SendOK`, `ReceiveOK`); the tag is of the text that
  was sent, and the receiver's final() compares it with what it has read (`OverOK`);
  the chunks a hash has kept and those to come are the data (`HashOK`); a signature is
  of the data signed (`SignOK`); a new private key forgets the secret, and keys are
  never made twice (`KeysOK`).
  `TlsMovesEverything`: `TlsIInv` numbers everything. Records on the wire and on offer
  count on (`RecordsOK`); what was read and what waits is the data up to what the engine
  has taken, until it closes (`DataOK`, where the plaintext buffer is empty between two
  steps because each copy is flushed); what is kept, in the stream and still to be sent
  follows on what was taken (`InputOK`, the reason why a chunk may be cut anywhere and an
  operation given up in the middle); `OwedOK` is what writeAll owes its caller. The
  recursion in `Push` is followed unit by unit (`FedOK`, `FeedsOK`).
- **BuildProofs**: `StartsWhatWasPacked`. `CacheIInv` says that at most one run is at
  work, what its step says of the files it has written so far (`RunOK`), and that a stamp
  speaks of a complete cache or is older than the binary, so that no run believes it
  (`StampOK`): the extraction removes it first and writes it last.
  `UnitsAreDistinct`, by `UnitsIInv`: frames and units have names that were given out,
  each once (`UnitsOK`), since a module is registered before its imports are followed,
  and a C name that is taken gets the least number that makes it new (`CNamesOK`). The
  two exceptions are in the property: an input file is compiled when its turn comes,
  whether or not it was compiled as an import, and takes a name given with `-N` unchecked.

Only model-checked:

- all liveness (`JobsServed`, `AllDelivered`, `WorkerEndReleasesParent`,
  `TerminateEndsIdleWorker`, `ClosedIsFreed`, `ForgottenIsFreed`, `EndsAreReported`,
  `NetworkCallsEnd` and the liveness of Bindings and Build), which is beyond this
  prover;
- `ZlibInv`, whose loops over tokens would need the same treatment as `Push` for
  each of three formats; its tokens are distinct for all constants, and the run
  covers one choice of them;
- `BinaryReplays` and `ResolversAgree`, which are statements about the programs and the
  disks of the run. Those have each case in which we know two resolvers to come apart,
  and the property excludes the imports it happens to by an operator named for the case
  (listed in section 6); that there is no further case is shown for these programs only.

## 6. Not modelled, and notes

Left out: string algorithms (url, path, glob, buffer, util), the text of messages
and of generated C, terminal editing, single system calls (socket options, terminal
mode, user and random helpers, chmod and the like), BearSSL, SQLite, miniz, libuv
and QuickJS themselves. `sqlite3.h` and `sqlite3ext.h`, half of the repository's
lines of C, are declarations of a library. The JavaScript of `child_process`, `net`,
the HTTP server, `node:stream`, `events`, the cjs loader, the bundler and the
installer is in the plan.

What modelling has shown of the code. Each is in the model as the code has it, and
the property that meets it says in its comment what it leaves out:

- Runtime. `onerror` of a Worker is stored and never called. A message of 4 GiB or
  more has its length cut to 32 bits. A message that cannot be read, or that comes when
  there is no handler, is dropped (`qn-worker.c:232`). An interval's handle given to
  `clearTimeout` is an interval id taken for a timer id: it closes whichever timer has
  that number, and an interval whose timer it was stays in the map (`mixed`).
  `queueMicrotask` is `setTimeout(fn, 0)`
  (`node-globals.js:123`). A rejection in the pending or closing phase comes after
  `check_cb` and queues no job, so the next poll blocks with it unreported
  (`qn-vm.c:202` says "when the loop is about to sleep, we report and exit"). A
  worker with a timer or a server of its own goes on after EOF (`qn-worker.c:660`
  says "makes its event loop exit"). A worker that cannot load its script ends with
  its pipe open, and the parent never sees EOF (`qn-vm.h:31`).
- Streams. A stream whose `uv_accept` fails is closed without an object, so its
  struct stays in the list (`Unwrapped`). At the end of a thread
  `qn_stream_cleanup` frees `this_val` before clearing it, and a stream that is
  still reachable is finalized after its loop was freed (`CleanupOf`,
  `FreeRuntime`). Timers that are armed but unreferenced at exit keep a handle in
  the loop, so `uv_loop_close` reports EBUSY there.
- Processes. A spawn that fails frees a struct that stays in the list
  (`qn-uv-process.c:659`). `qn_exit_cb`, PROC_CLOSE and the cleanup functions free
  `this_val` before clearing it, so that a finalizer that runs inside frees it again
  (`qn-uv-process.c:111`, `qn-uv-pty.c:215`); the handle modules clear first and do
  not count this. The lists of processes, terminals and sockets are process-wide
  like `stream_head`. spawnSync's timeout does not close the input, so a
  descendant that holds it and does not read keeps the call (`:322` says "so the
  event loop exits"). A pty's write while it is closing leaks its request, and a
  resize after the close uses a descriptor number that is no longer its own. A
  signal handler that cannot start is not freed. spawn_setsid duplicates one
  descriptor after the other, so swapped numbers overwrite each other.
- Files. When the QNFile cannot be allocated after an open, the descriptor leaks
  (`leaked`); that the promise of a request that was already dispatched cannot be
  allocated is not modelled. A close by the bare number leaves the QNFile its number,
  and its finalizer closes whatever has the number by then (`astray`). `resume()`
  while a read is awaited starts a second loop, and data come twice; `destroy()`
  during the open leaves the descriptor to the collector, and during a read data
  follow 'close'.
- zlib. `createInflate` ends well on data that was cut short (`_flush` does not look
  at `done`); an empty `createGzip` emits its header after the data; `createUnzip`
  does not detect gzip. A chunk that `_transform` rejects leaves the engine to the
  collector (`zlib.js:513`, `#fail` without `#cleanup`: `FailChunk`, which
  `EngineIsReleased` excludes). A gzip header of 1 KiB or more that comes in pieces is
  rejected (`zlib.js:562`), which `WholeInputIsAccepted` excludes.
- sqlite. `run()` on a statement of a closed database writes and then throws; `get()`
  leaves the statement on its row, which keeps the file locked for other
  connections; fewer parameters reuse earlier bindings; integers beyond 2^53, text
  with a NUL and whole floats (with BigInts) do not come back as they went in.
- TLS and crypto. A stream that ends without close_notify makes `drive` turn for
  ever (`tls.js:145`). A load of trust anchors beyond the capacity moves the array
  under open connections (`qn-crypto.c:107`). AES-CTR in calls that are not whole
  blocks loses key stream (`qn-crypto.c:1257`). Two operations on one connection at
  a time would both move a record. The abort listener of an operation that is over stays
  on its signal and stops the read of a later one, which then never ends
  (`tls.js:99`; `StaleAbort`, excluded from `OperationEnds`).
- credentials. A PEM file that ends inside an object, or has a second key behind the
  first in one block, leaves the byte vector of that object allocated
  (`qn-crypto.c:306`, `:376`; `cred.cut`, excluded from `LoadsAreFreed`). The names that
  the loader of trust anchors collects are not counted.
- fetch. `readChunkedBody` returns at the last chunk although the line end behind it,
  or a trailer, may come in a later read, and takes a chunk size it cannot parse for
  the end; the connection then goes to the pool with the rest unread (`index.js:144`
  says "drained=true" is a body fully read), and the next request on it reads that
  (`spoilt`, excluded from `ResponseIsOwn` and `FetchEnds`). The limit on the size of
  a head is not modelled. A redirect over a kept connection throws, because its reader
  was set to null (`index.js:625`, `:654`). Listeners of old signals stay on the
  connection (`index.js:365`). A body that ends early counts as whole
  (`parse.js:426`).
- qnc, the compiler. An input file that an earlier one has imported is compiled and
  emitted again, so the binary has two arrays for one module (`CompiledOnce` excepts
  input files), and a `-N` name is not compared with the names in use
  (`CNamesDistinct` excepts it). Not modelled: input files that are scripts, the marking
  of the entry for `import.meta.main`, JSON modules, shared objects, the module made for
  qn/version-info.
- qnc, the binary. These imports are not replayed as they were compiled, and
  `BinaryReplays` excludes each: through a link (`CrossesLink`; the comment at
  `module-resolution.h:1049` holds that relative imports need no recording); one that
  climbs out of its base (`Climbs`) or comes from outside the working directory back
  into it (`Reenters`); `.` and `..`, which keep their last part (`EndsInDots`); of an
  input file that is not in the embedded list, as no other input imports it
  (`NotListed`); of a bare name whose module is embedded C, when the machine it runs
  on has a file of that name on NODE_PATH or in node_modules (`Shadowed`).
- qnc, the resolvers. `resolveModule` of `qnc.js` and the resolver of the runtime come
  apart, and `ResolversAgree` excludes: `file://` (`qnc.js:946` makes it a bare name);
  two or more colons, of which the port translates the first (`ManyColons`); packages
  whose exports have keys of equal prefix, two stars or a null target (`OddPackage`:
  first key in `module-resolution.h:683`, longest suffix in `qnc.js:252`);
  `/node_modules` and the directories above the working one (`BeyondPort`,
  `module-resolution.h:848` against `qnc.js:297`); a name that is an alias as well as
  a file (`AliasOrFile`); and a file that has the name of an embedded C module
  (`FileForCModule`).
- the wrapper. Two first starts at once may execute a half-written file (with
  `Overlap = TRUE` TLC shows it), and a failed write is stamped all the same
  (`wrapper.c:206`).
- The sandbox's thread has no way to end (`sandboxed-worker/Development.md:61`).
