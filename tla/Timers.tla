------------------------------- MODULE Timers -------------------------------
(***************************************************************************)
(* Timers of one qn thread: the QNTimer list of libuv/qn-vm.c with its      *)
(* 31-bit ids and the loop's cached clock, and on top of it setTimeout,     *)
(* setImmediate and setInterval of node/node/timers.js.                     *)
(*                                                                         *)
(* A timer struct is a member of Slots.  A setInterval is a chain of one-   *)
(* shot timers whose callback is the interval's tick; the map _intervals    *)
(* says which timer is the current one.                                     *)
(***************************************************************************)
EXTENDS Integers

CONSTANTS
  Slots,       \* QNTimer structs that can be allocated at one time
  Intervals,   \* ids setInterval hands out: 1..n
  Delays,      \* delays passed to setTimeout and setInterval
  MaxTimerId,  \* largest timer id: 2^31 - 1 in the code
  MaxCreated,  \* bound: timers created in a behaviour
  MaxClock     \* bound: wall clock

ASSUME TimersAssumption ==
  /\ Intervals \subseteq Nat \ {0}
  /\ Delays \subseteq Nat
  /\ MaxTimerId \in Nat \ {0}
  /\ MaxCreated \in Nat
  /\ MaxClock \in Nat

User == 0    \* the callback of a plain setTimeout; an interval id is a tick
Gone == 0    \* _intervals has no entry; also no valid timer id

VARIABLES
  clk,            \* wall clock
  now,            \* loop->time, the clock value libuv has cached
  timer,          \* the QNTimer structs
  next_timer_id,
  created,        \* timers created so far (numbers the list's entries)
  js,             \* whether JavaScript is on the stack
  tick,           \* the interval whose tick is on the stack, or User
  intervals,      \* the map _intervals: id -> timer id, or Gone
  intervalId,     \* _intervalId
  unrefd,         \* the closure variable of each interval
  idelay,         \* the delay each interval closes over
  mixed           \* ids of timers that clearTimeout closed for an interval's handle

vars == <<clk, now, timer, next_timer_id, created, js, tick,
          intervals, intervalId, unrefd, idelay, mixed>>
intervalVars == <<intervals, intervalId, unrefd, idelay, mixed>>

(* serial orders the list: timer_head is the highest.  at is when setTimeout *)
(* was called, for the properties only.                                      *)
FreeTimer == [st |-> "free", id |-> 0, serial |-> 0, due |-> 0, at |-> 0,
              delay |-> 0, ref |-> FALSE, fn |-> User]

TimerRecord ==
  [st : {"free", "armed", "closed"}, id : Nat, serial : Nat, due : Nat,
   at : Nat, delay : Nat, ref : BOOLEAN, fn : Intervals \union {User}]

TypeOK ==
  /\ clk \in Nat
  /\ now \in Nat
  /\ timer \in [Slots -> TimerRecord]
  /\ next_timer_id \in 1..MaxTimerId
  /\ created \in Nat
  /\ js \in BOOLEAN
  /\ tick \in Intervals \union {User}
  /\ intervals \in [Intervals -> Nat]
  /\ intervalId \in Nat
  /\ unrefd \in [Intervals -> BOOLEAN]
  /\ idelay \in [Intervals -> Delays \union {0}]
  /\ mixed \subseteq Intervals

Init ==
  /\ clk = 0
  /\ now = 0
  /\ timer = [s \in Slots |-> FreeTimer]
  /\ next_timer_id = 1
  /\ created = 0
  /\ js = TRUE
  /\ tick = User
  /\ intervals = [i \in Intervals |-> Gone]
  /\ intervalId = 1
  /\ unrefd = [i \in Intervals |-> FALSE]
  /\ idelay = [i \in Intervals |-> 0]
  /\ mixed = {}

-----------------------------------------------------------------------------
(* The C side: js_vm_setTimeout, timer_find and its users.                   *)

(* next_timer_id++, "wraps to 1 on overflow, skipping 0".  *)
NextTimerId == IF next_timer_id = MaxTimerId THEN 1 ELSE next_timer_id + 1

(* Mutant: the deadline is counted from the stale cached clock.  *)
DeadlineStale(delay) == now + delay

(* The deadline: uv_update_time refreshes the cached clock before the start. *)
Deadline(delay) == clk + delay

(* js_vm_setTimeout with callback fn; unref is the _timerUnref that           *)
(* setInterval's tick makes right after.                                     *)
AddTimer(s, fn, delay, unref) ==
  /\ timer[s].st = "free"
  /\ created < MaxCreated
  /\ timer' = [timer EXCEPT ![s] =
       [st |-> "armed", id |-> next_timer_id, serial |-> created + 1,
        due |-> Deadline(delay), at |-> clk, delay |-> delay,
        ref |-> ~unref, fn |-> fn]]
  /\ next_timer_id' = NextTimerId
  /\ created' = created + 1
  /\ now' = clk

(* timer_find: the newest timer with that id that is not closed.  *)
Found(id, s) ==
  /\ timer[s].st = "armed"
  /\ timer[s].id = id
  /\ \A r \in Slots : timer[r].st = "armed" /\ timer[r].id = id
                        => timer[r].serial <= timer[s].serial

(* clearTimeout(id): the timer found is stopped and closed.  *)
TimersCleared(id) ==
  [s \in Slots |-> IF Found(id, s) THEN [timer[s] EXCEPT !.st = "closed"]
                                   ELSE timer[s]]

(* timerRef(id) and timerUnref(id).  *)
TimersRef(id, b) ==
  [s \in Slots |-> IF Found(id, s) THEN [timer[s] EXCEPT !.ref = b]
                                   ELSE timer[s]]

(* timer_cb: the earliest due timer is closed and its function called.  The  *)
(* function of an interval is tick, which does nothing more when the         *)
(* interval has been cleared.                                                *)
TimerCb(s) ==
  /\ ~js
  /\ timer[s].st = "armed"
  /\ timer[s].due <= now
  /\ \A r \in Slots : timer[r].st = "armed" =>
       \/ timer[r].due > timer[s].due
       \/ timer[r].due = timer[s].due /\ timer[r].serial >= timer[s].serial
  /\ timer' = [timer EXCEPT ![s].st = "closed"]
  /\ js' = (timer[s].fn = User \/ intervals[timer[s].fn] # Gone)
  /\ tick' = IF js' THEN timer[s].fn ELSE User
  /\ UNCHANGED <<clk, now, next_timer_id, created, intervalVars>>

(* timer_close_cb unlinks and frees the struct.  *)
TimerCloseCb(s) ==
  /\ ~js
  /\ timer[s].st = "closed"
  /\ timer' = [timer EXCEPT ![s] = FreeTimer]
  /\ UNCHANGED <<clk, now, next_timer_id, created, js, tick, intervalVars>>

-----------------------------------------------------------------------------
(* The JavaScript side: node/node/timers.js.                                 *)

(* setTimeout, setImmediate (delay 0).  *)
SetTimeout ==
  /\ js
  /\ \E s \in Slots, d \in Delays : AddTimer(s, User, d, FALSE)
  /\ UNCHANGED <<clk, js, tick, intervalVars>>

(* clearTimeout or clearImmediate with the handle of a user timer, which may *)
(* have fired long ago, or with that of an interval: +handle is then the     *)
(* interval's id and is looked up as a timer's.                              *)
ClearTimeout ==
  /\ js
  /\ \/ /\ \E s \in Slots : /\ timer[s].st # "free"
                            /\ timer[s].fn = User
                            /\ timer' = TimersCleared(timer[s].id)
        /\ UNCHANGED mixed
     \/ \E i \in Intervals : /\ i < intervalId
                             /\ timer' = TimersCleared(i)
                             /\ mixed' = mixed \union {j \in {i} : \E s \in Slots : Found(j, s)}
  /\ UNCHANGED <<clk, now, next_timer_id, created, js, tick,
                 intervals, intervalId, unrefd, idelay>>

(* ref() and unref() of a TimerHandle.  *)
HandleRef ==
  /\ js
  /\ \E s \in Slots, b \in BOOLEAN :
       /\ timer[s].st # "free"
       /\ timer[s].fn = User
       /\ timer' = TimersRef(timer[s].id, b)
  /\ UNCHANGED <<clk, now, next_timer_id, created, js, tick, intervalVars>>

SetInterval ==
  /\ js
  /\ intervalId \in Intervals
  /\ intervalId' = intervalId + 1
  /\ \E s \in Slots, d \in Delays :
       /\ AddTimer(s, intervalId, d, FALSE)
       /\ intervals' = [intervals EXCEPT ![intervalId] = next_timer_id]
       /\ unrefd' = [unrefd EXCEPT ![intervalId] = FALSE]
       /\ idelay' = [idelay EXCEPT ![intervalId] = d]
  /\ UNCHANGED <<clk, js, tick, mixed>>

(* Mutant: only the map entry goes, the armed timer stays.  *)
ClearIntervalMapOnly(i) ==
  /\ js
  /\ intervals[i] # Gone
  /\ intervals' = [intervals EXCEPT ![i] = Gone]
  /\ UNCHANGED <<clk, now, timer, next_timer_id, created, js, tick,
                 intervalId, unrefd, idelay, mixed>>

(* clearInterval, also from inside the interval's own function, when the     *)
(* map still names the timer that has just fired, and with the handle of a   *)
(* timeout whose id is i.                                                    *)
ClearInterval(i) ==
  /\ js
  /\ intervals[i] # Gone
  /\ timer' = TimersCleared(intervals[i])
  /\ intervals' = [intervals EXCEPT ![i] = Gone]
  /\ UNCHANGED <<clk, now, next_timer_id, created, js, tick,
                 intervalId, unrefd, idelay, mixed>>

(* ref() and unref() of an interval, b = TRUE for ref.  *)
IntervalRef(i, b) ==
  /\ js
  /\ i < intervalId
  /\ timer' = TimersRef(intervals[i], b)
  /\ unrefd' = [unrefd EXCEPT ![i] = ~b]
  /\ UNCHANGED <<clk, now, next_timer_id, created, js, tick,
                 intervals, intervalId, idelay, mixed>>

(* JavaScript returns.  The rest of tick re-arms the interval when fn has    *)
(* not cleared it, and keeps it unreferenced.                                *)
Rearm == tick # User /\ intervals[tick] # Gone

JsReturn ==
  /\ js
  /\ ~Rearm
  /\ js' = FALSE
  /\ tick' = User
  /\ UNCHANGED <<clk, now, timer, next_timer_id, created, intervalVars>>

TickEnds ==
  /\ js
  /\ Rearm
  /\ \E s \in Slots : AddTimer(s, tick, idelay[tick], unrefd[tick])
  /\ intervals' = [intervals EXCEPT ![tick] = next_timer_id]
  /\ js' = FALSE
  /\ tick' = User
  /\ UNCHANGED <<clk, intervalId, unrefd, idelay, mixed>>

-----------------------------------------------------------------------------
(* Time passes, also while JavaScript runs; uv_run caches it once per turn.  *)
Elapse ==
  /\ clk < MaxClock
  /\ clk' = clk + 1
  /\ UNCHANGED <<now, timer, next_timer_id, created, js, tick, intervalVars>>

UpdateTime ==
  /\ ~js
  /\ now # clk
  /\ now' = clk
  /\ UNCHANGED <<clk, timer, next_timer_id, created, js, tick, intervalVars>>

Next ==
  \/ Elapse
  \/ UpdateTime
  \/ \E s \in Slots : TimerCb(s) \/ TimerCloseCb(s)
  \/ SetTimeout
  \/ ClearTimeout
  \/ HandleRef
  \/ SetInterval
  \/ \E i \in Intervals : ClearInterval(i) \/ \E b \in BOOLEAN : IntervalRef(i, b)
  \/ JsReturn
  \/ TickEnds

Spec == Init /\ [][Next]_vars

-----------------------------------------------------------------------------
(* Properties.                                                               *)

ArmedTicks(i) == {s \in Slots : timer[s].st = "armed" /\ timer[s].fn = i}

(* next_timer_id has come round, and two timers may share an id.  *)
Wrapped == created > MaxTimerId

(* The map _intervals and the C list agree: a cleared interval has no armed  *)
(* timer, and neither has the one whose tick is on the stack; any other has  *)
(* one at most, which the map names, and has lost it only when the program   *)
(* gave clearTimeout the handle of the interval whose number that timer's id *)
(* is.  So a cleared interval never fires again, a live one never doubles    *)
(* and does not stop for any other reason, and fn is not re-entered, until   *)
(* the ids wrap: then any clearTimeout may take the timer of an interval.    *)
IntervalHasOneTimer ==
  ~Wrapped => \A i \in Intervals :
    IF intervals[i] = Gone \/ i = tick
    THEN ArmedTicks(i) = {}
    ELSE \/ \E s \in Slots : ArmedTicks(i) = {s} /\ timer[s].id = intervals[i]
         \/ ArmedTicks(i) = {} /\ intervals[i] \in mixed

(* unref() of an interval survives every re-arm, and ref() undoes it, until  *)
(* the ids wrap.                                                             *)
UnrefIsKept ==
  ~Wrapped => \A i \in Intervals \ {tick} : \A s \in ArmedTicks(i) : timer[s].ref = ~unrefd[i]

(* A callback never runs before its delay has passed on the wall clock: the  *)
(* code refreshes the cached clock because otherwise "timers started from JS *)
(* callbacks can fire early".                                                *)
NeverEarly ==
  [][\A s \in Slots : timer[s].st = "armed" /\ timer'[s].st = "closed" /\ ~js
       => clk - timer[s].at >= timer[s].delay]_vars

(* Two open timers share an id only when the counter went all the way round  *)
(* between them; until then clearTimeout cannot hit a stranger.              *)
IdsCollideOnlyAfterWrap ==
  \A r, s \in Slots :
    /\ r # s
    /\ timer[r].st = "armed"
    /\ timer[s].st = "armed"
    /\ timer[r].id = timer[s].id
    => \/ timer[r].serial - timer[s].serial >= MaxTimerId
       \/ timer[s].serial - timer[r].serial >= MaxTimerId

(* Over every sequence of set, clear, ref, unref and ticks: the interval map *)
(* and the C list of timers agree, unref() is kept, and ids are told apart.  *)
TimersInv == TypeOK /\ IntervalHasOneTimer /\ UnrefIsKept /\ IdsCollideOnlyAfterWrap
=============================================================================
