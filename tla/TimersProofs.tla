---------------------------- MODULE TimersProofs ----------------------------
(***************************************************************************)
(* Safety of the timers for any number of structs, intervals and ids, also  *)
(* after next_timer_id has wrapped.  TimersIInv adds to the properties how  *)
(* ids follow the order of creation, what the cached clock owes the wall    *)
(* clock, and what the map _intervals holds while a tick is on the stack.   *)
(***************************************************************************)
EXTENDS Timers, TLAPS

Used(s) == timer[s].st # "free"
Armed(s) == timer[s].st = "armed"

(* loop->time lags behind the clock; a deadline counts from its setTimeout.  *)
ClockInv ==
  /\ now <= clk
  /\ \A s \in Slots : Armed(s) => timer[s].due = timer[s].at + timer[s].delay

(* The list is ordered by creation; 0 is no id.  *)
ListInv ==
  /\ \A s \in Slots : Used(s) =>
       /\ timer[s].serial \in 1..created
       /\ timer[s].id \in 1..MaxTimerId
       /\ timer[s].fn < intervalId
  /\ \A r, s \in Slots : Used(r) /\ Used(s) /\ timer[r].serial = timer[s].serial => r = s

(* Two structs of the list with one id are a whole round of ids apart.  *)
Apart ==
  \A r, s \in Slots :
    Used(r) /\ Used(s) /\ timer[r].id = timer[s].id /\ timer[r].serial < timer[s].serial
      => timer[s].serial - timer[r].serial >= MaxTimerId

(* How many timers ago an id was handed out, as far as the counter can tell.  *)
IdsInv ==
  \A s \in Slots : Used(s) =>
    \/ created + 1 - timer[s].serial >= MaxTimerId
    \/ created + 1 - timer[s].serial = next_timer_id - timer[s].id
    \/ created + 1 - timer[s].serial = next_timer_id + MaxTimerId - timer[s].id

(* Until the counter wraps, the id of a timer is its place in the list.  *)
NotWrappedInv ==
  /\ created < MaxTimerId => next_timer_id = created + 1
  /\ ~Wrapped => \A s \in Slots : Used(s) => timer[s].id = timer[s].serial

(* A tick is on the stack only while JavaScript runs; ids of intervals that  *)
(* have not been set are not in the map.                                     *)
TickInv ==
  /\ intervalId >= 1
  /\ tick < intervalId
  /\ ~js => tick = User
  /\ \A i \in Intervals : i >= intervalId => intervals[i] = Gone

(* The map names timers of the past, and while the tick of an interval runs  *)
(* the timer it names has fired.                                             *)
MapInv ==
  ~Wrapped =>
    /\ \A i \in Intervals : intervals[i] <= created
    /\ tick # User /\ intervals[tick] # Gone =>
         \A s \in Slots : Armed(s) => timer[s].id # intervals[tick]

(* IntervalHasOneTimer, timer by timer.  *)
OneTimerInv ==
  ~Wrapped => \A i \in Intervals :
    IF intervals[i] = Gone \/ i = tick
    THEN \A s \in Slots : ~(Armed(s) /\ timer[s].fn = i)
    ELSE \/ \E s \in Slots :
              /\ Armed(s) /\ timer[s].fn = i /\ timer[s].id = intervals[i]
              /\ \A r \in Slots : Armed(r) /\ timer[r].fn = i => r = s
         \/ /\ intervals[i] \in mixed
            /\ \A s \in Slots : Armed(s) => timer[s].fn # i /\ timer[s].id # intervals[i]

UnrefInv ==
  ~Wrapped => \A s \in Slots :
    Armed(s) /\ timer[s].fn \in Intervals \ {tick}
      => timer[s].ref = ~unrefd[timer[s].fn]

TimersIInv ==
  /\ TypeOK /\ ClockInv /\ ListInv /\ Apart /\ IdsInv /\ NotWrappedInv /\ TickInv
  /\ MapInv /\ OneTimerInv /\ UnrefInv

-----------------------------------------------------------------------------
LEMMA IntervalsAreNumbers ==
  /\ \A i \in Intervals \union {User} : i \in Nat
  /\ User \notin Intervals
  /\ MaxTimerId \in Nat /\ MaxTimerId >= 1
  /\ \A d \in Delays \union {0} : d \in Nat
<1>1. \A i \in Intervals : i \in Nat \ {0}
  BY TimersAssumption
<1>2. User \in Nat /\ User \notin Nat \ {0}
  BY DEF User
<1>3. MaxTimerId \in Nat /\ MaxTimerId >= 1
  BY TimersAssumption
<1>4. \A d \in Delays \union {0} : d \in Nat
  BY TimersAssumption
<1> QED BY <1>1, <1>2, <1>3, <1>4

LEMMA InitTimersIInv == Init => TimersIInv
BY TimersAssumption
DEF Init, TimersIInv, TypeOK, ClockInv, ListInv, Apart, IdsInv, NotWrappedInv, TickInv, MapInv,
    OneTimerInv, UnrefInv, Used, Armed, FreeTimer, TimerRecord, User, Gone, Wrapped

(* timer_find meets one timer at most until the ids wrap, and it never meets  *)
(* one for Gone.                                                             *)
LEMMA FoundIsUnique ==
  ASSUME TimersIInv
  PROVE  /\ \A s \in Slots : ~Found(Gone, s)
         /\ ~Wrapped => \A r, s \in Slots :
              Used(r) /\ Used(s) /\ timer[r].id = timer[s].id => r = s
         /\ ~Wrapped => \A s \in Slots : Armed(s) => Found(timer[s].id, s)
<1>1. \A s \in Slots : Armed(s) => Used(s)
  BY DEF Armed, Used
<1>2. ASSUME NEW s \in Slots, Found(Gone, s) PROVE FALSE
  <2>1. Used(s) /\ timer[s].id = 0
    BY <1>2 DEF Found, Used, Gone
  <2>2. timer[s].id \in 1..MaxTimerId
    BY <2>1 DEF TimersIInv, ListInv
  <2> QED BY <2>1, <2>2, IntervalsAreNumbers
<1>3. ASSUME ~Wrapped PROVE \A r, s \in Slots :
              Used(r) /\ Used(s) /\ timer[r].id = timer[s].id => r = s
  BY <1>3 DEF TimersIInv, ListInv, NotWrappedInv
<1>4. ASSUME ~Wrapped PROVE \A s \in Slots : Armed(s) => Found(timer[s].id, s)
  BY <1>1, <1>3, <1>4 DEF Found, Armed, TimersIInv, TypeOK, TimerRecord
<1> QED BY <1>2, <1>3, <1>4

(* js_vm_setTimeout: the new timer is the youngest, its id the one whose turn *)
(* it is.                                                                    *)
LEMMA AddTimerKeepsList ==
  ASSUME TimersIInv, NEW s \in Slots, NEW fn \in Intervals \union {User},
         NEW delay \in Nat, NEW unref \in BOOLEAN,
         AddTimer(s, fn, delay, unref), UNCHANGED clk,
         intervalId' \in Nat, fn < intervalId', intervalId <= intervalId'
  PROVE  /\ timer' \in [Slots -> TimerRecord]
         /\ next_timer_id' \in 1..MaxTimerId /\ created' \in Nat /\ now' \in Nat
         /\ ClockInv' /\ ListInv' /\ Apart' /\ IdsInv' /\ NotWrappedInv'
<1> DEFINE new == [st |-> "armed", id |-> next_timer_id, serial |-> created + 1,
                   due |-> Deadline(delay), at |-> clk, delay |-> delay,
                   ref |-> ~unref, fn |-> fn]
<1>1. /\ clk \in Nat /\ now \in Nat /\ created \in Nat /\ next_timer_id \in 1..MaxTimerId
      /\ timer \in [Slots -> TimerRecord] /\ intervalId \in Nat
  BY DEF TimersIInv, TypeOK
<1>2. new \in TimerRecord
  BY <1>1, TimersAssumption DEF TimerRecord, Deadline
<1>3. timer' = [timer EXCEPT ![s] = new] /\ created' = created + 1
      /\ next_timer_id' = NextTimerId /\ now' = clk /\ clk' = clk
  BY DEF AddTimer
<1>4. timer' \in [Slots -> TimerRecord]
  BY <1>1, <1>2, <1>3
<1>5. timer'[s] = new /\ \A r \in Slots : r # s => timer'[r] = timer[r]
  BY <1>1, <1>3
<1>6. next_timer_id' \in 1..MaxTimerId /\ created' \in Nat /\ now' \in Nat
  BY <1>1, <1>3, TimersAssumption DEF NextTimerId
<1>7. ClockInv'
  BY <1>1, <1>3, <1>5 DEF ClockInv, TimersIInv, Armed, Deadline
<1>8. ListInv'
  <2>1. ASSUME NEW r \in Slots, Used(r)'
        PROVE  /\ timer'[r].serial \in 1..created' /\ timer'[r].id \in 1..MaxTimerId
               /\ timer'[r].fn < intervalId'
    <3>1. CASE r = s
      BY <3>1, <1>1, <1>3, <1>5
    <3>2. CASE r # s
      <4>1. timer[r].fn \in Nat
        <5>1. timer[r] \in TimerRecord
          BY <1>1
        <5> QED BY <5>1, IntervalsAreNumbers DEF TimerRecord
      <4> QED BY <3>2, <2>1, <4>1, <1>1, <1>3, <1>5 DEF TimersIInv, ListInv, Used
    <3> QED BY <3>1, <3>2
  <2>2. ASSUME NEW q \in Slots, NEW r \in Slots, Used(q)', Used(r)',
               timer'[q].serial = timer'[r].serial
        PROVE  q = r
    BY <2>2, <1>1, <1>3, <1>5 DEF TimersIInv, ListInv, Used
  <2> QED BY <2>1, <2>2 DEF ListInv
<1>9. IdsInv'
  <2> SUFFICES ASSUME NEW r \in Slots, Used(r)'
               PROVE  \/ created' + 1 - timer'[r].serial >= MaxTimerId
                      \/ created' + 1 - timer'[r].serial = next_timer_id' - timer'[r].id
                      \/ created' + 1 - timer'[r].serial
                            = next_timer_id' + MaxTimerId - timer'[r].id
    BY DEF IdsInv
  <2>1. CASE r = s
    BY <2>1, <1>1, <1>3, <1>5, TimersAssumption DEF NextTimerId
  <2>2. CASE r # s
    <3>1. Used(r) /\ timer'[r] = timer[r]
      BY <2>2, <1>5 DEF Used
    <3>2. timer[r].serial \in 1..created /\ timer[r].id \in 1..MaxTimerId
      BY <3>1 DEF TimersIInv, ListInv
    <3>3. \/ created + 1 - timer[r].serial >= MaxTimerId
          \/ created + 1 - timer[r].serial = next_timer_id - timer[r].id
          \/ created + 1 - timer[r].serial = next_timer_id + MaxTimerId - timer[r].id
      BY <3>1 DEF TimersIInv, IdsInv
    <3> QED BY <3>1, <3>2, <3>3, <1>1, <1>3, TimersAssumption DEF NextTimerId
  <2> QED BY <2>1, <2>2
<1>11. Apart'
  <2> SUFFICES ASSUME NEW q \in Slots, NEW r \in Slots, Used(q)', Used(r)',
                      timer'[q].id = timer'[r].id, timer'[q].serial < timer'[r].serial
               PROVE  timer'[r].serial - timer'[q].serial >= MaxTimerId
    BY DEF Apart
  <2>1. CASE r # s /\ q # s
    BY <2>1, <1>5 DEF TimersIInv, Apart, Used
  <2>2. CASE q = s
    <3>1. timer'[r].serial \in 1..created' /\ timer'[q].serial = created'
      BY <2>2, <1>3, <1>5, <1>8 DEF ListInv
    <3> QED BY <3>1, <1>6
  <2>3. CASE r = s /\ q # s
    <3>1. /\ Used(q) /\ timer'[q] = timer[q] /\ timer[q].id = next_timer_id
          /\ timer'[r].serial = created + 1
      BY <2>3, <1>5 DEF Used
    <3>2. \/ created + 1 - timer[q].serial >= MaxTimerId
          \/ created + 1 - timer[q].serial = next_timer_id - next_timer_id
          \/ created + 1 - timer[q].serial = next_timer_id + MaxTimerId - next_timer_id
      BY <3>1 DEF TimersIInv, IdsInv
    <3>3. timer[q].serial \in 1..created
      BY <3>1 DEF TimersIInv, ListInv
    <3> QED BY <3>1, <3>2, <3>3, <1>1, IntervalsAreNumbers
  <2> QED BY <2>1, <2>2, <2>3
<1>10. NotWrappedInv'
  BY <1>1, <1>3, <1>5, TimersAssumption
  DEF TimersIInv, NotWrappedInv, Wrapped, Used, NextTimerId
<1> QED BY <1>4, <1>6, <1>7, <1>8, <1>9, <1>10, <1>11

(* Timers that are only closed, freed or referenced stay where they are in    *)
(* the list.                                                                 *)
Shrunk ==
  \A s \in Slots :
    /\ Armed(s)' => Armed(s)
    /\ Used(s)' => /\ Used(s)
                   /\ timer'[s].id = timer[s].id /\ timer'[s].serial = timer[s].serial
                   /\ timer'[s].fn = timer[s].fn /\ timer'[s].at = timer[s].at
                   /\ timer'[s].due = timer[s].due /\ timer'[s].delay = timer[s].delay

LEMMA ShrunkKeepsList ==
  ASSUME TimersIInv, Shrunk, UNCHANGED <<next_timer_id, created, intervalId>>,
         clk' \in Nat, clk <= clk', now' = now \/ now' = clk'
  PROVE  ClockInv' /\ ListInv' /\ Apart' /\ IdsInv' /\ NotWrappedInv'
<1>1. clk \in Nat /\ now \in Nat /\ now <= clk
  BY DEF TimersIInv, TypeOK, ClockInv
<1>2. \A s \in Slots : Armed(s)' => Used(s)'
  BY DEF Armed, Used
<1>3. ClockInv'
  BY <1>1, <1>2 DEF TimersIInv, ClockInv, Shrunk
<1>4. ListInv'
  BY DEF TimersIInv, ListInv, Shrunk
<1>5. IdsInv'
  BY DEF TimersIInv, IdsInv, Shrunk
<1>6. NotWrappedInv'
  BY DEF TimersIInv, NotWrappedInv, Wrapped, Shrunk
<1>7. Apart'
  BY DEF TimersIInv, Apart, Shrunk
<1> QED BY <1>3, <1>4, <1>5, <1>6, <1>7

-----------------------------------------------------------------------------
(* One step per action.                                                      *)

LEMMA ElapseKeeps == TimersIInv /\ (Elapse \/ UpdateTime) => TimersIInv'
<1> SUFFICES ASSUME TimersIInv, Elapse \/ UpdateTime PROVE TimersIInv'
  OBVIOUS
<1>1. /\ UNCHANGED <<timer, next_timer_id, created, js, tick, intervalVars>>
      /\ clk' \in Nat /\ clk <= clk' /\ (now' = now \/ now' = clk')
  BY DEF Elapse, UpdateTime, TimersIInv, TypeOK
<1>2. Shrunk
  BY <1>1 DEF Shrunk, Armed, Used
<1>3. ClockInv' /\ ListInv' /\ Apart' /\ IdsInv' /\ NotWrappedInv'
  BY <1>1, <1>2, ShrunkKeepsList DEF intervalVars
<1>4. TypeOK'
  BY <1>1 DEF TypeOK, TimersIInv, intervalVars
<1>5. TickInv' /\ MapInv' /\ OneTimerInv' /\ UnrefInv'
  BY <1>1 DEF TimersIInv, TickInv, MapInv, OneTimerInv, UnrefInv, Wrapped, Armed, intervalVars
<1> QED BY <1>3, <1>4, <1>5 DEF TimersIInv

(* timer_cb: the timer the map names has fired, and it is the only one of its *)
(* interval.                                                                 *)
LEMMA TimerCbKeeps ==
  ASSUME TimersIInv, NEW s \in Slots, TimerCb(s)
  PROVE  TimersIInv'
<1>1. /\ timer \in [Slots -> TimerRecord] /\ clk \in Nat /\ timer[s] \in TimerRecord
      /\ intervals \in [Intervals -> Nat] /\ intervalId \in Nat
  BY DEF TimersIInv, TypeOK
<1>2. /\ Armed(s) /\ Used(s) /\ ~js
      /\ timer' = [timer EXCEPT ![s].st = "closed"]
      /\ UNCHANGED <<clk, now, next_timer_id, created, intervalVars>>
  BY DEF TimerCb, Armed, Used
<1>3. /\ timer'[s] = [timer[s] EXCEPT !.st = "closed"]
      /\ \A r \in Slots : r # s => timer'[r] = timer[r]
  BY <1>1, <1>2
<1>4. /\ ~Armed(s)' /\ \A r \in Slots : r # s => (Armed(r)' <=> Armed(r))
      /\ \A r \in Slots : /\ timer'[r].id = timer[r].id /\ timer'[r].fn = timer[r].fn
                           /\ timer'[r].ref = timer[r].ref
  BY <1>1, <1>3 DEF Armed, TimerRecord
<1>5. Shrunk
  BY <1>1, <1>2, <1>3 DEF Shrunk, Armed, Used, TimerRecord
<1>6. ClockInv' /\ ListInv' /\ Apart' /\ IdsInv' /\ NotWrappedInv'
  BY <1>1, <1>2, <1>5, ShrunkKeepsList DEF intervalVars
<1>7. timer[s].fn \in Intervals \union {User} /\ timer[s].fn < intervalId
  BY <1>1, <1>2 DEF TimerRecord, TimersIInv, ListInv
<1>8. /\ js' \in BOOLEAN /\ tick' \in {timer[s].fn, User} /\ (~js' => tick' = User)
      /\ js' <=> (timer[s].fn = User \/ intervals[timer[s].fn] # Gone)
      /\ js' => tick' = timer[s].fn
  BY <1>1 DEF TimerCb
<1>9. TypeOK'
  <2>1. timer' \in [Slots -> TimerRecord]
    BY <1>1, <1>2, <1>3 DEF TimerRecord
  <2> QED BY <2>1, <1>2, <1>7, <1>8 DEF TypeOK, TimersIInv, intervalVars
<1>10. TickInv'
  BY <1>2, <1>7, <1>8, <1>1 DEF TickInv, TimersIInv, intervalVars, User
<1>11. ASSUME ~Wrapped' PROVE ~Wrapped /\ tick = User /\ User \notin Intervals
  BY <1>2, <1>11, TimersAssumption DEF Wrapped, TimersIInv, TickInv, User
<1>12. ASSUME ~Wrapped', timer[s].fn \in Intervals
       PROVE  /\ js' /\ tick' = timer[s].fn
              /\ timer[s].id = intervals[timer[s].fn]
              /\ \A r \in Slots : Armed(r) /\ timer[r].fn = timer[s].fn => r = s
  BY <1>2, <1>8, <1>11, <1>12 DEF TimersIInv, OneTimerInv
<1>13. MapInv'
  <2>1. ASSUME ~Wrapped', tick' # User
        PROVE  \A r \in Slots : Armed(r)' => timer'[r].id # intervals'[tick']
    <3>1. timer[s].fn \in Intervals
      BY <2>1, <1>7, <1>8
    <3>2. \A r \in Slots : Armed(r)' => Used(r) /\ r # s
      BY <1>4 DEF Armed, Used
    <3> QED BY <3>1, <3>2, <2>1, <1>2, <1>4, <1>11, <1>12, FoundIsUnique DEF intervalVars
  <2> QED BY <2>1, <1>2, <1>11 DEF MapInv, TimersIInv, intervalVars
<1>14. OneTimerInv'
  <2> SUFFICES ASSUME ~Wrapped', NEW i \in Intervals
               PROVE  IF intervals[i] = Gone \/ i = tick'
                      THEN \A r \in Slots : ~(Armed(r)' /\ timer[r].fn = i)
                      ELSE \/ \E r \in Slots :
                                /\ Armed(r)' /\ timer[r].fn = i /\ timer[r].id = intervals[i]
                                /\ \A q \in Slots : Armed(q)' /\ timer[q].fn = i => q = r
                           \/ /\ intervals[i] \in mixed
                              /\ \A q \in Slots : Armed(q)' =>
                                   timer[q].fn # i /\ timer[q].id # intervals[i]
    BY <1>2, <1>4 DEF OneTimerInv, intervalVars
  <2>1. i # tick
    BY <1>11
  <2>2. CASE timer[s].fn = i
    BY <2>2, <1>2, <1>4, <1>12
  <2>3. CASE timer[s].fn # i
    <3>1. i # tick'
      BY <2>3, <1>8, <1>11
    <3>2. \A r \in Slots : timer[r].fn = i => (Armed(r)' <=> Armed(r))
      BY <2>3, <1>4
    <3>3. \A r \in Slots : Armed(r)' => Armed(r)
      BY <1>4
    <3> QED BY <2>1, <3>1, <3>2, <3>3, <1>11 DEF OneTimerInv, TimersIInv
  <2> QED BY <2>2, <2>3
<1>15. UnrefInv'
  BY <1>2, <1>4, <1>11 DEF UnrefInv, TimersIInv, intervalVars
<1> QED BY <1>6, <1>9, <1>10, <1>13, <1>14, <1>15 DEF TimersIInv

LEMMA TimerCloseCbKeeps ==
  ASSUME TimersIInv, NEW s \in Slots, TimerCloseCb(s)
  PROVE  TimersIInv'
<1>1. timer \in [Slots -> TimerRecord] /\ clk \in Nat
  BY DEF TimersIInv, TypeOK
<1>2. /\ ~Armed(s)
      /\ timer' = [timer EXCEPT ![s] = FreeTimer]
      /\ UNCHANGED <<clk, now, next_timer_id, created, js, tick, intervalVars>>
  BY DEF TimerCloseCb, Armed
<1>3. /\ timer'[s] = FreeTimer /\ ~Used(s)' /\ ~Armed(s)'
      /\ \A r \in Slots : r # s => timer'[r] = timer[r]
      /\ \A r \in Slots : Armed(r)' <=> Armed(r)
      /\ \A r \in Slots : Armed(r) => timer'[r] = timer[r]
  BY <1>1, <1>2 DEF FreeTimer, Used, Armed
<1>4. Shrunk
  BY <1>1, <1>2, <1>3 DEF Shrunk, Armed, Used
<1>5. ClockInv' /\ ListInv' /\ Apart' /\ IdsInv' /\ NotWrappedInv'
  BY <1>1, <1>2, <1>4, ShrunkKeepsList DEF intervalVars
<1>6. TypeOK'
  BY <1>1, <1>2 DEF TypeOK, TimersIInv, intervalVars, FreeTimer, TimerRecord, User
<1>7. TickInv' /\ MapInv' /\ UnrefInv'
  BY <1>2, <1>3 DEF TickInv, MapInv, UnrefInv, TimersIInv, intervalVars, Wrapped
<1>8. OneTimerInv'
  BY <1>2, <1>3 DEF OneTimerInv, TimersIInv, intervalVars, Wrapped
<1> QED BY <1>5, <1>6, <1>7, <1>8 DEF TimersIInv

-----------------------------------------------------------------------------
(* Closing a timer or setting its reference leaves the rest of the struct.    *)
OneOf(t, u) ==
  \/ u = t
  \/ u = [t EXCEPT !.st = "closed"]
  \/ \E b \in BOOLEAN : u = [t EXCEPT !.ref = b]

LEMMA OneRecord ==
  ASSUME NEW t \in TimerRecord, NEW u, OneOf(t, u)
  PROVE  /\ u \in TimerRecord
         /\ u.id = t.id /\ u.serial = t.serial /\ u.fn = t.fn /\ u.at = t.at
         /\ u.due = t.due /\ u.delay = t.delay
         /\ u.st = t.st \/ u.st = "closed"
<1>1. CASE u = t
  BY <1>1
<1>2. CASE u = [t EXCEPT !.st = "closed"]
  BY <1>2 DEF TimerRecord
<1>3. ASSUME NEW b \in BOOLEAN, u = [t EXCEPT !.ref = b]
      PROVE  /\ u \in TimerRecord
             /\ u.id = t.id /\ u.serial = t.serial /\ u.fn = t.fn /\ u.at = t.at
             /\ u.due = t.due /\ u.delay = t.delay /\ u.st = t.st
  BY <1>3 DEF TimerRecord
<1> QED BY <1>1, <1>2, <1>3 DEF OneOf

(* clearTimeout, ref and unref with the id of a timer that is not the timer   *)
(* of any interval: until the ids wrap no interval's timer is touched.       *)
LEMMA UserTimerKeeps ==
  ASSUME TimersIInv, NEW s \in Slots, Used(s), timer[s].fn = User,
         timer' = TimersCleared(timer[s].id)
           \/ \E b \in BOOLEAN : timer' = TimersRef(timer[s].id, b),
         UNCHANGED <<clk, now, next_timer_id, created, js, tick, intervalVars>>
  PROVE  TimersIInv'
<1>1. timer \in [Slots -> TimerRecord] /\ clk \in Nat /\ \A r \in Slots : timer[r] \in TimerRecord
  BY DEF TimersIInv, TypeOK
<1>2. \A r \in Slots :
        \/ timer'[r] = timer[r]
        \/ /\ Found(timer[s].id, r)
           /\ timer'[r] = [timer[r] EXCEPT !.st = "closed"]
                \/ \E b \in BOOLEAN : timer'[r] = [timer[r] EXCEPT !.ref = b]
  BY DEF TimersCleared, TimersRef
<1>3. timer' \in [Slots -> TimerRecord]
  <2>1. \A r \in Slots : timer'[r] \in TimerRecord
    BY <1>1, <1>2, OneRecord DEF OneOf
  <2>2. timer' = [r \in Slots |-> timer'[r]]
    BY DEF TimersCleared, TimersRef
  <2> QED BY <2>1, <2>2
<1>4. Shrunk
  <2> SUFFICES ASSUME NEW r \in Slots
               PROVE  /\ Armed(r)' => Armed(r)
                      /\ Used(r)' => Used(r)
                      /\ timer'[r].id = timer[r].id /\ timer'[r].serial = timer[r].serial
                      /\ timer'[r].fn = timer[r].fn /\ timer'[r].at = timer[r].at
                      /\ timer'[r].due = timer[r].due /\ timer'[r].delay = timer[r].delay
    BY DEF Shrunk
  <2>1. Found(timer[s].id, r) => Used(r)
    BY DEF Found, Used
  <2>2. timer[r] \in TimerRecord /\ OneOf(timer[r], timer'[r])
    BY <1>1, <1>2 DEF OneOf
  <2>3. /\ timer'[r].id = timer[r].id /\ timer'[r].serial = timer[r].serial
        /\ timer'[r].fn = timer[r].fn /\ timer'[r].at = timer[r].at
        /\ timer'[r].due = timer[r].due /\ timer'[r].delay = timer[r].delay
        /\ timer'[r].st = timer[r].st \/ timer'[r].st = "closed"
    BY <2>2, OneRecord
  <2>4. timer'[r] = timer[r] \/ Used(r)
    BY <2>1, <1>2
  <2> QED BY <2>3, <2>4 DEF Armed, Used
<1>5. ClockInv' /\ ListInv' /\ Apart' /\ IdsInv' /\ NotWrappedInv'
  BY <1>1, <1>4, ShrunkKeepsList DEF intervalVars
<1>6. TypeOK'
  BY <1>3 DEF TypeOK, TimersIInv, intervalVars
<1>7. TickInv'
  BY DEF TickInv, TimersIInv, intervalVars
<1>8. ASSUME ~Wrapped', NEW r \in Slots, timer[r].fn # User
      PROVE  timer'[r] = timer[r]
  <2>1. ~Wrapped
    BY <1>8 DEF Wrapped
  <2>2. ~Found(timer[s].id, r)
    <3>1. SUFFICES ASSUME Found(timer[s].id, r) PROVE FALSE
      OBVIOUS
    <3>2. Used(r) /\ timer[r].id = timer[s].id
      BY <3>1 DEF Found, Used
    <3> QED BY <2>1, <3>2, <1>8, FoundIsUnique
  <2> QED BY <1>2, <2>2
<1>9. MapInv'
  BY <1>4 DEF MapInv, TimersIInv, intervalVars, Wrapped, Shrunk, Armed, Used
<1>10. ASSUME ~Wrapped', NEW i \in Intervals, NEW r \in Slots
       PROVE  /\ Armed(r)' /\ timer'[r].fn = i <=> Armed(r) /\ timer[r].fn = i
              /\ timer[r].fn = i => timer'[r] = timer[r]
  <2>1. timer'[r].fn = timer[r].fn
    BY <1>1, <1>2 DEF TimerRecord
  <2> QED BY <1>8, <1>10, <2>1, IntervalsAreNumbers DEF Armed
<1>11. OneTimerInv'
  <2> SUFFICES ASSUME ~Wrapped', NEW i \in Intervals
               PROVE  IF intervals[i] = Gone \/ i = tick
                      THEN \A r \in Slots : ~(Armed(r)' /\ timer'[r].fn = i)
                      ELSE \/ \E r \in Slots :
                                /\ Armed(r)' /\ timer'[r].fn = i /\ timer'[r].id = intervals[i]
                                /\ \A q \in Slots : Armed(q)' /\ timer'[q].fn = i => q = r
                           \/ /\ intervals[i] \in mixed
                              /\ \A q \in Slots : Armed(q)' =>
                                   timer'[q].fn # i /\ timer'[q].id # intervals[i]
    BY DEF OneTimerInv, intervalVars
  <2>1. ~Wrapped
    BY DEF Wrapped
  <2>2. \A r \in Slots : Armed(r)' =>
          Armed(r) /\ timer'[r].fn = timer[r].fn /\ timer'[r].id = timer[r].id
    BY <1>4 DEF Shrunk, Armed, Used
  <2>3. CASE \A r \in Slots : Armed(r) => timer[r].fn # i /\ timer[r].id # intervals[i]
    <3>1. \A r \in Slots : Armed(r)' => timer'[r].fn # i /\ timer'[r].id # intervals[i]
      BY <2>2, <2>3
    <3> QED BY <2>1, <2>3, <3>1 DEF OneTimerInv, TimersIInv
  <2>4. CASE ~\A r \in Slots : Armed(r) => timer[r].fn # i /\ timer[r].id # intervals[i]
    <3>1. \A r \in Slots : /\ Armed(r)' /\ timer'[r].fn = i <=> Armed(r) /\ timer[r].fn = i
                           /\ timer[r].fn = i => timer'[r] = timer[r]
      BY <1>10
    <3> QED BY <2>1, <2>4, <3>1 DEF OneTimerInv, TimersIInv
  <2> QED BY <2>3, <2>4
<1>12. UnrefInv'
  BY <1>10 DEF UnrefInv, TimersIInv, intervalVars, Wrapped
<1> QED BY <1>5, <1>6, <1>7, <1>9, <1>11, <1>12 DEF TimersIInv

(* clearTimeout with an interval's handle, whose number is looked up as a      *)
(* timer's id: the one interval that may lose its timer is the one whose map  *)
(* entry has that id, and it is remembered in mixed.                          *)
LEMMA MixedUpKeeps ==
  ASSUME TimersIInv, NEW j \in Intervals, timer' = TimersCleared(j),
         mixed' = mixed \union {k \in {j} : \E s \in Slots : Found(k, s)},
         UNCHANGED <<clk, now, next_timer_id, created, js, tick,
                     intervals, intervalId, unrefd, idelay>>
  PROVE  TimersIInv'
<1>1. /\ timer \in [Slots -> TimerRecord] /\ clk \in Nat /\ intervals \in [Intervals -> Nat]
      /\ \A r \in Slots : timer[r] \in TimerRecord
  BY DEF TimersIInv, TypeOK
<1>2. /\ mixed \subseteq mixed' /\ mixed' \subseteq mixed \union {j}
      /\ \A s \in Slots : Found(j, s) => j \in mixed'
  OBVIOUS
<1>3. \A r \in Slots :
        timer'[r] = IF Found(j, r) THEN [timer[r] EXCEPT !.st = "closed"] ELSE timer[r]
  BY DEF TimersCleared
<1>4. timer' \in [Slots -> TimerRecord]
  <2>1. \A r \in Slots : timer'[r] \in TimerRecord
    BY <1>1, <1>3, OneRecord DEF OneOf
  <2>2. timer' = [r \in Slots |-> timer'[r]]
    BY DEF TimersCleared
  <2> QED BY <2>1, <2>2
<1>5. ASSUME NEW r \in Slots
      PROVE  /\ Armed(r)' <=> Armed(r) /\ ~Found(j, r)
             /\ Used(r)' => Used(r)
             /\ timer'[r].id = timer[r].id /\ timer'[r].serial = timer[r].serial
             /\ timer'[r].fn = timer[r].fn /\ timer'[r].at = timer[r].at
             /\ timer'[r].due = timer[r].due /\ timer'[r].delay = timer[r].delay
             /\ timer'[r].ref = timer[r].ref
  <2>1. CASE Found(j, r)
    <3>1. timer[r].st = "armed"
      BY <2>1 DEF Found
    <3>2. timer[r] \in TimerRecord /\ timer'[r] = [timer[r] EXCEPT !.st = "closed"]
      BY <2>1, <1>1, <1>3
    <3>3. timer'[r].st = "closed"
      BY <3>2 DEF TimerRecord
    <3>4. ~Armed(r)' /\ Used(r)
      BY <3>1, <3>3 DEF Armed, Used
    <3> QED BY <2>1, <3>2, <3>4 DEF TimerRecord
  <2>2. CASE ~Found(j, r)
    BY <2>2, <1>3 DEF Armed, Used
  <2> QED BY <2>1, <2>2
<1>6. Shrunk
  BY <1>5 DEF Shrunk
<1>7. ClockInv' /\ ListInv' /\ Apart' /\ IdsInv' /\ NotWrappedInv'
  BY <1>1, <1>6, ShrunkKeepsList
<1>8. TypeOK' /\ TickInv'
  BY <1>1, <1>2, <1>4 DEF TypeOK, TickInv, TimersIInv
<1>9. ~Wrapped' => ~Wrapped
  BY DEF Wrapped
<1>10. MapInv'
  BY <1>5, <1>9 DEF MapInv, TimersIInv
<1>11. OneTimerInv'
  <2> SUFFICES ASSUME ~Wrapped', NEW i \in Intervals
               PROVE  IF intervals[i] = Gone \/ i = tick
                      THEN \A r \in Slots : ~(Armed(r)' /\ timer[r].fn = i)
                      ELSE \/ \E r \in Slots :
                                /\ Armed(r)' /\ timer[r].fn = i /\ timer[r].id = intervals[i]
                                /\ \A q \in Slots : Armed(q)' /\ timer[q].fn = i => q = r
                           \/ /\ intervals[i] \in mixed'
                              /\ \A q \in Slots : Armed(q)' =>
                                   timer[q].fn # i /\ timer[q].id # intervals[i]
    BY <1>5 DEF OneTimerInv
  <2>1. ~Wrapped /\ \A r \in Slots : Armed(r)' => Armed(r)
    BY <1>5, <1>9
  <2>2. CASE intervals[i] = Gone \/ i = tick
    BY <2>1, <2>2 DEF OneTimerInv, TimersIInv
  <2>3. CASE ~(intervals[i] = Gone \/ i = tick)
    <3>1. CASE intervals[i] \in mixed /\ \A q \in Slots : Armed(q) =>
                 timer[q].fn # i /\ timer[q].id # intervals[i]
      BY <2>1, <2>3, <3>1, <1>2
    <3>2. ASSUME NEW r \in Slots, Armed(r), timer[r].fn = i, timer[r].id = intervals[i],
                 \A q \in Slots : Armed(q) /\ timer[q].fn = i => q = r
          PROVE  \/ Armed(r)'
                 \/ /\ intervals[i] \in mixed'
                    /\ \A q \in Slots : Armed(q)' =>
                         timer[q].fn # i /\ timer[q].id # intervals[i]
      <4>1. SUFFICES ASSUME Found(j, r)
                     PROVE  /\ intervals[i] \in mixed'
                            /\ \A q \in Slots : Armed(q)' =>
                                 timer[q].fn # i /\ timer[q].id # intervals[i]
        BY <3>2, <1>5
      <4>2. j = intervals[i] /\ j \in mixed'
        BY <4>1, <3>2, <1>2 DEF Found
      <4>3. ASSUME NEW q \in Slots, Armed(q)' PROVE timer[q].fn # i /\ timer[q].id # intervals[i]
        <5>1. Armed(q) /\ q # r
          BY <4>1, <4>3, <1>5
        <5>2. Used(q) /\ Used(r)
          BY <5>1, <3>2 DEF Armed, Used
        <5> QED BY <5>1, <5>2, <3>2, <2>1, FoundIsUnique
      <4> QED BY <4>2, <4>3
    <3> QED BY <2>1, <2>3, <3>1, <3>2 DEF OneTimerInv, TimersIInv
  <2> QED BY <2>2, <2>3
<1>12. UnrefInv'
  BY <1>5, <1>9 DEF UnrefInv, TimersIInv
<1> QED BY <1>7, <1>8, <1>10, <1>11, <1>12 DEF TimersIInv

LEMMA ClearTimeoutKeeps == TimersIInv /\ ClearTimeout => TimersIInv'
BY UserTimerKeeps, MixedUpKeeps DEF ClearTimeout, Used, intervalVars

LEMMA HandleRefKeeps == TimersIInv /\ HandleRef => TimersIInv'
BY UserTimerKeeps DEF HandleRef, Used

(* What timer_find meets for the id in the map: the timer of the interval, or *)
(* nothing while its tick is on the stack or after it has been cleared.      *)
LEMMA FoundForInterval ==
  ASSUME TimersIInv, ~Wrapped, NEW i \in Intervals, NEW r \in Slots
  PROVE  Found(intervals[i], r) <=> Armed(r) /\ timer[r].fn = i
<1>1. ASSUME intervals[i] = Gone
      PROVE  ~Found(intervals[i], r) /\ ~(Armed(r) /\ timer[r].fn = i)
  BY <1>1, FoundIsUnique DEF TimersIInv, OneTimerInv
<1>2. ASSUME intervals[i] # Gone, i = tick
      PROVE  ~Found(intervals[i], r) /\ ~(Armed(r) /\ timer[r].fn = i)
  BY <1>2, IntervalsAreNumbers DEF TimersIInv, OneTimerInv, MapInv, Found, Armed
<1>3. ASSUME intervals[i] # Gone, i # tick
      PROVE  Found(intervals[i], r) <=> Armed(r) /\ timer[r].fn = i
  <2>0. CASE \A q \in Slots : Armed(q) => timer[q].fn # i /\ timer[q].id # intervals[i]
    BY <2>0 DEF Found, Armed
  <2> SUFFICES ASSUME ~\A q \in Slots : Armed(q) => timer[q].fn # i /\ timer[q].id # intervals[i]
               PROVE  Found(intervals[i], r) <=> Armed(r) /\ timer[r].fn = i
    BY <2>0
  <2>1. PICK s \in Slots : /\ Armed(s) /\ timer[s].fn = i /\ timer[s].id = intervals[i]
                           /\ \A q \in Slots : Armed(q) /\ timer[q].fn = i => q = s
    BY <1>3 DEF TimersIInv, OneTimerInv
  <2>2. Found(intervals[i], s)
    BY <2>1, FoundIsUnique
  <2>3. ASSUME Found(intervals[i], r) PROVE r = s
    <3>1. Used(r) /\ timer[r].id = timer[s].id /\ Used(s)
      BY <2>3, <2>1 DEF Found, Used, Armed
    <3> QED BY <3>1, FoundIsUnique
  <2> QED BY <2>1, <2>2, <2>3
<1> QED BY <1>1, <1>2, <1>3

LEMMA ClearIntervalKeeps ==
  ASSUME TimersIInv, NEW i \in Intervals, ClearInterval(i)
  PROVE  TimersIInv'
<1>1. /\ timer \in [Slots -> TimerRecord] /\ clk \in Nat /\ intervals \in [Intervals -> Nat]
      /\ \A r \in Slots : timer[r] \in TimerRecord
  BY DEF TimersIInv, TypeOK
<1>2. /\ timer' = TimersCleared(intervals[i])
      /\ intervals' = [intervals EXCEPT ![i] = Gone]
      /\ intervals'[i] = Gone /\ \A j \in Intervals : j # i => intervals'[j] = intervals[j]
      /\ UNCHANGED <<clk, now, next_timer_id, created, js, tick, intervalId, unrefd, idelay, mixed>>
  BY <1>1 DEF ClearInterval
<1>3. \A r \in Slots :
        timer'[r] = IF Found(intervals[i], r) THEN [timer[r] EXCEPT !.st = "closed"]
                                              ELSE timer[r]
  BY <1>2 DEF TimersCleared
<1>4. timer' \in [Slots -> TimerRecord]
  <2>1. \A r \in Slots : timer'[r] \in TimerRecord
    BY <1>1, <1>3, OneRecord DEF OneOf
  <2>2. timer' = [r \in Slots |-> timer'[r]]
    BY <1>2 DEF TimersCleared
  <2> QED BY <2>1, <2>2
<1>5. ASSUME NEW r \in Slots
      PROVE  /\ Armed(r)' <=> Armed(r) /\ ~Found(intervals[i], r)
             /\ Used(r)' => Used(r)
             /\ timer'[r].id = timer[r].id /\ timer'[r].serial = timer[r].serial
             /\ timer'[r].fn = timer[r].fn /\ timer'[r].at = timer[r].at
             /\ timer'[r].due = timer[r].due /\ timer'[r].delay = timer[r].delay
             /\ timer'[r].ref = timer[r].ref
  <2>1. CASE Found(intervals[i], r)
    <3>1. timer[r].st = "armed"
      BY <2>1 DEF Found
    <3>2. timer[r] \in TimerRecord /\ timer'[r] = [timer[r] EXCEPT !.st = "closed"]
      BY <2>1, <1>1, <1>3
    <3>3. timer'[r].st = "closed"
      BY <3>2 DEF TimerRecord
    <3>4. ~Armed(r)' /\ Used(r)
      BY <3>1, <3>3 DEF Armed, Used
    <3> QED BY <2>1, <3>2, <3>4 DEF TimerRecord
  <2>2. CASE ~Found(intervals[i], r)
    BY <2>2, <1>3 DEF Armed, Used
  <2> QED BY <2>1, <2>2
<1>6. Shrunk
  BY <1>5 DEF Shrunk
<1>7. ClockInv' /\ ListInv' /\ Apart' /\ IdsInv' /\ NotWrappedInv'
  BY <1>1, <1>2, <1>6, ShrunkKeepsList
<1>8. TypeOK'
  BY <1>1, <1>2, <1>4 DEF TypeOK, TimersIInv, Gone
<1>9. TickInv'
  BY <1>1, <1>2 DEF TickInv, TimersIInv
<1>10. ~Wrapped' => ~Wrapped
  BY <1>2 DEF Wrapped
<1>11. MapInv'
  <2>1. ASSUME ~Wrapped' PROVE \A j \in Intervals : intervals'[j] <= created'
    <3>1. \A j \in Intervals : intervals[j] <= created
      BY <2>1, <1>10 DEF MapInv, TimersIInv
    <3>2. Gone <= created
      BY DEF Gone, TimersIInv, TypeOK
    <3> QED BY <3>1, <3>2, <1>2
  <2>2. ASSUME ~Wrapped', tick' # User, intervals'[tick'] # Gone
        PROVE  \A r \in Slots : Armed(r)' => timer'[r].id # intervals'[tick']
    <3>1. tick \in Intervals /\ tick # i
      BY <2>2, <1>2 DEF TimersIInv, TypeOK
    <3> QED BY <3>1, <2>2, <1>2, <1>5, <1>10 DEF MapInv, TimersIInv
  <2> QED BY <2>1, <2>2 DEF MapInv
<1>12. OneTimerInv'
  <2> SUFFICES ASSUME ~Wrapped', NEW j \in Intervals
               PROVE  IF intervals'[j] = Gone \/ j = tick
                      THEN \A r \in Slots : ~(Armed(r)' /\ timer[r].fn = j)
                      ELSE \/ \E r \in Slots :
                                /\ Armed(r)' /\ timer[r].fn = j /\ timer[r].id = intervals'[j]
                                /\ \A q \in Slots : Armed(q)' /\ timer[q].fn = j => q = r
                           \/ /\ intervals'[j] \in mixed
                              /\ \A q \in Slots : Armed(q)' =>
                                   timer[q].fn # j /\ timer[q].id # intervals'[j]
    BY <1>2, <1>5 DEF OneTimerInv
  <2>1. CASE j = i
    BY <2>1, <1>2, <1>5, <1>10, FoundForInterval
  <2>2. CASE j # i
    <3>1. \A r \in Slots : timer[r].fn = j => (Armed(r)' <=> Armed(r))
      BY <2>2, <1>5, <1>10, FoundForInterval
    <3>2. \A r \in Slots : Armed(r)' => Armed(r)
      BY <1>5
    <3> QED BY <2>2, <3>1, <3>2, <1>2, <1>10 DEF OneTimerInv, TimersIInv
  <2> QED BY <2>1, <2>2
<1>13. UnrefInv'
  BY <1>2, <1>5, <1>10 DEF UnrefInv, TimersIInv
<1> QED BY <1>7, <1>8, <1>9, <1>11, <1>12, <1>13 DEF TimersIInv

LEMMA IntervalRefKeeps ==
  ASSUME TimersIInv, NEW i \in Intervals, NEW b \in BOOLEAN, IntervalRef(i, b)
  PROVE  TimersIInv'
<1>1. /\ timer \in [Slots -> TimerRecord] /\ clk \in Nat /\ unrefd \in [Intervals -> BOOLEAN]
      /\ \A r \in Slots : timer[r] \in TimerRecord
  BY DEF TimersIInv, TypeOK
<1>2. /\ timer' = TimersRef(intervals[i], b)
      /\ unrefd' = [unrefd EXCEPT ![i] = ~b]
      /\ unrefd'[i] = ~b /\ \A j \in Intervals : j # i => unrefd'[j] = unrefd[j]
      /\ UNCHANGED <<clk, now, next_timer_id, created, js, tick, intervals, intervalId, idelay, mixed>>
  BY <1>1 DEF IntervalRef
<1>3. \A r \in Slots :
        timer'[r] = IF Found(intervals[i], r) THEN [timer[r] EXCEPT !.ref = b] ELSE timer[r]
  BY <1>2 DEF TimersRef
<1>4. timer' \in [Slots -> TimerRecord]
  <2>1. \A r \in Slots : timer'[r] \in TimerRecord
    BY <1>1, <1>3, OneRecord DEF OneOf
  <2>2. timer' = [r \in Slots |-> timer'[r]]
    BY <1>2 DEF TimersRef
  <2> QED BY <2>1, <2>2
<1>5. ASSUME NEW r \in Slots
      PROVE  /\ timer'[r].st = timer[r].st
             /\ timer'[r].id = timer[r].id /\ timer'[r].serial = timer[r].serial
             /\ timer'[r].fn = timer[r].fn /\ timer'[r].at = timer[r].at
             /\ timer'[r].due = timer[r].due /\ timer'[r].delay = timer[r].delay
             /\ timer'[r].ref = IF Found(intervals[i], r) THEN b ELSE timer[r].ref
  <2>1. CASE Found(intervals[i], r)
    BY <2>1, <1>1, <1>3 DEF TimerRecord
  <2>2. CASE ~Found(intervals[i], r)
    BY <2>2, <1>3
  <2> QED BY <2>1, <2>2
<1>6. Shrunk /\ \A r \in Slots : Armed(r)' <=> Armed(r)
  BY <1>5 DEF Shrunk, Used, Armed
<1>7. ClockInv' /\ ListInv' /\ Apart' /\ IdsInv' /\ NotWrappedInv'
  BY <1>1, <1>2, <1>6, ShrunkKeepsList
<1>8. TypeOK'
  BY <1>1, <1>2, <1>4 DEF TypeOK, TimersIInv
<1>9. TickInv' /\ MapInv'
  BY <1>2, <1>5, <1>6 DEF TickInv, MapInv, TimersIInv, Wrapped
<1>10. OneTimerInv'
  BY <1>2, <1>5, <1>6 DEF OneTimerInv, TimersIInv, Wrapped
<1>11. UnrefInv'
  <2> SUFFICES ASSUME ~Wrapped', NEW r \in Slots, Armed(r), timer[r].fn \in Intervals \ {tick}
               PROVE  timer'[r].ref = ~unrefd'[timer[r].fn]
    BY <1>2, <1>5, <1>6 DEF UnrefInv
  <2>1. ~Wrapped
    BY <1>2 DEF Wrapped
  <2>2. CASE timer[r].fn = i
    BY <2>1, <2>2, <1>2, <1>5, FoundForInterval
  <2>3. CASE timer[r].fn # i
    BY <2>1, <2>3, <1>2, <1>5, FoundForInterval DEF UnrefInv, TimersIInv
  <2> QED BY <2>2, <2>3
<1> QED BY <1>7, <1>8, <1>9, <1>10, <1>11 DEF TimersIInv

LEMMA JsReturnKeeps == TimersIInv /\ JsReturn => TimersIInv'
<1> SUFFICES ASSUME TimersIInv, JsReturn PROVE TimersIInv'
  OBVIOUS
<1>1. /\ ~js' /\ tick' = User /\ (tick # User => intervals[tick] = Gone)
      /\ UNCHANGED <<clk, now, timer, next_timer_id, created, intervalVars>>
  BY DEF JsReturn, Rearm
<1>2. Shrunk /\ \A r \in Slots : Armed(r)' <=> Armed(r)
  BY <1>1 DEF Shrunk, Used, Armed
<1>3. ClockInv' /\ ListInv' /\ Apart' /\ IdsInv' /\ NotWrappedInv'
  BY <1>1, <1>2, ShrunkKeepsList DEF intervalVars, TimersIInv, TypeOK
<1>4. TypeOK'
  BY <1>1 DEF JsReturn, TypeOK, TimersIInv, intervalVars
<1>5. TickInv' /\ MapInv'
  <2>1. TickInv'
    BY <1>1 DEF TickInv, TimersIInv, intervalVars, User, TypeOK
  <2>2. MapInv'
    BY <1>1 DEF MapInv, TimersIInv, Wrapped, intervalVars
  <2> QED BY <2>1, <2>2
<1>6. OneTimerInv'
  <2> SUFFICES ASSUME ~Wrapped', NEW i \in Intervals
               PROVE  IF intervals[i] = Gone \/ i = User
                      THEN \A s \in Slots : ~(Armed(s) /\ timer[s].fn = i)
                      ELSE \/ \E s \in Slots :
                                /\ Armed(s) /\ timer[s].fn = i /\ timer[s].id = intervals[i]
                                /\ \A r \in Slots : Armed(r) /\ timer[r].fn = i => r = s
                           \/ /\ intervals[i] \in mixed
                              /\ \A r \in Slots : Armed(r) =>
                                   timer[r].fn # i /\ timer[r].id # intervals[i]
    BY <1>1, <1>2 DEF OneTimerInv, intervalVars
  <2>1. ~Wrapped /\ i # User /\ (i = tick => intervals[i] = Gone)
    BY <1>1, IntervalsAreNumbers DEF Wrapped
  <2> QED BY <2>1 DEF OneTimerInv, TimersIInv
<1>7. UnrefInv'
  <2> SUFFICES ASSUME ~Wrapped', NEW r \in Slots, Armed(r), timer[r].fn \in Intervals
               PROVE  timer[r].ref = ~unrefd[timer[r].fn]
    BY <1>1, <1>2 DEF UnrefInv, intervalVars
  <2>1. ~Wrapped
    BY <1>1 DEF Wrapped
  <2>2. timer[r].fn # tick
    BY <2>1, <1>1, IntervalsAreNumbers DEF OneTimerInv, TimersIInv
  <2> QED BY <2>1, <2>2 DEF UnrefInv, TimersIInv
<1> QED BY <1>3, <1>4, <1>5, <1>6, <1>7 DEF TimersIInv

(* A new timer and the timers of the intervals: its id is none the map names  *)
(* and none a timer in use has.                                              *)
LEMMA AddTimerKeepsOthers ==
  ASSUME TimersIInv, NEW s \in Slots, NEW fn, NEW delay, NEW unref,
         AddTimer(s, fn, delay, unref), ~Wrapped'
  PROVE  /\ ~Wrapped /\ created' = created + 1 /\ next_timer_id = created + 1
         /\ ~Armed(s) /\ Armed(s)'
         /\ timer'[s].fn = fn /\ timer'[s].id = next_timer_id /\ timer'[s].ref = ~unref
         /\ \A r \in Slots : r # s => timer'[r] = timer[r] /\ (Armed(r)' <=> Armed(r))
         /\ \A i \in Intervals : intervals[i] # next_timer_id /\ intervals[i] <= created
<1>1. created \in Nat /\ timer \in [Slots -> TimerRecord] /\ intervals \in [Intervals -> Nat]
  BY DEF TimersIInv, TypeOK
<1>2. ~Wrapped /\ created' = created + 1 /\ next_timer_id = created + 1
  BY <1>1, IntervalsAreNumbers DEF AddTimer, Wrapped, TimersIInv, NotWrappedInv
<1>3. /\ ~Armed(s) /\ Armed(s)'
      /\ timer'[s].fn = fn /\ timer'[s].id = next_timer_id /\ timer'[s].ref = ~unref
      /\ \A r \in Slots : r # s => timer'[r] = timer[r]
  BY <1>1 DEF AddTimer, Armed
<1>4. \A r \in Slots : r # s => (Armed(r)' <=> Armed(r))
  BY <1>3 DEF Armed
<1>5. \A i \in Intervals : intervals[i] # next_timer_id /\ intervals[i] <= created
  BY <1>1, <1>2 DEF TimersIInv, MapInv
<1> QED BY <1>2, <1>3, <1>4, <1>5

LEMMA SetTimeoutKeeps == TimersIInv /\ SetTimeout => TimersIInv'
<1> SUFFICES ASSUME TimersIInv, NEW s \in Slots, NEW d \in Delays,
                    AddTimer(s, User, d, FALSE), UNCHANGED <<clk, js, tick, intervalVars>>
             PROVE  TimersIInv'
  BY DEF SetTimeout
<1>1. /\ timer' \in [Slots -> TimerRecord]
      /\ next_timer_id' \in 1..MaxTimerId /\ created' \in Nat /\ now' \in Nat
      /\ ClockInv' /\ ListInv' /\ Apart' /\ IdsInv' /\ NotWrappedInv'
  <2>1. /\ d \in Nat /\ User \in Intervals \union {User} /\ FALSE \in BOOLEAN
        /\ intervalId' \in Nat /\ User < intervalId' /\ intervalId <= intervalId'
    BY TimersAssumption DEF TimersIInv, TypeOK, TickInv, intervalVars, User
  <2> QED BY <2>1, AddTimerKeepsList
<1>2. TypeOK'
  BY <1>1 DEF TypeOK, TimersIInv, intervalVars
<1>3. TickInv'
  BY DEF TickInv, TimersIInv, intervalVars
<1>4. ASSUME ~Wrapped', NEW r \in Slots
      PROVE  /\ timer[r].fn # User /\ Armed(r) => Armed(r)' /\ timer'[r] = timer[r]
             /\ Armed(r)' /\ timer'[r].fn # User => Armed(r) /\ timer'[r] = timer[r]
  BY <1>4, AddTimerKeepsOthers
<1>5. MapInv'
  <2>1. ASSUME ~Wrapped' PROVE \A i \in Intervals : intervals'[i] <= created'
    <3>1. created' = created + 1 /\ \A i \in Intervals : intervals[i] <= created
      BY <2>1, AddTimerKeepsOthers
    <3>2. created \in Nat /\ intervals \in [Intervals -> Nat] /\ intervals' = intervals
      BY DEF intervalVars, TimersIInv, TypeOK
    <3> QED BY <3>1, <3>2
  <2>2. ASSUME ~Wrapped', tick # User, intervals[tick] # Gone, NEW r \in Slots, Armed(r)'
        PROVE  timer'[r].id # intervals[tick]
    <3>1. tick \in Intervals
      BY <2>2 DEF TimersIInv, TypeOK
    <3>2. CASE r = s
      BY <3>1, <3>2, <2>2, AddTimerKeepsOthers
    <3>3. CASE r # s
      BY <3>3, <2>2, AddTimerKeepsOthers DEF TimersIInv, MapInv
    <3> QED BY <3>2, <3>3
  <2> QED BY <2>1, <2>2 DEF MapInv, intervalVars
<1>6. OneTimerInv'
  <2> SUFFICES ASSUME ~Wrapped', NEW i \in Intervals
               PROVE  IF intervals[i] = Gone \/ i = tick
                      THEN \A r \in Slots : ~(Armed(r)' /\ timer'[r].fn = i)
                      ELSE \/ \E r \in Slots :
                                /\ Armed(r)' /\ timer'[r].fn = i /\ timer'[r].id = intervals[i]
                                /\ \A q \in Slots : Armed(q)' /\ timer'[q].fn = i => q = r
                           \/ /\ intervals[i] \in mixed
                              /\ \A q \in Slots : Armed(q)' =>
                                   timer'[q].fn # i /\ timer'[q].id # intervals[i]
    BY DEF OneTimerInv, intervalVars
  <2>1. ~Wrapped /\ i # User
    BY AddTimerKeepsOthers, IntervalsAreNumbers
  <2>2. \A r \in Slots : /\ Armed(r)' /\ timer'[r].fn = i => Armed(r) /\ timer'[r] = timer[r]
                         /\ Armed(r) /\ timer[r].fn = i => Armed(r)' /\ timer'[r] = timer[r]
    BY <2>1, <1>4
  <2>3. \A r \in Slots : Armed(r)' =>
          \/ Armed(r) /\ timer'[r] = timer[r]
          \/ timer'[r].fn # i /\ timer'[r].id # intervals[i]
    BY <2>1, AddTimerKeepsOthers
  <2>4. CASE \A r \in Slots : Armed(r) => timer[r].fn # i /\ timer[r].id # intervals[i]
    <3>1. \A r \in Slots : Armed(r)' => timer'[r].fn # i /\ timer'[r].id # intervals[i]
      BY <2>3, <2>4
    <3> QED BY <2>1, <2>4, <3>1 DEF OneTimerInv, TimersIInv
  <2>5. CASE ~\A r \in Slots : Armed(r) => timer[r].fn # i /\ timer[r].id # intervals[i]
    BY <2>1, <2>2, <2>5 DEF OneTimerInv, TimersIInv
  <2> QED BY <2>4, <2>5
<1>7. UnrefInv'
  <2> SUFFICES ASSUME ~Wrapped', NEW r \in Slots, Armed(r)',
                      timer'[r].fn \in Intervals \ {tick}
               PROVE  timer'[r].ref = ~unrefd[timer'[r].fn]
    BY DEF UnrefInv, intervalVars
  <2>1. ~Wrapped /\ Armed(r) /\ timer'[r] = timer[r]
    BY <1>4, AddTimerKeepsOthers, IntervalsAreNumbers
  <2> QED BY <2>1 DEF UnrefInv, TimersIInv
<1> QED BY <1>1, <1>2, <1>3, <1>5, <1>6, <1>7 DEF TimersIInv

(* setInterval and the end of a tick: the interval gets a timer, the only one *)
(* it has, and the map names it.                                             *)
LEMMA IntervalTimerKeeps ==
  ASSUME TimersIInv, NEW s \in Slots, NEW i \in Intervals, NEW d \in Nat,
         i = tick \/ intervals[i] = Gone, i < intervalId',
         intervalId' \in Nat, intervalId <= intervalId', js,
         AddTimer(s, i, d, unrefd'[i]),
         intervals' = [intervals EXCEPT ![i] = next_timer_id],
         unrefd' \in [Intervals -> BOOLEAN],
         \A j \in Intervals : j # i => unrefd'[j] = unrefd[j],
         idelay' \in [Intervals -> Delays \union {0}],
         UNCHANGED <<clk, mixed>>,
         \/ i # tick /\ UNCHANGED <<js, tick>>
         \/ i = tick /\ ~js' /\ tick' = User /\ js' \in BOOLEAN
  PROVE  TimersIInv'
<1>1. /\ intervals \in [Intervals -> Nat] /\ next_timer_id \in 1..MaxTimerId /\ created \in Nat
      /\ tick \in Intervals \union {User}
  BY DEF TimersIInv, TypeOK
<1>2. /\ timer' \in [Slots -> TimerRecord]
      /\ next_timer_id' \in 1..MaxTimerId /\ created' \in Nat /\ now' \in Nat
      /\ ClockInv' /\ ListInv' /\ Apart' /\ IdsInv' /\ NotWrappedInv'
  <2>1. i \in Intervals \union {User} /\ unrefd'[i] \in BOOLEAN
    OBVIOUS
  <2> QED BY <2>1, AddTimerKeepsList
<1>3. /\ intervals'[i] = next_timer_id
      /\ \A j \in Intervals : j # i => intervals'[j] = intervals[j]
      /\ i # tick' /\ i # User
  BY <1>1, IntervalsAreNumbers
<1>4. TypeOK'
  <2>1. intervals' \in [Intervals -> Nat]
    BY <1>1
  <2> QED BY <2>1, <1>2 DEF TypeOK, TimersIInv
<1>5. TickInv'
  <2>1. \A j \in Intervals : j >= intervalId' => intervals'[j] = Gone
    BY <1>3, IntervalsAreNumbers DEF TickInv, TimersIInv, TypeOK
  <2>2. tick' < intervalId' /\ (~js' => tick' = User) /\ intervalId' >= 1
    <3>1. intervalId \in Nat /\ intervalId >= 1 /\ tick < intervalId /\ tick \in Nat
      BY <1>1, IntervalsAreNumbers DEF TickInv, TimersIInv, TypeOK
    <3>2. tick' = tick \/ tick' = 0
      BY DEF User
    <3>3. ~js' => tick' = User
      OBVIOUS
    <3>4. intervalId' >= 1
      BY <3>1
    <3>5. CASE tick' = tick
      BY <3>1, <3>3, <3>4, <3>5
    <3>6. CASE tick' = 0
      BY <3>1, <3>3, <3>4, <3>6
    <3> QED BY <3>2, <3>5, <3>6
  <2> QED BY <2>1, <2>2 DEF TickInv
<1>6. ASSUME ~Wrapped', NEW r \in Slots, NEW j \in Intervals, j # i
      PROVE  /\ Armed(r)' /\ timer'[r].fn = j => Armed(r) /\ timer'[r] = timer[r]
             /\ Armed(r) /\ timer[r].fn = j => Armed(r)' /\ timer'[r] = timer[r]
  BY <1>6, AddTimerKeepsOthers
<1>7. MapInv'
  <2>1. ASSUME ~Wrapped', NEW j \in Intervals PROVE intervals'[j] <= created'
    <3>1. created' = created + 1 /\ next_timer_id = created + 1 /\ intervals[j] <= created
      BY <2>1, AddTimerKeepsOthers
    <3>2. intervals'[j] = next_timer_id \/ intervals'[j] = intervals[j]
      BY <1>3
    <3> QED BY <3>1, <3>2, <1>1
  <2>2. ASSUME ~Wrapped', tick' # User, intervals'[tick'] # Gone, NEW r \in Slots, Armed(r)'
        PROVE  timer'[r].id # intervals'[tick']
    <3>1. tick' = tick /\ tick \in Intervals /\ i # tick
      BY <2>2, <1>1
    <3>2. intervals'[tick'] = intervals[tick]
      BY <3>1, <1>3
    <3>3. CASE r = s
      BY <3>1, <3>2, <3>3, <2>2, AddTimerKeepsOthers
    <3>4. CASE r # s
      BY <3>1, <3>2, <3>4, <2>2, AddTimerKeepsOthers DEF TimersIInv, MapInv
    <3> QED BY <3>3, <3>4
  <2> QED BY <2>1, <2>2 DEF MapInv
<1>8. ASSUME ~Wrapped' PROVE \A r \in Slots : ~(Armed(r) /\ timer[r].fn = i)
  BY <1>8, AddTimerKeepsOthers DEF TimersIInv, OneTimerInv
<1>9. OneTimerInv'
  <2> SUFFICES ASSUME ~Wrapped', NEW j \in Intervals
               PROVE  IF intervals'[j] = Gone \/ j = tick'
                      THEN \A r \in Slots : ~(Armed(r)' /\ timer'[r].fn = j)
                      ELSE \/ \E r \in Slots :
                                /\ Armed(r)' /\ timer'[r].fn = j /\ timer'[r].id = intervals'[j]
                                /\ \A q \in Slots : Armed(q)' /\ timer'[q].fn = j => q = r
                           \/ /\ intervals'[j] \in mixed
                              /\ \A q \in Slots : Armed(q)' =>
                                   timer'[q].fn # j /\ timer'[q].id # intervals'[j]
    BY DEF OneTimerInv
  <2>1. CASE j = i
    <3>1. intervals'[j] # Gone /\ j # tick'
      BY <2>1, <1>1, <1>3, IntervalsAreNumbers DEF Gone
    <3>2. Armed(s)' /\ timer'[s].fn = j /\ timer'[s].id = intervals'[j]
      BY <2>1, <1>3, AddTimerKeepsOthers
    <3>3. \A q \in Slots : Armed(q)' /\ timer'[q].fn = j => q = s
      BY <2>1, <1>8, AddTimerKeepsOthers
    <3> QED BY <3>1, <3>2, <3>3
  <2>2. CASE j # i
    <3>1. intervals'[j] = intervals[j] /\ (j = tick' <=> j = tick) /\ ~Wrapped
      <4>1. j # User
        BY IntervalsAreNumbers
      <4>2. j = tick' <=> j = tick
        BY <2>2, <4>1
      <4> QED BY <2>2, <4>2, <1>3, AddTimerKeepsOthers
    <3>2. \A r \in Slots : Armed(r)' =>
            \/ Armed(r) /\ timer'[r] = timer[r]
            \/ timer'[r].fn # j /\ timer'[r].id # intervals[j]
      BY <2>2, AddTimerKeepsOthers
    <3>3. CASE \A r \in Slots : Armed(r) => timer[r].fn # j /\ timer[r].id # intervals[j]
      <4>1. \A r \in Slots : Armed(r)' => timer'[r].fn # j /\ timer'[r].id # intervals[j]
        BY <3>2, <3>3
      <4> QED BY <3>1, <3>3, <4>1 DEF OneTimerInv, TimersIInv
    <3>4. CASE ~\A r \in Slots : Armed(r) => timer[r].fn # j /\ timer[r].id # intervals[j]
      BY <2>2, <3>1, <3>4, <1>6 DEF OneTimerInv, TimersIInv
    <3> QED BY <3>3, <3>4
  <2> QED BY <2>1, <2>2
<1>10. UnrefInv'
  <2> SUFFICES ASSUME ~Wrapped', NEW r \in Slots, Armed(r)',
                      timer'[r].fn \in Intervals \ {tick'}
               PROVE  timer'[r].ref = ~unrefd'[timer'[r].fn]
    BY DEF UnrefInv
  <2>1. CASE timer'[r].fn = i
    <3>1. r = s
      BY <2>1, <1>8, AddTimerKeepsOthers
    <3> QED BY <2>1, <3>1, AddTimerKeepsOthers
  <2>2. CASE timer'[r].fn # i
    <3>1. ~Wrapped /\ Armed(r) /\ timer'[r] = timer[r] /\ timer[r].fn # tick
      BY <2>2, <1>6, AddTimerKeepsOthers
    <3> QED BY <2>2, <3>1 DEF UnrefInv, TimersIInv
  <2> QED BY <2>1, <2>2
<1> QED BY <1>2, <1>4, <1>5, <1>7, <1>9, <1>10 DEF TimersIInv

LEMMA SetIntervalKeeps == TimersIInv /\ SetInterval => TimersIInv'
<1> SUFFICES ASSUME TimersIInv, SetInterval,
                    NEW s \in Slots, NEW d \in Delays, AddTimer(s, intervalId, d, FALSE),
                    intervals' = [intervals EXCEPT ![intervalId] = next_timer_id],
                    unrefd' = [unrefd EXCEPT ![intervalId] = FALSE],
                    idelay' = [idelay EXCEPT ![intervalId] = d]
             PROVE  TimersIInv'
  BY DEF SetInterval
<1>1. /\ intervalId \in Intervals /\ intervalId' = intervalId + 1 /\ js
      /\ UNCHANGED <<clk, js, tick, mixed>>
  BY DEF SetInterval
<1>2. /\ d \in Nat /\ intervalId \in Nat
      /\ unrefd \in [Intervals -> BOOLEAN] /\ idelay \in [Intervals -> Delays \union {0}]
  BY TimersAssumption DEF TimersIInv, TypeOK
<1>3. intervals[intervalId] = Gone /\ tick # intervalId
  BY <1>1, <1>2, IntervalsAreNumbers DEF TimersIInv, TickInv, TypeOK
<1>4. /\ unrefd' \in [Intervals -> BOOLEAN] /\ unrefd'[intervalId] = FALSE
      /\ \A j \in Intervals : j # intervalId => unrefd'[j] = unrefd[j]
      /\ idelay' \in [Intervals -> Delays \union {0}]
  BY <1>1, <1>2
<1>5. AddTimer(s, intervalId, d, unrefd'[intervalId])
  BY <1>4
<1>6. intervalId' \in Nat /\ intervalId < intervalId' /\ intervalId <= intervalId'
  BY <1>1, <1>2
<1> QED BY <1>1, <1>2, <1>3, <1>4, <1>5, <1>6, IntervalTimerKeeps

LEMMA TickEndsKeeps == TimersIInv /\ TickEnds => TimersIInv'
<1> SUFFICES ASSUME TimersIInv, TickEnds,
                    NEW s \in Slots, AddTimer(s, tick, idelay[tick], unrefd[tick])
             PROVE  TimersIInv'
  BY DEF TickEnds
<1>1. /\ js /\ tick # User /\ intervals' = [intervals EXCEPT ![tick] = next_timer_id]
      /\ ~js' /\ js' \in BOOLEAN /\ tick' = User
      /\ UNCHANGED <<clk, intervalId, unrefd, idelay, mixed>>
  BY DEF TickEnds, Rearm
<1>2. /\ tick \in Intervals /\ intervalId \in Nat /\ tick < intervalId
      /\ unrefd \in [Intervals -> BOOLEAN] /\ idelay \in [Intervals -> Delays \union {0}]
  BY <1>1 DEF TimersIInv, TypeOK, TickInv
<1>3. idelay[tick] \in Nat
  BY <1>2, IntervalsAreNumbers
<1>4. AddTimer(s, tick, idelay[tick], unrefd'[tick])
  BY <1>1
<1>5. tick < intervalId' /\ intervalId' \in Nat /\ intervalId <= intervalId'
  BY <1>1, <1>2
<1> QED BY <1>1, <1>2, <1>3, <1>4, <1>5, IntervalTimerKeeps

-----------------------------------------------------------------------------
LEMMA NextKeeps == TimersIInv /\ [Next]_vars => TimersIInv'
<1> SUFFICES ASSUME TimersIInv, [Next]_vars PROVE TimersIInv'
  OBVIOUS
<1>1. CASE Elapse \/ UpdateTime
  BY <1>1, ElapseKeeps
<1>2. CASE \E s \in Slots : TimerCb(s) \/ TimerCloseCb(s)
  BY <1>2, TimerCbKeeps, TimerCloseCbKeeps
<1>3. CASE SetTimeout \/ SetInterval \/ TickEnds
  BY <1>3, SetTimeoutKeeps, SetIntervalKeeps, TickEndsKeeps
<1>4. CASE ClearTimeout \/ HandleRef
  BY <1>4, ClearTimeoutKeeps, HandleRefKeeps
<1>5. CASE \E i \in Intervals : ClearInterval(i) \/ \E b \in BOOLEAN : IntervalRef(i, b)
  BY <1>5, ClearIntervalKeeps, IntervalRefKeeps
<1>6. CASE JsReturn
  BY <1>6, JsReturnKeeps
<1>7. CASE UNCHANGED vars
  BY <1>7
  DEF vars, intervalVars, TimersIInv, TypeOK, ClockInv, ListInv, Apart, IdsInv, NotWrappedInv, TickInv,
      MapInv, OneTimerInv, UnrefInv, Used, Armed, Wrapped
<1> QED BY <1>1, <1>2, <1>3, <1>4, <1>5, <1>6, <1>7 DEF Next

THEOREM TimersInductive == Spec => []TimersIInv
BY InitTimersIInv, NextKeeps, PTL DEF Spec

(* The inductive invariant says what the run checks.  *)
LEMMA TimersIInvImplies == TimersIInv => TimersInv
<1> SUFFICES ASSUME TimersIInv PROVE TimersInv
  OBVIOUS
<1>1. IntervalHasOneTimer
  <2> SUFFICES ASSUME ~Wrapped, NEW i \in Intervals
               PROVE  IF intervals[i] = Gone \/ i = tick
                      THEN ArmedTicks(i) = {}
                      ELSE \/ \E s \in Slots : ArmedTicks(i) = {s} /\ timer[s].id = intervals[i]
                           \/ ArmedTicks(i) = {} /\ intervals[i] \in mixed
    BY DEF IntervalHasOneTimer
  <2>1. CASE intervals[i] = Gone \/ i = tick
    BY <2>1 DEF TimersIInv, OneTimerInv, ArmedTicks, Armed
  <2>2. CASE ~(intervals[i] = Gone \/ i = tick)
    <3>1. CASE intervals[i] \in mixed /\ \A s \in Slots : Armed(s) => timer[s].fn # i
      BY <2>2, <3>1 DEF ArmedTicks, Armed
    <3>2. ASSUME NEW s \in Slots, Armed(s), timer[s].fn = i,
                 \A r \in Slots : Armed(r) /\ timer[r].fn = i => r = s
          PROVE  ArmedTicks(i) = {s}
      BY <3>2 DEF ArmedTicks, Armed
    <3> QED BY <2>2, <3>1, <3>2 DEF TimersIInv, OneTimerInv
  <2> QED BY <2>1, <2>2
<1>2. UnrefIsKept
  BY DEF UnrefIsKept, ArmedTicks, TimersIInv, UnrefInv, Armed
<1>3. IdsCollideOnlyAfterWrap
  <2> SUFFICES ASSUME NEW r \in Slots, NEW s \in Slots, r # s, Used(r), Used(s),
                      timer[r].id = timer[s].id
               PROVE  \/ timer[r].serial - timer[s].serial >= MaxTimerId
                      \/ timer[s].serial - timer[r].serial >= MaxTimerId
    BY DEF IdsCollideOnlyAfterWrap, Used
  <2>1. /\ timer[r].serial \in 1..created /\ timer[s].serial \in 1..created
        /\ timer[r].serial # timer[s].serial /\ created \in Nat
    BY DEF TimersIInv, ListInv, TypeOK
  <2> QED BY <2>1 DEF TimersIInv, Apart
<1> QED BY <1>1, <1>2, <1>3 DEF TimersInv, TimersIInv

(* Over every sequence of set, clear, ref, unref, ticks and time passing, for *)
(* any number of timers and any size of the id counter: a set interval has    *)
(* exactly one armed timer and _intervals names it, unless clearTimeout was   *)
(* given an interval's handle of that number; a cleared one has none, unref() *)
(* survives the re-arm, and two open timers share an id only when             *)
(* next_timer_id went all the way round between them.                        *)
THEOREM TimersSafe == Spec => []TimersInv
BY TimersInductive, TimersIInvImplies, PTL

(* js_vm_setTimeout counts from a fresh clock, so timer_cb never runs a       *)
(* callback before its delay has passed on the wall clock.                   *)
THEOREM NoTimerFiresEarly == Spec => NeverEarly
<1>1. ASSUME TimersIInv, [Next]_vars
      PROVE  [\A s \in Slots : timer[s].st = "armed" /\ timer'[s].st = "closed" /\ ~js
                => clk - timer[s].at >= timer[s].delay]_vars
  <2> SUFFICES ASSUME Next, NEW s \in Slots, timer[s].st = "armed",
                      timer'[s].st = "closed", ~js
               PROVE  clk - timer[s].at >= timer[s].delay
    BY <1>1
  <2>1. timer \in [Slots -> TimerRecord] /\ timer[s] \in TimerRecord
    BY <1>1 DEF TimersIInv, TypeOK
  <2>2. \/ timer' = timer
        \/ \E r \in Slots : TimerCb(r) \/ TimerCloseCb(r)
    BY DEF Next, Elapse, UpdateTime, SetTimeout, ClearTimeout, HandleRef, SetInterval,
           ClearInterval, IntervalRef, JsReturn, TickEnds
  <2>3. PICK r \in Slots : TimerCb(r) \/ TimerCloseCb(r)
    BY <2>2
  <2>4. r = s /\ TimerCb(s)
    BY <2>1, <2>3 DEF TimerCb, TimerCloseCb, FreeTimer
  <2>5. timer[s].due <= now /\ now <= clk /\ timer[s].due = timer[s].at + timer[s].delay
    BY <2>4, <1>1 DEF TimerCb, TimersIInv, ClockInv, Armed
  <2>6. timer[s].at \in Nat /\ timer[s].delay \in Nat /\ now \in Nat /\ clk \in Nat
    BY <2>1, <1>1 DEF TimerRecord, TimersIInv, TypeOK
  <2> QED BY <2>5, <2>6
<1> QED BY <1>1, TimersInductive, PTL DEF Spec, NeverEarly
=============================================================================
