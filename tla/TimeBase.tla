------------------------------ MODULE TimeBase ------------------------------
(***************************************************************************)
(* NbiotTime and Timer.  tick() runs in an interrupt, between any two      *)
(* memory accesses of the thread that asks for the time: getMillis() reads *)
(* timestamp and millis one after the other, in an order the language does *)
(* not fix, addMillis() writes them back one after the other, and only     *)
(* setTime() keeps the interrupt away (tickLock).                          *)
(* `ticks', `steady', `call.from', `timer.since' and `timer.sound' are     *)
(* history: they record what a perfect clock would know.                   *)
(***************************************************************************)
EXTENDS Integers

CONSTANTS
  KHZ,      \* ONE_KHZ: milliseconds per second (1000)
  Freqs,    \* tick frequencies; 0 asks for the default
  CLOCKS_PER_SEC,
  Adds,     \* arguments of addMillis()
  Settings, \* arguments of setTime()
  Periods,  \* arguments of Timer::start() and Timer::setTime()
  MaxTicks, \* bound: ticks in a behaviour
  MaxCalls  \* bound: calls in a behaviour

ASSUME TimeAssumption ==
  /\ KHZ \in Nat \ {0} /\ CLOCKS_PER_SEC \in Nat \ {0}
  /\ Freqs \subseteq Nat /\ Adds \subseteq Nat /\ Settings \subseteq Nat
  /\ Periods \subseteq Nat \ {0} /\ MaxTicks \in Nat /\ MaxCalls \in Nat

VARIABLES
  timestamp, millis,                            \* *data
  freq, ticksPerMs, msPerTick, ticksCurrentMilli, tickLock,
  timer,    \* a Timer: start_ms, end_ms; the period it runs for
  call,     \* the thread's call into NbiotTime or Timer, and its locals
  ticks, calls, steady

clockVars == <<timestamp, millis, ticksCurrentMilli, ticks, steady>>
rateVars == <<freq, ticksPerMs, msPerTick>>
vars == <<clockVars, rateVars, tickLock, timer, call, calls>>

Clock == timestamp * KHZ + millis
NotRead == -1
Idle == [op |-> "idle", arg |-> 0, at |-> "", t |-> NotRead, m |-> NotRead, from |-> 0, val |-> 0]
NoTimer == [start |-> 0, end |-> 0, period |-> 0, since |-> 0, sound |-> FALSE]

setTickFrequency(f) ==
  LET n == IF f = 0 THEN CLOCKS_PER_SEC ELSE f
  IN  /\ freq = n
      /\ ticksPerMs = IF KHZ <= n THEN n \div KHZ ELSE 0
      /\ msPerTick = IF KHZ <= n THEN 0 ELSE KHZ \div n

Init ==
  /\ timestamp = 0 /\ millis = 0
  /\ \E f \in Freqs : setTickFrequency(f)
  /\ ticksCurrentMilli = 0 /\ tickLock = FALSE
  /\ timer = NoTimer /\ call = Idle
  /\ ticks = 0 /\ calls = 0 /\ steady = TRUE

----------------------------------------------------------------------------
(* The interrupt                                                           *)

\* What one tick adds to millis.
Advance ==
  IF 0 < msPerTick THEN msPerTick
  ELSE IF ticksPerMs <= 1 \/ ticksCurrentMilli + 1 >= ticksPerMs THEN 1 ELSE 0

Ticked ==
  /\ ticksCurrentMilli' = IF 0 < msPerTick \/ ticksPerMs <= 1 THEN ticksCurrentMilli
                          ELSE IF ticksCurrentMilli + 1 >= ticksPerMs THEN 0
                          ELSE ticksCurrentMilli + 1
  /\ timestamp' = IF KHZ <= millis + Advance THEN timestamp + 1 ELSE timestamp
  /\ millis' = IF KHZ <= millis + Advance THEN millis + Advance - KHZ ELSE millis + Advance

\* Mutant: a tick comes through while the time is being set.
tickUnlocked ==
  /\ ticks < MaxTicks /\ Ticked /\ ticks' = ticks + 1
  /\ UNCHANGED <<rateVars, tickLock, timer, call, calls, steady>>

\* Mutant: the carry into the seconds comes one millisecond late.
tickLateCarry ==
  /\ ticks < MaxTicks /\ ~tickLock
  /\ millis' = IF KHZ < millis + Advance THEN millis + Advance - KHZ ELSE millis + Advance
  /\ timestamp' = IF KHZ < millis + Advance THEN timestamp + 1 ELSE timestamp
  /\ ticksCurrentMilli' = IF ticksCurrentMilli + 1 >= ticksPerMs THEN 0 ELSE ticksCurrentMilli + 1
  /\ ticks' = ticks + 1
  /\ UNCHANGED <<rateVars, tickLock, timer, call, calls, steady>>

\* Mutant: the count of ticks is not started again with the next millisecond.
tickKeepsCount ==
  /\ ticks < MaxTicks /\ ~tickLock /\ ticks' = ticks + 1
  /\ timestamp' = IF KHZ <= millis + Advance THEN timestamp + 1 ELSE timestamp
  /\ millis' = IF KHZ <= millis + Advance THEN millis + Advance - KHZ ELSE millis + Advance
  /\ ticksCurrentMilli' = ticksCurrentMilli + 1
  /\ UNCHANGED <<rateVars, tickLock, timer, call, calls, steady>>

tick ==
  /\ ticks < MaxTicks /\ ticks' = ticks + 1
  /\ IF tickLock THEN UNCHANGED <<timestamp, millis, ticksCurrentMilli>> ELSE Ticked
  /\ steady' = (steady /\ ~tickLock)
  /\ UNCHANGED <<rateVars, tickLock, timer, call, calls>>

----------------------------------------------------------------------------
(* The thread.  at: "read" (the two reads of getMillis()), then "use" (what *)
(* the caller does with the value), "write" (addMillis()), "done".          *)

Begin(op, arg, at) ==
  /\ call.op = "idle" /\ calls < MaxCalls /\ calls' = calls + 1
  /\ call' = [Idle EXCEPT !.op = op, !.arg = arg, !.at = at, !.from = Clock]

getMillis == Begin("getMillis", 0, "read") /\ UNCHANGED <<clockVars, rateVars, tickLock, timer>>
remaining ==
  Begin("remaining", 0, "read") /\ UNCHANGED <<clockVars, rateVars, tickLock, timer>>
start(p) ==
  Begin("start", p, "read") /\ UNCHANGED <<clockVars, rateVars, tickLock, timer>>
startTimer ==
  Begin("startTimer", timer.period, "read") /\ UNCHANGED <<clockVars, rateVars, tickLock, timer>>
addMillis(ms) ==
  /\ Begin("addMillis", ms, "read")
  /\ steady' = FALSE /\ timer' = [timer EXCEPT !.sound = FALSE]
  /\ UNCHANGED <<timestamp, millis, ticksCurrentMilli, ticks, rateVars, tickLock>>

Read(c) == [c EXCEPT !.at = IF c.t # NotRead /\ c.m # NotRead THEN "use" ELSE "read"]

readTimestamp ==
  /\ call.at = "read" /\ call.t = NotRead
  /\ call' = Read([call EXCEPT !.t = timestamp])
  /\ UNCHANGED <<clockVars, rateVars, tickLock, timer, calls>>

readMillis ==
  /\ call.at = "read" /\ call.m = NotRead
  /\ call' = Read([call EXCEPT !.m = millis])
  /\ UNCHANGED <<clockVars, rateVars, tickLock, timer, calls>>

\* Mutant: the product without the cast to long long, here 2 * KHZ wide.
ValueNarrow == (call.t * KHZ + call.m) % (2 * KHZ)

Value == call.t * KHZ + call.m
Using(op) == call.op = op /\ call.at = "use"

useMillis ==
  /\ Using("getMillis")
  /\ call' = [call EXCEPT !.at = "done", !.val = Value]
  /\ UNCHANGED <<clockVars, rateVars, tickLock, timer, calls>>

useRemaining ==
  /\ Using("remaining")
  /\ call' = [call EXCEPT !.at = "done",
                          !.val = IF timer.end = 0 \/ Value >= timer.end THEN 0
                                  ELSE timer.end - Value]
  /\ UNCHANGED <<clockVars, rateVars, tickLock, timer, calls>>

\* Timer::start(end)
useStart ==
  /\ Using("start")
  /\ timer' = [start |-> Value, end |-> Value + call.arg, period |-> call.arg,
               since |-> call.from, sound |-> steady]
  /\ call' = [call EXCEPT !.at = "done"]
  /\ UNCHANGED <<clockVars, rateVars, tickLock, calls>>

\* Mutant: start() forgets the period.
useStartTimerAgain ==
  /\ Using("startTimer")
  /\ timer' = [timer EXCEPT !.start = Value, !.end = Value, !.since = call.from,
                            !.sound = (timer.end = timer.period /\ timer.period > 0 /\ steady)]
  /\ call' = [call EXCEPT !.at = "done"]
  /\ UNCHANGED <<clockVars, rateVars, tickLock, calls>>

\* Timer::start(): end_ms is the period if setTime() came before, else the old end.
useStartTimer ==
  /\ Using("startTimer")
  /\ timer' = [timer EXCEPT !.start = Value, !.end = @ + Value, !.since = call.from,
                            !.sound = (timer.end = timer.period /\ timer.period > 0 /\ steady)]
  /\ call' = [call EXCEPT !.at = "done"]
  /\ UNCHANGED <<clockVars, rateVars, tickLock, calls>>

\* Timer::setTime(end); start_ms is left alone.
setTimerTime(p) ==
  /\ call.op = "idle" /\ calls < MaxCalls /\ calls' = calls + 1
  /\ timer' = [timer EXCEPT !.end = p, !.period = p, !.sound = FALSE]
  /\ UNCHANGED <<clockVars, rateVars, tickLock, call>>

clear ==
  /\ call.op = "idle" /\ calls < MaxCalls /\ calls' = calls + 1
  /\ timer' = NoTimer
  /\ UNCHANGED <<clockVars, rateVars, tickLock, call>>

\* addMillis() writes the sum back; what ticked meanwhile is lost.
useAdd ==
  /\ Using("addMillis")
  /\ call' = [call EXCEPT !.at = "write", !.t = (Value + call.arg) \div KHZ,
                          !.m = (Value + call.arg) % KHZ]
  /\ UNCHANGED <<clockVars, rateVars, tickLock, timer, calls>>

Wrote(c) == [c EXCEPT !.at = IF c.t = NotRead /\ c.m = NotRead THEN "done" ELSE "write"]

writeTimestamp ==
  /\ call.op = "addMillis" /\ call.at = "write" /\ call.t # NotRead
  /\ timestamp' = call.t /\ call' = Wrote([call EXCEPT !.t = NotRead])
  /\ UNCHANGED <<millis, ticksCurrentMilli, ticks, steady, rateVars, tickLock, timer, calls>>

writeMillis ==
  /\ call.op = "addMillis" /\ call.at = "write" /\ call.m # NotRead
  /\ millis' = call.m /\ call' = Wrote([call EXCEPT !.m = NotRead])
  /\ UNCHANGED <<timestamp, ticksCurrentMilli, ticks, steady, rateVars, tickLock, timer, calls>>

\* setTime(): lock, two writes, unlock.
setTime(t) ==
  /\ Begin("setTime", t, "stamp")
  /\ tickLock' = TRUE /\ steady' = FALSE /\ timer' = [timer EXCEPT !.sound = FALSE]
  /\ UNCHANGED <<timestamp, millis, ticksCurrentMilli, ticks, rateVars>>

setStamp ==
  /\ call.at = "stamp"
  /\ timestamp' = call.arg /\ call' = [call EXCEPT !.at = "zero"]
  /\ UNCHANGED <<millis, ticksCurrentMilli, ticks, steady, rateVars, tickLock, timer, calls>>

setZero ==
  /\ call.at = "zero"
  /\ millis' = 0 /\ call' = [call EXCEPT !.at = "unlock"]
  /\ UNCHANGED <<timestamp, ticksCurrentMilli, ticks, steady, rateVars, tickLock, timer, calls>>

setUnlock ==
  /\ call.at = "unlock"
  /\ tickLock' = FALSE /\ call' = [call EXCEPT !.at = "done"]
  /\ UNCHANGED <<clockVars, rateVars, timer, calls>>

Return ==
  /\ call.at = "done"
  /\ call' = Idle
  /\ UNCHANGED <<clockVars, rateVars, tickLock, timer, calls>>

Next ==
  \/ tick
  \/ getMillis \/ remaining \/ startTimer \/ clear
  \/ \E p \in Periods : start(p) \/ setTimerTime(p)
  \/ \E ms \in Adds : addMillis(ms)
  \/ \E t \in Settings : setTime(t)
  \/ readTimestamp \/ readMillis
  \/ useMillis \/ useRemaining \/ useStart \/ useStartTimer \/ useAdd
  \/ writeTimestamp \/ writeMillis
  \/ setStamp \/ setZero \/ setUnlock \/ Return

Spec == Init /\ [][Next]_vars

----------------------------------------------------------------------------
(* Properties                                                              *)

\* millis is always less than a second, also between the writes of
\* addMillis() and at every tick frequency.
TimeTypeOK ==
  /\ timestamp \in Nat /\ millis \in 0 .. KHZ - 1
  /\ ticksCurrentMilli \in Nat /\ tickLock \in BOOLEAN
  /\ ticksPerMs \in Nat /\ msPerTick \in 0 .. KHZ

(***************************************************************************)
(* getMillis() may be torn by the interrupt, but by less than a second: it *)
(* returns more than the clock had at the call less one second, and less   *)
(* than the clock has at the return plus one second.                       *)
(***************************************************************************)
ReadWithinASecond ==
  (call.op = "getMillis" /\ call.at = "done") =>
    call.from - KHZ < call.val /\ call.val < Clock + KHZ

\* setTime() sets the seconds and clears the milliseconds as one: no tick
\* gets between.
SetTimeNotTorn == call.at = "unlock" => Clock = call.arg * KHZ

\* At a tick frequency that divides ONE_KHZ or is a multiple of it, the clock
\* shows the time of the ticks, to the millisecond.
ClockKeepsPace ==
  (steady /\ (freq % KHZ = 0 \/ KHZ % freq = 0)) => Clock = (ticks * KHZ) \div freq

(***************************************************************************)
(* remaining() is 0 only when the period of the Timer has passed, less the *)
(* second a torn read may cost at the start and the second it may cost     *)
(* here; and it never asks for more than the period and those two seconds.     *)
(***************************************************************************)
TimerNotEarly ==
  (call.op = "remaining" /\ call.at = "done" /\ timer.sound) =>
    /\ call.val = 0 => Clock - timer.since > timer.period - 2 * KHZ
    /\ call.val < timer.period + 2 * KHZ
=============================================================================
