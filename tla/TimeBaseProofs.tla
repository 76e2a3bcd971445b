--------------------------- MODULE TimeBaseProofs ---------------------------
(***************************************************************************)
(* Proofs about the time base and its timers, for every length of the      *)
(* second, every tick frequency, any number of ticks and calls, and every  *)
(* way the interrupt gets between the accesses of the thread.              *)
(***************************************************************************)
EXTENDS TimeBase, TLAPS

Ops == {"idle", "getMillis", "remaining", "start", "startTimer", "addMillis", "setTime"}
Phases == {"", "read", "use", "write", "stamp", "zero", "unlock", "done"}
CallType ==
  [op : Ops, arg : Nat, at : Phases, t : Nat \cup {NotRead},
   m : (0 .. KHZ - 1) \cup {NotRead}, from : Nat, val : Int]
TimerType == [start : Nat, end : Nat, period : Nat, since : Nat, sound : BOOLEAN]

\* The types, history included.
TypeInv ==
  /\ TimeTypeOK
  /\ call \in CallType /\ timer \in TimerType
  /\ steady \in BOOLEAN /\ ticks \in Nat

\* Which phases a call goes through.
Readers == {"getMillis", "remaining", "start", "startTimer", "addMillis"}
PhaseInv ==
  /\ call.at \in {"read", "use"} => call.op \in Readers
  /\ call.at = "use" => call.t # NotRead /\ call.m # NotRead
  /\ call.at \in {"stamp", "zero", "unlock"} => call.op = "setTime"
  /\ call.at = "write" => call.op = "addMillis"
  /\ call.op = "idle" => call.at = ""

\* tickLock is held from the first write of setTime() to the last.
LockInv ==
  /\ tickLock <=> call.at \in {"stamp", "zero", "unlock"}
  /\ call.at \in {"zero", "unlock"} => timestamp = call.arg
  /\ call.at = "unlock" => millis = 0

\* Only tick() moves the clock while steady holds, and then only forward.
SteadyInv ==
  /\ timer.sound => steady
  /\ call.op \in {"addMillis", "setTime"} => ~steady

\* The seconds a reader has seen: not ahead of the clock, and less than a
\* second behind the time of the call.
ReadInv ==
  /\ call.op \in Readers /\ call.at \in {"read", "use"} => call.from <= Clock
  /\ call.at \in {"read", "use"} /\ call.t # NotRead =>
       /\ call.t * KHZ <= timestamp * KHZ
       /\ call.from < call.t * KHZ + KHZ
  /\ ReadWithinASecond

\* What a sound timer knows, and what a call of remaining() sees of it.
TimerInv ==
  /\ call.op = "start" => call.arg > 0
  /\ timer.sound =>
       /\ timer.period > 0 /\ timer.end >= timer.period
       /\ timer.since < timer.end - timer.period + KHZ
       /\ timer.end - timer.period < Clock + KHZ
  /\ (timer.sound /\ call.op = "remaining" /\ call.at \in {"read", "use"}) =>
       timer.end - timer.period < call.from + KHZ
  /\ TimerNotEarly

\* The rates setTickFrequency() computes, and what the ticks have made of them.
RateInv ==
  /\ freq \in Nat \ {0}
  /\ KHZ <= freq => ticksPerMs = freq \div KHZ /\ msPerTick = 0
  /\ freq < KHZ => ticksPerMs = 0 /\ msPerTick = KHZ \div freq

PaceInv ==
  steady =>
    /\ msPerTick > 0 => Clock = ticks * msPerTick
    /\ msPerTick = 0 /\ ticksPerMs = 1 => Clock = ticks
    /\ msPerTick = 0 /\ ticksPerMs > 1 =>
         /\ Clock * ticksPerMs + ticksCurrentMilli = ticks
         /\ ticksCurrentMilli < ticksPerMs

TimeInv == TypeInv /\ PhaseInv /\ LockInv /\ SteadyInv /\ ReadInv /\ TimerInv /\ RateInv /\ PaceInv

----------------------------------------------------------------------------
(* The clock                                                               *)

\* Seconds as milliseconds.
LEMMA Seconds ==
  \A a \in Nat : a * KHZ \in Nat /\ (a + 1) * KHZ = a * KHZ + KHZ
  BY TimeAssumption

\* What tick() does to the clock outside setTime(): forward by Advance, with
\* the carry into the seconds.
LEMMA TickMoves ==
  ASSUME TypeInv, Ticked
  PROVE  /\ Advance \in 0 .. KHZ
         /\ timestamp' \in Nat /\ millis' \in 0 .. KHZ - 1
         /\ ticksCurrentMilli' \in Nat
         /\ timestamp * KHZ <= timestamp' * KHZ
         /\ Clock \in Nat /\ Clock' = Clock + Advance
<1>1. /\ KHZ \in Nat /\ KHZ > 0 /\ timestamp \in Nat /\ millis \in Nat /\ millis < KHZ
      /\ msPerTick \in Nat /\ msPerTick <= KHZ /\ ticksPerMs \in Nat /\ ticksCurrentMilli \in Nat
  BY TimeAssumption DEF TypeInv, TimeTypeOK
<1>2. Advance \in Nat /\ Advance <= KHZ
  BY <1>1 DEF Advance
<1>3. /\ timestamp * KHZ \in Nat /\ (timestamp + 1) * KHZ = timestamp * KHZ + KHZ
  BY <1>1, Seconds
<1>4. ticksCurrentMilli' \in Nat
  BY <1>1 DEF Ticked
<1>5. /\ timestamp' = IF KHZ <= millis + Advance THEN timestamp + 1 ELSE timestamp
      /\ millis' = IF KHZ <= millis + Advance THEN millis + Advance - KHZ ELSE millis + Advance
  BY DEF Ticked
<1> HIDE DEF Advance
<1>6. CASE KHZ <= millis + Advance
  BY <1>1, <1>2, <1>3, <1>4, <1>5, <1>6 DEF Clock
<1>7. CASE ~(KHZ <= millis + Advance)
  BY <1>1, <1>2, <1>3, <1>4, <1>5, <1>7 DEF Clock
<1> QED
  BY <1>6, <1>7

\* The value getMillis() puts together.
LEMMA ValueType ==
  ASSUME TypeInv, PhaseInv, call.at = "use"
  PROVE  /\ call.t \in Nat /\ call.m \in 0 .. KHZ - 1 /\ call.t * KHZ \in Nat
         /\ Value \in Nat /\ Value = call.t * KHZ + call.m
<1>1. call.t \in Nat /\ call.m \in 0 .. KHZ - 1
  BY DEF TypeInv, PhaseInv, CallType
<1>2. call.t * KHZ \in Nat
  BY <1>1, Seconds
<1> QED
  BY <1>1, <1>2, TimeAssumption DEF Value

LEMMA TypeStep == TypeInv /\ PhaseInv /\ [Next]_vars => TypeInv'
<1> SUFFICES ASSUME TypeInv, PhaseInv, [Next]_vars PROVE TypeInv'
  OBVIOUS
<1> USE DEF vars, clockVars, rateVars
<1>a. /\ TimeTypeOK /\ steady \in BOOLEAN /\ ticks \in Nat
      /\ call \in CallType /\ timer \in TimerType
      /\ KHZ \in Nat /\ KHZ > 0 /\ Idle \in CallType /\ NoTimer \in TimerType
  <2>1. Idle \in CallType
    BY TimeAssumption DEF Idle, CallType, Ops, Phases, NotRead
  <2>2. NoTimer \in TimerType
    BY DEF NoTimer, TimerType
  <2> QED
    BY <2>1, <2>2, TimeAssumption DEF TypeInv
<1>b. Clock \in Nat
  BY <1>a, Seconds DEF TimeTypeOK, Clock
<1>c. ASSUME NEW op \in Ops, NEW arg \in Nat, NEW at \in Phases, Begin(op, arg, at)
      PROVE  call' \in CallType
  BY <1>a, <1>b, <1>c DEF Begin, CallType
<1>1. CASE tick
  <2>1. CASE tickLock
    BY <1>a, <1>1, <2>1 DEF tick, TypeInv, TimeTypeOK
  <2>2. CASE ~tickLock
    <3>1. timestamp' \in Nat /\ millis' \in 0 .. KHZ - 1 /\ ticksCurrentMilli' \in Nat
      BY <1>1, <2>2, TickMoves DEF tick
    <3> QED
      BY <1>a, <1>1, <3>1 DEF tick, TypeInv, TimeTypeOK
  <2> QED
    BY <2>1, <2>2
<1>2. CASE getMillis \/ remaining \/ startTimer
  <2>1. call' \in CallType
    BY <1>a, <1>2, <1>c DEF getMillis, remaining, startTimer, Ops, Phases, TimerType
  <2> QED
    BY <1>a, <1>2, <2>1 DEF getMillis, remaining, startTimer, TypeInv, TimeTypeOK
<1>3. CASE clear
  BY <1>a, <1>3 DEF clear, TypeInv, TimeTypeOK
<1>4. ASSUME NEW p \in Periods, start(p) \/ setTimerTime(p) PROVE TypeInv'
  <2>1. p \in Nat
    BY TimeAssumption
  <2>2. CASE start(p)
    <3>1. call' \in CallType
      BY <1>c, <2>1, <2>2 DEF start, Ops, Phases
    <3> QED
      BY <1>a, <2>2, <3>1 DEF start, TypeInv, TimeTypeOK
  <2>3. CASE setTimerTime(p)
    BY <1>a, <2>1, <2>3 DEF setTimerTime, TypeInv, TimeTypeOK, TimerType
  <2> QED
    BY <1>4, <2>2, <2>3
<1>5. ASSUME NEW ms \in Adds, addMillis(ms) PROVE TypeInv'
  <2>1. call' \in CallType
    BY <1>c, <1>5, TimeAssumption DEF addMillis, Ops, Phases
  <2> QED
    BY <1>a, <1>5, <2>1 DEF addMillis, TypeInv, TimeTypeOK, TimerType
<1>6. ASSUME NEW t \in Settings, setTime(t) PROVE TypeInv'
  <2>1. call' \in CallType
    BY <1>c, <1>6, TimeAssumption DEF setTime, Ops, Phases
  <2> QED
    BY <1>a, <1>6, <2>1 DEF setTime, TypeInv, TimeTypeOK, TimerType
<1>7. CASE readTimestamp \/ readMillis
  <2>1. call' \in CallType
    BY <1>a, <1>7 DEF readTimestamp, readMillis, Read, CallType, Phases, TimeTypeOK
  <2> QED
    BY <1>a, <1>7, <2>1 DEF readTimestamp, readMillis, TypeInv, TimeTypeOK
<1>8. CASE useMillis \/ useRemaining
  <2>1. Value \in Nat
    BY <1>8, ValueType DEF useMillis, useRemaining, Using
  <2>2. timer.end \in Nat
    BY <1>a DEF TimerType
  <2>3. call' \in CallType
    <3> DEFINE left == IF timer.end = 0 \/ Value >= timer.end THEN 0 ELSE timer.end - Value
    <3>1. left \in Int /\ Value \in Int
      BY <2>1, <2>2
    <3>2. ASSUME NEW v \in Int, call' = [call EXCEPT !.at = "done", !.val = v]
          PROVE  call' \in CallType
      BY <1>a, <3>2 DEF CallType, Phases
    <3>3. CASE useMillis
      BY <3>1, <3>2, <3>3 DEF useMillis
    <3>4. CASE useRemaining
      BY <3>1, <3>2, <3>4 DEF useRemaining
    <3> QED
      BY <1>8, <3>3, <3>4
  <2> QED
    BY <1>a, <1>8, <2>3 DEF useMillis, useRemaining, TypeInv, TimeTypeOK
<1>9. CASE useStart \/ useStartTimer
  <2>1. Value \in Nat
    BY <1>9, ValueType DEF useStart, useStartTimer, Using
  <2>2. call' \in CallType
    BY <1>a, <1>9 DEF useStart, useStartTimer, CallType, Phases
  <2>3. CASE useStart
    <3>1. timer' \in TimerType
      BY <1>a, <2>1, <2>3 DEF useStart, CallType, TimerType
    <3> QED
      BY <1>a, <2>2, <2>3, <3>1 DEF useStart, TypeInv, TimeTypeOK
  <2>4. CASE useStartTimer
    <3>1. timer' \in TimerType
      <4> DEFINE snd == (timer.end = timer.period /\ timer.period > 0 /\ steady)
      <4>1. snd \in BOOLEAN
        OBVIOUS
      <4>2. timer' = [timer EXCEPT !.start = Value, !.end = timer.end + Value,
                                   !.since = call.from, !.sound = snd]
        BY <2>4 DEF useStartTimer
      <4>3. timer.end + Value \in Nat /\ call.from \in Nat
        BY <1>a, <2>1 DEF CallType, TimerType
      <4>4. ASSUME NEW e \in Nat, NEW s \in BOOLEAN, NEW f \in Nat, NEW v \in Nat
            PROVE  [timer EXCEPT !.start = v, !.end = e, !.since = f, !.sound = s] \in TimerType
        BY <1>a DEF TimerType
      <4> HIDE DEF snd
      <4> QED
        BY <2>1, <4>1, <4>2, <4>3, <4>4
    <3> QED
      BY <1>a, <2>2, <2>4, <3>1 DEF useStartTimer, TypeInv, TimeTypeOK
  <2> QED
    BY <1>9, <2>3, <2>4
<1>10. CASE useAdd
  <2>1. Value + call.arg \in Nat
    BY <1>a, <1>10, ValueType DEF useAdd, Using, CallType
  <2>2. (Value + call.arg) \div KHZ \in Nat /\ (Value + call.arg) % KHZ \in 0 .. KHZ - 1
    BY <1>a, <2>1
  <2>3. call' \in CallType
    BY <1>a, <1>10, <2>2 DEF useAdd, CallType, Phases
  <2> QED
    BY <1>a, <1>10, <2>3 DEF useAdd, TypeInv, TimeTypeOK
<1>11. CASE writeTimestamp \/ writeMillis
  <2>1. call' \in CallType
    BY <1>a, <1>11 DEF writeTimestamp, writeMillis, Wrote, CallType, Phases
  <2> QED
    BY <1>a, <1>11, <2>1 DEF writeTimestamp, writeMillis, TypeInv, TimeTypeOK, CallType
<1>12. CASE setStamp \/ setZero \/ setUnlock
  <2>1. call' \in CallType
    BY <1>a, <1>12 DEF setStamp, setZero, setUnlock, CallType, Phases
  <2> QED
    <3>1. CASE setStamp
      BY <1>a, <2>1, <3>1 DEF setStamp, TypeInv, TimeTypeOK, CallType
    <3>2. CASE setZero
      BY <1>a, <2>1, <3>2 DEF setZero, TypeInv, TimeTypeOK
    <3>3. CASE setUnlock
      BY <1>a, <2>1, <3>3 DEF setUnlock, TypeInv, TimeTypeOK
    <3> QED
      BY <1>12, <3>1, <3>2, <3>3
<1>13. CASE Return
  BY <1>a, <1>13 DEF Return, TypeInv, TimeTypeOK
<1>14. CASE UNCHANGED vars
  BY <1>a, <1>14 DEF TypeInv, TimeTypeOK
<1> QED
  BY <1>1, <1>2, <1>3, <1>4, <1>5, <1>6, <1>7, <1>8, <1>9, <1>10, <1>11, <1>12, <1>13, <1>14
  DEF Next

\* A call goes through its phases in order.
LEMMA PhaseStep == TypeInv /\ PhaseInv /\ [Next]_vars => PhaseInv'
<1> SUFFICES ASSUME TypeInv, PhaseInv, [Next]_vars PROVE PhaseInv'
  OBVIOUS
<1> USE DEF PhaseInv, Readers
<1>a. call \in CallType
  BY DEF TypeInv
<1>b. ASSUME NEW op \in Readers, NEW arg, Begin(op, arg, "read") PROVE PhaseInv'
  BY <1>b DEF Begin, Idle
<1>1. CASE tick
  BY <1>1 DEF tick
<1>2. CASE getMillis \/ remaining \/ startTimer
  BY <1>2, <1>b DEF getMillis, remaining, startTimer
<1>3. CASE clear
  BY <1>3 DEF clear
<1>4. ASSUME NEW p \in Periods, start(p) \/ setTimerTime(p) PROVE PhaseInv'
  BY <1>4, <1>b DEF start, setTimerTime
<1>5. ASSUME NEW ms \in Adds, addMillis(ms) PROVE PhaseInv'
  BY <1>5, <1>b DEF addMillis
<1>6. ASSUME NEW t \in Settings, setTime(t) PROVE PhaseInv'
  BY <1>6 DEF setTime, Begin, Idle
<1>7. CASE readTimestamp \/ readMillis
  BY <1>a, <1>7 DEF readTimestamp, readMillis, Read, CallType
<1>8. CASE useMillis \/ useRemaining \/ useStart \/ useStartTimer \/ useAdd
  BY <1>a, <1>8 DEF useMillis, useRemaining, useStart, useStartTimer, useAdd, Using, CallType
<1>9. CASE writeTimestamp \/ writeMillis
  BY <1>a, <1>9 DEF writeTimestamp, writeMillis, Wrote, CallType
<1>10. CASE setStamp \/ setZero \/ setUnlock
  BY <1>a, <1>10 DEF setStamp, setZero, setUnlock, CallType
<1>11. CASE Return
  BY <1>11 DEF Return, Idle
<1>12. CASE UNCHANGED vars
  BY <1>12 DEF vars
<1> QED
  BY <1>1, <1>2, <1>3, <1>4, <1>5, <1>6, <1>7, <1>8, <1>9, <1>10, <1>11, <1>12 DEF Next

\* The lock keeps the interrupt out of the writes of setTime().
LEMMA LockStep == TypeInv /\ PhaseInv /\ LockInv /\ [Next]_vars => LockInv'
<1> SUFFICES ASSUME TypeInv, PhaseInv, LockInv, [Next]_vars PROVE LockInv'
  OBVIOUS
<1> USE DEF LockInv, clockVars
<1>a. call \in CallType
  BY DEF TypeInv
<1>b. ASSUME NEW op, NEW arg, Begin(op, arg, "read"), tickLock' = tickLock PROVE LockInv'
  <2>1. call.at = "" /\ call'.at = "read"
    BY <1>b DEF Begin, Idle, PhaseInv
  <2> QED
    BY <1>b, <2>1
<1>1. CASE tick
  <2>1. CASE tickLock
    BY <1>1, <2>1 DEF tick
  <2>2. CASE ~tickLock
    <3>1. call.at \notin {"stamp", "zero", "unlock"}
      BY <2>2
    <3> QED
      BY <1>1, <2>2, <3>1 DEF tick
  <2> QED
    BY <2>1, <2>2
<1>2. CASE getMillis \/ remaining \/ startTimer
  BY <1>2, <1>b DEF getMillis, remaining, startTimer
<1>3. CASE clear
  BY <1>3 DEF clear
<1>4. ASSUME NEW p \in Periods, start(p) \/ setTimerTime(p) PROVE LockInv'
  BY <1>4, <1>b DEF start, setTimerTime
<1>5. ASSUME NEW ms \in Adds, addMillis(ms) PROVE LockInv'
  BY <1>5, <1>b DEF addMillis
<1>6. ASSUME NEW t \in Settings, setTime(t) PROVE LockInv'
  BY <1>6 DEF setTime, Begin, Idle
<1>7. CASE readTimestamp \/ readMillis
  <2>1. /\ call.at \notin {"stamp", "zero", "unlock"}
        /\ call'.at \notin {"stamp", "zero", "unlock"}
    BY <1>a, <1>7 DEF readTimestamp, readMillis, Read, CallType
  <2> QED
    BY <1>7, <2>1 DEF readTimestamp, readMillis
<1>8. CASE useMillis \/ useRemaining \/ useStart \/ useStartTimer \/ useAdd
  <2>1. /\ call.at \notin {"stamp", "zero", "unlock"}
        /\ call'.at \notin {"stamp", "zero", "unlock"}
    BY <1>a, <1>8 DEF useMillis, useRemaining, useStart, useStartTimer, useAdd, Using, CallType
  <2> QED
    BY <1>8, <2>1 DEF useMillis, useRemaining, useStart, useStartTimer, useAdd
<1>9. CASE writeTimestamp \/ writeMillis
  <2>1. /\ call.at \notin {"stamp", "zero", "unlock"}
        /\ call'.at \notin {"stamp", "zero", "unlock"}
    BY <1>a, <1>9 DEF writeTimestamp, writeMillis, Wrote, CallType
  <2> QED
    BY <1>9, <2>1 DEF writeTimestamp, writeMillis
<1>10. CASE setStamp \/ setZero \/ setUnlock
  <2>1. CASE setStamp
    <3>1. call'.at = "zero" /\ call'.arg = call.arg
      BY <1>a, <2>1 DEF setStamp, CallType
    <3> QED
      BY <2>1, <3>1 DEF setStamp
  <2>2. CASE setZero
    <3>1. call'.at = "unlock" /\ call'.arg = call.arg
      BY <1>a, <2>2 DEF setZero, CallType
    <3> QED
      BY <2>2, <3>1 DEF setZero
  <2>3. CASE setUnlock
    <3>1. call'.at = "done"
      BY <1>a, <2>3 DEF setUnlock, CallType
    <3> QED
      BY <2>3, <3>1 DEF setUnlock
  <2> QED
    BY <1>10, <2>1, <2>2, <2>3
<1>11. CASE Return
  BY <1>11 DEF Return, Idle
<1>12. CASE UNCHANGED vars
  BY <1>12 DEF vars
<1> QED
  BY <1>1, <1>2, <1>3, <1>4, <1>5, <1>6, <1>7, <1>8, <1>9, <1>10, <1>11, <1>12 DEF Next

\* Nothing but tick() moves the clock of a steady time base.
LEMMA SteadyStep ==
  TypeInv /\ PhaseInv /\ LockInv /\ SteadyInv /\ [Next]_vars => SteadyInv'
<1> SUFFICES ASSUME TypeInv, PhaseInv, LockInv, SteadyInv, [Next]_vars PROVE SteadyInv'
  OBVIOUS
<1> USE DEF SteadyInv, clockVars
<1>a. call \in CallType /\ timer \in TimerType
  BY DEF TypeInv
<1>b. ASSUME NEW op, NEW arg, NEW at, Begin(op, arg, at) PROVE call'.op = op
  BY <1>b DEF Begin, Idle
<1>1. CASE tick
  <2>1. steady => ~tickLock
    BY DEF LockInv, PhaseInv
  <2> QED
    BY <1>1, <2>1 DEF tick
<1>2. CASE getMillis \/ remaining \/ startTimer
  BY <1>2, <1>b DEF getMillis, remaining, startTimer
<1>3. CASE clear
  BY <1>3 DEF clear, NoTimer
<1>4. ASSUME NEW p \in Periods, start(p) \/ setTimerTime(p) PROVE SteadyInv'
  BY <1>a, <1>4, <1>b DEF start, setTimerTime, TimerType
<1>5. ASSUME NEW ms \in Adds, addMillis(ms) PROVE SteadyInv'
  BY <1>a, <1>5 DEF addMillis, TimerType
<1>6. ASSUME NEW t \in Settings, setTime(t) PROVE SteadyInv'
  BY <1>a, <1>6 DEF setTime, TimerType
<1>7. CASE readTimestamp \/ readMillis
  <2>1. call'.op = call.op
    BY <1>a, <1>7 DEF readTimestamp, readMillis, Read, CallType
  <2> QED
    BY <1>7, <2>1 DEF readTimestamp, readMillis
<1>8. CASE useMillis \/ useRemaining \/ useAdd
  <2>1. call'.op = call.op
    BY <1>a, <1>8 DEF useMillis, useRemaining, useAdd, CallType
  <2> QED
    BY <1>8, <2>1 DEF useMillis, useRemaining, useAdd
<1>9. CASE useStart \/ useStartTimer
  <2>1. call'.op = call.op
    BY <1>a, <1>9 DEF useStart, useStartTimer, CallType
  <2>2. timer'.sound => steady
    <3>1. CASE useStart
      BY <3>1 DEF useStart
    <3>2. CASE useStartTimer
      <4>1. timer'.sound = (timer.end = timer.period /\ timer.period > 0 /\ steady)
        BY <1>a, <3>2 DEF useStartTimer, TimerType
      <4> QED
        BY <4>1
    <3> QED
      BY <1>9, <3>1, <3>2
  <2> QED
    BY <1>9, <2>1, <2>2 DEF useStart, useStartTimer
<1>10. CASE writeTimestamp \/ writeMillis
  BY <1>a, <1>10 DEF writeTimestamp, writeMillis, Wrote, CallType
<1>11. CASE setStamp \/ setZero \/ setUnlock
  BY <1>a, <1>11 DEF setStamp, setZero, setUnlock, CallType
<1>12. CASE Return
  BY <1>12 DEF Return, Idle
<1>13. CASE UNCHANGED vars
  BY <1>13 DEF vars
<1> QED
  BY <1>1, <1>2, <1>3, <1>4, <1>5, <1>6, <1>7, <1>8, <1>9, <1>10, <1>11, <1>12, <1>13 DEF Next

\* An interrupt never takes the clock back.
LEMMA TickForward ==
  ASSUME TypeInv, tick
  PROVE  /\ Clock \in Nat /\ Clock' \in Nat /\ Clock <= Clock'
         /\ timestamp * KHZ \in Nat /\ timestamp' * KHZ \in Nat
         /\ timestamp * KHZ <= timestamp' * KHZ
<1>1. /\ timestamp \in Nat /\ millis \in Nat /\ KHZ \in Nat
      /\ timestamp * KHZ \in Nat /\ Clock \in Nat
  BY TimeAssumption, Seconds DEF TypeInv, TimeTypeOK, Clock
<1>2. CASE tickLock
  BY <1>1, <1>2 DEF tick, Clock
<1>3. CASE ~tickLock
  <2>1. /\ Advance \in 0 .. KHZ /\ timestamp' \in Nat
        /\ timestamp * KHZ <= timestamp' * KHZ /\ Clock' = Clock + Advance
    BY <1>3, TickMoves DEF tick
  <2>2. timestamp' * KHZ \in Nat
    BY <2>1, Seconds
  <2>3. Clock' \in Nat /\ Clock <= Clock'
    <3>1. Advance \in Nat /\ Clock \in Nat
      BY <1>1, <2>1
    <3> QED
      BY <2>1, <3>1
  <2> QED
    BY <1>1, <2>1, <2>2, <2>3
<1> QED
  BY <1>2, <1>3

\* What a reader has read stays close to the clock.
LEMMA ReadStep == TypeInv /\ PhaseInv /\ ReadInv /\ [Next]_vars => ReadInv'
<1> SUFFICES ASSUME TypeInv, PhaseInv, ReadInv, [Next]_vars PROVE ReadInv'
  OBVIOUS
<1>a. /\ call \in CallType /\ call.from \in Nat /\ call.val \in Int
      /\ KHZ \in Nat /\ KHZ > 0
      /\ timestamp \in Nat /\ millis \in Nat /\ millis < KHZ /\ timestamp * KHZ \in Nat
      /\ Clock \in Nat /\ Clock = timestamp * KHZ + millis
  BY TimeAssumption, Seconds DEF TypeInv, TimeTypeOK, CallType, Clock
<1>b. ASSUME call' = call, Clock' \in Nat, Clock <= Clock', timestamp' * KHZ \in Nat,
             timestamp * KHZ <= timestamp' * KHZ
      PROVE  ReadInv'
  <2>1. ASSUME call.t \in Nat PROVE call.t * KHZ \in Nat
    BY <2>1, Seconds
  <2>2. call.t # NotRead => call.t \in Nat
    BY <1>a DEF CallType
  <2> HIDE DEF Clock
  <2> QED
    BY <1>a, <1>b, <2>1, <2>2 DEF ReadInv, ReadWithinASecond
<1>c. ASSUME NEW op \in Ops, NEW arg, NEW at, Begin(op, arg, at),
             timestamp' = timestamp, millis' = millis, at # "done"
      PROVE  ReadInv'
  <2>1. /\ call'.op = op /\ call'.at = at /\ call'.t = NotRead /\ call'.from = Clock
    BY <1>c DEF Begin, Idle
  <2>2. Clock' = Clock
    BY <1>c DEF Clock
  <2> HIDE DEF Clock
  <2> QED
    BY <1>a, <1>c, <2>1, <2>2 DEF ReadInv, ReadWithinASecond
<1>1. CASE tick
  BY <1>1, <1>b, TickForward DEF tick
<1>2. CASE getMillis \/ remaining \/ startTimer
  BY <1>2, <1>c DEF getMillis, remaining, startTimer, clockVars, Ops
<1>3. CASE clear
  BY <1>3 DEF clear, clockVars, ReadInv, ReadWithinASecond, Clock
<1>4. ASSUME NEW p \in Periods, start(p) \/ setTimerTime(p) PROVE ReadInv'
  <2>1. CASE start(p)
    BY <2>1, <1>c DEF start, clockVars, Ops
  <2>2. CASE setTimerTime(p)
    BY <2>2 DEF setTimerTime, clockVars, ReadInv, ReadWithinASecond, Clock
  <2> QED
    BY <1>4, <2>1, <2>2
<1>5. ASSUME NEW ms \in Adds, addMillis(ms) PROVE ReadInv'
  BY <1>5, <1>c DEF addMillis, Ops
<1>6. ASSUME NEW t \in Settings, setTime(t) PROVE ReadInv'
  BY <1>6, <1>c DEF setTime, Ops
<1>7. CASE readTimestamp
  <2>1. /\ call.at = "read" /\ call'.op = call.op /\ call'.at \in {"read", "use"}
        /\ call'.t = timestamp /\ call'.from = call.from
    BY <1>a, <1>7 DEF readTimestamp, Read, CallType
  <2>2. timestamp' = timestamp /\ Clock' = Clock /\ call.op \in Readers
    BY <1>7, <2>1 DEF readTimestamp, clockVars, Clock, PhaseInv
  <2> HIDE DEF Clock
  <2> QED
    BY <1>a, <2>1, <2>2 DEF ReadInv, ReadWithinASecond
<1>8. CASE readMillis
  <2>1. /\ call.at = "read" /\ call'.op = call.op /\ call'.at \in {"read", "use"}
        /\ call'.t = call.t /\ call'.from = call.from
    BY <1>a, <1>8 DEF readMillis, Read, CallType
  <2>2. timestamp' = timestamp /\ Clock' = Clock
    BY <1>8 DEF readMillis, clockVars, Clock
  <2> HIDE DEF Clock
  <2> QED
    BY <1>a, <2>1, <2>2 DEF ReadInv, ReadWithinASecond
<1>9. CASE useMillis
  <2>1. /\ call.at = "use" /\ call.op = "getMillis" /\ call'.at = "done"
        /\ call'.val = Value /\ call'.from = call.from
    BY <1>a, <1>9 DEF useMillis, Using, CallType
  <2>2. timestamp' = timestamp /\ Clock' = Clock
    BY <1>9 DEF useMillis, clockVars, Clock
  <2>3. /\ call.m \in 0 .. KHZ - 1 /\ call.t # NotRead /\ call.t * KHZ \in Nat
        /\ Value = call.t * KHZ + call.m
    BY <2>1, ValueType DEF PhaseInv
  <2>4. call.t * KHZ <= timestamp * KHZ /\ call.from < call.t * KHZ + KHZ
    BY <2>1, <2>3 DEF ReadInv
  <2> HIDE DEF Clock, Value
  <2>5. call.from - KHZ < Value /\ Value < Clock + KHZ
    BY <1>a, <2>3, <2>4
  <2> QED
    BY <2>1, <2>2, <2>5 DEF ReadInv, ReadWithinASecond
<1>10. CASE useRemaining \/ useStart \/ useStartTimer \/ useAdd
  <2>1. call'.op # "getMillis" /\ call'.at \notin {"read", "use"}
    BY <1>a, <1>10 DEF useRemaining, useStart, useStartTimer, useAdd, Using, CallType
  <2> QED
    BY <2>1 DEF ReadInv, ReadWithinASecond
<1>11. CASE writeTimestamp \/ writeMillis
  <2>1. call'.op # "getMillis" /\ call'.at \notin {"read", "use"}
    BY <1>a, <1>11 DEF writeTimestamp, writeMillis, Wrote, CallType
  <2> QED
    BY <2>1 DEF ReadInv, ReadWithinASecond
<1>12. CASE setStamp \/ setZero \/ setUnlock
  <2>1. call'.op # "getMillis" /\ call'.at \notin {"read", "use"}
    BY <1>a, <1>12 DEF setStamp, setZero, setUnlock, PhaseInv, CallType
  <2> QED
    BY <2>1 DEF ReadInv, ReadWithinASecond
<1>13. CASE Return
  BY <1>13 DEF Return, Idle, ReadInv, ReadWithinASecond
<1>14. CASE UNCHANGED vars
  BY <1>14 DEF vars, clockVars, ReadInv, ReadWithinASecond, Clock
<1> QED
  BY <1>1, <1>2, <1>3, <1>4, <1>5, <1>6, <1>7, <1>8, <1>9, <1>10, <1>11, <1>12, <1>13, <1>14
  DEF Next

\* A value that has been read is less than a second away from the clock.
LEMMA ValueNear ==
  ASSUME TypeInv, PhaseInv, ReadInv, call.at = "use"
  PROVE  call.from < Value + KHZ /\ Value < Clock + KHZ
<1>1. /\ call.t # NotRead /\ call.m \in Nat /\ call.m < KHZ /\ call.t * KHZ \in Nat
      /\ Value = call.t * KHZ + call.m
  BY ValueType, TimeAssumption DEF PhaseInv
<1>2. call.t * KHZ <= timestamp * KHZ /\ call.from < call.t * KHZ + KHZ
  BY <1>1 DEF ReadInv
<1>3. /\ KHZ \in Nat /\ timestamp * KHZ \in Nat /\ millis \in Nat /\ call.from \in Nat
      /\ Clock = timestamp * KHZ + millis
  BY TimeAssumption, Seconds DEF TypeInv, TimeTypeOK, CallType, Clock
<1> HIDE DEF Clock, Value
<1> QED
  BY <1>1, <1>2, <1>3

\* A sound timer runs for its period, but for the two torn reads.
LEMMA TimerStep ==
  TypeInv /\ PhaseInv /\ SteadyInv /\ ReadInv /\ TimerInv /\ [Next]_vars => TimerInv'
<1> SUFFICES ASSUME TypeInv, PhaseInv, SteadyInv, ReadInv, TimerInv, [Next]_vars
             PROVE  TimerInv'
  OBVIOUS
<1>a. /\ call \in CallType /\ call.from \in Nat /\ call.val \in Int /\ call.arg \in Nat
      /\ timer \in TimerType /\ timer.end \in Nat /\ timer.period \in Nat
      /\ timer.since \in Nat /\ KHZ \in Nat /\ KHZ > 0
  BY TimeAssumption DEF TypeInv, CallType, TimerType
<1>b. Clock \in Nat
  BY TimeAssumption, Seconds DEF TypeInv, TimeTypeOK, Clock
<1>c. ASSUME ~timer'.sound, call'.op = "start" => call'.arg > 0 PROVE TimerInv'
  BY <1>c DEF TimerInv, TimerNotEarly
<1>d. ASSUME NEW op, NEW arg, Begin(op, arg, "read"), op = "start" => arg > 0,
             UNCHANGED <<clockVars, timer>>
      PROVE  TimerInv'
  <2>1. call'.op = op /\ call'.at = "read" /\ call'.arg = arg /\ call'.from = Clock
    BY <1>d DEF Begin, Idle
  <2>2. Clock' = Clock /\ timer' = timer
    BY <1>d DEF Clock, clockVars
  <2> HIDE DEF Clock
  <2> QED
    BY <1>d, <2>1, <2>2 DEF TimerInv, TimerNotEarly
<1>e. ASSUME timer' = timer, Clock' = Clock, call'.op = call.op, call'.arg = call.arg,
             call'.from = call.from, call.at \in {"read", "use"}, call'.at \in {"read", "use"}
      PROVE  TimerInv'
  BY <1>e DEF TimerInv, TimerNotEarly
<1>1. CASE tick
  <2>1. timer' = timer /\ call' = call /\ Clock' \in Nat /\ Clock <= Clock'
    BY <1>1, TickForward DEF tick
  <2> HIDE DEF Clock
  <2> QED
    BY <1>a, <1>b, <2>1 DEF TimerInv, TimerNotEarly
<1>2. CASE getMillis \/ remaining \/ startTimer
  BY <1>2, <1>d DEF getMillis, remaining, startTimer
<1>3. CASE clear
  BY <1>3, <1>c DEF clear, NoTimer, TimerInv
<1>4. ASSUME NEW p \in Periods, start(p) PROVE TimerInv'
  <2>1. p > 0
    BY TimeAssumption
  <2> QED
    BY <1>4, <1>d, <2>1 DEF start
<1>5. ASSUME NEW p \in Periods, setTimerTime(p) PROVE TimerInv'
  <2>1. ~timer'.sound /\ call' = call
    BY <1>a, <1>5 DEF setTimerTime, TimerType
  <2> QED
    BY <1>c, <2>1 DEF TimerInv
<1>6. ASSUME NEW ms \in Adds, addMillis(ms) PROVE TimerInv'
  <2>1. ~timer'.sound /\ call'.op = "addMillis"
    BY <1>a, <1>6 DEF addMillis, TimerType, Begin, Idle
  <2> QED
    BY <1>c, <2>1
<1>7. ASSUME NEW t \in Settings, setTime(t) PROVE TimerInv'
  <2>1. ~timer'.sound /\ call'.op = "setTime"
    BY <1>a, <1>7 DEF setTime, TimerType, Begin, Idle
  <2> QED
    BY <1>c, <2>1
<1>8. CASE readTimestamp \/ readMillis
  <2>1. /\ call'.op = call.op /\ call'.arg = call.arg /\ call'.from = call.from
        /\ call.at \in {"read", "use"} /\ call'.at \in {"read", "use"}
    BY <1>a, <1>8 DEF readTimestamp, readMillis, Read, CallType
  <2>2. timer' = timer /\ Clock' = Clock
    BY <1>8 DEF readTimestamp, readMillis, clockVars, Clock
  <2> QED
    BY <1>e, <2>1, <2>2
<1>9. CASE useMillis
  <2>1. call'.op = "getMillis" /\ call'.at = "done"
    BY <1>a, <1>9 DEF useMillis, Using, CallType
  <2>2. timer' = timer /\ Clock' = Clock
    BY <1>9 DEF useMillis, clockVars, Clock
  <2> QED
    BY <2>1, <2>2 DEF TimerInv, TimerNotEarly
<1>10. CASE useRemaining
  <2>1. /\ call.op = "remaining" /\ call.at = "use"
        /\ call'.op = "remaining" /\ call'.at = "done"
        /\ call'.val = IF timer.end = 0 \/ Value >= timer.end THEN 0 ELSE timer.end - Value
    BY <1>a, <1>10 DEF useRemaining, Using, CallType
  <2>2. timer' = timer /\ Clock' = Clock
    BY <1>10 DEF useRemaining, clockVars, Clock
  <2>3. Value \in Nat /\ call.from < Value + KHZ /\ Value < Clock + KHZ
    BY <2>1, ValueType, ValueNear
  <2>4. ASSUME timer.sound
        PROVE  /\ call'.val = 0 => Clock - timer.since > timer.period - 2 * KHZ
               /\ call'.val < timer.period + 2 * KHZ
    <3>1. /\ timer.period > 0 /\ timer.end >= timer.period
          /\ timer.since < timer.end - timer.period + KHZ
          /\ timer.end - timer.period < call.from + KHZ
      BY <2>1, <2>4 DEF TimerInv
    <3> HIDE DEF Clock, Value
    <3>2. CASE Value >= timer.end
      BY <1>a, <1>b, <2>1, <2>3, <3>1, <3>2
    <3>3. CASE ~(Value >= timer.end)
      BY <1>a, <1>b, <2>1, <2>3, <3>1, <3>3
    <3> QED
      BY <3>2, <3>3
  <2> HIDE DEF Clock, Value
  <2> QED
    BY <2>1, <2>2, <2>4 DEF TimerInv, TimerNotEarly
<1>11. CASE useStart
  <2>1. /\ call.op = "start" /\ call.at = "use" /\ call'.op = "start" /\ call'.at = "done"
        /\ call'.arg = call.arg /\ call.arg > 0
    BY <1>a, <1>11 DEF useStart, Using, CallType, TimerInv
  <2>2. /\ timer'.end = Value + call.arg /\ timer'.period = call.arg
        /\ timer'.since = call.from /\ Clock' = Clock
    BY <1>11 DEF useStart, clockVars, Clock
  <2>3. Value \in Nat /\ call.from < Value + KHZ /\ Value < Clock + KHZ
    BY <2>1, ValueType, ValueNear
  <2> HIDE DEF Clock, Value
  <2>4. /\ timer'.period > 0 /\ timer'.end >= timer'.period
        /\ timer'.since < timer'.end - timer'.period + KHZ
        /\ timer'.end - timer'.period < Clock' + KHZ
    BY <1>a, <1>b, <2>1, <2>2, <2>3
  <2> QED
    BY <2>1, <2>4 DEF TimerInv, TimerNotEarly
<1>12. CASE useStartTimer
  <2>1. call'.op = "startTimer" /\ call.at = "use"
    BY <1>a, <1>12 DEF useStartTimer, Using, CallType
  <2>2. /\ timer'.end = timer.end + Value /\ timer'.period = timer.period
        /\ timer'.since = call.from /\ Clock' = Clock
    BY <1>a, <1>12 DEF useStartTimer, clockVars, Clock, TimerType
  <2>3. Value \in Nat /\ call.from < Value + KHZ /\ Value < Clock + KHZ
    BY <2>1, ValueType, ValueNear
  <2>4. timer'.sound => timer.end = timer.period /\ timer.period > 0
    <3>1. timer'.sound = (timer.end = timer.period /\ timer.period > 0 /\ steady)
      BY <1>a, <1>12 DEF useStartTimer, TimerType
    <3> QED
      BY <3>1
  <2> HIDE DEF Clock, Value
  <2>5. ASSUME timer.end = timer.period, timer.period > 0
        PROVE  /\ timer'.period > 0 /\ timer'.end >= timer'.period
               /\ timer'.since < timer'.end - timer'.period + KHZ
               /\ timer'.end - timer'.period < Clock' + KHZ
    BY <1>a, <1>b, <2>2, <2>3, <2>5
  <2> QED
    BY <2>1, <2>4, <2>5 DEF TimerInv, TimerNotEarly
<1>13. CASE useAdd
  <2>1. call.op = "addMillis" /\ call'.op = "addMillis" /\ timer' = timer
    BY <1>a, <1>13 DEF useAdd, Using, CallType
  <2> QED
    BY <1>c, <2>1 DEF SteadyInv
<1>14. CASE writeTimestamp \/ writeMillis
  <2>1. call.op = "addMillis" /\ call'.op = "addMillis" /\ timer' = timer
    BY <1>a, <1>14 DEF writeTimestamp, writeMillis, Wrote, CallType
  <2> QED
    BY <1>c, <2>1 DEF SteadyInv
<1>15. CASE setStamp \/ setZero \/ setUnlock
  <2>1. call.op = "setTime" /\ call'.op = "setTime" /\ timer' = timer
    BY <1>a, <1>15 DEF setStamp, setZero, setUnlock, PhaseInv, CallType
  <2> QED
    BY <1>c, <2>1 DEF SteadyInv
<1>16. CASE Return
  <2>1. call'.op = "idle" /\ timer' = timer /\ Clock' = Clock
    BY <1>16 DEF Return, Idle, clockVars, Clock
  <2> QED
    BY <2>1 DEF TimerInv, TimerNotEarly
<1>17. CASE UNCHANGED vars
  BY <1>17 DEF vars, clockVars, TimerInv, TimerNotEarly, Clock
<1> QED
  BY <1>1, <1>2, <1>3, <1>4, <1>5, <1>6, <1>7, <1>8, <1>9, <1>10, <1>11, <1>12, <1>13, <1>14,
     <1>15, <1>16, <1>17 DEF Next

\* setTickFrequency() runs once, before the first tick.
LEMMA RateStep == RateInv /\ [Next]_vars => RateInv'
<1> SUFFICES ASSUME [Next]_vars PROVE UNCHANGED rateVars
  BY DEF RateInv, rateVars
<1> QED
  BY DEF Next, vars, tick, getMillis, remaining, startTimer, clear, start, setTimerTime,
     addMillis, setTime, readTimestamp, readMillis, useMillis, useRemaining, useStart,
     useStartTimer, useAdd, writeTimestamp, writeMillis, setStamp, setZero, setUnlock, Return

\* At most one of the two rates is in use, and Advance follows it.
LEMMA PaceStep ==
  TypeInv /\ PhaseInv /\ SteadyInv /\ PaceInv /\ [Next]_vars => PaceInv'
<1> SUFFICES ASSUME TypeInv, PhaseInv, SteadyInv, PaceInv, [Next]_vars, steady'
             PROVE  PaceInv'
  BY DEF PaceInv
<1>1. CASE tick
  <2>1. steady /\ ~tickLock /\ Ticked /\ ticks' = ticks + 1 /\ UNCHANGED rateVars
    BY <1>1 DEF tick
  <2>2. Advance \in Nat /\ Clock \in Nat /\ Clock' = Clock + Advance
    BY <2>1, TickMoves, TimeAssumption
  <2>3. /\ ticks \in Nat /\ msPerTick \in Nat /\ ticksPerMs \in Nat /\ ticksCurrentMilli \in Nat
        /\ ticks' = ticks + 1 /\ msPerTick' = msPerTick /\ ticksPerMs' = ticksPerMs
    BY <2>1, TimeAssumption DEF TypeInv, TimeTypeOK, rateVars
  <2> HIDE DEF Clock
  <2>4. CASE msPerTick > 0
    <3>1. Clock = ticks * msPerTick /\ Advance = msPerTick
      BY <2>1, <2>3, <2>4 DEF PaceInv, Advance
    <3>2. (ticks + 1) * msPerTick = ticks * msPerTick + msPerTick
      BY <2>3
    <3> QED
      BY <2>2, <2>3, <2>4, <3>1, <3>2 DEF PaceInv
  <2>5. CASE msPerTick = 0 /\ ticksPerMs = 1
    <3>1. Clock = ticks /\ Advance = 1
      BY <2>1, <2>3, <2>5 DEF PaceInv, Advance
    <3> QED
      BY <2>2, <2>3, <2>5, <3>1 DEF PaceInv
  <2>6. CASE msPerTick = 0 /\ ticksPerMs > 1
    <3>1. Clock * ticksPerMs + ticksCurrentMilli = ticks /\ ticksCurrentMilli < ticksPerMs
      BY <2>1, <2>3, <2>6 DEF PaceInv
    <3>2. /\ Clock * ticksPerMs \in Nat
          /\ (Clock + 1) * ticksPerMs = Clock * ticksPerMs + ticksPerMs
      BY <2>2, <2>3
    <3>3. CASE ticksCurrentMilli + 1 >= ticksPerMs
      <4>1. Clock' = Clock + 1 /\ ticksCurrentMilli' = 0
        BY <2>1, <2>2, <2>3, <2>6, <3>3 DEF Advance, Ticked
      <4>2. Clock' * ticksPerMs + ticksCurrentMilli' = ticks + 1
        BY <2>2, <2>3, <3>1, <3>2, <3>3, <4>1
      <4> QED
        BY <2>3, <2>6, <4>1, <4>2 DEF PaceInv
    <3>4. CASE ~(ticksCurrentMilli + 1 >= ticksPerMs)
      <4>1. Clock' = Clock /\ ticksCurrentMilli' = ticksCurrentMilli + 1
        BY <2>1, <2>2, <2>3, <2>6, <3>4 DEF Advance, Ticked
      <4>2. /\ Clock' * ticksPerMs + ticksCurrentMilli' = ticks + 1
            /\ ticksCurrentMilli' < ticksPerMs
        BY <2>2, <2>3, <3>1, <3>2, <3>4, <4>1
      <4> QED
        BY <2>3, <2>6, <4>1, <4>2 DEF PaceInv
    <3> QED
      BY <3>3, <3>4
  <2>7. CASE msPerTick = 0 /\ ticksPerMs = 0
    BY <2>3, <2>7 DEF PaceInv
  <2> QED
    BY <2>3, <2>4, <2>5, <2>6, <2>7
<1>2. CASE UNCHANGED <<clockVars, rateVars>>
  BY <1>2 DEF PaceInv, clockVars, rateVars, Clock
<1>3. CASE writeTimestamp \/ writeMillis \/ setStamp \/ setZero
  <2>1. call.op \in {"addMillis", "setTime"} /\ steady' = steady
    BY <1>3 DEF writeTimestamp, writeMillis, setStamp, setZero, PhaseInv
  <2> QED
    BY <2>1 DEF SteadyInv
<1>4. ASSUME NEW ms \in Adds, addMillis(ms) PROVE FALSE
  BY <1>4 DEF addMillis
<1>5. ASSUME NEW t \in Settings, setTime(t) PROVE FALSE
  BY <1>5 DEF setTime
<1> QED
  BY <1>1, <1>2, <1>3, <1>4, <1>5 DEF Next, vars, getMillis, remaining, startTimer, clear, start,
     setTimerTime, readTimestamp, readMillis, useMillis, useRemaining, useStart,
     useStartTimer, useAdd, setUnlock, Return

----------------------------------------------------------------------------
(* Division                                                                *)

LEMMA DivMod ==
  \A a, b \in Int : b > 0 =>
    /\ a \div b \in Int /\ a % b \in Int /\ 0 <= a % b /\ a % b < b
    /\ a = b * (a \div b) + (a % b)
  BY Z3

LEMMA ScaledApart ==
  ASSUME NEW p \in Nat, NEW q \in Nat, NEW b \in Nat, p < q
  PROVE  p * b + b <= q * b
<1>1. PICK k \in Nat : q = p + 1 + k
  <2>1. q - p - 1 \in Nat /\ q = p + 1 + (q - p - 1)
    OBVIOUS
  <2> QED
    BY <2>1
<1>2. q * b = p * b + b + k * b
  BY <1>1
<1>3. k * b \in Nat /\ p * b \in Nat
  OBVIOUS
<1> QED
  BY <1>2, <1>3

\* A quotient and a remainder determine the division.
LEMMA DivUnique ==
  ASSUME NEW q \in Nat, NEW r \in Nat, NEW b \in Nat, r < b
  PROVE  (q * b + r) \div b = q
<1> DEFINE a == q * b + r
           d == a \div b
           m == a % b
<1>1. q * b \in Nat /\ a \in Nat /\ a = q * b + r /\ b > 0
  OBVIOUS
<1>2. d \in Int /\ m \in Int /\ 0 <= m /\ m < b /\ a = b * d + m
  BY <1>1, DivMod
<1>3. d \in Nat
  BY <1>1
<1>4. b * d = d * b /\ d * b \in Nat
  BY <1>3
<1> HIDE DEF a, d, m
<1>5. ~(d < q)
  <2> SUFFICES ASSUME d < q PROVE FALSE
    OBVIOUS
  <2>1. d * b + b <= q * b
    BY <1>3, ScaledApart
  <2> QED
    BY <1>1, <1>2, <1>4, <2>1
<1>6. ~(q < d)
  <2> SUFFICES ASSUME q < d PROVE FALSE
    OBVIOUS
  <2>1. q * b + b <= d * b
    BY <1>3, ScaledApart
  <2> QED
    BY <1>1, <1>2, <1>4, <2>1
<1>7. d = q
  BY <1>3, <1>5, <1>6
<1> QED
  BY <1>7 DEF d, a

\* The pace of a steady clock, from the rates and the ticks counted.
LEMMA Pace == TypeInv /\ RateInv /\ PaceInv => ClockKeepsPace
<1> SUFFICES ASSUME TypeInv, RateInv, PaceInv, steady, freq % KHZ = 0 \/ KHZ % freq = 0
             PROVE  Clock = (ticks * KHZ) \div freq
  BY DEF ClockKeepsPace
<1>1. /\ KHZ \in Nat /\ KHZ > 0 /\ freq \in Nat /\ freq > 0 /\ ticks \in Nat
      /\ msPerTick \in Nat /\ ticksPerMs \in Nat /\ ticksCurrentMilli \in Nat
  BY TimeAssumption DEF TypeInv, TimeTypeOK, RateInv
<1>2. Clock \in Nat
  BY TimeAssumption, Seconds DEF TypeInv, TimeTypeOK, Clock
<1> HIDE DEF Clock
<1>3. CASE freq < KHZ
  <2>1. KHZ % freq = 0
    BY <1>1, <1>3
  <2>2. msPerTick = KHZ \div freq
    BY <1>3 DEF RateInv
  <2>3. KHZ = freq * msPerTick
    BY <1>1, <2>1, <2>2, DivMod
  <2>4. msPerTick > 0
    BY <1>1, <2>3
  <2>5. Clock = ticks * msPerTick
    BY <2>4 DEF PaceInv
  <2>6. ticks * KHZ = Clock * freq + 0
    BY <1>1, <2>3, <2>5
  <2> QED
    BY <1>1, <1>2, <2>6, DivUnique
<1>4. CASE KHZ <= freq
  <2>1. freq % KHZ = 0
    BY <1>1, <1>4
  <2>2. ticksPerMs = freq \div KHZ /\ msPerTick = 0
    BY <1>4 DEF RateInv
  <2>3. freq = KHZ * ticksPerMs
    BY <1>1, <2>1, <2>2, DivMod
  <2>4. ticksPerMs > 0
    BY <1>1, <2>3
  <2>5. CASE ticksPerMs = 1
    <3>1. ticks * KHZ = Clock * freq + 0
      BY <1>1, <2>2, <2>3, <2>5 DEF PaceInv
    <3> QED
      BY <1>1, <1>2, <3>1, DivUnique
  <2>6. CASE ticksPerMs > 1
    <3>1. ticks = Clock * ticksPerMs + ticksCurrentMilli /\ ticksCurrentMilli < ticksPerMs
      BY <2>2, <2>6 DEF PaceInv
    <3>2. ticksCurrentMilli * KHZ \in Nat
      BY <1>1
    <3>3. ticksCurrentMilli * KHZ + KHZ <= ticksPerMs * KHZ
      BY <1>1, <3>1, ScaledApart
    <3>4. ticksPerMs * KHZ = freq
      BY <1>1, <2>3
    <3>5. ticksCurrentMilli * KHZ < freq
      BY <1>1, <3>2, <3>3, <3>4
    <3>6. ticks * KHZ = Clock * freq + ticksCurrentMilli * KHZ
      BY <1>1, <1>2, <3>1, <3>4
    <3> QED
      BY <1>1, <1>2, <3>2, <3>5, <3>6, DivUnique
  <2> QED
    BY <1>1, <2>4, <2>5, <2>6
<1> QED
  BY <1>1, <1>3, <1>4

----------------------------------------------------------------------------
(* The theorems                                                            *)

LEMMA TimeInit == Init => TimeInv
<1> SUFFICES ASSUME Init PROVE TimeInv
  OBVIOUS
<1>1. /\ KHZ \in Nat /\ KHZ > 0 /\ timestamp = 0 /\ millis = 0 /\ ticks = 0 /\ steady = TRUE
      /\ ticksCurrentMilli = 0 /\ tickLock = FALSE /\ call = Idle /\ timer = NoTimer
  BY TimeAssumption DEF Init
<1>2. PICK n \in Nat \ {0} :
        /\ freq = n
        /\ ticksPerMs = IF KHZ <= n THEN n \div KHZ ELSE 0
        /\ msPerTick = IF KHZ <= n THEN 0 ELSE KHZ \div n
  <2>1. PICK f \in Freqs : setTickFrequency(f)
    BY DEF Init
  <2>2. (IF f = 0 THEN CLOCKS_PER_SEC ELSE f) \in Nat \ {0}
    BY TimeAssumption
  <2> QED
    BY <2>1, <2>2 DEF setTickFrequency
<1>3. RateInv
  <2>1. n < KHZ => ~(KHZ <= n)
    BY <1>1
  <2> QED
    BY <1>2, <2>1 DEF RateInv
<1>4. ticksPerMs \in Nat /\ msPerTick \in 0 .. KHZ
  <2>1. CASE KHZ <= n
    <3>1. ticksPerMs = n \div KHZ /\ msPerTick = 0
      BY <1>2, <2>1
    <3>2. n \div KHZ \in Nat
      BY <1>1
    <3> QED
      BY <1>1, <3>1, <3>2
  <2>2. CASE ~(KHZ <= n)
    <3>1. msPerTick \in Int /\ 0 <= KHZ % n /\ KHZ = n * msPerTick + (KHZ % n) /\ KHZ % n \in Int
      BY <1>1, <1>2, <2>2, DivMod
    <3>2. msPerTick \in Nat
      BY <1>1, <1>2, <2>2
    <3>3. msPerTick <= n * msPerTick
      BY <1>2, <3>2
    <3>4. n * msPerTick \in Nat
      BY <1>2, <3>2
    <3> QED
      BY <1>1, <1>2, <2>2, <3>1, <3>2, <3>3, <3>4
  <2> QED
    BY <2>1, <2>2
<1>5. TimeTypeOK /\ Clock = 0
  <2>1. 0 \in Nat /\ 0 \in 0 .. KHZ - 1 /\ 0 * KHZ + 0 = 0
    BY TimeAssumption
  <2>2. tickLock \in BOOLEAN
    BY <1>1
  <2> QED
    BY <1>1, <1>4, <2>1, <2>2 DEF TimeTypeOK, Clock
<1>6. Idle \in CallType /\ NoTimer \in TimerType
  <2>1. Idle \in CallType
    BY TimeAssumption DEF Idle, CallType, Ops, Phases, NotRead
  <2>2. NoTimer \in TimerType
    BY DEF NoTimer, TimerType
  <2> QED
    BY <2>1, <2>2
<1>7. TypeInv
  BY <1>1, <1>5, <1>6 DEF TypeInv
<1>8. PhaseInv /\ ReadInv /\ LockInv
  BY <1>1 DEF PhaseInv, ReadInv, ReadWithinASecond, LockInv, Idle
<1>9. SteadyInv /\ TimerInv
  BY <1>1 DEF SteadyInv, TimerInv, TimerNotEarly, Idle, NoTimer
<1>10. PaceInv
  BY <1>1, <1>4, <1>5 DEF PaceInv
<1> QED
  BY <1>3, <1>7, <1>8, <1>9, <1>10 DEF TimeInv

\* The inductive invariant: TimeInv is preserved by every step.
THEOREM TimeInvariant == Spec => []TimeInv
<1>1. TimeInv /\ [Next]_vars => TimeInv'
  BY TypeStep, PhaseStep, LockStep, SteadyStep, ReadStep, TimerStep, RateStep, PaceStep
  DEF TimeInv
<1> QED
  BY <1>1, TimeInit, PTL DEF Spec

\* NbiotTime keeps its types, and less than a second in millis, at every rate.
THEOREM TimeTypeCorrect == Spec => []TimeTypeOK
<1>1. TimeInv => TimeTypeOK
  BY DEF TimeInv, TypeInv
<1> QED
  BY <1>1, TimeInvariant, PTL

\* No tick comes between the writes of setTime().
THEOREM SetTimeCorrect == Spec => []SetTimeNotTorn
<1>1. TimeInv => SetTimeNotTorn
  <2> SUFFICES ASSUME TimeInv, call.at = "unlock" PROVE Clock = call.arg * KHZ
    BY DEF SetTimeNotTorn
  <2>1. timestamp = call.arg /\ millis = 0
    BY DEF TimeInv, LockInv
  <2>2. call.arg * KHZ \in Nat
    BY Seconds DEF TimeInv, TypeInv, CallType
  <2> QED
    BY <2>1, <2>2 DEF Clock
<1> QED
  BY <1>1, TimeInvariant, PTL

\* A torn getMillis() is wrong by less than a second.
THEOREM ReadCorrect == Spec => []ReadWithinASecond
<1>1. TimeInv => ReadWithinASecond
  BY DEF TimeInv, ReadInv
<1> QED
  BY <1>1, TimeInvariant, PTL

\* The clock of tick() keeps the pace of the interrupt.
THEOREM PaceCorrect == Spec => []ClockKeepsPace
<1>1. TimeInv => ClockKeepsPace
  BY Pace DEF TimeInv
<1> QED
  BY <1>1, TimeInvariant, PTL

\* A Timer does not run out early, nor ask for much more than its period.
THEOREM TimerCorrect == Spec => []TimerNotEarly
<1>1. TimeInv => TimerNotEarly
  BY DEF TimeInv, TimerInv
<1> QED
  BY <1>1, TimeInvariant, PTL
=============================================================================
