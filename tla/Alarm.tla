-------------------------------- MODULE Alarm --------------------------------
(***************************************************************************)
(* The system clock of the HAL: the timer driver's interrupt handler       *)
(* (altera_avalon_timer_sc.c), the tick with its list of alarms            *)
(* (alt_tick.c, alt_alarm_start.c), in integers of a few bits.             *)
(*                                                                         *)
(* The tick counter wraps; an alarm beyond the wrap carries a flag.  The   *)
(* handler runs the tick with interrupts disabled, and so do               *)
(* alt_alarm_start and alt_alarm_stop: only the callbacks run between two  *)
(* steps of a tick.  A callback may start and stop alarms, its own too,    *)
(* except that it does not stop the one behind its own: alt_tick has read  *)
(* that pointer before the call (alt_tick.c:102), and would follow it      *)
(* round a removed entry for ever.                                         *)
(***************************************************************************)
EXTENDS Integers, Sequences, FiniteSets

CONSTANTS
  Alarms,     (* alt_alarm structures                                      *)
  ListHead,   (* alt_alarm_list                                            *)
  Word,       (* 2^32: the values of an alt_u32                            *)
  Intervals,  (* what callers and callbacks ask for, in ticks              *)
  Rate,       (* ticks per second                                          *)
  MaxTimeouts (* bound: time-outs of the timer                             *)

NoTick == "idle"

\* A caller's interval of Word - 1 would wrap round to the current tick.
ASSUME AlarmConstants ==
  /\ ListHead \notin Alarms /\ NoTick \notin Alarms \cup {ListHead}
  /\ Word \in Nat \ {0} /\ Rate \in 1 .. Word - 1
  /\ Intervals \subseteq 0 .. Word - 2
  /\ MaxTimeouts \in Nat

VARIABLES
  timedOut,   (* STATUS.TO of the timer                                    *)
  tick_rate,  (* _alt_tick_rate: 0 until the driver starts                 *)
  nticks,     (* _alt_nticks                                               *)
  list,       (* the entries behind alt_alarm_list, in order               *)
  time, rollover,     (* of each alarm                                     *)
  tick,       (* idle, or the alarm that the tick looks at next            *)
  calling,    (* the alarm whose callback runs, or idle                    *)
  timeouts,   (* history: time-outs that found TO clear                    *)
  due         (* history: ticks until each alarm is due                    *)

timerVars == <<timedOut, timeouts>>
alarmVars == <<list, time, rollover, due>>
clockAllVars == <<timerVars, tick_rate, nticks, alarmVars, tick, calling>>

Listed(a) == \E i \in 1 .. Len(list) : list[i] = a

PositionOf(a) == CHOOSE i \in 1 .. Len(list) : list[i] = a

\* The pointer of an entry: the next one, and its own for one that is removed.
NextOf(a) ==
  IF ~Listed(a) THEN a
  ELSE IF PositionOf(a) = Len(list) THEN ListHead ELSE list[PositionOf(a) + 1]
FirstListed == IF list = << >> THEN ListHead ELSE list[1]

\* To remove such an entry again changes nothing.
Without(a) ==
  IF ~Listed(a) THEN list
  ELSE SubSeq(list, 1, PositionOf(a) - 1) \o SubSeq(list, PositionOf(a) + 1, Len(list))
-----------------------------------------------------------------------------
(***************************************************************************)
(* The timer and its driver.                                               *)
(***************************************************************************)
Timeout ==
  /\ tick_rate # 0 /\ timeouts < MaxTimeouts
  /\ timedOut' = TRUE
  /\ timeouts' = IF timedOut THEN timeouts ELSE timeouts + 1
  /\ UNCHANGED <<tick_rate, nticks, alarmVars, tick, calling>>

\* The rate is taken only once.
StartClock ==
  /\ tick_rate = 0
  /\ tick_rate' = Rate
  /\ UNCHANGED <<timerVars, nticks, alarmVars, tick, calling>>

\* The handler clears TO before it counts: a time-out that comes meanwhile
\* is the next interrupt.
Count ==
  /\ nticks' = (nticks + 1) % Word
  /\ due' = [a \in Alarms |-> IF Listed(a) THEN due[a] - 1 ELSE due[a]]

TickStarts ==
  /\ tick = NoTick /\ timedOut
  /\ timedOut' = FALSE
  /\ Count
  /\ tick' = FirstListed
  /\ UNCHANGED <<timeouts, tick_rate, list, time, rollover, calling>>

\* The flag is dropped as the counter wraps; only then may the alarm expire.
Waiting(a) == rollover[a] /\ nticks # 0

Expired(a) == time[a] <= nticks /\ ~Waiting(a)

TickPasses ==
  /\ calling = NoTick /\ tick \in Alarms /\ ~Expired(tick)
  /\ rollover' = [rollover EXCEPT ![tick] = Waiting(tick)]
  /\ tick' = NextOf(tick)
  /\ UNCHANGED <<timerVars, tick_rate, nticks, list, time, due, calling>>

\* The pointer to the next entry is read before the callback runs.
TickCalls ==
  /\ calling = NoTick /\ tick \in Alarms /\ Expired(tick)
  /\ rollover' = [rollover EXCEPT ![tick] = FALSE]
  /\ calling' = tick
  /\ tick' = NextOf(tick)
  /\ UNCHANGED <<timerVars, tick_rate, nticks, list, time, due>>

\* alt_alarm_start puts its alarm in front.
Start(a, n) ==
  /\ time' = [time EXCEPT ![a] = (n + nticks + 1) % Word]
  /\ rollover' = [rollover EXCEPT ![a] = time'[a] < nticks]
  /\ list' = <<a>> \o list
  /\ due' = [due EXCEPT ![a] = n + 1]

\* What a callback may do on its way; the alarm can be its own.
TickStarted(a) ==
  /\ calling # NoTick /\ ~Listed(a)
  /\ \E n \in Intervals : Start(a, n)
  /\ UNCHANGED <<timerVars, tick_rate, nticks, tick, calling>>

TickStopped(a) ==
  /\ calling # NoTick /\ Listed(a) /\ a # tick
  /\ list' = Without(a)
  /\ UNCHANGED <<timerVars, tick_rate, nticks, time, rollover, due, tick, calling>>

\* The flag is set when the new time is beyond the wrap, and never cleared.
MutRenew(a, n) ==                             \* no flag for the wrap
  /\ time' = [time EXCEPT ![a] = (@ + n) % Word]
  /\ due' = [due EXCEPT ![a] = @ + n]
  /\ UNCHANGED rollover

Renew(a, n) ==
  /\ time' = [time EXCEPT ![a] = (@ + n) % Word]
  /\ rollover' = [rollover EXCEPT ![a] = @ \/ time'[a] < nticks]
  /\ due' = [due EXCEPT ![a] = @ + n]

\* The callback asks for another interval, or with 0 for none.  What it asks for
\* comes on top of the interval with which it may have started its alarm anew; both
\* together, it stays below the wrap.
MutCallbackReturns(n) ==                      \* the pointer is read afterwards
  /\ calling # NoTick
  /\ IF n = 0 THEN list' = Without(calling) /\ tick' = calling /\ UNCHANGED <<time, rollover, due>>
     ELSE Renew(calling, n) /\ UNCHANGED <<list, tick>>
  /\ calling' = NoTick
  /\ UNCHANGED <<timerVars, tick_rate, nticks>>
CallbackReturns(n) ==
  /\ calling # NoTick
  /\ IF n = 0 THEN list' = Without(calling) /\ UNCHANGED <<time, rollover, due>>
     ELSE /\ Listed(calling) => due[calling] + n < Word
          /\ Renew(calling, n)
          /\ UNCHANGED list
  /\ calling' = NoTick
  /\ UNCHANGED <<timerVars, tick_rate, nticks, tick>>

TickEnds ==
  /\ calling = NoTick /\ tick = ListHead
  /\ tick' = NoTick
  /\ UNCHANGED <<timerVars, tick_rate, nticks, alarmVars, calling>>

TickStep == \/ TickStarts \/ TickPasses \/ TickCalls \/ TickEnds
            \/ \E a \in Alarms : TickStarted(a) \/ TickStopped(a)
            \/ \E n \in Intervals : CallbackReturns(n)

-----------------------------------------------------------------------------
(***************************************************************************)
(* Calls of the program.                                                   *)
(***************************************************************************)

\* It fails without a clock; the caller does not start an alarm twice.
AlarmStart(a) ==
  /\ tick = NoTick /\ tick_rate # 0 /\ ~Listed(a)
  /\ \E n \in Intervals : Start(a, n)
  /\ UNCHANGED <<timerVars, tick_rate, nticks, tick, calling>>

AlarmStop(a) ==
  /\ tick = NoTick /\ Listed(a)
  /\ list' = Without(a)
  /\ UNCHANGED <<timerVars, tick_rate, nticks, time, rollover, due, tick, calling>>

AlarmInit ==
  /\ timedOut = FALSE /\ tick_rate = 0 /\ nticks = 0
  /\ list = << >>
  /\ time = [a \in Alarms |-> 0] /\ rollover = [a \in Alarms |-> FALSE]
  /\ tick = NoTick /\ calling = NoTick
  /\ timeouts = 0 /\ due = [a \in Alarms |-> 0]

AlarmNext ==
  \/ Timeout \/ StartClock \/ TickStep
  \/ \E a \in Alarms : AlarmStart(a) \/ AlarmStop(a)

AlarmSpec == AlarmInit /\ [][AlarmNext]_clockAllVars

\* What the running tick still has to look at.
ToVisit ==
  {list[j] : j \in {k \in 1 .. Len(list) : \E i \in 1 .. k : list[i] = tick}}

\* No time-out that the hardware reported is lost, and none is counted twice.
TicksCounted == nticks = (timeouts - (IF timedOut THEN 1 ELSE 0)) % Word

\* A callback runs at the tick it was asked for, never earlier and never
\* later, across the wrap of the counter and whatever callbacks start and stop,
\* their own alarm too: an alarm that the running tick still has to look at expires
\* exactly if it is due, and no other one is, but for the one whose callback is
\* running.  No tick is lost or counted twice (altera_avalon_timer_sc.c:62).
AlarmsOnTime ==
  /\ TicksCounted
  /\ \A a \in Alarms : Listed(a) =>
       IF a \in ToVisit THEN due[a] >= 0 /\ (Expired(a) <=> due[a] = 0)
                        ELSE due[a] > 0 \/ a = calling

\* A tick ends, and with it the time during which interrupts are disabled.
TicksEnd == (tick # NoTick) ~> (tick = NoTick)
=============================================================================
