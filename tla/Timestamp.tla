----------------------------- MODULE Timestamp -------------------------------
(***************************************************************************)
(* The timestamp with which the firmware measures its throughput: the      *)
(* counter of the interval timer (DE0Qsys_timer.v), clock by clock, and    *)
(* the driver that writes its registers (altera_avalon_timer_ts.c).  The   *)
(* counter is one of 32 bits; its period is written in two halves, and     *)
(* each of these writes stops it and reloads it one clock later.           *)
(***************************************************************************)
EXTENDS Integers, Sequences

CONSTANTS
  Half,       (* 2^16: the values of a half of the period                  *)
  ResetPeriod (* the period after a reset: 99                              *)

ASSUME TimestampConstants == Half \in Nat \ {0, 1} /\ ResetPeriod \in 0 .. Half - 1

\* 0xFFFFFFFF: the full period.
Full == Half * Half - 1

VARIABLES
  counter,    (* internal_counter                                          *)
  periodl, periodh,   (* period_l_register, period_h_register              *)
  force_reload, counter_is_running,
  snap,       (* counter_snapshot                                          *)
  writes,     (* the register writes of alt_timestamp_start still to come  *)
  stamp,      (* what alt_timestamp returned last                          *)
  age,        (* history: clocks since the timer was started               *)
  stampAge    (* history: the age when the snapshot was taken              *)

timestampVars == <<counter, periodl, periodh, force_reload, counter_is_running,
                   snap, writes, stamp, age, stampAge>>

None == "none"
MutStartWrites == <<"stop", "start", "period l", "period h">>   \* started first
StartWrites == <<"stop", "period l", "period h", "start">>

ReloadValue == periodh * Half + periodl

\* One clock, with or without a register write of the driver.
TimerEdge(write) ==
  /\ force_reload' = (write \in {"period l", "period h"})
  /\ counter' = IF force_reload THEN ReloadValue
                ELSE IF ~counter_is_running THEN counter
                ELSE IF counter = 0 THEN ReloadValue
                ELSE counter - 1
  /\ counter_is_running' =
       IF write = "start" THEN TRUE
       ELSE counter_is_running /\ write # "stop" /\ ~force_reload /\ counter # 0
  /\ periodl' = IF write = "period l" THEN Half - 1 ELSE periodl
  /\ periodh' = IF write = "period h" THEN Half - 1 ELSE periodh
  /\ snap' = IF write = "snap" THEN counter ELSE snap
  /\ age' = IF write = "start" THEN 0
            ELSE IF age > Full THEN age ELSE age + 1

\* The processor is busy elsewhere.
TimerRuns == TimerEdge(None) /\ UNCHANGED <<writes, stamp, stampAge>>

\* alt_timestamp_start: not in continuous mode.
TimestampStart ==
  /\ writes = << >>
  /\ TimerEdge(None)
  /\ writes' = StartWrites
  /\ UNCHANGED <<stamp, stampAge>>

StartWrite ==
  /\ writes # << >>
  /\ TimerEdge(Head(writes))
  /\ writes' = Tail(writes)
  /\ stamp' = 0 /\ stampAge' = 0

\* alt_timestamp: a snapshot, whose two halves are then read.
Stamp ==
  /\ writes = << >>
  /\ TimerEdge("snap")
  /\ stamp' = Full - snap'
  /\ stampAge' = age
  /\ UNCHANGED writes

\* The firmware starts the timer before it takes a timestamp.
TimestampInit ==
  /\ counter = ResetPeriod /\ periodl = ResetPeriod /\ periodh = 0
  /\ force_reload = FALSE /\ counter_is_running = FALSE /\ snap = 0
  /\ writes = StartWrites
  /\ stamp = 0 /\ age = 0 /\ stampAge = 0

TimestampNext == TimerRuns \/ TimestampStart \/ StartWrite \/ Stamp
TimestampSpec == TimestampInit /\ [][TimestampNext]_timestampVars
-----------------------------------------------------------------------------

\* A timestamp is the number of clocks since alt_timestamp_start, whatever
\* the timer did before, up to the full period (42.9 s at 100 MHz); from then
\* on it is 0 for ever, and so is the duration of every test.  So the comment of
\* alt_timestamp_start has it (altera_avalon_timer_ts.c:57, "so that the user can
\* detect timer roll-over, i.e. alt_timestamp() returns 0"), and so the code does.
\* The comment of alt_timestamp itself says otherwise (line 91, "In the event that
\* the timer has run full period ... this function return -1"): -1, which is Full in
\* 32 bits, is what the last clock of the period gives, and no later one.
TimestampRight ==
  (writes = << >>) => stamp = (IF stampAge <= Full THEN stampAge ELSE 0)
=============================================================================
