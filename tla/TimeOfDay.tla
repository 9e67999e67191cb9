----------------------------- MODULE TimeOfDay -------------------------------
(***************************************************************************)
(* The time of day that the HAL computes from its tick counter             *)
(* (alt_gettod.c, alt_settod.c), in integers of a few bits: settimeofday   *)
(* keeps the date at which the counter was 0, which may be negative.  The  *)
(* two calls do not run concurrently, as their comments demand.            *)
(***************************************************************************)
EXTENDS Integers

CONSTANTS
  TickWord,   (* 2^32: the values of an alt_u32                            *)
  TickRate,   (* _alt_tick_rate: ticks per second                          *)
  US,         (* ALT_US: microseconds per second                           *)
  Dates,      (* what settimeofday is given: pairs of seconds, microseconds *)
  MaxSets     (* bound: calls of settimeofday                              *)

ASSUME TimeConstants ==
  /\ TickWord \in Nat \ {0} /\ US \in Nat \ {0}
  /\ TickRate \in 1 .. US
  /\ Dates \subseteq Nat \X (0 .. US - 1)
  /\ MaxSets \in Nat

VARIABLES
  ticks,      (* _alt_nticks                                               *)
  resettime,  (* alt_resettime: seconds, microseconds                      *)
  sets,       (* calls of settimeofday                                     *)
  date,       (* history: the date it was given                            *)
  setAt       (* history: the counter at that time, if it has not wrapped  *)

Wrapped == -1
todVars == <<ticks, resettime, sets, date, setAt>>

\* With a rate that does not divide ALT_US, the microseconds of a tick are
\* rounded down.
TickUs == US \div TickRate

Tick ==
  /\ ticks' = (ticks + 1) % TickWord
  /\ setAt' = IF ticks' = 0 THEN Wrapped ELSE setAt
  /\ UNCHANGED <<resettime, sets, date>>

\* The product is one of 32 bits here, and of 64 bits in gettimeofday.
SetTimeOfDay(sec, usec) ==
  /\ sets < MaxSets /\ sets' = sets + 1
  /\ resettime' = <<sec - ticks \div TickRate,
                    usec - (((ticks * TickUs) % TickWord) % US)>>
  /\ date' = <<sec, usec>> /\ setAt' = ticks
  /\ UNCHANGED ticks

\* Borrow and carry; a date before 0 becomes 0.
MutNormal(sec, usec) ==                       \* a borrow is forgotten
  <<IF usec < 0 THEN sec ELSE sec + usec \div US, usec % US>>
Normal(sec, usec) ==
  IF usec < 0 /\ sec + usec \div US < 0 THEN <<0, 0>>
  ELSE <<sec + usec \div US, usec % US>>

GetTimeOfDay ==
  Normal(resettime[1] + ticks \div TickRate,
         resettime[2] + ((ticks * TickUs) % US))

TodInit == /\ ticks = 0 /\ resettime = <<0, 0>>
           /\ sets = 0 /\ date = <<0, 0>> /\ setAt = 0
TodNext == Tick \/ \E d \in Dates : SetTimeOfDay(d[1], d[2])

TodSpec == TodInit /\ [][TodNext]_todVars
-----------------------------------------------------------------------------

\* alt_settod.c:61: "so that an immediate call to gettimeofday() would return
\* the value specified", and a later one the time gone by since, for every
\* date: while the product of settimeofday fits in 32 bits (for ALT_US / rate
\* = 1000 that is 71 minutes after the reset), the counter has not wrapped
\* since, and the rate divides ALT_US.
DateKept ==
  (US % TickRate = 0 /\ setAt # Wrapped /\ setAt * TickUs < TickWord) =>
     GetTimeOfDay[1] * US + GetTimeOfDay[2]
       = date[1] * US + date[2] + (ticks - setAt) * TickUs
=============================================================================
