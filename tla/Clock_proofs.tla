---------------------------- MODULE Clock_proofs ----------------------------
(***************************************************************************)
(* Proofs about time, for any width of the counters and any instants:      *)
(* the timestamp is the time since its start; the time of day moves with   *)
(* the ticks from the date that was set; an alarm's callback runs at the   *)
(* tick it was asked for.                                                  *)
(***************************************************************************)
EXTENDS Timestamp, TimeOfDay, Alarm, SequenceLemmas, TLAPS

-----------------------------------------------------------------------------
(***************************************************************************)
(* The timestamp                                                           *)
(***************************************************************************)

\* The counter once the timer is started: it counts the age down, ends after the
\* full period, and then stays at the full period.
Counts ==
  /\ periodl = Half - 1 /\ periodh = Half - 1 /\ ~force_reload
  /\ age <= Full => counter_is_running /\ counter = Full - age
  /\ age > Full  => ~counter_is_running /\ counter = Full

\* While the driver writes: the timer is stopped, then each half of the period
\* is written, and what is to be reloaded is, before or with the start.
Starts ==
  /\ writes \in {<<"period l", "period h", "start">>, <<"period h", "start">>,
                 <<"start">>} => ~counter_is_running
  /\ writes \in {<<"period h", "start">>, <<"start">>} => periodl = Half - 1
  /\ writes = <<"start">> =>
       periodh = Half - 1 /\ (force_reload \/ counter = Full)

TimestampInv ==
  /\ writes \in {<<"stop", "period l", "period h", "start">>,
                 <<"period l", "period h", "start">>, <<"period h", "start">>,
                 <<"start">>, << >>}
  /\ age \in Nat /\ stampAge \in Nat
  /\ Starts
  /\ writes = << >> => Counts
  /\ TimestampRight

\* The full period is what the two halves make.
LEMMA FullPeriod ==
  /\ Half \in Nat /\ Full \in Nat
  /\ (Half - 1) * Half + (Half - 1) = Full
BY TimestampConstants DEF Full

\* The tails of the driver's list of writes.
LEMMA TailOfFour ==
  ASSUME NEW a, NEW b, NEW c, NEW d
  PROVE  /\ Tail(<<a, b, c, d>>) = <<b, c, d>> /\ Tail(<<b, c, d>>) = <<c, d>>
         /\ Tail(<<c, d>>) = <<d>> /\ Tail(<<d>>) = << >>
<1>. DEFINE S == {a, b, c, d}
<1>1. /\ <<a, b, c, d>> \in Seq(S) /\ <<b, c, d>> \in Seq(S) /\ <<c, d>> \in Seq(S)
      /\ <<d>> \in Seq(S)
  OBVIOUS
<1>. HIDE DEF S
<1>2. Tail(<<a, b, c, d>>) = <<b, c, d>>
  <2>1. /\ Tail(<<a, b, c, d>>) \in Seq(S) /\ Len(Tail(<<a, b, c, d>>)) = 3
        /\ \A i \in 1 .. 3 : Tail(<<a, b, c, d>>)[i] = <<b, c, d>>[i]
    BY <1>1, HeadTailProperties
  <2>. QED BY <1>1, <2>1, SeqEqual
<1>3. Tail(<<b, c, d>>) = <<c, d>>
  <2>1. /\ Tail(<<b, c, d>>) \in Seq(S) /\ Len(Tail(<<b, c, d>>)) = 2
        /\ \A i \in 1 .. 2 : Tail(<<b, c, d>>)[i] = <<c, d>>[i]
    BY <1>1, HeadTailProperties
  <2>. QED BY <1>1, <2>1, SeqEqual
<1>4. Tail(<<c, d>>) = <<d>>
  OBVIOUS
<1>5. Tail(<<d>>) = << >>
  OBVIOUS
<1>. QED BY <1>2, <1>3, <1>4, <1>5

\* The driver's writes, one after the other.
LEMMA Writes ==
  /\ Head(<<"stop", "period l", "period h", "start">>) = "stop"
  /\ Tail(<<"stop", "period l", "period h", "start">>) = <<"period l", "period h", "start">>
  /\ Head(<<"period l", "period h", "start">>) = "period l"
  /\ Tail(<<"period l", "period h", "start">>) = <<"period h", "start">>
  /\ Head(<<"period h", "start">>) = "period h"
  /\ Tail(<<"period h", "start">>) = <<"start">>
  /\ Head(<<"start">>) = "start" /\ Tail(<<"start">>) = << >>
<1>. DEFINE a == "stop"
            b == "period l"
            c == "period h"
            d == "start"
<1>1. /\ Head(<<a, b, c, d>>) = a /\ Head(<<b, c, d>>) = b /\ Head(<<c, d>>) = c
      /\ Head(<<d>>) = d
  OBVIOUS
<1>. HIDE DEF a, b, c, d
<1>2. /\ Tail(<<a, b, c, d>>) = <<b, c, d>> /\ Tail(<<b, c, d>>) = <<c, d>>
      /\ Tail(<<c, d>>) = <<d>> /\ Tail(<<d>>) = << >>
  BY TailOfFour
<1>. QED BY <1>1, <1>2 DEF a, b, c, d

\* A clock without a register write keeps a timer that was started counting.
LEMMA CountsOn ==
  ASSUME TimestampInv, writes = << >>, NEW write \in {None, "snap"}, TimerEdge(write)
  PROVE  Counts' /\ age' \in Nat
<1>1. Counts /\ age \in Nat /\ ReloadValue = Full
  BY FullPeriod DEF TimestampInv, Counts, ReloadValue
<1>2. /\ ~force_reload' /\ periodl' = periodl /\ periodh' = periodh
      /\ counter' = IF ~counter_is_running THEN counter
                    ELSE IF counter = 0 THEN Full ELSE counter - 1
      /\ age' = IF age > Full THEN age ELSE age + 1
  BY <1>1 DEF TimerEdge, Counts, None
<1>3. counter_is_running' = (counter_is_running /\ counter # 0)
  BY <1>1 DEF TimerEdge, Counts, None
<1>4. CASE age > Full
  BY <1>1, <1>2, <1>3, <1>4, FullPeriod DEF Counts
<1>5. CASE age = Full
  <2>1. counter = 0 /\ counter_is_running
    BY <1>1, <1>5, FullPeriod DEF Counts
  <2>2. age' > Full /\ age' \in Nat
    <3>1. age' = age + 1
      BY <1>1, <1>2, <1>5, FullPeriod
    <3>. QED BY <1>5, <3>1, FullPeriod
  <2>3. counter' = Full /\ ~counter_is_running'
    BY <1>2, <1>3, <2>1
  <2>. QED BY <1>1, <1>2, <2>2, <2>3, FullPeriod DEF Counts
<1>6. CASE age < Full
  <2>1. counter = Full - age /\ counter_is_running
    BY <1>1, <1>6, FullPeriod DEF Counts
  <2>2. age' = age + 1 /\ age' <= Full /\ counter' = Full - age'
    BY <1>1, <1>2, <1>6, <2>1, FullPeriod
  <2>3. counter_is_running'
    <3>1. counter # 0
      BY <1>1, <1>6, <2>1, FullPeriod
    <3>. QED BY <1>3, <2>1, <3>1
  <2>. QED BY <1>1, <1>2, <2>2, <2>3, FullPeriod DEF Counts
<1>. QED BY <1>1, <1>4, <1>5, <1>6, FullPeriod

\* A clock between the writes keeps what they have set up.
LEMMA StartsOn ==
  ASSUME TimestampInv, TimerEdge(None), writes' = writes
  PROVE  Starts' /\ age' \in Nat
<1>1. /\ periodl' = periodl /\ periodh' = periodh /\ ~force_reload'
      /\ age' = IF age > Full THEN age ELSE age + 1
  BY DEF TimerEdge, None
<1>2. counter_is_running' => counter_is_running
  BY DEF TimerEdge, None
<1>3. writes = <<"start">> => counter' = Full
  <2>1. SUFFICES ASSUME writes = <<"start">> PROVE counter' = Full
    OBVIOUS
  <2>2. /\ ~counter_is_running /\ ReloadValue = Full
        /\ force_reload \/ counter = Full
    BY <2>1, FullPeriod DEF TimestampInv, Starts, ReloadValue
  <2>. QED BY <2>2 DEF TimerEdge
<1>4. age' \in Nat
  <2>1. age' = age \/ age' = age + 1
    BY <1>1
  <2>2. age \in Nat
    BY DEF TimestampInv
  <2>. QED BY <2>1, <2>2
<1>. QED BY <1>1, <1>2, <1>3, <1>4 DEF TimestampInv, Starts

\* The processor is busy elsewhere.
LEMMA RunsKept ==
  ASSUME TimestampInv, TimerRuns
  PROVE  TimestampInv'
<1>1. TimerEdge(None) /\ UNCHANGED <<writes, stamp, stampAge>>
  BY DEF TimerRuns
<1>3. writes' = << >> => Counts'
  BY <1>1, CountsOn DEF None
<1>4. Starts' /\ age' \in Nat
  BY <1>1, StartsOn
<1>5. TimestampRight'
  BY <1>1 DEF TimestampInv, TimestampRight, Full
<1>. QED BY <1>1, <1>3, <1>4, <1>5 DEF TimestampInv

\* alt_timestamp_start, while the timer runs or after its end.
LEMMA StartKept ==
  ASSUME TimestampInv, TimestampStart
  PROVE  TimestampInv'
<1>1. TimerEdge(None) /\ writes = << >> /\ UNCHANGED <<stamp, stampAge>>
      /\ writes' = <<"stop", "period l", "period h", "start">>
  BY DEF TimestampStart, StartWrites
<1>3. age' \in Nat
  BY <1>1, CountsOn DEF None
<1>4. writes' # << >> /\ writes' # <<"start">> /\ writes' # <<"period h", "start">>
      /\ writes' # <<"period l", "period h", "start">>
  BY <1>1
<1>. QED BY <1>1, <1>3, <1>4 DEF TimestampInv, Starts, TimestampRight

\* One write of the four.
LEMMA WriteKept ==
  ASSUME TimestampInv, StartWrite
  PROVE  TimestampInv'
<1>1. /\ writes # << >> /\ TimerEdge(Head(writes)) /\ writes' = Tail(writes)
      /\ stamp' = 0 /\ stampAge' = 0
  BY DEF StartWrite
<1>3. age' \in Nat
  <2>1. age' = 0 \/ age' = age \/ age' = age + 1
    BY <1>1 DEF TimerEdge
  <2>2. age \in Nat
    BY DEF TimestampInv
  <2>. QED BY <2>1, <2>2
<1>4. TimestampRight'
  BY <1>1, FullPeriod DEF TimestampRight
<1>5. CASE writes = <<"stop", "period l", "period h", "start">>
  <2>1. Head(writes) = "stop" /\ writes' = <<"period l", "period h", "start">>
    BY <1>1, <1>5, Writes
  <2>2. ~counter_is_running'
    BY <1>1, <2>1 DEF TimerEdge
  <2>3. writes' # << >> /\ writes' # <<"start">> /\ writes' # <<"period h", "start">>
    BY <2>1
  <2>. QED BY <1>1, <1>3, <1>4, <2>1, <2>2, <2>3 DEF TimestampInv, Starts
<1>6. CASE writes = <<"period l", "period h", "start">>
  <2>1. Head(writes) = "period l" /\ writes' = <<"period h", "start">>
    BY <1>1, <1>6, Writes
  <2>2. ~counter_is_running' /\ periodl' = Half - 1
    BY <1>1, <1>6, <2>1 DEF TimerEdge, TimestampInv, Starts
  <2>3. writes' # << >> /\ writes' # <<"start">>
    BY <2>1
  <2>. QED BY <1>1, <1>3, <1>4, <2>1, <2>2, <2>3 DEF TimestampInv, Starts
<1>7. CASE writes = <<"period h", "start">>
  <2>1. Head(writes) = "period h" /\ writes' = <<"start">>
    BY <1>1, <1>7, Writes
  <2>2. ~counter_is_running' /\ periodl' = Half - 1 /\ periodh' = Half - 1
    BY <1>1, <1>7, <2>1 DEF TimerEdge, TimestampInv, Starts
  <2>3. force_reload'
    BY <1>1, <2>1 DEF TimerEdge
  <2>4. writes' # << >>
    BY <2>1
  <2>. QED BY <1>1, <1>3, <1>4, <2>1, <2>2, <2>3, <2>4 DEF TimestampInv, Starts
<1>8. CASE writes = <<"start">>
  <2>1. Head(writes) = "start" /\ writes' = << >>
    BY <1>1, <1>8, Writes
  <2>2. /\ ~counter_is_running /\ periodl = Half - 1 /\ periodh = Half - 1
        /\ force_reload \/ counter = Full
        /\ ReloadValue = Full
    BY <1>8, FullPeriod DEF TimestampInv, Starts, ReloadValue
  <2>3. /\ counter' = Full /\ age' = 0 /\ periodl' = Half - 1 /\ periodh' = Half - 1
        /\ ~force_reload' /\ counter_is_running'
    BY <1>1, <2>1, <2>2 DEF TimerEdge
  <2>4. Counts'
    BY <2>3, FullPeriod DEF Counts
  <2>5. writes' # <<"start">> /\ writes' # <<"period h", "start">>
        /\ writes' # <<"period l", "period h", "start">>
    BY <2>1
  <2>. QED BY <1>1, <1>3, <1>4, <2>1, <2>4, <2>5 DEF TimestampInv, Starts
<1>. QED BY <1>1, <1>5, <1>6, <1>7, <1>8 DEF TimestampInv

\* A snapshot of the counter tells the age.
LEMMA StampKept ==
  ASSUME TimestampInv, Stamp
  PROVE  TimestampInv'
<1>1. /\ writes = << >> /\ TimerEdge("snap") /\ writes' = writes
      /\ stamp' = Full - snap' /\ stampAge' = age
  BY DEF Stamp
<1>3. Counts' /\ age' \in Nat
  BY <1>1, CountsOn
<1>4. snap' = counter /\ age \in Nat /\ Counts
  BY <1>1 DEF TimerEdge, TimestampInv
<1>5. TimestampRight'
  <2>1. age <= Full => Full - counter = age
    BY <1>4, FullPeriod DEF Counts
  <2>2. age > Full => Full - counter = 0
    BY <1>4, FullPeriod DEF Counts
  <2>3. Full' = Full
    BY DEF Full
  <2>4. age <= Full \/ age > Full
    BY <1>4, FullPeriod
  <2>. QED BY <1>1, <1>4, <2>1, <2>2, <2>3, <2>4 DEF TimestampRight
<1>6. writes' # <<"start">> /\ writes' # <<"period h", "start">>
      /\ writes' # <<"period l", "period h", "start">>
  BY <1>1
<1>. QED BY <1>1, <1>3, <1>4, <1>5, <1>6 DEF TimestampInv, Starts

\* A timestamp is the number of clocks since alt_timestamp_start, up to the full
\* period, and 0 from then on; the reload that the writes of the period cause is
\* over, or coincides with the start, whatever time passes between them.
THEOREM StampsRight == TimestampSpec => []TimestampRight
<1>1. TimestampInit => TimestampInv
  <2>1. SUFFICES ASSUME TimestampInit PROVE TimestampInv
    OBVIOUS
  <2>2. writes = <<"stop", "period l", "period h", "start">>
    BY <2>1 DEF TimestampInit, StartWrites
  <2>3. writes # << >> /\ writes # <<"start">> /\ writes # <<"period h", "start">>
        /\ writes # <<"period l", "period h", "start">>
    BY <2>2
  <2>5. age \in Nat /\ stampAge \in Nat
    BY <2>1 DEF TimestampInit
  <2>. QED BY <2>2, <2>3, <2>5 DEF TimestampInv, Starts, TimestampRight
<1>2. TimestampInv /\ [TimestampNext]_timestampVars => TimestampInv'
  <2>1. CASE TimestampInv /\ TimestampNext
    BY <2>1, RunsKept, StartKept, WriteKept, StampKept DEF TimestampNext
  <2>2. CASE TimestampInv /\ UNCHANGED timestampVars
    BY <2>2 DEF timestampVars, TimestampInv, Starts, Counts, TimestampRight, Full
  <2>. QED BY <2>1, <2>2
<1>3. TimestampInv => TimestampRight
  BY DEF TimestampInv
<1>. QED BY <1>1, <1>2, <1>3, PTL DEF TimestampSpec

-----------------------------------------------------------------------------
(***************************************************************************)
(* The time of day                                                         *)
(***************************************************************************)

LEMMA Multiples ==
  ASSUME NEW a \in Nat, NEW b \in Nat, a <= b, NEW c \in Nat
  PROVE  a * c <= b * c
OBVIOUS

\* The time of a number of ticks, of which TickUs microseconds are one.
LEMMA TicksSplit ==
  ASSUME NEW r \in Nat \ {0}, NEW q \in Nat \ {0}, NEW x \in Nat
  PROVE  (x \div r) * (r * q) + ((x * q) % (r * q)) = x * q
<1>. DEFINE d == x \div r
            m == x % r
            u == r * q
<1>1. d \in Int /\ m \in 0 .. r - 1 /\ x = r * d + m
  BY Division
<1>2. u \in Nat \ {0}
  OBVIOUS
<1>. HIDE DEF d, m
<1>3. m * q \in 0 .. u - 1
  <2>1. m \in Nat /\ m + 1 \in Nat /\ m + 1 <= r
    BY <1>1
  <2>2. (m + 1) * q <= r * q
    BY <2>1, Multiples
  <2>3. (m + 1) * q = m * q + q /\ m * q \in Nat
    BY <2>1
  <2>. QED BY <2>2, <2>3
<1>4. x * q = u * d + m * q
  BY <1>1
<1>. HIDE DEF u
<1>5. (x * q) % u = m * q
  BY <1>1, <1>2, <1>3, <1>4, DivisionUnique
<1>6. d * u + ((x * q) % u) = x * q
  BY <1>1, <1>2, <1>3, <1>4, <1>5
<1>. QED BY <1>6 DEF d, u

\* What settimeofday kept is the date less the time since the counter was 0, unless
\* its product overflowed.
TodTypeOK ==
  /\ ticks \in 0 .. TickWord - 1
  /\ resettime \in Int \X Int
  /\ date \in Nat \X (0 .. US - 1)
  /\ setAt = Wrapped \/ setAt \in 0 .. ticks

TodInv ==
  /\ TodTypeOK
  /\ setAt # Wrapped /\ setAt * TickUs < TickWord =>
       resettime = <<date[1] - setAt \div TickRate, date[2] - ((setAt * TickUs) % US)>>

LEMMA TimeFacts ==
  /\ TickWord \in Nat \ {0} /\ US \in Nat \ {0} /\ TickRate \in Nat \ {0} /\ TickRate <= US
  /\ TickUs \in Nat
  /\ US % TickRate = 0 => US = TickRate * TickUs /\ TickUs \in Nat \ {0}
<1>1. TickWord \in Nat \ {0} /\ US \in Nat \ {0} /\ TickRate \in Nat \ {0} /\ TickRate <= US
  BY TimeConstants
<1>2. /\ TickUs \in Int /\ US % TickRate \in 0 .. TickRate - 1
      /\ US = TickRate * TickUs + (US % TickRate)
  BY <1>1, Division DEF TickUs
<1>3. TickUs >= 0
  <2>1. TickUs <= -1 => TickRate * TickUs <= -TickRate
    BY <1>1, <1>2
  <2>. QED BY <2>1, <1>1, <1>2
<1>4. TickUs = 0 => TickRate * TickUs = 0
  BY <1>1
<1>. QED BY <1>1, <1>2, <1>3, <1>4

LEMMA TodStarts == TodInit => TodInv
<1>. SUFFICES ASSUME TodInit PROVE TodInv
  OBVIOUS
<1>1. TodTypeOK
  BY TimeFacts DEF TodInit, TodTypeOK
<1>2. 0 \div TickRate = 0 /\ (0 * TickUs) % US = 0
  <2>1. 0 \div TickRate = 0 /\ 0 % US = 0
    <3>1. TickRate * 0 + 0 = 0 /\ US * 0 + 0 = 0 /\ 0 \in 0 .. TickRate - 1 /\ 0 \in 0 .. US - 1
      BY TimeFacts
    <3>. QED BY <3>1, TimeFacts, DivisionUnique
  <2>2. 0 * TickUs = 0
    BY TimeFacts
  <2>. QED BY <2>1, <2>2
<1>. QED BY <1>1, <1>2 DEF TodInit, TodInv

LEMMA TodStep == TodInv /\ [TodNext]_todVars => TodInv'
<1>. SUFFICES ASSUME TodInv, [TodNext]_todVars PROVE TodInv'
  OBVIOUS
<1>. USE TimeFacts DEF TodInv
<1>1. ticks \in Nat /\ ticks < TickWord
  BY DEF TodTypeOK
<1>2. CASE Tick
  <2>1. ticks' \in 0 .. TickWord - 1 /\ (ticks' = 0 \/ ticks' = ticks + 1)
    <3>1. CASE ticks + 1 = TickWord
      <4>1. TickWord * 1 + 0 = TickWord /\ 0 \in 0 .. TickWord - 1
        OBVIOUS
      <4>2. TickWord % TickWord = 0
        BY <4>1, DivisionUnique
      <4>. QED BY <3>1, <4>1, <4>2, <1>2 DEF Tick
    <3>2. CASE ticks + 1 < TickWord
      <4>1. TickWord * 0 + (ticks + 1) = ticks + 1 /\ ticks + 1 \in 0 .. TickWord - 1
        BY <3>2, <1>1
      <4>2. (ticks + 1) % TickWord = ticks + 1
        BY <4>1, DivisionUnique
      <4>. QED BY <4>1, <4>2, <1>2 DEF Tick
    <3>. QED BY <3>1, <3>2, <1>1
  <2>2. setAt' = Wrapped \/ (setAt' = setAt /\ ticks' = ticks + 1)
    BY <1>2, <2>1 DEF Tick
  <2>3. TodTypeOK'
    BY <1>2, <2>1, <2>2 DEF Tick, TodTypeOK
  <2>. QED BY <1>2, <2>2, <2>3 DEF Tick
<1>3. ASSUME NEW d \in Dates, SetTimeOfDay(d[1], d[2]) PROVE TodInv'
  <2>1. d \in Nat \X (0 .. US - 1)
    BY TimeConstants
  <2>. DEFINE p == ticks * TickUs
  <2>2. p \in Nat
    BY <1>1
  <2>3. /\ ticks \div TickRate \in Int /\ p % TickWord \in Nat
        /\ (p % TickWord) % US \in Int
    BY <1>1, <2>2, Division
  <2>4. /\ resettime' = <<d[1] - ticks \div TickRate, d[2] - ((p % TickWord) % US)>>
        /\ date' = <<d[1], d[2]>> /\ setAt' = ticks /\ ticks' = ticks
    BY <1>3 DEF SetTimeOfDay
  <2>5. p < TickWord => p % TickWord = p
    <3>1. p < TickWord => TickWord * 0 + p = p /\ p \in 0 .. TickWord - 1
      BY <2>2
    <3>. QED BY <3>1, DivisionUnique
  <2>6. TodTypeOK'
    BY <2>1, <2>3, <2>4, <1>1 DEF TodTypeOK
  <2>7. setAt' * TickUs = p
    BY <2>4
  <2>. HIDE DEF p
  <2>. QED BY <2>4, <2>5, <2>6, <2>7
<1>4. CASE UNCHANGED todVars
  BY <1>4 DEF todVars, TodTypeOK
<1>. QED BY <1>2, <1>3, <1>4 DEF TodNext

\* gettimeofday's borrow and carry keep the number of microseconds, unless the
\* date is before 0.
LEMMA NormalKeeps ==
  ASSUME NEW sec \in Int, NEW usec \in Int, sec * US + usec >= 0
  PROVE  Normal(sec, usec)[1] * US + Normal(sec, usec)[2] = sec * US + usec
<1>. USE TimeFacts
<1>. DEFINE k == usec \div US
            m == usec % US
<1>1. k \in Int /\ m \in 0 .. US - 1 /\ usec = US * k + m
  BY Division
<1>. HIDE DEF k, m
<1>2. sec * US + usec = (sec + k) * US + m
  BY <1>1
<1>3. sec + k >= 0
  <2>1. sec + k <= -1 => (sec + k) * US <= -US
    BY <1>1
  <2>. QED BY <2>1, <1>1, <1>2
<1>4. Normal(sec, usec) = <<sec + k, m>>
  BY <1>1, <1>3 DEF Normal, k, m
<1>. QED BY <1>1, <1>2, <1>4

LEMMA NatTimes == \A a, b \in Nat : a * b \in Nat
OBVIOUS

\* The microseconds of a date, moved from x ticks to y ticks.
LEMMA TimeMoved ==
  ASSUME NEW a \in Nat, NEW b \in Nat, NEW u \in Nat, NEW s \in Int, NEW t \in Int,
         NEW su \in Int, NEW tu \in Int, NEW x \in Int, NEW y \in Int,
         s * u + su = x, t * u + tu = y
  PROVE  ((a - s) + t) * u + ((b - su) + tu) = (a * u + b) + (y - x)
<1>1. ((a - s) + t) * u = a * u - s * u + t * u
  OBVIOUS
<1>. QED BY <1>1

DateIs(a, b, u, q, x, y, sec, usec) ==
  /\ sec \in Int /\ usec \in Int
  /\ sec * u + usec = (a * u + b) + (y - x) * q
  /\ (a * u + b) + (y - x) * q >= 0

LEMMA DateMoved ==
  ASSUME NEW a \in Nat, NEW b \in Nat, NEW r \in Nat \ {0}, NEW q \in Nat \ {0},
         NEW u \in Nat, u = r * q, NEW x \in Nat, NEW y \in Nat, x <= y,
         NEW sec, NEW usec,
         sec = (a - x \div r) + y \div r,
         usec = (b - ((x * q) % u)) + ((y * q) % u)
  PROVE  DateIs(a, b, u, q, x, y, sec, usec)
<1>. DEFINE s == x \div r
            t == y \div r
            su == (x * q) % u
            tu == (y * q) % u
            p == x * q
            n == y * q
            v == (y - x) * q
<1>1. s * (r * q) + ((x * q) % (r * q)) = x * q /\ t * (r * q) + ((y * q) % (r * q)) = y * q
  BY TicksSplit
<1>2. s * u + su = p /\ t * u + tu = n
  BY <1>1
<1>3. p \in Nat /\ n \in Nat /\ u \in Nat \ {0} /\ v = n - p
  OBVIOUS
<1>4. s \in Int /\ t \in Int
  BY Division
<1>. HIDE DEF s, t, p, n
<1>5. su \in Int /\ tu \in Int
  BY <1>3, Division DEF p, n
<1>6. v \in Nat /\ a * u \in Nat
  <2>1. y - x \in Nat /\ q \in Nat
    OBVIOUS
  <2>. QED BY <2>1, NatTimes
<1>. HIDE DEF su, tu, v
<1>7. sec = (a - s) + t /\ usec = (b - su) + tu
  BY DEF s, t, su, tu
<1>8. ((a - s) + t) * u + ((b - su) + tu) = (a * u + b) + (n - p)
  BY <1>2, <1>3, <1>4, <1>5, TimeMoved
<1>9. sec \in Int /\ usec \in Int
  BY <1>4, <1>5, <1>7
<1>10. (a * u + b) + v >= 0
  <2>. DEFINE w == a * u
  <2>1. w \in Nat
    BY <1>6
  <2>. HIDE DEF w
  <2>2. (w + b) + v >= 0
    BY <2>1, <1>6
  <2>. QED BY <2>2 DEF w
<1>11. sec * u + usec = (a * u + b) + v
  BY <1>3, <1>7, <1>8
<1>. QED BY <1>9, <1>10, <1>11 DEF v, DateIs

\* gettimeofday returns the date that settimeofday was given and the time gone by
\* since, to the microsecond, for every date, every rate that divides the second
\* and any width of the counter (alt_settod.c:61), while the counter has not
\* wrapped and the product of settimeofday fits.
THEOREM DatesKept == TodSpec => []DateKept
<1>1. TodSpec => []TodInv
  BY TodStarts, TodStep, PTL DEF TodSpec
<1>2. ASSUME TodInv, US % TickRate = 0, setAt # Wrapped, setAt * TickUs < TickWord
      PROVE  GetTimeOfDay[1] * US + GetTimeOfDay[2]
               = (date[1] * US + date[2]) + (ticks - setAt) * TickUs
  <2>1. /\ setAt \in Nat /\ ticks \in Nat /\ setAt <= ticks
        /\ date[1] \in Nat /\ date[2] \in Nat
    BY <1>2, TimeFacts DEF TodInv, TodTypeOK
  <2>2. US = TickRate * TickUs /\ TickUs \in Nat \ {0} /\ TickRate \in Nat \ {0} /\ US \in Nat
    BY <1>2, TimeFacts
  <2>. DEFINE sec  == (date[1] - setAt \div TickRate) + ticks \div TickRate
              usec == (date[2] - ((setAt * TickUs) % US)) + ((ticks * TickUs) % US)
  <2>3. resettime = <<date[1] - setAt \div TickRate, date[2] - ((setAt * TickUs) % US)>>
    BY <1>2 DEF TodInv
  <2>4. GetTimeOfDay = Normal(sec, usec)
    BY <2>3 DEF GetTimeOfDay
  <2>. HIDE DEF sec, usec
  <2>5. /\ sec \in Int /\ usec \in Int
        /\ sec * US + usec = (date[1] * US + date[2]) + (ticks - setAt) * TickUs
        /\ (date[1] * US + date[2]) + (ticks - setAt) * TickUs >= 0
    <3>. DEFINE a == date[1]
                b == date[2]
    <3>1. /\ a \in Nat /\ b \in Nat
          /\ sec = (a - setAt \div TickRate) + ticks \div TickRate
          /\ usec = (b - ((setAt * TickUs) % US)) + ((ticks * TickUs) % US)
      BY <2>1 DEF sec, usec
    <3>. HIDE DEF a, b
    <3>2. DateIs(a, b, US, TickUs, setAt, ticks, sec, usec)
      BY <2>1, <2>2, <3>1, DateMoved
    <3>. QED BY <3>2 DEF a, b, DateIs
  <2>6. sec * US + usec >= 0
    BY <2>5
  <2>7. Normal(sec, usec)[1] * US + Normal(sec, usec)[2] = sec * US + usec
    BY <2>5, <2>6, NormalKeeps
  <2>. QED BY <2>4, <2>5, <2>7
<1>3. TodInv => DateKept
  BY <1>2 DEF DateKept
<1>. QED BY <1>1, <1>3, PTL

-----------------------------------------------------------------------------
(***************************************************************************)
(* Alarms                                                                  *)
(***************************************************************************)

\* The entries of a list, none of them twice, and those from t on.
In(l, a)    == \E j \in 1 .. Len(l) : l[j] = a
OnceEach(l) == \A i, j \in 1 .. Len(l) : l[i] = l[j] => i = j
From(l, t)  == {l[j] : j \in {k \in 1 .. Len(l) : \E i \in 1 .. k : l[i] = t}}

\* A list without the entry at p, as alt_llist_remove leaves it.
Unlinked(l, p) == SubSeq(l, 1, p - 1) \o SubSeq(l, p + 1, Len(l))

LEMMA FromAt ==
  ASSUME NEW S, NEW l \in Seq(S), OnceEach(l), NEW p \in 1 .. Len(l)
  PROVE  \A j \in 1 .. Len(l) : l[j] \in From(l, l[p]) <=> p <= j
<1>1. Len(l) \in Nat
  OBVIOUS
<1>2. ASSUME NEW j \in 1 .. Len(l), l[j] \in From(l, l[p]) PROVE p <= j
  <2>1. PICK k \in 1 .. Len(l) : l[k] = l[j] /\ \E i \in 1 .. k : l[i] = l[p]
    BY <1>2 DEF From
  <2>2. PICK i \in 1 .. k : l[i] = l[p]
    BY <2>1
  <2>3. k = j
    BY <2>1 DEF OnceEach
  <2>4. i \in 1 .. Len(l) /\ i = p
    BY <1>1, <2>2 DEF OnceEach
  <2>. QED BY <2>3, <2>4
<1>3. ASSUME NEW j \in 1 .. Len(l), p <= j PROVE l[j] \in From(l, l[p])
  <2>1. p \in 1 .. j
    BY <1>1, <1>3
  <2>. QED BY <2>1 DEF From
<1>. QED BY <1>2, <1>3

LEMMA FromNone ==
  ASSUME NEW S, NEW l \in Seq(S), NEW t, t \notin S
  PROVE  From(l, t) = {}
<1>1. \A j \in 1 .. Len(l) : \A i \in 1 .. j : i \in 1 .. Len(l) /\ l[i] \in S
  OBVIOUS
<1>. QED BY <1>1 DEF From

\* What comes after an entry.
LEMMA FromNext ==
  ASSUME NEW S, NEW l \in Seq(S), OnceEach(l), NEW p \in 1 .. Len(l), NEW h, h \notin S
  PROVE  \A j \in 1 .. Len(l) :
           l[j] \in From(l, IF p = Len(l) THEN h ELSE l[p + 1])
             <=> l[j] \in From(l, l[p]) /\ l[j] # l[p]
<1>1. \A j \in 1 .. Len(l) : l[j] \in From(l, l[p]) <=> p <= j
  BY FromAt
<1>2. \A j \in 1 .. Len(l) : l[j] = l[p] <=> j = p
  BY DEF OnceEach
<1>3. CASE p = Len(l)
  BY <1>1, <1>2, <1>3, FromNone
<1>4. CASE p # Len(l)
  <2>1. p + 1 \in 1 .. Len(l)
    BY <1>4
  <2>2. \A j \in 1 .. Len(l) : l[j] \in From(l, l[p + 1]) <=> p + 1 <= j
    BY <2>1, FromAt
  <2>. QED BY <1>1, <1>2, <1>4, <2>2
<1>. QED BY <1>3, <1>4

LEMMA UnlinkedIs ==
  ASSUME NEW S, NEW l \in Seq(S), NEW p \in 1 .. Len(l)
  PROVE  /\ Unlinked(l, p) \in Seq(S) /\ Len(Unlinked(l, p)) = Len(l) - 1 /\ Len(l) \in Nat
         /\ \A j \in 1 .. Len(l) - 1 : Unlinked(l, p)[j] = IF j < p THEN l[j] ELSE l[j + 1]
<1>. DEFINE n == Len(l)
            x == SubSeq(l, 1, p - 1)
            y == SubSeq(l, p + 1, n)
<1>1. n \in Nat /\ p \in 1 .. n /\ \A i \in 1 .. n : l[i] \in S
  OBVIOUS
<1>2. x \in Seq(S) /\ Len(x) = p - 1 /\ \A i \in 1 .. p - 1 : x[i] = l[i]
  <2>1. /\ 1 \in Int /\ p - 1 \in Int /\ \A i \in 1 .. p - 1 : l[i] \in S
        /\ p - 1 = (p - 1) - 1 + 1 /\ p - 1 >= 0
    BY <1>1
  <2>2. /\ x \in Seq(S) /\ Len(x) = IF 1 <= p - 1 THEN (p - 1) - 1 + 1 ELSE 0
        /\ \A i \in 1 .. (p - 1) - 1 + 1 : x[i] = l[1 + i - 1]
    BY <2>1, SubSeqProperties
  <2>. DEFINE lx == Len(x)
  <2>3. lx = IF 1 <= p - 1 THEN (p - 1) - 1 + 1 ELSE 0
    BY <2>2
  <2>. HIDE DEF lx, x
  <2>4. lx = p - 1
    BY <2>1, <2>3
  <2>5. ASSUME NEW i \in 1 .. p - 1 PROVE x[i] = l[i]
    <3>1. i \in 1 .. (p - 1) - 1 + 1 /\ 1 + i - 1 = i
      BY <2>1
    <3>. QED BY <2>2, <3>1
  <2>. QED BY <2>2, <2>4, <2>5 DEF lx
<1>3. y \in Seq(S) /\ Len(y) = n - p /\ \A i \in 1 .. n - p : y[i] = l[p + i]
  <2>1. /\ p + 1 \in Int /\ n \in Int /\ \A i \in p + 1 .. n : l[i] \in S
        /\ n - p >= 0 /\ p \in Nat
    BY <1>1
  <2>2. /\ y \in Seq(S) /\ Len(y) = IF p + 1 <= n THEN n - (p + 1) + 1 ELSE 0
        /\ \A i \in 1 .. n - (p + 1) + 1 : y[i] = l[(p + 1) + i - 1]
    BY <2>1, SubSeqProperties
  <2>. DEFINE ly == Len(y)
  <2>3. ly = IF p + 1 <= n THEN n - (p + 1) + 1 ELSE 0
    BY <2>2
  <2>. HIDE DEF ly, y, n
  <2>4. ly = n - p
    BY <2>1, <2>3
  <2>5. ASSUME NEW i \in 1 .. n - p PROVE y[i] = l[p + i]
    <3>1. i \in 1 .. n - (p + 1) + 1 /\ (p + 1) + i - 1 = p + i
      BY <2>1
    <3>. QED BY <2>2, <3>1
  <2>. QED BY <2>2, <2>4, <2>5 DEF ly
<1>4. Unlinked(l, p) = x \o y
  BY DEF Unlinked
<1>. HIDE DEF x, y, n
<1>5. /\ x \o y \in Seq(S) /\ Len(x \o y) = Len(x) + Len(y)
      /\ \A i \in 1 .. Len(x) + Len(y) :
           (x \o y)[i] = IF i <= Len(x) THEN x[i] ELSE y[i - Len(x)]
  BY <1>2, <1>3, ConcatProperties
<1>6. Len(x) + Len(y) = n - 1
  BY <1>1, <1>2, <1>3
<1>7. ASSUME NEW j \in 1 .. n - 1 PROVE (x \o y)[j] = IF j < p THEN l[j] ELSE l[j + 1]
  <2>1. (x \o y)[j] = IF j <= p - 1 THEN x[j] ELSE y[j - (p - 1)]
    BY <1>2, <1>5, <1>6
  <2>2. CASE j < p
    <3>1. j \in 1 .. p - 1 /\ j <= p - 1
      BY <1>1, <2>2
    <3>. QED BY <1>2, <2>1, <2>2, <3>1
  <2>3. CASE ~(j < p)
    <3>1. j - (p - 1) \in 1 .. n - p /\ ~(j <= p - 1) /\ p + (j - (p - 1)) = j + 1
      BY <1>1, <2>3
    <3>. QED BY <1>3, <2>1, <2>3, <3>1
  <2>. QED BY <2>2, <2>3
<1>. QED BY <1>1, <1>4, <1>5, <1>6, <1>7 DEF n

LEMMA UnlinkedKeeps ==
  ASSUME NEW S, NEW l \in Seq(S), OnceEach(l), NEW p \in 1 .. Len(l)
  PROVE  /\ OnceEach(Unlinked(l, p))
         /\ \A a : In(Unlinked(l, p), a) <=> In(l, a) /\ a # l[p]
         /\ \A q \in 1 .. Len(l) : q # p =>
              \A a : In(Unlinked(l, p), a) =>
                (a \in From(Unlinked(l, p), l[q]) <=> a \in From(l, l[q]))
<1>. DEFINE m == Unlinked(l, p)
            n == Len(l)
            f(j) == IF j < p THEN j ELSE j + 1
            g(q) == IF q < p THEN q ELSE q - 1
<1>1. /\ m \in Seq(S) /\ Len(m) = n - 1 /\ n \in Nat /\ p \in 1 .. n
      /\ \A j \in 1 .. n - 1 : m[j] = l[f(j)] /\ f(j) \in 1 .. n /\ f(j) # p
  <2>1. /\ m \in Seq(S) /\ Len(m) = n - 1 /\ n \in Nat /\ p \in 1 .. n
        /\ \A j \in 1 .. n - 1 : m[j] = IF j < p THEN l[j] ELSE l[j + 1]
    BY UnlinkedIs
  <2>. HIDE DEF m, n
  <2>2. \A j \in 1 .. n - 1 : f(j) \in 1 .. n /\ f(j) # p
    BY <2>1
  <2>3. \A j \in 1 .. n - 1 : m[j] = l[f(j)]
    BY <2>1
  <2>. QED BY <2>1, <2>2, <2>3
<1>. HIDE DEF m, n
<1>2. \A i, j \in 1 .. n - 1 : (f(i) = f(j) <=> i = j) /\ (f(i) <= f(j) <=> i <= j)
  BY <1>1
<1>3. \A q \in 1 .. n : q # p => g(q) \in 1 .. n - 1 /\ f(g(q)) = q /\ m[g(q)] = l[q]
  <2>1. \A q \in 1 .. n : q # p => g(q) \in 1 .. n - 1 /\ f(g(q)) = q
    BY <1>1
  <2>. QED BY <2>1, <1>1
<1>4. \A i, j \in 1 .. n : l[i] = l[j] => i = j
  BY DEF OnceEach, n
<1>. HIDE DEF f, g
<1>5. OnceEach(m)
  BY <1>1, <1>2, <1>4 DEF OnceEach
<1>6. \A a : In(m, a) <=> In(l, a) /\ a # l[p]
  <2>1. ASSUME NEW a, In(m, a) PROVE In(l, a) /\ a # l[p]
    <3>1. PICK j \in 1 .. n - 1 : m[j] = a
      BY <1>1, <2>1 DEF In
    <3>. QED BY <1>1, <1>4, <3>1 DEF In, n
  <2>2. ASSUME NEW a, In(l, a), a # l[p] PROVE In(m, a)
    <3>1. PICK q \in 1 .. n : l[q] = a
      BY <2>2 DEF In, n
    <3>. QED BY <1>1, <1>3, <2>2, <3>1 DEF In
  <2>. QED BY <2>1, <2>2
<1>7. ASSUME NEW q \in 1 .. n, q # p, NEW a, In(m, a)
      PROVE  a \in From(m, l[q]) <=> a \in From(l, l[q])
  <2>1. PICK j \in 1 .. n - 1 : m[j] = a
    BY <1>1, <1>7 DEF In
  <2>2. g(q) \in 1 .. Len(m) /\ m[g(q)] = l[q] /\ f(g(q)) = q /\ j \in 1 .. Len(m)
    BY <1>1, <1>3, <1>7
  <2>3. m[j] \in From(m, m[g(q)]) <=> g(q) <= j
    BY <1>1, <1>5, <2>2, FromAt
  <2>4. l[f(j)] \in From(l, l[q]) <=> q <= f(j)
    <3>1. f(j) \in 1 .. Len(l) /\ q \in 1 .. Len(l)
      BY <1>1, <1>7 DEF n
    <3>. QED BY <3>1, FromAt
  <2>5. g(q) <= j <=> q <= f(j)
    BY <1>1, <1>2, <2>2
  <2>. QED BY <1>1, <2>1, <2>2, <2>3, <2>4, <2>5
<1>. QED BY <1>5, <1>6, <1>7 DEF m, n

LEMMA LinkedKeeps ==
  ASSUME NEW S, NEW l \in Seq(S), OnceEach(l), NEW b \in S, ~In(l, b)
  PROVE  /\ <<b>> \o l \in Seq(S) /\ OnceEach(<<b>> \o l)
         /\ \A a : In(<<b>> \o l, a) <=> In(l, a) \/ a = b
         /\ \A t : In(l, t) =>
              /\ b \notin From(<<b>> \o l, t)
              /\ \A a : In(l, a) => (a \in From(<<b>> \o l, t) <=> a \in From(l, t))
<1>. DEFINE m == <<b>> \o l
            n == Len(l)
<1>1. /\ m \in Seq(S) /\ Len(m) = n + 1 /\ n \in Nat /\ m[1] = b
      /\ \A j \in 1 .. n : m[j + 1] = l[j] /\ j + 1 \in 1 .. n + 1
  <2>1. <<b>> \in Seq(S) /\ Len(<<b>>) = 1 /\ <<b>>[1] = b
    OBVIOUS
  <2>2. /\ m \in Seq(S) /\ Len(m) = 1 + n /\ n \in Nat
        /\ \A i \in 1 .. 1 + n : m[i] = IF i <= 1 THEN <<b>>[i] ELSE l[i - 1]
    BY <2>1, ConcatProperties
  <2>. HIDE DEF m, n
  <2>3. \A j \in 1 .. n : j + 1 \in 1 .. 1 + n /\ ~(j + 1 <= 1) /\ (j + 1) - 1 = j
    BY <2>2
  <2>4. 1 \in 1 .. 1 + n
    BY <2>2
  <2>. QED BY <2>1, <2>2, <2>3, <2>4
<1>. HIDE DEF m, n
<1>2. \A k \in 1 .. n + 1 : k = 1 \/ (k - 1 \in 1 .. n /\ (k - 1) + 1 = k)
  BY <1>1
<1>3. \A j \in 1 .. n : l[j] # b
  BY DEF In, n
<1>4. \A i, j \in 1 .. n : l[i] = l[j] => i = j
  BY DEF OnceEach, n
<1>5. \A k \in 1 .. n + 1 : k # 1 => m[k] = l[k - 1] /\ m[k] # b
  BY <1>1, <1>2, <1>3
<1>6. OnceEach(m)
  <2>1. ASSUME NEW i \in 1 .. n + 1, NEW j \in 1 .. n + 1, m[i] = m[j] PROVE i = j
    BY <1>1, <1>2, <1>4, <1>5, <2>1
  <2>. QED BY <2>1, <1>1 DEF OnceEach
<1>7. \A a : In(m, a) <=> In(l, a) \/ a = b
  <2>1. ASSUME NEW a, In(m, a) PROVE In(l, a) \/ a = b
    <3>1. PICK k \in 1 .. n + 1 : m[k] = a
      BY <1>1, <2>1 DEF In
    <3>. QED BY <1>1, <1>2, <1>5, <3>1 DEF In, n
  <2>2. In(m, b)
    BY <1>1 DEF In
  <2>3. ASSUME NEW a, In(l, a) PROVE In(m, a)
    <3>1. PICK k \in 1 .. n : l[k] = a
      BY <2>3 DEF In, n
    <3>. QED BY <1>1, <3>1 DEF In
  <2>. QED BY <2>1, <2>2, <2>3
<1>8. ASSUME NEW t, In(l, t) PROVE b \notin From(m, t)
  <2>1. PICK q \in 1 .. n : l[q] = t
    BY <1>8 DEF In, n
  <2>2. q + 1 \in 1 .. Len(m) /\ m[q + 1] = t /\ 1 \in 1 .. Len(m)
    BY <1>1, <2>1
  <2>3. m[1] \in From(m, m[q + 1]) <=> q + 1 <= 1
    BY <1>1, <1>6, <2>2, FromAt
  <2>. QED BY <1>1, <2>2, <2>3
<1>9. ASSUME NEW t, In(l, t), NEW a, In(l, a)
      PROVE  a \in From(m, t) <=> a \in From(l, t)
  <2>1. PICK q \in 1 .. n : l[q] = t
    BY <1>9 DEF In, n
  <2>2. PICK j \in 1 .. n : l[j] = a
    BY <1>9 DEF In, n
  <2>3. q + 1 \in 1 .. Len(m) /\ j + 1 \in 1 .. Len(m) /\ m[q + 1] = t /\ m[j + 1] = a
    BY <1>1, <2>1, <2>2
  <2>4. m[j + 1] \in From(m, m[q + 1]) <=> q + 1 <= j + 1
    BY <1>1, <1>6, <2>3, FromAt
  <2>5. l[j] \in From(l, l[q]) <=> q <= j
    <3>1. q \in 1 .. Len(l) /\ j \in 1 .. Len(l)
      BY DEF n
    <3>. QED BY <3>1, FromAt
  <2>6. q + 1 <= j + 1 <=> q <= j
    BY <1>1
  <2>. QED BY <2>1, <2>2, <2>3, <2>4, <2>5, <2>6
<1>. QED BY <1>1, <1>6, <1>7, <1>8, <1>9 DEF m

\* The time t of an alarm that is due in d ticks, with its flag r, when the counter
\* is at n: before the running tick has looked at it, and after.
Timed(t, r, d, n, before) ==
  /\ t = (n + d) % Word
  /\ n # 0 => (r <=> t < n)
  /\ IF before THEN d \in 0 .. Word - 2 /\ (n = 0 => r)
               ELSE d \in 1 .. Word - 1 /\ (n = 0 => ~r)

LEMMA WordFacts == Word \in Nat \ {0, 1} /\ Intervals \subseteq 0 .. Word - 2
BY AlarmConstants

\* The counter of Word values, a little later.
LEMMA Wraps ==
  ASSUME NEW n \in 0 .. Word - 1, NEW d \in 0 .. Word - 1
  PROVE  /\ n + d < Word => (n + d) % Word = n + d
         /\ n + d >= Word => (n + d) % Word = (n + d) - Word
         /\ (n + d) % Word \in 0 .. Word - 1
<1>. USE WordFacts
<1>1. CASE n + d < Word
  <2>1. Word * 0 + (n + d) = n + d /\ n + d \in 0 .. Word - 1
    BY <1>1
  <2>2. (n + d) % Word = n + d
    BY <2>1, DivisionUnique
  <2>. QED BY <1>1, <2>1, <2>2
<1>2. CASE n + d >= Word
  <2>1. Word * 1 + ((n + d) - Word) = n + d /\ (n + d) - Word \in 0 .. Word - 1
    BY <1>2
  <2>2. (n + d) % Word = (n + d) - Word
    BY <2>1, DivisionUnique
  <2>. QED BY <1>2, <2>1, <2>2
<1>. QED BY <1>1, <1>2

\* A tick counts.
LEMMA TimedTicks ==
  ASSUME NEW t, NEW r \in BOOLEAN, NEW d, NEW n \in 0 .. Word - 1, Timed(t, r, d, n, FALSE)
  PROVE  Timed(t, r, d - 1, (n + 1) % Word, TRUE)
<1>. USE WordFacts
<1>1. /\ d \in 1 .. Word - 1 /\ d - 1 \in 0 .. Word - 2 /\ d \in 0 .. Word - 1
      /\ t = (n + d) % Word /\ (n = 0 => ~r) /\ (n # 0 => (r <=> t < n))
  BY DEF Timed
<1>2. /\ n + d < Word => t = n + d
      /\ n + d >= Word => t = (n + d) - Word
      /\ t \in 0 .. Word - 1
  BY <1>1, Wraps
<1>3. CASE n + 1 < Word
  <2>1. (n + 1) % Word = n + 1
    BY <1>3, Wraps
  <2>2. r <=> t < n + 1
    BY <1>1, <1>2
  <2>3. (n + 1) + (d - 1) = n + d
    BY <1>1
  <2>. QED BY <1>1, <2>1, <2>2, <2>3 DEF Timed
<1>4. CASE n + 1 = Word
  <2>1. (n + 1) % Word = 0
    BY <1>4, Wraps
  <2>2. t = d - 1 /\ t < n
    BY <1>1, <1>2, <1>4
  <2>. DEFINE z == (n + 1) % Word
  <2>3. z = 0 /\ z \in 0 .. Word - 1 /\ d - 1 \in 0 .. Word - 1
    BY <1>1, <2>1
  <2>. HIDE DEF z
  <2>4. z + (d - 1) < Word
    BY <2>3
  <2>5. (z + (d - 1)) % Word = z + (d - 1)
    BY <2>3, <2>4, Wraps
  <2>6. t = (z + (d - 1)) % Word
    BY <1>1, <2>2, <2>3, <2>5
  <2>7. Timed(t, r, d - 1, z, TRUE)
    BY <1>1, <1>4, <2>2, <2>3, <2>6 DEF Timed
  <2>. QED BY <2>7 DEF z
<1>5. n + 1 < Word \/ n + 1 = Word
  OBVIOUS
<1>. QED BY <1>3, <1>4, <1>5, Zenon

\* The test of alt_tick, and what it does to an alarm that waits.
Tested(t, r, d, n) ==
  /\ d >= 0
  /\ (t <= n /\ ~(r /\ n # 0)) <=> d = 0
  /\ d = 0 => t = n
  /\ d # 0 => Timed(t, r /\ n # 0, d, n, FALSE)

LEMMA TimedExpires ==
  ASSUME NEW t, NEW r \in BOOLEAN, NEW d, NEW n \in 0 .. Word - 1, Timed(t, r, d, n, TRUE)
  PROVE  Tested(t, r, d, n)
<1>. USE WordFacts
<1>1. /\ d \in 0 .. Word - 2 /\ d \in 0 .. Word - 1
      /\ t = (n + d) % Word /\ (n = 0 => r) /\ (n # 0 => (r <=> t < n))
  BY DEF Timed
<1>2. /\ n + d < Word => t = n + d
      /\ n + d >= Word => t = (n + d) - Word
      /\ t \in 0 .. Word - 1
  BY <1>1, Wraps
<1>3. (t <= n /\ ~(r /\ n # 0)) <=> d = 0
  BY <1>1, <1>2
<1>4. d # 0 => Timed(t, r /\ n # 0, d, n, FALSE)
  BY <1>1, <1>2 DEF Timed
<1>5. d >= 0 /\ (d = 0 => t = n)
  BY <1>1, <1>2
<1>. QED BY <1>3, <1>4, <1>5, Zenon DEF Tested

\* An alarm is set k ticks from now.
LEMMA TimedSet ==
  ASSUME NEW k \in 1 .. Word - 1, NEW n \in 0 .. Word - 1
  PROVE  Timed((n + k) % Word, (n + k) % Word < n, k, n, FALSE)
BY WordFacts, Wraps DEF Timed

\* The same of the alarm whose callback runs: it is due now, or it was started anew.
Called(t, r, d, n) == d \in 0 .. Word - 1 /\ t = (n + d) % Word /\ (r <=> t < n)

LEMMA CalledSet ==
  ASSUME NEW t, NEW r, NEW d, NEW n \in 0 .. Word - 1, Timed(t, r, d, n, FALSE)
  PROVE  Called(t, r, d, n)
<1>1. /\ d \in 1 .. Word - 1 /\ d \in 0 .. Word - 1 /\ t = (n + d) % Word
      /\ (n = 0 => ~r) /\ (n # 0 => (r <=> t < n))
  BY WordFacts DEF Timed
<1>2. t \in 0 .. Word - 1
  BY <1>1, Wraps
<1>. QED BY <1>1, <1>2, WordFacts DEF Called

LEMMA CalledAgain ==
  ASSUME NEW t, NEW r \in BOOLEAN, NEW d, NEW n \in 0 .. Word - 1, Called(t, r, d, n),
         NEW k \in 1 .. Word - 1, d + k < Word
  PROVE  LET u == (t + k) % Word IN Timed(u, r \/ u < n, d + k, n, FALSE)
<1>. USE WordFacts
<1>. DEFINE u == (t + k) % Word
            e == d + k
<1>1. /\ d \in 0 .. Word - 1 /\ e \in 1 .. Word - 1 /\ e \in 0 .. Word - 1
      /\ k \in 0 .. Word - 1
  BY DEF Called
<1>2. /\ n + d < Word => t = n + d
      /\ n + d >= Word => t = (n + d) - Word
      /\ t \in 0 .. Word - 1 /\ (r <=> t < n)
  BY <1>1, Wraps DEF Called
<1>3. CASE n + d < Word
  <2>1. t + k = n + e /\ ~r
    BY <1>1, <1>2, <1>3
  <2>2. Timed((n + e) % Word, (n + e) % Word < n, e, n, FALSE)
    BY <1>1, TimedSet
  <2>3. (r \/ u < n) = (u < n)
    BY <2>1
  <2>. QED BY <2>1, <2>2, <2>3
<1>4. CASE n + d >= Word
  <2>1. t = (n + d) - Word /\ r /\ n + e >= Word
    BY <1>1, <1>2, <1>4
  <2>2. (n + e) % Word = (n + e) - Word
    BY <1>1, <2>1, Wraps
  <2>3. t + k = (n + e) - Word /\ t + k < n /\ t + k < Word
    BY <1>1, <2>1
  <2>4. u = t + k
    BY <1>1, <1>2, <2>3, Wraps
  <2>5. (r \/ u < n) = (u < n)
    BY <2>1, <2>3, <2>4
  <2>6. Timed((n + e) % Word, (n + e) % Word < n, e, n, FALSE)
    BY <1>1, TimedSet
  <2>7. (n + e) % Word = u
    BY <2>2, <2>3, <2>4
  <2>. QED BY <2>5, <2>6, <2>7
<1>5. n + d < Word \/ n + d >= Word
  BY <1>1
<1>6. Timed(u, r \/ u < n, e, n, FALSE)
  BY <1>3, <1>4, <1>5
<1>. QED BY <1>6

AlarmTypeOK ==
  /\ timedOut \in BOOLEAN /\ timeouts \in Nat
  /\ nticks \in 0 .. Word - 1
  /\ list \in Seq(Alarms)
  /\ time \in [Alarms -> 0 .. Word - 1] /\ rollover \in [Alarms -> BOOLEAN]
  /\ due \in [Alarms -> Int]
  /\ tick \in Alarms \cup {ListHead, NoTick}
  /\ calling \in Alarms \cup {NoTick}

\* An alarm in the list is on time, while the tick is at t and the callback of c
\* runs, which the tick does not look at again.
OnTime(a, l, t, c) ==
  IF a = c THEN a \notin From(l, t) /\ Called(time[a], rollover[a], due[a], nticks)
  ELSE Timed(time[a], rollover[a], due[a], nticks, a \in From(l, t))

\* The list has no entry twice, the running tick is at one of them or at the end of
\* the list, and each is on time.
AlarmInv ==
  /\ AlarmTypeOK
  /\ OnceEach(list)
  /\ tick \in Alarms => In(list, tick)
  /\ calling # NoTick => tick \notin {calling, NoTick}
  /\ TicksCounted /\ (timedOut => timeouts > 0)
  /\ \A a \in Alarms : In(list, a) => OnTime(a, list, tick, calling)

LEMMA AlarmNames ==
  /\ ListHead \notin Alarms /\ NoTick \notin Alarms /\ NoTick # ListHead
  /\ \A a : Listed(a) <=> In(list, a)
  /\ ToVisit = From(list, tick)
BY AlarmConstants DEF Listed, In, ToVisit, From

LEMMA PositionIs ==
  ASSUME NEW a, In(list, a)
  PROVE  PositionOf(a) \in 1 .. Len(list) /\ list[PositionOf(a)] = a
BY DEF PositionOf, In

\* The tick goes on to the next entry.
LEMMA TickMoves ==
  ASSUME AlarmInv, tick \in Alarms
  PROVE  /\ In(list, tick) /\ tick \in From(list, tick)
         /\ NextOf(tick) \in Alarms \cup {ListHead} /\ NextOf(tick) # tick
         /\ NextOf(tick) \in Alarms => In(list, NextOf(tick))
         /\ \A a : In(list, a) => (a \in From(list, NextOf(tick)) <=> a \in From(list, tick) /\ a # tick)
<1>. DEFINE p == PositionOf(tick)
<1>1. list \in Seq(Alarms) /\ OnceEach(list) /\ In(list, tick) /\ Len(list) \in Nat
  BY DEF AlarmInv, AlarmTypeOK
<1>2. p \in 1 .. Len(list) /\ list[p] = tick
  BY <1>1, PositionIs
<1>3. NextOf(tick) = IF p = Len(list) THEN ListHead ELSE list[p + 1]
  BY <1>1, AlarmNames DEF NextOf
<1>. HIDE DEF p
<1>4. p # Len(list) => p + 1 \in 1 .. Len(list) /\ list[p + 1] # tick
  BY <1>1, <1>2 DEF OnceEach
<1>5. /\ NextOf(tick) \in Alarms \cup {ListHead} /\ NextOf(tick) # tick
      /\ NextOf(tick) \in Alarms => In(list, NextOf(tick))
  <2>1. CASE p = Len(list)
    BY <2>1, <1>3, AlarmNames
  <2>2. CASE p # Len(list)
    BY <2>2, <1>1, <1>3, <1>4 DEF In
  <2>. QED BY <2>1, <2>2
<1>6. tick \in From(list, tick)
  <2>1. list[p] \in From(list, list[p]) <=> p <= p
    BY <1>1, <1>2, FromAt
  <2>. QED BY <2>1, <1>1, <1>2
<1>7. ASSUME NEW a, In(list, a)
      PROVE  a \in From(list, NextOf(tick)) <=> a \in From(list, tick) /\ a # tick
  <2>1. PICK j \in 1 .. Len(list) : list[j] = a
    BY <1>7 DEF In
  <2>2. list[j] \in From(list, IF p = Len(list) THEN ListHead ELSE list[p + 1])
          <=> list[j] \in From(list, list[p]) /\ list[j] # list[p]
    BY <1>1, <1>2, AlarmNames, FromNext
  <2>. QED BY <1>2, <1>3, <2>1, <2>2
<1>. QED BY <1>1, <1>5, <1>6, <1>7

\* An entry is removed that the tick is not at.
LEMMA EntryRemoved ==
  ASSUME AlarmInv, NEW b \in Alarms, In(list, b)
  PROVE  /\ Without(b) \in Seq(Alarms) /\ OnceEach(Without(b))
         /\ \A a : In(Without(b), a) <=> In(list, a) /\ a # b
         /\ \A t : (t \in Alarms => In(list, t)) /\ t # b =>
              \A a : In(Without(b), a) => (a \in From(Without(b), t) <=> a \in From(list, t))
<1>. DEFINE p == PositionOf(b)
            m == Without(b)
<1>1. list \in Seq(Alarms) /\ OnceEach(list) /\ Len(list) \in Nat
  BY DEF AlarmInv, AlarmTypeOK
<1>2. p \in 1 .. Len(list) /\ list[p] = b /\ m = Unlinked(list, p)
  BY PositionIs, AlarmNames DEF Without, Unlinked
<1>. HIDE DEF p, m
<1>3. m \in Seq(Alarms)
  BY <1>1, <1>2, UnlinkedIs
<1>4. /\ OnceEach(m)
      /\ \A a : In(m, a) <=> In(list, a) /\ a # b
  BY <1>1, <1>2, UnlinkedKeeps
<1>5. ASSUME NEW t, t \in Alarms => In(list, t), t # b, NEW a, In(m, a)
      PROVE  a \in From(m, t) <=> a \in From(list, t)
  <2>1. CASE t \in Alarms
    <3>1. PICK q \in 1 .. Len(list) : list[q] = t
      BY <1>5, <2>1 DEF In
    <3>2. q # p
      BY <1>2, <1>5, <3>1
    <3>. QED BY <1>1, <1>2, <1>5, <3>1, <3>2, UnlinkedKeeps
  <2>2. CASE t \notin Alarms
    BY <1>1, <1>3, <2>2, FromNone
  <2>. QED BY <2>1, <2>2
<1>. QED BY <1>3, <1>4, <1>5 DEF m

LEMMA AlarmStarts == AlarmInit => AlarmInv
<1>. SUFFICES ASSUME AlarmInit PROVE AlarmInv
  OBVIOUS
<1>. USE WordFacts DEF AlarmInit
<1>1. /\ AlarmTypeOK /\ OnceEach(list) /\ (tick \in Alarms => In(list, tick))
      /\ calling = NoTick
  <2>1. list \in Seq(Alarms) /\ OnceEach(list)
    BY DEF OnceEach
  <2>2. tick \in Alarms \cup {ListHead, NoTick} /\ calling \in Alarms \cup {NoTick}
    OBVIOUS
  <2>3. tick \notin Alarms
    <3>1. NoTick \notin Alarms
      BY AlarmNames
    <3>. QED BY <3>1, Zenon
  <2>4. nticks \in 0 .. Word - 1 /\ timeouts \in Nat
    OBVIOUS
  <2>5. timedOut \in BOOLEAN
    BY Zenon
  <2>6. /\ time \in [Alarms -> 0 .. Word - 1] /\ rollover \in [Alarms -> BOOLEAN]
        /\ due \in [Alarms -> Int]
    OBVIOUS
  <2>. QED BY <2>1, <2>2, <2>6, <2>3, <2>4, <2>5 DEF AlarmTypeOK
<1>2. TicksCounted /\ (timedOut => timeouts > 0)
  <2>1. Word * 0 + 0 = 0 /\ 0 \in 0 .. Word - 1
    OBVIOUS
  <2>2. 0 % Word = 0
    BY <2>1, DivisionUnique
  <2>. QED BY <2>2 DEF TicksCounted
<1>3. \A a \in Alarms : ~In(list, a)
  BY DEF In
<1>. QED BY <1>1, <1>2, <1>3 DEF AlarmInv

\* What matters of the time-outs: the counter counts them.
LEMMA CountKept ==
  ASSUME TicksCounted, UNCHANGED <<timedOut, timeouts, nticks>>
  PROVE  TicksCounted'
BY DEF TicksCounted

\* An alarm that nothing touches stays on time.
LEMMA AlarmQuiet ==
  ASSUME AlarmInv, timedOut' \in BOOLEAN, timeouts' \in Nat, TicksCounted',
         timedOut' => timeouts' > 0,
         UNCHANGED <<nticks, list, time, rollover, due, tick, calling>>
  PROVE  AlarmInv'
BY DEF AlarmInv, AlarmTypeOK, OnceEach, In, From, OnTime

LEMMA AlarmTimeout == AlarmInv /\ Timeout => AlarmInv'
<1>. SUFFICES ASSUME AlarmInv, Timeout PROVE AlarmInv'
  OBVIOUS
<1>1. timedOut \in BOOLEAN /\ timeouts \in Nat /\ TicksCounted
  BY DEF AlarmInv, AlarmTypeOK
<1>2. timedOut' = TRUE /\ timeouts' = IF timedOut THEN timeouts ELSE timeouts + 1
  BY DEF Timeout
<1>3. timeouts' \in Nat /\ timeouts' > 0
  BY <1>1, <1>2 DEF AlarmInv
<1>4. timeouts' - 1 = timeouts - (IF timedOut THEN 1 ELSE 0)
  BY <1>1, <1>2
<1>5. UNCHANGED <<nticks, list, time, rollover, due, tick, calling>>
  BY DEF Timeout, alarmVars
<1>6. TicksCounted'
  BY <1>1, <1>2, <1>4, <1>5 DEF TicksCounted
<1>. QED BY <1>2, <1>3, <1>5, <1>6, AlarmQuiet

\* The counter is taken modulo Word at each step.
LEMMA CountOnce ==
  ASSUME NEW x \in Int
  PROVE  ((x % Word) + 1) % Word = (x + 1) % Word
<1>. USE WordFacts
<1>. DEFINE k == x \div Word
            r == x % Word
<1>1. k \in Int /\ r \in 0 .. Word - 1 /\ x = Word * k + r
  BY Division
<1>. HIDE DEF k, r
<1>2. CASE r + 1 < Word
  <2>1. x + 1 = Word * k + (r + 1) /\ r + 1 \in 0 .. Word - 1
    BY <1>1, <1>2
  <2>2. (x + 1) % Word = r + 1
    BY <1>1, <2>1, DivisionUnique
  <2>3. (r + 1) % Word = r + 1
    BY <1>1, <1>2, Wraps
  <2>. QED BY <2>2, <2>3 DEF r
<1>3. CASE r + 1 = Word
  <2>1. x + 1 = Word * (k + 1) + 0 /\ 0 \in 0 .. Word - 1 /\ k + 1 \in Int
    BY <1>1, <1>3
  <2>2. (x + 1) % Word = 0
    BY <2>1, DivisionUnique
  <2>3. (r + 1) % Word = 0
    BY <1>1, <1>3, Wraps
  <2>. QED BY <2>2, <2>3 DEF r
<1>. QED BY <1>1, <1>2, <1>3

\* The handler counts a time-out: every alarm is one tick nearer, and all are to be
\* looked at.
LEMMA AlarmTickStarts == AlarmInv /\ TickStarts => AlarmInv'
<1>. SUFFICES ASSUME AlarmInv, TickStarts PROVE AlarmInv'
  OBVIOUS
<1>1. AlarmTypeOK /\ OnceEach(list)
  BY DEF AlarmInv
<1>2. /\ tick = NoTick /\ timedOut /\ timedOut' = FALSE
      /\ nticks' = (nticks + 1) % Word
      /\ due' = [a \in Alarms |-> IF Listed(a) THEN due[a] - 1 ELSE due[a]]
      /\ tick' = FirstListed
      /\ UNCHANGED <<timeouts, list, time, rollover, calling>>
      /\ calling = NoTick
  BY DEF TickStarts, Count, AlarmInv
<1>3. nticks' \in 0 .. Word - 1
  BY <1>1, <1>2, Wraps, WordFacts DEF AlarmTypeOK
<1>4. /\ tick' \in Alarms \cup {ListHead}
      /\ tick' \in Alarms => In(list, tick')
      /\ \A a \in Alarms : In(list, a) => a \in From(list, tick')
  <2>1. list \in Seq(Alarms) /\ Len(list) \in Nat
    BY <1>1 DEF AlarmTypeOK
  <2>2. CASE list = << >>
    BY <1>2, <2>2, AlarmNames DEF FirstListed, In
  <2>3. CASE list # << >>
    <3>1. 1 \in 1 .. Len(list) /\ tick' = list[1] /\ list[1] \in Alarms
      BY <1>2, <2>1, <2>3 DEF FirstListed
    <3>2. \A j \in 1 .. Len(list) : list[j] \in From(list, list[1]) <=> 1 <= j
      BY <1>1, <2>1, <3>1, FromAt
    <3>. QED BY <3>1, <3>2 DEF In
  <2>. QED BY <2>2, <2>3
<1>5. due' \in [Alarms -> Int]
  BY <1>1, <1>2 DEF AlarmTypeOK
<1>6. AlarmTypeOK'
  BY <1>1, <1>2, <1>3, <1>4, <1>5 DEF AlarmTypeOK
<1>7. TicksCounted'
  <2>1. timeouts \in Nat /\ nticks = (timeouts - 1) % Word
    BY <1>1, <1>2 DEF AlarmInv, AlarmTypeOK, TicksCounted
  <2>2. timeouts - 1 \in Int /\ (timeouts - 1) + 1 = timeouts /\ timeouts - 0 = timeouts
    BY <2>1
  <2>3. (((timeouts - 1) % Word) + 1) % Word = ((timeouts - 1) + 1) % Word
    BY <2>2, CountOnce
  <2>. QED BY <1>2, <2>1, <2>2, <2>3 DEF TicksCounted
<1>8. ASSUME NEW a \in Alarms, In(list', a)
      PROVE  Timed(time[a], rollover[a], due'[a], nticks', TRUE)
  <2>1. In(list, a) /\ Listed(a)
    BY <1>2, <1>8, AlarmNames
  <2>2. a \notin From(list, tick)
    BY <1>1, <1>2, FromNone, AlarmNames DEF AlarmTypeOK
  <2>3. Timed(time[a], rollover[a], due[a], nticks, FALSE)
    <3>1. Timed(time[a], rollover[a], due[a], nticks, a \in From(list, tick))
      BY <1>2, <2>1, AlarmNames DEF AlarmInv, OnTime
    <3>2. (a \in From(list, tick)) = FALSE
      BY <2>2
    <3>. QED BY <3>1, <3>2
  <2>4. due'[a] = due[a] - 1
    BY <1>2, <2>1
  <2>5. rollover[a] \in BOOLEAN /\ nticks \in 0 .. Word - 1
    BY <1>1 DEF AlarmTypeOK
  <2>. QED BY <1>2, <2>3, <2>4, <2>5, TimedTicks
<1>9. ASSUME NEW a \in Alarms, In(list', a) PROVE OnTime(a, list, tick, calling)'
  <2>1. (a \in From(list', tick')) = TRUE
    BY <1>2, <1>4, <1>9
  <2>2. Timed(time'[a], rollover'[a], due'[a], nticks', a \in From(list', tick'))
    BY <1>2, <1>8, <1>9, <2>1
  <2>. QED BY <1>2, <2>2, AlarmNames DEF OnTime
<1>. QED BY <1>1, <1>2, <1>4, <1>6, <1>7, <1>9 DEF AlarmInv

\* The tick has looked at an alarm, which waits or whose callback runs.
LEMMA AlarmPassed ==
  ASSUME AlarmInv, calling = NoTick, tick \in Alarms, tick' = NextOf(tick),
         UNCHANGED <<timedOut, timeouts, nticks, list, time, due>>,
         NEW r \in BOOLEAN, rollover' = [rollover EXCEPT ![tick] = r],
         calling' \in {NoTick, tick},
         IF calling' = tick THEN Called(time[tick], r, due[tick], nticks)
         ELSE Timed(time[tick], r, due[tick], nticks, FALSE)
  PROVE  AlarmInv'
<1>1. AlarmTypeOK /\ OnceEach(list) /\ TicksCounted /\ (timedOut => timeouts > 0)
  BY DEF AlarmInv
<1>2. /\ In(list, tick) /\ tick' \in Alarms \cup {ListHead} /\ tick' # tick
      /\ tick' \in Alarms => In(list, tick')
      /\ \A a : In(list, a) => (a \in From(list, tick') <=> a \in From(list, tick) /\ a # tick)
  BY TickMoves
<1>3. /\ rollover' \in [Alarms -> BOOLEAN] /\ rollover'[tick] = r
      /\ \A a \in Alarms : a # tick => rollover'[a] = rollover[a]
  BY <1>1 DEF AlarmTypeOK
<1>4. AlarmTypeOK'
  BY <1>1, <1>2, <1>3 DEF AlarmTypeOK
<1>5. tick' # NoTick /\ tick # NoTick
  BY <1>2, AlarmNames
<1>6. TicksCounted' /\ (timedOut' => timeouts' > 0)
  BY <1>1, CountKept
<1>7. ASSUME NEW a \in Alarms, In(list, a) PROVE OnTime(a, list, tick, calling)'
  <2>1. a \in From(list, tick') <=> a \in From(list, tick) /\ a # tick
    BY <1>2, <1>7
  <2>2. CASE a = tick
    <3>1. a \notin From(list, tick') /\ (a \in From(list, tick')) = FALSE
      BY <2>1, <2>2
    <3>2. CASE calling' = tick
      BY <1>3, <2>2, <3>1, <3>2 DEF OnTime
    <3>3. CASE calling' # tick
      <4>1. Timed(time[a], rollover'[a], due[a], nticks, FALSE)
        BY <1>3, <2>2, <3>3
      <4>2. Timed(time[a], rollover'[a], due[a], nticks, a \in From(list, tick'))
        BY <3>1, <4>1
      <4>. QED BY <2>2, <3>3, <4>2 DEF OnTime
    <3>. QED BY <3>2, <3>3
  <2>3. CASE a # tick
    <3>1. (a \in From(list, tick')) = (a \in From(list, tick))
      BY <2>1, <2>3
    <3>2. a # calling /\ a # calling'
      BY <2>3, AlarmNames
    <3>3. Timed(time[a], rollover[a], due[a], nticks, a \in From(list, tick))
      BY <1>7, <3>2 DEF AlarmInv, OnTime
    <3>4. Timed(time[a], rollover'[a], due[a], nticks, a \in From(list, tick'))
      BY <1>3, <2>3, <3>1, <3>3
    <3>. QED BY <3>2, <3>4 DEF OnTime
  <2>. QED BY <2>2, <2>3
<1>. QED BY <1>1, <1>2, <1>4, <1>5, <1>6, <1>7 DEF AlarmInv

\* The alarm that the tick is at.
LEMMA AlarmAtTick ==
  ASSUME AlarmInv, calling = NoTick, tick \in Alarms
  PROVE  /\ due[tick] >= 0 /\ (Expired(tick) <=> due[tick] = 0)
         /\ due[tick] = 0 => time[tick] = nticks
         /\ due[tick] # 0 =>
              Timed(time[tick], rollover[tick] /\ nticks # 0, due[tick], nticks, FALSE)
<1>1. In(list, tick) /\ tick \in From(list, tick)
  BY TickMoves
<1>2. (tick \in From(list, tick)) = TRUE
  BY <1>1
<1>3. Timed(time[tick], rollover[tick], due[tick], nticks, tick \in From(list, tick))
  BY <1>1, AlarmNames DEF AlarmInv, OnTime
<1>4. Timed(time[tick], rollover[tick], due[tick], nticks, TRUE)
  BY <1>2, <1>3
<1>5. rollover[tick] \in BOOLEAN /\ nticks \in 0 .. Word - 1
  BY DEF AlarmInv, AlarmTypeOK
<1>6. Tested(time[tick], rollover[tick], due[tick], nticks)
  BY <1>4, <1>5, TimedExpires
<1>. QED BY <1>6, Zenon DEF Tested, Expired, Waiting

LEMMA AlarmTickPasses == AlarmInv /\ TickPasses => AlarmInv'
<1>. SUFFICES ASSUME AlarmInv, TickPasses PROVE AlarmInv'
  OBVIOUS
<1>. DEFINE r == rollover[tick] /\ nticks # 0
<1>1. /\ tick \in Alarms /\ ~Expired(tick) /\ tick' = NextOf(tick) /\ calling = NoTick
      /\ rollover' = [rollover EXCEPT ![tick] = r]
      /\ UNCHANGED <<timedOut, timeouts, nticks, list, time, due, calling>>
  BY DEF TickPasses, timerVars, Waiting
<1>2. due[tick] # 0
  BY <1>1, AlarmAtTick
<1>3. Timed(time[tick], r, due[tick], nticks, FALSE)
  BY <1>1, <1>2, AlarmAtTick, Zenon
<1>4. r \in BOOLEAN
  BY Zenon
<1>5. calling' # tick
  BY <1>1, AlarmNames
<1>. HIDE DEF r
<1>. QED BY <1>1, <1>3, <1>4, <1>5, AlarmPassed

\* The callback of an alarm that has expired begins.
LEMMA AlarmTickCalls == AlarmInv /\ TickCalls => AlarmInv'
<1>. SUFFICES ASSUME AlarmInv, TickCalls PROVE AlarmInv'
  OBVIOUS
<1>1. /\ tick \in Alarms /\ Expired(tick) /\ tick' = NextOf(tick) /\ calling = NoTick
      /\ rollover' = [rollover EXCEPT ![tick] = FALSE] /\ calling' = tick
      /\ UNCHANGED <<timedOut, timeouts, nticks, list, time, due>>
  BY DEF TickCalls, timerVars
<1>2. due[tick] = 0 /\ time[tick] = nticks /\ nticks \in 0 .. Word - 1
  BY <1>1, AlarmAtTick, Zenon DEF AlarmInv, AlarmTypeOK
<1>3. (nticks + 0) % Word = nticks
  <2>1. 0 \in 0 .. Word - 1 /\ nticks + 0 = nticks /\ nticks + 0 < Word
    BY <1>2, WordFacts
  <2>2. (nticks + 0) % Word = nticks + 0
    BY <1>2, <2>1, Wraps
  <2>. QED BY <2>1, <2>2
<1>4. Called(time[tick], FALSE, due[tick], nticks)
  BY <1>2, <1>3, WordFacts DEF Called
<1>. QED BY <1>1, <1>4, AlarmPassed

\* An alarm is put in front of the list, by the program or by a callback.
LEMMA AlarmStarted ==
  ASSUME AlarmInv, NEW b \in Alarms, ~In(list, b), NEW n \in Intervals, Start(b, n),
         UNCHANGED <<timedOut, timeouts, nticks, tick, calling>>
  PROVE  AlarmInv'
<1>. DEFINE t == (n + nticks + 1) % Word
            l == <<b>> \o list
<1>1. /\ AlarmTypeOK /\ OnceEach(list) /\ TicksCounted /\ (timedOut => timeouts > 0)
      /\ list \in Seq(Alarms) /\ time \in [Alarms -> 0 .. Word - 1] /\ due \in [Alarms -> Int]
      /\ rollover \in [Alarms -> BOOLEAN] /\ nticks \in 0 .. Word - 1
      /\ tick \in Alarms => In(list, tick)
  BY DEF AlarmInv, AlarmTypeOK
<1>2. /\ time' = [time EXCEPT ![b] = t]
      /\ rollover' = [rollover EXCEPT ![b] = time'[b] < nticks]
      /\ due' = [due EXCEPT ![b] = n + 1] /\ list' = l
  BY DEF Start
<1>3. n + 1 \in 1 .. Word - 1 /\ n + 1 \in 0 .. Word - 1 /\ n + nticks + 1 = nticks + (n + 1)
  BY <1>1, WordFacts
<1>4. t \in 0 .. Word - 1 /\ Timed(t, t < nticks, n + 1, nticks, FALSE)
  BY <1>1, <1>3, Wraps, TimedSet
<1>. HIDE DEF t
<1>5. /\ time' \in [Alarms -> 0 .. Word - 1] /\ rollover' \in [Alarms -> BOOLEAN]
      /\ due' \in [Alarms -> Int]
      /\ time'[b] = t /\ rollover'[b] = (t < nticks) /\ due'[b] = n + 1
      /\ \A a \in Alarms : a # b =>
           time'[a] = time[a] /\ rollover'[a] = rollover[a] /\ due'[a] = due[a]
  BY <1>1, <1>2, <1>3, <1>4
<1>6. /\ l \in Seq(Alarms) /\ OnceEach(l)
      /\ \A a : In(l, a) <=> In(list, a) \/ a = b
      /\ \A u : In(list, u) =>
            /\ b \notin From(l, u)
            /\ \A a : In(list, a) => (a \in From(l, u) <=> a \in From(list, u))
  BY <1>1, LinkedKeeps
<1>. HIDE DEF l
<1>7. /\ b \notin From(l, tick)
      /\ \A a : In(list, a) => (a \in From(l, tick) <=> a \in From(list, tick))
  <2>1. CASE tick \in Alarms
    BY <1>1, <1>6, <2>1
  <2>2. CASE tick \notin Alarms
    BY <1>1, <1>6, <2>2, FromNone
  <2>. QED BY <2>1, <2>2
<1>8. AlarmTypeOK'
  BY <1>1, <1>2, <1>5, <1>6 DEF AlarmTypeOK
<1>9. TicksCounted'
  BY <1>1, CountKept
<1>10. ASSUME NEW a \in Alarms, In(l, a) PROVE OnTime(a, list, tick, calling)'
  <2>1. CASE a = b
    <3>1. a \notin From(l, tick) /\ (a \in From(l, tick)) = FALSE
      BY <1>7, <2>1
    <3>2. Timed(time'[a], rollover'[a], due'[a], nticks, FALSE)
      BY <1>4, <1>5, <2>1
    <3>3. Called(time'[a], rollover'[a], due'[a], nticks)
      BY <1>1, <3>2, CalledSet
    <3>4. Timed(time'[a], rollover'[a], due'[a], nticks, a \in From(l, tick))
      BY <3>1, <3>2
    <3>. QED BY <1>2, <3>1, <3>3, <3>4 DEF OnTime
  <2>2. CASE a # b
    <3>1. In(list, a) /\ OnTime(a, list, tick, calling)
      BY <1>6, <1>10, <2>2 DEF AlarmInv
    <3>2. (a \in From(l, tick)) = (a \in From(list, tick))
      BY <1>7, <3>1
    <3>3. time'[a] = time[a] /\ rollover'[a] = rollover[a] /\ due'[a] = due[a]
      BY <1>5, <2>2
    <3>. QED BY <1>2, <3>1, <3>2, <3>3 DEF OnTime
  <2>. QED BY <2>1, <2>2
<1>. QED BY <1>1, <1>2, <1>6, <1>8, <1>9, <1>10 DEF AlarmInv

\* An alarm that the tick is not at is removed, by the program, by a callback, or
\* at the end of its own callback.
LEMMA AlarmRemoved ==
  ASSUME AlarmInv, NEW b \in Alarms, In(list, b), b # tick, list' = Without(b),
         UNCHANGED <<timedOut, timeouts, nticks, time, rollover, due, tick>>,
         calling' = calling \/ (calling' = NoTick /\ b = calling)
  PROVE  AlarmInv'
<1>. DEFINE l == Without(b)
<1>1. /\ AlarmTypeOK /\ TicksCounted /\ (timedOut => timeouts > 0)
      /\ tick \in Alarms => In(list, tick)
      /\ calling # NoTick => tick \notin {calling, NoTick}
  BY DEF AlarmInv
<1>2. /\ l \in Seq(Alarms) /\ OnceEach(l)
      /\ \A a : In(l, a) <=> In(list, a) /\ a # b
      /\ \A t : (t \in Alarms => In(list, t)) /\ t # b =>
            \A a : In(l, a) => (a \in From(l, t) <=> a \in From(list, t))
  BY EntryRemoved
<1>. HIDE DEF l
<1>3. list' = l
  BY DEF l
<1>4. AlarmTypeOK'
  BY <1>1, <1>2, <1>3 DEF AlarmTypeOK
<1>5. TicksCounted'
  BY <1>1, CountKept
<1>6. ASSUME NEW a \in Alarms, In(l, a) PROVE OnTime(a, list, tick, calling)'
  <2>1. /\ In(list, a) /\ a # b /\ (a \in From(l, tick) <=> a \in From(list, tick))
    BY <1>1, <1>2, <1>6
  <2>2. (a \in From(l, tick)) = (a \in From(list, tick))
    BY <2>1
  <2>3. OnTime(a, list, tick, calling)
    BY <2>1 DEF AlarmInv
  <2>4. a = calling' <=> a = calling
    BY <2>1, AlarmNames
  <2>. QED BY <1>3, <2>1, <2>2, <2>3, <2>4 DEF OnTime
<1>. QED BY <1>1, <1>2, <1>3, <1>4, <1>5, <1>6 DEF AlarmInv

\* The callback returns: its alarm is set again, or removed.
LEMMA AlarmReturns ==
  ASSUME AlarmInv, NEW n \in Intervals, CallbackReturns(n)
  PROVE  AlarmInv'
<1>. DEFINE c == calling
<1>1. /\ c \in Alarms /\ c # tick /\ c # NoTick /\ calling' = NoTick
      /\ UNCHANGED <<timedOut, timeouts, nticks, tick>>
  BY AlarmNames DEF CallbackReturns, timerVars, AlarmInv, AlarmTypeOK
<1>2. /\ AlarmTypeOK /\ OnceEach(list) /\ TicksCounted /\ (timedOut => timeouts > 0)
      /\ list \in Seq(Alarms) /\ time \in [Alarms -> 0 .. Word - 1] /\ due \in [Alarms -> Int]
      /\ rollover \in [Alarms -> BOOLEAN] /\ nticks \in 0 .. Word - 1
      /\ tick \in Alarms => In(list, tick)
  BY DEF AlarmInv, AlarmTypeOK
<1>3. ASSUME NEW a \in Alarms, In(list, a), a # c, UNCHANGED list,
             UNCHANGED <<time[a], rollover[a], due[a]>>
      PROVE  OnTime(a, list, tick, calling)'
  <2>1. OnTime(a, list, tick, calling) /\ a # calling'
    BY <1>1, <1>3, AlarmNames DEF AlarmInv
  <2>. QED BY <1>1, <1>3, <2>1 DEF OnTime
<1>4. CASE n = 0 /\ In(list, c)
  BY <1>1, <1>4, AlarmRemoved DEF CallbackReturns
<1>5. CASE n = 0 /\ ~In(list, c)
  <2>1. UNCHANGED <<list, time, rollover, due>>
    BY <1>5, AlarmNames DEF CallbackReturns, Without
  <2>2. AlarmTypeOK' /\ TicksCounted'
    BY <1>1, <1>2, <2>1, CountKept DEF AlarmTypeOK
  <2>3. \A a \in Alarms : In(list, a) => OnTime(a, list, tick, calling)'
    BY <1>3, <1>5, <2>1
  <2>. QED BY <1>1, <1>2, <2>1, <2>2, <2>3 DEF AlarmInv
<1>6. CASE n # 0
  <2>. DEFINE t == (time[c] + n) % Word
              r == rollover[c] \/ t < nticks
              d == due[c] + n
  <2>1. /\ UNCHANGED list /\ (In(list, c) => due[c] + n < Word)
        /\ time' = [time EXCEPT ![c] = t] /\ due' = [due EXCEPT ![c] = d]
        /\ rollover' = [rollover EXCEPT ![c] = rollover[c] \/ time'[c] < nticks]
    BY <1>6, AlarmNames DEF CallbackReturns, Renew
  <2>2. n \in 1 .. Word - 1 /\ n \in 0 .. Word - 1
    BY <1>6, WordFacts
  <2>3. t \in 0 .. Word - 1 /\ d \in Int /\ time[c] \in 0 .. Word - 1 /\ rollover[c] \in BOOLEAN
    <3>1. time[c] \in 0 .. Word - 1 /\ due[c] \in Int /\ rollover[c] \in BOOLEAN
      BY <1>1, <1>2
    <3>2. t \in 0 .. Word - 1
      BY <2>2, <3>1, Wraps
    <3>3. d \in Int
      BY <2>2, <3>1
    <3>. QED BY <3>1, <3>2, <3>3
  <2>4. In(list, c) => Timed(t, r, d, nticks, FALSE)
    <3>1. HAVE In(list, c)
    <3>2. Called(time[c], rollover[c], due[c], nticks)
      BY <1>1, <3>1 DEF AlarmInv, OnTime
    <3>. QED BY <1>2, <2>1, <2>2, <2>3, <3>1, <3>2, CalledAgain
  <2>5. r \in BOOLEAN
    BY <2>3, Zenon
  <2>6. time'[c] = t
    BY <1>1, <1>2, <2>1
  <2>7. rollover' = [rollover EXCEPT ![c] = r]
    BY <2>1, <2>6
  <2>. HIDE DEF t, r, d
  <2>8. /\ time' \in [Alarms -> 0 .. Word - 1] /\ rollover' \in [Alarms -> BOOLEAN]
        /\ due' \in [Alarms -> Int]
        /\ rollover'[c] = r /\ due'[c] = d
        /\ \A a \in Alarms : a # c =>
             time'[a] = time[a] /\ rollover'[a] = rollover[a] /\ due'[a] = due[a]
    BY <1>1, <1>2, <2>1, <2>3, <2>5, <2>7
  <2>9. ASSUME NEW a \in Alarms, In(list, a) PROVE OnTime(a, list, tick, calling)'
    <3>1. CASE a = c
      <4>1. a \notin From(list, tick)
        BY <1>1, <2>9, <3>1 DEF AlarmInv, OnTime
      <4>2. (a \in From(list', tick')) = FALSE
        BY <1>1, <2>1, <4>1
      <4>3. Timed(time'[a], rollover'[a], due'[a], nticks', FALSE)
        BY <1>1, <2>4, <2>6, <2>8, <2>9, <3>1
      <4>4. Timed(time'[a], rollover'[a], due'[a], nticks', a \in From(list', tick'))
        BY <4>2, <4>3
      <4>. QED BY <1>1, <3>1, <4>4 DEF OnTime
    <3>2. CASE a # c
      BY <1>3, <2>1, <2>8, <2>9, <3>2
    <3>. QED BY <3>1, <3>2
  <2>10. AlarmTypeOK' /\ TicksCounted'
    BY <1>1, <1>2, <2>1, <2>8, CountKept DEF AlarmTypeOK
  <2>. QED BY <1>1, <1>2, <2>1, <2>9, <2>10 DEF AlarmInv
<1>. QED BY <1>4, <1>5, <1>6

\* The tick is over: there is nothing that it still has to look at.
LEMMA AlarmTickEnds == AlarmInv /\ TickEnds => AlarmInv'
<1>. SUFFICES ASSUME AlarmInv, TickEnds PROVE AlarmInv'
  OBVIOUS
<1>1. /\ tick = ListHead /\ tick' = NoTick /\ calling = NoTick
      /\ UNCHANGED <<timedOut, timeouts, nticks, list, time, rollover, due, calling>>
  BY DEF TickEnds, timerVars, alarmVars
<1>2. AlarmTypeOK /\ OnceEach(list) /\ TicksCounted /\ (timedOut => timeouts > 0)
  BY DEF AlarmInv
<1>3. From(list, tick) = {} /\ From(list, tick') = {}
  BY <1>1, <1>2, AlarmNames, FromNone DEF AlarmTypeOK
<1>4. AlarmTypeOK'
  BY <1>1, <1>2 DEF AlarmTypeOK
<1>5. TicksCounted'
  BY <1>1, <1>2, CountKept
<1>6. ASSUME NEW a \in Alarms, In(list, a) PROVE OnTime(a, list, tick, calling)'
  <2>1. OnTime(a, list, tick, calling)
    BY <1>6 DEF AlarmInv
  <2>. QED BY <1>1, <1>3, <2>1 DEF OnTime
<1>. QED BY <1>1, <1>2, <1>4, <1>5, <1>6, AlarmNames DEF AlarmInv

LEMMA AlarmStep == AlarmInv /\ [AlarmNext]_clockAllVars => AlarmInv'
<1>. SUFFICES ASSUME AlarmInv, [AlarmNext]_clockAllVars PROVE AlarmInv'
  OBVIOUS
<1>1. CASE Timeout
  BY <1>1, AlarmTimeout
<1>2. CASE StartClock \/ UNCHANGED clockAllVars
  <2>1. UNCHANGED <<timedOut, timeouts, nticks, list, time, rollover, due, tick, calling>>
    BY <1>2 DEF StartClock, clockAllVars, timerVars, alarmVars
  <2>2. /\ TicksCounted /\ (timedOut => timeouts > 0)
        /\ timedOut \in BOOLEAN /\ timeouts \in Nat
    BY DEF AlarmInv, AlarmTypeOK
  <2>3. TicksCounted'
    BY <2>1, <2>2, CountKept
  <2>. QED BY <2>1, <2>2, <2>3, AlarmQuiet
<1>3. CASE TickStarts
  BY <1>3, AlarmTickStarts
<1>4. CASE TickPasses
  BY <1>4, AlarmTickPasses
<1>5. CASE TickCalls
  BY <1>5, AlarmTickCalls
<1>6. CASE TickEnds
  BY <1>6, AlarmTickEnds
<1>7. ASSUME NEW a \in Alarms, TickStarted(a) \/ AlarmStart(a) PROVE AlarmInv'
  <2>1. PICK n \in Intervals : Start(a, n)
    BY <1>7 DEF TickStarted, AlarmStart
  <2>2. ~In(list, a) /\ UNCHANGED <<timedOut, timeouts, nticks, tick, calling>>
    BY <1>7, AlarmNames DEF TickStarted, AlarmStart, timerVars
  <2>. QED BY <2>1, <2>2, AlarmStarted
<1>8. ASSUME NEW a \in Alarms, TickStopped(a) \/ AlarmStop(a) PROVE AlarmInv'
  <2>1. /\ In(list, a) /\ a # tick /\ list' = Without(a)
        /\ UNCHANGED <<timedOut, timeouts, nticks, time, rollover, due, tick, calling>>
    BY <1>8, AlarmNames DEF TickStopped, AlarmStop, timerVars
  <2>. QED BY <2>1, AlarmRemoved
<1>9. ASSUME NEW n \in Intervals, CallbackReturns(n) PROVE AlarmInv'
  BY <1>9, AlarmReturns
<1>. QED BY <1>1, <1>2, <1>3, <1>4, <1>5, <1>6, <1>7, <1>8, <1>9 DEF AlarmNext, TickStep

\* A callback runs at the tick it was asked for, never earlier and never later, for
\* any number of alarms, any width of the counter and any intervals below it,
\* across the wrap and whatever alarms callbacks start and stop, their own
\* too, but for the one behind their own in the list (alt_tick.c:102); and no tick is
\* lost or counted twice (altera_avalon_timer_sc.c:62).
THEOREM CallbacksOnTime == AlarmSpec => []AlarmsOnTime
<1>1. AlarmSpec => []AlarmInv
  BY AlarmStarts, AlarmStep, PTL DEF AlarmSpec
<1>2. ASSUME AlarmInv PROVE AlarmsOnTime
  <2>1. TicksCounted
    BY <1>2 DEF AlarmInv
  <2>2. ASSUME NEW a \in Alarms, Listed(a)
        PROVE  IF a \in ToVisit THEN due[a] >= 0 /\ (Expired(a) <=> due[a] = 0)
                                ELSE due[a] > 0 \/ a = calling
    <3>1. OnTime(a, list, tick, calling) /\ (a \in ToVisit <=> a \in From(list, tick))
      BY <1>2, <2>2, AlarmNames DEF AlarmInv
    <3>2. rollover[a] \in BOOLEAN /\ nticks \in 0 .. Word - 1
      BY <1>2 DEF AlarmInv, AlarmTypeOK
    <3>3. CASE a \in ToVisit
      <4>1. a # calling /\ (a \in From(list, tick)) = TRUE
        BY <3>1, <3>3 DEF OnTime
      <4>2. Timed(time[a], rollover[a], due[a], nticks, TRUE)
        BY <3>1, <4>1 DEF OnTime
      <4>3. Tested(time[a], rollover[a], due[a], nticks)
        BY <3>2, <4>2, TimedExpires
      <4>. QED BY <3>3, <4>3, Zenon DEF Tested, Expired, Waiting
    <3>4. CASE a \notin ToVisit /\ a # calling
      <4>1. (a \in From(list, tick)) = FALSE
        BY <3>1, <3>4
      <4>2. Timed(time[a], rollover[a], due[a], nticks, FALSE)
        BY <3>1, <3>4, <4>1 DEF OnTime
      <4>3. due[a] \in 1 .. Word - 1
        BY <4>2 DEF Timed
      <4>. QED BY <3>4, <4>3, WordFacts
    <3>. QED BY <3>3, <3>4
  <2>3. \A a \in Alarms : Listed(a) =>
          IF a \in ToVisit THEN due[a] >= 0 /\ (Expired(a) <=> due[a] = 0)
                           ELSE due[a] > 0 \/ a = calling
    BY <2>2
  <2>. QED BY <2>1, <2>3 DEF AlarmsOnTime
<1>. QED BY <1>1, <1>2, PTL
=============================================================================
