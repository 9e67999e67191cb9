-------------------------------- MODULE MCBsp ---------------------------------
(***************************************************************************)
(* The parts of the board support package for model checking.  They share  *)
(* no state: the run chooses one of them at the start, so that it explores *)
(* the sum of their states and not the product.                            *)
(***************************************************************************)
EXTENDS Uart, JtagUart, FileTable, Irq, Cache, Alarm, TimeOfDay, Timestamp, Heap,
        Profile, Polled

CONSTANTS
  uart, jtag, fs, file,           \* names for FileTable
  Units                           \* the parts that a run explores

VARIABLE unit                     \* the part that runs

\* One file of one file system, beside the two devices.
MCMountOf == [path \in {file} |-> fs]

\* The drivers of the devices, and a file system that has all functions.
MCProvides ==
  [d \in Devices \cup {fs, Null} |->
     IF d = fs THEN DevFunctions ELSE IF d = Null THEN {"write"} ELSE {"read", "write"}]

\* Dates with and without a carry.
MCDates == {<<0, 0>>, <<1, 2>>, <<3, 5>>}

bspVars == <<unit, uartVars, jtagVars, fileVars, irqVars, cacheVars,
             clockAllVars, todVars, timestampVars, heapVars, profileVars,
             polledVars>>

BspInit ==
  /\ unit \in Units
  /\ UartInit /\ JtagInit /\ FileInit /\ IrqInit /\ CacheInit
  /\ AlarmInit /\ TodInit /\ TimestampInit /\ HeapInit
  /\ ProfileInit /\ PolledInit
  \* One initial state of each other part.
  /\ unit = "jtag" \/ timeout = INT_MAX
  /\ unit = "polled" \/ (build = "uart" /\ termios.ispeed = 1)

\* Nothing of the other parts changes.
OnlyUart ==
  /\ unit = "uart"
  /\ UNCHANGED <<unit, jtagVars, fileVars, irqVars, cacheVars, clockAllVars,
                 todVars, timestampVars, heapVars, profileVars, polledVars>>
OnlyJtag ==
  /\ unit = "jtag"
  /\ UNCHANGED <<unit, uartVars, fileVars, irqVars, cacheVars, clockAllVars,
                 todVars, timestampVars, heapVars, profileVars, polledVars>>
OnlyFile ==
  /\ unit = "file"
  /\ UNCHANGED <<unit, uartVars, jtagVars, irqVars, cacheVars, clockAllVars,
                 todVars, timestampVars, heapVars, profileVars, polledVars>>
OnlyIrq ==
  /\ unit = "irq"
  /\ UNCHANGED <<unit, uartVars, jtagVars, fileVars, cacheVars, clockAllVars,
                 todVars, timestampVars, heapVars, profileVars, polledVars>>
OnlyCache ==
  /\ unit = "cache"
  /\ UNCHANGED <<unit, uartVars, jtagVars, fileVars, irqVars, clockAllVars,
                 todVars, timestampVars, heapVars, profileVars, polledVars>>
OnlyAlarm ==
  /\ unit = "alarm"
  /\ UNCHANGED <<unit, uartVars, jtagVars, fileVars, irqVars, cacheVars,
                 todVars, timestampVars, heapVars, profileVars, polledVars>>
OnlyTod ==
  /\ unit = "tod"
  /\ UNCHANGED <<unit, uartVars, jtagVars, fileVars, irqVars, cacheVars,
                 clockAllVars, timestampVars, heapVars, profileVars, polledVars>>
OnlyTimestamp ==
  /\ unit = "timestamp"
  /\ UNCHANGED <<unit, uartVars, jtagVars, fileVars, irqVars, cacheVars,
                 clockAllVars, todVars, heapVars, profileVars, polledVars>>
OnlyHeap ==
  /\ unit = "heap"
  /\ UNCHANGED <<unit, uartVars, jtagVars, fileVars, irqVars, cacheVars,
                 clockAllVars, todVars, timestampVars, profileVars, polledVars>>
OnlyProfile ==
  /\ unit = "profile"
  /\ UNCHANGED <<unit, uartVars, jtagVars, fileVars, irqVars, cacheVars,
                 clockAllVars, todVars, timestampVars, heapVars, polledVars>>
OnlyPolled ==
  /\ unit = "polled"
  /\ UNCHANGED <<unit, uartVars, jtagVars, fileVars, irqVars, cacheVars,
                 clockAllVars, todVars, timestampVars, heapVars, profileVars>>

BspNext == \/ (OnlyUart /\ UartNext)
           \/ (OnlyJtag /\ JtagNext)
           \/ (OnlyFile /\ FileNext)
           \/ (OnlyIrq /\ IrqNext)
           \/ (OnlyCache /\ CacheNext)
           \/ (OnlyAlarm /\ AlarmNext)
           \/ (OnlyTod /\ TodNext)
           \/ (OnlyTimestamp /\ TimestampNext)
           \/ (OnlyHeap /\ HeapNext)
           \/ (OnlyProfile /\ ProfileNext)
           \/ (OnlyPolled /\ PolledNext)

(***************************************************************************)
(* Fairness of the part that runs.                                         *)
(***************************************************************************)

\* The processor takes interrupts and runs the thread, and the line transmits.
\* Interrupts come with characters: they do not keep the thread from its steps
\* for ever.
UartFairness == /\ WF_uartVars(unit = "uart" /\ Transmitted)
                /\ WF_uartVars(unit = "uart" /\ Handler)
                /\ WF_uartVars(unit = "uart" /\ Thread(ThreadStep))

\* The same, and the clock ticks; nothing is assumed of the JTAG host.
JtagFairness == /\ WF_jtagVars(unit = "jtag" /\ JHandler)
                /\ WF_jtagVars(unit = "jtag" /\ HostTimer)
                /\ WF_jtagVars(unit = "jtag" /\ JThread(JThreadStep))

\* The processor takes an interrupt whenever it may, however briefly the thread
\* enables it, and runs handlers; the thread leaves its critical sections.
IrqFairness ==
  /\ SF_irqVars(unit = "irq" /\ IrqHandler)
  /\ WF_irqVars(unit = "irq" /\ IrqThread(EnableAll))
  /\ SF_irqVars(unit = "irq" /\ IrqThread(Len(contexts) = 1 /\ EnableAll))

\* The processor takes the interrupt, a tick goes on, and a callback returns.
AlarmFairness ==
  WF_clockAllVars(unit = "alarm" /\ (\/ TickStarts \/ TickPasses \/ TickCalls \/ TickEnds
                                     \/ \E n \in Intervals : CallbackReturns(n)))

BspFairness == UartFairness /\ JtagFairness /\ IrqFairness /\ AlarmFairness

BspSafety == BspInit /\ [][BspNext]_bspVars
BspSpec   == BspSafety /\ BspFairness
=============================================================================
