# Verification of DE0_NiosII_USB_serial

TLA+ models of the USB serial port of a DE0 board: a Nios II system with an
Avalon slave (`AvbusbCtrl.v`) in front of a USB CDC core (`usb_cdc/`), the
firmware that drives it, the run-time library below the firmware, and the PC
tool on the other end of the cable. TLC checks the models on small instances;
TLAPS proves the safety results for every size.

1. [The system](#1-the-system)
2. [Modules](#2-modules)
3. [Runs](#3-runs)
4. [Bounds](#4-bounds)
5. [Fairness](#5-fairness)
6. [Proofs](#6-proofs)
7. [Where the code and its documentation part](#7-where-the-code-and-its-documentation-part)
8. [What else the models brought up](#8-what-else-the-models-brought-up)
9. [What is not modelled](#9-what-is-not-modelled)

## 1. The system

```
 usbserialtest.c      Nios II data master          48 MHz clock
 avbusbctrl.c  -->  cmd/waitrequest/readdata  |
   |                 AvbusbCtrl --- TX FIFO --|--> in_fifo  --\
   v                            --- RX FIFO --|<-- out_fifo --- SIE == USB line == host (PC tool)
 HAL and drivers                              |   ctrl_endp --/
 (console, timestamp)
```

| Component | State it keeps | Operations | What makes it correct |
|---|---|---|---|
| Avalon slave, `src/ip/AvbusbCtrl.v` | staged read byte, registered write byte, error latches, STATUS snapshot, synchronizers, warm-up counter | DATA/STATUS/CTRL/RX_CNT reads and writes, interrupt, reset | no byte lost, doubled or reordered in either direction; stalls end; STATUS ends up right |
| Dual-clock FIFO, `usbfifo.v` | words, two pointers seen late by the other clock, overflow and underflow latches | write edge, read edge, asynchronous clear | stale flags err on the safe side |
| SIE, `usb_cdc/sie.v` | last PID, endpoint and address, toggles, IN byte count, packet state | token, data, handshake in both directions | every transaction takes effect once, whatever the line loses |
| Bulk FIFOs, `in_fifo.v`, `out_fifo.v`, `bulk_endp.v` | IN: bytes kept until the ACK; OUT: committed and speculative bytes, NAK latch | push, fetch, flush, abandon; store, commit, drop, pop | speculative bytes never leak; unacknowledged ones stay |
| Control endpoint, `ctrl_endp.v` | request and its stage, address, configuration, line coding, byte count | SETUP, data and status stages, bus reset | device and host agree on the device's state; transfers end as chapter 9 of USB 2.0 says |
| Driver, `avbusbctrl.c` | none: all state is in the slave | byte, text and block transfers, polling, error clearing | time-outs and stalls lose no bytes |
| CRC test, `usbserialtest.c` and `src/tools/test_usb_crc_bidirectional.py` | packet buffers, counters, deadlines | START, header search, packets and CRC both ways, result line | both sides agree on packet boundaries, PASS is true, nobody waits for ever |
| UART and JTAG UART drivers, `drivers/src/altera_avalon_*uart*` | two rings each, interrupt mask, open flag, time-out | interrupt handler, read, write, close, ioctl | no character lost or doubled between handler and thread; calls return |
| Timer drivers | tick rate, period registers | tick interrupt; start and read of the timestamp | time is right |
| HAL: descriptors, interrupts, alarms, date, caches, heap, profiler | descriptor table and lock, enable mask and nesting, alarm list, time-of-day offset, cache lines, heap end, call graph | the calls of `HAL/src` | see the properties of run `bsp` |

They interact through: a bus with wait states (CPU and slave); two FIFOs whose
clocks are unrelated (slave and core); packets that the line may damage or lose
(core and host); one SIE that keeps a single PID, endpoint and byte count for
both endpoints; rings and device registers shared by a thread and interrupt
handlers that may nest (drivers and HAL).

Hard are therefore the interleaving of the two clocks (a flag is stale when it
is used), the cycle between a decision and its effect (a write is accepted one
cycle before it is stored, a read staged one cycle before it is popped), the loss of
tokens, data and handshakes, bytes that take effect before the packet's CRC is
checked, two programs with finite buffers that both write before they read, and
handlers between a test and the step that relies on it. `PROJECT.json` lists each hazard with
its line and the properties that watch it.

## 2. Modules

| Module | Models |
|---|---|
| `UsbFifo` | `usbfifo.v` over Altera's `dcfifo` |
| `AvbusbCtrl` | `AvbusbCtrl.v` with two instances of `UsbFifo`, and the bus master's timing |
| `ByteChannel` | abstract: a bounded, reliable, resettable byte channel |
| `AvbusbCtrlProps`, `AvbusbCtrl_proofs` | properties, inductive invariant, refinement; theorems |
| `SequenceLemmas` | lemmas on sequences, rings, division, induction and recursive functions for the proofs |
| `MCAvbusbCtrl`, `MCAvbusbTraffic` | command sets and traffic mixes for TLC |
| `InFifo`, `OutFifo` | `in_fifo.v`, `out_fifo.v` with `USE_APP_CLK = 0`, as instantiated here |
| `UsbBulk` | `sie.v` and the multiplexers of `usb_cdc.v` with the two FIFOs, a host and a lossy line |
| `UsbBulkProps`, `UsbBulk_proofs` | properties, fairness, inductive invariant; theorems |
| `CtrlEndp`, `CtrlEndp_proofs` | `ctrl_endp.v` behind the SIE, with a host on a lossy line; theorems |
| `MCUsbBulk`, `MCUsb` | sets of line faults; one of the two pipes at a time |
| `UsbDriver` | `avbusbctrl.c`, one action per bus access |
| `CrcTest`, `CrcTestProps`, `CrcTest_proofs`, `MCCrcTest` | firmware and PC tool over `UsbDriver`, with a link of finite buffers; theorems |
| `Uart`, `JtagUart`, `Polled` | the interrupt-driven and polled console drivers |
| `FileTable` | `alt_open`, `alt_close`, `alt_fd_lock`, `alt_io_redirect`, start-up |
| `Irq` | interrupt dispatch, nesting, critical sections, registration |
| `Cache` | flushing, discarding, uncached aliases, section loading |
| `Alarm`, `TimeOfDay`, `Timestamp` | ticks and alarms; `settimeofday`; the timestamp timer clock by clock |
| `Heap`, `Profile` | `alt_sbrk`; `mcount` and the sampler |
| `UartDrivers_proofs`, `Hal_proofs`, `Clock_proofs` | theorems about the serial drivers; descriptors, interrupts, caches, call graph and heap; alarms, dates and timestamps |
| `MCBsp` | the parts of the library side by side for TLC, and their fairness |

### AvbusbCtrl

`AvalonEdge` is one rising edge of the Avalon clock: everything its clocked
process assigns, the master's next command (`Master`) and what the fabric samples
(`Capture`). Its conjuncts follow the process: `ReadPath` (lines 302-348),
`WritePath` (313-337), `Control` (326-334), `Snapshots` (274-300). Non-blocking
assignments become primed variables over the unprimed ones; where the code
assigns a register twice, the later assignment wins. `UsbTake`, `UsbOffer` and
`UsbStore` are the core's side, on a clock of its own; `Reset` is the
asynchronous reset, possible in any cycle.

A FIFO is the sequence of its words, plus how many of the newest the reader does
not see yet (`hidden`) and how many popped ones the writer still counts (`held`).
`SyncToRead` and `SyncToWrite` let a pointer arrive, by any amount at any time:
this covers every length of synchronizer and every ratio of the clocks.

The master issues one command at a time, holds it while `waitrequest` is
high, and idles for at least one cycle after it was accepted. That idle cycle
comes from the generated CPU (`d_write_nxt`, `A_mem_stall_nxt` in
`DE0Qsys_nios2cpu.v`), and the slave depends on it, as the mutant `MutMayIssue`
shows: with back-to-back writes the slave accepts a byte on a `wrfull` that
does not count the byte still in its write register.

### UsbBulk

A transaction is one step for its token, one per data byte and one for its end,
with the application's pushes and pops between them. The model keeps of `pid_q`
whether it is OUT or SETUP (`dataNext`), since only this decides whether a data
packet is received; of the address nothing (a single device). `endp`,
`inToggle`, `outToggle` and `inByte` are the registers of the same name.
`out_ready_o` ends a transaction 32 clocks after its last packet, which is
before the next token's PID can have arrived; it is therefore part of the step
of that packet. `out_full_q` is refreshed within four clocks and a byte takes
at least 32: `Store` sets it exactly, and only the application's pops can leave
it stale until `FullRefresh`.

The line's faults are named in `AllFaults`, and each of them uses up one unit of
`MaxFaults`. The host is a conforming one: it repeats an OUT packet until it is
acknowledged, compares toggles, and acknowledges every good IN packet, a
repeated one too. Bytes are numbered by their place in the stream; 0 stands for
a byte of a control transfer. The control endpoint only occupies the SIE here: it
answers with any packet, NAK or STALL.

### CtrlEndp

The registers carry the names of `ctrl_endp.v`. An OUT or SETUP transaction is
one step, an IN transaction one for the packet and one for its handshake: the
registers change with each byte and with `out_ready_o`, which comes before the
next token. `SetupDone`, `SetupDamaged`, `SetupAlone`, `OutDone`, `OutDamaged`,
`InToken` and `CtrlAcked` are the endpoint; `ClkGate` is the one place where
`dev_state_qq` learns of a bus reset. A request is a record; what the code only
compares with constants is in its name. The host sends every request the device
knows and unsupported ones, repeats what was lost, may break a transfer off, moves bulk
packets between the stages, and may reset the bus at any time. It keeps what it
knows of the device (`hostAddr`, `hostState`, `hostLine`, `hostIn`, `hostOut`).
`sure` turns FALSE when it cannot know: the ACK of the status stage of a request that
changes the device's state was lost, or such a request was broken off.

### UsbDriver and CrcTest

`UsbDriver` has one action per bus access of `avbusbctrl.c`. A STATUS read
returns what the previous read left in the read register (section 7), so its
polls test an older STATUS word, or two bits of a DATA byte. `CrcTest` is `main` of the
firmware and `main` of the tool, line by line of their loops: the START line that the
tool repeats, the header searches on both sides, payload and CRC in both
directions, the result line and the verdict. `Link` moves bytes between the slave's
FIFOs and the tool's buffers and may lose one; `Deadline` lets any time-out pass. The tool
may be run again while the firmware still is where the first run left it.

### The run-time library

Each part is a module with a thread, the interrupt handler that interferes with
it, and its device. Steps are single accesses to shared memory or device
registers where a handler can come between, and whole calls where interrupts
are disabled; of the tick only a callback that runs (`calling`) comes between. The library is modelled as what it is, a library: parts that this firmware
does not link (alarms, file systems, the exception API, profiling, the polled
drivers, UART ioctl) are checked as its sources configure them. This build has the enhanced interrupt
API, the fast drivers, no threads (`ALT_SINGLE_THREADED`), no system clock, a
100 MHz timestamp timer of 32 bits, 32 descriptors, `stdio` on the JTAG UART
(interrupt 0), the timer on 1 and the UART on 31.

`MCBsp` puts them side by side: a run picks one `unit` at the start and the others stand
still, so that the states add up instead of multiplying. The parts share no
state in the code either, except the processor's interrupt mask, which `Irq` models for all. The theorems are about
each part's own specification (`UartSpec`, `FileSpec`, `AlarmSpec` and so on), of which `MCBsp` takes the steps.

## 3. Runs

| Run | Checks | Shows |
|---|---|---|
| `avbusbctrl_data` | `IInv` `NoFifoError` `BytesConserved` `TxChannelSpec` `RxChannelSpec` | all interleavings of DATA traffic with the core, and of a little of it with every other register and resets in any cycle; both directions implement `ByteChannel` |
| `avbusbctrl_live` | `WritesComplete` `BytesDelivered` `ReadsComplete` `StatusConverges` | stalls end and bytes arrive while the host polls; STATUS and interrupt end up right even if it stops |
| `usb_packets` | `OutExactlyOnce` `InExactlyOnce` `BulkInv` `HostAndDeviceAgree` `TransfersRight` | bulk pipe: exactly-once, in-order delivery both ways under every fault but those of section 7; control pipe: agreement of host and device, right ends of transfers |
| `usbbulk_fair` | `OutDelivered` `InDelivered` `TransferEnds` | NAKs and repetitions end, all bytes arrive, transfers close |
| `crctest_session` | `PacketsAligned` `PassIsTrue` `TestCompletes` `SessionEnds` | firmware and tool stay aligned, PASS is true, nobody waits for ever unless more START lines wait than RX holds |
| `bsp` | `UartRingsHold` `JtagRingsHold` `JtagInterruptsReopen` `FdAccounted` `DescriptorsReach` `LockHolds` `IrqNesting` `CodeFresh` `DataFresh` `AlarmsOnTime` `DateKept` `TimestampRight` `BlocksDisjoint` `ProfileKept` `PolledKept` | every part of the library in every order of calls, interrupts and device events |
| `bsp_live` | `UartCallsReturn` `JtagCallsReturn` `IrqServed` `TicksEnd` | blocking calls return, enabled interrupts are served, ticks end |
| `avbusbctrl_status_read`, `usbbulk_lost_ack`, `usbbulk_bad_token`, `crctest_write`, `uart_spill` | one documented behaviour each | violated, see section 7 |

Every property of a passing run has a mutant: an operator `Mut...` beside the
definition it replaces, with a slip one could make in the code, under which the
property fails. Deadlock is checked in the runs of `AvbusbCtrl` and in `usbbulk_*`, which can
always go on; in the others a program finishes or a bound ends what the
environment does, and their liveness is stated as properties instead.

`TransferEnds` excuses faults and control transactions because it fails with
them: `in_byte_q` is one register for both endpoints and is cleared by the
answer to any IN token, so that an empty packet that is due is forgotten after a
control IN, or once its first attempt was damaged. No document promises more.

## 4. Bounds

- **`avbusbctrl_data`**: FIFOs of 2 words show full, empty and the states between, wrapping
  used-words counts, and one stale word beside one visible. Four bytes to the core and three
  from it exceed the depth, so that a FIFO fills, drains and fills again; they are numbered, so that no
  exchange goes unseen. Resets and other registers are combined with one byte in each direction.
  `WarmUp` 1 and `UsedMax` 1 instead of 128 and 255: the counter stops at its first value
  of readiness, and the used-words field saturates at its ceiling, as in the code. The proofs cover all other values.
- **`avbusbctrl_live`**: depth 1 brings full and empty together; one value of bytes is enough to count; one reset.
- **`usb_packets`, bulk pipe**: packets of 2 bytes, so that full, short and empty ones differ and a
  packet may find room for one of its two bytes; a control packet is shorter than a full bulk
  packet (1 against 2, 8 against 64 in the code). Three bytes each way are two packets; two faults hit a
  packet and its repetition, or one fault and one control transaction do. The proofs cover all other values.
- **`usb_packets`, control pipe**: packets of 3, descriptors of 4 and 7 bytes and a line coding of 2 keep the
  relations of 8, 18, 67 and 7 (`CtrlAssumption`: no answer ends with a full packet, a line
  coding fits into one). Lengths 3 and 9 cut an answer short, or ask for more than there is and than
  `LengthMax` holds. Four transfers take a device from its reset to use and
  change its state once more; one fault and two bus resets hit any step of them.
- **`usbbulk_fair`**: one fault, which leaves the line good afterwards, and one control transaction.
- **`crctest_*`**: bytes are numbers below 16, written as two digits to the base 4, with the texts scaled to match; payloads of
  five bytes, the least that keeps a packet longer than the result line, as in the code (`LineAssumption`); FIFOs of 3 bytes that fill
  within a packet, two runs of the tool, one lost byte. RX holds one START header behind the one that the firmware
  answers, and the tool may write two: as in the code, where 42 fit into 256 bytes (`DE0Qsys.v:921`) and a tool that
  waits for 15 seconds writes 59 (354 bytes). Then both sides may write and neither read: the run reaches
  this, and `TestCompletes` and `SessionEnds` excuse it by name (`StartsSpill`).
- **`bsp*`**: rings of 2, 3 characters, so that rings and device are full and empty at once; two alarms, one of them able to
  act on the other; a tick counter of 4 values that wraps; three interrupts, nested twice; two cache sets, and
  regions that begin and end at any word of a line; polled calls of length 0 and 2; five descriptors. `Word` 4, `Half` 3 and `US` 6 scale 2^32, 2^16 and 10^6.

## 5. Fairness

`Clocks` (of `AvbusbCtrlProps`) gives weak fairness to the Avalon edge, to the core's store into RX
and to the four pointers: both clocks run, and the core's store waits for nothing
else. The core's take from TX depends in the code on the host polling its IN
endpoint; `Polling` is therefore the premise of `WritesComplete` and
`BytesDelivered` and of no other property. The CPU is never obliged to issue a command.

`Fairness` of `UsbBulkProps` is strong for a good bulk token of either direction,
since a host controller serves all pending endpoints again and again but other
traffic comes between; weak for the rest of a transaction, which nothing can
stop, and for the application's pop (RX takes a byte whenever it has room, and
firmware that reads gives it room). Faults and control transactions are never
forced, and the application need not push.

The specification of `CrcTest` is weakly fair to the steps of firmware, tool and link, but not to faults and
deadlines: these are the premise of `SessionEnds` alone (`WF_vars(Deadline)`).

`BspFairness` is weak fairness of interrupt handlers, of alarm callbacks (each returns), of devices that transmit and of the
thread, per part. It is strong for taking an interrupt in `Irq`, because the processor takes a
pending one in any cycle in which it may, however briefly the thread enables it, and for the
end of the thread's outermost critical section, which interrupts may delay but not prevent.

## 6. Proofs

Eight modules hold theorems; each is about its components alone, for every value
of the constants that their assumptions admit.

| Theorem | States | Needs |
|---|---|---|
| `TypeCorrect`, `NoErrors`, `Lossless` | `TypeOK`, `NoFifoError`, `BytesConserved` (`TxConserved` and `RxConserved`) of the slave, always | `ConstantsAssumption`: any depth of at least 1, any warm-up, command set and bounds |
| `TxRefinement`, `RxRefinement` | each direction implements `ByteChannel`, every step being a send, a receive, a restart or a stutter | the same |
| `TypesAndCapacities`, `OutOnce`, `InOnce` | `TypeOK`, `OutExactlyOnce`, `InExactlyOnce` of the bulk pipe, always | its `ConstantsAssumption`: packets of any size, any faults, any number of them |
| `CtrlTypes`, `DeviceAsHostKnows`, `TransfersAsAsked` | `CtrlTypeOK`, `HostAndDeviceAgree`, `TransfersRight` of the control pipe | `CtrlAssumption`: packets and descriptors of any length, but no descriptor ends with a full packet and a line coding fits into one |
| `UartKeepsRings` | `UartRingsHold` | `UartAssumption`: rings of any length above 1 |
| `JtagKeepsRings`, `JtagReopens`, `JtagNeverOverruns` | `JtagRingsHold`, `JtagInterruptsReopen`, and that the device's FIFO is never overrun | `JtagAssumption`: rings of any length above 1, device FIFOs of any depth above their threshold |
| `PollingKeeps` | `PolledKept` of the polled drivers | `PolledAssumption`: calls of any length, 0 included, baud rates between 1 and the clock |
| `DescriptorsAccounted`, `DescriptorsReachTheirs`, `LocksHold` | `FdAccounted`, `DescriptorsReach`, `LockHolds` | `FileAssumption`: any devices, file systems and mount points with names of their own, and more than three descriptors |
| `InterruptsNest` | `IrqNesting` | `IrqAssumption`: any number of lines, any depth |
| `CodeStaysFresh`, `DataStaysFresh` | `CodeFresh`, `DataFresh` of the caches | `CacheAssumption`: lines of any length, caches and memory of any number of lines, any words as code; regions that begin and end anywhere. `DataFresh` leaves out the words of a line that a region shares with others (`shared`) |
| `CallbacksOnTime` | `AlarmsOnTime` | `AlarmConstants`: any alarms, a counter of any width, intervals that do not wrap to the current tick; callbacks that start and stop any alarm, their own too, except the one behind theirs (`alt_tick.c:102`) |
| `DatesKept` | `DateKept` | `TimeConstants`: any dates, any tick rate, a counter of any width. `DateKept` itself has three premises: the rate divides the second, the counter has not wrapped, and the date was set before the 32-bit product of `alt_settod.c:84` overflows (71 minutes) |
| `StampsRight` | `TimestampRight` | `TimestampConstants`: a counter of any width, the timer's clock going on between the driver's writes |
| `CallGraphKept` | `ProfileKept` | `ProfileAssumption`: any functions and callers, any nesting of interrupts |
| `HeapNeverOverlaps` | `BlocksDisjoint` | `HeapConstants`: any heap, any requests, refused ones too, and negative ones down to the heap's start, whatever blocks they cut |
| `PacketsStayAligned`, `PassIsAlwaysTrue` | `PacketsAligned`, `PassIsTrue` of the CRC test | `CrcTestAssumption`, `HeaderAssumption`, `LineAssumption`: any headers, texts and payloads that keep apart, buffers of any size (of RX nothing is assumed), any number of sessions and of lost bytes |

Few of these properties are inductive as they stand. What each proof adds:

**`AvbusbCtrl_proofs`** rests on `Inductive`, `Spec => []IInv`.
`TxConserved` breaks if the byte in the write register finds
TX full, and `RxConserved` if the byte popped is not the one staged. `WriteGap`
closes the first gap (behind a set `wrreq` the bus is idle and TX has room: it
had room when the byte was accepted, and only the Avalon side writes),
`ReadStaged` the second (a pop under way belongs to the read on the bus, RX is
not empty, `readdata` is its head, and a leftover `pending` meets an idle bus).
The first needs the idle cycle after a command (`MayIssue`), and nothing else
about the CPU. There is one lemma per action, split for the Avalon edge into
`EdgeErrors`, `EdgeTx`, `EdgeRx` and `EdgeRegisters`, because the two FIFOs do
not touch each other.

**`UsbBulk_proofs`** rests on `BulkInductive`, `Spec => []BulkInv` (checked by
run `usb_packets`). What the properties leave out is what a packet under way has left behind:

- `HostPacket`: what the host sends is the next bytes of its stream, and bulk data on
  the line carries its toggle.
- `OutInv`: while no token was damaged or missed, a packet being received goes to
  the endpoint of its token, and `outFresh` and the rest of it on the line make
  the host's packet, or a NAK is due. Without the first part a packet enters the
  wrong FIFO, which is what run `usbbulk_bad_token` shows. Toggles that differ
  mean a packet that was stored and whose ACK is missing.
- `InKept`, `InInv`: the IN FIFO holds the newest bytes pushed, and the packet on the line is
  its oldest. `Delivered` is the newest byte that the device may take for
  delivered; the host has nothing beyond it. With the host's toggle ahead, this is
  all that was pushed except what came after the packet on the line had ended.
- `FifosRest`: no speculative byte between packets, `out_full_q` late to fall but never late to
  rise, `in_byte_q` the length of the packet.

Each conjunct has a lemma per action that touches it; the actions that do not
are taken together (`QuietSteps`, `QuietOutSteps`).

**`CtrlEndp_proofs`**: `CtrlInv` is `CtrlTypeOK` and `sure => Faithful`. That both agree
after a transfer needs what holds within it: the endpoint serves the host's request
or refuses it (`Served`); a request without data is accepted, with what it will set, and waits for its
status stage (`Pending`); toggles are about to be reset only for the host's request (`Resets`); a line coding whose data stage met
no fault is stored whole (`LineKept`); and the registers are what the host knows (`Agree`), but for the
one toggle that a bulk handshake may reset before the host does (`ResetEarly`, section 8).
`TransfersRight` needs `Punctual` as well, for transfers whose data stage
met no fault: the pipe stalls for exactly what the device does not accept (`Refuses`), the
host has the first `Len(got)` bytes of the answer, in whole packets, and the packet on the line is the next
(`Answering`, `AnswerGiven`), the empty packet of a status stage is ready (`Confirming`), and nothing is
put off (`NoNak`). It holds only in states that are `Faithful`, and is therefore proved upon `CtrlInv`.

**`UartDrivers_proofs`**: the rings hold because each index has one writer. For the
UART `UartRingsHold` is then inductive with the types. The JTAG driver copies blocks
from indices it has read before, between which the handler moves the other one:
`ReadView` and `WriteView` say that a snapshot shows no more than there is: the block
lies within what is in the ring, or within its free part; `JtagFits` that the handler's
`space` is room that the device still has; `RxOpen` and `TxOpen` that an interrupt is closed only
while the ring has something for the thread to do, or the thread is about to open it. `SequenceLemmas` has
the arithmetic of rings for both drivers (`RingPutOne`, `RingTakeOne` and the like).
The polled drivers (`PolledInv`) need what a call under way has sent or read beyond what
programs were told (`SentSoFar`, `TakenSoFar`), that characters arrive in order behind those taken (`InOrderOf`), and
that a damaged one is told of by the device's flag until the driver has looked, and then by what it saw (`DamageSeen`).

**`Hal_proofs`**. *Descriptors* (`FileInv`): what programs hold is above the
standard streams (`OwnedApart`), so that neither the redirection nor a close touches the other; a
free descriptor has no flags, and the flag of devices, on which the lock's search relies,
is set only below the mark where that search stops (`FlagsRight`); a descriptor is as its open left it (`OpenedAs`), and
the standard streams are as the progress of `alt_io_redirect` has made them
(`StandardStreams`). `LocksHold` is an action property and follows from `FlagsRight`.
*Interrupts* (`IrqInv`): the stack of activations has open handlers, one that is not open at
the top, and faults only there (`Stacked`, `Lined`); `Masked` says that `alt_priority_mask`, and what
each open handler will restore, lets through only lines above those of every handler below, and that the
outermost restores all of them. `IENABLE` is what is active and allowed (`LinesEnabled`); interrupts are
on only in the thread and in open handlers (`PieRight`), and only the outermost
critical section restores that they were on (`Critical`).
*Caches* (`CacheInv`): a word is fresh in the data cache if its line is there, and else in memory, and a clean line is
as in memory (`Current`), which a load, a store and a write-back keep whatever line they evict; a word that is used
past the cache is not cached (`PastApart`). Both are said of code and of the words whose line no region shares (`Vouched`). Code that is not
being changed is fresh in memory and where it was fetched (`CodeInMemory`, `CodeFetched`). The two flushes need the arithmetic
of lines: `TouchesRegion` (the addresses that the loop touches meet every line of a region that begins inside a line),
`TouchesSets` (they meet every set of the instruction cache when the region is longer than it and the loop
is cut short), `LinesApart` (of a line that the loop touches, all words are the region's, or the region shares it).

**`Clock_proofs`**. *Timestamp*: `Starts` says which registers are set before each
of the driver's writes, `Counts` that the counter and the age of the start add up to the
full period until it is used up. *Time of day* (`TodInv`): what
`settimeofday` keeps is the date less the time since the counter was 0; the rest is that division with remainder is
unique, so that seconds and microseconds split at two times make the ticks between them. *Alarms* (`AlarmInv`): the list has no entry twice, the
running tick stands at one of them or at the end, and every alarm is `Timed`: its time is the
counter plus what is left, and its flag is set exactly when that wraps, with the two readings of
the flag that a counter of 0 has before and after the tick has looked at it. `TimedTicks`, `TimedExpires` and
`TimedSet` are the three things that happen to an alarm; the others follow the list as a callback that runs (`calling`) takes entries out before
and behind the tick, its own among them.

*Call graph* (`ProfileInv`): no arc is in two lists (`ArcsApart`); only the innermost `mcount` works with interrupts
off (`McountStacked`), so that the head it links before is still the head, and each one that is past its search has an arc of
its own pair (`McountsRight`); of two levels that increment the same arc, the inner one has loaded no less
(`LoadedInOrder`), so that the outer one's store may lose calls but never invents one. Calls counted and calls on the stack that are
still to be counted (`Uncounted`) are no more than those begun (`CallsKept`); if nothing interrupts, exactly
those ended are counted (`CallsExact`) and the sampler starts once (`SamplerOnce`).
A count is a fold over the arcs of a pair; the proofs use it as the number of units `<<arc, k>>`, `k` up to the
arc's count (`CountedIs`), because what a fold computes cannot be proved and what a
cardinality is can.
*Heap*: `BlocksDisjoint` with the types of its variables is inductive; what needs the proof is that
the end is rounded up also for a request that is refused.

**`CrcTest_proofs`** describes each state by the log `L` of the bytes that the firmware has stored
so far, which is no variable of the model: it is determined by `pc`, the text at hand and the payload (`Written`).

- *Nothing lost* (`CrcInv`): what the tool has matched or read, and what is on its way to it, is `L`
  (`Heard`); the search may have begun late and missed a beginning of `L`, but not while the
  firmware has been sent nothing but START headers. There are three phases: only those have been sent
  (`OnlyStarts`); the tool has found the packet and what is on its way to the firmware is some of those headers and then
  the tool's packet (`PacketSent`); or a later session searches behind a packet that is gone (`Late`), and
  finds no header, since no result text continues one (`Clean`). `PacketsStayAligned` follows.
- *Bytes lost* (`LossyInv`): then nothing says what arrives, but there is less of it than was stored.
  The header is found in the first packet, of which all that follows is there or too little for the tool to come to the end of
  (`Searched`); it is found behind, where the result line is too short to be taken for a packet (`TooLate`, with
  `Bounded` by `LineAssumption`); or the tool has answered, and then it read exactly the packet (`Answered`). The firmware writes
  its result only after `Count` bytes have come, and of a packet with a gap fewer come (`Answering`). So `PassIsAlwaysTrue`
  owes nothing to the 8-bit sum, which a loss might well satisfy: it is the counting on both sides that makes PASS true.

`CrcTestAssumption`, `HeaderAssumption` and `LineAssumption` are what the texts of the code satisfy: the first character
of a header does not return in it; a payload, which the firmware fills from a fixed seed, does not repeat the header;
the only `P` of the result line (`NIOS_RX PASS count=10000 calc=0x..`, ` pc=0x..`) follows a
blank and not a `2`, as it does in the header; `P` is not in `START`; and the line has 48 characters where a
packet has 10009. Of the link it is assumed that it loses bytes and neither makes nor
reorders any.

### What is only model-checked

Every invariant that a passing run checks is proved, and `LockHolds`. With TLC stay:

- all liveness (`WritesComplete`, `OutDelivered`, `TestCompletes`, `TicksEnd` and the others of sections 3 and 5), which needs
  fairness and with it ENABLED;
- the counterexamples of section 7.

Induction over data is done by hand where a proof needs it: `SequenceLemmas` shows by the least counterexample that a set of
numbers with 0 and with all successors is `Nat` (`Induction`), and that a recursive function satisfies
its equation (`Recursion`), because the library's theorems on induction take an operator as parameter, which the provers cannot
instantiate. `CrcTest_proofs` uses them for the payload and its sum; what a payload looks
like for the seeds of the code, or what a fold computes, is not proved.

## 7. Where the code and its documentation part

Each of these is a run that ends in a counterexample.

- **A STATUS read returns an older answer** (`avbusbctrl_status_read`). `AvbusbCtrl.v:289-290`
  promises the snapshot of the previous cycle. The read is not stalled and `readdata` is loaded
  at the edge that ends it, while the component is declared with read latency 0. The fabric gets
  what the register held before: the answer to the read before this one.
- **A lost ACK loses IN bytes** (`usbbulk_lost_ack`). The device sends one byte,
  the host takes it, its ACK is lost, the application pushes another, and the
  repetition has two bytes. The host discards the repetition as such and
  acknowledges it, and the device flushes both: the second byte is neither with the host nor in the FIFO any more
  (`InNotLost`; a byte that is in both for the time being is not counted against the device). After a lost ACK for
  an empty packet a whole packet goes this way.
- **A token with a wrong CRC5 is half obeyed** (`usbbulk_bad_token`). Its PID stays in `pid_q`,
  so that the data packet behind it is taken, for the endpoint of the previous token. The same
  happens to a missed token behind an OUT token whose data was missed.
- **`usbctrl_write_byte` may not return** (`crctest_write`). `avbusbctrl.h:70` promises 0 or -1. The
  poll that finds room has tested an older STATUS word, and the DATA write behind it is held
  by the slave for as long as TX stays full.
- **A full UART ring is emptied** (`uart_spill`). The handler's comment (`altera_avalon_uart_init.c:189`)
  relies on the disabled receive interrupt, but the handler stores whenever STATUS
  says that a character is there. Its end index then meets the start: the ring counts as empty.

## 8. What else the models brought up

What no run is about: facts that lie outside a property's premise, which the
properties name, and comments that the code does not follow.

- `AvbusbCtrl`: bit 27 (`AvbusbCtrl.v:179`, reads of an empty RX FIFO) is never set, since such
  reads wait; RX_CNT of a full FIFO is 0, since `rdusedw` has one bit too few (line 19).
- `ctrl_endp.v:939`: `byte_cnt_q` of a control IN is not taken back when a packet is not acknowledged; the
  retry skips the lost bytes and the transfer ends short. `TransfersRight` holds for transfers whose data stage
  meets no fault (`clean`).
- A damaged data packet of SET_LINE_CODING sends the endpoint to idle. Its status stage is then
  refused for ever, or answered by an empty packet if the last IN packet of either pipe had 8 bytes: the
  host then takes a garbled line coding for set. A repeated data packet (its ACK was lost) is stalled at its first byte.
- The ACK of a bulk IN packet between the stages of SET_CONFIGURATION or CLEAR_FEATURE resets the
  toggle of the bulk OUT pipe early (`in_data_ack_i` is not gated by the endpoint, lines 1004-1014).
- `configured_o` stays high after a bus reset until the next control transaction.
- The time-outs of the tool ("read timeout per phase", `test_usb_crc_bidirectional.py:106`) do not cover `flush()`
  (line 51). A tool started before the firmware fills RX with START lines; the firmware answers the first with its whole packet
  and does not read meanwhile, the tool does not read in `flush()`, and each waits for the other. TLC finds this
  when `TestCompletes` and `SessionEnds` are stated without `StartsSpill`.
- The firmware runs its test once, so that a second run of the tool cannot pass without a restart.
- An alarm callback that stops the alarm behind its own leaves the tick on an element that points to itself
  (`alt_tick.c:102`, `alt_llist.h:110-113`): it never ends. `TicksEnd` and `AlarmsOnTime` assume callbacks that do not.
- `alt_fd_lock.c:43` grants the lock of a device if no other descriptor references it, but the loop (line 61) ends
  below `alt_max_fd`, the highest descriptor in use: one open on that is overlooked. `LockHolds` is about a lock once granted.
- `alt_settod.c:61-63` promises that the date set is the date read at once, but line 84 multiplies in 32 bits and
  `gettimeofday` in 64: the date is right for 71 minutes after start (`DateKept` has the bound).
- After the full period (42.9 s) the timestamp is 0, as `altera_avalon_timer_ts.c:57-58` says and as `TimestampRight` has it; the comment at
  lines 91-94 of the same file says that it is -1.
- The comment at `alt_sbrk.c:46-48` says that no bounds are checked and that memory is handed out beyond the heap. Line 88 does check:
  `BlocksDisjoint` states that no block passes `__alt_heap_limit`.
- `alt_sbrk.c:88` has no lower bound: a negative request beyond the heap's start moves the end below it. `BlocksDisjoint`
  holds for callers that give back no more than there is.
- Profiling: an interrupted increment loses a call, an interrupted test starts the sampler twice, a
  sample at the very end of the text falls behind the array, and a failed `sbrk` is used (`alt_gmon.c:137`).
- A polled UART write of length 0 sends a character that nobody asked for, and in blocking mode does not end
  (`altera_avalon_uart_write.c:90` tests the count behind the first character). Such calls are in the model; `PolledKept` counts what they send.
- Nothing keeps a block of `alt_uncached_malloc` from sharing a cache line with cached data (`alt_uncached_malloc.c:50` takes what `malloc`
  gives): when the neighbour is used, the line is cached with the block's old words and later written back over the new ones.
  `DataFresh` leaves out lines that a region shares.
- A buffer given to a device that begins or ends inside a cache line (`alt_dcache_flush_no_writeback.c:85`) may lose what was stored to its neighbours in
  that line. No comment promises otherwise.

## 9. What is not modelled

- The physical layer (`phy_rx.v`, `phy_tx.v`): the models start at packets.
- The clocking variants of the packet FIFOs with `USE_APP_CLK = 1`: not elaborated in this system.
- A bus reset in the middle of a bulk packet, SOF frame numbers, other devices on the bus.
- A host that gives up a refused OUT packet and sends an empty one: it would meet the stale `out_nak_q` (`out_fifo.v:112`).
- Metastability; a synchronizer either has the new value or not yet.
- Generated interconnect, CPU and SDRAM controller. Of the interconnect the slave sees what `Master` and `Capture` say.
- `usb_uart_top.v`, which this system does not instantiate, and `DE0_TOP.v` and the PLLs, which only wire.
- The speed test tool, which only counts; console output and formatting everywhere.
- Of the library: boot logging, delay loops, stubs that only set `errno`, DMA and flash calls for devices that are not there,
  CTS flow control, writing the profile.
