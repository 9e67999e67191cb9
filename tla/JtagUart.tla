------------------------------ MODULE JtagUart ------------------------------
(***************************************************************************)
(* The interrupt-driven driver of the JTAG UART (stdin, stdout and stderr  *)
(* of the firmware) and the device it drives.                              *)
(*                                                                         *)
(* The thread shares two rings with the interrupt handler without a lock:  *)
(* each index has one writer, and the thread works on snapshots of the     *)
(* other's index.  Every such read is a step of its own.  The handler      *)
(* loops until the device asks for nothing; the thread does not run        *)
(* meanwhile, the host and the device do.  The alarm that watches for a    *)
(* host is there only if the system has a clock; without one the driver    *)
(* behaves as though a host were present, and waits for it.                *)
(*                                                                         *)
(* A character is its number modulo JLabels.                               *)
(***************************************************************************)
EXTENDS Naturals, Sequences

CONSTANTS
  JBufLen,          (* ALTERA_AVALON_JTAG_UART_BUF_LEN: 2048               *)
  JDepth, JAlmost,  (* the device's FIFOs and their thresholds: 64 and 8   *)
  JLabels, JLengths, JMaxTraffic,
  DefaultTimeout,   (* 10 ticks of the alarm                               *)
  INT_MAX

ASSUME JtagAssumption ==
  /\ JBufLen \in Nat /\ JBufLen > 1
  /\ JDepth \in Nat /\ JAlmost \in 0 .. JDepth - 1
  /\ JLabels \in Nat /\ JLabels > 0 /\ JMaxTraffic \in Nat
  /\ JLengths \subseteq Nat \ {0}
  /\ DefaultTimeout \in Nat /\ INT_MAX \in Nat
  /\ 2 <= DefaultTimeout /\ DefaultTimeout < INT_MAX - 2

VARIABLES
  (* the device *)
  rfifo, wfifo,        (* from the host, to the host                       *)
  ien,                 (* interrupt enables: "re", "we" (and irq_enable)   *)
  pause_irq, ac,       (* the host paused; the host was active             *)
  (* altera_avalon_jtag_uart_state *)
  timeout, host_inactive,
  rx_in, rx_out, jrx_buf,
  tx_in, tx_out, jtx_buf,
  (* control flow *)
  jisr, control, ravail,           (* the handler, what it read            *)
  jcall, jcount, done, seen, jnonblock,   (* the thread and its locals     *)
  (* history *)
  jaccepted, jqueued, jarrivals, jwritten

jDevice == <<rfifo, wfifo, pause_irq, ac>>
jAlarm  == <<timeout, host_inactive>>
jRx     == <<rx_in, jrx_buf>>
jTx     == <<tx_out>>
jIsr    == <<jisr, control, ravail>>
jLocals == <<jcall, jcount, done, seen, jnonblock>>
jHist   == <<jaccepted, jqueued, jarrivals, jwritten>>
jtagVars == <<jDevice, ien, jAlarm, jRx, rx_out, jTx, tx_in, jtx_buf, jIsr, jLocals, jHist>>

JHeld(out, in)         == (in + JBufLen - out) % JBufLen
JContents(buf, out, in) == [i \in 1 .. JHeld(out, in) |-> buf[(out + i - 1) % JBufLen]]
JRxFull                == (rx_in + 1) % JBufLen = rx_out
HostGone               == host_inactive >= timeout

-----------------------------------------------------------------------------
(* The device and the host *)

ReadIrq  == "re" \in ien /\ (pause_irq \/ JDepth - Len(rfifo) <= JAlmost)
WriteIrq == "we" \in ien /\ Len(wfifo) <= JAlmost

JArrived ==
  /\ jarrivals + jwritten < JMaxTraffic /\ Len(rfifo) < JDepth
  /\ jarrivals' = jarrivals + 1
  /\ ac' = TRUE

\* A character arrives; the host may pause behind it or later.
HostSends ==
  /\ JArrived
  /\ rfifo' = Append(rfifo, jarrivals % JLabels)
  /\ UNCHANGED <<wfifo, pause_irq, ien, jAlarm, jRx, rx_out, jTx, tx_in, jtx_buf,
                 jIsr, jLocals, jaccepted, jqueued, jwritten>>

HostPauses ==
  /\ rfifo # <<>>
  /\ pause_irq' = TRUE /\ ac' = TRUE
  /\ UNCHANGED <<rfifo, wfifo, ien, jAlarm, jRx, rx_out, jTx, tx_in, jtx_buf, jIsr, jLocals, jHist>>

HostTakesOne ==
  /\ wfifo # <<>>
  /\ wfifo' = Tail(wfifo) /\ ac' = TRUE
  /\ UNCHANGED <<rfifo, pause_irq, ien, jAlarm, jRx, rx_out, jTx, tx_in, jtx_buf, jIsr, jLocals, jHist>>

-----------------------------------------------------------------------------
(* altera_avalon_jtag_uart_irq *)

Isr(from, to) == jisr = from /\ jisr' = to

\* The top of the loop: CONTROL is read.
IsrControl ==
  /\ jisr = "loop" \/ (jisr = "none" /\ (ReadIrq \/ WriteIrq))
  /\ IF ReadIrq \/ WriteIrq
     THEN /\ jisr' = IF ReadIrq THEN "rx" ELSE "tx"
          /\ control' = [wi |-> WriteIrq, space |-> JDepth - Len(wfifo)]
          /\ ravail' = TRUE
     ELSE jisr' = "none" /\ control' = [wi |-> FALSE, space |-> 0] /\ ravail' = FALSE
  /\ UNCHANGED <<jDevice, ien, jAlarm, jRx, rx_out, jTx, tx_in, jtx_buf, jLocals, jHist>>

\* One character is taken from the device.
IsrReceive ==
  /\ jisr = "rx" /\ ~JRxFull /\ rfifo # <<>>
  /\ rfifo' = Tail(rfifo) /\ pause_irq' = FALSE
  /\ ravail' = (rfifo' # <<>>)
  /\ jrx_buf' = [jrx_buf EXCEPT ![rx_in] = Head(rfifo)]
  /\ rx_in' = (rx_in + 1) % JBufLen
  /\ jaccepted' = Append(jaccepted, Head(rfifo))
  /\ UNCHANGED <<wfifo, ac, ien, jAlarm, rx_out, jTx, tx_in, jtx_buf, jisr, control, jLocals,
                 jqueued, jarrivals, jwritten>>

\* The device had none: the count that comes with this answer is taken a
\* cycle later, and counts a character that arrives in between.
IsrReceiveNone ==
  /\ jisr = "rx" /\ ~JRxFull /\ rfifo = <<>>
  /\ jisr' = "rxEnd" /\ pause_irq' = FALSE
  /\ \/ ravail' = FALSE /\ UNCHANGED <<rfifo, jarrivals, ac>>
     \/ JArrived /\ ravail' = TRUE /\ rfifo' = <<jarrivals % JLabels>>
  /\ UNCHANGED <<wfifo, ien, jAlarm, jRx, rx_out, jTx, tx_in, jtx_buf, control, jLocals,
                 jaccepted, jqueued, jwritten>>

IsrRingFull ==
  /\ Isr("rx", "rxEnd") /\ JRxFull
  /\ UNCHANGED <<jDevice, ien, jAlarm, jRx, rx_out, jTx, tx_in, jtx_buf, control, ravail, jLocals, jHist>>

\* Characters are left in the device: no more receive interrupts for now.
IsrReceiveEnd ==
  /\ Isr("rxEnd", IF control.wi THEN "tx" ELSE "loop")
  /\ ien' = IF ravail THEN ien \ {"re"} ELSE ien
  /\ UNCHANGED <<jDevice, jAlarm, jRx, rx_out, jTx, tx_in, jtx_buf, control, ravail, jLocals, jHist>>

\* As many as CONTROL had room for are sent; with room to spare there is
\* nothing left to send.
Sent == IF control.space < JHeld(tx_out, tx_in) THEN control.space ELSE JHeld(tx_out, tx_in)

IsrTransmit ==
  /\ Isr("tx", "loop")
  /\ wfifo' = wfifo \o SubSeq(JContents(jtx_buf, tx_out, tx_in), 1, Sent)
  /\ tx_out' = (tx_out + Sent) % JBufLen
  /\ jqueued' = SubSeq(jqueued, Sent + 1, Len(jqueued))
  /\ ien' = IF control.space > Sent THEN ien \ {"we"} ELSE ien
  /\ UNCHANGED <<rfifo, pause_irq, ac, jAlarm, jRx, rx_out, tx_in, jtx_buf, control, ravail,
                 jLocals, jaccepted, jarrivals, jwritten>>

JHandler ==
  IsrControl \/ IsrReceive \/ IsrReceiveNone \/ IsrRingFull \/ IsrReceiveEnd \/ IsrTransmit

\* altera_avalon_jtag_uart_timeout, from the clock's interrupt.
HostTimer ==
  /\ jisr = "none" /\ timeout # INT_MAX
  /\ host_inactive' = IF ac THEN 0
                      ELSE IF host_inactive < INT_MAX - 2 THEN host_inactive + 1 ELSE host_inactive
  /\ ac' = FALSE
  /\ UNCHANGED <<rfifo, wfifo, pause_irq, ien, timeout, jRx, rx_out, jTx, tx_in, jtx_buf, jIsr, jLocals, jHist>>

-----------------------------------------------------------------------------
(* The thread *)

JThread(A) == jisr = "none" /\ A /\ UNCHANGED <<jDevice, jRx, jTx, jIsr, host_inactive, jarrivals>>

JReturn == jcall' = "none" /\ jcount' = 0 /\ done' = 0 /\ seen' = 0 /\ jnonblock' = FALSE

JCall(name, n, flag) ==
  /\ jcall = "none"
  /\ name = "writeLook" => jarrivals + jwritten + n <= JMaxTraffic
  /\ jcall' = name /\ jcount' = n /\ jnonblock' = flag
  /\ UNCHANGED <<ien, timeout, rx_out, tx_in, jtx_buf, done, seen, jaccepted, jqueued, jwritten>>

\* read: a snapshot of rx_in is taken ...
JReadLook ==
  /\ jcall = "readLook"
  /\ seen' = rx_in
  /\ jcall' = IF rx_in # rx_out THEN "readCopy" ELSE IF done > 0 THEN "readOpen"
              ELSE IF jnonblock THEN "return" ELSE "readWait"
  /\ UNCHANGED <<ien, timeout, rx_out, tx_in, jtx_buf, jcount, done, jnonblock, jaccepted, jqueued, jwritten>>

\* ... and a contiguous piece is copied up to it.
Piece(n) == IF n > jcount THEN jcount ELSE n

JReadCopy ==
  /\ jcall = "readCopy"
  /\ LET n == Piece(IF seen >= rx_out THEN seen - rx_out ELSE JBufLen - rx_out)
     IN /\ rx_out' = (rx_out + n) % JBufLen
        /\ jcount' = jcount - n /\ done' = done + n
        /\ jaccepted' = SubSeq(jaccepted, n + 1, Len(jaccepted))
        /\ jcall' = IF jcount = n THEN "readOpen" ELSE "readLook"
  /\ UNCHANGED <<ien, timeout, tx_in, jtx_buf, seen, jnonblock, jqueued, jwritten>>

\* The ring was empty: spin until it changes or the host is given up.
JReadWait ==
  /\ jcall = "readWait" /\ (rx_in # seen \/ HostGone)
  /\ jcall' = IF rx_in # seen THEN "readLook" ELSE "return"
  /\ UNCHANGED <<ien, timeout, rx_out, tx_in, jtx_buf, jcount, done, seen, jnonblock, jaccepted, jqueued, jwritten>>

MutReadOpen ==
  /\ jcall = "readOpen"
  /\ ien' = ien
  /\ JReturn
  /\ UNCHANGED <<timeout, rx_out, tx_in, jtx_buf, jaccepted, jqueued, jwritten>>

\* Something was read, so there is space: receive interrupts again.
JReadOpen ==
  /\ jcall = "readOpen"
  /\ ien' = ien \cup {"re"}
  /\ JReturn
  /\ UNCHANGED <<timeout, rx_out, tx_in, jtx_buf, jaccepted, jqueued, jwritten>>

\* write: a snapshot of tx_out ...
JWriteLook ==
  /\ jcall = "writeLook"
  /\ seen' = tx_out
  /\ jcall' = "writeCopy"
  /\ UNCHANGED <<ien, timeout, rx_out, tx_in, jtx_buf, jcount, done, jnonblock, jaccepted, jqueued, jwritten>>

MutRoom ==
  IF tx_in < seen THEN seen - tx_in
  ELSE IF seen > 0 THEN JBufLen - tx_in ELSE JBufLen - 1 - tx_in

\* ... and the contiguous room it leaves; one slot stays empty.
Room ==
  IF tx_in < seen THEN seen - 1 - tx_in
  ELSE IF seen > 0 THEN JBufLen - tx_in ELSE JBufLen - 1 - tx_in

JWriteCopy ==
  /\ jcall = "writeCopy"
  /\ LET n == Piece(Room)
     IN /\ jtx_buf' = [i \in DOMAIN jtx_buf |->
                        IF i \in tx_in .. tx_in + n - 1 THEN (jwritten + i - tx_in) % JLabels ELSE jtx_buf[i]]
        /\ tx_in' = (tx_in + n) % JBufLen
        /\ jqueued' = jqueued \o [i \in 1 .. n |-> (jwritten + i - 1) % JLabels]
        /\ jwritten' = jwritten + n
        /\ jcount' = jcount - n /\ done' = done + n
        /\ jcall' = IF n = 0 \/ jcount = n THEN "writeKick" ELSE "writeLook"
  /\ UNCHANGED <<ien, timeout, rx_out, seen, jnonblock, jaccepted>>

MutWriteKick ==
  /\ jcall = "writeKick"
  /\ ien' = IF jcount > 0 THEN ien \cup {"we"} ELSE ien
  /\ jcall' = IF jcount = 0 \/ jnonblock THEN "return" ELSE "writeWait"
  /\ UNCHANGED <<timeout, rx_out, tx_in, jtx_buf, jcount, done, seen, jnonblock, jaccepted, jqueued, jwritten>>

\* The handler is asked to send.
JWriteKick ==
  /\ jcall = "writeKick"
  /\ ien' = ien \cup {"we"}
  /\ jcall' = IF jcount = 0 \/ jnonblock THEN "return" ELSE "writeWait"
  /\ UNCHANGED <<timeout, rx_out, tx_in, jtx_buf, jcount, done, seen, jnonblock, jaccepted, jqueued, jwritten>>

\* Wait for the handler to take something, or for the host to be given up.
JWriteWait ==
  /\ jcall = "writeWait" /\ (tx_out # seen \/ HostGone)
  /\ jcall' = IF tx_out # seen THEN "writeLook" ELSE "return"
  /\ UNCHANGED <<ien, timeout, rx_out, tx_in, jtx_buf, jcount, done, seen, jnonblock, jaccepted, jqueued, jwritten>>

\* close waits until all is sent, unless it may not or the host is given up.
JClose ==
  /\ jcall = "close" /\ (tx_out = tx_in \/ HostGone \/ jnonblock)
  /\ jcall' = "return"
  /\ UNCHANGED <<ien, timeout, rx_out, tx_in, jtx_buf, jcount, done, seen, jnonblock, jaccepted, jqueued, jwritten>>

JReturned ==
  /\ jcall = "return" /\ JReturn
  /\ UNCHANGED <<ien, timeout, rx_out, tx_in, jtx_buf, jaccepted, jqueued, jwritten>>

\* ioctl(TIOCSTIMEOUT): a time-out of less than 2 means never.
SetTimeout(t) ==
  /\ jcall = "none" /\ timeout # INT_MAX
  /\ timeout' = IF t >= 2 /\ t < INT_MAX THEN t ELSE INT_MAX - 1
  /\ UNCHANGED <<ien, rx_out, tx_in, jtx_buf, jLocals, jaccepted, jqueued, jwritten>>

JThreadStep ==
  \/ JReadLook \/ JReadCopy \/ JReadWait \/ JReadOpen
  \/ JWriteLook \/ JWriteCopy \/ JWriteKick \/ JWriteWait \/ JClose \/ JReturned

JThreadCall ==
  \/ \E flag \in BOOLEAN :
       \/ \E n \in JLengths : JCall("readLook", n, flag) \/ JCall("writeLook", n, flag)
       \/ JCall("close", 0, flag)
  \/ \E t \in {0, DefaultTimeout} : SetTimeout(t)

\* The state as ALTERA_AVALON_JTAG_UART_STATE_INSTANCE declares it, but for the
\* timeout, which altera_avalon_jtag_uart_init may change.
JStateInstance ==
  /\ host_inactive = 0
  /\ rx_in = 0 /\ rx_out = 0 /\ jrx_buf = [i \in 0 .. JBufLen - 1 |-> 0]
  /\ tx_in = 0 /\ tx_out = 0 /\ jtx_buf = [i \in 0 .. JBufLen - 1 |-> 0]

-----------------------------------------------------------------------------
\* altera_avalon_jtag_uart_init; alt_alarm_start fails in a system without a
\* clock.
JtagInit ==
  /\ rfifo = <<>> /\ wfifo = <<>> /\ pause_irq = FALSE /\ ac = FALSE
  /\ ien = {"re"}
  /\ JStateInstance /\ timeout \in {DefaultTimeout, INT_MAX}
  /\ jisr = "none" /\ control = [wi |-> FALSE, space |-> 0] /\ ravail = FALSE
  /\ jcall = "none" /\ jcount = 0 /\ done = 0 /\ seen = 0 /\ jnonblock = FALSE
  /\ jaccepted = <<>> /\ jqueued = <<>> /\ jarrivals = 0 /\ jwritten = 0

JtagNext ==
  \/ HostSends \/ HostPauses \/ HostTakesOne
  \/ JHandler \/ HostTimer
  \/ JThread(JThreadStep) \/ JThread(JThreadCall)

JtagSpec == JtagInit /\ [][JtagNext]_jtagVars

-----------------------------------------------------------------------------
\* Each ring holds what was put in and not taken out, in order, whatever
\* snapshot of the other side's index a call works on
\* (altera_avalon_jtag_uart_write.c:105, altera_avalon_jtag_uart_read.c:122);
\* and an interrupt that is closed will be opened: receive only while there is
\* something to read, or about to be opened (altera_avalon_jtag_uart_read.c:190),
\* transmit only with nothing to send, or about to be kicked.
JtagRingsHold ==
  /\ jqueued = JContents(jtx_buf, tx_out, tx_in)
  /\ jaccepted = JContents(jrx_buf, rx_out, rx_in)

JtagInterruptsReopen ==
  /\ "re" \notin ien => rx_in # rx_out \/ done > 0
  /\ "we" \notin ien => tx_in = tx_out \/ jcall \in {"writeLook", "writeCopy", "writeKick"}

\* Every call returns: write and close (altera_avalon_jtag_uart_write.c:183)
\* once the host always takes what is sent, or is given up for good; read once
\* the host pauses behind a character (altera_avalon_jtag_uart_read.c:173), even
\* if an earlier call left receive interrupts closed.
JtagCallsReturn ==
  /\ ([]<>(wfifo = <<>>) \/ <>[]HostGone) => (jcall \in {"writeLook", "close"} ~> jcall = "none")
  /\ (jcall = "readLook" /\ pause_irq) ~> jcall = "none"
=============================================================================
