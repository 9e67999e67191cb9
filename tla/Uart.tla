-------------------------------- MODULE Uart --------------------------------
(***************************************************************************)
(* The interrupt-driven driver of the Avalon UART (the "fast" driver of    *)
(* altera_avalon_uart_*.c) and the device it drives.  One thread calls     *)
(* read, write and close; the interrupt handler moves characters between   *)
(* the device and two rings that it shares with that thread.               *)
(*                                                                         *)
(* The thread's accesses to shared state are separate steps between which  *)
(* an interrupt may be taken; a section between alt_irq_disable_all and    *)
(* alt_irq_enable_all is one step.  The handler is not interrupted, but    *)
(* the device goes on while it runs.  `ctrl' is both the shadow word and   *)
(* the device's control register, which are always written together.       *)
(*                                                                         *)
(* A character is its number, modulo Labels, so that rings can be compared *)
(* with what went into them.  The UART of this system has no CTS and RTS   *)
(* lines (UART0_USE_CTS_RTS is 0): the flow-control branch of txirq is not *)
(* taken and the device never reports DCTS.                                *)
(***************************************************************************)
EXTENDS Naturals, Sequences

CONSTANTS
  BufLen,       (* ALT_AVALON_UART_BUF_LEN: 64                             *)
  Labels,       (* characters are told apart modulo this number            *)
  Bad,          (* a character received with a parity or framing error     *)
  Lengths,      (* lengths of the read and write calls                     *)
  MaxTraffic    (* bound: characters that arrive or are given to write     *)

ASSUME UartAssumption ==
  /\ BufLen \in Nat /\ BufLen > 1
  /\ Labels \in Nat /\ Labels > 0
  /\ Bad \notin Nat
  /\ Lengths \subseteq Nat
  /\ MaxTraffic \in Nat

VARIABLES
  (* the device *)
  rrdy, rxdata, fault,   (* a character waits, and its error flags         *)
  trdy,                  (* the transmitter takes a character              *)
  (* altera_avalon_uart_state *)
  ctrl,                  (* enabled interrupts                             *)
  rx_start, rx_end, rx_buf,
  tx_start, tx_end, tx_buf,
  (* control flow *)
  isr, status,           (* the handler's next step; the STATUS it read    *)
  call, len, count, nonblock,  (* the thread's call and its arguments      *)
  (* history *)
  accepted,              (* characters put in the receive ring, not read   *)
  queued,                (* characters put in the transmit ring, not sent  *)
  arrivals, written,
  spilled                (* a character was put in a full receive ring     *)

deviceVars  == <<rrdy, rxdata, fault, trdy>>
rxVars      == <<rx_start, rx_end, rx_buf, accepted>>
txVars      == <<tx_start, tx_end, tx_buf, queued>>
threadVars  == <<call, len, count, nonblock>>
isrVars     == <<isr, status>>
countVars   == <<arrivals, written>>
uartVars    == <<deviceVars, ctrl, rxVars, txVars, isrVars, threadVars, countVars, spilled>>

\* A ring index behind i, the number of characters between two indices, and
\* the characters themselves.
After(i)         == (i + 1) % BufLen
Held(start, end) == (end + BufLen - start) % BufLen
Contents(buf, start, end) ==
  [i \in 1 .. Held(start, end) |-> buf[(start + i - 1) % BufLen]]

NoStatus == [rrdy |-> FALSE, fault |-> FALSE, trdy |-> FALSE]

RxFull == After(rx_end) = rx_start
TxFull == After(tx_end) = tx_start

-----------------------------------------------------------------------------
(* The device *)

\* A character arrives; one that was not fetched is overwritten.
Arrive ==
  /\ arrivals + written < MaxTraffic
  /\ arrivals' = arrivals + 1
  /\ rrdy' = TRUE
  /\ \/ rxdata' = arrivals % Labels /\ UNCHANGED fault
     \/ rxdata' = Bad /\ fault' = TRUE
  /\ UNCHANGED <<trdy, ctrl, rxVars, txVars, isrVars, threadVars,
                 written, spilled>>

\* The transmitter has room again.
Transmitted ==
  /\ ~trdy
  /\ trdy' = TRUE
  /\ UNCHANGED <<rrdy, rxdata, fault, ctrl, rxVars, txVars, isrVars,
                 threadVars, countVars, spilled>>

Interrupt ==
  \/ "rrdy" \in ctrl /\ rrdy
  \/ "trdy" \in ctrl /\ trdy

-----------------------------------------------------------------------------
(* altera_avalon_uart_irq *)

\* Entry: STATUS is read.
IrqEntry ==
  /\ isr = "none" /\ Interrupt
  /\ status' = [rrdy |-> rrdy, fault |-> fault, trdy |-> trdy]
  /\ isr' = "clear"
  /\ UNCHANGED <<deviceVars, ctrl, rxVars, txVars, threadVars, countVars, spilled>>

\* STATUS is written: the device forgets its errors.
IrqClear ==
  /\ isr = "clear"
  /\ fault' = FALSE
  /\ isr' = "rx"
  /\ UNCHANGED <<rrdy, rxdata, trdy, ctrl, rxVars, txVars, status, threadVars,
                 countVars, spilled>>

\* rxirq puts the character in the ring and closes the interrupt when that
\* was the last slot.  It looks at STATUS alone, not at what is enabled, and
\* on an error it returns without fetching the character.
Stored ==
  /\ rx_buf' = [rx_buf EXCEPT ![rx_end] = rxdata]
  /\ rx_end' = After(rx_end)
  /\ ctrl' = IF After(rx_end') = rx_start THEN ctrl \ {"rrdy"} ELSE ctrl
  /\ rrdy' = FALSE
  /\ accepted' = Append(accepted, rxdata)
  /\ spilled' = (spilled \/ RxFull)

RxIrq ==
  /\ isr = "rx"
  /\ isr' = "tx"
  /\ IF status.rrdy /\ ~status.fault
     THEN Stored
     ELSE UNCHANGED <<rx_buf, rx_end, ctrl, rrdy, accepted, spilled>>
  /\ UNCHANGED <<rxdata, fault, trdy, rx_start, txVars, status, threadVars, countVars>>

\* txirq sends the oldest character, and closes the interrupt when none is
\* left.
Send ==
  /\ trdy' = FALSE
  /\ tx_start' = After(tx_start)
  /\ queued' = Tail(queued)
  /\ ctrl' = IF tx_start' = tx_end THEN ctrl \ {"trdy", "dcts"} ELSE ctrl \cup {"trdy"}

NothingToSend ==
  /\ ctrl' = ctrl \ {"trdy", "dcts"}
  /\ UNCHANGED <<trdy, tx_start, queued>>

TxIrq ==
  /\ isr = "tx"
  /\ isr' = "none" /\ status' = NoStatus
  /\ IF status.trdy
     THEN IF tx_start # tx_end THEN Send ELSE NothingToSend
     ELSE UNCHANGED <<trdy, tx_start, queued, ctrl>>
  /\ UNCHANGED <<rrdy, rxdata, fault, rxVars, tx_end, tx_buf, threadVars, countVars,
                 spilled>>

Handler == IrqEntry \/ IrqClear \/ RxIrq \/ TxIrq

-----------------------------------------------------------------------------
(* The thread *)

Thread(A) ==
  /\ isr = "none"
  /\ A
  /\ UNCHANGED <<deviceVars, isrVars, arrivals>>

Return == call' = "none" /\ len' = 0 /\ count' = 0 /\ nonblock' = FALSE

CallRead(n, flag) ==
  /\ call = "none"
  /\ call' = "read" /\ len' = n /\ count' = 0 /\ nonblock' = flag
  /\ UNCHANGED <<ctrl, rxVars, txVars, written, spilled>>

\* One character is copied out of the ring.
ReadCopy ==
  /\ call = "read" /\ count < len /\ rx_start # rx_end
  /\ count' = count + 1
  /\ rx_start' = After(rx_start)
  /\ accepted' = Tail(accepted)
  /\ UNCHANGED <<ctrl, rx_end, rx_buf, txVars, call, len, nonblock, written, spilled>>

\* The ring is empty, or enough was read: leave the loop, or block with the
\* receive interrupt open.
ReadCheck ==
  /\ call = "read" /\ (count = len \/ rx_start = rx_end)
  /\ IF count = 0 /\ rx_start = rx_end /\ ~nonblock
     THEN /\ ctrl' = ctrl \cup {"rrdy"}
          /\ call' = IF len = 0 THEN "readEnd" ELSE "read"
     ELSE call' = "readEnd" /\ UNCHANGED ctrl
  /\ UNCHANGED <<rxVars, txVars, len, count, nonblock, written, spilled>>

\* Before it returns, read opens the receive interrupt, full ring or not.
ReadEnd ==
  /\ call = "readEnd"
  /\ ctrl' = ctrl \cup {"rrdy"}
  /\ Return
  /\ UNCHANGED <<rxVars, txVars, written, spilled>>

CallWrite(n, flag) ==
  /\ call = "none" /\ arrivals + written + n <= MaxTraffic
  /\ call' = "write" /\ len' = n /\ count' = n /\ nonblock' = flag
  /\ UNCHANGED <<ctrl, rxVars, txVars, written, spilled>>

\* One character is put in the ring.
Put ==
  /\ tx_buf' = [tx_buf EXCEPT ![tx_end] = written % Labels]
  /\ tx_end' = After(tx_end)
  /\ queued' = Append(queued, written % Labels)
  /\ count' = count - 1
  /\ written' = written + 1

WritePut ==
  /\ call = "write" /\ count > 0 /\ ~TxFull
  /\ Put
  /\ UNCHANGED <<ctrl, rxVars, tx_start, call, len, nonblock, spilled>>

MutWriteBlock ==
  /\ call = "write" /\ count > 0 /\ TxFull
  /\ call' = IF nonblock THEN "writeEnd" ELSE "writeWait"
  /\ UNCHANGED <<ctrl, rxVars, txVars, len, count, nonblock, written, spilled>>

\* No space: give up, or open the transmit interrupt and wait.
WriteBlock ==
  /\ call = "write" /\ count > 0 /\ TxFull
  /\ IF nonblock
     THEN call' = "writeEnd" /\ UNCHANGED ctrl
     ELSE call' = "writeWait" /\ ctrl' = ctrl \cup {"trdy", "dcts"}
  /\ UNCHANGED <<rxVars, txVars, len, count, nonblock, written, spilled>>

MutWriteWoken ==
  /\ call = "writeWait"
  /\ Put
  /\ call' = "write"
  /\ UNCHANGED <<ctrl, rxVars, tx_start, len, nonblock, spilled>>

WriteWoken ==
  /\ call = "writeWait" /\ ~TxFull
  /\ Put
  /\ call' = "write"
  /\ UNCHANGED <<ctrl, rxVars, tx_start, len, nonblock, spilled>>

WriteDone ==
  /\ call = "write" /\ count = 0
  /\ call' = "writeEnd"
  /\ UNCHANGED <<ctrl, rxVars, txVars, len, count, nonblock, written, spilled>>

WriteEnd ==
  /\ call = "writeEnd"
  /\ ctrl' = ctrl \cup {"trdy", "dcts"}
  /\ Return
  /\ UNCHANGED <<rxVars, txVars, written, spilled>>

CallClose(flag) ==
  /\ call = "none"
  /\ call' = "close" /\ nonblock' = flag
  /\ UNCHANGED <<ctrl, rxVars, txVars, len, count, written, spilled>>

\* close drains the transmit ring, unless it may not block.
CloseEnd ==
  /\ call = "close" /\ (tx_start = tx_end \/ nonblock)
  /\ Return
  /\ UNCHANGED <<ctrl, rxVars, txVars, written, spilled>>

ThreadStep ==
  \/ ReadCopy \/ ReadCheck \/ ReadEnd
  \/ WritePut \/ WriteBlock \/ WriteWoken \/ WriteDone \/ WriteEnd \/ CloseEnd

ThreadCall ==
  \E flag \in BOOLEAN :
    \/ \E n \in Lengths : CallRead(n, flag) \/ CallWrite(n, flag)
    \/ CallClose(flag)

-----------------------------------------------------------------------------
\* The device as reset leaves it, and altera_avalon_uart_init.
UartInit ==
  /\ rrdy = FALSE /\ rxdata = 0 /\ fault = FALSE /\ trdy = TRUE
  /\ ctrl = {"rrdy", "dcts"}
  /\ rx_start = 0 /\ rx_end = 0 /\ rx_buf = [i \in 0 .. BufLen - 1 |-> 0]
  /\ tx_start = 0 /\ tx_end = 0 /\ tx_buf = [i \in 0 .. BufLen - 1 |-> 0]
  /\ isr = "none"
  /\ status = NoStatus
  /\ call = "none" /\ len = 0 /\ count = 0 /\ nonblock = FALSE
  /\ accepted = <<>> /\ queued = <<>>
  /\ arrivals = 0 /\ written = 0 /\ spilled = FALSE

UartNext ==
  \/ Arrive \/ Transmitted
  \/ Handler
  \/ Thread(ThreadStep)
  \/ Thread(ThreadCall)

UartSpec == UartInit /\ [][UartNext]_uartVars

-----------------------------------------------------------------------------
\* The rings (altera_avalon_uart_write.c:205, altera_avalon_uart_init.c:176)
\* hold what was put in and not yet taken out, in order, however the handler
\* and the thread take turns.  A character stored in a full receive ring is
\* the one way to lose others; see UartRxKept.
UartRingsHold ==
  /\ queued = Contents(tx_buf, tx_start, tx_end)
  /\ ~spilled => accepted = Contents(rx_buf, rx_start, rx_end)

\* Nobody waits for ever (altera_avalon_uart_write.c:188, "to avoid deadlock"):
\* write and close return, read does when the ring has a character, and a
\* character that arrived is fetched unless the ring is full.
UartCallsReturn ==
  /\ call \in {"write", "writeWait", "close"} ~> call = "none"
  /\ (call = "read" /\ rx_start # rx_end) ~> (call = "none" \/ spilled)
  /\ rrdy ~> (~rrdy \/ RxFull \/ spilled)

\* altera_avalon_uart_init.c:188 of the handler: "If the cicular buffer was
\* full, disable interrupts. Interrupts will be re-enabled when data is removed
\* from the buffer."
UartRxKept == accepted = Contents(rx_buf, rx_start, rx_end)
=============================================================================
