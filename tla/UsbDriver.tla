----------------------------- MODULE UsbDriver -----------------------------
(***************************************************************************)
(* avbusbctrl.c: the firmware's access to the AvbusbCtrl slave, one action *)
(* per bus access.  The slave is seen through its register map: `tx' and   *)
(* `rx' are its FIFOs, and `readdata' is its read register.  A DATA read   *)
(* is held until its byte is staged, but a STATUS read ends in the cycle   *)
(* that loads the register, so it returns what the previous read left      *)
(* there (module AvbusbCtrl).  Of a STATUS word only the two bits that the *)
(* driver tests are kept.                                                  *)
(***************************************************************************)
EXTENDS Naturals, Sequences

CONSTANTS
  Base,             (* number of byte values: 256 in the code              *)
  NoByte,           (* "no byte write in progress"                         *)
  TxDepth,          (* depth of the slave's TX FIFO                        *)
  TxTimeoutPolls,   (* USBCTRL_TX_TIMEOUT_POLLS: 1000000                   *)
  ErrorRetryLimit,  (* USBCTRL_ERROR_RETRY_LIMIT: 16                       *)
  MaxErrors         (* bound: sticky errors the slave may report           *)

ASSUME DriverAssumption ==
  /\ {Base, TxDepth, TxTimeoutPolls, ErrorRetryLimit} \subseteq Nat \ {0}
  /\ MaxErrors \in Nat
  /\ NoByte \notin 0 .. (Base - 1)

VARIABLES
  tx, rx,      (* the slave's FIFOs                                        *)
  errorLatch,  (* the slave's sticky error                                 *)
  readdata,    (* the slave's read register                                *)
  errors,      (* sticky errors raised so far                              *)
  step,        (* where the driver call in progress stands                 *)
  byte,        (* argument of usbctrl_write_byte, or NoByte                *)
  polls, retries, waits  (* loop counters of the driver                    *)

slaveVars  == <<tx, rx, errorLatch, readdata, errors>>
driverVars == <<step, byte, polls, retries, waits>>

Byte == 0 .. (Base - 1)

\* STATUS as the slave keeps it, and the same two bits of a DATA byte.
Status      == [full |-> Len(tx) = TxDepth, error |-> errorLatch]
DataBits(b) == [full |-> (b \div 4) % 2 = 1, error |-> FALSE]

\* The slave latches an error by itself.
RaiseError ==
  /\ errors < MaxErrors
  /\ errorLatch' = TRUE
  /\ errors' = errors + 1
  /\ UNCHANGED <<tx, rx, readdata, driverVars>>

\* A read of DATA ends when the RX FIFO has a byte; its value is Head(rx).
ReadByte ==
  /\ rx # <<>>
  /\ rx' = Tail(rx)
  /\ readdata' = DataBits(Head(rx))
  /\ UNCHANGED <<tx, errorLatch, errors>>

\* A write to DATA is held by waitrequest while the TX FIFO is full.
StoreByte(b) ==
  /\ Len(tx) < TxDepth
  /\ tx' = Append(tx, b)
  /\ UNCHANGED <<rx, errorLatch, readdata, errors>>

\* Entry of usbctrl_write_byte.
WriteByte(b) ==
  /\ step' = "poll"
  /\ byte' = b
  /\ polls' = 0
  /\ retries' = 0
  /\ waits' = 0

Return(result) ==
  /\ step' = result
  /\ byte' = NoByte
  /\ UNCHANGED <<polls, retries, waits>>

\* One pass of the loop of usbctrl_write_byte: test the STATUS word that the
\* read returned, which is the previous content of the read register.
Poll ==
  /\ step = "poll"
  /\ readdata' = Status
  /\ \/ /\ polls < TxTimeoutPolls /\ readdata.error /\ retries < ErrorRetryLimit
        /\ step' = "clear"
        /\ polls' = polls + 1
        /\ retries' = retries + 1
        /\ waits' = 0
        /\ UNCHANGED byte
     \/ /\ polls < TxTimeoutPolls /\ readdata.error /\ retries = ErrorRetryLimit
        /\ Return("failed")
     \/ /\ polls < TxTimeoutPolls /\ ~readdata.error /\ readdata.full
        /\ polls' = polls + 1
        /\ UNCHANGED <<step, byte, retries, waits>>
     \/ /\ polls < TxTimeoutPolls /\ ~readdata.error /\ ~readdata.full
        /\ step' = "store"
        /\ UNCHANGED <<byte, polls, retries, waits>>
     \/ /\ polls = TxTimeoutPolls
        /\ Return("failed")
  /\ UNCHANGED <<tx, rx, errorLatch, errors>>

\* The write behind a successful poll: it may still be held by the slave.
Store ==
  /\ step = "store"
  /\ StoreByte(byte)
  /\ Return("done")

\* One pass of usbctrl_clear_errors_and_wait.  The last pass reads STATUS
\* once more, which loads the same word.
ClearAndWait ==
  /\ step = "clear"
  /\ errorLatch' = FALSE
  /\ readdata' = [Status EXCEPT !.error = FALSE]
  /\ waits' = waits + 1
  /\ step' = IF readdata.error /\ waits' < ErrorRetryLimit THEN "clear"
             ELSE IF byte = NoByte THEN "done" ELSE "poll"
  /\ UNCHANGED <<tx, rx, errors, byte, polls, retries>>

DriverInit ==
  /\ errorLatch \in BOOLEAN
  /\ readdata = [full |-> FALSE, error |-> FALSE]
  /\ errors = 0
  /\ step = "clear"
  /\ byte = NoByte
  /\ polls = 0
  /\ retries = 0
  /\ waits = 0

DriverNext == RaiseError \/ Poll \/ Store \/ ClearAndWait
=============================================================================
