----------------------------- MODULE AvbusbCtrl -----------------------------
(***************************************************************************)
(* AvbusbCtrl.v: the Avalon-MM slave between the Nios II bus and the USB   *)
(* CDC core, cycle by cycle.  It owns two dual-clock FIFOs (module         *)
(* UsbFifo): TX carries Avalon DATA writes to the core, RX carries the     *)
(* core's bytes to Avalon DATA reads.                                      *)
(*                                                                         *)
(* AvalonEdge is one rising edge of csi_clockreset_clk: the whole clocked  *)
(* process, together with the bus master's next command and the fabric's   *)
(* capture of readdata.  UsbTake, UsbOffer and UsbStore are the 48 MHz     *)
(* side, whose edges interleave with Avalon's in any order.                *)
(*                                                                         *)
(* The bus master is the Nios II data master behind the APB bridge.  Its   *)
(* accesses are full words, one at a time, and the CPU's store path cannot *)
(* present a command in the cycle after one was accepted: `cmd' is idle in *)
(* between.                                                                *)
(***************************************************************************)
EXTENDS Naturals, Sequences

CONSTANTS
  Byte,       (* the values of a data byte                                 *)
  NoByte,     (* "no byte offered" by the USB core                         *)
  Depth,      (* fifodepth of both FIFOs                                   *)
  WarmUp,     (* cycles until avl_usb_ready: 128 in the code               *)
  UsedMax,    (* ceiling of the 8-bit used-words fields: 255 in the code   *)
  Commands,   (* the bus commands the master may issue                     *)
  MaxTx,      (* bound: DATA writes accepted between resets                *)
  MaxRx,      (* bound: bytes the core stores between resets               *)
  MaxConfig,  (* bound: changes of the core's configured_o                 *)
  MaxReset    (* bound: resets                                             *)

\* Register map: DATA, STATUS, CTRL and RX_CNT are word addresses 0 to 3.
Registers == {"DATA", "STATUS", "CTRL", "RX_CNT"}

\* CTRL is the set of its interrupt-enable bits.
Enables == {"rx", "tx", "error"}

Idle           == [op |-> "idle"]
Read(reg)      == [op |-> "read", reg |-> reg]
WriteData(b)   == [op |-> "write", reg |-> "DATA", data |-> b]
ClearErrors    == [op |-> "write", reg |-> "STATUS"]
WriteCtrl(set) == [op |-> "write", reg |-> "CTRL", enables |-> set]

AllCommands == {Read(reg) : reg \in Registers}
                 \cup {WriteData(b) : b \in Byte}
                 \cup {ClearErrors}
                 \cup {WriteCtrl(set) : set \in SUBSET Enables}

ASSUME ConstantsAssumption ==
  /\ Depth \in Nat \ {0}
  /\ WarmUp \in Nat \ {0}
  /\ UsedMax \in Nat
  /\ NoByte \notin Byte
  /\ Commands \subseteq AllCommands
  /\ {MaxTx, MaxRx, MaxConfig, MaxReset} \subseteq Nat

VARIABLES
  (* the bus *)
  cmd,        (* the command on avs_s1_* in this cycle                     *)
  resp,       (* the fabric's capture of readdata for the last read        *)
  (* registers of the Avalon clock domain *)
  readdata,   (* avs_s1_readdata                                           *)
  pending,    (* avl_data_read_pending                                     *)
  wrreq,      (* avl_to_usb_fifo_wrreq_reg                                 *)
  wdata,      (* avl_to_usb_fifo_wdata_reg                                 *)
  rdreq,      (* usb_to_avl_fifo_rdreq_reg                                 *)
  flagClear,  (* fifo_error_flag_clear_reg                                 *)
  writeError, (* avl_data_write_error_latch                                *)
  readError,  (* avl_data_read_error_latch                                 *)
  enables,    (* avl_ctrl_reg                                              *)
  status,     (* avl_status_reg, the STATUS snapshot                       *)
  rxCount,    (* avl_rx_count_reg                                          *)
  warm,       (* avl_usb_ready_delay_cnt                                   *)
  sync,       (* the two-stage synchronizers of the USB side's flags       *)
  (* the two FIFOs *)
  txQ, txHidden, txHeld, txOverflow, txUnderflow,
  rxQ, rxHidden, rxHeld, rxOverflow, rxUnderflow,
  (* the USB core's side *)
  configured, (* configured_o                                              *)
  rxOffer,    (* out_data_o while out_valid_o, else NoByte                 *)
  (* history: what crossed the component's two interfaces *)
  txAccepted, (* bytes of accepted DATA writes                             *)
  txTaken,    (* bytes the core consumed                                   *)
  rxStored,   (* bytes the core handed over                                *)
  rxRead,     (* bytes that DATA reads returned                            *)
  (* bounds *)
  configs,    (* changes of configured so far                              *)
  resets      (* resets so far                                             *)

busVars  == <<cmd, resp, readdata, pending, rdreq, wrreq, wdata>>
regVars  == <<flagClear, writeError, readError, enables, status, rxCount,
              warm, sync>>
txVars   == <<txQ, txHidden, txHeld, txOverflow, txUnderflow>>
rxVars   == <<rxQ, rxHidden, rxHeld, rxOverflow, rxUnderflow>>
coreVars == <<configured, rxOffer>>
history  == <<txAccepted, txTaken, rxStored, rxRead>>
bounds   == <<configs, resets>>
vars == <<busVars, regVars, txVars, rxVars, coreVars, history, bounds>>

TX == INSTANCE UsbFifo WITH q <- txQ, hidden <- txHidden, held <- txHeld,
                            wrOverflow <- txOverflow,
                            rdUnderflow <- txUnderflow
RX == INSTANCE UsbFifo WITH q <- rxQ, hidden <- rxHidden, held <- rxHeld,
                            wrOverflow <- rxOverflow,
                            rdUnderflow <- rxUnderflow

-----------------------------------------------------------------------------
(***************************************************************************)
(* The combinational logic of the Avalon domain.  An operator named        *)
(* Mut...  is a slip that the checks of a property must notice.            *)
(***************************************************************************)
IsRead(reg)  == cmd.op = "read" /\ cmd.reg = reg
IsWrite(reg) == cmd.op = "write" /\ cmd.reg = reg

UsbReady == warm = WarmUp

MutWriteReady == UsbReady            \* a full FIFO is forgotten
WriteReady == UsbReady /\ ~TX!wrfull

WriteWait   == IsWrite("DATA") /\ ~WriteReady
ReadWait    == IsRead("DATA") /\ ~pending
WaitRequest == WriteWait \/ ReadWait
Accept      == cmd # Idle /\ ~WaitRequest

AnyError == \/ writeError \/ readError
            \/ txOverflow \/ txUnderflow
            \/ rxOverflow \/ rxUnderflow

RxIrq == "rx" \in enables /\ UsbReady /\ ~RX!rdempty
TxIrq == "tx" \in enables /\ WriteReady
irq   == RxIrq \/ TxIrq \/ ("error" \in enables /\ AnyError)

\* The used-words fields have 8 bits and saturate.
Saturate(n) == IF n > UsedMax THEN UsedMax ELSE n

\* The next STATUS snapshot; pessimistic until the path is warm.
StatusNow ==
  [rxEmpty |-> UsbReady => RX!rdempty,
   txEmpty |-> UsbReady => sync.txEmpty[2],
   txFull  |-> UsbReady => TX!wrfull,
   rxFull  |-> UsbReady /\ sync.rxFull[2],
   rxUsed  |-> Saturate(RX!rdusedw),
   txUsed  |-> Saturate(TX!wrusedw),
   rxIrq   |-> RxIrq,
   txIrq   |-> TxIrq,
   werr    |-> writeError,
   rerr    |-> readError,
   error   |-> AnyError,
   cfg     |-> UsbReady /\ sync.cfg[2]]

StatusReset ==
  [rxEmpty |-> FALSE, txEmpty |-> FALSE, txFull |-> FALSE, rxFull |-> FALSE,
   rxUsed |-> 0, txUsed |-> 0, rxIrq |-> FALSE, txIrq |-> FALSE,
   werr |-> FALSE, rerr |-> FALSE, error |-> FALSE, cfg |-> FALSE]

\* What readdata holds, tagged with the register it came from.
Value(reg, v) == [from |-> reg, val |-> v]
NoResponse    == Value("none", 0)

MutShift(stages, in) == <<in, stages[2]>>    \* the second stage never loads
Shift(stages, in) == <<in, stages[1]>>

-----------------------------------------------------------------------------
(***************************************************************************)
(* One Avalon clock edge.                                                  *)
(***************************************************************************)

\* A stalled command stays on the bus; an accepted one is followed by at
\* least one idle cycle; then the master may issue another.
MutMayIssue == ~WaitRequest          \* back-to-back commands
MayIssue == cmd = Idle

Master ==
  \/ WaitRequest /\ cmd' = cmd
  \/ Accept /\ cmd' = Idle
  \/ /\ MayIssue
     /\ cmd' \in {Idle} \cup Commands
     /\ (cmd'.op = "write" /\ cmd'.reg = "DATA") => Len(txAccepted) < MaxTx

\* readLatency is 0: the fabric samples readdata at the edge that ends the
\* accepting cycle, so it takes what the register held during that cycle.
Capture ==
  /\ resp' = IF cmd.op = "read" /\ Accept THEN readdata ELSE resp
  /\ rxRead' = IF IsRead("DATA") /\ Accept
               THEN Append(rxRead, readdata.val) ELSE rxRead

\* A DATA read waits while RX is empty; then one cycle stages the byte,
\* and pops it in the next, which accepts the read.
Stage == ReadWait /\ ~RX!rdempty

MutPop == FALSE                      \* the pop is forgotten
Pop == Stage

MutUnstaged == FALSE                 \* the flag is never set
Staged == IF ReadWait THEN Stage ELSE pending /\ cmd.op = "read"

ReadPath ==
  /\ rdreq' = Pop
  /\ pending' = Staged
  /\ readdata' = CASE Stage             -> Value("DATA", Head(rxQ))
                   [] IsRead("STATUS")  -> Value("STATUS", status)
                   [] IsRead("CTRL")    -> Value("CTRL", enables)
                   [] IsRead("RX_CNT")  -> Value("RX_CNT", rxCount)
                   [] OTHER             -> readdata

\* An accepted DATA write is registered, and reaches TX one cycle later.
Push == IsWrite("DATA") /\ Accept /\ WriteReady

MutStrobe == wrreq \/ Push           \* the strobe is not a pulse
Strobe == Push

WritePath ==
  /\ wrreq' = Strobe
  /\ wdata' = IF Push THEN cmd.data ELSE wdata
  /\ txAccepted' = IF Push THEN Append(txAccepted, cmd.data) ELSE txAccepted
  /\ writeError' = (/\ ~IsWrite("STATUS")
                    /\ \/ writeError
                       \/ IsWrite("DATA") /\ Accept /\ ~WriteReady /\ UsbReady)

Control ==
  /\ flagClear' = IsWrite("STATUS")
  /\ readError' = (readError /\ ~IsWrite("STATUS"))
  /\ enables' = IF IsWrite("CTRL") THEN cmd.enables ELSE enables

\* The warm-up count stops at its limit.
MutCount == IF UsbReady \/ WaitRequest THEN warm ELSE warm + 1   \* stalls do not count
Count == IF UsbReady THEN warm ELSE warm + 1

Snapshots ==
  /\ status' = StatusNow
  /\ rxCount' = RX!rdusedw
  /\ warm' = Count
  /\ sync' = [cfg     |-> Shift(sync.cfg, configured),
              txEmpty |-> Shift(sync.txEmpty, TX!rdempty),
              rxFull  |-> Shift(sync.rxFull, RX!wrfull)]

AvalonEdge ==
  /\ Master
  /\ Capture
  /\ ReadPath
  /\ WritePath
  /\ Control
  /\ Snapshots
  /\ TX!WrEdge(wrreq, wdata, flagClear \/ flagClear')
  /\ RX!RdEdge(rdreq, flagClear \/ flagClear')
  /\ UNCHANGED <<coreVars, txTaken, rxStored, bounds>>

-----------------------------------------------------------------------------
(***************************************************************************)
(* The 48 MHz side.                                                        *)
(***************************************************************************)

\* The core is ready for a byte: rdreq is in_ready_o and not empty.
UsbTake ==
  /\ ~TX!rdempty
  /\ TX!RdEdge(TRUE, flagClear)
  /\ txTaken' = Append(txTaken, Head(txQ))
  /\ UNCHANGED <<busVars, regVars, rxVars, coreVars, bounds,
                 txAccepted, rxStored, rxRead>>

\* The core raises out_valid_o with a byte, and keeps it until consumed.
UsbOffer ==
  /\ rxOffer = NoByte
  /\ Len(rxStored) < MaxRx
  /\ rxOffer' \in Byte
  /\ UNCHANGED <<busVars, regVars, txVars, rxVars, configured, history, bounds>>

\* wrreq of the RX FIFO is out_valid_o and usb_cdc_rx_ready.
UsbStore ==
  /\ rxOffer # NoByte
  /\ ~RX!wrfull
  /\ RX!WrEdge(TRUE, rxOffer, flagClear)
  /\ rxStored' = Append(rxStored, rxOffer)
  /\ rxOffer' = NoByte
  /\ UNCHANGED <<busVars, regVars, txVars, configured, bounds,
                 txAccepted, txTaken, rxRead>>

\* The host configures the device, or resets the bus.
UsbConfigure ==
  /\ configs < MaxConfig
  /\ configured' = ~configured
  /\ configs' = configs + 1
  /\ UNCHANGED <<busVars, regVars, txVars, rxVars, rxOffer, history, resets>>

\* A pointer crosses a clock domain in one of the FIFOs.
TxPointerToRead ==
  /\ TX!SyncToRead
  /\ UNCHANGED <<busVars, regVars, rxVars, coreVars, history, bounds>>

TxPointerToWrite ==
  /\ TX!SyncToWrite
  /\ UNCHANGED <<busVars, regVars, rxVars, coreVars, history, bounds>>

RxPointerToRead ==
  /\ RX!SyncToRead
  /\ UNCHANGED <<busVars, regVars, txVars, coreVars, history, bounds>>

RxPointerToWrite ==
  /\ RX!SyncToWrite
  /\ UNCHANGED <<busVars, regVars, txVars, coreVars, history, bounds>>

-----------------------------------------------------------------------------
(***************************************************************************)
(* Reset values, at power-on and whenever csi_clockreset_reset_n falls: it *)
(* clears the registers, both FIFOs and the USB core.                      *)
(***************************************************************************)
SyncReset == [cfg     |-> <<FALSE, FALSE>>,
              txEmpty |-> <<TRUE, TRUE>>,
              rxFull  |-> <<FALSE, FALSE>>]

Init ==
  /\ cmd = Idle /\ resp = NoResponse /\ readdata = NoResponse
  /\ pending = FALSE /\ rdreq = FALSE /\ wrreq = FALSE /\ wdata = NoByte
  /\ flagClear = FALSE /\ writeError = FALSE /\ readError = FALSE
  /\ enables = {} /\ status = StatusReset /\ rxCount = 0
  /\ warm = 0 /\ sync = SyncReset
  /\ TX!Init /\ RX!Init
  /\ configured = FALSE /\ rxOffer = NoByte
  /\ txAccepted = << >> /\ txTaken = << >>
  /\ rxStored = << >> /\ rxRead = << >>
  /\ configs = 0 /\ resets = 0

Reset ==
  /\ resets < MaxReset
  /\ cmd' = Idle /\ resp' = NoResponse /\ readdata' = NoResponse
  /\ pending' = FALSE /\ rdreq' = FALSE /\ wrreq' = FALSE /\ wdata' = NoByte
  /\ flagClear' = FALSE /\ writeError' = FALSE /\ readError' = FALSE
  /\ enables' = {} /\ status' = StatusReset /\ rxCount' = 0
  /\ warm' = 0 /\ sync' = SyncReset
  /\ TX!Clear /\ RX!Clear
  /\ configured' = FALSE /\ rxOffer' = NoByte
  /\ txAccepted' = << >> /\ txTaken' = << >>
  /\ rxStored' = << >> /\ rxRead' = << >>
  /\ configs' = configs /\ resets' = resets + 1

Next == \/ AvalonEdge
        \/ UsbTake \/ UsbOffer \/ UsbStore \/ UsbConfigure
        \/ TxPointerToRead \/ TxPointerToWrite
        \/ RxPointerToRead \/ RxPointerToWrite
        \/ Reset

Spec == Init /\ [][Next]_vars
=============================================================================
