------------------------------ MODULE UsbBulk -------------------------------
(***************************************************************************)
(* The bulk pipe of the USB CDC core: the serial interface engine (sie.v)  *)
(* with the packet FIFOs of the bulk endpoint (bulk_endp.v, in_fifo.v,     *)
(* out_fifo.v) and the endpoint multiplexing of usb_cdc.v, talking to a    *)
(* USB host over a line that damages and loses packets.                    *)
(*                                                                         *)
(* A packet with data crosses the line byte by byte, interleaved with the  *)
(* application on the other side of the FIFOs; tokens and handshakes are   *)
(* one step.  out_ready_o, which ends a transaction, comes 32 clocks after *)
(* the last packet, and thus before the host's next token: it belongs to   *)
(* the step of that packet.                                                *)
(*                                                                         *)
(* The control endpoint and the host are the environment: the former only  *)
(* occupies the SIE, the latter follows the USB rules for bulk pipes.      *)
(* Bytes are numbered in the order of their stream; 0 is a control byte.   *)
(***************************************************************************)
EXTENDS Naturals, Sequences

CONSTANTS
  InMax,      (* IN_BULK_MAXPACKETSIZE: 64 in this system                  *)
  OutMax,     (* OUT_BULK_MAXPACKETSIZE                                    *)
  CtrlMax,    (* CTRL_MAXPACKETSIZE: 8                                     *)
  Faults,     (* what the line may do, see below                           *)
  MaxFaults,  (* bound: faults                                             *)
  MaxIn,      (* bound: bytes of the application                           *)
  MaxOut,     (* bound: bytes of the host                                  *)
  MaxCtrl     (* bound: transactions on the control endpoint               *)

\* A token or data packet may arrive damaged, with or without its PID, or
\* not at all; a handshake, or a data packet for the host, is just lost.
AllFaults == {"token crc", "token pid", "token lost",
              "out crc", "out broken", "out pid", "out lost",
              "out handshake", "in data", "in handshake"}

ASSUME ConstantsAssumption ==
  /\ {InMax, OutMax, CtrlMax} \subseteq Nat \ {0}
  /\ CtrlMax < InMax
  /\ Faults \subseteq AllFaults
  /\ {MaxFaults, MaxIn, MaxOut, MaxCtrl} \subseteq Nat

Endpoints == {"ctrl", "bulk"}

VARIABLES
  (* sie.v *)
  dataNext,   (* pid_q is OUT or SETUP: a data packet would be received    *)
  endp,       (* endp_q                                                    *)
  inToggle,   (* datain_toggle_q                                           *)
  outToggle,  (* dataout_toggle_q                                          *)
  inByte,     (* in_byte_q                                                 *)
  (* in_fifo.v and out_fifo.v *)
  inBuf, inSent, inValid, inState,
  outBuf, outFresh, outFull, outNak, outState,
  (* the line, and the host's side of the two pipes *)
  wire,       (* the data packet on the line                               *)
  hIn, hOut,  (* the host's toggles                                        *)
  outPkt,     (* the bulk OUT packet that the host repeats until its ACK   *)
  acked,      (* bulk OUT bytes acknowledged to the host                   *)
  hostGot,    (* bulk IN bytes the host accepted                           *)
  hostOpen,   (* the last IN packet was full: the host waits for more      *)
  (* the application *)
  pushed,     (* bytes it put into the IN FIFO                             *)
  appGot,     (* bytes it took from the OUT FIFO                           *)
  (* bounds *)
  faults, ctrls

sieVars  == <<dataNext, endp, inToggle, outToggle, inByte>>
inVars   == <<inBuf, inSent, inValid, inState>>
outVars  == <<outBuf, outFresh, outFull, outNak, outState>>
hostVars == <<hIn, hOut, outPkt, acked, hostGot, hostOpen>>
appVars  == <<pushed, appGot>>
bounds   == <<faults, ctrls>>
vars == <<sieVars, inVars, outVars, wire, hostVars, appVars, bounds>>

InF  == INSTANCE InFifo WITH buf <- inBuf, sent <- inSent,
                             valid <- inValid, state <- inState
OutF == INSTANCE OutFifo WITH buf <- outBuf, fresh <- outFresh,
                              full <- outFull, nak <- outNak,
                              state <- outState

\* A data packet; `left' is still to come, `data' has come already.
NoPacket == [kind |-> "none"]
OutPacket(to, setup, toggle, left) ==
  [kind |-> "out", to |-> to, setup |-> setup, toggle |-> toggle, left |-> left]
InPacket(toggle, data) == [kind |-> "in", toggle |-> toggle, data |-> data]

Flip(bit) == 1 - bit
\* The faults that lose bytes, and how many faults of any kind, are recorded.
Lossy == {"token crc", "token lost", "in handshake"}
Happens(f) ==
  /\ f \in Faults /\ faults.count < MaxFaults
  /\ faults' = [count |-> faults.count + 1,
                lossy |-> faults.lossy \cup ({f} \cap Lossy)]
NoFault == UNCHANGED faults
-----------------------------------------------------------------------------
(***************************************************************************)
(* Tokens.  Only a token whose CRC5 is right sets the endpoint, but its    *)
(* PID is taken before that check.                                         *)
(***************************************************************************)
GoodToken(ep, expectsData) == /\ NoFault
                              /\ endp' = ep
                              /\ dataNext' = expectsData

BadToken(expectsData) ==
  /\ \/ Happens("token crc") /\ dataNext' = expectsData
     \/ Happens("token pid") /\ dataNext' = FALSE
     \/ Happens("token lost") /\ UNCHANGED dataNext
  /\ UNCHANGED endp

\* A SETUP restarts the toggles of the control endpoint.
SetupToggles(setup) ==
  IF setup
  THEN /\ inToggle' = [inToggle EXCEPT !["ctrl"] = 1]
       /\ outToggle' = [outToggle EXCEPT !["ctrl"] = 0]
  ELSE UNCHANGED <<inToggle, outToggle>>

\* The host sends an OUT or SETUP token, and has the data packet ready.
SendOut(ep, setup, toggle, bytes) ==
  /\ wire = NoPacket
  /\ wire' = OutPacket(ep, setup, toggle, bytes)
  /\ \/ GoodToken(ep, TRUE) /\ SetupToggles(setup)
     \/ BadToken(TRUE) /\ UNCHANGED <<inToggle, outToggle>>
  /\ UNCHANGED <<inByte, inVars, outVars, appVars>>

\* A new packet is chosen only when the last one is acknowledged.
BulkOut ==
  /\ outPkt' \in IF outPkt # << >> THEN {outPkt}
                 ELSE {[i \in 1 .. n |-> acked + i] : n \in 1 .. OutMax}
  /\ acked + Len(outPkt') <= MaxOut
  /\ SendOut("bulk", FALSE, hOut["bulk"], outPkt')
  /\ UNCHANGED <<hIn, hOut, acked, hostGot, hostOpen, ctrls>>

CtrlOut ==
  /\ ctrls < MaxCtrl /\ ctrls' = ctrls + 1
  /\ \/ SendOut("ctrl", TRUE, 0, <<0>>)
     \/ \E bytes \in {<< >>, <<0>>} :
          SendOut("ctrl", FALSE, hOut["ctrl"], bytes)
  /\ UNCHANGED hostVars

-----------------------------------------------------------------------------
(***************************************************************************)
(* The data packet of an OUT or SETUP transaction.                         *)
(***************************************************************************)

\* The device receives it, whatever token it belongs to, if the last PID
\* it saw was OUT or SETUP.
OutStart ==
  /\ wire.kind = "out"
  /\ \/ /\ NoFault
        /\ dataNext' = FALSE
        /\ wire' = IF dataNext THEN [wire EXCEPT !.kind = "receiving"]
                   ELSE NoPacket
     \/ Happens("out pid") /\ dataNext' = FALSE /\ wire' = NoPacket
     \/ Happens("out lost") /\ UNCHANGED dataNext /\ wire' = NoPacket
  /\ UNCHANGED <<endp, inToggle, outToggle, inByte, inVars, outVars,
                 hostVars, appVars, ctrls>>

\* out_valid_o: every byte goes to the endpoint of the last good token.
OutByte ==
  /\ wire.kind = "receiving" /\ wire.left # << >>
  /\ wire' = [wire EXCEPT !.left = Tail(@)]
  /\ IF endp = "bulk" THEN OutF!Store(Head(wire.left)) ELSE UNCHANGED outVars
  /\ InF!Abandon
  /\ UNCHANGED <<sieVars, hostVars, appVars, bounds>>

\* out_ready_o at the end of the packet, with or without out_err_o.
EndOfOut(good) ==
  IF endp = "bulk"
  THEN (IF good THEN OutF!End ELSE OutF!Abort) /\ InF!Abandon
  ELSE UNCHANGED <<inVars, outVars>>

\* The receiver loses the packet half-way; before the first byte that is
\* no error of the packet yet.
OutBroken ==
  /\ wire.kind = "receiving"
  /\ Happens("out broken")
  /\ wire' = NoPacket
  /\ \/ EndOfOut(FALSE)
     \/ outState = "IDLE" /\ UNCHANGED <<inVars, outVars>>
  /\ UNCHANGED <<sieVars, hostVars, appVars, ctrls>>

\* A packet that is not the expected one is dropped, but acknowledged: the
\* host repeats it because an earlier ACK was lost.
Expected == outToggle[endp] = wire.toggle

Answers == IF endp = "ctrl" THEN {"ACK", "STALL"}
           ELSE IF outNak THEN {"NAK"} ELSE {"ACK"}

MutToggled(answer) == Expected                \* a NAK flips the toggle too
Toggled(answer) == Expected /\ answer # "NAK"

\* The host goes on to its next packet.
HostAcked ==
  IF wire.to = "bulk"
  THEN /\ hOut' = [hOut EXCEPT !["bulk"] = Flip(@)]
       /\ acked' = acked + Len(outPkt)
       /\ outPkt' = << >>
       /\ UNCHANGED hIn
  ELSE /\ hOut' = [hOut EXCEPT !["ctrl"] = Flip(wire.toggle)]
       /\ hIn' = IF wire.setup THEN [hIn EXCEPT !["ctrl"] = 1] ELSE hIn
       /\ UNCHANGED <<acked, outPkt>>

OutEnd ==
  /\ wire.kind = "receiving" /\ wire.left = << >>
  /\ wire' = NoPacket
  /\ \/ /\ Happens("out crc")
        /\ EndOfOut(FALSE)
        /\ UNCHANGED <<outToggle, hIn, hOut, outPkt, acked>>
     \/ \E answer \in Answers :
          /\ EndOfOut(Expected)
          /\ outToggle' = IF Toggled(answer)
                          THEN [outToggle EXCEPT ![endp] = Flip(@)]
                          ELSE outToggle
          /\ \/ NoFault /\ answer = "ACK" /\ HostAcked
             \/ NoFault /\ answer # "ACK" /\ UNCHANGED <<hIn, hOut, outPkt, acked>>
             \/ /\ Happens("out handshake")
                /\ UNCHANGED <<hIn, hOut, outPkt, acked>>
  /\ UNCHANGED <<dataNext, endp, inToggle, inByte, hostGot, hostOpen,
                 appVars, ctrls>>

-----------------------------------------------------------------------------
(***************************************************************************)
(* IN transactions.                                                        *)
(***************************************************************************)

\* Without a byte to send, a packet that was full is followed by an empty
\* one, and any other by a NAK.
MutAnswersIn == inBuf # << >>                 \* no empty packet
AnswersIn == inBuf # << >> \/ inByte = InMax

StartBulkIn ==
  /\ InF!Request
  /\ inByte' = 0
  /\ wire' = IF AnswersIn THEN InPacket(inToggle["bulk"], << >>) ELSE NoPacket

\* The control endpoint answers NAK or STALL, or with any packet.
StartCtrlIn ==
  /\ UNCHANGED inVars
  /\ \/ inByte' = 0 /\ wire' = NoPacket
     \/ /\ inByte' \in 0 .. CtrlMax
        /\ wire' = InPacket(inToggle["ctrl"], [i \in 1 .. inByte' |-> 0])

\* The host sends an IN token, which the device answers at once.
SendIn(ep) ==
  /\ wire = NoPacket
  /\ \/ /\ GoodToken(ep, FALSE)
        /\ IF ep = "bulk" THEN StartBulkIn ELSE StartCtrlIn
     \/ BadToken(FALSE) /\ UNCHANGED <<wire, inByte, inVars>>
  /\ UNCHANGED <<inToggle, outToggle, outVars, hostVars, appVars>>

BulkIn == SendIn("bulk") /\ UNCHANGED ctrls
CtrlIn == SendIn("ctrl") /\ ctrls < MaxCtrl /\ ctrls' = ctrls + 1

\* in_ready_o: the next byte of a bulk packet.
InMore == endp = "bulk" /\ inValid /\ Len(wire.data) < InMax

InByte ==
  /\ wire.kind = "in" /\ InMore
  /\ wire' = [wire EXCEPT !.data = Append(@, inBuf[inSent + 1])]
  /\ inByte' = inByte + 1
  /\ InF!Fetch
  /\ UNCHANGED <<dataNext, endp, inToggle, outToggle, outVars,
                 hostVars, appVars, bounds>>

\* The host keeps a packet that it expects, and acknowledges any.
HostTakes ==
  IF wire.toggle = hIn[endp]
  THEN /\ hIn' = [hIn EXCEPT ![endp] = Flip(@)]
       /\ IF endp = "bulk"
          THEN /\ hostGot' = hostGot \o wire.data
               /\ hostOpen' = (Len(wire.data) = InMax)
          ELSE UNCHANGED <<hostGot, hostOpen>>
  ELSE UNCHANGED <<hIn, hostGot, hostOpen>>

\* The ACK flips the toggle and flushes what was sent.
DeviceAcked ==
  /\ inToggle' = [inToggle EXCEPT ![endp] = Flip(@)]
  /\ IF endp = "bulk" THEN InF!Acknowledge /\ OutF!End
     ELSE UNCHANGED <<inVars, outVars>>

InEnd ==
  /\ wire.kind = "in" /\ ~InMore
  /\ wire' = NoPacket
  /\ \/ NoFault /\ HostTakes /\ DeviceAcked
     \/ /\ Happens("in handshake") /\ HostTakes
        /\ UNCHANGED <<inToggle, inVars, outVars>>
     \/ /\ Happens("in data")
        /\ UNCHANGED <<hIn, hostGot, hostOpen, inToggle, inVars, outVars>>
  /\ UNCHANGED <<dataNext, endp, outToggle, inByte, hOut, outPkt, acked,
                 appVars, ctrls>>

-----------------------------------------------------------------------------
(***************************************************************************)
(* The application: AvbusbCtrl's two FIFOs.                                *)
(***************************************************************************)
AppPush ==
  /\ pushed < MaxIn
  /\ InF!Push(pushed + 1)
  /\ pushed' = pushed + 1
  /\ UNCHANGED <<sieVars, outVars, wire, hostVars, appGot, bounds>>

AppPop ==
  /\ OutF!Pop
  /\ appGot' = Append(appGot, Head(outBuf))
  /\ UNCHANGED <<sieVars, inVars, wire, hostVars, pushed, bounds>>

FullRefresh ==
  /\ OutF!Refresh
  /\ UNCHANGED <<sieVars, inVars, wire, hostVars, appVars, bounds>>

Init ==
  /\ dataNext = FALSE /\ endp = "ctrl" /\ inByte = 0
  /\ inToggle = [e \in Endpoints |-> 0] /\ outToggle = [e \in Endpoints |-> 0]
  /\ InF!Init /\ OutF!Init
  /\ wire = NoPacket
  /\ hIn = [e \in Endpoints |-> 0] /\ hOut = [e \in Endpoints |-> 0]
  /\ outPkt = << >> /\ acked = 0 /\ hostGot = << >> /\ hostOpen = FALSE
  /\ pushed = 0 /\ appGot = << >>
  /\ faults = [count |-> 0, lossy |-> {}] /\ ctrls = 0

Next == \/ BulkOut \/ CtrlOut \/ OutStart \/ OutByte \/ OutBroken \/ OutEnd
        \/ BulkIn \/ CtrlIn \/ InByte \/ InEnd
        \/ AppPush \/ AppPop \/ FullRefresh

Spec == Init /\ [][Next]_vars
=============================================================================
