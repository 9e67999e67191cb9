------------------------------ MODULE CtrlEndp -------------------------------
(***************************************************************************)
(* The control endpoint of the USB CDC core (ctrl_endp.v) behind the SIE:  *)
(* requests in their stages, device state and address, line coding and the *)
(* bus reset, with a host whose packets and handshakes may be lost or      *)
(* damaged, and with bulk packets between the stages.                      *)
(*                                                                         *)
(* An OUT or SETUP transaction is one step; an IN transaction is one for   *)
(* the packet and one for its handshake.  The endpoint's registers change  *)
(* on clk_gate only: with each byte, and with out_ready_o 32 clocks after  *)
(* the last packet, which is before the next token.                        *)
(*                                                                         *)
(* A SETUP packet is its request as a record; the fields that the code     *)
(* only compares with constants, and the requests it does not know, are in *)
(* the name UNSUPPORTED.  A lost token is a transaction that did not       *)
(* happen; what a damaged one does is in UsbBulk.                          *)
(***************************************************************************)
EXTENDS Naturals, Sequences, FiniteSets, FiniteSetsExt

CONSTANTS
  CTRL_MAXPACKETSIZE,      (* 8                                            *)
  CDC_DEV_DESCR_LENGTH,    (* 18                                           *)
  CDC_CONF_DESCR_LENGTH,   (* 67                                           *)
  CDC_LINE_CODING_LENGTH,  (* 7                                            *)
  LengthMax,               (* 127: ones in BC_WIDTH bits                   *)
  HostAddresses,           (* the addresses a host may set                 *)
  HostLengths,             (* the wLength of its descriptor requests       *)
  HostCodings,             (* the line codings it may set                  *)
  MaxTransfers, MaxLineFaults, MaxBusResets   (* bounds                    *)

\* No full packet ends an answer, except where it is all the host asked for;
\* BC_WIDTH is enough for every answer.
ASSUME CtrlAssumption ==
  /\ {CTRL_MAXPACKETSIZE, CDC_DEV_DESCR_LENGTH, CDC_CONF_DESCR_LENGTH,
      CDC_LINE_CODING_LENGTH, LengthMax} \subseteq Nat \ {0}
  /\ CDC_DEV_DESCR_LENGTH % CTRL_MAXPACKETSIZE # 0
  /\ CDC_CONF_DESCR_LENGTH % CTRL_MAXPACKETSIZE # 0
  /\ CDC_LINE_CODING_LENGTH < CTRL_MAXPACKETSIZE
  /\ \A n \in {2, CDC_DEV_DESCR_LENGTH, CDC_CONF_DESCR_LENGTH, CDC_LINE_CODING_LENGTH} :
       n <= LengthMax
  /\ HostAddresses \subseteq Nat /\ HostLengths \subseteq Nat \ {0}
  /\ HostCodings \subseteq Nat \ {0}          \* 0 is CDC_LINE_CODING_3M

VARIABLES
  (* ctrl_endp.v *)
  state_q, byte_cnt_q, max_length_q, in_dir_q, req_q, in_endp_q,
  dev_state_q, dev_state_qq, addr_q, addr_qq, usb_reset_q, line_coding_q,
  (* sie.v: toggles of both pipes, as sets of the ones that are 1 *)
  inToggles, outToggles, in_byte_q,
  (* the line *)
  reply,       (* the packet of an IN transaction                          *)
  (* the host *)
  stage,       (* of its transfer: none, setup, in, out, status            *)
  request, got,
  clean,       (* no fault hit the data stage                              *)
  ctrlToggle,  (* of the next data packet on the control pipe              *)
  outcome,     (* of the transfer: ok, stall, nak                          *)
  hostAddr, hostState, hostLine, hostIn, hostOut,
  sure,        (* no state-changing transfer ended in doubt                *)
  transfers, lineFaults, busResets

requestVars == <<byte_cnt_q, max_length_q, in_dir_q, req_q, in_endp_q,
                 dev_state_q, addr_q>>
deviceVars  == <<dev_state_qq, addr_qq, usb_reset_q>>
toggleVars  == <<inToggles, outToggles>>
hostView    == <<hostAddr, hostState, hostLine, hostIn, hostOut, sure>>
transferVars == <<stage, request, got, clean, ctrlToggle, outcome>>
ctrlVars == <<state_q, requestVars, deviceVars, line_coding_q, toggleVars,
              in_byte_q, reply, transferVars, hostView,
              transfers, lineFaults, busResets>>

NoReply == [kind |-> "none"]
LineCoding(c) == [i \in 0 .. CDC_LINE_CODING_LENGTH - 1 |-> c]
UnknownLine == 99
Set(toggles, e, bit) == IF bit = 1 THEN toggles \cup {e} ELSE toggles \ {e}
Toggle(toggles, e) == IF e \in toggles THEN 1 ELSE 0
FlipOf(toggles, e) == Set(toggles, e, 1 - Toggle(toggles, e))

-----------------------------------------------------------------------------
(***************************************************************************)
(* Requests.                                                               *)
(***************************************************************************)
Req(name, in, value, length) ==
  [name |-> name, in |-> in, value |-> value, length |-> length]

\* The direction bit of an endpoint address in wIndex.
InPipe == 1
OutPipe == 0

Descriptors == {"GET_DESCRIPTOR_DEVICE", "GET_DESCRIPTOR_CONFIGURATION"}

\* What a host sends.
HostRequests ==
  {Req("SET_ADDRESS", FALSE, a, 0) : a \in HostAddresses}
    \cup {Req("SET_CONFIGURATION", FALSE, v, 0) : v \in {0, 1}}
    \cup {Req("CLEAR_FEATURE", FALSE, e, 0) : e \in {InPipe, OutPipe}}
    \cup {Req("DUMMY", FALSE, 0, 0), Req("GET_CONFIGURATION", TRUE, 0, 1),
          Req("GET_INTERFACE", TRUE, 0, 1), Req("GET_STATUS", TRUE, 0, 2),
          Req("GET_LINE_CODING", TRUE, 0, CDC_LINE_CODING_LENGTH)}
    \cup {Req(d, TRUE, 0, n) : d \in Descriptors, n \in HostLengths}
    \cup {Req("SET_LINE_CODING", FALSE, c, CDC_LINE_CODING_LENGTH) : c \in HostCodings}
    \cup {Req("UNSUPPORTED", FALSE, 0, 0), Req("UNSUPPORTED", TRUE, 0, 1)}

Saturate(length) == IF length > LengthMax THEN LengthMax ELSE length

\* The requests that are accepted in a device state (USB 2.0, 9.4).
Accepted(name, device) ==
  \/ name \in Descriptors \cup {"SET_ADDRESS"}
  \/ name \in {"CLEAR_FEATURE", "GET_CONFIGURATION", "GET_STATUS",
               "SET_CONFIGURATION"} /\ device # "default"
  \/ name \in {"GET_INTERFACE", "SET_LINE_CODING", "GET_LINE_CODING", "DUMMY"}
       /\ device = "configured"

\* The bus reset reaches the device state with the next clk_gate.
MutDeviceNow == dev_state_qq              \* usb_reset_q forgotten
DeviceNow == IF usb_reset_q THEN "default" ELSE dev_state_qq
ClkGate(device) == /\ dev_state_qq' = (IF usb_reset_q THEN "default" ELSE device)
                   /\ usb_reset_q' = FALSE

\* The registers after the first k bytes of a SETUP packet.
SetupBytes(r, k) ==
  LET accepted == IF Accepted(r.name, DeviceNow) THEN r.name ELSE "UNSUPPORTED"
  IN /\ in_dir_q' = IF k >= 1 THEN r.in ELSE in_dir_q
     /\ req_q' = IF k >= 2 THEN accepted ELSE IF k = 1 THEN "NONE" ELSE req_q
     /\ addr_q' = IF k >= 3 /\ accepted = "SET_ADDRESS" THEN r.value ELSE addr_q
     /\ dev_state_q' =
          IF k >= 3 /\ accepted = "SET_CONFIGURATION"
          THEN IF r.value = 1 THEN "configured" ELSE "address"
          ELSE dev_state_q
     /\ in_endp_q' = IF k >= 5 THEN r.name = "CLEAR_FEATURE" /\ r.value = InPipe
                               ELSE in_endp_q
     /\ max_length_q' = IF k >= 7 THEN Saturate(r.length) ELSE max_length_q

\* A SETUP token reaches the endpoint before the packet that follows.
SetupToken(toggle) ==
  /\ inToggles' = inToggles \cup {"ctrl"}
  /\ outToggles' = Set(outToggles, "ctrl", toggle)
  /\ byte_cnt_q' = 0
  /\ ClkGate(dev_state_qq)

\* A good packet is followed by the request's next stage.
SetupDone(r) ==
  /\ SetupToken(1)
  /\ SetupBytes(r, 8)
  /\ state_q' = IF req_q' = "UNSUPPORTED" THEN "stall"
                ELSE IF in_dir_q' \/ max_length_q' # 0 THEN "data" ELSE "status"
  /\ UNCHANGED <<addr_qq, line_coding_q, in_byte_q>>

\* A damaged one has left bytes, of some other request perhaps.  Bound: the
\* number of bytes, which decides what registers were written.
BrokenAfter == {0, 4, 8}
SetupDamaged ==
  /\ SetupToken(0)
  /\ \E r \in HostRequests, k \in BrokenAfter : SetupBytes(r, k)
  /\ state_q' = "idle"
  /\ UNCHANGED <<addr_qq, line_coding_q, in_byte_q>>

\* Its data packet did not come.
SetupAlone ==
  /\ SetupToken(0)
  /\ state_q' = "setup"
  /\ UNCHANGED <<max_length_q, in_dir_q, req_q, in_endp_q, dev_state_q, addr_q,
                 addr_qq, line_coding_q, in_byte_q>>

-----------------------------------------------------------------------------
(***************************************************************************)
(* OUT transactions.  Bytes take effect as they come, before the CRC is    *)
(* checked and the toggle compared.                                        *)
(***************************************************************************)

\* A byte where none is due, which stalls the pipe at once.
Stalled(n) == \/ state_q = "stall"
              \/ n > 0 /\ (state_q = "status" \/ (state_q = "data" /\ in_dir_q))

\* The first n bytes of a line coding.
StoresLine == state_q = "data" /\ ~in_dir_q /\ req_q = "SET_LINE_CODING"
OutBytes(n, value) ==
  line_coding_q' =
    IF StoresLine
    THEN [i \in DOMAIN line_coding_q |->
            IF i >= byte_cnt_q /\ i < byte_cnt_q + n THEN value
            ELSE line_coding_q[i]]
    ELSE line_coding_q

CountAfter(n) ==
  IF StoresLine THEN Min({byte_cnt_q + n, CDC_LINE_CODING_LENGTH}) ELSE byte_cnt_q

\* The end of a packet that is good and not a repeated one.
StateAfterOut ==
  CASE state_q = "data" /\ ~in_dir_q   -> "status"
    [] state_q = "status" /\ in_dir_q  -> "idle"
    [] state_q = "status" /\ ~in_dir_q -> "stall"
    [] state_q = "setup"               -> "stall"
    [] OTHER                           -> state_q

RequestKept == UNCHANGED <<max_length_q, in_dir_q, req_q, in_endp_q,
                           dev_state_q, addr_q, addr_qq, in_byte_q>>

\* A repeated packet counts as an error of the endpoint, and is acknowledged.
OutDone(n, value, toggle) ==
  LET expected == Toggle(outToggles, "ctrl") = toggle
  IN /\ OutBytes(n, value)
     /\ byte_cnt_q' = IF expected /\ ~Stalled(n) /\ state_q \in {"data", "status"}
                      THEN CountAfter(n) ELSE 0
     /\ state_q' = IF Stalled(n) THEN "stall"
                   ELSE IF expected THEN StateAfterOut ELSE "idle"
     /\ outToggles' = IF expected THEN FlipOf(outToggles, "ctrl") ELSE outToggles
     /\ ClkGate(dev_state_qq) /\ RequestKept /\ UNCHANGED inToggles

OutDamaged(n, value) ==
  /\ OutBytes(n, value)
  /\ byte_cnt_q' = 0
  /\ state_q' = IF Stalled(n) THEN "stall" ELSE "idle"
  /\ ClkGate(dev_state_qq) /\ RequestKept /\ UNCHANGED toggleVars

-----------------------------------------------------------------------------
(***************************************************************************)
(* IN transactions.                                                        *)
(***************************************************************************)
AtEnd(n) ==
  \/ n = max_length_q
  \/ req_q = "GET_DESCRIPTOR_DEVICE" /\ n = CDC_DEV_DESCR_LENGTH
  \/ req_q = "GET_DESCRIPTOR_CONFIGURATION" /\ n = CDC_CONF_DESCR_LENGTH
  \/ req_q = "GET_LINE_CODING" /\ n = CDC_LINE_CODING_LENGTH

\* A byte of an answer; a descriptor's bytes are told by their place.
InData(i) ==
  CASE req_q = "GET_CONFIGURATION" -> IF dev_state_qq = "configured" THEN 1 ELSE 0
    [] req_q \in Descriptors       -> i
    [] req_q = "GET_LINE_CODING"   -> line_coding_q[i]
    [] OTHER                       -> 0

HasData == state_q = "data" /\ in_dir_q /\ ~AtEnd(byte_cnt_q)
HasZlp  == state_q = "status" /\ ~in_dir_q

PacketLength ==
  IF HasData
  THEN Min({k \in 1 .. CTRL_MAXPACKETSIZE :
              k = CTRL_MAXPACKETSIZE \/ AtEnd(byte_cnt_q + k)})
  ELSE 0

\* Without an answer the SIE sends a NAK, or an empty packet when the last IN
\* packet of either pipe had CTRL_MAXPACKETSIZE bytes.
Answered == HasData \/ HasZlp \/ in_byte_q = CTRL_MAXPACKETSIZE

InToken ==
  /\ in_byte_q' = PacketLength
  /\ byte_cnt_q' = byte_cnt_q + PacketLength
  /\ IF HasData THEN ClkGate(dev_state_qq) ELSE UNCHANGED <<dev_state_qq, usb_reset_q>>
  /\ reply' = IF state_q = "stall" THEN [kind |-> "stall"]
              ELSE IF ~Answered THEN [kind |-> "nak"]
              ELSE [kind |-> "data", toggle |-> Toggle(inToggles, "ctrl"),
                    data |-> [i \in 1 .. PacketLength |-> InData(byte_cnt_q + i - 1)]]
  /\ UNCHANGED <<state_q, max_length_q, in_dir_q, req_q, in_endp_q, dev_state_q,
                 addr_q, addr_qq, line_coding_q, toggleVars>>

\* in_toggle_reset_o, out_toggle_reset_o: on any ACK that the SIE receives, of
\* the bulk pipe too.
MutResetsIn == HasZlp /\ req_q = "CLEAR_FEATURE" /\ in_endp_q  \* not with a configuration
ResetsIn  == HasZlp /\ (req_q = "SET_CONFIGURATION" \/ (req_q = "CLEAR_FEATURE" /\ in_endp_q))
ResetsOut == HasZlp /\ (req_q = "SET_CONFIGURATION" \/ (req_q = "CLEAR_FEATURE" /\ ~in_endp_q))

\* The status stage of a request without data, or with data of the host, is
\* where it takes effect.
AddressAfter ==
  IF HasZlp /\ req_q = "SET_ADDRESS" THEN addr_q ELSE addr_qq
DeviceAfter ==
  IF HasZlp /\ req_q = "SET_ADDRESS" THEN IF addr_q = 0 THEN "default" ELSE "address"
  ELSE IF HasZlp /\ req_q = "SET_CONFIGURATION" THEN dev_state_q
  ELSE dev_state_qq

StateAfterAck ==
  CASE state_q = "data" /\ in_dir_q /\ AtEnd(byte_cnt_q) -> "status"
    [] state_q = "data" /\ ~in_dir_q                     -> "status"
    [] HasZlp                                            -> "idle"
    [] state_q = "setup"                                 -> "stall"
    [] OTHER                                             -> state_q

CtrlAcked ==
  /\ state_q' = StateAfterAck
  /\ byte_cnt_q' = IF state_q \in {"data", "status"} THEN byte_cnt_q ELSE 0
  /\ addr_qq' = AddressAfter
  /\ ClkGate(DeviceAfter)
  /\ inToggles' = FlipOf(inToggles, "ctrl") \ (IF ResetsIn THEN {"bulk"} ELSE {})
  /\ outToggles' = outToggles \ (IF ResetsOut THEN {"bulk"} ELSE {})
  /\ UNCHANGED <<max_length_q, in_dir_q, req_q, in_endp_q, dev_state_q, addr_q,
                 line_coding_q, in_byte_q>>

DeviceKept == UNCHANGED <<state_q, requestVars, deviceVars, line_coding_q,
                          toggleVars, in_byte_q>>

-----------------------------------------------------------------------------
(***************************************************************************)
(* The host.                                                               *)
(***************************************************************************)

\* It addresses no device, when the device has another address.
Deaf == addr_qq # hostAddr

LineFault == lineFaults < MaxLineFaults /\ lineFaults' = lineFaults + 1
NoLineFault == UNCHANGED lineFaults

\* A fault in the data stage.
Dirty == clean' = (clean /\ stage \notin {"in", "out"})

Effective == {"SET_ADDRESS", "SET_CONFIGURATION", "CLEAR_FEATURE"}

\* What a completed transfer tells the host.
HostLearns ==
  LET r == request
  IN /\ hostAddr' = IF r.name = "SET_ADDRESS" THEN r.value ELSE hostAddr
     /\ hostState' =
          CASE r.name = "SET_ADDRESS" -> IF r.value = 0 THEN "default" ELSE "address"
            [] r.name = "SET_CONFIGURATION" -> IF r.value = 1 THEN "configured" ELSE "address"
            [] OTHER -> hostState
     /\ hostLine' = IF r.name = "SET_LINE_CODING" /\ clean THEN r.value ELSE hostLine
     /\ hostIn' = IF r.name = "SET_CONFIGURATION" \/ (r.name = "CLEAR_FEATURE" /\ r.value = InPipe)
                  THEN 0 ELSE hostIn
     /\ hostOut' = IF r.name = "SET_CONFIGURATION" \/ (r.name = "CLEAR_FEATURE" /\ r.value = OutPipe)
                   THEN 0 ELSE hostOut

NoRequest == Req("NONE", FALSE, 0, 0)
Ends(result) ==
  /\ stage' = "none" /\ outcome' = result
  /\ request' = NoRequest /\ got' = << >> /\ clean' = TRUE /\ ctrlToggle' = 1
NextStage(r) == IF r.in THEN "in" ELSE IF r.length > 0 THEN "out" ELSE "status"

\* The first SETUP of a transfer, or its repetition.
HostSetup ==
  /\ reply = NoReply
  /\ \/ /\ stage = "none" /\ hostState # "powered"
        /\ transfers < MaxTransfers /\ transfers' = transfers + 1
        /\ request' \in HostRequests
     \/ stage = "setup" /\ UNCHANGED <<request, transfers>>
  /\ got' = << >> /\ clean' = TRUE /\ ctrlToggle' = 1 /\ outcome' = "none"
  /\ \/ /\ ~Deaf /\ NoLineFault
        /\ SetupDone(request') /\ stage' = NextStage(request')
     \/ /\ ~Deaf /\ LineFault
        /\ SetupDone(request') \/ SetupDamaged \/ SetupAlone
        /\ stage' = "setup"
     \/ Deaf /\ NoLineFault /\ DeviceKept /\ stage' = "setup"
  /\ UNCHANGED <<reply, hostView, busResets>>

\* The line coding of a data stage, or the empty packet of a status stage.
HostOut ==
  /\ reply = NoReply /\ ~Deaf
  /\ stage = "out" \/ (stage = "status" /\ request.in)
  /\ LET n == IF stage = "out" THEN request.length ELSE 0
     IN \/ /\ NoLineFault /\ OutDone(n, request.value, ctrlToggle)
           /\ \/ Stalled(n) /\ Ends("stall")
              \/ ~Stalled(n) /\ stage = "status" /\ Ends("ok")
              \/ /\ ~Stalled(n) /\ stage = "out" /\ stage' = "status"
                 /\ UNCHANGED <<request, got, clean, ctrlToggle, outcome>>
        \/ /\ LineFault /\ Dirty
           /\ UNCHANGED <<stage, request, got, ctrlToggle, outcome>>
           /\ \/ OutDone(n, request.value, ctrlToggle)
              \/ \E k \in 0 .. n, value \in HostCodings : OutDamaged(k, value)
  /\ hostLine' = IF stage = "out" THEN UnknownLine ELSE hostLine
  /\ UNCHANGED <<reply, hostAddr, hostState, hostIn, hostOut, sure, transfers,
                 busResets>>

HostIn ==
  /\ reply = NoReply /\ ~Deaf
  /\ stage = "in" \/ (stage = "status" /\ ~request.in)
  /\ InToken
  /\ UNCHANGED <<transferVars, hostView, transfers, lineFaults, busResets>>

HostRefused ==
  /\ \/ reply.kind = "stall" /\ Ends("stall")
     \/ /\ reply.kind = "nak" /\ outcome' = "nak"
        /\ UNCHANGED <<stage, request, got, clean, ctrlToggle>>
  /\ reply' = NoReply
  /\ DeviceKept
  /\ UNCHANGED <<hostView, transfers, lineFaults, busResets>>

\* A packet that is not expected is dropped, but acknowledged.
HostKeeps(damage) ==
  LET all == got \o reply.data
      last == Len(reply.data) < CTRL_MAXPACKETSIZE \/ Len(all) >= request.length
      seen == <<hostAddr, hostState, hostLine, hostIn, hostOut>>
  IN \/ /\ reply.toggle # ctrlToggle
        /\ damage /\ UNCHANGED <<stage, request, got, ctrlToggle, outcome, seen>>
     \/ /\ reply.toggle = ctrlToggle /\ stage = "status"
        /\ Ends("ok") /\ HostLearns
     \/ /\ reply.toggle = ctrlToggle /\ stage = "in"
        /\ stage' = IF last THEN "status" ELSE "in"
        /\ ctrlToggle' = IF last THEN 1 ELSE 1 - ctrlToggle
        /\ got' = all
        /\ damage /\ UNCHANGED <<request, outcome, seen>>

HostTakesReply ==
  /\ reply.kind = "data"
  /\ reply' = NoReply
  /\ \/ NoLineFault /\ HostKeeps(UNCHANGED clean) /\ CtrlAcked /\ UNCHANGED sure
     \/ /\ LineFault /\ HostKeeps(Dirty) /\ DeviceKept          \* the ACK is lost
        /\ sure' = (sure /\ ~(stage' = "none" /\ request.name \in Effective))
     \/ /\ LineFault /\ Dirty /\ DeviceKept                     \* the packet is lost
        /\ UNCHANGED <<stage, request, got, ctrlToggle, outcome, hostView>>
  /\ UNCHANGED <<transfers, busResets>>

\* The host may break a transfer off.  The device may then still be about to
\* reset toggles.
HostGivesUp ==
  /\ reply = NoReply /\ stage # "none" /\ Ends("none")
  /\ sure' = (sure /\ request.name \notin {"SET_CONFIGURATION", "CLEAR_FEATURE"})
  /\ UNCHANGED <<reply, hostAddr, hostState, hostLine, hostIn, hostOut,
                 transfers, lineFaults, busResets>>
  /\ DeviceKept

\* Bulk transactions between those of a transfer, on pipes it does not
\* concern; their own faults are the matter of UsbBulk.
UsesBulk(e) ==
  /\ reply = NoReply /\ ~Deaf /\ hostState = "configured"
  /\ stage = "none" \/ ~(\/ request.name \in {"SET_ADDRESS", "SET_CONFIGURATION"}
                         \/ request.name = "CLEAR_FEATURE" /\ request.value = e)

BulkInPasses ==
  /\ UsesBulk(InPipe)
  /\ in_byte_q' \in 0 .. CTRL_MAXPACKETSIZE
  /\ hostIn' = 1 - hostIn /\ inToggles' = FlipOf(inToggles, "bulk")
  /\ outToggles' = outToggles \ (IF ResetsOut THEN {"bulk"} ELSE {})
  /\ UNCHANGED <<state_q, requestVars, deviceVars, line_coding_q, reply,
                 transferVars, hostAddr, hostState, hostLine, hostOut, sure,
                 transfers, lineFaults, busResets>>

BulkOutPasses ==
  /\ UsesBulk(OutPipe)
  /\ hostOut' = 1 - hostOut /\ outToggles' = FlipOf(outToggles, "bulk")
  /\ UNCHANGED <<state_q, requestVars, deviceVars, line_coding_q, inToggles,
                 in_byte_q, reply, transferVars, hostAddr, hostState, hostLine,
                 hostIn, sure, transfers, lineFaults, busResets>>

\* Asynchronous, except for dev_state_qq.
BusReset ==
  /\ busResets < MaxBusResets /\ busResets' = busResets + 1
  /\ state_q' = "idle" /\ byte_cnt_q' = 0 /\ max_length_q' = 0
  /\ in_dir_q' = FALSE /\ req_q' = "NONE" /\ in_endp_q' = FALSE
  /\ dev_state_q' = "default" /\ addr_q' = 0 /\ addr_qq' = 0
  /\ usb_reset_q' = TRUE /\ line_coding_q' = LineCoding(0)
  /\ inToggles' = {} /\ outToggles' = {} /\ in_byte_q' = 0
  /\ reply' = NoReply /\ Ends("none")
  /\ hostAddr' = 0 /\ hostState' = "default" /\ hostLine' = 0
  /\ hostIn' = 0 /\ hostOut' = 0 /\ sure' = TRUE
  /\ UNCHANGED <<dev_state_qq, transfers, lineFaults>>

\* Power-on: the host's first step is a bus reset.
CtrlInit ==
  /\ state_q = "idle" /\ byte_cnt_q = 0 /\ max_length_q = 0 /\ in_dir_q = FALSE
  /\ req_q = "NONE" /\ in_endp_q = FALSE /\ dev_state_q = "default"
  /\ dev_state_qq = "powered" /\ addr_q = 0 /\ addr_qq = 0
  /\ usb_reset_q = FALSE /\ line_coding_q = LineCoding(0)
  /\ inToggles = {} /\ outToggles = {} /\ in_byte_q = 0
  /\ reply = NoReply /\ stage = "none" /\ outcome = "none"
  /\ request = NoRequest /\ got = << >> /\ clean = TRUE
  /\ ctrlToggle = 1
  /\ hostAddr = 0 /\ hostState = "powered" /\ hostLine = 0
  /\ hostIn = 0 /\ hostOut = 0 /\ sure = TRUE
  /\ transfers = 0 /\ lineFaults = 0 /\ busResets = 0

CtrlNext == \/ HostSetup \/ HostOut \/ HostIn \/ HostRefused \/ HostTakesReply
            \/ HostGivesUp \/ BulkInPasses \/ BulkOutPasses \/ BusReset

CtrlSpec == CtrlInit /\ [][CtrlNext]_ctrlVars

-----------------------------------------------------------------------------
(***************************************************************************)
(* Properties.                                                             *)
(***************************************************************************)

\* ctrl_endp.v:51-58 (address, toggle resets) and 517-526 (device state):
\* whatever was lost, damaged, repeated or broken off, the device and the
\* host agree on address, configuration, line coding and the toggles of the
\* bulk pipes, unless the ACK of the status stage itself was lost; a bus
\* reset makes them agree again, with the device state one clk_gate later.
HostAndDeviceAgree ==
  sure =>
    /\ addr_qq = hostAddr
    /\ DeviceNow = hostState
    /\ hostLine # UnknownLine => line_coding_q = LineCoding(hostLine)
    /\ Toggle(inToggles, "bulk") = hostIn
    /\ \/ Toggle(outToggles, "bulk") = hostOut
       \/ stage # "none" /\ request.name = "CLEAR_FEATURE" /\ request.value = OutPipe

\* The bytes that a request must return.
FullAnswer(name) ==
  CASE name = "GET_DESCRIPTOR_DEVICE" -> [i \in 1 .. CDC_DEV_DESCR_LENGTH |-> i - 1]
    [] name = "GET_DESCRIPTOR_CONFIGURATION" -> [i \in 1 .. CDC_CONF_DESCR_LENGTH |-> i - 1]
    [] name = "GET_CONFIGURATION" -> <<IF hostState = "configured" THEN 1 ELSE 0>>
    [] name = "GET_INTERFACE" -> <<0>>
    [] name = "GET_STATUS" -> <<0, 0>>
    [] name = "GET_LINE_CODING" -> [i \in 1 .. CDC_LINE_CODING_LENGTH |-> hostLine]
    [] OTHER -> << >>
Answer(r) == LET full == FullAnswer(r.name)
             IN SubSeq(full, 1, Min({Len(full), r.length}))

\* ctrl_endp.v:586-1033: a transfer whose data stage meets no fault ends as
\* chapter 9 of USB 2.0 wants it in the state that the host knows: it is never
\* refused for a while, stalls exactly if the request is not supported, and
\* returns exactly the bytes asked for, whatever an earlier transfer, a
\* damaged SETUP, a bus reset or bulk packets between its stages left behind.
TransfersRight ==
  [][(sure /\ clean /\ outcome' \notin {outcome, "none"}) =>
       /\ outcome' = IF Accepted(request.name, hostState) THEN "ok" ELSE "stall"
       /\ (outcome' = "ok" /\ request.in
            /\ ~(request.name = "GET_LINE_CODING" /\ hostLine = UnknownLine))
             => got = Answer(request)]_ctrlVars
=============================================================================
