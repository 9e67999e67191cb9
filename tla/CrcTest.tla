------------------------------ MODULE CrcTest ------------------------------
(***************************************************************************)
(* The bidirectional CRC test: usbserialtest.c on the Nios II, the PC tool *)
(* test_usb_crc_bidirectional.py, and the pipe between them.  The pipe is  *)
(* the slave's two FIFOs and the buffers of the PC's serial port; the USB  *)
(* link moves bytes between them in order and may lose one (module         *)
(* UsbBulk shows when it does).                                            *)
(*                                                                         *)
(* Time is not modelled: a deadline of the tool may pass at any moment.    *)
(* The user may stop the tool and run it again.                            *)
(***************************************************************************)
EXTENDS UsbDriver

CONSTANTS
  Count,        (* TEST_BYTE_COUNT: 10000                                  *)
  StartHeader, NiosHeader, PcHeader,    (* the three headers               *)
  PassText, FailText, PcText, Newline,  (* the texts of the result line    *)
  Hex, Digit,   (* 16; Digit[n]: the character of the hexadecimal digit n  *)
  NiosSeed, PcSeed, StateSize,          (* the random generators           *)
  RxDepth,      (* depth of the slave's RX FIFO                            *)
  HostIn, HostOut, (* sizes of the PC's input and output buffers           *)
  Stale,        (* bytes an earlier firmware may have left in TX           *)
  MaxStarts,    (* bound: START headers of one session                     *)
  MaxSessions,  (* bound: runs of the tool                                 *)
  MaxFaults     (* bound: bytes the link loses and errors the slave raises *)

\* The generator's step and the byte it yields: never zero.
NextState(s)  == (5 * s + 3) % StateSize
RandomByte(s) == ((s \div 2) % (Base - 1)) + 1

Fill(seed) ==
  LET state[i \in 0 .. Count] == IF i = 0 THEN seed ELSE NextState(state[i - 1])
  IN  [i \in 1 .. Count |-> RandomByte(state[i])]

NiosPayload == Fill(NiosSeed)
PcPayload   == Fill(PcSeed)

\* The "CRC" is the low byte of the sum.
Crc(s) ==
  LET sum[i \in 0 .. Len(s)] == IF i = 0 THEN 0 ELSE sum[i - 1] + s[i]
  IN  sum[Len(s)] % Base

HexByte(b) == <<Digit[(b \div Hex) % Hex], Digit[b % Hex]>>

NiosPacket == NiosHeader \o NiosPayload \o <<Crc(NiosPayload)>>
PcPacket   == PcHeader \o PcPayload \o <<Crc(PcPayload)>>

ASSUME CrcTestAssumption ==
  /\ {Count, RxDepth, HostIn, HostOut, StateSize, Hex} \subseteq Nat \ {0}
  /\ {MaxStarts, MaxSessions, MaxFaults, NiosSeed, PcSeed} \subseteq Nat
  /\ Base > 1 /\ Digit \in [0 .. Hex - 1 -> Byte]
  /\ \A t \in {StartHeader, NiosHeader, PcHeader, PassText, FailText, PcText, Newline} :
       t \in Seq(Byte) /\ t # << >>
  /\ \A t \in Stale : t \in Seq(Byte)
  \* The first character of a header does not come back inside it.
  /\ \A h \in {StartHeader, NiosHeader, PcHeader} :
       \A i \in 2 .. Len(h) : h[i] # h[1]

\* The texts that follow a packet; a failed write may cut any of them short.
ResultTexts ==
  {PassText, FailText, PcText, Newline} \cup {<<Digit[m], Digit[n]>> : m, n \in 0 .. Hex - 1}

\* Where s has character i of the header, it has another one than i - 1 before.
Unlike(s, i) ==
  \A j \in 1 .. Len(s) : s[j] = NiosHeader[i] => j > 1 /\ s[j - 1] # NiosHeader[i - 1]

\* What keeps the headers apart from what else is sent.
ASSUME HeaderAssumption ==
  \* The packet does not contain its header again, not even cut off at its end.
  /\ \A q \in 1 .. Len(NiosPacket) - 1 :
       \E i \in 1 .. Len(NiosHeader) :
         q + i <= Len(NiosPacket) /\ NiosPacket[q + i] # NiosHeader[i]
  \* No text has "2P": the only "P" of "NIOS_RX PASS" follows a blank.
  /\ \E i \in 2 .. Len(NiosHeader) : \A t \in ResultTexts : Unlike(t, i)
  \* "P" is not in START.
  /\ \A i \in 1 .. Len(StartHeader) : StartHeader[i] # PcHeader[1]

\* The result line is shorter than a packet: 48 characters, and 10009 bytes.
ASSUME LineAssumption ==
  \A t \in {PassText, FailText} : Len(t) + Len(PcText) + Len(Newline) + 4 < Len(NiosPacket)

VARIABLES
  pc,        (* the firmware's phase                                       *)
  out,       (* text it still has to write, the byte in the driver first   *)
  parts,     (* texts of the result line behind `out'                      *)
  at,        (* bytes of the payload sent                                  *)
  matched,   (* wait_for_header: characters matched                        *)
  buffer,    (* test_buffer as received                                    *)
  tool,      (* the tool's phase                                           *)
  found,     (* find_header: characters matched                            *)
  got,       (* payload the tool has read                                  *)
  niosPass,  (* the tool's verdict on the Nios packet                      *)
  starts,    (* START headers written in this session                      *)
  packet,    (* bytes of the PC packet still to be written                 *)
  text,      (* result text the tool has read                              *)
  hostIn, hostOut,  (* the PC's serial buffers                             *)
  sessions, lost,   (* runs of the tool so far; bytes lost so far          *)
  expired    (* a time-out of either side, or the user stopped the tool    *)

firmwareVars == <<pc, out, parts, at, matched, buffer>>
toolVars     == <<tool, found, got, niosPass, starts, packet, text, sessions>>
linkVars     == <<hostIn, hostOut, lost>>
vars         == <<slaveVars, driverVars, firmwareVars, toolVars, linkVars,
                  expired>>

\* Both sides search a header the same way: on a mismatch only the byte at
\* hand may start a new match.
Match(header, n, b) ==
  IF b = header[n + 1] THEN n + 1 ELSE IF b = header[1] THEN 1 ELSE 0

-----------------------------------------------------------------------------
(* The firmware *)

Driver ==
  /\ DriverNext
  /\ lost + errors' <= MaxFaults
  /\ UNCHANGED <<firmwareVars, toolVars, linkVars, expired>>

Firmware(A) == A /\ UNCHANGED <<toolVars, linkVars, expired>>

\* main: errors are cleared, then the firmware waits for START.
Boot ==
  /\ pc = "boot" /\ step = "done"
  /\ pc' = "start"
  /\ step' = "idle"
  /\ UNCHANGED <<slaveVars, byte, polls, retries, waits, out, parts, at, matched, buffer>>

\* wait_for_header, called from `phase': one byte.  The end of the START
\* header begins the Nios packet, that of the PC header the reception.
WaitForHeader(phase, header) ==
  /\ pc = phase
  /\ ReadByte
  /\ LET n == Match(header, matched, Head(rx))
     IN  /\ matched' = n % Len(header)
         /\ IF n < Len(header)
            THEN UNCHANGED <<pc, out, driverVars>>
            ELSE IF phase = "start"
            THEN /\ pc' = "header"
                 /\ out' = NiosHeader
                 /\ WriteByte(NiosHeader[1])
            ELSE pc' = "receive" /\ UNCHANGED <<out, driverVars>>
  /\ UNCHANGED <<parts, at, buffer>>

\* usbctrl_write_text: the next character, or the next text of the result
\* line, or the next phase.
Wrote ==
  /\ step = "done" /\ pc \in {"header", "crc", "result"}
  /\ IF Len(out) > 1
     THEN /\ out' = Tail(out)
          /\ WriteByte(out[2])
          /\ UNCHANGED <<pc, parts>>
     ELSE IF parts # <<>>
     THEN /\ out' = Head(parts)
          /\ parts' = Tail(parts)
          /\ WriteByte(Head(parts)[1])
          /\ UNCHANGED pc
     ELSE /\ out' = <<>>
          /\ pc' = CASE pc = "header" -> "payload" [] pc = "crc" -> "wait" [] OTHER -> "end"
          /\ step' = "idle"
          /\ UNCHANGED <<parts, byte, polls, retries, waits>>
  /\ UNCHANGED <<slaveVars, at, matched, buffer>>

\* A byte that could not be written: the packet is given up, but the result
\* line, whose return values nobody looks at, goes on with its next text.
WriteFailed ==
  /\ step = "failed"
  /\ IF parts # <<>>
     THEN /\ out' = Head(parts)
          /\ parts' = Tail(parts)
          /\ WriteByte(Head(parts)[1])
          /\ UNCHANGED pc
     ELSE /\ out' = <<>>
          /\ pc' = "end"
          /\ step' = "idle"
          /\ UNCHANGED <<parts, byte, polls, retries, waits>>
  /\ expired' = TRUE
  /\ UNCHANGED <<slaveVars, at, matched, buffer, toolVars, linkVars>>

\* The loop over the payload ends with its last byte.
MutPayloadSent(n) == n >= Count - 1
PayloadSent(n)    == n >= Count

\* usbctrl_write_bytes: the payload, without polling; the checksum follows.
SendPayload ==
  /\ pc = "payload"
  /\ StoreByte(NiosPayload[at + 1])
  /\ at' = at + 1
  /\ IF ~PayloadSent(at')
     THEN UNCHANGED <<pc, out, driverVars>>
     ELSE /\ pc' = "crc"
          /\ out' = <<Crc(NiosPayload)>>
          /\ WriteByte(Crc(NiosPayload))
  /\ UNCHANGED <<parts, matched, buffer>>

\* usbctrl_read_bytes: the payload of the PC's packet.
ReceivePayload ==
  /\ pc = "receive" /\ Len(buffer) < Count
  /\ ReadByte
  /\ buffer' = Append(buffer, Head(rx))
  /\ UNCHANGED <<driverVars, pc, out, parts, at, matched>>

\* Its checksum: compare, and start the result line.
ReceiveCrc ==
  /\ pc = "receive" /\ Len(buffer) = Count
  /\ ReadByte
  /\ LET verdict == IF Crc(buffer) = Head(rx) THEN PassText ELSE FailText
     IN  /\ out' = verdict
         /\ WriteByte(verdict[1])
  /\ parts' = <<HexByte(Crc(buffer)), PcText, HexByte(Head(rx)), Newline>>
  /\ pc' = "result"
  /\ UNCHANGED <<at, matched, buffer>>

Reception == ReceivePayload \/ ReceiveCrc

FirmwareNext ==
  \/ Driver
  \/ Firmware(Boot)
  \/ Firmware(WaitForHeader("start", StartHeader))
  \/ Firmware(WaitForHeader("wait", PcHeader))
  \/ Firmware(Wrote)
  \/ WriteFailed
  \/ Firmware(SendPayload)
  \/ Firmware(Reception)

-----------------------------------------------------------------------------
(* The link: bytes move while there is room. *)

Upload ==
  /\ tx # <<>> /\ Len(hostIn) < HostIn
  /\ tx' = Tail(tx)
  /\ \/ hostIn' = Append(hostIn, Head(tx)) /\ UNCHANGED lost
     \/ lost + errors < MaxFaults /\ lost' = lost + 1 /\ UNCHANGED hostIn
  /\ UNCHANGED <<rx, errorLatch, readdata, errors, hostOut>>

Download ==
  /\ hostOut # <<>> /\ Len(rx) < RxDepth
  /\ hostOut' = Tail(hostOut)
  /\ \/ rx' = Append(rx, Head(hostOut)) /\ UNCHANGED lost
     \/ lost + errors < MaxFaults /\ lost' = lost + 1 /\ UNCHANGED rx
  /\ UNCHANGED <<tx, errorLatch, readdata, errors, hostIn>>

LinkNext == (Upload \/ Download) /\ UNCHANGED <<driverVars, firmwareVars, toolVars, expired>>

-----------------------------------------------------------------------------
(* The tool *)

Take == hostIn # <<>> /\ hostIn' = Tail(hostIn)

\* main of the tool: open the port, drop what it holds, drain stale input.
OpenPort ==
  /\ sessions < MaxSessions
  /\ tool # "passed"
  /\ sessions' = sessions + 1
  /\ expired' = (expired \/ tool # "closed")
  /\ tool' = "drain"
  /\ found' = 0 /\ got' = <<>> /\ niosPass' = FALSE /\ starts' = 0
  /\ packet' = <<>> /\ text' = <<>>
  /\ hostIn' = <<>> /\ hostOut' = <<>>
  /\ UNCHANGED lost

\* drain_input: read until the line has been quiet for a while.
Drain ==
  /\ tool = "drain"
  /\ Take
  /\ UNCHANGED <<toolVars, hostOut, lost, expired>>

MutQuiet ==
  /\ tool = "drain"
  /\ tool' = "find"
  /\ UNCHANGED <<found, got, niosPass, starts, packet, text, sessions, expired, linkVars>>

Quiet ==
  /\ tool = "drain" /\ hostIn = <<>> /\ tx = <<>>
  /\ tool' = "find"
  /\ UNCHANGED <<found, got, niosPass, starts, packet, text, sessions, expired, linkVars>>

\* find_header: START is written again and again, and flushed each time.
SendStart ==
  /\ tool = "find" /\ starts < MaxStarts
  /\ Len(hostOut) + Len(StartHeader) <= HostOut
  /\ hostOut' = hostOut \o StartHeader
  /\ starts' = starts + 1
  /\ tool' = "flush"
  /\ UNCHANGED <<found, got, niosPass, packet, text, sessions, expired, hostIn, lost>>

\* flush waits, without a deadline, until the device took everything.
Flushed ==
  /\ tool \in {"flush", "sent"} /\ hostOut = <<>>
  /\ tool' = IF tool = "flush" THEN "find" ELSE "result"
  /\ UNCHANGED <<found, got, niosPass, starts, packet, text, sessions, expired, linkVars>>

FindHeader ==
  /\ tool = "find"
  /\ Take
  /\ found' = Match(NiosHeader, found, Head(hostIn))
  /\ tool' = IF found' = Len(NiosHeader) THEN "payload" ELSE "find"
  /\ UNCHANGED <<got, niosPass, starts, packet, text, sessions, expired, hostOut, lost>>

\* read_exact, for the payload and then for its checksum.
ReadPayload ==
  /\ tool = "payload" /\ Len(got) < Count
  /\ Take
  /\ got' = Append(got, Head(hostIn))
  /\ UNCHANGED <<tool, found, niosPass, starts, packet, text, sessions, expired, hostOut, lost>>

ReadCrc ==
  /\ tool = "payload" /\ Len(got) = Count
  /\ Take
  /\ niosPass' = (Head(hostIn) = Crc(got))
  /\ packet' = PcPacket
  /\ tool' = "send"
  /\ UNCHANGED <<found, got, starts, text, sessions, expired, hostOut, lost>>

\* write_in_chunks: the operating system takes what it has room for.
WriteChunk ==
  /\ tool = "send" /\ Len(hostOut) < HostOut
  /\ hostOut' = Append(hostOut, Head(packet))
  /\ packet' = Tail(packet)
  /\ tool' = IF packet' = <<>> THEN "sent" ELSE "send"
  /\ UNCHANGED <<found, got, niosPass, starts, text, sessions, expired, hostIn, lost>>

\* The result line, up to its newline, and the overall verdict.
Contains(s, word) ==
  \E i \in 0 .. Len(s) - Len(word) : SubSeq(s, i + 1, i + Len(word)) = word

MutVerdict(s) == IF niosPass /\ ~Contains(s, FailText) THEN "passed" ELSE "failed"

Verdict(s) == IF niosPass /\ Contains(s, PassText) THEN "passed" ELSE "failed"

ReadResult ==
  /\ tool = "result"
  /\ Take
  /\ text' = Append(text, Head(hostIn))
  /\ tool' = IF Head(hostIn) = Newline[1] THEN Verdict(text') ELSE "result"
  /\ UNCHANGED <<found, got, niosPass, starts, packet, sessions, expired, hostOut, lost>>

\* A read or write deadline passes.  While the tool waits for the result it
\* judges the text it has; anywhere else it ends with an exception.  flush
\* has no deadline.
MutDeadlines == {"find", "send", "result"}
Deadlines    == {"find", "payload", "send", "result"}

Expire ==
  /\ tool \in Deadlines
  /\ tool' = IF tool = "result" THEN Verdict(text) ELSE "failed"
  /\ expired' = TRUE
  /\ UNCHANGED <<found, got, niosPass, starts, packet, text, sessions, linkVars>>

\* What the tool does by itself, without the user and without a deadline.
ToolStep ==
  /\ \/ Drain \/ Quiet \/ SendStart \/ Flushed \/ FindHeader
     \/ ReadPayload \/ ReadCrc \/ WriteChunk \/ ReadResult
  /\ UNCHANGED <<slaveVars, driverVars, firmwareVars>>

Deadline == Expire /\ UNCHANGED <<slaveVars, driverVars, firmwareVars>>

ToolNext ==
  \/ ToolStep
  \/ Deadline
  \/ OpenPort /\ UNCHANGED <<slaveVars, driverVars, firmwareVars>>

-----------------------------------------------------------------------------
Init ==
  /\ DriverInit
  /\ tx \in Stale
  /\ rx = <<>>
  /\ pc = "boot" /\ out = <<>> /\ parts = <<>> /\ at = 0 /\ matched = 0 /\ buffer = <<>>
  /\ tool = "closed" /\ found = 0 /\ got = <<>> /\ niosPass = FALSE
  /\ starts = 0 /\ packet = <<>> /\ text = <<>>
  /\ hostIn = <<>> /\ hostOut = <<>>
  /\ sessions = 0 /\ lost = 0 /\ expired = FALSE

Next == FirmwareNext \/ LinkNext \/ ToolNext

Spec == Init /\ [][Next]_vars

\* The firmware runs, the PC polls the device, and the tool's loops go on.
\* Nobody has to start the tool again, and no deadline has to pass.
FairSpec ==
  /\ Spec
  /\ WF_vars(FirmwareNext)
  /\ WF_vars(Upload /\ LinkNext)
  /\ WF_vars(Download /\ LinkNext)
  /\ WF_vars(ToolStep)
=============================================================================
