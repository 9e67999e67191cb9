---------------------------- MODULE UsbBulkProps ----------------------------
(***************************************************************************)
(* What the bulk pipe must guarantee over a bad line, and what it does     *)
(* not.                                                                    *)
(***************************************************************************)
EXTENDS UsbBulk

WireType ==
  {NoPacket}
    \cup [kind : {"out", "receiving"}, to : Endpoints, setup : BOOLEAN,
          toggle : {0, 1}, left : Seq(Nat)]
    \cup [kind : {"in"}, toggle : {0, 1}, data : Seq(Nat)]

\* Every register and history has its type, and no FIFO holds more than its
\* capacity, committed and speculative bytes together.
TypeOK ==
  /\ dataNext \in BOOLEAN /\ endp \in Endpoints
  /\ inToggle \in [Endpoints -> {0, 1}] /\ outToggle \in [Endpoints -> {0, 1}]
  /\ inByte \in 0 .. InMax
  /\ InF!TypeOK /\ OutF!TypeOK
  /\ wire \in WireType
  /\ hIn \in [Endpoints -> {0, 1}] /\ hOut \in [Endpoints -> {0, 1}]
  /\ outPkt \in Seq(Nat) /\ Len(outPkt) <= OutMax
  /\ acked \in 0 .. MaxOut
  /\ hostGot \in Seq(Nat) /\ hostOpen \in BOOLEAN
  /\ pushed \in 0 .. MaxIn /\ appGot \in Seq(Nat)
  /\ faults \in [count : 0 .. MaxFaults, lossy : SUBSET Lossy] /\ ctrls \in 0 .. MaxCtrl

\* The first n bytes of a stream.
Stream(n) == [i \in 1 .. n |-> i]

\* The OUT direction (usb_cdc/README.md:25: "at the end of an OUT bulk
\* transfer without errors makes it available to the external logic.
\* Otherwise, OUT FIFO is flushed from incomplete data"): the application gets each byte
\* once and in order, no more than what the host was told was accepted,
\* except for one packet whose ACK is missing; the toggles tell whether
\* there is one.
OutConserved ==
  appGot \o outBuf =
    Stream(IF outToggle["bulk"] = hOut["bulk"] THEN acked
           ELSE acked + Len(outPkt))

\* The IN direction (usb_cdc/README.md:25: "After IN data is transferred to
\* the USB host without errors, it is flushed from IN FIFO.  Otherwise, it is
\* kept to be retransmitted with the next IN transfer"): every byte the application
\* put in is with the host or still kept, once and in order.  That is so only if no
\* handshake of the host is lost: until the host has been asked again, what a lost
\* ACK was for is rightly in both places.
InConserved == hostGot \o inBuf = Stream(pushed)

\* What the sentence promises even then: no byte is lost.  One that the FIFO has
\* flushed was in a packet that the host took.
InNotLost ==
  \A b \in 1 .. pushed :
    \/ \E i \in 1 .. Len(hostGot) : hostGot[i] = b
    \/ \E i \in 1 .. Len(inBuf) : inBuf[i] = b

\* What is left of the two on every line.  A token that is damaged behind
\* its PID, or is missed, may cost OUT bytes; a lost ACK of the host costs IN
\* bytes.  No other fault costs a byte of either direction.
OutExactlyOnce == faults.lossy \subseteq {"in handshake"} => OutConserved
\* And whatever the line does, the host gets no byte twice and none out of order.
InOrder       == \A i, j \in 1 .. Len(hostGot) : i < j => hostGot[i] < hostGot[j]
InExactlyOnce == InOrder /\ ("in handshake" \notin faults.lossy => InConserved)

-----------------------------------------------------------------------------
(***************************************************************************)
(* The inductive invariant behind OutExactlyOnce and InExactlyOnce.        *)
(***************************************************************************)
Receiving == wire.kind = "receiving" /\ endp = "bulk"
Sending   == wire.kind = "in" /\ endp = "bulk"

\* Between packets the OUT FIFO holds no speculative byte; out_full_q may be
\* late to fall but never late to rise; in_byte_q counts the packet's bytes.
FifosRest ==
  /\ ~Receiving => outState = "IDLE"
  /\ outState = "IDLE" => outFresh = << >>
  /\ Len(outBuf) + Len(outFresh) = OutMax => outFull
  /\ inValid => inSent < Len(inBuf)
  /\ wire.kind = "in" => inByte = Len(wire.data)

\* The host's packet is the next bytes of its stream, with its toggle.
HostPacket ==
  /\ acked + Len(outPkt) <= MaxOut
  /\ \A i \in 1 .. Len(outPkt) : outPkt[i] = acked + i
  /\ wire.kind \in {"out", "receiving"} /\ wire.to = "bulk" =>
       outPkt # << >> /\ wire.toggle = hOut["bulk"]
  /\ wire.kind = "out" /\ wire.to = "bulk" => wire.left = outPkt

\* While no token is damaged or missed, a packet that is received goes to the
\* endpoint of its token, and as much of it as came is in the FIFO, or a NAK
\* is due; a difference of the toggles is the packet whose ACK is missing.
OutInv ==
  faults.lossy \subseteq {"in handshake"} =>
    /\ wire.kind = "receiving" \/ (wire.kind = "out" /\ dataNext) => endp = wire.to
    /\ Receiving => CASE outState = "IDLE" -> wire.left = outPkt
                      [] outState = "DATA" -> ~outNak /\ outFresh \o wire.left = outPkt
                      [] outState = "NAK"  -> outNak
    /\ outToggle["bulk"] # hOut["bulk"] => outPkt # << >>
    /\ OutConserved

\* The IN FIFO keeps the newest bytes of the application, and the packet on
\* the line is its oldest ones.
InKept ==
  /\ Len(inBuf) <= pushed
  /\ \A i \in 1 .. Len(inBuf) : inBuf[i] = pushed - Len(inBuf) + i
  /\ Sending => /\ inState = "DATA" /\ wire.toggle = inToggle["bulk"]
                /\ wire.data = SubSeq(inBuf, 1, inSent)

\* The newest byte that the device may take for delivered: when the host's
\* toggle is ahead, all but what has come since the packet on the line ended.
Delivered ==
  IF inToggle["bulk"] = hIn["bulk"] THEN pushed - Len(inBuf)
  ELSE IF Sending /\ ~inValid THEN pushed - Len(inBuf) + inSent
  ELSE pushed

InInv ==
  /\ InOrder
  /\ \A j \in 1 .. Len(hostGot) : hostGot[j] <= Delivered
  /\ "in handshake" \notin faults.lossy =>
       inToggle["bulk"] = hIn["bulk"] /\ InConserved

BulkInv == TypeOK /\ FifosRest /\ HostPacket /\ OutInv /\ InKept /\ InInv

-----------------------------------------------------------------------------
(***************************************************************************)
(* Liveness, when the line loses no more than MaxFaults packets, the host  *)
(* keeps scheduling both directions, and the application keeps reading.    *)
(* No fault ever has to happen: the host's fairness is that of good tokens *)
(* (a refused IN changes nothing, so that BulkIn alone would demand one).  *)
(***************************************************************************)
Fairness == /\ SF_vars(BulkOut /\ NoFault) /\ SF_vars(BulkIn /\ NoFault)
            /\ WF_vars(OutStart) /\ WF_vars(OutByte) /\ WF_vars(OutEnd)
            /\ WF_vars(InByte) /\ WF_vars(InEnd)
            /\ WF_vars(AppPop) /\ WF_vars(FullRefresh)

FairSpec == Spec /\ Fairness

\* Every byte of the host reaches the application in spite of NAKs, and the
\* host learns it.
OutDelivered == <>(acked = MaxOut /\ Len(appGot) = MaxOut)

\* Every byte of the application reaches the host.
InDelivered == \A n \in 1 .. MaxIn : (pushed >= n) ~> (Len(hostGot) >= n)

\* A transfer that ends with a full packet is closed by an empty one: the
\* host's read returns although no byte follows.  This is so on a good line
\* and without control transactions only: sie.v:511 forgets that the empty
\* packet is due as soon as it answers any IN token.
TransferEnds == hostOpen ~> (~hostOpen \/ faults.count > 0 \/ ctrls > 0)

=============================================================================
