--------------------------- MODULE UsbBulk_proofs ---------------------------
(***************************************************************************)
(* Proofs that the bulk pipe delivers every byte once and in order over a  *)
(* bad line, for any sizes of packets and any number of faults.            *)
(***************************************************************************)
EXTENDS UsbBulkProps, SequenceLemmas, SequenceTheorems, TLAPS

-----------------------------------------------------------------------------
(***************************************************************************)
(* Sequences and packets.                                                  *)
(***************************************************************************)

\* Moving the head, appending and grouping, for sequences of numbers.
LEMMA MoveNumber ==
  ASSUME NEW s \in Seq(Nat), NEW t \in Seq(Nat), t # << >>
  PROVE  /\ Head(t) \in Nat /\ Tail(t) \in Seq(Nat)
         /\ Append(s, Head(t)) \o Tail(t) = s \o t
BY MoveHead

\* The end of a concatenation is the end of its second part.
LEMMA AppendNumber ==
  ASSUME NEW s \in Seq(Nat), NEW t \in Seq(Nat), NEW e \in Nat
  PROVE  Append(s \o t, e) = s \o Append(t, e)
<1>1. s \o t \in Seq(Nat) /\ <<e>> \in Seq(Nat)
  BY ConcatProperties
<1>2. Append(s \o t, e) = (s \o t) \o <<e>> /\ Append(t, e) = t \o <<e>>
  BY <1>1, AppendIsConcat
<1>3. (s \o t) \o <<e>> = s \o (t \o <<e>>)
  BY <1>1, ConcatAssociative
<1>. QED BY <1>2, <1>3

\* Three parts are put together in either order.
LEMMA JoinNumbers ==
  ASSUME NEW s \in Seq(Nat), NEW t \in Seq(Nat), NEW u \in Seq(Nat)
  PROVE  (s \o t) \o u = s \o (t \o u)
BY ConcatAssociative, SMTT(20)

\* What a stream is.
LEMMA StreamIsSeq ==
  ASSUME NEW n \in Nat
  PROVE  /\ Stream(n) \in Seq(Nat) /\ Len(Stream(n)) = n
         /\ \A i \in 1 .. n : Stream(n)[i] = i
BY DEF Stream

\* A sequence of numbers that counts from n + 1 continues a stream of n.
LEMMA StreamGoesOn ==
  ASSUME NEW n \in Nat, NEW s \in Seq(Nat), \A i \in 1 .. Len(s) : s[i] = n + i
  PROVE  Stream(n) \o s = Stream(n + Len(s))
<1>. DEFINE u == Stream(n)
            v == Stream(n + Len(s))
<1>1. Len(s) \in Nat /\ n + Len(s) \in Nat
  BY LenProperties
<1>2. u \in Seq(Nat) /\ Len(u) = n /\ \A i \in 1 .. n : u[i] = i
  BY StreamIsSeq
<1>3. v \in Seq(Nat) /\ Len(v) = n + Len(s) /\ \A i \in 1 .. n + Len(s) : v[i] = i
  BY <1>1, StreamIsSeq
<1>. HIDE DEF u, v
<1>4. /\ u \o s \in Seq(Nat) /\ Len(u \o s) = n + Len(s)
      /\ \A i \in 1 .. n + Len(s) : (u \o s)[i] = IF i <= n THEN u[i] ELSE s[i - n]
  BY <1>2, ConcatProperties
<1>5. ASSUME NEW i \in 1 .. n + Len(s) PROVE (u \o s)[i] = v[i]
  <2>1. CASE i <= n
    BY <1>1, <1>2, <1>3, <1>4, <2>1
  <2>2. CASE i > n
    <3>1. i - n \in 1 .. Len(s)
      BY <1>1, <2>2
    <3>. QED BY <1>1, <1>3, <1>4, <2>2, <3>1, SMTT(20)
  <2>3. i <= n \/ i > n
    BY <1>1
  <2>. QED BY <2>1, <2>2, <2>3
<1>6. u \o s = v
  BY <1>3, <1>4, <1>5, SeqEqual
<1>. QED BY <1>6 DEF u, v

\* A packet on the line is one of its three kinds, or there is none.
LEMMA WireKinds ==
  ASSUME NEW w \in WireType
  PROVE  /\ w.kind \in {"none", "out", "receiving", "in"}
         /\ w.kind = "none" <=> w = NoPacket
         /\ w.kind \in {"out", "receiving"} =>
              /\ w.to \in Endpoints /\ w.setup \in BOOLEAN
              /\ w.toggle \in {0, 1} /\ w.left \in Seq(Nat)
         /\ w.kind = "in" => w.toggle \in {0, 1} /\ w.data \in Seq(Nat)
<1>1. CASE w = NoPacket
  BY <1>1 DEF NoPacket
<1>2. CASE w \in [kind : {"out", "receiving"}, to : Endpoints, setup : BOOLEAN,
                  toggle : {0, 1}, left : Seq(Nat)]
  BY <1>2 DEF NoPacket
<1>3. CASE w \in [kind : {"in"}, toggle : {0, 1}, data : Seq(Nat)]
  BY <1>3 DEF NoPacket
<1>. QED BY <1>1, <1>2, <1>3 DEF WireType

\* The packets that the actions put on the line.
LEMMA WirePackets ==
  /\ NoPacket \in WireType
  /\ \A to \in Endpoints, setup \in BOOLEAN, toggle \in {0, 1}, left \in Seq(Nat) :
       OutPacket(to, setup, toggle, left) \in WireType
  /\ \A toggle \in {0, 1}, data \in Seq(Nat) : InPacket(toggle, data) \in WireType
BY DEF WireType, NoPacket, OutPacket, InPacket

\* The fields of the packets that the actions put on the line.
LEMMA PacketFields ==
  /\ NoPacket.kind = "none"
  /\ \A to, setup, toggle, left :
       /\ OutPacket(to, setup, toggle, left).kind = "out"
       /\ OutPacket(to, setup, toggle, left).to = to
       /\ OutPacket(to, setup, toggle, left).toggle = toggle
       /\ OutPacket(to, setup, toggle, left).left = left
  /\ \A toggle, data :
       /\ InPacket(toggle, data).kind = "in"
       /\ InPacket(toggle, data).toggle = toggle
       /\ InPacket(toggle, data).data = data
BY DEF NoPacket, OutPacket, InPacket

\* What becomes of a packet under way.
LEMMA WireGoesOn ==
  ASSUME NEW w \in WireType
  PROVE  /\ w.kind = "out" =>
              /\ [w EXCEPT !.kind = "receiving"] \in WireType
              /\ [w EXCEPT !.kind = "receiving"].kind = "receiving"
              /\ [w EXCEPT !.kind = "receiving"].to = w.to
              /\ [w EXCEPT !.kind = "receiving"].toggle = w.toggle
              /\ [w EXCEPT !.kind = "receiving"].left = w.left
         /\ w.kind = "receiving" => \A left \in Seq(Nat) :
              /\ [w EXCEPT !.left = left] \in WireType
              /\ [w EXCEPT !.left = left].kind = "receiving"
              /\ [w EXCEPT !.left = left].to = w.to
              /\ [w EXCEPT !.left = left].toggle = w.toggle
              /\ [w EXCEPT !.left = left].left = left
         /\ w.kind = "in" => \A data \in Seq(Nat) :
              /\ [w EXCEPT !.data = data] \in WireType
              /\ [w EXCEPT !.data = data].kind = "in"
              /\ [w EXCEPT !.data = data].toggle = w.toggle
              /\ [w EXCEPT !.data = data].data = data
<1>1. CASE w = NoPacket
  BY <1>1 DEF NoPacket
<1>2. CASE w \in [kind : {"out", "receiving"}, to : Endpoints, setup : BOOLEAN,
                  toggle : {0, 1}, left : Seq(Nat)]
  BY <1>2 DEF WireType
<1>3. CASE w \in [kind : {"in"}, toggle : {0, 1}, data : Seq(Nat)]
  BY <1>3 DEF WireType
<1>. QED BY <1>1, <1>2, <1>3 DEF WireType

-----------------------------------------------------------------------------
(***************************************************************************)
(* Types.                                                                  *)
(***************************************************************************)

\* The constants and the lengths are numbers, and the bits are bits.
LEMMA Numbers ==
  ASSUME TypeOK
  PROVE  /\ InMax \in Nat \ {0} /\ OutMax \in Nat \ {0} /\ CtrlMax \in Nat \ {0}
         /\ CtrlMax < InMax
         /\ MaxFaults \in Nat /\ MaxIn \in Nat /\ MaxOut \in Nat /\ MaxCtrl \in Nat
         /\ Len(inBuf) \in Nat /\ Len(outBuf) \in Nat /\ Len(outFresh) \in Nat
         /\ Len(outPkt) \in Nat /\ Len(hostGot) \in Nat /\ Len(appGot) \in Nat
         /\ acked \in Nat /\ pushed \in Nat /\ inSent \in Nat /\ inByte \in Nat
         /\ \A e \in Endpoints : /\ inToggle[e] \in {0, 1} /\ outToggle[e] \in {0, 1}
                                 /\ hIn[e] \in {0, 1} /\ hOut[e] \in {0, 1}
         /\ \A b \in {0, 1} : Flip(b) \in {0, 1} /\ Flip(b) # b /\ Flip(Flip(b)) = b
<1>1. /\ InMax \in Nat \ {0} /\ OutMax \in Nat \ {0} /\ CtrlMax \in Nat \ {0}
      /\ CtrlMax < InMax
      /\ MaxFaults \in Nat /\ MaxIn \in Nat /\ MaxOut \in Nat /\ MaxCtrl \in Nat
  BY ConstantsAssumption
<1>2. /\ Len(inBuf) \in Nat /\ Len(outBuf) \in Nat /\ Len(outFresh) \in Nat
      /\ Len(outPkt) \in Nat /\ Len(hostGot) \in Nat /\ Len(appGot) \in Nat
  BY LenProperties DEF TypeOK, InF!TypeOK, OutF!TypeOK
<1>3. acked \in Nat /\ pushed \in Nat /\ inSent \in Nat /\ inByte \in Nat
  BY <1>1, <1>2 DEF TypeOK, InF!TypeOK
<1>4. \A e \in Endpoints : /\ inToggle[e] \in {0, 1} /\ outToggle[e] \in {0, 1}
                           /\ hIn[e] \in {0, 1} /\ hOut[e] \in {0, 1}
  BY DEF TypeOK
<1>5. \A b \in {0, 1} : Flip(b) \in {0, 1} /\ Flip(b) # b /\ Flip(Flip(b)) = b
  BY DEF Flip
<1>. QED BY <1>1, <1>2, <1>3, <1>4, <1>5

\* A fault is counted, whatever it is.
LEMMA FaultType ==
  ASSUME TypeOK, NoFault \/ \E f \in AllFaults : Happens(f)
  PROVE  /\ faults' \in [count : 0 .. MaxFaults, lossy : SUBSET Lossy]
         /\ faults.lossy \subseteq faults'.lossy
<1>1. /\ faults \in [count : 0 .. MaxFaults, lossy : SUBSET Lossy]
      /\ MaxFaults \in Nat
  BY Numbers DEF TypeOK
<1>2. CASE NoFault
  BY <1>1, <1>2 DEF NoFault
<1>3. ASSUME NEW f \in AllFaults, Happens(f)
      PROVE  /\ faults' \in [count : 0 .. MaxFaults, lossy : SUBSET Lossy]
             /\ faults.lossy \subseteq faults'.lossy
  <2>1. faults.count + 1 \in 0 .. MaxFaults
    BY <1>1, <1>3 DEF Happens
  <2>. QED BY <1>1, <1>3, <2>1 DEF Happens
<1>. QED BY <1>2, <1>3

\* The reset values have their types.
LEMMA InitTypeOK == Init => TypeOK
<1>. SUFFICES ASSUME Init PROVE TypeOK
  OBVIOUS
<1>. USE DEF Init
<1>1. << >> \in Seq(Nat) /\ Len(<< >>) = 0
  OBVIOUS
<1>2. InF!TypeOK /\ OutF!TypeOK
  <2>1. InMax \in Nat /\ OutMax \in Nat
    BY ConstantsAssumption
  <2>2. InF!TypeOK
    <3>1. inBuf = << >> /\ inSent = 0 /\ inState = "IDLE"
      BY DEF InF!Init
    <3>2. inValid \in BOOLEAN
      BY DEF InF!Init
    <3>. QED BY <1>1, <2>1, <3>1, <3>2 DEF InF!TypeOK
  <2>3. OutF!TypeOK
    <3>1. outBuf = << >> /\ outFresh = << >> /\ outState = "IDLE"
      BY DEF OutF!Init
    <3>2. outFull \in BOOLEAN /\ outNak \in BOOLEAN
      BY DEF OutF!Init
    <3>3. OutF!Used <= OutMax
      BY <1>1, <2>1, <3>1 DEF OutF!Used
    <3>. QED BY <1>1, <3>1, <3>2, <3>3 DEF OutF!TypeOK
  <2>. QED BY <2>2, <2>3
<1>3. /\ MaxFaults \in Nat /\ MaxIn \in Nat /\ MaxOut \in Nat /\ MaxCtrl \in Nat
      /\ InMax \in Nat /\ OutMax \in Nat
  BY ConstantsAssumption
<1>4. /\ inToggle \in [Endpoints -> {0, 1}] /\ outToggle \in [Endpoints -> {0, 1}]
      /\ hIn \in [Endpoints -> {0, 1}] /\ hOut \in [Endpoints -> {0, 1}]
  OBVIOUS
<1>5. faults \in [count : 0 .. MaxFaults, lossy : SUBSET Lossy]
  BY <1>3
<1>6. wire \in WireType
  BY WirePackets
<1>7. dataNext \in BOOLEAN /\ hostOpen \in BOOLEAN
  OBVIOUS
<1>. QED BY <1>1, <1>2, <1>3, <1>4, <1>5, <1>6, <1>7 DEF TypeOK, Endpoints

-----------------------------------------------------------------------------
(***************************************************************************)
(* What the operations of the two FIFOs keep.                              *)
(***************************************************************************)

\* The IN FIFO stays within its capacity, and in_valid_q speaks of a byte that
\* is there.
InFifoKept == InF!TypeOK /\ (inValid => inSent < Len(inBuf))

\* A byte of the application only lengthens what is there.
LEMMA InFifoPush ==
  ASSUME InFifoKept, NEW b \in Nat, InF!Push(b)
  PROVE  InFifoKept'
<1>1. inBuf \in Seq(Nat) /\ Len(inBuf) \in Nat /\ inSent \in 0 .. Len(inBuf)
      /\ Len(inBuf) <= InMax /\ Len(inBuf) # InMax /\ InMax \in Nat
  BY ConstantsAssumption, LenProperties DEF InFifoKept, InF!TypeOK, InF!Push, InF!Full
<1>2. inBuf' \in Seq(Nat) /\ Len(inBuf') = Len(inBuf) + 1
  BY <1>1, AppendProperties DEF InF!Push
<1>3. UNCHANGED <<inSent, inValid, inState>>
  BY DEF InF!Push
<1>4. inValid' \in BOOLEAN /\ inState' \in {"IDLE", "DATA"}
  BY <1>3 DEF InFifoKept, InF!TypeOK
<1>5. inValid' => inSent' < Len(inBuf')
  BY <1>1, <1>2, <1>3 DEF InFifoKept
<1>. QED BY <1>1, <1>2, <1>3, <1>4, <1>5 DEF InFifoKept, InF!TypeOK

\* A packet that begins has a byte exactly when the FIFO has one.
LEMMA InFifoRequest ==
  ASSUME InFifoKept, InF!Request
  PROVE  InFifoKept'
<1>1. inBuf \in Seq(Nat) /\ Len(inBuf) \in Nat /\ Len(inBuf) <= InMax
  BY LenProperties DEF InFifoKept, InF!TypeOK
<1>2. inBuf' = inBuf /\ inSent' = 0 /\ inState' = "DATA" /\ inValid' = (inBuf # << >>)
  BY DEF InF!Request
<1>3. inValid' => Len(inBuf) # 0
  BY <1>1, <1>2, EmptySeq
<1>4. inValid' \in BOOLEAN
  BY <1>2
<1>. QED BY <1>1, <1>2, <1>3, <1>4 DEF InFifoKept, InF!TypeOK

\* A byte that is fetched was there.
LEMMA InFifoFetch ==
  ASSUME InFifoKept, InF!Fetch, inValid
  PROVE  InFifoKept'
<1>1. inBuf \in Seq(Nat) /\ Len(inBuf) \in Nat /\ Len(inBuf) <= InMax
      /\ inSent \in 0 .. Len(inBuf) /\ inSent < Len(inBuf)
      /\ inState \in {"IDLE", "DATA"}
  BY LenProperties DEF InFifoKept, InF!TypeOK
<1>2. inBuf' = inBuf /\ inSent' = inSent + 1 /\ inState' = inState
  BY DEF InF!Fetch
<1>3. inValid' \in BOOLEAN
  BY DEF InF!Fetch
<1>4. inValid' => inSent + 1 < Len(inBuf)
  BY DEF InF!Fetch
<1>. QED BY <1>1, <1>2, <1>3, <1>4 DEF InFifoKept, InF!TypeOK

\* What is flushed is what was sent.
LEMMA InFifoAcknowledge ==
  ASSUME InFifoKept, InF!Acknowledge, inState = "DATA", ~inValid
  PROVE  /\ InFifoKept'
         /\ Len(inBuf') = Len(inBuf) - inSent
         /\ \A i \in 1 .. Len(inBuf') : inBuf'[i] = inBuf[inSent + i]
<1>1. inBuf \in Seq(Nat) /\ Len(inBuf) \in Nat /\ Len(inBuf) <= InMax
      /\ InMax \in Nat /\ inSent \in 0 .. Len(inBuf)
  BY ConstantsAssumption, LenProperties DEF InFifoKept, InF!TypeOK
<1>2. inBuf' = SubSeq(inBuf, inSent + 1, Len(inBuf)) /\ inSent' = 0
      /\ inState' = "IDLE" /\ inValid' = inValid
  BY DEF InF!Acknowledge, InF!Flushed
<1>3. \A i \in inSent + 1 .. Len(inBuf) : inBuf[i] \in Nat
  BY <1>1, ElementOfSeq
<1>4. /\ inBuf' \in Seq(Nat)
      /\ Len(inBuf') = IF inSent + 1 <= Len(inBuf) THEN Len(inBuf) - (inSent + 1) + 1 ELSE 0
      /\ \A i \in 1 .. Len(inBuf) - (inSent + 1) + 1 : inBuf'[i] = inBuf[inSent + 1 + i - 1]
  BY <1>1, <1>2, <1>3, SubSeqProperties
<1>5. inBuf' \in Seq(Nat) /\ Len(inBuf') = Len(inBuf) - inSent
      /\ \A i \in 1 .. Len(inBuf') : inBuf'[i] = inBuf[inSent + i]
  <2>1. Len(inBuf') = Len(inBuf) - inSent
    BY <1>1, <1>4
  <2>2. ASSUME NEW i \in 1 .. Len(inBuf') PROVE inBuf'[i] = inBuf[inSent + i]
    <3>1. i \in 1 .. Len(inBuf) - (inSent + 1) + 1 /\ inSent + 1 + i - 1 = inSent + i
      BY <1>1, <2>1
    <3>. QED BY <1>4, <3>1
  <2>. QED BY <1>4, <2>1, <2>2
<1>6. inValid' \in BOOLEAN /\ ~inValid'
  BY <1>2 DEF InFifoKept, InF!TypeOK
<1>. QED BY <1>1, <1>2, <1>5, <1>6 DEF InFifoKept, InF!TypeOK

\* An abandoned packet keeps its bytes.
LEMMA InFifoIdle ==
  ASSUME InFifoKept, InF!Abandon \/ UNCHANGED inVars
  PROVE  InFifoKept'
<1>1. UNCHANGED <<inBuf, inSent, inValid>> /\ inState' \in {inState, "IDLE"}
  BY DEF InF!Abandon, inVars
<1>. QED BY <1>1 DEF InFifoKept, InF!TypeOK

\* The OUT FIFO never exceeds its capacity, because out_full_q is never late
\* to rise; without a packet there is no speculative byte.
OutFifoKept ==
  /\ OutF!TypeOK
  /\ outState = "IDLE" => outFresh = << >>
  /\ Len(outBuf) + Len(outFresh) = OutMax => outFull

\* The FIFO's types, taken apart.
LEMMA OutFifoTypes ==
  ASSUME OutFifoKept
  PROVE  /\ outBuf \in Seq(Nat) /\ outFresh \in Seq(Nat) /\ OutMax \in Nat \ {0}
         /\ Len(outBuf) \in Nat /\ Len(outFresh) \in Nat
         /\ Len(outBuf) + Len(outFresh) <= OutMax
         /\ outState \in {"IDLE", "DATA", "NAK"}
         /\ outFull \in BOOLEAN /\ outNak \in BOOLEAN
BY ConstantsAssumption, LenProperties DEF OutFifoKept, OutF!TypeOK, OutF!Used

\* A byte is stored behind the earlier ones of its packet, or the packet is
\* to be refused.
LEMMA OutFifoStore ==
  ASSUME OutFifoKept, NEW b \in Nat, OutF!Store(b)
  PROVE  /\ OutFifoKept'
         /\ outBuf' = outBuf
         /\ \/ outState' = "NAK" /\ outNak'
            \/ /\ outState' = "DATA" /\ ~outNak' /\ outState # "NAK"
               /\ outFresh' = Append(outFresh, b)
<1>1. CASE outFull \/ outState = "NAK"
  <2>1. outState' = "NAK" /\ outNak' /\ UNCHANGED <<outBuf, outFresh, outFull>>
    BY <1>1 DEF OutF!Store
  <2>2. outNak' \in BOOLEAN
    BY <1>1 DEF OutF!Store
  <2>. QED BY <2>1, <2>2 DEF OutFifoKept, OutF!TypeOK, OutF!Used
<1>2. CASE ~(outFull \/ outState = "NAK")
  <2>1. /\ outState' = "DATA" /\ outFresh' = Append(outFresh, b) /\ outBuf' = outBuf
        /\ outState # "NAK"
    BY <1>2 DEF OutF!Store
  <2>2. ~outNak' /\ outNak' \in BOOLEAN
    BY <1>2 DEF OutF!Store
  <2>3. outFull' = (Len(outBuf) + Len(outFresh) + 1 = OutMax)
    BY <1>2 DEF OutF!Store, OutF!Used
  <2>4. Len(outBuf) + Len(outFresh) # OutMax
    BY <1>2 DEF OutFifoKept
  <2>5. outFresh' \in Seq(Nat) /\ Len(outFresh') = Len(outFresh) + 1
    BY <2>1, OutFifoTypes, AppendProperties
  <2>6. outFull' \in BOOLEAN
    BY <2>3
  <2>. DEFINE n == Len(outBuf)
              k == Len(outFresh)
  <2>7. n \in Nat /\ k \in Nat /\ OutMax \in Nat /\ n + k <= OutMax
    BY OutFifoTypes
  <2>8. Len(outBuf') = n /\ Len(outFresh') = k + 1
    BY <2>1, <2>5
  <2>. HIDE DEF n, k
  <2>9. Len(outBuf') + Len(outFresh') <= OutMax
    BY <2>4, <2>7, <2>8 DEF n, k
  <2>10. Len(outBuf') + Len(outFresh') = OutMax => outFull'
    <3>1. Len(outBuf') + Len(outFresh') = n + k + 1
      BY <2>7, <2>8
    <3>. QED BY <2>3, <3>1 DEF n, k
  <2>11. outBuf' \in Seq(Nat)
    BY <2>1, OutFifoTypes
  <2>12. OutF!TypeOK'
    BY <2>1, <2>2, <2>5, <2>6, <2>9, <2>11 DEF OutF!TypeOK, OutF!Used
  <2>. QED BY <2>1, <2>2, <2>10, <2>12 DEF OutFifoKept
<1>. QED BY <1>1, <1>2

\* A packet that is dropped leaves the committed bytes alone.
LEMMA OutFifoAbort ==
  ASSUME OutFifoKept, OutF!Abort
  PROVE  OutFifoKept' /\ outBuf' = outBuf /\ outState' = "IDLE"
<1>1. outBuf' = outBuf /\ outFresh' = << >> /\ outState' = "IDLE"
  BY DEF OutF!Abort
<1>2. outNak' \in BOOLEAN /\ outFull' = outFull
  BY DEF OutF!Abort
<1>3. outFull' \in BOOLEAN
  BY <1>2, OutFifoTypes
<1>4. outFresh' \in Seq(Nat) /\ Len(outFresh') = 0
  BY <1>1
<1>5. OutF!TypeOK'
  BY <1>1, <1>2, <1>3, <1>4, OutFifoTypes DEF OutF!TypeOK, OutF!Used
<1>6. Len(outBuf') + Len(outFresh') = OutMax => Len(outFresh) = 0
  BY <1>1, <1>4, OutFifoTypes
<1>7. Len(outBuf') + Len(outFresh') = OutMax => outFull'
  BY <1>1, <1>2, <1>4, <1>6, OutFifoTypes DEF OutFifoKept
<1>. QED BY <1>1, <1>5, <1>7 DEF OutFifoKept

\* The end of a packet commits all of it, or nothing after a NAK.
LEMMA OutFifoEnd ==
  ASSUME OutFifoKept, OutF!End
  PROVE  /\ OutFifoKept' /\ outState' = "IDLE"
         /\ outNak => outBuf' = outBuf
         /\ ~outNak => outBuf' = outBuf \o outFresh
<1>1. outFresh' = << >> /\ outState' = "IDLE"
  BY DEF OutF!End
<1>2. outBuf' = IF outNak THEN outBuf ELSE outBuf \o outFresh
  BY DEF OutF!End
<1>3. UNCHANGED <<outFull, outNak>>
  BY DEF OutF!End
<1>4. outFull' \in BOOLEAN /\ outNak' \in BOOLEAN
  BY <1>3, OutFifoTypes
<1>5. /\ outBuf' \in Seq(Nat) /\ Len(outBuf') \in Nat
      /\ Len(outBuf') <= Len(outBuf) + Len(outFresh)
  BY <1>2, OutFifoTypes, ConcatProperties
<1>6. outFresh' \in Seq(Nat) /\ Len(outFresh') = 0
  BY <1>1
<1>7. OutF!TypeOK'
  BY <1>1, <1>4, <1>5, <1>6, OutFifoTypes DEF OutF!TypeOK, OutF!Used
<1>8. Len(outBuf') + Len(outFresh') = OutMax => outFull'
  <2>1. Len(outBuf') + Len(outFresh') = OutMax => Len(outBuf) + Len(outFresh) = OutMax
    BY <1>5, <1>6, OutFifoTypes
  <2>. QED BY <1>3, <2>1 DEF OutFifoKept
<1>. QED BY <1>1, <1>2, <1>7, <1>8 DEF OutFifoKept

\* The application takes the oldest committed byte.
LEMMA OutFifoPop ==
  ASSUME OutFifoKept, OutF!Pop
  PROVE  /\ OutFifoKept' /\ outBuf # << >> /\ outBuf' = Tail(outBuf)
         /\ UNCHANGED <<outFresh, outNak, outState>>
<1>1. outBuf # << >> /\ outBuf' = Tail(outBuf)
  BY DEF OutF!Pop
<1>2. UNCHANGED <<outFresh, outFull, outNak, outState>>
  BY DEF OutF!Pop
<1>3. outBuf' \in Seq(Nat) /\ Len(outBuf') = Len(outBuf) - 1
  BY <1>1, OutFifoTypes, HeadTailProperties
<1>4. OutF!TypeOK'
  BY <1>2, <1>3, OutFifoTypes DEF OutF!TypeOK, OutF!Used
<1>5. Len(outBuf') + Len(outFresh') # OutMax
  BY <1>2, <1>3, OutFifoTypes
<1>. QED BY <1>1, <1>2, <1>4, <1>5 DEF OutFifoKept

\* out_full_q takes the value of the pointers.
LEMMA OutFifoRefresh ==
  ASSUME OutFifoKept, OutF!Refresh
  PROVE  OutFifoKept' /\ UNCHANGED <<outBuf, outFresh, outNak, outState>>
<1>1. UNCHANGED <<outBuf, outFresh, outNak, outState>>
  BY DEF OutF!Refresh
<1>2. outFull' = (Len(outBuf) + Len(outFresh) = OutMax)
  BY DEF OutF!Refresh, OutF!Used
<1>3. outFull' \in BOOLEAN
  BY <1>2
<1>4. Len(outBuf') + Len(outFresh') = OutMax => outFull'
  BY <1>1, <1>2
<1>. QED BY <1>1, <1>3, <1>4 DEF OutFifoKept, OutF!TypeOK, OutF!Used

\* Steps of the other direction.
LEMMA OutFifoIdle ==
  ASSUME OutFifoKept, UNCHANGED outVars
  PROVE  OutFifoKept' /\ UNCHANGED <<outBuf, outFresh, outNak, outState>>
BY DEF OutFifoKept, OutF!TypeOK, OutF!Used, outVars

-----------------------------------------------------------------------------
(***************************************************************************)
(* Types are kept by every step.                                           *)
(***************************************************************************)

\* Flipping the toggle of one pipe.
LEMMA FlipKept ==
  ASSUME NEW t \in [Endpoints -> {0, 1}], NEW e \in Endpoints
  PROVE  /\ [t EXCEPT ![e] = Flip(@)] \in [Endpoints -> {0, 1}]
         /\ [t EXCEPT ![e] = Flip(@)][e] = Flip(t[e])
         /\ \A f \in Endpoints \ {e} : [t EXCEPT ![e] = Flip(@)][f] = t[f]
<1>1. Flip(t[e]) \in {0, 1}
  BY DEF Flip
<1>. QED BY <1>1

\* The registers of the SIE.
LEMMA SieTypes ==
  ASSUME TypeOK, Next
  PROVE  /\ dataNext' \in BOOLEAN /\ endp' \in Endpoints
         /\ inToggle' \in [Endpoints -> {0, 1}] /\ outToggle' \in [Endpoints -> {0, 1}]
<1>1. /\ dataNext \in BOOLEAN /\ endp \in Endpoints
      /\ inToggle \in [Endpoints -> {0, 1}] /\ outToggle \in [Endpoints -> {0, 1}]
  BY DEF TypeOK
<1>2. dataNext' \in BOOLEAN
  <2>1. CASE BulkOut \/ CtrlOut
    BY <1>1, <2>1 DEF BulkOut, CtrlOut, SendOut, GoodToken, BadToken
  <2>2. CASE BulkIn \/ CtrlIn
    BY <1>1, <2>2 DEF BulkIn, CtrlIn, SendIn, GoodToken, BadToken
  <2>3. CASE OutStart
    BY <1>1, <2>3 DEF OutStart
  <2>4. CASE \/ OutByte \/ OutBroken \/ OutEnd \/ InByte \/ InEnd
             \/ AppPush \/ AppPop \/ FullRefresh
    BY <1>1, <2>4 DEF OutByte, OutBroken, OutEnd, InByte, InEnd, AppPush, AppPop,
                      FullRefresh, sieVars
  <2>. QED BY <2>1, <2>2, <2>3, <2>4 DEF Next
<1>3. endp' \in Endpoints
  <2>1. CASE BulkOut \/ CtrlOut
    BY <1>1, <2>1 DEF BulkOut, CtrlOut, SendOut, GoodToken, BadToken, Endpoints
  <2>2. CASE BulkIn \/ CtrlIn
    BY <1>1, <2>2 DEF BulkIn, CtrlIn, SendIn, GoodToken, BadToken, Endpoints
  <2>3. CASE \/ OutStart \/ OutByte \/ OutBroken \/ OutEnd \/ InByte \/ InEnd
             \/ AppPush \/ AppPop \/ FullRefresh
    BY <1>1, <2>3 DEF OutStart, OutByte, OutBroken, OutEnd, InByte, InEnd, AppPush,
                      AppPop, FullRefresh, sieVars
  <2>. QED BY <2>1, <2>2, <2>3 DEF Next
<1>4. /\ inToggle' \in [Endpoints -> {0, 1}]
      /\ outToggle' \in [Endpoints -> {0, 1}]
  <2>1. CASE BulkOut \/ CtrlOut
    BY <1>1, <2>1 DEF BulkOut, CtrlOut, SendOut, SetupToggles
  <2>2. CASE OutEnd
    <3>1. /\ outToggle' = outToggle \/ outToggle' = [outToggle EXCEPT ![endp] = Flip(@)]
          /\ inToggle' = inToggle
      BY <2>2 DEF OutEnd
    <3>. QED BY <1>1, <3>1, FlipKept
  <2>3. CASE InEnd
    <3>1. /\ inToggle' = inToggle \/ inToggle' = [inToggle EXCEPT ![endp] = Flip(@)]
          /\ outToggle' = outToggle
      BY <2>3 DEF InEnd, DeviceAcked
    <3>. QED BY <1>1, <3>1, FlipKept
  <2>4. CASE \/ OutStart \/ OutByte \/ OutBroken \/ BulkIn \/ CtrlIn \/ InByte
             \/ AppPush \/ AppPop \/ FullRefresh
    BY <1>1, <2>4 DEF OutStart, OutByte, OutBroken, BulkIn, CtrlIn, SendIn, InByte, AppPush,
                      AppPop, FullRefresh, sieVars
  <2>. QED BY <2>1, <2>2, <2>3, <2>4 DEF Next
<1>. QED BY <1>2, <1>3, <1>4

\* The histories of the host and the application, and the bounds.
LEMMA HostTypes ==
  ASSUME BulkInv, Next
  PROVE  /\ hIn' \in [Endpoints -> {0, 1}] /\ hOut' \in [Endpoints -> {0, 1}]
         /\ hostGot' \in Seq(Nat) /\ hostOpen' \in BOOLEAN
         /\ pushed' \in 0 .. MaxIn /\ appGot' \in Seq(Nat)
         /\ faults' \in [count : 0 .. MaxFaults, lossy : SUBSET Lossy]
         /\ faults.lossy \subseteq faults'.lossy
         /\ ctrls' \in 0 .. MaxCtrl
<1>1. /\ hIn \in [Endpoints -> {0, 1}] /\ hOut \in [Endpoints -> {0, 1}]
      /\ hostGot \in Seq(Nat) /\ hostOpen \in BOOLEAN
      /\ pushed \in 0 .. MaxIn /\ appGot \in Seq(Nat)
      /\ ctrls \in 0 .. MaxCtrl /\ endp \in Endpoints /\ wire \in WireType
  BY DEF BulkInv, TypeOK
<1>2. TypeOK
  BY DEF BulkInv
<1>3. /\ hIn' \in [Endpoints -> {0, 1}] /\ hOut' \in [Endpoints -> {0, 1}]
  <2>1. CASE OutEnd
    <3>1. wire.toggle \in {0, 1} /\ wire.to \in Endpoints
      BY <1>1, <2>1, WireKinds DEF OutEnd
    <3>2. \/ hIn' = hIn /\ hOut' = hOut
          \/ hIn' = hIn /\ hOut' = [hOut EXCEPT !["bulk"] = Flip(@)]
          \/ /\ hOut' = [hOut EXCEPT !["ctrl"] = Flip(wire.toggle)]
             /\ hIn' = hIn \/ hIn' = [hIn EXCEPT !["ctrl"] = 1]
      BY <2>1 DEF OutEnd, HostAcked
    <3>3. Flip(wire.toggle) \in {0, 1}
      BY <3>1 DEF Flip
    <3>. QED BY <1>1, <3>2, <3>3, FlipKept DEF Endpoints
  <2>2. CASE InEnd
    <3>1. /\ hIn' = hIn \/ hIn' = [hIn EXCEPT ![endp] = Flip(@)]
          /\ hOut' = hOut
      BY <2>2 DEF InEnd, HostTakes
    <3>. QED BY <1>1, <3>1, FlipKept
  <2>3. CASE \/ BulkOut \/ CtrlOut \/ OutStart \/ OutByte \/ OutBroken \/ BulkIn
             \/ CtrlIn \/ InByte \/ AppPush \/ AppPop \/ FullRefresh
    BY <1>1, <2>3 DEF BulkOut, CtrlOut, OutStart, OutByte, OutBroken, BulkIn, CtrlIn, SendIn,
                      InByte, AppPush, AppPop, FullRefresh, hostVars
  <2>. QED BY <2>1, <2>2, <2>3 DEF Next
<1>4. hostGot' \in Seq(Nat) /\ hostOpen' \in BOOLEAN
  <2>1. CASE InEnd
    <3>1. wire.data \in Seq(Nat)
      BY <1>1, <2>1, WireKinds DEF InEnd
    <3>2. hostGot' = hostGot \/ hostGot' = hostGot \o wire.data
      BY <2>1 DEF InEnd, HostTakes
    <3>3. hostOpen' = hostOpen \/ hostOpen' = (Len(wire.data) = InMax)
      BY <2>1 DEF InEnd, HostTakes
    <3>4. hostOpen' \in BOOLEAN
      BY <1>1, <3>3
    <3>5. hostGot' \in Seq(Nat)
      BY <1>1, <3>1, <3>2, ConcatProperties
    <3>. QED BY <3>4, <3>5
  <2>2. CASE \/ BulkOut \/ CtrlOut \/ OutStart \/ OutByte \/ OutBroken \/ OutEnd \/ BulkIn
             \/ CtrlIn \/ InByte \/ AppPush \/ AppPop \/ FullRefresh
    <3>1. UNCHANGED <<hostGot, hostOpen>>
      BY <2>2 DEF BulkOut, CtrlOut, OutStart, OutByte, OutBroken, OutEnd, BulkIn, CtrlIn,
                  SendIn, InByte, AppPush, AppPop, FullRefresh, hostVars
    <3>. QED BY <1>1, <3>1
  <2>. QED BY <2>1, <2>2 DEF Next
<1>5. pushed' \in 0 .. MaxIn /\ appGot' \in Seq(Nat)
  <2>1. CASE AppPush
    BY <1>1, <1>2, <2>1, Numbers, SMTT(20) DEF AppPush
  <2>2. CASE AppPop
    <3>1. Head(outBuf) \in Nat
      BY <1>2, <2>2, HeadTailProperties DEF AppPop, OutF!Pop, TypeOK, OutF!TypeOK
    <3>. QED BY <1>1, <2>2, <3>1, AppendProperties DEF AppPop
  <2>3. CASE \/ BulkOut \/ CtrlOut \/ OutStart \/ OutByte \/ OutBroken \/ OutEnd \/ BulkIn
             \/ CtrlIn \/ InByte \/ InEnd \/ FullRefresh
    BY <1>1, <2>3 DEF BulkOut, CtrlOut, SendOut, OutStart, OutByte, OutBroken, OutEnd, BulkIn,
                      CtrlIn, SendIn, InByte, InEnd, FullRefresh, appVars
  <2>. QED BY <2>1, <2>2, <2>3 DEF Next
<1>6. /\ faults' \in [count : 0 .. MaxFaults, lossy : SUBSET Lossy]
      /\ faults.lossy \subseteq faults'.lossy
  <2>1. NoFault \/ \E f \in AllFaults : Happens(f)
    <3>1. CASE BulkOut \/ CtrlOut
      BY <3>1 DEF BulkOut, CtrlOut, SendOut, GoodToken, BadToken, AllFaults
    <3>2. CASE BulkIn \/ CtrlIn
      BY <3>2 DEF BulkIn, CtrlIn, SendIn, GoodToken, BadToken, AllFaults
    <3>3. CASE OutStart \/ OutBroken
      BY <3>3 DEF OutStart, OutBroken, AllFaults
    <3>4. CASE OutEnd
      BY <3>4 DEF OutEnd, AllFaults
    <3>5. CASE InEnd
      BY <3>5 DEF InEnd, AllFaults
    <3>6. CASE OutByte \/ InByte \/ AppPush \/ AppPop \/ FullRefresh
      BY <3>6 DEF OutByte, InByte, AppPush, AppPop, FullRefresh, bounds, NoFault
    <3>. QED BY <3>1, <3>2, <3>3, <3>4, <3>5, <3>6 DEF Next
  <2>. QED BY <1>2, <2>1, FaultType
<1>7. ctrls' \in 0 .. MaxCtrl
  <2>1. MaxCtrl \in Nat
    BY <1>2, Numbers
  <2>2. CASE CtrlOut \/ CtrlIn
    <3>1. ctrls < MaxCtrl /\ ctrls' = ctrls + 1
      BY <2>2 DEF CtrlOut, CtrlIn
    <3>. QED BY <1>1, <2>1, <3>1
  <2>3. CASE \/ BulkOut \/ OutStart \/ OutByte \/ OutBroken \/ OutEnd \/ BulkIn
             \/ InByte \/ InEnd \/ AppPush \/ AppPop \/ FullRefresh
    BY <1>1, <2>3 DEF BulkOut, OutStart, OutByte, OutBroken, OutEnd, BulkIn,
                      InByte, InEnd, AppPush, AppPop, FullRefresh, bounds
  <2>. QED BY <2>2, <2>3 DEF Next
<1>. QED BY <1>3, <1>4, <1>5, <1>6, <1>7

\* The packet of the host that it repeats.
LEMMA PacketStep ==
  ASSUME BulkInv, Next
  PROVE  /\ outPkt' \in Seq(Nat) /\ Len(outPkt') <= OutMax
         /\ acked' \in Nat /\ acked' + Len(outPkt') <= MaxOut
         /\ \A i \in 1 .. Len(outPkt') : outPkt'[i] = acked' + i
<1>1. /\ outPkt \in Seq(Nat) /\ Len(outPkt) <= OutMax /\ Len(outPkt) \in Nat
      /\ acked \in Nat /\ acked + Len(outPkt) <= MaxOut
      /\ OutMax \in Nat /\ MaxOut \in Nat
      /\ \A i \in 1 .. Len(outPkt) : outPkt[i] = acked + i
  BY Numbers DEF BulkInv, TypeOK, HostPacket
<1>2. CASE BulkOut
  <2>1. acked' = acked /\ acked + Len(outPkt') <= MaxOut
    BY <1>2 DEF BulkOut
  <2>2. CASE outPkt' = outPkt
    BY <1>1, <2>1, <2>2
  <2>3. CASE \E n \in 1 .. OutMax : outPkt' = [i \in 1 .. n |-> acked + i]
    <3>1. PICK n \in 1 .. OutMax : outPkt' = [i \in 1 .. n |-> acked + i]
      BY <2>3
    <3>2. \A i \in 1 .. n : acked + i \in Nat
      BY <1>1
    <3>3. outPkt' \in Seq(Nat) /\ Len(outPkt') = n /\ n \in Nat
      BY <1>1, <3>1, <3>2
    <3>4. \A i \in 1 .. n : outPkt'[i] = acked + i
      BY <3>1
    <3>. QED BY <1>1, <2>1, <3>3, <3>4
  <2>. QED BY <1>2, <2>2, <2>3 DEF BulkOut
<1>3. CASE OutEnd
  <2>1. \/ acked' = acked /\ outPkt' = outPkt
        \/ acked' = acked + Len(outPkt) /\ outPkt' = << >>
    BY <1>3 DEF OutEnd, HostAcked
  <2>2. CASE acked' = acked + Len(outPkt) /\ outPkt' = << >>
    <3>1. outPkt' \in Seq(Nat) /\ Len(outPkt') = 0
      BY <2>2
    <3>. QED BY <1>1, <2>2, <3>1
  <2>. QED BY <1>1, <2>1, <2>2
<1>4. CASE \/ CtrlOut \/ OutStart \/ OutByte \/ OutBroken \/ BulkIn
           \/ CtrlIn \/ InByte \/ InEnd \/ AppPush \/ AppPop \/ FullRefresh
  <2>1. UNCHANGED <<acked, outPkt>>
    BY <1>4 DEF CtrlOut, OutStart, OutByte, OutBroken, BulkIn, CtrlIn, SendIn,
                InByte, InEnd, AppPush, AppPop, FullRefresh, hostVars
  <2>. QED BY <1>1, <2>1
<1>. QED BY <1>2, <1>3, <1>4 DEF Next

\* What the actions do to the packet on the line.
LEMMA WireStep ==
  ASSUME BulkInv, Next
  PROVE  wire' \in WireType
<1>1. /\ wire \in WireType /\ hOut["bulk"] \in {0, 1} /\ hOut["ctrl"] \in {0, 1}
      /\ inToggle["bulk"] \in {0, 1} /\ inToggle["ctrl"] \in {0, 1}
      /\ CtrlMax \in Nat /\ << >> \in Seq(Nat) /\ << 0 >> \in Seq(Nat)
  BY Numbers DEF BulkInv, TypeOK, Endpoints
<1>2. "bulk" \in Endpoints /\ "ctrl" \in Endpoints /\ TRUE \in BOOLEAN /\ FALSE \in BOOLEAN
  BY DEF Endpoints
<1>3. CASE BulkOut
  <2>1. outPkt' \in Seq(Nat)
    BY PacketStep
  <2>2. wire' = OutPacket("bulk", FALSE, hOut["bulk"], outPkt')
    BY <1>3 DEF BulkOut, SendOut
  <2>. QED BY <1>1, <1>2, <2>1, <2>2, WirePackets
<1>4. CASE CtrlOut
  <2>1. \/ wire' = OutPacket("ctrl", TRUE, 0, << 0 >>)
        \/ \E bytes \in {<< >>, << 0 >>} :
             wire' = OutPacket("ctrl", FALSE, hOut["ctrl"], bytes)
    BY <1>4 DEF CtrlOut, SendOut
  <2>. QED BY <1>1, <1>2, <2>1, WirePackets
<1>5. CASE OutStart
  <2>1. /\ wire.kind = "out"
        /\ wire' = NoPacket \/ wire' = [wire EXCEPT !.kind = "receiving"]
    BY <1>5 DEF OutStart
  <2>. QED BY <1>1, <2>1, WirePackets, WireGoesOn
<1>6. CASE OutByte
  <2>1. /\ wire.kind = "receiving" /\ wire.left # << >>
        /\ wire' = [wire EXCEPT !.left = Tail(wire.left)]
    BY <1>6 DEF OutByte
  <2>2. Tail(wire.left) \in Seq(Nat)
    BY <1>1, <2>1, WireKinds, HeadTailProperties
  <2>. QED BY <1>1, <2>1, <2>2, WireGoesOn
<1>7. CASE OutBroken \/ OutEnd \/ InEnd
  BY <1>7, WirePackets DEF OutBroken, OutEnd, InEnd
<1>8. CASE BulkIn
  <2>1. wire' = NoPacket \/ wire' = InPacket(inToggle["bulk"], << >>)
    BY <1>8 DEF BulkIn, SendIn, StartBulkIn
  <2>. QED BY <1>1, <2>1, WirePackets
<1>9. CASE CtrlIn
  <2>1. \/ wire' = NoPacket
        \/ /\ inByte' \in 0 .. CtrlMax
           /\ wire' = InPacket(inToggle["ctrl"], [i \in 1 .. inByte' |-> 0])
    BY <1>9 DEF CtrlIn, SendIn, StartCtrlIn
  <2>2. ASSUME inByte' \in 0 .. CtrlMax PROVE [i \in 1 .. inByte' |-> 0] \in Seq(Nat)
    BY <1>1, <2>2
  <2>. QED BY <1>1, <2>1, <2>2, WirePackets
<1>10. CASE InByte
  <2>1. /\ wire.kind = "in" /\ InMore
        /\ wire' = [wire EXCEPT !.data = Append(wire.data, inBuf[inSent + 1])]
    BY <1>10 DEF InByte
  <2>2. inBuf[inSent + 1] \in Nat
    <3>1. inSent + 1 \in 1 .. Len(inBuf) /\ inBuf \in Seq(Nat)
      <4>1. inSent < Len(inBuf)
        BY <2>1 DEF InMore, BulkInv, FifosRest
      <4>2. inBuf \in Seq(Nat) /\ Len(inBuf) \in Nat /\ inSent \in Nat
        BY Numbers DEF BulkInv, TypeOK, InF!TypeOK
      <4>. QED BY <4>1, <4>2
    <3>. QED BY <3>1, ElementOfSeq
  <2>3. Append(wire.data, inBuf[inSent + 1]) \in Seq(Nat)
    BY <1>1, <2>1, <2>2, WireKinds, AppendProperties
  <2>. QED BY <1>1, <2>1, <2>3, WireGoesOn
<1>11. CASE AppPush \/ AppPop \/ FullRefresh
  BY <1>1, <1>11 DEF AppPush, AppPop, FullRefresh
<1>. QED BY <1>3, <1>4, <1>5, <1>6, <1>7, <1>8, <1>9, <1>10, <1>11 DEF Next

-----------------------------------------------------------------------------
(***************************************************************************)
(* The FIFOs in every step.                                                *)
(***************************************************************************)

\* A packet on the line is the oldest bytes of the IN FIFO; when it ends, there
\* was no more to send, or it is full.
LEMMA PacketComplete ==
  ASSUME BulkInv, Sending
  PROVE  /\ inState = "DATA" /\ Len(wire.data) = inSent
         /\ \A i \in 1 .. inSent : wire.data[i] = inBuf[i]
         /\ ~InMore => ~inValid
<1>1. /\ inState = "DATA" /\ wire.data = SubSeq(inBuf, 1, inSent)
      /\ endp = "bulk"
  BY DEF BulkInv, InKept, Sending
<1>2. inBuf \in Seq(Nat) /\ Len(inBuf) \in Nat /\ inSent \in 0 .. Len(inBuf)
      /\ Len(inBuf) <= InMax /\ InMax \in Nat
  BY Numbers DEF BulkInv, TypeOK, InF!TypeOK
<1>3. \A i \in 1 .. inSent : inBuf[i] \in Nat
  BY <1>2, ElementOfSeq
<1>4. /\ Len(wire.data) = inSent
      /\ \A i \in 1 .. inSent : wire.data[i] = inBuf[i]
  <2>1. /\ Len(wire.data) = IF 1 <= inSent THEN inSent - 1 + 1 ELSE 0
        /\ \A i \in 1 .. inSent - 1 + 1 : wire.data[i] = inBuf[1 + i - 1]
    BY <1>1, <1>2, <1>3, SubSeqProperties
  <2>. QED BY <1>2, <2>1
<1>5. ASSUME ~InMore PROVE ~inValid
  <2>1. inValid => inSent < Len(inBuf)
    BY DEF BulkInv, FifosRest
  <2>2. inValid => ~(Len(wire.data) < InMax)
    BY <1>1, <1>5 DEF InMore
  <2>3. inSent < Len(inBuf) => Len(wire.data) < InMax
    BY <1>2, <1>4
  <2>. QED BY <2>1, <2>2, <2>3
<1>. QED BY <1>1, <1>4, <1>5

\* The parts of the invariant that speak of the FIFOs alone.
LEMMA FifosKept ==
  ASSUME BulkInv
  PROVE  /\ InFifoKept /\ OutFifoKept
         /\ wire \in WireType /\ endp \in Endpoints
         /\ wire.kind # "receiving" \/ endp = "ctrl" => outState = "IDLE"
BY DEF BulkInv, TypeOK, FifosRest, InFifoKept, OutFifoKept, Receiving, Endpoints

\* The IN FIFO; what an ACK finds is a packet that is complete.
LEMMA InFifoStep ==
  ASSUME BulkInv, Next
  PROVE  InFifoKept'
<1>1. InFifoKept
  BY FifosKept
<1>2. CASE AppPush
  <2>1. InF!Push(pushed + 1) /\ pushed + 1 \in Nat
    BY <1>2, Numbers, SMTT(20) DEF AppPush, BulkInv
  <2>. QED BY <1>1, <2>1, InFifoPush
<1>3. CASE BulkIn \/ CtrlIn
  <2>1. InF!Request \/ UNCHANGED inVars
    BY <1>3 DEF BulkIn, CtrlIn, SendIn, StartBulkIn, StartCtrlIn
  <2>. QED BY <1>1, <2>1, InFifoRequest, InFifoIdle
<1>4. CASE InByte
  <2>1. InF!Fetch /\ inValid
    BY <1>4 DEF InByte, InMore
  <2>. QED BY <1>1, <2>1, InFifoFetch
<1>5. CASE InEnd
  <2>1. CASE UNCHANGED inVars
    BY <1>1, <2>1, InFifoIdle
  <2>2. CASE Sending /\ InF!Acknowledge
    <3>1. ~InMore
      BY <1>5 DEF InEnd
    <3>2. inState = "DATA" /\ ~inValid
      BY <2>2, <3>1, PacketComplete
    <3>. QED BY <1>1, <2>2, <3>2, InFifoAcknowledge
  <2>. QED BY <1>5, <2>1, <2>2 DEF InEnd, DeviceAcked, Sending
<1>6. CASE OutByte \/ OutBroken \/ OutEnd
  <2>1. InF!Abandon \/ UNCHANGED inVars
    BY <1>6 DEF OutByte, OutBroken, OutEnd, EndOfOut
  <2>. QED BY <1>1, <2>1, InFifoIdle
<1>7. CASE BulkOut \/ CtrlOut \/ OutStart \/ AppPop \/ FullRefresh
  <2>1. UNCHANGED inVars
    BY <1>7 DEF BulkOut, CtrlOut, SendOut, OutStart, AppPop, FullRefresh
  <2>. QED BY <1>1, <2>1, InFifoIdle
<1>. QED BY <1>2, <1>3, <1>4, <1>5, <1>6, <1>7 DEF Next

\* The OUT FIFO, which is at rest between packets.
LEMMA OutFifoStep ==
  ASSUME BulkInv, Next
  PROVE  /\ OutFifoKept'
         /\ wire'.kind # "receiving" \/ endp' = "ctrl" => outState' = "IDLE"
<1>1. /\ OutFifoKept /\ wire \in WireType /\ endp \in Endpoints
      /\ wire.kind # "receiving" \/ endp = "ctrl" => outState = "IDLE"
  BY FifosKept
<1>2. CASE OutByte
  <2>1. /\ wire.kind = "receiving" /\ wire.left # << >> /\ endp' = endp
        /\ IF endp = "bulk" THEN OutF!Store(Head(wire.left)) ELSE UNCHANGED outVars
    BY <1>2 DEF OutByte, sieVars
  <2>2. Head(wire.left) \in Nat
    BY <1>1, <2>1, WireKinds, HeadTailProperties
  <2>3. wire'.kind = "receiving"
    <3>1. wire' = [wire EXCEPT !.left = Tail(wire.left)]
      BY <1>2 DEF OutByte
    <3>2. Tail(wire.left) \in Seq(Nat)
      BY <1>1, <2>1, WireKinds, HeadTailProperties
    <3>. QED BY <1>1, <2>1, <3>1, <3>2, WireGoesOn
  <2>4. CASE endp = "bulk"
    BY <1>1, <2>1, <2>2, <2>3, <2>4, OutFifoStore
  <2>5. CASE endp # "bulk"
    BY <1>1, <2>1, <2>5, OutFifoIdle DEF Endpoints
  <2>. QED BY <2>4, <2>5
<1>3. CASE OutBroken \/ OutEnd
  <2>1. /\ wire' = NoPacket /\ endp' = endp
        /\ \/ EndOfOut(TRUE) \/ EndOfOut(FALSE)
           \/ outState = "IDLE" /\ UNCHANGED outVars
    BY <1>3 DEF OutBroken, OutEnd, EndOfOut, sieVars
  <2>2. CASE EndOfOut(TRUE) \/ EndOfOut(FALSE)
    <3>1. CASE endp = "bulk"
      <4>1. OutF!End \/ OutF!Abort
        BY <2>2, <3>1 DEF EndOfOut
      <4>. QED BY <1>1, <4>1, OutFifoEnd, OutFifoAbort
    <3>2. CASE endp # "bulk"
      <4>1. UNCHANGED outVars
        BY <2>2, <3>2 DEF EndOfOut
      <4>. QED BY <1>1, <3>2, <4>1, OutFifoIdle DEF Endpoints
    <3>. QED BY <3>1, <3>2
  <2>3. CASE outState = "IDLE" /\ UNCHANGED outVars
    BY <1>1, <2>3, OutFifoIdle
  <2>. QED BY <2>1, <2>2, <2>3
<1>4. CASE InEnd
  <2>1. /\ wire.kind = "in" /\ wire' = NoPacket
        /\ OutF!End \/ UNCHANGED outVars
    BY <1>4 DEF InEnd, DeviceAcked
  <2>. QED BY <1>1, <2>1, OutFifoEnd, OutFifoIdle
<1>5. CASE OutStart
  <2>1. wire.kind = "out" /\ UNCHANGED outVars
    BY <1>5 DEF OutStart
  <2>. QED BY <1>1, <2>1, OutFifoIdle
<1>6. CASE BulkOut \/ CtrlOut \/ BulkIn \/ CtrlIn
  <2>1. wire = NoPacket /\ UNCHANGED outVars
    BY <1>6 DEF BulkOut, CtrlOut, SendOut, BulkIn, CtrlIn, SendIn
  <2>. QED BY <1>1, <2>1, OutFifoIdle DEF NoPacket
<1>7. CASE InByte \/ AppPush
  <2>1. UNCHANGED outVars /\ endp' = endp
    BY <1>7 DEF InByte, AppPush, sieVars
  <2>2. wire'.kind = wire.kind
    <3>1. CASE AppPush
      BY <3>1 DEF AppPush
    <3>2. CASE InByte
      <4>1. wire.kind = "in" /\ wire' = [wire EXCEPT !.data = Append(@, inBuf[inSent + 1])]
        BY <3>2 DEF InByte
      <4>. QED BY <1>1, <4>1 DEF WireType, NoPacket
    <3>. QED BY <1>7, <3>1, <3>2
  <2>. QED BY <1>1, <2>1, <2>2, OutFifoIdle
<1>8. CASE AppPop
  <2>1. OutF!Pop /\ UNCHANGED wire /\ endp' = endp
    BY <1>8 DEF AppPop, sieVars
  <2>. QED BY <1>1, <2>1, OutFifoPop
<1>9. CASE FullRefresh
  <2>1. OutF!Refresh /\ UNCHANGED wire /\ endp' = endp
    BY <1>9 DEF FullRefresh, sieVars
  <2>. QED BY <1>1, <2>1, OutFifoRefresh
<1>. QED BY <1>2, <1>3, <1>4, <1>5, <1>6, <1>7, <1>8, <1>9 DEF Next

\* in_byte_q counts the bytes of the packet on the line.
LEMMA InByteStep ==
  ASSUME BulkInv, Next
  PROVE  /\ inByte' \in 0 .. InMax
         /\ wire'.kind = "in" => inByte' = Len(wire'.data)
<1>1. /\ inByte \in 0 .. InMax /\ InMax \in Nat /\ CtrlMax \in Nat /\ CtrlMax < InMax
      /\ wire \in WireType
      /\ wire.kind = "in" => inByte = Len(wire.data)
  BY Numbers DEF BulkInv, TypeOK, FifosRest
<1>2. CASE BulkOut \/ CtrlOut
  <2>1. inByte' = inByte
    BY <1>2 DEF BulkOut, CtrlOut, SendOut
  <2>2. \E to, setup, toggle, left : wire' = OutPacket(to, setup, toggle, left)
    BY <1>2 DEF BulkOut, CtrlOut, SendOut
  <2>3. wire'.kind = "out"
    BY <2>2, PacketFields
  <2>. QED BY <1>1, <2>1, <2>3
<1>3. CASE OutStart
  <2>1. inByte' = inByte /\ wire.kind = "out"
        /\ (wire' = NoPacket \/ wire' = [wire EXCEPT !.kind = "receiving"])
    BY <1>3 DEF OutStart
  <2>2. wire'.kind # "in"
    <3>1. CASE wire' = NoPacket
      BY <3>1, PacketFields
    <3>2. CASE wire' = [wire EXCEPT !.kind = "receiving"]
      BY <1>1, <2>1, <3>2, WireGoesOn
    <3>. QED BY <2>1, <3>1, <3>2
  <2>. QED BY <1>1, <2>1, <2>2
<1>4. CASE OutByte
  <2>1. inByte' = inByte /\ wire.kind = "receiving" /\ wire.left # << >>
        /\ wire' = [wire EXCEPT !.left = Tail(wire.left)]
    BY <1>4 DEF OutByte, sieVars
  <2>2. Tail(wire.left) \in Seq(Nat)
    BY <1>1, <2>1, WireKinds, HeadTailProperties
  <2>3. wire'.kind = "receiving"
    BY <1>1, <2>1, <2>2, WireGoesOn
  <2>. QED BY <1>1, <2>1, <2>3
<1>5. CASE OutBroken \/ OutEnd \/ InEnd
  <2>1. inByte' = inByte /\ wire' = NoPacket
    BY <1>5 DEF OutBroken, OutEnd, InEnd, sieVars
  <2>. QED BY <1>1, <2>1 DEF NoPacket
<1>6. CASE BulkIn
  <2>1. \/ inByte' = 0 /\ (wire' = NoPacket \/ wire' = InPacket(inToggle["bulk"], << >>))
        \/ inByte' = inByte /\ wire' = NoPacket
    BY <1>6 DEF BulkIn, SendIn, StartBulkIn
  <2>2. Len(<< >>) = 0
    OBVIOUS
  <2>. QED BY <1>1, <2>1, <2>2 DEF NoPacket, InPacket
<1>7. CASE CtrlIn
  <2>1. \/ inByte' = 0 /\ wire' = NoPacket
        \/ /\ inByte' \in 0 .. CtrlMax
           /\ wire' = InPacket(inToggle["ctrl"], [i \in 1 .. inByte' |-> 0])
        \/ inByte' = inByte /\ wire' = NoPacket
    BY <1>7 DEF CtrlIn, SendIn, StartCtrlIn
  <2>2. ASSUME NEW n \in 0 .. CtrlMax PROVE Len([i \in 1 .. n |-> 0]) = n
    BY <1>1
  <2>3. CASE /\ inByte' \in 0 .. CtrlMax
             /\ wire' = InPacket(inToggle["ctrl"], [i \in 1 .. inByte' |-> 0])
    BY <1>1, <2>2, <2>3 DEF InPacket
  <2>. QED BY <1>1, <2>1, <2>3 DEF NoPacket
<1>8. CASE InByte
  <2>1. /\ wire.kind = "in" /\ InMore /\ inByte' = inByte + 1
        /\ wire' = [wire EXCEPT !.data = Append(wire.data, inBuf[inSent + 1])]
    BY <1>8 DEF InByte
  <2>2. inBuf[inSent + 1] \in Nat
    <3>1. inSent < Len(inBuf)
      BY <2>1 DEF InMore, BulkInv, FifosRest
    <3>2. inBuf \in Seq(Nat) /\ Len(inBuf) \in Nat /\ inSent \in Nat
      BY Numbers DEF BulkInv, TypeOK, InF!TypeOK
    <3>3. inSent + 1 \in 1 .. Len(inBuf)
      BY <3>1, <3>2
    <3>. QED BY <3>2, <3>3, ElementOfSeq
  <2>3. /\ Append(wire.data, inBuf[inSent + 1]) \in Seq(Nat)
        /\ Len(Append(wire.data, inBuf[inSent + 1])) = Len(wire.data) + 1
    BY <1>1, <2>1, <2>2, WireKinds, AppendProperties
  <2>4. wire'.data = Append(wire.data, inBuf[inSent + 1])
    BY <1>1, <2>1, <2>3, WireGoesOn
  <2>5. Len(wire.data) < InMax
    BY <2>1 DEF InMore
  <2>. QED BY <1>1, <2>1, <2>3, <2>4, <2>5
<1>9. CASE AppPush \/ AppPop \/ FullRefresh
  BY <1>1, <1>9 DEF AppPush, AppPop, FullRefresh, sieVars
<1>. QED BY <1>2, <1>3, <1>4, <1>5, <1>6, <1>7, <1>8, <1>9 DEF Next

\* All registers and histories keep their types.
LEMMA NextTypeOK ==
  ASSUME BulkInv, Next
  PROVE  TypeOK' /\ FifosRest'
<1>1. /\ InFifoKept' /\ OutFifoKept'
      /\ wire'.kind # "receiving" \/ endp' = "ctrl" => outState' = "IDLE"
  BY InFifoStep, OutFifoStep
<1>2. acked' \in 0 .. MaxOut
  <2>1. acked' \in Nat /\ Len(outPkt') \in Nat /\ acked' + Len(outPkt') <= MaxOut
        /\ MaxOut \in Nat
    BY PacketStep, LenProperties, ConstantsAssumption
  <2>. QED BY <2>1
<1>3. TypeOK'
  BY <1>1, <1>2, SieTypes, HostTypes, WireStep, PacketStep, InByteStep
     DEF TypeOK, InFifoKept, OutFifoKept, BulkInv
<1>4. FifosRest'
  BY <1>1, <1>3, InByteStep
     DEF FifosRest, InFifoKept, OutFifoKept, Receiving, TypeOK, Endpoints
<1>. QED BY <1>3, <1>4

-----------------------------------------------------------------------------
(***************************************************************************)
(* The packet of the host.                                                 *)
(***************************************************************************)
\* The packet on the line stays the one the host would repeat, with its toggle.
LEMMA NextHostPacket ==
  ASSUME BulkInv, Next
  PROVE  HostPacket'
<1>1. /\ wire \in WireType /\ TypeOK
      /\ wire.kind \in {"out", "receiving"} /\ wire.to = "bulk" =>
           outPkt # << >> /\ wire.toggle = hOut["bulk"]
      /\ wire.kind = "out" /\ wire.to = "bulk" => wire.left = outPkt
  BY DEF BulkInv, TypeOK, HostPacket
<1>. SUFFICES /\ wire'.kind \in {"out", "receiving"} /\ wire'.to = "bulk" =>
                   outPkt' # << >> /\ wire'.toggle = hOut'["bulk"]
              /\ wire'.kind = "out" /\ wire'.to = "bulk" => wire'.left = outPkt'
  BY PacketStep DEF HostPacket
<1>2. CASE BulkOut
  <2>1. /\ hOut' = hOut /\ wire' = OutPacket("bulk", FALSE, hOut["bulk"], outPkt')
    BY <1>2 DEF BulkOut, SendOut
  <2>2. outPkt' # << >>
    <3>1. CASE outPkt # << >>
      BY <1>2, <3>1 DEF BulkOut
    <3>2. CASE outPkt = << >>
      <4>1. PICK n \in 1 .. OutMax : outPkt' = [i \in 1 .. n |-> acked + i]
        BY <1>2, <3>2 DEF BulkOut
      <4>2. OutMax \in Nat
        BY ConstantsAssumption
      <4>3. 1 \in DOMAIN outPkt'
        BY <4>1, <4>2
      <4>. QED BY <4>3
    <3>. QED BY <3>1, <3>2
  <2>. QED BY <2>1, <2>2 DEF OutPacket
<1>3. CASE CtrlOut
  <2>1. wire'.to = "ctrl"
    <3>1. \E setup, toggle, left : wire' = OutPacket("ctrl", setup, toggle, left)
      BY <1>3 DEF CtrlOut, SendOut
    <3>2. PICK setup, toggle, left : wire' = OutPacket("ctrl", setup, toggle, left)
      BY <3>1
    <3>3. OutPacket("ctrl", setup, toggle, left).to = "ctrl"
      BY PacketFields
    <3>. QED BY <3>2, <3>3
  <2>. QED BY <2>1
<1>4. CASE OutStart
  <2>1. /\ wire.kind = "out" /\ (wire' = NoPacket \/ wire' = [wire EXCEPT !.kind = "receiving"])
        /\ UNCHANGED <<hOut, outPkt>>
    BY <1>4 DEF OutStart, hostVars
  <2>2. CASE wire' = NoPacket
    BY <2>2, PacketFields
  <2>3. CASE wire' = [wire EXCEPT !.kind = "receiving"]
    BY <1>1, <2>1, <2>3, WireGoesOn
  <2>. QED BY <2>1, <2>2, <2>3
<1>5. CASE OutByte
  <2>1. /\ wire.kind = "receiving" /\ wire.left # << >> /\ UNCHANGED <<hOut, outPkt>>
        /\ wire' = [wire EXCEPT !.left = Tail(wire.left)]
    BY <1>5 DEF OutByte, hostVars
  <2>2. Tail(wire.left) \in Seq(Nat)
    BY <1>1, <2>1, WireKinds, HeadTailProperties
  <2>. QED BY <1>1, <2>1, <2>2, WireGoesOn
<1>6. CASE OutBroken \/ OutEnd \/ InEnd
  <2>1. wire' = NoPacket
    BY <1>6 DEF OutBroken, OutEnd, InEnd
  <2>. QED BY <2>1 DEF NoPacket
<1>7. CASE BulkIn \/ CtrlIn
  <2>1. wire'.kind \in {"none", "in"}
    <3>1. wire = NoPacket /\ (wire' = NoPacket \/ \E t, d : wire' = InPacket(t, d))
      BY <1>7 DEF BulkIn, CtrlIn, SendIn, StartBulkIn, StartCtrlIn
    <3>. QED BY <3>1, PacketFields
  <2>. QED BY <2>1
<1>8. CASE InByte
  <2>1. wire.kind = "in" /\ wire' = [wire EXCEPT !.data = Append(@, inBuf[inSent + 1])]
    BY <1>8 DEF InByte
  <2>2. wire'.kind = "in"
    BY <1>1, <2>1 DEF WireType, NoPacket
  <2>. QED BY <2>2
<1>9. CASE AppPush \/ AppPop \/ FullRefresh
  BY <1>1, <1>9 DEF AppPush, AppPop, FullRefresh, hostVars
<1>. QED BY <1>2, <1>3, <1>4, <1>5, <1>6, <1>7, <1>8, <1>9 DEF Next

-----------------------------------------------------------------------------
(***************************************************************************)
(* The IN direction.                                                       *)
(***************************************************************************)

\* The invariant of the IN direction, taken apart.
LEMMA InFacts ==
  ASSUME BulkInv
  PROVE  /\ inBuf \in Seq(Nat) /\ Len(inBuf) \in Nat /\ inSent \in Nat
         /\ inSent <= Len(inBuf) /\ pushed \in Nat /\ Len(inBuf) <= pushed
         /\ hostGot \in Seq(Nat) /\ Len(hostGot) \in Nat
         /\ endp \in Endpoints /\ wire \in WireType
         /\ inToggle["bulk"] \in {0, 1} /\ hIn["bulk"] \in {0, 1}
         /\ \A i \in 1 .. Len(inBuf) : inBuf[i] = pushed - Len(inBuf) + i
BY Numbers DEF BulkInv, TypeOK, InF!TypeOK, InKept, Endpoints

\* The steps that concern neither the IN FIFO's bytes nor a packet for the host.
InQuiet ==
  /\ (~Sending /\ ~Sending') \/ UNCHANGED <<wire, endp, inSent, inValid, inState>>
  /\ UNCHANGED <<inBuf, pushed, hostGot>>
  /\ inToggle'["bulk"] = inToggle["bulk"] /\ hIn'["bulk"] = hIn["bulk"]

\* They keep the invariant of the IN direction.
LEMMA QuietIn ==
  ASSUME BulkInv, Next, InQuiet
  PROVE  InKept' /\ InInv'
<1>1. InKept'
  BY InFacts DEF InKept, InQuiet, BulkInv, Sending
<1>2. Delivered' = Delivered
  BY DEF Delivered, InQuiet, Sending
<1>3. InOrder' /\ \A j \in 1 .. Len(hostGot') : hostGot'[j] <= Delivered'
  BY <1>2 DEF InQuiet, InOrder, InInv, BulkInv
<1>4. "in handshake" \notin faults'.lossy =>
        inToggle'["bulk"] = hIn'["bulk"] /\ InConserved'
  BY HostTypes DEF InQuiet, InConserved, InInv, BulkInv
<1>. QED BY <1>1, <1>3, <1>4 DEF InInv


\* The steps of the rest of the system are quiet in this sense.
LEMMA QuietSteps ==
  ASSUME BulkInv,
         \/ BulkOut \/ CtrlOut \/ OutStart \/ OutByte \/ OutBroken \/ OutEnd
         \/ AppPop \/ FullRefresh \/ CtrlIn \/ (BulkIn /\ wire' = NoPacket)
         \/ (InEnd /\ endp = "ctrl")
  PROVE  InQuiet
<1>1. /\ inToggle \in [Endpoints -> {0, 1}] /\ hIn \in [Endpoints -> {0, 1}]
      /\ wire \in WireType /\ endp \in Endpoints
      /\ "ctrl" \in Endpoints /\ "bulk" \in Endpoints /\ "bulk" # "ctrl"
  BY DEF BulkInv, TypeOK, Endpoints
<1>2. CASE BulkOut \/ CtrlOut
  <2>1. /\ wire = NoPacket /\ UNCHANGED <<inVars, pushed, hostGot, hIn>>
        /\ \E to, setup, toggle, left : wire' = OutPacket(to, setup, toggle, left)
    BY <1>2 DEF BulkOut, CtrlOut, SendOut, hostVars, appVars
  <2>2. inToggle'["bulk"] = inToggle["bulk"]
    BY <1>1, <1>2 DEF BulkOut, CtrlOut, SendOut, SetupToggles
  <2>3. wire.kind = "none" /\ wire'.kind = "out"
    BY <2>1, PacketFields
  <2>. QED BY <2>1, <2>2, <2>3 DEF InQuiet, Sending, inVars
<1>3. CASE OutStart
  <2>1. /\ wire.kind = "out" /\ UNCHANGED <<inVars, pushed, hostGot, hIn, inToggle>>
        /\ wire' = NoPacket \/ wire' = [wire EXCEPT !.kind = "receiving"]
    BY <1>3 DEF OutStart, hostVars, appVars
  <2>2. wire'.kind \in {"none", "receiving"}
    <3>1. CASE wire' = NoPacket
      BY <3>1, PacketFields
    <3>2. CASE wire' = [wire EXCEPT !.kind = "receiving"]
      BY <1>1, <2>1, <3>2, WireGoesOn
    <3>. QED BY <2>1, <3>1, <3>2
  <2>. QED BY <2>1, <2>2 DEF InQuiet, Sending, inVars
<1>4. CASE OutByte
  <2>1. /\ wire.kind = "receiving" /\ wire.left # << >>
        /\ UNCHANGED <<inBuf, pushed, hostGot, hIn, inToggle>>
        /\ wire' = [wire EXCEPT !.left = Tail(wire.left)]
    BY <1>4 DEF OutByte, hostVars, appVars, sieVars, InF!Abandon
  <2>2. Tail(wire.left) \in Seq(Nat)
    BY <1>1, <2>1, WireKinds, HeadTailProperties
  <2>3. wire'.kind = "receiving"
    BY <1>1, <2>1, <2>2, WireGoesOn
  <2>. QED BY <2>1, <2>3 DEF InQuiet, Sending
<1>5. CASE OutBroken
  <2>1. /\ wire.kind = "receiving" /\ wire' = NoPacket
        /\ UNCHANGED <<inBuf, pushed, hostGot, hIn, inToggle>>
    BY <1>5 DEF OutBroken, EndOfOut, hostVars, appVars, sieVars, InF!Abandon, inVars
  <2>. QED BY <2>1, PacketFields DEF InQuiet, Sending
<1>6. CASE OutEnd
  <2>1. /\ wire.kind = "receiving" /\ wire' = NoPacket
        /\ UNCHANGED <<inBuf, pushed, hostGot, inToggle>>
    BY <1>6 DEF OutEnd, EndOfOut, appVars, InF!Abandon, inVars
  <2>2. hIn' = hIn \/ hIn' = [hIn EXCEPT !["ctrl"] = 1]
    BY <1>6 DEF OutEnd, HostAcked
  <2>3. hIn'["bulk"] = hIn["bulk"]
    BY <1>1, <2>2
  <2>. QED BY <2>1, <2>3, PacketFields DEF InQuiet, Sending
<1>7. CASE AppPop \/ FullRefresh
  <2>1. UNCHANGED <<inBuf, pushed, hostGot, hIn, inToggle, wire, endp>>
    BY <1>7 DEF AppPop, FullRefresh, inVars, hostVars, sieVars, appVars
  <2>2. UNCHANGED <<inSent, inValid, inState>>
    BY <1>7 DEF AppPop, FullRefresh, inVars
  <2>. QED BY <2>1, <2>2 DEF InQuiet
<1>8. CASE CtrlIn
  <2>1. /\ wire = NoPacket /\ UNCHANGED <<inVars, pushed, hostGot, hIn, inToggle>>
        /\ wire' = NoPacket \/ endp' = "ctrl"
    BY <1>8 DEF CtrlIn, SendIn, StartCtrlIn, GoodToken, hostVars, appVars
  <2>. QED BY <1>1, <2>1, PacketFields DEF InQuiet, Sending, inVars
<1>9. CASE BulkIn /\ wire' = NoPacket
  <2>1. wire = NoPacket /\ UNCHANGED <<inBuf, pushed, hostGot, hIn, inToggle>>
    BY <1>9 DEF BulkIn, SendIn, StartBulkIn, InF!Request, hostVars, appVars, inVars
  <2>. QED BY <1>9, <2>1, PacketFields DEF InQuiet, Sending
<1>10. CASE InEnd /\ endp = "ctrl"
  <2>1. wire' = NoPacket /\ UNCHANGED <<inVars, pushed, hostGot>>
    BY <1>1, <1>10 DEF InEnd, HostTakes, DeviceAcked, appVars
  <2>2. /\ hIn' = hIn \/ hIn' = [hIn EXCEPT !["ctrl"] = Flip(@)]
        /\ inToggle' = inToggle \/ inToggle' = [inToggle EXCEPT !["ctrl"] = Flip(@)]
    BY <1>10 DEF InEnd, HostTakes, DeviceAcked
  <2>3. hIn'["bulk"] = hIn["bulk"] /\ inToggle'["bulk"] = inToggle["bulk"]
    BY <1>1, <2>2
  <2>. QED BY <1>1, <1>10, <2>1, <2>3, PacketFields DEF InQuiet, Sending, inVars
<1>. QED BY <1>2, <1>3, <1>4, <1>5, <1>6, <1>7, <1>8, <1>9, <1>10

\* The application adds the next byte of its stream.
LEMMA PushIn ==
  ASSUME BulkInv, AppPush
  PROVE  InKept' /\ InInv'
<1>1. /\ inBuf \in Seq(Nat) /\ Len(inBuf) \in Nat /\ inSent \in Nat
      /\ inSent <= Len(inBuf) /\ pushed \in Nat /\ Len(inBuf) <= pushed
      /\ hostGot \in Seq(Nat) /\ Len(hostGot) \in Nat
      /\ \A i \in 1 .. Len(inBuf) : inBuf[i] = pushed - Len(inBuf) + i
  BY InFacts
<1>2. /\ inBuf' = Append(inBuf, pushed + 1) /\ pushed' = pushed + 1
      /\ UNCHANGED <<inSent, inValid, inState, wire, endp, hostGot, inToggle, hIn, faults>>
  BY DEF AppPush, InF!Push, sieVars, hostVars, bounds
<1>3. /\ inBuf' \in Seq(Nat) /\ Len(inBuf') = Len(inBuf) + 1
      /\ \A i \in 1 .. Len(inBuf) : inBuf'[i] = inBuf[i]
      /\ inBuf'[Len(inBuf) + 1] = pushed + 1
  BY <1>1, <1>2, AppendProperties
<1>4. ASSUME NEW i \in 1 .. Len(inBuf') PROVE inBuf'[i] = pushed' - Len(inBuf') + i
  <2>1. CASE i \in 1 .. Len(inBuf)
    BY <1>1, <1>2, <1>3, <2>1
  <2>2. CASE i = Len(inBuf) + 1
    BY <1>1, <1>2, <1>3, <2>2
  <2>. QED BY <1>1, <1>3, <2>1, <2>2
<1>5. SubSeq(inBuf', 1, inSent) = SubSeq(inBuf, 1, inSent)
  <2>1. \A i \in 1 .. inSent : inBuf[i] = inBuf'[i]
    BY <1>1, <1>3
  <2>. QED BY <1>1, <2>1 DEF SubSeq
<1>6. InKept'
  BY <1>1, <1>2, <1>3, <1>4, <1>5, SMTT(20) DEF InKept, Sending, BulkInv
<1>7. Delivered <= Delivered' /\ Delivered' \in Int /\ Delivered \in Int
  BY <1>1, <1>2, <1>3 DEF Delivered, Sending
<1>8. \A j \in 1 .. Len(hostGot) : hostGot[j] \in Nat /\ hostGot[j] <= Delivered
  BY <1>1, ElementOfSeq DEF BulkInv, InInv
<1>9. pushed + 1 \in Nat
  BY <1>1
<1>10. hostGot \o inBuf = Stream(pushed) => hostGot' \o inBuf' = Stream(pushed')
  <2>1. Append(hostGot \o inBuf, pushed + 1) = hostGot \o inBuf'
    <3>1. hostGot \in Seq(Nat) /\ inBuf \in Seq(Nat) /\ pushed + 1 \in Nat
      BY <1>1
    <3>2. \A s, t \in Seq(Nat), e \in Nat : Append(s \o t, e) = s \o Append(t, e)
      BY AppendNumber
    <3>3. Append(hostGot \o inBuf, pushed + 1) = hostGot \o Append(inBuf, pushed + 1)
      BY <3>1, <3>2
    <3>. QED BY <1>2, <3>3
  <2>2. Append(Stream(pushed), pushed + 1) = Stream(pushed + 1)
    <3>1. << pushed + 1 >> \in Seq(Nat) /\ Len(<< pushed + 1 >>) = 1
          /\ \A i \in 1 .. 1 : << pushed + 1 >>[i] = pushed + i
      BY <1>1
    <3>2. Stream(pushed) \o << pushed + 1 >> = Stream(pushed + 1)
      BY <1>1, <3>1, StreamGoesOn
    <3>3. Append(Stream(pushed), pushed + 1) = Stream(pushed) \o << pushed + 1 >>
      BY <1>1, <1>9, StreamIsSeq, AppendIsConcat
    <3>. QED BY <3>2, <3>3
  <2>. QED BY <1>2, <2>1, <2>2
<1>11. InOrder' /\ \A j \in 1 .. Len(hostGot') : hostGot'[j] <= Delivered'
  <2>1. \A j \in 1 .. Len(hostGot) : hostGot[j] <= Delivered'
    BY <1>7, <1>8
  <2>. QED BY <1>2, <2>1 DEF InOrder, BulkInv, InInv
<1>12. "in handshake" \notin faults'.lossy =>
         inToggle'["bulk"] = hIn'["bulk"] /\ InConserved'
  BY <1>2, <1>10 DEF BulkInv, InInv, InConserved
<1>. QED BY <1>6, <1>11, <1>12 DEF InInv

\* A packet begins, without a byte yet.
LEMMA RequestIn ==
  ASSUME BulkInv, BulkIn, wire' # NoPacket
  PROVE  InKept' /\ InInv'
<1>1. InF!Request /\ wire = NoPacket /\ wire' = InPacket(inToggle["bulk"], << >>)
      /\ UNCHANGED <<hostGot, pushed, hIn, inToggle, faults>>
  BY DEF BulkIn, SendIn, StartBulkIn, hostVars, appVars, GoodToken, NoFault
<1>2. /\ UNCHANGED inBuf /\ inSent' = 0 /\ inState' = "DATA"
      /\ inValid' = (inBuf # << >>)
  BY <1>1 DEF InF!Request
<1>3. ~Sending /\ wire'.kind = "in" /\ wire'.toggle = inToggle["bulk"] /\ wire'.data = << >>
  BY <1>1, PacketFields DEF Sending
<1>4. /\ inBuf \in Seq(Nat) /\ Len(inBuf) \in Nat /\ pushed \in Nat
      /\ \A i \in 1 .. Len(inBuf) : inBuf[i] = pushed - Len(inBuf) + i
      /\ Len(inBuf) <= pushed
  BY InFacts
<1>5. SubSeq(inBuf', 1, 0) = << >>
  BY <1>2, <1>4
<1>6. InKept'
  BY <1>1, <1>2, <1>3, <1>4, <1>5 DEF InKept
<1>7. Delivered' = Delivered
  <2>1. ~inValid' => Len(inBuf) = 0
    BY <1>2, <1>4, EmptySeq
  <2>. QED BY <1>1, <1>2, <1>3, <1>4, <2>1 DEF Delivered
<1>8. InInv'
  BY <1>1, <1>2, <1>7 DEF InInv, InOrder, InConserved, BulkInv
<1>. QED BY <1>6, <1>8

\* The next byte follows; after the last one the packet holds all that the FIFO
\* held.
LEMMA FetchIn ==
  ASSUME BulkInv, InByte
  PROVE  InKept' /\ InInv'
<1>1. /\ inBuf \in Seq(Nat) /\ Len(inBuf) \in Nat /\ inSent \in Nat
      /\ inSent < Len(inBuf) /\ pushed \in Nat /\ Len(inBuf) <= pushed
      /\ wire \in WireType /\ endp = "bulk" /\ wire.kind = "in" /\ Sending
      /\ \A i \in 1 .. Len(inBuf) : inBuf[i] = pushed - Len(inBuf) + i
  BY InFacts DEF InByte, InMore, Sending, BulkInv, FifosRest
<1>2. /\ wire' = [wire EXCEPT !.data = Append(wire.data, inBuf[inSent + 1])]
      /\ UNCHANGED <<inBuf, inState, endp, hostGot, pushed, hIn, inToggle, faults>>
      /\ inSent' = inSent + 1
  BY DEF InByte, InF!Fetch, hostVars, appVars, bounds
<1>3. inValid' = (inSent + 1 < Len(inBuf))
  BY DEF InByte, InF!Fetch
<1>4. /\ inState = "DATA" /\ wire.toggle = inToggle["bulk"]
      /\ wire.data = SubSeq(inBuf, 1, inSent)
  BY <1>1 DEF BulkInv, InKept
<1>5. inBuf[inSent + 1] \in Nat
  BY <1>1, ElementOfSeq
<1>6. Append(wire.data, inBuf[inSent + 1]) = SubSeq(inBuf, 1, inSent + 1)
  <2>. DEFINE u == Append(wire.data, inBuf[inSent + 1])
              v == SubSeq(inBuf, 1, inSent + 1)
  <2>1. \A i \in 1 .. inSent + 1 : inBuf[i] \in Nat
    BY <1>1, ElementOfSeq
  <2>2. v \in Seq(Nat) /\ Len(v) = inSent + 1 /\ \A i \in 1 .. inSent + 1 : v[i] = inBuf[i]
    <3>1. /\ v \in Seq(Nat) /\ Len(v) = IF 1 <= inSent + 1 THEN inSent + 1 - 1 + 1 ELSE 0
          /\ \A i \in 1 .. inSent + 1 - 1 + 1 : v[i] = inBuf[1 + i - 1]
      BY <1>1, <2>1, SubSeqProperties
    <3>. QED BY <1>1, <3>1
  <2>3. wire.data \in Seq(Nat) /\ Len(wire.data) = inSent
        /\ \A i \in 1 .. inSent : wire.data[i] = inBuf[i]
    BY <1>1, PacketComplete, WireKinds
  <2>. HIDE DEF v
  <2>4. u \in Seq(Nat) /\ Len(u) = inSent + 1
        /\ (\A i \in 1 .. inSent : u[i] = wire.data[i]) /\ u[inSent + 1] = inBuf[inSent + 1]
    <3>1. /\ u \in Seq(Nat) /\ Len(u) = Len(wire.data) + 1
          /\ \A i \in 1 .. Len(wire.data) : u[i] = wire.data[i]
          /\ u[Len(wire.data) + 1] = inBuf[inSent + 1]
      BY <1>5, <2>3, AppendProperties
    <3>. QED BY <2>3, <3>1
  <2>. HIDE DEF u
  <2>5. ASSUME NEW i \in 1 .. inSent + 1 PROVE u[i] = v[i]
    <3>1. i \in 1 .. inSent \/ i = inSent + 1
      BY <1>1
    <3>. QED BY <2>2, <2>3, <2>4, <3>1
  <2>6. u = v
    BY <2>2, <2>4, <2>5, SeqEqual
  <2>. QED BY <2>6 DEF u, v
<1>7. /\ wire'.kind = "in" /\ wire'.toggle = wire.toggle
      /\ wire'.data = SubSeq(inBuf, 1, inSent + 1)
  <2>1. Append(wire.data, inBuf[inSent + 1]) \in Seq(Nat)
    BY <1>1, <1>5, WireKinds, AppendProperties
  <2>. QED BY <1>1, <1>2, <1>6, <2>1, WireGoesOn
<1>8. InKept'
  BY <1>1, <1>2, <1>4, <1>7 DEF InKept
<1>9. Delivered' = Delivered
  <2>1. inValid
    BY DEF InByte, InMore
  <2>2. ~inValid' => inSent' = Len(inBuf)
    <3>1. ~inValid' => ~(inSent + 1 < Len(inBuf))
      BY <1>3
    <3>2. ~(inSent + 1 < Len(inBuf)) => inSent + 1 = Len(inBuf)
      BY <1>1
    <3>. QED BY <1>2, <3>1, <3>2
  <2>3. Sending'
    BY <1>1, <1>2, <1>7 DEF Sending
  <2>. QED BY <1>1, <1>2, <2>1, <2>2, <2>3 DEF Delivered
<1>10. InInv'
  BY <1>2, <1>9 DEF InInv, InOrder, InConserved, BulkInv
<1>. QED BY <1>8, <1>10

\* What the host adds to what it has, when that ends at b, still ascends.
LEMMA OrderGoesOn ==
  ASSUME NEW s \in Seq(Nat), NEW t \in Seq(Nat), NEW b \in Nat,
         \A i, j \in 1 .. Len(s) : i < j => s[i] < s[j],
         \A j \in 1 .. Len(s) : s[j] <= b,
         \A i \in 1 .. Len(t) : t[i] = b + i
  PROVE  /\ \A i, j \in 1 .. Len(s \o t) : i < j => (s \o t)[i] < (s \o t)[j]
         /\ \A j \in 1 .. Len(s \o t) : (s \o t)[j] <= b + Len(t)
<1>. DEFINE u == s \o t
            n == Len(s)
            m == Len(t)
<1>1. n \in Nat /\ m \in Nat
  BY LenProperties
<1>2. /\ u \in Seq(Nat) /\ Len(u) = n + m
      /\ \A i \in 1 .. n + m : u[i] = IF i <= n THEN s[i] ELSE t[i - n]
  BY ConcatProperties
<1>3. \A i \in 1 .. n : s[i] \in Nat
  BY ElementOfSeq
<1>. HIDE DEF u
<1>4. ASSUME NEW i \in 1 .. n + m
      PROVE  /\ i <= n => i \in 1 .. n /\ u[i] = s[i] /\ u[i] \in Nat /\ u[i] <= b
             /\ i > n => u[i] = b + i - n
  <2>1. CASE i <= n
    <3>1. i \in 1 .. n
      BY <1>1, <2>1
    <3>. QED BY <1>1, <1>2, <1>3, <2>1, <3>1
  <2>2. CASE i > n
    <3>1. i - n \in 1 .. m
      BY <1>1, <2>2
    <3>2. u[i] = t[i - n]
      BY <1>1, <1>2, <2>2
    <3>3. t[i - n] = b + (i - n)
      BY <3>1
    <3>. QED BY <1>1, <2>2, <3>2, <3>3
  <2>3. i <= n \/ i > n
    BY <1>1
  <2>. QED BY <1>1, <2>1, <2>2, <2>3
<1>5. ASSUME NEW i \in 1 .. n + m, NEW j \in 1 .. n + m, i < j
      PROVE  u[i] < u[j]
  <2>1. CASE j <= n
    <3>1. i <= n
      BY <1>1, <1>5, <2>1
    <3>. QED BY <1>4, <1>5, <2>1, <3>1
  <2>2. CASE i <= n /\ j > n
    BY <1>1, <1>4, <2>2
  <2>3. CASE i > n /\ j > n
    BY <1>1, <1>4, <1>5, <2>3
  <2>4. j <= n \/ (i <= n /\ j > n) \/ (i > n /\ j > n)
    BY <1>1, <1>5
  <2>. QED BY <2>1, <2>2, <2>3, <2>4
<1>6. ASSUME NEW j \in 1 .. n + m PROVE u[j] <= b + m
  <2>1. CASE j <= n
    BY <1>1, <1>4, <2>1
  <2>2. CASE j > n
    BY <1>1, <1>4, <2>2
  <2>3. j <= n \/ j > n
    BY <1>1
  <2>. QED BY <2>1, <2>2, <2>3
<1>. QED BY <1>2, <1>5, <1>6 DEF u

\* What a packet that is complete leaves, with the host and in the FIFO.
LEMMA HandOver ==
  ASSUME BulkInv, Sending, InEnd
  PROVE  /\ wire.toggle = inToggle["bulk"] /\ wire' = NoPacket /\ endp = "bulk"
         /\ UNCHANGED <<pushed, endp>>
         /\ \/ UNCHANGED <<inBuf, inToggle>>
            \/ /\ inToggle'["bulk"] = Flip(inToggle["bulk"])
               /\ inBuf' \in Seq(Nat) /\ Len(inBuf') = Len(inBuf) - inSent
               /\ \A i \in 1 .. Len(inBuf') : inBuf'[i] = inBuf[inSent + i]
               /\ inBuf = wire.data \o inBuf'
               /\ NoFault
         /\ wire.data \in Seq(Nat) /\ Len(wire.data) = inSent
         /\ \A i \in 1 .. inSent : wire.data[i] = pushed - Len(inBuf) + i
         /\ ~inValid
<1>1. /\ wire.kind = "in" /\ endp = "bulk" /\ wire \in WireType /\ ~InMore
      /\ wire.toggle = inToggle["bulk"] /\ wire' = NoPacket /\ UNCHANGED <<pushed, endp>>
      /\ inToggle \in [Endpoints -> {0, 1}] /\ "bulk" \in Endpoints
  BY DEF BulkInv, TypeOK, InKept, Sending, InEnd, appVars, Endpoints
<1>2. /\ inState = "DATA" /\ Len(wire.data) = inSent /\ ~inValid
      /\ \A i \in 1 .. inSent : wire.data[i] = inBuf[i]
      /\ wire.data \in Seq(Nat)
  BY <1>1, PacketComplete, WireKinds
<1>3. /\ inBuf \in Seq(Nat) /\ Len(inBuf) \in Nat /\ inSent \in Nat
      /\ inSent <= Len(inBuf) /\ pushed \in Nat /\ Len(inBuf) <= pushed
      /\ \A i \in 1 .. Len(inBuf) : inBuf[i] = pushed - Len(inBuf) + i
  BY InFacts
<1>4. \A i \in 1 .. inSent : wire.data[i] = pushed - Len(inBuf) + i
  BY <1>2, <1>3
<1>5. CASE UNCHANGED <<inBuf, inToggle>>
  BY <1>1, <1>2, <1>4, <1>5
<1>6. CASE NoFault /\ DeviceAcked
  <2>1. InFifoKept /\ InF!Acknowledge
    BY <1>1, <1>6, FifosKept DEF DeviceAcked
  <2>2. /\ Len(inBuf') = Len(inBuf) - inSent
        /\ \A i \in 1 .. Len(inBuf') : inBuf'[i] = inBuf[inSent + i]
        /\ inBuf' \in Seq(Nat)
    BY <1>2, <2>1, InFifoAcknowledge DEF InFifoKept, InF!TypeOK
  <2>3. inToggle'["bulk"] = Flip(inToggle["bulk"])
    BY <1>1, <1>6, FlipKept DEF DeviceAcked
  <2>4. inBuf = wire.data \o inBuf'
    <3>. DEFINE u == wire.data \o inBuf'
    <3>1. /\ u \in Seq(Nat) /\ Len(u) = inSent + Len(inBuf')
          /\ \A i \in 1 .. inSent + Len(inBuf') :
               u[i] = IF i <= inSent THEN wire.data[i] ELSE inBuf'[i - inSent]
      <4>1. /\ u \in Seq(Nat) /\ Len(u) = Len(wire.data) + Len(inBuf')
            /\ \A i \in 1 .. Len(wire.data) + Len(inBuf') :
                 u[i] = IF i <= Len(wire.data) THEN wire.data[i]
                        ELSE inBuf'[i - Len(wire.data)]
        BY <1>2, <2>2, ConcatProperties, ZenonT(30)
      <4>. HIDE DEF u
      <4>. QED BY <1>2, <4>1
    <3>. HIDE DEF u
    <3>2. Len(u) = Len(inBuf)
      BY <1>3, <2>2, <3>1
    <3>3. ASSUME NEW i \in 1 .. Len(inBuf) PROVE inBuf[i] = u[i]
      <4>1. CASE i <= inSent
        BY <1>2, <1>3, <2>2, <3>1, <4>1
      <4>2. CASE i > inSent
        <5>1. i - inSent \in 1 .. Len(inBuf') /\ inSent + (i - inSent) = i
          BY <1>3, <2>2, <4>2
        <5>2. u[i] = inBuf'[i - inSent]
          BY <1>3, <3>1, <3>2, <4>2, SMTT(20)
        <5>. QED BY <2>2, <5>1, <5>2
      <4>. QED BY <1>3, <4>1, <4>2
    <3>4. inBuf = u
      BY <1>3, <3>1, <3>2, <3>3, SeqEqual
    <3>. QED BY <3>4 DEF u
  <2>. QED BY <1>1, <1>2, <1>4, <1>6, <2>2, <2>3, <2>4
<1>7. \/ NoFault /\ DeviceAcked
      \/ UNCHANGED <<inBuf, inToggle>>
  BY DEF InEnd, inVars
<1>. QED BY <1>5, <1>6, <1>7

\* The end of a bulk IN packet, whether its data or its handshake arrives.
LEMMA EndIn ==
  ASSUME BulkInv, Next, InEnd, endp = "bulk"
  PROVE  InKept' /\ InInv'
<1>. DEFINE n == Len(inBuf)
            b == pushed - n
            same == inToggle["bulk"] = hIn["bulk"]
<1>1. Sending /\ wire \in WireType
  BY DEF InEnd, Sending, BulkInv, TypeOK
<1>2. /\ wire.toggle = inToggle["bulk"] /\ wire' = NoPacket /\ endp' = "bulk"
      /\ pushed' = pushed /\ ~inValid
      /\ wire.data \in Seq(Nat) /\ Len(wire.data) = inSent
      /\ \A i \in 1 .. inSent : wire.data[i] = b + i
  BY <1>1, HandOver
<1>3. /\ inBuf \in Seq(Nat) /\ n \in Nat /\ inSent \in Nat /\ inSent <= n
      /\ pushed \in Nat /\ n <= pushed /\ b \in Nat
      /\ hostGot \in Seq(Nat) /\ Len(hostGot) \in Nat
      /\ inToggle["bulk"] \in {0, 1} /\ hIn["bulk"] \in {0, 1}
      /\ \A i \in 1 .. n : inBuf[i] = b + i
  BY InFacts
<1>4. ~Sending'
  BY <1>2, PacketFields DEF Sending
<1>5. /\ Flip(inToggle["bulk"]) \in {0, 1} /\ Flip(inToggle["bulk"]) # inToggle["bulk"]
      /\ Flip(hIn["bulk"]) \in {0, 1} /\ Flip(hIn["bulk"]) # hIn["bulk"]
  BY <1>3 DEF Flip
<1>6. /\ InOrder
      /\ \A j \in 1 .. Len(hostGot) : hostGot[j] \in Nat
      /\ \A j \in 1 .. Len(hostGot) : hostGot[j] <= Delivered
      /\ "in handshake" \notin faults.lossy => same /\ hostGot \o inBuf = Stream(pushed)
  BY <1>3, ElementOfSeq DEF BulkInv, InInv, InConserved
<1>7. /\ same => Delivered = b
      /\ ~same => Delivered = b + inSent
  BY <1>1, <1>2 DEF Delivered
\* What the FIFO keeps.
<1>8. /\ Len(inBuf') \in {n, n - inSent}
      /\ InKept'
  <2>1. CASE inBuf' = inBuf
    BY <1>2, <1>3, <1>4, <2>1 DEF InKept
  <2>2. CASE /\ Len(inBuf') = n - inSent
             /\ \A i \in 1 .. Len(inBuf') : inBuf'[i] = inBuf[inSent + i]
    <3>1. ASSUME NEW i \in 1 .. n - inSent PROVE inBuf'[i] = pushed - (n - inSent) + i
      <4>1. inSent + i \in 1 .. n /\ b + (inSent + i) = pushed - (n - inSent) + i
        BY <1>3
      <4>. QED BY <1>3, <2>2, <4>1
    <3>2. n - inSent <= pushed
      BY <1>3
    <3>. QED BY <1>2, <1>4, <2>2, <3>1, <3>2 DEF InKept
  <2>. QED BY <1>1, <2>1, <2>2, HandOver
\* What the host has: its bound grows with it.
<1>9. CASE HostTakes /\ same
  <2>1. hostGot' = hostGot \o wire.data /\ hIn' = [hIn EXCEPT !["bulk"] = Flip(@)]
    BY <1>2, <1>9 DEF HostTakes
  <2>2. /\ InOrder'
        /\ \A j \in 1 .. Len(hostGot') : hostGot'[j] <= b + inSent
    <3>1. \A i \in 1 .. Len(wire.data) : wire.data[i] = b + i
      BY <1>2
    <3>2. \A j \in 1 .. Len(hostGot) : hostGot[j] <= b
      BY <1>6, <1>7, <1>9
    <3>3. /\ \A i, j \in 1 .. Len(hostGot \o wire.data) :
               i < j => (hostGot \o wire.data)[i] < (hostGot \o wire.data)[j]
          /\ \A j \in 1 .. Len(hostGot \o wire.data) :
               (hostGot \o wire.data)[j] <= b + Len(wire.data)
      BY <1>2, <1>3, <1>6, <3>1, <3>2, OrderGoesOn DEF InOrder
    <3>. QED BY <1>2, <2>1, <3>3 DEF InOrder
  <2>3. \A j \in 1 .. Len(hostGot') : hostGot'[j] \in Nat
    <3>1. hostGot' \in Seq(Nat)
      BY HostTypes
    <3>. QED BY <3>1, ElementOfSeq
  <2>4. hIn'["bulk"] = Flip(hIn["bulk"])
    BY <1>2, <2>1, FlipKept DEF BulkInv, TypeOK, Endpoints
  <2>5. CASE NoFault /\ DeviceAcked
    <3>1. /\ inToggle'["bulk"] = Flip(inToggle["bulk"]) /\ Len(inBuf') = n - inSent
          /\ inBuf = wire.data \o inBuf' /\ inBuf' \in Seq(Nat)
      <4>1. inToggle'["bulk"] = Flip(inToggle["bulk"])
        BY <1>1, <1>5, <2>5, FlipKept DEF DeviceAcked, BulkInv, TypeOK, Endpoints, Sending
      <4>. QED BY <1>1, <1>5, <4>1, HandOver
    <3>2. Delivered' = b + inSent
      BY <1>2, <1>3, <1>9, <2>4, <3>1 DEF Delivered
    <3>3. hostGot' \o inBuf' = hostGot \o inBuf
      <4>1. (hostGot \o wire.data) \o inBuf' = hostGot \o (wire.data \o inBuf')
        <5>1. hostGot \in Seq(Nat) /\ wire.data \in Seq(Nat) /\ inBuf' \in Seq(Nat)
          BY <1>2, <1>3, <3>1
        <5>2. \A s, t, u \in Seq(Nat) : (s \o t) \o u = s \o (t \o u)
          BY JoinNumbers
        <5>. QED BY <5>1, <5>2
      <4>. QED BY <2>1, <3>1, <4>1
    <3>4. faults' = faults
      BY <2>5 DEF NoFault
    <3>. QED BY <1>2, <1>6, <1>8, <1>9, <2>2, <2>4, <3>1, <3>2, <3>3, <3>4
             DEF InInv, InConserved
  <2>6. CASE Happens("in handshake") /\ UNCHANGED <<inToggle, inVars>>
    <3>1. "in handshake" \in faults'.lossy
      BY <2>6 DEF Happens, Lossy
    <3>2. Delivered' = pushed
      BY <1>2, <1>3, <1>4, <1>5, <1>9, <2>4, <2>6 DEF Delivered
    <3>3. \A j \in 1 .. Len(hostGot') : hostGot'[j] <= Delivered'
      <4>1. b + inSent <= pushed
        BY <1>3
      <4>. QED BY <1>3, <2>2, <2>3, <3>2, <4>1
    <3>. QED BY <1>8, <2>2, <3>1, <3>3 DEF InInv
  <2>7. CASE UNCHANGED <<hostGot, hIn, inToggle, inVars>>
    BY <1>5, <2>4, <2>7
  <2>. QED BY <2>5, <2>6, <2>7 DEF InEnd
<1>10. CASE ~(HostTakes /\ same)
  <2>1. UNCHANGED <<hostGot, hIn>>
    BY <1>2, <1>10 DEF InEnd, HostTakes
  <2>2. Delivered' \in Nat /\ Delivered \in Nat /\ Delivered <= Delivered'
        /\ ("in handshake" \notin faults'.lossy => /\ inToggle'["bulk"] = hIn["bulk"]
                                                   /\ UNCHANGED inBuf)
    <3>1. CASE UNCHANGED <<inToggle, inVars>>
      <4>1. faults.lossy \subseteq faults'.lossy
        BY HostTypes
      <4>2. inToggle' = inToggle /\ inBuf' = inBuf /\ hIn' = hIn /\ pushed' = pushed
        BY <1>2, <2>1, <3>1 DEF inVars
      <4>3. Delivered' = IF same THEN b ELSE pushed
        BY <1>4, <4>2 DEF Delivered
      <4>4. Delivered' \in Nat /\ Delivered \in Nat /\ Delivered <= Delivered'
        BY <1>3, <1>7, <4>3
      <4>5. "in handshake" \notin faults'.lossy => "in handshake" \notin faults.lossy
        BY <4>1
      <4>. QED BY <1>6, <4>2, <4>4, <4>5
    <3>2. CASE NoFault /\ HostTakes /\ DeviceAcked
      <4>1. /\ inToggle'["bulk"] = Flip(inToggle["bulk"]) /\ Len(inBuf') = n - inSent
        <5>1. inToggle'["bulk"] = Flip(inToggle["bulk"])
          BY <1>1, <1>5, <3>2, FlipKept DEF DeviceAcked, BulkInv, TypeOK, Endpoints, Sending
        <5>. QED BY <1>1, <1>5, <5>1, HandOver
      <4>2. ~same /\ "in handshake" \in faults.lossy /\ faults' = faults
        BY <1>6, <1>10, <3>2 DEF NoFault
      <4>3. inToggle'["bulk"] = hIn'["bulk"]
        BY <1>3, <1>5, <2>1, <4>1, <4>2 DEF Flip
      <4>4. Delivered' = b + inSent
        BY <1>2, <1>3, <4>1, <4>3 DEF Delivered
      <4>5. Delivered = b + inSent /\ b + inSent \in Nat
        <5>1. Delivered = b + inSent
          BY <1>7, <4>2
        <5>2. b + inSent \in Nat
          BY <1>3
        <5>. QED BY <5>1, <5>2
      <4>6. Delivered' \in Nat /\ Delivered \in Nat /\ Delivered <= Delivered'
        BY <4>4, <4>5
      <4>. QED BY <4>2, <4>6
    <3>. QED BY <3>1, <3>2 DEF InEnd
  <2>3. InOrder'
    BY <1>6, <2>1 DEF InOrder
  <2>4. \A j \in 1 .. Len(hostGot') : hostGot'[j] <= Delivered'
    <3>1. ASSUME NEW d \in Nat, NEW e \in Nat, d <= e, NEW x \in Nat, x <= d
          PROVE  x <= e
      BY <3>1
    <3>. QED BY <1>6, <2>1, <2>2, <3>1
  <2>5. faults.lossy \subseteq faults'.lossy
    BY HostTypes
  <2>. QED BY <1>2, <1>6, <1>8, <2>1, <2>2, <2>3, <2>4, <2>5 DEF InInv, InConserved
<1>. QED BY <1>9, <1>10

\* Every step keeps the IN direction.
LEMMA NextIn ==
  ASSUME BulkInv, Next
  PROVE  InKept' /\ InInv'
<1>1. endp \in Endpoints
  BY DEF BulkInv, TypeOK
<1>2. CASE AppPush
  BY <1>2, PushIn
<1>3. CASE InByte
  BY <1>3, FetchIn
<1>4. CASE BulkIn /\ wire' # NoPacket
  BY <1>4, RequestIn
<1>5. CASE InEnd /\ endp = "bulk"
  BY <1>5, EndIn
<1>6. CASE \/ BulkOut \/ CtrlOut \/ OutStart \/ OutByte \/ OutBroken \/ OutEnd
           \/ AppPop \/ FullRefresh \/ CtrlIn
  <2>1. InQuiet
    BY <1>6, QuietSteps
  <2>. QED BY <2>1, QuietIn
<1>7. CASE BulkIn
  BY <1>4, <1>7, QuietSteps, QuietIn
<1>8. CASE InEnd
  <2>1. endp = "ctrl" \/ endp = "bulk"
    BY <1>1 DEF Endpoints
  <2>. QED BY <1>5, <1>8, <2>1, QuietSteps, QuietIn
<1>. QED BY <1>2, <1>3, <1>6, <1>7, <1>8 DEF Next

-----------------------------------------------------------------------------
(***************************************************************************)
(* The OUT direction, while no token is damaged or missed.                 *)
(***************************************************************************)
TokensGood == faults.lossy \subseteq {"in handshake"}

\* The invariant of the OUT direction, taken apart.
LEMMA OutFacts ==
  ASSUME BulkInv, TokensGood
  PROVE  /\ outBuf \in Seq(Nat) /\ outFresh \in Seq(Nat) /\ appGot \in Seq(Nat)
         /\ outPkt \in Seq(Nat) /\ acked \in Nat /\ wire \in WireType
         /\ endp \in Endpoints /\ outState \in {"IDLE", "DATA", "NAK"}
         /\ outNak \in BOOLEAN /\ OutFifoKept
         /\ outToggle["bulk"] \in {0, 1} /\ hOut["bulk"] \in {0, 1}
         /\ \A i \in 1 .. Len(outPkt) : outPkt[i] = acked + i
         /\ wire.kind \in {"out", "receiving"} /\ wire.to = "bulk" =>
              outPkt # << >> /\ wire.toggle = hOut["bulk"]
         /\ wire.kind = "out" /\ wire.to = "bulk" => wire.left = outPkt
         /\ wire.kind = "receiving" \/ (wire.kind = "out" /\ dataNext) => endp = wire.to
         /\ Receiving => /\ outState = "IDLE" => wire.left = outPkt
                         /\ outState = "DATA" => ~outNak /\ outFresh \o wire.left = outPkt
                         /\ outState = "NAK" => outNak
         /\ outToggle["bulk"] # hOut["bulk"] => outPkt # << >>
         /\ OutConserved
         /\ ~Receiving => outState = "IDLE"
         /\ outState = "IDLE" => outFresh = << >>
<1>1. /\ outBuf \in Seq(Nat) /\ outFresh \in Seq(Nat) /\ appGot \in Seq(Nat)
      /\ outPkt \in Seq(Nat) /\ acked \in Nat /\ wire \in WireType
      /\ endp \in Endpoints /\ outState \in {"IDLE", "DATA", "NAK"}
      /\ outNak \in BOOLEAN
      /\ outToggle["bulk"] \in {0, 1} /\ hOut["bulk"] \in {0, 1}
  BY Numbers DEF BulkInv, TypeOK, OutF!TypeOK, Endpoints
<1>2. /\ \A i \in 1 .. Len(outPkt) : outPkt[i] = acked + i
      /\ wire.kind \in {"out", "receiving"} /\ wire.to = "bulk" =>
           outPkt # << >> /\ wire.toggle = hOut["bulk"]
      /\ wire.kind = "out" /\ wire.to = "bulk" => wire.left = outPkt
  BY DEF BulkInv, HostPacket
<1>3. /\ wire.kind = "receiving" \/ (wire.kind = "out" /\ dataNext) => endp = wire.to
      /\ Receiving => CASE outState = "IDLE" -> wire.left = outPkt
                        [] outState = "DATA" -> ~outNak /\ outFresh \o wire.left = outPkt
                        [] outState = "NAK"  -> outNak
      /\ outToggle["bulk"] # hOut["bulk"] => outPkt # << >>
      /\ OutConserved
  BY DEF BulkInv, OutInv, TokensGood
<1>4. Receiving => /\ outState = "IDLE" => wire.left = outPkt
                   /\ outState = "DATA" => ~outNak /\ outFresh \o wire.left = outPkt
                   /\ outState = "NAK" => outNak
  BY <1>3
<1>5. /\ ~Receiving => outState = "IDLE"
      /\ outState = "IDLE" => outFresh = << >>
  BY DEF BulkInv, FifosRest
<1>. QED BY <1>1, <1>2, <1>3, <1>4, <1>5, FifosKept

\* The stream that the application and the FIFO hold, and how it goes on.
LEMMA OutStream ==
  ASSUME BulkInv, TokensGood
  PROVE  /\ outToggle["bulk"] = hOut["bulk"] => /\ appGot \o outBuf = Stream(acked)
                                                /\ (appGot \o outBuf) \o outPkt =
                                                      Stream(acked + Len(outPkt))
         /\ outToggle["bulk"] # hOut["bulk"] =>
              appGot \o outBuf = Stream(acked + Len(outPkt))
<1>1. Stream(acked) \o outPkt = Stream(acked + Len(outPkt))
  <2>1. /\ acked \in Nat /\ outPkt \in Seq(Nat)
        /\ \A i \in 1 .. Len(outPkt) : outPkt[i] = acked + i
    BY OutFacts
  <2>. QED BY <2>1, StreamGoesOn
<1>2. OutConserved
  BY OutFacts
<1>. QED BY <1>1, <1>2 DEF OutConserved

\* The steps that concern neither the OUT FIFO nor a packet of the host.
OutQuiet ==
  /\ wire'.kind # "receiving"
  /\ wire'.kind = "out" /\ dataNext' => endp' = wire'.to
  /\ UNCHANGED <<outBuf, appGot, acked>>
  /\ outToggle'["bulk"] = outToggle["bulk"] /\ hOut'["bulk"] = hOut["bulk"]
  /\ outToggle["bulk"] # hOut["bulk"] => outPkt' = outPkt

\* They keep the invariant.
LEMMA QuietOut ==
  ASSUME BulkInv, TokensGood, OutQuiet
  PROVE  OutInv'
<1>1. ~Receiving'
  BY DEF OutQuiet, Receiving
<1>2. OutConserved'
  BY OutFacts DEF OutQuiet, OutConserved
<1>. QED BY <1>1, <1>2, OutFacts DEF OutQuiet, OutInv

\* The steps of the rest of the system are quiet in this sense: tokens, packets
\* that are not received, and all of the IN direction but the ACK, which empties
\* no more than a FIFO at rest.
LEMMA QuietOutSteps ==
  ASSUME BulkInv, TokensGood, TokensGood',
         \/ BulkOut \/ CtrlOut \/ BulkIn \/ CtrlIn \/ InByte \/ InEnd
         \/ OutStart /\ wire' = NoPacket
         \/ OutBroken
  PROVE  OutQuiet
<1>1. /\ wire \in WireType /\ outToggle \in [Endpoints -> {0, 1}]
      /\ hOut \in [Endpoints -> {0, 1}] /\ "bulk" # "ctrl"
      /\ "ctrl" \in Endpoints /\ "bulk" \in Endpoints
  BY DEF BulkInv, TypeOK, Endpoints
<1>2. ASSUME NEW e \in BOOLEAN, BadToken(e)
      PROVE  endp' = endp /\ ~dataNext'
  <2>1. ASSUME Happens("token crc") PROVE FALSE
    <3>1. "token crc" \in faults'.lossy
      BY <2>1 DEF Happens, Lossy
    <3>. QED BY <3>1 DEF TokensGood
  <2>2. ASSUME Happens("token lost") PROVE FALSE
    <3>1. "token lost" \in faults'.lossy
      BY <2>2 DEF Happens, Lossy
    <3>. QED BY <3>1 DEF TokensGood
  <2>. QED BY <1>2, <2>1, <2>2 DEF BadToken
<1>3. CASE BulkOut \/ CtrlOut
  <2>1. PICK ep, setup, toggle, left :
          /\ ep \in Endpoints /\ setup \in BOOLEAN
          /\ SendOut(ep, setup, toggle, left)
    BY <1>1, <1>3 DEF BulkOut, CtrlOut
  <2>2. /\ wire' = OutPacket(ep, setup, toggle, left)
        /\ UNCHANGED <<outVars, appVars>>
    BY <2>1 DEF SendOut
  <2>3. wire'.kind = "out" /\ wire'.to = ep
    BY <2>2, PacketFields
  <2>4. dataNext' => endp' = ep
    BY <1>2, <2>1 DEF SendOut, GoodToken
  <2>5. outToggle'["bulk"] = outToggle["bulk"]
    BY <1>1, <2>1 DEF SendOut, SetupToggles
  <2>6. UNCHANGED <<hOut, acked>>
    BY <1>3 DEF BulkOut, CtrlOut, hostVars
  <2>7. outToggle["bulk"] # hOut["bulk"] => outPkt' = outPkt
    <3>1. CASE CtrlOut
      BY <3>1 DEF CtrlOut, hostVars
    <3>2. CASE BulkOut
      BY <3>2, OutFacts DEF BulkOut
    <3>. QED BY <1>3, <3>1, <3>2
  <2>. QED BY <2>2, <2>3, <2>4, <2>5, <2>6, <2>7 DEF OutQuiet, outVars, appVars
<1>4. CASE BulkIn \/ CtrlIn
  <2>1. /\ wire' = NoPacket \/ \E t, d : wire' = InPacket(t, d)
        /\ UNCHANGED <<outToggle, outVars, hostVars, appVars>>
    BY <1>4 DEF BulkIn, CtrlIn, SendIn, StartBulkIn, StartCtrlIn
  <2>2. wire'.kind \in {"none", "in"}
    BY <2>1, PacketFields
  <2>. QED BY <2>1, <2>2 DEF OutQuiet, outVars, hostVars, appVars
<1>5. CASE InByte
  <2>1. /\ wire.kind = "in" /\ wire' = [wire EXCEPT !.data = Append(@, inBuf[inSent + 1])]
        /\ UNCHANGED <<outToggle, outVars, hostVars, appVars>>
    BY <1>5 DEF InByte
  <2>2. wire'.kind = "in"
    BY <1>1, <2>1 DEF WireType, NoPacket
  <2>. QED BY <2>1, <2>2 DEF OutQuiet, outVars, hostVars, appVars
<1>6. CASE InEnd
  <2>1. /\ wire.kind = "in" /\ wire' = NoPacket
        /\ UNCHANGED <<outToggle, hOut, outPkt, acked, appVars>>
        /\ OutF!End \/ UNCHANGED outVars
    BY <1>6 DEF InEnd, DeviceAcked
  <2>2. outFresh = << >> /\ outBuf \in Seq(Nat)
    BY <2>1, OutFacts DEF Receiving
  <2>3. outBuf' = outBuf
    <3>1. outBuf \o << >> = outBuf
      BY <2>2, ConcatSimplifications
    <3>. QED BY <2>1, <2>2, <3>1 DEF OutF!End, outVars
  <2>. QED BY <2>1, <2>3, PacketFields DEF OutQuiet, appVars
<1>7. CASE OutStart /\ wire' = NoPacket
  <2>1. UNCHANGED <<outToggle, outVars, hostVars, appVars>>
    BY <1>7 DEF OutStart
  <2>. QED BY <1>7, <2>1, PacketFields DEF OutQuiet, outVars, hostVars, appVars
<1>8. CASE OutBroken
  <2>1. /\ wire' = NoPacket /\ UNCHANGED <<outToggle, hostVars, appVars>>
        /\ EndOfOut(FALSE) \/ UNCHANGED outVars
    BY <1>8 DEF OutBroken, sieVars
  <2>2. outBuf' = outBuf
    BY <2>1 DEF EndOfOut, OutF!Abort, outVars
  <2>. QED BY <2>1, <2>2, PacketFields DEF OutQuiet, hostVars, appVars
<1>. QED BY <1>3, <1>4, <1>5, <1>6, <1>7, <1>8

\* A packet that is received starts with the FIFO at rest.
LEMMA StartOut ==
  ASSUME BulkInv, TokensGood, OutStart, wire' # NoPacket
  PROVE  OutInv'
<1>1. /\ wire.kind = "out" /\ dataNext /\ wire' = [wire EXCEPT !.kind = "receiving"]
      /\ UNCHANGED <<endp, outToggle, outVars, hostVars, appVars>>
  BY DEF OutStart
<1>2. wire \in WireType /\ outState = "IDLE" /\ endp = wire.to
      /\ (wire.to = "bulk" => wire.left = outPkt)
  BY <1>1, OutFacts DEF Receiving
<1>3. wire'.kind = "receiving" /\ wire'.to = wire.to /\ wire'.left = wire.left
  BY <1>1, <1>2, WireGoesOn
<1>4. Receiving' => wire'.left = outPkt
  BY <1>1, <1>2, <1>3 DEF Receiving
<1>5. OutConserved'
  BY <1>1, OutFacts DEF OutConserved, outVars, hostVars, appVars
<1>. QED BY <1>1, <1>2, <1>3, <1>4, <1>5, OutFacts DEF OutInv, outVars, hostVars

\* A byte that is stored moves from the packet to the FIFO.
LEMMA ByteOut ==
  ASSUME BulkInv, TokensGood, OutByte
  PROVE  OutInv'
<1>1. /\ wire.kind = "receiving" /\ wire.left # << >>
      /\ wire' = [wire EXCEPT !.left = Tail(wire.left)]
      /\ UNCHANGED <<endp, outToggle, hostVars, appVars>>
      /\ IF endp = "bulk" THEN OutF!Store(Head(wire.left)) ELSE UNCHANGED outVars
  BY DEF OutByte, sieVars
<1>2. wire \in WireType /\ endp = wire.to /\ wire.left \in Seq(Nat)
      /\ OutFifoKept /\ outFresh \in Seq(Nat) /\ outState \in {"IDLE", "DATA", "NAK"}
  BY <1>1, OutFacts, WireKinds
<1>3. /\ Head(wire.left) \in Nat /\ Tail(wire.left) \in Seq(Nat)
      /\ Append(outFresh, Head(wire.left)) \o Tail(wire.left) = outFresh \o wire.left
  BY <1>1, <1>2, MoveNumber
<1>4. wire'.kind = "receiving" /\ wire'.to = wire.to /\ wire'.left = Tail(wire.left)
  BY <1>1, <1>2, <1>3, WireGoesOn
<1>5. outBuf' = outBuf
  BY <1>1, <1>2, <1>3, OutFifoStore DEF outVars
<1>6. OutConserved'
  BY <1>1, <1>5, OutFacts DEF OutConserved, hostVars, appVars
<1>7. Receiving' => \/ outState' = "NAK" /\ outNak'
                    \/ outState' = "DATA" /\ ~outNak' /\ outFresh' \o wire'.left = outPkt'
  <2>1. SUFFICES ASSUME endp = "bulk"
                 PROVE  \/ outState' = "NAK" /\ outNak'
                        \/ /\ outState' = "DATA" /\ ~outNak'
                           /\ outFresh' \o wire'.left = outPkt'
    BY <1>1 DEF Receiving
  <2>2. outFresh \o wire.left = outPkt \/ outState = "NAK"
    <3>1. CASE outState = "IDLE"
      <4>1. outFresh = << >> /\ wire.left = outPkt
        BY <1>1, <2>1, <3>1, OutFacts DEF Receiving
      <4>2. << >> \o wire.left = wire.left
        BY <1>2, ConcatSimplifications
      <4>. QED BY <4>1, <4>2
    <3>2. CASE outState = "DATA"
      BY <1>1, <2>1, <3>2, OutFacts DEF Receiving
    <3>. QED BY <1>2, <3>1, <3>2
  <2>3. \/ outState' = "NAK" /\ outNak'
        \/ /\ outState' = "DATA" /\ ~outNak' /\ outState # "NAK"
           /\ outFresh' = Append(outFresh, Head(wire.left))
    BY <1>1, <1>2, <1>3, <2>1, OutFifoStore
  <2>4. outPkt' = outPkt
    BY <1>1 DEF hostVars
  <2>. QED BY <1>3, <1>4, <2>2, <2>3, <2>4
<1>8. outToggle'["bulk"] # hOut'["bulk"] => outPkt' # << >>
  BY <1>1, OutFacts DEF hostVars
<1>. QED BY <1>1, <1>2, <1>4, <1>6, <1>7, <1>8 DEF OutInv

\* The end of a packet that is for the control endpoint, is damaged, or was
\* refused changes nothing.
LEMMA EndOutQuiet ==
  ASSUME BulkInv, TokensGood, OutEnd,
         \/ endp = "ctrl" \/ outNak
         \/ EndOfOut(FALSE) /\ UNCHANGED <<outToggle, hOut, outPkt, acked>>
  PROVE  OutQuiet
<1>1. /\ wire.kind = "receiving" /\ wire' = NoPacket /\ UNCHANGED appVars
      /\ endp = wire.to /\ endp \in Endpoints /\ wire \in WireType
      /\ outToggle \in [Endpoints -> {0, 1}] /\ hOut \in [Endpoints -> {0, 1}]
      /\ "ctrl" \in Endpoints /\ "bulk" \in Endpoints /\ "bulk" # "ctrl"
  BY OutFacts DEF OutEnd, BulkInv, TypeOK, Endpoints
<1>2. CASE endp = "ctrl"
  <2>1. outBuf' = outBuf
    BY <1>1, <1>2 DEF OutEnd, EndOfOut, outVars
  <2>2. outToggle' = outToggle \/ outToggle' = [outToggle EXCEPT !["ctrl"] = Flip(@)]
    BY <1>2 DEF OutEnd
  <2>3. /\ hOut' = hOut \/ hOut' = [hOut EXCEPT !["ctrl"] = Flip(wire.toggle)]
        /\ UNCHANGED <<acked, outPkt>>
    BY <1>1, <1>2 DEF OutEnd, HostAcked
  <2>. QED BY <1>1, <2>1, <2>2, <2>3, PacketFields DEF OutQuiet, appVars
<1>3. CASE endp = "bulk" /\ outNak
  <2>1. outBuf' = outBuf
    BY <1>3 DEF OutEnd, EndOfOut, OutF!End, OutF!Abort
  <2>2. UNCHANGED <<outToggle, hOut, acked, outPkt>>
    BY <1>1, <1>3 DEF OutEnd, Answers, Toggled
  <2>. QED BY <1>1, <2>1, <2>2, PacketFields DEF OutQuiet, appVars
<1>4. CASE EndOfOut(FALSE) /\ UNCHANGED <<outToggle, hOut, outPkt, acked>>
  <2>1. outBuf' = outBuf
    BY <1>4 DEF EndOfOut, OutF!Abort, outVars
  <2>. QED BY <1>1, <1>4, <2>1, PacketFields DEF OutQuiet, appVars
<1>. QED BY <1>1, <1>2, <1>3, <1>4 DEF Endpoints

\* The end of a packet of the bulk pipe that is complete: the host's packet is
\* committed, unless it is there already, and the toggles tell which.
LEMMA EndOutGood ==
  ASSUME BulkInv, TokensGood, OutEnd, endp = "bulk", ~outNak
  PROVE  OutInv'
<1>1. /\ wire.kind = "receiving" /\ wire.left = << >> /\ wire' = NoPacket
      /\ UNCHANGED appVars /\ endp = "bulk" /\ wire.to = "bulk"
      /\ Receiving /\ outPkt # << >> /\ wire.toggle = hOut["bulk"]
      /\ outToggle \in [Endpoints -> {0, 1}] /\ hOut \in [Endpoints -> {0, 1}]
      /\ "bulk" \in Endpoints
  BY OutFacts DEF OutEnd, BulkInv, TypeOK, Endpoints, Receiving
<1>2. /\ outFresh = outPkt /\ outFresh \in Seq(Nat) /\ outPkt \in Seq(Nat)
      /\ outBuf \in Seq(Nat) /\ appGot \in Seq(Nat) /\ Len(outPkt) \in Nat /\ acked \in Nat
  <2>1. /\ outFresh \in Seq(Nat) /\ outPkt \in Seq(Nat) /\ outBuf \in Seq(Nat)
        /\ appGot \in Seq(Nat) /\ acked \in Nat
        /\ outState \in {"IDLE", "DATA", "NAK"}
    BY OutFacts
  <2>2. outState = "DATA" /\ outFresh \o wire.left = outPkt
    BY <1>1, <2>1, OutFacts
  <2>3. outFresh \o << >> = outFresh
    BY <2>1, ConcatSimplifications
  <2>. QED BY <1>1, <2>1, <2>2, <2>3, LenProperties
<1>3. ~Receiving' /\ wire'.kind = "none"
  BY <1>1, PacketFields DEF Receiving
<1>4. (appGot \o outBuf) \o outPkt = appGot \o (outBuf \o outPkt)
  BY <1>2, JoinNumbers
<1>5. /\ Flip(outToggle["bulk"]) \in {0, 1} /\ Flip(outToggle["bulk"]) # outToggle["bulk"]
      /\ Flip(hOut["bulk"]) \in {0, 1} /\ Flip(hOut["bulk"]) # hOut["bulk"]
      /\ outToggle["bulk"] \in {0, 1} /\ hOut["bulk"] \in {0, 1}
  BY <1>1 DEF Flip
<1>6. SUFFICES ASSUME ~(EndOfOut(FALSE) /\ UNCHANGED <<outToggle, hOut, outPkt, acked>>)
               PROVE  OutInv'
  BY EndOutQuiet, QuietOut
<1>7. /\ EndOfOut(Expected)
      /\ outToggle' = IF Expected THEN [outToggle EXCEPT !["bulk"] = Flip(@)] ELSE outToggle
      /\ HostAcked \/ UNCHANGED <<hOut, outPkt, acked>>
  BY <1>1, <1>6 DEF OutEnd, Answers, Toggled
<1>8. /\ Expected <=> outToggle["bulk"] = hOut["bulk"]
      /\ outToggle'["bulk"] = IF Expected THEN Flip(outToggle["bulk"])
                              ELSE outToggle["bulk"]
  BY <1>1, <1>7, FlipKept DEF Expected
<1>9. appGot' \o outBuf' = Stream(acked + Len(outPkt))
  <2>1. CASE Expected
    <3>1. outBuf' = outBuf \o outPkt
      BY <1>1, <1>2, <1>7, <2>1 DEF EndOfOut, OutF!End
    <3>. QED BY <1>1, <1>4, <1>8, <2>1, <3>1, OutStream DEF appVars
  <2>2. CASE ~Expected
    <3>1. outBuf' = outBuf
      BY <1>1, <1>7, <2>2 DEF EndOfOut, OutF!Abort
    <3>. QED BY <1>1, <1>8, <2>2, <3>1, OutStream DEF appVars
  <2>. QED BY <2>1, <2>2
<1>10. CASE HostAcked
  <2>1. /\ hOut' = [hOut EXCEPT !["bulk"] = Flip(@)]
        /\ acked' = acked + Len(outPkt) /\ outPkt' = << >>
    BY <1>1, <1>10 DEF HostAcked
  <2>2. hOut'["bulk"] = Flip(hOut["bulk"])
    BY <1>1, <2>1, FlipKept
  <2>3. outToggle'["bulk"] = hOut'["bulk"]
    BY <1>5, <1>8, <2>2 DEF Flip
  <2>. QED BY <1>3, <1>9, <2>1, <2>3 DEF OutInv, OutConserved
<1>11. CASE UNCHANGED <<hOut, outPkt, acked>>
  <2>1. outToggle'["bulk"] # hOut'["bulk"]
    BY <1>5, <1>8, <1>11
  <2>. QED BY <1>1, <1>3, <1>9, <1>11, <2>1 DEF OutInv, OutConserved
<1>. QED BY <1>7, <1>10, <1>11

\* The application's steps take the oldest committed byte, or nothing.
LEMMA AppOut ==
  ASSUME BulkInv, TokensGood, AppPush \/ AppPop \/ FullRefresh
  PROVE  OutInv'
<1>1. UNCHANGED <<wire, endp, dataNext, outToggle, hOut, outPkt, acked,
                  outFresh, outNak, outState>>
  BY DEF AppPush, AppPop, FullRefresh, sieVars, hostVars, outVars, OutF!Pop, OutF!Refresh
<1>2. appGot' \o outBuf' = appGot \o outBuf
  <2>1. CASE AppPop
    <3>1. outBuf # << >> /\ outBuf' = Tail(outBuf) /\ appGot' = Append(appGot, Head(outBuf))
      BY <2>1 DEF AppPop, OutF!Pop
    <3>. QED BY <3>1, OutFacts, MoveNumber
  <2>2. CASE AppPush \/ FullRefresh
    BY <2>2 DEF AppPush, FullRefresh, OutF!Refresh, outVars, appVars
  <2>. QED BY <2>1, <2>2
<1>3. OutConserved'
  BY <1>1, <1>2, OutFacts DEF OutConserved
<1>4. Receiving' = Receiving
  BY <1>1 DEF Receiving
<1>. QED BY <1>1, <1>3, <1>4, OutFacts DEF OutInv

\* Every step keeps the OUT direction.
LEMMA NextOut ==
  ASSUME BulkInv, Next
  PROVE  OutInv'
<1>1. SUFFICES ASSUME TokensGood' PROVE OutInv'
  BY DEF OutInv, TokensGood
<1>2. TokensGood
  BY <1>1, HostTypes DEF TokensGood
<1>3. endp = "ctrl" \/ endp = "bulk"
  BY DEF BulkInv, TypeOK, Endpoints
<1>4. CASE BulkOut \/ CtrlOut \/ BulkIn \/ CtrlIn \/ InByte \/ InEnd \/ OutBroken
  <2>1. OutQuiet
    BY <1>1, <1>2, <1>4, QuietOutSteps
  <2>. QED BY <1>2, <2>1, QuietOut
<1>5. CASE OutStart
  <2>1. CASE wire' = NoPacket
    BY <1>1, <1>2, <1>5, <2>1, QuietOutSteps, QuietOut
  <2>2. CASE wire' # NoPacket
    BY <1>2, <1>5, <2>2, StartOut
  <2>. QED BY <2>1, <2>2
<1>6. CASE OutByte
  BY <1>2, <1>6, ByteOut
<1>7. CASE OutEnd
  <2>1. CASE endp = "ctrl" \/ outNak
    BY <1>2, <1>7, <2>1, EndOutQuiet, QuietOut
  <2>2. CASE endp = "bulk" /\ ~outNak
    BY <1>2, <1>7, <2>2, EndOutGood
  <2>. QED BY <1>3, <2>1, <2>2
<1>8. CASE AppPush \/ AppPop \/ FullRefresh
  BY <1>2, <1>8, AppOut
<1>. QED BY <1>4, <1>5, <1>6, <1>7, <1>8 DEF Next

-----------------------------------------------------------------------------
(***************************************************************************)
(* The theorems.                                                           *)
(***************************************************************************)

\* The initial state satisfies the invariant: both FIFOs are empty.
LEMMA InitBulkInv == Init => BulkInv
<1>. SUFFICES ASSUME Init PROVE BulkInv
  OBVIOUS
<1>1. TypeOK
  BY InitTypeOK
<1>2. /\ inBuf = << >> /\ inSent = 0 /\ outBuf = << >> /\ outFresh = << >>
      /\ outState = "IDLE" /\ outPkt = << >> /\ acked = 0 /\ hostGot = << >>
      /\ pushed = 0 /\ appGot = << >> /\ wire = NoPacket /\ endp = "ctrl"
      /\ inToggle = [e \in Endpoints |-> 0] /\ outToggle = [e \in Endpoints |-> 0]
      /\ hIn = [e \in Endpoints |-> 0] /\ hOut = [e \in Endpoints |-> 0]
  BY DEF Init, InF!Init, OutF!Init
<1>3. ~inValid
  BY DEF Init, InF!Init
<1>4. /\ Len(<< >>) = 0 /\ OutMax \in Nat \ {0} /\ MaxOut \in Nat
      /\ "bulk" \in Endpoints /\ wire.kind = "none"
  BY <1>2, ConstantsAssumption, PacketFields DEF Endpoints
<1>5. Stream(0) = << >>
  BY StreamIsSeq, EmptySeq
<1>6. << >> \o << >> = << >>
  OBVIOUS
<1>7. FifosRest
  BY <1>2, <1>3, <1>4 DEF FifosRest
<1>8. HostPacket
  BY <1>2, <1>4 DEF HostPacket
<1>9. OutInv
  BY <1>2, <1>4, <1>5, <1>6 DEF OutInv, OutConserved, Receiving
<1>10. InKept
  BY <1>2, <1>4 DEF InKept, Sending
<1>11. InInv
  <2>1. Len(hostGot) = 0 /\ inToggle["bulk"] = hIn["bulk"]
    BY <1>2, <1>4
  <2>2. InOrder /\ \A j \in 1 .. Len(hostGot) : hostGot[j] <= Delivered
    BY <2>1 DEF InOrder
  <2>3. InConserved
    BY <1>2, <1>5, <1>6 DEF InConserved
  <2>. QED BY <2>1, <2>2, <2>3 DEF InInv
<1>. QED BY <1>1, <1>7, <1>8, <1>9, <1>10, <1>11 DEF BulkInv

\* A step in which nothing changes keeps everything.
LEMMA StutterBulkInv ==
  ASSUME BulkInv, UNCHANGED vars
  PROVE  BulkInv'
<1>1. TypeOK' /\ FifosRest' /\ HostPacket'
  BY SMTT(20) DEF BulkInv, vars, sieVars, inVars, outVars, hostVars, appVars, bounds, TypeOK,
         InF!TypeOK, OutF!TypeOK, OutF!Used, FifosRest, Receiving, HostPacket
<1>2. OutInv'
  BY DEF BulkInv, vars, sieVars, inVars, outVars, hostVars, appVars, bounds, OutInv,
         Receiving, OutConserved
<1>3. InKept' /\ InInv'
  BY DEF BulkInv, vars, sieVars, inVars, outVars, hostVars, appVars, bounds, InKept,
         InInv, InOrder, InConserved, Delivered, Sending
<1>. QED BY <1>1, <1>2, <1>3 DEF BulkInv

\* The inductive invariant of the bulk pipe holds in every state, for packets of
\* any size and any number of faults of any kind.
THEOREM BulkInductive == Spec => []BulkInv
<1>1. Init => BulkInv
  BY InitBulkInv
<1>2. BulkInv /\ [Next]_vars => BulkInv'
  <2>1. ASSUME BulkInv, Next PROVE BulkInv'
    BY <2>1, NextTypeOK, NextHostPacket, NextOut, NextIn DEF BulkInv
  <2>. QED BY <2>1, StutterBulkInv
<1>. QED BY <1>1, <1>2, PTL DEF Spec

\* No FIFO of the bulk endpoint ever holds more than its capacity, committed and
\* speculative bytes together, and every register has its type.
THEOREM TypesAndCapacities == Spec => []TypeOK
<1>1. BulkInv => TypeOK
  BY DEF BulkInv
<1>. QED BY <1>1, BulkInductive, PTL

\* While no token is damaged behind its PID or missed, the application gets every
\* byte of the host once and in order, whatever else the line does.
THEOREM OutOnce == Spec => []OutExactlyOnce
<1>1. BulkInv => OutExactlyOnce
  BY DEF BulkInv, OutInv, OutExactlyOnce
<1>. QED BY <1>1, BulkInductive, PTL

\* The host gets no byte of the application twice or out of order, and, while no
\* handshake of it is lost, none is missing.
THEOREM InOnce == Spec => []InExactlyOnce
<1>1. BulkInv => InExactlyOnce
  BY DEF BulkInv, InInv, InExactlyOnce
<1>. QED BY <1>1, BulkInductive, PTL

=============================================================================
