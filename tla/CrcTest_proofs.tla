--------------------------- MODULE CrcTest_proofs ---------------------------
(***************************************************************************)
(* Proofs about the CRC test, for any headers, texts and payloads, sizes   *)
(* of the buffers and numbers of sessions, START headers and lost bytes:   *)
(* unless the link loses a byte, no side shifts the packet of the other;   *)
(* and whatever it loses, the tool's PASS is true of both payloads.        *)
(***************************************************************************)
EXTENDS CrcTestProps, SequenceLemmas, TLAPS

-----------------------------------------------------------------------------
(* The invariant of a link that loses nothing *)
Pcs == {"boot", "start", "header", "payload", "crc", "wait", "receive", "result", "end"}
Tools == {"closed", "drain", "find", "flush", "payload", "send", "sent", "result", "passed", "failed"}
Steps == {"idle", "poll", "store", "clear", "done", "failed"}

\* What the firmware still has to store of the text at hand.
Pending == IF step = "done" THEN Tail(out) ELSE out

\* The place at which no text continues the header.
Mark == CHOOSE i \in 2 .. Len(NiosHeader) : \A t \in ResultTexts : Unlike(t, i)
Clean(s) == Unlike(s, Mark)
CleanTexts == {t \in Seq(Byte) : t # << >> /\ Clean(t)}

CrcTypeOK ==
  /\ pc \in Pcs /\ tool \in Tools /\ step \in Steps
  /\ tx \in Seq(Byte) /\ rx \in Seq(Byte) /\ hostIn \in Seq(Byte) /\ hostOut \in Seq(Byte)
  /\ out \in Seq(Byte) /\ parts \in Seq(CleanTexts)
  /\ at \in 0 .. Count /\ matched \in Nat
  /\ buffer \in Seq(Byte) /\ Len(buffer) <= Count
  /\ got \in Seq(Byte) /\ Len(got) <= Count
  /\ found \in 0 .. Len(NiosHeader)
  /\ packet \in Seq(Byte) /\ text \in Seq(Byte)
  /\ lost \in Nat /\ sessions \in Nat

\* The driver call in progress writes the first byte of the text at hand.
FirmwareRight ==
  /\ pc \in {"header", "crc", "result"} =>
       /\ out # << >> /\ step # "idle"
       /\ step \in {"poll", "store", "clear"} => byte = out[1]
  /\ pc = "boot" => step \in {"clear", "done"} /\ byte = NoByte
  /\ pc \in {"start", "payload", "wait", "receive", "end"} => step = "idle"
  /\ parts # << >> => pc = "result"
  /\ pc \in {"boot", "start", "header"} => at = 0
  /\ pc = "payload" => at < Count
  /\ pc = "result" => Len(buffer) = Count
  /\ pc = "start" => matched < Len(StartHeader)
  /\ pc = "wait" => matched < Len(PcHeader)
  /\ pc \notin {"start", "wait"} => matched = 0

\* What the tool counts, and what it resets before it needs it.
ToolRight ==
  /\ tool # "closed" => sessions > 0
  /\ tool = "drain" => found = 0
  /\ tool \in {"find", "flush"} => found < Len(NiosHeader)
  /\ tool \in {"drain", "find", "flush"} => got = << >>
  /\ tool \in {"drain", "find", "flush", "payload", "send", "sent"} => text = << >>
  /\ tool = "send" => packet # << >>

\* The bytes L that the firmware has stored so far: a part of the packet, or
\* the packet and then texts, some of them cut short.
Planned(L) ==
  \/ \E R \in Seq(Byte) : L \o R = NiosPacket
  \/ \E Z \in Seq(Byte) : L = NiosPacket \o Z /\ Clean(Z)

Written(L) ==
  /\ pc \in {"boot", "start"} => L = << >>
  /\ pc = "header" => L \o Pending = NiosHeader
  /\ pc = "payload" => L = NiosHeader \o SubSeq(NiosPayload, 1, at)
  /\ pc = "crc" => L \o Pending = NiosPacket
  /\ pc \in {"wait", "receive"} => L = NiosPacket
  /\ pc = "result" => \E Z \in Seq(Byte) : L = NiosPacket \o Z /\ Clean(Z \o Pending)
  /\ pc = "end" => Planned(L)
  /\ Len(L) > Len(NiosPacket) => Len(buffer) = Count

\* What is on its way to the tool, and how much of the header it has matched.
Upstream == hostIn \o tx
Seen     == SubSeq(NiosHeader, 1, found)

\* Nothing but START headers has been sent to the firmware.
StartBytes == {StartHeader[i] : i \in 1 .. Len(StartHeader)}
OnlyStarts ==
  /\ tool \in {"closed", "drain", "find", "flush", "payload", "failed"}
  /\ rx \in Seq(StartBytes) /\ hostOut \in Seq(StartBytes)
  /\ buffer = << >> /\ pc \notin {"receive", "result"}
  /\ pc # "start" => matched = 0

\* The tool has found the packet, and sends its own behind START headers.
Received == IF pc = "receive" THEN PcHeader \o buffer ELSE SubSeq(PcHeader, 1, matched)
Downstream(U, D, R) ==
  /\ rx \o hostOut = U \o D /\ Received \o (D \o R) = PcPacket
  /\ U # << >> => Received = << >>
  /\ tool = "send" => R = packet

PacketSent ==
  /\ tool \in {"send", "sent", "result", "passed", "failed"}
  /\ pc \in {"crc", "wait", "receive", "result", "end"}
  /\ pc \in {"crc", "wait"} => buffer = << >>
  /\ buffer = SubSeq(PcPayload, 1, Len(buffer))
  /\ pc \in {"crc", "wait", "receive"} =>
       \E U \in Seq(StartBytes), D, R \in Seq(Byte) : Downstream(U, D, R)

\* The tool has come too late, in a later session.
Late  == sessions >= 2 /\ tool \in {"drain", "find", "flush", "failed"}
Phase == OnlyStarts \/ PacketSent \/ Late

\* What the tool has taken and what is on its way to it is what the firmware
\* stored, without a beginning A that is gone if the search began late.
Heard(L) ==
  /\ tool \in {"find", "flush"} =>
       \E A \in Seq(Byte) : A \o (Seen \o Upstream) = L /\ (~OnlyStarts => A # << >>)
  /\ tool = "payload" => NiosHeader \o (got \o Upstream) = L
  /\ tool \in {"send", "sent", "result"} => NiosPacket \o (text \o Upstream) = L

Stream(L) == Written(L) /\ (~OnlyStarts => L # << >>) /\ Heard(L)
Streams   == \E L \in Seq(Byte) : Stream(L)

\* The tool has taken the beginning of the payload.
GotRight == got = SubSeq(NiosPayload, 1, Len(got))

CrcShape == CrcTypeOK /\ FirmwareRight /\ ToolRight

CrcInv ==
  /\ CrcShape
  /\ lost = 0 => Streams /\ Phase /\ GotRight

-----------------------------------------------------------------------------
\* The constants, one fact at a time.
LEMMA CrcConstants ==
  /\ Count \in Nat \ {0} /\ Base \in Nat \ {0} /\ Base > 1 /\ Hex \in Nat \ {0} /\ StateSize \in Nat \ {0}
  /\ NiosSeed \in Nat /\ PcSeed \in Nat
  /\ Digit \in [0 .. Hex - 1 -> Byte]
  /\ StartHeader \in Seq(Byte) /\ StartHeader # << >>
  /\ NiosHeader \in Seq(Byte) /\ NiosHeader # << >>
  /\ PcHeader \in Seq(Byte) /\ PcHeader # << >>
  /\ PassText \in Seq(Byte) /\ PassText # << >> /\ FailText \in Seq(Byte) /\ FailText # << >>
  /\ PcText \in Seq(Byte) /\ PcText # << >> /\ Newline \in Seq(Byte) /\ Newline # << >>
  /\ \A t \in Stale : t \in Seq(Byte)
  /\ NoByte \notin Byte /\ Byte \subseteq Nat
<1>1. /\ Count \in Nat \ {0} /\ Hex \in Nat \ {0} /\ StateSize \in Nat \ {0}
      /\ NiosSeed \in Nat /\ PcSeed \in Nat /\ Base > 1
      /\ Digit \in [0 .. Hex - 1 -> Byte] /\ \A t \in Stale : t \in Seq(Byte)
  BY CrcTestAssumption
<1>2. \A t \in {StartHeader, NiosHeader, PcHeader, PassText, FailText, PcText, Newline} :
        t \in Seq(Byte) /\ t # << >>
  BY CrcTestAssumption
<1>3. /\ StartHeader \in Seq(Byte) /\ StartHeader # << >>
      /\ NiosHeader \in Seq(Byte) /\ NiosHeader # << >>
      /\ PcHeader \in Seq(Byte) /\ PcHeader # << >>
  BY <1>2
<1>4. /\ PassText \in Seq(Byte) /\ PassText # << >> /\ FailText \in Seq(Byte) /\ FailText # << >>
      /\ PcText \in Seq(Byte) /\ PcText # << >> /\ Newline \in Seq(Byte) /\ Newline # << >>
  BY <1>2
<1>5. Base \in Nat \ {0} /\ NoByte \notin Byte
  BY DriverAssumption DEF Byte
<1>6. Byte \subseteq Nat
  BY <1>5 DEF Byte
<1>. QED BY <1>1, <1>3, <1>4, <1>5, <1>6

LEMMA Lengths ==
  /\ Len(NiosHeader) \in Nat \ {0} /\ Len(PcHeader) \in Nat \ {0} /\ Len(StartHeader) \in Nat \ {0}
<1>1. \A s \in Seq(Byte) : s # << >> => Len(s) \in Nat \ {0}
  OBVIOUS
<1>. QED BY <1>1, CrcConstants

\* The bytes of a concatenation.
LEMMA ConcatIs ==
  ASSUME NEW S, NEW s \in Seq(S), NEW t \in Seq(S)
  PROVE  /\ s \o t \in Seq(S) /\ Len(s \o t) = Len(s) + Len(t)
         /\ Len(s) \in Nat /\ Len(t) \in Nat
         /\ \A i \in 1 .. Len(s) : (s \o t)[i] = s[i]
         /\ \A i \in 1 .. Len(t) : (s \o t)[Len(s) + i] = t[i]
<1>1. /\ s \o t \in Seq(S) /\ Len(s \o t) = Len(s) + Len(t)
      /\ \A i \in 1 .. Len(s) + Len(t) : (s \o t)[i] = IF i <= Len(s) THEN s[i] ELSE t[i - Len(s)]
  BY ConcatProperties
<1>2. Len(s) \in Nat /\ Len(t) \in Nat
  OBVIOUS
<1>3. ASSUME NEW i \in 1 .. Len(s) PROVE (s \o t)[i] = s[i]
  <2>1. i \in 1 .. Len(s) + Len(t) /\ i <= Len(s)
    BY <1>2
  <2>. QED BY <1>1, <2>1
<1>4. ASSUME NEW i \in 1 .. Len(t) PROVE (s \o t)[Len(s) + i] = t[i]
  <2>1. Len(s) + i \in 1 .. Len(s) + Len(t) /\ ~(Len(s) + i <= Len(s)) /\ (Len(s) + i) - Len(s) = i
    BY <1>2
  <2>2. (s \o t)[Len(s) + i] = t[(Len(s) + i) - Len(s)]
    BY <1>1, <2>1
  <2>. QED BY <2>1, <2>2
<1>. QED BY <1>1, <1>2, <1>3, <1>4

LEMMA ConcatEmpty ==
  ASSUME NEW S, NEW s \in Seq(S)
  PROVE  << >> \o s = s /\ s \o << >> = s
OBVIOUS

LEMMA Unit ==
  ASSUME NEW S, NEW b \in S
  PROVE  <<b>> \in Seq(S) /\ Len(<<b>>) = 1 /\ <<b>>[1] = b /\ Tail(<<b>>) = << >> /\ Head(<<b>>) = b
OBVIOUS

\* The generator yields bytes.
LEMMA FillIs ==
  ASSUME NEW seed \in Nat
  PROVE  Fill(seed) \in Seq(Byte) /\ Len(Fill(seed)) = Count
<1>. DEFINE State == CHOOSE state : state = [i \in 0 .. Count |-> IF i = 0 THEN seed ELSE NextState(state[i - 1])]
            T == {k \in Nat : k <= Count => State[k] \in Nat}
<1>1. \A n \in Nat : NextState(n) \in Nat
  BY CrcConstants DEF NextState
<1>2. PICK g \in [(1 .. Count) \X Nat -> Nat] : \A p \in (1 .. Count) \X Nat : g[p] = NextState(p[2])
  <2>. DEFINE h == [p \in (1 .. Count) \X Nat |-> NextState(p[2])]
  <2>1. h \in [(1 .. Count) \X Nat -> Nat] /\ \A p \in (1 .. Count) \X Nat : h[p] = NextState(p[2])
    BY <1>1
  <2>. QED BY <2>1
<1>3. PICK f \in [0 .. Count -> Nat] : f[0] = seed /\ \A i \in 1 .. Count : f[i] = g[<<i, f[i - 1]>>]
  <2>1. Count \in Nat
    BY CrcConstants
  <2>. QED BY <2>1, NatRecursion, Zenon
<1>4. ASSUME NEW i \in 1 .. Count PROVE f[i] = NextState(f[i - 1])
  <2>1. i - 1 \in 0 .. Count
    BY CrcConstants
  <2>2. <<i, f[i - 1]>> \in (1 .. Count) \X Nat /\ <<i, f[i - 1]>>[2] = f[i - 1]
    BY <1>3, <2>1
  <2>. QED BY <1>2, <1>3, <2>2
<1>5. f = [i \in 0 .. Count |-> IF i = 0 THEN seed ELSE NextState(f[i - 1])]
  <2>1. \A i \in 0 .. Count : i = 0 \/ i \in 1 .. Count
    OBVIOUS
  <2>2. \A i \in 0 .. Count : f[i] = IF i = 0 THEN seed ELSE NextState(f[i - 1])
    BY <1>3, <1>4, <2>1
  <2>. QED BY <1>3, <2>2
<1>6. State = [i \in 0 .. Count |-> IF i = 0 THEN seed ELSE NextState(State[i - 1])]
  BY <1>5, Zenon
<1>. HIDE DEF State
<1>7. T = Nat
  <2>1. 0 \in T
    BY <1>6, CrcConstants
  <2>2. ASSUME NEW k \in T PROVE k + 1 \in T
    <3>1. k \in Nat /\ (k <= Count => State[k] \in Nat)
      OBVIOUS
    <3>2. ASSUME k + 1 <= Count PROVE State[k + 1] \in Nat
      <4>1. k + 1 \in 0 .. Count /\ k + 1 # 0 /\ (k + 1) - 1 = k /\ k <= Count
        BY <3>1, <3>2, CrcConstants
      <4>2. State[k + 1] = NextState(State[k])
        BY <1>6, <4>1
      <4>. QED BY <1>1, <3>1, <4>1, <4>2
    <3>. QED BY <3>1, <3>2
  <2>3. T \in SUBSET Nat
    OBVIOUS
  <2>. HIDE DEF T
  <2>. QED BY <2>1, <2>2, <2>3, Induction
<1>8. ASSUME NEW i \in 1 .. Count PROVE RandomByte(State[i]) \in Byte
  <2>1. i \in Nat /\ i <= Count
    BY CrcConstants
  <2>2. State[i] \in Nat
    BY <1>7, <2>1
  <2>. DEFINE h == State[i] \div 2
  <2>3. h \in Int /\ Base - 1 \in Nat \ {0}
    <3>1. 2 \in Nat \ {0} /\ State[i] \in Int
      BY <2>2
    <3>2. h \in Int
      BY <3>1, Division
    <3>. QED BY <3>2, CrcConstants
  <2>. HIDE DEF h
  <2>4. h % (Base - 1) \in 0 .. (Base - 1) - 1
    BY <2>3, Division
  <2>5. (h % (Base - 1)) + 1 \in 0 .. Base - 1
    BY <2>3, <2>4, CrcConstants
  <2>. QED BY <2>5 DEF RandomByte, Byte, h
<1>9. Fill(seed) = [i \in 1 .. Count |-> RandomByte(State[i])]
  BY Zenon DEF Fill, State
<1>. QED BY <1>8, <1>9, CrcConstants

\* The checksum is a byte.
LEMMA CrcIs ==
  ASSUME NEW s \in Seq(Byte)
  PROVE  Crc(s) \in Byte
<1>. DEFINE n == Len(s)
            Sum == CHOOSE sum : sum = [i \in 0 .. n |-> IF i = 0 THEN 0 ELSE sum[i - 1] + s[i]]
            T == {k \in Nat : k <= n => Sum[k] \in Nat}
<1>1. n \in Nat /\ \A i \in 1 .. n : s[i] \in Nat
  <2>1. \A i \in 1 .. Len(s) : s[i] \in Byte
    OBVIOUS
  <2>2. Len(s) \in Nat
    OBVIOUS
  <2>. QED BY <2>1, <2>2, CrcConstants
<1>. HIDE DEF n
<1>2. PICK g \in [(1 .. n) \X Nat -> Nat] : \A p \in (1 .. n) \X Nat : g[p] = p[2] + s[p[1]]
  <2>. DEFINE h == [p \in (1 .. n) \X Nat |-> p[2] + s[p[1]]]
  <2>1. h \in [(1 .. n) \X Nat -> Nat] /\ \A p \in (1 .. n) \X Nat : h[p] = p[2] + s[p[1]]
    BY <1>1
  <2>. QED BY <2>1
<1>3. PICK f \in [0 .. n -> Nat] : f[0] = 0 /\ \A i \in 1 .. n : f[i] = g[<<i, f[i - 1]>>]
  <2>1. n \in Nat /\ 0 \in Nat
    BY <1>1
  <2>. QED BY <2>1, NatRecursion, Zenon
<1>4. ASSUME NEW i \in 1 .. n PROVE f[i] = f[i - 1] + s[i]
  <2>1. i - 1 \in 0 .. n
    BY <1>1
  <2>2. <<i, f[i - 1]>> \in (1 .. n) \X Nat /\ <<i, f[i - 1]>>[2] = f[i - 1] /\ <<i, f[i - 1]>>[1] = i
    BY <1>3, <2>1
  <2>. QED BY <1>2, <1>3, <2>2
<1>5. f = [i \in 0 .. n |-> IF i = 0 THEN 0 ELSE f[i - 1] + s[i]]
  <2>1. \A i \in 0 .. n : i = 0 \/ i \in 1 .. n
    OBVIOUS
  <2>2. \A i \in 0 .. n : f[i] = IF i = 0 THEN 0 ELSE f[i - 1] + s[i]
    BY <1>3, <1>4, <2>1
  <2>. QED BY <1>3, <2>2
<1>6. Sum = [i \in 0 .. n |-> IF i = 0 THEN 0 ELSE Sum[i - 1] + s[i]]
  BY <1>5, Zenon
<1>. HIDE DEF Sum
<1>7. T = Nat
  <2>1. 0 \in T
    BY <1>1, <1>6
  <2>2. ASSUME NEW k \in T PROVE k + 1 \in T
    <3>1. k \in Nat /\ (k <= n => Sum[k] \in Nat)
      OBVIOUS
    <3>2. ASSUME k + 1 <= n PROVE Sum[k + 1] \in Nat
      <4>1. k + 1 \in 0 .. n /\ k + 1 \in 1 .. n /\ k + 1 # 0 /\ (k + 1) - 1 = k /\ k <= n
        BY <1>1, <3>1, <3>2
      <4>2. Sum[k + 1] = Sum[k] + s[k + 1]
        BY <1>6, <4>1
      <4>3. s[k + 1] \in Nat /\ Sum[k] \in Nat
        BY <1>1, <3>1, <4>1
      <4>. QED BY <4>2, <4>3
    <3>. QED BY <3>1, <3>2
  <2>3. T \in SUBSET Nat
    OBVIOUS
  <2>. HIDE DEF T
  <2>. QED BY <2>1, <2>2, <2>3, Induction
<1>8. Sum[n] \in Nat
  <2>1. n \in T
    BY <1>1, <1>7, SMTT(20)
  <2>. QED BY <2>1
<1>9. Crc(s) = Sum[n] % Base
  BY Zenon DEF Crc, Sum, n
<1>10. Sum[n] % Base \in 0 .. Base - 1
  <2>1. Sum[n] \in Int /\ Base \in Nat \ {0}
    BY <1>8, CrcConstants
  <2>. QED BY <2>1, Division
<1>. QED BY <1>9, <1>10 DEF Byte

LEMMA PayloadsAre ==
  /\ NiosPayload \in Seq(Byte) /\ Len(NiosPayload) = Count
  /\ PcPayload \in Seq(Byte) /\ Len(PcPayload) = Count
  /\ <<Crc(NiosPayload)>> \in Seq(Byte) /\ Len(<<Crc(NiosPayload)>>) = 1
  /\ <<Crc(PcPayload)>> \in Seq(Byte) /\ Len(<<Crc(PcPayload)>>) = 1
<1>1. /\ NiosPayload \in Seq(Byte) /\ Len(NiosPayload) = Count
      /\ PcPayload \in Seq(Byte) /\ Len(PcPayload) = Count
  BY FillIs, CrcConstants DEF NiosPayload, PcPayload
<1>. QED BY <1>1, CrcIs

\* The parts of a packet.
LEMMA ThreeParts ==
  ASSUME NEW S, NEW h \in Seq(S), NEW p \in Seq(S), NEW c \in Seq(S)
  PROVE  /\ h \o p \o c \in Seq(S) /\ Len(h \o p \o c) = Len(h) + Len(p) + Len(c)
         /\ h \o p \o c = h \o (p \o c)
         /\ \A i \in 1 .. Len(h) : (h \o p \o c)[i] = h[i]
         /\ \A i \in 1 .. Len(p) : (h \o p \o c)[Len(h) + i] = p[i]
<1>1. /\ h \o p \in Seq(S) /\ Len(h \o p) = Len(h) + Len(p) /\ Len(h) \in Nat /\ Len(p) \in Nat
      /\ \A i \in 1 .. Len(h) : (h \o p)[i] = h[i]
      /\ \A i \in 1 .. Len(p) : (h \o p)[Len(h) + i] = p[i]
  BY ConcatIs
<1>2. PICK u \in Seq(S) : u = h \o p
  BY <1>1
<1>3. /\ u \o c \in Seq(S) /\ Len(u \o c) = Len(u) + Len(c)
      /\ \A i \in 1 .. Len(u) : (u \o c)[i] = u[i]
  BY ConcatIs
<1>4. /\ \A i \in 1 .. Len(h) : i \in 1 .. Len(u)
      /\ \A i \in 1 .. Len(p) : Len(h) + i \in 1 .. Len(u)
  BY <1>1, <1>2
<1>5. u \o c = h \o (p \o c)
  BY <1>2, ConcatAssociative
<1>. QED BY <1>1, <1>2, <1>3, <1>4, <1>5

LEMMA NiosPacketIs ==
  /\ NiosPacket \in Seq(Byte) /\ Len(NiosPacket) = Len(NiosHeader) + Count + 1
  /\ NiosPacket = NiosHeader \o (NiosPayload \o <<Crc(NiosPayload)>>)
  /\ \A i \in 1 .. Len(NiosHeader) : NiosPacket[i] = NiosHeader[i]
  /\ \A i \in 1 .. Count : NiosPacket[Len(NiosHeader) + i] = NiosPayload[i]
<1>1. NiosHeader \in Seq(Byte) /\ NiosPayload \in Seq(Byte) /\ <<Crc(NiosPayload)>> \in Seq(Byte)
  BY CrcConstants, PayloadsAre
<1>. QED BY <1>1, ThreeParts, PayloadsAre, SMTT(20) DEF NiosPacket

LEMMA PcPacketIs ==
  /\ PcPacket \in Seq(Byte) /\ Len(PcPacket) = Len(PcHeader) + Count + 1
  /\ \A i \in 1 .. Len(PcHeader) : PcPacket[i] = PcHeader[i]
  /\ \A i \in 1 .. Count : PcPacket[Len(PcHeader) + i] = PcPayload[i]
<1>1. PcHeader \in Seq(Byte) /\ PcPayload \in Seq(Byte) /\ <<Crc(PcPayload)>> \in Seq(Byte)
  BY CrcConstants, PayloadsAre
<1>. QED BY <1>1, ThreeParts, PayloadsAre DEF PcPacket

\* The first element of a concatenation.
LEMMA TailInside ==
  ASSUME NEW S, NEW s \in Seq(S), NEW t \in Seq(S), s # << >>
  PROVE  /\ s \o t # << >> /\ Head(s \o t) = Head(s) /\ Tail(s \o t) = Tail(s) \o t
         /\ Head(s) = s[1] /\ Head(s) \in S /\ Tail(s) \in Seq(S)
<1>1. /\ s \o t \in Seq(S) /\ Len(s \o t) = Len(s) + Len(t) /\ Len(s) \in Nat /\ Len(t) \in Nat
      /\ \A i \in 1 .. Len(s) : (s \o t)[i] = s[i]
      /\ \A i \in 1 .. Len(t) : (s \o t)[Len(s) + i] = t[i]
  BY ConcatIs
<1>2. PICK u \in Seq(S) : u = s \o t
  BY <1>1
<1>3. Len(s) > 0
  BY <1>1, EmptySeq
<1>4. Head(s) = s[1] /\ Head(s) \in S /\ Tail(s) \in Seq(S) /\ Len(Tail(s)) = Len(s) - 1
  BY HeadTailProperties
<1>5. u # << >> /\ Head(u) = u[1] /\ Tail(u) \in Seq(S) /\ Len(Tail(u)) = Len(u) - 1
  BY <1>1, <1>2, <1>3, HeadTailProperties
<1>6. u[1] = s[1]
  BY <1>1, <1>2, <1>3
<1>7. PICK r \in Seq(S) : r = Tail(s)
  BY <1>4
<1>8. /\ r \o t \in Seq(S) /\ Len(r \o t) = Len(r) + Len(t)
      /\ \A i \in 1 .. Len(r) : (r \o t)[i] = r[i]
      /\ \A i \in 1 .. Len(t) : (r \o t)[Len(r) + i] = t[i]
  BY ConcatIs
<1>9. ASSUME NEW i \in 1 .. Len(Tail(u)) PROVE Tail(u)[i] = (r \o t)[i]
  <2>1. Tail(u)[i] = u[i + 1] /\ i \in Nat \ {0}
    BY <1>2, <1>5
  <2>2. CASE i <= Len(r)
    <3>1. i \in 1 .. Len(r) /\ i + 1 \in 1 .. Len(s)
      BY <1>1, <1>4, <1>7, <2>1, <2>2
    <3>2. r[i] = s[i + 1]
      BY <1>7, <3>1
    <3>. QED BY <1>1, <1>2, <1>8, <2>1, <3>1, <3>2
  <2>3. CASE ~(i <= Len(r))
    <3>1. /\ i - Len(r) \in 1 .. Len(t) /\ Len(r) + (i - Len(r)) = i
          /\ Len(s) + (i - Len(r)) = i + 1
      BY <1>1, <1>2, <1>4, <1>5, <1>7, <2>1, <2>3
    <3>. QED BY <1>1, <1>2, <1>8, <2>1, <3>1
  <2>. QED BY <2>2, <2>3
<1>10. Len(Tail(u)) = Len(r \o t)
  BY <1>1, <1>2, <1>4, <1>5, <1>7, <1>8
<1>11. Tail(u) = r \o t
  BY <1>5, <1>8, <1>9, <1>10, SeqEqual
<1>. QED BY <1>2, <1>4, <1>5, <1>6, <1>7, <1>11

\* Two ways to divide a sequence at one place are the same.
LEMMA SamePrefix ==
  ASSUME NEW S, NEW s \in Seq(S), NEW t \in Seq(S), NEW u \in Seq(S), NEW v \in Seq(S)
  PROVE  s \o t = u \o v /\ Len(s) = Len(u) => s = u /\ t = v
<1>1. /\ Len(s \o t) = Len(s) + Len(t) /\ Len(s) \in Nat /\ Len(t) \in Nat
      /\ \A i \in 1 .. Len(s) : (s \o t)[i] = s[i]
      /\ \A i \in 1 .. Len(t) : (s \o t)[Len(s) + i] = t[i]
  BY ConcatIs
<1>2. /\ Len(u \o v) = Len(u) + Len(v) /\ Len(u) \in Nat /\ Len(v) \in Nat
      /\ \A i \in 1 .. Len(u) : (u \o v)[i] = u[i]
      /\ \A i \in 1 .. Len(v) : (u \o v)[Len(u) + i] = v[i]
  BY ConcatIs
<1>. SUFFICES ASSUME s \o t = u \o v, Len(s) = Len(u) PROVE s = u /\ t = v
  OBVIOUS
<1>3. Len(t) = Len(v)
  BY <1>1, <1>2
<1>4. \A i \in 1 .. Len(s) : s[i] = u[i]
  BY <1>1, <1>2
<1>5. \A i \in 1 .. Len(t) : t[i] = v[i]
  BY <1>1, <1>2, <1>3
<1>6. s = u
  BY <1>4, SeqEqual
<1>7. t = v
  BY <1>3, <1>5, SeqEqual
<1>. QED BY <1>6, <1>7

\* A beginning of a sequence.
LEMMA PrefixIs ==
  ASSUME NEW S, NEW s \in Seq(S), NEW n \in 0 .. Len(s)
  PROVE  /\ SubSeq(s, 1, n) \in Seq(S) /\ Len(SubSeq(s, 1, n)) = n
         /\ \A i \in 1 .. n : SubSeq(s, 1, n)[i] = s[i]
         /\ n = Len(s) => SubSeq(s, 1, n) = s
         /\ n = 0 => SubSeq(s, 1, n) = << >>
<1>1. n \in Nat /\ n <= Len(s) /\ Len(s) \in Nat
  BY LenProperties
<1>2. /\ SubSeq(s, 1, n) \in Seq(S) /\ Len(SubSeq(s, 1, n)) = n
      /\ \A i \in 1 .. n : SubSeq(s, 1, n)[i] = s[i]
  BY <1>1
<1>3. ASSUME n = Len(s) PROVE SubSeq(s, 1, n) = s
  <2>1. PICK p \in Seq(S) : p = SubSeq(s, 1, n)
    BY <1>2
  <2>2. Len(p) = Len(s) /\ \A i \in 1 .. Len(p) : p[i] = s[i]
    BY <1>2, <1>3, <2>1
  <2>3. p = s
    BY <2>2, SeqEqual
  <2>. QED BY <2>1, <2>3
<1>4. n = 0 => SubSeq(s, 1, n) = << >>
  BY <1>2, EmptySeq
<1>. QED BY <1>2, <1>3, <1>4

LEMMA SomePrefix ==
  ASSUME NEW S, NEW s \in Seq(S), NEW n \in 0 .. Len(s)
  PROVE  \E p \in Seq(S) : p = SubSeq(s, 1, n) /\ Len(p) = n
<1>1. SubSeq(s, 1, n) \in Seq(S) /\ Len(SubSeq(s, 1, n)) = n
  BY PrefixIs
<1>. QED BY <1>1, Zenon

LEMMA PrefixGrows ==
  ASSUME NEW S, NEW s \in Seq(S), NEW n \in 0 .. Len(s) - 1
  PROVE  /\ SubSeq(s, 1, n + 1) = Append(SubSeq(s, 1, n), s[n + 1]) /\ s[n + 1] \in S
         /\ SubSeq(s, 1, n) \in Seq(S)
<1>1. Len(s) \in Nat
  BY LenProperties
<1>2. n \in Nat /\ n \in 0 .. Len(s) /\ n + 1 \in 0 .. Len(s) /\ n + 1 \in 1 .. Len(s)
  BY <1>1
<1>3. PICK m \in 0 .. Len(s) : m = n + 1
  BY <1>2
<1>4. /\ SubSeq(s, 1, n) \in Seq(S) /\ Len(SubSeq(s, 1, n)) = n
      /\ \A i \in 1 .. n : SubSeq(s, 1, n)[i] = s[i]
  BY <1>2, PrefixIs
<1>5. /\ SubSeq(s, 1, m) \in Seq(S) /\ Len(SubSeq(s, 1, m)) = m
      /\ \A i \in 1 .. m : SubSeq(s, 1, m)[i] = s[i]
  BY PrefixIs
<1>6. s[n + 1] \in S
  BY <1>2, ElementOfSeq
<1>7. PICK p \in Seq(S), q \in Seq(S) : p = SubSeq(s, 1, n) /\ q = SubSeq(s, 1, m)
  BY <1>4, <1>5
<1>8. PICK e \in S : e = s[n + 1]
  BY <1>6
<1>9. /\ Append(p, e) \in Seq(S) /\ Len(Append(p, e)) = n + 1
      /\ \A i \in 1 .. n : Append(p, e)[i] = p[i]
      /\ Append(p, e)[n + 1] = e
  BY <1>2, <1>4, <1>7, AppendProperties
<1>10. ASSUME NEW i \in 1 .. Len(q) PROVE q[i] = Append(p, e)[i]
  <2>1. i \in 1 .. m /\ (i = n + 1 \/ i \in 1 .. n)
    BY <1>2, <1>3, <1>5, <1>7
  <2>. QED BY <1>3, <1>4, <1>5, <1>7, <1>8, <1>9, <2>1
<1>11. q = Append(p, e)
  <2>1. Len(q) = Len(Append(p, e))
    BY <1>3, <1>5, <1>7, <1>9
  <2>. QED BY <1>9, <1>10, <2>1, SeqEqual
<1>. QED BY <1>3, <1>4, <1>6, <1>7, <1>8, <1>11

\* What the rest of a sequence is.
LEMMA PrefixRest ==
  ASSUME NEW S, NEW s \in Seq(S), NEW n \in 0 .. Len(s)
  PROVE  \E r \in Seq(S) : SubSeq(s, 1, n) \o r = s
<1>1. n \in Nat /\ n <= Len(s) /\ Len(s) \in Nat
  BY LenProperties
<1>2. PICK p \in Seq(S) : p = SubSeq(s, 1, n) /\ Len(p) = n /\ \A i \in 1 .. n : p[i] = s[i]
  BY PrefixIs
<1>. DEFINE r == [i \in 1 .. Len(s) - n |-> s[n + i]]
<1>3. ASSUME NEW i \in 1 .. Len(s) - n PROVE s[n + i] \in S
  <2>1. n + i \in 1 .. Len(s)
    BY <1>1
  <2>. QED BY <2>1, ElementOfSeq
<1>4. r \in Seq(S) /\ Len(r) = Len(s) - n /\ \A i \in 1 .. Len(s) - n : r[i] = s[n + i]
  BY <1>1, <1>3
<1>. HIDE DEF r
<1>5. PICK t \in Seq(S) : t = r
  BY <1>4
<1>6. /\ p \o t \in Seq(S) /\ Len(p \o t) = Len(p) + Len(t)
      /\ \A i \in 1 .. Len(p) : (p \o t)[i] = p[i]
      /\ \A i \in 1 .. Len(t) : (p \o t)[Len(p) + i] = t[i]
  BY ConcatIs
<1>7. ASSUME NEW i \in 1 .. Len(s) PROVE (p \o t)[i] = s[i]
  <2>1. CASE i <= n
    <3>1. i \in 1 .. Len(p)
      BY <1>2, <2>1
    <3>. QED BY <1>2, <1>6, <3>1
  <2>2. CASE ~(i <= n)
    <3>1. i - n \in 1 .. Len(s) - n /\ n + (i - n) = i
      BY <1>1, <2>2
    <3>. QED BY <1>2, <1>4, <1>5, <1>6, <3>1
  <2>. QED BY <2>1, <2>2
<1>8. p \o t = s
  <2>1. Len(p \o t) = Len(s)
    BY <1>1, <1>2, <1>4, <1>5, <1>6
  <2>. QED BY <1>6, <1>7, <2>1, SeqEqual
<1>. QED BY <1>2, <1>8

\* Concatenations may be regrouped.
Regroup(s, t, u) == (s \o t) \o u = s \o (t \o u)

LEMMA Regrouping ==
  ASSUME NEW S, NEW s \in Seq(S), NEW t \in Seq(S), NEW u \in Seq(S)
  PROVE  Regroup(s, t, u)
BY ConcatAssociative DEF Regroup

LEMMA ByteRegrouping ==
  \A s, t, u \in Seq(Byte) : Regroup(s, t, u)
BY Regrouping

\* Appending to a concatenation appends to its second part.
Appending(s, t, e) == Append(s \o t, e) = s \o Append(t, e)

LEMMA ByteAppending ==
  ASSUME NEW s \in Seq(Byte), NEW t \in Seq(Byte), NEW e \in Byte
  PROVE  Appending(s, t, e)
<1>1. /\ Append(t, e) \in Seq(Byte) /\ <<e>> \in Seq(Byte)
      /\ Append(t, e) = t \o <<e>>
  BY Unit, AppendProperties, AppendIsConcat
<1>2. PICK u \in Seq(Byte) : u = s \o t
  BY ConcatIs
<1>3. Append(u, e) = u \o <<e>>
  BY AppendIsConcat
<1>4. Regroup(s, t, <<e>>)
  BY <1>1, ByteRegrouping
<1>. QED BY <1>1, <1>2, <1>3, <1>4 DEF Regroup, Appending

\* Texts.
LEMMA MarkIs ==
  /\ Mark \in 2 .. Len(NiosHeader)
  /\ \A t \in ResultTexts : Clean(t)
<1>1. \E i \in 2 .. Len(NiosHeader) : \A t \in ResultTexts : Unlike(t, i)
  BY HeaderAssumption
<1>2. Mark \in 2 .. Len(NiosHeader) /\ \A t \in ResultTexts : Unlike(t, Mark)
  BY <1>1, Zenon DEF Mark
<1>. QED BY <1>2, Zenon DEF Clean

LEMMA CleanEmpty == Clean(<< >>)
BY DEF Clean, Unlike

LEMMA CleanConcat ==
  ASSUME NEW s \in Seq(Byte), NEW t \in Seq(Byte)
  PROVE  /\ Clean(s) /\ Clean(t) => Clean(s \o t)
         /\ Clean(s \o t) => Clean(s)
<1>1. /\ s \o t \in Seq(Byte) /\ Len(s \o t) = Len(s) + Len(t) /\ Len(s) \in Nat /\ Len(t) \in Nat
      /\ \A i \in 1 .. Len(s) : (s \o t)[i] = s[i]
      /\ \A i \in 1 .. Len(t) : (s \o t)[Len(s) + i] = t[i]
  BY ConcatIs
<1>2. PICK u : u = s \o t
  OBVIOUS
<1>3. PICK a : a = NiosHeader[Mark]
  OBVIOUS
<1>4. PICK b : b = NiosHeader[Mark - 1]
  OBVIOUS
<1>5. \A w : Clean(w) <=> \A j \in 1 .. Len(w) : w[j] = a => j > 1 /\ w[j - 1] # b
  BY <1>3, <1>4 DEF Clean, Unlike
<1>6. ASSUME Clean(s), Clean(t) PROVE Clean(u)
  <2>1. ASSUME NEW j \in 1 .. Len(u), u[j] = a PROVE j > 1 /\ u[j - 1] # b
    <3>1. CASE j <= Len(s)
      <4>1. j \in 1 .. Len(s) /\ s[j] = a
        BY <1>1, <1>2, <2>1, <3>1
      <4>2. j > 1 /\ s[j - 1] # b
        BY <1>5, <1>6, <4>1
      <4>3. j - 1 \in 1 .. Len(s)
        BY <4>1, <4>2, <1>1
      <4>. QED BY <1>1, <1>2, <4>2, <4>3
    <3>2. CASE ~(j <= Len(s))
      <4>1. PICK k \in 1 .. Len(t) : j = Len(s) + k
        <5>1. j - Len(s) \in 1 .. Len(t) /\ j = Len(s) + (j - Len(s))
          BY <1>1, <1>2, <3>2
        <5>. QED BY <5>1
      <4>2. t[k] = a
        BY <1>1, <1>2, <2>1, <4>1
      <4>3. k > 1 /\ t[k - 1] # b
        BY <1>5, <1>6, <4>2
      <4>4. k - 1 \in 1 .. Len(t) /\ j - 1 = Len(s) + (k - 1) /\ j > 1
        BY <4>1, <4>3, <1>1
      <4>. QED BY <1>1, <1>2, <4>3, <4>4
    <3>. QED BY <3>1, <3>2
  <2>. QED BY <1>5, <2>1
<1>7. ASSUME Clean(u) PROVE Clean(s)
  <2>1. ASSUME NEW j \in 1 .. Len(s), s[j] = a PROVE j > 1 /\ s[j - 1] # b
    <3>1. j \in 1 .. Len(u) /\ u[j] = a
      BY <1>1, <1>2, <2>1
    <3>2. j > 1 /\ u[j - 1] # b
      BY <1>5, <1>7, <3>1
    <3>3. j - 1 \in 1 .. Len(s)
      BY <3>2, <1>1
    <3>. QED BY <1>1, <1>2, <3>2, <3>3
  <2>. QED BY <1>5, <2>1
<1>. QED BY <1>2, <1>6, <1>7

\* The texts that the firmware sends behind the packet.
LEMMA TextsAreClean ==
  /\ PassText \in CleanTexts /\ FailText \in CleanTexts /\ PcText \in CleanTexts /\ Newline \in CleanTexts
  /\ \A b \in Byte : HexByte(b) \in CleanTexts
<1>1. /\ PassText \in ResultTexts /\ FailText \in ResultTexts
      /\ PcText \in ResultTexts /\ Newline \in ResultTexts
  BY DEF ResultTexts
<1>2. /\ PassText \in CleanTexts /\ FailText \in CleanTexts /\ PcText \in CleanTexts /\ Newline \in CleanTexts
  BY <1>1, MarkIs, CrcConstants DEF CleanTexts
<1>3. ASSUME NEW b \in Byte PROVE HexByte(b) \in CleanTexts
  <2>1. b \in Int /\ Hex \in Nat \ {0}
    BY CrcConstants
  <2>2. b \div Hex \in Int /\ b % Hex \in 0 .. Hex - 1
    BY <2>1, Division
  <2>3. (b \div Hex) % Hex \in 0 .. Hex - 1
    BY <2>1, <2>2, Division
  <2>4. PICK m \in 0 .. Hex - 1, n \in 0 .. Hex - 1 : m = (b \div Hex) % Hex /\ n = b % Hex
    BY <2>2, <2>3
  <2>5. HexByte(b) = <<Digit[m], Digit[n]>>
    BY <2>4 DEF HexByte
  <2>6. <<Digit[m], Digit[n]>> \in ResultTexts
    BY DEF ResultTexts
  <2>7. Digit[m] \in Byte /\ Digit[n] \in Byte
    BY CrcConstants
  <2>8. <<Digit[m], Digit[n]>> \in Seq(Byte) /\ <<Digit[m], Digit[n]>> # << >>
    BY <2>7
  <2>. QED BY <2>5, <2>6, <2>8, MarkIs DEF CleanTexts
<1>. QED BY <1>2, <1>3

\* Bytes stored so far that are at least a packet begin with the packet.
LEMMA PlannedWhole ==
  ASSUME NEW L \in Seq(Byte), Planned(L)
  PROVE  /\ Len(L) >= Len(NiosPacket) => \E Z \in Seq(Byte) : L = NiosPacket \o Z /\ Clean(Z)
         /\ \A i \in 1 .. Len(L) : i <= Len(NiosPacket) => L[i] = NiosPacket[i]
         /\ Len(L) \in Nat
<1>1. Len(L) \in Nat /\ NiosPacket \in Seq(Byte) /\ Len(NiosPacket) \in Nat
  BY NiosPacketIs, LenProperties
<1>2. CASE \E R \in Seq(Byte) : L \o R = NiosPacket
  <2>1. PICK R \in Seq(Byte) : L \o R = NiosPacket
    BY <1>2
  <2>2. /\ Len(L \o R) = Len(L) + Len(R) /\ Len(R) \in Nat
        /\ \A i \in 1 .. Len(L) : (L \o R)[i] = L[i]
    BY ConcatIs
  <2>3. ASSUME Len(L) >= Len(NiosPacket)
        PROVE  \E Z \in Seq(Byte) : L = NiosPacket \o Z /\ Clean(Z)
    <3>1. Len(R) = 0
      BY <1>1, <2>1, <2>2, <2>3
    <3>2. R = << >>
      BY <3>1, EmptySeq
    <3>3. L = NiosPacket
      BY <2>1, <3>2, ConcatEmpty
    <3>4. << >> \in Seq(Byte) /\ NiosPacket \o << >> = NiosPacket
      BY <1>1, ConcatEmpty
    <3>. QED BY <3>3, <3>4, CleanEmpty
  <2>. QED BY <1>1, <2>1, <2>2, <2>3
<1>3. CASE \E Z \in Seq(Byte) : L = NiosPacket \o Z /\ Clean(Z)
  <2>1. PICK Z \in Seq(Byte) : L = NiosPacket \o Z
    BY <1>3
  <2>2. PICK P \in Seq(Byte) : P = NiosPacket
    BY <1>1
  <2>3. /\ Len(P \o Z) = Len(P) + Len(Z) /\ Len(Z) \in Nat
        /\ \A i \in 1 .. Len(P) : (P \o Z)[i] = P[i]
    BY ConcatIs
  <2>4. ASSUME NEW i \in 1 .. Len(L), i <= Len(NiosPacket) PROVE L[i] = NiosPacket[i]
    <3>1. i \in 1 .. Len(P)
      BY <1>1, <2>2, <2>4
    <3>. QED BY <2>1, <2>2, <2>3, <3>1
  <2>. QED BY <1>1, <1>3, <2>4
<1>. QED BY <1>2, <1>3 DEF Planned

\* The header appears only at the beginning.
LEMMA HeaderOnce ==
  ASSUME NEW L \in Seq(Byte), Planned(L), NEW A \in Seq(Byte), NEW s \in Seq(Byte)
  PROVE  A \o (NiosHeader \o s) = L => A = << >>
<1>0. SUFFICES ASSUME A \o (NiosHeader \o s) = L PROVE A = << >>
  OBVIOUS
<1>. DEFINE q == Len(A)
            h == Len(NiosHeader)
            n == Len(NiosPacket)
<1>1. q \in Nat /\ h \in Nat \ {0} /\ n \in Nat /\ n = h + Count + 1 /\ Count \in Nat
  BY LenProperties, Lengths, NiosPacketIs, CrcConstants
<1>2. PICK u \in Seq(Byte) : /\ u = NiosHeader \o s /\ Len(u) = h + Len(s) /\ Len(s) \in Nat
                             /\ \A i \in 1 .. h : u[i] = NiosHeader[i]
  <2>1. NiosHeader \in Seq(Byte)
    BY CrcConstants
  <2>2. /\ NiosHeader \o s \in Seq(Byte) /\ Len(NiosHeader \o s) = h + Len(s) /\ Len(s) \in Nat
        /\ \A i \in 1 .. h : (NiosHeader \o s)[i] = NiosHeader[i]
    BY <2>1, ConcatIs
  <2>. QED BY <2>2
<1>3. /\ Len(A \o u) = q + Len(u)
      /\ \A i \in 1 .. Len(u) : (A \o u)[q + i] = u[i]
  BY ConcatIs
<1>4. Len(L) = q + (h + Len(s)) /\ \A i \in 1 .. h : L[q + i] = NiosHeader[i]
  <2>1. \A i \in 1 .. h : i \in 1 .. Len(u)
    BY <1>1, <1>2
  <2>. QED BY <1>0, <1>2, <1>3, <2>1
<1>5. /\ n <= Len(L) => \E Z \in Seq(Byte) : L = NiosPacket \o Z /\ Clean(Z)
      /\ \A i \in 1 .. Len(L) : i <= n => L[i] = NiosPacket[i]
      /\ Len(L) \in Nat
  BY PlannedWhole
<1>. HIDE DEF q, h, n
<1>6. q = 0
  <2>. SUFFICES ASSUME q # 0 PROVE FALSE
    OBVIOUS
  <2>1. CASE q <= n - 1
    <3>1. q \in 1 .. n - 1
      BY <1>1, <2>1
    <3>2. PICK i \in 1 .. h : q + i <= n /\ NiosPacket[q + i] # NiosHeader[i]
      BY <3>1, HeaderAssumption DEF h, n
    <3>3. q + i \in 1 .. Len(L)
      BY <1>1, <1>2, <1>4, SMTT(20)
    <3>. QED BY <1>4, <1>5, <3>2, <3>3
  <2>2. CASE ~(q <= n - 1)
    <3>1. n <= Len(L)
      BY <1>1, <1>2, <1>4, <2>2
    <3>2. PICK Z \in Seq(Byte) : L = NiosPacket \o Z /\ Clean(Z)
      BY <1>5, <3>1
    <3>3. PICK P \in Seq(Byte) : P = NiosPacket
      BY NiosPacketIs
    <3>4. /\ Len(P \o Z) = Len(P) + Len(Z) /\ Len(Z) \in Nat
          /\ \A i \in 1 .. Len(Z) : (P \o Z)[Len(P) + i] = Z[i]
      BY ConcatIs
    <3>5. Len(P) = n
      BY <3>3 DEF n
    <3>6. ASSUME NEW i \in 1 .. h
          PROVE  (q - n) + i \in 1 .. Len(Z) /\ Z[(q - n) + i] = NiosHeader[i]
      <4>1. (q - n) + i \in 1 .. Len(Z) /\ n + ((q - n) + i) = q + i
        BY <1>1, <1>2, <1>4, <2>2, <3>2, <3>3, <3>4, <3>5
      <4>. QED BY <1>4, <3>2, <3>3, <3>4, <3>5, <4>1
    <3>7. Mark \in 2 .. h
      BY MarkIs DEF h
    <3>8. Mark \in 1 .. h /\ Mark - 1 \in 1 .. h
      BY <1>1, <3>7
    <3>9. PICK j \in 1 .. Len(Z) : j = (q - n) + Mark /\ Z[j] = NiosHeader[Mark]
      BY <3>6, <3>8
    <3>10. j - 1 = (q - n) + (Mark - 1)
      BY <1>1, <3>7, <3>9
    <3>11. Z[j - 1] = NiosHeader[Mark - 1]
      BY <3>6, <3>8, <3>10
    <3>12. Z[j - 1] # NiosHeader[Mark - 1]
      BY <3>2, <3>9 DEF Clean, Unlike
    <3>. QED BY <3>11, <3>12
  <2>. QED BY <2>1, <2>2
<1>. QED BY <1>6, EmptySeq DEF q

\* What follows the header is the payload.
LEMMA PayloadRight ==
  ASSUME NEW L \in Seq(Byte), Planned(L), NEW g \in Seq(Byte), NEW s \in Seq(Byte),
         Len(g) <= Count
  PROVE  NiosHeader \o (g \o s) = L => g = SubSeq(NiosPayload, 1, Len(g))
<1>0. SUFFICES ASSUME NiosHeader \o (g \o s) = L PROVE g = SubSeq(NiosPayload, 1, Len(g))
  OBVIOUS
<1>. DEFINE h == Len(NiosHeader)
<1>1. h \in Nat \ {0} /\ Len(NiosPacket) = h + Count + 1 /\ Count \in Nat /\ Len(g) \in Nat
      /\ NiosHeader \in Seq(Byte)
  BY LenProperties, Lengths, NiosPacketIs, CrcConstants
<1>2. PICK u \in Seq(Byte) : /\ u = g \o s /\ Len(u) = Len(g) + Len(s) /\ Len(s) \in Nat
                             /\ \A i \in 1 .. Len(g) : u[i] = g[i]
  <2>1. /\ g \o s \in Seq(Byte) /\ Len(g \o s) = Len(g) + Len(s) /\ Len(s) \in Nat
        /\ \A i \in 1 .. Len(g) : (g \o s)[i] = g[i]
    BY ConcatIs
  <2>. QED BY <2>1
<1>3. /\ Len(NiosHeader \o u) = h + Len(u)
      /\ \A i \in 1 .. Len(u) : (NiosHeader \o u)[h + i] = u[i]
  BY <1>1, ConcatIs
<1>4. Len(L) = h + (Len(g) + Len(s)) /\ \A i \in 1 .. Len(g) : L[h + i] = g[i]
  <2>1. \A i \in 1 .. Len(g) : i \in 1 .. Len(u)
    BY <1>1, <1>2
  <2>. QED BY <1>0, <1>2, <1>3, <2>1
<1>5. \A i \in 1 .. Len(L) : i <= Len(NiosPacket) => L[i] = NiosPacket[i]
  BY PlannedWhole
<1>6. \A i \in 1 .. Count : NiosPacket[h + i] = NiosPayload[i]
  BY NiosPacketIs
<1>. HIDE DEF h
<1>7. ASSUME NEW i \in 1 .. Len(g) PROVE g[i] = NiosPayload[i]
  <2>1. i \in 1 .. Count /\ h + i \in 1 .. Len(L) /\ h + i <= Len(NiosPacket)
    BY <1>1, <1>2, <1>4
  <2>2. L[h + i] = NiosPacket[h + i]
    BY <1>5, <2>1
  <2>. QED BY <1>4, <1>6, <2>1, <2>2
<1>8. Len(g) \in 0 .. Len(NiosPayload)
  BY <1>1, PayloadsAre
<1>9. PICK p \in Seq(Byte) : /\ p = SubSeq(NiosPayload, 1, Len(g)) /\ Len(p) = Len(g)
                             /\ \A i \in 1 .. Len(g) : p[i] = NiosPayload[i]
  <2>1. PICK x \in Seq(Byte) : x = NiosPayload
    BY PayloadsAre
  <2>2. PICK m \in 0 .. Len(x) : m = Len(g)
    BY <1>8, <2>1
  <2>3. /\ SubSeq(x, 1, m) \in Seq(Byte) /\ Len(SubSeq(x, 1, m)) = m
        /\ \A i \in 1 .. m : SubSeq(x, 1, m)[i] = x[i]
    BY PrefixIs
  <2>. QED BY <2>1, <2>2, <2>3
<1>10. g = p
  BY <1>7, <1>9, SeqEqual
<1>. QED BY <1>9, <1>10

\* The byte behind the payload is its checksum, the last of the packet.
LEMMA CrcRight ==
  ASSUME NEW L \in Seq(Byte), Planned(L), NEW g \in Seq(Byte), NEW s \in Seq(Byte),
         Len(g) = Count, s # << >>
  PROVE  NiosHeader \o (g \o s) = L => NiosPacket \o Tail(s) = L
<1>0. SUFFICES ASSUME NiosHeader \o (g \o s) = L PROVE NiosPacket \o Tail(s) = L
  OBVIOUS
<1>1. NiosHeader \in Seq(Byte) /\ Count \in Nat /\ Len(NiosHeader) \in Nat
      /\ NiosPacket \in Seq(Byte) /\ Len(NiosPacket) = Len(NiosHeader) + Count + 1
  BY CrcConstants, NiosPacketIs, Lengths
<1>2. Head(s) \in Byte /\ Tail(s) \in Seq(Byte) /\ Len(Tail(s)) = Len(s) - 1
      /\ Append(g, Head(s)) \o Tail(s) = g \o s
  BY MoveHead
<1>3. PICK a \in Seq(Byte) : a = Append(g, Head(s)) /\ Len(a) = Count + 1
  BY <1>2, AppendProperties
<1>4. PICK t \in Seq(Byte) : t = Tail(s)
  BY <1>2
<1>5. PICK H \in Seq(Byte) : H = NiosHeader
  BY <1>1
<1>6. PICK x \in Seq(Byte) : x = H \o a /\ Len(x) = Len(H) + Len(a)
  BY ConcatIs
<1>7. x \o t = H \o (a \o t)
  <2>1. Regroup(H, a, t)
    BY ByteRegrouping
  <2>. QED BY <1>6, <2>1 DEF Regroup
<1>8. x \o t = L
  BY <1>0, <1>2, <1>3, <1>4, <1>5, <1>7
<1>9. Len(x) = Len(NiosPacket)
  BY <1>1, <1>3, <1>5, <1>6
<1>10. Len(x \o t) = Len(x) + Len(t) /\ Len(x) \in Nat /\ Len(t) \in Nat
  BY ConcatIs
<1>11. Len(L) >= Len(NiosPacket)
  BY <1>8, <1>9, <1>10
<1>12. PICK Z \in Seq(Byte) : L = NiosPacket \o Z
  BY <1>11, PlannedWhole
<1>13. PICK P \in Seq(Byte) : P = NiosPacket
  BY <1>1
<1>14. x \o t = P \o Z /\ Len(x) = Len(P)
  BY <1>8, <1>9, <1>12, <1>13
<1>15. x = P /\ t = Z
  BY <1>14, SamePrefix
<1>. QED BY <1>4, <1>8, <1>13, <1>15

-----------------------------------------------------------------------------
(* Every step keeps the shape. *)

LEMMA TextIs ==
  ASSUME NEW t \in Seq(Byte), t # << >>
  PROVE  /\ t[1] \in Byte /\ Head(t) = t[1] /\ Tail(t) \in Seq(Byte) /\ Len(t) \in Nat \ {0}
         /\ Len(t) > 1 => Tail(t) # << >> /\ Tail(t)[1] = t[2] /\ t[2] \in Byte
         /\ ~(Len(t) > 1) => Tail(t) = << >>
<1>1. Len(t) \in Nat \ {0}
  OBVIOUS
<1>2. t[1] \in Byte /\ Head(t) = t[1] /\ Tail(t) \in Seq(Byte) /\ Len(Tail(t)) = Len(t) - 1
  BY <1>1, HeadTailProperties
<1>3. ASSUME Len(t) > 1 PROVE Tail(t) # << >> /\ Tail(t)[1] = t[2] /\ t[2] \in Byte
  <2>1. 2 \in 1 .. Len(t) /\ 1 \in 1 .. Len(t) - 1
    BY <1>1, <1>3
  <2>2. t[2] \in Byte
    BY <2>1, ElementOfSeq
  <2>3. Len(Tail(t)) # 0
    BY <1>1, <1>2, <1>3
  <2>4. Tail(t) # << >>
    BY <1>2, <2>3, EmptySeq
  <2>5. \A i \in 1 .. Len(t) - 1 : Tail(t)[i] = t[i + 1]
    BY <1>1
  <2>6. Tail(t)[1] = t[1 + 1]
    BY <2>1, <2>5
  <2>. QED BY <2>2, <2>4, <2>6
<1>4. ASSUME ~(Len(t) > 1) PROVE Tail(t) = << >>
  <2>1. Len(Tail(t)) = 0
    BY <1>1, <1>2, <1>4
  <2>. QED BY <1>2, <2>1, EmptySeq
<1>. QED BY <1>1, <1>2, <1>3, <1>4

\* The driver acts only while a text is written, or at the start.
LEMMA DriverActs ==
  ASSUME CrcShape, step \in {"poll", "store"}
  PROVE  pc \in {"header", "crc", "result"} /\ byte = out[1] /\ byte \in Byte /\ byte # NoByte
         /\ out # << >> /\ out \in Seq(Byte)
<1>1. pc \in Pcs /\ out \in Seq(Byte)
  BY DEF CrcShape, CrcTypeOK
<1>2. pc \in {"header", "crc", "result"}
  BY <1>1 DEF CrcShape, FirmwareRight, Pcs
<1>3. byte = out[1] /\ out # << >>
  BY <1>2 DEF CrcShape, FirmwareRight
<1>4. out[1] \in Byte /\ NoByte \notin Byte
  BY <1>1, <1>3, TextIs, CrcConstants
<1>. QED BY <1>1, <1>2, <1>3, <1>4

LEMMA ShapeOfDriver ==
  ASSUME CrcShape, Driver
  PROVE  CrcShape'
<1>1. /\ UNCHANGED <<pc, out, parts, at, matched, buffer>>
      /\ UNCHANGED <<tool, found, got, niosPass, starts, packet, text, sessions>>
      /\ UNCHANGED <<hostIn, hostOut, lost>>
  BY DEF Driver, firmwareVars, toolVars, linkVars
<1>2. CrcTypeOK /\ FirmwareRight /\ ToolRight
  BY DEF CrcShape
<1>3. ToolRight'
  BY <1>1, <1>2 DEF ToolRight
<1>4. CASE RaiseError
  <2>1. UNCHANGED <<tx, rx, step, byte>>
    BY <1>4 DEF RaiseError, driverVars
  <2>2. CrcTypeOK'
    BY <1>1, <1>2, <2>1 DEF CrcTypeOK
  <2>3. FirmwareRight'
    BY <1>1, <1>2, <2>1 DEF FirmwareRight
  <2>. QED BY <1>3, <2>2, <2>3 DEF CrcShape
<1>5. CASE Poll
  <2>1. UNCHANGED <<tx, rx>> /\ step = "poll" /\ step' \in {"poll", "clear", "store", "failed"}
        /\ (step' # "failed" => byte' = byte)
    BY <1>5 DEF Poll, Return
  <2>2. CrcTypeOK'
    BY <1>1, <1>2, <2>1 DEF CrcTypeOK, Steps
  <2>3. pc \in {"header", "crc", "result"} /\ byte = out[1] /\ out # << >>
    BY <2>1, DriverActs
  <2>4. FirmwareRight'
    BY <1>1, <1>2, <2>1, <2>3 DEF FirmwareRight
  <2>. QED BY <1>3, <2>2, <2>4 DEF CrcShape
<1>6. CASE Store
  <2>1. UNCHANGED rx /\ step = "store" /\ step' = "done" /\ tx' = Append(tx, byte)
    BY <1>6 DEF Store, StoreByte, Return
  <2>2. pc \in {"header", "crc", "result"} /\ byte \in Byte /\ out # << >>
    BY <2>1, DriverActs
  <2>3. tx' \in Seq(Byte)
    BY <1>2, <2>1, <2>2 DEF CrcTypeOK
  <2>4. CrcTypeOK'
    BY <1>1, <1>2, <2>1, <2>3 DEF CrcTypeOK, Steps
  <2>5. FirmwareRight'
    BY <1>1, <1>2, <2>1, <2>2 DEF FirmwareRight
  <2>. QED BY <1>3, <2>4, <2>5 DEF CrcShape
<1>7. CASE ClearAndWait
  <2>1. UNCHANGED <<tx, rx, byte>> /\ step = "clear"
        /\ step' \in {"clear", "done", "poll"} /\ (byte = NoByte => step' # "poll")
        /\ (byte # NoByte => step' # "done")
    BY <1>7 DEF ClearAndWait
  <2>2. CrcTypeOK'
    BY <1>1, <1>2, <2>1 DEF CrcTypeOK, Steps
  <2>3. pc \in Pcs /\ out \in Seq(Byte)
    BY <1>2 DEF CrcTypeOK
  <2>4. CASE pc = "boot"
    <3>1. FirmwareRight'
      BY <1>1, <1>2, <2>1, <2>4 DEF FirmwareRight
    <3>. QED BY <1>3, <2>2, <3>1 DEF CrcShape
  <2>5. CASE pc # "boot"
    <3>1. pc \in {"header", "crc", "result"} /\ byte = out[1] /\ out # << >>
      BY <1>2, <2>1, <2>3, <2>5 DEF FirmwareRight, Pcs
    <3>2. FirmwareRight'
      BY <1>1, <1>2, <2>1, <3>1 DEF FirmwareRight
    <3>. QED BY <1>3, <2>2, <3>2 DEF CrcShape
  <2>. QED BY <2>4, <2>5
<1>. QED BY <1>4, <1>5, <1>6, <1>7 DEF Driver, DriverNext

\* What the firmware's steps leave to the tool and the link.
LEMMA ToolRightStays ==
  ASSUME CrcShape, UNCHANGED toolVars
  PROVE  ToolRight'
BY DEF CrcShape, ToolRight, toolVars

LEMMA ShapeOfBoot ==
  ASSUME CrcShape, Firmware(Boot)
  PROVE  CrcShape'
<1>1. /\ UNCHANGED <<tool, found, got, packet, text, sessions, hostIn, hostOut, lost>>
      /\ UNCHANGED <<tx, rx, byte, out, parts, at, matched, buffer>>
      /\ pc = "boot" /\ pc' = "start" /\ step' = "idle" /\ UNCHANGED toolVars
  BY DEF Firmware, Boot, toolVars, linkVars, slaveVars
<1>2. CrcTypeOK /\ FirmwareRight
  BY DEF CrcShape
<1>3. CrcTypeOK'
  BY <1>1, <1>2 DEF CrcTypeOK, Pcs, Steps
<1>4. FirmwareRight'
  BY <1>1, <1>2, Lengths DEF FirmwareRight
<1>. QED BY <1>1, <1>3, <1>4, ToolRightStays DEF CrcShape

\* One byte of a header.
LEMMA MatchIs ==
  ASSUME NEW H \in Seq(Byte), H # << >>, NEW n \in Nat, n < Len(H), NEW b \in Byte
  PROVE  /\ Match(H, n, b) \in Nat /\ Match(H, n, b) <= Len(H)
         /\ Match(H, n, b) % Len(H) \in Nat /\ Match(H, n, b) % Len(H) < Len(H)
         /\ Match(H, n, b) < Len(H) => Match(H, n, b) % Len(H) = Match(H, n, b)
         /\ Match(H, n, b) = Len(H) => Match(H, n, b) % Len(H) = 0
<1>1. Len(H) \in Nat \ {0}
  OBVIOUS
<1>2. Match(H, n, b) \in {n + 1, 1, 0}
  BY DEF Match
<1>3. PICK m \in Nat : m = Match(H, n, b) /\ m <= Len(H)
  BY <1>1, <1>2
<1>4. PICK k \in Nat \ {0} : k = Len(H)
  BY <1>1
<1>5. m % k \in 0 .. k - 1
  <2>1. m \in Int
    OBVIOUS
  <2>. QED BY <2>1, Division
<1>6. ASSUME m < k PROVE m % k = m
  <2>1. m \in 0 .. k - 1
    BY <1>6
  <2>. QED BY <2>1, ModSmall
<1>7. ASSUME m = k PROVE m % k = 0
  <2>1. m \in k .. (2 * k) - 1
    BY <1>7
  <2>2. m % k = m - k
    BY <2>1, ModOnce
  <2>. QED BY <1>7, <2>2
<1>. QED BY <1>3, <1>4, <1>5, <1>6, <1>7

\* The byte that a read takes.
LEMMA ReadIs ==
  ASSUME rx \in Seq(Byte), ReadByte
  PROVE  rx # << >> /\ Head(rx) \in Byte /\ rx' \in Seq(Byte) /\ rx' = Tail(rx) /\ UNCHANGED tx
<1>1. rx # << >> /\ rx' = Tail(rx) /\ UNCHANGED tx
  BY DEF ReadByte
<1>2. Head(rx) \in Byte /\ Tail(rx) \in Seq(Byte)
  BY <1>1, TextIs
<1>. QED BY <1>1, <1>2

LEMMA ShapeOfWaitStart ==
  ASSUME CrcShape, Firmware(WaitForHeader("start", StartHeader))
  PROVE  CrcShape'
<1>. DEFINE n == Match(StartHeader, matched, Head(rx))
<1>1. /\ UNCHANGED <<tool, found, got, packet, text, sessions, hostIn, hostOut, lost>>
      /\ UNCHANGED <<parts, at, buffer>> /\ UNCHANGED toolVars
      /\ pc = "start" /\ ReadByte /\ matched' = n % Len(StartHeader)
      /\ n < Len(StartHeader) => UNCHANGED <<pc, out, step, byte>>
      /\ ~(n < Len(StartHeader)) => /\ pc' = "header" /\ out' = NiosHeader
                                    /\ step' = "poll" /\ byte' = NiosHeader[1]
  BY DEF Firmware, WaitForHeader, toolVars, linkVars, driverVars, WriteByte
<1>2. CrcTypeOK /\ FirmwareRight
  BY DEF CrcShape
<1>3. Head(rx) \in Byte /\ rx' \in Seq(Byte) /\ UNCHANGED tx /\ matched \in Nat /\ matched < Len(StartHeader)
  <2>1. rx \in Seq(Byte)
    BY <1>2 DEF CrcTypeOK
  <2>2. matched \in Nat /\ matched < Len(StartHeader)
    BY <1>1, <1>2 DEF CrcTypeOK, FirmwareRight
  <2>. QED BY <1>1, <2>1, <2>2, ReadIs
<1>4. /\ n \in Nat /\ n <= Len(StartHeader) /\ n % Len(StartHeader) \in Nat
      /\ n % Len(StartHeader) < Len(StartHeader)
      /\ n = Len(StartHeader) => n % Len(StartHeader) = 0
  BY <1>3, CrcConstants, MatchIs
<1>. HIDE DEF n
<1>5. CASE n < Len(StartHeader)
  <2>1. UNCHANGED <<pc, out, step, byte>>
    BY <1>1, <1>5
  <2>2. matched' \in Nat /\ matched' < Len(StartHeader)
    BY <1>1, <1>4
  <2>3. CrcTypeOK'
    BY <1>1, <1>2, <1>3, <2>1, <2>2 DEF CrcTypeOK
  <2>4. FirmwareRight'
    BY <1>1, <1>2, <2>1, <2>2 DEF FirmwareRight
  <2>. QED BY <1>1, <2>3, <2>4, ToolRightStays DEF CrcShape
<1>6. CASE ~(n < Len(StartHeader))
  <2>1. /\ pc' = "header" /\ out' = NiosHeader /\ step' = "poll" /\ byte' = NiosHeader[1]
        /\ matched' = 0
    BY <1>1, <1>4, <1>6, Lengths
  <2>2. out' \in Seq(Byte) /\ matched' \in Nat
    BY <2>1, CrcConstants
  <2>3. CrcTypeOK'
    BY <1>1, <1>2, <1>3, <2>1, <2>2 DEF CrcTypeOK, Pcs, Steps
  <2>4. FirmwareRight'
    BY <1>1, <1>2, <2>1, CrcConstants DEF FirmwareRight
  <2>. QED BY <1>1, <2>3, <2>4, ToolRightStays DEF CrcShape
<1>. QED BY <1>5, <1>6

LEMMA ShapeOfWaitPc ==
  ASSUME CrcShape, Firmware(WaitForHeader("wait", PcHeader))
  PROVE  CrcShape'
<1>. DEFINE n == Match(PcHeader, matched, Head(rx))
<1>1. /\ UNCHANGED <<tool, found, got, packet, text, sessions, hostIn, hostOut, lost>>
      /\ UNCHANGED <<parts, at, buffer, out, step, byte>> /\ UNCHANGED toolVars
      /\ pc = "wait" /\ ReadByte /\ matched' = n % Len(PcHeader)
      /\ n < Len(PcHeader) => UNCHANGED pc
      /\ ~(n < Len(PcHeader)) => pc' = "receive"
  BY DEF Firmware, WaitForHeader, toolVars, linkVars, driverVars
<1>2. CrcTypeOK /\ FirmwareRight
  BY DEF CrcShape
<1>3. Head(rx) \in Byte /\ rx' \in Seq(Byte) /\ UNCHANGED tx /\ matched \in Nat /\ matched < Len(PcHeader)
  <2>1. rx \in Seq(Byte)
    BY <1>2 DEF CrcTypeOK
  <2>2. matched \in Nat /\ matched < Len(PcHeader)
    BY <1>1, <1>2 DEF CrcTypeOK, FirmwareRight
  <2>. QED BY <1>1, <2>1, <2>2, ReadIs
<1>4. /\ n \in Nat /\ n <= Len(PcHeader) /\ n % Len(PcHeader) \in Nat
      /\ n % Len(PcHeader) < Len(PcHeader)
      /\ n = Len(PcHeader) => n % Len(PcHeader) = 0
  BY <1>3, CrcConstants, MatchIs
<1>. HIDE DEF n
<1>5. CASE n < Len(PcHeader)
  <2>1. UNCHANGED pc
    BY <1>1, <1>5
  <2>2. matched' \in Nat /\ matched' < Len(PcHeader)
    BY <1>1, <1>4
  <2>3. CrcTypeOK'
    BY <1>1, <1>2, <1>3, <2>1, <2>2 DEF CrcTypeOK
  <2>4. FirmwareRight'
    BY <1>1, <1>2, <2>1, <2>2 DEF FirmwareRight
  <2>. QED BY <1>1, <2>3, <2>4, ToolRightStays DEF CrcShape
<1>6. CASE ~(n < Len(PcHeader))
  <2>1. pc' = "receive" /\ matched' = 0
    BY <1>1, <1>4, <1>6, Lengths
  <2>2. CrcTypeOK'
    BY <1>1, <1>2, <1>3, <2>1, SMTT(20) DEF CrcTypeOK, Pcs
  <2>3. FirmwareRight'
    BY <1>1, <1>2, <2>1 DEF FirmwareRight
  <2>. QED BY <1>1, <2>2, <2>3, ToolRightStays DEF CrcShape
<1>. QED BY <1>5, <1>6

\* The next text of the result line.
LEMMA PartIs ==
  ASSUME CrcShape, parts # << >>
  PROVE  /\ Head(parts) \in Seq(Byte) /\ Head(parts) # << >> /\ Clean(Head(parts))
         /\ Head(parts)[1] \in Byte /\ Tail(parts) \in Seq(CleanTexts) /\ pc = "result"
<1>1. parts \in Seq(CleanTexts)
  BY DEF CrcShape, CrcTypeOK
<1>2. Head(parts) \in CleanTexts /\ Tail(parts) \in Seq(CleanTexts)
  BY <1>1, HeadTailProperties
<1>3. Head(parts) \in Seq(Byte) /\ Head(parts) # << >> /\ Clean(Head(parts))
  BY <1>2 DEF CleanTexts
<1>4. pc = "result"
  BY DEF CrcShape, FirmwareRight
<1>. QED BY <1>2, <1>3, <1>4, TextIs

LEMMA ShapeOfWrote ==
  ASSUME CrcShape, Firmware(Wrote)
  PROVE  CrcShape'
<1>1. /\ UNCHANGED <<tool, found, got, packet, text, sessions, hostIn, hostOut, lost>>
      /\ UNCHANGED <<tx, rx, at, matched, buffer>> /\ UNCHANGED toolVars
      /\ step = "done" /\ pc \in {"header", "crc", "result"}
  BY DEF Firmware, Wrote, toolVars, linkVars, slaveVars
<1>2. CrcTypeOK /\ FirmwareRight
  BY DEF CrcShape
<1>3. out \in Seq(Byte) /\ out # << >>
  BY <1>1, <1>2 DEF CrcTypeOK, FirmwareRight
<1>4. CASE Len(out) > 1
  <2>1. out' = Tail(out) /\ step' = "poll" /\ byte' = out[2] /\ UNCHANGED <<pc, parts>>
    BY <1>4 DEF Firmware, Wrote, WriteByte
  <2>2. Tail(out) # << >> /\ Tail(out)[1] = out[2] /\ Tail(out) \in Seq(Byte)
    BY <1>3, <1>4, TextIs
  <2>3. CrcTypeOK'
    BY <1>1, <1>2, <2>1, <2>2 DEF CrcTypeOK, Steps
  <2>4. FirmwareRight'
    BY <1>1, <1>2, <2>1, <2>2 DEF FirmwareRight
  <2>. QED BY <1>1, <2>3, <2>4, ToolRightStays DEF CrcShape
<1>5. CASE ~(Len(out) > 1) /\ parts # << >>
  <2>1. /\ out' = Head(parts) /\ parts' = Tail(parts) /\ UNCHANGED pc
        /\ step' = "poll" /\ byte' = Head(parts)[1]
    BY <1>5 DEF Firmware, Wrote, WriteByte
  <2>2. /\ Head(parts) \in Seq(Byte) /\ Head(parts) # << >>
        /\ Tail(parts) \in Seq(CleanTexts) /\ pc = "result"
    BY <1>5, PartIs
  <2>3. CrcTypeOK'
    BY <1>1, <1>2, <2>1, <2>2 DEF CrcTypeOK, Steps
  <2>4. FirmwareRight'
    BY <1>1, <1>2, <2>1, <2>2 DEF FirmwareRight
  <2>. QED BY <1>1, <2>3, <2>4, ToolRightStays DEF CrcShape
<1>6. CASE ~(Len(out) > 1) /\ parts = << >>
  <2>1. /\ out' = << >> /\ step' = "idle" /\ UNCHANGED <<parts, byte>>
        /\ pc' = CASE pc = "header" -> "payload" [] pc = "crc" -> "wait" [] OTHER -> "end"
    BY <1>6 DEF Firmware, Wrote
  <2>2. pc' = (IF pc = "header" THEN "payload" ELSE IF pc = "crc" THEN "wait" ELSE "end")
    BY <1>1, <2>1
  <2>3. << >> \in Seq(Byte)
    OBVIOUS
  <2>4. CrcTypeOK'
    BY <1>1, <1>2, <2>1, <2>2, <2>3 DEF CrcTypeOK, Steps, Pcs
  <2>5. at = 0 => at < Count
    BY CrcConstants
  <2>6. FirmwareRight'
    BY <1>1, <1>2, <1>6, <2>1, <2>2, <2>5, Lengths DEF FirmwareRight
  <2>. QED BY <1>1, <2>4, <2>6, ToolRightStays DEF CrcShape
<1>. QED BY <1>4, <1>5, <1>6

LEMMA ShapeOfWriteFailed ==
  ASSUME CrcShape, WriteFailed
  PROVE  CrcShape'
<1>1. /\ UNCHANGED <<tool, found, got, packet, text, sessions, hostIn, hostOut, lost>>
      /\ UNCHANGED <<tx, rx, at, matched, buffer>> /\ UNCHANGED toolVars
      /\ step = "failed"
  BY DEF WriteFailed, toolVars, linkVars, slaveVars
<1>2. CrcTypeOK /\ FirmwareRight
  BY DEF CrcShape
<1>3. pc \in {"header", "crc", "result"}
  <2>1. pc \in Pcs
    BY <1>2 DEF CrcTypeOK
  <2>. QED BY <1>1, <1>2, <2>1 DEF FirmwareRight, Pcs
<1>4. CASE parts # << >>
  <2>1. /\ out' = Head(parts) /\ parts' = Tail(parts) /\ UNCHANGED pc
        /\ step' = "poll" /\ byte' = Head(parts)[1]
    BY <1>4 DEF WriteFailed, WriteByte
  <2>2. /\ Head(parts) \in Seq(Byte) /\ Head(parts) # << >>
        /\ Tail(parts) \in Seq(CleanTexts) /\ pc = "result"
    BY <1>4, PartIs
  <2>3. CrcTypeOK'
    BY <1>1, <1>2, <2>1, <2>2 DEF CrcTypeOK, Steps
  <2>4. FirmwareRight'
    BY <1>1, <1>2, <2>1, <2>2 DEF FirmwareRight
  <2>. QED BY <1>1, <2>3, <2>4, ToolRightStays DEF CrcShape
<1>5. CASE parts = << >>
  <2>1. out' = << >> /\ step' = "idle" /\ UNCHANGED <<parts, byte>> /\ pc' = "end"
    BY <1>5 DEF WriteFailed
  <2>2. << >> \in Seq(Byte)
    OBVIOUS
  <2>3. CrcTypeOK'
    BY <1>1, <1>2, <2>1, <2>2 DEF CrcTypeOK, Steps, Pcs
  <2>4. FirmwareRight'
    BY <1>1, <1>2, <1>3, <1>5, <2>1 DEF FirmwareRight
  <2>. QED BY <1>1, <2>3, <2>4, ToolRightStays DEF CrcShape
<1>. QED BY <1>4, <1>5

LEMMA ShapeOfSendPayload ==
  ASSUME CrcShape, Firmware(SendPayload)
  PROVE  CrcShape'
<1>1. /\ UNCHANGED <<tool, found, got, packet, text, sessions, hostIn, hostOut, lost>>
      /\ UNCHANGED <<rx, parts, matched, buffer>> /\ UNCHANGED toolVars
      /\ pc = "payload" /\ at' = at + 1 /\ tx' = Append(tx, NiosPayload[at + 1])
      /\ ~(at' >= Count) => UNCHANGED <<pc, out, step, byte>>
      /\ at' >= Count => /\ pc' = "crc" /\ out' = <<Crc(NiosPayload)>>
                         /\ step' = "poll" /\ byte' = Crc(NiosPayload)
  BY DEF Firmware, SendPayload, PayloadSent, StoreByte, WriteByte, toolVars, linkVars, driverVars
<1>2. CrcTypeOK /\ FirmwareRight
  BY DEF CrcShape
<1>3. Count \in Nat /\ at \in 0 .. Count /\ at < Count
  BY <1>1, <1>2, CrcConstants DEF CrcTypeOK, FirmwareRight
<1>4. at' \in 0 .. Count /\ at + 1 \in 1 .. Count
  BY <1>1, <1>3
<1>5. NiosPayload[at + 1] \in Byte
  BY <1>4, PayloadsAre, ElementOfSeq
<1>6. tx' \in Seq(Byte)
  BY <1>1, <1>2, <1>5 DEF CrcTypeOK
<1>7. CASE ~(at' >= Count)
  <2>1. UNCHANGED <<pc, out, step, byte>> /\ at' < Count
    BY <1>1, <1>4, <1>7, <1>3
  <2>2. CrcTypeOK'
    BY <1>1, <1>2, <1>4, <1>6, <2>1 DEF CrcTypeOK
  <2>3. FirmwareRight'
    BY <1>1, <1>2, <2>1 DEF FirmwareRight
  <2>. QED BY <1>1, <2>2, <2>3, ToolRightStays DEF CrcShape
<1>8. CASE at' >= Count
  <2>1. pc' = "crc" /\ out' = <<Crc(NiosPayload)>> /\ step' = "poll" /\ byte' = Crc(NiosPayload)
    BY <1>1, <1>8
  <2>2. Crc(NiosPayload) \in Byte
    BY PayloadsAre, CrcIs
  <2>3. out' \in Seq(Byte) /\ out' # << >> /\ byte' = out'[1]
    BY <2>1, <2>2
  <2>4. CrcTypeOK'
    BY <1>1, <1>2, <1>4, <1>6, <2>1, <2>3 DEF CrcTypeOK, Pcs, Steps
  <2>5. FirmwareRight'
    BY <1>1, <1>2, <2>1, <2>3 DEF FirmwareRight
  <2>. QED BY <1>1, <2>4, <2>5, ToolRightStays DEF CrcShape
<1>. QED BY <1>7, <1>8

LEMMA ShapeOfReceivePayload ==
  ASSUME CrcShape, Firmware(ReceivePayload)
  PROVE  CrcShape'
<1>1. /\ UNCHANGED <<tool, found, got, packet, text, sessions, hostIn, hostOut, lost>>
      /\ UNCHANGED <<pc, out, parts, at, matched, step, byte>> /\ UNCHANGED toolVars
      /\ pc = "receive" /\ Len(buffer) < Count /\ ReadByte /\ buffer' = Append(buffer, Head(rx))
  BY DEF Firmware, ReceivePayload, toolVars, linkVars, driverVars
<1>2. CrcTypeOK /\ FirmwareRight
  BY DEF CrcShape
<1>3. Head(rx) \in Byte /\ rx' \in Seq(Byte) /\ UNCHANGED tx
  <2>1. rx \in Seq(Byte)
    BY <1>2 DEF CrcTypeOK
  <2>. QED BY <1>1, <2>1, ReadIs
<1>4. buffer' \in Seq(Byte) /\ Len(buffer') <= Count
  <2>1. buffer \in Seq(Byte)
    BY <1>2 DEF CrcTypeOK
  <2>2. Append(buffer, Head(rx)) \in Seq(Byte) /\ Len(Append(buffer, Head(rx))) = Len(buffer) + 1
        /\ Len(buffer) \in Nat
    BY <1>3, <2>1, AppendProperties
  <2>. QED BY <1>1, <2>2, CrcConstants
<1>5. CrcTypeOK'
  BY <1>1, <1>2, <1>3, <1>4 DEF CrcTypeOK
<1>6. FirmwareRight'
  BY <1>1, <1>2 DEF FirmwareRight
<1>. QED BY <1>1, <1>5, <1>6, ToolRightStays DEF CrcShape

LEMMA ShapeOfReceiveCrc ==
  ASSUME CrcShape, Firmware(ReceiveCrc)
  PROVE  /\ CrcShape' /\ Clean(out') /\ out' # << >>
<1>. DEFINE verdict == IF Crc(buffer) = Head(rx) THEN PassText ELSE FailText
<1>1. /\ UNCHANGED <<tool, found, got, packet, text, sessions, hostIn, hostOut, lost>>
      /\ UNCHANGED <<at, matched, buffer>> /\ UNCHANGED toolVars
      /\ pc = "receive" /\ Len(buffer) = Count /\ ReadByte /\ pc' = "result"
      /\ out' = verdict /\ step' = "poll" /\ byte' = verdict[1]
      /\ parts' = <<HexByte(Crc(buffer)), PcText, HexByte(Head(rx)), Newline>>
  BY DEF Firmware, ReceiveCrc, toolVars, linkVars, WriteByte
<1>2. CrcTypeOK /\ FirmwareRight
  BY DEF CrcShape
<1>3. Head(rx) \in Byte /\ rx' \in Seq(Byte) /\ UNCHANGED tx /\ buffer \in Seq(Byte)
  <2>1. rx \in Seq(Byte) /\ buffer \in Seq(Byte)
    BY <1>2 DEF CrcTypeOK
  <2>. QED BY <1>1, <2>1, ReadIs
<1>4. verdict \in CleanTexts
  BY TextsAreClean
<1>5. verdict \in Seq(Byte) /\ verdict # << >> /\ Clean(verdict)
  BY <1>4 DEF CleanTexts
<1>6. parts' \in Seq(CleanTexts)
  <2>1. Crc(buffer) \in Byte
    BY <1>3, CrcIs
  <2>2. HexByte(Crc(buffer)) \in CleanTexts /\ HexByte(Head(rx)) \in CleanTexts
    BY <1>3, <2>1, TextsAreClean
  <2>3. PcText \in CleanTexts /\ Newline \in CleanTexts
    BY TextsAreClean
  <2>. QED BY <1>1, <2>2, <2>3
<1>. HIDE DEF verdict
<1>7. CrcTypeOK'
  BY <1>1, <1>2, <1>3, <1>5, <1>6 DEF CrcTypeOK, Pcs, Steps
<1>8. FirmwareRight'
  BY <1>1, <1>2, <1>5 DEF FirmwareRight
<1>. QED BY <1>1, <1>5, <1>7, <1>8, ToolRightStays DEF CrcShape

\* The link.
LEMMA FirmwareRightStays ==
  ASSUME CrcShape, UNCHANGED firmwareVars, UNCHANGED driverVars
  PROVE  FirmwareRight'
BY DEF CrcShape, FirmwareRight, firmwareVars, driverVars

LEMMA ShapeOfLink ==
  ASSUME CrcShape, LinkNext
  PROVE  CrcShape'
<1>1. /\ UNCHANGED driverVars /\ UNCHANGED firmwareVars /\ UNCHANGED toolVars
      /\ UNCHANGED <<pc, out, parts, at, matched, buffer, step, byte>>
      /\ UNCHANGED <<tool, found, got, packet, text, sessions>>
  BY DEF LinkNext, driverVars, firmwareVars, toolVars
<1>2. CrcTypeOK
  BY DEF CrcShape
<1>3. FirmwareRight' /\ ToolRight'
  BY <1>1, FirmwareRightStays, ToolRightStays
<1>4. tx \in Seq(Byte) /\ rx \in Seq(Byte) /\ hostIn \in Seq(Byte) /\ hostOut \in Seq(Byte) /\ lost \in Nat
  BY <1>2 DEF CrcTypeOK
<1>5. CASE Upload
  <2>1. /\ tx # << >> /\ tx' = Tail(tx) /\ UNCHANGED <<rx, hostOut>>
        /\ \/ hostIn' = Append(hostIn, Head(tx)) /\ lost' = lost
           \/ hostIn' = hostIn /\ lost' = lost + 1
    BY <1>5 DEF Upload
  <2>2. Head(tx) \in Byte /\ Tail(tx) \in Seq(Byte)
    BY <1>4, <2>1, TextIs
  <2>3. Append(hostIn, Head(tx)) \in Seq(Byte) /\ lost + 1 \in Nat
    BY <1>4, <2>2
  <2>4. hostIn' \in Seq(Byte) /\ lost' \in Nat
    BY <1>4, <2>1, <2>3
  <2>5. CrcTypeOK'
    BY <1>1, <1>2, <2>1, <2>2, <2>4 DEF CrcTypeOK
  <2>. QED BY <1>3, <2>5 DEF CrcShape
<1>6. CASE Download
  <2>1. /\ hostOut # << >> /\ hostOut' = Tail(hostOut) /\ UNCHANGED <<tx, hostIn>>
        /\ \/ rx' = Append(rx, Head(hostOut)) /\ lost' = lost
           \/ rx' = rx /\ lost' = lost + 1
    BY <1>6 DEF Download
  <2>2. Head(hostOut) \in Byte /\ Tail(hostOut) \in Seq(Byte)
    BY <1>4, <2>1, TextIs
  <2>3. Append(rx, Head(hostOut)) \in Seq(Byte) /\ lost + 1 \in Nat
    BY <1>4, <2>2
  <2>4. rx' \in Seq(Byte) /\ lost' \in Nat
    BY <1>4, <2>1, <2>3
  <2>5. CrcTypeOK'
    BY <1>1, <1>2, <2>1, <2>2, <2>4 DEF CrcTypeOK
  <2>. QED BY <1>3, <2>5 DEF CrcShape
<1>. QED BY <1>5, <1>6 DEF LinkNext

\* What every step of the tool leaves alone.
LEMMA ToolFrame ==
  ASSUME CrcShape, UNCHANGED <<slaveVars, driverVars, firmwareVars>>
  PROVE  /\ UNCHANGED <<tx, rx, step, byte, pc, out, parts, at, matched, buffer>>
         /\ FirmwareRight'
<1>1. UNCHANGED <<tx, rx, step, byte, pc, out, parts, at, matched, buffer>>
  BY DEF slaveVars, driverVars, firmwareVars
<1>2. FirmwareRight'
  BY FirmwareRightStays
<1>. QED BY <1>1, <1>2

LEMMA ShapeOfOpenPort ==
  ASSUME CrcShape, OpenPort, UNCHANGED <<slaveVars, driverVars, firmwareVars>>
  PROVE  CrcShape'
<1>1. /\ UNCHANGED <<tx, rx, step, byte, pc, out, parts, at, matched, buffer>> /\ FirmwareRight'
  BY ToolFrame
<1>2. /\ sessions' = sessions + 1 /\ tool' = "drain" /\ found' = 0 /\ got' = << >>
      /\ packet' = << >> /\ text' = << >> /\ hostIn' = << >> /\ hostOut' = << >> /\ lost' = lost
  BY DEF OpenPort
<1>3. << >> \in Seq(Byte) /\ Len(<< >>) = 0 /\ 0 \in 0 .. Len(NiosHeader) /\ 0 <= Count
  BY Lengths, CrcConstants
<1>4. CrcTypeOK'
  BY <1>1, <1>2, <1>3 DEF CrcShape, CrcTypeOK, Tools
<1>5. sessions \in Nat
  BY DEF CrcShape, CrcTypeOK
<1>6. ToolRight'
  BY <1>2, <1>5, Lengths DEF ToolRight
<1>. QED BY <1>1, <1>4, <1>6 DEF CrcShape

LEMMA ShapeOfDeadline ==
  ASSUME CrcShape, Deadline
  PROVE  CrcShape'
<1>1. /\ UNCHANGED <<tx, rx, step, byte, pc, out, parts, at, matched, buffer>> /\ FirmwareRight'
  BY ToolFrame DEF Deadline
<1>2. UNCHANGED <<found, got, packet, text, sessions, hostIn, hostOut, lost>>
  BY DEF Deadline, Expire, linkVars
<1>3. tool' \in {"passed", "failed"}
  BY Zenon DEF Deadline, Expire, Verdict
<1>4. CrcTypeOK'
  BY <1>1, <1>2, <1>3 DEF CrcShape, CrcTypeOK, Tools
<1>5. sessions > 0
  BY Zenon DEF CrcShape, ToolRight, Deadline, Expire, Deadlines
<1>6. ToolRight'
  BY <1>2, <1>3, <1>5 DEF ToolRight
<1>. QED BY <1>1, <1>4, <1>6 DEF CrcShape

\* The byte that the tool takes.
LEMMA TakeIs ==
  ASSUME CrcShape, Take
  PROVE  hostIn # << >> /\ hostIn' = Tail(hostIn) /\ hostIn' \in Seq(Byte)
         /\ Head(hostIn) \in Byte /\ hostIn \in Seq(Byte)
<1>1. hostIn \in Seq(Byte) /\ hostIn # << >> /\ hostIn' = Tail(hostIn)
  BY DEF CrcShape, CrcTypeOK, Take
<1>. QED BY <1>1, TextIs

LEMMA ShapeOfToolStep ==
  ASSUME CrcShape, ToolStep
  PROVE  CrcShape'
<1>1. /\ UNCHANGED <<tx, rx, step, byte, pc, out, parts, at, matched, buffer>> /\ FirmwareRight'
  BY ToolFrame DEF ToolStep
<1>2. CrcTypeOK /\ ToolRight
  BY DEF CrcShape
<1>3. << >> \in Seq(Byte) /\ Len(NiosHeader) \in Nat \ {0} /\ Count \in Nat \ {0}
  BY Lengths, CrcConstants
<1>4. CASE Drain
  <2>1. Take /\ UNCHANGED <<tool, found, got, packet, text, sessions, hostOut, lost>>
    BY <1>4 DEF Drain, toolVars
  <2>2. hostIn' \in Seq(Byte)
    BY <2>1, TakeIs
  <2>3. CrcTypeOK' /\ ToolRight'
    BY <1>1, <1>2, <2>1, <2>2 DEF CrcTypeOK, ToolRight
  <2>. QED BY <1>1, <2>3 DEF CrcShape
<1>5. CASE Quiet
  <2>1. /\ tool = "drain" /\ tool' = "find"
        /\ UNCHANGED <<found, got, packet, text, sessions, hostIn, hostOut, lost>>
    BY <1>5 DEF Quiet, linkVars
  <2>2. CrcTypeOK'
    BY <1>1, <1>2, <2>1 DEF CrcTypeOK, Tools
  <2>3. ToolRight'
    BY <1>2, <1>3, <2>1 DEF ToolRight
  <2>. QED BY <1>1, <2>2, <2>3 DEF CrcShape
<1>6. CASE SendStart
  <2>1. /\ tool = "find" /\ tool' = "flush" /\ hostOut' = hostOut \o StartHeader
        /\ UNCHANGED <<found, got, packet, text, sessions, hostIn, lost>>
    BY <1>6 DEF SendStart
  <2>2. hostOut' \in Seq(Byte)
    <3>1. hostOut \in Seq(Byte) /\ StartHeader \in Seq(Byte)
      BY <1>2, CrcConstants DEF CrcTypeOK
    <3>. QED BY <2>1, <3>1, ConcatIs
  <2>3. CrcTypeOK'
    BY <1>1, <1>2, <2>1, <2>2 DEF CrcTypeOK, Tools
  <2>4. ToolRight'
    BY <1>2, <2>1 DEF ToolRight
  <2>. QED BY <1>1, <2>3, <2>4 DEF CrcShape
<1>7. CASE Flushed
  <2>1. /\ tool \in {"flush", "sent"} /\ tool' = IF tool = "flush" THEN "find" ELSE "result"
        /\ UNCHANGED <<found, got, packet, text, sessions, hostIn, hostOut, lost>>
    BY <1>7 DEF Flushed, linkVars
  <2>2. CrcTypeOK'
    BY <1>1, <1>2, <2>1 DEF CrcTypeOK, Tools
  <2>3. ToolRight'
    BY <1>2, <2>1 DEF ToolRight
  <2>. QED BY <1>1, <2>2, <2>3 DEF CrcShape
<1>8. CASE FindHeader
  <2>1. /\ tool = "find" /\ Take /\ found' = Match(NiosHeader, found, Head(hostIn))
        /\ tool' = IF found' = Len(NiosHeader) THEN "payload" ELSE "find"
        /\ UNCHANGED <<got, packet, text, sessions, hostOut, lost>>
    BY <1>8 DEF FindHeader
  <2>2. hostIn' \in Seq(Byte) /\ Head(hostIn) \in Byte
    BY <2>1, TakeIs
  <2>3. found \in Nat /\ found < Len(NiosHeader)
    BY <1>2, <1>3, <2>1 DEF CrcTypeOK, ToolRight
  <2>4. found' \in 0 .. Len(NiosHeader)
    <3>1. NiosHeader \in Seq(Byte) /\ NiosHeader # << >>
      BY CrcConstants
    <3>2. /\ Match(NiosHeader, found, Head(hostIn)) \in Nat
          /\ Match(NiosHeader, found, Head(hostIn)) <= Len(NiosHeader)
      BY <2>2, <2>3, <3>1, MatchIs
    <3>. QED BY <1>3, <2>1, <3>2
  <2>5. CrcTypeOK'
    BY <1>1, <1>2, <2>1, <2>2, <2>4 DEF CrcTypeOK, Tools
  <2>6. ToolRight'
    BY <1>2, <1>3, <2>1, <2>4 DEF ToolRight
  <2>. QED BY <1>1, <2>5, <2>6 DEF CrcShape
<1>9. CASE ReadPayload
  <2>1. /\ tool = "payload" /\ Len(got) < Count /\ Take /\ got' = Append(got, Head(hostIn))
        /\ UNCHANGED <<tool, found, packet, text, sessions, hostOut, lost>>
    BY <1>9 DEF ReadPayload
  <2>2. hostIn' \in Seq(Byte) /\ Head(hostIn) \in Byte
    BY <2>1, TakeIs
  <2>3. got' \in Seq(Byte) /\ Len(got') <= Count
    <3>1. got \in Seq(Byte)
      BY <1>2 DEF CrcTypeOK
    <3>2. Append(got, Head(hostIn)) \in Seq(Byte) /\ Len(Append(got, Head(hostIn))) = Len(got) + 1
          /\ Len(got) \in Nat
      BY <2>2, <3>1, AppendProperties
    <3>. QED BY <1>3, <2>1, <3>2
  <2>4. CrcTypeOK'
    BY <1>1, <1>2, <2>1, <2>2, <2>3 DEF CrcTypeOK
  <2>5. ToolRight'
    BY <1>2, <2>1 DEF ToolRight
  <2>. QED BY <1>1, <2>4, <2>5 DEF CrcShape
<1>10. CASE ReadCrc
  <2>1. /\ tool = "payload" /\ Take /\ packet' = PcPacket /\ tool' = "send"
        /\ UNCHANGED <<found, got, text, sessions, hostOut, lost>>
    BY <1>10 DEF ReadCrc
  <2>2. hostIn' \in Seq(Byte)
    BY <2>1, TakeIs
  <2>3. packet' \in Seq(Byte) /\ packet' # << >>
    <3>1. PcPacket \in Seq(Byte) /\ Len(PcPacket) = Len(PcHeader) + Count + 1
      BY PcPacketIs
    <3>2. Len(PcPacket) # 0
      BY <3>1, <1>3, Lengths
    <3>. QED BY <2>1, <3>1, <3>2, EmptySeq
  <2>4. CrcTypeOK'
    BY <1>1, <1>2, <2>1, <2>2, <2>3 DEF CrcTypeOK, Tools
  <2>5. ToolRight'
    BY <1>2, <2>1, <2>3 DEF ToolRight
  <2>. QED BY <1>1, <2>4, <2>5 DEF CrcShape
<1>11. CASE WriteChunk
  <2>1. /\ tool = "send" /\ hostOut' = Append(hostOut, Head(packet)) /\ packet' = Tail(packet)
        /\ tool' = IF packet' = << >> THEN "sent" ELSE "send"
        /\ UNCHANGED <<found, got, text, sessions, hostIn, lost>>
    BY <1>11 DEF WriteChunk
  <2>2. packet \in Seq(Byte) /\ packet # << >> /\ hostOut \in Seq(Byte)
    BY <1>2, <2>1 DEF CrcTypeOK, ToolRight
  <2>3. packet' \in Seq(Byte) /\ Head(packet) \in Byte
    BY <2>1, <2>2, TextIs
  <2>4. hostOut' \in Seq(Byte)
    BY <2>1, <2>2, <2>3
  <2>5. CrcTypeOK'
    BY <1>1, <1>2, <2>1, <2>3, <2>4 DEF CrcTypeOK, Tools
  <2>6. ToolRight'
    BY <1>2, <2>1 DEF ToolRight
  <2>. QED BY <1>1, <2>5, <2>6 DEF CrcShape
<1>12. CASE ReadResult
  <2>1. /\ tool = "result" /\ Take /\ text' = Append(text, Head(hostIn))
        /\ UNCHANGED <<found, got, packet, sessions, hostOut, lost>>
    BY <1>12 DEF ReadResult
  <2>2. tool' \in {"passed", "failed", "result"}
    BY <1>12, Zenon DEF ReadResult, Verdict
  <2>3. hostIn' \in Seq(Byte) /\ Head(hostIn) \in Byte
    BY <2>1, TakeIs
  <2>4. text' \in Seq(Byte)
    BY <1>2, <2>1, <2>3 DEF CrcTypeOK
  <2>5. CrcTypeOK'
    BY <1>1, <1>2, <2>1, <2>2, <2>3, <2>4 DEF CrcTypeOK, Tools
  <2>6. ToolRight'
    BY <1>2, <2>1, <2>2 DEF ToolRight
  <2>. QED BY <1>1, <2>5, <2>6 DEF CrcShape
<1>. QED BY <1>4, <1>5, <1>6, <1>7, <1>8, <1>9, <1>10, <1>11, <1>12 DEF ToolStep

LEMMA ShapeStutter ==
  ASSUME CrcShape, UNCHANGED vars
  PROVE  CrcShape'
BY DEF CrcShape, CrcTypeOK, FirmwareRight, ToolRight, vars, slaveVars, driverVars,
       firmwareVars, toolVars, linkVars

\* The shape is an invariant.
LEMMA ShapeInit == Init => CrcShape
<1>. SUFFICES ASSUME Init PROVE CrcShape
  OBVIOUS
<1>1. << >> \in Seq(Byte) /\ << >> \in Seq(CleanTexts) /\ Len(<< >>) = 0
  OBVIOUS
<1>2. tx \in Seq(Byte)
  BY CrcConstants DEF Init
<1>3. Len(NiosHeader) \in Nat \ {0} /\ Count \in Nat \ {0}
  BY Lengths, CrcConstants
<1>4. CrcTypeOK
  BY <1>1, <1>2, <1>3 DEF Init, DriverInit, CrcTypeOK, Pcs, Tools, Steps
<1>5. FirmwareRight
  BY DEF Init, DriverInit, FirmwareRight
<1>6. ToolRight
  BY DEF Init, ToolRight
<1>. QED BY <1>4, <1>5, <1>6 DEF CrcShape

LEMMA ShapeStep == CrcShape /\ [Next]_vars => CrcShape'
<1>. SUFFICES ASSUME CrcShape, [Next]_vars PROVE CrcShape'
  OBVIOUS
<1>1. CASE FirmwareNext
  <2>1. ASSUME Firmware(Reception) PROVE Firmware(ReceivePayload) \/ Firmware(ReceiveCrc)
    BY <2>1 DEF Firmware, Reception
  <2>. QED BY <1>1, <2>1, ShapeOfDriver, ShapeOfBoot, ShapeOfWaitStart, ShapeOfWaitPc, ShapeOfWrote,
           ShapeOfWriteFailed, ShapeOfSendPayload, ShapeOfReceivePayload, ShapeOfReceiveCrc DEF FirmwareNext
<1>2. CASE LinkNext
  BY <1>2, ShapeOfLink
<1>3. CASE ToolNext
  BY <1>3, ShapeOfToolStep, ShapeOfDeadline, ShapeOfOpenPort DEF ToolNext
<1>4. CASE UNCHANGED vars
  BY <1>4, ShapeStutter
<1>. QED BY <1>1, <1>2, <1>3, <1>4 DEF Next

-----------------------------------------------------------------------------
(* What the firmware has stored. *)

\* What is left of a text is a text.
LEMMA PendingIs ==
  ASSUME CrcShape, pc \in {"header", "crc", "result"}
  PROVE  Pending \in Seq(Byte) /\ out \in Seq(Byte) /\ out # << >>
<1>1. out \in Seq(Byte) /\ out # << >>
  BY DEF CrcShape, CrcTypeOK, FirmwareRight
<1>2. Tail(out) \in Seq(Byte)
  BY <1>1, TextIs
<1>. QED BY <1>1, <1>2 DEF Pending

LEMMA WrittenIsPlanned ==
  ASSUME CrcShape, NEW L \in Seq(Byte), Written(L)
  PROVE  Planned(L)
<1>0. pc \in Pcs
  BY DEF CrcShape, CrcTypeOK
<1>1. PICK P \in Seq(Byte) : P = NiosPacket
  BY NiosPacketIs
<1>2. PICK h \in Seq(Byte), p \in Seq(Byte), c \in Seq(Byte) :
        h = NiosHeader /\ p = NiosPayload /\ c = <<Crc(NiosPayload)>>
  BY CrcConstants, PayloadsAre
<1>3. P = h \o (p \o c) /\ p \o c \in Seq(Byte)
  BY <1>1, <1>2, NiosPacketIs, ConcatIs
<1>4. SUFFICES ASSUME pc # "end" PROVE Planned(L)
  BY DEF Written
<1>5. CASE pc \in {"boot", "start"}
  <2>1. L = << >>
    BY <1>5 DEF Written
  <2>2. L \o P = P
    BY <2>1, ConcatEmpty
  <2>. QED BY <1>1, <2>2 DEF Planned
<1>6. CASE pc = "header"
  <2>1. PICK q \in Seq(Byte) : q = Pending
    BY <1>6, PendingIs
  <2>2. L \o q = h
    BY <1>2, <1>6, <2>1 DEF Written
  <2>3. PICK r \in Seq(Byte) : r = p \o c
    BY <1>3
  <2>4. Regroup(L, q, r)
    BY ByteRegrouping
  <2>5. L \o (q \o r) = (L \o q) \o r /\ q \o r \in Seq(Byte)
    BY <2>4, ConcatIs DEF Regroup
  <2>6. L \o (q \o r) = P
    BY <1>3, <2>2, <2>3, <2>5
  <2>. QED BY <1>1, <2>5, <2>6 DEF Planned
<1>7. CASE pc = "payload"
  <2>1. at \in 0 .. Count
    BY DEF CrcShape, CrcTypeOK
  <2>2. PICK n \in 0 .. Len(p) : n = at
    BY <1>2, <2>1, PayloadsAre
  <2>3. PICK s \in Seq(Byte) : s = SubSeq(p, 1, n)
    BY PrefixIs
  <2>4. PICK r \in Seq(Byte) : s \o r = p
    BY <2>3, PrefixRest
  <2>5. PICK t \in Seq(Byte) : t = r \o c
    BY ConcatIs
  <2>6. L = h \o s
    BY <1>2, <1>7, <2>2, <2>3 DEF Written
  <2>7. s \o t = p \o c
    <3>1. Regroup(s, r, c)
      BY ByteRegrouping
    <3>. QED BY <2>4, <2>5, <3>1 DEF Regroup
  <2>8. Regroup(h, s, t)
    BY ByteRegrouping
  <2>9. L \o t = P
    BY <1>3, <2>6, <2>7, <2>8 DEF Regroup
  <2>. QED BY <1>1, <2>9 DEF Planned
<1>8. CASE pc = "crc"
  <2>1. L \o Pending = NiosPacket /\ Pending \in Seq(Byte)
    BY <1>8, PendingIs DEF Written
  <2>. QED BY <2>1 DEF Planned
<1>9. CASE pc \in {"wait", "receive"}
  <2>1. L = NiosPacket
    BY <1>9 DEF Written
  <2>2. L \o << >> = L /\ << >> \in Seq(Byte)
    BY ConcatEmpty
  <2>. QED BY <2>1, <2>2 DEF Planned
<1>10. CASE pc = "result"
  <2>1. PICK Z \in Seq(Byte) : L = NiosPacket \o Z /\ Clean(Z \o Pending)
    BY <1>10 DEF Written
  <2>2. PICK q \in Seq(Byte) : q = Pending
    BY <1>10, PendingIs
  <2>3. Clean(Z)
    BY <2>1, <2>2, CleanConcat
  <2>. QED BY <2>1, <2>3 DEF Planned
<1>. QED BY <1>0, <1>4, <1>5, <1>6, <1>7, <1>8, <1>9, <1>10 DEF Pcs

\* How far the firmware is once the whole packet is stored.
LEMMA PacketIsOut ==
  ASSUME CrcShape, NEW L \in Seq(Byte), Written(L), Len(L) >= Len(NiosPacket)
  PROVE  pc \in {"crc", "wait", "receive", "result", "end"}
<1>0. pc \in Pcs /\ Len(L) \in Nat
  BY LenProperties DEF CrcShape, CrcTypeOK
<1>1. Len(NiosPacket) = Len(NiosHeader) + Count + 1 /\ Len(NiosHeader) \in Nat \ {0} /\ Count \in Nat \ {0}
  BY NiosPacketIs, Lengths, CrcConstants
<1>2. ASSUME pc \in {"boot", "start"} PROVE FALSE
  <2>1. L = << >>
    BY <1>2 DEF Written
  <2>2. Len(L) = 0
    BY <2>1
  <2>. QED BY <1>1, <2>2
<1>3. ASSUME pc = "header" PROVE FALSE
  <2>1. PICK q \in Seq(Byte) : q = Pending
    BY <1>3, PendingIs
  <2>2. L \o q = NiosHeader
    BY <1>3, <2>1 DEF Written
  <2>3. Len(L \o q) = Len(L) + Len(q) /\ Len(q) \in Nat
    BY ConcatIs
  <2>. QED BY <1>0, <1>1, <2>2, <2>3
<1>4. ASSUME pc = "payload" PROVE FALSE
  <2>1. at \in 0 .. Count
    BY DEF CrcShape, CrcTypeOK
  <2>2. PICK h \in Seq(Byte), p \in Seq(Byte) : h = NiosHeader /\ p = NiosPayload /\ Len(p) = Count
    BY CrcConstants, PayloadsAre
  <2>3. PICK n \in 0 .. Len(p) : n = at
    BY <2>1, <2>2
  <2>4. PICK s \in Seq(Byte) : s = SubSeq(p, 1, n) /\ Len(s) = n
    BY SomePrefix
  <2>5. L = h \o s
    BY <1>4, <2>2, <2>3, <2>4 DEF Written
  <2>6. Len(h \o s) = Len(h) + Len(s)
    BY ConcatIs
  <2>. QED BY <1>1, <2>1, <2>2, <2>3, <2>4, <2>5, <2>6
<1>. QED BY <1>0, <1>2, <1>3, <1>4 DEF Pcs

-----------------------------------------------------------------------------
(* What has been stored grows with each byte stored. *)

LEMMA WrittenByDriver ==
  ASSUME CrcShape, Driver, NEW L \in Seq(Byte), Written(L)
  PROVE  \E u \in Seq(Byte) : tx' = tx \o u /\ Written(L \o u)'
<1>1. /\ UNCHANGED <<pc, out, parts, at, matched, buffer>>
  BY DEF Driver, firmwareVars
<1>2. tx \in Seq(Byte) /\ out \in Seq(Byte) /\ << >> \in Seq(Byte)
  BY DEF CrcShape, CrcTypeOK
<1>3. tx \o << >> = tx /\ L \o << >> = L
  BY <1>2, ConcatEmpty
<1>4. CASE UNCHANGED tx /\ step # "done" /\ step' # "done"
  <2>1. Pending' = Pending
    BY <1>1, <1>4 DEF Pending
  <2>2. Written(L)'
    BY <1>1, <2>1 DEF Written
  <2>. QED BY <1>2, <1>3, <1>4, <2>2
<1>5. CASE RaiseError
  <2>1. UNCHANGED <<tx, step>>
    BY <1>5 DEF RaiseError, driverVars
  <2>2. Pending' = Pending
    BY <1>1, <2>1 DEF Pending
  <2>3. Written(L)'
    BY <1>1, <2>2 DEF Written
  <2>. QED BY <1>2, <1>3, <2>1, <2>3
<1>6. CASE Poll
  <2>1. UNCHANGED tx /\ step = "poll" /\ step' # "done"
    BY <1>6 DEF Poll, Return
  <2>. QED BY <1>4, <2>1
<1>7. CASE Store
  <2>1. step = "store" /\ step' = "done" /\ tx' = Append(tx, byte)
    BY <1>7 DEF Store, StoreByte, Return
  <2>2. pc \in {"header", "crc", "result"} /\ byte \in Byte /\ byte = out[1] /\ out # << >>
    BY <2>1, DriverActs
  <2>3. PICK u \in Seq(Byte) : u = <<byte>>
    <3>1. <<byte>> \in Seq(Byte)
      BY <2>2, Unit
    <3>. QED BY <3>1
  <2>4. tx' = tx \o u
    BY <1>2, <2>1, <2>2, <2>3, AppendIsConcat
  <2>5. L \o u = Append(L, byte)
    BY <2>2, <2>3, AppendIsConcat
  <2>6. byte = Head(out) /\ Pending = out /\ Pending' = Tail(out)
    BY <1>1, <1>2, <2>1, <2>2, TextIs DEF Pending
  <2>7. (L \o u) \o Pending' = L \o Pending
    <3>1. Append(L, Head(out)) \o Tail(out) = L \o out
      BY <1>2, <2>2, MoveHead
    <3>. QED BY <2>5, <2>6, <3>1
  <2>8. L \o u \in Seq(Byte)
    BY ConcatIs
  <2>9. CASE pc = "result"
    <3>1. PICK Z \in Seq(Byte) : L = NiosPacket \o Z /\ Clean(Z \o Pending)
      BY <2>9 DEF Written
    <3>2. PICK P \in Seq(Byte) : P = NiosPacket
      BY NiosPacketIs
    <3>3. PICK z \in Seq(Byte) : z = Z \o u
      BY ConcatIs
    <3>4. L \o u = P \o z
      <4>1. Regroup(P, Z, u)
        BY ByteRegrouping
      <4>. QED BY <3>1, <3>2, <3>3, <4>1 DEF Regroup
    <3>5. z \o Pending' = Z \o Pending
      <4>1. Append(Z, Head(out)) \o Tail(out) = Z \o out
        BY <1>2, <2>2, MoveHead
      <4>2. z = Append(Z, byte)
        BY <2>2, <2>3, <3>3, AppendIsConcat
      <4>. QED BY <2>6, <4>1, <4>2
    <3>6. Clean(z \o Pending')
      BY <3>1, <3>5, Zenon
    <3>7. Len(buffer') = Count
      BY <1>1, <2>9 DEF CrcShape, FirmwareRight
    <3>8. Written(L \o u)'
      BY <1>1, <2>9, <3>2, <3>4, <3>6, <3>7 DEF Written
    <3>. QED BY <2>4, <3>8
  <2>10. CASE pc \in {"header", "crc"}
    <3>1. /\ pc = "header" => (L \o u) \o Pending' = NiosHeader
          /\ pc = "crc" => (L \o u) \o Pending' = NiosPacket
      BY <2>7 DEF Written
    <3>2. ~(Len(L \o u) > Len(NiosPacket))
      <4>1. PICK q \in Seq(Byte) : q = Pending'
        BY <1>2, <2>2, <2>6, TextIs
      <4>2. PICK l \in Seq(Byte) : l = L \o u
        BY <2>8
      <4>3. Len(l \o q) = Len(l) + Len(q) /\ Len(l) \in Nat /\ Len(q) \in Nat
        BY ConcatIs
      <4>4. l \o q = NiosHeader \/ l \o q = NiosPacket
        BY <2>10, <3>1, <4>1, <4>2
      <4>5. Len(NiosHeader) <= Len(NiosPacket) /\ Len(NiosHeader) \in Nat /\ Len(NiosPacket) \in Nat
        BY NiosPacketIs, Lengths, CrcConstants
      <4>. QED BY <4>2, <4>3, <4>4, <4>5
    <3>3. Written(L \o u)'
      BY <1>1, <2>10, <3>1, <3>2 DEF Written
    <3>. QED BY <2>4, <3>3
  <2>. QED BY <2>2, <2>9, <2>10
<1>8. CASE ClearAndWait
  <2>1. UNCHANGED tx /\ step = "clear"
    BY <1>8 DEF ClearAndWait
  <2>2. CASE pc = "boot"
    <3>1. Written(L)'
      BY <1>1, <2>2 DEF Written
    <3>. QED BY <1>2, <1>3, <2>1, <3>1
  <2>3. CASE pc # "boot"
    <3>1. pc \in {"header", "crc", "result"}
      BY <2>1, <2>3 DEF CrcShape, CrcTypeOK, FirmwareRight, Pcs
    <3>2. byte = out[1] /\ out # << >>
      BY <2>1, <3>1 DEF CrcShape, FirmwareRight
    <3>3. byte # NoByte
      BY <1>2, <3>2, TextIs, CrcConstants
    <3>4. step' # "done"
      BY <1>8, <3>3 DEF ClearAndWait
    <3>. QED BY <1>4, <2>1, <3>4
  <2>. QED BY <2>2, <2>3
<1>. QED BY <1>5, <1>6, <1>7, <1>8 DEF Driver, DriverNext

LEMMA GrownByNothing ==
  ASSUME CrcShape, NEW L \in Seq(Byte), UNCHANGED tx, Written(L)'
  PROVE  \E u \in Seq(Byte) : tx' = tx \o u /\ Written(L \o u)'
<1>1. tx \in Seq(Byte) /\ << >> \in Seq(Byte)
  BY DEF CrcShape, CrcTypeOK
<1>2. tx \o << >> = tx /\ L \o << >> = L
  BY <1>1, ConcatEmpty
<1>. QED BY <1>1, <1>2

LEMMA WrittenByBoot ==
  ASSUME CrcShape, Firmware(Boot), NEW L \in Seq(Byte), Written(L)
  PROVE  \E u \in Seq(Byte) : tx' = tx \o u /\ Written(L \o u)'
<1>1. pc = "boot" /\ pc' = "start" /\ UNCHANGED <<tx, buffer>>
  BY DEF Firmware, Boot, slaveVars
<1>2. Written(L)'
  BY <1>1 DEF Written
<1>. QED BY <1>1, <1>2, GrownByNothing

LEMMA WrittenByWait ==
  ASSUME CrcShape, NEW L \in Seq(Byte), Written(L),
         \/ Firmware(WaitForHeader("start", StartHeader))
         \/ Firmware(WaitForHeader("wait", PcHeader))
  PROVE  \E u \in Seq(Byte) : tx' = tx \o u /\ Written(L \o u)'
<1>1. UNCHANGED <<tx, buffer>>
  BY DEF Firmware, WaitForHeader, ReadByte
<1>2. CASE Firmware(WaitForHeader("start", StartHeader)) /\ pc' = "start"
  <2>1. pc = "start"
    BY <1>2 DEF Firmware, WaitForHeader
  <2>2. Written(L)'
    BY <1>1, <1>2, <2>1 DEF Written
  <2>. QED BY <1>1, <2>2, GrownByNothing
<1>3. CASE Firmware(WaitForHeader("start", StartHeader)) /\ pc' # "start"
  <2>1. pc = "start" /\ pc' = "header" /\ out' = NiosHeader /\ step' = "poll"
    BY <1>3 DEF Firmware, WaitForHeader, WriteByte
  <2>2. L = << >> /\ ~(Len(L) > Len(NiosPacket))
    <3>1. L = << >>
      BY <2>1 DEF Written
    <3>2. Len(L) = 0 /\ Len(NiosPacket) \in Nat
      BY <3>1, NiosPacketIs, LenProperties
    <3>. QED BY <3>1, <3>2
  <2>3. L \o Pending' = NiosHeader
    BY <2>1, <2>2, CrcConstants, ConcatEmpty DEF Pending
  <2>4. Written(L)'
    BY <2>1, <2>2, <2>3 DEF Written
  <2>. QED BY <1>1, <2>4, GrownByNothing
<1>4. CASE Firmware(WaitForHeader("wait", PcHeader))
  <2>1. pc = "wait" /\ pc' \in {"wait", "receive"}
    BY <1>4 DEF Firmware, WaitForHeader
  <2>2. Written(L)'
    BY <1>1, <2>1 DEF Written
  <2>. QED BY <1>1, <2>2, GrownByNothing
<1>. QED BY <1>2, <1>3, <1>4

\* A text that is given up, or done, is followed by the next one or nothing.
LEMMA WrittenByNextPart ==
  ASSUME CrcShape, NEW L \in Seq(Byte), Written(L), parts # << >>,
         UNCHANGED <<tx, buffer, pc>>, out' = Head(parts), step' = "poll"
  PROVE  \E u \in Seq(Byte) : tx' = tx \o u /\ Written(L \o u)'
<1>1. pc = "result" /\ Head(parts) \in Seq(Byte) /\ Clean(Head(parts))
  BY PartIs
<1>2. PICK Z \in Seq(Byte) : L = NiosPacket \o Z /\ Clean(Z \o Pending)
  BY <1>1 DEF Written
<1>3. PICK q \in Seq(Byte) : q = Pending
  BY <1>1, PendingIs
<1>4. Clean(Z)
  BY <1>2, <1>3, CleanConcat
<1>5. Clean(Z \o Head(parts))
  BY <1>1, <1>4, CleanConcat
<1>6. Pending' = Head(parts)
  BY DEF Pending
<1>7. Clean(Z \o Pending')
  BY <1>5, <1>6, Zenon
<1>8. Len(buffer) = Count
  BY <1>1 DEF CrcShape, FirmwareRight
<1>9. Written(L)'
  BY <1>1, <1>2, <1>7, <1>8 DEF Written
<1>. QED BY <1>9, GrownByNothing

LEMMA WrittenByWrote ==
  ASSUME CrcShape, Firmware(Wrote), NEW L \in Seq(Byte), Written(L)
  PROVE  \E u \in Seq(Byte) : tx' = tx \o u /\ Written(L \o u)'
<1>1. /\ UNCHANGED <<tx, at, buffer>> /\ step = "done" /\ pc \in {"header", "crc", "result"}
  BY DEF Firmware, Wrote, slaveVars
<1>2. out \in Seq(Byte) /\ out # << >> /\ Pending = Tail(out)
  BY <1>1, PendingIs DEF Pending
<1>3. CASE Len(out) > 1
  <2>1. out' = Tail(out) /\ step' = "poll" /\ UNCHANGED pc
    BY <1>3 DEF Firmware, Wrote, WriteByte
  <2>2. Pending' = Pending
    BY <1>2, <2>1 DEF Pending
  <2>3. Written(L)'
    BY <1>1, <2>1, <2>2 DEF Written
  <2>. QED BY <1>1, <2>3, GrownByNothing
<1>4. CASE ~(Len(out) > 1) /\ parts # << >>
  <2>1. out' = Head(parts) /\ step' = "poll" /\ UNCHANGED pc
    BY <1>4 DEF Firmware, Wrote, WriteByte
  <2>. QED BY <1>1, <1>4, <2>1, WrittenByNextPart
<1>5. CASE ~(Len(out) > 1) /\ parts = << >>
  <2>1. pc' = CASE pc = "header" -> "payload" [] pc = "crc" -> "wait" [] OTHER -> "end"
    BY <1>5 DEF Firmware, Wrote
  <2>2. pc' = (IF pc = "header" THEN "payload" ELSE IF pc = "crc" THEN "wait" ELSE "end")
    BY <1>1, <2>1
  <2>3. L \o Pending = L
    <3>1. Pending = << >>
      BY <1>2, <1>5, TextIs
    <3>. QED BY <3>1, ConcatEmpty
  <2>4. CASE pc = "header"
    <3>1. L = NiosHeader /\ pc' = "payload"
      BY <2>2, <2>3, <2>4 DEF Written
    <3>2. at = 0
      BY <2>4 DEF CrcShape, FirmwareRight
    <3>3. SubSeq(NiosPayload, 1, at') = << >>
      <4>1. PICK p \in Seq(Byte) : p = NiosPayload
        BY PayloadsAre
      <4>2. 0 \in 0 .. Len(p)
        OBVIOUS
      <4>3. SubSeq(p, 1, 0) = << >>
        BY <4>2, PrefixIs
      <4>. QED BY <1>1, <3>2, <4>1, <4>3
    <3>4. L = NiosHeader \o SubSeq(NiosPayload, 1, at')
      BY <3>1, <3>3, ConcatEmpty
    <3>5. Written(L)'
      BY <1>1, <2>4, <3>1, <3>4 DEF Written
    <3>. QED BY <1>1, <3>5, GrownByNothing
  <2>5. CASE pc = "crc"
    <3>1. L = NiosPacket /\ pc' = "wait"
      BY <2>2, <2>3, <2>5 DEF Written
    <3>2. Written(L)'
      BY <1>1, <2>5, <3>1 DEF Written
    <3>. QED BY <1>1, <3>2, GrownByNothing
  <2>6. CASE pc = "result"
    <3>1. pc' = "end" /\ Planned(L)
      BY <2>2, <2>6, WrittenIsPlanned
    <3>2. Written(L)'
      BY <1>1, <2>6, <3>1 DEF Written
    <3>. QED BY <1>1, <3>2, GrownByNothing
  <2>. QED BY <1>1, <2>4, <2>5, <2>6
<1>. QED BY <1>3, <1>4, <1>5

LEMMA WrittenByWriteFailed ==
  ASSUME CrcShape, WriteFailed, NEW L \in Seq(Byte), Written(L)
  PROVE  \E u \in Seq(Byte) : tx' = tx \o u /\ Written(L \o u)'
<1>1. UNCHANGED <<tx, buffer>>
  BY DEF WriteFailed, slaveVars
<1>2. CASE parts # << >>
  <2>1. out' = Head(parts) /\ step' = "poll" /\ UNCHANGED pc
    BY <1>2 DEF WriteFailed, WriteByte
  <2>. QED BY <1>1, <1>2, <2>1, WrittenByNextPart
<1>3. CASE parts = << >>
  <2>1. pc' = "end" /\ Planned(L)
    BY <1>3, WrittenIsPlanned DEF WriteFailed
  <2>2. Written(L)'
    BY <1>1, <2>1 DEF Written
  <2>. QED BY <1>1, <2>2, GrownByNothing
<1>. QED BY <1>2, <1>3

LEMMA WrittenBySendPayload ==
  ASSUME CrcShape, Firmware(SendPayload), NEW L \in Seq(Byte), Written(L)
  PROVE  \E u \in Seq(Byte) : tx' = tx \o u /\ Written(L \o u)'
<1>1. /\ pc = "payload" /\ at' = at + 1 /\ tx' = Append(tx, NiosPayload[at + 1]) /\ UNCHANGED buffer
      /\ at' >= Count => pc' = "crc" /\ out' = <<Crc(NiosPayload)>> /\ step' = "poll"
      /\ ~(at' >= Count) => pc' = "payload"
  BY DEF Firmware, SendPayload, PayloadSent, StoreByte, WriteByte
<1>2. at \in 0 .. Count /\ at < Count /\ Count \in Nat /\ tx \in Seq(Byte)
  BY <1>1, CrcConstants DEF CrcShape, CrcTypeOK, FirmwareRight
<1>3. PICK h \in Seq(Byte), p \in Seq(Byte), c \in Seq(Byte) :
        h = NiosHeader /\ p = NiosPayload /\ c = <<Crc(NiosPayload)>> /\ Len(p) = Count
  BY CrcConstants, PayloadsAre
<1>4. PICK n \in 0 .. Len(p) - 1 : n = at
  BY <1>2, <1>3
<1>5. /\ SubSeq(p, 1, n + 1) = Append(SubSeq(p, 1, n), p[n + 1]) /\ p[n + 1] \in Byte
      /\ SubSeq(p, 1, n) \in Seq(Byte)
  BY PrefixGrows
<1>6. PICK s \in Seq(Byte) : s = SubSeq(p, 1, n)
  BY <1>5
<1>7. PICK u \in Seq(Byte) : u = <<p[n + 1]>>
  <2>1. <<p[n + 1]>> \in Seq(Byte)
    BY <1>5, Unit
  <2>. QED BY <2>1
<1>8. L = h \o s
  BY <1>1, <1>3, <1>4, <1>6 DEF Written
<1>9. tx' = tx \o u
  BY <1>1, <1>2, <1>3, <1>4, <1>5, <1>7, AppendIsConcat
<1>10. PICK m \in 0 .. Len(p) : m = n + 1
  BY <1>2, <1>3, <1>4
<1>11. SubSeq(p, 1, m) = s \o u
  BY <1>5, <1>6, <1>7, <1>10, AppendIsConcat
<1>12. L \o u = h \o SubSeq(p, 1, m)
  <2>1. Regroup(h, s, u)
    BY ByteRegrouping
  <2>. QED BY <1>8, <1>11, <2>1 DEF Regroup
<1>13. L \o u = NiosHeader \o SubSeq(NiosPayload, 1, at')
  BY <1>1, <1>3, <1>4, <1>10, <1>12
<1>14. ~(Len(L \o u) > Len(NiosPacket))
  <2>1. PICK t \in Seq(Byte) : t = SubSeq(p, 1, m) /\ Len(t) = m
    BY SomePrefix
  <2>2. Len(h \o t) = Len(h) + m /\ Len(h) \in Nat
    BY <2>1, ConcatIs
  <2>3. Len(L \o u) = Len(NiosHeader) + m
    BY <1>3, <1>12, <2>1, <2>2
  <2>4. Len(NiosPacket) = Len(NiosHeader) + Count + 1 /\ Len(NiosHeader) \in Nat
    BY NiosPacketIs, Lengths
  <2>. QED BY <1>2, <1>3, <1>10, <2>3, <2>4
<1>15. CASE ~(at' >= Count)
  <2>1. Written(L \o u)'
    BY <1>1, <1>13, <1>14, <1>15 DEF Written
  <2>. QED BY <1>9, <2>1
<1>16. CASE at' >= Count
  <2>1. m = Len(p)
    BY <1>1, <1>2, <1>3, <1>4, <1>10, <1>16
  <2>2. SubSeq(p, 1, m) = p
    BY <2>1, PrefixIs
  <2>3. Regroup(h, p, c)
    BY ByteRegrouping
  <2>4. (L \o u) \o c = NiosPacket
    BY <1>3, <1>12, <2>2, <2>3, NiosPacketIs DEF Regroup
  <2>5. Pending' = c
    BY <1>1, <1>3, <1>16 DEF Pending
  <2>6. (L \o u) \o Pending' = NiosPacket
    BY <2>4, <2>5
  <2>7. Written(L \o u)'
    BY <1>1, <1>14, <1>16, <2>6 DEF Written
  <2>. QED BY <1>9, <2>7
<1>. QED BY <1>15, <1>16

LEMMA WrittenByReception ==
  ASSUME CrcShape, Firmware(Reception), NEW L \in Seq(Byte), Written(L)
  PROVE  \E u \in Seq(Byte) : tx' = tx \o u /\ Written(L \o u)'
<1>1. pc = "receive" /\ UNCHANGED tx
  BY DEF Firmware, Reception, ReceivePayload, ReceiveCrc, ReadByte
<1>2. L = NiosPacket /\ ~(Len(L) > Len(NiosPacket))
  <2>1. L = NiosPacket /\ Len(NiosPacket) \in Nat
    BY <1>1, NiosPacketIs, LenProperties DEF Written
  <2>. QED BY <2>1
<1>3. CASE Firmware(ReceivePayload)
  <2>1. pc' = "receive"
    BY <1>1, <1>3 DEF Firmware, ReceivePayload
  <2>2. Written(L)'
    BY <1>2, <2>1 DEF Written
  <2>. QED BY <1>1, <2>2, GrownByNothing
<1>4. CASE Firmware(ReceiveCrc)
  <2>1. pc' = "result" /\ step' = "poll"
    BY <1>4 DEF Firmware, ReceiveCrc, WriteByte
  <2>2. Clean(out') /\ out' \in Seq(Byte)
    BY <1>4, ShapeOfReceiveCrc DEF CrcShape, CrcTypeOK
  <2>3. << >> \o Pending' = out'
    BY <2>1, <2>2, ConcatEmpty DEF Pending
  <2>4. Clean(<< >> \o Pending')
    BY <2>2, <2>3, Zenon
  <2>5. L = NiosPacket \o << >> /\ << >> \in Seq(Byte)
    BY <1>2, ConcatEmpty
  <2>6. Written(L)'
    BY <1>2, <2>1, <2>4, <2>5 DEF Written
  <2>. QED BY <1>1, <2>6, GrownByNothing
<1>. QED BY <1>3, <1>4 DEF Firmware, Reception

LEMMA WrittenByFirmware ==
  ASSUME CrcShape, FirmwareNext, NEW L \in Seq(Byte), Written(L)
  PROVE  \E u \in Seq(Byte) : tx' = tx \o u /\ Written(L \o u)'
BY WrittenByDriver, WrittenByBoot, WrittenByWait, WrittenByWrote, WrittenByWriteFailed,
   WrittenBySendPayload, WrittenByReception DEF FirmwareNext

\* The tool and the link leave it alone.
LEMMA WrittenStays ==
  ASSUME NEW L \in Seq(Byte), Written(L), UNCHANGED driverVars, UNCHANGED firmwareVars
  PROVE  Written(L)'
<1>1. UNCHANGED <<step, pc, out, at, buffer>>
  BY DEF driverVars, firmwareVars
<1>2. Pending' = Pending
  BY <1>1 DEF Pending
<1>. QED BY <1>1, <1>2 DEF Written

-----------------------------------------------------------------------------
(* What has been sent to the firmware. *)

LEMMA StartsAre ==
  /\ StartBytes \subseteq Byte /\ PcHeader[1] \notin StartBytes
  /\ StartHeader \in Seq(StartBytes) /\ << >> \in Seq(StartBytes)
  /\ \A s \in Seq(StartBytes) : s \in Seq(Byte)
<1>1. StartHeader \in Seq(Byte) /\ Len(StartHeader) \in Nat
  BY CrcConstants, Lengths
<1>2. StartBytes \subseteq Byte
  BY <1>1 DEF StartBytes
<1>3. PcHeader[1] \notin StartBytes
  BY HeaderAssumption DEF StartBytes
<1>4. StartHeader \in Seq(StartBytes)
  <2>1. \A i \in 1 .. Len(StartHeader) : StartHeader[i] \in StartBytes
    BY DEF StartBytes
  <2>. QED BY <1>1, <2>1
<1>5. << >> \in Seq(StartBytes)
  OBVIOUS
<1>6. ASSUME NEW s \in Seq(StartBytes) PROVE s \in Seq(Byte)
  <2>1. \A i \in 1 .. Len(s) : s[i] \in StartBytes
    OBVIOUS
  <2>2. \A i \in 1 .. Len(s) : s[i] \in Byte
    BY <1>2, <2>1
  <2>. QED BY <2>2
<1>. QED BY <1>2, <1>3, <1>4, <1>5, <1>6

\* A byte that is not the header's first does not begin to match it.
LEMMA NoMatch ==
  ASSUME NEW b \in StartBytes
  PROVE  Match(PcHeader, 0, b) = 0
<1>1. b # PcHeader[1] /\ 0 + 1 = 1
  BY StartsAre
<1>. QED BY <1>1 DEF Match

LEMMA StartsByFirmware ==
  ASSUME CrcShape, CrcShape', OnlyStarts, FirmwareNext
  PROVE  OnlyStarts'
<1>1. /\ tool \in {"closed", "drain", "find", "flush", "payload", "failed"}
      /\ rx \in Seq(StartBytes) /\ hostOut \in Seq(StartBytes)
      /\ buffer = << >> /\ pc \notin {"receive", "result"}
      /\ pc # "start" => matched = 0
  BY DEF OnlyStarts
<1>2. pc' \notin {"start", "wait"} => matched' = 0
  BY DEF CrcShape, FirmwareRight
<1>3. UNCHANGED <<tool, hostOut>>
  BY DEF FirmwareNext, Driver, Firmware, WriteFailed, toolVars, linkVars
<1>4. rx # << >> => Head(rx) \in StartBytes /\ Tail(rx) \in Seq(StartBytes)
  BY <1>1, HeadTailProperties
<1>5. CASE Driver
  <2>1. UNCHANGED <<pc, matched, buffer>> /\ rx' = rx
    BY <1>5 DEF Driver, DriverNext, RaiseError, Poll, Store, StoreByte, ClearAndWait, firmwareVars
  <2>. QED BY <1>1, <1>3, <2>1 DEF OnlyStarts
<1>6. CASE Firmware(Boot)
  <2>1. pc' = "start" /\ UNCHANGED <<buffer, rx>>
    BY <1>6 DEF Firmware, Boot, slaveVars
  <2>. QED BY <1>1, <1>3, <2>1 DEF OnlyStarts
<1>7. CASE Firmware(WaitForHeader("start", StartHeader))
  <2>1. rx # << >> /\ rx' = Tail(rx) /\ UNCHANGED buffer /\ pc' \in {"start", "header"}
    BY <1>7 DEF Firmware, WaitForHeader, ReadByte
  <2>. QED BY <1>1, <1>2, <1>3, <1>4, <2>1 DEF OnlyStarts
<1>8. CASE Firmware(WaitForHeader("wait", PcHeader))
  <2>. DEFINE n == Match(PcHeader, matched, Head(rx))
  <2>1. /\ rx # << >> /\ rx' = Tail(rx) /\ UNCHANGED buffer /\ pc = "wait"
        /\ matched' = n % Len(PcHeader) /\ (n < Len(PcHeader) => pc' = pc)
    BY <1>8 DEF Firmware, WaitForHeader, ReadByte
  <2>2. n = 0
    BY <1>1, <1>4, <2>1, NoMatch
  <2>3. 0 < Len(PcHeader) /\ 0 % Len(PcHeader) = 0
    <3>1. PICK k \in Nat \ {0} : k = Len(PcHeader)
      BY Lengths
    <3>2. 0 \in 0 .. k - 1
      OBVIOUS
    <3>3. 0 % k = 0
      BY <3>2, ModSmall
    <3>. QED BY <3>1, <3>3
  <2>4. pc' = "wait" /\ matched' = 0
    BY <2>1, <2>2, <2>3
  <2>. QED BY <1>1, <1>3, <1>4, <2>1, <2>4 DEF OnlyStarts
<1>9. CASE Firmware(Wrote)
  <2>1. UNCHANGED <<buffer, rx, matched>> /\ pc \in {"header", "crc", "result"}
    BY <1>9 DEF Firmware, Wrote, slaveVars
  <2>2. UNCHANGED pc \/ pc' = CASE pc = "header" -> "payload" [] pc = "crc" -> "wait" [] OTHER -> "end"
    BY <1>9, Zenon DEF Firmware, Wrote
  <2>3. pc' \notin {"receive", "result", "start"}
    BY <1>1, <2>1, <2>2
  <2>4. matched' = 0
    BY <1>1, <2>1
  <2>. QED BY <1>1, <1>3, <2>1, <2>3, <2>4 DEF OnlyStarts
<1>10. CASE WriteFailed
  <2>1. UNCHANGED <<buffer, rx, matched>> /\ (UNCHANGED pc \/ pc' = "end")
    BY <1>10 DEF WriteFailed, slaveVars
  <2>. QED BY <1>1, <1>2, <1>3, <2>1 DEF OnlyStarts
<1>11. CASE Firmware(SendPayload)
  <2>1. UNCHANGED <<buffer, rx, matched>> /\ pc = "payload" /\ (pc' = pc \/ pc' = "crc")
    BY <1>11 DEF Firmware, SendPayload, StoreByte
  <2>. QED BY <1>1, <1>3, <2>1 DEF OnlyStarts
<1>12. CASE Firmware(Reception)
  BY <1>1, <1>12 DEF Firmware, Reception, ReceivePayload, ReceiveCrc
<1>. QED BY <1>5, <1>6, <1>7, <1>8, <1>9, <1>10, <1>11, <1>12 DEF FirmwareNext

LEMMA StartsByLink ==
  ASSUME CrcShape, OnlyStarts, LinkNext
  PROVE  OnlyStarts'
<1>1. /\ tool \in {"closed", "drain", "find", "flush", "payload", "failed"}
      /\ rx \in Seq(StartBytes) /\ hostOut \in Seq(StartBytes)
      /\ buffer = << >> /\ pc \notin {"receive", "result"}
      /\ pc # "start" => matched = 0
  BY DEF OnlyStarts
<1>2. UNCHANGED <<tool, buffer, pc, matched>>
  BY DEF LinkNext, firmwareVars, toolVars
<1>3. CASE Upload
  <2>1. UNCHANGED <<rx, hostOut>>
    BY <1>3 DEF Upload
  <2>. QED BY <1>1, <1>2, <2>1 DEF OnlyStarts
<1>4. CASE Download
  <2>1. /\ hostOut # << >> /\ hostOut' = Tail(hostOut)
        /\ rx' = Append(rx, Head(hostOut)) \/ rx' = rx
    BY <1>4 DEF Download
  <2>2. Head(hostOut) \in StartBytes /\ Tail(hostOut) \in Seq(StartBytes)
    BY <1>1, <2>1, HeadTailProperties
  <2>3. Append(rx, Head(hostOut)) \in Seq(StartBytes)
    BY <1>1, <2>2, AppendProperties
  <2>4. rx' \in Seq(StartBytes) /\ hostOut' \in Seq(StartBytes)
    BY <1>1, <2>1, <2>2, <2>3
  <2>. QED BY <1>1, <1>2, <2>4 DEF OnlyStarts
<1>. QED BY <1>3, <1>4 DEF LinkNext

LEMMA StartsByTool ==
  ASSUME CrcShape, OnlyStarts, ToolNext
  PROVE  OnlyStarts' \/ (ToolStep /\ ReadCrc)
<1>1. /\ tool \in {"closed", "drain", "find", "flush", "payload", "failed"}
      /\ rx \in Seq(StartBytes) /\ hostOut \in Seq(StartBytes)
      /\ buffer = << >> /\ pc \notin {"receive", "result"}
      /\ pc # "start" => matched = 0
  BY DEF OnlyStarts
<1>2. UNCHANGED <<rx, buffer, pc, matched>>
  BY DEF ToolNext, ToolStep, Deadline, slaveVars, firmwareVars
<1>3. CASE UNCHANGED hostOut /\ tool' \in {"drain", "find", "flush", "payload", "failed"}
  BY <1>1, <1>2, <1>3 DEF OnlyStarts
<1>4. CASE OpenPort
  <2>1. hostOut' = << >> /\ tool' = "drain"
    BY <1>4 DEF OpenPort
  <2>. QED BY <1>1, <1>2, <2>1, StartsAre DEF OnlyStarts
<1>5. CASE Deadline
  <2>1. UNCHANGED hostOut /\ tool \in Deadlines /\ tool' = IF tool = "result" THEN Verdict(text) ELSE "failed"
    BY <1>5 DEF Deadline, Expire, linkVars
  <2>2. tool' = "failed"
    BY <1>1, <2>1
  <2>. QED BY <1>3, <2>1, <2>2
<1>6. CASE ToolStep
  <2>1. CASE Drain
    BY <1>3, <2>1 DEF Drain, toolVars
  <2>2. CASE Quiet
    BY <1>3, <2>2 DEF Quiet, linkVars
  <2>3. CASE SendStart
    <3>1. hostOut' = hostOut \o StartHeader /\ tool' = "flush"
      BY <2>3 DEF SendStart
    <3>2. hostOut' \in Seq(StartBytes)
      BY <1>1, <3>1, StartsAre, ConcatIs
    <3>. QED BY <1>1, <1>2, <3>1, <3>2 DEF OnlyStarts
  <2>4. CASE Flushed
    <3>1. UNCHANGED hostOut /\ tool \in {"flush", "sent"} /\ tool' = IF tool = "flush" THEN "find" ELSE "result"
      BY <2>4 DEF Flushed, linkVars
    <3>2. tool' = "find"
      BY <1>1, <3>1
    <3>. QED BY <1>3, <3>1, <3>2
  <2>5. CASE FindHeader
    <3>1. UNCHANGED hostOut /\ tool' \in {"payload", "find"}
      BY <2>5 DEF FindHeader
    <3>. QED BY <1>3, <3>1
  <2>6. CASE ReadPayload
    <3>1. UNCHANGED hostOut /\ tool' = "payload"
      BY <2>6 DEF ReadPayload
    <3>. QED BY <1>3, <3>1
  <2>7. CASE WriteChunk \/ ReadResult
    BY <1>1, <2>7 DEF WriteChunk, ReadResult
  <2>. QED BY <1>6, <2>1, <2>2, <2>3, <2>4, <2>5, <2>6, <2>7 DEF ToolStep
<1>. QED BY <1>4, <1>5, <1>6 DEF ToolNext

\* A byte that is taken from what is under way to the firmware: U and then D,
\* of which the part R of the packet behind w is still to be sent.
Takes(U, D, R, x, y, w) ==
  x \o y = U \o D /\ w \o (D \o R) = PcPacket =>
    /\ Head(x) \in Byte
    /\ U # << >> => /\ Head(x) \in StartBytes /\ Tail(U) \in Seq(StartBytes)
                    /\ Tail(x) \o y = Tail(U) \o D
    /\ U = << >> => /\ Head(x) = PcPacket[Len(w) + 1]
                    /\ Tail(D) \in Seq(Byte) /\ Tail(x) \o y = << >> \o Tail(D)
                    /\ Append(w, Head(x)) \o (Tail(D) \o R) = PcPacket

LEMMA DownTaken ==
  ASSUME NEW U \in Seq(StartBytes), NEW D \in Seq(Byte), NEW R \in Seq(Byte),
         NEW x \in Seq(Byte), NEW y \in Seq(Byte), NEW w \in Seq(Byte), x # << >>
  PROVE  Takes(U, D, R, x, y, w)
<1>0. SUFFICES ASSUME x \o y = U \o D, w \o (D \o R) = PcPacket
      PROVE  /\ Head(x) \in Byte
             /\ U # << >> => /\ Head(x) \in StartBytes /\ Tail(U) \in Seq(StartBytes)
                             /\ Tail(x) \o y = Tail(U) \o D
             /\ U = << >> => /\ Head(x) = PcPacket[Len(w) + 1]
                             /\ Tail(D) \in Seq(Byte) /\ Tail(x) \o y = << >> \o Tail(D)
                             /\ Append(w, Head(x)) \o (Tail(D) \o R) = PcPacket
  BY Zenon DEF Takes
<1>1. /\ x \o y # << >> /\ Head(x \o y) = Head(x) /\ Tail(x \o y) = Tail(x) \o y /\ Head(x) \in Byte
  BY TailInside
<1>2. ASSUME U # << >>
      PROVE  Head(x) \in StartBytes /\ Tail(U) \in Seq(StartBytes) /\ Tail(x) \o y = Tail(U) \o D
  <2>1. PICK V \in Seq(Byte) : V = U /\ V # << >>
    BY <1>2, StartsAre
  <2>2. Head(V \o D) = Head(V) /\ Tail(V \o D) = Tail(V) \o D
    BY <2>1, TailInside
  <2>3. Head(U) \in StartBytes /\ Tail(U) \in Seq(StartBytes)
    BY <1>2, HeadTailProperties
  <2>. QED BY <1>0, <1>1, <2>1, <2>2, <2>3
<1>3. ASSUME U = << >>
      PROVE  /\ Head(x) = PcPacket[Len(w) + 1]
             /\ Tail(D) \in Seq(Byte) /\ Tail(x) \o y = << >> \o Tail(D)
             /\ Append(w, Head(x)) \o (Tail(D) \o R) = PcPacket
  <2>1. U \o D = D
    BY <1>3, ConcatEmpty
  <2>2. D # << >> /\ Head(D) = Head(x) /\ Tail(D) = Tail(x) \o y
    BY <1>0, <1>1, <2>1
  <2>3. PICK e \in Seq(Byte) : e = Tail(D)
    BY <2>2, HeadTailProperties
  <2>4. << >> \o e = e
    BY ConcatEmpty
  <2>5. PICK d \in Seq(Byte) : d = D \o R
    BY ConcatIs
  <2>6. d # << >> /\ Head(d) = Head(D) /\ Tail(d) = e \o R
    BY <2>2, <2>3, <2>5, TailInside, SMTT(20)
  <2>7. Append(w, Head(d)) \o Tail(d) = w \o d
    BY <2>6, MoveHead
  <2>8. Append(w, Head(x)) \o (Tail(D) \o R) = PcPacket
    BY <1>0, <2>2, <2>3, <2>5, <2>6, <2>7
  <2>9. /\ Len(w \o d) = Len(w) + Len(d) /\ Len(w) \in Nat /\ Len(d) \in Nat
        /\ \A i \in 1 .. Len(d) : (w \o d)[Len(w) + i] = d[i]
    BY ConcatIs
  <2>10. Len(d) # 0 /\ d[1] = Head(d)
    BY <2>6, EmptySeq, HeadTailProperties
  <2>11. 1 \in 1 .. Len(d)
    BY <2>9, <2>10
  <2>12. (w \o d)[Len(w) + 1] = d[1]
    BY <2>9, <2>11
  <2>13. PcPacket = w \o d
    BY <1>0, <2>5
  <2>14. Head(x) = PcPacket[Len(w) + 1]
    BY <2>2, <2>6, <2>10, <2>12, <2>13
  <2>. QED BY <2>2, <2>3, <2>4, <2>8, <2>14
<1>. QED BY <1>1, <1>2, <1>3

LEMMA ReceivedIs ==
  ASSUME CrcShape, pc \in {"crc", "wait", "receive"}
  PROVE  /\ Received \in Seq(Byte) /\ PcHeader \in Seq(Byte) /\ buffer \in Seq(Byte)
         /\ pc = "receive" => Received # << >> /\ Len(Received) = Len(PcHeader) + Len(buffer)
         /\ pc # "receive" => Len(Received) = matched /\ matched \in 0 .. Len(PcHeader) - 1
<1>1. PICK h \in Seq(Byte), b \in Seq(Byte) : h = PcHeader /\ b = buffer
  BY CrcConstants DEF CrcShape, CrcTypeOK
<1>2. matched \in Nat /\ Len(h) \in Nat \ {0} /\ matched < Len(h)
  BY <1>1, Lengths DEF CrcShape, CrcTypeOK, FirmwareRight
<1>3. CASE pc = "receive"
  <2>1. h \o b \in Seq(Byte) /\ Len(h \o b) = Len(h) + Len(b) /\ Len(b) \in Nat
    BY ConcatIs
  <2>2. Len(h \o b) # 0
    BY <1>2, <2>1
  <2>3. h \o b # << >>
    BY <2>2
  <2>. QED BY <1>1, <1>3, <2>1, <2>3 DEF Received
<1>4. CASE pc # "receive"
  <2>1. PICK n \in 0 .. Len(h) : n = matched
    BY <1>2
  <2>2. SubSeq(h, 1, n) \in Seq(Byte) /\ Len(SubSeq(h, 1, n)) = n
    BY PrefixIs
  <2>. QED BY <1>1, <1>2, <1>4, <2>1, <2>2 DEF Received
<1>. QED BY <1>3, <1>4

\* PacketSent depends on nothing else.
LEMMA SentStays ==
  ASSUME PacketSent, UNCHANGED <<tool, packet, buffer, rx, hostOut, matched>>,
         UNCHANGED pc \/ (pc = "crc" /\ pc' = "wait") \/ pc' = "end"
  PROVE  PacketSent'
<1>1. /\ tool \in {"send", "sent", "result", "passed", "failed"}
      /\ pc \in {"crc", "wait", "receive", "result", "end"}
      /\ pc \in {"crc", "wait"} => buffer = << >>
      /\ buffer = SubSeq(PcPayload, 1, Len(buffer))
      /\ pc \in {"crc", "wait", "receive"} =>
           \E U \in Seq(StartBytes), D, R \in Seq(Byte) : Downstream(U, D, R)
  BY DEF PacketSent
<1>2. ASSUME pc' \in {"crc", "wait", "receive"}
      PROVE  \E U \in Seq(StartBytes), D, R \in Seq(Byte) : Downstream(U, D, R)'
  <2>1. pc \in {"crc", "wait", "receive"}
    BY <1>2
  <2>2. PICK U \in Seq(StartBytes), D \in Seq(Byte), R \in Seq(Byte) : Downstream(U, D, R)
    BY <1>1, <2>1
  <2>3. Received' = Received
    BY <1>2 DEF Received
  <2>4. Downstream(U, D, R)'
    BY <2>2, <2>3 DEF Downstream
  <2>. QED BY <2>4
<1>3. pc' \in {"crc", "wait", "receive", "result", "end"} /\ (pc' \in {"crc", "wait"} => buffer' = << >>)
  BY <1>1
<1>4. buffer' = SubSeq(PcPayload, 1, Len(buffer'))
  BY <1>1
<1>. QED BY <1>1, <1>2, <1>3, <1>4 DEF PacketSent

\* The byte of the packet that the firmware takes, or one of a START header.
LEMMA FirmwareTakes ==
  ASSUME CrcShape, PacketSent, pc \in {"wait", "receive"}, rx # << >>
  PROVE  \E U \in Seq(StartBytes), D, R \in Seq(Byte) :
           /\ tool = "send" => R = packet
           /\ U # << >> => Received = << >>
           /\ Tail(rx) \o hostOut = U \o D
           /\ \/ pc = "wait" /\ matched = 0 /\ Head(rx) \in StartBytes
                 /\ Received \o (D \o R) = PcPacket
              \/ U = << >> /\ Append(Received, Head(rx)) \o (D \o R) = PcPacket
                 /\ Head(rx) = PcPacket[Len(Received) + 1] /\ Head(rx) \in Byte
<1>1. PICK V \in Seq(StartBytes), E \in Seq(Byte), R \in Seq(Byte) : Downstream(V, E, R)
  BY DEF PacketSent
<1>2. /\ rx \o hostOut = V \o E /\ Received \o (E \o R) = PcPacket
      /\ V # << >> => Received = << >>
      /\ tool = "send" => R = packet
  BY <1>1 DEF Downstream
<1>3. rx \in Seq(Byte) /\ hostOut \in Seq(Byte) /\ Received \in Seq(Byte)
  BY ReceivedIs DEF CrcShape, CrcTypeOK
<1>4. /\ Head(rx) \in Byte
      /\ V # << >> => /\ Head(rx) \in StartBytes /\ Tail(V) \in Seq(StartBytes)
                      /\ Tail(rx) \o hostOut = Tail(V) \o E
      /\ V = << >> => /\ Head(rx) = PcPacket[Len(Received) + 1]
                      /\ Tail(E) \in Seq(Byte) /\ Tail(rx) \o hostOut = << >> \o Tail(E)
                      /\ Append(Received, Head(rx)) \o (Tail(E) \o R) = PcPacket
  <2>1. PICK x \in Seq(Byte), y \in Seq(Byte), w \in Seq(Byte) : x = rx /\ y = hostOut /\ w = Received
    BY <1>3
  <2>2. x # << >>
    BY <2>1
  <2>3. x \o y = V \o E /\ w \o (E \o R) = PcPacket
    BY <1>2, <2>1
  <2>4. Takes(V, E, R, x, y, w)
    BY <2>2, DownTaken
  <2>. QED BY <2>1, <2>3, <2>4 DEF Takes
<1>5. CASE V # << >>
  <2>1. Received = << >>
    BY <1>2, <1>5
  <2>2. pc # "receive"
    BY <2>1, ReceivedIs
  <2>3. matched = 0
    <3>1. Len(Received) = 0 /\ Len(Received) = matched
      BY <2>1, <2>2, ReceivedIs
    <3>. QED BY <3>1
  <2>. QED BY <1>2, <1>4, <1>5, <2>1, <2>2, <2>3
<1>6. CASE V = << >>
  BY <1>2, <1>4, <1>6, StartsAre
<1>. QED BY <1>5, <1>6

\* wait_for_header takes the next character of the header.
LEMMA ReceivedGrows ==
  ASSUME CrcShape, Firmware(WaitForHeader("wait", PcHeader)), buffer = << >>,
         Head(rx) = PcHeader[matched + 1]
  PROVE  Received' = Append(Received, Head(rx))
<1>. DEFINE n == Match(PcHeader, matched, Head(rx))
<1>1. /\ pc = "wait" /\ matched' = n % Len(PcHeader) /\ buffer' = << >>
      /\ n < Len(PcHeader) => pc' = "wait"
      /\ ~(n < Len(PcHeader)) => pc' = "receive"
  BY DEF Firmware, WaitForHeader
<1>2. PICK k \in Nat \ {0} : k = Len(PcHeader)
  BY Lengths
<1>3. matched \in Nat /\ matched < k /\ Received = SubSeq(PcHeader, 1, matched)
  BY <1>1, <1>2, ReceivedIs DEF Received
<1>4. n = matched + 1
  BY DEF Match
<1>5. PICK h \in Seq(Byte) : h = PcHeader /\ Len(h) = k
  BY <1>2, CrcConstants
<1>6. PICK m \in 0 .. Len(h) - 1 : m = matched
  BY <1>3, <1>5
<1>7. SubSeq(h, 1, m + 1) = Append(SubSeq(h, 1, m), h[m + 1])
  BY PrefixGrows
<1>8. SubSeq(PcHeader, 1, matched + 1) = Append(Received, Head(rx))
  BY <1>3, <1>5, <1>6, <1>7
<1>9. CASE n < Len(PcHeader)
  <2>1. n \in 0 .. k - 1
    BY <1>2, <1>3, <1>4, <1>9
  <2>2. n % k = n
    BY <2>1, ModSmall
  <2>3. pc' = "wait" /\ matched' = matched + 1
    BY <1>1, <1>2, <1>4, <1>9, <2>2
  <2>. QED BY <1>8, <2>3 DEF Received
<1>10. CASE ~(n < Len(PcHeader))
  <2>1. pc' = "receive"
    BY <1>1, <1>10
  <2>2. PcHeader \o << >> = PcHeader
    BY CrcConstants, ConcatEmpty
  <2>3. Received' = PcHeader
    BY <1>1, <2>1, <2>2 DEF Received
  <2>4. PICK j \in 0 .. Len(h) : j = matched + 1
    BY <1>3, <1>5
  <2>5. j = Len(h)
    BY <1>2, <1>3, <1>4, <1>5, <1>10, <2>4
  <2>6. SubSeq(h, 1, j) = h
    BY <2>5, PrefixIs
  <2>. QED BY <1>5, <1>8, <2>3, <2>4, <2>6
<1>. QED BY <1>9, <1>10

LEMMA SentByWait ==
  ASSUME CrcShape, CrcShape', PacketSent, Firmware(WaitForHeader("wait", PcHeader))
  PROVE  PacketSent'
<1>. DEFINE n == Match(PcHeader, matched, Head(rx))
<1>1. /\ rx # << >> /\ rx' = Tail(rx) /\ pc = "wait" /\ matched' = n % Len(PcHeader)
      /\ UNCHANGED <<tool, packet, buffer, hostOut>>
      /\ n < Len(PcHeader) => pc' = "wait"
      /\ ~(n < Len(PcHeader)) => pc' = "receive"
  BY DEF Firmware, WaitForHeader, ReadByte, toolVars, linkVars
<1>2. /\ tool \in {"send", "sent", "result", "passed", "failed"}
      /\ buffer = << >> /\ buffer = SubSeq(PcPayload, 1, Len(buffer))
  BY <1>1 DEF PacketSent
<1>3. PICK U \in Seq(StartBytes), D \in Seq(Byte), R \in Seq(Byte) :
        /\ tool = "send" => R = packet
        /\ U # << >> => Received = << >>
        /\ Tail(rx) \o hostOut = U \o D
        /\ \/ pc = "wait" /\ matched = 0 /\ Head(rx) \in StartBytes
              /\ Received \o (D \o R) = PcPacket
           \/ U = << >> /\ Append(Received, Head(rx)) \o (D \o R) = PcPacket
              /\ Head(rx) = PcPacket[Len(Received) + 1] /\ Head(rx) \in Byte
  BY <1>1, FirmwareTakes
<1>4. PICK k \in Nat \ {0} : k = Len(PcHeader)
  BY Lengths
<1>5. matched \in Nat /\ matched < k /\ Len(Received) = matched /\ Received = SubSeq(PcHeader, 1, matched)
  BY <1>1, <1>4, ReceivedIs DEF Received
<1>6. CASE matched = 0 /\ Head(rx) \in StartBytes /\ Received \o (D \o R) = PcPacket
  <2>1. n = 0
    BY <1>6, NoMatch
  <2>2. 0 % k = 0
    <3>1. 0 \in 0 .. k - 1
      OBVIOUS
    <3>. QED BY <3>1, ModSmall
  <2>3. matched' = 0 /\ pc' = "wait"
    BY <1>1, <1>4, <2>1, <2>2
  <2>4. Received' = Received
    BY <1>1, <1>6, <2>3 DEF Received
  <2>5. Downstream(U, D, R)'
    BY <1>1, <1>3, <1>6, <2>4 DEF Downstream
  <2>. QED BY <1>1, <1>2, <2>3, <2>5 DEF PacketSent
<1>7. CASE U = << >> /\ Append(Received, Head(rx)) \o (D \o R) = PcPacket
           /\ Head(rx) = PcPacket[Len(Received) + 1] /\ Head(rx) \in Byte
  <2>1. matched + 1 \in 1 .. Len(PcHeader)
    BY <1>4, <1>5
  <2>2. Head(rx) = PcHeader[matched + 1]
    BY <1>5, <1>7, <2>1, PcPacketIs
  <2>3. Received' = Append(Received, Head(rx))
    BY <1>2, <2>2, ReceivedGrows
  <2>4. Downstream(U, D, R)'
    BY <1>1, <1>3, <1>7, <2>3 DEF Downstream
  <2>5. pc' \in {"wait", "receive"}
    BY <1>1
  <2>. QED BY <1>1, <1>2, <2>4, <2>5 DEF PacketSent
<1>. QED BY <1>3, <1>6, <1>7

LEMMA SentByReception ==
  ASSUME CrcShape, CrcShape', PacketSent, Firmware(Reception)
  PROVE  PacketSent'
<1>1. /\ pc = "receive" /\ rx # << >> /\ rx' = Tail(rx)
      /\ UNCHANGED <<tool, packet, hostOut>>
  BY DEF Firmware, Reception, ReceivePayload, ReceiveCrc, ReadByte, toolVars, linkVars
<1>2. /\ tool \in {"send", "sent", "result", "passed", "failed"}
      /\ buffer = SubSeq(PcPayload, 1, Len(buffer))
  BY <1>1 DEF PacketSent
<1>3. CASE Firmware(ReceiveCrc)
  <2>1. pc' = "result" /\ UNCHANGED buffer
    BY <1>3 DEF Firmware, ReceiveCrc
  <2>. QED BY <1>1, <1>2, <2>1 DEF PacketSent
<1>4. CASE Firmware(ReceivePayload)
  <2>1. pc' = "receive" /\ Len(buffer) < Count /\ buffer' = Append(buffer, Head(rx))
    BY <1>1, <1>4 DEF Firmware, ReceivePayload
  <2>2. PICK U \in Seq(StartBytes), D \in Seq(Byte), R \in Seq(Byte) :
          /\ tool = "send" => R = packet
          /\ U # << >> => Received = << >>
          /\ Tail(rx) \o hostOut = U \o D
          /\ U = << >> /\ Append(Received, Head(rx)) \o (D \o R) = PcPacket
          /\ Head(rx) = PcPacket[Len(Received) + 1] /\ Head(rx) \in Byte
    BY <1>1, FirmwareTakes
  <2>3. PICK h \in Seq(Byte), b \in Seq(Byte), p \in Seq(Byte) :
          h = PcHeader /\ b = buffer /\ p = PcPayload /\ Len(p) = Count
    BY CrcConstants, PayloadsAre DEF CrcShape, CrcTypeOK
  <2>4. PICK m \in 0 .. Len(p) - 1 : m = Len(b)
    <3>1. Len(b) \in Nat /\ Count \in Nat
      BY CrcConstants, LenProperties
    <3>. QED BY <2>1, <2>3, <3>1
  <2>5. PICK e \in Byte : e = Head(rx)
    BY <2>2
  <2>6. Received = h \o b /\ Len(Received) = Len(h) + m
    BY <1>1, <2>3, <2>4, ReceivedIs DEF Received
  <2>7. e = p[m + 1]
    <3>1. m + 1 \in 1 .. Count /\ (Len(h) + m) + 1 = Len(h) + (m + 1)
      BY <2>3, <2>4, Lengths, CrcConstants
    <3>. QED BY <2>2, <2>3, <2>5, <2>6, <3>1, PcPacketIs
  <2>8. buffer' = SubSeq(PcPayload, 1, Len(buffer'))
    <3>1. SubSeq(p, 1, m + 1) = Append(SubSeq(p, 1, m), p[m + 1])
      BY PrefixGrows
    <3>2. SubSeq(p, 1, m) = b
      BY <1>2, <2>3, <2>4
    <3>3. Append(b, e) = SubSeq(p, 1, m + 1)
      BY <2>7, <3>1, <3>2
    <3>4. Len(Append(b, e)) = m + 1
      BY <2>4, AppendProperties
    <3>. QED BY <2>1, <2>3, <2>5, <3>3, <3>4
  <2>9. Received' = Append(Received, Head(rx))
    <3>1. Appending(h, b, e)
      BY ByteAppending
    <3>. QED BY <1>1, <2>1, <2>3, <2>5, <2>6, <3>1 DEF Received, Appending
  <2>10. Downstream(U, D, R)'
    BY <1>1, <2>2, <2>9 DEF Downstream
  <2>. QED BY <1>1, <1>2, <2>1, <2>8, <2>10 DEF PacketSent
<1>. QED BY <1>3, <1>4 DEF Firmware, Reception

LEMMA SentByFirmware ==
  ASSUME CrcShape, CrcShape', PacketSent, FirmwareNext
  PROVE  PacketSent'
<1>1. pc \in {"crc", "wait", "receive", "result", "end"}
  BY DEF PacketSent
<1>2. CASE Driver
  <2>1. UNCHANGED <<tool, packet, buffer, rx, hostOut, matched, pc>>
    BY <1>2 DEF Driver, DriverNext, RaiseError, Poll, Store, StoreByte, ClearAndWait,
       firmwareVars, toolVars, linkVars
  <2>. QED BY <2>1, SentStays
<1>3. CASE Firmware(Wrote)
  <2>1. UNCHANGED <<tool, packet, buffer, rx, hostOut, matched>> /\ pc \in {"crc", "result"}
    BY <1>1, <1>3 DEF Firmware, Wrote, slaveVars, toolVars, linkVars
  <2>2. UNCHANGED pc \/ pc' = CASE pc = "header" -> "payload" [] pc = "crc" -> "wait" [] OTHER -> "end"
    BY <1>3, Zenon DEF Firmware, Wrote
  <2>3. UNCHANGED pc \/ (pc = "crc" /\ pc' = "wait") \/ pc' = "end"
    BY <2>1, <2>2
  <2>. QED BY <2>1, <2>3, SentStays
<1>4. CASE WriteFailed
  <2>1. UNCHANGED <<tool, packet, buffer, rx, hostOut, matched>> /\ (UNCHANGED pc \/ pc' = "end")
    BY <1>4 DEF WriteFailed, slaveVars, toolVars, linkVars
  <2>. QED BY <2>1, SentStays
<1>5. ASSUME \/ Firmware(Boot) \/ Firmware(WaitForHeader("start", StartHeader)) \/ Firmware(SendPayload)
      PROVE  FALSE
  BY <1>1, <1>5 DEF Firmware, Boot, WaitForHeader, SendPayload
<1>. QED BY <1>2, <1>3, <1>4, <1>5, SentByWait, SentByReception DEF FirmwareNext

LEMMA SentByLink ==
  ASSUME CrcShape, PacketSent, LinkNext, lost' = lost
  PROVE  PacketSent'
<1>1. UNCHANGED <<tool, packet, buffer, matched, pc>>
  BY DEF LinkNext, firmwareVars, toolVars
<1>2. CASE Upload
  <2>1. UNCHANGED <<rx, hostOut>>
    BY <1>2 DEF Upload
  <2>. QED BY <1>1, <2>1, SentStays
<1>3. CASE Download
  <2>1. lost \in Nat /\ rx \in Seq(Byte) /\ hostOut \in Seq(Byte)
    BY DEF CrcShape, CrcTypeOK
  <2>2. hostOut # << >> /\ hostOut' = Tail(hostOut) /\ rx' = Append(rx, Head(hostOut))
    BY <1>3, <2>1 DEF Download
  <2>3. rx' \o hostOut' = rx \o hostOut
    BY <2>1, <2>2, MoveHead
  <2>4. ASSUME pc' \in {"crc", "wait", "receive"}
        PROVE  \E U \in Seq(StartBytes), D, R \in Seq(Byte) : Downstream(U, D, R)'
    <3>1. PICK U \in Seq(StartBytes), D \in Seq(Byte), R \in Seq(Byte) : Downstream(U, D, R)
      BY <1>1, <2>4 DEF PacketSent
    <3>2. Received' = Received
      BY <1>1 DEF Received
    <3>3. Downstream(U, D, R)'
      BY <1>1, <2>3, <3>1, <3>2 DEF Downstream
    <3>. QED BY <3>3
  <2>. QED BY <1>1, <2>4 DEF PacketSent
<1>. QED BY <1>2, <1>3 DEF LinkNext

-----------------------------------------------------------------------------
(* What the tool hears. *)

\* What is stored comes behind all that was stored before.
GrowsBy(a, s, h, t, u) == a \o (s \o (h \o (t \o u))) = (a \o (s \o (h \o t))) \o u

LEMMA Growing ==
  ASSUME NEW a \in Seq(Byte), NEW s \in Seq(Byte), NEW h \in Seq(Byte), NEW t \in Seq(Byte),
         NEW u \in Seq(Byte)
  PROVE  GrowsBy(a, s, h, t, u)
<1>1. PICK v \in Seq(Byte) : v = h \o t
  BY ConcatIs
<1>2. PICK w \in Seq(Byte) : w = s \o v
  BY ConcatIs
<1>3. Regroup(h, t, u) /\ Regroup(s, v, u) /\ Regroup(a, w, u)
  BY ByteRegrouping
<1>. QED BY <1>1, <1>2, <1>3 DEF Regroup, GrowsBy

LEMMA SeenIs ==
  ASSUME CrcShape
  PROVE  /\ Seen \in Seq(Byte) /\ Len(Seen) = found /\ found \in 0 .. Len(NiosHeader)
         /\ Upstream \in Seq(Byte) /\ hostIn \in Seq(Byte) /\ tx \in Seq(Byte)
         /\ got \in Seq(Byte) /\ text \in Seq(Byte)
<1>1. /\ found \in 0 .. Len(NiosHeader) /\ hostIn \in Seq(Byte) /\ tx \in Seq(Byte)
      /\ got \in Seq(Byte) /\ text \in Seq(Byte)
  BY DEF CrcShape, CrcTypeOK
<1>2. PICK h \in Seq(Byte) : h = NiosHeader
  BY CrcConstants
<1>3. PICK n \in 0 .. Len(h) : n = found
  BY <1>1, <1>2
<1>4. SubSeq(h, 1, n) \in Seq(Byte) /\ Len(SubSeq(h, 1, n)) = n
  BY PrefixIs
<1>5. hostIn \o tx \in Seq(Byte)
  BY <1>1, ConcatIs
<1>. QED BY <1>1, <1>2, <1>3, <1>4, <1>5 DEF Seen, Upstream

\* The firmware stores u.
LEMMA HeardGrows ==
  ASSUME CrcShape, NEW L \in Seq(Byte), Heard(L), NEW u \in Seq(Byte), tx' = tx \o u,
         UNCHANGED <<tool, hostIn, found, got, text>>, OnlyStarts => OnlyStarts'
  PROVE  Heard(L \o u)'
<1>1. PICK h \in Seq(Byte), t \in Seq(Byte), s \in Seq(Byte), g \in Seq(Byte), r \in Seq(Byte) :
        h = hostIn /\ t = tx /\ s = Seen /\ g = got /\ r = text
  BY SeenIs
<1>2. Upstream = h \o t /\ Upstream' = h \o (t \o u) /\ Seen' = s
  BY <1>1 DEF Upstream, Seen
<1>3. PICK H \in Seq(Byte), P \in Seq(Byte) : H = NiosHeader /\ P = NiosPacket
  BY CrcConstants, NiosPacketIs
<1>4. ASSUME tool \in {"find", "flush"}
      PROVE  \E A \in Seq(Byte) : A \o (Seen' \o Upstream') = L \o u /\ (~OnlyStarts' => A # << >>)
  <2>1. PICK A \in Seq(Byte) : A \o (Seen \o Upstream) = L /\ (~OnlyStarts => A # << >>)
    BY <1>4 DEF Heard
  <2>2. GrowsBy(A, s, h, t, u)
    BY Growing
  <2>3. A \o (Seen' \o Upstream') = L \o u
    BY <1>1, <1>2, <2>1, <2>2 DEF GrowsBy
  <2>. QED BY <2>1, <2>3
<1>5. ASSUME tool = "payload" PROVE NiosHeader \o (got' \o Upstream') = L \o u
  <2>1. NiosHeader \o (got \o Upstream) = L
    BY <1>5 DEF Heard
  <2>2. GrowsBy(H, g, h, t, u)
    BY Growing
  <2>. QED BY <1>1, <1>2, <1>3, <2>1, <2>2 DEF GrowsBy
<1>6. ASSUME tool \in {"send", "sent", "result"} PROVE NiosPacket \o (text' \o Upstream') = L \o u
  <2>1. NiosPacket \o (text \o Upstream) = L
    BY <1>6 DEF Heard
  <2>2. GrowsBy(P, r, h, t, u)
    BY Growing
  <2>. QED BY <1>1, <1>2, <1>3, <2>1, <2>2 DEF GrowsBy
<1>. QED BY <1>4, <1>5, <1>6 DEF Heard

\* Bytes that only move change nothing.
LEMMA HeardStays ==
  ASSUME NEW L \in Seq(Byte), Heard(L), Upstream' = Upstream,
         UNCHANGED <<found, got, text>>, OnlyStarts => OnlyStarts',
         \/ UNCHANGED tool
         \/ tool \in {"find", "flush"} /\ tool' \in {"find", "flush"}
         \/ tool \in {"send", "sent"} /\ tool' \in {"send", "sent", "result"}
  PROVE  Heard(L)'
<1>1. Seen' = Seen
  BY DEF Seen
<1>2. tool' \in {"find", "flush"} =>
        \E A \in Seq(Byte) : A \o (Seen' \o Upstream') = L /\ (~OnlyStarts' => A # << >>)
  BY <1>1 DEF Heard
<1>3. tool' = "payload" => NiosHeader \o (got' \o Upstream') = L
  BY DEF Heard
<1>4. tool' \in {"send", "sent", "result"} => NiosPacket \o (text' \o Upstream') = L
  BY DEF Heard
<1>. QED BY <1>2, <1>3, <1>4 DEF Heard

\* The tool takes a byte off the stream.
LEMMA TakesByte ==
  ASSUME CrcShape, Take, UNCHANGED tx
  PROVE  /\ Upstream # << >> /\ Head(Upstream) = Head(hostIn) /\ Upstream' = Tail(Upstream)
         /\ Upstream' \in Seq(Byte) /\ Head(hostIn) \in Byte
<1>1. hostIn # << >> /\ hostIn' = Tail(hostIn) /\ Head(hostIn) \in Byte /\ Upstream \in Seq(Byte)
  BY TakeIs, SeenIs
<1>2. PICK h \in Seq(Byte), t \in Seq(Byte) : h = hostIn /\ t = tx
  BY SeenIs
<1>3. h \o t # << >> /\ Head(h \o t) = Head(h) /\ Tail(h \o t) = Tail(h) \o t
  BY <1>1, <1>2, TailInside
<1>4. Upstream = h \o t /\ Upstream' = Tail(h) \o t
  BY <1>1, <1>2 DEF Upstream
<1>5. Tail(Upstream) \in Seq(Byte)
  BY <1>1, <1>3, <1>4, TextIs
<1>. QED BY <1>1, <1>2, <1>3, <1>4, <1>5

\* The search for the header: what the byte at hand breaks off is skipped.
LEMMA Searching ==
  ASSUME CrcShape, CrcShape', tool = "find", Take, UNCHANGED tx,
         found' = Match(NiosHeader, found, Head(hostIn)),
         NEW L \in Seq(Byte), NEW A \in Seq(Byte), A \o (Seen \o Upstream) = L
  PROVE  \E B \in Seq(Byte) : /\ B \o (Seen' \o Upstream') = L
                              /\ A # << >> => B # << >>
<1>1. /\ Upstream # << >> /\ Head(Upstream) = Head(hostIn) /\ Upstream' = Tail(Upstream)
      /\ Upstream' \in Seq(Byte) /\ Head(hostIn) \in Byte
  BY TakesByte
<1>2. PICK h \in Seq(Byte) : h = NiosHeader /\ Len(h) \in Nat \ {0}
  BY CrcConstants, Lengths
<1>3. PICK n \in 0 .. Len(h) - 1 : n = found
  BY <1>2 DEF CrcShape, CrcTypeOK, ToolRight
<1>4. PICK s \in Seq(Byte), v \in Seq(Byte), b \in Byte, y \in Seq(Byte) :
        s = Seen /\ v = Upstream /\ b = Head(hostIn) /\ y = Upstream'
  BY <1>1, SeenIs
<1>5. Append(s, b) \o y = s \o v
  <2>1. v # << >> /\ b = Head(v) /\ y = Tail(v)
    BY <1>1, <1>4
  <2>2. Append(s, Head(v)) \o Tail(v) = s \o v
    BY <2>1, MoveHead
  <2>. QED BY <2>1, <2>2
<1>6. PICK a \in Seq(Byte) : a = Append(s, b)
  BY AppendProperties
<1>7. A \o (a \o y) = L
  BY <1>4, <1>5, <1>6
<1>8. Seen' = SubSeq(h, 1, found') /\ s = SubSeq(h, 1, n)
  BY <1>2, <1>3, <1>4 DEF Seen
<1>9. CASE b = h[n + 1]
  <2>1. found' = n + 1
    BY <1>2, <1>3, <1>4, <1>9 DEF Match
  <2>2. SubSeq(h, 1, n + 1) = Append(SubSeq(h, 1, n), h[n + 1])
    BY PrefixGrows
  <2>3. Seen' = a
    BY <1>6, <1>8, <1>9, <2>1, <2>2
  <2>4. A \o (Seen' \o Upstream') = L
    BY <1>4, <1>7, <2>3
  <2>. QED BY <2>4
<1>10. CASE b # h[n + 1] /\ b = h[1]
  <2>1. found' = 1
    BY <1>2, <1>3, <1>4, <1>10 DEF Match
  <2>2. PICK e \in Seq(Byte) : e = <<b>>
    BY Unit
  <2>3. Seen' = e
    <3>1. 0 \in 0 .. Len(h) - 1 /\ 0 \in 0 .. Len(h)
      BY <1>2
    <3>2. SubSeq(h, 1, 0 + 1) = Append(SubSeq(h, 1, 0), h[0 + 1]) /\ SubSeq(h, 1, 0) = << >>
      BY <3>1, PrefixGrows, PrefixIs
    <3>3. Append(<< >>, b) = <<b>>
      OBVIOUS
    <3>4. 0 + 1 = 1
      OBVIOUS
    <3>5. SubSeq(h, 1, 1) = Append(<< >>, h[1])
      BY <3>2, <3>4
    <3>6. Seen' = Append(<< >>, b)
      BY <1>8, <1>10, <2>1, <3>5
    <3>. QED BY <2>2, <3>3, <3>6
  <2>4. a = s \o e
    BY <1>6, <2>2, AppendIsConcat
  <2>5. PICK B \in Seq(Byte) : B = A \o s
    BY ConcatIs
  <2>6. PICK z \in Seq(Byte) : z = e \o y
    BY ConcatIs
  <2>7. Regroup(A, s, z) /\ Regroup(s, e, y)
    BY ByteRegrouping
  <2>8. B \o z = L
    BY <1>7, <2>4, <2>5, <2>6, <2>7 DEF Regroup
  <2>9. B \o (Seen' \o Upstream') = L
    BY <1>4, <2>3, <2>6, <2>8
  <2>10. A # << >> => B # << >>
    BY <2>5, TailInside
  <2>. QED BY <2>9, <2>10
<1>11. CASE b # h[n + 1] /\ b # h[1]
  <2>1. found' = 0
    BY <1>2, <1>3, <1>4, <1>11 DEF Match
  <2>2. Seen' = << >>
    <3>1. 0 \in 0 .. Len(h)
      BY <1>2
    <3>2. SubSeq(h, 1, 0) = << >>
      BY <3>1, PrefixIs
    <3>. QED BY <1>8, <2>1, <3>2
  <2>3. PICK B \in Seq(Byte) : B = A \o a
    BY ConcatIs
  <2>4. Regroup(A, a, y)
    BY ByteRegrouping
  <2>5. << >> \o y = y
    BY ConcatEmpty
  <2>6. B \o (Seen' \o Upstream') = L
    BY <1>4, <1>7, <2>2, <2>3, <2>4, <2>5 DEF Regroup
  <2>7. A # << >> => B # << >>
    BY <2>3, TailInside
  <2>. QED BY <2>6, <2>7
<1>. QED BY <1>9, <1>10, <1>11

-----------------------------------------------------------------------------
(* Every step keeps the invariant. *)

\* Once the whole payload is received the buffer does not change.
LEMMA BufferStays ==
  ASSUME CrcShape, FirmwareNext, Len(buffer) = Count
  PROVE  buffer' = buffer
<1>1. ASSUME Firmware(Reception) PROVE buffer' = buffer
  <2>1. CASE Firmware(ReceivePayload)
    <3>1. Len(buffer) < Count
      BY <2>1 DEF Firmware, ReceivePayload
    <3>. QED BY <3>1, CrcConstants
  <2>2. CASE Firmware(ReceiveCrc)
    BY <2>2 DEF Firmware, ReceiveCrc
  <2>. QED BY <1>1, <2>1, <2>2 DEF Firmware, Reception
<1>. QED BY <1>1 DEF FirmwareNext, Driver, Firmware, Boot, WaitForHeader, Wrote, WriteFailed, SendPayload,
         firmwareVars

LEMMA InvByFirmware ==
  ASSUME CrcShape, CrcShape', FirmwareNext, Streams, Phase, GotRight
  PROVE  Streams' /\ Phase' /\ GotRight'
<1>1. UNCHANGED <<tool, hostIn, found, got, text, sessions>>
  BY DEF FirmwareNext, Driver, Firmware, WriteFailed, toolVars, linkVars
<1>2. OnlyStarts => OnlyStarts'
  BY StartsByFirmware
<1>3. Phase'
  <2>1. PacketSent => PacketSent'
    BY SentByFirmware
  <2>2. Late => Late'
    BY <1>1 DEF Late
  <2>. QED BY <1>2, <2>1, <2>2 DEF Phase
<1>4. Streams'
  <2>1. PICK L \in Seq(Byte) : Stream(L)
    BY DEF Streams
  <2>2. Written(L) /\ (~OnlyStarts => L # << >>) /\ Heard(L)
    BY <2>1 DEF Stream
  <2>3. PICK u \in Seq(Byte) : tx' = tx \o u /\ Written(L \o u)'
    BY <2>2, WrittenByFirmware
  <2>4. Heard(L \o u)'
    BY <1>1, <1>2, <2>2, <2>3, HeardGrows
  <2>5. ~OnlyStarts' => L \o u # << >>
    BY <1>2, <2>2, TailInside
  <2>6. L \o u \in Seq(Byte)
    BY ConcatIs
  <2>. QED BY <2>3, <2>4, <2>5, <2>6 DEF Streams, Stream
<1>5. GotRight'
  BY <1>1 DEF GotRight
<1>. QED BY <1>3, <1>4, <1>5

LEMMA InvByLink ==
  ASSUME CrcShape, LinkNext, lost' = lost, Streams, Phase, GotRight
  PROVE  Streams' /\ Phase' /\ GotRight'
<1>1. /\ UNCHANGED <<tool, found, got, text, sessions, buffer>>
      /\ UNCHANGED driverVars /\ UNCHANGED firmwareVars
  BY DEF LinkNext, toolVars, firmwareVars
<1>2. OnlyStarts => OnlyStarts'
  BY StartsByLink
<1>3. Phase'
  <2>1. PacketSent => PacketSent'
    BY SentByLink
  <2>2. Late => Late'
    BY <1>1 DEF Late
  <2>. QED BY <1>2, <2>1, <2>2 DEF Phase
<1>4. Upstream' = Upstream
  <2>1. CASE Upload
    <3>1. lost \in Nat /\ tx \in Seq(Byte) /\ hostIn \in Seq(Byte)
      BY DEF CrcShape, CrcTypeOK
    <3>2. tx # << >> /\ tx' = Tail(tx) /\ hostIn' = Append(hostIn, Head(tx))
      BY <2>1, <3>1 DEF Upload
    <3>3. Append(hostIn, Head(tx)) \o Tail(tx) = hostIn \o tx
      BY <3>1, <3>2, MoveHead
    <3>. QED BY <3>2, <3>3 DEF Upstream
  <2>2. CASE Download
    BY <2>2 DEF Download, Upstream
  <2>. QED BY <2>1, <2>2 DEF LinkNext
<1>5. Streams'
  <2>1. PICK L \in Seq(Byte) : Stream(L)
    BY DEF Streams
  <2>2. Written(L) /\ (~OnlyStarts => L # << >>) /\ Heard(L)
    BY <2>1 DEF Stream
  <2>3. Written(L)'
    BY <1>1, <2>2, WrittenStays
  <2>4. Heard(L)'
    BY <1>1, <1>2, <1>4, <2>2, HeardStays
  <2>. QED BY <1>2, <2>2, <2>3, <2>4 DEF Streams, Stream
<1>6. GotRight'
  BY <1>1 DEF GotRight
<1>. QED BY <1>3, <1>5, <1>6

\* The bytes stored do not change by what the tool does.
LEMMA StreamByTool ==
  ASSUME CrcShape, ToolNext, NEW L \in Seq(Byte), Stream(L), Heard(L)',
         OnlyStarts => OnlyStarts' \/ L # << >>
  PROVE  Streams'
<1>1. UNCHANGED driverVars /\ UNCHANGED firmwareVars
  BY DEF ToolNext, ToolStep, Deadline
<1>2. Written(L) /\ (~OnlyStarts => L # << >>)
  BY DEF Stream
<1>3. Written(L)'
  BY <1>1, <1>2, WrittenStays
<1>. QED BY <1>2, <1>3 DEF Streams, Stream

\* The tool is behind its packet.
LEMMA SentOn ==
  ASSUME PacketSent, UNCHANGED <<pc, buffer, matched, rx, hostOut>>,
         tool' \in {"sent", "result", "passed", "failed"}
  PROVE  PacketSent'
<1>1. /\ pc \in {"crc", "wait", "receive", "result", "end"}
      /\ pc \in {"crc", "wait"} => buffer = << >>
      /\ buffer = SubSeq(PcPayload, 1, Len(buffer))
      /\ pc \in {"crc", "wait", "receive"} =>
           \E U \in Seq(StartBytes), D, R \in Seq(Byte) : Downstream(U, D, R)
  BY DEF PacketSent
<1>2. ASSUME pc \in {"crc", "wait", "receive"}
      PROVE  \E U \in Seq(StartBytes), D, R \in Seq(Byte) : Downstream(U, D, R)'
  <2>1. PICK U \in Seq(StartBytes), D \in Seq(Byte), R \in Seq(Byte) : Downstream(U, D, R)
    BY <1>1, <1>2
  <2>2. Received' = Received
    BY DEF Received
  <2>3. Downstream(U, D, R)'
    BY <2>1, <2>2 DEF Downstream
  <2>. QED BY <2>3
<1>3. buffer' = SubSeq(PcPayload, 1, Len(buffer'))
  BY <1>1
<1>. QED BY <1>1, <1>2, <1>3 DEF PacketSent

LEMMA InvByOpenPort ==
  ASSUME CrcShape, OpenPort, UNCHANGED <<slaveVars, driverVars, firmwareVars>>,
         Streams, Phase, GotRight
  PROVE  Streams' /\ Phase' /\ GotRight'
<1>1. tool' = "drain" /\ sessions' = sessions + 1 /\ got' = << >>
  BY DEF OpenPort
<1>2. ToolNext /\ ~ReadCrc
  BY <1>1 DEF ToolNext, ReadCrc
<1>3. OnlyStarts => OnlyStarts'
  BY <1>2, StartsByTool
<1>4. Streams'
  <2>1. PICK L \in Seq(Byte) : Stream(L)
    BY DEF Streams
  <2>2. Heard(L)'
    BY <1>1 DEF Heard
  <2>. QED BY <1>2, <1>3, <2>1, <2>2, StreamByTool
<1>5. Phase'
  <2>1. sessions \in Nat /\ (tool # "closed" => sessions > 0)
    BY DEF CrcShape, CrcTypeOK, ToolRight
  <2>2. PacketSent => Late'
    BY <1>1, <2>1 DEF PacketSent, Late
  <2>3. Late => Late'
    BY <1>1, <2>1 DEF Late
  <2>. QED BY <1>3, <2>2, <2>3 DEF Phase
<1>6. GotRight'
  <2>1. PICK p \in Seq(Byte) : p = NiosPayload /\ Len(p) \in Nat
    BY PayloadsAre, CrcConstants
  <2>2. 0 \in 0 .. Len(p)
    BY <2>1
  <2>3. SubSeq(p, 1, 0) = << >>
    BY <2>2, PrefixIs
  <2>4. Len(<< >>) = 0
    OBVIOUS
  <2>. QED BY <1>1, <2>1, <2>3, <2>4 DEF GotRight
<1>. QED BY <1>4, <1>5, <1>6

LEMMA InvByDeadline ==
  ASSUME CrcShape, Deadline, Streams, Phase, GotRight
  PROVE  Streams' /\ Phase' /\ GotRight'
<1>1. /\ tool \in {"find", "payload", "send", "result"}
      /\ tool' = (IF tool = "result" THEN Verdict(text) ELSE "failed")
      /\ UNCHANGED <<got, sessions, hostOut>>
  BY DEF Deadline, Expire, Deadlines, linkVars
<1>2. UNCHANGED <<rx, pc, matched, buffer>>
  BY ToolFrame DEF Deadline
<1>3. tool' \in {"passed", "failed"}
  BY <1>1 DEF Verdict
<1>4. ToolNext /\ ~ReadCrc
  BY <1>3 DEF ToolNext, ReadCrc
<1>5. OnlyStarts => OnlyStarts'
  BY <1>4, StartsByTool
<1>6. Streams'
  <2>1. PICK L \in Seq(Byte) : Stream(L)
    BY DEF Streams
  <2>2. Heard(L)'
    BY <1>3 DEF Heard
  <2>. QED BY <1>4, <1>5, <2>1, <2>2, StreamByTool
<1>7. Phase'
  <2>1. PacketSent => PacketSent'
    BY <1>1, <1>2, <1>3, SentOn
  <2>2. Late => Late'
    BY <1>1 DEF Late
  <2>. QED BY <1>5, <2>1, <2>2 DEF Phase
<1>8. GotRight'
  BY <1>1 DEF GotRight
<1>. QED BY <1>6, <1>7, <1>8

\* Steps that take nothing off the stream the tool reads, and those of drain.
LEMMA InvByWaiting ==
  ASSUME CrcShape, ToolStep, Drain \/ Quiet \/ SendStart \/ Flushed, Streams, Phase, GotRight
  PROVE  Streams' /\ Phase' /\ GotRight'
<1>1. ToolNext /\ UNCHANGED <<tx, rx, pc, matched, buffer>>
  BY ToolFrame DEF ToolNext, ToolStep
<1>2. /\ UNCHANGED <<found, got, text, sessions>>
      /\ \/ tool = "drain" /\ tool' = "drain"
         \/ tool = "drain" /\ tool' = "find" /\ UNCHANGED <<hostIn, hostOut>> /\ hostIn = << >> /\ tx = << >>
         \/ tool = "find" /\ tool' = "flush" /\ UNCHANGED hostIn
         \/ tool = "flush" /\ tool' = "find" /\ UNCHANGED <<hostIn, hostOut>>
         \/ tool = "sent" /\ tool' = "result" /\ UNCHANGED <<hostIn, hostOut>>
  BY DEF Drain, Quiet, SendStart, Flushed, toolVars, linkVars
<1>3. ~ReadCrc
  BY <1>2 DEF ReadCrc
<1>4. OnlyStarts => OnlyStarts'
  BY <1>1, <1>3, StartsByTool
<1>5. Streams'
  <2>1. PICK L \in Seq(Byte) : Stream(L)
    BY DEF Streams
  <2>2. Heard(L) /\ (~OnlyStarts => L # << >>)
    BY <2>1 DEF Stream
  <2>3. Heard(L)'
    <3>1. CASE tool' = "drain"
      BY <3>1 DEF Heard
    <3>2. CASE tool = "drain" /\ tool' = "find"
      <4>1. PICK h \in Seq(Byte) : h = NiosHeader /\ Len(h) \in Nat
        BY CrcConstants, Lengths
      <4>2. 0 \in 0 .. Len(h)
        BY <4>1
      <4>3. SubSeq(h, 1, 0) = << >>
        BY <4>2, PrefixIs
      <4>4. found = 0
        BY <3>2 DEF CrcShape, ToolRight
      <4>5. Seen' = << >>
        BY <1>2, <4>1, <4>3, <4>4 DEF Seen
      <4>6. << >> \o << >> = << >> /\ << >> \in Seq(Byte)
        OBVIOUS
      <4>7. Upstream' = << >>
        BY <1>1, <1>2, <3>2, <4>6 DEF Upstream
      <4>8. L \o << >> = L
        BY ConcatEmpty
      <4>9. L \o (Seen' \o Upstream') = L /\ (~OnlyStarts' => L # << >>)
        BY <1>4, <2>2, <4>5, <4>6, <4>7, <4>8
      <4>. QED BY <3>2, <4>9 DEF Heard
    <3>3. CASE tool \in {"find", "flush", "sent"}
      <4>1. Upstream' = Upstream
        BY <1>1, <1>2, <3>3 DEF Upstream
      <4>. QED BY <1>2, <1>4, <2>2, <3>3, <4>1, HeardStays
    <3>. QED BY <1>2, <3>1, <3>2, <3>3
  <2>. QED BY <1>1, <1>4, <2>1, <2>3, StreamByTool
<1>6. Phase'
  <2>1. ASSUME PacketSent PROVE PacketSent'
    <3>1. tool = "sent" /\ tool' = "result" /\ UNCHANGED hostOut
      BY <1>2, <2>1 DEF PacketSent
    <3>. QED BY <1>1, <2>1, <3>1, SentOn
  <2>2. Late => Late'
    BY <1>2 DEF Late
  <2>. QED BY <1>4, <2>1, <2>2 DEF Phase
<1>7. GotRight'
  BY <1>1, <1>2 DEF GotRight
<1>. QED BY <1>5, <1>6, <1>7

\* The header is found where the packet begins: nothing was skipped.
LEMMA InvByFindHeader ==
  ASSUME CrcShape, CrcShape', ToolStep, FindHeader, Streams, Phase, GotRight
  PROVE  Streams' /\ Phase' /\ GotRight'
<1>1. ToolNext /\ UNCHANGED <<tx, rx, pc, matched, buffer>>
  BY ToolFrame DEF ToolNext, ToolStep
<1>2. /\ tool = "find" /\ Take /\ found' = Match(NiosHeader, found, Head(hostIn))
      /\ tool' = (IF found' = Len(NiosHeader) THEN "payload" ELSE "find")
      /\ UNCHANGED <<got, text, sessions>>
  BY DEF FindHeader
<1>3. ~ReadCrc
  BY <1>2 DEF ReadCrc
<1>4. OnlyStarts => OnlyStarts'
  BY <1>1, <1>3, StartsByTool
<1>5. PICK L \in Seq(Byte) : Stream(L)
  BY DEF Streams
<1>6. Written(L) /\ Heard(L)
  BY <1>5 DEF Stream
<1>7. PICK A \in Seq(Byte) : A \o (Seen \o Upstream) = L /\ (~OnlyStarts => A # << >>)
  BY <1>2, <1>6 DEF Heard
<1>8. PICK B \in Seq(Byte) : B \o (Seen' \o Upstream') = L /\ (A # << >> => B # << >>)
  BY <1>1, <1>2, <1>7, Searching
<1>9. Upstream' \in Seq(Byte)
  BY <1>1, <1>2, TakesByte
<1>10. CASE found' # Len(NiosHeader)
  <2>1. tool' = "find"
    BY <1>2, <1>10
  <2>2. Heard(L)'
    BY <1>4, <1>7, <1>8, <2>1 DEF Heard
  <2>3. Streams'
    BY <1>1, <1>4, <1>5, <2>2, StreamByTool
  <2>4. Phase'
    <3>1. ~PacketSent
      BY <1>2 DEF PacketSent
    <3>2. Late => Late'
      BY <1>2, <2>1 DEF Late
    <3>. QED BY <1>4, <3>1, <3>2 DEF Phase
  <2>5. GotRight'
    BY <1>1, <1>2, <2>1 DEF GotRight
  <2>. QED BY <2>3, <2>4, <2>5
<1>11. CASE found' = Len(NiosHeader)
  <2>1. tool' = "payload"
    BY <1>2, <1>11
  <2>2. PICK h \in Seq(Byte) : h = NiosHeader /\ Len(h) \in Nat
    BY CrcConstants, Lengths
  <2>3. Len(h) \in 0 .. Len(h)
    BY <2>2
  <2>4. Seen' = NiosHeader
    <3>1. SubSeq(h, 1, Len(h)) = h
      BY <2>3, PrefixIs
    <3>. QED BY <1>11, <2>2, <3>1 DEF Seen
  <2>5. Planned(L)
    BY <1>6, WrittenIsPlanned
  <2>6. PICK s \in Seq(Byte) : s = Upstream'
    BY <1>9
  <2>7. B \o (NiosHeader \o s) = L
    BY <1>8, <2>4, <2>6
  <2>8. B = << >>
    BY <2>5, <2>7, HeaderOnce
  <2>9. OnlyStarts
    BY <1>7, <1>8, <2>8
  <2>10. NiosHeader \o Upstream' = L
    <3>1. h \o s \in Seq(Byte)
      BY ConcatIs
    <3>2. << >> \o (h \o s) = h \o s
      BY <3>1, ConcatEmpty
    <3>. QED BY <2>2, <2>6, <2>7, <2>8, <3>2
  <2>11. got' = << >>
    BY <1>2 DEF CrcShape, ToolRight
  <2>12. << >> \o s = s
    BY ConcatEmpty
  <2>13. Heard(L)'
    BY <2>1, <2>6, <2>10, <2>11, <2>12 DEF Heard
  <2>14. Streams'
    BY <1>1, <1>4, <1>5, <2>13, StreamByTool
  <2>15. GotRight'
    BY <1>1, <1>2, <2>1 DEF GotRight
  <2>. QED BY <1>4, <2>9, <2>14, <2>15 DEF Phase
<1>. QED BY <1>10, <1>11

LEMMA InvByReadPayload ==
  ASSUME CrcShape, CrcShape', ToolStep, ReadPayload, Streams, Phase, GotRight
  PROVE  Streams' /\ Phase' /\ GotRight'
<1>1. ToolNext /\ UNCHANGED <<tx, rx, pc, matched, buffer>>
  BY ToolFrame DEF ToolNext, ToolStep
<1>2. /\ tool = "payload" /\ tool' = "payload" /\ Take /\ got' = Append(got, Head(hostIn))
  BY DEF ReadPayload
<1>3. ~ReadCrc
  BY <1>2 DEF ReadCrc
<1>4. OnlyStarts
  BY <1>2 DEF Phase, PacketSent, Late
<1>5. OnlyStarts'
  BY <1>1, <1>3, <1>4, StartsByTool
<1>6. PICK L \in Seq(Byte) : Stream(L)
  BY DEF Streams
<1>7. Written(L) /\ NiosHeader \o (got \o Upstream) = L
  BY <1>2, <1>6 DEF Stream, Heard
<1>8. /\ Upstream # << >> /\ Head(Upstream) = Head(hostIn) /\ Upstream' = Tail(Upstream)
      /\ Upstream' \in Seq(Byte)
  BY <1>1, <1>2, TakesByte
<1>9. PICK g \in Seq(Byte), v \in Seq(Byte) : g = got /\ v = Upstream
  BY SeenIs
<1>10. Append(g, Head(v)) \o Tail(v) = g \o v
  <2>1. v # << >>
    BY <1>8, <1>9
  <2>. QED BY <2>1, MoveHead
<1>11. NiosHeader \o (got' \o Upstream') = L
  BY <1>2, <1>7, <1>8, <1>9, <1>10
<1>12. Streams'
  <2>1. Heard(L)'
    BY <1>2, <1>11 DEF Heard
  <2>. QED BY <1>1, <1>5, <1>6, <2>1, StreamByTool
<1>13. GotRight'
  <2>1. got' \in Seq(Byte) /\ Len(got') <= Count
    BY DEF CrcShape, CrcTypeOK
  <2>2. Planned(L)
    BY <1>7, WrittenIsPlanned
  <2>3. PICK G \in Seq(Byte), V \in Seq(Byte) : G = got' /\ V = Upstream'
    BY <1>8, <2>1
  <2>4. NiosHeader \o (G \o V) = L /\ Len(G) <= Count
    BY <1>11, <2>1, <2>3
  <2>5. G = SubSeq(NiosPayload, 1, Len(G))
    BY <2>2, <2>4, PayloadRight
  <2>. QED BY <1>2, <2>3, <2>5 DEF GotRight
<1>. QED BY <1>5, <1>12, <1>13 DEF Phase

\* With the checksum the tool has the whole packet; only START headers are
\* still ahead of its own.
LEMMA InvByReadCrc ==
  ASSUME CrcShape, ToolStep, ReadCrc, Streams, Phase, GotRight
  PROVE  Streams' /\ Phase' /\ GotRight'
<1>1. ToolNext /\ UNCHANGED <<tx, rx, pc, matched, buffer>>
  BY ToolFrame DEF ToolNext, ToolStep
<1>2. /\ tool = "payload" /\ tool' = "send" /\ Take /\ Len(got) = Count /\ packet' = PcPacket
      /\ UNCHANGED <<got, text, hostOut>>
  BY DEF ReadCrc
<1>3. OnlyStarts
  BY <1>2 DEF Phase, PacketSent, Late
<1>4. /\ rx \in Seq(StartBytes) /\ hostOut \in Seq(StartBytes)
      /\ buffer = << >> /\ pc \notin {"receive", "result"}
      /\ pc # "start" => matched = 0
  BY <1>3 DEF OnlyStarts
<1>5. PICK L \in Seq(Byte) : Stream(L)
  BY DEF Streams
<1>6. Written(L) /\ NiosHeader \o (got \o Upstream) = L
  BY <1>2, <1>5 DEF Stream, Heard
<1>7. Upstream # << >> /\ Upstream' = Tail(Upstream) /\ Upstream' \in Seq(Byte)
  BY <1>1, <1>2, TakesByte
<1>8. PICK g \in Seq(Byte), v \in Seq(Byte), s \in Seq(Byte) : g = got /\ v = Upstream /\ s = Upstream'
  BY <1>7, SeenIs
<1>9. NiosPacket \o s = L
  <2>1. NiosHeader \o (g \o v) = L /\ v # << >> /\ Len(g) = Count
    BY <1>2, <1>6, <1>7, <1>8
  <2>2. Planned(L)
    BY <1>6, WrittenIsPlanned
  <2>3. NiosPacket \o Tail(v) = L
    BY <2>1, <2>2, CrcRight
  <2>. QED BY <1>7, <1>8, <2>3
<1>10. text' = << >>
  BY <1>2 DEF CrcShape, ToolRight
<1>11. Heard(L)'
  <2>1. << >> \o s = s
    BY ConcatEmpty
  <2>. QED BY <1>2, <1>8, <1>9, <1>10, <2>1 DEF Heard
<1>12. PICK P \in Seq(Byte) : P = NiosPacket /\ Len(P) \in Nat \ {0}
  <2>1. PICK m \in Nat, n \in Nat : m = Len(NiosHeader) /\ n = Count
    BY Lengths, CrcConstants
  <2>2. m + n + 1 \in Nat \ {0}
    OBVIOUS
  <2>3. NiosPacket \in Seq(Byte) /\ Len(NiosPacket) = m + n + 1
    BY <2>1, NiosPacketIs
  <2>. QED BY <2>2, <2>3
<1>13. Len(P \o s) = Len(P) + Len(s) /\ Len(s) \in Nat
  BY ConcatIs
<1>14. Len(L) >= Len(NiosPacket) /\ L # << >>
  <2>1. Len(L) = Len(P) + Len(s)
    BY <1>9, <1>12, <1>13
  <2>2. Len(L) >= Len(P) /\ Len(L) # 0
    BY <1>12, <1>13, <2>1
  <2>. QED BY <1>12, <2>2
<1>15. Streams'
  BY <1>1, <1>5, <1>11, <1>14, StreamByTool
<1>16. pc \in {"crc", "wait", "end"}
  BY <1>4, <1>6, <1>14, PacketIsOut
<1>17. PacketSent'
  <2>1. matched = 0
    BY <1>4, <1>16
  <2>2. Received' = << >>
    <3>1. PICK h \in Seq(Byte) : h = PcHeader /\ Len(h) \in Nat
      BY CrcConstants, Lengths
    <3>2. 0 \in 0 .. Len(h)
      BY <3>1
    <3>3. SubSeq(h, 1, 0) = << >>
      BY <3>2, PrefixIs
    <3>. QED BY <1>1, <1>16, <2>1, <3>1, <3>3 DEF Received
  <2>3. PICK U \in Seq(StartBytes) : U = rx \o hostOut
    BY <1>4, ConcatIs
  <2>4. PICK R \in Seq(Byte) : R = PcPacket
    BY PcPacketIs
  <2>5. U \o << >> = U /\ << >> \o R = R /\ << >> \in Seq(Byte)
    BY ConcatEmpty
  <2>6. << >> \o (<< >> \o R) = R
    BY <2>5
  <2>7. rx' \o hostOut' = U \o << >> /\ Received' \o (<< >> \o R) = PcPacket /\ R = packet'
    BY <1>1, <1>2, <2>2, <2>3, <2>4, <2>5, <2>6
  <2>8. Downstream(U, << >>, R)'
    BY <2>2, <2>7 DEF Downstream
  <2>9. \E U1 \in Seq(StartBytes), D1, R1 \in Seq(Byte) : Downstream(U1, D1, R1)'
    BY <2>5, <2>8
  <2>10. PICK p \in Seq(Byte) : p = PcPayload /\ Len(p) \in Nat
    BY PayloadsAre, CrcConstants
  <2>11. 0 \in 0 .. Len(p)
    BY <2>10
  <2>12. SubSeq(p, 1, 0) = << >>
    BY <2>11, PrefixIs
  <2>13. Len(<< >>) = 0
    OBVIOUS
  <2>14. buffer' = SubSeq(PcPayload, 1, Len(buffer')) /\ buffer' = << >>
    BY <1>1, <1>4, <2>10, <2>12, <2>13
  <2>. QED BY <1>1, <1>2, <1>16, <2>9, <2>14 DEF PacketSent
<1>18. GotRight'
  BY <1>2 DEF GotRight
<1>. QED BY <1>15, <1>17, <1>18 DEF Phase

LEMMA InvByWriteChunk ==
  ASSUME CrcShape, ToolStep, WriteChunk, Streams, Phase, GotRight
  PROVE  Streams' /\ Phase' /\ GotRight'
<1>1. ToolNext /\ UNCHANGED <<tx, rx, pc, matched, buffer>>
  BY ToolFrame DEF ToolNext, ToolStep
<1>2. /\ tool = "send" /\ tool' \in {"send", "sent"} /\ UNCHANGED <<found, got, text, hostIn>>
      /\ hostOut' = Append(hostOut, Head(packet)) /\ packet' = Tail(packet)
  BY DEF WriteChunk
<1>3. packet # << >> /\ packet \in Seq(Byte) /\ hostOut \in Seq(Byte) /\ rx \in Seq(Byte)
  BY <1>2 DEF CrcShape, CrcTypeOK, ToolRight
<1>4. ~OnlyStarts /\ PacketSent
  BY <1>2 DEF Phase, OnlyStarts, Late
<1>5. Streams'
  <2>1. PICK L \in Seq(Byte) : Stream(L)
    BY DEF Streams
  <2>2. Heard(L)
    BY <2>1 DEF Stream
  <2>3. Upstream' = Upstream
    BY <1>1, <1>2 DEF Upstream
  <2>4. Heard(L)'
    BY <1>2, <1>4, <2>2, <2>3, HeardStays
  <2>. QED BY <1>1, <1>4, <2>1, <2>4, StreamByTool
<1>6. PacketSent'
  <2>1. /\ pc \in {"crc", "wait", "receive", "result", "end"}
        /\ pc \in {"crc", "wait"} => buffer = << >>
        /\ buffer = SubSeq(PcPayload, 1, Len(buffer))
        /\ pc \in {"crc", "wait", "receive"} =>
             \E U \in Seq(StartBytes), D, R \in Seq(Byte) : Downstream(U, D, R)
    BY <1>4 DEF PacketSent
  <2>2. ASSUME pc \in {"crc", "wait", "receive"}
        PROVE  \E U \in Seq(StartBytes), D, R \in Seq(Byte) : Downstream(U, D, R)'
    <3>1. PICK U \in Seq(StartBytes), D \in Seq(Byte), R \in Seq(Byte) : Downstream(U, D, R)
      BY <2>1, <2>2
    <3>2. rx \o hostOut = U \o D /\ Received \o (D \o R) = PcPacket /\ (U # << >> => Received = << >>)
      BY <3>1 DEF Downstream
    <3>3. R = packet
      BY <1>2, <3>1 DEF Downstream
    <3>4. PICK b \in Byte, Q \in Seq(Byte) : b = Head(packet) /\ Q = Tail(packet)
      BY <1>3, TextIs
    <3>5. PICK x \in Seq(Byte), y \in Seq(Byte), V \in Seq(Byte) : x = rx /\ y = hostOut /\ V = U
      BY <1>3, StartsAre
    <3>6. Appending(x, y, b) /\ Appending(V, D, b)
      BY ByteAppending
    <3>7. rx' \o hostOut' = U \o Append(D, b)
      BY <1>1, <1>2, <3>2, <3>4, <3>5, <3>6 DEF Appending
    <3>8. Append(D, b) \o Q = D \o R
      <4>1. R # << >> /\ b = Head(R) /\ Q = Tail(R)
        BY <1>3, <3>3, <3>4
      <4>. QED BY <4>1, MoveHead
    <3>9. Received' = Received
      BY <1>1 DEF Received
    <3>10. Received' \o (Append(D, b) \o Q) = PcPacket
      BY <3>2, <3>8, <3>9
    <3>11. Q = packet' /\ (U # << >> => Received' = << >>)
      BY <1>2, <3>2, <3>4, <3>9
    <3>12. Downstream(U, Append(D, b), Q)'
      BY <3>7, <3>10, <3>11 DEF Downstream
    <3>13. Append(D, b) \in Seq(Byte)
      BY AppendProperties
    <3>. QED BY <3>12, <3>13
  <2>3. buffer' = SubSeq(PcPayload, 1, Len(buffer'))
    BY <1>1, <2>1
  <2>. QED BY <1>1, <1>2, <2>1, <2>2, <2>3 DEF PacketSent
<1>7. GotRight'
  BY <1>1, <1>2 DEF GotRight
<1>. QED BY <1>5, <1>6, <1>7 DEF Phase

LEMMA InvByReadResult ==
  ASSUME CrcShape, CrcShape', ToolStep, ReadResult, Streams, Phase, GotRight
  PROVE  Streams' /\ Phase' /\ GotRight'
<1>1. ToolNext /\ UNCHANGED <<tx, rx, pc, matched, buffer>>
  BY ToolFrame DEF ToolNext, ToolStep
<1>2. /\ tool = "result" /\ Take /\ text' = Append(text, Head(hostIn))
      /\ tool' = "result" \/ tool' = Verdict(text')
      /\ UNCHANGED <<got, hostOut>>
  BY DEF ReadResult
<1>3. tool' \in {"result", "passed", "failed"}
  BY <1>2 DEF Verdict
<1>4. ~OnlyStarts /\ PacketSent
  BY <1>2 DEF Phase, OnlyStarts, Late
<1>5. /\ Upstream # << >> /\ Head(Upstream) = Head(hostIn) /\ Upstream' = Tail(Upstream)
      /\ Upstream' \in Seq(Byte)
  BY <1>1, <1>2, TakesByte
<1>6. text \o Upstream = text' \o Upstream'
  <2>1. PICK r \in Seq(Byte), v \in Seq(Byte) : r = text /\ v = Upstream
    BY SeenIs
  <2>2. v # << >>
    BY <1>5, <2>1
  <2>3. Append(r, Head(v)) \o Tail(v) = r \o v
    BY <2>2, MoveHead
  <2>. QED BY <1>2, <1>5, <2>1, <2>3
<1>7. Streams'
  <2>1. PICK L \in Seq(Byte) : Stream(L)
    BY DEF Streams
  <2>2. NiosPacket \o (text \o Upstream) = L
    BY <1>2, <2>1 DEF Stream, Heard
  <2>3. Heard(L)'
    BY <1>3, <1>6, <2>2 DEF Heard
  <2>. QED BY <1>1, <1>4, <2>1, <2>3, StreamByTool
<1>8. PacketSent'
  BY <1>1, <1>2, <1>3, <1>4, SentOn
<1>9. GotRight'
  BY <1>2 DEF GotRight
<1>. QED BY <1>7, <1>8, <1>9 DEF Phase

-----------------------------------------------------------------------------
(* The invariant *)

LEMMA CrcInit == Init => CrcInv
<1>. SUFFICES ASSUME Init PROVE CrcInv
  OBVIOUS
<1>1. CrcShape
  BY ShapeInit
<1>2. /\ pc = "boot" /\ out = << >> /\ matched = 0 /\ buffer = << >> /\ tool = "closed" /\ got = << >>
      /\ rx = << >> /\ hostOut = << >>
  BY DEF Init
<1>3. OnlyStarts
  BY <1>2, StartsAre DEF OnlyStarts
<1>4. Streams
  <2>1. Len(<< >>) = 0 /\ << >> \in Seq(Byte)
    OBVIOUS
  <2>2. Len(NiosPacket) \in Nat
    BY NiosPacketIs, LenProperties
  <2>3. Written(<< >>)
    BY <1>2, <2>1, <2>2 DEF Written
  <2>4. Heard(<< >>)
    BY <1>2 DEF Heard
  <2>5. Stream(<< >>)
    BY <1>3, <2>3, <2>4 DEF Stream
  <2>. QED BY <2>1, <2>5 DEF Streams
<1>5. GotRight
  <2>1. PICK p \in Seq(Byte) : p = NiosPayload /\ Len(p) \in Nat
    BY PayloadsAre, CrcConstants
  <2>2. 0 \in 0 .. Len(p)
    BY <2>1
  <2>3. SubSeq(p, 1, 0) = << >>
    BY <2>2, PrefixIs
  <2>4. Len(<< >>) = 0
    OBVIOUS
  <2>. QED BY <1>2, <2>1, <2>3, <2>4 DEF GotRight
<1>. QED BY <1>1, <1>3, <1>4, <1>5 DEF CrcInv, Phase

LEMMA CrcStep == CrcInv /\ [Next]_vars => CrcInv'
<1>. SUFFICES ASSUME CrcInv, [Next]_vars PROVE CrcInv'
  OBVIOUS
<1>1. CrcShape /\ lost \in Nat
  BY DEF CrcInv, CrcShape, CrcTypeOK
<1>2. CrcShape'
  BY <1>1, ShapeStep
<1>3. lost' = lost \/ lost' = lost + 1
  BY DEF Next, FirmwareNext, Driver, Firmware, WriteFailed, LinkNext, Upload, Download, ToolNext, ToolStep,
         Deadline, OpenPort, Drain, Quiet, SendStart, Flushed, FindHeader, ReadPayload, ReadCrc, WriteChunk,
         ReadResult, Expire, linkVars, vars
<1>4. ASSUME lost' = 0 PROVE Streams' /\ Phase' /\ GotRight'
  <2>1. lost = 0 /\ lost' = lost
    BY <1>1, <1>3, <1>4
  <2>2. Streams /\ Phase /\ GotRight
    BY <2>1 DEF CrcInv
  <2>3. CASE FirmwareNext
    BY <1>1, <1>2, <2>2, <2>3, InvByFirmware
  <2>4. CASE LinkNext
    BY <1>1, <2>1, <2>2, <2>4, InvByLink
  <2>5. CASE ToolStep
    <3>1. CASE Drain \/ Quiet \/ SendStart \/ Flushed
      BY <1>1, <2>2, <2>5, <3>1, InvByWaiting
    <3>2. CASE FindHeader
      BY <1>1, <1>2, <2>2, <2>5, <3>2, InvByFindHeader
    <3>3. CASE ReadPayload
      BY <1>1, <1>2, <2>2, <2>5, <3>3, InvByReadPayload
    <3>4. CASE ReadCrc
      BY <1>1, <2>2, <2>5, <3>4, InvByReadCrc
    <3>5. CASE WriteChunk
      BY <1>1, <2>2, <2>5, <3>5, InvByWriteChunk
    <3>6. CASE ReadResult
      BY <1>1, <1>2, <2>2, <2>5, <3>6, InvByReadResult
    <3>. QED BY <2>5, <3>1, <3>2, <3>3, <3>4, <3>5, <3>6 DEF ToolStep
  <2>6. CASE Deadline
    BY <1>1, <2>2, <2>6, InvByDeadline
  <2>7. CASE OpenPort /\ UNCHANGED <<slaveVars, driverVars, firmwareVars>>
    BY <1>1, <2>2, <2>7, InvByOpenPort
  <2>8. CASE UNCHANGED vars
    <3>1. /\ UNCHANGED driverVars /\ UNCHANGED firmwareVars
          /\ UNCHANGED <<tx, rx, pc, buffer, matched>>
          /\ UNCHANGED <<tool, found, got, packet, text, sessions, hostIn, hostOut>>
      BY <2>8 DEF vars, slaveVars, firmwareVars, toolVars, linkVars
    <3>2. OnlyStarts' = OnlyStarts
      BY <3>1 DEF OnlyStarts
    <3>3. Phase'
      <4>1. PacketSent => PacketSent'
        BY <3>1, SentStays
      <4>2. Late => Late'
        BY <3>1 DEF Late
      <4>. QED BY <2>2, <3>2, <4>1, <4>2 DEF Phase
    <3>4. Streams'
      <4>1. PICK L \in Seq(Byte) : Stream(L)
        BY <2>2 DEF Streams
      <4>2. Written(L) /\ (~OnlyStarts => L # << >>) /\ Heard(L)
        BY <4>1 DEF Stream
      <4>3. Written(L)'
        BY <3>1, <4>2, WrittenStays
      <4>4. Upstream' = Upstream
        BY <3>1 DEF Upstream
      <4>5. Heard(L)'
        BY <3>1, <3>2, <4>2, <4>4, HeardStays
      <4>. QED BY <3>2, <4>2, <4>3, <4>5 DEF Streams, Stream
    <3>5. GotRight'
      BY <2>2, <3>1 DEF GotRight
    <3>. QED BY <3>3, <3>4, <3>5
  <2>. QED BY <2>3, <2>4, <2>5, <2>6, <2>7, <2>8 DEF Next, ToolNext
<1>. QED BY <1>2, <1>4 DEF CrcInv

LEMMA CrcInvariant == Spec => []CrcInv
BY CrcInit, CrcStep, PTL DEF Spec

\* Neither side ever shifts the other's packet, whatever is left over from an
\* earlier firmware or an earlier session and whenever a deadline passes:
\* find_header of the tool (test_usb_crc_bidirectional.py) stops only behind
\* the header that the firmware stored first, and wait_for_header
\* (usbserialtest.c) behind the header of the tool's packet.
THEOREM PacketsStayAligned == Spec => []PacketsAligned
<1>1. ASSUME CrcInv PROVE PacketsAligned
  <2>1. ASSUME lost = 0
        PROVE  /\ got = SubSeq(NiosPayload, 1, Len(got))
               /\ sessions = 1 => buffer = SubSeq(PcPayload, 1, Len(buffer))
    <3>1. Phase /\ got = SubSeq(NiosPayload, 1, Len(got))
      BY <1>1, <2>1 DEF CrcInv, GotRight
    <3>2. PICK p \in Seq(Byte) : p = PcPayload /\ Len(p) \in Nat
      BY PayloadsAre, CrcConstants
    <3>3. 0 \in 0 .. Len(p)
      BY <3>2
    <3>4. SubSeq(p, 1, 0) = << >>
      BY <3>3, PrefixIs
    <3>5. Len(<< >>) = 0
      OBVIOUS
    <3>6. OnlyStarts => buffer = SubSeq(PcPayload, 1, Len(buffer))
      BY <3>2, <3>4, <3>5 DEF OnlyStarts
    <3>7. PacketSent => buffer = SubSeq(PcPayload, 1, Len(buffer))
      BY DEF PacketSent
    <3>8. Late => sessions # 1
      BY DEF Late
    <3>. QED BY <3>1, <3>6, <3>7, <3>8 DEF Phase
  <2>. QED BY <2>1 DEF PacketsAligned
<1>. QED BY <1>1, CrcInvariant, PTL

-----------------------------------------------------------------------------
(* A link that loses bytes.  What arrives is then no longer a part of what *)
(* was sent, but there is less of it, and a reader that counts notices.    *)

\* How many characters the last n texts of the result line have.
Behind(n) ==
  (IF n >= 1 THEN Len(Newline) ELSE 0) + (IF n >= 2 THEN 2 ELSE 0)
  + (IF n >= 3 THEN Len(PcText) ELSE 0) + (IF n >= 4 THEN 2 ELSE 0)

PartsRight ==
  /\ Len(parts) \in 0 .. 4
  /\ \A i \in 1 .. Len(parts) :
       Len(parts[i]) = Behind(Len(parts) + 1 - i) - Behind(Len(parts) - i)

ToCome     == IF pc = "result" THEN Len(Pending) + Behind(Len(parts)) ELSE 0
Bounded(L) == Len(L) + ToCome < 2 * Len(NiosPacket)

\* The tool searches for the packet or reads it: all that was stored is
\* there, or bytes are missing and will be.
Searched(L) ==
  /\ OnlyStarts
  /\ tool \in {"find", "flush"} =>
       Seen \o Upstream = L \/ found + Len(Upstream) < Len(L)
  /\ tool = "payload" =>
       \/ NiosHeader \o (got \o Upstream) = L
       \/ Len(NiosHeader) + Len(got) + Len(Upstream) < Len(L)

\* The tool has read it and answers: the firmware receives all of it, or
\* bytes are missing and will be.
Arriving(U, D, R) ==
  /\ rx \o hostOut = U \o D
  /\ Received \o (D \o R) = PcPacket \/ Len(Received) + Len(D) + Len(R) < Len(PcPacket)
  /\ U # << >> => Received = << >>
  /\ tool = "send" => R = packet

Answering ==
  /\ pc \in {"crc", "wait", "receive", "result", "end"}
  /\ pc \in {"crc", "wait"} => buffer = << >>
  /\ pc \in {"crc", "wait", "receive"} =>
       \E U \in Seq(StartBytes), D, R \in Seq(Byte) : Arriving(U, D, R)
  /\ pc \in {"result", "end"} /\ Len(buffer) = Count => buffer = PcPayload

Answered(L) ==
  /\ tool \in {"send", "sent", "result", "passed", "failed"}
  /\ Answering
  /\ tool # "failed" => got = NiosPayload
  /\ tool = "passed" => buffer = PcPayload
  /\ Len(L) >= Len(NiosPacket)
  /\ tool \in {"send", "sent", "result"} => Len(NiosPacket) + Len(text) + Len(Upstream) <= Len(L)

\* A later session: the packet is gone, and what follows it is too short.
TooLate(L) ==
  /\ tool \in {"drain", "find", "flush", "payload", "failed"}
  /\ Len(L) >= Len(NiosPacket)
  /\ tool \in {"find", "flush"} => Len(NiosPacket) + found + Len(Upstream) <= Len(L)
  /\ tool = "payload" =>
       Len(NiosPacket) + Len(NiosHeader) + Len(got) + Len(Upstream) <= Len(L)

Log(L)   == Written(L) /\ Bounded(L) /\ (Searched(L) \/ Answered(L) \/ TooLate(L))
LossyInv == CrcShape /\ PartsRight /\ \E L \in Seq(Byte) : Log(L)

-----------------------------------------------------------------------------
(* The result line. *)

LEMMA Sizes ==
  /\ Len(NiosPacket) \in Nat /\ Len(NiosPacket) >= 3
  /\ Len(NiosPacket) = Len(NiosHeader) + Count + 1
  /\ Len(PcPacket) \in Nat /\ Len(PcPacket) = Len(PcHeader) + Count + 1
  /\ Len(NiosHeader) \in Nat \ {0} /\ Len(PcHeader) \in Nat \ {0} /\ Count \in Nat \ {0}
  /\ Len(PassText) \in Nat /\ Len(FailText) \in Nat /\ Len(PcText) \in Nat /\ Len(Newline) \in Nat
<1>1. PICK h \in Nat \ {0}, p \in Nat \ {0}, c \in Nat \ {0} :
        h = Len(NiosHeader) /\ p = Len(PcHeader) /\ c = Count
  BY Lengths, CrcConstants
<1>2. Len(NiosPacket) = h + c + 1 /\ Len(PcPacket) = p + c + 1
  BY <1>1, NiosPacketIs, PcPacketIs
<1>3. Len(PassText) \in Nat /\ Len(FailText) \in Nat /\ Len(PcText) \in Nat /\ Len(Newline) \in Nat
  BY CrcConstants, LenProperties
<1>. QED BY <1>1, <1>2, <1>3

LEMMA BehindIs ==
  /\ Behind(0) = 0 /\ Behind(1) = Len(Newline) /\ Behind(2) = Len(Newline) + 2
  /\ Behind(3) = Len(Newline) + 2 + Len(PcText) /\ Behind(4) = Len(Newline) + 2 + Len(PcText) + 2
  /\ \A n \in 0 .. 4 : Behind(n) \in Nat
<1>1. PICK a \in Nat, b \in Nat : a = Len(Newline) /\ b = Len(PcText)
  BY Sizes
<1>2. Behind(0) = 0 /\ Behind(1) = a /\ Behind(2) = a + 2 /\ Behind(3) = a + 2 + b /\ Behind(4) = a + 2 + b + 2
  BY <1>1 DEF Behind
<1>3. \A n \in 0 .. 4 : n = 0 \/ n = 1 \/ n = 2 \/ n = 3 \/ n = 4
  OBVIOUS
<1>. QED BY <1>1, <1>2, <1>3

\* The next text of the line.
LEMMA NextPart ==
  ASSUME CrcShape, PartsRight, parts # << >>
  PROVE  /\ Len(parts) \in 1 .. 4 /\ Len(Tail(parts)) = Len(parts) - 1
         /\ Len(Head(parts)) + Behind(Len(Tail(parts))) = Behind(Len(parts))
         /\ \A i \in 1 .. Len(parts) - 1 : Tail(parts)[i] = parts[i + 1]
<1>1. parts \in Seq(CleanTexts)
  BY DEF CrcShape, CrcTypeOK
<1>2. /\ Len(Tail(parts)) = Len(parts) - 1 /\ Head(parts) = parts[1]
      /\ \A i \in 1 .. Len(parts) - 1 : Tail(parts)[i] = parts[i + 1]
  BY <1>1, HeadTailProperties
<1>3. Len(parts) # 0
  BY <1>1, EmptySeq
<1>4. PICK n \in 1 .. 4 : n = Len(parts)
  BY <1>3 DEF PartsRight
<1>5. Len(parts[1]) = Behind(n + 1 - 1) - Behind(n - 1)
  <2>1. 1 \in 1 .. Len(parts)
    BY <1>4
  <2>. QED BY <1>4, <2>1 DEF PartsRight
<1>6. Behind(n) \in Nat /\ Behind(n - 1) \in Nat /\ n + 1 - 1 = n
  <2>1. n \in 0 .. 4 /\ n - 1 \in 0 .. 4
    OBVIOUS
  <2>. QED BY <2>1, BehindIs
<1>. QED BY <1>2, <1>4, <1>5, <1>6, SMTT(20)

LEMMA HexLength ==
  ASSUME NEW b
  PROVE  Len(HexByte(b)) = 2
BY DEF HexByte

LEMMA PartsByFirmware ==
  ASSUME CrcShape, PartsRight, FirmwareNext
  PROVE  PartsRight'
<1>1. CASE UNCHANGED parts
  BY <1>1 DEF PartsRight
<1>2. CASE parts # << >> /\ parts' = Tail(parts)
  <2>1. PICK n \in 1 .. 4 : n = Len(parts)
    BY <1>2, NextPart
  <2>2. Len(parts') = n - 1
    BY <1>2, <2>1, NextPart
  <2>3. ASSUME NEW i \in 1 .. n - 1
        PROVE  Len(parts'[i]) = Behind(n - 1 + 1 - i) - Behind(n - 1 - i)
    <3>1. parts'[i] = parts[i + 1] /\ i + 1 \in 1 .. n
      BY <1>2, <2>1, NextPart
    <3>2. Len(parts[i + 1]) = Behind(n + 1 - (i + 1)) - Behind(n - (i + 1))
      BY <2>1, <3>1 DEF PartsRight
    <3>3. n + 1 - (i + 1) = n - 1 + 1 - i /\ n - (i + 1) = n - 1 - i
      OBVIOUS
    <3>. QED BY <3>1, <3>2, <3>3
  <2>4. n - 1 \in 0 .. 4
    OBVIOUS
  <2>. QED BY <2>2, <2>3, <2>4 DEF PartsRight
<1>3. CASE Firmware(ReceiveCrc)
  <2>1. PICK a, b : parts' = <<HexByte(a), PcText, HexByte(b), Newline>>
    BY <1>3 DEF Firmware, ReceiveCrc
  <2>2. /\ Len(parts') = 4 /\ parts'[1] = HexByte(a) /\ parts'[2] = PcText
        /\ parts'[3] = HexByte(b) /\ parts'[4] = Newline
    BY <2>1
  <2>3. Len(parts'[1]) = 2 /\ Len(parts'[2]) = Len(PcText) /\ Len(parts'[3]) = 2 /\ Len(parts'[4]) = Len(Newline)
    BY <2>2, HexLength
  <2>4. PICK x \in Nat, y \in Nat : x = Len(Newline) /\ y = Len(PcText)
    BY Sizes
  <2>5. /\ 2 = Behind(4) - Behind(3) /\ y = Behind(3) - Behind(2)
        /\ 2 = Behind(2) - Behind(1) /\ x = Behind(1) - Behind(0)
    BY <2>4, BehindIs
  <2>6. \A i \in 1 .. 4 : i = 1 \/ i = 2 \/ i = 3 \/ i = 4
    OBVIOUS
  <2>7. /\ 4 + 1 - 1 = 4 /\ 4 - 1 = 3 /\ 4 + 1 - 2 = 3 /\ 4 - 2 = 2
        /\ 4 + 1 - 3 = 2 /\ 4 - 3 = 1 /\ 4 + 1 - 4 = 1 /\ 4 - 4 = 0
    OBVIOUS
  <2>8. \A i \in 1 .. 4 : Len(parts'[i]) = Behind(4 + 1 - i) - Behind(4 - i)
    BY <2>3, <2>4, <2>5, <2>6, <2>7
  <2>. QED BY <2>2, <2>8 DEF PartsRight
<1>. QED BY <1>1, <1>2, <1>3 DEF FirmwareNext, Driver, Firmware, Boot, WaitForHeader, Wrote, WriteFailed,
         SendPayload, Reception, ReceivePayload, firmwareVars

\* Behind the packet there is only the result line.
LEMMA WrittenShort ==
  ASSUME CrcShape, NEW L \in Seq(Byte), Written(L), pc \notin {"result", "end"}
  PROVE  Len(L) <= Len(NiosPacket) /\ Len(L) \in Nat
<1>1. pc \in Pcs /\ Len(L) \in Nat
  BY LenProperties DEF CrcShape, CrcTypeOK
<1>2. PICK h \in Seq(Byte), p \in Seq(Byte), P \in Seq(Byte) :
        h = NiosHeader /\ p = NiosPayload /\ P = NiosPacket /\ Len(p) = Count
        /\ Len(P) = Len(h) + Count + 1 /\ Count \in Nat /\ Len(h) \in Nat
  BY CrcConstants, PayloadsAre, NiosPacketIs, Sizes
<1>3. CASE pc \in {"boot", "start"}
  <2>1. Len(L) = 0
    BY <1>3, EmptySeq DEF Written
  <2>. QED BY <1>1, <1>2, <2>1
<1>4. CASE pc \in {"header", "crc"}
  <2>1. PICK q \in Seq(Byte) : q = Pending
    BY <1>4, PendingIs
  <2>2. Len(L \o q) = Len(L) + Len(q) /\ Len(q) \in Nat
    BY ConcatIs
  <2>3. L \o q = h \/ L \o q = P
    BY <1>2, <1>4, <2>1 DEF Written
  <2>. QED BY <1>1, <1>2, <2>2, <2>3
<1>5. CASE pc = "payload"
  <2>1. PICK n \in 0 .. Len(p) : n = at
    BY <1>2 DEF CrcShape, CrcTypeOK
  <2>2. PICK s \in Seq(Byte) : s = SubSeq(p, 1, n) /\ Len(s) = n
    BY SomePrefix
  <2>3. L = h \o s
    BY <1>2, <1>5, <2>1, <2>2 DEF Written
  <2>4. Len(h \o s) = Len(h) + Len(s)
    BY ConcatIs
  <2>. QED BY <1>2, <2>2, <2>3, <2>4
<1>6. CASE pc \in {"wait", "receive"}
  <2>1. L = P
    BY <1>2, <1>6 DEF Written
  <2>. QED BY <1>1, <1>2, <2>1
<1>. QED BY <1>1, <1>3, <1>4, <1>5, <1>6 DEF Pcs

\* A step of the firmware stores at most one byte.
LEMMA OneByte ==
  ASSUME CrcShape, FirmwareNext, NEW u \in Seq(Byte), tx' = tx \o u
  PROVE  Len(u) \in {0, 1} /\ (UNCHANGED tx => u = << >>)
<1>1. PICK t \in Seq(Byte) : t = tx
  BY DEF CrcShape, CrcTypeOK
<1>2. Len(t \o u) = Len(t) + Len(u) /\ Len(t) \in Nat /\ Len(u) \in Nat
  BY ConcatIs
<1>3. Len(tx') = Len(t) + Len(u)
  BY <1>1, <1>2
<1>4. UNCHANGED tx \/ \E b : tx' = Append(tx, b)
  BY DEF FirmwareNext, Driver, DriverNext, RaiseError, Poll, Store, StoreByte, ClearAndWait, Firmware, Boot,
     WaitForHeader, ReadByte, Wrote, WriteFailed, SendPayload, Reception, ReceivePayload, ReceiveCrc, slaveVars
<1>5. CASE UNCHANGED tx
  <2>1. Len(u) = 0
    BY <1>1, <1>2, <1>3, <1>5
  <2>. QED BY <2>1, EmptySeq
<1>6. CASE ~UNCHANGED tx
  <2>1. PICK b : tx' = Append(t, b)
    BY <1>1, <1>4, <1>6
  <2>2. Len(tx') = Len(t) + 1
    BY <2>1, <1>1
  <2>3. PICK m \in Nat, n \in Nat : m = Len(t) /\ n = Len(u)
    BY <1>2
  <2>4. m + n = m + 1
    BY <1>3, <2>2, <2>3
  <2>5. n = 1
    BY <2>4
  <2>. QED BY <1>6, <2>3, <2>5
<1>. QED BY <1>5, <1>6

\* What is still to come of the result line becomes less by what is stored.
LEMMA LineShrinks ==
  ASSUME CrcShape, PartsRight, FirmwareNext, pc = "result", NEW u \in Seq(Byte), tx' = tx \o u
  PROVE  pc' \in {"result", "end"} /\ Len(u) + ToCome' <= ToCome /\ ToCome \in Nat /\ ToCome' \in Nat
<1>1. PICK q \in Seq(Byte) : q = Pending /\ Len(q) \in Nat
  BY PendingIs, LenProperties
<1>2. Behind(Len(parts)) \in Nat
  BY BehindIs DEF PartsRight
<1>3. ToCome = Len(q) + Behind(Len(parts)) /\ ToCome \in Nat
  BY <1>1, <1>2 DEF ToCome
<1>4. out \in Seq(Byte) /\ out # << >> /\ Len(out) \in Nat
  BY PendingIs, LenProperties
<1>5. CASE UNCHANGED <<tx, pc, parts>> /\ Pending' = Pending
  <2>1. Len(u) = 0
    BY <1>5, OneByte
  <2>2. ToCome' = ToCome
    BY <1>5 DEF ToCome
  <2>. QED BY <1>3, <1>5, <2>1, <2>2
<1>6. CASE Driver
  <2>1. UNCHANGED <<pc, out, parts>>
    BY <1>6 DEF Driver, firmwareVars
  <2>2. CASE Store
    <3>1. step = "store" /\ step' = "done"
      BY <2>2 DEF Store, Return
    <3>2. Pending = out /\ Pending' = Tail(out)
      BY <2>1, <3>1 DEF Pending
    <3>3. Len(Tail(out)) = Len(out) - 1 /\ Len(out) # 0
      BY <1>4, HeadTailProperties, EmptySeq
    <3>4. ToCome' = Len(out) - 1 + Behind(Len(parts))
      BY <2>1, <3>2, <3>3 DEF ToCome
    <3>5. Len(u) \in {0, 1}
      BY OneByte
    <3>6. PICK m \in Nat, b \in Nat : m = Len(out) /\ b = Behind(Len(parts))
      BY <1>2, <1>4
    <3>7. m # 0 /\ ToCome = m + b /\ ToCome' = m - 1 + b
      BY <1>1, <1>3, <3>2, <3>3, <3>4, <3>6
    <3>8. Len(u) + ToCome' <= ToCome /\ ToCome' \in Nat
      BY <3>5, <3>7
    <3>. QED BY <1>3, <2>1, <3>8
  <2>3. CASE RaiseError \/ Poll \/ ClearAndWait
    <3>1. UNCHANGED tx
      BY <2>3 DEF RaiseError, Poll, ClearAndWait
    <3>2. ASSUME ClearAndWait PROVE step # "done" /\ step' # "done"
      <4>1. step = "clear"
        BY <3>2 DEF ClearAndWait
      <4>2. byte = out[1]
        BY <4>1 DEF CrcShape, FirmwareRight
      <4>3. byte # NoByte
        BY <1>4, <4>2, TextIs, CrcConstants
      <4>. QED BY <3>2, <4>1, <4>3 DEF ClearAndWait
    <3>3. (RaiseError => UNCHANGED step) /\ (Poll => step # "done" /\ step' # "done")
      BY DEF RaiseError, Poll, Return, driverVars
    <3>4. Pending' = Pending
      BY <2>1, <2>3, <3>2, <3>3 DEF Pending
    <3>. QED BY <1>5, <2>1, <3>1, <3>4
  <2>. QED BY <1>6, <2>2, <2>3 DEF Driver, DriverNext
<1>7. CASE UNCHANGED <<tx, pc>> /\ parts # << >> /\ out' = Head(parts) /\ parts' = Tail(parts) /\ step' = "poll"
  <2>1. Len(u) = 0
    BY <1>7, OneByte
  <2>2. Pending' = Head(parts)
    BY <1>7 DEF Pending
  <2>3. Len(Head(parts)) + Behind(Len(Tail(parts))) = Behind(Len(parts))
    BY <1>7, NextPart
  <2>4. ToCome' = Behind(Len(parts))
    BY <1>7, <2>2, <2>3 DEF ToCome
  <2>. QED BY <1>1, <1>2, <1>3, <1>7, <2>1, <2>4
<1>8. CASE UNCHANGED tx /\ pc' = "end"
  <2>1. Len(u) = 0
    BY <1>8, OneByte
  <2>2. ToCome' = 0
    BY <1>8 DEF ToCome
  <2>. QED BY <1>3, <1>8, <2>1, <2>2
<1>9. CASE Firmware(Wrote)
  <2>1. UNCHANGED tx /\ step = "done"
    BY <1>9 DEF Firmware, Wrote, slaveVars
  <2>2. CASE Len(out) > 1
    <3>1. out' = Tail(out) /\ step' = "poll" /\ UNCHANGED <<pc, parts>>
      BY <1>9, <2>2 DEF Firmware, Wrote, WriteByte
    <3>2. Pending' = Pending
      BY <2>1, <3>1 DEF Pending
    <3>. QED BY <1>5, <2>1, <3>1, <3>2
  <2>3. CASE ~(Len(out) > 1) /\ parts # << >>
    <3>1. UNCHANGED pc /\ out' = Head(parts) /\ parts' = Tail(parts) /\ step' = "poll"
      BY <1>9, <2>3 DEF Firmware, Wrote, WriteByte
    <3>. QED BY <1>7, <2>1, <2>3, <3>1
  <2>4. CASE ~(Len(out) > 1) /\ parts = << >>
    <3>1. pc' = CASE pc = "header" -> "payload" [] pc = "crc" -> "wait" [] OTHER -> "end"
      BY <1>9, <2>4 DEF Firmware, Wrote
    <3>2. pc' = "end"
      BY <3>1
    <3>. QED BY <1>8, <2>1, <3>2
  <2>. QED BY <2>2, <2>3, <2>4
<1>10. CASE WriteFailed
  <2>1. UNCHANGED tx
    BY <1>10 DEF WriteFailed, slaveVars
  <2>2. CASE parts # << >>
    <3>1. UNCHANGED pc /\ out' = Head(parts) /\ parts' = Tail(parts) /\ step' = "poll"
      BY <1>10, <2>2 DEF WriteFailed, WriteByte
    <3>. QED BY <1>7, <2>1, <2>2, <3>1
  <2>3. CASE parts = << >>
    <3>1. pc' = "end"
      BY <1>10, <2>3 DEF WriteFailed
    <3>. QED BY <1>8, <2>1, <3>1
  <2>. QED BY <2>2, <2>3
<1>11. ~Firmware(Boot) /\ ~Firmware(WaitForHeader("start", StartHeader))
       /\ ~Firmware(WaitForHeader("wait", PcHeader)) /\ ~Firmware(SendPayload) /\ ~Firmware(Reception)
  BY DEF Firmware, Boot, WaitForHeader, SendPayload, Reception, ReceivePayload, ReceiveCrc
<1>. QED BY <1>6, <1>9, <1>10, <1>11 DEF FirmwareNext

LEMMA BoundByFirmware ==
  ASSUME CrcShape, PartsRight, FirmwareNext, NEW L \in Seq(Byte), Written(L), Bounded(L),
         NEW u \in Seq(Byte), tx' = tx \o u
  PROVE  Bounded(L \o u)'
<1>1. Len(L \o u) = Len(L) + Len(u) /\ Len(L) \in Nat /\ Len(u) \in {0, 1}
  BY ConcatIs, OneByte, SMTT(20)
<1>2. PICK n \in Nat : n = Len(NiosPacket) /\ n >= 3
  BY Sizes
<1>3. CASE pc = "result"
  <2>1. Len(u) + ToCome' <= ToCome /\ ToCome \in Nat /\ ToCome' \in Nat
    BY <1>3, LineShrinks
  <2>2. Len(L) + ToCome < 2 * n
    BY <1>2 DEF Bounded
  <2>3. Len(L) + Len(u) + ToCome' < 2 * n
    BY <1>1, <2>1, <2>2
  <2>. QED BY <1>1, <1>2, <2>3 DEF Bounded
<1>4. CASE pc = "end"
  <2>1. UNCHANGED <<tx, pc>>
    <3>1. step = "idle"
      BY <1>4 DEF CrcShape, FirmwareRight
    <3>2. RaiseError /\ UNCHANGED firmwareVars
      BY <1>4, <3>1 DEF FirmwareNext, Driver, DriverNext, Poll, Store, ClearAndWait, Firmware, Boot, WaitForHeader,
         Wrote, WriteFailed, SendPayload, Reception, ReceivePayload, ReceiveCrc
    <3>. QED BY <3>2 DEF RaiseError, firmwareVars
  <2>2. Len(u) = 0
    BY <2>1, OneByte
  <2>3. ToCome = 0 /\ ToCome' = 0
    BY <1>4, <2>1 DEF ToCome
  <2>4. Len(L) < 2 * n
    BY <1>1, <1>2, <2>3 DEF Bounded
  <2>. QED BY <1>1, <1>2, <2>2, <2>3, <2>4 DEF Bounded
<1>5. CASE pc \notin {"result", "end"}
  <2>1. Len(L) <= n
    BY <1>2, <1>5, WrittenShort
  <2>2. CASE pc' # "result"
    <3>1. ToCome' = 0
      BY <2>2 DEF ToCome
    <3>2. Len(L) + Len(u) + 0 < 2 * n
      BY <1>1, <1>2, <2>1
    <3>. QED BY <1>1, <1>2, <3>1, <3>2 DEF Bounded
  <2>3. CASE pc' = "result"
    <3>1. Firmware(ReceiveCrc)
      <4>1. ~Driver
        BY <1>5, <2>3 DEF Driver, firmwareVars
      <4>2. Firmware(Wrote) => FALSE
        <5>1. ASSUME Firmware(Wrote) PROVE FALSE
          <6>1. pc \in {"header", "crc"}
            BY <1>5, <5>1 DEF Firmware, Wrote
          <6>2. UNCHANGED pc \/ pc' = CASE pc = "header" -> "payload" [] pc = "crc" -> "wait" [] OTHER -> "end"
            BY <5>1, Zenon DEF Firmware, Wrote
          <6>. QED BY <2>3, <6>1, <6>2
        <5>. QED BY <5>1
      <4>3. /\ ~Firmware(Boot) /\ ~Firmware(WaitForHeader("start", StartHeader))
            /\ ~Firmware(WaitForHeader("wait", PcHeader)) /\ ~WriteFailed /\ ~Firmware(SendPayload)
            /\ ~Firmware(ReceivePayload)
        BY <1>5, <2>3 DEF Firmware, Boot, WaitForHeader, WriteFailed, SendPayload, ReceivePayload
      <4>. QED BY <4>1, <4>2, <4>3 DEF FirmwareNext, Firmware, Reception
    <3>2. UNCHANGED tx /\ out' \in {PassText, FailText} /\ step' = "poll" /\ Len(parts') = 4
      BY <3>1 DEF Firmware, ReceiveCrc, ReadByte, WriteByte
    <3>3. Len(u) = 0
      BY <3>2, OneByte
    <3>4. PICK v \in Nat, y \in Nat, x \in Nat : v = Len(out') /\ y = Len(PcText) /\ x = Len(Newline)
      BY <3>2, Sizes
    <3>5. v + y + x + 4 < n
      BY <1>2, <3>2, <3>4, LineAssumption
    <3>6. Behind(4) = x + 2 + y + 2
      BY <3>4, BehindIs
    <3>7. ToCome' = v + (x + 2 + y + 2)
      BY <2>3, <3>2, <3>4, <3>6 DEF ToCome, Pending
    <3>8. Len(L) + Len(u) + ToCome' < 2 * n
      BY <1>1, <1>2, <2>1, <3>3, <3>5, <3>7
    <3>. QED BY <1>1, <1>2, <3>8 DEF Bounded
  <2>. QED BY <2>2, <2>3
<1>. QED BY <1>1, <1>3, <1>4, <1>5

-----------------------------------------------------------------------------
(* Every step keeps it, whatever the link loses. *)

LEMMA UpstreamIs ==
  ASSUME CrcShape
  PROVE  /\ Len(Upstream) = Len(hostIn) + Len(tx) /\ Len(hostIn) \in Nat /\ Len(tx) \in Nat
         /\ Len(Upstream) \in Nat /\ Len(got) \in Nat /\ Len(text) \in Nat /\ found \in Nat
<1>1. PICK h \in Seq(Byte), t \in Seq(Byte) : h = hostIn /\ t = tx
  BY SeenIs
<1>2. Len(h \o t) = Len(h) + Len(t) /\ Len(h) \in Nat /\ Len(t) \in Nat
  BY ConcatIs
<1>3. Len(got) \in Nat /\ Len(text) \in Nat /\ found \in Nat
  BY LenProperties DEF CrcShape, CrcTypeOK
<1>. QED BY <1>1, <1>2, <1>3 DEF Upstream

\* The firmware stores u.
LEMMA UpstreamGrows ==
  ASSUME CrcShape, CrcShape', UNCHANGED hostIn, NEW u \in Seq(Byte), tx' = tx \o u, NEW L \in Seq(Byte)
  PROVE  /\ Len(Upstream') = Len(Upstream) + Len(u) /\ Len(L \o u) = Len(L) + Len(u)
         /\ Len(Upstream) \in Nat /\ Len(L) \in Nat /\ Len(u) \in Nat /\ L \o u \in Seq(Byte)
<1>1. PICK h \in Seq(Byte), t \in Seq(Byte) : h = hostIn /\ t = tx
  BY SeenIs
<1>2. PICK w \in Seq(Byte) : w = t \o u
  BY ConcatIs
<1>3. Len(w) = Len(t) + Len(u) /\ Len(t) \in Nat /\ Len(u) \in Nat
  BY <1>2, ConcatIs
<1>4. Len(h \o w) = Len(h) + Len(w) /\ Len(h \o t) = Len(h) + Len(t) /\ Len(h) \in Nat
  BY ConcatIs
<1>5. Upstream = h \o t /\ Upstream' = h \o w
  BY <1>1, <1>2 DEF Upstream
<1>6. Len(L \o u) = Len(L) + Len(u) /\ Len(L) \in Nat /\ L \o u \in Seq(Byte)
  BY ConcatIs
<1>. QED BY <1>3, <1>4, <1>5, <1>6

LEMMA SearchedByFirmware ==
  ASSUME CrcShape, CrcShape', FirmwareNext, NEW L \in Seq(Byte), Searched(L),
         NEW u \in Seq(Byte), tx' = tx \o u
  PROVE  Searched(L \o u)'
<1>1. UNCHANGED <<tool, hostIn, found, got, text>>
  BY DEF FirmwareNext, Driver, Firmware, WriteFailed, toolVars, linkVars
<1>2. OnlyStarts'
  BY StartsByFirmware DEF Searched
<1>3. /\ Len(Upstream') = Len(Upstream) + Len(u) /\ Len(L \o u) = Len(L) + Len(u)
      /\ Len(Upstream) \in Nat /\ Len(L) \in Nat /\ Len(u) \in Nat
  BY <1>1, UpstreamGrows
<1>4. PICK h \in Seq(Byte), t \in Seq(Byte), s \in Seq(Byte), g \in Seq(Byte), H \in Seq(Byte) :
        h = hostIn /\ t = tx /\ s = Seen /\ g = got /\ H = NiosHeader
  BY SeenIs, CrcConstants
<1>5. Upstream = h \o t /\ Upstream' = h \o (t \o u) /\ Seen' = s
  BY <1>1, <1>4 DEF Upstream, Seen
<1>6. ASSUME tool \in {"find", "flush"}
      PROVE  Seen' \o Upstream' = L \o u \/ found' + Len(Upstream') < Len(L \o u)
  <2>1. CASE Seen \o Upstream = L
    <3>1. PICK w \in Seq(Byte), r \in Seq(Byte) : w = h \o t /\ r = t \o u
      BY ConcatIs
    <3>2. Regroup(s, w, u) /\ Regroup(h, t, u)
      BY ByteRegrouping
    <3>3. s \o (h \o (t \o u)) = L \o u
      BY <1>4, <1>5, <2>1, <3>1, <3>2 DEF Regroup
    <3>. QED BY <1>5, <3>3
  <2>2. CASE found + Len(Upstream) < Len(L)
    <3>1. PICK a \in Nat, b \in Nat, c \in Nat, d \in Nat :
            a = found /\ b = Len(Upstream) /\ c = Len(L) /\ d = Len(u)
      BY <1>3, UpstreamIs
    <3>2. a + (b + d) < c + d
      BY <2>2, <3>1
    <3>. QED BY <1>1, <1>3, <3>1, <3>2
  <2>. QED BY <1>6, <2>1, <2>2 DEF Searched
<1>7. ASSUME tool = "payload"
      PROVE  \/ NiosHeader \o (got' \o Upstream') = L \o u
             \/ Len(NiosHeader) + Len(got') + Len(Upstream') < Len(L \o u)
  <2>1. CASE NiosHeader \o (got \o Upstream) = L
    <3>1. GrowsBy(H, g, h, t, u)
      BY Growing
    <3>. QED BY <1>1, <1>4, <1>5, <2>1, <3>1 DEF GrowsBy
  <2>2. CASE Len(NiosHeader) + Len(got) + Len(Upstream) < Len(L)
    <3>1. PICK a \in Nat, b \in Nat, c \in Nat, d \in Nat, e \in Nat :
            a = Len(got) /\ b = Len(Upstream) /\ c = Len(L) /\ d = Len(u) /\ e = Len(NiosHeader)
      BY <1>3, UpstreamIs, Sizes
    <3>2. e + a + (b + d) < c + d
      BY <2>2, <3>1
    <3>. QED BY <1>1, <1>3, <3>1, <3>2
  <2>. QED BY <1>7, <2>1, <2>2 DEF Searched
<1>. QED BY <1>1, <1>2, <1>6, <1>7 DEF Searched

LEMMA TooLateByFirmware ==
  ASSUME CrcShape, CrcShape', FirmwareNext, NEW L \in Seq(Byte), TooLate(L),
         NEW u \in Seq(Byte), tx' = tx \o u
  PROVE  TooLate(L \o u)'
<1>1. UNCHANGED <<tool, hostIn, found, got>>
  BY DEF FirmwareNext, Driver, Firmware, WriteFailed, toolVars, linkVars
<1>2. /\ Len(Upstream') = Len(Upstream) + Len(u) /\ Len(L \o u) = Len(L) + Len(u)
      /\ Len(Upstream) \in Nat /\ Len(L) \in Nat /\ Len(u) \in Nat
  BY <1>1, UpstreamGrows
<1>3. PICK a \in Nat, b \in Nat, c \in Nat, d \in Nat, e \in Nat, f \in Nat, p \in Nat :
        /\ a = Len(got) /\ b = Len(Upstream) /\ c = Len(L) /\ d = Len(u) /\ e = Len(NiosHeader)
        /\ f = found /\ p = Len(NiosPacket)
  BY <1>2, UpstreamIs, Sizes
<1>4. tool \in {"drain", "find", "flush", "payload", "failed"} /\ c >= p
  BY <1>3 DEF TooLate
<1>5. tool \in {"find", "flush"} => p + f + b <= c
  BY <1>3 DEF TooLate
<1>6. tool = "payload" => p + e + a + b <= c
  BY <1>3 DEF TooLate
<1>7. Len(Upstream') = b + d /\ Len(L \o u) = c + d /\ Len(got') = a /\ found' = f
  BY <1>1, <1>2, <1>3
<1>8. Len(L \o u) >= Len(NiosPacket)
  BY <1>3, <1>4, <1>7
<1>9. tool' \in {"find", "flush"} => Len(NiosPacket) + found' + Len(Upstream') <= Len(L \o u)
  BY <1>1, <1>3, <1>5, <1>7
<1>10. tool' = "payload" => Len(NiosPacket) + Len(NiosHeader) + Len(got') + Len(Upstream') <= Len(L \o u)
  BY <1>1, <1>3, <1>6, <1>7
<1>. QED BY <1>1, <1>4, <1>8, <1>9, <1>10 DEF TooLate

\* What arrives, if nothing changes on its way.
LEMMA ArrivingStays ==
  ASSUME NEW U \in Seq(StartBytes), NEW D \in Seq(Byte), NEW R \in Seq(Byte), Arriving(U, D, R),
         UNCHANGED <<rx, hostOut, packet>>, Received' = Received, tool' = "send" => tool = "send"
  PROVE  Arriving(U, D, R)'
BY DEF Arriving

LEMMA AnsweringStays ==
  ASSUME Answering, UNCHANGED <<packet, buffer, rx, hostOut, matched>>, tool' = "send" => tool = "send",
         UNCHANGED pc \/ (pc = "crc" /\ pc' = "wait")
           \/ (pc \in {"crc", "result", "end"} /\ pc' = "end")
  PROVE  Answering'
<1>1. /\ pc \in {"crc", "wait", "receive", "result", "end"}
      /\ pc \in {"crc", "wait"} => buffer = << >>
      /\ pc \in {"crc", "wait", "receive"} =>
           \E U \in Seq(StartBytes), D, R \in Seq(Byte) : Arriving(U, D, R)
      /\ pc \in {"result", "end"} /\ Len(buffer) = Count => buffer = PcPayload
  BY DEF Answering
<1>2. ASSUME pc' \in {"crc", "wait", "receive"}
      PROVE  \E U \in Seq(StartBytes), D, R \in Seq(Byte) : Arriving(U, D, R)'
  <2>1. pc \in {"crc", "wait", "receive"}
    BY <1>2
  <2>2. PICK U \in Seq(StartBytes), D \in Seq(Byte), R \in Seq(Byte) : Arriving(U, D, R)
    BY <1>1, <2>1
  <2>3. Received' = Received
    BY <1>2 DEF Received
  <2>4. Arriving(U, D, R)'
    BY <2>2, <2>3, ArrivingStays
  <2>. QED BY <2>4
<1>3. ASSUME pc' \in {"result", "end"}, Len(buffer') = Count PROVE buffer' = PcPayload
  <2>1. CASE pc = "crc"
    <3>1. Len(buffer) = 0 /\ Count # 0
      BY <1>1, <2>1, CrcConstants
    <3>. QED BY <1>3, <3>1
  <2>2. CASE pc \in {"result", "end"}
    BY <1>1, <1>3, <2>2
  <2>. QED BY <1>3, <2>1, <2>2
<1>4. pc' \in {"crc", "wait", "receive", "result", "end"} /\ (pc' \in {"crc", "wait"} => buffer' = << >>)
  BY <1>1
<1>. QED BY <1>2, <1>3, <1>4 DEF Answering

\* The first byte on the way to the firmware, be it of a START header or not.
FirstOf(U, D, x, y) ==
  x \o y = U \o D =>
    /\ Head(x) \in Byte
    /\ U # << >> => /\ Head(x) \in StartBytes /\ Tail(U) \in Seq(StartBytes)
                    /\ Tail(x) \o y = Tail(U) \o D
    /\ U = << >> => /\ D # << >> /\ Head(D) = Head(x) /\ Tail(D) \in Seq(Byte)
                    /\ Len(Tail(D)) = Len(D) - 1 /\ Tail(x) \o y = << >> \o Tail(D)

LEMMA FirstTaken ==
  ASSUME NEW U \in Seq(StartBytes), NEW D \in Seq(Byte), NEW x \in Seq(Byte), NEW y \in Seq(Byte), x # << >>
  PROVE  FirstOf(U, D, x, y)
<1>0. SUFFICES ASSUME x \o y = U \o D
      PROVE  /\ Head(x) \in Byte
             /\ U # << >> => /\ Head(x) \in StartBytes /\ Tail(U) \in Seq(StartBytes)
                             /\ Tail(x) \o y = Tail(U) \o D
             /\ U = << >> => /\ D # << >> /\ Head(D) = Head(x) /\ Tail(D) \in Seq(Byte)
                             /\ Len(Tail(D)) = Len(D) - 1 /\ Tail(x) \o y = << >> \o Tail(D)
  BY Zenon DEF FirstOf
<1>1. /\ x \o y # << >> /\ Head(x \o y) = Head(x) /\ Tail(x \o y) = Tail(x) \o y /\ Head(x) \in Byte
  BY TailInside
<1>2. ASSUME U # << >>
      PROVE  Head(x) \in StartBytes /\ Tail(U) \in Seq(StartBytes) /\ Tail(x) \o y = Tail(U) \o D
  <2>1. PICK V \in Seq(Byte) : V = U /\ V # << >>
    BY <1>2, StartsAre
  <2>2. Head(V \o D) = Head(V) /\ Tail(V \o D) = Tail(V) \o D
    BY <2>1, TailInside
  <2>3. Head(U) \in StartBytes /\ Tail(U) \in Seq(StartBytes)
    BY <1>2, HeadTailProperties
  <2>. QED BY <1>0, <1>1, <2>1, <2>2, <2>3
<1>3. ASSUME U = << >>
      PROVE  /\ D # << >> /\ Head(D) = Head(x) /\ Tail(D) \in Seq(Byte)
             /\ Len(Tail(D)) = Len(D) - 1 /\ Tail(x) \o y = << >> \o Tail(D)
  <2>1. U \o D = D
    BY <1>3, ConcatEmpty
  <2>2. D # << >> /\ Head(D) = Head(x) /\ Tail(D) = Tail(x) \o y
    BY <1>0, <1>1, <2>1
  <2>3. PICK e \in Seq(Byte) : e = Tail(D) /\ Len(e) = Len(D) - 1
    BY <2>2, HeadTailProperties
  <2>4. << >> \o e = e
    BY ConcatEmpty
  <2>. QED BY <2>2, <2>3, <2>4
<1>. QED BY <1>1, <1>2, <1>3

\* The byte that the firmware takes, of a packet that may come up short.
LEMMA AnswerTakes ==
  ASSUME CrcShape, Answering, pc \in {"wait", "receive"}, rx # << >>
  PROVE  \E U \in Seq(StartBytes), D, R \in Seq(Byte) :
           /\ tool = "send" => R = packet
           /\ U # << >> => Received = << >>
           /\ Tail(rx) \o hostOut = U \o D
           /\ \/ /\ pc = "wait" /\ matched = 0 /\ Head(rx) \in StartBytes
                 /\ \/ Received \o (D \o R) = PcPacket
                    \/ Len(Received) + Len(D) + Len(R) < Len(PcPacket)
              \/ /\ U = << >> /\ Append(Received, Head(rx)) \o (D \o R) = PcPacket
                 /\ Head(rx) = PcPacket[Len(Received) + 1] /\ Head(rx) \in Byte
              \/ U = << >> /\ Len(Received) + 1 + Len(D) + Len(R) < Len(PcPacket) /\ Head(rx) \in Byte
<1>1. PICK V \in Seq(StartBytes), E \in Seq(Byte), R \in Seq(Byte) : Arriving(V, E, R)
  BY DEF Answering
<1>2. /\ rx \o hostOut = V \o E
      /\ Received \o (E \o R) = PcPacket \/ Len(Received) + Len(E) + Len(R) < Len(PcPacket)
      /\ V # << >> => Received = << >>
      /\ tool = "send" => R = packet
  BY <1>1 DEF Arriving
<1>3. PICK x \in Seq(Byte), y \in Seq(Byte), w \in Seq(Byte) : x = rx /\ y = hostOut /\ w = Received
  BY ReceivedIs DEF CrcShape, CrcTypeOK
<1>4. x # << >> /\ x \o y = V \o E
  BY <1>2, <1>3
<1>5. /\ Head(x) \in Byte
      /\ V # << >> => /\ Head(x) \in StartBytes /\ Tail(V) \in Seq(StartBytes)
                      /\ Tail(x) \o y = Tail(V) \o E
      /\ V = << >> => /\ E # << >> /\ Head(E) = Head(x) /\ Tail(E) \in Seq(Byte)
                      /\ Len(Tail(E)) = Len(E) - 1 /\ Tail(x) \o y = << >> \o Tail(E)
  <2>1. FirstOf(V, E, x, y)
    BY <1>4, FirstTaken
  <2>. QED BY <1>4, <2>1 DEF FirstOf
<1>6. CASE V # << >>
  <2>1. Received = << >>
    BY <1>2, <1>6
  <2>2. pc # "receive"
    BY <2>1, ReceivedIs
  <2>3. matched = 0
    <3>1. Len(Received) = 0 /\ Len(Received) = matched
      BY <2>1, <2>2, ReceivedIs
    <3>. QED BY <3>1
  <2>. QED BY <1>2, <1>3, <1>5, <1>6, <2>1, <2>2, <2>3
<1>7. CASE V = << >> /\ Received \o (E \o R) = PcPacket
  <2>1. Takes(V, E, R, x, y, w)
    BY <1>4, DownTaken
  <2>2. w \o (E \o R) = PcPacket
    BY <1>3, <1>7
  <2>3. /\ Head(x) = PcPacket[Len(w) + 1] /\ Tail(E) \in Seq(Byte) /\ Tail(x) \o y = << >> \o Tail(E)
        /\ Append(w, Head(x)) \o (Tail(E) \o R) = PcPacket
    BY <1>4, <1>7, <2>1, <2>2 DEF Takes
  <2>. QED BY <1>2, <1>3, <1>5, <2>3, StartsAre
<1>8. CASE V = << >> /\ Len(Received) + Len(E) + Len(R) < Len(PcPacket)
  <2>1. PICK a \in Nat, b \in Nat, c \in Nat, d \in Nat :
          a = Len(w) /\ b = Len(E) /\ c = Len(R) /\ d = Len(PcPacket)
    BY PcPacketIs, LenProperties
  <2>2. PICK F \in Seq(Byte) : F = Tail(E) /\ Len(F) = b - 1
    BY <1>5, <1>8, <2>1
  <2>3. a + b + c < d
    BY <1>3, <1>8, <2>1
  <2>4. a + 1 + (b - 1) + c < d
    BY <2>3
  <2>5. Len(Received) + 1 + Len(F) + Len(R) < Len(PcPacket)
    BY <1>3, <2>1, <2>2, <2>4
  <2>6. Tail(rx) \o hostOut = << >> \o F /\ Head(rx) \in Byte
    BY <1>3, <1>5, <1>8, <2>2
  <2>. QED BY <1>2, <2>5, <2>6, StartsAre
<1>. QED BY <1>2, <1>6, <1>7, <1>8

\* The match becomes longer by at most the byte taken.
LEMMA ReceivedBounded ==
  ASSUME CrcShape, Firmware(WaitForHeader("wait", PcHeader)), buffer = << >>, Head(rx) \in Byte
  PROVE  Len(Received') <= Len(Received) + 1 /\ Len(Received') \in Nat /\ Len(Received) \in Nat
<1>. DEFINE n == Match(PcHeader, matched, Head(rx))
<1>1. /\ pc = "wait" /\ matched' = n % Len(PcHeader) /\ buffer' = << >>
      /\ n < Len(PcHeader) => pc' = "wait"
      /\ ~(n < Len(PcHeader)) => pc' = "receive"
  BY DEF Firmware, WaitForHeader
<1>2. PICK h \in Seq(Byte), k \in Nat \ {0} : h = PcHeader /\ k = Len(h)
  BY CrcConstants, Lengths
<1>3. matched \in Nat /\ matched < k /\ Len(Received) = matched
  BY <1>1, <1>2, ReceivedIs
<1>4. n \in {matched + 1, 1, 0} /\ n \in Nat
  BY <1>3 DEF Match
<1>5. n <= matched + 1
  BY <1>3, <1>4
<1>. HIDE DEF n
<1>6. CASE n < k
  <2>1. n \in 0 .. k - 1
    BY <1>4, <1>6
  <2>2. n % k = n
    BY <2>1, ModSmall
  <2>3. pc' = "wait" /\ matched' = n
    BY <1>1, <1>2, <1>6, <2>2
  <2>4. PICK m \in 0 .. Len(h) : m = n
    BY <1>2, <2>1
  <2>5. Len(SubSeq(h, 1, m)) = m
    BY PrefixIs
  <2>6. Len(Received') = n
    BY <1>2, <2>3, <2>4, <2>5 DEF Received
  <2>. QED BY <1>3, <1>4, <1>5, <2>6
<1>7. CASE ~(n < k)
  <2>1. pc' = "receive"
    BY <1>1, <1>2, <1>7
  <2>2. h \o << >> = h
    BY ConcatEmpty
  <2>3. Len(Received') = k
    BY <1>1, <1>2, <2>1, <2>2 DEF Received
  <2>. QED BY <1>2, <1>3, <1>4, <1>5, <1>7, <2>3
<1>. QED BY <1>6, <1>7

LEMMA AnsweringByWait ==
  ASSUME CrcShape, Answering, Firmware(WaitForHeader("wait", PcHeader))
  PROVE  Answering'
<1>. DEFINE n == Match(PcHeader, matched, Head(rx))
<1>1. /\ rx # << >> /\ rx' = Tail(rx) /\ pc = "wait" /\ matched' = n % Len(PcHeader)
      /\ UNCHANGED <<tool, packet, buffer, hostOut>>
      /\ n < Len(PcHeader) => pc' = "wait"
      /\ ~(n < Len(PcHeader)) => pc' = "receive"
  BY DEF Firmware, WaitForHeader, ReadByte, toolVars, linkVars
<1>2. buffer = << >>
  BY <1>1 DEF Answering
<1>3. PICK U \in Seq(StartBytes), D \in Seq(Byte), R \in Seq(Byte) :
        /\ tool = "send" => R = packet
        /\ U # << >> => Received = << >>
        /\ Tail(rx) \o hostOut = U \o D
        /\ \/ /\ pc = "wait" /\ matched = 0 /\ Head(rx) \in StartBytes
              /\ \/ Received \o (D \o R) = PcPacket
                 \/ Len(Received) + Len(D) + Len(R) < Len(PcPacket)
           \/ /\ U = << >> /\ Append(Received, Head(rx)) \o (D \o R) = PcPacket
              /\ Head(rx) = PcPacket[Len(Received) + 1] /\ Head(rx) \in Byte
           \/ U = << >> /\ Len(Received) + 1 + Len(D) + Len(R) < Len(PcPacket) /\ Head(rx) \in Byte
  BY <1>1, AnswerTakes
<1>4. PICK k \in Nat \ {0} : k = Len(PcHeader)
  BY Lengths
<1>5. matched \in Nat /\ matched < k /\ Len(Received) = matched
  BY <1>1, <1>4, ReceivedIs
<1>6. SUFFICES Arriving(U, D, R)'
  <2>1. pc' \in {"wait", "receive"}
    BY <1>1
  <2>. QED BY <1>1, <1>2, <2>1 DEF Answering
<1>7. CASE matched = 0 /\ Head(rx) \in StartBytes
           /\ (Received \o (D \o R) = PcPacket \/ Len(Received) + Len(D) + Len(R) < Len(PcPacket))
  <2>1. n = 0
    BY <1>7, NoMatch
  <2>2. 0 % k = 0
    <3>1. 0 \in 0 .. k - 1
      OBVIOUS
    <3>. QED BY <3>1, ModSmall
  <2>3. matched' = 0 /\ pc' = "wait"
    BY <1>1, <1>4, <2>1, <2>2
  <2>4. Received' = Received
    BY <1>1, <1>7, <2>3 DEF Received
  <2>. QED BY <1>1, <1>3, <1>7, <2>4 DEF Arriving
<1>8. CASE U = << >> /\ Append(Received, Head(rx)) \o (D \o R) = PcPacket
           /\ Head(rx) = PcPacket[Len(Received) + 1]
  <2>1. matched + 1 \in 1 .. Len(PcHeader)
    BY <1>4, <1>5
  <2>2. Head(rx) = PcHeader[matched + 1]
    BY <1>5, <1>8, <2>1, PcPacketIs
  <2>3. Received' = Append(Received, Head(rx))
    BY <1>2, <2>2, ReceivedGrows
  <2>. QED BY <1>1, <1>3, <1>8, <2>3 DEF Arriving
<1>9. CASE U = << >> /\ Len(Received) + 1 + Len(D) + Len(R) < Len(PcPacket) /\ Head(rx) \in Byte
  <2>1. Len(Received') <= Len(Received) + 1 /\ Len(Received') \in Nat /\ Len(Received) \in Nat
    BY <1>2, <1>9, ReceivedBounded
  <2>2. PICK a \in Nat, b \in Nat, c \in Nat, d \in Nat, e \in Nat :
          /\ a = Len(Received) /\ b = Len(D) /\ c = Len(R) /\ d = Len(PcPacket)
          /\ e = Len(Received')
    BY <2>1, PcPacketIs, LenProperties
  <2>3. e + b + c < d
    BY <1>9, <2>1, <2>2
  <2>4. Len(Received') + Len(D) + Len(R) < Len(PcPacket)
    BY <2>2, <2>3
  <2>. QED BY <1>1, <1>3, <1>9, <2>4 DEF Arriving
<1>. QED BY <1>3, <1>7, <1>8, <1>9

\* The payload that a complete packet brought.
LEMMA BufferRight ==
  ASSUME NEW b \in Seq(Byte), Len(b) = Count, NEW z \in Seq(Byte)
  PROVE  (PcHeader \o b) \o z = PcPacket => b = PcPayload
<1>0. SUFFICES ASSUME (PcHeader \o b) \o z = PcPacket PROVE b = PcPayload
  OBVIOUS
<1>1. PICK h \in Seq(Byte), p \in Seq(Byte), c \in Seq(Byte) :
        h = PcHeader /\ p = PcPayload /\ c = <<Crc(PcPayload)>> /\ Len(p) = Count
  BY CrcConstants, PayloadsAre
<1>2. PICK s \in Seq(Byte), u \in Seq(Byte) : s = h \o b /\ u = h \o p
  BY ConcatIs
<1>3. Len(s) = Len(h) + Len(b) /\ Len(u) = Len(h) + Len(p)
  BY <1>2, ConcatIs
<1>4. s \o z = u \o c /\ Len(s) = Len(u)
  BY <1>0, <1>1, <1>2, <1>3 DEF PcPacket
<1>5. s = u
  BY <1>4, SamePrefix
<1>6. h \o b = h \o p
  BY <1>2, <1>5
<1>7. b = p
  BY <1>6, SamePrefix
<1>. QED BY <1>1, <1>7

LEMMA AnsweringByReception ==
  ASSUME CrcShape, Answering, Firmware(Reception)
  PROVE  Answering'
<1>1. /\ pc = "receive" /\ rx # << >> /\ rx' = Tail(rx)
      /\ UNCHANGED <<tool, packet, hostOut>>
  BY DEF Firmware, Reception, ReceivePayload, ReceiveCrc, ReadByte, toolVars, linkVars
<1>2. PICK U \in Seq(StartBytes), D \in Seq(Byte), R \in Seq(Byte) :
        /\ tool = "send" => R = packet
        /\ Tail(rx) \o hostOut = U \o D
        /\ U = << >> /\ Head(rx) \in Byte
        /\ \/ Append(Received, Head(rx)) \o (D \o R) = PcPacket
           \/ Len(Received) + 1 + Len(D) + Len(R) < Len(PcPacket)
  BY <1>1, AnswerTakes, Zenon
<1>3. PICK h \in Seq(Byte), b \in Seq(Byte), e \in Byte : h = PcHeader /\ b = buffer /\ e = Head(rx)
  BY <1>2, CrcConstants DEF CrcShape, CrcTypeOK
<1>4. PICK i \in Nat, j \in Nat, c \in Nat, m \in Nat, n \in Nat :
        i = Len(h) /\ j = Len(b) /\ c = Count /\ m = Len(D) /\ n = Len(R)
  BY CrcConstants, LenProperties
<1>5. Received = h \o b /\ Len(Received) = i + j /\ Len(PcPacket) = i + c + 1
  BY <1>1, <1>3, <1>4, ReceivedIs, PcPacketIs DEF Received
<1>6. CASE Firmware(ReceiveCrc)
  <2>1. pc' = "result" /\ UNCHANGED buffer /\ j = c
    BY <1>3, <1>4, <1>6 DEF Firmware, ReceiveCrc
  <2>2. ~((i + j) + 1 + m + n < i + c + 1)
    BY <2>1
  <2>3. Append(Received, Head(rx)) \o (D \o R) = PcPacket
    BY <1>2, <1>4, <1>5, <2>2
  <2>4. PICK u \in Seq(Byte), v \in Seq(Byte), x \in Seq(Byte) : u = <<e>> /\ v = D \o R /\ x = h \o b
    BY Unit, ConcatIs
  <2>5. Append(x, e) = x \o u
    BY <2>4, AppendIsConcat
  <2>6. PICK z \in Seq(Byte) : z = u \o v
    BY ConcatIs
  <2>7. Regroup(x, u, v)
    BY ByteRegrouping
  <2>8. (h \o b) \o z = PcPacket
    BY <1>3, <1>5, <2>3, <2>4, <2>5, <2>6, <2>7 DEF Regroup
  <2>9. b = PcPayload
    BY <1>3, <1>4, <2>1, <2>8, BufferRight
  <2>. QED BY <1>3, <2>1, <2>9 DEF Answering
<1>7. CASE Firmware(ReceivePayload)
  <2>1. pc' = "receive" /\ buffer' = Append(b, e)
    BY <1>1, <1>3, <1>7 DEF Firmware, ReceivePayload
  <2>2. Appending(h, b, e)
    BY ByteAppending
  <2>3. Received' = h \o Append(b, e)
    BY <1>3, <2>1 DEF Received
  <2>4. Received' = Append(Received, Head(rx))
    BY <1>3, <1>5, <2>2, <2>3 DEF Appending
  <2>5. Len(Received') = i + j + 1
    <3>1. PICK g \in Seq(Byte) : g = Append(b, e) /\ Len(g) = j + 1
      BY <1>4, AppendProperties
    <3>2. Len(h \o g) = Len(h) + Len(g)
      BY ConcatIs
    <3>. QED BY <1>4, <2>3, <3>1, <3>2
  <2>6. \/ Received' \o (D \o R) = PcPacket
        \/ Len(Received') + Len(D) + Len(R) < Len(PcPacket)
    BY <1>2, <1>4, <1>5, <2>4, <2>5
  <2>7. Arriving(U, D, R)'
    BY <1>1, <1>2, <2>6 DEF Arriving
  <2>. QED BY <2>1, <2>7 DEF Answering
<1>. QED BY <1>6, <1>7 DEF Firmware, Reception

LEMMA AnsweringByFirmware ==
  ASSUME CrcShape, Answering, FirmwareNext
  PROVE  Answering'
<1>1. pc \in {"crc", "wait", "receive", "result", "end"}
  BY DEF Answering
<1>2. CASE Driver
  <2>1. UNCHANGED <<tool, packet, buffer, rx, hostOut, matched, pc>>
    BY <1>2 DEF Driver, DriverNext, RaiseError, Poll, Store, StoreByte, ClearAndWait,
       firmwareVars, toolVars, linkVars
  <2>. QED BY <2>1, AnsweringStays
<1>3. CASE Firmware(Wrote)
  <2>1. UNCHANGED <<tool, packet, buffer, rx, hostOut, matched>> /\ pc \in {"crc", "result"}
    BY <1>1, <1>3 DEF Firmware, Wrote, slaveVars, toolVars, linkVars
  <2>2. UNCHANGED pc \/ pc' = CASE pc = "header" -> "payload" [] pc = "crc" -> "wait" [] OTHER -> "end"
    BY <1>3, Zenon DEF Firmware, Wrote
  <2>3. UNCHANGED pc \/ (pc = "crc" /\ pc' = "wait") \/ pc' = "end"
    BY <2>1, <2>2
  <2>. QED BY <2>1, <2>3, AnsweringStays
<1>4. CASE WriteFailed
  <2>1. UNCHANGED <<tool, packet, buffer, rx, hostOut, matched>> /\ (UNCHANGED pc \/ pc' = "end")
    BY <1>4 DEF WriteFailed, slaveVars, toolVars, linkVars
  <2>2. pc \in {"crc", "result", "end"}
    <3>1. step = "failed"
      BY <1>4 DEF WriteFailed
    <3>. QED BY <1>1, <3>1 DEF CrcShape, FirmwareRight
  <2>. QED BY <2>1, <2>2, AnsweringStays
<1>5. ASSUME \/ Firmware(Boot) \/ Firmware(WaitForHeader("start", StartHeader)) \/ Firmware(SendPayload)
      PROVE  FALSE
  BY <1>1, <1>5 DEF Firmware, Boot, WaitForHeader, SendPayload
<1>. QED BY <1>2, <1>3, <1>4, <1>5, AnsweringByWait, AnsweringByReception DEF FirmwareNext

LEMMA AnsweredByFirmware ==
  ASSUME CrcShape, CrcShape', FirmwareNext, NEW L \in Seq(Byte), Answered(L),
         NEW u \in Seq(Byte), tx' = tx \o u
  PROVE  Answered(L \o u)'
<1>1. UNCHANGED <<tool, hostIn, found, got, text>>
  BY DEF FirmwareNext, Driver, Firmware, WriteFailed, toolVars, linkVars
<1>2. Answering'
  BY AnsweringByFirmware DEF Answered
<1>3. tool = "passed" => buffer' = PcPayload
  BY BufferStays, PayloadsAre DEF Answered
<1>4. /\ Len(Upstream') = Len(Upstream) + Len(u) /\ Len(L \o u) = Len(L) + Len(u)
      /\ Len(Upstream) \in Nat /\ Len(L) \in Nat /\ Len(u) \in Nat
  BY <1>1, UpstreamGrows
<1>5. PICK a \in Nat, b \in Nat, c \in Nat, d \in Nat, p \in Nat :
        a = Len(text) /\ b = Len(Upstream) /\ c = Len(L) /\ d = Len(u) /\ p = Len(NiosPacket)
  BY <1>4, UpstreamIs, Sizes
<1>6. c >= p /\ (tool \in {"send", "sent", "result"} => p + a + b <= c)
  BY <1>5 DEF Answered
<1>7. Len(L \o u) = c + d /\ Len(Upstream') = b + d /\ Len(text') = a
  BY <1>1, <1>4, <1>5
<1>8. c + d >= p /\ (tool' \in {"send", "sent", "result"} => p + a + (b + d) <= c + d)
  BY <1>1, <1>6
<1>9. /\ tool' \in {"send", "sent", "result", "passed", "failed"}
      /\ tool' # "failed" => got' = NiosPayload
      /\ tool' = "passed" => buffer' = PcPayload
  BY <1>1, <1>3 DEF Answered
<1>. QED BY <1>2, <1>5, <1>7, <1>8, <1>9 DEF Answered

LEMMA LossyByFirmware ==
  ASSUME CrcShape, CrcShape', FirmwareNext, LossyInv
  PROVE  LossyInv'
<1>1. PartsRight'
  BY PartsByFirmware DEF LossyInv
<1>2. PICK L \in Seq(Byte) : Written(L) /\ Bounded(L) /\ (Searched(L) \/ Answered(L) \/ TooLate(L))
  BY DEF LossyInv, Log
<1>3. PICK u \in Seq(Byte) : tx' = tx \o u /\ Written(L \o u)'
  BY <1>2, WrittenByFirmware
<1>4. Bounded(L \o u)'
  BY <1>2, <1>3, BoundByFirmware DEF LossyInv
<1>5. Searched(L \o u)' \/ Answered(L \o u)' \/ TooLate(L \o u)'
  BY <1>2, <1>3, SearchedByFirmware, AnsweredByFirmware, TooLateByFirmware
<1>6. L \o u \in Seq(Byte)
  BY ConcatIs
<1>. QED BY <1>1, <1>3, <1>4, <1>5, <1>6 DEF LossyInv, Log

\* What the tool and the link do changes nothing that the firmware has stored.
LEMMA LossyFrame ==
  ASSUME CrcShape', LossyInv, UNCHANGED driverVars, UNCHANGED firmwareVars,
         NEW L \in Seq(Byte), Log(L), Searched(L)' \/ Answered(L)' \/ TooLate(L)'
  PROVE  LossyInv'
<1>1. UNCHANGED <<step, pc, out, parts>>
  BY DEF driverVars, firmwareVars
<1>2. Written(L)'
  BY WrittenStays DEF Log
<1>3. Bounded(L)'
  <2>1. ToCome' = ToCome
    BY <1>1 DEF ToCome, Pending
  <2>. QED BY <2>1 DEF Log, Bounded
<1>4. PartsRight'
  BY <1>1 DEF LossyInv, PartsRight
<1>. QED BY <1>2, <1>3, <1>4 DEF LossyInv, Log

\* One division of a sequence refines the other.
Divided(s, t, u, v) ==
  s \o t = u \o v /\ Len(s) <= Len(u) => \E w \in Seq(Byte) : u = s \o w /\ t = w \o v

LEMMA Dividing ==
  ASSUME NEW s \in Seq(Byte), NEW t \in Seq(Byte), NEW u \in Seq(Byte), NEW v \in Seq(Byte)
  PROVE  Divided(s, t, u, v)
<1>0. SUFFICES ASSUME s \o t = u \o v, Len(s) <= Len(u)
      PROVE  \E w \in Seq(Byte) : u = s \o w /\ t = w \o v
  BY DEF Divided
<1>1. PICK n \in 0 .. Len(u) : n = Len(s)
  BY <1>0, LenProperties
<1>2. PICK w \in Seq(Byte) : SubSeq(u, 1, n) \o w = u
  BY PrefixRest
<1>3. PICK p \in Seq(Byte) : p = SubSeq(u, 1, n) /\ Len(p) = n
  BY SomePrefix
<1>4. PICK x \in Seq(Byte) : x = w \o v
  BY ConcatIs
<1>5. Regroup(p, w, v)
  BY ByteRegrouping
<1>6. s \o t = p \o x
  BY <1>0, <1>2, <1>3, <1>4, <1>5 DEF Regroup
<1>7. s = p /\ t = x
  BY <1>1, <1>3, <1>6, SamePrefix
<1>. QED BY <1>2, <1>3, <1>4, <1>7

LEMMA PartOf ==
  ASSUME NEW s \in Seq(Byte), NEW t \in Seq(Byte), s \o t \in Seq(StartBytes)
  PROVE  s \in Seq(StartBytes) /\ t \in Seq(StartBytes)
<1>1. PICK u \in Seq(StartBytes) : u = s \o t
  OBVIOUS
<1>2. /\ Len(u) = Len(s) + Len(t) /\ Len(s) \in Nat /\ Len(t) \in Nat
      /\ \A i \in 1 .. Len(s) : u[i] = s[i]
      /\ \A i \in 1 .. Len(t) : u[Len(s) + i] = t[i]
  BY <1>1, ConcatIs
<1>3. \A i \in 1 .. Len(u) : u[i] \in StartBytes
  BY ElementOfSeq
<1>4. \A i \in 1 .. Len(s) : s[i] \in StartBytes
  <2>1. \A i \in 1 .. Len(s) : i \in 1 .. Len(u)
    BY <1>2
  <2>. QED BY <1>2, <1>3, <2>1
<1>5. \A i \in 1 .. Len(t) : t[i] \in StartBytes
  <2>1. \A i \in 1 .. Len(t) : Len(s) + i \in 1 .. Len(u)
    BY <1>2
  <2>. QED BY <1>2, <1>3, <2>1
<1>. QED BY <1>4, <1>5

\* The byte that is lost is one of a START header or one of the packet.
Loses(U, D, x, y) ==
  x \o y = U \o D =>
    \E V \in Seq(StartBytes), E \in Seq(Byte) :
      /\ x \o Tail(y) = V \o E /\ (V # << >> => U # << >>)
      /\ E = D \/ Len(E) + 1 = Len(D)

LEMMA Losing ==
  ASSUME NEW U \in Seq(StartBytes), NEW D \in Seq(Byte), NEW x \in Seq(Byte), NEW y \in Seq(Byte), y # << >>
  PROVE  Loses(U, D, x, y)
<1>0. SUFFICES ASSUME x \o y = U \o D
      PROVE  \E V \in Seq(StartBytes), E \in Seq(Byte) :
               /\ x \o Tail(y) = V \o E /\ (V # << >> => U # << >>)
               /\ E = D \/ Len(E) + 1 = Len(D)
  BY Zenon DEF Loses
<1>1. U \in Seq(Byte)
  BY StartsAre
<1>2. PICK m \in Nat, n \in Nat : m = Len(x) /\ n = Len(U)
  BY LenProperties
<1>3. PICK z \in Seq(Byte) : z = Tail(y) /\ Len(z) = Len(y) - 1
  BY HeadTailProperties
<1>4. CASE m < n
  <2>1. Divided(x, y, U, D)
    BY <1>1, Dividing
  <2>2. Len(x) <= Len(U)
    BY <1>2, <1>4
  <2>3. PICK w \in Seq(Byte) : U = x \o w /\ y = w \o D
    BY <1>0, <2>1, <2>2 DEF Divided
  <2>4. w # << >>
    <3>1. Len(x \o w) = Len(x) + Len(w) /\ Len(w) \in Nat
      BY ConcatIs
    <3>2. Len(w) # 0
      BY <1>2, <1>4, <2>3, <3>1
    <3>. QED BY <3>2
  <2>5. Tail(w \o D) = Tail(w) \o D
    BY <2>4, TailInside
  <2>6. x \in Seq(StartBytes) /\ w \in Seq(StartBytes)
    <3>1. x \o w \in Seq(StartBytes)
      BY <2>3
    <3>. QED BY <3>1, PartOf
  <2>7. PICK r \in Seq(StartBytes) : r = Tail(w)
    BY <2>4, <2>6, HeadTailProperties
  <2>8. PICK V \in Seq(StartBytes) : V = x \o r
    BY <2>6, ConcatIs
  <2>9. Regroup(x, r, D)
    BY <2>7, StartsAre, ByteRegrouping
  <2>10. x \o Tail(y) = V \o D
    BY <2>3, <2>5, <2>7, <2>8, <2>9 DEF Regroup
  <2>11. U # << >>
    BY <1>2, <1>4
  <2>. QED BY <2>10, <2>11
<1>5. CASE ~(m < n)
  <2>1. Divided(U, D, x, y)
    BY <1>1, Dividing
  <2>2. Len(U) <= Len(x)
    BY <1>2, <1>5
  <2>3. PICK w \in Seq(Byte) : x = U \o w /\ D = w \o y
    BY <1>0, <2>1, <2>2 DEF Divided
  <2>4. PICK E \in Seq(Byte) : E = w \o z
    BY ConcatIs
  <2>5. PICK V \in Seq(Byte) : V = U
    BY <1>1
  <2>6. Regroup(V, w, z)
    BY ByteRegrouping
  <2>7. x \o Tail(y) = U \o E
    BY <1>3, <2>3, <2>4, <2>5, <2>6 DEF Regroup
  <2>8. Len(E) + 1 = Len(D)
    <3>1. Len(w \o z) = Len(w) + Len(z) /\ Len(w \o y) = Len(w) + Len(y)
          /\ Len(w) \in Nat /\ Len(z) \in Nat /\ Len(y) \in Nat
      BY ConcatIs
    <3>. QED BY <1>3, <2>3, <2>4, <3>1
  <2>. QED BY <2>7, <2>8
<1>. QED BY <1>2, <1>4, <1>5

LEMMA AnsweringByLink ==
  ASSUME CrcShape, Answering, LinkNext
  PROVE  Answering'
<1>1. UNCHANGED <<tool, packet, buffer, matched, pc>>
  BY DEF LinkNext, firmwareVars, toolVars
<1>2. CASE Upload
  <2>1. UNCHANGED <<rx, hostOut>>
    BY <1>2 DEF Upload
  <2>. QED BY <1>1, <2>1, AnsweringStays
<1>3. CASE Download
  <2>1. rx \in Seq(Byte) /\ hostOut \in Seq(Byte)
    BY DEF CrcShape, CrcTypeOK
  <2>2. hostOut # << >> /\ hostOut' = Tail(hostOut) /\ (rx' = Append(rx, Head(hostOut)) \/ rx' = rx)
    BY <1>3 DEF Download
  <2>3. ASSUME pc' \in {"crc", "wait", "receive"}
        PROVE  \E U \in Seq(StartBytes), D, R \in Seq(Byte) : Arriving(U, D, R)'
    <3>1. PICK U \in Seq(StartBytes), D \in Seq(Byte), R \in Seq(Byte) : Arriving(U, D, R)
      BY <1>1, <2>3 DEF Answering
    <3>2. Received' = Received
      BY <1>1 DEF Received
    <3>3. CASE rx' = Append(rx, Head(hostOut))
      <4>1. rx' \o hostOut' = rx \o hostOut
        BY <2>1, <2>2, <3>3, MoveHead
      <4>2. Arriving(U, D, R)'
        BY <1>1, <3>1, <3>2, <4>1 DEF Arriving
      <4>. QED BY <4>2
    <3>4. CASE rx' = rx
      <4>1. PICK x \in Seq(Byte), y \in Seq(Byte) : x = rx /\ y = hostOut
        BY <2>1
      <4>2. Loses(U, D, x, y) /\ x \o y = U \o D
        BY <2>2, <3>1, <4>1, Losing DEF Arriving
      <4>3. PICK V \in Seq(StartBytes), E \in Seq(Byte) :
              /\ x \o Tail(y) = V \o E /\ (V # << >> => U # << >>)
              /\ E = D \/ Len(E) + 1 = Len(D)
        BY <4>2 DEF Loses
      <4>4. Received' \o (E \o R) = PcPacket \/ Len(Received') + Len(E) + Len(R) < Len(PcPacket)
        <5>1. Received \o (D \o R) = PcPacket \/ Len(Received) + Len(D) + Len(R) < Len(PcPacket)
          BY <3>1 DEF Arriving
        <5>2. CASE E = D
          BY <3>2, <5>1, <5>2
        <5>3. CASE Len(E) + 1 = Len(D)
          <6>1. PICK w \in Seq(Byte) : w = Received
            BY <1>1, <2>3, ReceivedIs
          <6>2. PICK v \in Seq(Byte) : v = D \o R /\ Len(v) = Len(D) + Len(R)
            BY ConcatIs
          <6>3. Len(w \o v) = Len(w) + Len(v)
            BY ConcatIs
          <6>4. PICK a \in Nat, b \in Nat, c \in Nat, d \in Nat, e \in Nat :
                  /\ a = Len(w) /\ b = Len(D) /\ c = Len(R) /\ d = Len(PcPacket) /\ e = Len(E)
            BY PcPacketIs, LenProperties
          <6>5. a + (b + c) = d \/ a + b + c < d
            BY <5>1, <6>1, <6>2, <6>3, <6>4
          <6>6. a + e + c < d
            BY <5>3, <6>4, <6>5
          <6>. QED BY <3>2, <6>1, <6>4, <6>6
        <5>. QED BY <4>3, <5>2, <5>3
      <4>5. rx' \o hostOut' = V \o E
        BY <2>2, <3>4, <4>1, <4>3
      <4>6. (V # << >> => Received' = << >>) /\ (tool' = "send" => R = packet')
        BY <1>1, <3>1, <3>2, <4>3 DEF Arriving
      <4>7. Arriving(V, E, R)'
        BY <4>4, <4>5, <4>6 DEF Arriving
      <4>. QED BY <4>7
    <3>. QED BY <2>2, <3>3, <3>4
  <2>. QED BY <1>1, <2>3 DEF Answering
<1>. QED BY <1>2, <1>3 DEF LinkNext

\* The link delivers a byte, or loses it.
LEMMA UpstreamByLink ==
  ASSUME CrcShape, LinkNext
  PROVE  (Upstream' = Upstream \/ Len(Upstream') + 1 = Len(Upstream)) /\ Len(Upstream') \in Nat
<1>0. Len(Upstream) \in Nat
  BY UpstreamIs
<1>1. CASE Upload
  <2>1. PICK h \in Seq(Byte), t \in Seq(Byte) : h = hostIn /\ t = tx
    BY SeenIs
  <2>2. /\ t # << >> /\ tx' = Tail(t)
        /\ hostIn' = Append(h, Head(t)) \/ hostIn' = h
    BY <1>1, <2>1 DEF Upload
  <2>3. Append(h, Head(t)) \o Tail(t) = h \o t
    BY <2>2, MoveHead
  <2>4. PICK r \in Seq(Byte) : r = Tail(t) /\ Len(r) = Len(t) - 1
    BY <2>2, HeadTailProperties
  <2>5. Len(h \o t) = Len(h) + Len(t) /\ Len(h \o r) = Len(h) + Len(r)
        /\ Len(h) \in Nat /\ Len(t) \in Nat /\ Len(r) \in Nat
    BY ConcatIs
  <2>6. CASE hostIn' = Append(h, Head(t))
    <3>1. Upstream' = Append(h, Head(t)) \o Tail(t)
      BY <2>2, <2>6 DEF Upstream
    <3>. QED BY <1>0, <2>1, <2>3, <3>1 DEF Upstream
  <2>7. CASE hostIn' = h
    <3>1. Upstream' = h \o r
      BY <2>2, <2>4, <2>7 DEF Upstream
    <3>2. Len(h \o r) + 1 = Len(h \o t) /\ Len(h \o r) \in Nat
      BY <2>4, <2>5
    <3>. QED BY <2>1, <3>1, <3>2 DEF Upstream
  <2>. QED BY <2>2, <2>6, <2>7
<1>2. CASE Download
  BY <1>0, <1>2 DEF Download, Upstream
<1>. QED BY <1>1, <1>2 DEF LinkNext

LEMMA SearchedByLink ==
  ASSUME CrcShape, LinkNext, NEW L \in Seq(Byte), Searched(L)
  PROVE  Searched(L)'
<1>1. UNCHANGED <<tool, found, got>> /\ Seen' = Seen
  BY DEF LinkNext, toolVars, Seen
<1>2. OnlyStarts'
  BY StartsByLink DEF Searched
<1>3. CASE Upstream' = Upstream
  BY <1>1, <1>2, <1>3 DEF Searched
<1>4. CASE Len(Upstream') + 1 = Len(Upstream)
  <2>1. PICK s \in Seq(Byte), v \in Seq(Byte), g \in Seq(Byte), H \in Seq(Byte) :
          s = Seen /\ v = Upstream /\ g = got /\ H = NiosHeader /\ Len(s) = found
    BY SeenIs, CrcConstants
  <2>2. PICK a \in Nat, b \in Nat, c \in Nat, d \in Nat, e \in Nat, f \in Nat :
          a = Len(s) /\ b = Len(v) /\ c = Len(g) /\ d = Len(L) /\ e = Len(H) /\ f = Len(Upstream')
    <3>1. Len(Upstream') \in Nat
      BY UpstreamByLink
    <3>. QED BY <3>1, LenProperties
  <2>3. ASSUME tool \in {"find", "flush"} PROVE a + f < d
    <3>1. s \o v = L \/ a + b < d
      BY <2>1, <2>2, <2>3 DEF Searched
    <3>2. Len(s \o v) = a + b
      BY <2>2, ConcatIs
    <3>. QED BY <1>4, <2>1, <2>2, <3>1, <3>2
  <2>4. ASSUME tool = "payload" PROVE e + c + f < d
    <3>1. H \o (g \o v) = L \/ e + c + b < d
      BY <2>1, <2>2, <2>4 DEF Searched
    <3>2. PICK w \in Seq(Byte) : w = g \o v /\ Len(w) = c + b
      BY <2>2, ConcatIs
    <3>3. Len(H \o w) = e + (c + b)
      BY <2>2, <3>2, ConcatIs
    <3>. QED BY <1>4, <2>1, <2>2, <3>1, <3>2, <3>3
  <2>. QED BY <1>1, <1>2, <2>1, <2>2, <2>3, <2>4 DEF Searched
<1>. QED BY <1>3, <1>4, UpstreamByLink

LEMMA AnsweredByLink ==
  ASSUME CrcShape, LinkNext, NEW L \in Seq(Byte), Answered(L)
  PROVE  Answered(L)'
<1>1. UNCHANGED <<tool, text, got, buffer>>
  BY DEF LinkNext, toolVars, firmwareVars
<1>2. Answering'
  BY AnsweringByLink DEF Answered
<1>3. PICK a \in Nat, b \in Nat, c \in Nat, p \in Nat :
        a = Len(text) /\ b = Len(Upstream) /\ c = Len(L) /\ p = Len(NiosPacket)
  BY UpstreamIs, Sizes, LenProperties
<1>4. Len(Upstream') = b \/ Len(Upstream') + 1 = b
  BY <1>3, UpstreamByLink
<1>5. tool \in {"send", "sent", "result"} => p + a + b <= c
  BY <1>3 DEF Answered
<1>6. tool' \in {"send", "sent", "result"} => Len(NiosPacket) + Len(text') + Len(Upstream') <= Len(L)
  <2>1. Len(Upstream') \in Nat
    BY UpstreamByLink
  <2>. QED BY <1>1, <1>3, <1>4, <1>5, <2>1
<1>. QED BY <1>1, <1>2, <1>6 DEF Answered

LEMMA TooLateByLink ==
  ASSUME CrcShape, LinkNext, NEW L \in Seq(Byte), TooLate(L)
  PROVE  TooLate(L)'
<1>1. UNCHANGED <<tool, found, got>>
  BY DEF LinkNext, toolVars
<1>2. PICK a \in Nat, b \in Nat, c \in Nat, e \in Nat, f \in Nat, p \in Nat :
        /\ a = Len(got) /\ b = Len(Upstream) /\ c = Len(L) /\ e = Len(NiosHeader)
        /\ f = found /\ p = Len(NiosPacket)
  BY UpstreamIs, Sizes, LenProperties
<1>3. Len(Upstream') = b \/ Len(Upstream') + 1 = b
  BY <1>2, UpstreamByLink
<1>4. Len(Upstream') \in Nat
  BY UpstreamByLink
<1>5. /\ tool \in {"find", "flush"} => p + f + b <= c
      /\ tool = "payload" => p + e + a + b <= c
  BY <1>2 DEF TooLate
<1>6. /\ tool' \in {"find", "flush"} => Len(NiosPacket) + found' + Len(Upstream') <= Len(L)
      /\ tool' = "payload" => Len(NiosPacket) + Len(NiosHeader) + Len(got') + Len(Upstream') <= Len(L)
  BY <1>1, <1>2, <1>3, <1>4, <1>5
<1>. QED BY <1>1, <1>6 DEF TooLate

LEMMA LossyByLink ==
  ASSUME CrcShape, CrcShape', LinkNext, LossyInv
  PROVE  LossyInv'
<1>1. PICK L \in Seq(Byte) : Log(L)
  BY DEF LossyInv
<1>2. Searched(L)' \/ Answered(L)' \/ TooLate(L)'
  BY <1>1, SearchedByLink, AnsweredByLink, TooLateByLink DEF Log
<1>3. UNCHANGED driverVars /\ UNCHANGED firmwareVars
  BY DEF LinkNext
<1>. QED BY <1>1, <1>2, <1>3, LossyFrame

\* PASS is judged on a text that is not empty.  The firmware has then stored
\* more than the packet, which it does only with a whole payload received.
LEMMA LossyVerdict ==
  ASSUME CrcShape, NEW L \in Seq(Byte), Written(L), Answering, NEW t \in Seq(Byte),
         Len(NiosPacket) + Len(t) <= Len(L), Verdict(t) = "passed"
  PROVE  buffer = PcPayload
<1>1. PICK i \in 0 .. Len(t) - Len(PassText) : SubSeq(t, i + 1, i + Len(PassText)) = PassText
  BY DEF Verdict, Contains
<1>2. Len(t) \in Nat \ {0}
  <2>1. Len(PassText) \in Nat /\ Len(PassText) # 0 /\ Len(t) \in Nat
    BY CrcConstants, EmptySeq, LenProperties
  <2>. QED BY <1>1, <2>1
<1>3. Len(L) > Len(NiosPacket) /\ ~(Len(L) <= Len(NiosPacket))
  BY <1>2, Sizes, LenProperties
<1>4. pc \in {"result", "end"}
  BY <1>3, WrittenShort
<1>5. Len(buffer) = Count
  BY <1>3 DEF Written
<1>. QED BY <1>4, <1>5 DEF Answering

LEMMA LossyByOpenPort ==
  ASSUME CrcShape, CrcShape', OpenPort, UNCHANGED <<slaveVars, driverVars, firmwareVars>>, LossyInv
  PROVE  LossyInv'
<1>1. PICK L \in Seq(Byte) : Log(L)
  BY DEF LossyInv
<1>2. tool' = "drain"
  BY DEF OpenPort
<1>3. ToolNext /\ ~ReadCrc
  BY <1>2 DEF ToolNext, ReadCrc
<1>4. CASE Searched(L)
  <2>1. OnlyStarts'
    BY <1>3, <1>4, StartsByTool DEF Searched
  <2>2. Searched(L)'
    BY <1>2, <2>1 DEF Searched
  <2>. QED BY <1>1, <2>2, LossyFrame
<1>5. CASE Answered(L) \/ TooLate(L)
  <2>1. TooLate(L)'
    BY <1>2, <1>5 DEF Answered, TooLate
  <2>. QED BY <1>1, <2>1, LossyFrame
<1>. QED BY <1>1, <1>4, <1>5 DEF Log

LEMMA LossyByDeadline ==
  ASSUME CrcShape, CrcShape', Deadline, LossyInv
  PROVE  LossyInv'
<1>1. PICK L \in Seq(Byte) : Log(L)
  BY DEF LossyInv
<1>2. /\ tool \in {"find", "payload", "send", "result"}
      /\ tool' = (IF tool = "result" THEN Verdict(text) ELSE "failed")
      /\ UNCHANGED <<got, packet, hostOut>>
  BY DEF Deadline, Expire, Deadlines, linkVars
<1>3. /\ UNCHANGED <<rx, pc, matched, buffer>>
      /\ UNCHANGED driverVars /\ UNCHANGED firmwareVars
  BY ToolFrame DEF Deadline
<1>4. tool' \in {"passed", "failed"}
  BY <1>2 DEF Verdict
<1>5. ToolNext /\ ~ReadCrc
  BY <1>4 DEF ToolNext, ReadCrc
<1>6. CASE Searched(L)
  <2>1. OnlyStarts'
    BY <1>5, <1>6, StartsByTool DEF Searched
  <2>2. Searched(L)'
    BY <1>4, <2>1 DEF Searched
  <2>. QED BY <1>1, <1>3, <2>2, LossyFrame
<1>7. CASE Answered(L)
  <2>1. Answering'
    BY <1>2, <1>3, <1>4, <1>7, AnsweringStays DEF Answered
  <2>2. ASSUME tool' = "passed" PROVE buffer' = PcPayload
    <3>1. tool = "result" /\ Verdict(text) = "passed"
      BY <1>2, <2>2
    <3>2. Written(L) /\ Answering /\ text \in Seq(Byte) /\ Len(NiosPacket) + Len(text) + Len(Upstream) <= Len(L)
      BY <1>1, <1>7, <3>1, SeenIs DEF Log, Answered
    <3>3. Len(NiosPacket) + Len(text) <= Len(L)
      <4>1. PICK a \in Nat, b \in Nat, c \in Nat, d \in Nat :
              a = Len(NiosPacket) /\ b = Len(text) /\ c = Len(Upstream) /\ d = Len(L)
        BY UpstreamIs, Sizes, LenProperties
      <4>2. a + b + c <= d
        BY <3>2, <4>1
      <4>3. a + b <= d
        BY <4>2
      <4>. QED BY <4>1, <4>3
    <3>. QED BY <1>3, <3>1, <3>2, <3>3, LossyVerdict
  <2>3. got' = NiosPayload /\ Len(L) >= Len(NiosPacket)
    BY <1>2, <1>7 DEF Answered
  <2>4. Answered(L)'
    BY <1>4, <2>1, <2>2, <2>3 DEF Answered
  <2>. QED BY <1>1, <1>3, <2>4, LossyFrame
<1>8. CASE TooLate(L)
  <2>1. tool' = "failed"
    BY <1>2, <1>8 DEF TooLate
  <2>2. TooLate(L)'
    BY <1>8, <2>1 DEF TooLate
  <2>. QED BY <1>1, <1>3, <2>2, LossyFrame
<1>. QED BY <1>1, <1>6, <1>7, <1>8 DEF Log

\* Steps that take nothing off the stream the tool reads, and those of drain.
LEMMA LossyByWaiting ==
  ASSUME CrcShape, CrcShape', ToolStep, Drain \/ Quiet \/ SendStart \/ Flushed, LossyInv
  PROVE  LossyInv'
<1>1. /\ ToolNext /\ UNCHANGED <<tx, rx, pc, matched, buffer>>
      /\ UNCHANGED driverVars /\ UNCHANGED firmwareVars
  BY ToolFrame DEF ToolNext, ToolStep
<1>2. /\ UNCHANGED <<found, got, text, packet>> /\ Seen' = Seen
      /\ \/ tool = "drain" /\ tool' = "drain"
         \/ tool = "drain" /\ tool' = "find" /\ UNCHANGED <<hostIn, hostOut>> /\ hostIn = << >> /\ tx = << >>
         \/ tool = "find" /\ tool' = "flush" /\ UNCHANGED hostIn
         \/ tool = "flush" /\ tool' = "find" /\ UNCHANGED <<hostIn, hostOut>>
         \/ tool = "sent" /\ tool' = "result" /\ UNCHANGED <<hostIn, hostOut>>
  BY DEF Drain, Quiet, SendStart, Flushed, toolVars, linkVars, Seen
<1>3. ~ReadCrc
  BY <1>2 DEF ReadCrc
<1>4. OnlyStarts => OnlyStarts'
  BY <1>1, <1>3, StartsByTool
<1>5. PICK L \in Seq(Byte) : Log(L)
  BY DEF LossyInv
<1>6. SUFFICES Searched(L)' \/ Answered(L)' \/ TooLate(L)'
  BY <1>1, <1>5, LossyFrame
<1>7. CASE tool' = "drain"
  <2>1. Searched(L) => Searched(L)'
    BY <1>4, <1>7 DEF Searched
  <2>2. TooLate(L) => TooLate(L)'
    BY <1>7 DEF TooLate
  <2>3. ~Answered(L)
    BY <1>2, <1>7 DEF Answered
  <2>. QED BY <1>5, <2>1, <2>2, <2>3 DEF Log
<1>8. CASE tool = "drain" /\ tool' = "find"
  <2>1. found = 0
    BY <1>8 DEF CrcShape, ToolRight
  <2>2. Seen' = << >>
    <3>1. PICK h \in Seq(Byte) : h = NiosHeader /\ Len(h) \in Nat
      BY CrcConstants, Lengths
    <3>2. 0 \in 0 .. Len(h)
      BY <3>1
    <3>3. SubSeq(h, 1, 0) = << >>
      BY <3>2, PrefixIs
    <3>. QED BY <1>2, <2>1, <3>1, <3>3 DEF Seen
  <2>3. << >> \o << >> = << >>
    OBVIOUS
  <2>4. Upstream' = << >>
    BY <1>1, <1>2, <1>8, <2>3 DEF Upstream
  <2>5. Len(<< >>) = 0
    OBVIOUS
  <2>6. Len(L) \in Nat /\ (Len(L) = 0 => L = << >>)
    BY LenProperties, EmptySeq
  <2>7. Seen' \o Upstream' = L \/ found' + Len(Upstream') < Len(L)
    BY <1>2, <2>1, <2>2, <2>3, <2>4, <2>5, <2>6
  <2>8. Searched(L) => Searched(L)'
    BY <1>4, <1>8, <2>7 DEF Searched
  <2>9. TooLate(L) => TooLate(L)'
    <3>1. ASSUME Len(L) >= Len(NiosPacket)
          PROVE  Len(NiosPacket) + found' + Len(Upstream') <= Len(L)
      BY <1>2, <2>1, <2>4, <2>5, <2>6, <3>1, Sizes
    <3>. QED BY <1>8, <3>1 DEF TooLate
  <2>10. ~Answered(L)
    BY <1>8 DEF Answered
  <2>. QED BY <1>5, <2>8, <2>9, <2>10 DEF Log
<1>9. CASE tool \in {"find", "flush"}
  <2>1. Upstream' = Upstream /\ tool' \in {"find", "flush"}
    BY <1>1, <1>2, <1>9 DEF Upstream
  <2>2. Searched(L) => Searched(L)'
    BY <1>2, <1>4, <1>9, <2>1 DEF Searched
  <2>3. TooLate(L) => TooLate(L)'
    BY <1>2, <1>9, <2>1 DEF TooLate
  <2>4. ~Answered(L)
    BY <1>9 DEF Answered
  <2>. QED BY <1>5, <2>2, <2>3, <2>4 DEF Log
<1>10. CASE tool = "sent"
  <2>1. Upstream' = Upstream /\ tool' = "result" /\ UNCHANGED hostOut
    BY <1>1, <1>2, <1>10 DEF Upstream
  <2>2. Answered(L)
    BY <1>5, <1>10 DEF Log, Searched, OnlyStarts, TooLate
  <2>3. Answering'
    BY <1>1, <1>2, <2>1, <2>2, AnsweringStays DEF Answered
  <2>4. Answered(L)'
    BY <1>2, <1>10, <2>1, <2>2, <2>3 DEF Answered
  <2>. QED BY <2>4
<1>. QED BY <1>2, <1>7, <1>8, <1>9, <1>10

\* The tool takes one byte of what is on its way.
LEMMA UpstreamTaken ==
  ASSUME CrcShape, Take, UNCHANGED tx
  PROVE  Len(Upstream') = Len(Upstream) - 1 /\ Len(Upstream') \in Nat /\ Len(Upstream) \in Nat \ {0}
<1>1. Upstream # << >> /\ Upstream' = Tail(Upstream)
  BY TakesByte
<1>2. PICK v \in Seq(Byte) : v = Upstream
  BY SeenIs
<1>3. Len(Tail(v)) = Len(v) - 1 /\ Len(v) \in Nat \ {0}
  BY <1>1, <1>2, HeadTailProperties, EmptySeq, LenProperties
<1>. QED BY <1>1, <1>2, <1>3

LEMMA LossyByFindHeader ==
  ASSUME CrcShape, CrcShape', ToolStep, FindHeader, LossyInv
  PROVE  LossyInv'
<1>1. /\ ToolNext /\ UNCHANGED <<tx, rx, pc, matched, buffer>>
      /\ UNCHANGED driverVars /\ UNCHANGED firmwareVars
  BY ToolFrame DEF ToolNext, ToolStep
<1>2. /\ tool = "find" /\ Take /\ found' = Match(NiosHeader, found, Head(hostIn))
      /\ tool' = (IF found' = Len(NiosHeader) THEN "payload" ELSE "find")
  BY DEF FindHeader
<1>3. ~ReadCrc
  BY <1>2 DEF ReadCrc
<1>4. OnlyStarts => OnlyStarts'
  BY <1>1, <1>3, StartsByTool
<1>5. PICK L \in Seq(Byte) : Log(L)
  BY DEF LossyInv
<1>6. SUFFICES Searched(L)' \/ Answered(L)' \/ TooLate(L)'
  BY <1>1, <1>5, LossyFrame
<1>7. Len(Upstream') = Len(Upstream) - 1 /\ Len(Upstream') \in Nat /\ Len(Upstream) \in Nat \ {0}
  BY <1>1, <1>2, UpstreamTaken
<1>8. found \in Nat /\ found' \in Nat /\ found' <= found + 1
  <2>1. found \in Nat
    BY UpstreamIs
  <2>2. found' \in {found + 1, 1, 0}
    BY <1>2 DEF Match
  <2>. QED BY <2>1, <2>2
<1>9. PICK a \in Nat, b \in Nat, c \in Nat, d \in Nat, e \in Nat, p \in Nat :
        /\ a = found /\ b = found' /\ c = Len(Upstream') /\ d = Len(L)
        /\ e = Len(NiosHeader) /\ p = Len(NiosPacket)
  BY <1>7, <1>8, Sizes, LenProperties
<1>10. Len(Upstream) = c + 1 /\ b <= a + 1
  BY <1>7, <1>8, <1>9
<1>11. tool' = "payload" => got' = << >> /\ b = e
  BY <1>2, <1>9 DEF CrcShape, ToolRight, FindHeader
<1>12. Len(<< >>) = 0
  OBVIOUS
<1>13. ASSUME Searched(L) PROVE Searched(L)'
  <2>1. Seen' \o Upstream' = L \/ b + c < d
    <3>1. CASE Seen \o Upstream = L
      <4>1. PICK w \in Seq(Byte) : w = Seen \o Upstream
        BY SeenIs, ConcatIs
      <4>2. << >> \o (Seen \o Upstream) = L /\ << >> \in Seq(Byte)
        BY <3>1, <4>1, ConcatEmpty
      <4>3. PICK B \in Seq(Byte) : B \o (Seen' \o Upstream') = L
        BY <1>1, <1>2, <4>2, Searching
      <4>4. PICK v \in Seq(Byte) : v = Seen' \o Upstream' /\ Len(v) = b + c
        <5>1. PICK h \in Seq(Byte), u \in Seq(Byte) : h = NiosHeader /\ u = Upstream'
          BY <1>1, <1>2, CrcConstants, TakesByte
        <5>2. PICK m \in 0 .. Len(h) : m = found'
          BY <5>1 DEF CrcShape, CrcTypeOK
        <5>3. PICK s \in Seq(Byte) : s = SubSeq(h, 1, m) /\ Len(s) = m
          BY SomePrefix
        <5>4. s \o u \in Seq(Byte) /\ Len(s \o u) = Len(s) + Len(u)
          BY ConcatIs
        <5>5. Seen' = s
          BY <5>1, <5>2, <5>3 DEF Seen
        <5>. QED BY <1>9, <5>1, <5>2, <5>3, <5>4, <5>5
      <4>5. Len(B \o v) = Len(B) + Len(v) /\ Len(B) \in Nat
        BY ConcatIs
      <4>6. CASE B = << >>
        <5>1. B \o v = v
          BY <4>6, ConcatEmpty
        <5>. QED BY <4>3, <4>4, <5>1
      <4>7. CASE B # << >>
        <5>1. Len(B) # 0
          BY <4>7, EmptySeq
        <5>2. b + c < d
          BY <1>9, <4>3, <4>4, <4>5, <5>1
        <5>. QED BY <5>2
      <4>. QED BY <4>6, <4>7
    <3>2. CASE found + Len(Upstream) < Len(L)
      <4>1. a + (c + 1) < d
        BY <1>9, <1>10, <3>2
      <4>. QED BY <1>10, <4>1
    <3>. QED BY <1>2, <1>13, <3>1, <3>2 DEF Searched
  <2>2. CASE tool' = "find"
    BY <1>4, <1>9, <1>13, <2>1, <2>2 DEF Searched
  <2>3. CASE tool' = "payload"
    <3>1. PICK h \in Seq(Byte), u \in Seq(Byte) : h = NiosHeader /\ u = Upstream'
      BY <1>1, <1>2, CrcConstants, TakesByte
    <3>2. Seen' = h
      <4>1. Len(h) \in 0 .. Len(h)
        BY LenProperties
      <4>2. SubSeq(h, 1, Len(h)) = h
        BY <4>1, PrefixIs
      <4>. QED BY <1>9, <1>11, <2>3, <3>1, <4>2 DEF Seen
    <3>3. << >> \o u = u
      BY ConcatEmpty
    <3>4. \/ NiosHeader \o (got' \o Upstream') = L
          \/ Len(NiosHeader) + Len(got') + Len(Upstream') < Len(L)
      <4>1. CASE Seen' \o Upstream' = L
        BY <1>11, <2>3, <3>1, <3>2, <3>3, <4>1
      <4>2. CASE b + c < d
        <5>1. e + 0 + c < d
          BY <1>11, <2>3, <4>2
        <5>. QED BY <1>9, <1>11, <1>12, <2>3, <5>1
      <4>. QED BY <2>1, <4>1, <4>2
    <3>. QED BY <1>4, <1>13, <2>3, <3>4 DEF Searched
  <2>. QED BY <1>2, <2>2, <2>3
<1>14. ASSUME TooLate(L) PROVE TooLate(L)'
  <2>1. p + a + (c + 1) <= d
    BY <1>2, <1>9, <1>10, <1>14 DEF TooLate
  <2>2. p + b + c <= d
    BY <1>10, <2>1
  <2>3. CASE tool' = "find"
    BY <1>9, <1>14, <2>2, <2>3 DEF TooLate
  <2>4. CASE tool' = "payload"
    <3>1. p + e + 0 + c <= d
      BY <1>11, <2>2, <2>4
    <3>. QED BY <1>9, <1>11, <1>12, <1>14, <2>4, <3>1 DEF TooLate
  <2>. QED BY <1>2, <2>3, <2>4
<1>15. ~Answered(L)
  BY <1>2 DEF Answered
<1>. QED BY <1>5, <1>13, <1>14, <1>15 DEF Log

LEMMA LossyByReadPayload ==
  ASSUME CrcShape, CrcShape', ToolStep, ReadPayload, LossyInv
  PROVE  LossyInv'
<1>1. /\ ToolNext /\ UNCHANGED <<tx, rx, pc, matched, buffer>>
      /\ UNCHANGED driverVars /\ UNCHANGED firmwareVars
  BY ToolFrame DEF ToolNext, ToolStep
<1>2. /\ tool = "payload" /\ tool' = "payload" /\ Take /\ got' = Append(got, Head(hostIn))
  BY DEF ReadPayload
<1>3. ~ReadCrc
  BY <1>2 DEF ReadCrc
<1>4. OnlyStarts => OnlyStarts'
  BY <1>1, <1>3, StartsByTool
<1>5. PICK L \in Seq(Byte) : Log(L)
  BY DEF LossyInv
<1>6. SUFFICES Searched(L)' \/ Answered(L)' \/ TooLate(L)'
  BY <1>1, <1>5, LossyFrame
<1>7. /\ Upstream # << >> /\ Head(Upstream) = Head(hostIn) /\ Upstream' = Tail(Upstream) /\ Head(hostIn) \in Byte
  BY <1>1, <1>2, TakesByte
<1>8. Len(Upstream') = Len(Upstream) - 1 /\ Len(Upstream') \in Nat /\ Len(Upstream) \in Nat \ {0}
  BY <1>1, <1>2, UpstreamTaken
<1>9. PICK g \in Seq(Byte), v \in Seq(Byte) : g = got /\ v = Upstream
  BY SeenIs
<1>10. Append(g, Head(v)) \o Tail(v) = g \o v
  <2>1. v # << >>
    BY <1>7, <1>9
  <2>. QED BY <2>1, MoveHead
<1>11. got' \o Upstream' = got \o Upstream
  BY <1>2, <1>7, <1>9, <1>10
<1>12. Len(got') = Len(got) + 1
  BY <1>2, <1>7, <1>9, AppendProperties
<1>13. PICK a \in Nat, c \in Nat, d \in Nat, e \in Nat, p \in Nat :
        a = Len(got) /\ c = Len(Upstream') /\ d = Len(L) /\ e = Len(NiosHeader) /\ p = Len(NiosPacket)
  BY <1>8, UpstreamIs, Sizes, LenProperties
<1>14. Len(Upstream) = c + 1 /\ Len(got') = a + 1
  BY <1>8, <1>12, <1>13
<1>15. ASSUME Searched(L) PROVE Searched(L)'
  <2>1. NiosHeader \o (got \o Upstream) = L \/ e + a + (c + 1) < d
    BY <1>2, <1>13, <1>14, <1>15 DEF Searched
  <2>2. e + a + (c + 1) < d => e + (a + 1) + c < d
    OBVIOUS
  <2>3. NiosHeader \o (got' \o Upstream') = L \/ Len(NiosHeader) + Len(got') + Len(Upstream') < Len(L)
    BY <1>11, <1>13, <1>14, <2>1, <2>2
  <2>. QED BY <1>2, <1>4, <1>15, <2>3 DEF Searched
<1>16. ASSUME TooLate(L) PROVE TooLate(L)'
  <2>1. p + e + a + (c + 1) <= d
    BY <1>2, <1>13, <1>14, <1>16 DEF TooLate
  <2>2. p + e + (a + 1) + c <= d
    BY <2>1
  <2>3. Len(NiosPacket) + Len(NiosHeader) + Len(got') + Len(Upstream') <= Len(L)
    BY <1>13, <1>14, <2>2
  <2>. QED BY <1>2, <1>16, <2>3 DEF TooLate
<1>17. ~Answered(L)
  BY <1>2 DEF Answered
<1>. QED BY <1>5, <1>15, <1>16, <1>17 DEF Log

LEMMA ToComeIs ==
  ASSUME CrcShape, PartsRight
  PROVE  ToCome \in Nat
<1>1. CASE pc = "result"
  <2>1. PICK q \in Seq(Byte) : q = Pending /\ Len(q) \in Nat
    BY <1>1, PendingIs, LenProperties
  <2>2. Behind(Len(parts)) \in Nat
    BY BehindIs DEF PartsRight
  <2>. QED BY <2>1, <2>2 DEF ToCome
<1>. QED BY <1>1 DEF ToCome

\* With the checksum the tool has the whole packet, or the firmware would have
\* stored more than it can.
LEMMA LossyByReadCrc ==
  ASSUME CrcShape, CrcShape', ToolStep, ReadCrc, LossyInv
  PROVE  LossyInv'
<1>1. /\ ToolNext /\ UNCHANGED <<tx, rx, pc, matched, buffer>>
      /\ UNCHANGED driverVars /\ UNCHANGED firmwareVars
  BY ToolFrame DEF ToolNext, ToolStep
<1>2. /\ tool = "payload" /\ tool' = "send" /\ Take /\ Len(got) = Count /\ packet' = PcPacket
      /\ UNCHANGED <<got, text, hostOut>>
  BY DEF ReadCrc
<1>3. PICK L \in Seq(Byte) : Written(L) /\ Bounded(L) /\ Log(L) /\ (Searched(L) \/ TooLate(L))
  BY <1>2 DEF LossyInv, Log, Answered
<1>4. /\ Upstream # << >> /\ Upstream' = Tail(Upstream) /\ Upstream' \in Seq(Byte)
      /\ Len(Upstream') = Len(Upstream) - 1 /\ Len(Upstream') \in Nat
  BY <1>1, <1>2, TakesByte, UpstreamTaken
<1>5. PICK c \in Nat, d \in Nat, e \in Nat, p \in Nat, n \in Nat \ {0} :
        c = Len(Upstream') /\ d = Len(L) /\ e = Len(NiosHeader) /\ p = Len(NiosPacket) /\ n = Count
  BY <1>4, Sizes, LenProperties
<1>6. Len(Upstream) = c + 1 /\ p = e + n + 1
  BY <1>4, <1>5, Sizes, UpstreamIs
<1>7. ~TooLate(L)
  <2>1. TooLate(L) => p + e + n + (c + 1) <= d
    BY <1>2, <1>5, <1>6 DEF TooLate
  <2>2. PICK i \in Nat : i = ToCome
    BY ToComeIs DEF LossyInv
  <2>3. d + i < 2 * p
    BY <1>3, <1>5, <2>2 DEF Bounded
  <2>4. ~(p + e + n + (c + 1) <= d)
    BY <1>6, <2>3
  <2>. QED BY <2>1, <2>4
<1>8. Searched(L) /\ OnlyStarts
  BY <1>3, <1>7 DEF Searched
<1>9. /\ rx \in Seq(StartBytes) /\ hostOut \in Seq(StartBytes)
      /\ buffer = << >> /\ pc \notin {"receive", "result"}
      /\ pc # "start" => matched = 0
  BY <1>8 DEF OnlyStarts
<1>10. Len(buffer) = 0 /\ Len(buffer) # Count
  BY <1>5, <1>9
<1>11. d <= p
  BY <1>3, <1>5, <1>10 DEF Written
<1>12. NiosHeader \o (got \o Upstream) = L
  <2>1. NiosHeader \o (got \o Upstream) = L \/ e + n + (c + 1) < d
    BY <1>2, <1>5, <1>6, <1>8 DEF Searched
  <2>2. ~(e + n + (c + 1) < d)
    BY <1>6, <1>11
  <2>. QED BY <2>1, <2>2
<1>13. PICK g \in Seq(Byte), v \in Seq(Byte), s \in Seq(Byte) : g = got /\ v = Upstream /\ s = Upstream'
  BY <1>4, SeenIs
<1>14. Planned(L)
  BY <1>3, WrittenIsPlanned
<1>15. NiosPacket \o s = L
  <2>1. NiosHeader \o (g \o v) = L /\ v # << >> /\ Len(g) = Count
    BY <1>2, <1>4, <1>12, <1>13
  <2>2. NiosPacket \o Tail(v) = L
    BY <1>14, <2>1, CrcRight
  <2>. QED BY <1>4, <1>13, <2>2
<1>16. got = NiosPayload
  <2>1. Len(g) = n /\ n <= n /\ n = Count
    BY <1>2, <1>5, <1>13
  <2>2. NiosHeader \o (g \o v) = L /\ Len(g) <= Count
    BY <1>12, <1>13, <2>1
  <2>3. g = SubSeq(NiosPayload, 1, Len(g))
    BY <1>14, <2>2, PayloadRight
  <2>4. PICK x \in Seq(Byte) : x = NiosPayload /\ Len(x) = n
    BY <1>5, PayloadsAre
  <2>5. Len(x) \in 0 .. Len(x)
    BY <2>4
  <2>6. SubSeq(x, 1, Len(x)) = x
    BY <2>5, PrefixIs
  <2>. QED BY <1>13, <2>1, <2>3, <2>4, <2>6
<1>17. d = p + c
  <2>1. PICK P \in Seq(Byte) : P = NiosPacket
    BY NiosPacketIs
  <2>2. Len(P \o s) = Len(P) + Len(s)
    BY ConcatIs
  <2>. QED BY <1>5, <1>13, <1>15, <2>1, <2>2
<1>18. text' = << >> /\ Len(<< >>) = 0
  BY <1>2 DEF CrcShape, ToolRight
<1>19. pc \in {"crc", "wait", "end"}
  <2>1. Len(L) >= Len(NiosPacket)
    BY <1>5, <1>17
  <2>. QED BY <1>3, <1>9, <2>1, PacketIsOut
<1>20. Answering'
  <2>1. matched = 0
    BY <1>9, <1>19
  <2>2. Received' = << >>
    <3>1. PICK h \in Seq(Byte) : h = PcHeader /\ Len(h) \in Nat
      BY CrcConstants, Lengths
    <3>2. 0 \in 0 .. Len(h)
      BY <3>1
    <3>3. SubSeq(h, 1, 0) = << >>
      BY <3>2, PrefixIs
    <3>. QED BY <1>1, <1>19, <2>1, <3>1, <3>3 DEF Received
  <2>3. PICK U \in Seq(StartBytes) : U = rx \o hostOut
    BY <1>9, ConcatIs
  <2>4. PICK R \in Seq(Byte) : R = PcPacket
    BY PcPacketIs
  <2>5. U \o << >> = U /\ << >> \o R = R /\ << >> \in Seq(Byte)
    BY ConcatEmpty
  <2>6. << >> \o (<< >> \o R) = R
    BY <2>5
  <2>7. rx' \o hostOut' = U \o << >> /\ Received' \o (<< >> \o R) = PcPacket /\ R = packet'
    BY <1>1, <1>2, <2>2, <2>3, <2>4, <2>5, <2>6
  <2>8. Arriving(U, << >>, R)'
    BY <2>2, <2>7 DEF Arriving
  <2>9. \E U1 \in Seq(StartBytes), D1, R1 \in Seq(Byte) : Arriving(U1, D1, R1)'
    BY <2>5, <2>8
  <2>. QED BY <1>1, <1>9, <1>10, <1>19, <2>9 DEF Answering
<1>21. Answered(L)'
  <2>1. Len(NiosPacket) + Len(text') + Len(Upstream') <= Len(L) /\ Len(L) >= Len(NiosPacket)
    BY <1>5, <1>17, <1>18
  <2>. QED BY <1>2, <1>16, <1>20, <2>1 DEF Answered
<1>. QED BY <1>1, <1>3, <1>21, LossyFrame

LEMMA LossyByWriteChunk ==
  ASSUME CrcShape, CrcShape', ToolStep, WriteChunk, LossyInv
  PROVE  LossyInv'
<1>1. /\ UNCHANGED <<tx, rx, pc, matched, buffer>>
      /\ UNCHANGED driverVars /\ UNCHANGED firmwareVars
  BY ToolFrame DEF ToolStep
<1>2. /\ tool = "send" /\ tool' \in {"send", "sent"} /\ UNCHANGED <<found, got, text, hostIn>>
      /\ hostOut' = Append(hostOut, Head(packet)) /\ packet' = Tail(packet)
  BY DEF WriteChunk
<1>3. packet # << >> /\ packet \in Seq(Byte) /\ hostOut \in Seq(Byte) /\ rx \in Seq(Byte)
  BY <1>2 DEF CrcShape, CrcTypeOK, ToolRight
<1>4. PICK L \in Seq(Byte) : Log(L) /\ Answered(L)
  BY <1>2 DEF LossyInv, Log, Searched, OnlyStarts, TooLate
<1>5. Upstream' = Upstream
  BY <1>1, <1>2 DEF Upstream
<1>6. Answering'
  <2>1. /\ pc \in {"crc", "wait", "receive", "result", "end"}
        /\ pc \in {"crc", "wait"} => buffer = << >>
        /\ pc \in {"crc", "wait", "receive"} =>
             \E U \in Seq(StartBytes), D, R \in Seq(Byte) : Arriving(U, D, R)
        /\ pc \in {"result", "end"} /\ Len(buffer) = Count => buffer = PcPayload
    BY <1>4 DEF Answered, Answering
  <2>2. ASSUME pc \in {"crc", "wait", "receive"}
        PROVE  \E U \in Seq(StartBytes), D, R \in Seq(Byte) : Arriving(U, D, R)'
    <3>1. PICK U \in Seq(StartBytes), D \in Seq(Byte), R \in Seq(Byte) : Arriving(U, D, R)
      BY <2>1, <2>2
    <3>2. /\ rx \o hostOut = U \o D /\ (U # << >> => Received = << >>)
          /\ Received \o (D \o R) = PcPacket \/ Len(Received) + Len(D) + Len(R) < Len(PcPacket)
      BY <3>1 DEF Arriving
    <3>3. R = packet
      BY <1>2, <3>1 DEF Arriving
    <3>4. PICK b \in Byte, Q \in Seq(Byte) : b = Head(packet) /\ Q = Tail(packet)
      BY <1>3, TextIs
    <3>5. PICK x \in Seq(Byte), y \in Seq(Byte), V \in Seq(Byte) : x = rx /\ y = hostOut /\ V = U
      BY <1>3, StartsAre
    <3>6. Appending(x, y, b) /\ Appending(V, D, b)
      BY ByteAppending
    <3>7. rx' \o hostOut' = U \o Append(D, b)
      BY <1>1, <1>2, <3>2, <3>4, <3>5, <3>6 DEF Appending
    <3>8. Append(D, b) \o Q = D \o R /\ Len(Q) = Len(R) - 1
      <4>1. R # << >> /\ b = Head(R) /\ Q = Tail(R)
        BY <1>3, <3>3, <3>4
      <4>. QED BY <4>1, MoveHead
    <3>9. Received' = Received /\ Received \in Seq(Byte)
      BY <1>1, <2>2, ReceivedIs DEF Received
    <3>10. Len(Append(D, b)) = Len(D) + 1
      BY AppendProperties
    <3>11. \/ Received' \o (Append(D, b) \o Q) = PcPacket
           \/ Len(Received') + Len(Append(D, b)) + Len(Q) < Len(PcPacket)
      <4>1. CASE Received \o (D \o R) = PcPacket
        BY <3>8, <3>9, <4>1
      <4>2. CASE Len(Received) + Len(D) + Len(R) < Len(PcPacket)
        <5>1. PICK i \in Nat, j \in Nat, k \in Nat, m \in Nat :
                i = Len(Received) /\ j = Len(D) /\ k = Len(R) /\ m = Len(PcPacket)
          BY <3>9, PcPacketIs, LenProperties
        <5>2. i + (j + 1) + (k - 1) < m
          BY <4>2, <5>1
        <5>. QED BY <3>8, <3>9, <3>10, <5>1, <5>2
      <4>. QED BY <3>2, <4>1, <4>2
    <3>12. Q = packet' /\ (U # << >> => Received' = << >>)
      BY <1>2, <3>2, <3>4, <3>9
    <3>13. Arriving(U, Append(D, b), Q)'
      BY <3>7, <3>11, <3>12 DEF Arriving
    <3>14. Append(D, b) \in Seq(Byte)
      BY AppendProperties
    <3>. QED BY <3>13, <3>14
  <2>. QED BY <1>1, <2>1, <2>2 DEF Answering
<1>7. Answered(L)'
  BY <1>2, <1>4, <1>5, <1>6 DEF Answered
<1>. QED BY <1>1, <1>4, <1>7, LossyFrame

LEMMA LossyByReadResult ==
  ASSUME CrcShape, CrcShape', ToolStep, ReadResult, LossyInv
  PROVE  LossyInv'
<1>1. /\ UNCHANGED <<tx, rx, pc, matched, buffer>>
      /\ UNCHANGED driverVars /\ UNCHANGED firmwareVars
  BY ToolFrame DEF ToolStep
<1>2. /\ tool = "result" /\ Take /\ text' = Append(text, Head(hostIn))
      /\ tool' = "result" \/ tool' = Verdict(text')
      /\ UNCHANGED <<got, packet, hostOut>>
  BY DEF ReadResult
<1>3. tool' \in {"result", "passed", "failed"}
  BY <1>2 DEF Verdict
<1>4. PICK L \in Seq(Byte) : Log(L) /\ Written(L) /\ Answered(L)
  BY <1>2 DEF LossyInv, Log, Searched, OnlyStarts, TooLate
<1>5. Answering /\ Answering'
  BY <1>1, <1>2, <1>3, <1>4, AnsweringStays DEF Answered
<1>6. Len(Upstream') = Len(Upstream) - 1 /\ Len(Upstream') \in Nat
  BY <1>1, <1>2, UpstreamTaken
<1>7. text' \in Seq(Byte) /\ Len(text') = Len(text) + 1
  <2>1. text \in Seq(Byte) /\ Head(hostIn) \in Byte
    BY <1>2, SeenIs, TakeIs
  <2>. QED BY <1>2, <2>1, AppendProperties
<1>8. PICK a \in Nat, b \in Nat, c \in Nat, p \in Nat :
        a = Len(text) /\ b = Len(Upstream') /\ c = Len(L) /\ p = Len(NiosPacket)
  BY <1>6, UpstreamIs, Sizes, LenProperties
<1>9. p + a + (b + 1) <= c
  <2>1. Len(Upstream) = b + 1
    BY <1>6, <1>8, UpstreamIs
  <2>. QED BY <1>2, <1>4, <1>8, <2>1 DEF Answered
<1>10. p + (a + 1) + b <= c /\ p + (a + 1) <= c
  BY <1>9
<1>11. Len(NiosPacket) + Len(text') + Len(Upstream') <= Len(L) /\ Len(NiosPacket) + Len(text') <= Len(L)
  BY <1>7, <1>8, <1>10
<1>12. ASSUME tool' = "passed" PROVE buffer' = PcPayload
  <2>1. Verdict(text') = "passed"
    BY <1>2, <1>12
  <2>2. PICK t \in Seq(Byte) : t = text'
    BY <1>7
  <2>. QED BY <1>1, <1>4, <1>5, <1>11, <2>1, <2>2, LossyVerdict
<1>13. got' = NiosPayload /\ Len(L) >= Len(NiosPacket)
  BY <1>2, <1>4 DEF Answered
<1>14. Answered(L)'
  BY <1>3, <1>5, <1>11, <1>12, <1>13 DEF Answered
<1>. QED BY <1>1, <1>4, <1>14, LossyFrame

LEMMA LossyStutter ==
  ASSUME CrcShape, CrcShape', UNCHANGED vars, LossyInv
  PROVE  LossyInv'
<1>1. /\ UNCHANGED driverVars /\ UNCHANGED firmwareVars
      /\ UNCHANGED <<tx, rx, pc, buffer, matched>>
      /\ UNCHANGED <<tool, found, got, packet, text, hostIn, hostOut>>
  BY DEF vars, slaveVars, firmwareVars, toolVars, linkVars
<1>2. Upstream' = Upstream /\ Seen' = Seen
  BY <1>1 DEF Upstream, Seen
<1>3. PICK L \in Seq(Byte) : Log(L)
  BY DEF LossyInv
<1>4. Searched(L) => Searched(L)'
  BY <1>1, <1>2 DEF Searched, OnlyStarts
<1>5. Answered(L) => Answered(L)'
  <2>1. Answering => Answering'
    BY <1>1, AnsweringStays
  <2>. QED BY <1>1, <1>2, <2>1 DEF Answered
<1>6. TooLate(L) => TooLate(L)'
  BY <1>1, <1>2 DEF TooLate
<1>. QED BY <1>1, <1>3, <1>4, <1>5, <1>6, LossyFrame DEF Log

LEMMA LossyInit == Init => LossyInv
<1>. SUFFICES ASSUME Init PROVE LossyInv
  OBVIOUS
<1>1. CrcShape
  BY ShapeInit
<1>2. /\ pc = "boot" /\ parts = << >> /\ matched = 0 /\ buffer = << >> /\ tool = "closed"
      /\ rx = << >> /\ hostOut = << >>
  BY DEF Init
<1>3. OnlyStarts
  BY <1>2, StartsAre DEF OnlyStarts
<1>4. Len(<< >>) = 0 /\ << >> \in Seq(Byte)
  OBVIOUS
<1>5. PICK p \in Nat : p = Len(NiosPacket) /\ p >= 3
  BY Sizes
<1>6. Written(<< >>)
  BY <1>2, <1>4, <1>5 DEF Written
<1>7. Bounded(<< >>)
  <2>1. ToCome = 0
    BY <1>2 DEF ToCome
  <2>. QED BY <1>4, <1>5, <2>1 DEF Bounded
<1>8. Searched(<< >>)
  BY <1>2, <1>3 DEF Searched
<1>9. PartsRight
  BY <1>2, <1>4 DEF PartsRight
<1>. QED BY <1>1, <1>4, <1>6, <1>7, <1>8, <1>9 DEF LossyInv, Log

LEMMA LossyStep == LossyInv /\ [Next]_vars => LossyInv'
<1>. SUFFICES ASSUME LossyInv, [Next]_vars PROVE LossyInv'
  OBVIOUS
<1>1. CrcShape
  BY DEF LossyInv
<1>2. CrcShape'
  BY <1>1, ShapeStep
<1>3. CASE FirmwareNext
  BY <1>1, <1>2, <1>3, LossyByFirmware
<1>4. CASE LinkNext
  BY <1>1, <1>2, <1>4, LossyByLink
<1>5. CASE ToolStep
  <2>1. CASE Drain \/ Quiet \/ SendStart \/ Flushed
    BY <1>1, <1>2, <1>5, <2>1, LossyByWaiting
  <2>2. CASE FindHeader
    BY <1>1, <1>2, <1>5, <2>2, LossyByFindHeader
  <2>3. CASE ReadPayload
    BY <1>1, <1>2, <1>5, <2>3, LossyByReadPayload
  <2>4. CASE ReadCrc
    BY <1>1, <1>2, <1>5, <2>4, LossyByReadCrc
  <2>5. CASE WriteChunk
    BY <1>1, <1>2, <1>5, <2>5, LossyByWriteChunk
  <2>6. CASE ReadResult
    BY <1>1, <1>2, <1>5, <2>6, LossyByReadResult
  <2>. QED BY <1>5, <2>1, <2>2, <2>3, <2>4, <2>5, <2>6 DEF ToolStep
<1>6. CASE Deadline
  BY <1>1, <1>2, <1>6, LossyByDeadline
<1>7. CASE OpenPort /\ UNCHANGED <<slaveVars, driverVars, firmwareVars>>
  BY <1>1, <1>2, <1>7, LossyByOpenPort
<1>8. CASE UNCHANGED vars
  BY <1>1, <1>2, <1>8, LossyStutter
<1>. QED BY <1>3, <1>4, <1>5, <1>6, <1>7, <1>8 DEF Next, ToolNext

\* The verdict PASS (test_usb_crc_bidirectional.py:178) is true of both
\* payloads, in every session, whatever bytes the link loses.  It is not the
\* sum over a payload, an 8-bit number, that makes it so: each side counts
\* what it reads, and where bytes are lost it never has enough.
THEOREM PassIsAlwaysTrue == Spec => []PassIsTrue
<1>1. Spec => []LossyInv
  BY LossyInit, LossyStep, PTL DEF Spec
<1>2. ASSUME LossyInv PROVE PassIsTrue
  <2>1. PICK L \in Seq(Byte) : Searched(L) \/ Answered(L) \/ TooLate(L)
    BY <1>2 DEF LossyInv, Log
  <2>2. Searched(L) => tool # "passed"
    BY DEF Searched, OnlyStarts
  <2>3. TooLate(L) => tool # "passed"
    BY DEF TooLate
  <2>. QED BY <2>1, <2>2, <2>3 DEF Answered, PassIsTrue
<1>. QED BY <1>1, <1>2, PTL
=============================================================================
