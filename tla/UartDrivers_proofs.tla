------------------------ MODULE UartDrivers_proofs ------------------------
(***************************************************************************)
(* What the serial drivers' rings hold, for rings of any length, however   *)
(* the handler and the thread take turns, and what the polled builds'      *)
(* calls send and read, for calls of any length.                           *)
(***************************************************************************)
EXTENDS Uart, JtagUart, Polled, SequenceLemmas, TLAPS

-----------------------------------------------------------------------------
(* The UART *)

Char     == Nat \cup {Bad}
Indices  == 0 .. BufLen - 1
Buffers  == [Indices -> Char]

UartTypeOK ==
  /\ rxdata \in Char
  /\ rx_start \in Indices /\ rx_end \in Indices /\ rx_buf \in Buffers
  /\ tx_start \in Indices /\ tx_end \in Indices /\ tx_buf \in Buffers
  /\ arrivals \in Nat /\ written \in Nat

UartInv == UartTypeOK /\ UartRingsHold

LEMMA UartLength == BufLen \in Nat \ {0} /\ Labels \in Nat \ {0}
BY UartAssumption

\* The driver's ring is the lemmas' ring.
LEMMA UartContents ==
  ASSUME NEW b, NEW s, NEW e
  PROVE  Contents(b, s, e) = RingContents(BufLen, b, s, e)
BY DEF Contents, RingContents, Held, RingHeld

LEMMA UartChar ==
  ASSUME NEW x \in Nat
  PROVE  x % Labels \in Char
BY UartLength DEF Char

LEMMA UartPuts ==
  ASSUME NEW s \in Indices, NEW e \in Indices, NEW b \in Buffers, NEW x \in Char,
         After(e) # s
  PROVE  /\ Contents([b EXCEPT ![e] = x], s, After(e)) = Append(Contents(b, s, e), x)
         /\ After(e) \in Indices
         /\ [b EXCEPT ![e] = x] \in Buffers
<1>1. (e + 1) % BufLen # s
  BY DEF After
<1>2. /\ RingContents(BufLen, [b EXCEPT ![e] = x], s, (e + 1) % BufLen)
           = Append(RingContents(BufLen, b, s, e), x)
      /\ (e + 1) % BufLen \in Indices
      /\ [b EXCEPT ![e] = x] \in Buffers
  BY <1>1, UartLength, RingPutOne DEF Indices, Buffers
<1>. QED BY <1>2, UartContents DEF After

LEMMA UartTakes ==
  ASSUME NEW s \in Indices, NEW e \in Indices, NEW b \in Buffers, s # e
  PROVE  /\ Contents(b, After(s), e) = Tail(Contents(b, s, e))
         /\ After(s) \in Indices
<1>1. /\ RingContents(BufLen, b, (s + 1) % BufLen, e) = Tail(RingContents(BufLen, b, s, e))
      /\ (s + 1) % BufLen \in Indices
  BY UartLength, RingTakeOne DEF Indices, Buffers
<1>. QED BY <1>1, UartContents DEF After

\* A step that leaves the rings alone.
LEMMA UartQuiet ==
  ASSUME UartInv, UNCHANGED <<rxVars, txVars, spilled>>,
         rxdata' \in Char, arrivals' \in Nat, written' \in Nat
  PROVE  UartInv'
BY DEF UartInv, UartTypeOK, UartRingsHold, Contents, Held, rxVars, txVars

LEMMA UartStored ==
  ASSUME UartInv, Stored, UNCHANGED <<rxdata, rx_start, txVars, arrivals, written>>
  PROVE  UartInv'
<1>1. /\ rx_start \in Indices /\ rx_end \in Indices /\ rx_buf \in Buffers
      /\ rxdata \in Char
  BY DEF UartInv, UartTypeOK
<1>2. rx_buf' \in Buffers /\ rx_end' \in Indices
  <2>1. rx_end' = (rx_end + 1) % BufLen /\ rx_buf' = [rx_buf EXCEPT ![rx_end] = rxdata]
    BY DEF Stored, After
  <2>. QED BY <1>1, <2>1, UartLength DEF Indices, Buffers
<1>3. ASSUME After(rx_end) # rx_start
      PROVE  Contents([rx_buf EXCEPT ![rx_end] = rxdata], rx_start, After(rx_end))
               = Append(Contents(rx_buf, rx_start, rx_end), rxdata)
  BY <1>1, <1>3, UartPuts
<1>4. ASSUME ~spilled' PROVE accepted' = Contents(rx_buf', rx_start', rx_end')
  <2>1. After(rx_end) # rx_start
    BY <1>4 DEF Stored, RxFull
  <2>2. accepted = Contents(rx_buf, rx_start, rx_end)
    BY <1>4 DEF Stored, UartInv, UartRingsHold
  <2>. QED BY <1>3, <2>1, <2>2 DEF Stored
<1>. QED BY <1>2, <1>4 DEF UartInv, UartTypeOK, UartRingsHold, Contents, Held, txVars

LEMMA UartSend ==
  ASSUME UartInv, Send, tx_start # tx_end,
         UNCHANGED <<rxdata, rxVars, tx_end, tx_buf, arrivals, written, spilled>>
  PROVE  UartInv'
<1>1. /\ Contents(tx_buf, After(tx_start), tx_end) = Tail(Contents(tx_buf, tx_start, tx_end))
      /\ After(tx_start) \in Indices
  BY UartTakes DEF UartInv, UartTypeOK
<1>. QED BY <1>1 DEF UartInv, UartTypeOK, UartRingsHold, Contents, Held, rxVars, Send

LEMMA UartPut ==
  ASSUME UartInv, Put, ~TxFull, UNCHANGED <<rxdata, rxVars, tx_start, arrivals, spilled>>
  PROVE  UartInv'
<1>. DEFINE x == written % Labels
<1>1. x \in Char /\ After(tx_end) # tx_start
  BY UartChar DEF UartInv, UartTypeOK, TxFull
<1>. HIDE DEF x
<1>2. /\ Contents([tx_buf EXCEPT ![tx_end] = x], tx_start, After(tx_end))
           = Append(Contents(tx_buf, tx_start, tx_end), x)
      /\ After(tx_end) \in Indices
      /\ [tx_buf EXCEPT ![tx_end] = x] \in Buffers
  BY <1>1, UartPuts DEF UartInv, UartTypeOK
<1>3. queued' = Contents(tx_buf', tx_start', tx_end')
  BY <1>2 DEF UartInv, UartRingsHold, Put, x
<1>4. tx_end' \in Indices /\ tx_buf' \in Buffers /\ written' \in Nat
  BY <1>2 DEF UartInv, UartTypeOK, Put, x
<1>. QED BY <1>3, <1>4 DEF UartInv, UartTypeOK, UartRingsHold, Contents, Held, rxVars

LEMMA UartReadCopy ==
  ASSUME UartInv, ReadCopy, UNCHANGED <<rxdata, arrivals>>
  PROVE  UartInv'
<1>1. /\ Contents(rx_buf, After(rx_start), rx_end) = Tail(Contents(rx_buf, rx_start, rx_end))
      /\ After(rx_start) \in Indices
  BY UartTakes DEF UartInv, UartTypeOK, ReadCopy
<1>2. ~spilled' => accepted' = Contents(rx_buf', rx_start', rx_end')
  BY <1>1 DEF UartInv, UartRingsHold, ReadCopy
<1>. QED
  BY <1>1, <1>2 DEF UartInv, UartTypeOK, UartRingsHold, Contents, Held, txVars, ReadCopy

\* The handler looks at the device's answer alone when it stores, and at the
\* ring when it sends.
LEMMA UartHandler ==
  ASSUME UartInv, Handler
  PROVE  UartInv'
<1>1. CASE IrqEntry
  BY <1>1, UartQuiet DEF IrqEntry, deviceVars, countVars, UartInv, UartTypeOK
<1>2. CASE IrqClear
  BY <1>2, UartQuiet DEF IrqClear, countVars, UartInv, UartTypeOK
<1>3. CASE RxIrq
  <2>1. CASE status.rrdy /\ ~status.fault
    BY <1>3, <2>1, UartStored DEF RxIrq, countVars
  <2>2. CASE ~(status.rrdy /\ ~status.fault)
    BY <1>3, <2>2, UartQuiet DEF RxIrq, countVars, rxVars, UartInv, UartTypeOK
  <2>. QED BY <2>1, <2>2
<1>4. CASE TxIrq
  <2>1. CASE status.trdy /\ tx_start # tx_end
    BY <1>4, <2>1, UartSend DEF TxIrq, countVars
  <2>2. CASE ~(status.trdy /\ tx_start # tx_end)
    BY <1>4, <2>2, UartQuiet DEF TxIrq, NothingToSend, countVars, txVars, UartInv, UartTypeOK
  <2>. QED BY <2>1, <2>2
<1>. QED BY <1>1, <1>2, <1>3, <1>4 DEF Handler

LEMMA UartThread ==
  ASSUME UartInv, Thread(ThreadStep)
  PROVE  UartInv'
<1>1. UNCHANGED <<rxdata, arrivals>> /\ rxdata \in Char /\ arrivals \in Nat /\ written \in Nat
  BY DEF Thread, deviceVars, UartInv, UartTypeOK
<1>2. CASE ReadCopy
  BY <1>1, <1>2, UartReadCopy
<1>3. CASE WritePut
  BY <1>1, <1>3, UartPut DEF WritePut
<1>4. CASE WriteWoken
  BY <1>1, <1>4, UartPut DEF WriteWoken
<1>5. CASE ReadCheck \/ ReadEnd \/ WriteBlock \/ WriteDone \/ WriteEnd \/ CloseEnd
  BY <1>1, <1>5, UartQuiet
  DEF ReadCheck, ReadEnd, WriteBlock, WriteDone, WriteEnd, CloseEnd
<1>. QED BY <1>2, <1>3, <1>4, <1>5 DEF Thread, ThreadStep

LEMMA UartCalls ==
  ASSUME UartInv, Thread(ThreadCall)
  PROVE  UartInv'
<1>1. UNCHANGED <<rxdata, arrivals>> /\ rxdata \in Char /\ arrivals \in Nat /\ written \in Nat
  BY DEF Thread, deviceVars, UartInv, UartTypeOK
<1>. QED
  BY <1>1, UartQuiet DEF Thread, ThreadCall, CallRead, CallWrite, CallClose

LEMMA UartInitially == UartInit => UartInv
<1>. SUFFICES ASSUME UartInit PROVE UartInv
  OBVIOUS
<1>1. Held(0, 0) = 0
  <2>1. (0 + BufLen) - 0 \in BufLen .. (2 * BufLen) - 1
    BY UartLength
  <2>2. ((0 + BufLen) - 0) % BufLen = 0
    BY UartLength, <2>1, ModOnce
  <2>. QED BY <2>2, UartLength DEF Held
<1>2. \A b : Contents(b, 0, 0) = << >>
  BY <1>1 DEF Contents
<1>3. UartTypeOK
  BY UartLength DEF UartInit, UartTypeOK, Indices, Buffers, Char
<1>. QED BY <1>2, <1>3 DEF UartInit, UartInv, UartRingsHold

LEMMA UartSteps == UartInv /\ [UartNext]_uartVars => UartInv'
<1>. SUFFICES ASSUME UartInv, [UartNext]_uartVars PROVE UartInv'
  OBVIOUS
<1>1. CASE Arrive
  <2>1. arrivals % Labels \in Char /\ Bad \in Char /\ arrivals' \in Nat
    BY <1>1, UartChar DEF Arrive, UartInv, UartTypeOK, Char
  <2>. QED BY <1>1, <2>1, UartQuiet DEF Arrive, UartInv, UartTypeOK
<1>2. CASE Transmitted
  BY <1>2, UartQuiet DEF Transmitted, countVars, UartInv, UartTypeOK
<1>3. CASE Handler
  BY <1>3, UartHandler
<1>4. CASE Thread(ThreadStep)
  BY <1>4, UartThread
<1>5. CASE Thread(ThreadCall)
  BY <1>5, UartCalls
<1>6. CASE UNCHANGED uartVars
  BY <1>6, UartQuiet DEF uartVars, deviceVars, countVars, UartInv, UartTypeOK
<1>. QED BY <1>1, <1>2, <1>3, <1>4, <1>5, <1>6 DEF UartNext

\* Both rings of the UART hold what was put in and not taken out, in order
\* (the receive ring as long as nothing was stored in it when it was full).
THEOREM UartKeepsRings == UartSpec => []UartRingsHold
<1>1. UartInv => UartRingsHold
  BY DEF UartInv
<1>. QED BY <1>1, UartInitially, UartSteps, PTL DEF UartSpec

-----------------------------------------------------------------------------
(* The JTAG UART *)

JChar    == Nat
JIndices == 0 .. JBufLen - 1
JBuffers == [JIndices -> JChar]
JStrings == Seq(JChar)

JtagTypeOK ==
  /\ rfifo \in JStrings /\ wfifo \in JStrings
  /\ rx_in \in JIndices /\ rx_out \in JIndices /\ jrx_buf \in JBuffers
  /\ tx_in \in JIndices /\ tx_out \in JIndices /\ jtx_buf \in JBuffers
  /\ seen \in JIndices
  /\ jarrivals \in Nat /\ jwritten \in Nat /\ jcount \in Nat /\ done \in Nat
  /\ control.space \in Nat

\* The snapshot that read copies up to is behind the handler's index, and a
\* call that is reading still wants something.
ReadView ==
  /\ jcall = "readCopy" => seen # rx_out /\ JHeld(rx_out, seen) <= JHeld(rx_out, rx_in)
  /\ jcall \in {"readLook", "readCopy", "readWait"} => jcount > 0

\* The snapshot that write fills up to leaves less room than there is.
WriteView == jcall = "writeCopy" => JHeld(tx_out, tx_in) <= JHeld(seen, tx_in)

\* What the handler read in CONTROL is room that the device still has.
JtagFits ==
  /\ Len(wfifo) <= JDepth
  /\ jisr \in {"rx", "rxEnd", "tx"} => control.space + Len(wfifo) <= JDepth

\* Receive interrupts are closed only with something in the ring: a handler
\* that finds the device empty has taken something from it.
RxOpen ==
  /\ pause_irq => rfifo # << >>
  /\ jisr = "rx" => rfifo # << >> \/ rx_in # rx_out
  /\ jisr = "rxEnd" => ~ravail \/ rx_in # rx_out
  /\ "re" \notin ien => \/ rx_in # rx_out
                       \/ (done > 0 /\ jcall \in {"readLook", "readCopy", "readOpen"})

TxOpen == "we" \notin ien => tx_in = tx_out \/ jcall \in {"writeLook", "writeCopy", "writeKick"}

JtagInv ==
  /\ JtagTypeOK
  /\ JtagRingsHold
  /\ ReadView
  /\ WriteView
  /\ JtagFits
  /\ RxOpen
  /\ TxOpen

LEMMA JtagLength ==
  /\ JBufLen \in Nat \ {0} /\ JBufLen > 1
  /\ JLabels \in Nat \ {0}
  /\ JDepth \in Nat /\ JAlmost \in Nat /\ JAlmost < JDepth
BY JtagAssumption

LEMMA JtagHeld ==
  ASSUME NEW s, NEW e
  PROVE  JHeld(s, e) = RingHeld(JBufLen, s, e)
BY DEF JHeld, RingHeld

LEMMA JtagContents ==
  ASSUME NEW b, NEW s, NEW e
  PROVE  JContents(b, s, e) = RingContents(JBufLen, b, s, e)
BY DEF JContents, RingContents, JHeld, RingHeld

LEMMA JtagHeldIs ==
  ASSUME NEW s \in JIndices, NEW e \in JIndices
  PROVE  /\ JHeld(s, e) \in Nat /\ JHeld(s, e) <= JBufLen - 1
         /\ s <= e => JHeld(s, e) = e - s
         /\ ~(s <= e) => JHeld(s, e) = (e + JBufLen) - s
         /\ JHeld(s, e) = 0 <=> s = e
<1>. DEFINE n == JBufLen
<1>1. n \in Nat \ {0} /\ s \in 0 .. n - 1 /\ e \in 0 .. n - 1
  BY JtagLength DEF JIndices
<1>. HIDE DEF n
<1>2. RingHeld(n, s, e) \in 0 .. n - 1
  BY <1>1, RingHeldIs
<1>3. s <= e => RingHeld(n, s, e) = e - s
  BY <1>1, RingHeldIs
<1>4. ~(s <= e) => RingHeld(n, s, e) = (e + n) - s
  BY <1>1, RingHeldIs
<1>5. RingHeld(n, s, e) = 0 <=> s = e
  BY <1>1, RingHeldIs
<1>. QED BY <1>1, <1>2, <1>3, <1>4, <1>5, JtagHeld DEF n

LEMMA JtagContentsIs ==
  ASSUME NEW s \in JIndices, NEW e \in JIndices, NEW b \in JBuffers
  PROVE  JContents(b, s, e) \in JStrings /\ Len(JContents(b, s, e)) = JHeld(s, e)
<1>1. RingContents(JBufLen, b, s, e) \in Seq(JChar)
  BY JtagLength, RingContentsIs DEF JIndices, JBuffers
<1>2. Len(RingContents(JBufLen, b, s, e)) = RingHeld(JBufLen, s, e)
  BY JtagLength, RingContentsIs DEF JIndices, JBuffers
<1>. QED BY <1>1, <1>2, JtagContents, JtagHeld DEF JStrings

LEMMA JtagPutsOne ==
  ASSUME NEW s \in JIndices, NEW e \in JIndices, NEW b \in JBuffers, NEW x \in JChar,
         (e + 1) % JBufLen # s
  PROVE  /\ JContents([b EXCEPT ![e] = x], s, (e + 1) % JBufLen) = Append(JContents(b, s, e), x)
         /\ (e + 1) % JBufLen \in JIndices
         /\ [b EXCEPT ![e] = x] \in JBuffers
         /\ JHeld(s, (e + 1) % JBufLen) = JHeld(s, e) + 1
<1>1. /\ RingContents(JBufLen, [b EXCEPT ![e] = x], s, (e + 1) % JBufLen)
           = Append(RingContents(JBufLen, b, s, e), x)
      /\ (e + 1) % JBufLen \in JIndices
      /\ [b EXCEPT ![e] = x] \in JBuffers
  <2>. DEFINE n == JBufLen
  <2>1. /\ n \in Nat \ {0} /\ s \in 0 .. n - 1 /\ e \in 0 .. n - 1
        /\ b \in [0 .. n - 1 -> JChar] /\ (e + 1) % n # s
    BY JtagLength DEF JIndices, JBuffers
  <2>. HIDE DEF n
  <2>2. /\ RingContents(n, [b EXCEPT ![e] = x], s, (e + 1) % n) = Append(RingContents(n, b, s, e), x)
        /\ (e + 1) % n \in 0 .. n - 1
        /\ [b EXCEPT ![e] = x] \in [0 .. n - 1 -> JChar]
    BY <2>1, RingPutOne
  <2>. QED BY <2>2 DEF n, JIndices, JBuffers
<1>2. RingHeld(JBufLen, s, e) + 1 <= JBufLen - 1
  BY JtagLength, RingRoom DEF JIndices
<1>3. RingHeld(JBufLen, s, (e + 1) % JBufLen) = RingHeld(JBufLen, s, e) + 1
  BY <1>2, JtagLength, RingGrows DEF JIndices
<1>. QED BY <1>1, <1>3, JtagContents, JtagHeld

LEMMA JtagTakes ==
  ASSUME NEW s \in JIndices, NEW e \in JIndices, NEW b \in JBuffers, NEW k \in Nat,
         k <= JHeld(s, e)
  PROVE  /\ JContents(b, (s + k) % JBufLen, e) = SubSeq(JContents(b, s, e), k + 1, JHeld(s, e))
         /\ (s + k) % JBufLen \in JIndices
         /\ JHeld((s + k) % JBufLen, e) = JHeld(s, e) - k
<1>1. k \in 0 .. RingHeld(JBufLen, s, e)
  BY JtagHeld, JtagHeldIs
<1>2. RingContents(JBufLen, b, (s + k) % JBufLen, e)
        = SubSeq(RingContents(JBufLen, b, s, e), k + 1, RingHeld(JBufLen, s, e))
  BY <1>1, JtagLength, RingTake DEF JIndices, JBuffers
<1>3. (s + k) % JBufLen \in JIndices
  BY <1>1, JtagLength, RingShrinks DEF JIndices
<1>4. RingHeld(JBufLen, (s + k) % JBufLen, e) = RingHeld(JBufLen, s, e) - k
  BY <1>1, JtagLength, RingShrinks DEF JIndices
<1>. QED BY <1>2, <1>3, <1>4, JtagContents, JtagHeld

LEMMA JtagPuts ==
  ASSUME NEW s \in JIndices, NEW e \in JIndices, NEW b \in JBuffers, NEW v \in JStrings,
         e + Len(v) <= JBufLen, JHeld(s, e) + Len(v) <= JBufLen - 1
  PROVE  /\ JContents(RingWith(JBufLen, b, e, v), s, (e + Len(v)) % JBufLen)
              = JContents(b, s, e) \o v
         /\ (e + Len(v)) % JBufLen \in JIndices
         /\ RingWith(JBufLen, b, e, v) \in JBuffers
<1>1. RingRoomFor(JBufLen, s, e, Len(v))
  BY JtagHeld DEF RingRoomFor
<1>2. b \in Rings(JBufLen, JChar) /\ v \in Strings(JChar)
  BY DEF Rings, Strings, JBuffers, JIndices, JStrings
<1>3. RingContents(JBufLen, RingWith(JBufLen, b, e, v), s, (e + Len(v)) % JBufLen)
        = RingContents(JBufLen, b, s, e) \o v
  BY <1>1, <1>2, JtagLength, RingPut DEF JIndices
<1>4. Len(v) \in Nat
  BY LenProperties DEF JStrings
<1>5. Len(v) \in 0 .. JBufLen
  BY <1>4, JtagLength DEF JIndices
<1>6. (e + Len(v)) % JBufLen \in JIndices
  BY <1>5, JtagLength, RingIndex DEF JIndices
<1>7. RingWith(JBufLen, b, e, v) \in JBuffers
  BY JtagLength, RingWithIs DEF JBuffers, JIndices, JStrings
<1>. QED BY <1>3, <1>6, <1>7, JtagContents

\* A step of the thread leaves the device, the handler and its two indices
\* alone; one that moves no index leaves the rings alone.
LEMMA JtagThreadQuiet ==
  ASSUME JtagInv, jisr = "none",
         UNCHANGED <<jDevice, jRx, jTx, jIsr, jarrivals, rx_out, tx_in, jtx_buf,
                     jaccepted, jqueued, jwritten>>,
         seen' \in JIndices, jcount' \in Nat, done' \in Nat,
         ReadView', WriteView', RxOpen', TxOpen'
  PROVE  JtagInv'
<1>1. JtagTypeOK'
  BY DEF JtagInv, JtagTypeOK, jDevice, jRx, jTx, jIsr
<1>2. JtagRingsHold'
  BY DEF JtagInv, JtagRingsHold, JContents, JHeld, jRx, jTx
<1>3. JtagFits'
  BY DEF JtagInv, JtagFits, jDevice, jIsr
<1>. QED BY <1>1, <1>2, <1>3 DEF JtagInv

\* The host's steps, and the clock's: the device's buffers alone.
LEMMA JtagDeviceStep ==
  ASSUME JtagInv, rfifo' \in JStrings, wfifo' \in JStrings, Len(wfifo') <= Len(wfifo),
         rfifo # << >> => rfifo' # << >>, pause_irq' => rfifo' # << >>, jarrivals' \in Nat,
         UNCHANGED <<ien, jRx, rx_out, jTx, tx_in, jtx_buf, jIsr, jLocals,
                     jaccepted, jqueued, jwritten>>
  PROVE  JtagInv'
<1>1. JtagTypeOK'
  BY DEF JtagInv, JtagTypeOK, jRx, jTx, jIsr, jLocals
<1>2. JtagRingsHold'
  BY DEF JtagInv, JtagRingsHold, JContents, JHeld, jRx, jTx
<1>3. ReadView' /\ WriteView'
  BY DEF JtagInv, ReadView, WriteView, JHeld, jRx, jTx, jLocals
<1>4. JtagFits'
  <2>1. Len(wfifo) \in Nat /\ Len(wfifo') \in Nat /\ control.space \in Nat
    BY LenProperties DEF JtagInv, JtagTypeOK, JStrings
  <2>2. control' = control /\ jisr' = jisr
    BY DEF jIsr
  <2>. QED BY <2>1, <2>2, JtagLength DEF JtagInv, JtagFits
<1>5. RxOpen' /\ TxOpen'
  BY DEF JtagInv, RxOpen, TxOpen, jRx, jTx, jIsr, jLocals
<1>. QED BY <1>1, <1>2, <1>3, <1>4, <1>5 DEF JtagInv

LEMMA JtagChar ==
  ASSUME NEW x \in Nat
  PROVE  x % JLabels \in JChar
BY JtagLength DEF JChar

LEMMA JtagHost ==
  ASSUME JtagInv, HostSends \/ HostPauses \/ HostTakesOne \/ HostTimer
  PROVE  JtagInv'
<1>1. CASE HostSends
  <2>1. jarrivals % JLabels \in JChar
    BY JtagChar DEF JtagInv, JtagTypeOK
  <2>2. rfifo' \in JStrings /\ rfifo' # << >>
    BY <1>1, <2>1 DEF HostSends, JtagInv, JtagTypeOK, JStrings
  <2>3. wfifo' \in JStrings /\ Len(wfifo') <= Len(wfifo) /\ jarrivals' \in Nat
    BY <1>1, LenProperties DEF HostSends, JArrived, JtagInv, JtagTypeOK, JStrings
  <2>. QED BY <1>1, <2>2, <2>3, JtagDeviceStep DEF HostSends
<1>2. CASE HostPauses
  <2>1. rfifo' \in JStrings /\ wfifo' \in JStrings /\ Len(wfifo') <= Len(wfifo)
    BY <1>2, LenProperties DEF HostPauses, JtagInv, JtagTypeOK, JStrings
  <2>2. jarrivals' \in Nat
    BY <1>2 DEF HostPauses, JtagInv, JtagTypeOK, jHist
  <2>. QED BY <1>2, <2>1, <2>2, JtagDeviceStep DEF HostPauses, jHist
<1>3. CASE HostTakesOne
  <2>1. wfifo' \in JStrings /\ Len(wfifo') <= Len(wfifo)
    BY <1>3, LenProperties, HeadTailProperties DEF HostTakesOne, JtagInv, JtagTypeOK, JStrings
  <2>2. rfifo' = rfifo /\ rfifo \in JStrings /\ jarrivals' \in Nat
    BY <1>3 DEF HostTakesOne, JtagInv, JtagTypeOK, jHist
  <2>3. pause_irq' => rfifo' # << >>
    BY <1>3 DEF HostTakesOne, JtagInv, RxOpen
  <2>. QED BY <1>3, <2>1, <2>2, <2>3, JtagDeviceStep DEF HostTakesOne, jHist
<1>4. CASE HostTimer
  <2>1. wfifo' = wfifo /\ wfifo \in JStrings /\ Len(wfifo') <= Len(wfifo)
    BY <1>4, LenProperties DEF HostTimer, JtagInv, JtagTypeOK, JStrings
  <2>2. rfifo' = rfifo /\ rfifo \in JStrings /\ jarrivals' \in Nat
    BY <1>4 DEF HostTimer, JtagInv, JtagTypeOK, jHist
  <2>3. pause_irq' => rfifo' # << >>
    BY <1>4 DEF HostTimer, JtagInv, RxOpen
  <2>. QED BY <1>4, <2>1, <2>2, <2>3, JtagDeviceStep DEF HostTimer, jHist
<1>. QED BY <1>1, <1>2, <1>3, <1>4

\* The handler.
LEMMA JtagIsrControl ==
  ASSUME JtagInv, IsrControl
  PROVE  JtagInv'
<1>1. Len(wfifo) \in Nat /\ Len(wfifo) <= JDepth /\ Len(rfifo) \in Nat
  BY LenProperties DEF JtagInv, JtagTypeOK, JtagFits, JStrings
<1>2. /\ UNCHANGED <<rfifo, wfifo, pause_irq, ien, rx_in, jrx_buf, rx_out, tx_out, tx_in, jtx_buf>>
      /\ UNCHANGED <<jcall, jcount, done, seen, jaccepted, jqueued, jarrivals, jwritten>>
  BY DEF IsrControl, jDevice, jRx, jTx, jLocals, jHist
<1>3. /\ jisr' \in {"rx", "tx", "none"}
      /\ jisr' # "none" => control'.space = JDepth - Len(wfifo)
      /\ jisr' = "none" => control'.space = 0
      /\ jisr' = "rx" => ReadIrq
  BY DEF IsrControl
<1>4. control'.space \in Nat /\ (jisr' # "none" => control'.space + Len(wfifo) <= JDepth)
  BY <1>1, <1>3, JtagLength
<1>5. JtagTypeOK'
  BY <1>2, <1>4 DEF JtagInv, JtagTypeOK
<1>6. JtagRingsHold'
  BY <1>2 DEF JtagInv, JtagRingsHold, JContents, JHeld
<1>7. ReadView' /\ WriteView'
  BY <1>2 DEF JtagInv, ReadView, WriteView, JHeld
<1>8. JtagFits'
  BY <1>1, <1>2, <1>4, <1>3 DEF JtagFits
<1>9. ReadIrq => rfifo # << >>
  <2>1. rfifo = << >> => ~(JDepth - Len(rfifo) <= JAlmost)
    <3>1. rfifo = << >> => Len(rfifo) = 0
      OBVIOUS
    <3>. QED BY <3>1, JtagLength
  <2>. QED BY <2>1 DEF ReadIrq, JtagInv, RxOpen
<1>10. RxOpen' /\ TxOpen'
  BY <1>2, <1>3, <1>9 DEF JtagInv, RxOpen, TxOpen
<1>. QED BY <1>5, <1>6, <1>7, <1>8, <1>10 DEF JtagInv

\* One character moves from the device to the ring.
LEMMA JtagIsrReceive ==
  ASSUME JtagInv, IsrReceive
  PROVE  JtagInv'
<1>1. /\ UNCHANGED <<wfifo, ien, rx_out, tx_out, tx_in, jtx_buf, jisr, control>>
      /\ UNCHANGED <<jcall, jcount, done, seen, jqueued, jarrivals, jwritten>>
      /\ jisr = "rx" /\ rfifo # << >> /\ rfifo' = Tail(rfifo) /\ pause_irq' = FALSE
  BY DEF IsrReceive, jTx, jLocals
<1>2. Head(rfifo) \in JChar /\ rfifo' \in JStrings
  BY <1>1, HeadTailProperties DEF JtagInv, JtagTypeOK, JStrings
<1>3. (rx_in + 1) % JBufLen # rx_out
  BY DEF IsrReceive, JRxFull
<1>. DEFINE x == Head(rfifo)
<1>4. /\ rx_in' = (rx_in + 1) % JBufLen
      /\ jrx_buf' = [jrx_buf EXCEPT ![rx_in] = x]
      /\ jaccepted' = Append(jaccepted, x)
  BY DEF IsrReceive
<1>. HIDE DEF x
<1>5. /\ JContents([jrx_buf EXCEPT ![rx_in] = x], rx_out, (rx_in + 1) % JBufLen)
           = Append(JContents(jrx_buf, rx_out, rx_in), x)
      /\ (rx_in + 1) % JBufLen \in JIndices
      /\ [jrx_buf EXCEPT ![rx_in] = x] \in JBuffers
      /\ JHeld(rx_out, (rx_in + 1) % JBufLen) = JHeld(rx_out, rx_in) + 1
  BY <1>2, <1>3, JtagPutsOne DEF JtagInv, JtagTypeOK, x
<1>6. JtagTypeOK'
  BY <1>1, <1>2, <1>4, <1>5 DEF JtagInv, JtagTypeOK
<1>7. JtagRingsHold'
  <2>1. jaccepted' = JContents(jrx_buf', rx_out', rx_in')
    BY <1>1, <1>4, <1>5 DEF JtagInv, JtagRingsHold
  <2>2. jqueued' = JContents(jtx_buf', tx_out', tx_in')
    BY <1>1 DEF JtagInv, JtagRingsHold
  <2>. QED BY <2>1, <2>2 DEF JtagRingsHold
<1>8. ReadView'
  <2>1. ASSUME jcall = "readCopy"
        PROVE  seen # rx_out /\ JHeld(rx_out, seen) <= JHeld(rx_out, (rx_in + 1) % JBufLen)
    <3>1. seen # rx_out /\ JHeld(rx_out, seen) <= JHeld(rx_out, rx_in)
      BY <2>1 DEF JtagInv, ReadView
    <3>2. JHeld(rx_out, seen) \in Nat /\ JHeld(rx_out, rx_in) \in Nat
      BY JtagHeldIs DEF JtagInv, JtagTypeOK
    <3>. QED BY <1>5, <3>1, <3>2
  <2>. QED BY <1>1, <1>4, <2>1 DEF JtagInv, ReadView
<1>9. WriteView' /\ JtagFits' /\ TxOpen'
  BY <1>1 DEF JtagInv, WriteView, JtagFits, TxOpen
<1>10. RxOpen'
  BY <1>1, <1>3, <1>4 DEF RxOpen
<1>. QED BY <1>6, <1>7, <1>8, <1>9, <1>10 DEF JtagInv

LEMMA JtagNextElsewhere ==
  ASSUME NEW i \in JIndices
  PROVE  (i + 1) % JBufLen # i
<1>. DEFINE n == JBufLen
<1>1. n \in Nat \ {0} /\ n > 1 /\ i \in 0 .. n - 1 /\ 1 \in 0 .. n
  BY JtagLength DEF JIndices
<1>. HIDE DEF n
<1>2. (i + 1) % n = IF i + 1 < n THEN i + 1 ELSE (i + 1) - n
  BY <1>1, RingIndex
<1>3. (i + 1) % n # i
  BY <1>1, <1>2
<1>. QED BY <1>3 DEF n

\* The device is empty, or the ring is full: if anything is left in the
\* device, something is in the ring.
LEMMA JtagIsrReceiveOver ==
  ASSUME JtagInv, IsrReceiveNone \/ IsrRingFull \/ IsrReceiveEnd
  PROVE  JtagInv'
<1>1. /\ UNCHANGED <<wfifo, rx_in, jrx_buf, rx_out, tx_out, tx_in, jtx_buf, control>>
      /\ UNCHANGED <<jcall, jcount, done, seen, jqueued, jaccepted, jwritten>>
  BY DEF IsrReceiveNone, IsrRingFull, IsrReceiveEnd, jDevice, jRx, jTx, jLocals, jHist, Isr
<1>2. rfifo' \in JStrings /\ jarrivals' \in Nat
  <2>1. jarrivals % JLabels \in JChar
    BY JtagChar DEF JtagInv, JtagTypeOK
  <2>2. <<jarrivals % JLabels>> \in JStrings
    BY <2>1 DEF JStrings
  <2>3. rfifo \in JStrings /\ jarrivals \in Nat
    BY DEF JtagInv, JtagTypeOK
  <2>4. CASE IsrReceiveNone
    BY <2>2, <2>3, <2>4 DEF IsrReceiveNone, JArrived
  <2>5. CASE IsrRingFull \/ IsrReceiveEnd
    BY <2>3, <2>5 DEF IsrRingFull, IsrReceiveEnd, jDevice, jHist
  <2>. QED BY <2>4, <2>5
<1>3. JtagTypeOK'
  BY <1>1, <1>2 DEF JtagInv, JtagTypeOK
<1>4. JtagRingsHold' /\ ReadView' /\ WriteView'
  BY <1>1 DEF JtagInv, JtagRingsHold, ReadView, WriteView
<1>5. JtagFits'
  BY <1>1 DEF JtagInv, JtagFits, IsrReceiveNone, IsrRingFull, IsrReceiveEnd, Isr
<1>6. JRxFull => rx_in # rx_out
  BY JtagNextElsewhere DEF JRxFull, JtagInv, JtagTypeOK
<1>7. RxOpen' /\ TxOpen'
  <2>1. CASE IsrReceiveNone
    BY <1>1, <2>1 DEF IsrReceiveNone, JtagInv, RxOpen, TxOpen
  <2>2. CASE IsrRingFull
    BY <1>1, <1>6, <2>2 DEF IsrRingFull, JtagInv, RxOpen, TxOpen, Isr, jDevice
  <2>3. CASE IsrReceiveEnd
    BY <1>1, <2>3 DEF IsrReceiveEnd, JtagInv, RxOpen, TxOpen, Isr, jDevice
  <2>. QED BY <2>1, <2>2, <2>3
<1>. QED BY <1>3, <1>4, <1>5, <1>7 DEF JtagInv

\* As much is sent as the ring has and CONTROL allowed.
LEMMA JtagSent ==
  ASSUME JtagTypeOK
  PROVE  /\ Sent \in Nat /\ Sent <= JHeld(tx_out, tx_in) /\ Sent <= control.space
         /\ control.space > Sent => Sent = JHeld(tx_out, tx_in)
<1>1. JHeld(tx_out, tx_in) \in Nat /\ control.space \in Nat
  BY JtagHeldIs DEF JtagTypeOK
<1>. QED BY <1>1 DEF Sent

LEMMA JtagIsrTransmit ==
  ASSUME JtagInv, IsrTransmit
  PROVE  JtagInv'
<1>1. /\ UNCHANGED <<rfifo, pause_irq, rx_in, jrx_buf, rx_out, tx_in, jtx_buf, control, ravail>>
      /\ UNCHANGED <<jcall, jcount, done, seen, jaccepted, jarrivals, jwritten>>
      /\ jisr = "tx" /\ jisr' = "loop"
  BY DEF IsrTransmit, jRx, jLocals, Isr
<1>. DEFINE k == Sent
            h == JHeld(tx_out, tx_in)
            out == (tx_out + k) % JBufLen
            all == JContents(jtx_buf, tx_out, tx_in)
<1>2. /\ k \in Nat /\ k <= h /\ k <= control.space
      /\ control.space > k => k = h
  BY JtagSent DEF JtagInv
<1>3. /\ tx_out' = out
      /\ wfifo' = wfifo \o SubSeq(all, 1, k)
      /\ jqueued' = SubSeq(jqueued, k + 1, Len(jqueued))
      /\ ien' = IF control.space > k THEN ien \ {"we"} ELSE ien
  BY DEF IsrTransmit
<1>4. /\ all \in JStrings /\ Len(all) = h /\ jqueued = all /\ h \in Nat
  BY JtagContentsIs, JtagHeldIs DEF JtagInv, JtagTypeOK, JtagRingsHold
<1>5. /\ JContents(jtx_buf, out, tx_in) = SubSeq(all, k + 1, h)
      /\ out \in JIndices
      /\ JHeld(out, tx_in) = h - k
  <2>. HIDE DEF k
  <2>. QED BY <1>2, JtagTakes DEF JtagInv, JtagTypeOK
<1>. HIDE DEF k, h, out, all
<1>6. /\ wfifo' \in JStrings
      /\ Len(wfifo') = Len(wfifo) + k
      /\ Len(wfifo) \in Nat
  <2>1. wfifo \in JStrings /\ Len(wfifo) \in Nat
    BY LenProperties DEF JtagInv, JtagTypeOK, JStrings
  <2>2. \A i \in 1 .. k : all[i] \in JChar
    BY <1>2, <1>4, ElementOfSeq DEF JStrings
  <2>3. SubSeq(all, 1, k) \in JStrings /\ Len(SubSeq(all, 1, k)) = k
    <3>1. SubSeq(all, 1, k) \in Seq(JChar)
      BY <1>2, <2>2, SubSeqProperties
    <3>2. Len(SubSeq(all, 1, k)) = k
      BY <1>2, <2>2, SubSeqProperties
    <3>. QED BY <3>1, <3>2 DEF JStrings
  <2>. QED BY <1>3, <2>1, <2>3, ConcatProperties DEF JStrings
<1>7. JtagTypeOK'
  BY <1>1, <1>3, <1>5, <1>6 DEF JtagInv, JtagTypeOK
<1>8. JtagRingsHold'
  <2>1. jqueued' = JContents(jtx_buf', tx_out', tx_in')
    BY <1>1, <1>3, <1>4, <1>5
  <2>2. jaccepted' = JContents(jrx_buf', rx_out', rx_in')
    BY <1>1 DEF JtagInv, JtagRingsHold
  <2>. QED BY <2>1, <2>2 DEF JtagRingsHold
<1>9. ReadView' /\ RxOpen'
  BY <1>1, <1>3 DEF JtagInv, ReadView, RxOpen
<1>10. WriteView'
  <2>1. ASSUME jcall = "writeCopy"
        PROVE  JHeld(out, tx_in) <= JHeld(seen, tx_in)
    <3>1. h <= JHeld(seen, tx_in)
      BY <2>1 DEF JtagInv, WriteView, h
    <3>2. JHeld(seen, tx_in) \in Nat
      BY JtagHeldIs DEF JtagInv, JtagTypeOK
    <3>. QED BY <1>2, <1>4, <1>5, <3>1, <3>2
  <2>. QED BY <1>1, <1>3, <2>1 DEF WriteView
<1>11. JtagFits'
  <2>1. control.space + Len(wfifo) <= JDepth /\ control.space \in Nat
    BY <1>1 DEF JtagInv, JtagFits, JtagTypeOK
  <2>. QED BY <1>1, <1>2, <1>6, <2>1, JtagLength DEF JtagFits
<1>12. TxOpen'
  <2>1. ASSUME control.space > k PROVE out = tx_in
    <3>1. JHeld(out, tx_in) = 0
      BY <1>2, <1>4, <1>5, <2>1
    <3>. QED BY <1>5, <3>1, JtagHeldIs DEF JtagInv, JtagTypeOK
  <2>2. CASE control.space > k
    BY <1>1, <1>3, <2>1, <2>2 DEF TxOpen
  <2>3. CASE ~(control.space > k)
    <3>1. tx_in = tx_out => out = tx_in
      <4>1. tx_in = tx_out => h = 0
        BY JtagHeldIs DEF JtagInv, JtagTypeOK, h
      <4>2. tx_in = tx_out => JHeld(out, tx_in) = 0
        BY <1>2, <1>5, <4>1
      <4>. QED BY <1>5, <4>2, JtagHeldIs DEF JtagInv, JtagTypeOK
    <3>. QED BY <1>1, <1>3, <2>3, <3>1 DEF TxOpen, JtagInv
  <2>. QED BY <2>2, <2>3
<1>. QED BY <1>7, <1>8, <1>9, <1>10, <1>11, <1>12 DEF JtagInv

\* The thread.  Of its steps only the copies move an index.
LEMMA JtagReadCopies ==
  ASSUME JtagInv, JReadCopy, jisr = "none", UNCHANGED <<jDevice, jRx, jTx, jIsr, jarrivals>>
  PROVE  JtagInv'
<1>. DEFINE m == IF seen >= rx_out THEN seen - rx_out ELSE JBufLen - rx_out
            n == Piece(m)
            out == (rx_out + n) % JBufLen
<1>1. jcall = "readCopy"
  BY DEF JReadCopy
<1>2. /\ rx_out' = out
      /\ jcount' = jcount - n /\ done' = done + n
      /\ jaccepted' = SubSeq(jaccepted, n + 1, Len(jaccepted))
      /\ jcall' = IF jcount = n THEN "readOpen" ELSE "readLook"
      /\ UNCHANGED <<ien, tx_in, jtx_buf, seen, jqueued, jwritten>>
  BY DEF JReadCopy
<1>3. /\ UNCHANGED <<rfifo, wfifo, pause_irq, rx_in, jrx_buf, tx_out, jisr, control, ravail, jarrivals>>
  BY DEF jDevice, jRx, jTx, jIsr
<1>4. m \in Nat /\ m > 0 /\ m <= JHeld(rx_out, rx_in)
  <2>1. seen # rx_out /\ JHeld(rx_out, seen) <= JHeld(rx_out, rx_in)
    BY <1>1 DEF JtagInv, ReadView
  <2>2. /\ JHeld(rx_out, rx_in) \in Nat /\ JHeld(rx_out, seen) \in Nat
        /\ rx_out <= seen => JHeld(rx_out, seen) = seen - rx_out
        /\ ~(rx_out <= seen) => JHeld(rx_out, seen) = (seen + JBufLen) - rx_out
    BY JtagHeldIs DEF JtagInv, JtagTypeOK
  <2>3. seen \in Nat /\ rx_out \in Nat /\ rx_out < JBufLen
    BY JtagLength DEF JtagInv, JtagTypeOK, JIndices
  <2>. QED BY <2>1, <2>2, <2>3, JtagLength
<1>. HIDE DEF m
<1>5. n \in Nat /\ n > 0 /\ n <= JHeld(rx_out, rx_in) /\ n <= jcount
  <2>1. jcount \in Nat /\ jcount > 0 /\ JHeld(rx_out, rx_in) \in Nat
    BY <1>1, JtagHeldIs DEF JtagInv, JtagTypeOK, ReadView
  <2>. QED BY <1>4, <2>1 DEF Piece
<1>. HIDE DEF n
<1>. DEFINE h == JHeld(rx_out, rx_in)
            all == JContents(jrx_buf, rx_out, rx_in)
<1>6. all \in JStrings /\ Len(all) = h /\ jaccepted = all
  BY JtagContentsIs DEF JtagInv, JtagTypeOK, JtagRingsHold
<1>7. JContents(jrx_buf, out, rx_in) = SubSeq(all, n + 1, h) /\ out \in JIndices
  BY <1>5, JtagTakes DEF JtagInv, JtagTypeOK
<1>. HIDE DEF h, all, out
<1>8. jcount \in Nat /\ done \in Nat
  BY DEF JtagInv, JtagTypeOK
<1>9. JtagTypeOK'
  BY <1>2, <1>3, <1>5, <1>7, <1>8 DEF JtagInv, JtagTypeOK
<1>10. JtagRingsHold'
  <2>1. jaccepted' = JContents(jrx_buf', rx_out', rx_in')
    BY <1>2, <1>3, <1>6, <1>7
  <2>2. jqueued' = JContents(jtx_buf', tx_out', tx_in')
    BY <1>2, <1>3 DEF JtagInv, JtagRingsHold
  <2>. QED BY <2>1, <2>2 DEF JtagRingsHold
<1>11. ReadView' /\ WriteView'
  BY <1>2, <1>5, <1>8 DEF ReadView, WriteView
<1>12. JtagFits'
  BY <1>3 DEF JtagInv, JtagFits
<1>13. RxOpen'
  BY <1>2, <1>3, <1>5, <1>8 DEF JtagInv, RxOpen
<1>14. TxOpen'
  BY <1>1, <1>2, <1>3 DEF JtagInv, TxOpen
<1>. QED BY <1>9, <1>10, <1>11, <1>12, <1>13, <1>14 DEF JtagInv

LEMMA JtagWriteCopies ==
  ASSUME JtagInv, JWriteCopy, jisr = "none", UNCHANGED <<jDevice, jRx, jTx, jIsr, jarrivals>>
  PROVE  JtagInv'
<1>. DEFINE n == Piece(Room)
            v == [i \in 1 .. n |-> (jwritten + i - 1) % JLabels]
<1>1. jcall = "writeCopy"
  BY DEF JWriteCopy
<1>2. /\ jtx_buf' = [i \in DOMAIN jtx_buf |->
                       IF i \in tx_in .. tx_in + n - 1 THEN (jwritten + i - tx_in) % JLabels ELSE jtx_buf[i]]
      /\ tx_in' = (tx_in + n) % JBufLen
      /\ jqueued' = jqueued \o v
      /\ jwritten' = jwritten + n
      /\ jcount' = jcount - n /\ done' = done + n
      /\ jcall' = IF n = 0 \/ jcount = n THEN "writeKick" ELSE "writeLook"
      /\ UNCHANGED <<ien, rx_out, seen, jaccepted>>
  BY DEF JWriteCopy
<1>3. /\ UNCHANGED <<rfifo, wfifo, pause_irq, rx_in, jrx_buf, tx_out, jisr, control, ravail, jarrivals>>
  BY DEF jDevice, jRx, jTx, jIsr
<1>4. Room \in Nat /\ tx_in + Room <= JBufLen /\ JHeld(tx_out, tx_in) + Room <= JBufLen - 1
  <2>1. JHeld(tx_out, tx_in) <= JHeld(seen, tx_in)
    BY <1>1 DEF JtagInv, WriteView
  <2>2. /\ JHeld(tx_out, tx_in) \in Nat /\ JHeld(seen, tx_in) \in Nat
        /\ seen <= tx_in => JHeld(seen, tx_in) = tx_in - seen
        /\ ~(seen <= tx_in) => JHeld(seen, tx_in) = (tx_in + JBufLen) - seen
    BY JtagHeldIs DEF JtagInv, JtagTypeOK
  <2>3. seen \in Nat /\ seen < JBufLen /\ tx_in \in Nat /\ tx_in < JBufLen
    BY JtagLength DEF JtagInv, JtagTypeOK, JIndices
  <2>4. CASE tx_in < seen
    BY <2>1, <2>2, <2>3, <2>4, JtagLength DEF Room
  <2>5. CASE ~(tx_in < seen)
    BY <2>1, <2>2, <2>3, <2>5, JtagLength DEF Room
  <2>. QED BY <2>4, <2>5
<1>5. jcount \in Nat /\ done \in Nat /\ jwritten \in Nat /\ tx_in \in Nat /\ tx_in < JBufLen
  BY JtagLength DEF JtagInv, JtagTypeOK, JIndices
<1>6. n \in Nat /\ n <= jcount /\ n <= Room
  BY <1>4, <1>5 DEF Piece
<1>7. tx_in + n <= JBufLen /\ JHeld(tx_out, tx_in) + n <= JBufLen - 1
  <2>1. JHeld(tx_out, tx_in) \in Nat
    BY JtagHeldIs DEF JtagInv, JtagTypeOK
  <2>. QED BY <1>4, <1>5, <1>6, <2>1, JtagLength
<1>. HIDE DEF n
<1>8. v \in JStrings /\ Len(v) = n
  <2>1. \A i \in 1 .. n : (jwritten + i - 1) % JLabels \in JChar
    BY <1>5, <1>6, JtagLength DEF JChar
  <2>. QED BY <1>6, <2>1 DEF JStrings
<1>9. jtx_buf' = RingWith(JBufLen, jtx_buf, tx_in, v)
  <2>1. DOMAIN jtx_buf = 0 .. JBufLen - 1
    BY DEF JtagInv, JtagTypeOK, JBuffers, JIndices
  <2>2. ASSUME NEW j \in 0 .. JBufLen - 1
        PROVE  (IF j \in tx_in .. tx_in + n - 1 THEN (jwritten + j - tx_in) % JLabels ELSE jtx_buf[j])
                 = IF tx_in <= j /\ j < tx_in + n THEN v[(j - tx_in) + 1] ELSE jtx_buf[j]
    <3>1. CASE tx_in <= j /\ j < tx_in + n
      <4>1. (j - tx_in) + 1 \in 1 .. n
        BY <1>5, <1>6, <3>1, JtagLength
      <4>2. v[(j - tx_in) + 1] = (jwritten + ((j - tx_in) + 1) - 1) % JLabels
        BY <4>1
      <4>3. jwritten + ((j - tx_in) + 1) - 1 = jwritten + j - tx_in
        BY <1>5, JtagLength
      <4>4. j \in tx_in .. tx_in + n - 1
        BY <1>5, <1>6, <3>1, JtagLength
      <4>. QED BY <3>1, <4>2, <4>3, <4>4
    <3>2. CASE ~(tx_in <= j /\ j < tx_in + n)
      <4>1. ~(j \in tx_in .. tx_in + n - 1)
        BY <1>5, <1>6, <3>2, JtagLength
      <4>. QED BY <3>2, <4>1
    <3>. QED BY <3>1, <3>2
  <2>. QED BY <1>2, <1>8, <2>1, <2>2 DEF RingWith
<1>. HIDE DEF v
<1>10. /\ JContents(RingWith(JBufLen, jtx_buf, tx_in, v), tx_out, (tx_in + Len(v)) % JBufLen)
            = JContents(jtx_buf, tx_out, tx_in) \o v
       /\ (tx_in + Len(v)) % JBufLen \in JIndices
       /\ RingWith(JBufLen, jtx_buf, tx_in, v) \in JBuffers
  <2>1. tx_in + Len(v) <= JBufLen /\ JHeld(tx_out, tx_in) + Len(v) <= JBufLen - 1
    BY <1>7, <1>8
  <2>. QED BY <1>8, <2>1, JtagPuts DEF JtagInv, JtagTypeOK
<1>11. JtagTypeOK'
  <2>1. tx_in' \in JIndices /\ jtx_buf' \in JBuffers
    BY <1>2, <1>8, <1>9, <1>10
  <2>2. jwritten' \in Nat /\ jcount' \in Nat /\ done' \in Nat
    BY <1>2, <1>5, <1>6
  <2>. QED BY <1>2, <1>3, <2>1, <2>2 DEF JtagInv, JtagTypeOK
<1>12. JtagRingsHold'
  <2>1. jqueued' = JContents(jtx_buf', tx_out', tx_in')
    BY <1>2, <1>3, <1>8, <1>9, <1>10 DEF JtagInv, JtagRingsHold
  <2>2. jaccepted' = JContents(jrx_buf', rx_out', rx_in')
    BY <1>2, <1>3 DEF JtagInv, JtagRingsHold
  <2>. QED BY <2>1, <2>2 DEF JtagRingsHold
<1>13. ReadView' /\ WriteView' /\ TxOpen'
  BY <1>2 DEF ReadView, WriteView, TxOpen
<1>14. JtagFits' /\ RxOpen'
  BY <1>1, <1>2, <1>3 DEF JtagInv, JtagFits, RxOpen
<1>. QED BY <1>11, <1>12, <1>13, <1>14 DEF JtagInv

\* The others look, wait, open an interrupt or return.
LEMMA JtagThreadStep ==
  ASSUME JtagInv, JThread(JThreadStep)
  PROVE  JtagInv'
<1>1. jisr = "none" /\ UNCHANGED <<jDevice, jRx, jTx, jIsr, jarrivals>>
  BY DEF JThread
<1>2. UNCHANGED <<rfifo, pause_irq, rx_in, tx_out, jisr, ravail>>
  BY <1>1 DEF jDevice, jRx, jTx, jIsr
<1>3. /\ rx_in \in JIndices /\ tx_out \in JIndices /\ seen \in JIndices /\ 0 \in JIndices
      /\ jcount \in Nat /\ done \in Nat
  BY JtagLength DEF JtagInv, JtagTypeOK, JIndices
<1>4. CASE JReadLook
  <2>1. UNCHANGED <<rx_out, tx_in, jtx_buf, jaccepted, jqueued, jwritten, jcount, done, ien>>
    BY <1>4 DEF JReadLook
  <2>2. JHeld(rx_out, rx_in) \in Nat
    BY JtagHeldIs DEF JtagInv, JtagTypeOK
  <2>3. ReadView' /\ WriteView'
    BY <1>2, <1>4, <2>2 DEF JReadLook, JtagInv, ReadView, WriteView
  <2>4. RxOpen' /\ TxOpen'
    BY <1>1, <1>2, <1>3, <1>4 DEF JReadLook, JtagInv, RxOpen, TxOpen
  <2>. QED BY <1>1, <1>3, <1>4, <2>1, <2>3, <2>4, JtagThreadQuiet DEF JReadLook
<1>5. CASE JReadCopy
  BY <1>1, <1>5, JtagReadCopies
<1>6. CASE JReadWait
  <2>1. ReadView' /\ WriteView' /\ RxOpen' /\ TxOpen'
    BY <1>1, <1>2, <1>6 DEF JReadWait, JtagInv, ReadView, WriteView, RxOpen, TxOpen
  <2>. QED BY <1>1, <1>3, <1>6, <2>1, JtagThreadQuiet DEF JReadWait
<1>7. CASE JReadOpen
  <2>1. ReadView' /\ WriteView' /\ RxOpen' /\ TxOpen'
    BY <1>1, <1>2, <1>7 DEF JReadOpen, JReturn, JtagInv, ReadView, WriteView, RxOpen, TxOpen
  <2>. QED BY <1>1, <1>3, <1>7, <2>1, JtagThreadQuiet DEF JReadOpen, JReturn
<1>8. CASE JWriteLook
  <2>1. JHeld(tx_out, tx_in) \in Nat
    BY JtagHeldIs DEF JtagInv, JtagTypeOK
  <2>2. ReadView' /\ WriteView' /\ RxOpen' /\ TxOpen'
    BY <1>1, <1>2, <1>8, <2>1 DEF JWriteLook, JtagInv, ReadView, WriteView, RxOpen, TxOpen
  <2>. QED BY <1>1, <1>3, <1>8, <2>2, JtagThreadQuiet DEF JWriteLook
<1>9. CASE JWriteCopy
  BY <1>1, <1>9, JtagWriteCopies
<1>10. CASE JWriteKick
  <2>1. ReadView' /\ WriteView' /\ RxOpen' /\ TxOpen'
    BY <1>1, <1>2, <1>10 DEF JWriteKick, JtagInv, ReadView, WriteView, RxOpen, TxOpen
  <2>. QED BY <1>1, <1>3, <1>10, <2>1, JtagThreadQuiet DEF JWriteKick
<1>11. CASE JWriteWait
  <2>1. ReadView' /\ WriteView' /\ RxOpen' /\ TxOpen'
    BY <1>1, <1>2, <1>11 DEF JWriteWait, JtagInv, ReadView, WriteView, RxOpen, TxOpen
  <2>. QED BY <1>1, <1>3, <1>11, <2>1, JtagThreadQuiet DEF JWriteWait
<1>12. CASE JClose
  <2>1. ReadView' /\ WriteView' /\ RxOpen' /\ TxOpen'
    BY <1>1, <1>2, <1>12 DEF JClose, JtagInv, ReadView, WriteView, RxOpen, TxOpen
  <2>. QED BY <1>1, <1>3, <1>12, <2>1, JtagThreadQuiet DEF JClose
<1>13. CASE JReturned
  <2>1. ReadView' /\ WriteView' /\ RxOpen' /\ TxOpen'
    BY <1>1, <1>2, <1>13 DEF JReturned, JReturn, JtagInv, ReadView, WriteView, RxOpen, TxOpen
  <2>. QED BY <1>1, <1>3, <1>13, <2>1, JtagThreadQuiet DEF JReturned, JReturn
<1>. QED
  BY <1>4, <1>5, <1>6, <1>7, <1>8, <1>9, <1>10, <1>11, <1>12, <1>13 DEF JThread, JThreadStep

LEMMA JtagThreadCall ==
  ASSUME JtagInv, JThread(JThreadCall)
  PROVE  JtagInv'
<1>1. jisr = "none" /\ UNCHANGED <<jDevice, jRx, jTx, jIsr, jarrivals>>
  BY DEF JThread
<1>2. UNCHANGED <<rfifo, pause_irq, rx_in, tx_out, jisr, ravail>>
  BY <1>1 DEF jDevice, jRx, jTx, jIsr
<1>3. seen \in JIndices /\ jcount \in Nat /\ done \in Nat
  BY DEF JtagInv, JtagTypeOK
<1>4. ASSUME NEW name \in {"readLook", "writeLook", "close"}, NEW m \in Nat, NEW flag,
             JCall(name, m, flag), name # "close" => m > 0
      PROVE  JtagInv'
  <2>1. ReadView' /\ WriteView' /\ RxOpen' /\ TxOpen'
    BY <1>1, <1>2, <1>4 DEF JCall, JtagInv, ReadView, WriteView, RxOpen, TxOpen
  <2>. QED BY <1>1, <1>3, <1>4, <2>1, JtagThreadQuiet DEF JCall
<1>5. ASSUME NEW t, SetTimeout(t) PROVE JtagInv'
  <2>1. UNCHANGED <<jcall, jcount, done, seen>>
    BY <1>5 DEF SetTimeout, jLocals
  <2>2. ReadView' /\ WriteView' /\ RxOpen' /\ TxOpen'
    BY <1>1, <1>2, <1>5, <2>1 DEF SetTimeout, JtagInv, ReadView, WriteView, JHeld, RxOpen, TxOpen
  <2>. QED BY <1>1, <1>3, <1>5, <2>1, <2>2, JtagThreadQuiet DEF SetTimeout
<1>6. \A m \in JLengths : m \in Nat /\ m > 0
  BY JtagAssumption
<1>. QED BY <1>4, <1>5, <1>6 DEF JThread, JThreadCall

LEMMA JtagInitially == JtagInit => JtagInv
<1>. SUFFICES ASSUME JtagInit PROVE JtagInv
  OBVIOUS
<1>1. 0 \in JIndices
  BY JtagLength DEF JIndices
<1>2. JHeld(0, 0) = 0
  BY <1>1, JtagHeldIs
<1>3. \A b : JContents(b, 0, 0) = << >>
  BY <1>2 DEF JContents
<1>4. JtagTypeOK
  <2>1. [i \in 0 .. JBufLen - 1 |-> 0] \in JBuffers
    BY DEF JBuffers, JIndices, JChar
  <2>2. << >> \in JStrings /\ control.space \in Nat
    BY DEF JStrings, JtagInit
  <2>. QED BY <1>1, <2>1, <2>2 DEF JtagInit, JStateInstance, JtagTypeOK
<1>5. JtagRingsHold
  BY <1>3 DEF JtagInit, JStateInstance, JtagRingsHold
<1>6. ReadView /\ WriteView /\ RxOpen /\ TxOpen
  BY DEF JtagInit, JStateInstance, ReadView, WriteView, RxOpen, TxOpen
<1>7. JtagFits
  <2>1. Len(wfifo) = 0
    BY DEF JtagInit
  <2>. QED BY <2>1, JtagLength DEF JtagInit, JtagFits
<1>. QED BY <1>4, <1>5, <1>6, <1>7 DEF JtagInv

LEMMA JtagSteps == JtagInv /\ [JtagNext]_jtagVars => JtagInv'
<1>. SUFFICES ASSUME JtagInv, [JtagNext]_jtagVars PROVE JtagInv'
  OBVIOUS
<1>1. CASE HostSends \/ HostPauses \/ HostTakesOne \/ HostTimer
  BY <1>1, JtagHost
<1>2. CASE JHandler
  BY <1>2, JtagIsrControl, JtagIsrReceive, JtagIsrReceiveOver, JtagIsrTransmit DEF JHandler
<1>3. CASE JThread(JThreadStep)
  BY <1>3, JtagThreadStep
<1>4. CASE JThread(JThreadCall)
  BY <1>4, JtagThreadCall
<1>5. CASE UNCHANGED jtagVars
  <2>1. UNCHANGED <<rfifo, wfifo, pause_irq, ien, jRx, rx_out, jTx, tx_in, jtx_buf, jIsr, jLocals, jHist>>
    BY <1>5 DEF jtagVars, jDevice
  <2>2. rfifo \in JStrings /\ wfifo \in JStrings /\ Len(wfifo') <= Len(wfifo) /\ jarrivals' \in Nat
    BY <2>1, LenProperties DEF JtagInv, JtagTypeOK, JStrings, jHist
  <2>3. pause_irq' => rfifo' # << >>
    BY <2>1 DEF JtagInv, RxOpen
  <2>. QED BY <2>1, <2>2, <2>3, JtagDeviceStep DEF jHist
<1>. QED BY <1>1, <1>2, <1>3, <1>4, <1>5 DEF JtagNext

\* The rings of the JTAG UART hold what was put in and not taken out, in
\* order, although each side works on a snapshot of the other's index.
THEOREM JtagKeepsRings == JtagSpec => []JtagRingsHold
<1>1. JtagInv => JtagRingsHold
  BY DEF JtagInv
<1>. QED BY <1>1, JtagInitially, JtagSteps, PTL DEF JtagSpec

\* An interrupt of the JTAG UART is closed only while something will open it
\* again.
THEOREM JtagReopens == JtagSpec => []JtagInterruptsReopen
<1>1. JtagInv => JtagInterruptsReopen
  BY DEF JtagInv, RxOpen, TxOpen, JtagInterruptsReopen
<1>. QED BY <1>1, JtagInitially, JtagSteps, PTL DEF JtagSpec

\* The handler never sends more than the device has room for.
THEOREM JtagNeverOverruns == JtagSpec => [](Len(wfifo) <= JDepth)
<1>1. JtagInv => Len(wfifo) <= JDepth
  BY DEF JtagInv, JtagFits
<1>. QED BY <1>1, JtagInitially, JtagSteps, PTL DEF JtagSpec

-----------------------------------------------------------------------------
(* The polled drivers *)

PChars == [n : Nat, bad : BOOLEAN, late : BOOLEAN]
Pairs  == [read : Nat, write : Nat]
Reading == doing \in {"read", "clear", "fetch"}

PolledTypeOK ==
  /\ build \in {"uart", "jtag"}
  /\ received \in Seq(PChars) /\ taken \in Seq(PChars) /\ arrived \in Nat
  /\ flagged \in BOOLEAN /\ noblock \in BOOLEAN
  /\ seenStatus \in [rrdy : BOOLEAN, error : BOOLEAN]
  /\ doing \in {"none", "read", "clear", "fetch", "put"}
  /\ left \in Int /\ wanted \in Nat /\ left <= wanted
  /\ sent \in Seq(Nat) /\ told \in Pairs

\* What was sent is what the program was told and what the call has sent so far.
SentSoFar ==
  /\ sent = [i \in 1 .. Len(sent) |-> i]
  /\ Len(sent) = told.write + (IF doing = "put" THEN wanted - left ELSE 0)

\* The same for what was read, of which the UART's call ends with the first.
TakenSoFar ==
  /\ Len(taken) = told.read + (IF doing = "read" THEN wanted - left ELSE 0)
  /\ doing = "read" => left >= 0 /\ (build = "uart" => left = wanted)
  /\ doing \in {"clear", "fetch"} => build = "uart" /\ left = wanted

\* Characters come in order, and the JTAG UART loses none.
Rising(s) == \A i, j \in 1 .. Len(s) : i < j => s[i].n < s[j].n
InOrderOf ==
  /\ Rising(taken) /\ Rising(received)
  /\ \A i \in 1 .. Len(taken), j \in 1 .. Len(received) : taken[i].n < received[j].n
  /\ \A i \in 1 .. Len(taken) : taken[i].n <= arrived
  /\ \A i \in 1 .. Len(received) : received[i].n <= arrived
  /\ build = "jtag" => Len(taken) + Len(received) = arrived

\* Until the driver looks, the flag tells of a damaged character; then what it saw
\* does, and it finds a character if it saw one.
DamageSeen ==
  /\ \A i \in 1 .. Len(taken) : taken[i].bad => taken[i].late
  /\ \A i \in 1 .. Len(received) : received[i].bad =>
       /\ build = "uart"
       /\ ~received[i].late => IF doing \in {"clear", "fetch"}
                               THEN seenStatus.rrdy /\ seenStatus.error ELSE flagged
  /\ doing \in {"clear", "fetch"} /\ seenStatus.rrdy => received # << >>
  /\ doing = "fetch" => seenStatus.rrdy

BaudTold ==
  /\ termios \in Terms
  /\ divisor = DivisorOf(termios) /\ termios.ispeed = termios.ospeed

PolledInv ==
  PolledTypeOK /\ SentSoFar /\ TakenSoFar /\ InOrderOf /\ DamageSeen /\ BaudTold

LEMMA PolledStarts == PolledInit => PolledInv
<1>. SUFFICES ASSUME PolledInit PROVE PolledInv
  OBVIOUS
<1>0. /\ build \in {"uart", "jtag"} /\ received = << >> /\ taken = << >> /\ sent = << >>
      /\ doing = "none" /\ left = 0 /\ wanted = 0 /\ arrived = 0
      /\ told = [read |-> 0, write |-> 0]
      /\ termios \in Terms /\ termios.ispeed = termios.ospeed /\ divisor = DivisorOf(termios)
  BY DEF PolledInit
<1>1. PolledTypeOK
  <2>1. flagged \in BOOLEAN /\ noblock \in BOOLEAN
    BY Zenon DEF PolledInit
  <2>2. seenStatus \in [rrdy : BOOLEAN, error : BOOLEAN]
    BY DEF PolledInit, NotLooked
  <2>3. received \in Seq(PChars) /\ taken \in Seq(PChars) /\ sent \in Seq(Nat)
    BY <1>0
  <2>4. told \in Pairs
    BY <1>0 DEF Pairs
  <2>. QED BY <1>0, <2>1, <2>2, <2>3, <2>4 DEF PolledTypeOK
<1>2. SentSoFar /\ TakenSoFar /\ BaudTold
  <2>1. Len(sent) = 0 /\ Len(taken) = 0 /\ told.read = 0 /\ told.write = 0
    BY <1>0
  <2>2. sent = [i \in 1 .. 0 |-> i]
    BY <1>0
  <2>. QED BY <1>0, <2>1, <2>2 DEF SentSoFar, TakenSoFar, BaudTold
<1>3. InOrderOf /\ DamageSeen
  <2>1. Len(received) = 0 /\ Len(taken) = 0 /\ (1 .. 0) = {}
    BY <1>0
  <2>. QED BY <1>0, <2>1 DEF InOrderOf, DamageSeen, Rising
<1>. QED BY <1>1, <1>2, <1>3 DEF PolledInv

LEMMA PolledReceives ==
  ASSUME PolledInv, NEW bad \in BOOLEAN, Received(bad)
  PROVE  PolledInv'
<1>. DEFINE c == [n |-> arrived + 1, bad |-> bad, late |-> doing \in {"clear", "fetch"}]
<1>1. /\ bad => build = "uart"
      /\ received' = IF build = "uart" THEN <<c>> ELSE Append(received, c)
      /\ arrived' = arrived + 1
      /\ flagged' = (flagged \/ bad)
      /\ UNCHANGED <<build, room, polledCallVars, baudVars>>
  BY DEF Received
<1>2. c \in PChars /\ c.n = arrived + 1 /\ c.bad = bad /\ c.late = (doing \in {"clear", "fetch"})
  BY DEF PolledInv, PolledTypeOK, PChars
<1>. HIDE DEF c
<1>3. /\ received' \in Seq(PChars) /\ received' # << >>
      /\ Len(received') = IF build = "uart" THEN 1 ELSE Len(received) + 1
      /\ \A i \in 1 .. Len(received') :
           \/ received'[i] = c /\ i = Len(received')
           \/ build = "jtag" /\ i \in 1 .. Len(received) /\ received'[i] = received[i]
  <2>1. received \in Seq(PChars) /\ build \in {"uart", "jtag"} /\ Len(received) \in Nat
    BY DEF PolledInv, PolledTypeOK
  <2>2. CASE build = "uart"
    <3>1. <<c>> \in Seq(PChars) /\ Len(<<c>>) = 1 /\ <<c>>[1] = c /\ <<c>> # << >>
      BY <1>2
    <3>. QED BY <1>1, <2>1, <2>2, <3>1
  <2>3. CASE build = "jtag"
    <3>1. received' = Append(received, c)
      BY <1>1, <2>3
    <3>2. /\ received' \in Seq(PChars) /\ Len(received') = Len(received) + 1
          /\ \A i \in 1 .. Len(received) : received'[i] = received[i]
          /\ received'[Len(received) + 1] = c
      BY <1>2, <2>1, <3>1
    <3>. QED BY <2>1, <2>3, <3>2
  <2>. QED BY <2>1, <2>2, <2>3
<1>8. /\ \A i \in 1 .. Len(received) : received[i].n <= arrived /\ received[i].n \in Nat
      /\ \A i \in 1 .. Len(taken) : taken[i].n <= arrived /\ taken[i].n \in Nat
      /\ arrived \in Nat
  <2>1. received \in Seq(PChars) /\ taken \in Seq(PChars) /\ arrived \in Nat
    BY DEF PolledInv, PolledTypeOK
  <2>2. \A x \in PChars : x.n \in Nat
    BY DEF PChars
  <2>3. /\ \A i \in 1 .. Len(received) : received[i].n \in Nat
        /\ \A i \in 1 .. Len(taken) : taken[i].n \in Nat
    BY <2>1, <2>2
  <2>. QED BY <2>1, <2>3 DEF PolledInv, InOrderOf
<1>4. PolledTypeOK'
  BY <1>1, <1>3 DEF PolledInv, PolledTypeOK, polledCallVars
<1>5. SentSoFar' /\ TakenSoFar' /\ BaudTold'
  BY <1>1 DEF PolledInv, SentSoFar, TakenSoFar, BaudTold, DivisorOf, polledCallVars, baudVars
<1>6. InOrderOf'
  <2>0. arrived \in Nat /\ Len(received) \in Nat /\ Rising(received) /\ Rising(taken) /\ taken' = taken
    BY <1>1 DEF PolledInv, PolledTypeOK, InOrderOf, polledCallVars
  <2>1. Rising(received')
    <3>1. SUFFICES ASSUME NEW i \in 1 .. Len(received'), NEW j \in 1 .. Len(received'), i < j
                   PROVE  received'[i].n < received'[j].n
      BY DEF Rising
    <3>2. build = "jtag" /\ i \in 1 .. Len(received) /\ received'[i] = received[i]
      BY <1>3, <3>1
    <3>3. CASE received'[j] = c
      BY <1>2, <1>8, <2>0, <3>2, <3>3
    <3>4. CASE j \in 1 .. Len(received) /\ received'[j] = received[j]
      BY <2>0, <3>1, <3>2, <3>4 DEF Rising
    <3>. QED BY <1>3, <3>3, <3>4
  <2>2. /\ Rising(taken')
        /\ \A i \in 1 .. Len(taken') : taken'[i].n <= arrived'
        /\ \A i \in 1 .. Len(received') : received'[i].n <= arrived'
        /\ \A i \in 1 .. Len(taken'), j \in 1 .. Len(received') : taken'[i].n < received'[j].n
    <3>1. \A i \in 1 .. Len(received') :
            received'[i].n = arrived + 1 \/ (\E j \in 1 .. Len(received) : received'[i] = received[j])
      BY <1>2, <1>3
    <3>2. \A i \in 1 .. Len(taken), j \in 1 .. Len(received) : taken[i].n < received[j].n
      BY DEF PolledInv, InOrderOf
    <3>3. arrived' = arrived + 1 /\ Len(taken') = Len(taken)
      BY <1>1, <2>0
    <3>4. \A i \in 1 .. Len(taken') : taken'[i].n <= arrived'
      BY <1>8, <2>0, <3>3
    <3>5. \A i \in 1 .. Len(received') : received'[i].n <= arrived'
      <4>1. ASSUME NEW i \in 1 .. Len(received') PROVE received'[i].n <= arrived'
        <5>1. CASE received'[i].n = arrived + 1
          BY <1>8, <3>3, <5>1
        <5>2. ASSUME NEW j \in 1 .. Len(received), received'[i] = received[j]
              PROVE  received'[i].n <= arrived'
          BY <1>8, <3>3, <5>2
        <5>. QED BY <3>1, <5>1, <5>2
      <4>. QED BY <4>1
    <3>6. \A i \in 1 .. Len(taken'), j \in 1 .. Len(received') : taken'[i].n < received'[j].n
      <4>1. ASSUME NEW i \in 1 .. Len(taken), NEW j \in 1 .. Len(received')
            PROVE  taken[i].n < received'[j].n
        <5>1. CASE received'[j].n = arrived + 1
          BY <1>8, <5>1
        <5>2. ASSUME NEW k \in 1 .. Len(received), received'[j] = received[k]
              PROVE  taken[i].n < received'[j].n
          BY <3>2, <5>2
        <5>. QED BY <3>1, <5>1, <5>2
      <4>. QED BY <2>0, <4>1
    <3>. QED BY <2>0, <3>4, <3>5, <3>6
  <2>3. build' = "jtag" => Len(taken') + Len(received') = arrived'
    <3>1. build' = build /\ taken' = taken /\ arrived' = arrived + 1
      BY <1>1 DEF polledCallVars
    <3>2. /\ build = "jtag" => Len(taken) + Len(received) = arrived
          /\ received \in Seq(PChars) /\ taken \in Seq(PChars)
      BY DEF PolledInv, PolledTypeOK, InOrderOf
    <3>3. Len(received) \in Nat /\ Len(taken) \in Nat
      BY <3>2
    <3>4. build = "jtag" => Len(received') = Len(received) + 1
      BY <1>3
    <3>5. Len(taken') = Len(taken)
      BY <3>1
    <3>6. CASE build = "jtag"
      <4>1. Len(taken) + (Len(received) + 1) = arrived + 1
        BY <3>2, <3>3, <3>6
      <4>. QED BY <3>1, <3>4, <3>5, <3>6, <4>1
    <3>. QED BY <3>1, <3>6
  <2>. QED BY <2>1, <2>2, <2>3 DEF InOrderOf
<1>7. DamageSeen'
  <2>1. ASSUME NEW i \in 1 .. Len(received'), received'[i].bad
        PROVE  /\ build' = "uart"
               /\ ~received'[i].late => IF doing' \in {"clear", "fetch"}
                    THEN seenStatus'.rrdy /\ seenStatus'.error ELSE flagged'
    BY <1>1, <1>2, <1>3, <2>1 DEF PolledInv, PolledTypeOK, DamageSeen, polledCallVars
  <2>. QED BY <1>1, <1>3, <2>1 DEF PolledInv, DamageSeen, polledCallVars
<1>. QED BY <1>4, <1>5, <1>6, <1>7 DEF PolledInv

\* Steps of the call that leave the device and the line settings alone.
LEMMA PolledCalls ==
  ASSUME PolledInv, NEW kind \in {"read", "put"}, NEW n \in CallLengths, NEW nb \in BOOLEAN,
         CallPolled(kind, n, nb)
  PROVE  PolledInv'
<1>1. n \in Nat
  BY PolledAssumption
<1>2. /\ doing = "none" /\ doing' = kind /\ left' = n /\ wanted' = n /\ noblock' = nb
      /\ UNCHANGED <<build, received, flagged, room, arrived, seenStatus, taken, sent, told,
                     termios, divisor>>
  BY DEF CallPolled, lineVars, baudVars
<1>3. PolledTypeOK'
  BY <1>1, <1>2 DEF PolledInv, PolledTypeOK
<1>4. SentSoFar' /\ TakenSoFar'
  BY <1>1, <1>2 DEF PolledInv, PolledTypeOK, Pairs, SentSoFar, TakenSoFar
<1>5. InOrderOf' /\ DamageSeen' /\ BaudTold'
  BY <1>2 DEF PolledInv, InOrderOf, Rising, DamageSeen, BaudTold, DivisorOf
<1>. QED BY <1>3, <1>4, <1>5 DEF PolledInv

\* The first of the received characters is taken.
LEMMA CharTaken ==
  ASSUME PolledInv, received # << >>, Take
  PROVE  /\ taken' \in Seq(PChars) /\ received' \in Seq(PChars)
         /\ Len(taken') = Len(taken) + 1 /\ Len(received') = Len(received) - 1
         /\ \A i \in 1 .. Len(taken) : taken'[i] = taken[i]
         /\ taken'[Len(taken) + 1] = received[1]
         /\ \A i \in 1 .. Len(received') : received'[i] = received[i + 1]
         /\ Len(taken) \in Nat /\ Len(received) \in Nat \ {0}
<1>1. received \in Seq(PChars) /\ taken \in Seq(PChars)
  BY DEF PolledInv, PolledTypeOK
<1>2. Head(received) = received[1] /\ received[1] \in PChars /\ Len(received) \in Nat \ {0}
  BY <1>1
<1>3. taken' = Append(taken, received[1]) /\ received' = Tail(received)
  BY <1>2 DEF Take
<1>4. /\ Tail(received) \in Seq(PChars) /\ Len(Tail(received)) = Len(received) - 1
      /\ \A i \in 1 .. Len(received) - 1 : Tail(received)[i] = received[i + 1]
  BY <1>1, HeadTailProperties
<1>. QED BY <1>1, <1>2, <1>3, <1>4

LEMMA OrderTaken ==
  ASSUME PolledInv, received # << >>, Take, UNCHANGED <<arrived, build>>
  PROVE  InOrderOf'
<1>1. /\ Len(taken) \in Nat /\ Len(received) \in Nat \ {0}
      /\ Len(taken') = Len(taken) + 1 /\ Len(received') = Len(received) - 1
      /\ \A i \in 1 .. Len(taken) : taken'[i] = taken[i]
      /\ taken'[Len(taken) + 1] = received[1]
      /\ \A i \in 1 .. Len(received') : received'[i] = received[i + 1]
  BY CharTaken
<1>2. InOrderOf
  BY DEF PolledInv
<1>3. \A i \in 1 .. Len(taken') :
        IF i = Len(taken) + 1 THEN taken'[i] = received[1]
                              ELSE i \in 1 .. Len(taken) /\ taken'[i] = taken[i]
  BY <1>1
<1>4. \A i \in 1 .. Len(received') :
        i + 1 \in 1 .. Len(received) /\ 1 < i + 1 /\ received'[i] = received[i + 1]
  BY <1>1
<1>5. 1 \in 1 .. Len(received)
  BY <1>1
<1>6. Rising(taken')
  <2>1. SUFFICES ASSUME NEW i \in 1 .. Len(taken'), NEW j \in 1 .. Len(taken'), i < j
                 PROVE  taken'[i].n < taken'[j].n
    BY DEF Rising
  <2>2. i \in 1 .. Len(taken) /\ taken'[i] = taken[i]
    BY <1>1, <1>3, <2>1
  <2>3. CASE j = Len(taken) + 1
    <3>1. taken'[j] = received[1]
      BY <1>3, <2>3
    <3>. QED BY <1>2, <1>5, <2>2, <3>1 DEF InOrderOf
  <2>4. CASE j # Len(taken) + 1
    <3>1. j \in 1 .. Len(taken) /\ taken'[j] = taken[j]
      BY <1>3, <2>4
    <3>. QED BY <1>2, <2>1, <2>2, <3>1 DEF InOrderOf, Rising
  <2>. QED BY <2>3, <2>4
<1>7. Rising(received')
  <2>1. SUFFICES ASSUME NEW i \in 1 .. Len(received'), NEW j \in 1 .. Len(received'), i < j
                 PROVE  received'[i].n < received'[j].n
    BY DEF Rising
  <2>2. i + 1 < j + 1
    BY <1>1, <2>1
  <2>. QED BY <1>2, <1>4, <2>2 DEF InOrderOf, Rising
<1>8. \A i \in 1 .. Len(taken'), j \in 1 .. Len(received') : taken'[i].n < received'[j].n
  <2>1. SUFFICES ASSUME NEW i \in 1 .. Len(taken'), NEW j \in 1 .. Len(received')
                 PROVE  taken'[i].n < received'[j].n
    OBVIOUS
  <2>2. j + 1 \in 1 .. Len(received) /\ 1 < j + 1 /\ received'[j] = received[j + 1]
    BY <1>4
  <2>3. CASE i = Len(taken) + 1
    <3>1. taken'[i] = received[1]
      BY <1>3, <2>3
    <3>. QED BY <1>2, <1>5, <2>2, <3>1 DEF InOrderOf, Rising
  <2>4. CASE i # Len(taken) + 1
    <3>1. i \in 1 .. Len(taken) /\ taken'[i] = taken[i]
      BY <1>3, <2>4
    <3>. QED BY <1>2, <2>2, <3>1 DEF InOrderOf
  <2>. QED BY <2>3, <2>4
<1>9. \A i \in 1 .. Len(taken') : taken'[i].n <= arrived'
  <2>1. SUFFICES ASSUME NEW i \in 1 .. Len(taken') PROVE taken'[i].n <= arrived
    OBVIOUS
  <2>2. CASE i = Len(taken) + 1
    BY <1>2, <1>3, <1>5, <2>2 DEF InOrderOf
  <2>3. CASE i # Len(taken) + 1
    BY <1>2, <1>3, <2>3 DEF InOrderOf
  <2>. QED BY <2>2, <2>3
<1>10. \A i \in 1 .. Len(received') : received'[i].n <= arrived'
  BY <1>2, <1>4 DEF InOrderOf
<1>11. build' = "jtag" => Len(taken') + Len(received') = arrived'
  BY <1>1, <1>2 DEF InOrderOf
<1>. QED BY <1>6, <1>7, <1>8, <1>9, <1>10, <1>11 DEF InOrderOf

\* The UART's read looks at STATUS, ...
LEMMA PolledLooks ==
  ASSUME PolledInv, LookUart, UNCHANGED <<build, left, wanted, noblock, sent, baudVars>>
  PROVE  PolledInv'
<1>1. /\ build = "uart" /\ doing = "read" /\ doing' = "clear"
      /\ UNCHANGED <<build, left, wanted, noblock, sent, received, flagged, arrived, taken, told,
                     termios, divisor>>
  BY DEF LookUart, lineVars, baudVars
<1>2. /\ seenStatus' \in [rrdy : BOOLEAN, error : BOOLEAN]
      /\ seenStatus'.rrdy <=> received # << >>
      /\ seenStatus'.error <=> flagged
  BY DEF LookUart, PolledInv, PolledTypeOK
<1>3. PolledTypeOK'
  BY <1>1, <1>2 DEF PolledInv, PolledTypeOK
<1>6. SentSoFar' /\ InOrderOf' /\ BaudTold'
  BY <1>1 DEF PolledInv, SentSoFar, InOrderOf, Rising, BaudTold, DivisorOf
<1>4. TakenSoFar'
  BY <1>1 DEF PolledInv, PolledTypeOK, Pairs, TakenSoFar
<1>5. DamageSeen'
  <2>1. \A i \in 1 .. Len(received) : received[i].bad /\ ~received[i].late => flagged
    BY <1>1 DEF PolledInv, DamageSeen
  <2>2. \A i \in 1 .. Len(received) : received # << >>
    BY DEF PolledInv, PolledTypeOK
  <2>. QED BY <1>1, <1>2, <2>1, <2>2 DEF PolledInv, DamageSeen
<1>. QED BY <1>3, <1>4, <1>5, <1>6 DEF PolledInv

\* ... clears it, ...
LEMMA PolledClears ==
  ASSUME PolledInv, ClearUart, UNCHANGED <<build, left, wanted, noblock, sent, baudVars>>
  PROVE  PolledInv'
<1>1. /\ doing = "clear" /\ ~flagged' /\ flagged' \in BOOLEAN
      /\ UNCHANGED <<build, left, wanted, noblock, sent, received, arrived, taken,
                     termios, divisor>>
  BY DEF ClearUart, baudVars
<1>2. \/ seenStatus.rrdy /\ doing' = "fetch" /\ UNCHANGED <<seenStatus, told>>
      \/ ~seenStatus.rrdy /\ doing' \in {"none", "read"} /\ seenStatus' = NotLooked
  BY <1>1 DEF ClearUart, GiveUpOr, Done
<1>3. told' = told
  <2>1. told \in Pairs
    BY DEF PolledInv, PolledTypeOK
  <2>2. [told EXCEPT !["read"] = @ + 0] = told
    BY <2>1 DEF Pairs
  <2>. QED BY <2>2 DEF ClearUart, GiveUpOr, Done
<1>4. PolledTypeOK'
  <2>3. /\ seenStatus \in [rrdy : BOOLEAN, error : BOOLEAN]
        /\ NotLooked \in [rrdy : BOOLEAN, error : BOOLEAN]
    BY DEF PolledInv, PolledTypeOK, NotLooked
  <2>1. seenStatus' \in [rrdy : BOOLEAN, error : BOOLEAN]
    <3>1. seenStatus' = seenStatus \/ seenStatus' = NotLooked
      BY <1>2
    <3>2. CASE seenStatus' = seenStatus
      BY <2>3, <3>2
    <3>3. CASE seenStatus' = NotLooked
      BY <2>3, <3>3
    <3>. QED BY <3>1, <3>2, <3>3
  <2>2. doing' \in {"none", "read", "clear", "fetch", "put"}
    BY <1>2
  <2>. QED BY <1>1, <1>3, <2>1, <2>2 DEF PolledInv, PolledTypeOK
<1>5. InOrderOf' /\ BaudTold'
  BY <1>1 DEF PolledInv, InOrderOf, Rising, BaudTold, DivisorOf
<1>6. SentSoFar' /\ TakenSoFar'
  BY <1>1, <1>2, <1>3 DEF PolledInv, PolledTypeOK, SentSoFar, TakenSoFar, Pairs
<1>7. DamageSeen'
  <2>1. ~seenStatus.rrdy => \A i \in 1 .. Len(received) : received[i].bad => received[i].late
    BY <1>1 DEF PolledInv, DamageSeen
  <2>. QED BY <1>1, <1>2, <2>1 DEF PolledInv, DamageSeen, NotLooked
<1>. QED BY <1>4, <1>5, <1>6, <1>7 DEF PolledInv

\* ... and fetches the character, or drops it.
LEMMA PolledFetches ==
  ASSUME PolledInv, FetchUart, UNCHANGED <<build, left, wanted, noblock, sent, baudVars>>
  PROVE  PolledInv'
<1>1. /\ doing = "fetch" /\ seenStatus' = NotLooked
      /\ UNCHANGED <<build, left, wanted, noblock, sent, flagged, arrived, termios, divisor>>
  BY DEF FetchUart, baudVars
<1>2. /\ build = "uart" /\ left = wanted /\ left \in Nat /\ seenStatus.rrdy /\ received # << >>
      /\ PolledTypeOK /\ Len(taken) = told.read /\ Len(taken) \in Nat
      /\ told.read \in Nat /\ told.write \in Nat /\ told \in Pairs
  BY <1>1 DEF PolledInv, PolledTypeOK, TakenSoFar, DamageSeen, Pairs
<1>3. BaudTold'
  BY <1>1 DEF PolledInv, BaudTold, DivisorOf
<1>4. CASE seenStatus.error
  <2>1. received' = << >> /\ taken' = taken /\ doing' \in {"none", "read"}
    BY <1>4 DEF FetchUart, GiveUpOr, Done
  <2>2. told' = told
    <3>1. [told EXCEPT !["read"] = @ + 0] = told
      BY <1>2 DEF Pairs
    <3>. QED BY <1>4, <3>1 DEF FetchUart, GiveUpOr, Done
  <2>3. received' \in Seq(PChars) /\ Len(received') = 0 /\ (1 .. 0) = {}
    BY <2>1
  <2>4. PolledTypeOK'
    BY <1>1, <1>2, <2>1, <2>2, <2>3 DEF PolledTypeOK, NotLooked
  <2>5. SentSoFar' /\ TakenSoFar'
    BY <1>1, <1>2, <2>1, <2>2 DEF PolledInv, PolledTypeOK, SentSoFar, TakenSoFar
  <2>6. InOrderOf'
    BY <1>1, <1>2, <2>1, <2>3 DEF PolledInv, InOrderOf, Rising
  <2>7. DamageSeen'
    BY <1>1, <2>1, <2>3 DEF PolledInv, DamageSeen
  <2>. QED BY <1>3, <2>4, <2>5, <2>6, <2>7 DEF PolledInv
<1>5. CASE ~seenStatus.error
  <2>1. /\ Take /\ doing' = "none"
        /\ told' = [told EXCEPT !["read"] = @ + 1]
    BY <1>5 DEF FetchUart, Done
  <2>2. told' \in Pairs /\ told'.read = told.read + 1 /\ told'.write = told.write
    BY <1>2, <2>1 DEF Pairs
  <2>3. /\ taken' \in Seq(PChars) /\ received' \in Seq(PChars)
        /\ Len(taken') = Len(taken) + 1 /\ Len(received') = Len(received) - 1
        /\ \A i \in 1 .. Len(taken) : taken'[i] = taken[i]
        /\ taken'[Len(taken) + 1] = received[1]
        /\ \A i \in 1 .. Len(received') : received'[i] = received[i + 1]
        /\ Len(taken) \in Nat /\ Len(received) \in Nat \ {0}
    BY <1>2, <2>1, CharTaken
  <2>4. PolledTypeOK'
    BY <1>1, <1>2, <2>1, <2>2, <2>3 DEF PolledTypeOK, NotLooked
  <2>5. SentSoFar' /\ TakenSoFar'
    BY <1>1, <1>2, <2>1, <2>2, <2>3 DEF PolledInv, PolledTypeOK, SentSoFar, TakenSoFar
  <2>6. InOrderOf'
    BY <1>1, <1>2, <2>1, OrderTaken
  <2>7. DamageSeen'
    <3>1. \A i \in 1 .. Len(received) : received[i].bad => received[i].late /\ build = "uart"
      BY <1>1, <1>5 DEF PolledInv, DamageSeen
    <3>2. \A i \in 1 .. Len(taken') : taken'[i].bad => taken'[i].late
      <4>1. SUFFICES ASSUME NEW i \in 1 .. Len(taken') PROVE taken'[i].bad => taken'[i].late
        OBVIOUS
      <4>2. CASE i = Len(taken) + 1
        BY <2>3, <3>1, <4>2
      <4>3. CASE i # Len(taken) + 1
        <5>1. i \in 1 .. Len(taken) /\ taken'[i] = taken[i]
          BY <2>3, <4>3
        <5>. QED BY <5>1 DEF PolledInv, DamageSeen
      <4>. QED BY <4>2, <4>3
    <3>3. \A i \in 1 .. Len(received') : received'[i].bad => received'[i].late /\ build = "uart"
      <4>1. \A i \in 1 .. Len(received') : i + 1 \in 1 .. Len(received) /\ received'[i] = received[i + 1]
        BY <2>3
      <4>. QED BY <3>1, <4>1
    <3>. QED BY <1>1, <2>1, <3>2, <3>3 DEF DamageSeen
  <2>. QED BY <1>3, <2>4, <2>5, <2>6, <2>7 DEF PolledInv
<1>. QED BY <1>4, <1>5

\* The JTAG UART's read takes a character, or returns with what it has.
LEMMA PolledJtagReads ==
  ASSUME PolledInv, PollJtagRead
  PROVE  PolledInv'
<1>1. /\ build = "jtag" /\ doing = "read"
      /\ UNCHANGED <<build, flagged, arrived, wanted, noblock, seenStatus, sent, termios, divisor>>
  BY DEF PollJtagRead, baudVars
<1>2. /\ PolledTypeOK /\ Len(taken) = told.read + (wanted - left)
      /\ Len(taken) \in Nat /\ left \in Nat /\ wanted \in Nat /\ left <= wanted
      /\ told.read \in Nat /\ told.write \in Nat /\ told \in Pairs
  BY <1>1 DEF PolledInv, PolledTypeOK, TakenSoFar, Pairs
<1>3. BaudTold'
  BY <1>1 DEF PolledInv, BaudTold, DivisorOf
<1>4. CASE received # << >> /\ left > 0
  <2>1. /\ Take /\ left' = left - 1
        /\ \/ left' = 0 /\ doing' = "none" /\ told' = [told EXCEPT !["read"] = @ + wanted]
           \/ left' # 0 /\ doing' = "read" /\ told' = told
    BY <1>1, <1>4 DEF PollJtagRead, Done
  <2>2. /\ told' \in Pairs /\ told'.write = told.write
        /\ told'.read = IF left' = 0 THEN told.read + wanted ELSE told.read
    BY <1>2, <2>1 DEF Pairs
  <2>3. /\ taken' \in Seq(PChars) /\ received' \in Seq(PChars)
        /\ Len(taken') = Len(taken) + 1 /\ Len(received') = Len(received) - 1
        /\ \A i \in 1 .. Len(taken) : taken'[i] = taken[i]
        /\ taken'[Len(taken) + 1] = received[1]
        /\ \A i \in 1 .. Len(received') : received'[i] = received[i + 1]
        /\ Len(taken) \in Nat /\ Len(received) \in Nat \ {0}
    BY <1>4, <2>1, CharTaken
  <2>4. PolledTypeOK'
    BY <1>1, <1>2, <2>1, <2>2, <2>3 DEF PolledTypeOK
  <2>5. SentSoFar' /\ TakenSoFar'
    <3>1. SentSoFar'
      BY <1>1, <2>1, <2>2 DEF PolledInv, SentSoFar
    <3>4. left' \in Nat /\ Len(taken') = told.read + (wanted - left')
      BY <1>2, <1>4, <2>1, <2>3
    <3>2. CASE left' = 0
      <4>1. doing' = "none" /\ told'.read = told.read + wanted
        BY <2>1, <2>2, <3>2
      <4>2. Len(taken') = told'.read + 0
        BY <1>2, <3>2, <3>4, <4>1
      <4>3. doing' # "read" /\ doing' \notin {"clear", "fetch"}
        BY <4>1
      <4>. QED BY <3>1, <4>2, <4>3 DEF TakenSoFar
    <3>3. CASE left' # 0
      <4>1. doing' = "read" /\ told' = told /\ left' > 0 /\ build' # "uart" /\ wanted' = wanted
        <5>1. doing' = "read" /\ told' = told
          BY <2>1, <3>3
        <5>2. left' > 0
          BY <3>3, <3>4
        <5>3. build' = build /\ wanted' = wanted /\ build = "jtag"
          BY <1>1
        <5>. QED BY <5>1, <5>2, <5>3
      <4>2. Len(taken') = told'.read + (wanted' - left')
        BY <3>4, <4>1
      <4>3. doing' \notin {"clear", "fetch"}
        BY <4>1
      <4>. QED BY <3>1, <3>4, <4>1, <4>2, <4>3 DEF TakenSoFar
    <3>. QED BY <3>1, <3>2, <3>3
  <2>6. InOrderOf'
    BY <1>1, <1>4, <2>1, OrderTaken
  <2>7. DamageSeen'
    <3>1. \A i \in 1 .. Len(received) : ~received[i].bad
      BY <1>1 DEF PolledInv, DamageSeen
    <3>2. \A i \in 1 .. Len(taken') : taken'[i].bad => taken'[i].late
      <4>1. SUFFICES ASSUME NEW i \in 1 .. Len(taken') PROVE taken'[i].bad => taken'[i].late
        OBVIOUS
      <4>2. CASE i = Len(taken) + 1
        BY <2>3, <3>1, <4>2
      <4>3. CASE i # Len(taken) + 1
        <5>1. i \in 1 .. Len(taken) /\ taken'[i] = taken[i]
          BY <2>3, <4>3
        <5>. QED BY <5>1 DEF PolledInv, DamageSeen
      <4>. QED BY <4>2, <4>3
    <3>3. \A i \in 1 .. Len(received') : ~received'[i].bad
      <4>1. \A i \in 1 .. Len(received') : i + 1 \in 1 .. Len(received) /\ received'[i] = received[i + 1]
        BY <2>3
      <4>. QED BY <3>1, <4>1
    <3>. QED BY <1>1, <2>1, <3>2, <3>3 DEF DamageSeen
  <2>. QED BY <1>3, <2>4, <2>5, <2>6, <2>7 DEF PolledInv
<1>5. CASE received = << >> \/ ~(left > 0)
  <2>1. /\ doing' = "none" /\ told' = [told EXCEPT !["read"] = @ + (wanted - left)]
        /\ UNCHANGED <<received, left, taken>>
    BY <1>2, <1>5 DEF PollJtagRead, Done
  <2>2. told' \in Pairs /\ told'.read = told.read + (wanted - left) /\ told'.write = told.write
    BY <1>2, <2>1 DEF Pairs
  <2>3. PolledTypeOK'
    BY <1>1, <1>2, <2>1, <2>2 DEF PolledTypeOK
  <2>4. SentSoFar' /\ TakenSoFar'
    BY <1>1, <1>2, <2>1, <2>2 DEF PolledInv, PolledTypeOK, SentSoFar, TakenSoFar
  <2>5. InOrderOf' /\ DamageSeen'
    BY <1>1, <2>1 DEF PolledInv, InOrderOf, Rising, DamageSeen
  <2>. QED BY <1>3, <2>3, <2>4, <2>5 DEF PolledInv
<1>. QED BY <1>4, <1>5

\* A character more of the call's string is sent.
LEMMA CharSent ==
  ASSUME PolledInv, doing = "put", SendChar(NextChar)
  PROVE  /\ sent' \in Seq(Nat) /\ Len(sent') = Len(sent) + 1
         /\ sent' = [i \in 1 .. Len(sent') |-> i]
<1>1. /\ sent \in Seq(Nat) /\ sent = [i \in 1 .. Len(sent) |-> i] /\ Len(sent) \in Nat
      /\ Len(sent) = told.write + (wanted - left)
      /\ told.write \in Nat /\ wanted \in Nat /\ left \in Int
  BY DEF PolledInv, PolledTypeOK, SentSoFar, Pairs
<1>2. NextChar = Len(sent) + 1 /\ sent' = Append(sent, NextChar)
  BY <1>1 DEF NextChar, SendChar
<1>3. sent' = Append(sent, Len(sent) + 1)
  BY <1>2
<1>4. sent' \in Seq(Nat) /\ Len(sent') = Len(sent) + 1
  BY <1>1, <1>3
<1>5. \A i \in 1 .. Len(sent) : sent[i] = i
  BY <1>1
<1>6. \A i \in 1 .. Len(sent') : sent'[i] = i
  BY <1>1, <1>3, <1>5
<1>7. sent' = [i \in 1 .. Len(sent') |-> sent'[i]]
  BY <1>4
<1>. QED BY <1>4, <1>6, <1>7

\* The end of a step of either write: a character was sent or none was, and the
\* call goes on with what is left or returns how many were sent.
LEMMA PolledSends ==
  ASSUME PolledInv, doing = "put",
         \/ SendChar(NextChar) /\ left' = left - 1
         \/ sent' = sent /\ left' = left,
         \/ doing' = "none" /\ told' = [told EXCEPT !["write"] = @ + (wanted - left')]
         \/ doing' = "put" /\ told' = told,
         UNCHANGED <<build, received, flagged, arrived, wanted, noblock, seenStatus, taken,
                     termios, divisor>>
  PROVE  PolledInv'
<1>1. /\ PolledTypeOK /\ SentSoFar
      /\ sent \in Seq(Nat) /\ Len(sent) \in Nat
      /\ left \in Int /\ wanted \in Nat /\ left <= wanted
      /\ told.read \in Nat /\ told.write \in Nat /\ told \in Pairs
      /\ Len(sent) = told.write + (wanted - left)
  BY DEF PolledInv, PolledTypeOK, SentSoFar, Pairs
<1>2. /\ sent' \in Seq(Nat) /\ sent' = [i \in 1 .. Len(sent') |-> i]
      /\ left' \in Int /\ left' <= wanted
      /\ Len(sent') = told.write + (wanted - left')
  <2>1. CASE SendChar(NextChar) /\ left' = left - 1
    BY <1>1, <2>1, CharSent
  <2>2. CASE sent' = sent /\ left' = left
    BY <1>1, <2>2 DEF SentSoFar
  <2>. QED BY <2>1, <2>2
<1>3. /\ told' \in Pairs /\ told'.read = told.read
      /\ told'.write = IF doing' = "none" THEN told.write + (wanted - left') ELSE told.write
      /\ doing' \in {"none", "put"}
  <2>0. told.write + (wanted - left') \in Nat
    BY <1>1, <1>2
  <2>1. CASE doing' = "none" /\ told' = [told EXCEPT !["write"] = @ + (wanted - left')]
    <3>1. told' = [read |-> told.read, write |-> told.write + (wanted - left')]
      BY <1>1, <2>1 DEF Pairs
    <3>. QED BY <1>1, <2>0, <2>1, <3>1 DEF Pairs
  <2>2. CASE doing' = "put" /\ told' = told
    BY <1>1, <2>2
  <2>. QED BY <2>1, <2>2
<1>4. PolledTypeOK'
  BY <1>1, <1>2, <1>3 DEF PolledTypeOK
<1>5. SentSoFar'
  BY <1>1, <1>2, <1>3 DEF SentSoFar
<1>6. TakenSoFar'
  BY <1>1, <1>3 DEF PolledInv, TakenSoFar
<1>7. InOrderOf' /\ DamageSeen' /\ BaudTold'
  BY <1>3 DEF PolledInv, InOrderOf, Rising, DamageSeen, BaudTold, DivisorOf
<1>. QED BY <1>4, <1>5, <1>6, <1>7 DEF PolledInv

\* TIOCMSET.
LEMMA PolledSets ==
  ASSUME PolledInv, NEW term \in Terms, TiocmSet(term)
  PROVE  PolledInv'
<1>. DEFINE tried == IF FixedBaud THEN termios
                     ELSE [termios EXCEPT !.ispeed = term.ispeed, !.ospeed = term.ispeed]
<1>1. /\ termios \in Terms /\ termios.ispeed = termios.ospeed /\ divisor = DivisorOf(termios)
  BY DEF PolledInv, BaudTold
<1>2. tried \in Terms /\ tried.ispeed = tried.ospeed
  BY <1>1 DEF Terms
<1>3. UNCHANGED <<build, lineVars, polledCallVars>>
  BY DEF TiocmSet
<1>4. CASE term = tried
  <2>1. termios' = tried /\ divisor' = DivisorOf(tried)
    BY <1>4 DEF TiocmSet
  <2>2. BaudTold'
    BY <1>2, <2>1 DEF BaudTold, DivisorOf, Terms
  <2>. QED BY <1>3, <2>2 DEF PolledInv, PolledTypeOK, SentSoFar, TakenSoFar, InOrderOf, Rising, DamageSeen,
         lineVars, polledCallVars
<1>5. CASE term # tried
  <2>1. /\ termios' = [tried EXCEPT !.ispeed = termios.ispeed, !.ospeed = termios.ispeed]
        /\ divisor' = divisor
    BY <1>5 DEF TiocmSet
  <2>2. BaudTold'
    BY <1>1, <1>2, <2>1 DEF BaudTold, DivisorOf, Terms
  <2>. QED BY <1>3, <2>2 DEF PolledInv, PolledTypeOK, SentSoFar, TakenSoFar, InOrderOf, Rising, DamageSeen,
         lineVars, polledCallVars
<1>. QED BY <1>4, <1>5

LEMMA PolledSteps == PolledInv /\ [PolledNext]_polledVars => PolledInv'
<1>. SUFFICES ASSUME PolledInv, [PolledNext]_polledVars PROVE PolledInv'
  OBVIOUS
<1>1. CASE \E bad \in BOOLEAN : Received(bad)
  BY <1>1, PolledReceives
<1>2. CASE RoomMade \/ UNCHANGED polledVars
  BY <1>2, ZenonT(30) DEF RoomMade, PolledInv, PolledTypeOK, SentSoFar, TakenSoFar, InOrderOf, Rising, DamageSeen,
     BaudTold, DivisorOf, polledVars, lineVars, polledCallVars, baudVars
<1>3. CASE \E kind \in {"read", "put"}, n \in CallLengths, nb \in BOOLEAN : CallPolled(kind, n, nb)
  BY <1>3, PolledCalls
<1>4. CASE PollUartRead
  BY <1>4, PolledLooks, PolledClears, PolledFetches DEF PollUartRead
<1>5. CASE PollJtagRead
  BY <1>5, PolledJtagReads
<1>6. CASE PollUartWrite
  <2>1. /\ doing = "put"
        /\ \/ SendChar(NextChar) /\ left' = left - 1
           \/ sent' = sent /\ left' = left
        /\ \/ doing' = "none" /\ told' = [told EXCEPT !["write"] = @ + (wanted - left')]
           \/ doing' = "put" /\ told' = told
        /\ UNCHANGED <<build, received, flagged, arrived, wanted, noblock, seenStatus, taken,
                       termios, divisor>>
    BY <1>6 DEF PollUartWrite, Done, baudVars
  <2>. QED BY <2>1, PolledSends
<1>7. CASE PollJtagWrite
  <2>1. wanted \in Nat /\ wanted - 0 = wanted
    BY DEF PolledInv, PolledTypeOK
  <2>2. /\ doing = "put"
        /\ \/ SendChar(NextChar) /\ left' = left - 1
           \/ sent' = sent /\ left' = left
        /\ \/ left' = 0 /\ doing' = "none" /\ told' = [told EXCEPT !["write"] = @ + wanted]
           \/ doing' = "put" /\ told' = told
        /\ UNCHANGED <<build, received, flagged, arrived, wanted, noblock, seenStatus, taken,
                       termios, divisor>>
    BY <1>7 DEF PollJtagWrite, Done, baudVars
  <2>. QED BY <2>1, <2>2, PolledSends
<1>8. CASE \E term \in Terms : TiocmSet(term)
  BY <1>8, PolledSets
<1>. QED BY <1>1, <1>2, <1>3, <1>4, <1>5, <1>6, <1>7, <1>8 DEF PolledNext

\* The polled drivers send each character once and in order through any calls that
\* return early, and read what the device received, in order, as much as they say
\* (altera_avalon_uart_write.c:95), for devices and calls of any length.
THEOREM PollingKeeps == PolledSpec => []PolledKept
<1>1. PolledInv => PolledKept
  <2>. SUFFICES ASSUME PolledInv PROVE PolledKept
    OBVIOUS
  <2>1. /\ Len(sent) = told.write + (IF doing = "put" THEN wanted - left ELSE 0)
        /\ Len(taken) = told.read + (IF doing = "read" THEN wanted - left ELSE 0)
        /\ told.read \in Nat /\ told.write \in Nat
        /\ sent = [i \in 1 .. Len(sent) |-> i]
    BY DEF PolledInv, PolledTypeOK, SentSoFar, TakenSoFar, Pairs
  <2>2. ASSUME NEW i \in 1 .. Len(taken \o received), NEW j \in 1 .. Len(taken \o received), i < j
        PROVE  (taken \o received)[i].n < (taken \o received)[j].n
    <3>. DEFINE s == taken \o received
                m == Len(taken)
    <3>1. /\ m \in Nat /\ Len(received) \in Nat /\ Len(s) = m + Len(received)
          /\ \A k \in 1 .. Len(s) : IF k <= m THEN k \in 1 .. m /\ s[k] = taken[k]
                                    ELSE k - m \in 1 .. Len(received) /\ s[k] = received[k - m]
      BY ConcatProperties DEF PolledInv, PolledTypeOK
    <3>. HIDE DEF s
    <3>2. CASE j <= m
      BY <2>2, <3>1, <3>2 DEF PolledInv, InOrderOf, Rising
    <3>3. CASE i <= m /\ ~(j <= m)
      BY <2>2, <3>1, <3>3 DEF PolledInv, InOrderOf, s
    <3>4. CASE ~(i <= m)
      <4>1. i - m < j - m /\ ~(j <= m)
        BY <2>2, <3>1, <3>4 DEF s
      <4>. QED BY <2>2, <3>1, <3>4, <4>1 DEF PolledInv, InOrderOf, Rising, s
    <3>. QED BY <3>2, <3>3, <3>4
  <2>. QED BY <2>1, <2>2 DEF PolledInv, InOrderOf, DamageSeen, BaudTold, PolledKept
<1>. QED BY <1>1, PolledStarts, PolledSteps, PTL DEF PolledSpec
=============================================================================
