------------------------- MODULE AvbusbCtrl_proofs -------------------------
(***************************************************************************)
(* Proofs that AvbusbCtrl loses, duplicates and reorders no byte, for any  *)
(* FIFO depth, any set of commands and any interleaving of the two clocks. *)
(***************************************************************************)
EXTENDS AvbusbCtrlProps, SequenceLemmas, SequenceTheorems, TLAPS

-----------------------------------------------------------------------------
(***************************************************************************)
(* The bus.                                                                *)
(***************************************************************************)

\* What the commands are made of.
LEMMA CommandFields ==
  ASSUME NEW c \in {Idle} \cup AllCommands
  PROVE  /\ c.op \in {"idle", "read", "write"}
         /\ c.op = "idle" <=> c = Idle
         /\ c.op = "write" /\ c.reg = "DATA" => c.data \in Byte
         /\ c.op = "write" /\ c.reg = "CTRL" => c.enables \in SUBSET Enables
<1>1. CASE c = Idle
  BY <1>1 DEF Idle
<1>2. CASE c \in {Read(reg) : reg \in Registers}
  BY <1>2 DEF Read, Idle
<1>3. CASE c \in {WriteData(b) : b \in Byte}
  BY <1>3 DEF WriteData, Idle
<1>4. CASE c = ClearErrors
  BY <1>4 DEF ClearErrors, Idle
<1>5. CASE c \in {WriteCtrl(set) : set \in SUBSET Enables}
  BY <1>5 DEF WriteCtrl, Idle
<1>. QED BY <1>1, <1>2, <1>3, <1>4, <1>5 DEF AllCommands

\* A DATA read is accepted exactly in the cycle of its pop, and then readdata
\* is the byte that leaves RX; nothing is pushed while the write register
\* holds a byte.
LEMMA BusFacts ==
  ASSUME IInv
  PROVE  /\ rdreq <=> IsRead("DATA") /\ Accept
         /\ rdreq => /\ rxQ # << >> /\ ~RX!rdempty
                     /\ readdata = Value("DATA", Head(rxQ))
         /\ wrreq => /\ cmd = Idle /\ ~Push /\ ~Stage
                     /\ wdata \in Byte /\ ~TX!wrfull
         /\ Push => cmd.data \in Byte /\ ~TX!wrfull
         /\ Stage => rxQ # << >> /\ ~RX!rdempty /\ Head(rxQ) \in Byte
<1>1. cmd \in {Idle} \cup AllCommands
  BY DEF IInv, TypeOK
<1>2. cmd.op = "read" => cmd # Idle
  BY DEF Idle
<1>3. rdreq <=> IsRead("DATA") /\ Accept
  BY <1>1, <1>2, CommandFields
     DEF IInv, TypeOK, ReadStaged, IsRead, IsWrite, Accept, WaitRequest, WriteWait, ReadWait
<1>4. ~RX!rdempty => rxQ # << >>
  BY EmptySeq DEF IInv, TypeOK, RX!TypeOK, RX!rdempty, RX!RdCount
<1>5. Stage => ~RX!rdempty
  BY DEF Stage
<1>6. Stage => Head(rxQ) \in Byte
  BY <1>4, <1>5, HeadTailProperties DEF IInv, TypeOK, RX!TypeOK
<1>7. wrreq => cmd = Idle /\ ~Push /\ ~Stage /\ wdata \in Byte /\ ~TX!wrfull
  BY DEF IInv, WriteGap, Push, Stage, ReadWait, IsRead, IsWrite, Idle
<1>8. Push => cmd.data \in Byte /\ ~TX!wrfull
  BY <1>1, CommandFields DEF Push, IsWrite, WriteReady
<1>9. rdreq => ~RX!rdempty /\ readdata = Value("DATA", Head(rxQ))
  BY DEF IInv, ReadStaged
<1>. QED BY <1>3, <1>4, <1>5, <1>6, <1>7, <1>8, <1>9

\* No latch is set, by this edge or an earlier one.
LEMMA EdgeErrors ==
  ASSUME IInv, AvalonEdge
  PROVE  NoFifoError'
<1>1. /\ writeError = FALSE /\ readError = FALSE
      /\ txOverflow = FALSE /\ txUnderflow = FALSE
      /\ rxOverflow = FALSE /\ rxUnderflow = FALSE
  BY DEF IInv, NoFifoError, AnyError, TypeOK, TX!TypeOK, RX!TypeOK
<1>2. writeError' = FALSE
  <2>1. ~(IsWrite("DATA") /\ Accept /\ ~WriteReady)
    BY DEF Accept, WaitRequest, WriteWait
  <2>. QED BY <1>1, <2>1 DEF AvalonEdge, WritePath
<1>3. readError' = FALSE
  BY <1>1 DEF AvalonEdge, Control
<1>4. txOverflow' = FALSE /\ txUnderflow' = FALSE
  BY <1>1, BusFacts DEF AvalonEdge, TX!WrEdge
<1>5. rxOverflow' = FALSE /\ rxUnderflow' = FALSE
  BY <1>1, BusFacts DEF AvalonEdge, RX!RdEdge
<1>. QED BY <1>2, <1>3, <1>4, <1>5 DEF NoFifoError, AnyError

\* The write side of TX.
LEMMA EdgeTx ==
  ASSUME IInv, AvalonEdge
  PROVE  /\ TX!TypeOK' /\ WriteGap' /\ TxConserved'
         /\ wrreq' \in BOOLEAN /\ wdata' \in Byte \cup {NoByte}
         /\ txAccepted' \in Seq(Byte) /\ txTaken' \in Seq(Byte)
<1>. USE DEF Strobe
<1>1. /\ txQ \in Seq(Byte) /\ txHidden \in 0 .. Len(txQ) /\ txHeld \in Nat
      /\ Len(txQ) + txHeld <= Depth /\ Len(txQ) \in Nat
      /\ txAccepted \in Seq(Byte) /\ txTaken \in Seq(Byte)
      /\ txOverflow \in BOOLEAN /\ txUnderflow \in BOOLEAN
      /\ wrreq \in BOOLEAN /\ wdata \in Byte \cup {NoByte}
  BY LenProperties DEF IInv, TypeOK, TX!TypeOK
<1>2. /\ wrreq' = Push
      /\ wdata' = IF Push THEN cmd.data ELSE wdata
      /\ txAccepted' = IF Push THEN Append(txAccepted, cmd.data) ELSE txAccepted
      /\ txTaken' = txTaken
  BY DEF AvalonEdge, WritePath
<1>3. /\ txHeld' = txHeld
      /\ txQ' = IF wrreq THEN Append(txQ, wdata) ELSE txQ
      /\ txHidden' = IF wrreq THEN txHidden + 1 ELSE txHidden
  BY <1>1, BusFacts DEF AvalonEdge, TX!WrEdge
<1>4. txOverflow' = FALSE /\ txUnderflow' = FALSE
  BY EdgeErrors DEF NoFifoError, AnyError, AvalonEdge, TX!WrEdge
<1>5. TxConserved
  BY DEF IInv
<1>6. wrreq' \in BOOLEAN
  BY <1>2 DEF Push
<1>7. CASE wrreq
  <2>1. wdata \in Byte /\ ~TX!wrfull /\ ~Push
    BY <1>7, BusFacts
  <2>2. /\ txQ' = Append(txQ, wdata) /\ txQ' \in Seq(Byte)
        /\ Len(txQ') = Len(txQ) + 1
    BY <1>1, <1>3, <1>7, <2>1, AppendProperties
  <2>3. Len(txQ) + txHeld < Depth
    <3>1. Len(txQ) + txHeld # Depth
      BY <2>1 DEF TX!wrfull, TX!WrCount
    <3>2. Depth \in Nat
      BY ConstantsAssumption
    <3>. QED BY <1>1, <3>1, <3>2
  <2>4. TX!TypeOK'
    <3>1. /\ txHidden' \in 0 .. Len(txQ') /\ txHeld' \in Nat
          /\ Len(txQ') + txHeld' <= Depth
      BY <1>1, <1>3, <1>7, <2>2, <2>3, ConstantsAssumption
    <3>2. txOverflow' \in BOOLEAN /\ txUnderflow' \in BOOLEAN
      BY <1>4
    <3>. QED BY <2>2, <3>1, <3>2 DEF TX!TypeOK
  <2>5. WriteGap'
    BY <1>2, <2>1 DEF WriteGap
  <2>6. TxConserved'
    <3>1. txAccepted = txTaken \o (txQ \o <<wdata>>)
      <4>1. txAccepted = (txTaken \o txQ) \o <<wdata>>
        BY <1>5, <1>7 DEF TxConserved, InFlight
      <4>2. <<wdata>> \in Seq(Byte)
        BY <2>1
      <4>. QED BY <1>1, <4>1, <4>2, ConcatAssociative
    <3>2. txQ' = txQ \o <<wdata>>
      BY <1>1, <2>1, <2>2, AppendIsConcat
    <3>3. txAccepted' = txTaken' \o txQ'
      BY <1>2, <2>1, <3>1, <3>2
    <3>4. InFlight' = << >>
      BY <1>2, <2>1 DEF InFlight
    <3>5. (txTaken \o txQ') \in Seq(Byte)
      BY <1>1, <2>2, ConcatProperties
    <3>. QED BY <1>2, <3>3, <3>4, <3>5, ConcatEmptySeq DEF TxConserved
  <2>. QED BY <1>1, <1>2, <1>6, <2>1, <2>4, <2>5, <2>6
<1>8. CASE ~wrreq
  <2>1. txQ' = txQ /\ txHidden' = txHidden
    BY <1>3, <1>8
  <2>2. TX!TypeOK'
    BY <1>1, <1>3, <1>4, <2>1 DEF TX!TypeOK
  <2>3. txAccepted = txTaken \o txQ
    <3>1. InFlight = << >>
      BY <1>8 DEF InFlight
    <3>2. txTaken \o txQ \in Seq(Byte)
      BY <1>1, ConcatProperties
    <3>. QED BY <1>5, <3>1, <3>2, ConcatEmptySeq DEF TxConserved
  <2>4. CASE Push
    <3>1. cmd.data \in Byte /\ ~TX!wrfull
      BY <2>4, BusFacts
    <3>2. wrreq' /\ wdata' = cmd.data /\ wdata' \in Byte
      BY <1>2, <2>4, <3>1
    <3>3. cmd' = Idle
      BY <2>4 DEF AvalonEdge, Master, Push, Accept, MayIssue
    <3>4. ~TX!wrfull'
      BY <1>3, <2>1, <3>1 DEF TX!wrfull, TX!WrCount
    <3>5. txAccepted' = Append(txTaken \o txQ, cmd.data)
      BY <1>2, <2>3, <2>4
    <3>6. txAccepted' = (txTaken \o txQ) \o <<cmd.data>> /\ txAccepted' \in Seq(Byte)
      BY <1>1, <3>1, <3>5, AppendIsConcat, AppendProperties, ConcatProperties
    <3>7. InFlight' = <<cmd.data>>
      BY <3>2 DEF InFlight
    <3>8. TxConserved'
      BY <1>2, <2>1, <3>6, <3>7 DEF TxConserved
    <3>. QED BY <1>1, <1>2, <2>2, <3>2, <3>3, <3>4, <3>6, <3>8 DEF WriteGap
  <2>5. CASE ~Push
    <3>1. ~wrreq' /\ wdata' = wdata /\ txAccepted' = txAccepted
      BY <1>2, <2>5
    <3>2. TxConserved'
      BY <1>2, <1>5, <1>8, <2>1, <3>1 DEF TxConserved, InFlight
    <3>. QED BY <1>1, <1>2, <1>6, <2>2, <3>1, <3>2 DEF WriteGap
  <2>. QED BY <2>4, <2>5
<1>. QED BY <1>1, <1>7, <1>8

\* The read side of RX, the staging register and the fabric.
LEMMA EdgeRx ==
  ASSUME IInv, AvalonEdge
  PROVE  /\ RX!TypeOK' /\ ReadStaged' /\ RxConserved'
         /\ rdreq' \in BOOLEAN /\ pending' \in BOOLEAN
         /\ rxStored' \in Seq(Byte) /\ rxRead' \in Seq(Byte)
<1>. USE DEF Pop
<1>1. /\ rxQ \in Seq(Byte) /\ rxHidden \in 0 .. Len(rxQ) /\ rxHeld \in Nat
      /\ Len(rxQ) + rxHeld <= Depth /\ Len(rxQ) \in Nat
      /\ rxStored \in Seq(Byte) /\ rxRead \in Seq(Byte)
      /\ pending \in BOOLEAN
  BY LenProperties DEF IInv, TypeOK, RX!TypeOK
<1>2. /\ rdreq' = Stage
      /\ pending' = IF ReadWait THEN Stage ELSE pending /\ cmd.op = "read"
      /\ Stage => readdata' = Value("DATA", Head(rxQ))
      /\ rxRead' = IF IsRead("DATA") /\ Accept
                   THEN Append(rxRead, readdata.val) ELSE rxRead
      /\ rxStored' = rxStored
  <2>1. rdreq' = Stage /\ pending' = Staged
    BY DEF AvalonEdge, ReadPath
  <2>2. Stage => readdata' = Value("DATA", Head(rxQ))
    BY DEF AvalonEdge, ReadPath, Stage, ReadWait, IsRead
  <2>3. rxStored' = rxStored
    BY DEF AvalonEdge
  <2>. QED BY <2>1, <2>2, <2>3 DEF AvalonEdge, Capture, Staged
<1>3. /\ rxHidden' = rxHidden
      /\ rxQ' = IF rdreq THEN Tail(rxQ) ELSE rxQ
      /\ rxHeld' = IF rdreq THEN rxHeld + 1 ELSE rxHeld
  BY <1>1, BusFacts DEF AvalonEdge, RX!RdEdge
<1>4. rxOverflow' = FALSE /\ rxUnderflow' = FALSE
  BY EdgeErrors DEF NoFifoError, AnyError, AvalonEdge, RX!RdEdge
<1>5. rdreq' \in BOOLEAN /\ pending' \in BOOLEAN
  BY <1>2 DEF Stage
<1>6. CASE rdreq
  <2>1. /\ rxQ # << >> /\ ~RX!rdempty /\ IsRead("DATA") /\ Accept
        /\ readdata.val = Head(rxQ)
    BY <1>6, BusFacts DEF Value
  <2>2. pending
    BY <1>6 DEF IInv, ReadStaged
  <2>3. /\ Tail(rxQ) \in Seq(Byte) /\ Head(rxQ) \in Byte
        /\ Len(Tail(rxQ)) = Len(rxQ) - 1
        /\ Append(rxRead, Head(rxQ)) \o Tail(rxQ) = rxRead \o rxQ
    BY <1>1, <2>1, MoveHead
  <2>4. rxHidden < Len(rxQ)
    <3>1. Len(rxQ) - rxHidden # 0
      BY <2>1 DEF RX!rdempty, RX!RdCount
    <3>. QED BY <1>1, <3>1
  <2>5. RX!TypeOK'
    <3>1. /\ rxHidden' \in 0 .. Len(rxQ') /\ rxHeld' \in Nat
          /\ Len(rxQ') + rxHeld' <= Depth
      BY <1>1, <1>3, <1>6, <2>3, <2>4, ConstantsAssumption
    <3>2. rxOverflow' \in BOOLEAN /\ rxUnderflow' \in BOOLEAN
      BY <1>4
    <3>. QED BY <1>3, <1>6, <2>3, <3>1, <3>2 DEF RX!TypeOK
  <2>6. ~Stage /\ ~rdreq'
    BY <1>2, <2>2 DEF Stage, ReadWait
  <2>7. cmd' = Idle
    BY <2>1 DEF AvalonEdge, Master, Accept, MayIssue
  <2>8. ReadStaged'
    BY <2>6, <2>7 DEF ReadStaged
  <2>9. rxRead' = Append(rxRead, Head(rxQ)) /\ rxRead' \in Seq(Byte)
    BY <1>1, <1>2, <2>1, <2>3, AppendProperties
  <2>10. RxConserved'
    BY <1>2, <1>3, <1>6, <2>3, <2>9 DEF IInv, RxConserved
  <2>. QED BY <1>1, <1>2, <1>5, <2>5, <2>8, <2>9, <2>10
<1>7. CASE ~rdreq
  <2>1. rxQ' = rxQ /\ rxHeld' = rxHeld /\ rxHidden' = rxHidden
    BY <1>3, <1>7
  <2>2. rxRead' = rxRead
    BY <1>2, <1>7, BusFacts
  <2>3. RX!TypeOK'
    <3>1. rxOverflow' \in BOOLEAN /\ rxUnderflow' \in BOOLEAN
      BY <1>4
    <3>. QED BY <1>1, <2>1, <3>1 DEF RX!TypeOK
  <2>4. RxConserved'
    BY <1>2, <2>1, <2>2 DEF IInv, RxConserved
  <2>5. ReadStaged'
    <3>1. CASE Stage
      <4>1. pending' /\ readdata' = Value("DATA", Head(rxQ)) /\ ~RX!rdempty
        BY <1>2, <3>1, BusFacts DEF Stage
      <4>2. IsRead("DATA") /\ cmd' = cmd
        BY <3>1 DEF AvalonEdge, Master, MayIssue, Accept, Stage, WaitRequest,
                    ReadWait, IsRead, Idle
      <4>3. IsRead("DATA")' /\ ~RX!rdempty'
        BY <2>1, <4>1, <4>2 DEF IsRead, RX!rdempty, RX!RdCount
      <4>. QED BY <1>2, <2>1, <3>1, <4>1, <4>3 DEF ReadStaged
    <3>2. CASE ~Stage
      <4>1. ~rdreq'
        BY <1>2, <3>2
      <4>2. ~pending'
        <5>1. CASE ReadWait
          BY <1>2, <3>2, <5>1
        <5>2. CASE ~ReadWait
          <6>1. pending => cmd = Idle
            BY <1>7 DEF IInv, ReadStaged
          <6>2. cmd = Idle => cmd.op # "read"
            BY DEF Idle
          <6>. QED BY <1>2, <5>2, <6>1, <6>2
        <5>. QED BY <5>1, <5>2
      <4>. QED BY <4>1, <4>2 DEF ReadStaged
    <3>. QED BY <3>1, <3>2
  <2>. QED BY <1>1, <1>2, <1>5, <2>2, <2>3, <2>4, <2>5
<1>. QED BY <1>6, <1>7

\* The other registers keep their types.
LEMMA EdgeRegisters ==
  ASSUME IInv, AvalonEdge
  PROVE  /\ cmd' \in {Idle} \cup AllCommands
         /\ resp'.from \in {"none"} \cup Registers
         /\ readdata'.from \in {"none"} \cup Registers
         /\ readdata'.from = "DATA" => readdata'.val \in Byte
         /\ flagClear' \in BOOLEAN
         /\ writeError' \in BOOLEAN /\ readError' \in BOOLEAN
         /\ enables' \subseteq Enables
         /\ status' \in StatusType
         /\ rxCount' \in 0 .. Depth - 1
         /\ warm' \in 0 .. WarmUp
         /\ sync' \in [cfg : BOOLEAN \X BOOLEAN, txEmpty : BOOLEAN \X BOOLEAN,
                       rxFull : BOOLEAN \X BOOLEAN]
<1>. USE DEF Shift, UsbReady
<1>1. TypeOK
  BY DEF IInv
<1>2. cmd' \in {Idle} \cup AllCommands
  BY <1>1, ConstantsAssumption DEF TypeOK, AvalonEdge, Master
<1>3. resp'.from \in {"none"} \cup Registers
  BY <1>1 DEF TypeOK, AvalonEdge, Capture
<1>4. /\ readdata'.from \in {"none"} \cup Registers
      /\ readdata'.from = "DATA" => readdata'.val \in Byte
  BY <1>1, BusFacts DEF TypeOK, AvalonEdge, ReadPath, Value, Registers
<1>5. flagClear' \in BOOLEAN
  BY DEF AvalonEdge, Control, IsWrite
<1>6. writeError' = FALSE /\ readError' = FALSE
  BY EdgeErrors DEF NoFifoError, AnyError, AvalonEdge, WritePath, Control
<1>7. enables' \subseteq Enables
  BY <1>1, CommandFields DEF TypeOK, AvalonEdge, Control, IsWrite
<1>8. status' \in StatusType
  <2>1. Saturate(RX!rdusedw) \in Nat /\ Saturate(TX!wrusedw) \in Nat
    BY <1>1, ConstantsAssumption
       DEF TypeOK, RX!TypeOK, TX!TypeOK, Saturate,
           RX!rdusedw, RX!RdCount, TX!wrusedw, TX!WrCount
  <2>2. /\ RxIrq \in BOOLEAN /\ TxIrq \in BOOLEAN /\ AnyError \in BOOLEAN
        /\ writeError \in BOOLEAN /\ readError \in BOOLEAN
        /\ (UsbReady => RX!rdempty) \in BOOLEAN
        /\ (UsbReady => sync.txEmpty[2]) \in BOOLEAN
        /\ (UsbReady => TX!wrfull) \in BOOLEAN
        /\ (UsbReady /\ sync.rxFull[2]) \in BOOLEAN
        /\ (UsbReady /\ sync.cfg[2]) \in BOOLEAN
    BY <1>1 DEF TypeOK, RxIrq, TxIrq, AnyError
  <2>3. StatusNow \in StatusType
    BY <2>1, <2>2 DEF StatusNow, StatusType
  <2>. QED BY <2>3 DEF AvalonEdge, Snapshots
<1>9. rxCount' \in 0 .. Depth - 1
  BY <1>1, ConstantsAssumption, SMTT(20)
     DEF TypeOK, RX!TypeOK, AvalonEdge, Snapshots, RX!rdusedw, RX!RdCount
<1>10. warm' \in 0 .. WarmUp
  BY <1>1, ConstantsAssumption DEF TypeOK, AvalonEdge, Snapshots, Count, UsbReady
<1>11. sync' \in [cfg : BOOLEAN \X BOOLEAN, txEmpty : BOOLEAN \X BOOLEAN,
                 rxFull : BOOLEAN \X BOOLEAN]
  BY <1>1 DEF TypeOK, AvalonEdge, Snapshots, TX!rdempty, RX!wrfull
<1>. QED BY <1>2, <1>3, <1>4, <1>5, <1>6, <1>7, <1>8, <1>9, <1>10, <1>11

-----------------------------------------------------------------------------
(***************************************************************************)
(* The inductive invariant.                                                *)
(***************************************************************************)
LEMMA InitIInv == Init => IInv
<1>. SUFFICES ASSUME Init PROVE IInv
  OBVIOUS
<1>1. << >> \in Seq(Byte) /\ Len(<< >>) = 0 /\ << >> \o << >> = << >>
  BY EmptySeq, ConcatEmptySeq
<1>2. TX!TypeOK /\ RX!TypeOK
  <2>1. Depth \in Nat /\ 0 \in 0 .. Len(<< >>) /\ Len(<< >>) + 0 <= Depth
    BY <1>1, ConstantsAssumption
  <2>2. txQ = << >> /\ txHidden = 0 /\ txHeld = 0
    BY DEF Init, TX!Init
  <2>3. rxQ = << >> /\ rxHidden = 0 /\ rxHeld = 0
    BY DEF Init, RX!Init
  <2>4. /\ txOverflow \in BOOLEAN /\ txUnderflow \in BOOLEAN
        /\ rxOverflow \in BOOLEAN /\ rxUnderflow \in BOOLEAN
    BY DEF Init, TX!Init, RX!Init
  <2>. QED BY <1>1, <2>1, <2>2, <2>3, <2>4 DEF TX!TypeOK, RX!TypeOK
<1>3. NoFifoError
  BY DEF Init, TX!Init, RX!Init, NoFifoError, AnyError
<1>4. WriteGap /\ ReadStaged
  BY DEF Init, WriteGap, ReadStaged
<1>5. TxConserved /\ RxConserved
  BY <1>1 DEF Init, TX!Init, RX!Init, TxConserved, RxConserved, InFlight
<1>6. TypeOK
  <2>1. status \in StatusType
    BY DEF Init, StatusReset, StatusType
  <2>2. sync \in [cfg : BOOLEAN \X BOOLEAN, txEmpty : BOOLEAN \X BOOLEAN,
                 rxFull : BOOLEAN \X BOOLEAN]
    BY DEF Init, SyncReset
  <2>3. rxCount \in 0 .. Depth - 1 /\ warm \in 0 .. WarmUp
    BY ConstantsAssumption DEF Init
  <2>4. resp.from = "none" /\ readdata.from = "none"
    BY DEF Init, NoResponse, Value
  <2>. QED BY <1>1, <1>2, <2>1, <2>2, <2>3, <2>4 DEF Init, TypeOK
<1>. QED BY <1>2, <1>3, <1>4, <1>5, <1>6 DEF IInv

\* A clock edge of the Avalon side.
LEMMA AvalonEdgeIInv == IInv /\ AvalonEdge => IInv'
<1>. SUFFICES ASSUME IInv, AvalonEdge PROVE IInv'
  OBVIOUS
<1>1. UNCHANGED <<configured, rxOffer, configs, resets>>
  BY DEF AvalonEdge, coreVars, bounds
<1>2. TypeOK'
  BY <1>1, EdgeTx, EdgeRx, EdgeRegisters DEF IInv, TypeOK
<1>. QED BY <1>2, EdgeErrors, EdgeTx, EdgeRx DEF IInv

\* The core takes a byte.
LEMMA UsbTakeIInv == IInv /\ UsbTake => IInv'
<1>. SUFFICES ASSUME IInv, UsbTake PROVE IInv'
  OBVIOUS
<1>1. /\ txQ \in Seq(Byte) /\ txHidden \in 0 .. Len(txQ) /\ txHeld \in Nat
      /\ Len(txQ) + txHeld <= Depth /\ Len(txQ) \in Nat
      /\ txTaken \in Seq(Byte) /\ txAccepted \in Seq(Byte)
  BY LenProperties DEF IInv, TypeOK, TX!TypeOK
<1>2. txHidden < Len(txQ) /\ txQ # << >>
  <2>1. Len(txQ) - txHidden # 0
    BY DEF UsbTake, TX!rdempty, TX!RdCount
  <2>. QED BY <1>1, <2>1, EmptySeq
<1>3. /\ txQ' = Tail(txQ) /\ txHeld' = txHeld + 1 /\ txHidden' = txHidden
      /\ txTaken' = Append(txTaken, Head(txQ))
  BY DEF UsbTake, TX!RdEdge
<1>4. /\ Tail(txQ) \in Seq(Byte) /\ Head(txQ) \in Byte
      /\ Len(Tail(txQ)) = Len(txQ) - 1
      /\ Append(txTaken, Head(txQ)) \o Tail(txQ) = txTaken \o txQ
  BY <1>1, <1>2, MoveHead
<1>5. txOverflow' = FALSE /\ txUnderflow' = FALSE
  BY DEF IInv, NoFifoError, AnyError, UsbTake, TX!RdEdge
<1>6. /\ UNCHANGED <<busVars, regVars, rxVars, coreVars, bounds>>
      /\ UNCHANGED <<txAccepted, rxStored, rxRead>>
  BY DEF UsbTake
<1>7. TX!TypeOK'
  <2>1. /\ txHidden' \in 0 .. Len(txQ') /\ txHeld' \in Nat
        /\ Len(txQ') + txHeld' <= Depth
    BY <1>1, <1>2, <1>3, <1>4, ConstantsAssumption
  <2>2. txOverflow' \in BOOLEAN /\ txUnderflow' \in BOOLEAN
    BY <1>5
  <2>. QED BY <1>3, <1>4, <2>1, <2>2 DEF TX!TypeOK
<1>8. RX!TypeOK'
  BY <1>6 DEF IInv, TypeOK, RX!TypeOK, rxVars
<1>9. txTaken' \in Seq(Byte)
  BY <1>1, <1>3, <1>4, AppendProperties
<1>10. TypeOK'
  BY <1>6, <1>7, <1>8, <1>9
     DEF IInv, TypeOK, busVars, regVars, coreVars, bounds
<1>11. NoFifoError'
  BY <1>5, <1>6 DEF IInv, NoFifoError, AnyError, regVars, rxVars
<1>12. WriteGap'
  <2>1. ~TX!wrfull => ~TX!wrfull'
    BY <1>1, <1>3, <1>4 DEF TX!wrfull, TX!WrCount
  <2>. QED BY <1>6, <2>1 DEF IInv, WriteGap, busVars
<1>13. ReadStaged' /\ RxConserved'
  BY <1>6 DEF IInv, ReadStaged, RxConserved, IsRead, RX!rdempty, RX!RdCount,
              busVars, rxVars
<1>14. TxConserved'
  BY <1>3, <1>4, <1>6 DEF IInv, TxConserved, InFlight, busVars
<1>. QED BY <1>10, <1>11, <1>12, <1>13, <1>14 DEF IInv

\* The core hands over a byte.
LEMMA UsbStoreIInv == IInv /\ UsbStore => IInv'
<1>. SUFFICES ASSUME IInv, UsbStore PROVE IInv'
  OBVIOUS
<1>1. /\ rxQ \in Seq(Byte) /\ rxHidden \in 0 .. Len(rxQ) /\ rxHeld \in Nat
      /\ Len(rxQ) + rxHeld <= Depth /\ Len(rxQ) \in Nat
      /\ rxStored \in Seq(Byte) /\ rxRead \in Seq(Byte)
      /\ rxOffer \in Byte
  BY LenProperties DEF IInv, TypeOK, RX!TypeOK, UsbStore
<1>2. Len(rxQ) + rxHeld < Depth /\ Depth \in Nat
  <2>1. Len(rxQ) + rxHeld # Depth
    BY DEF UsbStore, RX!wrfull, RX!WrCount
  <2>2. Depth \in Nat
    BY ConstantsAssumption
  <2>. QED BY <1>1, <2>1, <2>2
<1>3. /\ rxQ' = Append(rxQ, rxOffer) /\ rxHidden' = rxHidden + 1
      /\ rxHeld' = rxHeld /\ rxStored' = Append(rxStored, rxOffer)
  BY DEF UsbStore, RX!WrEdge
<1>4. /\ Append(rxQ, rxOffer) \in Seq(Byte)
      /\ Len(Append(rxQ, rxOffer)) = Len(rxQ) + 1
      /\ Append(rxStored, rxOffer) \in Seq(Byte)
  BY <1>1, AppendProperties
<1>5. rxOverflow' = FALSE /\ rxUnderflow' = FALSE
  BY DEF IInv, NoFifoError, AnyError, UsbStore, RX!WrEdge
<1>6. /\ UNCHANGED <<busVars, regVars, txVars, configured, bounds>>
      /\ UNCHANGED <<txAccepted, txTaken, rxRead>>
      /\ rxOffer' = NoByte
  BY DEF UsbStore
<1>7. RX!TypeOK'
  <2>1. /\ rxHidden' \in 0 .. Len(rxQ') /\ rxHeld' \in Nat
        /\ Len(rxQ') + rxHeld' <= Depth
    BY <1>1, <1>2, <1>3, <1>4
  <2>2. rxOverflow' \in BOOLEAN /\ rxUnderflow' \in BOOLEAN
    BY <1>5
  <2>. QED BY <1>3, <1>4, <2>1, <2>2 DEF RX!TypeOK
<1>8. TX!TypeOK'
  BY <1>6 DEF IInv, TypeOK, TX!TypeOK, txVars
<1>9. TypeOK'
  BY <1>3, <1>4, <1>6, <1>7, <1>8 DEF IInv, TypeOK, busVars, regVars, bounds
<1>10. NoFifoError'
  BY <1>5, <1>6 DEF IInv, NoFifoError, AnyError, regVars, txVars
<1>11. WriteGap' /\ TxConserved'
  BY <1>6 DEF IInv, WriteGap, TxConserved, InFlight, TX!wrfull, TX!WrCount,
              busVars, txVars
<1>12. ReadStaged'
  <2>1. ASSUME rdreq PROVE ~RX!rdempty' /\ Head(rxQ') = Head(rxQ)
    <3>1. Len(rxQ) - rxHidden # 0
      BY <2>1 DEF IInv, ReadStaged, RX!rdempty, RX!RdCount
    <3>2. Len(rxQ') - rxHidden' # 0 /\ Len(rxQ) > 0
      BY <1>1, <1>3, <1>4, <3>1
    <3>3. Head(rxQ') = Head(rxQ)
      BY <1>1, <1>3, <1>4, <3>2, AppendProperties
    <3>. QED BY <3>2, <3>3 DEF RX!rdempty, RX!RdCount
  <2>. QED BY <1>6, <2>1 DEF IInv, ReadStaged, IsRead, busVars
<1>13. RxConserved'
  <2>1. Append(rxRead \o rxQ, rxOffer) = rxRead \o Append(rxQ, rxOffer)
    <3>1. rxRead \in Seq(Byte) /\ rxQ \in Seq(Byte) /\ rxOffer \in Byte
      BY <1>1
    <3>. QED BY <3>1, AppendInside, SMTT(20)
  <2>. QED BY <1>3, <1>6, <2>1 DEF IInv, RxConserved
<1>. QED BY <1>9, <1>10, <1>11, <1>12, <1>13 DEF IInv

\* A pointer crosses: nothing moves, and a count only falls.
LEMMA PointerIInv ==
  ASSUME IInv,
         \/ TxPointerToRead \/ TxPointerToWrite
         \/ RxPointerToRead \/ RxPointerToWrite
  PROVE  IInv'
<1>1. /\ txQ \in Seq(Byte) /\ txHidden \in 0 .. Len(txQ) /\ txHeld \in Nat
      /\ Len(txQ) + txHeld <= Depth /\ Len(txQ) \in Nat
      /\ rxQ \in Seq(Byte) /\ rxHidden \in 0 .. Len(rxQ) /\ rxHeld \in Nat
      /\ Len(rxQ) + rxHeld <= Depth /\ Len(rxQ) \in Nat
  BY LenProperties DEF IInv, TypeOK, TX!TypeOK, RX!TypeOK
<1>2. Depth \in Nat
  BY ConstantsAssumption
<1>3. /\ UNCHANGED <<busVars, regVars, coreVars, history, bounds>>
      /\ UNCHANGED <<txQ, txOverflow, txUnderflow, rxQ, rxOverflow, rxUnderflow>>
  BY DEF TxPointerToRead, TxPointerToWrite, RxPointerToRead, RxPointerToWrite,
         TX!SyncToRead, TX!SyncToWrite, RX!SyncToRead, RX!SyncToWrite,
         txVars, rxVars
<1>4. /\ txHidden' \in 0 .. txHidden /\ txHeld' \in 0 .. txHeld
      /\ rxHidden' \in 0 .. rxHidden /\ rxHeld' \in 0 .. rxHeld
  BY <1>1 DEF TxPointerToRead, TxPointerToWrite, RxPointerToRead, RxPointerToWrite,
         TX!SyncToRead, TX!SyncToWrite, RX!SyncToRead, RX!SyncToWrite,
         txVars, rxVars
<1>5. TX!TypeOK' /\ RX!TypeOK'
  <2>1. /\ txHidden' \in 0 .. Len(txQ') /\ txHeld' \in Nat
        /\ Len(txQ') + txHeld' <= Depth
        /\ rxHidden' \in 0 .. Len(rxQ') /\ rxHeld' \in Nat
        /\ Len(rxQ') + rxHeld' <= Depth
    BY <1>1, <1>2, <1>3, <1>4, SMTT(20)
  <2>. QED BY <1>3, <2>1 DEF IInv, TypeOK, TX!TypeOK, RX!TypeOK
<1>6. TypeOK'
  BY <1>3, <1>5 DEF IInv, TypeOK, busVars, regVars, coreVars, history, bounds
<1>7. NoFifoError'
  BY <1>3 DEF IInv, NoFifoError, AnyError, regVars
<1>8. TxConserved' /\ RxConserved'
  BY <1>3 DEF IInv, TxConserved, RxConserved, InFlight, busVars, history
<1>9. WriteGap'
  <2>1. ~TX!wrfull => ~TX!wrfull'
    BY <1>1, <1>2, <1>3, <1>4, SMTT(20) DEF TX!wrfull, TX!WrCount
  <2>. QED BY <1>3, <2>1 DEF IInv, WriteGap, busVars
<1>10. ReadStaged'
  <2>1. ~RX!rdempty => ~RX!rdempty'
    BY <1>1, <1>3, <1>4 DEF RX!rdempty, RX!RdCount
  <2>. QED BY <1>3, <2>1 DEF IInv, ReadStaged, IsRead, busVars
<1>. QED BY <1>6, <1>7, <1>8, <1>9, <1>10 DEF IInv

\* A reset restores the initial state, but for the bounds' counters.
LEMMA ResetIInv == IInv /\ Reset => IInv'
<1>. SUFFICES ASSUME IInv, Reset PROVE IInv'
  OBVIOUS
<1>1. << >> \in Seq(Byte) /\ Len(<< >>) = 0 /\ << >> \o << >> = << >>
  BY EmptySeq, ConcatEmptySeq
<1>2. TX!TypeOK' /\ RX!TypeOK'
  <2>1. Depth \in Nat /\ 0 \in 0 .. Len(<< >>) /\ Len(<< >>) + 0 <= Depth
    BY <1>1, ConstantsAssumption
  <2>2. txQ' = << >> /\ txHidden' = 0 /\ txHeld' = 0
    BY DEF Reset, TX!Clear
  <2>3. rxQ' = << >> /\ rxHidden' = 0 /\ rxHeld' = 0
    BY DEF Reset, RX!Clear
  <2>4. /\ txOverflow' \in BOOLEAN /\ txUnderflow' \in BOOLEAN
        /\ rxOverflow' \in BOOLEAN /\ rxUnderflow' \in BOOLEAN
    BY DEF Reset, TX!Clear, RX!Clear
  <2>. QED BY <1>1, <2>1, <2>2, <2>3, <2>4 DEF TX!TypeOK, RX!TypeOK
<1>3. NoFifoError'
  BY DEF Reset, TX!Clear, RX!Clear, NoFifoError, AnyError
<1>4. WriteGap' /\ ReadStaged'
  BY DEF Reset, WriteGap, ReadStaged
<1>5. TxConserved' /\ RxConserved'
  BY <1>1 DEF Reset, TX!Clear, RX!Clear, TxConserved, RxConserved, InFlight
<1>6. TypeOK'
  <2>1. status' \in StatusType
    BY DEF Reset, StatusReset, StatusType
  <2>2. sync' \in [cfg : BOOLEAN \X BOOLEAN, txEmpty : BOOLEAN \X BOOLEAN,
                  rxFull : BOOLEAN \X BOOLEAN]
    BY DEF Reset, SyncReset
  <2>3. rxCount' \in 0 .. Depth - 1 /\ warm' \in 0 .. WarmUp
    BY ConstantsAssumption DEF Reset
  <2>4. resp'.from = "none" /\ readdata'.from = "none"
    BY DEF Reset, NoResponse, Value
  <2>5. configs' \in Nat /\ resets' \in Nat
    BY DEF Reset, IInv, TypeOK
  <2>. QED BY <1>1, <1>2, <2>1, <2>2, <2>3, <2>4, <2>5 DEF Reset, TypeOK
<1>. QED BY <1>2, <1>3, <1>4, <1>5, <1>6 DEF IInv

\* No step of the component breaks the invariant.
LEMMA NextIInv == IInv /\ [Next]_vars => IInv'
<1>. SUFFICES ASSUME IInv, [Next]_vars PROVE IInv'
  OBVIOUS
<1>1. CASE AvalonEdge
  BY <1>1, AvalonEdgeIInv
<1>2. CASE UsbTake
  BY <1>2, UsbTakeIInv
<1>3. CASE UsbOffer \/ UsbConfigure
  <2>1. /\ UNCHANGED <<busVars, regVars, txVars, rxVars, history, resets>>
        /\ configured' \in BOOLEAN /\ rxOffer' \in Byte \cup {NoByte}
        /\ configs' \in Nat
    <3>1. CASE UsbOffer
      BY <3>1 DEF IInv, TypeOK, UsbOffer, bounds
    <3>2. CASE UsbConfigure
      <4>1. configured' \in BOOLEAN
        BY <3>2 DEF UsbConfigure
      <4>. QED BY <3>2, <4>1 DEF IInv, TypeOK, UsbConfigure
    <3>. QED BY <1>3, <3>1, <3>2
  <2>2. TX!TypeOK' /\ RX!TypeOK'
    BY <2>1 DEF IInv, TypeOK, TX!TypeOK, RX!TypeOK, txVars, rxVars
  <2>3. TypeOK'
    BY <2>1, <2>2 DEF IInv, TypeOK, busVars, regVars, history
  <2>. QED BY <2>1, <2>3
       DEF IInv, NoFifoError, AnyError, WriteGap, ReadStaged, TxConserved,
           RxConserved, InFlight, IsRead, TX!wrfull, TX!WrCount,
           RX!rdempty, RX!RdCount, busVars, regVars, txVars, rxVars, history
<1>4. CASE UsbStore
  BY <1>4, UsbStoreIInv
<1>5. CASE \/ TxPointerToRead \/ TxPointerToWrite
           \/ RxPointerToRead \/ RxPointerToWrite
  BY <1>5, PointerIInv
<1>6. CASE Reset
  BY <1>6, ResetIInv
<1>7. CASE UNCHANGED vars
  <2>1. UNCHANGED <<busVars, regVars, txVars, rxVars, coreVars, history, bounds>>
    BY <1>7 DEF vars
  <2>2. TX!TypeOK' /\ RX!TypeOK'
    BY <2>1 DEF IInv, TypeOK, TX!TypeOK, RX!TypeOK, txVars, rxVars
  <2>3. TypeOK'
    BY <2>1, <2>2 DEF IInv, TypeOK, busVars, regVars, coreVars, history, bounds
  <2>. QED BY <2>1, <2>3
       DEF IInv, NoFifoError, AnyError, WriteGap, ReadStaged, TxConserved,
           RxConserved, InFlight, IsRead, TX!wrfull, TX!WrCount,
           RX!rdempty, RX!RdCount, busVars, regVars, txVars, rxVars, history
<1>. QED BY <1>1, <1>2, <1>3, <1>4, <1>5, <1>6, <1>7 DEF Next

-----------------------------------------------------------------------------
(***************************************************************************)
(* The theorems.                                                           *)
(***************************************************************************)

\* The inductive invariant holds in every reachable state.
THEOREM Inductive == Spec => []IInv
<1>. QED BY InitIInv, NextIInv, PTL DEF Spec

\* Registers, FIFOs and histories keep their types: the FIFO counts stay
\* within the depth, the staged read is a byte.
THEOREM TypeCorrect == Spec => []TypeOK
<1>1. IInv => TypeOK
  BY DEF IInv
<1>. QED BY <1>1, Inductive, PTL

\* No FIFO overflows or underflows, and no access error is ever latched.
THEOREM NoErrors == Spec => []NoFifoError
<1>1. IInv => NoFifoError
  BY DEF IInv
<1>. QED BY <1>1, Inductive, PTL

\* Nothing written to DATA or handed over by the core is lost, duplicated or
\* reordered.
THEOREM Lossless == Spec => []BytesConserved
<1>1. IInv => BytesConserved
  BY DEF IInv, BytesConserved
<1>. QED BY <1>1, Inductive, PTL

-----------------------------------------------------------------------------
(***************************************************************************)
(* Both directions implement ByteChannel.                                  *)
(***************************************************************************)

\* The element after s in s \o t is the head of t.
LEMMA NextOfConcat ==
  ASSUME NEW S, NEW s \in Seq(S), NEW t \in Seq(S), t # << >>
  PROVE  /\ Len(s) < Len(s \o t)
         /\ (s \o t)[Len(s) + 1] = Head(t)
<1>1. Len(t) \in Nat \ {0} /\ Len(s) \in Nat
  BY EmptySeq, LenProperties
<1>2. Len(s) + 1 \in 1 .. Len(s) + Len(t)
  BY <1>1
<1>. QED BY <1>1, <1>2, ConcatProperties

\* The core's take is the channel's receive, and an accepted DATA write its
\* send: no more than Depth bytes are stored or in the write register.
LEMMA TxStep == IInv /\ [Next]_vars => [TxChannel!Next]_<<txAccepted, txTaken>>
<1>. SUFFICES ASSUME IInv, [Next]_vars,
                     ~ UNCHANGED <<txAccepted, txTaken>>
              PROVE  TxChannel!Next
  OBVIOUS
<1>1. /\ txQ \in Seq(Byte) /\ Len(txQ) \in Nat /\ txHeld \in Nat
      /\ txTaken \in Seq(Byte) /\ txAccepted \in Seq(Byte)
      /\ Len(txQ) + txHeld <= Depth /\ Depth \in Nat
  BY ConstantsAssumption, LenProperties DEF IInv, TypeOK, TX!TypeOK
<1>2. CASE AvalonEdge
  <2>1. Push /\ txAccepted' = Append(txAccepted, cmd.data) /\ txTaken' = txTaken
    BY <1>2 DEF AvalonEdge, WritePath
  <2>2. cmd.data \in Byte /\ Len(txQ) + txHeld # Depth /\ ~wrreq
    BY <2>1, BusFacts DEF TX!wrfull, TX!WrCount
  <2>3. txAccepted = txTaken \o txQ
    <3>1. InFlight = << >>
      BY <2>2 DEF InFlight
    <3>2. txTaken \o txQ \in Seq(Byte)
      BY <1>1, ConcatProperties
    <3>. QED BY <3>1, <3>2, ConcatEmptySeq DEF IInv, TxConserved
  <2>4. Len(txAccepted) - Len(txTaken) < Depth
    <3>1. Len(txAccepted) = Len(txTaken) + Len(txQ) /\ Len(txTaken) \in Nat
      BY <1>1, <2>3, ConcatProperties, LenProperties
    <3>. QED BY <1>1, <2>2, <3>1
  <2>. QED BY <2>1, <2>2, <2>4 DEF TxChannel!Next, TxChannel!Send
<1>3. CASE UsbTake
  <2>1. txTaken' = Append(txTaken, Head(txQ)) /\ txAccepted' = txAccepted
    BY <1>3 DEF UsbTake
  <2>2. txQ # << >>
    <3>1. Len(txQ) - txHidden # 0 /\ txHidden \in 0 .. Len(txQ)
      BY <1>3 DEF UsbTake, TX!rdempty, TX!RdCount, IInv, TypeOK, TX!TypeOK
    <3>. QED BY <1>1, <3>1, EmptySeq
  <2>3. InFlight \in Seq(Byte)
    BY DEF InFlight, IInv, WriteGap
  <2>4. txQ \o InFlight \in Seq(Byte) /\ Head(txQ \o InFlight) = Head(txQ)
        /\ txQ \o InFlight # << >>
    <3>1. Len(txQ) \in Nat \ {0} /\ Len(InFlight) \in Nat
      BY <1>1, <2>2, <2>3, EmptySeq, LenProperties
    <3>2. Len(txQ \o InFlight) # 0 /\ (txQ \o InFlight)[1] = txQ[1]
      BY <1>1, <2>3, <3>1, ConcatProperties
    <3>. QED BY <1>1, <2>3, <3>2, ConcatProperties, EmptySeq
  <2>5. txAccepted = txTaken \o (txQ \o InFlight)
    <3>1. txAccepted = (txTaken \o txQ) \o InFlight
      BY DEF IInv, TxConserved
    <3>2. (txTaken \o txQ) \o InFlight = txTaken \o (txQ \o InFlight)
      <4>1. txTaken \in Seq(Byte) /\ txQ \in Seq(Byte)
        BY <1>1
      <4>. QED BY <2>3, <4>1, ConcatAssociative
    <3>. QED BY <3>1, <3>2
  <2>6. Len(txTaken) < Len(txAccepted) /\ txAccepted[Len(txTaken) + 1] = Head(txQ)
    BY <1>1, <2>4, <2>5, NextOfConcat
  <2>. QED BY <2>1, <2>6 DEF TxChannel!Next, TxChannel!Receive
<1>4. CASE Reset
  BY <1>4 DEF Reset, TxChannel!Next, TxChannel!Restart
<1>5. CASE \/ UsbOffer \/ UsbStore \/ UsbConfigure
           \/ TxPointerToRead \/ TxPointerToWrite
           \/ RxPointerToRead \/ RxPointerToWrite
           \/ UNCHANGED vars
  <2>1. UNCHANGED <<txAccepted, txTaken>>
    BY <1>5 DEF UsbOffer, UsbStore, UsbConfigure, TxPointerToRead, TxPointerToWrite,
                RxPointerToRead, RxPointerToWrite, vars, history
  <2>. QED BY <2>1
<1>. QED BY <1>2, <1>3, <1>4, <1>5 DEF Next

\* The core's store is the channel's send, and an accepted DATA read its
\* receive: it returns the oldest stored byte.
LEMMA RxStep == IInv /\ [Next]_vars => [RxChannel!Next]_<<rxStored, rxRead>>
<1>. SUFFICES ASSUME IInv, [Next]_vars,
                     ~ UNCHANGED <<rxStored, rxRead>>
              PROVE  RxChannel!Next
  OBVIOUS
<1>1. /\ rxQ \in Seq(Byte) /\ Len(rxQ) \in Nat /\ rxHeld \in Nat
      /\ rxRead \in Seq(Byte) /\ rxStored \in Seq(Byte)
      /\ Len(rxQ) + rxHeld <= Depth /\ Depth \in Nat
      /\ rxStored = rxRead \o rxQ
  BY ConstantsAssumption, LenProperties DEF IInv, TypeOK, RX!TypeOK, RxConserved
<1>2. CASE AvalonEdge
  <2>1. /\ IsRead("DATA") /\ Accept
        /\ rxRead' = Append(rxRead, readdata.val) /\ rxStored' = rxStored
    BY <1>2 DEF AvalonEdge, Capture
  <2>2. rxQ # << >> /\ readdata.val = Head(rxQ)
    BY <2>1, BusFacts DEF Value
  <2>3. Len(rxRead) < Len(rxStored) /\ rxStored[Len(rxRead) + 1] = Head(rxQ)
    BY <1>1, <2>2, NextOfConcat
  <2>. QED BY <2>1, <2>2, <2>3 DEF RxChannel!Next, RxChannel!Receive
<1>3. CASE UsbStore
  <2>1. /\ rxStored' = Append(rxStored, rxOffer) /\ rxRead' = rxRead
        /\ rxOffer \in Byte /\ Len(rxQ) + rxHeld # Depth
    BY <1>3 DEF UsbStore, RX!wrfull, RX!WrCount, IInv, TypeOK
  <2>2. Len(rxStored) - Len(rxRead) < Depth
    <3>1. Len(rxStored) = Len(rxRead) + Len(rxQ) /\ Len(rxRead) \in Nat
      BY <1>1, ConcatProperties, LenProperties
    <3>. QED BY <1>1, <2>1, <3>1
  <2>. QED BY <2>1, <2>2 DEF RxChannel!Next, RxChannel!Send
<1>4. CASE Reset
  BY <1>4 DEF Reset, RxChannel!Next, RxChannel!Restart
<1>5. CASE \/ UsbTake \/ UsbOffer \/ UsbConfigure
           \/ TxPointerToRead \/ TxPointerToWrite
           \/ RxPointerToRead \/ RxPointerToWrite
           \/ UNCHANGED vars
  <2>1. UNCHANGED <<rxStored, rxRead>>
    BY <1>5 DEF UsbTake, UsbOffer, UsbConfigure, TxPointerToRead, TxPointerToWrite,
                RxPointerToRead, RxPointerToWrite, vars, history
  <2>. QED BY <2>1
<1>. QED BY <1>2, <1>3, <1>4, <1>5 DEF Next

\* DATA writes to the core: a reliable channel of Depth bytes.
THEOREM TxRefinement == Spec => TxChannelSpec
<1>1. Init => TxChannel!Init
  BY DEF Init, TxChannel!Init
<1>. QED BY <1>1, TxStep, Inductive, PTL DEF Spec, TxChannelSpec, TxChannel!Spec

\* The core to DATA reads: a reliable channel of Depth bytes.
THEOREM RxRefinement == Spec => RxChannelSpec
<1>1. Init => RxChannel!Init
  BY DEF Init, RxChannel!Init
<1>. QED BY <1>1, RxStep, Inductive, PTL DEF Spec, RxChannelSpec, RxChannel!Spec

=============================================================================
