-------------------------- MODULE AvbusbCtrlProps --------------------------
(***************************************************************************)
(* What AvbusbCtrl must guarantee, and what its comments say of it.        *)
(***************************************************************************)
EXTENDS AvbusbCtrl

StatusType ==
  [rxEmpty : BOOLEAN, txEmpty : BOOLEAN, txFull : BOOLEAN, rxFull : BOOLEAN,
   rxUsed : Nat, txUsed : Nat, rxIrq : BOOLEAN, txIrq : BOOLEAN,
   werr : BOOLEAN, rerr : BOOLEAN, error : BOOLEAN, cfg : BOOLEAN]

\* Every register and history has its type.
TypeOK ==
  /\ cmd \in {Idle} \cup AllCommands
  /\ resp.from \in {"none"} \cup Registers
  /\ readdata.from \in {"none"} \cup Registers
  /\ readdata.from = "DATA" => readdata.val \in Byte
  /\ pending \in BOOLEAN /\ rdreq \in BOOLEAN
  /\ wrreq \in BOOLEAN /\ wdata \in Byte \cup {NoByte}
  /\ flagClear \in BOOLEAN
  /\ writeError \in BOOLEAN /\ readError \in BOOLEAN
  /\ enables \subseteq Enables
  /\ status \in StatusType
  /\ rxCount \in 0 .. Depth - 1
  /\ warm \in 0 .. WarmUp
  /\ sync \in [cfg : BOOLEAN \X BOOLEAN, txEmpty : BOOLEAN \X BOOLEAN,
               rxFull : BOOLEAN \X BOOLEAN]
  /\ TX!TypeOK /\ RX!TypeOK
  /\ configured \in BOOLEAN
  /\ rxOffer \in Byte \cup {NoByte}
  /\ txAccepted \in Seq(Byte) /\ txTaken \in Seq(Byte)
  /\ rxStored \in Seq(Byte) /\ rxRead \in Seq(Byte)
  /\ configs \in Nat /\ resets \in Nat

\* The write strobe register holds the last accepted byte for one cycle.
InFlight == IF wrreq THEN <<wdata>> ELSE << >>

\* No FIFO is ever written when full or popped when empty, and no access
\* error is latched, whatever the two clocks' interleaving: waitrequest and
\* the request registers (AvbusbCtrl.v:220-245, 302-325) leave room for the
\* byte that is still in the write register.
NoFifoError == ~AnyError

\* No byte of a DATA write is lost, duplicated or reordered on its way to
\* the core: what was accepted is what was taken, then what is stored, then
\* what the strobe register is about to store.
TxConserved == txAccepted = txTaken \o txQ \o InFlight

\* No byte from the core is lost, duplicated, reordered or replaced by
\* another register's value on its way to a DATA read, although the read
\* returns a staged copy and the pop comes a cycle after the staging.
RxConserved == rxStored = rxRead \o rxQ

\* Both at once: the slave is a lossless path in either direction.
BytesConserved == TxConserved /\ RxConserved

\* A byte in the write register has its cycle for itself: no command is on
\* the bus, and TX has room for it.
WriteGap == wrreq => /\ cmd = Idle
                     /\ wdata \in Byte
                     /\ ~TX!wrfull

\* While a pop is under way, its read is on the bus and readdata is the byte
\* that leaves; the flag of a finished read outlives it by one idle cycle.
ReadStaged ==
  /\ rdreq => /\ pending /\ IsRead("DATA")
              /\ ~RX!rdempty
              /\ readdata = Value("DATA", Head(rxQ))
  /\ pending /\ ~rdreq => cmd = Idle

\* The two facts tie the request registers to the bus and to the FIFOs; with
\* them the four invariants above are inductive.
IInv == /\ TypeOK /\ NoFifoError
        /\ WriteGap /\ ReadStaged
        /\ TxConserved /\ RxConserved

\* Each direction implements a channel of Depth bytes.
TxChannel == INSTANCE ByteChannel WITH Capacity <- Depth,
                                       sent <- txAccepted, got <- txTaken
RxChannel == INSTANCE ByteChannel WITH Capacity <- Depth,
                                       sent <- rxStored, got <- rxRead
TxChannelSpec == TxChannel!Spec
RxChannelSpec == RxChannel!Spec

-----------------------------------------------------------------------------
(***************************************************************************)
(* Fairness.  Both clocks run for ever, and a pointer always gets across.  *)
(* UsbStore needs nothing but the 48 MHz clock; UsbTake needs in addition  *)
(* a host that keeps polling the IN endpoint, which is the premise Polling *)
(* of the properties that hold only then.                                  *)
(***************************************************************************)
Clocks == /\ WF_vars(AvalonEdge)
          /\ WF_vars(UsbStore)
          /\ WF_vars(TxPointerToRead) /\ WF_vars(TxPointerToWrite)
          /\ WF_vars(RxPointerToRead) /\ WF_vars(RxPointerToWrite)

ClockedSpec == Spec /\ Clocks

Polling == WF_vars(UsbTake)

\* While the host polls, a DATA write stalls the CPU only for a while: the
\* warm-up ends, and the room a taken byte leaves becomes visible.
WritesComplete == Polling => (IsWrite("DATA") ~> ~IsWrite("DATA"))

\* While the host polls, every accepted byte reaches the core, unless a reset
\* clears the histories with the FIFOs.
BytesDelivered ==
  Polling => \A n \in 1 .. MaxTx :
               (Len(txAccepted) >= n) ~> (Len(txTaken) >= n \/ Len(txAccepted) < n)

\* A DATA read completes once the core has stored a byte it did not return
\* yet, without any help from the host.
ReadsComplete ==
  (IsRead("DATA") /\ Len(rxStored) > Len(rxRead)) ~> ~IsRead("DATA")

\* The STATUS snapshot and the interrupt converge: they cannot stay wrong
\* about a byte stuck in either FIFO, or about the configuration, when
\* nothing changes any more, although each flag crosses clock domains.
StatusConverges ==
  /\ <>[](txQ # << >>) => <>[](~status.txEmpty)
  /\ <>[](rxQ # << >>) => <>[](~status.rxEmpty)
  /\ <>[](rxQ # << >> /\ "rx" \in enables) => <>[]irq
  /\ <>[]configured => <>[](status.cfg)

-----------------------------------------------------------------------------
(***************************************************************************)
(* What a comment says, and the code does not do.                          *)
(***************************************************************************)

\* AvbusbCtrl.v:289: "Software reads the previous Avalon-cycle snapshot".
StatusReadReturnsSnapshot ==
  [][AvalonEdge /\ IsRead("STATUS")
       => resp'.from = "STATUS" /\ resp'.val = status]_vars

=============================================================================
