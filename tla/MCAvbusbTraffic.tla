--------------------------- MODULE MCAvbusbTraffic ---------------------------
(***************************************************************************)
(* Two mixes of bus traffic for model checking AvbusbCtrl.  The run chooses *)
(* one at the start: long DATA traffic, or little of it among accesses to  *)
(* the other registers, error clearing and resets.  The bytes of either    *)
(* direction are numbered, so that no two of them are alike.               *)
(***************************************************************************)
EXTENDS MCAvbusbCtrl

CONSTANT FewTx, FewRx             \* bounds: DATA bytes among other accesses

VARIABLE traffic

Numbered ==
  /\ \A b \in Byte : cmd' = WriteData(b) => b = Len(txAccepted) + 1
  /\ rxOffer' \in {NoByte, Len(rxStored) + 1}

DataOnly ==
  /\ traffic = "data"
  /\ cmd' \in {Idle} \cup DataTraffic
  /\ resets' = 0

\* And no byte behind a reset.
AllRegisters ==
  /\ traffic = "registers"
  /\ \A b \in Byte : cmd' = WriteData(b) => cmd = cmd' \/ Len(txAccepted) + resets < FewTx
  /\ rxOffer = NoByte /\ rxOffer' # NoByte => Len(rxStored) + resets < FewRx

TrafficNext == Next /\ UNCHANGED traffic /\ Numbered /\ (DataOnly \/ AllRegisters)

TrafficSpec ==
  /\ Init /\ traffic \in {"data", "registers"}
  /\ [][TrafficNext]_<<vars, traffic>>
=============================================================================
