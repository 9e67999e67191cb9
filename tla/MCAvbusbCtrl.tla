---------------------------- MODULE MCAvbusbCtrl ----------------------------
(***************************************************************************)
(* Command sets for model checking AvbusbCtrl.                             *)
(***************************************************************************)
EXTENDS AvbusbCtrlProps

\* All of the bus traffic, with one CTRL setting.
AllTraffic == {Read(reg) : reg \in Registers} \cup {WriteData(b) : b \in Byte}
                \cup {ClearErrors, WriteCtrl({"rx", "error"})}

\* DATA traffic only.
DataTraffic == {Read("DATA")} \cup {WriteData(b) : b \in Byte}

\* DATA traffic, with the receive interrupt enabled on the way.
InterruptTraffic == DataTraffic \cup {WriteCtrl({"rx"})}
=============================================================================
