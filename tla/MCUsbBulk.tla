----------------------------- MODULE MCUsbBulk ------------------------------
(***************************************************************************)
(* Sets of line faults for model checking UsbBulk.                         *)
(***************************************************************************)
EXTENDS UsbBulkProps

\* The host's ACKs arrive, so that IN packets are repeated but not lost.
DataFaults == {"token pid", "out crc", "out broken", "out handshake", "in data"}
=============================================================================
