---------------------------- MODULE CrcTestProps ----------------------------
(***************************************************************************)
(* What the CRC test promises: its verdict is true, its two header         *)
(* searches keep both packets aligned, and without faults it ends well.    *)
(***************************************************************************)
EXTENDS CrcTest

\* usbserialtest.c:159 and the tool's find_header: START headers that were
\* still under way, texts of an earlier run and a session that was broken off
\* never shift a packet.  As long as no byte is lost, what the tool takes for
\* the payload is a prefix of the firmware's, and in the first session what
\* the firmware takes for the payload is a prefix of the tool's.
PacketsAligned ==
  lost = 0 =>
    /\ got = SubSeq(NiosPayload, 1, Len(got))
    /\ sessions = 1 => buffer = SubSeq(PcPayload, 1, Len(buffer))

\* The tool's verdict (test_usb_crc_bidirectional.py:178): it prints PASS only
\* if both sides received what the other sent, whatever bytes the link lost,
\* whichever deadline passed and however often the tool was run.
PassIsTrue == tool = "passed" => got = NiosPayload /\ buffer = PcPayload

\* More START headers were written behind the first one than RX holds.
StartsSpill == starts - 1 > RxDepth \div Len(StartHeader)

\* The whole test: unless a byte is lost or a time-out passes, a session that
\* meets a waiting firmware ends with PASS on both sides; neither side waits
\* for the other for ever, though both write before they read.  This needs an RX
\* that holds the START headers behind the one that the firmware answers; the 256
\* bytes of the system (DE0Qsys.v:921) hold 42 of them, and the tool writes four a
\* second for 15 seconds to a firmware that is not up yet: then both sides may wait
\* for ever, the firmware for a reader and the tool in flush.
TestCompletes ==
  (tool = "drain" /\ sessions = 1) ~>
    (tool = "passed" \/ lost > 0 \/ expired \/ StartsSpill)

\* If deadlines do pass (find_header, read_exact, the write time-out), every
\* session of the tool ends; the only wait that has no deadline is flush, and
\* it lasts only while the firmware does not read: because it has run its test, which
\* it does once, or because it writes its packet, and more START lines wait in front
\* of it than RX holds.
SessionEnds ==
  WF_vars(Deadline) =>
    [](sessions > 0 => <>(\/ tool \in {"passed", "failed"}
                          \/ /\ tool \in {"flush", "sent"} /\ Len(rx) = RxDepth
                             /\ pc \notin {"start", "wait", "receive"}
                             /\ sessions > 1 \/ StartsSpill))

\* avbusbctrl.h:70 of usbctrl_write_byte: "Returns 0 on success, -1 on timeout
\* or unrecoverable sticky error".
WriteByteReturns == step = "poll" ~> step \in {"done", "failed"}
=============================================================================
