------------------------------ MODULE MCCrcTest ------------------------------
(***************************************************************************)
(* A small instance of the CRC test: bytes 0 to 15, payloads of five       *)
(* bytes, headers of two or three characters that share letters with each  *)
(* other and with the payloads.                                            *)
(***************************************************************************)
EXTENDS CrcTestProps

\* 1 = "S", 2 = "T", 3 = newline, 4 = "N", 5 = "P".
MCStart == <<1, 2, 3>>
MCNios  == <<4, 2, 3>>
MCPc    == <<5, 4, 3>>
MCPass  == <<7, 1>>
MCFail  == <<8, 1>>
MCText  == <<5>>
MCLine  == <<3>>
MCDigit == [n \in 0 .. 3 |-> 10 + n]

\* Nothing, or the header that an earlier firmware sent and nobody read.
MCStale == {<<>>, <<4, 2, 3>>}
=============================================================================
