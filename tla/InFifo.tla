------------------------------- MODULE InFifo -------------------------------
(***************************************************************************)
(* in_fifo.v (USE_APP_CLK = 0): the ring buffer between the application    *)
(* and IN transactions.  The application's bytes stay in the buffer until  *)
(* the packet that carried them is acknowledged.                           *)
(***************************************************************************)
EXTENDS Naturals, Sequences

CONSTANT InMax      \* IN_MAXPACKETSIZE: also the capacity of the buffer

VARIABLES
  buf,      (* in_fifo_q from in_first_q up to in_last_q                   *)
  sent,     (* in_first_qq - in_first_q: bytes of buf in the packet        *)
  valid,    (* in_valid_q: the packet has another byte                     *)
  state     (* in_state_q                                                  *)

vars == <<buf, sent, valid, state>>

TypeOK == /\ buf \in Seq(Nat)
          /\ Len(buf) <= InMax
          /\ sent \in 0 .. Len(buf)
          /\ valid \in BOOLEAN
          /\ state \in {"IDLE", "DATA"}

Init == buf = << >> /\ sent = 0 /\ valid = FALSE /\ state = "IDLE"

\* The application puts a byte in while the buffer is not full.
MutFull == Len(buf) > InMax                    \* one byte too many
Full    == Len(buf) = InMax
Push(b) == /\ ~Full
           /\ buf' = Append(buf, b)
           /\ UNCHANGED <<sent, valid, state>>

MutRequest == /\ valid' = (sent < Len(buf))     \* goes on where it stopped
              /\ state' = "DATA"
              /\ UNCHANGED <<buf, sent>>

\* in_req_i rises: the packet starts at the oldest byte not acknowledged.
Request == /\ sent' = 0
           /\ valid' = (buf # << >>)
           /\ state' = "DATA"
           /\ UNCHANGED buf

\* in_ready_i: the SIE takes a byte.  `valid' only falls until the next
\* request: a byte that comes too late waits for the next packet.
Fetch == /\ sent' = sent + 1
         /\ valid' = (sent + 1 < Len(buf))
         /\ UNCHANGED <<buf, state>>

MutFlushed == << >>                            \* also what came later

\* in_data_ack_i with out_ready_i: what was sent is flushed.
Flushed == IF state = "DATA" THEN SubSeq(buf, sent + 1, Len(buf)) ELSE buf
Acknowledge == /\ buf' = Flushed
               /\ sent' = IF state = "DATA" THEN 0 ELSE sent
               /\ state' = "IDLE"
               /\ UNCHANGED valid

\* out_valid_i or out_ready_i of another transaction: an unacknowledged
\* packet is abandoned; its bytes stay.
Abandon == state' = "IDLE" /\ UNCHANGED <<buf, sent, valid>>

=============================================================================
