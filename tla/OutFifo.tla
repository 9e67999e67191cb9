------------------------------ MODULE OutFifo -------------------------------
(***************************************************************************)
(* out_fifo.v (USE_APP_CLK = 0): the ring buffer between OUT transactions  *)
(* and the application.  The bytes of a packet are stored as they arrive,  *)
(* behind the committed ones, and become visible to the application only   *)
(* when the packet ends well.                                              *)
(***************************************************************************)
EXTENDS Naturals, Sequences

CONSTANT OutMax     \* OUT_MAXPACKETSIZE: also the capacity of the buffer

VARIABLES
  buf,      (* out_fifo_q from out_first_q up to out_last_q: committed     *)
  fresh,    (* from out_last_q up to out_last_qq: the packet under way     *)
  full,     (* out_full_q                                                  *)
  nak,      (* out_nak_q                                                   *)
  state     (* out_state_q                                                 *)

vars == <<buf, fresh, full, nak, state>>

Used == Len(buf) + Len(fresh)

TypeOK == /\ buf \in Seq(Nat)
          /\ fresh \in Seq(Nat)
          /\ Used <= OutMax
          /\ full \in BOOLEAN
          /\ nak \in BOOLEAN
          /\ state \in {"IDLE", "DATA", "NAK"}

Init == /\ buf = << >> /\ fresh = << >>
        /\ full = FALSE /\ nak = FALSE /\ state = "IDLE"

(***************************************************************************)
(* out_valid_i: a byte arrives.  out_full_q is refreshed within four       *)
(* clocks, and a byte takes at least 32, so that it counts the packet's    *)
(* earlier bytes; a byte the application has just taken it may miss.       *)
(***************************************************************************)
Store(b) ==
  IF full \/ state = "NAK"
  THEN /\ state' = "NAK" /\ nak' = TRUE
       /\ UNCHANGED <<buf, fresh, full>>
  ELSE /\ state' = "DATA" /\ nak' = FALSE
       /\ fresh' = Append(fresh, b)
       /\ full' = (Used + 1 = OutMax)
       /\ UNCHANGED buf

\* out_err_i: the packet is dropped.
Abort == /\ state' = "IDLE" /\ nak' = FALSE
         /\ fresh' = << >>
         /\ UNCHANGED <<buf, full>>

MutEnd == /\ state' = "IDLE"                       \* a part is committed
          /\ buf' = buf \o fresh
          /\ fresh' = << >>
          /\ UNCHANGED <<full, nak>>

\* The packet ends: all of it is committed, or, after a NAK, none of it.
End == /\ state' = "IDLE"
       /\ buf' = IF nak THEN buf ELSE buf \o fresh
       /\ fresh' = << >>
       /\ UNCHANGED <<full, nak>>

\* The application takes a committed byte.
Pop == /\ buf # << >>
       /\ buf' = Tail(buf)
       /\ UNCHANGED <<fresh, full, nak, state>>

\* out_full_q follows the pointers.
Refresh == /\ full # (Used = OutMax)
           /\ full' = (Used = OutMax)
           /\ UNCHANGED <<buf, fresh, nak, state>>

=============================================================================
