------------------------------ MODULE UsbFifo ------------------------------
(***************************************************************************)
(* usbfifo.v: a dual-clock show-ahead FIFO with an overflow latch in the   *)
(* write clock's domain and an underflow latch in the read clock's domain. *)
(*                                                                         *)
(* The storage is Altera's dcfifo.  Its two pointers cross the clock       *)
(* boundary through a pipeline, so each side learns late what the other    *)
(* side did, and errs on the safe side: `hidden' words are stored but not  *)
(* yet visible to the read side, `held' words are already popped but still *)
(* counted by the write side.  SyncToRead and SyncToWrite are the two      *)
(* pipelines catching up, by any amount, at any time.                      *)
(***************************************************************************)
EXTENDS Naturals, Sequences

CONSTANTS
  Byte,     (* the words stored                                            *)
  Depth     (* fifodepth: 1024 by default, 256 in DE0Qsys                  *)

VARIABLES
  q,            (* the stored words, oldest first                          *)
  hidden,       (* newest words the read side does not see yet             *)
  held,         (* popped words the write side still counts                *)
  wrOverflow,   (* wr_overflow_latch                                       *)
  rdUnderflow   (* rd_underflow_latch                                      *)

vars == <<q, hidden, held, wrOverflow, rdUnderflow>>

(***************************************************************************)
(* What each side observes.                                                *)
(***************************************************************************)
WrCount == Len(q) + held
RdCount == Len(q) - hidden

wrfull  == WrCount = Depth
rdempty == RdCount = 0

\* The usedw ports are $clog2(fifodepth) bits wide: a full FIFO reads as 0.
wrusedw == WrCount % Depth
rdusedw == RdCount % Depth

Init == /\ q = << >>
        /\ hidden = 0
        /\ held = 0
        /\ wrOverflow = FALSE
        /\ rdUnderflow = FALSE

\* the stored words survive the reset
MutClear == /\ held' = 0
            /\ wrOverflow' = FALSE
            /\ rdUnderflow' = FALSE
            /\ UNCHANGED <<q, hidden>>

\* aclr: everything is cleared asynchronously.
Clear == /\ q' = << >>
         /\ hidden' = 0
         /\ held' = 0
         /\ wrOverflow' = FALSE
         /\ rdUnderflow' = FALSE

TypeOK == /\ q \in Seq(Byte)
          /\ hidden \in 0 .. Len(q)
          /\ held \in Nat
          /\ Len(q) + held <= Depth
          /\ wrOverflow \in BOOLEAN
          /\ rdUnderflow \in BOOLEAN

(***************************************************************************)
(* A write-clock edge.  overflow_checking is ON: a write to a full FIFO    *)
(* stores nothing, and sets the latch unless flag_clear holds it down.     *)
(***************************************************************************)
WrEdge(wrreq, data, clear) ==
  LET store == wrreq /\ ~wrfull
  IN  /\ q' = IF store THEN Append(q, data) ELSE q
      /\ hidden' = IF store THEN hidden + 1 ELSE hidden
      /\ wrOverflow' = (~clear /\ (wrOverflow \/ (wrreq /\ wrfull)))
      /\ rdUnderflow' = (~clear /\ rdUnderflow)
      /\ UNCHANGED held

(***************************************************************************)
(* A read-clock edge; underflow_checking is ON in the same way.            *)
(***************************************************************************)
RdEdge(rdreq, clear) ==
  LET take == rdreq /\ ~rdempty
  IN  /\ q' = IF take THEN Tail(q) ELSE q
      /\ held' = IF take THEN held + 1 ELSE held
      /\ rdUnderflow' = (~clear /\ (rdUnderflow \/ (rdreq /\ rdempty)))
      /\ wrOverflow' = (~clear /\ wrOverflow)
      /\ UNCHANGED hidden

\* the last word written never shows
MutSyncToRead == /\ \E n \in 1 .. hidden : n < hidden /\ hidden' = n
                 /\ UNCHANGED <<q, held, wrOverflow, rdUnderflow>>

\* The write pointer reaches the read clock's domain.
SyncToRead == /\ \E n \in 0 .. hidden : n < hidden /\ hidden' = n
              /\ UNCHANGED <<q, held, wrOverflow, rdUnderflow>>

\* The read pointer reaches the write clock's domain.
SyncToWrite == /\ \E n \in 0 .. held : n < held /\ held' = n
               /\ UNCHANGED <<q, hidden, wrOverflow, rdUnderflow>>

=============================================================================
