---------------------------- MODULE ByteChannel ----------------------------
(***************************************************************************)
(* What each direction of AvbusbCtrl promises its two users: a bounded     *)
(* byte channel.  Every byte sent is received once, in order, and at most  *)
(* Capacity bytes are under way.  A restart forgets them.                  *)
(***************************************************************************)
EXTENDS Naturals, Sequences

CONSTANTS Byte, Capacity

VARIABLES
  sent,     (* every byte sent since the last restart                      *)
  got       (* every byte received since then                              *)

Init == sent = << >> /\ got = << >>

Send == /\ Len(sent) - Len(got) < Capacity
        /\ \E b \in Byte : sent' = Append(sent, b)
        /\ UNCHANGED got

Receive == /\ Len(got) < Len(sent)
           /\ got' = Append(got, sent[Len(got) + 1])
           /\ UNCHANGED sent

Restart == sent' = << >> /\ got' = << >>

Next == Send \/ Receive \/ Restart

Spec == Init /\ [][Next]_<<sent, got>>
=============================================================================
