------------------------------- MODULE Polled -------------------------------
(***************************************************************************)
(* What the BSP's serial drivers do without interrupts: read and write of  *)
(* the polled ("small") builds of the UART and of the JTAG UART, and the   *)
(* line settings that the UART's ioctl changes.                            *)
(*                                                                         *)
(* Characters are numbered: received ones in the order in which they       *)
(* arrive, those to send in the order of the program's string.  A program  *)
(* whose write returns early goes on behind the characters that it was     *)
(* told were taken.                                                        *)
(***************************************************************************)
EXTENDS Integers, Sequences

CONSTANTS
  FifoDepth,      (* of the JTAG UART; the UART holds one character        *)
  CallLengths,    (* lengths of the calls                                  *)
  MaxChars,       (* bound: characters that arrive or are to be sent       *)
  FixedBaud,      (* ALT_AVALON_UART_FB                                    *)
  Freq, Bauds     (* of the UART's clock; what programs ask for            *)

\* No baud rate of 0 is asked for: the divisor would be that of a division by 0.
ASSUME PolledAssumption ==
  /\ FifoDepth \in Nat \ {0} /\ MaxChars \in Nat /\ Freq \in Nat
  /\ CallLengths \subseteq Nat /\ Bauds \subseteq 1 .. Freq
  /\ FixedBaud \in BOOLEAN

VARIABLES
  build,               (* the driver: of the UART or of the JTAG UART      *)
  received, flagged,   (* the device: characters, and STATUS's error bits  *)
  room,                (* characters the transmitter takes                 *)
  doing, left, wanted, noblock,   (* the call; left may pass 0             *)
  seenStatus,          (* the STATUS that the UART's read looks at         *)
  termios, divisor,
  arrived, taken, sent,           (* history                               *)
  told                 (* what the return values of read and write add to  *)

lineVars   == <<received, flagged, room, arrived>>
polledCallVars   == <<doing, left, wanted, noblock, seenStatus, taken, sent, told>>
baudVars   == <<termios, divisor>>
polledVars == <<build, lineVars, polledCallVars, baudVars>>

Depth == IF build = "uart" THEN 1 ELSE FifoDepth

\* A UART's character that was not fetched is overwritten.
Received(bad) ==
  /\ arrived < MaxChars /\ (build = "uart" \/ Len(received) < FifoDepth)
  /\ bad => build = "uart"
  /\ arrived' = arrived + 1
  /\ LET c == [n |-> arrived', bad |-> bad, late |-> doing \in {"clear", "fetch"}]
     IN received' = IF build = "uart" THEN <<c>> ELSE Append(received, c)
  /\ flagged' = (flagged \/ bad)
  /\ UNCHANGED <<build, room, polledCallVars, baudVars>>

RoomMade ==
  /\ room < Depth /\ room' = room + 1
  /\ UNCHANGED <<build, received, flagged, arrived, polledCallVars, baudVars>>

-----------------------------------------------------------------------------
CallPolled(kind, n, nb) ==
  /\ doing = "none"
  /\ kind = "put" => told.write + n <= MaxChars
  /\ doing' = kind /\ left' = n /\ wanted' = n /\ noblock' = nb
  /\ UNCHANGED <<build, lineVars, seenStatus, taken, sent, told, baudVars>>

Done(kind, result) ==
  /\ doing' = "none"
  /\ told' = [told EXCEPT ![kind] = @ + result]

Take == taken' = Append(taken, Head(received)) /\ received' = Tail(received)

\* The UART's read: STATUS is read, cleared, and then, by what it said, the
\* character; one at most.
LookUart ==
  /\ build = "uart" /\ doing = "read"
  /\ doing' = "clear" /\ seenStatus' = [rrdy |-> received # << >>, error |-> flagged]
  /\ UNCHANGED <<lineVars, taken, told>>

NotLooked == [rrdy |-> FALSE, error |-> FALSE]

GiveUpOr(next) ==
  IF noblock THEN Done("read", 0) ELSE doing' = next /\ UNCHANGED told

ClearUart ==
  /\ doing = "clear"
  /\ flagged' = FALSE
  /\ IF seenStatus.rrdy
     THEN doing' = "fetch" /\ UNCHANGED <<seenStatus, told>>
     ELSE GiveUpOr("read") /\ seenStatus' = NotLooked
  /\ UNCHANGED <<received, room, arrived, taken>>

FetchUart ==
  /\ doing = "fetch"
  /\ IF seenStatus.error
     THEN received' = << >> /\ GiveUpOr("read") /\ UNCHANGED taken
     ELSE Take /\ Done("read", 1)
  /\ seenStatus' = NotLooked
  /\ UNCHANGED <<flagged, room, arrived>>

PollUartRead ==
  /\ LookUart \/ ClearUart \/ FetchUart
  /\ UNCHANGED <<build, left, wanted, noblock, sent, baudVars>>

\* The JTAG UART's read: what is there, at least one character if it may block.
PollJtagRead ==
  /\ build = "jtag" /\ doing = "read"
  /\ \/ /\ received # << >> /\ left > 0
        /\ Take /\ left' = left - 1
        /\ IF left' = 0 THEN Done("read", wanted) ELSE UNCHANGED <<doing, told>>
     \/ /\ left = 0 \/ (received = << >> /\ (left < wanted \/ noblock))
        /\ Done("read", wanted - left)
        /\ UNCHANGED <<received, left, taken>>
  /\ UNCHANGED <<build, flagged, room, arrived, wanted, noblock, seenStatus, sent, baudVars>>

SendChar(n) ==
  /\ room > 0 /\ Len(sent) < MaxChars
  /\ room' = room - 1 /\ sent' = Append(sent, n)
NextChar == told.write + (wanted - left) + 1

MutPollUartWrite ==
  /\ build = "uart" /\ doing = "put"
  /\ \/ SendChar(NextChar) /\ left' = left - 1
     \/ room = 0 /\ UNCHANGED <<room, sent, left>>
  /\ IF noblock \/ left' = 0 THEN Done("write", wanted) ELSE UNCHANGED <<doing, told>>
  /\ UNCHANGED <<build, received, flagged, arrived, wanted, noblock, seenStatus, taken, baudVars>>

\* The UART's write polls once if it may not block, and until all are sent if
\* it may; it counts down before it tests, also from a length of 0.
PollUartWrite ==
  /\ build = "uart" /\ doing = "put"
  /\ \/ SendChar(NextChar) /\ left' = left - 1
     \/ room = 0 /\ UNCHANGED <<room, sent, left>>
  /\ IF noblock \/ left' = 0 THEN Done("write", wanted - left') ELSE UNCHANGED <<doing, told>>
  /\ UNCHANGED <<build, received, flagged, arrived, wanted, noblock, seenStatus, taken, baudVars>>

\* The JTAG UART's write polls until all are sent, non-blocking or not.
PollJtagWrite ==
  /\ build = "jtag" /\ doing = "put"
  /\ IF left = 0 THEN UNCHANGED <<room, sent, left>>
     ELSE SendChar(NextChar) /\ left' = left - 1
  /\ IF left' = 0 THEN Done("write", wanted) ELSE UNCHANGED <<doing, told>>
  /\ UNCHANGED <<build, received, flagged, arrived, wanted, noblock, seenStatus, taken, baudVars>>

-----------------------------------------------------------------------------
(* altera_avalon_uart_ioctl *)

DivisorOf(t) == (Freq \div t.ispeed) - 1

\* TIOCMSET: the speed of the request is taken unless it is fixed; a request
\* that still differs from what the device then is set to is undone.
TiocmSet(term) ==
  LET tried == IF FixedBaud THEN termios
               ELSE [termios EXCEPT !.ispeed = term.ispeed, !.ospeed = term.ispeed]
  IN /\ IF term = tried
        THEN termios' = tried /\ divisor' = DivisorOf(tried)
        ELSE /\ termios' = [tried EXCEPT !.ispeed = termios.ispeed, !.ospeed = termios.ispeed]
             /\ UNCHANGED divisor
     /\ UNCHANGED <<build, lineVars, polledCallVars>>

Terms == [ispeed : Bauds, ospeed : Bauds, cflag : {"set up", "other"}]

PolledInit ==
  /\ build \in {"uart", "jtag"}
  /\ received = << >> /\ flagged = FALSE /\ room = Depth
  /\ doing = "none" /\ left = 0 /\ wanted = 0 /\ noblock = FALSE
  /\ seenStatus = NotLooked
  /\ termios \in {t \in Terms : t.ispeed = t.ospeed /\ t.cflag = "set up"}
  /\ divisor = DivisorOf(termios)
  /\ arrived = 0 /\ taken = << >> /\ sent = << >> /\ told = [read |-> 0, write |-> 0]

PolledNext ==
  \/ \E bad \in BOOLEAN : Received(bad)
  \/ RoomMade
  \/ \E kind \in {"read", "put"}, n \in CallLengths, nb \in BOOLEAN : CallPolled(kind, n, nb)
  \/ PollUartRead \/ PollJtagRead \/ PollUartWrite \/ PollJtagWrite
  \/ build = "uart" /\ \E term \in Terms : TiocmSet(term)

PolledSpec == PolledInit /\ [][PolledNext]_polledVars
-----------------------------------------------------------------------------

\* Through any sequence of calls that returned early (altera_avalon_uart_write.c:95)
\* each character is sent once and in order, and read gives back what the device
\* received in order, nothing twice and as many as it says: all of it from the JTAG
\* UART, and from the UART no character that was marked as damaged before the
\* driver looked.  The baud rate is always the one that TIOCMGET would tell.
PolledKept ==
  /\ sent = [i \in 1 .. Len(sent) |-> i]
  /\ doing \notin {"put"} => told.write = Len(sent)
  /\ doing \notin {"read"} => told.read = Len(taken)
  /\ \A i, j \in 1 .. Len(taken \o received) :
       i < j => (taken \o received)[i].n < (taken \o received)[j].n
  /\ build = "jtag" => Len(taken) + Len(received) = arrived
  /\ \A i \in 1 .. Len(taken) : taken[i].bad => taken[i].late
  /\ divisor = DivisorOf(termios) /\ termios.ispeed = termios.ospeed
=============================================================================
