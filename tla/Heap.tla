--------------------------------- MODULE Heap ---------------------------------
(***************************************************************************)
(* The heap of the HAL (alt_sbrk.c): the end of the data segment, which    *)
(* malloc and the profiler move.  Interrupts are disabled during a call.   *)
(***************************************************************************)
EXTENDS Integers, Sequences

CONSTANTS
  HeapStart,  (* __alt_heap_start                                          *)
  HeapLimit,  (* __alt_heap_limit                                          *)
  Increments, (* how much is asked for, or given back                      *)
  MaxBlocks   (* bound: blocks handed out                                  *)

ASSUME HeapConstants == /\ HeapStart \in Nat /\ HeapLimit \in Nat
                        /\ HeapStart <= HeapLimit
                        /\ Increments \subseteq Nat
                        /\ MaxBlocks \in Nat

VARIABLES
  heap_end,
  blocks      (* history: the blocks handed out, from the newest           *)

heapVars == <<heap_end, blocks>>

WordBytes == 4
MutAligned(address) == address
Aligned(address) == ((address + WordBytes - 1) \div WordBytes) * WordBytes

Fits(incr) == Aligned(heap_end) + incr <= HeapLimit

\* The end is rounded up although the request is refused; it may then be above
\* the limit, and even giving back too little is refused.
SbrkFails(incr) ==
  /\ ~Fits(incr)
  /\ heap_end' = Aligned(heap_end)
  /\ UNCHANGED blocks

SbrkGrows(incr) ==
  /\ Fits(incr) /\ Len(blocks) < MaxBlocks
  /\ heap_end' = Aligned(heap_end) + incr
  /\ blocks' = <<[base |-> Aligned(heap_end), end |-> heap_end']>> \o blocks

\* The program gives up what is above the new end: whole blocks from the newest
\* one on, and the end of the one that the new end falls into.
GiveUp(end) ==
  \E k \in 0 .. Len(blocks) :
    /\ \A i \in 1 .. Len(blocks) : i <= k <=> blocks[i].base >= end
    /\ blocks' = [i \in 1 .. Len(blocks) - k |->
                    [base |-> blocks[i + k].base,
                     end  |-> IF blocks[i + k].end <= end THEN blocks[i + k].end ELSE end]]

\* A negative increment.  The code has no lower bound (alt_sbrk.c:88): the caller
\* gives back no more than it has had, down to the start of the heap.
SbrkShrinks(n) ==
  /\ Fits(-n) /\ Aligned(heap_end) - n >= HeapStart
  /\ heap_end' = Aligned(heap_end) - n
  /\ GiveUp(heap_end')

HeapInit == heap_end = HeapStart /\ blocks = << >>
HeapNext == \E n \in Increments :
              SbrkFails(n) \/ SbrkFails(-n) \/ SbrkGrows(n) \/ SbrkShrinks(n)
HeapSpec == HeapInit /\ [][HeapNext]_heapVars
-----------------------------------------------------------------------------

\* Every block in use starts at a word, within the heap, and behind the blocks that
\* were handed out before it; nothing in use is above the end, or above the limit,
\* which the code tests although its comment (alt_sbrk.c:46) says that it performs no
\* bounds checking and hands out memory past any limit.
BlocksDisjoint ==
  \A i \in 1 .. Len(blocks) :
    /\ blocks[i].base % WordBytes = 0
    /\ HeapStart <= blocks[i].base
    /\ blocks[i].base <= blocks[i].end
    /\ blocks[i].end <= (IF i = 1 THEN heap_end ELSE blocks[i - 1].base)
    /\ blocks[i].end <= HeapLimit
=============================================================================
