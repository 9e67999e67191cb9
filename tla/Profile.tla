------------------------------ MODULE Profile -------------------------------
(***************************************************************************)
(* The call graph of a profiled program: mcount (alt_mcount.S), which the  *)
(* compiler calls at the start of every function, and __mcount_record and  *)
(* the start of the PC sampler in alt_gmon.c.                              *)
(*                                                                         *)
(* A handler that interrupts a function is profiled too, and may interrupt *)
(* mcount itself at every memory access: `levels' is the stack of mcounts  *)
(* that have begun.  An entry that has been linked never changes but for   *)
(* its count and the head of its arcs, so that a walk along a list sees    *)
(* the list as it was when its head was loaded.  One hash bucket stands    *)
(* for all; allocation succeeds.                                           *)
(***************************************************************************)
EXTENDS SequencesExt, FiniteSetsExt

CONSTANTS
  Functions, Callers,   (* self_pc and from_pc                             *)
  MaxLevels,            (* bound: nesting of interrupts                    *)
  MaxCalls              (* bound: calls                                    *)

ASSUME ProfileAssumption == MaxLevels \in Nat /\ MaxCalls \in Nat

VARIABLES
  fnHead,               (* __mcount_fn_head: function entries, newest first*)
  fns,                  (* mcount_fn_entry, numbered by allocation         *)
  arcs,                 (* mcount_fn_arc                                   *)
  need_init, samplers,  (* pcsample_need_init; starts of the sampler       *)
  ticking,              (* alt_ticks_per_second() # 0                      *)
  interruptible,        (* interrupts are enabled                          *)
  levels,
  begun, ended,         (* history: calls, by function and caller          *)
  nested                (* history: an interrupt came into an mcount       *)

tableVars   == <<fnHead, fns, arcs>>
samplerVars == <<need_init, samplers, ticking>>
historyVars    == <<begun, nested>>
profileVars == <<tableVars, samplerVars, interruptible, levels, historyVars, ended>>

Pairs == Functions \X Callers
topFrame   == Last(levels)

\* The innermost mcount goes on at pc, with some of its registers changed.
Goes(frame, pc) == levels' = Front(levels) \o <<[frame EXCEPT !.pc = pc]>>
At(pc) == levels # << >> /\ topFrame.pc = pc

\* mcount returns; a handler, to what it interrupted.
Returns ==
  /\ levels' = Front(levels)
  /\ ended' = [ended EXCEPT ![<<topFrame.self, topFrame.from>>] = @ + 1]

\* The first entry of a list that satisfies Test, or 0.
FirstWhere(list, Test(_)) ==
  LET hits == {i \in 1 .. Len(list) : Test(list[i])}
  IN IF hits = {} THEN 0 ELSE list[Min(hits)]

-----------------------------------------------------------------------------
(* Calls of profiled functions *)

Frame(self, from, handler) ==
  [self |-> self, from |-> from, pc |-> "findFunction", entry |-> 0, arc |-> 0,
   count |-> 0, next |-> << >>, context |-> FALSE, handler |-> handler]

\* The thread calls a function, or a handler does, in an interrupt that the
\* thread or another handler has open.
Mcount(self, from) ==
  /\ Len(levels) < MaxLevels
  /\ FoldFunction(+, 0, begun) < MaxCalls
  /\ levels = << >> \/ interruptible
  /\ levels' = Append(levels, Frame(self, from, levels # << >>))
  /\ begun' = [begun EXCEPT ![<<self, from>>] = @ + 1]
  /\ nested' = (nested \/ levels # << >>)
  /\ IF levels = << >> THEN UNCHANGED interruptible ELSE interruptible' \in BOOLEAN
  /\ UNCHANGED <<tableVars, samplerVars, ended>>

\* alt_mcount.S: find the function, then the arc.
FindFunction ==
  /\ At("findFunction")
  /\ LET IsSelf(i) == fns[i].self = topFrame.self
         found == FirstWhere(fnHead, IsSelf)
     IN Goes([topFrame EXCEPT !.entry = found], IF found = 0 THEN "record" ELSE "findArc")
  /\ UNCHANGED <<tableVars, samplerVars, interruptible, historyVars, ended>>

FindArc ==
  /\ At("findArc")
  /\ LET IsFrom(i) == arcs[i].from = topFrame.from
         found == FirstWhere(fns[topFrame.entry].arcs, IsFrom)
     IN Goes([topFrame EXCEPT !.arc = found], IF found = 0 THEN "record" ELSE "load")
  /\ UNCHANGED <<tableVars, samplerVars, interruptible, historyVars, ended>>

\* The fast case increments the count by a load and a store.
LoadCount ==
  /\ At("load")
  /\ Goes([topFrame EXCEPT !.count = arcs[topFrame.arc].count], "store")
  /\ UNCHANGED <<tableVars, samplerVars, interruptible, historyVars, ended>>

StoreCount ==
  /\ At("store")
  /\ arcs' = [arcs EXCEPT ![topFrame.arc].count = topFrame.count + 1]
  /\ Returns
  /\ interruptible' = (interruptible \/ topFrame.handler)
  /\ UNCHANGED <<fnHead, fns, samplerVars, historyVars>>

-----------------------------------------------------------------------------
(* __mcount_record *)

SamplerTest ==
  /\ At("record")
  /\ Goes(topFrame, IF need_init THEN "claim" ELSE "disable")
  /\ UNCHANGED <<tableVars, samplerVars, interruptible, historyVars, ended>>

SamplerClaim ==
  /\ At("claim")
  /\ need_init' = FALSE
  /\ Goes(topFrame, "start")
  /\ UNCHANGED <<tableVars, samplers, ticking, interruptible, historyVars, ended>>

\* nios2_pcsample_init: not before the system clock runs.
SamplerStart ==
  /\ At("start")
  /\ need_init' = ~ticking
  /\ samplers' = IF ticking THEN samplers + 1 ELSE samplers
  /\ Goes(topFrame, "disable")
  /\ UNCHANGED <<tableVars, ticking, interruptible, historyVars, ended>>

MutCloseInterrupts ==
  /\ At("disable")
  /\ Goes([topFrame EXCEPT !.context = interruptible], IF topFrame.entry = 0 THEN "newFunction" ELSE "newArc")
  /\ UNCHANGED <<tableVars, samplerVars, interruptible, historyVars, ended>>

CloseInterrupts ==
  /\ At("disable")
  /\ interruptible' = FALSE
  /\ Goes([topFrame EXCEPT !.context = interruptible], IF topFrame.entry = 0 THEN "newFunction" ELSE "newArc")
  /\ UNCHANGED <<tableVars, samplerVars, historyVars, ended>>

\* An entry is filled, its next pointer included, and then becomes the fnHead.
NewFunction ==
  /\ At("newFunction")
  /\ fns' = Append(fns, [self |-> topFrame.self, arcs |-> << >>])
  /\ Goes([topFrame EXCEPT !.entry = Len(fns'), !.next = fnHead], "linkFunction")
  /\ UNCHANGED <<fnHead, arcs, samplerVars, interruptible, historyVars, ended>>

LinkFunction ==
  /\ At("linkFunction")
  /\ fnHead' = <<topFrame.entry>> \o topFrame.next
  /\ Goes(topFrame, "newArc")
  /\ UNCHANGED <<fns, arcs, samplerVars, interruptible, historyVars, ended>>

NewArc ==
  /\ At("newArc")
  /\ arcs' = Append(arcs, [from |-> topFrame.from, count |-> 1])
  /\ Goes([topFrame EXCEPT !.arc = Len(arcs'), !.next = fns[topFrame.entry].arcs], "linkArc")
  /\ UNCHANGED <<fnHead, fns, samplerVars, interruptible, historyVars, ended>>

LinkArc ==
  /\ At("linkArc")
  /\ fns' = [fns EXCEPT ![topFrame.entry].arcs = <<topFrame.arc>> \o topFrame.next]
  /\ Goes(topFrame, "enable")
  /\ UNCHANGED <<fnHead, arcs, samplerVars, interruptible, historyVars, ended>>

\* alt_irq_enable_all restores what was; a handler's return opens interrupts.
RestoreInterrupts ==
  /\ At("enable")
  /\ interruptible' = (topFrame.context \/ topFrame.handler)
  /\ Returns
  /\ UNCHANGED <<tableVars, samplerVars, historyVars>>

McountRecord ==
  \/ SamplerTest \/ SamplerClaim \/ SamplerStart
  \/ CloseInterrupts \/ NewFunction \/ LinkFunction \/ NewArc \/ LinkArc
  \/ RestoreInterrupts

\* alt_sysclk_init: from now on the clock ticks.
ClockStarts ==
  /\ ~ticking /\ ticking' = TRUE
  /\ UNCHANGED <<tableVars, need_init, samplers, interruptible, levels, historyVars, ended>>

ProfileInit ==
  /\ fnHead = << >> /\ fns = << >> /\ arcs = << >>
  /\ need_init = TRUE /\ samplers = 0 /\ ticking = FALSE
  /\ interruptible = TRUE /\ levels = << >>
  /\ begun = [pair \in Pairs |-> 0] /\ ended = begun
  /\ nested = FALSE

ProfileNext ==
  \/ \E self \in Functions, from \in Callers : Mcount(self, from)
  \/ FindFunction \/ FindArc \/ LoadCount \/ StoreCount
  \/ McountRecord
  \/ ClockStarts

ProfileSpec == ProfileInit /\ [][ProfileNext]_profileVars
-----------------------------------------------------------------------------

\* The arcs that the tool on the host will find for a pair, and their counts.
ArcsOf(pair) ==
  {i \in 1 .. Len(arcs) :
     /\ arcs[i].from = pair[2]
     /\ \E f \in ToSet(fnHead) : fns[f].self = pair[1] /\ i \in ToSet(fns[f].arcs)}
Counted(pair) == MapThenSumSet(LAMBDA i : arcs[i].count, ArcsOf(pair))

\* alt_gmon.c:151, "must be able to cope with reentrancy": however handlers come
\* into mcount, every call that ended has left its arc in the graph and no arc
\* counts a call that did not begin; without nesting the counts are exact, and
\* the sampler was started once.  (An interrupted increment, alt_mcount.S:120,
\* does lose counts, and an interrupted test, alt_gmon.c:167, starts it twice.)
ProfileKept ==
  \A pair \in Pairs :
    /\ ended[pair] > 0 => Counted(pair) > 0
    /\ Counted(pair) <= begun[pair]
    /\ ~nested => samplers <= 1 /\ (levels = << >> => Counted(pair) = ended[pair])
=============================================================================
