--------------------------------- MODULE Irq ---------------------------------
(***************************************************************************)
(* The HAL's interrupts on the internal controller: the dispatcher of the  *)
(* exception handler, handlers that let higher priorities preempt them,    *)
(* nested critical sections, enabling and registering while devices raise  *)
(* their lines, and instructions that fault in the thread or in a handler. *)
(*                                                                         *)
(* IPENDING is what devices raise and IENABLE lets through; the lowest     *)
(* number goes first.  A device keeps its line up until its handler has    *)
(* acknowledged it.  Handlers do not themselves enable, disable or         *)
(* register interrupts.                                                    *)
(***************************************************************************)
EXTENDS Naturals, Sequences

CONSTANTS
  NIrq,           (* ALT_NIRQ: 32                                          *)
  MaxNesting,     (* bound: nested critical sections                       *)
  MaxRaises       (* bound: times a line is raised or an instruction faults *)

ASSUME IrqAssumption == NIrq \in Nat /\ MaxNesting \in Nat /\ MaxRaises \in Nat

VARIABLES
  lines,                (* raised by their devices                         *)
  raises,
  pie, ienable,         (* status.PIE and IENABLE                          *)
  alt_irq_active, alt_priority_mask,
  handlers,             (* alt_irq[]: the lines that have a handler        *)
  faultHandler,         (* alt_instruction_exception_handler is registered *)
  frames,               (* activations of alt_irq_handler, innermost last  *)
  contexts              (* what the thread's open critical sections restore *)

irqVars == <<lines, raises, pie, ienable, alt_irq_active, alt_priority_mask, handlers, faultHandler, frames, contexts>>

Irqs    == 0 .. NIrq - 1
Pending == lines \cap ienable

-----------------------------------------------------------------------------
Raise(i) ==
  /\ i \notin lines /\ raises < MaxRaises
  /\ lines' = lines \cup {i} /\ raises' = raises + 1
  /\ UNCHANGED <<pie, ienable, alt_irq_active, alt_priority_mask, handlers, faultHandler, frames, contexts>>

\* The processor enters its exception handler with interrupts off; estatus
\* keeps how they were.
Enter(step) ==
  /\ frames' = Append(frames, [step |-> step, irq |-> NIrq, old |-> {}, estatus |-> pie])
  /\ pie' = FALSE

TakeInterrupt ==
  /\ pie /\ Pending # {}
  /\ Enter("dispatch")
  /\ UNCHANGED <<lines, raises, ienable, alt_irq_active, alt_priority_mask, handlers, faultHandler, contexts>>

Top         == frames[Len(frames)]
Step(a, b)  == frames # <<>> /\ Top.step = a /\ frames' = [frames EXCEPT ![Len(frames)].step = b]

\* alt_irq_handler: the lowest pending line's handler, until none is pending.
Dispatch ==
  /\ frames # <<>> /\ Top.step = "dispatch"
  /\ \E i \in Pending :
       /\ \A j \in Pending : i <= j
       /\ frames' = [frames EXCEPT ![Len(frames)] = [@ EXCEPT !.step = "run", !.irq = i, !.old = {}]]
  /\ UNCHANGED <<lines, raises, pie, ienable, alt_irq_active, alt_priority_mask, handlers, faultHandler, contexts>>

\* The exception returns: PIE comes back as it was when it was taken.
Eret ==
  /\ frames' = SubSeq(frames, 1, Len(frames) - 1)
  /\ pie' = Top.estatus

ReturnFromInterrupt ==
  /\ frames # <<>> /\ Top.step = "dispatch" /\ Top.irq # NIrq /\ Pending = {}
  /\ Eret
  /\ UNCHANGED <<lines, raises, ienable, alt_irq_active, alt_priority_mask, handlers, faultHandler, contexts>>

\* A handler acknowledges its device and returns.
Handled ==
  /\ Step("run", "dispatch") \/ Step("open", "acked")
  /\ lines' = lines \ {Top.irq}
  /\ UNCHANGED <<raises, pie, ienable, alt_irq_active, alt_priority_mask, handlers, faultHandler, contexts>>

Below(p) == {i \in Irqs : i < p}

\* alt_irq_interruptible: only lower numbers may interrupt from here on ...
Interruptible ==
  /\ frames # <<>> /\ Top.step = "run"
  /\ frames' = [frames EXCEPT ![Len(frames)] = [@ EXCEPT !.step = "open", !.old = alt_priority_mask]]
  /\ alt_priority_mask' = Below(Top.irq)
  /\ ienable' = alt_irq_active \cap alt_priority_mask'
  /\ pie' = TRUE
  /\ UNCHANGED <<lines, raises, alt_irq_active, handlers, faultHandler, contexts>>

MutNonInterruptible ==
  /\ Step("acked", "dispatch")
  /\ pie' = FALSE
  /\ alt_priority_mask' = Top.old
  /\ UNCHANGED <<lines, raises, ienable, alt_irq_active, handlers, faultHandler, contexts>>

\* ... alt_irq_non_interruptible, before the handler returns.
NonInterruptible ==
  /\ Step("acked", "dispatch")
  /\ pie' = FALSE
  /\ alt_priority_mask' = Top.old
  /\ ienable' = alt_priority_mask' \cap alt_irq_active
  /\ UNCHANGED <<lines, raises, alt_irq_active, handlers, faultHandler, contexts>>

(* Faults *)

\* An instruction of the thread or of a handler faults.
Fault ==
  /\ frames # <<>> => Top.step \in {"run", "open", "acked"}
  /\ raises < MaxRaises /\ raises' = raises + 1
  /\ Enter("fault")
  /\ UNCHANGED <<lines, ienable, alt_irq_active, alt_priority_mask, handlers, faultHandler, contexts>>

\* alt_instruction_exception_entry: the handler mends or skips the instruction;
\* without one the processor breaks or spins for ever.
ServeFault ==
  /\ frames # <<>> /\ Top.step = "fault"
  /\ IF faultHandler THEN Eret ELSE Step("fault", "stopped") /\ UNCHANGED pie
  /\ UNCHANGED <<lines, raises, ienable, alt_irq_active, alt_priority_mask, handlers, faultHandler, contexts>>

Stopped == frames # <<>> /\ Top.step = "stopped"

IrqHandler == TakeInterrupt \/ Dispatch \/ ReturnFromInterrupt \/ Handled \/ Interruptible \/ NonInterruptible \/ ServeFault

-----------------------------------------------------------------------------
(* The thread *)

IrqThread(A) == frames = <<>> /\ A /\ UNCHANGED <<lines, raises, frames, alt_priority_mask>>

\* alt_irq_disable_all and alt_irq_enable_all, which may be nested.
DisableAll ==
  /\ Len(contexts) < MaxNesting
  /\ contexts' = Append(contexts, pie)
  /\ pie' = FALSE
  /\ UNCHANGED <<ienable, alt_irq_active, handlers, faultHandler>>

MutEnableAll ==
  /\ contexts # <<>>
  /\ pie' = TRUE
  /\ contexts' = SubSeq(contexts, 1, Len(contexts) - 1)
  /\ UNCHANGED <<ienable, alt_irq_active, handlers, faultHandler>>

EnableAll ==
  /\ contexts # <<>>
  /\ pie' = contexts[Len(contexts)]
  /\ contexts' = SubSeq(contexts, 1, Len(contexts) - 1)
  /\ UNCHANGED <<ienable, alt_irq_active, handlers, faultHandler>>

\* alt_irq_enable, alt_irq_disable: the shadow and IENABLE, with interrupts off.
SetActive(active) == alt_irq_active' = active /\ ienable' = active

Enable(i) ==
  /\ i \in handlers \ alt_irq_active
  /\ SetActive(alt_irq_active \cup {i})
  /\ UNCHANGED <<pie, handlers, faultHandler, contexts>>

Disable(i) ==
  /\ i \in alt_irq_active
  /\ SetActive(alt_irq_active \ {i})
  /\ UNCHANGED <<pie, handlers, faultHandler, contexts>>

\* alt_iic_isr_register: with a handler the line is enabled, with NULL disabled.
Register(i) ==
  /\ i \notin handlers
  /\ handlers' = handlers \cup {i}
  /\ SetActive(alt_irq_active \cup {i})
  /\ UNCHANGED <<pie, faultHandler, contexts>>

Unregister(i) ==
  /\ i \in handlers
  /\ handlers' = handlers \ {i}
  /\ SetActive(alt_irq_active \ {i})
  /\ UNCHANGED <<pie, faultHandler, contexts>>

\* alt_instruction_exception_register, with a handler or NULL.
RegisterFault ==
  /\ faultHandler' = ~faultHandler
  /\ UNCHANGED <<pie, ienable, alt_irq_active, handlers, contexts>>

IrqThreadStep ==
  \/ DisableAll \/ EnableAll \/ RegisterFault
  \/ \E i \in Irqs : Enable(i) \/ Disable(i) \/ Register(i) \/ Unregister(i)

-----------------------------------------------------------------------------
\* alt_irq_init: IENABLE is cleared, then interrupts are enabled in the
\* processor, before any driver is initialised.
IrqInit ==
  /\ lines = {} /\ raises = 0
  /\ pie = TRUE /\ ienable = {}
  /\ alt_irq_active = {} /\ alt_priority_mask = Irqs
  /\ handlers = {} /\ faultHandler = FALSE
  /\ frames = <<>> /\ contexts = <<>>

IrqNext == (\E i \in Irqs : Raise(i)) \/ Fault \/ IrqHandler \/ IrqThread(IrqThreadStep)

IrqSpec == IrqInit /\ [][IrqNext]_irqVars

-----------------------------------------------------------------------------
\* Interrupts stay off inside a critical section, however sections are nested
\* (alt_irq.h:133) and whatever faults in them; a handler is only interrupted by
\* lines of higher priority (alt_legacy_irq.h:103), or by its own faults, and every
\* line that is dispatched has a handler; when all have returned, IENABLE is what
\* the thread enabled.
IrqNesting ==
  /\ contexts # <<>> =>
       ~pie /\ (frames = <<>> \/ (Len(frames) = 1 /\ Top.step \in {"fault", "stopped"}))
  /\ \A k \in 1 .. Len(frames) - 1 :
       /\ frames[k].step \in {"open", "acked"} \/ frames[k + 1].step \in {"fault", "stopped"}
       /\ \A m \in k + 1 .. Len(frames) : frames[m].irq < frames[k].irq \/ frames[m].irq = NIrq
  /\ \A k \in 1 .. Len(frames) : frames[k].irq \in handlers \cup {NIrq}
  /\ frames = <<>> => ienable = alt_irq_active /\ alt_priority_mask = Irqs

\* Whatever is raised and enabled is acknowledged, or disabled, in the end, and
\* the dispatcher returns to the thread, unless a fault found no handler.
IrqServed == []<>(Stopped \/ (frames = <<>> /\ lines \cap alt_irq_active = {}))
=============================================================================
