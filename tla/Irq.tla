--------------------------------- MODULE Irq ---------------------------------
(***************************************************************************)
(* How an interrupt reaches its handler: the 8259 pair programmed by        *)
(* drivers/pic/pic.c, the dispatch of kernel/arch/x86_64/idt.c, and the     *)
(* order in which kmain masks, registers, unmasks and finally executes sti. *)
(*                                                                          *)
(* The two 8259s are hardware: edge-triggered requests, fixed priorities,   *)
(* the slave cascaded into line 2 of the master, non-specific EOI.          *)
(* Handlers run through interrupt gates, so they do not nest.               *)
(***************************************************************************)
EXTENDS Integers, FiniteSets

CONSTANTS
    Lines,          \* lines on which some device may raise a request
    Main            \* the CPU runs no handler

TIMER_IRQ == 0
KEYBOARD_IRQ == 1
CASCADE == 2
MOUSE_IRQ == 12

Irqs == 0 .. 15
Master == 0 .. 7
Slave == 8 .. 15

ASSUME IrqAssumption == Lines \subseteq Irqs \ {CASCADE} /\ Main \notin Irqs

VARIABLES
    imr,        \* masked lines of both controllers
    irr,        \* requests not yet accepted
    isr,        \* lines in service
    handlers,   \* lines whose vector has an entry in idt.c's handlers[]
    iflag,      \* the CPU's interrupt flag
    boot,       \* the next step of kmain
    cpu         \* Main, or the line whose handler runs

pics == <<imr, irr, isr>>
irqVars == <<imr, irr, isr, handlers, iflag, boot, cpu>>

\* As the firmware leaves the machine: nothing masked, interrupts disabled.
IrqInit ==
    /\ imr = {} /\ irr = {} /\ isr = {}
    /\ handlers = {}
    /\ iflag = FALSE
    /\ boot = "pic"
    /\ cpu = Main

-----------------------------------------------------------------------------
(* kmain's part.                                                            *)

\* ICW1 forgets requests and service; the last two writes mask every line.
pic_init ==
    /\ boot = "pic"
    /\ imr' = Irqs /\ irr' = {} /\ isr' = {}
    /\ boot' = "idt"
    /\ UNCHANGED <<handlers, iflag, cpu>>

idt_init ==
    /\ boot = "idt"
    /\ handlers' = {}
    /\ boot' = "keyboard"
    /\ UNCHANGED <<pics, iflag, cpu>>

pic_unmask_irq(irq) == imr' = imr \ {irq}

\* idt_register_handler, then pic_unmask_irq
Install(irq) ==
    /\ handlers' = handlers \cup {irq}
    /\ pic_unmask_irq(irq)
    /\ UNCHANGED <<irr, isr, iflag, cpu>>

\* Mutant: registered, not unmasked.
KeyboardMasked ==
    /\ boot = "keyboard"
    /\ handlers' = handlers \cup {KEYBOARD_IRQ}
    /\ boot' = "mouse"
    /\ UNCHANGED <<pics, iflag, cpu>>
keyboard_init == boot = "keyboard" /\ Install(KEYBOARD_IRQ) /\ boot' = "mouse"
mouse_init == boot = "mouse" /\ Install(MOUSE_IRQ) /\ boot' = "timer"
timer_init == boot = "timer" /\ Install(TIMER_IRQ) /\ boot' = "sti"

Sti ==
    /\ boot = "sti"
    /\ iflag' = TRUE
    /\ boot' = "done"
    /\ UNCHANGED <<pics, handlers, cpu>>

-----------------------------------------------------------------------------
(* The controllers.                                                         *)

Highest(S, i) == i \in S /\ \A j \in S : i <= j

\* Line i asks its controller, which is not busy with it or with a higher one.
Asks(i) ==
    /\ i \in irr \ imr
    /\ \A j \in isr : (j \in Master <=> i \in Master) => i < j

\* A line of the slave also has to get through line 2 of the master.
Deliverable(i) ==
    /\ Asks(i)
    /\ i \in Slave => CASCADE \notin imr /\ \A j \in isr \cap Master : CASCADE < j

Rank(i) == IF i \in Master THEN 16 * i ELSE 16 * CASCADE + i

\* The CPU takes the request of highest priority; the gate clears IF.
Accept ==
    /\ iflag
    /\ \E i \in Irqs :
        /\ Deliverable(i)
        /\ \A j \in Irqs : Deliverable(j) => Rank(i) <= Rank(j)
        /\ irr' = irr \ {i}
        /\ isr' = isr \cup {i} \cup (IF i \in Slave THEN {CASCADE} ELSE {})
        /\ cpu' = i
    /\ iflag' = FALSE
    /\ UNCHANGED <<imr, handlers, boot>>

\* A device raises its line.  The PIT's period is longer than the service of
\* whatever is pending.
Raise(i) ==
    /\ i \notin irr
    /\ i = TIMER_IRQ => cpu = Main /\ \A j \in Irqs : ~Deliverable(j)
    /\ irr' = irr \cup {i}
    /\ UNCHANGED <<imr, isr, handlers, iflag, boot, cpu>>

-----------------------------------------------------------------------------
(* idt_dispatch, the handler it calls, and iretq.                           *)

\* A non-specific EOI ends the service of the highest line.
EOI(S) == {j \in isr \cap S : Highest(isr \cap S, j)}

pic_send_eoi(irq) == isr' = isr \ (EOI(Master) \cup IF irq >= 8 THEN EOI(Slave) ELSE {})

\* Mutant: no end of interrupt.
DispatchWithoutEoi ==
    /\ cpu # Main
    /\ cpu' = Main
    /\ iflag' = TRUE
    /\ UNCHANGED <<pics, handlers, boot>>

idt_dispatch ==
    /\ cpu # Main
    /\ IF cpu \in handlers THEN pic_send_eoi(cpu) ELSE UNCHANGED isr
    /\ cpu' = Main
    /\ iflag' = TRUE
    /\ UNCHANGED <<imr, irr, handlers, boot>>

-----------------------------------------------------------------------------

Boot == pic_init \/ idt_init \/ keyboard_init \/ mouse_init \/ timer_init \/ Sti

IrqNext == Boot \/ Accept \/ idt_dispatch \/ \E i \in Lines : Raise(i)

IrqSpec == IrqInit /\ [][IrqNext]_irqVars

\* Boot, acceptance and handlers go on; devices need not raise anything.
IrqFairSpec == IrqSpec /\ WF_irqVars(Boot) /\ WF_irqVars(Accept) /\ WF_irqVars(idt_dispatch)

-----------------------------------------------------------------------------
(* Properties.                                                              *)

\* Every handler's EOI reaches the controllers it must: outside handlers no line
\* is left in service, so none blocks itself or the lines below it.
NothingLeftInService == cpu = Main => isr = {}

\* A key press is served even though the timer has the higher priority, and a
\* tick is served whatever the other devices do.
InputServed ==
    \A i \in {TIMER_IRQ, KEYBOARD_IRQ} : (boot = "done" /\ i \in irr) ~> (cpu = i)

\* The mouse driver's documentation: IRQ12 is unmasked after the handler is
\* registered, and packets are accumulated one byte at a time.
MouseServed == (boot = "done" /\ MOUSE_IRQ \in irr) ~> (cpu = MOUSE_IRQ)

=============================================================================
