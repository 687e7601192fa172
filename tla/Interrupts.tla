----------------------------- MODULE Interrupts -----------------------------
(***************************************************************************)
(* From the interrupt controllers to the handlers and back: the two 8259s  *)
(* (cpu/pic.c), the local APIC, the IDT (cpu/idt.c), the dispatch          *)
(* (cpu/irq.c), and the order in which kmain brings them up.  A driver     *)
(* may unmask an IRQ once interrupts are on; none in the tree does.        *)
(***************************************************************************)
EXTENDS Naturals, FiniteSets

CONSTANTS
    Irqs,       \* the IRQ lines that are used, of 0 .. 15
    Exceptions, \* the exceptions that happen, of 0 .. 31
    Panic,      \* what runs after an exception, for good
    None        \* no gate, no stack, nothing running

ASSUME IrqsAssumption       == Irqs \subseteq 0 .. 15
ASSUME ExceptionsAssumption == Exceptions \subseteq 0 .. 31
ASSUME NoneAssumption ==
    None # Panic /\ {None, Panic} \cap 0 .. 255 = {} /\ None \notin {"pic", "lapic"}

IRQ_BASE     == 32
TIMER_VECTOR == 240
LAPIC_SPURIOUS_VECTOR == 255

(* The three stacks kmain allocates and puts into the TSS, by their purpose. *)
Purpose == [ist \in 1 .. 3 |-> CASE ist = 1 -> "#DF" [] ist = 2 -> "#PF" [] ist = 3 -> "NMI"]

VARIABLES
    step,       \* how far kmain is
    ist,        \* the TSS's interrupt stacks
    idt,        \* the IST index of each gate, 0 for none, None without a gate
    offset,     \* the vector of line 0 of each PIC
    masked,     \* the lines the PICs' mask registers hold back
    pic,        \* the lines that are raised
    inService,  \* each PIC's lines in service
    lapicOn, lapicIrr, lapicIsr,    \* the APIC, and its vectors pending and in service
    iflag,      \* interrupts are enabled
    running,    \* the vector being handled
    source      \* where it came from, until that is told of its end

boot  == <<step, ist, idt, offset>>
pics  == <<masked, pic, inService>>
lapic == <<lapicOn, lapicIrr, lapicIsr>>
cpu   == <<iflag, running, source>>
vars  == <<boot, pics, lapic, cpu>>

(* A line's PIC, 1 or 2, and its number there; 2 is where PIC2 enters PIC1. *)
Chip(irq) == IF irq < 8 THEN 1 ELSE 2
Line(irq) == irq % 8
Cascade   == 2

(* The BIOS's offsets; the boot loader leaves every line masked or not. *)
Init ==
    /\ step = "gdt_init" /\ ist = [n \in 1 .. 3 |-> None] /\ idt = [v \in 0 .. 255 |-> None]
    /\ offset = <<8, 112>> /\ masked \in {{}, 0 .. 15} /\ pic = {} /\ inService = <<{}, {}>>
    /\ lapicOn = FALSE /\ lapicIrr = {} /\ lapicIsr = {}
    /\ iflag = FALSE /\ running = None /\ source = None

-----------------------------------------------------------------------------
(* kmain, in its order. *)
Kmain(now, next) == step = now /\ step' = next /\ running = None

gdt_set_ist ==
    /\ Kmain("gdt_init", "idt_init")
    /\ ist' = Purpose
    /\ UNCHANGED <<idt, offset, pics, lapic, cpu>>

(* Mutant: the second PIC's gates are left out. *)
Mut_Gate(v) ==
    IF v < 32 \/ v \in 32 .. 39 \cup {TIMER_VECTOR, LAPIC_SPURIOUS_VECTOR} THEN 0 ELSE None

Gate(v) ==
    IF v \in {2, 8} THEN 1 ELSE IF v = 14 THEN 2
    ELSE IF v < 32 + 16 \/ v \in {TIMER_VECTOR, LAPIC_SPURIOUS_VECTOR} THEN 0 ELSE None

idt_init ==
    /\ Kmain("idt_init", "irq_init")
    /\ idt' = [v \in 0 .. 255 |-> Gate(v)]
    /\ UNCHANGED <<ist, offset, pics, lapic, cpu>>

(* The initialisation words forget what was raised and in service. *)
pic_init(o1, o2) == offset' = <<o1, o2>> /\ pic' = {} /\ inService' = <<{}, {}>>

irq_init ==
    /\ Kmain("irq_init", "timer_init")
    /\ pic_init(IRQ_BASE, IRQ_BASE + 8)
    /\ masked' = 0 .. 15
    /\ UNCHANGED <<ist, idt, lapic, cpu>>

timer_init ==
    /\ Kmain("timer_init", "idt_enable")
    /\ lapicOn' = TRUE
    /\ UNCHANGED <<ist, idt, offset, pics, lapicIrr, lapicIsr, cpu>>

idt_enable ==
    /\ Kmain("idt_enable", "up")
    /\ iflag' = TRUE
    /\ UNCHANGED <<ist, idt, offset, pics, lapic, running, source>>

(* A driver. *)
pic_clear_mask(irq) ==
    /\ step = "up" /\ running # Panic /\ masked' = masked \ {irq}
    /\ UNCHANGED <<boot, pic, inService, lapic, cpu>>

-----------------------------------------------------------------------------
(* The devices. *)
Raise(irq) ==
    /\ pic' = pic \cup {irq}
    /\ UNCHANGED <<boot, masked, inService, lapic, cpu>>

TimerFires ==
    /\ lapicOn /\ lapicIrr' = lapicIrr \cup {TIMER_VECTOR}
    /\ UNCHANGED <<boot, pics, lapicOn, lapicIsr, cpu>>

(* A PIC holds an interrupt back while one of the same or a higher priority is
   in service; a line of PIC2 is one of PIC1 as well. *)
Free(chip, line) == \A l \in inService[chip] : line < l
Acknowledge(irq) ==
    IF Chip(irq) = 1 THEN [inService EXCEPT ![1] = @ \cup {Line(irq)}]
    ELSE [inService EXCEPT ![1] = @ \cup {Cascade}, ![2] = @ \cup {Line(irq)}]

Take(vector, from) ==
    /\ iflag /\ running = None
    /\ running' = vector /\ source' = from /\ iflag' = FALSE

TakeIrq(irq) ==
    /\ irq \in pic \ masked
    /\ IF Chip(irq) = 1 THEN Free(1, Line(irq)) ELSE Free(1, Cascade) /\ Free(2, Line(irq))
    /\ pic' = pic \ {irq} /\ inService' = Acknowledge(irq)
    /\ Take(offset[Chip(irq)] + Line(irq), "pic")
    /\ UNCHANGED <<boot, masked, lapic>>

(* A line that falls again before it is acknowledged is answered with line 7,
   which is not put in service; if PIC2 does that, PIC1 does not know. *)
TakeSpuriousIrq(chip) ==
    /\ masked # 0 .. 15
    /\ IF chip = 1 THEN Free(1, 7) /\ UNCHANGED inService
       ELSE Free(1, Cascade) /\ inService' = [inService EXCEPT ![1] = @ \cup {Cascade}]
    /\ Take(offset[chip] + 7, "pic")
    /\ UNCHANGED <<boot, masked, pic, lapic>>

TakeTimer ==
    /\ TIMER_VECTOR \in lapicIrr /\ lapicIsr = {}
    /\ lapicIrr' = lapicIrr \ {TIMER_VECTOR} /\ lapicIsr' = {TIMER_VECTOR}
    /\ Take(TIMER_VECTOR, "lapic")
    /\ UNCHANGED <<boot, pics, lapicOn>>

TakeSpuriousVector ==
    /\ lapicOn /\ Take(LAPIC_SPURIOUS_VECTOR, "lapic")
    /\ UNCHANGED <<boot, pics, lapic>>

(* An exception, at any moment after its gate is there; isr_common_handler
   panics, with interrupts off for good. *)
Exception(v) ==
    /\ idt[v] # None /\ running # Panic
    /\ running' = Panic /\ source' = None /\ iflag' = FALSE
    /\ UNCHANGED <<boot, pics, lapic>>

-----------------------------------------------------------------------------
Highest(lines) == {l \in lines : \A m \in lines : l <= m}
Eoi(chip)      == inService[chip] \ Highest(inService[chip])

(* Mutant: only the first PIC is told. *)
Mut_pic_send_eoi(irq) == inService' = [inService EXCEPT ![1] = Eoi(1)]

pic_send_eoi(irq) ==
    inService' = IF irq >= 8 THEN <<Eoi(1), Eoi(2)>> ELSE [inService EXCEPT ![1] = Eoi(1)]

lapic_eoi(v) ==
    lapicIsr' = IF lapicOn /\ v # LAPIC_SPURIOUS_VECTOR
                THEN lapicIsr \ {l \in lapicIsr : \A m \in lapicIsr : m <= l} ELSE lapicIsr

(* The handler runs and the controller is told. *)
Dispatch ==
    /\ running \notin {None, Panic} /\ running >= IRQ_BASE
    /\ IF running < IRQ_BASE + 16 THEN pic_send_eoi(running - IRQ_BASE) /\ UNCHANGED lapicIsr
       ELSE lapic_eoi(running) /\ UNCHANGED inService
    /\ source' = None
    /\ UNCHANGED <<boot, masked, pic, lapicOn, lapicIrr>>

(* And iretq enables interrupts. *)
irq_common_handler == Dispatch /\ running' = None /\ iflag' = TRUE

Next ==
    \/ gdt_set_ist \/ idt_init \/ irq_init \/ timer_init \/ idt_enable
    \/ \E irq \in Irqs : pic_clear_mask(irq) \/ Raise(irq) \/ TakeIrq(irq)
    \/ \E chip \in 1 .. 2 : TakeSpuriousIrq(chip)
    \/ TimerFires \/ TakeTimer \/ TakeSpuriousVector
    \/ \E v \in Exceptions : Exception(v)
    \/ irq_common_handler

Spec == Init /\ [][Next]_vars

-----------------------------------------------------------------------------
(* A device's interrupt goes through a gate, to a stub of irq_common and never
   to one of an exception; the IRQ the dispatch makes of the vector is the line
   that was acknowledged, or the spurious line 7 of its PIC. *)
VectorsRight ==
    source # None =>
        /\ idt[running] # None /\ running >= IRQ_BASE
        /\ source = "pic" =>
              LET irq == running - IRQ_BASE IN
              irq \in 0 .. 15 /\ (Line(irq) \in inService[Chip(irq)] \/ Line(irq) = 7)

(* Whichever controller an interrupt came from, spurious or not, when the next
   can be taken nothing is left in service: no controller holds back the
   interrupts that follow because its end-of-interrupt went astray. *)
NothingInService ==
    running = None => inService = <<{}, {}>> /\ lapicIsr = {}

(* "alloc nmi stack": the NMI runs on the stack that was allocated for it. *)
NmiOnItsStack ==
    step = "up" => ist[idt[2]] = "NMI"
=============================================================================
