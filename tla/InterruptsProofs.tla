--------------------------- MODULE InterruptsProofs ---------------------------
(***************************************************************************)
(* Interrupts and the machine code between user mode and C: VectorsRight,  *)
(* NothingInService, ModesRight, CallsRight and Resumes for any number of  *)
(* threads and any sets of IRQs, exceptions and system calls.  IInv is the *)
(* invariant of the controllers, EInv that of the machine code, which      *)
(* needs IInv: what an iretq returns to depends on what was taken.         *)
(***************************************************************************)
EXTENDS Entry, TLAPS, SequenceTheorems

Steps == {"gdt_init", "idt_init", "irq_init", "timer_init", "idt_enable", "up"}

Quiet == running \in {None, Panic}

InvType ==
    /\ step \in Steps
    /\ masked \subseteq 0 .. 15 /\ pic \subseteq Irqs
    /\ inService \in [1 .. 2 -> SUBSET (0 .. 7)]
    /\ lapicOn \in BOOLEAN /\ iflag \in BOOLEAN
    /\ lapicIrr \subseteq {TIMER_VECTOR} /\ lapicIsr \subseteq {TIMER_VECTOR}
    /\ running \in {None, Panic} \cup 0 .. 255

(* Interrupts are off until kmain has the gates, the PICs and the APIC set up. *)
InvBoot ==
    /\ step \in {"irq_init", "timer_init", "idt_enable", "up"} => idt = [v \in 0 .. 255 |-> Gate(v)]
    /\ step \in {"timer_init", "idt_enable", "up"} => offset = <<IRQ_BASE, IRQ_BASE + 8>>
    /\ step \in {"idt_enable", "up"} => lapicOn = TRUE
    /\ step # "up" => iflag = FALSE /\ Quiet
    /\ iflag => running = None

(* What is in service is what is being handled, and the vector says what that is. *)
InServiceOf(v) ==
    \/ /\ v \in 32 .. 39 /\ inService[1] \subseteq {v - 32} /\ inService[2] = {} /\ lapicIsr = {}
       /\ inService[1] = {v - 32} \/ v = 39
    \/ /\ v \in 40 .. 47 /\ inService[1] = {Cascade} /\ inService[2] \subseteq {v - 40} /\ lapicIsr = {}
       /\ inService[2] = {v - 40} \/ v = 47
    \/ v = TIMER_VECTOR /\ inService[1] = {} /\ inService[2] = {} /\ lapicIsr = {TIMER_VECTOR}
    \/ v = LAPIC_SPURIOUS_VECTOR /\ inService[1] = {} /\ inService[2] = {} /\ lapicIsr = {}

Nothing == inService[1] = {} /\ inService[2] = {} /\ lapicIsr = {}

InvService ==
    /\ source # None => /\ ~Quiet /\ InServiceOf(running)
                        /\ source = "pic" => running \in 32 .. 47
    /\ source = None /\ running # Panic => Nothing
    /\ ~Quiet => running \in 32 .. 47 \cup {TIMER_VECTOR, LAPIC_SPURIOUS_VECTOR} /\ idt[running] # None

IInv == InvType /\ InvBoot /\ InvService

-----------------------------------------------------------------------------
LEMMA InitIInv == Init => IInv
<1> SUFFICES ASSUME Init PROVE IInv
  OBVIOUS
<1>1. inService \in [1 .. 2 -> SUBSET (0 .. 7)] /\ inService[1] = {} /\ inService[2] = {}
  BY DEF Init
<1>2. InvType
  BY <1>1 DEF Init, InvType, Steps
<1>3. InvBoot /\ InvService
  BY <1>1, NoneAssumption DEF Init, InvBoot, InvService, Nothing, Quiet
<1> QED BY <1>2, <1>3 DEF IInv

(* A pair is what its parts are. *)
LEMMA PairEq ==
    ASSUME NEW s \in [1 .. 2 -> SUBSET (0 .. 7)], s[1] = {}, s[2] = {}
    PROVE  s = <<{}, {}>>
OBVIOUS

LEMMA GateThere ==
    ASSUME NEW v \in 32 .. 47 \cup {TIMER_VECTOR, LAPIC_SPURIOUS_VECTOR}
    PROVE  Gate(v) # None
<1>1. None \notin 0 .. 255
  BY NoneAssumption
<1>2. Gate(v) \in 0 .. 255
  BY DEF Gate, TIMER_VECTOR, LAPIC_SPURIOUS_VECTOR
<1> QED BY <1>1, <1>2

LEMMA Invariants == IInv => VectorsRight /\ NothingInService
<1> SUFFICES ASSUME IInv PROVE VectorsRight /\ NothingInService
  OBVIOUS
<1>1. NothingInService
  <2> SUFFICES ASSUME running = None PROVE inService = <<{}, {}>> /\ lapicIsr = {}
    BY DEF NothingInService
  <2>1. Nothing
    BY NoneAssumption DEF IInv, InvService, Quiet
  <2> QED BY <2>1, PairEq DEF IInv, InvType, Nothing
<1>2. VectorsRight
  <2> SUFFICES ASSUME source # None
               PROVE  /\ idt[running] # None /\ running >= IRQ_BASE
                      /\ source = "pic" =>
                            /\ running - IRQ_BASE \in 0 .. 15
                            /\ \/ Line(running - IRQ_BASE) \in inService[Chip(running - IRQ_BASE)]
                               \/ Line(running - IRQ_BASE) = 7
    BY DEF VectorsRight
  <2>1. ~Quiet /\ InServiceOf(running) /\ idt[running] # None
    BY DEF IInv, InvService
  <2>2. running \in 32 .. 47 \cup {TIMER_VECTOR, LAPIC_SPURIOUS_VECTOR}
    BY <2>1 DEF InServiceOf, TIMER_VECTOR, LAPIC_SPURIOUS_VECTOR
  <2>3. running >= IRQ_BASE
    BY <2>2 DEF IRQ_BASE, TIMER_VECTOR, LAPIC_SPURIOUS_VECTOR
  <2>4. ASSUME source = "pic"
        PROVE  /\ running - IRQ_BASE \in 0 .. 15
               /\ \/ Line(running - IRQ_BASE) \in inService[Chip(running - IRQ_BASE)]
                  \/ Line(running - IRQ_BASE) = 7
    <3>1. running \in 32 .. 47
      BY <2>4 DEF IInv, InvService
    <3>2. CASE running \in 32 .. 39
      BY <2>1, <3>2 DEF InServiceOf, IRQ_BASE, Line, Chip, TIMER_VECTOR, LAPIC_SPURIOUS_VECTOR
    <3>3. CASE running \in 40 .. 47
      BY <2>1, <3>3 DEF InServiceOf, IRQ_BASE, Line, Chip, TIMER_VECTOR, LAPIC_SPURIOUS_VECTOR
    <3> QED BY <3>1, <3>2, <3>3
  <2> QED BY <2>1, <2>3, <2>4
<1> QED BY <1>1, <1>2
-----------------------------------------------------------------------------
(* kmain's steps: nothing is in service and interrupts are off. *)
LEMMA BootSteps ==
    IInv /\ (gdt_set_ist \/ idt_init \/ irq_init \/ timer_init \/ idt_enable) => IInv'
<1> USE DEF IInv, InvType, InvBoot, InvService, Nothing, Quiet, Steps, Kmain, pics, lapic, cpu
<1> SUFFICES ASSUME IInv, gdt_set_ist \/ idt_init \/ irq_init \/ timer_init \/ idt_enable
             PROVE  IInv'
  OBVIOUS
<1>1. CASE gdt_set_ist
  BY <1>1, NoneAssumption DEF gdt_set_ist
<1>2. CASE idt_init
  BY <1>2, NoneAssumption DEF idt_init
<1>3. CASE irq_init
  <2>1. inService' \in [1 .. 2 -> SUBSET (0 .. 7)] /\ inService'[1] = {} /\ inService'[2] = {}
    BY <1>3 DEF irq_init, pic_init
  <2> QED BY <1>3, <2>1, NoneAssumption DEF irq_init, pic_init
<1>4. CASE timer_init
  BY <1>4, NoneAssumption DEF timer_init
<1>5. CASE idt_enable
  BY <1>5, NoneAssumption DEF idt_enable
<1> QED BY <1>1, <1>2, <1>3, <1>4, <1>5

(* The devices and the drivers leave alone what is in service. *)
LEMMA DeviceSteps ==
    ASSUME IInv, NEW irq \in Irqs, pic_clear_mask(irq) \/ Raise(irq) \/ TimerFires
    PROVE  IInv'
<1> USE DEF IInv, InvType, InvBoot, InvService, Nothing, InServiceOf, boot, pics, lapic, cpu, Quiet
<1>1. CASE pic_clear_mask(irq)
  BY <1>1 DEF pic_clear_mask
<1>2. CASE Raise(irq)
  BY <1>2 DEF Raise
<1>3. CASE TimerFires
  BY <1>3 DEF TimerFires
<1> QED BY <1>1, <1>2, <1>3

(* Before an interrupt is taken nothing is in service, and what boots is up. *)
LEMMA TakeFacts ==
    ASSUME IInv, iflag
    PROVE  /\ step = "up" /\ running = None
           /\ inService[1] = {} /\ inService[2] = {} /\ lapicIsr = {} /\ lapicOn = TRUE
           /\ offset[1] = 32 /\ offset[2] = 40
           /\ \A v \in 32 .. 47 \cup {TIMER_VECTOR, LAPIC_SPURIOUS_VECTOR} : idt[v] # None
<1>1. step = "up" /\ running = None
  BY DEF IInv, InvBoot
<1>2. ASSUME NEW v \in 32 .. 47 \cup {TIMER_VECTOR, LAPIC_SPURIOUS_VECTOR}
      PROVE  idt[v] # None
  <2>1. v \in 0 .. 255
    BY DEF TIMER_VECTOR, LAPIC_SPURIOUS_VECTOR
  <2> QED BY <1>1, <2>1, GateThere DEF IInv, InvBoot
<1> QED BY <1>1, <1>2, NoneAssumption DEF IInv, InvBoot, InvService, Nothing, Quiet, IRQ_BASE

(* However an interrupt was acknowledged, the state after it was taken is
   settled by the vector and by what is in service. *)
LEMMA TakenIInv ==
    ASSUME IInv, NEW v \in 32 .. 47 \cup {TIMER_VECTOR, LAPIC_SPURIOUS_VECTOR},
           NEW from \in {"pic", "lapic"},
           Take(v, from), UNCHANGED <<boot, masked, lapicOn>>,
           pic' \subseteq Irqs, inService' \in [1 .. 2 -> SUBSET (0 .. 7)],
           lapicIrr' \subseteq {TIMER_VECTOR}, lapicIsr' \subseteq {TIMER_VECTOR},
           InServiceOf(v)', from = "pic" => v \in 32 .. 47
    PROVE  IInv'
<1>1. iflag /\ running' = v /\ source' = from /\ iflag' = FALSE
  BY DEF Take
<1>2. v \in 0 .. 255 /\ v \notin {None, Panic}
  <2>1. v \in 0 .. 255
    BY DEF TIMER_VECTOR, LAPIC_SPURIOUS_VECTOR
  <2>2. None \notin 0 .. 255 /\ Panic \notin 0 .. 255
    <3> DEFINE V == 0 .. 255
    <3>1. {None, Panic} \cap V = {}
      BY NoneAssumption, Zenon
    <3> HIDE DEF V
    <3>2. None \notin V /\ Panic \notin V
      BY <3>1
    <3> QED BY <3>2 DEF V
  <2> QED BY <2>1, <2>2, Zenon
<1>3. idt[v] # None /\ step = "up"
  BY <1>1, TakeFacts
<1>4. InvType'
  BY <1>1, <1>2 DEF IInv, InvType, boot
<1>5. InvBoot'
  BY <1>1, <1>3, <1>2 DEF IInv, InvBoot, boot, Quiet
<1>6. InvService'
  <2>1. source' # None
    BY <1>1, NoneAssumption
  <2> QED BY <1>1, <1>2, <1>3, <2>1 DEF InvService, InServiceOf, Quiet, boot
<1> QED BY <1>4, <1>5, <1>6 DEF IInv

LEMMA TakeIrqIInv == ASSUME IInv, NEW irq \in Irqs, TakeIrq(irq) PROVE IInv'
<1>1. irq \in 0 .. 15 /\ iflag
  BY IrqsAssumption DEF TakeIrq, Take
<1>2. /\ inService \in [1 .. 2 -> SUBSET (0 .. 7)] /\ pic \subseteq Irqs /\ lapicIrr \subseteq {TIMER_VECTOR}
      /\ inService[1] = {} /\ inService[2] = {} /\ lapicIsr = {} /\ offset[1] = 32 /\ offset[2] = 40
  BY <1>1, TakeFacts DEF IInv, InvType
<1>3. /\ inService' = Acknowledge(irq) /\ pic' \subseteq Irqs
      /\ UNCHANGED <<boot, masked, lapicOn, lapicIrr, lapicIsr>>
  BY <1>2 DEF TakeIrq, lapic
<1>4. CASE irq < 8
  <2>1. Chip(irq) = 1 /\ Line(irq) = irq
    BY <1>1, <1>4 DEF Chip, Line
  <2>2. inService'[1] = {irq} /\ inService'[2] = {} /\ inService' \in [1 .. 2 -> SUBSET (0 .. 7)]
    BY <1>1, <1>2, <1>3, <1>4, <2>1 DEF Acknowledge
  <2>3. Take(32 + irq, "pic")
    BY <1>2, <2>1 DEF TakeIrq
  <2>4. 32 + irq \in 32 .. 39 /\ (32 + irq) - 32 = irq
    BY <1>1, <1>4
  <2>5. InServiceOf(32 + irq)'
    BY <1>2, <1>3, <2>2, <2>4 DEF InServiceOf
  <2> QED BY <1>2, <1>3, <2>2, <2>3, <2>4, <2>5, TakenIInv
<1>5. CASE irq >= 8
  <2>1. Chip(irq) = 2 /\ Line(irq) = irq - 8 /\ irq - 8 \in 0 .. 7
    BY <1>1, <1>5 DEF Chip, Line
  <2>2. inService'[1] = {Cascade} /\ inService'[2] = {irq - 8} /\ inService' \in [1 .. 2 -> SUBSET (0 .. 7)]
    BY <1>1, <1>2, <1>3, <1>5, <2>1 DEF Acknowledge, Cascade
  <2>3. Take(40 + (irq - 8), "pic")
    BY <1>2, <2>1 DEF TakeIrq
  <2>4. 40 + (irq - 8) \in 40 .. 47 /\ (40 + (irq - 8)) - 40 = irq - 8
    BY <2>1
  <2>5. InServiceOf(40 + (irq - 8))'
    BY <1>2, <1>3, <2>2, <2>4 DEF InServiceOf
  <2> QED BY <1>2, <1>3, <2>2, <2>3, <2>4, <2>5, TakenIInv
<1> QED BY <1>1, <1>4, <1>5

LEMMA TakeSpuriousIrqIInv == ASSUME IInv, NEW chip \in 1 .. 2, TakeSpuriousIrq(chip) PROVE IInv'
<1>1. iflag
  BY DEF TakeSpuriousIrq, Take
<1>2. /\ inService \in [1 .. 2 -> SUBSET (0 .. 7)] /\ pic \subseteq Irqs /\ lapicIrr \subseteq {TIMER_VECTOR}
      /\ inService[1] = {} /\ inService[2] = {} /\ lapicIsr = {} /\ offset[1] = 32 /\ offset[2] = 40
  BY <1>1, TakeFacts DEF IInv, InvType
<1>3. UNCHANGED <<boot, masked, pic, lapicOn, lapicIrr, lapicIsr>>
  BY DEF TakeSpuriousIrq, lapic
<1>4. CASE chip = 1
  <2>1. inService' = inService /\ Take(39, "pic")
    BY <1>2, <1>4 DEF TakeSpuriousIrq
  <2>2. InServiceOf(39)'
    BY <1>2, <1>3, <2>1 DEF InServiceOf
  <2> QED BY <1>2, <1>3, <2>1, <2>2, TakenIInv
<1>5. CASE chip = 2
  <2>1. /\ inService'[1] = {Cascade} /\ inService'[2] = {} /\ inService' \in [1 .. 2 -> SUBSET (0 .. 7)]
        /\ Take(47, "pic")
    BY <1>2, <1>5 DEF TakeSpuriousIrq, Cascade
  <2>2. InServiceOf(47)'
    BY <1>2, <1>3, <2>1 DEF InServiceOf
  <2> QED BY <1>2, <1>3, <2>1, <2>2, TakenIInv
<1> QED BY <1>4, <1>5

LEMMA TakeLapicIInv == IInv /\ (TakeTimer \/ TakeSpuriousVector) => IInv'
<1> SUFFICES ASSUME IInv, TakeTimer \/ TakeSpuriousVector PROVE IInv'
  OBVIOUS
<1>1. iflag
  BY DEF TakeTimer, TakeSpuriousVector, Take
<1>2. /\ inService \in [1 .. 2 -> SUBSET (0 .. 7)] /\ pic \subseteq Irqs /\ lapicIrr \subseteq {TIMER_VECTOR}
      /\ inService[1] = {} /\ inService[2] = {} /\ lapicIsr = {}
  BY <1>1, TakeFacts DEF IInv, InvType
<1>3. UNCHANGED <<boot, masked, pic, inService, lapicOn>>
  BY DEF TakeTimer, TakeSpuriousVector, pics, lapic
<1>4. CASE TakeTimer
  <2>1. InServiceOf(TIMER_VECTOR)'
    BY <1>2, <1>3, <1>4 DEF InServiceOf, TakeTimer
  <2> QED BY <1>2, <1>3, <1>4, <2>1, TakenIInv DEF TakeTimer
<1>5. CASE TakeSpuriousVector
  <2>1. InServiceOf(LAPIC_SPURIOUS_VECTOR)' /\ UNCHANGED lapic
    BY <1>2, <1>3, <1>5 DEF InServiceOf, TakeSpuriousVector, lapic
  <2> QED BY <1>2, <1>3, <1>5, <2>1, TakenIInv DEF TakeSpuriousVector, lapic
<1> QED BY <1>4, <1>5

LEMMA ExceptionIInv == ASSUME IInv, NEW v \in Exceptions, Exception(v) PROVE IInv'
BY NoneAssumption DEF IInv, InvType, InvBoot, InvService, Nothing, Exception, Quiet, boot, pics, lapic

-----------------------------------------------------------------------------
(* The end of interrupt takes out of service what was in it, and a spurious
   one takes nothing out. *)
LEMMA EoiFacts ==
    ASSUME NEW chip \in 1 .. 2, inService \in [1 .. 2 -> SUBSET (0 .. 7)],
           NEW l \in 0 .. 7, inService[chip] \subseteq {l}
    PROVE  Eoi(chip) = {}
BY DEF Eoi, Highest

LEMMA DispatchClears ==
    ASSUME IInv, Dispatch, source # None
    PROVE  inService' \in [1 .. 2 -> SUBSET (0 .. 7)] /\ Nothing'
<1> USE DEF Nothing
<1>1. InServiceOf(running) /\ inService \in [1 .. 2 -> SUBSET (0 .. 7)] /\ lapicOn = TRUE
  BY DEF IInv, InvType, InvBoot, InvService, Dispatch, Quiet, Steps
<1>2. CASE /\ running \in 32 .. 39 /\ inService[1] \subseteq {running - 32}
           /\ inService[2] = {} /\ lapicIsr = {}
  <2>1. running - 32 \in 0 .. 7 /\ running < IRQ_BASE + 16 /\ ~(running - IRQ_BASE >= 8)
    BY <1>2 DEF IRQ_BASE
  <2>2. Eoi(1) = {}
    BY <1>1, <1>2, <2>1, EoiFacts
  <2>3. inService' = [inService EXCEPT ![1] = {}] /\ lapicIsr' = lapicIsr
    BY <2>1, <2>2 DEF Dispatch, pic_send_eoi
  <2> QED BY <1>1, <1>2, <2>3
<1>3. CASE /\ running \in 40 .. 47 /\ inService[1] = {Cascade}
           /\ inService[2] \subseteq {running - 40} /\ lapicIsr = {}
  <2>1. running - 40 \in 0 .. 7 /\ running < IRQ_BASE + 16 /\ running - IRQ_BASE >= 8 /\ Cascade \in 0 .. 7
    BY <1>3 DEF IRQ_BASE, Cascade
  <2>2. Eoi(1) = {} /\ Eoi(2) = {}
    BY <1>1, <1>3, <2>1, EoiFacts
  <2>3. inService' = <<{}, {}>> /\ lapicIsr' = lapicIsr
    BY <2>1, <2>2 DEF Dispatch, pic_send_eoi
  <2> QED BY <1>1, <1>3, <2>3
<1>4. CASE running = TIMER_VECTOR /\ inService[1] = {} /\ inService[2] = {} /\ lapicIsr = {TIMER_VECTOR}
  <2>1. ~(running < IRQ_BASE + 16) /\ running # LAPIC_SPURIOUS_VECTOR
    BY <1>4 DEF IRQ_BASE, TIMER_VECTOR, LAPIC_SPURIOUS_VECTOR
  <2>2. inService' = inService
        /\ lapicIsr' = lapicIsr \ {l \in lapicIsr : \A m \in lapicIsr : m <= l}
    BY <1>1, <2>1 DEF Dispatch, lapic_eoi
  <2> QED BY <1>1, <1>4, <2>2 DEF TIMER_VECTOR
<1>5. CASE running = LAPIC_SPURIOUS_VECTOR /\ inService[1] = {} /\ inService[2] = {} /\ lapicIsr = {}
  <2>1. ~(running < IRQ_BASE + 16)
    BY <1>5 DEF IRQ_BASE, LAPIC_SPURIOUS_VECTOR
  <2>2. inService' = inService /\ lapicIsr' = lapicIsr
    BY <1>5, <2>1 DEF Dispatch, lapic_eoi
  <2> QED BY <1>1, <1>5, <2>2
<1> QED BY <1>1, <1>2, <1>3, <1>4, <1>5 DEF InServiceOf

(* The dispatch, and the end of the handler. *)
LEMMA DispatchIInv ==
    ASSUME IInv, Dispatch, source # None,
           \/ running' = running /\ iflag' = iflag
           \/ running' = None /\ iflag' = TRUE
    PROVE  IInv'
<1>1. inService' \in [1 .. 2 -> SUBSET (0 .. 7)] /\ Nothing'
  BY DispatchClears
<1>2. /\ source' = None /\ step = "up" /\ ~Quiet
      /\ UNCHANGED <<boot, masked, pic, lapicOn, lapicIrr>>
  BY DEF Dispatch, IInv, InvBoot, Quiet
<1>3. lapicIsr' = {}
  BY <1>1 DEF Nothing
<1>4. InvType'
  BY <1>1, <1>2, <1>3, ZenonT(60) DEF IInv, InvType, boot
<1>5. InvBoot'
  BY <1>2 DEF IInv, InvBoot, boot, Quiet
<1>6. InvService'
  BY <1>1, <1>2, NoneAssumption DEF IInv, InvService, Nothing, Quiet, boot
<1> QED BY <1>4, <1>5, <1>6 DEF IInv

(* In Interrupts the handler is one step, before which something is in service. *)
Handling == source = None => Quiet

LEMMA HandlerIInv == IInv /\ Handling /\ irq_common_handler => IInv'
<1> SUFFICES ASSUME IInv, Handling, irq_common_handler PROVE IInv'
  OBVIOUS
<1>1. Dispatch /\ source # None /\ running' = None /\ iflag' = TRUE
  BY DEF irq_common_handler, Dispatch, Handling, Quiet
<1> QED BY <1>1, DispatchIInv

LEMMA NextIInv == IInv /\ Handling /\ [Next]_vars => IInv' /\ Handling'
<1> SUFFICES ASSUME IInv, Handling, [Next]_vars PROVE IInv' /\ Handling'
  OBVIOUS
<1> USE DEF Handling, Quiet
<1>1. CASE gdt_set_ist \/ idt_init \/ irq_init \/ timer_init \/ idt_enable
  BY <1>1, BootSteps DEF gdt_set_ist, idt_init, irq_init, timer_init, idt_enable, cpu
<1>2. ASSUME NEW irq \in Irqs, pic_clear_mask(irq) \/ Raise(irq) \/ TakeIrq(irq) PROVE IInv' /\ Handling'
  BY <1>2, DeviceSteps, TakeIrqIInv, NoneAssumption DEF pic_clear_mask, Raise, TakeIrq, Take, cpu
<1>3. ASSUME NEW chip \in 1 .. 2, TakeSpuriousIrq(chip) PROVE IInv' /\ Handling'
  BY <1>3, TakeSpuriousIrqIInv, NoneAssumption DEF TakeSpuriousIrq, Take
<1>4. CASE TimerFires
  BY <1>4 DEF TimerFires, IInv, InvType, InvBoot, InvService, Nothing, InServiceOf, boot, pics, cpu
<1>5. CASE TakeTimer \/ TakeSpuriousVector
  BY <1>5, TakeLapicIInv, NoneAssumption DEF TakeTimer, TakeSpuriousVector, Take
<1>6. ASSUME NEW v \in Exceptions, Exception(v) PROVE IInv' /\ Handling'
  BY <1>6, ExceptionIInv DEF Exception
<1>7. CASE irq_common_handler
  BY <1>7, HandlerIInv DEF irq_common_handler
<1>8. CASE UNCHANGED vars
  BY <1>8 DEF vars, boot, pics, lapic, cpu, IInv, InvType, InvBoot, InvService, Nothing, InServiceOf
<1> QED BY <1>1, <1>2, <1>3, <1>4, <1>5, <1>6, <1>7, <1>8 DEF Next

(* Interrupts begins with nothing running. *)
LEMMA Begins == Init => IInv /\ Handling
BY InitIInv DEF Init, Handling, Quiet

-----------------------------------------------------------------------------
(* Every interrupt goes through a gate to irq_common, and the dispatch tells the
   controller it came from: idt_init's loop over the vectors (idt.c:49), the
   offsets pic_init is given (irq.c:11) and the test that tells the two
   controllers apart (irq.c:28) agree, whichever lines a machine uses. *)
THEOREM VectorsAgree == Spec => []VectorsRight
<1>1. Init => IInv /\ Handling
  BY Begins
<1>2. IInv /\ Handling /\ [Next]_vars => IInv' /\ Handling'
  BY NextIInv
<1>3. IInv => VectorsRight
  BY Invariants
<1> QED BY <1>1, <1>2, <1>3, PTL DEF Spec

(* No interrupt, spurious or not, leaves a line in service behind it. *)
THEOREM EndsOfInterrupt == Spec => []NothingInService
<1>1. Init => IInv /\ Handling
  BY Begins
<1>2. IInv /\ Handling /\ [Next]_vars => IInv' /\ Handling'
  BY NextIInv
<1>3. IInv => NothingInService
  BY Invariants
<1> QED BY <1>1, <1>2, <1>3, PTL DEF Spec

-----------------------------------------------------------------------------
(***************************************************************************)
(* The machine code of Entry, from here on.  EInv says, instruction by     *)
(* instruction, what is in the registers and on the stacks: the words that *)
(* were pushed are those that will be popped, and whatever an interrupt    *)
(* may return to is a context it can return to.                            *)
(***************************************************************************)
Fields == Gprs \cup {"vector", "error", "rip", "cs", "rflags", "rsp", "ss"}
Stacks == {<<"boot", 0>>} \cup {<<Purpose[i], 0>> : i \in 1 .. 3} \cup ({"kernel", "user"} \X Threads)

IsSeq(s)   == s \in Seq({s[i] : i \in DOMAIN s})
IsRegs(f)  == f = [r \in Gprs |-> f[r]]
IsFrame(f) == f = [x \in Fields |-> f[x]]
IsPtr(p)   == p = [stack |-> p.stack, depth |-> p.depth] /\ p.stack \in Stacks /\ p.depth \in Nat

(* What the variables are made of. *)
CoreShape ==
    /\ core = [pc |-> core.pc, reg |-> core.reg, rsp |-> core.rsp, cs |-> core.cs, ss |-> core.ss,
               gs |-> core.gs, kernel_gs |-> core.kernel_gs]
    /\ core.pc = At(core.pc.routine, core.pc.at)
    /\ IsRegs(core.reg) /\ IsPtr(core.rsp)
MemShape == mem = [s \in Stacks |-> mem[s]] /\ \A s \in Stacks : IsSeq(mem[s])
SysShape ==
    /\ sys = [gdt |-> sys.gdt, tr |-> sys.tr, sce |-> sys.sce, fmask |-> sys.fmask, star |-> sys.star]
    /\ g_cpu_local = [kernel_rsp |-> g_cpu_local.kernel_rsp, user_rsp |-> g_cpu_local.user_rsp]
LeftShape ==
    /\ frame = [t \in Threads |-> frame[t]] /\ left = [t \in Threads |-> left[t]]
    /\ \A t \in Threads :
          /\ left[t] = [how |-> left[t].how, regs |-> left[t].regs, rsp |-> left[t].rsp]
          /\ IsRegs(left[t].regs)
    /\ IsFrame(origin)
Shape == CoreShape /\ MemShape /\ SysShape /\ LeftShape

(* The tables, and kmain's order. *)
Gdt      == [gdt_init EXCEPT ![GDT_TSS].type = "busy tss"]
TablesUp == sys.gdt = Gdt /\ sys.tr = TSS_SEL
CallsUp  == sys.sce = TRUE /\ sys.fmask = TRUE /\ sys.star = [user |-> StarUser, kernel |-> KERNEL_CS]
GsUser   == core.gs = "0" /\ core.kernel_gs = "g_cpu_local"
Order ==
    /\ step \in {"gdt_init", "idt_init"} => idt = [v \in 0 .. 255 |-> None] /\ running = None
    /\ step # "gdt_init" => ist = Purpose

(* Where thread t goes on in user mode, and with what. *)
Home(t) == IF left[t].how = "init" THEN Sp("user", t) ELSE left[t].rsp
Matches(f, t) ==
    /\ f["rip"] = Rip(At("user", t)) /\ f["cs"] = Imm(USER_CS) /\ f["rflags"] = Flags(TRUE)
    /\ f["rsp"] = Rsp(Home(t)) /\ f["ss"] = Imm(USER_DS)
    /\ \A r \in Gprs : f[r] = left[t].regs[r]
    /\ left[t].how \in {"tick", "init"}
    /\ IsPtr(Home(t)) /\ Home(t).stack = <<"user", t>>

(* The threads that do not run wait in their frames. *)
ThreadsUp ==
    step # "gdt_init" =>
        /\ g_current \in Threads
        /\ g_cpu_local.kernel_rsp = Sp("kernel", g_current) /\ rsp0 = Sp("kernel", g_current)
        /\ \A t \in Threads \ {g_current} : IsFrame(frame[t]) /\ Matches(frame[t], t)

NoneLeft == \A t \in Threads : left[t] = [NotLeft EXCEPT !.how = "init"]

(* kmain before it enters user mode, running or interrupted. *)
BootTop == [stack |-> <<"boot", 0>>, depth |-> 1]
Entered == left[Boot].how = "enter" /\ left[Boot].rsp = Sp("user", Boot)
Entering(reg) == reg["rdi"] = Rip(At("user", Boot)) /\ reg["rsi"] = Rsp(Sp("user", Boot)) /\ Entered
BootCtx(pc, reg) ==
    /\ core.gs = "0" /\ (step # "gdt_init" => g_current = Boot)
    /\ \/ pc = At("kmain", 1)
       \/ pc = At("kmain", 2) /\ step = "up" /\ core.kernel_gs = "g_cpu_local" /\ CallsUp
       \/ pc = At("enter_user", 1) /\ step = "up" /\ core.kernel_gs = "g_cpu_local" /\ CallsUp
          /\ Entering(reg)

(* What an interrupt may return to. *)
Return(f) ==
    \/ Matches(f, g_current) /\ GsUser /\ CallsUp
    \/ /\ f["cs"] = Imm(KERNEL_CS) /\ f["ss"] = Imm(KERNEL_DS) /\ f["rflags"] = Flags(TRUE)
       /\ f["rsp"] = Rsp(BootTop)
       /\ \E pc \in {At("kmain", 1), At("kmain", 2), At("enter_user", 1)} : f["rip"] = Rip(pc) /\ BootCtx(pc, f)

RegsAre(f) == \A r \in Gprs : core.reg[r] = f[r]
FiveAre(f, n) ==
    /\ Pop(n) = f["rip"] /\ Pop(n + 1) = f["cs"] /\ Pop(n + 2) = f["rflags"]
    /\ Pop(n + 3) = f["rsp"] /\ Pop(n + 4) = f["ss"]

(* The stack has the n words, above the loader's where that is the stack. *)
Within(n) ==
    /\ core.rsp.depth >= n /\ core.rsp.depth <= Len(mem[core.rsp.stack])
    /\ core.rsp.stack = <<"boot", 0>> => core.rsp.depth > n

-----------------------------------------------------------------------------
(* Where the processor is, and what holds there. *)
Kernel == core.cs = KERNEL_CS /\ TablesUp

Early == step = "gdt_init" /\ iflag = FALSE /\ running = None /\ NoneLeft /\ core.gs = "0"

Starting == Early /\ core.pc = At("kmain", 0) /\ core.cs = GDT_SEL(5, 0) /\ core.rsp = BootTop

FlushAt(n) ==
    /\ Early /\ core.pc = At("gdt_flush", n)
    /\ core.rsp.stack = <<"boot", 0>> /\ Within(0) /\ core.rsp.depth = IF n = 6 THEN 4 ELSE 2
    /\ core.cs = IF n <= 6 THEN GDT_SEL(5, 0) ELSE KERNEL_CS
    /\ n > 3 => core.ss = KERNEL_DS
    /\ n > 1 => sys.gdt = IF n = 8 THEN Gdt ELSE gdt_init
    /\ n = 8 => sys.tr = TSS_SEL
    /\ mem[<<"boot", 0>>][2] = Rip(At("kmain", 1))
    /\ n = 6 => Pop(0) = Rip(At("gdt_flush", 7)) /\ Pop(1) = Imm(KERNEL_CS)

InKmain ==
    /\ Kernel /\ core.ss = KERNEL_DS /\ core.rsp = BootTop /\ running = None
    /\ BootCtx(core.pc, core.reg)
    /\ step = "gdt_init" => NoneLeft

Shut == Kernel /\ running = None /\ iflag = FALSE /\ step = "up" /\ CallsUp

EnterAt(n) ==
    /\ Shut /\ GsUser /\ g_current = Boot /\ Entering(core.reg) /\ core.pc = At("enter_user", n)
    /\ core.rsp.stack = <<"boot", 0>> /\ Within(0)
    /\ core.rsp.depth = IF n <= 4 THEN 1 ELSE IF n <= 6 THEN n - 3 ELSE n - 2
    /\ n = 5 => Pop(0) = Imm(USER_DS)
    /\ n = 6 => Pop(0) = Rsp(Sp("user", Boot)) /\ Pop(1) = Imm(USER_DS)
    /\ n = 7 => /\ Pop(0) = Imm(USER_CS) /\ Pop(1) = Flags(TRUE)
                /\ Pop(2) = Rsp(Sp("user", Boot)) /\ Pop(3) = Imm(USER_DS)
    /\ n = 8 => /\ Pop(0) = Rip(At("user", Boot)) /\ Pop(1) = Imm(USER_CS) /\ Pop(2) = Flags(TRUE)
                /\ Pop(3) = Rsp(Sp("user", Boot)) /\ Pop(4) = Imm(USER_DS)

InUser ==
    /\ core.pc = At("user", g_current) /\ core.cs = USER_CS /\ core.ss = USER_DS
    /\ core.rsp.stack = <<"user", g_current>>
    /\ iflag = TRUE /\ running = None /\ step = "up" /\ GsUser /\ TablesUp /\ CallsUp

(* In a system call: what was saved of the caller's registers, from word n on. *)
Caller == left[g_current].regs
SysSaved(n) ==
    /\ Pop(n) = Caller["r15"] /\ Pop(n + 1) = Caller["r14"] /\ Pop(n + 2) = Caller["r13"] /\ Pop(n + 3) = Caller["r12"]
    /\ Pop(n + 4) = Caller["rbp"] /\ Pop(n + 5) = Caller["rbx"]
    /\ Pop(n + 6) = Rip(At("user", g_current)) /\ Pop(n + 7) = Flags(TRUE)

SysBack == core.reg["rcx"] = Rip(At("user", g_current)) /\ core.reg["r11"] = Flags(TRUE)

(* Before and after the arguments are in their places. *)
SysAsked == (\A r \in Gprs \ {"rcx", "r11"} : core.reg[r] = Caller[r]) /\ SysBack
SysArgs ==
    /\ core.reg["rdi"] = Caller["rax"] /\ core.reg["rsi"] = Caller["rdi"] /\ core.reg["rdx"] = Caller["rsi"]
    /\ core.reg["rcx"] = Caller["rdx"] /\ core.reg["r8"] = Caller["r10"] /\ core.reg["r9"] = Caller["r8"]
    /\ core.reg["r12"] = Caller["r9"]
SysResult == core.reg["rax"] = IF Caller["rax"] = Imm(0) THEN Caller["rsi"] ELSE Imm(-1)

SysRestored == \A r \in Preserved : core.reg[r] = Caller[r]

SysLeft ==
    /\ left[g_current].how = "syscall" /\ IsPtr(left[g_current].rsp)
    /\ left[g_current].rsp.stack = <<"user", g_current>>

SysDepth(n) ==
    CASE n \in {4, 11} -> 0 [] n \in {5, 6, 10} -> 8 [] n = 7 -> 9 [] n \in {8, 9} -> 10

SysAt(n) ==
    /\ Shut /\ SysLeft /\ core.pc = At("syscall_entry", n)
    /\ IF n \in {1, 13} THEN GsUser ELSE core.gs = "g_cpu_local" /\ core.kernel_gs = "0"
    /\ IF n \in {1, 2, 3, 12, 13} THEN core.rsp = left[g_current].rsp
       ELSE core.rsp.stack = <<"kernel", g_current>> /\ Within(0) /\ core.rsp.depth = SysDepth(n)
    /\ n \in 3 .. 11 => g_cpu_local.user_rsp = left[g_current].rsp
    /\ n <= 5 => SysAsked
    /\ n \in {5, 6, 10} => SysSaved(0)
    /\ n = 7 => SysSaved(1)
    /\ n \in {8, 9} => SysSaved(2)
    /\ n \in 6 .. 8 => SysArgs
    /\ n = 8 => Pop(0) = Caller["r9"]
    /\ n >= 9 => SysResult
    /\ n >= 11 => SysRestored /\ SysBack

(* In an interrupt or an exception. *)
InHandler == Kernel /\ iflag = FALSE /\ step # "gdt_init"

Coded(v) == IF v \in ErrorCode THEN 1 ELSE 0
StubAt(v) ==
    /\ InHandler /\ RegsAre(origin) /\ v \in Stubs /\ core.pc = At("stub", v)
    /\ Within(5 + Coded(v)) /\ (core.rsp.depth - (5 + Coded(v))) % 2 = 0
    /\ FiveAre(origin, Coded(v)) /\ (v \in ErrorCode => Pop(0) = <<"error", v>>)
    /\ origin["vector"] = Imm(v) /\ origin["error"] = IF v \in ErrorCode THEN <<"error", v>> ELSE Imm(0)
    /\ IF v < 32 THEN running = Panic ELSE running = v /\ source # None /\ Return(origin)

(* The stub's two words are on the five, and then all the registers. *)
Numbered ==
    /\ RegsAre(origin) /\ Pop(0) = origin["vector"] /\ Pop(1) = origin["error"] /\ FiveAre(origin, 2)
    /\ Within(7) /\ (core.rsp.depth - 7) % 2 = 0
Framed == FrameAt(core.rsp) = origin /\ Within(22) /\ core.rsp.depth % 2 = 0

IsrAt(n) ==
    /\ InHandler /\ running = Panic /\ core.pc = At("isr_common", n)
    /\ n = 1 => Numbered
    /\ n > 1 => Framed
    /\ n = 3 => core.reg["rdi"] = Rsp(core.rsp)

(* The context that iretq will make, with n words on its five. *)
Live(n) ==
    [x \in Fields |->
        CASE x = "rip"    -> Pop(n)
          [] x = "cs"     -> Pop(n + 1)
          [] x = "rflags" -> Pop(n + 2)
          [] x = "rsp"    -> Pop(n + 3)
          [] x = "ss"     -> Pop(n + 4)
          [] x \in Gprs   -> core.reg[x]
          [] OTHER        -> Imm(0)]

IrqAt(n) ==
    /\ InHandler /\ running \notin {None, Panic} /\ core.pc = At("irq_common", n)
    /\ n <= 3 => origin["vector"] = Imm(running) /\ Return(origin) /\ source # None
    /\ n = 1 => Numbered
    /\ n \in {2, 3} => Framed
    /\ n = 3 => core.reg["rdi"] = Rsp(core.rsp)
    /\ n >= 4 => source = None
    /\ n = 4 => Within(22) /\ Return(FrameAt(core.rsp))
    /\ n = 5 => Within(7) /\ Return(Live(2))
    /\ n = 6 => Within(5) /\ Return(Live(0))

Stopped ==
    /\ Kernel /\ iflag = FALSE /\ step # "gdt_init"
    /\ \/ core.pc = At("panic", 0) /\ running = Panic
       \/ core.pc = At("halted", 0) /\ running = None /\ step = "up"

InGdt     == Starting \/ \E n \in 1 .. 8 : FlushAt(n)
InEnter   == \E n \in 2 .. 8 : EnterAt(n)
InSyscall == \E n \in 1 .. 13 : SysAt(n)
InStub    == \E v \in Stubs : StubAt(v)
InIsr     == \E n \in 1 .. 3 : IsrAt(n)
InIrq     == \E n \in 1 .. 6 : IrqAt(n)

Places == InGdt \/ InKmain \/ InEnter \/ InUser \/ InSyscall \/ InStub \/ InIsr \/ InIrq \/ Stopped

EInv == Shape /\ Order /\ ThreadsUp /\ Len(mem[<<"boot", 0>>]) >= 1 /\ Places

-----------------------------------------------------------------------------
(* Stacks. *)
LEMMA SeqOf == ASSUME NEW S, NEW s \in Seq(S) PROVE IsSeq(s)
<1>1. Len(s) \in Nat /\ s \in [1 .. Len(s) -> S] /\ DOMAIN s = 1 .. Len(s)
  BY LenProperties
<1> DEFINE R == {s[i] : i \in DOMAIN s}
<1>2. s \in [1 .. Len(s) -> R]
  BY <1>1
<1>3. s \in Seq(R)
  BY <1>1, <1>2, SeqDef
<1> QED BY <1>3 DEF IsSeq

LEMMA SeqOfSome == ASSUME NEW s, IsSeq(s) PROVE \E S : s \in Seq(S)
BY DEF IsSeq

(* d words of a stack and some more on them. *)
LEMMA Stacked ==
    ASSUME NEW s, IsSeq(s), NEW d \in 0 .. Len(s), NEW vs, IsSeq(vs)
    PROVE  LET t == SubSeq(s, 1, d) \o vs IN
           /\ IsSeq(t) /\ Len(t) = d + Len(vs) /\ Len(vs) \in Nat
           /\ \A i \in 1 .. d : t[i] = s[i]
           /\ \A i \in 1 .. Len(vs) : t[d + i] = vs[i]
<1>1. PICK S : s \in Seq(S)
  BY SeqOfSome
<1>2. PICK V : vs \in Seq(V)
  BY SeqOfSome
<1> DEFINE T == S \cup V
           u == SubSeq(s, 1, d)
           n == Len(vs)
<1>3. s \in Seq(T) /\ vs \in Seq(T)
  BY <1>1, <1>2, SeqMonotonic
<1>4. Len(s) \in Nat /\ n \in Nat /\ d \in Nat /\ d <= Len(s)
  BY <1>3, LenProperties
<1>5. \A i \in 1 .. d : s[i] \in T
  BY <1>3, <1>4, ElementOfSeq
<1>6. u \in Seq(T) /\ Len(u) = d /\ \A i \in 1 .. d : u[i] = s[i]
  <2>1. 1 \in Int /\ d \in Int
    BY <1>4
  <2>2. /\ u \in Seq(T) /\ Len(u) = (IF 1 <= d THEN d - 1 + 1 ELSE 0)
        /\ \A i \in 1 .. d - 1 + 1 : u[i] = s[1 + i - 1]
    BY <1>5, <2>1, SubSeqProperties
  <2> HIDE DEF u, T
  <2> QED BY <1>4, <2>2
<1> HIDE DEF u, T
<1>7. /\ u \o vs \in Seq(T) /\ Len(u \o vs) = d + n
      /\ \A i \in 1 .. d + n : (u \o vs)[i] = IF i <= d THEN u[i] ELSE vs[i - d]
  BY <1>3, <1>6, ConcatProperties
<1>8. IsSeq(u \o vs)
  BY <1>7, SeqOf
<1> DEFINE t == u \o vs
<1> HIDE DEF t, n
<1>9. \A i \in 1 .. d + n : t[i] = IF i <= d THEN u[i] ELSE vs[i - d]
  BY <1>7 DEF t, n
<1>10. \A i \in 1 .. d : t[i] = s[i]
  BY <1>4, <1>6, <1>9
<1>11. \A i \in 1 .. n : t[d + i] = vs[i]
  BY <1>4, <1>9
<1> QED BY <1>4, <1>7, <1>8, <1>10, <1>11 DEF t, n, u

LEMMA EmptyIsSeq == IsSeq(<<>>) /\ Len(<<>>) = 0
BY EmptySeq, SeqOf

(* The stacks m after the words vs have been put on those below p. *)
Laid(p, vs, m) ==
    /\ m = [s \in Stacks |-> m[s]]
    /\ \A s \in Stacks : IsSeq(m[s])
    /\ \A s \in Stacks \ {p.stack} : m[s] = mem[s]
    /\ Len(m[p.stack]) = p.depth + Len(vs) /\ Len(vs) \in Nat
    /\ \A i \in 1 .. p.depth : m[p.stack][i] = mem[p.stack][i]
    /\ \A i \in 1 .. Len(vs) : m[p.stack][p.depth + i] = vs[i]

LEMMA Pushes ==
    ASSUME MemShape, NEW p, p.stack \in Stacks, p.depth \in 0 .. Len(mem[p.stack]), NEW vs, IsSeq(vs)
    PROVE  Laid(p, vs, OnTop(p, vs))
<1> DEFINE w == mem[p.stack]
           d == p.depth
           t == SubSeq(w, 1, d) \o vs
<1>2. IsSeq(w) /\ d \in 0 .. Len(w)
  BY DEF MemShape
<1> HIDE DEF w, d
<1>3. /\ IsSeq(t) /\ Len(t) = d + Len(vs) /\ Len(vs) \in Nat
      /\ \A i \in 1 .. d : t[i] = w[i]
      /\ \A i \in 1 .. Len(vs) : t[d + i] = vs[i]
  BY <1>2, Stacked
<1> DEFINE m == OnTop(p, vs)
<1>1. m = [mem EXCEPT ![p.stack] = t]
  BY DEF OnTop, Upto, w, d
<1> HIDE DEF t, m
<1>4. DOMAIN mem = Stacks
  BY DEF MemShape
<1>5. m[p.stack] = t /\ \A s \in Stacks \ {p.stack} : m[s] = mem[s]
  BY <1>1, <1>4
<1>6. m = [s \in Stacks |-> m[s]]
  BY <1>1, <1>4
<1>7. \A s \in Stacks : IsSeq(m[s])
  BY <1>3, <1>5 DEF MemShape
<1>8. Laid(p, vs, m)
  BY <1>3, <1>5, <1>6, <1>7 DEF Laid, w, d
<1> QED BY <1>8 DEF m

(* The same, the top of the stack being p and then q. *)
Pushed(p, vs, q, m) ==
    /\ IsPtr(q) /\ q.stack = p.stack /\ q.depth = p.depth + Len(vs) /\ q.depth = Len(m[q.stack])
    /\ m = [s \in Stacks |-> m[s]]
    /\ \A s \in Stacks : IsSeq(m[s])
    /\ \A s \in Stacks \ {p.stack} : m[s] = mem[s]
    /\ \A i \in 0 .. Len(vs) - 1 : m[q.stack][q.depth - i] = vs[Len(vs) - i]
    /\ \A i \in 0 .. p.depth - 1 : m[q.stack][q.depth - (Len(vs) + i)] = mem[p.stack][p.depth - i]

LEMMA PushWords ==
    ASSUME MemShape, NEW p, IsPtr(p), p.depth <= Len(mem[p.stack]), NEW vs, IsSeq(vs)
    PROVE  Pushed(p, vs, Deeper(p, Len(vs)), OnTop(p, vs))
<1>1. p.stack \in Stacks /\ p.depth \in Nat /\ p = [stack |-> p.stack, depth |-> p.depth]
  BY DEF IsPtr
<1>2. IsSeq(mem[p.stack])
  BY <1>1 DEF MemShape
<1>3. Len(mem[p.stack]) \in Nat
  BY <1>2, SeqOfSome, LenProperties
<1>4. p.depth \in 0 .. Len(mem[p.stack])
  BY <1>1, <1>3
<1> DEFINE m == OnTop(p, vs)
           q == Deeper(p, Len(vs))
<1>5. Laid(p, vs, m)
  BY <1>1, <1>4, Pushes
<1>6. q = [stack |-> p.stack, depth |-> p.depth + Len(vs)]
  BY <1>1 DEF Deeper
<1> HIDE DEF m, q
<1> DEFINE n == Len(vs)
           d == p.depth
           t == m[p.stack]
<1>7. IsPtr(q) /\ q.stack = p.stack /\ q.depth = p.depth + Len(vs)
  BY <1>1, <1>5, <1>6 DEF IsPtr, Laid
<1>8. n \in Nat /\ d \in Nat /\ \A i \in 1 .. n : t[d + i] = vs[i]
  BY <1>1, <1>5 DEF Laid
<1>9. \A i \in 1 .. d : t[i] = mem[p.stack][i]
  BY <1>5 DEF Laid
<1> HIDE DEF n, d, t
<1>10. ASSUME NEW i \in 0 .. n - 1 PROVE t[d + n - i] = vs[n - i]
  <2>1. n - i \in 1 .. n /\ d + (n - i) = d + n - i
    BY <1>8
  <2> QED BY <1>8, <2>1
<1>11. ASSUME NEW i \in 0 .. d - 1 PROVE t[d + n - (n + i)] = mem[p.stack][d - i]
  <2>1. d - i \in 1 .. d /\ d + n - (n + i) = d - i
    BY <1>8
  <2> QED BY <1>9, <2>1
<1>12. q.stack = p.stack /\ q.depth = d + n /\ t = m[q.stack]
  BY <1>7 DEF t, d, n
<1>13. \A i \in 0 .. n - 1 : m[q.stack][q.depth - i] = vs[n - i]
  BY <1>8, <1>10, <1>12
<1>14. \A i \in 0 .. d - 1 : m[q.stack][q.depth - (n + i)] = mem[p.stack][d - i]
  BY <1>8, <1>11, <1>12
<1>15. Pushed(p, vs, q, m)
  BY <1>5, <1>7, <1>13, <1>14 DEF n, d, Pushed, Laid
<1> QED BY <1>15 DEF m, q

(* The stacks m after n words below p are gone. *)
Popped(p, n, q, m) ==
    /\ IsPtr(q) /\ q.stack = p.stack /\ q.depth = p.depth - n /\ q.depth = Len(m[q.stack])
    /\ m = [s \in Stacks |-> m[s]]
    /\ \A s \in Stacks : IsSeq(m[s])
    /\ \A s \in Stacks \ {p.stack} : m[s] = mem[s]
    /\ \A i \in 0 .. p.depth - n - 1 : m[q.stack][q.depth - i] = mem[p.stack][p.depth - (n + i)]

LEMMA PopWords ==
    ASSUME MemShape, NEW p, IsPtr(p), p.depth <= Len(mem[p.stack]), NEW n \in Nat, n <= p.depth
    PROVE  Popped(p, n, Deeper(p, -n), OnTop(Deeper(p, -n), <<>>))
<1>1. p.stack \in Stacks /\ p.depth \in Nat /\ p = [stack |-> p.stack, depth |-> p.depth]
  BY DEF IsPtr
<1>2. IsSeq(mem[p.stack])
  BY <1>1 DEF MemShape
<1>3. Len(mem[p.stack]) \in Nat
  BY <1>2, SeqOfSome, LenProperties
<1> DEFINE q == Deeper(p, -n)
           m == OnTop(q, <<>>)
<1>4. q = [stack |-> p.stack, depth |-> p.depth + (-n)]
  BY <1>1 DEF Deeper
<1> HIDE DEF q
<1>5. q.stack = p.stack /\ q.depth = p.depth - n /\ q.depth \in 0 .. Len(mem[q.stack])
  BY <1>1, <1>3, <1>4
<1>6. IsPtr(q)
  BY <1>1, <1>4, <1>5 DEF IsPtr
<1>7. Laid(q, <<>>, m)
  BY <1>1, <1>5, Pushes, EmptyIsSeq
<1> HIDE DEF m
<1>8. q.depth = Len(m[q.stack])
  BY <1>5, <1>7, EmptyIsSeq DEF Laid
<1>9. ASSUME NEW i \in 0 .. p.depth - n - 1 PROVE m[q.stack][q.depth - i] = mem[p.stack][p.depth - (n + i)]
  <2>1. q.depth - i \in 1 .. q.depth /\ q.depth - i = p.depth - (n + i)
    BY <1>1, <1>5
  <2> QED BY <1>5, <1>7, <2>1 DEF Laid
<1>10. Popped(p, n, q, m)
  BY <1>5, <1>6, <1>7, <1>8, <1>9 DEF Popped, Laid
<1> QED BY <1>10 DEF m, q

-----------------------------------------------------------------------------
(* The instructions. *)
Core(pc, reg, rsp, cs, ss, gs, kernel_gs) ==
    [pc |-> pc, reg |-> reg, rsp |-> rsp, cs |-> cs, ss |-> ss, gs |-> gs, kernel_gs |-> kernel_gs]
Following == At(core.pc.routine, core.pc.at + 1)
Plain(pc, rsp) == Core(pc, core.reg, rsp, core.cs, core.ss, core.gs, core.kernel_gs)

LEMMA CoreIs ==
    ASSUME NEW pc, NEW reg, NEW rsp, NEW cs, NEW ss, NEW gs, NEW kernel_gs,
           core' = Core(pc, reg, rsp, cs, ss, gs, kernel_gs)
    PROVE  /\ core'.pc = pc /\ core'.reg = reg /\ core'.rsp = rsp /\ core'.cs = cs /\ core'.ss = ss
           /\ core'.gs = gs /\ core'.kernel_gs = kernel_gs
           /\ (\E r, n : pc = At(r, n)) /\ IsRegs(reg) /\ IsPtr(rsp) => CoreShape'
<1>1. /\ core'.pc = pc /\ core'.reg = reg /\ core'.rsp = rsp /\ core'.cs = cs /\ core'.ss = ss
      /\ core'.gs = gs /\ core'.kernel_gs = kernel_gs
  BY DEF Core
<1>2. ASSUME NEW r, NEW n, pc = At(r, n) PROVE pc = At(pc.routine, pc.at)
  BY <1>2 DEF At
<1> QED BY <1>1, <1>2 DEF Core, CoreShape

(* The first n words are ws, and the others those that were there. *)
OnStack(n, ws) ==
    /\ CoreShape' /\ MemShape' /\ core'.rsp.stack = core.rsp.stack /\ core'.rsp.depth = core.rsp.depth + n
    /\ core'.rsp.depth = Len(mem'[core'.rsp.stack])
    /\ \A s \in Stacks \ {core.rsp.stack} : mem'[s] = mem[s]
    /\ \A i \in 0 .. n - 1 : Pop(i)' = ws[n - i]
    /\ \A i \in Nat : i < core.rsp.depth => Pop(n + i)' = Pop(i)

LEMMA OnStackIs ==
    ASSUME CoreShape, MemShape, Within(0), NEW ws, IsSeq(ws), NEW n \in Nat, Len(ws) = n,
           mem' = OnTop(core.rsp, ws), core' = Plain(Following, Deeper(core.rsp, n))
    PROVE  OnStack(n, ws)
<1>1. IsPtr(core.rsp) /\ core.rsp.depth <= Len(mem[core.rsp.stack]) /\ IsRegs(core.reg)
  BY DEF CoreShape, Within
<1>2. Pushed(core.rsp, ws, Deeper(core.rsp, Len(ws)), OnTop(core.rsp, ws))
  BY <1>1, PushWords
<1>3. /\ core'.rsp = Deeper(core.rsp, n) /\ core'.pc = Following /\ core'.reg = core.reg
      /\ (\E r, m : Following = At(r, m)) /\ IsRegs(core.reg) /\ IsPtr(Deeper(core.rsp, n)) => CoreShape'
  BY CoreIs DEF Plain
<1>4. Pushed(core.rsp, ws, core'.rsp, mem')
  BY <1>2, <1>3
<1>5. CoreShape'
  BY <1>1, <1>3, <1>4 DEF Following, Pushed
<1>6. MemShape'
  BY <1>4 DEF Pushed, MemShape
<1>7. core.rsp.depth \in Nat
  BY <1>1 DEF IsPtr
<1>8. \A i \in 0 .. n - 1 : Pop(i)' = ws[n - i]
  BY <1>4, <1>7 DEF Pushed, Pop
<1>9. ASSUME NEW i \in Nat, i < core.rsp.depth PROVE Pop(n + i)' = Pop(i)
  <2>1. i \in 0 .. core.rsp.depth - 1
    BY <1>7, <1>9
  <2>2. mem'[core'.rsp.stack][core'.rsp.depth - (Len(ws) + i)] = mem[core.rsp.stack][core.rsp.depth - i]
    BY <1>4, <2>1 DEF Pushed
  <2> QED BY <2>2 DEF Pop
<1> QED BY <1>4, <1>5, <1>6, <1>8, <1>9 DEF OnStack, Pushed

(* The n words on the stack are gone. *)
OffStack(n) ==
    /\ MemShape' /\ IsPtr(core'.rsp) /\ core'.rsp.stack = core.rsp.stack
    /\ core'.rsp.depth = core.rsp.depth - n /\ core'.rsp.depth = Len(mem'[core'.rsp.stack])
    /\ \A s \in Stacks \ {core.rsp.stack} : mem'[s] = mem[s]
    /\ \A i \in Nat : n + i < core.rsp.depth => Pop(i)' = Pop(n + i)

LEMMA OffStackIs ==
    ASSUME CoreShape, MemShape, NEW n \in Nat, Within(n),
           mem' = Shallower(n), core'.rsp = Deeper(core.rsp, -n)
    PROVE  OffStack(n)
<1>1. IsPtr(core.rsp) /\ core.rsp.depth <= Len(mem[core.rsp.stack]) /\ n <= core.rsp.depth /\ core.rsp.depth \in Nat
  BY DEF CoreShape, Within, IsPtr
<1>2. Popped(core.rsp, n, Deeper(core.rsp, -n), OnTop(Deeper(core.rsp, -n), <<>>))
  BY <1>1, PopWords
<1>3. Popped(core.rsp, n, core'.rsp, mem')
  BY <1>2 DEF Shallower
<1>4. MemShape'
  BY <1>3 DEF Popped, MemShape
<1>5. ASSUME NEW i \in Nat, n + i < core.rsp.depth PROVE Pop(i)' = Pop(n + i)
  <2>1. i \in 0 .. core.rsp.depth - n - 1
    BY <1>1, <1>5
  <2> QED BY <1>3, <2>1 DEF Popped, Pop
<1> QED BY <1>3, <1>4, <1>5 DEF OffStack, Popped

(* What the instructions that push, pop and move leave alone. *)
Still == UNCHANGED <<vars, kept>>

(* What push, sub, add and pop do to the registers and the stack. *)
LEMMA PushEffect ==
    ASSUME CoreShape, MemShape, Within(0), PushStep, NEW ws, IsSeq(ws), NEW n \in Nat, Len(ws) = n,
           \/ Instr = <<"pushi", ws>>
           \/ Instr[1] = "push" /\ ws = [i \in DOMAIN Instr[2] |-> core.reg[Instr[2][i]]]
    PROVE  core' = Plain(Following, Deeper(core.rsp, n)) /\ OnStack(n, ws) /\ Still
<1>1. mem' = OnTop(core.rsp, ws) /\ Go([core EXCEPT !.rsp = Deeper(@, Len(ws))])
  BY DEF PushStep
<1>2. core' = Plain(Following, Deeper(core.rsp, n))
  BY <1>1 DEF Go, Plain, Following, Core, CoreShape, At
<1>3. Still
  BY DEF PushStep, Still
<1> QED BY <1>1, <1>2, <1>3, OnStackIs

LEMMA SubEffect ==
    ASSUME CoreShape, MemShape, Within(0), RspStep, Instr = <<"sub", 1>>
    PROVE  core' = Plain(Following, Deeper(core.rsp, 1)) /\ OnStack(1, <<Junk>>) /\ Still
<1>1. Instr[1] = "sub" /\ Instr[2] = 1
  OBVIOUS
<1>2. mem' = OnTop(core.rsp, [i \in 1 .. 1 |-> Junk]) /\ Go([core EXCEPT !.rsp = Deeper(@, 1)]) /\ Still
  BY <1>1 DEF RspStep, Fetch, Still
<1>3. [i \in 1 .. 1 |-> Junk] = <<Junk>> /\ Len(<<Junk>>) = 1
  OBVIOUS
<1>4. <<Junk>> \in Seq({Junk})
  OBVIOUS
<1>5. core' = Plain(Following, Deeper(core.rsp, 1))
  BY <1>2 DEF Go, Plain, Following, Core, CoreShape, At
<1> QED BY <1>2, <1>3, <1>4, <1>5, SeqOf, OnStackIs

LEMMA AddEffect ==
    ASSUME CoreShape, MemShape, RspStep, NEW n \in Nat, Instr = <<"add", n>>, Within(n)
    PROVE  core' = Plain(Following, Deeper(core.rsp, -n)) /\ OffStack(n) /\ CoreShape' /\ Still
<1>1. Instr[1] = "add" /\ Instr[2] = n
  OBVIOUS
<1>2. mem' = Shallower(n) /\ Go([core EXCEPT !.rsp = Deeper(@, -n)]) /\ Still
  BY <1>1 DEF RspStep, Fetch, Still
<1>3. core' = Plain(Following, Deeper(core.rsp, -n))
  BY <1>2 DEF Go, Plain, Following, Core, CoreShape, At
<1>4. /\ core'.rsp = Deeper(core.rsp, -n)
      /\ (\E r, m : Following = At(r, m)) /\ IsRegs(core.reg) /\ IsPtr(Deeper(core.rsp, -n)) => CoreShape'
  BY <1>3, CoreIs DEF Plain
<1>5. OffStack(n)
  BY <1>2, <1>4, OffStackIs
<1> QED BY <1>2, <1>3, <1>4, <1>5 DEF OffStack, Following, CoreShape

LEMMA PopEffect ==
    ASSUME CoreShape, MemShape, PopStep, NEW rs, Instr = <<"pop", rs>>, NEW n \in Nat, Len(rs) = n, Within(n)
    PROVE  /\ core' = Core(Following, core'.reg, Deeper(core.rsp, -n), core.cs, core.ss, core.gs, core.kernel_gs)
           /\ core'.reg = [r \in Gprs |-> IF \E i \in DOMAIN rs : rs[i] = r
                                          THEN Pop((CHOOSE i \in DOMAIN rs : rs[i] = r) - 1)
                                          ELSE core.reg[r]]
           /\ OffStack(n) /\ CoreShape' /\ Still
<1> DEFINE reg == [r \in Gprs |-> IF \E i \in DOMAIN rs : rs[i] = r
                                  THEN Pop((CHOOSE i \in DOMAIN rs : rs[i] = r) - 1)
                                  ELSE core.reg[r]]
<1>1. Instr[2] = rs
  OBVIOUS
<1>2. mem' = Shallower(n) /\ Still /\ core' = [core EXCEPT !.rsp = Deeper(@, -n), !.reg = reg, !.pc.at = @ + 1]
  <2>1. Fetch("pop") /\ mem' = Shallower(n) /\ Still
    BY <1>1 DEF PopStep, Still
  <2>2. core' = [core EXCEPT !.rsp = Deeper(@, -n), !.reg = reg, !.pc.at = @ + 1]
    BY <1>1, ZenonT(40) DEF PopStep, Go
  <2> QED BY <2>1, <2>2
<1>3. IsRegs(reg)
  BY DEF IsRegs
<1> HIDE DEF reg
<1>4. core' = Core(Following, reg, Deeper(core.rsp, -n), core.cs, core.ss, core.gs, core.kernel_gs)
  BY <1>2 DEF Following, Core, CoreShape, At
<1>5. /\ core'.rsp = Deeper(core.rsp, -n) /\ core'.reg = reg
      /\ (\E r, m : Following = At(r, m)) /\ IsRegs(reg) /\ IsPtr(Deeper(core.rsp, -n)) => CoreShape'
  BY <1>4, CoreIs
<1>6. OffStack(n)
  BY <1>2, <1>5, OffStackIs
<1>7. CoreShape'
  BY <1>3, <1>5, <1>6 DEF OffStack, Following
<1> QED BY <1>2, <1>4, <1>5, <1>6, <1>7 DEF reg

-----------------------------------------------------------------------------
(* The code, and which action an instruction is. *)
LEMMA CodeIs ==
    /\ DOMAIN Code = {"isr_common", "irq_common", "syscall_entry", "gdt_flush", "enter_user"}
    /\ Code["isr_common"] = Common("isr_common_handler")
    /\ Code["irq_common"] = Common("irq_common_handler")
    /\ Code["syscall_entry"] = syscall_entry
    /\ Code["gdt_flush"] = gdt_flush
    /\ Code["enter_user"] = enter_user
BY DEF Code

LEMMA AtIs ==
    ASSUME NEW r, NEW n, core.pc = At(r, n)
    PROVE  /\ core.pc.routine = r /\ core.pc.at = n /\ Instr = Code[r][n] /\ Following = At(r, n + 1)
           /\ Rip(core.pc) = Rip(At(r, n))
BY DEF At, Instr, Following

LEMMA CommonIs ==
    ASSUME NEW h
    PROVE  /\ Common(h)[1] = <<"push", Saved>> /\ Common(h)[2] = <<"lea", "rdi">> /\ Common(h)[3] = <<"call", h>>
           /\ Common(h)[4] = <<"pop", Restored>> /\ Common(h)[5] = <<"add", 2>> /\ Common(h)[6] = <<"iretq">>
BY DEF Common

LEMMA SyscallEntryIs ==
    /\ syscall_entry[1] = <<"swapgs">> /\ syscall_entry[2] = <<"save user rsp">>
    /\ syscall_entry[3] = <<"load rsp", "kernel_rsp">>
    /\ syscall_entry[4] = <<"push", <<"r11", "rcx", "rbx", "rbp", "r12", "r13", "r14", "r15">> >>
    /\ syscall_entry[5] = <<"mov", Arguments>> /\ syscall_entry[6] = <<"sub", 1>>
    /\ syscall_entry[7] = <<"push", <<"r12">> >> /\ syscall_entry[8] = <<"call", "syscall_dispatch">>
    /\ syscall_entry[9] = <<"add", 2>>
    /\ syscall_entry[10] = <<"pop", <<"r15", "r14", "r13", "r12", "rbp", "rbx", "rcx", "r11">> >>
    /\ syscall_entry[11] = <<"load rsp", "user_rsp">> /\ syscall_entry[12] = <<"swapgs">>
    /\ syscall_entry[13] = <<"sysretq">>
BY DEF syscall_entry

LEMMA GdtFlushIs ==
    /\ gdt_flush[1] = <<"lgdt">> /\ gdt_flush[2] = <<"mov ds", KERNEL_DS>>
    /\ gdt_flush[3] = <<"mov ss", KERNEL_DS>> /\ gdt_flush[4] = <<"mov gs", KERNEL_DS>>
    /\ gdt_flush[5] = <<"pushi", <<Imm(KERNEL_CS), Rip(At("gdt_flush", 7))>> >>
    /\ gdt_flush[6] = <<"retfq">> /\ gdt_flush[7] = <<"ltr", TSS_SEL>> /\ gdt_flush[8] = <<"ret">>
BY DEF gdt_flush

LEMMA EnterUserIs ==
    /\ enter_user[1] = <<"cli">> /\ enter_user[2] = <<"mov ds", USER_DS>> /\ enter_user[3] = <<"mov gs", USER_DS>>
    /\ enter_user[4] = <<"pushi", <<Imm(USER_DS)>> >> /\ enter_user[5] = <<"push", <<"rsi">> >>
    /\ enter_user[6] = <<"pushi", <<Flags(TRUE), Imm(USER_CS)>> >>
    /\ enter_user[7] = <<"push", <<"rdi">> >> /\ enter_user[8] = <<"iretq">>
BY DEF enter_user

(* What is not an interrupt, an exception or a device. *)
Execute ==
    \/ PushStep \/ PopStep \/ RspStep \/ MovStep \/ CpuLocalStep \/ SegmentStep \/ TableStep
    \/ Cli \/ Iretq \/ Syscall \/ Sysretq \/ Stub
    \/ CallIsr \/ CallIrq \/ CallDispatch
    \/ GdtInit \/ SetUp \/ BringUp \/ syscall_init \/ EnterUser \/ UserStep

LEMMA StepsAre ==
    EntryNext => Execute \/ Interrupt \/ (\E v \in Exceptions : Fails(v)) \/ Devices
BY DEF EntryNext, Execute

LEMMA Executes ==
    ASSUME Execute, core.pc.routine \in DOMAIN Code
    PROVE  /\ Instr[1] \in {"push", "pushi"} => PushStep
           /\ Instr[1] = "pop" => PopStep
           /\ Instr[1] \in {"sub", "add"} => RspStep
           /\ Instr[1] \in {"mov", "lea", "swapgs"} => MovStep
           /\ Instr[1] \in {"save user rsp", "load rsp"} => CpuLocalStep
           /\ Instr[1] \in {"mov ds", "mov gs", "mov ss", "retfq", "ret"} => SegmentStep
           /\ Instr[1] \in {"lgdt", "ltr"} => TableStep
           /\ Instr[1] = "cli" => Cli
           /\ Instr[1] = "iretq" => Iretq
           /\ Instr[1] = "sysretq" => Sysretq
           /\ Instr[1] = "call" => CallIsr \/ CallIrq \/ CallDispatch
<1>1. core.pc.routine \notin {"kmain", "user", "stub"}
  BY CodeIs
<1>2. /\ PushStep => Instr[1] \in {"push", "pushi"}
      /\ PopStep => Instr[1] = "pop"
      /\ RspStep => Instr[1] \in {"sub", "add"}
      /\ MovStep => Instr[1] \in {"mov", "lea", "swapgs"}
  BY DEF PushStep, PopStep, RspStep, MovStep, Fetch
<1>3. /\ CpuLocalStep => Instr[1] \in {"save user rsp", "load rsp"}
      /\ SegmentStep => Instr[1] \in {"mov ds", "mov gs", "mov ss", "retfq", "ret"}
      /\ TableStep => Instr[1] \in {"lgdt", "ltr"}
  BY DEF CpuLocalStep, SegmentStep, TableStep, Fetch
<1>4. (Cli => Instr[1] = "cli") /\ (Iretq => Instr[1] = "iretq") /\ (Sysretq => Instr[1] = "sysretq")
  BY DEF Cli, Iretq, Sysretq, Fetch
<1>5. CallIsr \/ CallIrq \/ CallDispatch => Instr[1] = "call"
  BY DEF CallIsr, CallIrq, CallDispatch, Calls, Fetch
<1>6. ~Syscall /\ ~Stub /\ ~UserStep
  BY <1>1 DEF Syscall, Stub, UserStep, User
<1>7. ~GdtInit /\ ~SetUp /\ ~BringUp /\ ~syscall_init /\ ~EnterUser
  <2>1. ~KmainAt(0) /\ ~KmainAt(1) /\ ~KmainAt(2)
    BY <1>1 DEF KmainAt, At
  <2> QED BY <2>1 DEF GdtInit, SetUp, BringUp, syscall_init, EnterUser
<1> QED BY <1>2, <1>3, <1>4, <1>5, <1>6, <1>7 DEF Execute

(* Outside of the code, each routine has actions of its own. *)
LEMMA ExecutesElsewhere ==
    ASSUME Execute, core.pc.routine \notin DOMAIN Code
    PROVE  /\ core.pc.routine = "kmain" =>
                 \/ core.pc = At("kmain", 0) /\ GdtInit
                 \/ core.pc = At("kmain", 1) /\ (SetUp \/ BringUp \/ syscall_init)
                 \/ core.pc = At("kmain", 2) /\ EnterUser
           /\ core.pc.routine = "user" => Syscall \/ UserStep
           /\ core.pc.routine = "stub" => Stub
           /\ core.pc.routine \in {"kmain", "user", "stub"}
<1>1. \A op : ~Fetch(op)
  BY DEF Fetch
<1>2. ~PushStep /\ ~PopStep /\ ~RspStep /\ ~MovStep /\ ~CpuLocalStep /\ ~SegmentStep
  BY <1>1 DEF PushStep, PopStep, RspStep, MovStep, CpuLocalStep, SegmentStep
<1>3. ~TableStep /\ ~Cli /\ ~Iretq /\ ~Sysretq /\ ~CallIsr /\ ~CallIrq /\ ~CallDispatch
  BY <1>1 DEF TableStep, Cli, Iretq, Sysretq, CallIsr, CallIrq, CallDispatch, Calls
<1>4. /\ Syscall \/ UserStep => core.pc.routine = "user"
      /\ Stub => core.pc.routine = "stub"
  BY DEF Syscall, UserStep, User, Stub
<1>5. /\ GdtInit => core.pc = At("kmain", 0)
      /\ SetUp \/ BringUp \/ syscall_init => core.pc = At("kmain", 1)
      /\ EnterUser => core.pc = At("kmain", 2)
  BY DEF GdtInit, SetUp, BringUp, syscall_init, EnterUser, KmainAt
<1>6. \A n : core.pc = At("kmain", n) => core.pc.routine = "kmain"
  BY DEF At
<1> QED BY <1>2, <1>3, <1>4, <1>5, <1>6 DEF Execute

-----------------------------------------------------------------------------
(* The GDT. *)
LEMMA Selectors ==
    /\ KERNEL_CS = 8 /\ KERNEL_DS = 16 /\ USER_DS = 27 /\ USER_CS = 35 /\ TSS_SEL = 40 /\ StarUser = 19
    /\ GDT_SEL(5, 0) = 40
BY DEF KERNEL_CS, KERNEL_DS, USER_DS, USER_CS, TSS_SEL, StarUser, GDT_SEL, GDT_KCODE, GDT_KDATA,
       GDT_UDATA, GDT_UCODE, GDT_TSS

LEMMA Entries ==
    /\ gdt_entry(CODE, GRAN + LONG) = [dpl |-> 0, long |-> TRUE, type |-> "code"]
    /\ gdt_entry(DATA, GRAN + SIZE) = [dpl |-> 0, long |-> FALSE, type |-> "data"]
    /\ gdt_entry(DATA + RING3, GRAN + SIZE) = [dpl |-> 3, long |-> FALSE, type |-> "data"]
    /\ gdt_entry(CODE + RING3, GRAN + LONG) = [dpl |-> 3, long |-> TRUE, type |-> "code"]
    /\ gdt_set_tss = [dpl |-> 0, long |-> FALSE, type |-> "tss"]
<1>1. /\ CODE = 154 /\ DATA = 146 /\ DATA + RING3 = 242 /\ CODE + RING3 = 250 /\ TSS = 137
      /\ GRAN + LONG = 160 /\ GRAN + SIZE = 192
  BY DEF CODE, DATA, TSS, RING3, GRAN, SIZE, LONG
<1>2. /\ (160 \div 32) % 2 = 1 /\ ~((192 \div 32) % 2 = 1) /\ ~((0 \div 32) % 2 = 1)
  OBVIOUS
<1>3. /\ (154 \div 32) % 4 = 0 /\ ~((154 \div 16) % 2 = 0) /\ (154 \div 8) % 2 = 1
  OBVIOUS
<1>4. /\ (146 \div 32) % 4 = 0 /\ ~((146 \div 16) % 2 = 0) /\ ~((146 \div 8) % 2 = 1)
  OBVIOUS
<1>5. /\ (242 \div 32) % 4 = 3 /\ ~((242 \div 16) % 2 = 0) /\ ~((242 \div 8) % 2 = 1)
  OBVIOUS
<1>6. /\ (250 \div 32) % 4 = 3 /\ ~((250 \div 16) % 2 = 0) /\ (250 \div 8) % 2 = 1
  OBVIOUS
<1>7. /\ (137 \div 32) % 4 = 0 /\ (137 \div 16) % 2 = 0
  OBVIOUS
<1>8. gdt_entry(154, 160) = [dpl |-> 0, long |-> TRUE, type |-> "code"]
  BY <1>2, <1>3, Zenon DEF gdt_entry, LONG
<1>9. gdt_entry(146, 192) = [dpl |-> 0, long |-> FALSE, type |-> "data"]
  BY <1>2, <1>4, Zenon DEF gdt_entry, LONG
<1>10. gdt_entry(242, 192) = [dpl |-> 3, long |-> FALSE, type |-> "data"]
  BY <1>2, <1>5, Zenon DEF gdt_entry, LONG
<1>11. gdt_entry(250, 160) = [dpl |-> 3, long |-> TRUE, type |-> "code"]
  BY <1>2, <1>6, Zenon DEF gdt_entry, LONG
<1>12. gdt_entry(137, 0) = [dpl |-> 0, long |-> FALSE, type |-> "tss"]
  BY <1>2, <1>7, Zenon DEF gdt_entry, LONG
<1> QED BY <1>1, <1>8, <1>9, <1>10, <1>11, <1>12, Zenon DEF gdt_set_tss

LEMMA GdtIs ==
    /\ DOMAIN gdt_init = 0 .. 6
    /\ gdt_init[1] = [dpl |-> 0, long |-> TRUE, type |-> "code"]
    /\ gdt_init[2] = [dpl |-> 0, long |-> FALSE, type |-> "data"]
    /\ gdt_init[3] = [dpl |-> 3, long |-> FALSE, type |-> "data"]
    /\ gdt_init[4] = [dpl |-> 3, long |-> TRUE, type |-> "code"]
    /\ gdt_init[5] = [dpl |-> 0, long |-> FALSE, type |-> "tss"]
BY Entries DEF gdt_init, GDT_KCODE, GDT_KDATA, GDT_UDATA, GDT_UCODE, GDT_TSS

LEMMA BusyGdtIs ==
    /\ DOMAIN Gdt = 0 .. 6
    /\ Gdt[1] = gdt_init[1] /\ Gdt[2] = gdt_init[2] /\ Gdt[3] = gdt_init[3] /\ Gdt[4] = gdt_init[4]
BY GdtIs DEF Gdt, GDT_TSS

LEMMA Suits ==
    ASSUME sys.gdt \in {gdt_init, Gdt}
    PROVE  /\ CodeSuits(KERNEL_CS) /\ CodeSuits(USER_CS)
           /\ StackSuits(KERNEL_DS, 0) /\ StackSuits(USER_DS, 3)
           /\ Cpl = 0 => DataSuits(KERNEL_DS) /\ DataSuits(USER_DS)
<1>1. DOMAIN sys.gdt = 0 .. 6
  BY GdtIs, BusyGdtIs
<1>2. /\ Entry(8) = [dpl |-> 0, long |-> TRUE, type |-> "code"]
      /\ Entry(16) = [dpl |-> 0, long |-> FALSE, type |-> "data"]
      /\ Entry(27) = [dpl |-> 3, long |-> FALSE, type |-> "data"]
      /\ Entry(35) = [dpl |-> 3, long |-> TRUE, type |-> "code"]
  <2>1. 8 \div 8 = 1 /\ 16 \div 8 = 2 /\ 27 \div 8 = 3 /\ 35 \div 8 = 4
    OBVIOUS
  <2>2. /\ sys.gdt[1] = [dpl |-> 0, long |-> TRUE, type |-> "code"]
        /\ sys.gdt[2] = [dpl |-> 0, long |-> FALSE, type |-> "data"]
        /\ sys.gdt[3] = [dpl |-> 3, long |-> FALSE, type |-> "data"]
        /\ sys.gdt[4] = [dpl |-> 3, long |-> TRUE, type |-> "code"]
    BY GdtIs, BusyGdtIs
  <2>3. 1 \in 0 .. 6 /\ 2 \in 0 .. 6 /\ 3 \in 0 .. 6 /\ 4 \in 0 .. 6
    OBVIOUS
  <2> QED BY <1>1, <2>1, <2>2, <2>3, Zenon DEF Entry
<1>3. 8 % 4 = 0 /\ 16 % 4 = 0 /\ 27 % 4 = 3 /\ 35 % 4 = 3 /\ 16 \div 8 = 2 /\ 27 \div 8 = 3
  OBVIOUS
<1>4. CodeSuits(8) /\ CodeSuits(35)
  BY <1>2, <1>3 DEF CodeSuits
<1>5. StackSuits(16, 0) /\ StackSuits(27, 3)
  BY <1>2, <1>3 DEF StackSuits
<1>6. Cpl = 0 => DataSuits(16) /\ DataSuits(27)
  BY <1>2, <1>3 DEF DataSuits
<1> QED BY <1>4, <1>5, <1>6, Selectors

LEMMA TssThere == ASSUME sys.gdt = gdt_init PROVE Entry(TSS_SEL).type = "tss" /\ TSS_SEL \div 8 = GDT_TSS
<1>1. 40 \div 8 = 5
  OBVIOUS
<1> QED BY <1>1, GdtIs, Selectors DEF Entry, GDT_TSS

LEMMA Sysrets == Ring3(StarUser + 16) = USER_CS /\ Ring3(StarUser + 8) = USER_DS /\ KERNEL_CS + 8 = KERNEL_DS
<1>1. (35 \div 4) * 4 + 3 = 35 /\ (27 \div 4) * 4 + 3 = 27
  OBVIOUS
<1> QED BY <1>1, Selectors DEF Ring3

-----------------------------------------------------------------------------
(* The frame. *)
LEMMA SavedIs ==
    /\ Len(Saved) = 15 /\ DOMAIN Saved = 1 .. 15
    /\ Saved[1] = "rax" /\ Saved[2] = "rcx" /\ Saved[3] = "rdx" /\ Saved[4] = "rbx" /\ Saved[5] = "rbp"
    /\ Saved[6] = "rsi" /\ Saved[7] = "rdi" /\ Saved[8] = "r8" /\ Saved[9] = "r9" /\ Saved[10] = "r10"
    /\ Saved[11] = "r11" /\ Saved[12] = "r12" /\ Saved[13] = "r13" /\ Saved[14] = "r14" /\ Saved[15] = "r15"
BY DEF Saved

LEMMA RestoredIs ==
    /\ Len(Restored) = 15 /\ DOMAIN Restored = 1 .. 15
    /\ Restored[15] = "rax" /\ Restored[14] = "rcx" /\ Restored[13] = "rdx" /\ Restored[12] = "rbx"
    /\ Restored[11] = "rbp" /\ Restored[10] = "rsi" /\ Restored[9] = "rdi" /\ Restored[8] = "r8"
    /\ Restored[7] = "r9" /\ Restored[6] = "r10" /\ Restored[5] = "r11" /\ Restored[4] = "r12"
    /\ Restored[3] = "r13" /\ Restored[2] = "r14" /\ Restored[1] = "r15"
BY DEF Restored

LEMMA GprsAre ==
    Gprs = {"rax", "rcx", "rdx", "rbx", "rbp", "rsi", "rdi", "r8", "r9", "r10", "r11", "r12", "r13", "r14", "r15"}
<1>1. \A r \in {"rax", "rcx", "rdx", "rbx", "rbp", "rsi", "rdi", "r8", "r9", "r10", "r11", "r12", "r13", "r14", "r15"} :
          \E i \in DOMAIN Saved : Saved[i] = r
  BY SavedIs
<1>2. \A i \in 1 .. 15 : i = 1 \/ i = 2 \/ i = 3 \/ i = 4 \/ i = 5 \/ i = 6 \/ i = 7 \/ i = 8 \/ i = 9
                         \/ i = 10 \/ i = 11 \/ i = 12 \/ i = 13 \/ i = 14 \/ i = 15
  OBVIOUS
<1>3. \A i \in DOMAIN Saved : Saved[i] \in
          {"rax", "rcx", "rdx", "rbx", "rbp", "rsi", "rdi", "r8", "r9", "r10", "r11", "r12", "r13", "r14", "r15"}
  BY <1>2, SavedIs
<1> QED BY <1>1, <1>3 DEF Gprs

(* The words of the frame, from the one its address points to. *)
Others == <<"vector", "error", "rip", "cs", "rflags", "rsp", "ss">>
LEMMA FrameLayout ==
    /\ Len(isr_frame_t) = 22 /\ DOMAIN isr_frame_t = 1 .. 22
    /\ \A i \in 1 .. 15 : isr_frame_t[i] = Restored[i]
    /\ isr_frame_t[16] = "vector" /\ isr_frame_t[17] = "error" /\ isr_frame_t[18] = "rip" /\ isr_frame_t[19] = "cs"
    /\ isr_frame_t[20] = "rflags" /\ isr_frame_t[21] = "rsp" /\ isr_frame_t[22] = "ss"
<1> DEFINE T == {Restored[i] : i \in 1 .. 15} \cup {Others[i] : i \in 1 .. 7}
<1>1. Restored \in Seq(T) /\ Len(Restored) = 15
  <2>1. Restored = [i \in 1 .. 15 |-> Restored[i]] /\ Len(Restored) = 15
    BY DEF Restored
  <2>2. Restored \in [1 .. 15 -> T]
    BY <2>1, Zenon
  <2> HIDE DEF T
  <2> QED BY <2>1, <2>2, SeqDef
<1>2. Others \in Seq(T) /\ Len(Others) = 7
  <2>1. Others = [i \in 1 .. 7 |-> Others[i]] /\ Len(Others) = 7
    BY DEF Others
  <2>2. Others \in [1 .. 7 -> T]
    BY <2>1, Zenon
  <2> HIDE DEF T
  <2> QED BY <2>1, <2>2, SeqDef
<1> HIDE DEF T
<1>3. isr_frame_t = Restored \o Others
  BY DEF isr_frame_t, Others
<1>4. /\ Restored \o Others \in Seq(T)
      /\ Len(Restored \o Others) = Len(Restored) + Len(Others)
      /\ \A i \in 1 .. Len(Restored) + Len(Others) : (Restored \o Others)[i] =
            IF i <= Len(Restored) THEN Restored[i] ELSE Others[i - Len(Restored)]
  BY <1>1, <1>2, ConcatProperties
<1>5. /\ isr_frame_t \in Seq(T) /\ Len(isr_frame_t) = 22
      /\ \A i \in 1 .. 22 : isr_frame_t[i] = IF i <= 15 THEN Restored[i] ELSE Others[i - 15]
  <2>1. 15 + 7 = 22
    OBVIOUS
  <2>2. isr_frame_t \in Seq(T) /\ Len(isr_frame_t) = 22
    BY <1>1, <1>2, <1>3, <1>4, <2>1
  <2>3. \A i \in 1 .. 22 : isr_frame_t[i] = IF i <= 15 THEN Restored[i] ELSE Others[i - 15]
    BY <1>1, <1>2, <1>3, <1>4, <2>1
  <2> QED BY <2>2, <2>3
<1>6. DOMAIN isr_frame_t = 1 .. 22
  BY <1>5, LenProperties
<1>7. /\ isr_frame_t[16] = Others[1] /\ isr_frame_t[17] = Others[2] /\ isr_frame_t[18] = Others[3]
      /\ isr_frame_t[19] = Others[4] /\ isr_frame_t[20] = Others[5] /\ isr_frame_t[21] = Others[6]
      /\ isr_frame_t[22] = Others[7]
  BY <1>5
<1>8. \A i \in 1 .. 15 : isr_frame_t[i] = Restored[i]
  BY <1>5
<1> QED BY <1>5, <1>6, <1>7, <1>8 DEF Others

(* A field's word, and a register's, is one only. *)
Index ==
    [x \in Fields |->
        CASE x = "r15" -> 1 [] x = "r14" -> 2 [] x = "r13" -> 3 [] x = "r12" -> 4 [] x = "r11" -> 5
          [] x = "r10" -> 6 [] x = "r9" -> 7 [] x = "r8" -> 8 [] x = "rdi" -> 9 [] x = "rsi" -> 10
          [] x = "rbp" -> 11 [] x = "rbx" -> 12 [] x = "rdx" -> 13 [] x = "rcx" -> 14 [] x = "rax" -> 15
          [] x = "vector" -> 16 [] x = "error" -> 17 [] x = "rip" -> 18 [] x = "cs" -> 19
          [] x = "rflags" -> 20 [] x = "rsp" -> 21 [] x = "ss" -> 22]

LEMMA IndexIs ==
    /\ Index["r15"] = 1 /\ Index["r14"] = 2 /\ Index["r13"] = 3 /\ Index["r12"] = 4 /\ Index["r11"] = 5
    /\ Index["r10"] = 6 /\ Index["r9"] = 7 /\ Index["r8"] = 8 /\ Index["rdi"] = 9 /\ Index["rsi"] = 10
    /\ Index["rbp"] = 11 /\ Index["rbx"] = 12 /\ Index["rdx"] = 13 /\ Index["rcx"] = 14 /\ Index["rax"] = 15
    /\ Index["vector"] = 16 /\ Index["error"] = 17 /\ Index["rip"] = 18 /\ Index["cs"] = 19
    /\ Index["rflags"] = 20 /\ Index["rsp"] = 21 /\ Index["ss"] = 22
BY GprsAre DEF Index, Fields

LEMMA IndexInverts ==
    /\ \A i \in 1 .. 22 : isr_frame_t[i] \in Fields /\ Index[isr_frame_t[i]] = i
    /\ \A x \in Fields : Index[x] \in 1 .. 22 /\ isr_frame_t[Index[x]] = x
    /\ \A x \in Gprs : Index[x] \in 1 .. 15
<1>1. \A i \in 1 .. 22 : i = 1 \/ i = 2 \/ i = 3 \/ i = 4 \/ i = 5 \/ i = 6 \/ i = 7 \/ i = 8 \/ i = 9
                         \/ i = 10 \/ i = 11 \/ i = 12 \/ i = 13 \/ i = 14 \/ i = 15 \/ i = 16 \/ i = 17
                         \/ i = 18 \/ i = 19 \/ i = 20 \/ i = 21 \/ i = 22
  OBVIOUS
<1>2. /\ isr_frame_t[1] = "r15" /\ isr_frame_t[2] = "r14" /\ isr_frame_t[3] = "r13" /\ isr_frame_t[4] = "r12"
      /\ isr_frame_t[5] = "r11" /\ isr_frame_t[6] = "r10" /\ isr_frame_t[7] = "r9" /\ isr_frame_t[8] = "r8"
      /\ isr_frame_t[9] = "rdi" /\ isr_frame_t[10] = "rsi" /\ isr_frame_t[11] = "rbp" /\ isr_frame_t[12] = "rbx"
      /\ isr_frame_t[13] = "rdx" /\ isr_frame_t[14] = "rcx" /\ isr_frame_t[15] = "rax"
  BY FrameLayout, RestoredIs
<1>3. \A i \in 1 .. 22 : isr_frame_t[i] \in Fields /\ Index[isr_frame_t[i]] = i
  BY <1>1, <1>2, FrameLayout, IndexIs, GprsAre DEF Fields
<1>4. \A x \in Fields : Index[x] \in 1 .. 22 /\ isr_frame_t[Index[x]] = x
  BY <1>2, FrameLayout, IndexIs, GprsAre DEF Fields
<1>5. \A x \in Gprs : Index[x] \in 1 .. 15
  BY IndexIs, GprsAre
<1> QED BY <1>3, <1>4, <1>5

LEMMA RestoredInverts ==
    /\ \A x \in Gprs : /\ Index[x] \in 1 .. 15 /\ Restored[Index[x]] = x
                       /\ \A i \in 1 .. 15 : Restored[i] = x => i = Index[x]
    /\ \A x \in Gprs : 16 - Index[x] \in 1 .. 15 /\ Saved[16 - Index[x]] = x
    /\ Gprs \subseteq Fields
<1>1. \A x \in Gprs : Index[x] \in 1 .. 15 /\ Restored[Index[x]] = x
  BY IndexIs, GprsAre, RestoredIs
<1>2. \A i \in 1 .. 15 : Index[Restored[i]] = i
  <2>1. \A i \in 1 .. 15 : i \in 1 .. 22
    OBVIOUS
  <2> QED BY <2>1, FrameLayout, IndexInverts
<1>3. \A x \in Gprs : 16 - Index[x] \in 1 .. 15 /\ Saved[16 - Index[x]] = x
  BY IndexIs, GprsAre, SavedIs
<1> QED BY <1>1, <1>2, <1>3 DEF Fields

LEMMA FieldsAre == {isr_frame_t[i] : i \in DOMAIN isr_frame_t} = Fields
BY FrameLayout, IndexInverts

LEMMA FrameIndex ==
    ASSUME NEW x \in Fields PROVE (CHOOSE i \in DOMAIN isr_frame_t : isr_frame_t[i] = x) = Index[x]
<1>1. Index[x] \in DOMAIN isr_frame_t /\ isr_frame_t[Index[x]] = x
  BY FrameLayout, IndexInverts
<1>2. \A i \in DOMAIN isr_frame_t : isr_frame_t[i] = x => i = Index[x]
  BY FrameLayout, IndexInverts
<1> QED BY <1>1, <1>2, Zenon

(* FrameAt of the stacks m. *)
FrameOf(m, p) == [x \in Fields |-> m[p.stack][p.depth + 1 - Index[x]]]
LEMMA FrameWords == ASSUME NEW p PROVE FrameAt(p) = FrameOf(mem, p)
<1>1. FrameAt(p) = [x \in Fields |-> mem[p.stack][p.depth + 1 - (CHOOSE i \in DOMAIN isr_frame_t : isr_frame_t[i] = x)]]
  BY FieldsAre, Zenon DEF FrameAt
<1> QED BY <1>1, FrameIndex, Zenon DEF FrameOf

LEMMA FrameWordsPrimed ==
    FrameAt(core.rsp)' = FrameOf(mem', core'.rsp)
<1>1. FrameAt(core.rsp)' =
          [x \in Fields |->
              mem'[core'.rsp.stack][core'.rsp.depth + 1 - (CHOOSE i \in DOMAIN isr_frame_t : isr_frame_t[i] = x)]]
  BY FieldsAre, Zenon DEF FrameAt
<1> QED BY <1>1, FrameIndex, Zenon DEF FrameOf

(* The words of f are on the stack. *)
Holds(m, p, f) ==
    LET w(i) == m[p.stack][p.depth - i] IN
    /\ \A x \in Gprs : w(Index[x] - 1) = f[x]
    /\ w(15) = f["vector"] /\ w(16) = f["error"] /\ w(17) = f["rip"] /\ w(18) = f["cs"]
    /\ w(19) = f["rflags"] /\ w(20) = f["rsp"] /\ w(21) = f["ss"]

LEMMA FrameIs ==
    ASSUME NEW m, NEW p, p.depth \in Nat
    PROVE  /\ IsFrame(FrameOf(m, p)) /\ Holds(m, p, FrameOf(m, p))
           /\ \A f : IsFrame(f) /\ Holds(m, p, f) => FrameOf(m, p) = f
<1> DEFINE g == FrameOf(m, p)
           w(i) == m[p.stack][p.depth - i]
<1>1. IsFrame(g)
  BY Zenon DEF IsFrame, FrameOf
<1>2. ASSUME NEW x \in Fields PROVE g[x] = w(Index[x] - 1)
  <2>1. Index[x] \in Nat
    BY IndexInverts
  <2>2. p.depth + 1 - Index[x] = p.depth - (Index[x] - 1)
    BY <2>1
  <2> QED BY <2>2 DEF FrameOf
<1> HIDE DEF g, w
<1>3. /\ g["vector"] = w(15) /\ g["error"] = w(16) /\ g["rip"] = w(17) /\ g["cs"] = w(18)
      /\ g["rflags"] = w(19) /\ g["rsp"] = w(20) /\ g["ss"] = w(21)
  <2>1. /\ Index["vector"] - 1 = 15 /\ Index["error"] - 1 = 16 /\ Index["rip"] - 1 = 17
        /\ Index["cs"] - 1 = 18 /\ Index["rflags"] - 1 = 19 /\ Index["rsp"] - 1 = 20 /\ Index["ss"] - 1 = 21
    BY IndexIs
  <2>2. {"vector", "error", "rip", "cs", "rflags", "rsp", "ss"} \subseteq Fields
    BY DEF Fields
  <2> QED BY <1>2, <2>1, <2>2
<1>4. \A x \in Gprs : g[x] = w(Index[x] - 1)
  BY <1>2 DEF Fields
<1>5. Holds(m, p, g)
  BY <1>3, <1>4 DEF Holds, w
<1>6. ASSUME NEW f, IsFrame(f), Holds(m, p, f) PROVE g = f
  <2>1. \A x \in Gprs : g[x] = f[x]
    BY <1>4, <1>6 DEF Holds, w
  <2>2. /\ g["vector"] = f["vector"] /\ g["error"] = f["error"] /\ g["rip"] = f["rip"] /\ g["cs"] = f["cs"]
        /\ g["rflags"] = f["rflags"] /\ g["rsp"] = f["rsp"] /\ g["ss"] = f["ss"]
    BY <1>3, <1>6 DEF Holds, w
  <2>3. \A x \in Fields : g[x] = f[x]
    BY <2>1, <2>2 DEF Fields
  <2>4. g = [x \in Fields |-> g[x]] /\ f = [x \in Fields |-> f[x]]
    BY <1>1, <1>6 DEF IsFrame
  <2> QED BY <2>3, <2>4, Zenon
<1> QED BY <1>1, <1>5, <1>6 DEF g

(* The stub's common part saves all the registers of a context, and restores them. *)
LEMMA SavedRegs ==
    LET ws == [i \in DOMAIN Saved |-> core.reg[Saved[i]]] IN
    IsSeq(ws) /\ Len(ws) = 15 /\ \A x \in Gprs : ws[16 - Index[x]] = core.reg[x]
<1> DEFINE ws == [i \in DOMAIN Saved |-> core.reg[Saved[i]]]
           R == {core.reg[Saved[i]] : i \in 1 .. 15}
<1>1. ws \in [1 .. 15 -> R]
  BY SavedIs
<1>2. ws \in Seq(R) /\ Len(ws) = 15
  <2> HIDE DEF R, ws
  <2>1. ws \in Seq(R)
    BY <1>1, SeqDef
  <2> QED BY <1>1, <2>1, LenProperties
<1>3. IsSeq(ws)
  BY <1>2, SeqOf
<1>4. \A x \in Gprs : ws[16 - Index[x]] = core.reg[x]
  BY RestoredInverts, SavedIs
<1> QED BY <1>2, <1>3, <1>4

LEMMA PushSaved ==
    ASSUME CoreShape, MemShape, Within(7), PushStep, Instr = <<"push", Saved>>, NEW f, IsFrame(f), RegsAre(f),
           Pop(0) = f["vector"], Pop(1) = f["error"], FiveAre(f, 2)
    PROVE  /\ core' = Plain(Following, Deeper(core.rsp, 15)) /\ CoreShape' /\ MemShape' /\ Still
           /\ core'.rsp.stack = core.rsp.stack /\ core'.rsp.depth = core.rsp.depth + 15
           /\ core'.rsp.depth = Len(mem'[core'.rsp.stack])
           /\ \A s \in Stacks \ {core.rsp.stack} : mem'[s] = mem[s]
           /\ FrameAt(core.rsp)' = f
<1> DEFINE ws == [i \in DOMAIN Saved |-> core.reg[Saved[i]]]
<1>1. IsSeq(ws) /\ Len(ws) = 15 /\ \A x \in Gprs : ws[16 - Index[x]] = core.reg[x]
  BY SavedRegs
<1>3. Instr[1] = "push" /\ ws = [i \in DOMAIN Instr[2] |-> core.reg[Instr[2][i]]]
  OBVIOUS
<1> HIDE DEF ws
<1>2. Within(0) /\ core.rsp.depth \in Nat /\ core.rsp.depth >= 7
  BY DEF Within, CoreShape, IsPtr
<1>4. core' = Plain(Following, Deeper(core.rsp, 15)) /\ OnStack(15, ws) /\ Still
  <2>1. 15 \in Nat
    OBVIOUS
  <2> QED BY <1>1, <1>2, <1>3, <2>1, PushEffect, Zenon
<1>5. \A x \in Gprs : Pop(Index[x] - 1)' = f[x]
  <2> SUFFICES ASSUME NEW x \in Gprs PROVE Pop(Index[x] - 1)' = f[x]
    OBVIOUS
  <2>1. Index[x] \in 1 .. 15
    BY RestoredInverts
  <2>2. Index[x] - 1 \in 0 .. 15 - 1 /\ 15 - (Index[x] - 1) = 16 - Index[x]
    BY <2>1
  <2>3. Pop(Index[x] - 1)' = ws[15 - (Index[x] - 1)]
    BY <1>4, <2>2 DEF OnStack
  <2> QED BY <1>1, <2>2, <2>3 DEF RegsAre
<1>6. /\ Pop(15)' = Pop(0) /\ Pop(16)' = Pop(1) /\ Pop(17)' = Pop(2) /\ Pop(18)' = Pop(3) /\ Pop(19)' = Pop(4)
      /\ Pop(20)' = Pop(5) /\ Pop(21)' = Pop(6)
  <2>1. \A i \in Nat : i < core.rsp.depth => Pop(15 + i)' = Pop(i)
    BY <1>4 DEF OnStack
  <2>2. /\ Pop(15 + 0)' = Pop(0) /\ Pop(15 + 1)' = Pop(1) /\ Pop(15 + 2)' = Pop(2) /\ Pop(15 + 3)' = Pop(3)
        /\ Pop(15 + 4)' = Pop(4) /\ Pop(15 + 5)' = Pop(5) /\ Pop(15 + 6)' = Pop(6)
    BY <1>2, <2>1
  <2> QED BY <2>2
<1>7. CoreShape' /\ core'.rsp.depth \in Nat
  BY <1>4 DEF OnStack, CoreShape, IsPtr
<1>8. Holds(mem', core'.rsp, f)
  <2>1. /\ Pop(15)' = f["vector"] /\ Pop(16)' = f["error"] /\ Pop(17)' = f["rip"] /\ Pop(18)' = f["cs"]
        /\ Pop(19)' = f["rflags"] /\ Pop(20)' = f["rsp"] /\ Pop(21)' = f["ss"]
    <3>1. Pop(2) = f["rip"] /\ Pop(3) = f["cs"] /\ Pop(4) = f["rflags"] /\ Pop(5) = f["rsp"] /\ Pop(6) = f["ss"]
      BY DEF FiveAre
    <3> QED BY <1>6, <3>1
  <2> QED BY <1>5, <2>1 DEF Holds, Pop
<1>9. FrameAt(core.rsp)' = f
  BY <1>7, <1>8, FrameIs, FrameWordsPrimed
<1> QED BY <1>4, <1>9 DEF OnStack

LEMMA PopRestored ==
    ASSUME CoreShape, MemShape, Within(22), PopStep, Instr = <<"pop", Restored>>
    PROVE  /\ core' = Core(Following, core'.reg, Deeper(core.rsp, -15), core.cs, core.ss, core.gs, core.kernel_gs)
           /\ OffStack(15) /\ CoreShape' /\ Still
           /\ \A f : f = FrameAt(core.rsp) => RegsAre(f)' /\ FiveAre(f, 2)'
<1>1. Within(15) /\ core.rsp.depth \in Nat /\ core.rsp.depth >= 22
  BY DEF Within, CoreShape, IsPtr
<1>2. /\ core' = Core(Following, core'.reg, Deeper(core.rsp, -15), core.cs, core.ss, core.gs, core.kernel_gs)
      /\ core'.reg = [r \in Gprs |-> IF \E i \in DOMAIN Restored : Restored[i] = r
                                     THEN Pop((CHOOSE i \in DOMAIN Restored : Restored[i] = r) - 1)
                                     ELSE core.reg[r]]
      /\ OffStack(15) /\ CoreShape' /\ Still
  BY <1>1, RestoredIs, PopEffect
<1>3. ASSUME NEW x \in Gprs PROVE core'.reg[x] = Pop(Index[x] - 1)
  <2>1. /\ Index[x] \in DOMAIN Restored /\ Restored[Index[x]] = x
        /\ \A i \in DOMAIN Restored : Restored[i] = x => i = Index[x]
    BY RestoredInverts, RestoredIs
  <2>2. (CHOOSE i \in DOMAIN Restored : Restored[i] = x) = Index[x]
    BY <2>1, Zenon
  <2> QED BY <1>2, <2>1, <2>2, Zenon
<1>4. \A i \in Nat : 15 + i < core.rsp.depth => Pop(i)' = Pop(15 + i)
  BY <1>2 DEF OffStack
<1>5. /\ Pop(2)' = Pop(15 + 2) /\ Pop(2 + 1)' = Pop(15 + 3) /\ Pop(2 + 2)' = Pop(15 + 4)
      /\ Pop(2 + 3)' = Pop(15 + 5) /\ Pop(2 + 4)' = Pop(15 + 6)
  BY <1>1, <1>4
<1>6. Holds(mem, core.rsp, FrameAt(core.rsp))
  BY <1>1, FrameIs, FrameWords
<1>7. ASSUME NEW f, f = FrameAt(core.rsp) PROVE RegsAre(f)' /\ FiveAre(f, 2)'
  <2>1. \A x \in Gprs : Pop(Index[x] - 1) = f[x]
    BY <1>6, <1>7 DEF Holds, Pop
  <2>2. Pop(17) = f["rip"] /\ Pop(18) = f["cs"] /\ Pop(19) = f["rflags"] /\ Pop(20) = f["rsp"] /\ Pop(21) = f["ss"]
    BY <1>6, <1>7 DEF Holds, Pop
  <2>3. RegsAre(f)'
    BY <1>3, <2>1 DEF RegsAre
  <2>4. FiveAre(f, 2)'
    BY <1>5, <2>2 DEF FiveAre
  <2> QED BY <2>3, <2>4
<1> QED BY <1>2, <1>7

(* A frame put in the place of another. *)
LEMMA WordsAre ==
    ASSUME NEW f PROVE IsSeq(Words(f)) /\ Len(Words(f)) = 22 /\ \A i \in 1 .. 22 : Words(f)[23 - i] = f[isr_frame_t[i]]
<1> DEFINE R == {f[isr_frame_t[i]] : i \in 1 .. 22}
<1>1. Words(f) = [i \in 1 .. 22 |-> f[isr_frame_t[23 - i]]]
  BY FrameLayout DEF Words
<1>2. Words(f) \in [1 .. 22 -> R]
  <2>1. \A i \in 1 .. 22 : 23 - i \in 1 .. 22
    OBVIOUS
  <2> QED BY <1>1, <2>1, Zenon
<1>3. Words(f) \in Seq(R) /\ Len(Words(f)) = 22
  <2> HIDE DEF R
  <2>1. Words(f) \in Seq(R)
    BY <1>2, SeqDef
  <2> QED BY <1>2, <2>1, LenProperties
<1>4. ASSUME NEW i \in 1 .. 22 PROVE Words(f)[23 - i] = f[isr_frame_t[i]]
  <2>1. 23 - i \in 1 .. 22 /\ 23 - (23 - i) = i
    OBVIOUS
  <2> QED BY <1>1, <2>1
<1> QED BY <1>3, <1>4, SeqOf

LEMMA ReplacedIs ==
    ASSUME CoreShape, MemShape, Within(22), NEW f, IsFrame(f), mem' = Replaced(core.rsp, f), core'.rsp = core.rsp
    PROVE  /\ MemShape' /\ FrameAt(core.rsp)' = f /\ core.rsp.depth = Len(mem'[core.rsp.stack])
           /\ \A s \in Stacks \ {core.rsp.stack} : mem'[s] = mem[s]
<1> DEFINE p == Deeper(core.rsp, -22)
           d == core.rsp.depth
<1>1. /\ core.rsp = [stack |-> core.rsp.stack, depth |-> d] /\ core.rsp.stack \in Stacks
      /\ d \in Nat /\ d >= 22 /\ d <= Len(mem[core.rsp.stack])
  BY DEF CoreShape, IsPtr, Within
<1>2. p = [stack |-> core.rsp.stack, depth |-> d - 22]
  BY <1>1 DEF Deeper
<1>3. IsPtr(p) /\ p.stack = core.rsp.stack /\ p.depth = d - 22
  BY <1>1, <1>2 DEF IsPtr
<1>4. OnTop(p, Words(f)) = Replaced(core.rsp, f)
  <2>1. SubSeq(mem[core.rsp.stack], 1, p.depth) = SubSeq(mem[core.rsp.stack], 1, d - Len(isr_frame_t))
    BY <1>3, FrameLayout
  <2> QED BY <1>3, <2>1, Zenon DEF OnTop, Upto, Replaced
<1>5. IsSeq(Words(f)) /\ Len(Words(f)) = 22
  BY WordsAre
<1> HIDE DEF p
<1>6. Deeper(p, 22) = core.rsp
  <2>1. Deeper(p, 22) = [stack |-> core.rsp.stack, depth |-> (d - 22) + 22]
    BY <1>2 DEF Deeper
  <2>2. (d - 22) + 22 = d
    BY <1>1
  <2> QED BY <1>1, <2>1, <2>2, Zenon
<1>7. Pushed(p, Words(f), core.rsp, mem')
  <2>1. p.depth <= Len(mem[p.stack])
    <3>1. Len(mem[core.rsp.stack]) \in Nat
      BY <1>1, SeqOfSome, LenProperties DEF MemShape
    <3> QED BY <1>1, <1>3, <3>1
  <2> QED BY <1>3, <1>4, <1>5, <1>6, <2>1, PushWords
<1>8. MemShape' /\ core.rsp.depth = Len(mem'[core.rsp.stack]) /\ \A s \in Stacks \ {core.rsp.stack} : mem'[s] = mem[s]
  BY <1>3, <1>7 DEF Pushed, MemShape
<1>9. \A i \in 0 .. 21 : mem'[core.rsp.stack][core.rsp.depth - i] = Words(f)[22 - i]
  <2>1. Len(Words(f)) - 1 = 21
    BY <1>5
  <2> QED BY <1>5, <1>7, <2>1 DEF Pushed
<1>10. ASSUME NEW x \in Fields PROVE mem'[core.rsp.stack][core.rsp.depth - (Index[x] - 1)] = f[x]
  <2>1. Index[x] \in 1 .. 22 /\ isr_frame_t[Index[x]] = x
    BY IndexInverts
  <2>2. Index[x] - 1 \in 0 .. 21 /\ 22 - (Index[x] - 1) = 23 - Index[x]
    BY <2>1
  <2>3. Words(f)[23 - Index[x]] = f[isr_frame_t[Index[x]]]
    BY <2>1, WordsAre
  <2> QED BY <1>9, <2>1, <2>2, <2>3
<1>11. Holds(mem', core'.rsp, f)
  <2>1. /\ Index["vector"] - 1 = 15 /\ Index["error"] - 1 = 16 /\ Index["rip"] - 1 = 17
        /\ Index["cs"] - 1 = 18 /\ Index["rflags"] - 1 = 19 /\ Index["rsp"] - 1 = 20 /\ Index["ss"] - 1 = 21
    BY IndexIs
  <2>2. {"vector", "error", "rip", "cs", "rflags", "rsp", "ss"} \subseteq Fields /\ Gprs \subseteq Fields
    BY DEF Fields
  <2> QED BY <1>10, <2>1, <2>2 DEF Holds
<1>12. FrameAt(core.rsp)' = f
  BY <1>1, <1>11, FrameIs, FrameWordsPrimed
<1> QED BY <1>8, <1>12

-----------------------------------------------------------------------------
(* What a step leaves alone. *)
LEMMA SysKept == SysShape /\ UNCHANGED <<sys, g_cpu_local>> => SysShape'
BY DEF SysShape
LEMMA LeftKept == LeftShape /\ UNCHANGED <<frame, left, origin>> => LeftShape'
BY DEF LeftShape
LEMMA OrderKept == Order /\ UNCHANGED vars => Order'
BY DEF Order, vars, boot, cpu
LEMMA ThreadsKept ==
    ThreadsUp /\ UNCHANGED <<step, g_current, rsp0, frame, left>> /\ g_cpu_local'.kernel_rsp = g_cpu_local.kernel_rsp
        => ThreadsUp'
<1> SUFFICES ASSUME ThreadsUp, UNCHANGED <<step, g_current, rsp0, frame, left>>,
                    g_cpu_local'.kernel_rsp = g_cpu_local.kernel_rsp
             PROVE  ThreadsUp'
  OBVIOUS
<1>1. ASSUME NEW t, Matches(frame[t], t) PROVE Matches(frame[t], t)'
  BY <1>1 DEF Matches, Home
<1> QED BY <1>1 DEF ThreadsUp
LEMMA StillIs ==
    Still => /\ UNCHANGED <<step, ist, idt, offset, masked, pic, inService, lapicOn, lapicIrr, lapicIsr, iflag,
                            running, source>>
             /\ UNCHANGED <<sys, g_cpu_local, rsp0, g_current, frame, left, origin>>
BY DEF Still, vars, kept, boot, pics, lapic, cpu

(* The stack is the present one, with the loader's word still on it. *)
OneStack ==
    \/ mem' = mem
    \/ /\ \A s \in Stacks \ {core.rsp.stack} : mem'[s] = mem[s]
       /\ core'.rsp.depth = Len(mem'[core.rsp.stack])
       /\ core.rsp.stack = <<"boot", 0>> => core'.rsp.depth >= 1

LEMMA BootKept ==
    Len(mem[<<"boot", 0>>]) >= 1 /\ OneStack => Len(mem'[<<"boot", 0>>]) >= 1
BY DEF OneStack, Stacks

LEMMA Stays ==
    ASSUME EInv, Still, CoreShape', MemShape', OneStack, Places'
    PROVE  EInv'
<1>1. SysShape' /\ LeftShape'
  BY StillIs, SysKept, LeftKept DEF EInv, Shape
<1>2. Order'
  BY OrderKept DEF EInv, Still
<1>3. ThreadsUp'
  BY StillIs, ThreadsKept DEF EInv
<1>4. Len(mem'[<<"boot", 0>>]) >= 1
  BY BootKept DEF EInv
<1> QED BY <1>1, <1>2, <1>3, <1>4 DEF EInv, Shape

(* A step of the registers alone. *)
LEMMA CoreStep ==
    ASSUME CoreShape, NEW reg, IsRegs(reg), NEW cs, NEW ss, NEW gs, NEW kernel_gs,
           core' = Core(Following, reg, core.rsp, cs, ss, gs, kernel_gs)
    PROVE  CoreShape' /\ core'.pc = Following /\ core'.reg = reg /\ core'.rsp = core.rsp /\ core'.cs = cs
           /\ core'.ss = ss /\ core'.gs = gs /\ core'.kernel_gs = kernel_gs
<1>1. IsPtr(core.rsp) /\ \E r, n : Following = At(r, n)
  BY DEF CoreShape, Following
<1> QED BY <1>1, CoreIs

LEMMA OnStackIsOne ==
    ASSUME CoreShape, NEW n \in Nat, n >= 1, NEW ws, OnStack(n, ws)
    PROVE  OneStack
<1>1. core.rsp.depth \in Nat
  BY DEF CoreShape, IsPtr
<1>2. core'.rsp.depth = core.rsp.depth + n /\ core'.rsp.stack = core.rsp.stack
      /\ core'.rsp.depth = Len(mem'[core'.rsp.stack]) /\ \A s \in Stacks \ {core.rsp.stack} : mem'[s] = mem[s]
  BY DEF OnStack
<1>3. core'.rsp.depth >= 1
  BY <1>1, <1>2
<1> QED BY <1>2, <1>3 DEF OneStack

LEMMA OffStackIsOne ==
    ASSUME CoreShape, NEW n \in Nat, Within(n), OffStack(n)
    PROVE  OneStack
<1>1. core.rsp.depth \in Nat
  BY DEF CoreShape, IsPtr
<1>2. core'.rsp.depth = core.rsp.depth - n /\ core'.rsp.stack = core.rsp.stack
      /\ core'.rsp.depth = Len(mem'[core'.rsp.stack]) /\ \A s \in Stacks \ {core.rsp.stack} : mem'[s] = mem[s]
  BY DEF OffStack
<1>3. core.rsp.stack = <<"boot", 0>> => core'.rsp.depth >= 1
  BY <1>1, <1>2 DEF Within
<1> QED BY <1>2, <1>3 DEF OneStack

-----------------------------------------------------------------------------
(* gdt_flush. *)
(* What is known at each of its instructions. *)
LEMMA FlushFacts ==
    ASSUME EInv, NEW n \in 1 .. 8, FlushAt(n), Execute
    PROVE  /\ core.pc.routine \in DOMAIN Code /\ Instr = gdt_flush[n] /\ Following = At("gdt_flush", n + 1)
           /\ CoreShape /\ MemShape /\ core.rsp.depth \in Nat /\ core.rsp.depth >= 2
           /\ core = Plain(core.pc, core.rsp)
           /\ n <= 6 => Cpl = 0
<1>1. core.pc = At("gdt_flush", n) /\ CoreShape /\ MemShape /\ core.rsp.depth >= 2
  BY DEF FlushAt, EInv, Shape
<1>2. core.rsp.depth \in Nat /\ core = Plain(core.pc, core.rsp)
  BY <1>1 DEF CoreShape, IsPtr, Plain, Core
<1>3. n <= 6 => Cpl = 0
  <2>1. 40 % 4 = 0
    OBVIOUS
  <2> QED BY <2>1, Selectors DEF FlushAt, Cpl
<1> QED BY <1>1, <1>2, <1>3, AtIs, CodeIs

(* Instruction by instruction. *)
LEMMA LgdtStep == ASSUME EInv, FlushAt(1), Execute PROVE EInv' /\ FlushAt(2)'
<1>1. /\ core.pc.routine \in DOMAIN Code /\ Instr = gdt_flush[1] /\ Following = At("gdt_flush", 2)
      /\ CoreShape /\ MemShape
  BY FlushFacts
<1>2. Instr[1] = "lgdt"
  <2>1. Instr = <<"lgdt">>
    BY <1>1, GdtFlushIs
  <2> QED BY <2>1
<1>3. sys' = [sys EXCEPT !.gdt = gdt_init] /\ Go(core)
      /\ UNCHANGED <<vars, mem, g_cpu_local, rsp0, g_current, frame, left, origin>>
  BY <1>1, <1>2, Executes DEF TableStep, Fetch
<1>4. core' = Plain(Following, core.rsp)
  BY <1>1, <1>3 DEF Go, Following, Plain, Core, CoreShape, At
<1>5. CoreShape' /\ core'.pc = Following /\ core'.reg = core.reg /\ core'.rsp = core.rsp /\ core'.cs = core.cs
      /\ core'.ss = core.ss /\ core'.gs = core.gs /\ core'.kernel_gs = core.kernel_gs
  BY <1>1, <1>4, CoreStep DEF Plain, CoreShape
<1>6. UNCHANGED <<step, iflag, running, mem, g_cpu_local, rsp0, g_current, frame, left, origin>>
  BY <1>3 DEF vars, boot, cpu
<1>7. SysShape' /\ sys'.gdt = gdt_init
  BY <1>3 DEF SysShape, EInv, Shape
<1>8. FlushAt(2)'
  BY <1>1, <1>5, <1>6, <1>7 DEF FlushAt, Early, NoneLeft, Within
<1>9. MemShape' /\ LeftShape'
  BY <1>6, LeftKept DEF EInv, Shape, MemShape
<1>10. Order' /\ ThreadsUp'
  BY <1>3, <1>6, OrderKept, ThreadsKept DEF EInv
<1> QED BY <1>5, <1>6, <1>7, <1>8, <1>9, <1>10 DEF EInv, Shape, Places, InGdt

(* A load of a data segment that the processor lets pass. *)
LEMMA SegmentEffect ==
    ASSUME CoreShape, SegmentStep, NEW sel
    PROVE  /\ Instr = <<"mov ds", sel>> /\ DataSuits(sel) =>
                core' = Plain(Following, core.rsp) /\ UNCHANGED mem /\ Still
           /\ Instr = <<"mov gs", sel>> /\ DataSuits(sel) =>
                /\ core' = Core(Following, core.reg, core.rsp, core.cs, core.ss, "0", core.kernel_gs)
                /\ UNCHANGED mem /\ Still
           /\ Instr = <<"mov ss", sel>> /\ StackSuits(sel, Cpl) =>
                /\ core' = Core(Following, core.reg, core.rsp, core.cs, sel, core.gs, core.kernel_gs)
                /\ UNCHANGED mem /\ Still
<1>1. ASSUME Instr = <<"mov ds", sel>>, DataSuits(sel)
      PROVE  core' = Plain(Following, core.rsp) /\ UNCHANGED mem /\ Still
  <2>1. Instr[1] = "mov ds" /\ Instr[2] = sel
    BY <1>1
  <2>2. Go(core) /\ UNCHANGED mem /\ Still
    BY <1>1, <2>1 DEF SegmentStep, Fetch, Still
  <2> QED BY <2>2 DEF Go, Plain, Following, Core, CoreShape, At
<1>2. ASSUME Instr = <<"mov gs", sel>>, DataSuits(sel)
      PROVE  /\ core' = Core(Following, core.reg, core.rsp, core.cs, core.ss, "0", core.kernel_gs)
             /\ UNCHANGED mem /\ Still
  <2>1. Instr[1] = "mov gs" /\ Instr[2] = sel
    BY <1>2
  <2>2. Go([core EXCEPT !.gs = "0"]) /\ UNCHANGED mem /\ Still
    BY <1>2, <2>1 DEF SegmentStep, Fetch, Still
  <2> QED BY <2>2 DEF Go, Following, Core, CoreShape, At
<1>3. ASSUME Instr = <<"mov ss", sel>>, StackSuits(sel, Cpl)
      PROVE  /\ core' = Core(Following, core.reg, core.rsp, core.cs, sel, core.gs, core.kernel_gs)
             /\ UNCHANGED mem /\ Still
  <2>1. Instr[1] = "mov ss" /\ Instr[2] = sel
    BY <1>3
  <2>2. Go([core EXCEPT !.ss = sel]) /\ UNCHANGED mem /\ Still
    BY <1>3, <2>1 DEF SegmentStep, Fetch, Still
  <2> QED BY <2>2 DEF Go, Following, Core, CoreShape, At
<1> QED BY <1>1, <1>2, <1>3

(* What a step within gdt_flush leaves alone. *)
FlushKeeps ==
    /\ Early' /\ core'.rsp.stack = <<"boot", 0>> /\ Within(0)'
    /\ mem'[<<"boot", 0>>][2] = Rip(At("kmain", 1))
LEMMA FlushKept ==
    ASSUME Early, core.rsp.stack = <<"boot", 0>>, Within(0), mem[<<"boot", 0>>][2] = Rip(At("kmain", 1)),
           Still, mem' = mem, core'.rsp = core.rsp, core'.gs = "0"
    PROVE  FlushKeeps
BY StillIs DEF FlushKeeps, Early, NoneLeft, Within

LEMMA FlushDsStep == ASSUME EInv, FlushAt(2), Execute PROVE EInv' /\ FlushAt(3)'
<1>1. /\ core.pc.routine \in DOMAIN Code /\ Instr = gdt_flush[2] /\ Following = At("gdt_flush", 3)
      /\ CoreShape /\ MemShape /\ Cpl = 0
  BY FlushFacts
<1>2. Instr = <<"mov ds", KERNEL_DS>>
  BY <1>1, GdtFlushIs
<1>3. SegmentStep
  <2>1. Instr[1] = "mov ds"
    BY <1>2
  <2> QED BY <1>1, <2>1, Executes
<1>4. DataSuits(KERNEL_DS)
  BY <1>1, Suits DEF FlushAt
<1>5. core' = Plain(Following, core.rsp) /\ mem' = mem /\ Still
  BY <1>1, <1>2, <1>3, <1>4, SegmentEffect
<1>6. CoreShape' /\ core'.pc = Following /\ core'.reg = core.reg /\ core'.rsp = core.rsp /\ core'.cs = core.cs
      /\ core'.ss = core.ss /\ core'.gs = core.gs /\ core'.kernel_gs = core.kernel_gs
  BY <1>1, <1>5, CoreStep DEF Plain, CoreShape
<1>7. FlushAt(3)'
  <2>1. FlushKeeps
    <3>1. /\ Early /\ core.rsp.stack = <<"boot", 0>> /\ Within(0) /\ core'.gs = "0"
          /\ mem[<<"boot", 0>>][2] = Rip(At("kmain", 1))
      BY <1>6 DEF FlushAt, Early
    <3> QED BY <1>5, <1>6, <3>1, FlushKept
  <2>2. core.rsp.depth = 2 /\ core.cs = GDT_SEL(5, 0) /\ sys.gdt = gdt_init
    BY DEF FlushAt
  <2> QED BY <1>1, <1>5, <1>6, <2>1, <2>2, StillIs DEF FlushAt, FlushKeeps
<1>8. MemShape' /\ OneStack
  BY <1>1, <1>5 DEF MemShape, OneStack
<1> QED BY <1>5, <1>6, <1>7, <1>8, Stays DEF Places, InGdt

LEMMA FlushSsStep == ASSUME EInv, FlushAt(3), Execute PROVE EInv' /\ FlushAt(4)'
<1>1. /\ core.pc.routine \in DOMAIN Code /\ Instr = gdt_flush[3] /\ Following = At("gdt_flush", 4)
      /\ CoreShape /\ MemShape /\ Cpl = 0
  BY FlushFacts
<1>2. Instr = <<"mov ss", KERNEL_DS>>
  BY <1>1, GdtFlushIs
<1>3. SegmentStep
  <2>1. Instr[1] = "mov ss"
    BY <1>2
  <2> QED BY <1>1, <2>1, Executes
<1>4. StackSuits(KERNEL_DS, Cpl)
  BY <1>1, Suits DEF FlushAt
<1>5. /\ core' = Core(Following, core.reg, core.rsp, core.cs, KERNEL_DS, core.gs, core.kernel_gs)
      /\ mem' = mem /\ Still
  BY <1>1, <1>2, <1>3, <1>4, SegmentEffect
<1>6. CoreShape' /\ core'.pc = Following /\ core'.reg = core.reg /\ core'.rsp = core.rsp /\ core'.cs = core.cs
      /\ core'.ss = KERNEL_DS /\ core'.gs = core.gs /\ core'.kernel_gs = core.kernel_gs
  BY <1>1, <1>5, CoreStep DEF CoreShape
<1>7. FlushAt(4)'
  BY <1>1, <1>5, <1>6, StillIs DEF FlushAt, Early, NoneLeft, Within
<1>8. MemShape' /\ OneStack
  BY <1>1, <1>5 DEF MemShape, OneStack
<1> QED BY <1>5, <1>6, <1>7, <1>8, Stays DEF Places, InGdt

LEMMA FlushGsStep == ASSUME EInv, FlushAt(4), Execute PROVE EInv' /\ FlushAt(5)'
<1>1. /\ core.pc.routine \in DOMAIN Code /\ Instr = gdt_flush[4] /\ Following = At("gdt_flush", 5)
      /\ CoreShape /\ MemShape /\ Cpl = 0
  BY FlushFacts
<1>2. Instr = <<"mov gs", KERNEL_DS>>
  BY <1>1, GdtFlushIs
<1>3. SegmentStep
  <2>1. Instr[1] = "mov gs"
    BY <1>2
  <2> QED BY <1>1, <2>1, Executes
<1>4. DataSuits(KERNEL_DS)
  BY <1>1, Suits DEF FlushAt
<1>5. /\ core' = Core(Following, core.reg, core.rsp, core.cs, core.ss, "0", core.kernel_gs)
      /\ mem' = mem /\ Still
  BY <1>1, <1>2, <1>3, <1>4, SegmentEffect
<1>6. CoreShape' /\ core'.pc = Following /\ core'.reg = core.reg /\ core'.rsp = core.rsp /\ core'.cs = core.cs
      /\ core'.ss = core.ss /\ core'.gs = "0" /\ core'.kernel_gs = core.kernel_gs
  BY <1>1, <1>5, CoreStep DEF CoreShape
<1>7. FlushAt(5)'
  BY <1>1, <1>5, <1>6, StillIs DEF FlushAt, Early, NoneLeft, Within
<1>8. MemShape' /\ OneStack
  BY <1>1, <1>5 DEF MemShape, OneStack
<1> QED BY <1>5, <1>6, <1>7, <1>8, Stays DEF Places, InGdt

(* One or two words that are given. *)
LEMMA FewWords ==
    /\ \A a : IsSeq(<<a>>) /\ Len(<<a>>) = 1
    /\ \A a, b : IsSeq(<<a, b>>) /\ Len(<<a, b>>) = 2
<1>1. \A a : <<a>> \in Seq({a}) /\ Len(<<a>>) = 1
  OBVIOUS
<1>2. \A a, b : <<a, b>> \in Seq({a, b}) /\ Len(<<a, b>>) = 2
  OBVIOUS
<1> QED BY <1>1, <1>2, SeqOf, Zenon

LEMMA FlushPushStep == ASSUME EInv, FlushAt(5), Execute PROVE EInv' /\ FlushAt(6)'
<1> DEFINE ws == <<Imm(KERNEL_CS), Rip(At("gdt_flush", 7))>>
<1>1. /\ core.pc.routine \in DOMAIN Code /\ Instr = gdt_flush[5] /\ Following = At("gdt_flush", 6)
      /\ CoreShape /\ MemShape /\ core.rsp.depth \in Nat /\ core.rsp.depth >= 2
  BY FlushFacts
<1>2. Instr = <<"pushi", ws>>
  BY <1>1, GdtFlushIs
<1>3. PushStep
  <2>1. Instr[1] = "pushi"
    BY <1>2
  <2> QED BY <1>1, <2>1, Executes
<1>4. IsSeq(ws) /\ Len(ws) = 2 /\ ws[1] = Imm(KERNEL_CS) /\ ws[2] = Rip(At("gdt_flush", 7))
  BY FewWords
<1>5. Within(0) /\ core.rsp.stack = <<"boot", 0>> /\ core.rsp.depth = 2
  BY DEF FlushAt
<1> HIDE DEF ws
<1>6. core' = Plain(Following, Deeper(core.rsp, 2)) /\ OnStack(2, ws) /\ Still
  BY <1>1, <1>2, <1>3, <1>4, <1>5, PushEffect
<1>7. /\ CoreShape' /\ MemShape' /\ core'.rsp.stack = <<"boot", 0>> /\ core'.rsp.depth = 4
      /\ core'.rsp.depth = Len(mem'[core'.rsp.stack])
      /\ \A s \in Stacks \ {core.rsp.stack} : mem'[s] = mem[s]
      /\ Pop(0)' = ws[2] /\ Pop(1)' = ws[1] /\ Pop(2)' = Pop(0)
  <2>1. \A i \in 0 .. 2 - 1 : Pop(i)' = ws[2 - i]
    BY <1>6 DEF OnStack
  <2>2. Pop(2 + 0)' = Pop(0)
    BY <1>5, <1>6 DEF OnStack
  <2>3. core'.rsp.stack = <<"boot", 0>> /\ core'.rsp.depth = 2 + 2
    BY <1>5, <1>6 DEF OnStack
  <2> QED BY <1>6, <2>1, <2>2, <2>3 DEF OnStack
<1>8. /\ core'.pc = Following /\ core'.reg = core.reg /\ core'.cs = core.cs
      /\ core'.ss = core.ss /\ core'.gs = core.gs /\ core'.kernel_gs = core.kernel_gs
  BY <1>6 DEF Plain, Core
<1>9. mem'[<<"boot", 0>>][2] = mem[<<"boot", 0>>][2]
  BY <1>5, <1>7 DEF Pop
<1>10. FlushAt(6)'
  BY <1>1, <1>4, <1>6, <1>7, <1>8, <1>9, StillIs DEF FlushAt, Early, NoneLeft, Within
<1>11. OneStack
  BY <1>1, <1>6, OnStackIsOne
<1> QED BY <1>6, <1>7, <1>10, <1>11, Stays DEF Places, InGdt

LEMMA AddressOfRip == \A r, n : Address(Rip(At(r, n))) = At(r, n)
BY DEF Address, Rip, At
LEMMA PointerOfRsp == ASSUME NEW p, IsPtr(p) PROVE Pointer(Rsp(p)) = p
BY DEF Pointer, Rsp, IsPtr
LEMMA Seconds == (\A n : Imm(n)[2] = n) /\ (\A f : Flags(f)[2] = f)
BY DEF Imm, Flags

LEMMA RetfqStep == ASSUME EInv, FlushAt(6), Execute PROVE EInv' /\ FlushAt(7)'
<1>1. /\ core.pc.routine \in DOMAIN Code /\ Instr = gdt_flush[6]
      /\ CoreShape /\ MemShape /\ core.rsp.depth \in Nat
  BY FlushFacts
<1>2. Instr = <<"retfq">>
  BY <1>1, GdtFlushIs
<1>3. SegmentStep /\ Instr[1] = "retfq"
  <2>1. Instr[1] = "retfq"
    BY <1>2
  <2> QED BY <1>1, <2>1, Executes
<1>4. /\ Early /\ core.rsp.stack = <<"boot", 0>> /\ core.rsp.depth = 4 /\ Within(0) /\ sys.gdt = gdt_init
      /\ core.ss = KERNEL_DS /\ mem[<<"boot", 0>>][2] = Rip(At("kmain", 1))
      /\ Pop(0) = Rip(At("gdt_flush", 7)) /\ Pop(1) = Imm(KERNEL_CS)
  BY DEF FlushAt
<1>5. CodeSuits(Pop(1)[2]) /\ Pop(1)[2] = KERNEL_CS /\ Address(Pop(0)) = At("gdt_flush", 7)
  BY <1>4, Suits, Seconds, AddressOfRip
<1>6. /\ core' = [core EXCEPT !.pc = Address(Pop(0)), !.cs = Pop(1)[2], !.rsp = Deeper(@, -2)]
      /\ mem' = Shallower(2) /\ Still
  BY <1>3, <1>5 DEF SegmentStep, Fetch, Still
<1>7. core' = Core(At("gdt_flush", 7), core.reg, Deeper(core.rsp, -2), KERNEL_CS, core.ss, core.gs, core.kernel_gs)
  BY <1>1, <1>5, <1>6 DEF Core, CoreShape
<1>8. /\ core'.pc = At("gdt_flush", 7) /\ core'.reg = core.reg /\ core'.rsp = Deeper(core.rsp, -2)
      /\ core'.cs = KERNEL_CS /\ core'.ss = core.ss /\ core'.gs = core.gs
      /\ IsPtr(core'.rsp) => CoreShape'
  BY <1>1, <1>7, CoreIs DEF CoreShape
<1>9. Within(2)
  BY <1>4 DEF Within
<1>10. OffStack(2)
  BY <1>1, <1>6, <1>8, <1>9, OffStackIs
<1>11. /\ CoreShape' /\ MemShape' /\ core'.rsp.stack = <<"boot", 0>> /\ core'.rsp.depth = 2
       /\ core'.rsp.depth = Len(mem'[core'.rsp.stack]) /\ Pop(0)' = Pop(2 + 0)
  BY <1>4, <1>8, <1>10 DEF OffStack
<1>12. mem'[<<"boot", 0>>][2] = mem[<<"boot", 0>>][2]
  BY <1>4, <1>11 DEF Pop
<1>13. FlushAt(7)'
  <2>1. Early'
    BY <1>4, <1>6, <1>8, StillIs DEF Early, NoneLeft
  <2>2. Within(0)'
    BY <1>11 DEF Within
  <2> QED BY <1>4, <1>6, <1>8, <1>11, <1>12, <2>1, <2>2, StillIs DEF FlushAt
<1>14. OneStack
  BY <1>1, <1>9, <1>10, OffStackIsOne
<1> QED BY <1>6, <1>11, <1>13, <1>14, Stays DEF Places, InGdt

LEMMA LtrStep == ASSUME EInv, FlushAt(7), Execute PROVE EInv' /\ FlushAt(8)'
<1>1. /\ core.pc.routine \in DOMAIN Code /\ Instr = gdt_flush[7] /\ Following = At("gdt_flush", 8)
      /\ CoreShape /\ MemShape
  BY FlushFacts
<1>2. Instr = <<"ltr", TSS_SEL>>
  BY <1>1, GdtFlushIs
<1>3. TableStep /\ Instr[1] = "ltr" /\ Instr[2] = TSS_SEL
  <2>1. Instr[1] = "ltr" /\ Instr[2] = TSS_SEL
    BY <1>2
  <2> QED BY <1>1, <2>1, Executes
<1>4. /\ Early /\ core.rsp.stack = <<"boot", 0>> /\ core.rsp.depth = 2 /\ Within(0) /\ sys.gdt = gdt_init
      /\ core.ss = KERNEL_DS /\ mem[<<"boot", 0>>][2] = Rip(At("kmain", 1)) /\ core.cs = KERNEL_CS
  BY DEF FlushAt
<1>5. /\ sys' = [sys EXCEPT !.tr = TSS_SEL, !.gdt[GDT_TSS].type = "busy tss"] /\ Go(core)
      /\ UNCHANGED <<vars, mem, g_cpu_local, rsp0, g_current, frame, left, origin>>
  BY <1>3, <1>4, TssThere DEF TableStep, Fetch
<1>6. core' = Plain(Following, core.rsp)
  BY <1>1, <1>5 DEF Go, Following, Plain, Core, CoreShape, At
<1>7. CoreShape' /\ core'.pc = Following /\ core'.reg = core.reg /\ core'.rsp = core.rsp /\ core'.cs = core.cs
      /\ core'.ss = core.ss /\ core'.gs = core.gs /\ core'.kernel_gs = core.kernel_gs
  BY <1>1, <1>6, CoreStep DEF Plain, CoreShape
<1>8. UNCHANGED <<step, iflag, running, mem, g_cpu_local, rsp0, g_current, frame, left, origin>>
  BY <1>5 DEF vars, boot, cpu
<1>9. SysShape' /\ sys'.gdt = Gdt /\ sys'.tr = TSS_SEL
  <2>1. sys = [gdt |-> sys.gdt, tr |-> sys.tr, sce |-> sys.sce, fmask |-> sys.fmask, star |-> sys.star]
    BY DEF SysShape, EInv, Shape
  <2>2. sys'.gdt = [sys.gdt EXCEPT ![GDT_TSS].type = "busy tss"] /\ sys'.tr = TSS_SEL
    BY <1>5, <2>1
  <2>3. sys' = [gdt |-> sys'.gdt, tr |-> sys'.tr, sce |-> sys'.sce, fmask |-> sys'.fmask, star |-> sys'.star]
    BY <1>5, <2>1
  <2> QED BY <1>4, <1>8, <2>2, <2>3 DEF Gdt, SysShape, EInv, Shape
<1>10. FlushAt(8)'
  <2>1. Early' /\ Within(0)'
    BY <1>4, <1>7, <1>8 DEF Early, NoneLeft, Within
  <2> QED BY <1>1, <1>4, <1>7, <1>8, <1>9, <2>1 DEF FlushAt
<1>11. MemShape' /\ LeftShape'
  BY <1>8, LeftKept DEF EInv, Shape, MemShape
<1>12. Order' /\ ThreadsUp'
  BY <1>5, <1>8, OrderKept, ThreadsKept DEF EInv
<1> QED BY <1>7, <1>8, <1>9, <1>10, <1>11, <1>12 DEF EInv, Shape, Places, InGdt

LEMMA RetStep == ASSUME EInv, FlushAt(8), Execute PROVE EInv' /\ InKmain'
<1>1. /\ core.pc.routine \in DOMAIN Code /\ Instr = gdt_flush[8]
      /\ CoreShape /\ MemShape /\ core.rsp.depth \in Nat
  BY FlushFacts
<1>2. Instr = <<"ret">>
  BY <1>1, GdtFlushIs
<1>3. SegmentStep /\ Instr[1] = "ret"
  <2>1. Instr[1] = "ret"
    BY <1>2
  <2> QED BY <1>1, <2>1, Executes
<1>4. /\ Early /\ core.rsp.stack = <<"boot", 0>> /\ core.rsp.depth = 2 /\ Within(0) /\ TablesUp
      /\ core.cs = KERNEL_CS /\ core.ss = KERNEL_DS /\ mem[<<"boot", 0>>][2] = Rip(At("kmain", 1))
  BY DEF FlushAt, TablesUp
<1>5. Address(Pop(0)) = At("kmain", 1)
  <2>1. Pop(0) = Rip(At("kmain", 1))
    BY <1>4 DEF Pop
  <2> QED BY <2>1, AddressOfRip
<1>6. core' = [core EXCEPT !.pc = Address(Pop(0)), !.rsp = Deeper(@, -1)] /\ mem' = Shallower(1) /\ Still
  BY <1>3 DEF SegmentStep, Fetch, Still
<1>7. core' = Core(At("kmain", 1), core.reg, Deeper(core.rsp, -1), core.cs, core.ss, core.gs, core.kernel_gs)
  BY <1>1, <1>5, <1>6 DEF Core, CoreShape
<1>8. /\ core'.pc = At("kmain", 1) /\ core'.reg = core.reg /\ core'.rsp = Deeper(core.rsp, -1)
      /\ core'.cs = KERNEL_CS /\ core'.ss = KERNEL_DS /\ core'.gs = core.gs
      /\ IsPtr(core'.rsp) => CoreShape'
  BY <1>1, <1>4, <1>7, CoreIs DEF CoreShape
<1>9. Within(1)
  BY <1>4 DEF Within
<1>10. OffStack(1)
  BY <1>1, <1>6, <1>8, <1>9, OffStackIs
<1>11. /\ CoreShape' /\ MemShape' /\ core'.rsp = BootTop
  BY <1>4, <1>8, <1>10 DEF OffStack, BootTop, IsPtr
<1>12. InKmain'
  BY <1>4, <1>6, <1>8, <1>11, StillIs DEF InKmain, Early, NoneLeft, Kernel, TablesUp, BootCtx
<1>13. OneStack
  BY <1>1, <1>9, <1>10, OffStackIsOne
<1> QED BY <1>6, <1>11, <1>12, <1>13, Stays DEF Places

LEMMA FlushStep == ASSUME EInv, NEW n \in 1 .. 8, FlushAt(n), Execute PROVE EInv'
<1>1. n = 1 \/ n = 2 \/ n = 3 \/ n = 4 \/ n = 5 \/ n = 6 \/ n = 7 \/ n = 8
  OBVIOUS
<1> QED BY <1>1, LgdtStep, FlushDsStep, FlushSsStep, FlushGsStep, FlushPushStep, RetfqStep, LtrStep, RetStep, Zenon

(* kmain calls gdt_init, which calls gdt_flush. *)
LEMMA StartStep == ASSUME EInv, Starting, Execute PROVE EInv'
<1>1. /\ core.pc = At("kmain", 0) /\ CoreShape /\ MemShape /\ Early
      /\ core.rsp = BootTop /\ Len(mem[<<"boot", 0>>]) >= 1 /\ core.cs = GDT_SEL(5, 0)
  BY DEF Starting, EInv, Shape
<1>2. GdtInit
  <2>1. core.pc.routine = "kmain" /\ core.pc # At("kmain", 1) /\ core.pc # At("kmain", 2)
    BY <1>1 DEF At
  <2> QED BY <2>1, CodeIs, ExecutesElsewhere
<1> DEFINE ws == <<Rip(At("kmain", 1))>>
<1>3. IsSeq(ws) /\ Len(ws) = 1 /\ ws[1] = Rip(At("kmain", 1))
  BY FewWords
<1>4. mem' = OnTop(core.rsp, ws) /\ core' = [core EXCEPT !.pc = At("gdt_flush", 1), !.rsp = Deeper(@, 1)] /\ Still
  BY <1>2 DEF GdtInit, Still
<1> HIDE DEF ws
<1>5. core' = Core(At("gdt_flush", 1), core.reg, Deeper(core.rsp, 1), core.cs, core.ss, core.gs, core.kernel_gs)
  BY <1>1, <1>4 DEF Core, CoreShape
<1>6. /\ core'.pc = At("gdt_flush", 1) /\ core'.rsp = Deeper(core.rsp, 1) /\ core'.cs = core.cs
      /\ core'.gs = core.gs
      /\ IsPtr(core'.rsp) => CoreShape'
  BY <1>1, <1>5, CoreIs DEF CoreShape
<1>7. IsPtr(core.rsp) /\ core.rsp.depth = 1 /\ core.rsp.stack = <<"boot", 0>> /\ core.rsp.depth <= Len(mem[core.rsp.stack])
  BY <1>1 DEF CoreShape, BootTop
<1>8. Pushed(core.rsp, ws, Deeper(core.rsp, Len(ws)), OnTop(core.rsp, ws))
  BY <1>1, <1>3, <1>7, PushWords
<1>9. Pushed(core.rsp, ws, core'.rsp, mem')
  BY <1>3, <1>4, <1>6, <1>8
<1>10. /\ CoreShape' /\ MemShape' /\ core'.rsp.stack = <<"boot", 0>> /\ core'.rsp.depth = 2
       /\ core'.rsp.depth = Len(mem'[<<"boot", 0>>])
       /\ \A s \in Stacks \ {core.rsp.stack} : mem'[s] = mem[s]
  <2>1. /\ IsPtr(core'.rsp) /\ core'.rsp.stack = core.rsp.stack /\ core'.rsp.depth = core.rsp.depth + Len(ws)
        /\ core'.rsp.depth = Len(mem'[core'.rsp.stack]) /\ MemShape'
        /\ \A s \in Stacks \ {core.rsp.stack} : mem'[s] = mem[s]
    BY <1>9 DEF Pushed, MemShape
  <2>2. core'.rsp.depth = 1 + 1
    BY <1>3, <1>7, <2>1
  <2>3. core'.rsp.stack = <<"boot", 0>> /\ core'.rsp.depth = 2 /\ CoreShape'
    <3>1. core'.rsp.stack = <<"boot", 0>> /\ CoreShape'
      BY <1>6, <1>7, <2>1, Zenon
    <3>2. core'.rsp.depth = 2
      BY <2>2
    <3> QED BY <3>1, <3>2
  <2>4. core'.rsp.depth = Len(mem'[<<"boot", 0>>])
    BY <2>1, <2>3, Zenon
  <2> QED BY <2>1, <2>3, <2>4
<1>11. mem'[<<"boot", 0>>][2] = Rip(At("kmain", 1))
  <2>1. mem'[core'.rsp.stack][core'.rsp.depth - 0] = ws[Len(ws) - 0]
    BY <1>3, <1>9 DEF Pushed
  <2> QED BY <1>3, <1>10, <2>1
<1>12. OneStack
  <2>1. core'.rsp.depth = Len(mem'[core.rsp.stack])
    BY <1>7, <1>10, Zenon
  <2>2. core'.rsp.depth >= 1
    BY <1>10
  <2> QED BY <1>10, <2>1, <2>2 DEF OneStack
<1>13. FlushAt(1)'
  <2>1. Early' /\ Within(0)'
    BY <1>1, <1>4, <1>6, <1>10, StillIs DEF Early, NoneLeft, Within
  <2> QED BY <1>1, <1>6, <1>10, <1>11, <2>1 DEF FlushAt
<1> QED BY <1>4, <1>10, <1>12, <1>13, Stays DEF Places, InGdt

-----------------------------------------------------------------------------
(* kmain. *)
LEMMA Threaded == ASSUME NEW t \in Threads PROVE <<"user", t>> \in Stacks /\ <<"kernel", t>> \in Stacks
BY DEF Stacks
LEMMA SpIsPtr == ASSUME NEW t \in Threads PROVE IsPtr(Sp("user", t)) /\ IsPtr(Sp("kernel", t))
BY Threaded DEF IsPtr, Sp

(* A thread that has not run waits in the frame thread_init_user makes. *)
LEMMA UserFrame ==
    ASSUME NEW t \in Threads
    PROVE  LET f == thread_init_user(t) IN
           /\ IsFrame(f) /\ f["rip"] = Rip(At("user", t)) /\ f["cs"] = Imm(USER_CS) /\ f["rflags"] = Flags(TRUE)
           /\ f["rsp"] = Rsp(Sp("user", t)) /\ f["ss"] = Imm(USER_DS)
           /\ \A r \in Gprs : f[r] = Imm(0)
<1>1. Zeroed = [x \in Fields |-> Imm(0)]
  BY FieldsAre, Zenon DEF Zeroed
<1>2. {"rip", "cs", "rflags", "rsp", "ss"} \subseteq Fields /\ Gprs \subseteq Fields
  BY DEF Fields
<1>3. \A r \in Gprs : r \notin {"rip", "cs", "rflags", "rsp", "ss"}
  BY GprsAre
<1> DEFINE f == thread_init_user(t)
<1>4. f = [Zeroed EXCEPT !["rip"] = Rip(At("user", t)), !["cs"] = Imm(USER_CS), !["rflags"] = Flags(TRUE),
                         !["rsp"] = Rsp(Sp("user", t)), !["ss"] = Imm(USER_DS)]
  BY Zenon DEF thread_init_user
<1> HIDE DEF f
<1>5. DOMAIN f = Fields /\ IsFrame(f)
  BY <1>1, <1>4 DEF IsFrame
<1>6. /\ f["rip"] = Rip(At("user", t)) /\ f["cs"] = Imm(USER_CS) /\ f["rflags"] = Flags(TRUE)
      /\ f["rsp"] = Rsp(Sp("user", t)) /\ f["ss"] = Imm(USER_DS)
  BY <1>1, <1>2, <1>4
<1>7. \A r \in Gprs : f[r] = Imm(0)
  BY <1>1, <1>2, <1>3, <1>4
<1> QED BY <1>5, <1>6, <1>7 DEF f

LEMMA SetUpStep == ASSUME EInv, InKmain, core.pc = At("kmain", 1), SetUp PROVE EInv'
<1>1. /\ step = "gdt_init" /\ step' = "idt_init" /\ ist' = Purpose
      /\ UNCHANGED <<idt, running, core, mem, sys, left, origin>>
      /\ frame' = [t \in Threads |-> thread_init_user(t)]
      /\ g_cpu_local' = [g_cpu_local EXCEPT !.kernel_rsp = Sp("kernel", Boot)]
      /\ rsp0' = Sp("kernel", Boot) /\ g_current' = Boot
  BY DEF SetUp, gdt_set_ist, Kmain, cpu
<1>2. Shape /\ Order /\ NoneLeft
  BY <1>1 DEF EInv, InKmain
<1>3. CoreShape' /\ MemShape'
  BY <1>1, <1>2 DEF Shape, CoreShape, MemShape
<1>4. SysShape' /\ g_cpu_local'.kernel_rsp = Sp("kernel", Boot)
  BY <1>1, <1>2 DEF Shape, SysShape
<1>5. LeftShape'
  BY <1>1, <1>2 DEF Shape, LeftShape
<1>6. Order'
  BY <1>1, <1>2 DEF Order
<1>7. ASSUME NEW t \in Threads PROVE IsFrame(frame'[t]) /\ Matches(frame[t], t)'
  <2>1. frame'[t] = thread_init_user(t) /\ left' = left
    BY <1>1
  <2>2. left[t] = [NotLeft EXCEPT !.how = "init"]
    BY <1>2 DEF NoneLeft
  <2>3. left[t].how = "init" /\ \A r \in Gprs : left[t].regs[r] = Imm(0)
    BY <2>2 DEF NotLeft
  <2>4. IsPtr(Sp("user", t)) /\ Sp("user", t).stack = <<"user", t>>
    BY SpIsPtr DEF Sp
  <2> DEFINE f == thread_init_user(t)
  <2>5. /\ IsFrame(f) /\ f["rip"] = Rip(At("user", t)) /\ f["cs"] = Imm(USER_CS) /\ f["rflags"] = Flags(TRUE)
        /\ f["rsp"] = Rsp(Sp("user", t)) /\ f["ss"] = Imm(USER_DS)
        /\ \A r \in Gprs : f[r] = Imm(0)
    BY UserFrame
  <2> HIDE DEF f
  <2>6. frame'[t] = f
    BY <2>1 DEF f
  <2> QED BY <2>1, <2>3, <2>4, <2>5, <2>6 DEF Matches, Home
<1>8. ThreadsUp'
  BY <1>1, <1>4, <1>7, EntryAssumption DEF ThreadsUp
<1>9. InKmain'
  BY <1>1 DEF InKmain, Kernel, TablesUp, BootCtx
<1> QED BY <1>1, <1>3, <1>4, <1>5, <1>6, <1>8, <1>9 DEF EInv, Shape, Places

LEMMA BringUpStep == ASSUME EInv, InKmain, core.pc = At("kmain", 1), BringUp PROVE EInv'
<1>1. /\ step \in {"idt_init", "irq_init", "timer_init", "idt_enable"}
      /\ step' \in {"irq_init", "timer_init", "idt_enable", "up"}
      /\ UNCHANGED <<ist, running, core, mem, sys, g_cpu_local, rsp0, g_current, frame, left, origin>>
  BY DEF BringUp, idt_init, irq_init, timer_init, idt_enable, Kmain, cpu, machine
<1>2. Shape'
  BY <1>1 DEF EInv, Shape, CoreShape, MemShape, SysShape, LeftShape
<1>3. Order'
  BY <1>1 DEF EInv, Order
<1>4. ThreadsUp'
  <2>1. ASSUME NEW t, Matches(frame[t], t) PROVE Matches(frame[t], t)'
    BY <1>1, <2>1 DEF Matches, Home
  <2> QED BY <1>1, <2>1 DEF EInv, ThreadsUp
<1>5. InKmain'
  BY <1>1 DEF InKmain, Kernel, TablesUp, BootCtx, At
<1> QED BY <1>1, <1>2, <1>3, <1>4, <1>5 DEF EInv, Places

LEMMA SyscallInitStep == ASSUME EInv, InKmain, core.pc = At("kmain", 1), syscall_init PROVE EInv'
<1>1. /\ step = "up" /\ UNCHANGED vars /\ UNCHANGED <<mem, g_cpu_local, rsp0, g_current, frame, left, origin>>
      /\ sys' = [sys EXCEPT !.sce = TRUE, !.fmask = FmaskIf, !.star = [user |-> StarUser, kernel |-> KERNEL_CS]]
      /\ core' = [core EXCEPT !.pc = At("kmain", 2), !.gs = "0", !.kernel_gs = "g_cpu_local"]
  BY DEF syscall_init
<1>2. CoreShape /\ MemShape /\ SysShape /\ LeftShape /\ UNCHANGED <<step, running>>
  BY <1>1 DEF EInv, Shape, vars, boot, cpu
<1>3. core' = Core(At("kmain", 2), core.reg, core.rsp, core.cs, core.ss, "0", "g_cpu_local")
  BY <1>1, <1>2 DEF Core, CoreShape
<1>4. /\ core'.pc = At("kmain", 2) /\ core'.reg = core.reg /\ core'.rsp = core.rsp /\ core'.cs = core.cs
      /\ core'.ss = core.ss /\ core'.gs = "0" /\ core'.kernel_gs = "g_cpu_local" /\ CoreShape'
  BY <1>2, <1>3, CoreIs DEF CoreShape
<1>5. SysShape' /\ CallsUp' /\ sys'.gdt = sys.gdt /\ sys'.tr = sys.tr
  BY <1>1, <1>2 DEF SysShape, CallsUp, FmaskIf
<1>6. MemShape' /\ LeftShape'
  BY <1>1, <1>2, LeftKept DEF MemShape
<1>7. Order' /\ ThreadsUp'
  BY <1>1, <1>2, OrderKept, ThreadsKept DEF EInv
<1>8. InKmain'
  BY <1>1, <1>2, <1>4, <1>5 DEF InKmain, Kernel, TablesUp, BootCtx
<1> QED BY <1>1, <1>4, <1>5, <1>6, <1>7, <1>8 DEF EInv, Shape, Places

LEMMA EnterUserStep == ASSUME EInv, InKmain, core.pc = At("kmain", 2), EnterUser PROVE EInv'
<1>1. /\ UNCHANGED vars /\ UNCHANGED <<mem, sys, g_cpu_local, rsp0, g_current, frame, origin>>
      /\ core' = [core EXCEPT !.pc = At("enter_user", 1), !.reg["rdi"] = Rip(At("user", Boot)),
                              !.reg["rsi"] = Rsp(Sp("user", Boot))]
      /\ left' = [left EXCEPT ![Boot].how = "enter", ![Boot].rsp = Sp("user", Boot)]
  BY DEF EnterUser
<1>2. CoreShape /\ MemShape /\ SysShape /\ LeftShape /\ UNCHANGED <<step, running>>
  BY <1>1 DEF EInv, Shape, vars, boot, cpu
<1>3. step = "up" /\ core.kernel_gs = "g_cpu_local" /\ CallsUp /\ core.gs = "0" /\ g_current = Boot
  BY DEF InKmain, BootCtx, At
<1> DEFINE reg == [core.reg EXCEPT !["rdi"] = Rip(At("user", Boot)), !["rsi"] = Rsp(Sp("user", Boot))]
<1>4. core' = Core(At("enter_user", 1), reg, core.rsp, core.cs, core.ss, core.gs, core.kernel_gs)
  BY <1>1, <1>2 DEF Core, CoreShape
<1>5. IsRegs(reg) /\ reg["rdi"] = Rip(At("user", Boot)) /\ reg["rsi"] = Rsp(Sp("user", Boot))
  <2>1. core.reg = [r \in Gprs |-> core.reg[r]] /\ "rdi" \in Gprs /\ "rsi" \in Gprs
    BY <1>2, GprsAre DEF CoreShape, IsRegs
  <2> QED BY <2>1 DEF IsRegs
<1> HIDE DEF reg
<1>6. /\ core'.pc = At("enter_user", 1) /\ core'.reg = reg /\ core'.rsp = core.rsp /\ core'.cs = core.cs
      /\ core'.ss = core.ss /\ core'.gs = core.gs /\ core'.kernel_gs = core.kernel_gs /\ CoreShape'
  BY <1>2, <1>4, <1>5, CoreIs DEF CoreShape
<1>7. LeftShape' /\ Entered' /\ \A t \in Threads \ {Boot} : left'[t] = left[t]
  <2>1. left = [t \in Threads |-> left[t]] /\ Boot \in Threads
    BY <1>2, EntryAssumption DEF LeftShape
  <2>2. left'[Boot] = [left[Boot] EXCEPT !.how = "enter", !.rsp = Sp("user", Boot)]
    BY <1>1, <2>1
  <2>3. left' = [t \in Threads |-> left'[t]] /\ \A t \in Threads \ {Boot} : left'[t] = left[t]
    BY <1>1, <2>1
  <2>4. /\ left[Boot] = [how |-> left[Boot].how, regs |-> left[Boot].regs, rsp |-> left[Boot].rsp]
        /\ IsRegs(left[Boot].regs)
    BY <1>2, <2>1 DEF LeftShape
  <2>5. left'[Boot] = [how |-> "enter", regs |-> left[Boot].regs, rsp |-> Sp("user", Boot)]
    BY <2>2, <2>4
  <2>6. left'[Boot].how = "enter" /\ left'[Boot].rsp = Sp("user", Boot) /\ left'[Boot].regs = left[Boot].regs
    BY <2>5
  <2>7. ASSUME NEW t \in Threads
        PROVE  /\ left'[t] = [how |-> left'[t].how, regs |-> left'[t].regs, rsp |-> left'[t].rsp]
               /\ IsRegs(left'[t].regs)
    <3>1. CASE t = Boot
      BY <3>1, <2>4, <2>5, <2>6
    <3>2. CASE t # Boot
      BY <3>2, <1>2, <2>3 DEF LeftShape
    <3> QED BY <3>1, <3>2
  <2>8. LeftShape'
    BY <1>1, <1>2, <2>3, <2>7 DEF LeftShape
  <2> QED BY <2>3, <2>6, <2>8 DEF Entered
<1>8. MemShape' /\ SysShape' /\ Order'
  BY <1>1, <1>2, SysKept, OrderKept DEF EInv, MemShape
<1>9. ThreadsUp'
  <2>1. ASSUME NEW t \in Threads \ {Boot}, Matches(frame[t], t) PROVE Matches(frame[t], t)'
    BY <1>1, <1>7, <2>1 DEF Matches, Home
  <2> QED BY <1>1, <1>2, <1>3, <2>1 DEF EInv, ThreadsUp
<1>10. InKmain'
  BY <1>1, <1>2, <1>3, <1>5, <1>6, <1>7 DEF InKmain, Kernel, TablesUp, BootCtx, CallsUp, Entering
<1> QED BY <1>1, <1>6, <1>7, <1>8, <1>9, <1>10 DEF EInv, Shape, Places

LEMMA CliStep == ASSUME EInv, InKmain, core.pc = At("enter_user", 1), Execute PROVE EInv'
<1>1. core.pc.routine \in DOMAIN Code /\ Instr = enter_user[1] /\ Following = At("enter_user", 2)
  BY AtIs, CodeIs
<1>2. Instr[1] = "cli"
  <2>1. Instr = <<"cli">>
    BY <1>1, EnterUserIs
  <2> QED BY <2>1
<1>3. iflag' = FALSE /\ Go(core) /\ UNCHANGED <<boot, running, mem, kept>>
  BY <1>1, <1>2, Executes DEF Cli
<1>4. CoreShape /\ MemShape /\ Order /\ UNCHANGED <<step, ist, idt, sys, g_cpu_local, rsp0, g_current, frame, left, origin>>
  BY <1>3 DEF EInv, Shape, boot, kept
<1>5. core' = Plain(Following, core.rsp)
  BY <1>3, <1>4 DEF Go, Plain, Following, Core, CoreShape, At
<1>6. CoreShape' /\ core'.pc = Following /\ core'.reg = core.reg /\ core'.rsp = core.rsp /\ core'.cs = core.cs
      /\ core'.ss = core.ss /\ core'.gs = core.gs /\ core'.kernel_gs = core.kernel_gs
  BY <1>4, <1>5, CoreStep DEF Plain, CoreShape
<1>7. /\ step = "up" /\ core.kernel_gs = "g_cpu_local" /\ CallsUp /\ core.gs = "0" /\ g_current = Boot
      /\ Entering(core.reg) /\ core.rsp = BootTop /\ Kernel /\ running = None /\ Len(mem[<<"boot", 0>>]) >= 1
  BY DEF InKmain, BootCtx, At, EInv
<1>8. EnterAt(2)'
  <2>1. Shut'
    BY <1>3, <1>4, <1>6, <1>7 DEF Shut, Kernel, TablesUp, CallsUp
  <2>2. GsUser' /\ g_current' = Boot /\ Entering(core.reg)'
    BY <1>4, <1>6, <1>7 DEF GsUser, Entering, Entered
  <2>3. core'.rsp.stack = <<"boot", 0>> /\ core'.rsp.depth = 1 /\ Within(0)'
    BY <1>3, <1>6, <1>7 DEF Within, BootTop
  <2> QED BY <1>1, <1>6, <2>1, <2>2, <2>3 DEF EnterAt
<1>9. Shape'
  BY <1>3, <1>4, <1>6, SysKept, LeftKept DEF EInv, Shape, MemShape
<1>10. Order' /\ ThreadsUp'
  BY <1>3, <1>4, ThreadsKept DEF EInv, Order
<1> QED BY <1>3, <1>8, <1>9, <1>10 DEF EInv, Places, InEnter

LEMMA KmainStep == ASSUME EInv, InKmain, Execute PROVE EInv'
<1>1. CASE core.pc = At("kmain", 1)
  <2>1. core.pc.routine = "kmain" /\ core.pc # At("kmain", 0) /\ core.pc # At("kmain", 2)
    BY <1>1 DEF At
  <2> QED BY <1>1, <2>1, CodeIs, ExecutesElsewhere, SetUpStep, BringUpStep, SyscallInitStep
<1>2. CASE core.pc = At("kmain", 2)
  <2>1. core.pc.routine = "kmain" /\ core.pc # At("kmain", 0) /\ core.pc # At("kmain", 1)
    BY <1>2 DEF At
  <2> QED BY <1>2, <2>1, CodeIs, ExecutesElsewhere, EnterUserStep
<1>3. CASE core.pc = At("enter_user", 1)
  BY <1>3, CliStep
<1> QED BY <1>1, <1>2, <1>3 DEF InKmain, BootCtx

-----------------------------------------------------------------------------
(* iretq, to where and with what the stack says. *)
LEMMA ModuloFour == 8 % 4 = 0 /\ 35 % 4 = 3 /\ 16 % 4 = 0 /\ 27 % 4 = 3
OBVIOUS

LEMMA IretqEffect ==
    ASSUME CoreShape, MemShape, Kernel, Within(5), Len(mem[<<"boot", 0>>]) >= 1, Iretq,
           NEW r, NEW n, NEW p, IsPtr(p), NEW cs, NEW ss,
           (cs = USER_CS /\ ss = USER_DS) \/ (cs = KERNEL_CS /\ ss = KERNEL_DS),
           Pop(0) = Rip(At(r, n)), Pop(1) = Imm(cs), Pop(2) = Flags(TRUE), Pop(3) = Rsp(p), Pop(4) = Imm(ss)
    PROVE  /\ core'.pc = At(r, n) /\ core'.reg = core.reg /\ core'.rsp = p /\ core'.cs = cs /\ core'.ss = ss
           /\ core'.gs = core.gs /\ core'.kernel_gs = core.kernel_gs
           /\ CoreShape' /\ MemShape' /\ Len(mem'[<<"boot", 0>>]) >= 1
           /\ iflag' = TRUE /\ running' = None /\ UNCHANGED <<boot, pics, lapic, source, kept>>
<1>1. Pop(1)[2] = cs /\ Pop(4)[2] = ss /\ Pop(2)[2] = TRUE /\ Address(Pop(0)) = At(r, n) /\ Pointer(Pop(3)) = p
  BY Seconds, AddressOfRip, PointerOfRsp
<1>2. Cpl = 0
  BY ModuloFour, Selectors DEF Kernel, Cpl
<1>3. CodeSuits(cs) /\ cs % 4 >= Cpl /\ StackSuits(ss, cs % 4)
  <2>1. CodeSuits(KERNEL_CS) /\ CodeSuits(USER_CS) /\ StackSuits(KERNEL_DS, 0) /\ StackSuits(USER_DS, 3)
    BY Suits DEF Kernel, TablesUp
  <2> QED BY <1>2, <2>1, ModuloFour, Selectors
<1>4. /\ core' = [core EXCEPT !.pc = At(r, n), !.cs = cs, !.ss = ss, !.rsp = p]
      /\ mem' = Shallower(5) /\ iflag' = TRUE /\ running' = None
      /\ UNCHANGED <<boot, pics, lapic, source, kept>>
  BY <1>1, <1>3, Zenon DEF Iretq
<1>5. core' = Core(At(r, n), core.reg, p, cs, ss, core.gs, core.kernel_gs)
  BY <1>4 DEF Core, CoreShape
<1>6. /\ core'.pc = At(r, n) /\ core'.reg = core.reg /\ core'.rsp = p /\ core'.cs = cs /\ core'.ss = ss
      /\ core'.gs = core.gs /\ core'.kernel_gs = core.kernel_gs /\ CoreShape'
  BY <1>5, CoreIs DEF CoreShape
<1>7. IsPtr(core.rsp) /\ core.rsp.depth <= Len(mem[core.rsp.stack]) /\ 5 <= core.rsp.depth /\ core.rsp.depth \in Nat
  BY DEF CoreShape, Within, IsPtr
<1>8. Popped(core.rsp, 5, Deeper(core.rsp, -5), OnTop(Deeper(core.rsp, -5), <<>>))
  BY <1>7, PopWords
<1>9. MemShape' /\ Len(mem'[<<"boot", 0>>]) >= 1
  <2> DEFINE q == Deeper(core.rsp, -5)
  <2>1. Popped(core.rsp, 5, q, mem')
    BY <1>4, <1>8 DEF Shallower
  <2> HIDE DEF q
  <2>2. MemShape'
    BY <2>1 DEF Popped, MemShape
  <2>3. /\ q.stack = core.rsp.stack /\ q.depth = core.rsp.depth - 5 /\ q.depth = Len(mem'[q.stack])
        /\ \A s \in Stacks \ {core.rsp.stack} : mem'[s] = mem[s]
    BY <2>1 DEF Popped
  <2>4. CASE core.rsp.stack = <<"boot", 0>>
    <3>1. core.rsp.depth > 5
      BY <2>4 DEF Within
    <3>2. Len(mem'[<<"boot", 0>>]) = core.rsp.depth - 5
      BY <2>3, <2>4, Zenon
    <3> QED BY <1>7, <2>2, <3>1, <3>2
  <2>5. CASE core.rsp.stack # <<"boot", 0>>
    BY <2>2, <2>3, <2>5 DEF Stacks
  <2> QED BY <2>4, <2>5
<1> QED BY <1>4, <1>6, <1>9

-----------------------------------------------------------------------------
(* enter_user. *)
(* What is known at each of its instructions. *)
LEMMA EnterFacts ==
    ASSUME EInv, NEW n \in 2 .. 8, EnterAt(n), Execute
    PROVE  /\ core.pc.routine \in DOMAIN Code /\ Instr = enter_user[n] /\ Following = At("enter_user", n + 1)
           /\ CoreShape /\ MemShape /\ core.rsp.depth \in Nat /\ core.rsp.depth >= 1 /\ Within(0)
           /\ Cpl = 0 /\ sys.gdt = Gdt
<1>1. core.pc = At("enter_user", n) /\ CoreShape /\ MemShape /\ Within(0) /\ Kernel /\ core.rsp.stack = <<"boot", 0>>
  BY DEF EnterAt, Shut, EInv, Shape
<1>2. core.rsp.depth \in Nat /\ core.rsp.depth >= 1
  BY <1>1 DEF CoreShape, IsPtr, Within
<1>3. Cpl = 0 /\ sys.gdt = Gdt
  BY <1>1, ModuloFour, Selectors DEF Kernel, TablesUp, Cpl
<1> QED BY <1>1, <1>2, <1>3, AtIs, CodeIs

(* What lasts from one of its instructions to the next. *)
LEMMA EnterKept ==
    ASSUME NEW n \in 2 .. 8, EnterAt(n), Still, core'.reg = core.reg, core'.cs = core.cs, core'.gs = "0",
           core'.kernel_gs = core.kernel_gs
    PROVE  Shut' /\ GsUser' /\ g_current' = Boot /\ Entering(core.reg)'
BY StillIs DEF EnterAt, Shut, Kernel, TablesUp, CallsUp, GsUser, Entering, Entered

LEMMA EnterDsStep == ASSUME EInv, EnterAt(2), Execute PROVE EInv' /\ EnterAt(3)'
<1>1. /\ core.pc.routine \in DOMAIN Code /\ Instr = enter_user[2] /\ Following = At("enter_user", 3)
      /\ CoreShape /\ MemShape /\ Cpl = 0 /\ sys.gdt = Gdt /\ Within(0)
  BY EnterFacts
<1>2. Instr = <<"mov ds", USER_DS>>
  BY <1>1, EnterUserIs
<1>3. SegmentStep
  <2>1. Instr[1] = "mov ds"
    BY <1>2
  <2> QED BY <1>1, <2>1, Executes
<1>4. DataSuits(USER_DS)
  BY <1>1, Suits
<1>5. core' = Plain(Following, core.rsp) /\ mem' = mem /\ Still
  BY <1>1, <1>2, <1>3, <1>4, SegmentEffect
<1>6. CoreShape' /\ core'.pc = Following /\ core'.reg = core.reg /\ core'.rsp = core.rsp /\ core'.cs = core.cs
      /\ core'.ss = core.ss /\ core'.gs = core.gs /\ core'.kernel_gs = core.kernel_gs
  BY <1>1, <1>5, CoreStep DEF Plain, CoreShape
<1>7. EnterAt(3)'
  <2>1. core.gs = "0" /\ core.rsp.stack = <<"boot", 0>> /\ core.rsp.depth = 1
    BY DEF EnterAt, GsUser
  <2>2. Shut' /\ GsUser' /\ g_current' = Boot /\ Entering(core.reg)'
    BY <1>5, <1>6, <2>1, EnterKept
  <2>3. Within(0)'
    BY <1>1, <1>5, <1>6 DEF Within
  <2> QED BY <1>1, <1>6, <2>1, <2>2, <2>3 DEF EnterAt
<1>8. MemShape' /\ OneStack
  BY <1>1, <1>5 DEF MemShape, OneStack
<1> QED BY <1>5, <1>6, <1>7, <1>8, Stays DEF Places, InEnter

LEMMA EnterGsStep == ASSUME EInv, EnterAt(3), Execute PROVE EInv' /\ EnterAt(4)'
<1>1. /\ core.pc.routine \in DOMAIN Code /\ Instr = enter_user[3] /\ Following = At("enter_user", 4)
      /\ CoreShape /\ MemShape /\ Cpl = 0 /\ sys.gdt = Gdt /\ Within(0)
  BY EnterFacts
<1>2. Instr = <<"mov gs", USER_DS>>
  BY <1>1, EnterUserIs
<1>3. SegmentStep
  <2>1. Instr[1] = "mov gs"
    BY <1>2
  <2> QED BY <1>1, <2>1, Executes
<1>4. DataSuits(USER_DS)
  BY <1>1, Suits
<1>5. /\ core' = Core(Following, core.reg, core.rsp, core.cs, core.ss, "0", core.kernel_gs)
      /\ mem' = mem /\ Still
  BY <1>1, <1>2, <1>3, <1>4, SegmentEffect
<1>6. CoreShape' /\ core'.pc = Following /\ core'.reg = core.reg /\ core'.rsp = core.rsp /\ core'.cs = core.cs
      /\ core'.ss = core.ss /\ core'.gs = "0" /\ core'.kernel_gs = core.kernel_gs
  BY <1>1, <1>5, CoreStep DEF CoreShape
<1>7. EnterAt(4)'
  <2>1. core.rsp.stack = <<"boot", 0>> /\ core.rsp.depth = 1
    BY DEF EnterAt
  <2>2. Shut' /\ GsUser' /\ g_current' = Boot /\ Entering(core.reg)'
    BY <1>5, <1>6, EnterKept
  <2>3. Within(0)'
    BY <1>1, <1>5, <1>6 DEF Within
  <2> QED BY <1>1, <1>6, <2>1, <2>2, <2>3 DEF EnterAt
<1>8. MemShape' /\ OneStack
  BY <1>1, <1>5 DEF MemShape, OneStack
<1> QED BY <1>5, <1>6, <1>7, <1>8, Stays DEF Places, InEnter

(* A push on to the loader's stack. *)
LEMMA EnterPush ==
    ASSUME EInv, NEW n \in {4, 5, 6, 7}, EnterAt(n), Execute, NEW ws, IsSeq(ws), NEW k \in 1 .. 2, Len(ws) = k,
           \/ Instr = <<"pushi", ws>>
           \/ Instr[1] = "push" /\ ws = [i \in DOMAIN Instr[2] |-> core.reg[Instr[2][i]]]
    PROVE  /\ core'.pc = At("enter_user", n + 1) /\ core'.rsp.stack = <<"boot", 0>>
           /\ core'.rsp.depth = core.rsp.depth + k /\ Within(0)'
           /\ Shut' /\ GsUser' /\ g_current' = Boot /\ Entering(core.reg)'
           /\ OnStack(k, ws)
           /\ EnterAt(n + 1)' => EInv'
<1>1. /\ core.pc.routine \in DOMAIN Code /\ Following = At("enter_user", n + 1)
      /\ CoreShape /\ MemShape /\ Within(0) /\ core.rsp.depth \in Nat
  BY EnterFacts
<1>2. PushStep
  <2>1. Instr[1] \in {"push", "pushi"}
    OBVIOUS
  <2> QED BY <1>1, <2>1, Executes
<1>3. core' = Plain(Following, Deeper(core.rsp, k)) /\ OnStack(k, ws) /\ Still
  BY <1>1, <1>2, PushEffect
<1>4. /\ core'.pc = Following /\ core'.reg = core.reg /\ core'.cs = core.cs
      /\ core'.ss = core.ss /\ core'.gs = core.gs /\ core'.kernel_gs = core.kernel_gs
  BY <1>3 DEF Plain, Core
<1>5. core.rsp.stack = <<"boot", 0>> /\ core.gs = "0"
  BY DEF EnterAt, GsUser
<1>6. core'.rsp.stack = <<"boot", 0>> /\ core'.rsp.depth = core.rsp.depth + k /\ CoreShape' /\ MemShape'
      /\ core'.rsp.depth = Len(mem'[core'.rsp.stack])
  BY <1>3, <1>5 DEF OnStack
<1>7. Within(0)'
  BY <1>1, <1>6 DEF Within
<1>8. Shut' /\ GsUser' /\ g_current' = Boot /\ Entering(core.reg)'
  BY <1>3, <1>4, <1>5, EnterKept
<1>9. OneStack
  BY <1>1, <1>3, OnStackIsOne
<1>10. ASSUME EnterAt(n + 1)' PROVE EInv'
  BY <1>3, <1>6, <1>9, <1>10, Stays DEF Places, InEnter
<1> QED BY <1>1, <1>3, <1>4, <1>6, <1>7, <1>8, <1>10

LEMMA NotUser == ASSUME NEW r, NEW n, core'.pc = At(r, n), r # "user" PROVE ~User'
BY DEF User, At

LEMMA OneReg == ASSUME NEW r PROVE LET rs == <<r>> IN <<core.reg[r]>> = [i \in DOMAIN rs |-> core.reg[rs[i]]]
OBVIOUS

LEMMA SevenAndEight ==
    /\ ~(7 <= 4) /\ ~(7 <= 6) /\ 7 - 2 = 5 /\ 7 # 5 /\ 7 # 6 /\ 7 # 8
    /\ ~(8 <= 4) /\ ~(8 <= 6) /\ 8 - 2 = 6 /\ 8 # 5 /\ 8 # 6 /\ 8 # 7 /\ 3 + 2 = 5 /\ 5 + 1 = 6
OBVIOUS

LEMMA EnterPushSsStep == ASSUME EInv, EnterAt(4), Execute PROVE EInv' /\ ~User'
<1> DEFINE ws == <<Imm(USER_DS)>>
<1>1. Instr = <<"pushi", ws>>
  <2>1. 4 \in 2 .. 8
    OBVIOUS
  <2>2. Instr = enter_user[4]
    BY <2>1, EnterFacts
  <2> QED BY <2>2, EnterUserIs
<1>2. IsSeq(ws) /\ Len(ws) = 1 /\ ws[1] = Imm(USER_DS)
  BY FewWords
<1> HIDE DEF ws
<1>3. /\ core'.pc = At("enter_user", 5) /\ core'.rsp.stack = <<"boot", 0>>
      /\ core'.rsp.depth = core.rsp.depth + 1 /\ Within(0)'
      /\ Shut' /\ GsUser' /\ g_current' = Boot /\ Entering(core.reg)'
      /\ OnStack(1, ws)
      /\ EnterAt(5)' => EInv'
  <2>1. /\ core'.pc = At("enter_user", 4 + 1) /\ core'.rsp.stack = <<"boot", 0>>
        /\ core'.rsp.depth = core.rsp.depth + 1 /\ Within(0)'
        /\ Shut' /\ GsUser' /\ g_current' = Boot /\ Entering(core.reg)'
        /\ OnStack(1, ws)
        /\ EnterAt(4 + 1)' => EInv'
    BY <1>1, <1>2, EnterPush
  <2>2. 4 + 1 = 5
    OBVIOUS
  <2> QED BY <2>1, <2>2, Zenon
<1>4. core.rsp.depth = 1
  BY DEF EnterAt
<1>5. Pop(0)' = ws[1]
  BY <1>3 DEF OnStack
<1>6. EnterAt(5)'
  BY <1>2, <1>3, <1>4, <1>5 DEF EnterAt
<1> QED BY <1>3, <1>6, NotUser

LEMMA EnterPushRspStep == ASSUME EInv, EnterAt(5), Execute PROVE EInv' /\ ~User'
<1> DEFINE ws == <<core.reg["rsi"]>>
<1>1. Instr[1] = "push" /\ ws = [i \in DOMAIN Instr[2] |-> core.reg[Instr[2][i]]]
  <2>1. Instr = <<"push", <<"rsi">> >>
    <3>1. 5 \in 2 .. 8
      OBVIOUS
    <3>2. Instr = enter_user[5]
      BY <3>1, EnterFacts
    <3> QED BY <3>2, EnterUserIs
  <2>2. Instr[1] = "push" /\ Instr[2] = <<"rsi">>
    BY <2>1
  <2> QED BY <2>2, OneReg
<1>2. IsSeq(ws) /\ Len(ws) = 1 /\ ws[1] = core.reg["rsi"]
  BY FewWords
<1> HIDE DEF ws
<1>3. /\ core'.pc = At("enter_user", 6) /\ core'.rsp.stack = <<"boot", 0>>
      /\ core'.rsp.depth = core.rsp.depth + 1 /\ Within(0)'
      /\ Shut' /\ GsUser' /\ g_current' = Boot /\ Entering(core.reg)'
      /\ OnStack(1, ws)
      /\ EnterAt(6)' => EInv'
  <2>1. /\ core'.pc = At("enter_user", 5 + 1) /\ core'.rsp.stack = <<"boot", 0>>
        /\ core'.rsp.depth = core.rsp.depth + 1 /\ Within(0)'
        /\ Shut' /\ GsUser' /\ g_current' = Boot /\ Entering(core.reg)'
        /\ OnStack(1, ws)
        /\ EnterAt(5 + 1)' => EInv'
    BY <1>1, <1>2, EnterPush
  <2>2. 5 + 1 = 6
    OBVIOUS
  <2> QED BY <2>1, <2>2, Zenon
<1>4. core.rsp.depth = 2 /\ core.reg["rsi"] = Rsp(Sp("user", Boot)) /\ Pop(0) = Imm(USER_DS)
  BY DEF EnterAt, Entering
<1>5. Pop(0)' = ws[1] /\ Pop(1)' = Pop(0)
  <2>1. Pop(1 + 0)' = Pop(0)
    BY <1>3, <1>4 DEF OnStack
  <2> QED BY <1>3, <2>1 DEF OnStack
<1>6. EnterAt(6)'
  BY <1>2, <1>3, <1>4, <1>5 DEF EnterAt
<1> QED BY <1>3, <1>6, NotUser

LEMMA EnterPushFlagsStep == ASSUME EInv, EnterAt(6), Execute PROVE EInv' /\ ~User'
<1> DEFINE ws == <<Flags(TRUE), Imm(USER_CS)>>
<1>1. Instr = <<"pushi", ws>>
  <2>1. 6 \in 2 .. 8
    OBVIOUS
  <2>2. Instr = enter_user[6]
    BY <2>1, EnterFacts
  <2> QED BY <2>2, EnterUserIs
<1>2. IsSeq(ws) /\ Len(ws) = 2 /\ ws[1] = Flags(TRUE) /\ ws[2] = Imm(USER_CS)
  BY FewWords
<1> HIDE DEF ws
<1>3. /\ core'.pc = At("enter_user", 7) /\ core'.rsp.stack = <<"boot", 0>>
      /\ core'.rsp.depth = core.rsp.depth + 2 /\ Within(0)'
      /\ Shut' /\ GsUser' /\ g_current' = Boot /\ Entering(core.reg)'
      /\ OnStack(2, ws)
      /\ EnterAt(7)' => EInv'
  <2>1. /\ core'.pc = At("enter_user", 6 + 1) /\ core'.rsp.stack = <<"boot", 0>>
        /\ core'.rsp.depth = core.rsp.depth + 2 /\ Within(0)'
        /\ Shut' /\ GsUser' /\ g_current' = Boot /\ Entering(core.reg)'
        /\ OnStack(2, ws)
        /\ EnterAt(6 + 1)' => EInv'
    BY <1>1, <1>2, EnterPush
  <2>2. 6 + 1 = 7
    OBVIOUS
  <2> QED BY <2>1, <2>2, Zenon
<1>4. core.rsp.depth = 3 /\ Pop(0) = Rsp(Sp("user", Boot)) /\ Pop(1) = Imm(USER_DS)
  BY DEF EnterAt
<1>5. Pop(0)' = ws[2] /\ Pop(1)' = ws[1] /\ Pop(2)' = Pop(0) /\ Pop(3)' = Pop(1)
  <2>1. Pop(2 + 0)' = Pop(0) /\ Pop(2 + 1)' = Pop(1)
    BY <1>3, <1>4 DEF OnStack
  <2>2. \A i \in 0 .. 2 - 1 : Pop(i)' = ws[2 - i]
    BY <1>3 DEF OnStack
  <2> QED BY <2>1, <2>2
<1>6. EnterAt(7)'
  BY <1>2, <1>3, <1>4, <1>5, SevenAndEight, Zenon DEF EnterAt
<1> QED BY <1>3, <1>6, NotUser

LEMMA EnterPushRipStep == ASSUME EInv, EnterAt(7), Execute PROVE EInv' /\ ~User'
<1> DEFINE ws == <<core.reg["rdi"]>>
<1>1. Instr[1] = "push" /\ ws = [i \in DOMAIN Instr[2] |-> core.reg[Instr[2][i]]]
  <2>1. Instr = <<"push", <<"rdi">> >>
    <3>1. 7 \in 2 .. 8
      OBVIOUS
    <3>2. Instr = enter_user[7]
      BY <3>1, EnterFacts
    <3> QED BY <3>2, EnterUserIs
  <2>2. Instr[1] = "push" /\ Instr[2] = <<"rdi">>
    BY <2>1
  <2> QED BY <2>2, OneReg
<1>2. IsSeq(ws) /\ Len(ws) = 1 /\ ws[1] = core.reg["rdi"]
  BY FewWords
<1> HIDE DEF ws
<1>3. /\ core'.pc = At("enter_user", 8) /\ core'.rsp.stack = <<"boot", 0>>
      /\ core'.rsp.depth = core.rsp.depth + 1 /\ Within(0)'
      /\ Shut' /\ GsUser' /\ g_current' = Boot /\ Entering(core.reg)'
      /\ OnStack(1, ws)
      /\ EnterAt(8)' => EInv'
  <2>1. /\ core'.pc = At("enter_user", 7 + 1) /\ core'.rsp.stack = <<"boot", 0>>
        /\ core'.rsp.depth = core.rsp.depth + 1 /\ Within(0)'
        /\ Shut' /\ GsUser' /\ g_current' = Boot /\ Entering(core.reg)'
        /\ OnStack(1, ws)
        /\ EnterAt(7 + 1)' => EInv'
    BY <1>1, <1>2, EnterPush
  <2>2. 7 + 1 = 8
    OBVIOUS
  <2> QED BY <2>1, <2>2, Zenon
<1>4. /\ core.rsp.depth = 5 /\ core.reg["rdi"] = Rip(At("user", Boot)) /\ Pop(0) = Imm(USER_CS)
      /\ Pop(1) = Flags(TRUE) /\ Pop(2) = Rsp(Sp("user", Boot)) /\ Pop(3) = Imm(USER_DS)
  BY SevenAndEight, Zenon DEF EnterAt, Entering
<1>5. Pop(0)' = ws[1] /\ Pop(1)' = Pop(0) /\ Pop(2)' = Pop(1) /\ Pop(3)' = Pop(2) /\ Pop(4)' = Pop(3)
  <2>1. Pop(1 + 0)' = Pop(0) /\ Pop(1 + 1)' = Pop(1) /\ Pop(1 + 2)' = Pop(2) /\ Pop(1 + 3)' = Pop(3)
    BY <1>3, <1>4 DEF OnStack
  <2> QED BY <1>3, <2>1 DEF OnStack
<1>6. EnterAt(8)'
  BY <1>2, <1>3, <1>4, <1>5, SevenAndEight, Zenon DEF EnterAt
<1> QED BY <1>3, <1>6, NotUser

LEMMA EnterIretqStep == ASSUME EInv, EnterAt(8), Execute PROVE EInv' /\ Resumed'
<1>1. core.pc.routine \in DOMAIN Code /\ Instr = enter_user[8] /\ CoreShape /\ MemShape
  BY EnterFacts
<1>2. Iretq
  <2>1. Instr = <<"iretq">>
    BY <1>1, EnterUserIs
  <2>2. Instr[1] = "iretq"
    BY <2>1
  <2> QED BY <1>1, <2>2, Executes
<1>3. /\ Shut /\ GsUser /\ g_current = Boot /\ Entering(core.reg) /\ core.rsp.stack = <<"boot", 0>> /\ Within(0)
      /\ core.rsp.depth = 6 /\ Pop(0) = Rip(At("user", Boot)) /\ Pop(1) = Imm(USER_CS) /\ Pop(2) = Flags(TRUE)
      /\ Pop(3) = Rsp(Sp("user", Boot)) /\ Pop(4) = Imm(USER_DS) /\ core.pc = At("enter_user", 8)
  BY SevenAndEight, Zenon DEF EnterAt
<1>4. Within(5) /\ Kernel /\ IsPtr(Sp("user", Boot))
  BY <1>3, SpIsPtr, EntryAssumption DEF Within, Shut
<1>5. /\ core'.pc = At("user", Boot) /\ core'.reg = core.reg /\ core'.rsp = Sp("user", Boot)
      /\ core'.cs = USER_CS /\ core'.ss = USER_DS
      /\ core'.gs = core.gs /\ core'.kernel_gs = core.kernel_gs
      /\ CoreShape' /\ MemShape' /\ Len(mem'[<<"boot", 0>>]) >= 1
      /\ iflag' = TRUE /\ running' = None /\ UNCHANGED <<boot, pics, lapic, source, kept>>
  <2>1. Len(mem[<<"boot", 0>>]) >= 1
    BY DEF EInv
  <2> DEFINE p == Sp("user", Boot)
  <2>2. IsPtr(p) /\ Pop(3) = Rsp(p)
    BY <1>3, <1>4
  <2> HIDE DEF p
  <2>3. /\ core'.pc = At("user", Boot) /\ core'.reg = core.reg /\ core'.rsp = p
        /\ core'.cs = USER_CS /\ core'.ss = USER_DS
        /\ core'.gs = core.gs /\ core'.kernel_gs = core.kernel_gs
        /\ CoreShape' /\ MemShape' /\ Len(mem'[<<"boot", 0>>]) >= 1
        /\ iflag' = TRUE /\ running' = None /\ UNCHANGED <<boot, pics, lapic, source, kept>>
    <3> DEFINE cs == USER_CS
               ss == USER_DS
               t  == Boot
    <3>1. Pop(0) = Rip(At("user", t)) /\ Pop(1) = Imm(cs) /\ Pop(2) = Flags(TRUE) /\ Pop(4) = Imm(ss)
      BY <1>3
    <3>2. (cs = USER_CS /\ ss = USER_DS) \/ (cs = KERNEL_CS /\ ss = KERNEL_DS)
      OBVIOUS
    <3> HIDE DEF cs, ss, t
    <3>3. /\ core'.pc = At("user", t) /\ core'.reg = core.reg /\ core'.rsp = p
          /\ core'.cs = cs /\ core'.ss = ss
          /\ core'.gs = core.gs /\ core'.kernel_gs = core.kernel_gs
          /\ CoreShape' /\ MemShape' /\ Len(mem'[<<"boot", 0>>]) >= 1
          /\ iflag' = TRUE /\ running' = None /\ UNCHANGED <<boot, pics, lapic, source, kept>>
      BY <1>1, <1>2, <1>4, <2>1, <2>2, <3>1, <3>2, IretqEffect, ZenonT(60)
    <3> QED BY <3>3 DEF cs, ss, t
  <2> QED BY <2>3 DEF p
<1>6. UNCHANGED <<step, ist, idt, sys, g_cpu_local, rsp0, g_current, frame, left, origin>>
  BY <1>5 DEF boot, kept
<1>7. Shape'
  BY <1>5, <1>6, SysKept, LeftKept DEF EInv, Shape
<1>8. Order' /\ ThreadsUp'
  BY <1>3, <1>5, <1>6, ThreadsKept DEF EInv, Order, Shut
<1>9. InUser'
  BY <1>3, <1>5, <1>6 DEF InUser, Shut, Kernel, TablesUp, CallsUp, GsUser, Sp
<1>10. Resumed'
  BY <1>3, <1>5, <1>6 DEF Resumed, Entering, Entered
<1> QED BY <1>5, <1>7, <1>8, <1>9, <1>10 DEF EInv, Places

LEMMA EnterStep ==
    ASSUME EInv, NEW n \in 2 .. 8, EnterAt(n), Execute
    PROVE  EInv' /\ (User' => Resumed')
<1>1. n = 2 \/ n = 3 \/ n = 4 \/ n = 5 \/ n = 6 \/ n = 7 \/ n = 8
  OBVIOUS
<1>2. EnterAt(3)' \/ EnterAt(4)' => ~User'
  BY NotUser DEF EnterAt
<1> QED BY <1>1, <1>2, EnterDsStep, EnterGsStep, EnterPushSsStep, EnterPushRspStep, EnterPushFlagsStep,
           EnterPushRipStep, EnterIretqStep, Zenon

-----------------------------------------------------------------------------
(* What is known of a thread when it leaves user mode. *)
LEMMA LeftSet ==
    ASSUME LeftShape, NEW t \in Threads, NEW how, NEW regs, NEW rsp, IsRegs(regs), IsFrame(origin)',
           left' = [left EXCEPT ![t] = [how |-> how, regs |-> regs, rsp |-> rsp]], UNCHANGED frame
    PROVE  /\ LeftShape' /\ left'[t] = [how |-> how, regs |-> regs, rsp |-> rsp]
           /\ \A u \in Threads \ {t} : left'[u] = left[u]
<1>1. left = [u \in Threads |-> left[u]] /\ frame = [u \in Threads |-> frame[u]]
  BY DEF LeftShape
<1>2. left'[t] = [how |-> how, regs |-> regs, rsp |-> rsp] /\ left' = [u \in Threads |-> left'[u]]
  BY <1>1
<1>3. \A u \in Threads \ {t} : left'[u] = left[u]
  BY <1>1
<1>4. ASSUME NEW u \in Threads
      PROVE  /\ left'[u] = [how |-> left'[u].how, regs |-> left'[u].regs, rsp |-> left'[u].rsp]
             /\ IsRegs(left'[u].regs)
  BY <1>2, <1>3 DEF LeftShape
<1>5. LeftShape'
  BY <1>1, <1>2, <1>4 DEF LeftShape
<1> QED BY <1>2, <1>3, <1>5

LEMMA ThreadsLeft ==
    ASSUME ThreadsUp, UNCHANGED <<step, g_current, rsp0, frame>>, g_cpu_local'.kernel_rsp = g_cpu_local.kernel_rsp,
           \A t \in Threads \ {g_current} : left'[t] = left[t]
    PROVE  ThreadsUp'
<1>1. ASSUME NEW t \in Threads \ {g_current}, Matches(frame[t], t) PROVE Matches(frame[t], t)'
  BY <1>1 DEF Matches, Home
<1> QED BY <1>1 DEF ThreadsUp

(* User code, and SYSCALL. *)
LEMMA UserComputes == ASSUME EInv, InUser, UserStep PROVE EInv'
<1>1. PICK n \in Numbers :
          core' = [core EXCEPT !.reg = [r \in Gprs |-> IF r = "rax" THEN Imm(n) ELSE <<"user", g_current, r>>],
                               !.rsp.depth = n % 2]
  BY DEF UserStep
<1>2. /\ left' = [left EXCEPT ![g_current] = NotLeft]
      /\ UNCHANGED <<vars, mem, sys, g_cpu_local, rsp0, g_current, frame, origin>>
  BY DEF UserStep
<1> DEFINE reg == [r \in Gprs |-> IF r = "rax" THEN Imm(n) ELSE <<"user", g_current, r>>]
           p == [stack |-> core.rsp.stack, depth |-> n % 2]
<1>3. CoreShape /\ MemShape /\ SysShape /\ LeftShape /\ ThreadsUp /\ step = "up" /\ g_current \in Threads
  BY DEF EInv, Shape, InUser, ThreadsUp
<1>4. n % 2 \in Nat
  BY EntryAssumption
<1>5. IsRegs(reg) /\ IsPtr(p) /\ p.stack = core.rsp.stack
  BY <1>3, <1>4 DEF IsRegs, IsPtr, CoreShape
<1>6. core' = Core(core.pc, reg, p, core.cs, core.ss, core.gs, core.kernel_gs)
  BY <1>1, <1>3 DEF Core, CoreShape, IsPtr
<1> HIDE DEF reg, p
<1>7. /\ core'.pc = core.pc /\ core'.rsp = p /\ core'.cs = core.cs /\ core'.ss = core.ss
      /\ core'.gs = core.gs /\ core'.kernel_gs = core.kernel_gs /\ CoreShape'
  BY <1>3, <1>5, <1>6, CoreIs DEF CoreShape
<1>8. LeftShape' /\ \A t \in Threads \ {g_current} : left'[t] = left[t]
  <2>1. IsRegs([r \in Gprs |-> Imm(0)])
    BY DEF IsRegs
  <2>2. IsFrame(origin)' /\ UNCHANGED frame
    BY <1>2, <1>3 DEF LeftShape, IsFrame
  <2> QED BY <1>2, <1>3, <2>1, <2>2, LeftSet DEF NotLeft
<1>9. MemShape' /\ SysShape' /\ Order' /\ UNCHANGED <<step, iflag, running>>
  BY <1>2, <1>3, SysKept, OrderKept DEF EInv, MemShape, vars, boot, cpu
<1>10. ThreadsUp'
  BY <1>2, <1>3, <1>8, <1>9, ThreadsLeft
<1>11. InUser'
  BY <1>2, <1>5, <1>7, <1>9 DEF InUser, GsUser, TablesUp, CallsUp
<1> QED BY <1>2, <1>7, <1>8, <1>9, <1>10, <1>11 DEF EInv, Shape, Places

LEMMA SyscallStep == ASSUME EInv, InUser, Syscall PROVE EInv' /\ SysAt(1)'
<1>1. /\ core' = [core EXCEPT !.pc = At("syscall_entry", 1), !.cs = sys.star.kernel,
                              !.ss = sys.star.kernel + 8,
                              !.reg["rcx"] = Rip(core.pc), !.reg["r11"] = Flags(iflag)]
      /\ iflag' = (iflag /\ ~sys.fmask)
      /\ left' = [left EXCEPT ![g_current] = [how |-> "syscall", regs |-> core.reg, rsp |-> core.rsp]]
      /\ UNCHANGED <<boot, pics, lapic, running, source, mem, sys, g_cpu_local, rsp0, g_current, frame, origin>>
  BY DEF Syscall
<1>2. /\ CoreShape /\ MemShape /\ SysShape /\ LeftShape /\ ThreadsUp /\ step = "up" /\ g_current \in Threads
      /\ sys.star.kernel = KERNEL_CS /\ sys.fmask = TRUE /\ TablesUp /\ CallsUp /\ GsUser
      /\ core.pc = At("user", g_current) /\ core.rsp.stack = <<"user", g_current>> /\ iflag = TRUE /\ running = None
  BY DEF EInv, Shape, InUser, ThreadsUp, CallsUp
<1> DEFINE reg == [core.reg EXCEPT !["rcx"] = Rip(core.pc), !["r11"] = Flags(TRUE)]
<1>3. core' = Core(At("syscall_entry", 1), reg, core.rsp, KERNEL_CS, KERNEL_CS + 8, core.gs, core.kernel_gs)
  BY <1>1, <1>2 DEF Core, CoreShape
<1>4. /\ IsRegs(reg) /\ reg["rcx"] = Rip(At("user", g_current)) /\ reg["r11"] = Flags(TRUE)
      /\ \A r \in Gprs \ {"rcx", "r11"} : reg[r] = core.reg[r]
  <2>1. core.reg = [r \in Gprs |-> core.reg[r]] /\ "rcx" \in Gprs /\ "r11" \in Gprs /\ "rcx" # "r11"
    BY <1>2, GprsAre DEF CoreShape, IsRegs
  <2> QED BY <1>2, <2>1 DEF IsRegs
<1> HIDE DEF reg
<1>5. /\ core'.pc = At("syscall_entry", 1) /\ core'.reg = reg /\ core'.rsp = core.rsp /\ core'.cs = KERNEL_CS
      /\ core'.gs = core.gs /\ core'.kernel_gs = core.kernel_gs /\ CoreShape'
  BY <1>2, <1>3, <1>4, CoreIs DEF CoreShape
<1>6. /\ LeftShape' /\ \A t \in Threads \ {g_current} : left'[t] = left[t]
      /\ left'[g_current].how = "syscall" /\ left'[g_current].regs = core.reg /\ left'[g_current].rsp = core.rsp
  <2>1. PICK regs, rsp, t : regs = core.reg /\ rsp = core.rsp /\ t = g_current
    OBVIOUS
  <2>2. IsRegs(regs) /\ IsFrame(origin)' /\ UNCHANGED frame
    BY <1>1, <1>2, <2>1 DEF LeftShape, IsFrame, CoreShape
  <2>3. LeftShape /\ t \in Threads /\ left' = [left EXCEPT ![t] = [how |-> "syscall", regs |-> regs, rsp |-> rsp]]
    BY <1>1, <1>2, <2>1
  <2>4. LeftShape'
    BY <2>2, <2>3, LeftSet
  <2>5. \A u \in Threads \ {t} : left'[u] = left[u]
    BY <2>3 DEF LeftShape
  <2>6. left'[t] = [how |-> "syscall", regs |-> regs, rsp |-> rsp]
    BY <2>3 DEF LeftShape
  <2>7. left'[t].how = "syscall" /\ left'[t].regs = regs /\ left'[t].rsp = rsp
    BY <2>6
  <2> QED BY <2>1, <2>4, <2>5, <2>7
<1>7. iflag' = FALSE /\ UNCHANGED <<step, ist, idt, running, mem, sys, g_cpu_local, rsp0, g_current, frame>>
  BY <1>1, <1>2 DEF boot
<1>8. MemShape' /\ SysShape' /\ Order'
  BY <1>2, <1>7, SysKept DEF EInv, MemShape, Order
<1>9. ThreadsUp'
  BY <1>2, <1>6, <1>7, ThreadsLeft
<1>10. SysAt(1)'
  <2>1. Shut'
    BY <1>2, <1>5, <1>7 DEF Shut, Kernel, TablesUp, CallsUp
  <2>2. SysLeft'
    BY <1>2, <1>6, <1>7 DEF SysLeft, CoreShape
  <2>4. SysAsked'
    BY <1>4, <1>5, <1>6, <1>7 DEF SysAsked, SysBack, Caller
  <2>5. GsUser'
    BY <1>2, <1>5 DEF GsUser
  <2> QED BY <1>5, <1>6, <1>7, <2>1, <2>2, <2>4, <2>5 DEF SysAt
<1> QED BY <1>5, <1>6, <1>7, <1>8, <1>9, <1>10 DEF EInv, Shape, Places, InSyscall

LEMMA InUserStep == ASSUME EInv, InUser, Execute PROVE EInv'
<1>1. core.pc.routine = "user"
  BY DEF InUser, At
<1> QED BY <1>1, CodeIs, ExecutesElsewhere, UserComputes, SyscallStep

-----------------------------------------------------------------------------
(* syscall_entry. *)
(* What is known at each of its instructions. *)
LEMMA SysFacts ==
    ASSUME EInv, NEW n \in 1 .. 13, SysAt(n), Execute
    PROVE  /\ core.pc.routine \in DOMAIN Code /\ Instr = syscall_entry[n]
           /\ Following = At("syscall_entry", n + 1)
           /\ CoreShape /\ MemShape /\ SysShape /\ core.rsp.depth \in Nat
           /\ g_current \in Threads /\ g_cpu_local.kernel_rsp = Sp("kernel", g_current)
           /\ Shut /\ SysLeft
<1>1. core.pc = At("syscall_entry", n) /\ Shut /\ SysLeft
  BY DEF SysAt
<1>2. CoreShape /\ MemShape /\ SysShape
  BY DEF EInv, Shape
<1>3. g_current \in Threads /\ g_cpu_local.kernel_rsp = Sp("kernel", g_current)
  BY <1>1 DEF EInv, ThreadsUp, Shut
<1>4. core.rsp.depth \in Nat
  BY <1>2 DEF CoreShape, IsPtr
<1>5. core.pc.routine \in DOMAIN Code /\ Instr = syscall_entry[n] /\ Following = At("syscall_entry", n + 1)
  BY <1>1, AtIs, CodeIs
<1> QED BY <1>1, <1>2, <1>3, <1>4, <1>5

(* What lasts from one of its instructions to the next. *)
LEMMA SysKeeps ==
    ASSUME Shut, SysLeft, core'.cs = core.cs, Still
    PROVE  Shut' /\ SysLeft'
<1>1. UNCHANGED <<step, iflag, running, sys, left, g_current>>
  BY StillIs
<1> QED BY <1>1 DEF Shut, SysLeft, Kernel, TablesUp, CallsUp

LEMMA SysLeftKept == SysLeft /\ UNCHANGED <<left, g_current>> => SysLeft'
BY DEF SysLeft
LEMMA ShutKept ==
    Shut /\ UNCHANGED <<step, iflag, running, sys>> /\ core'.cs = core.cs => Shut'
BY DEF Shut, Kernel, TablesUp, CallsUp

LEMMA AskedKept ==
    ASSUME SysAsked, core'.reg = core.reg, UNCHANGED <<left, g_current>> PROVE SysAsked'
BY DEF SysAsked, SysBack, Caller

(* swapgs, in and out. *)
LEMMA SwapgsStep ==
    ASSUME CoreShape, MovStep, Instr[1] = "swapgs"
    PROVE  /\ core' = Core(Following, core.reg, core.rsp, core.cs, core.ss, core.kernel_gs, core.gs)
           /\ UNCHANGED mem /\ Still
<1>1. Go([core EXCEPT !.gs = core.kernel_gs, !.kernel_gs = core.gs]) /\ UNCHANGED mem /\ Still
  BY DEF MovStep, Fetch, Still
<1> QED BY <1>1 DEF Go, Following, Core, CoreShape, At

LEMMA SysSwapgsStep == ASSUME EInv, SysAt(1), Execute PROVE EInv' /\ SysAt(2)'
<1>1. /\ core.pc.routine \in DOMAIN Code /\ Instr = syscall_entry[1] /\ Following = At("syscall_entry", 2)
      /\ CoreShape /\ MemShape /\ Shut /\ SysLeft
  BY SysFacts
<1>2. Instr[1] = "swapgs"
  <2>1. Instr = <<"swapgs">>
    BY <1>1, SyscallEntryIs
  <2> QED BY <2>1
<1>3. /\ core' = Core(Following, core.reg, core.rsp, core.cs, core.ss, core.kernel_gs, core.gs)
      /\ mem' = mem /\ Still
  BY <1>1, <1>2, Executes, SwapgsStep
<1>4. CoreShape' /\ core'.pc = Following /\ core'.reg = core.reg /\ core'.rsp = core.rsp /\ core'.cs = core.cs
      /\ core'.gs = core.kernel_gs /\ core'.kernel_gs = core.gs
  BY <1>1, <1>3, CoreStep DEF CoreShape
<1>5. UNCHANGED <<left, g_current>>
  BY <1>3, StillIs
<1>6. SysAt(2)'
  <2>1. GsUser /\ core.rsp = left[g_current].rsp /\ SysAsked
    BY DEF SysAt
  <2>3. SysAsked'
    BY <1>4, <1>5, <2>1, AskedKept
  <2>4. Shut' /\ SysLeft'
    BY <1>1, <1>3, <1>4, SysKeeps
  <2> QED BY <1>1, <1>4, <1>5, <2>1, <2>3, <2>4 DEF SysAt, GsUser
<1>7. MemShape' /\ OneStack
  BY <1>1, <1>3 DEF MemShape, OneStack
<1> QED BY <1>3, <1>4, <1>6, <1>7, Stays DEF Places, InSyscall

LEMMA SysSaveRspStep == ASSUME EInv, SysAt(2), Execute PROVE EInv' /\ SysAt(3)'
<1>1. /\ core.pc.routine \in DOMAIN Code /\ Instr = syscall_entry[2] /\ Following = At("syscall_entry", 3)
      /\ CoreShape /\ MemShape /\ SysShape /\ Shut /\ SysLeft
  BY SysFacts
<1>2. Instr[1] = "save user rsp"
  <2>1. Instr = <<"save user rsp">>
    BY <1>1, SyscallEntryIs
  <2> QED BY <2>1
<1>3. core.gs = "g_cpu_local" /\ core.kernel_gs = "0" /\ core.rsp = left[g_current].rsp /\ SysAsked
  BY DEF SysAt
<1>4. /\ g_cpu_local' = [g_cpu_local EXCEPT !.user_rsp = core.rsp] /\ Go(core) /\ mem' = mem
      /\ UNCHANGED <<vars, sys, rsp0, g_current, frame, left, origin>>
  <2>1. CpuLocalStep
    BY <1>1, <1>2, Executes
  <2> QED BY <1>2, <1>3, <2>1 DEF CpuLocalStep, Fetch
<1>5. core' = Plain(Following, core.rsp)
  BY <1>1, <1>4 DEF Go, Following, Plain, Core, CoreShape, At
<1>6. CoreShape' /\ core'.pc = Following /\ core'.reg = core.reg /\ core'.rsp = core.rsp /\ core'.cs = core.cs
      /\ core'.gs = core.gs /\ core'.kernel_gs = core.kernel_gs
  BY <1>1, <1>5, CoreStep DEF Plain, CoreShape
<1>7. UNCHANGED <<step, iflag, running, sys, rsp0, g_current, frame, left, origin>>
  BY <1>4 DEF vars, boot, cpu
<1>8. /\ SysShape' /\ g_cpu_local'.user_rsp = core.rsp
      /\ g_cpu_local'.kernel_rsp = g_cpu_local.kernel_rsp
  BY <1>1, <1>4 DEF SysShape
<1>9. SysAt(3)'
  <2>2. SysAsked'
    BY <1>3, <1>6, <1>7, AskedKept
  <2>3. Shut' /\ SysLeft'
    BY <1>1, <1>6, <1>7, ShutKept, SysLeftKept
  <2> QED BY <1>1, <1>3, <1>6, <1>7, <1>8, <2>2, <2>3 DEF SysAt
<1>10. MemShape' /\ LeftShape'
  BY <1>1, <1>4, <1>7, LeftKept DEF EInv, Shape, MemShape
<1>11. Order' /\ ThreadsUp'
  BY <1>4, <1>7, <1>8, OrderKept, ThreadsKept DEF EInv
<1> QED BY <1>4, <1>6, <1>8, <1>9, <1>10, <1>11 DEF EInv, Shape, Places, InSyscall

(* A load of the stack pointer from g_cpu_local. *)
LEMMA LoadRspEffect ==
    ASSUME CoreShape, CpuLocalStep, NEW x, Instr = <<"load rsp", x>>, core.gs = "g_cpu_local",
           NEW p, p = g_cpu_local[x], IsPtr(p)
    PROVE  /\ CoreShape' /\ core'.pc = Following /\ core'.reg = core.reg /\ core'.rsp = p
           /\ core'.cs = core.cs /\ core'.gs = core.gs /\ core'.kernel_gs = core.kernel_gs
           /\ mem' = mem /\ Still
<1>1. Instr[1] = "load rsp" /\ Instr[2] = x
  OBVIOUS
<1>2. /\ Go([core EXCEPT !.rsp = p]) /\ UNCHANGED <<mem, g_cpu_local>>
      /\ UNCHANGED <<vars, sys, rsp0, g_current, frame, left, origin>>
  BY <1>1 DEF CpuLocalStep, Fetch
<1>3. core' = Plain(Following, p)
  BY <1>2 DEF Go, Following, Plain, Core, CoreShape, At
<1>4. IsRegs(core.reg) /\ \E r, n : Following = At(r, n)
  BY DEF Following, CoreShape
<1>5. CoreShape' /\ core'.pc = Following /\ core'.reg = core.reg /\ core'.rsp = p
      /\ core'.cs = core.cs /\ core'.gs = core.gs /\ core'.kernel_gs = core.kernel_gs
  <2>1. core' = Core(Following, core.reg, p, core.cs, core.ss, core.gs, core.kernel_gs)
    BY <1>3 DEF Plain
  <2>2. /\ core'.pc = Following /\ core'.reg = core.reg /\ core'.rsp = p
        /\ core'.cs = core.cs /\ core'.gs = core.gs /\ core'.kernel_gs = core.kernel_gs
    BY <2>1 DEF Core
  <2>3. Following = At(Following.routine, Following.at)
    BY DEF Following, At
  <2>4. CoreShape'
    BY <1>4, <2>1, <2>3 DEF Core, CoreShape
  <2> QED BY <2>2, <2>4
<1> QED BY <1>2, <1>5 DEF Still, kept

LEMMA SysDepths ==
    /\ SysDepth(4) = 0 /\ SysDepth(5) = 8 /\ SysDepth(6) = 8 /\ SysDepth(7) = 9 /\ SysDepth(8) = 10
    /\ SysDepth(9) = 10 /\ SysDepth(10) = 8 /\ SysDepth(11) = 0
BY DEF SysDepth

LEMMA KernelStack ==
    ASSUME NEW t
    PROVE  /\ <<"kernel", t>> # <<"boot", 0>>
           /\ Sp("kernel", t).stack = <<"kernel", t>> /\ Sp("kernel", t).depth = 0
BY DEF Sp

LEMMA SysLoadKernelStep == ASSUME EInv, SysAt(3), Execute PROVE EInv' /\ SysAt(4)'
<1>1. /\ core.pc.routine \in DOMAIN Code /\ Instr = syscall_entry[3] /\ Following = At("syscall_entry", 4)
      /\ CoreShape /\ MemShape /\ Shut /\ SysLeft /\ g_current \in Threads
      /\ g_cpu_local.kernel_rsp = Sp("kernel", g_current)
  BY SysFacts
<1>2. Instr = <<"load rsp", "kernel_rsp">>
  BY <1>1, SyscallEntryIs
<1>3. core.gs = "g_cpu_local" /\ core.kernel_gs = "0" /\ SysAsked
      /\ g_cpu_local.user_rsp = left[g_current].rsp
  BY DEF SysAt
<1>4. CpuLocalStep
  <2>1. Instr[1] = "load rsp"
    BY <1>2
  <2> QED BY <1>1, <2>1, Executes
<1>5. PICK p : p = Sp("kernel", g_current)
  OBVIOUS
<1>6. IsPtr(p) /\ p = g_cpu_local["kernel_rsp"] /\ p.stack = <<"kernel", g_current>> /\ p.depth = 0
  BY <1>1, <1>5, SpIsPtr, KernelStack
<1>7. /\ CoreShape' /\ core'.pc = Following /\ core'.reg = core.reg /\ core'.rsp = p
      /\ core'.cs = core.cs /\ core'.gs = core.gs /\ core'.kernel_gs = core.kernel_gs
      /\ mem' = mem /\ Still
  BY <1>1, <1>2, <1>3, <1>4, <1>6, LoadRspEffect
<1>8. UNCHANGED <<left, g_current, g_cpu_local>>
  BY <1>7, StillIs
<1>9. Within(0)'
  <2>1. p.stack \in Stacks
    BY <1>6 DEF IsPtr
  <2>2. Len(mem[p.stack]) \in Nat
    BY <1>1, <2>1, SeqOfSome, LenProperties DEF MemShape
  <2> QED BY <1>6, <1>7, <2>2, KernelStack DEF Within
<1>10. SysAt(4)'
  <2>2. SysAsked'
    BY <1>3, <1>7, <1>8, AskedKept
  <2>3. Shut' /\ SysLeft'
    BY <1>1, <1>7, SysKeeps
  <2> QED BY <1>1, <1>3, <1>6, <1>7, <1>8, <1>9, <2>2, <2>3, SysDepths DEF SysAt
<1>11. MemShape' /\ OneStack
  BY <1>1, <1>7 DEF MemShape, OneStack
<1> QED BY <1>7, <1>10, <1>11, Stays DEF Places, InSyscall

(* The eight registers that it saves, and those it brings back. *)
PushedRegs == <<"r11", "rcx", "rbx", "rbp", "r12", "r13", "r14", "r15">>
PoppedRegs == <<"r15", "r14", "r13", "r12", "rbp", "rbx", "rcx", "r11">>

LEMMA PushedWords ==
    LET ws == [i \in DOMAIN PushedRegs |-> core.reg[PushedRegs[i]]] IN
    /\ IsSeq(ws) /\ Len(ws) = 8
    /\ ws[1] = core.reg["r11"] /\ ws[2] = core.reg["rcx"] /\ ws[3] = core.reg["rbx"] /\ ws[4] = core.reg["rbp"]
    /\ ws[5] = core.reg["r12"] /\ ws[6] = core.reg["r13"] /\ ws[7] = core.reg["r14"] /\ ws[8] = core.reg["r15"]
<1> DEFINE ws == [i \in DOMAIN PushedRegs |-> core.reg[PushedRegs[i]]]
           R == {core.reg[PushedRegs[i]] : i \in 1 .. 8}
<1>1. DOMAIN PushedRegs = 1 .. 8
  BY DEF PushedRegs
<1>2. ws \in [1 .. 8 -> R]
  BY <1>1
<1>3. ws \in Seq(R) /\ Len(ws) = 8
  <2> HIDE DEF R, ws
  <2>1. ws \in Seq(R)
    BY <1>2, SeqDef
  <2> QED BY <1>2, <2>1, LenProperties
<1>4. \A i \in 1 .. 8 : ws[i] = core.reg[PushedRegs[i]]
  BY <1>1
<1>5. IsSeq(ws)
  BY <1>3, SeqOf
<1>6. /\ PushedRegs[1] = "r11" /\ PushedRegs[2] = "rcx" /\ PushedRegs[3] = "rbx" /\ PushedRegs[4] = "rbp"
      /\ PushedRegs[5] = "r12" /\ PushedRegs[6] = "r13" /\ PushedRegs[7] = "r14" /\ PushedRegs[8] = "r15"
  BY DEF PushedRegs
<1> HIDE DEF ws
<1>7. /\ ws[1] = core.reg["r11"] /\ ws[2] = core.reg["rcx"] /\ ws[3] = core.reg["rbx"] /\ ws[4] = core.reg["rbp"]
      /\ ws[5] = core.reg["r12"] /\ ws[6] = core.reg["r13"] /\ ws[7] = core.reg["r14"] /\ ws[8] = core.reg["r15"]
  BY <1>4, <1>6
<1> QED BY <1>3, <1>5, <1>7 DEF ws

(* A stack step of it. *)
LEMMA SysOnStack ==
    ASSUME CoreShape, MemShape, Within(0), NEW t, core.rsp.stack = <<"kernel", t>>, NEW k \in 1 .. 8, NEW ws, OnStack(k, ws)
    PROVE  /\ core'.rsp.stack = <<"kernel", t>> /\ Within(0)' /\ core'.rsp.depth = core.rsp.depth + k
           /\ CoreShape' /\ MemShape' /\ OneStack
<1>1. k \in Nat /\ k >= 1
  OBVIOUS
<1>2. /\ CoreShape' /\ MemShape' /\ core'.rsp.stack = core.rsp.stack /\ core'.rsp.depth = core.rsp.depth + k
      /\ core'.rsp.depth = Len(mem'[core'.rsp.stack])
  BY DEF OnStack
<1>3. core'.rsp.depth \in Nat
  BY <1>2 DEF CoreShape, IsPtr
<1>4. Within(0)'
  BY <1>2, <1>3, KernelStack DEF Within
<1> QED BY <1>1, <1>2, <1>4, OnStackIsOne

LEMMA SysPushStep == ASSUME EInv, SysAt(4), Execute PROVE EInv' /\ SysAt(5)'
<1>1. /\ core.pc.routine \in DOMAIN Code /\ Instr = syscall_entry[4] /\ Following = At("syscall_entry", 5)
      /\ CoreShape /\ MemShape /\ Shut /\ SysLeft
  BY SysFacts
<1>2. Instr = <<"push", PushedRegs>>
  BY <1>1, SyscallEntryIs DEF PushedRegs
<1>3. PushStep /\ Instr[1] = "push"
  <2>1. Instr[1] = "push"
    BY <1>2
  <2> QED BY <1>1, <2>1, Executes
<1>4. /\ core.gs = "g_cpu_local" /\ core.kernel_gs = "0" /\ SysAsked
      /\ core.rsp.stack = <<"kernel", g_current>> /\ Within(0) /\ core.rsp.depth = 0
      /\ g_cpu_local.user_rsp = left[g_current].rsp
  BY SysDepths DEF SysAt
<1> DEFINE ws == [i \in DOMAIN PushedRegs |-> core.reg[PushedRegs[i]]]
<1>5. /\ IsSeq(ws) /\ Len(ws) = 8
      /\ ws[1] = core.reg["r11"] /\ ws[2] = core.reg["rcx"] /\ ws[3] = core.reg["rbx"] /\ ws[4] = core.reg["rbp"]
      /\ ws[5] = core.reg["r12"] /\ ws[6] = core.reg["r13"] /\ ws[7] = core.reg["r14"] /\ ws[8] = core.reg["r15"]
  BY PushedWords
<1>6. ws = [i \in DOMAIN Instr[2] |-> core.reg[Instr[2][i]]]
  BY <1>2
<1> HIDE DEF ws
<1>7. core' = Plain(Following, Deeper(core.rsp, 8)) /\ OnStack(8, ws) /\ Still
  <2>1. 8 \in Nat
    OBVIOUS
  <2> QED BY <1>1, <1>3, <1>4, <1>5, <1>6, <2>1, PushEffect, Zenon
<1>8. /\ core'.pc = Following /\ core'.reg = core.reg /\ core'.cs = core.cs
      /\ core'.gs = core.gs /\ core'.kernel_gs = core.kernel_gs
  BY <1>7 DEF Plain, Core
<1>9. /\ core'.rsp.stack = <<"kernel", g_current>> /\ Within(0)' /\ core'.rsp.depth = core.rsp.depth + 8
      /\ CoreShape' /\ MemShape' /\ OneStack
  <2>1. 8 \in 1 .. 8
    OBVIOUS
  <2> QED BY <1>1, <1>4, <1>7, <2>1, SysOnStack, Zenon
<1>10. /\ Pop(0)' = ws[8] /\ Pop(1)' = ws[7] /\ Pop(2)' = ws[6] /\ Pop(3)' = ws[5]
       /\ Pop(4)' = ws[4] /\ Pop(5)' = ws[3] /\ Pop(6)' = ws[2] /\ Pop(7)' = ws[1]
  <2>1. \A i \in 0 .. 8 - 1 : Pop(i)' = ws[8 - i]
    BY <1>7 DEF OnStack
  <2> QED BY <2>1
<1>11. UNCHANGED <<left, g_current, g_cpu_local>>
  BY <1>7, StillIs
<1>12. SysAt(5)'
  <2>2. SysAsked'
    BY <1>4, <1>8, <1>11, AskedKept
  <2>3. Shut' /\ SysLeft'
    BY <1>1, <1>7, <1>8, SysKeeps
  <2>4. SysSaved(0)'
    <3>1. /\ core.reg["r15"] = Caller["r15"] /\ core.reg["r14"] = Caller["r14"] /\ core.reg["r13"] = Caller["r13"]
          /\ core.reg["r12"] = Caller["r12"] /\ core.reg["rbp"] = Caller["rbp"] /\ core.reg["rbx"] = Caller["rbx"]
          /\ core.reg["rcx"] = Rip(At("user", g_current)) /\ core.reg["r11"] = Flags(TRUE)
      BY <1>4, GprsAre DEF SysAsked, SysBack
    <3>2. /\ 0 + 1 = 1 /\ 0 + 2 = 2 /\ 0 + 3 = 3 /\ 0 + 4 = 4 /\ 0 + 5 = 5 /\ 0 + 6 = 6 /\ 0 + 7 = 7
      OBVIOUS
    <3> QED BY <1>5, <1>10, <1>11, <3>1, <3>2, Zenon DEF SysSaved, Caller
  <2>5. core'.rsp.depth = 8
    BY <1>4, <1>9
  <2> QED BY <1>1, <1>4, <1>8, <1>9, <1>11, <2>2, <2>3, <2>4, <2>5, SysDepths DEF SysAt
<1> QED BY <1>7, <1>9, <1>12, Stays DEF Places, InSyscall

(* The arguments are moved in an order in which none is lost. *)
LEMMA ArgumentsAre ==
    /\ Len(Arguments) = 7
    /\ Arguments[1] = <<"r12", "r9">> /\ Arguments[2] = <<"r9", "r8">> /\ Arguments[3] = <<"r8", "r10">>
    /\ Arguments[4] = <<"rcx", "rdx">> /\ Arguments[5] = <<"rdx", "rsi">> /\ Arguments[6] = <<"rsi", "rdi">>
    /\ Arguments[7] = <<"rdi", "rax">>
BY DEF Arguments

Move(a, i) == [a EXCEPT ![Arguments[i][1]] = a[Arguments[i][2]]]

LEMMA MoveIs ==
    \A a, b, i, r : \A d \in Gprs :
        IsRegs(a) /\ Arguments[i] = <<d, r>> /\ b = Move(a, i)
            => IsRegs(b) /\ b[d] = a[r] /\ \A x \in Gprs \ {d} : b[x] = a[x]
<1> SUFFICES ASSUME NEW a, NEW b, NEW i, NEW r, NEW d \in Gprs,
                    IsRegs(a), Arguments[i] = <<d, r>>, b = Move(a, i)
             PROVE  IsRegs(b) /\ b[d] = a[r] /\ \A x \in Gprs \ {d} : b[x] = a[x]
  OBVIOUS
<1> QED BY DEF Move, IsRegs

MovesFrom(g) == g = [i \in 0 .. Len(Arguments) |-> IF i = 0 THEN core.reg ELSE Move(g[i - 1], i)]

(* The moves one after the other, and that Moved is their end. *)
LEMMA MovesExist == \E g : MovesFrom(g)
<1> DEFINE a0 == core.reg
           a1 == Move(a0, 1)
           a2 == Move(a1, 2)
           a3 == Move(a2, 3)
           a4 == Move(a3, 4)
           a5 == Move(a4, 5)
           a6 == Move(a5, 6)
           a7 == Move(a6, 7)
           h  == [i \in 0 .. 7 |-> CASE i = 0 -> a0 [] i = 1 -> a1 [] i = 2 -> a2 [] i = 3 -> a3
                                     [] i = 4 -> a4 [] i = 5 -> a5 [] i = 6 -> a6 [] i = 7 -> a7]
<1>1. /\ h = [i \in 0 .. 7 |-> h[i]]
      /\ h[0] = a0 /\ h[1] = a1 /\ h[2] = a2 /\ h[3] = a3 /\ h[4] = a4 /\ h[5] = a5 /\ h[6] = a6 /\ h[7] = a7
  <2> HIDE DEF a0, a1, a2, a3, a4, a5, a6, a7
  <2> QED OBVIOUS
<1> HIDE DEF h
<1>2. ASSUME NEW i \in 0 .. 7 PROVE h[i] = IF i = 0 THEN core.reg ELSE Move(h[i - 1], i)
  <2>1. i = 0 \/ i = 1 \/ i = 2 \/ i = 3 \/ i = 4 \/ i = 5 \/ i = 6 \/ i = 7
    OBVIOUS
  <2>2. 1 - 1 = 0 /\ 2 - 1 = 1 /\ 3 - 1 = 2 /\ 4 - 1 = 3 /\ 5 - 1 = 4 /\ 6 - 1 = 5 /\ 7 - 1 = 6
    OBVIOUS
  <2>3. 1 # 0 /\ 2 # 0 /\ 3 # 0 /\ 4 # 0 /\ 5 # 0 /\ 6 # 0 /\ 7 # 0
    OBVIOUS
  <2> QED BY <1>1, <2>1, <2>2, <2>3, Zenon
<1>3. MovesFrom(h)
  BY <1>1, <1>2, ArgumentsAre, Zenon DEF MovesFrom
<1> QED BY <1>3

LEMMA MovedIs == \E g : MovesFrom(g) /\ Moved(Arguments) = g[Len(Arguments)]
<1> DEFINE a == CHOOSE g : MovesFrom(g)
<1>1. MovesFrom(a)
  BY MovesExist, Zenon
<1>2. a = CHOOSE g : g = [i \in 0 .. Len(Arguments) |->
                            IF i = 0 THEN core.reg
                            ELSE [g[i - 1] EXCEPT ![Arguments[i][1]] = g[i - 1][Arguments[i][2]]]]
  BY DEF MovesFrom, Move
<1>3. Moved(Arguments) = a[Len(Arguments)]
  BY <1>2, Zenon DEF Moved
<1> QED BY <1>1, <1>3

(* Each argument is where the C function looks for it. *)
LEMMA ArgumentsMoved ==
    ASSUME IsRegs(core.reg)
    PROVE  LET m == Moved(Arguments) IN
           /\ IsRegs(m)
           /\ m["rdi"] = core.reg["rax"] /\ m["rsi"] = core.reg["rdi"] /\ m["rdx"] = core.reg["rsi"]
           /\ m["rcx"] = core.reg["rdx"] /\ m["r8"] = core.reg["r10"] /\ m["r9"] = core.reg["r8"]
           /\ m["r12"] = core.reg["r9"]
<1>1. PICK g : MovesFrom(g) /\ Moved(Arguments) = g[7]
  BY MovedIs, ArgumentsAre
<1>2. \A i \in 0 .. 7 : g[i] = IF i = 0 THEN core.reg ELSE Move(g[i - 1], i)
  BY <1>1, ArgumentsAre DEF MovesFrom
<1>3. /\ g[0] = core.reg /\ g[1] = Move(g[0], 1) /\ g[2] = Move(g[1], 2) /\ g[3] = Move(g[2], 3)
      /\ g[4] = Move(g[3], 4) /\ g[5] = Move(g[4], 5) /\ g[6] = Move(g[5], 6) /\ g[7] = Move(g[6], 7)
  BY <1>2
<1>4. {"r12", "r9", "r8", "rcx", "rdx", "rsi", "rdi", "rax", "r10"} \subseteq Gprs
  BY GprsAre
<1>5. IsRegs(g[1]) /\ g[1]["r12"] = g[0]["r9"] /\ \A x \in Gprs \ {"r12"} : g[1][x] = g[0][x]
  <2>1. IsRegs(g[0]) /\ "r12" \in Gprs /\ Arguments[1] = <<"r12", "r9">> /\ g[1] = Move(g[0], 1)
    BY <1>3, <1>4, ArgumentsAre, Zenon
  <2> QED BY <2>1, MoveIs
<1>6. IsRegs(g[2]) /\ g[2]["r9"] = g[1]["r8"] /\ \A x \in Gprs \ {"r9"} : g[2][x] = g[1][x]
  <2>1. IsRegs(g[1]) /\ "r9" \in Gprs /\ Arguments[2] = <<"r9", "r8">> /\ g[2] = Move(g[1], 2)
    BY <1>3, <1>4, <1>5, ArgumentsAre, Zenon
  <2> QED BY <2>1, MoveIs
<1>7. IsRegs(g[3]) /\ g[3]["r8"] = g[2]["r10"] /\ \A x \in Gprs \ {"r8"} : g[3][x] = g[2][x]
  <2>1. IsRegs(g[2]) /\ "r8" \in Gprs /\ Arguments[3] = <<"r8", "r10">> /\ g[3] = Move(g[2], 3)
    BY <1>3, <1>4, <1>6, ArgumentsAre, Zenon
  <2> QED BY <2>1, MoveIs
<1>8. IsRegs(g[4]) /\ g[4]["rcx"] = g[3]["rdx"] /\ \A x \in Gprs \ {"rcx"} : g[4][x] = g[3][x]
  <2>1. IsRegs(g[3]) /\ "rcx" \in Gprs /\ Arguments[4] = <<"rcx", "rdx">> /\ g[4] = Move(g[3], 4)
    BY <1>3, <1>4, <1>7, ArgumentsAre, Zenon
  <2> QED BY <2>1, MoveIs
<1>9. IsRegs(g[5]) /\ g[5]["rdx"] = g[4]["rsi"] /\ \A x \in Gprs \ {"rdx"} : g[5][x] = g[4][x]
  <2>1. IsRegs(g[4]) /\ "rdx" \in Gprs /\ Arguments[5] = <<"rdx", "rsi">> /\ g[5] = Move(g[4], 5)
    BY <1>3, <1>4, <1>8, ArgumentsAre, Zenon
  <2> QED BY <2>1, MoveIs
<1>10. IsRegs(g[6]) /\ g[6]["rsi"] = g[5]["rdi"] /\ \A x \in Gprs \ {"rsi"} : g[6][x] = g[5][x]
  <2>1. IsRegs(g[5]) /\ "rsi" \in Gprs /\ Arguments[6] = <<"rsi", "rdi">> /\ g[6] = Move(g[5], 6)
    BY <1>3, <1>4, <1>9, ArgumentsAre, Zenon
  <2> QED BY <2>1, MoveIs
<1>11. IsRegs(g[7]) /\ g[7]["rdi"] = g[6]["rax"] /\ \A x \in Gprs \ {"rdi"} : g[7][x] = g[6][x]
  <2>1. IsRegs(g[6]) /\ "rdi" \in Gprs /\ Arguments[7] = <<"rdi", "rax">> /\ g[7] = Move(g[6], 7)
    BY <1>3, <1>4, <1>10, ArgumentsAre, Zenon
  <2> QED BY <2>1, MoveIs
<1>12. g[7]["r12"] = core.reg["r9"]
  BY <1>3, <1>4, <1>5, <1>6, <1>7, <1>8, <1>9, <1>10, <1>11
<1>13. g[7]["r9"] = core.reg["r8"]
  BY <1>3, <1>4, <1>5, <1>6, <1>7, <1>8, <1>9, <1>10, <1>11
<1>14. g[7]["r8"] = core.reg["r10"]
  BY <1>3, <1>4, <1>5, <1>6, <1>7, <1>8, <1>9, <1>10, <1>11
<1>15. g[7]["rcx"] = core.reg["rdx"]
  BY <1>3, <1>4, <1>5, <1>6, <1>7, <1>8, <1>9, <1>10, <1>11
<1>16. g[7]["rdx"] = core.reg["rsi"]
  BY <1>3, <1>4, <1>5, <1>6, <1>7, <1>8, <1>9, <1>10, <1>11
<1>17. g[7]["rsi"] = core.reg["rdi"]
  BY <1>3, <1>4, <1>5, <1>6, <1>7, <1>8, <1>9, <1>10, <1>11
<1>18. g[7]["rdi"] = core.reg["rax"]
  BY <1>3, <1>4, <1>5, <1>6, <1>7, <1>8, <1>9, <1>10, <1>11
<1> QED BY <1>1, <1>11, <1>12, <1>13, <1>14, <1>15, <1>16, <1>17, <1>18

LEMMA SysMovStep == ASSUME EInv, SysAt(5), Execute PROVE EInv' /\ SysAt(6)'
<1>1. /\ core.pc.routine \in DOMAIN Code /\ Instr = syscall_entry[5] /\ Following = At("syscall_entry", 6)
      /\ CoreShape /\ MemShape /\ Shut /\ SysLeft
  BY SysFacts
<1>2. Instr[1] = "mov" /\ Instr[2] = Arguments
  <2>1. Instr = <<"mov", Arguments>>
    BY <1>1, SyscallEntryIs
  <2> QED BY <2>1
<1>3. /\ core.gs = "g_cpu_local" /\ core.kernel_gs = "0" /\ SysAsked /\ SysSaved(0)
      /\ core.rsp.stack = <<"kernel", g_current>> /\ Within(0) /\ core.rsp.depth = 8
      /\ g_cpu_local.user_rsp = left[g_current].rsp
  BY SysDepths DEF SysAt
<1>4. PICK m : m = Moved(Arguments)
  OBVIOUS
<1>5. Go([core EXCEPT !.reg = m]) /\ mem' = mem /\ Still
  <2>1. MovStep
    BY <1>1, <1>2, Executes
  <2> QED BY <1>2, <1>4, <2>1 DEF MovStep, Fetch, Still
<1>6. /\ IsRegs(m)
      /\ m["rdi"] = core.reg["rax"] /\ m["rsi"] = core.reg["rdi"] /\ m["rdx"] = core.reg["rsi"]
      /\ m["rcx"] = core.reg["rdx"] /\ m["r8"] = core.reg["r10"] /\ m["r9"] = core.reg["r8"]
      /\ m["r12"] = core.reg["r9"]
  BY <1>1, <1>4, ArgumentsMoved DEF CoreShape
<1>7. core' = Core(Following, m, core.rsp, core.cs, core.ss, core.gs, core.kernel_gs)
  BY <1>1, <1>5 DEF Go, Following, Core, CoreShape, At
<1>8. CoreShape' /\ core'.pc = Following /\ core'.reg = m /\ core'.rsp = core.rsp /\ core'.cs = core.cs
      /\ core'.gs = core.gs /\ core'.kernel_gs = core.kernel_gs
  BY <1>1, <1>6, <1>7, CoreStep
<1>9. UNCHANGED <<left, g_current, g_cpu_local>>
  BY <1>5, StillIs
<1>10. Within(0)'
  BY <1>3, <1>5, <1>8 DEF Within
<1>11. SysAt(6)'
  <2>1. Shut' /\ SysLeft'
    BY <1>1, <1>5, <1>8, SysKeeps
  <2>2. SysArgs'
    <3>1. /\ core.reg["rax"] = Caller["rax"] /\ core.reg["rdi"] = Caller["rdi"] /\ core.reg["rsi"] = Caller["rsi"]
          /\ core.reg["rdx"] = Caller["rdx"] /\ core.reg["r10"] = Caller["r10"] /\ core.reg["r8"] = Caller["r8"]
          /\ core.reg["r9"] = Caller["r9"]
      BY <1>3, GprsAre DEF SysAsked
    <3> QED BY <1>6, <1>8, <1>9, <3>1 DEF SysArgs, Caller
  <2>3. SysSaved(0)'
    BY <1>3, <1>5, <1>8, <1>9 DEF SysSaved, Pop, Caller
  <2> QED BY <1>1, <1>3, <1>8, <1>9, <1>10, <2>1, <2>2, <2>3, SysDepths DEF SysAt
<1>12. MemShape' /\ OneStack
  BY <1>1, <1>5 DEF MemShape, OneStack
<1> QED BY <1>5, <1>8, <1>11, <1>12, Stays DEF Places, InSyscall

LEMMA ArgsKept ==
    ASSUME SysArgs, core'.reg = core.reg, UNCHANGED <<left, g_current>> PROVE SysArgs'
BY DEF SysArgs, Caller

LEMMA SysSubStep == ASSUME EInv, SysAt(6), Execute PROVE EInv' /\ SysAt(7)'
<1>1. /\ core.pc.routine \in DOMAIN Code /\ Instr = syscall_entry[6] /\ Following = At("syscall_entry", 7)
      /\ CoreShape /\ MemShape /\ Shut /\ SysLeft
  BY SysFacts
<1>2. Instr = <<"sub", 1>>
  BY <1>1, SyscallEntryIs
<1>3. RspStep
  <2>1. Instr[1] = "sub"
    BY <1>2
  <2> QED BY <1>1, <2>1, Executes
<1>4. /\ core.gs = "g_cpu_local" /\ core.kernel_gs = "0" /\ SysArgs /\ SysSaved(0)
      /\ core.rsp.stack = <<"kernel", g_current>> /\ Within(0) /\ core.rsp.depth = 8
      /\ g_cpu_local.user_rsp = left[g_current].rsp
  BY SysDepths DEF SysAt
<1>5. core' = Plain(Following, Deeper(core.rsp, 1)) /\ OnStack(1, <<Junk>>) /\ Still
  BY <1>1, <1>2, <1>3, <1>4, SubEffect
<1>6. /\ core'.pc = Following /\ core'.reg = core.reg /\ core'.cs = core.cs
      /\ core'.gs = core.gs /\ core'.kernel_gs = core.kernel_gs
  BY <1>5 DEF Plain, Core
<1>7. /\ core'.rsp.stack = <<"kernel", g_current>> /\ Within(0)' /\ core'.rsp.depth = core.rsp.depth + 1
      /\ CoreShape' /\ MemShape' /\ OneStack
  <2>1. 1 \in 1 .. 8
    OBVIOUS
  <2> QED BY <1>1, <1>4, <1>5, <2>1, SysOnStack, Zenon
<1>8. /\ Pop(1)' = Pop(0) /\ Pop(2)' = Pop(1) /\ Pop(3)' = Pop(2) /\ Pop(4)' = Pop(3)
      /\ Pop(5)' = Pop(4) /\ Pop(6)' = Pop(5) /\ Pop(7)' = Pop(6) /\ Pop(8)' = Pop(7)
  <2>1. \A i \in Nat : i < core.rsp.depth => Pop(1 + i)' = Pop(i)
    BY <1>5 DEF OnStack
  <2> QED BY <1>4, <2>1
<1>9. UNCHANGED <<left, g_current, g_cpu_local>>
  BY <1>5, StillIs
<1>10. SysAt(7)'
  <2>1. Shut' /\ SysLeft'
    BY <1>1, <1>5, <1>6, SysKeeps
  <2>2. SysArgs'
    BY <1>4, <1>6, <1>9, ArgsKept
  <2>3. SysSaved(1)'
    <3>1. /\ 0 + 1 = 1 /\ 0 + 2 = 2 /\ 0 + 3 = 3 /\ 0 + 4 = 4 /\ 0 + 5 = 5 /\ 0 + 6 = 6 /\ 0 + 7 = 7
          /\ 1 + 1 = 2 /\ 1 + 2 = 3 /\ 1 + 3 = 4 /\ 1 + 4 = 5 /\ 1 + 5 = 6 /\ 1 + 6 = 7 /\ 1 + 7 = 8
      OBVIOUS
    <3> QED BY <1>4, <1>8, <1>9, <3>1, Zenon DEF SysSaved, Caller
  <2>4. core'.rsp.depth = 9
    BY <1>4, <1>7
  <2> QED BY <1>1, <1>4, <1>6, <1>7, <1>9, <2>1, <2>2, <2>3, <2>4, SysDepths DEF SysAt
<1> QED BY <1>5, <1>7, <1>10, Stays DEF Places, InSyscall

LEMMA SysPushLastStep == ASSUME EInv, SysAt(7), Execute PROVE EInv' /\ SysAt(8)'
<1>1. /\ core.pc.routine \in DOMAIN Code /\ Instr = syscall_entry[7] /\ Following = At("syscall_entry", 8)
      /\ CoreShape /\ MemShape /\ Shut /\ SysLeft
  BY SysFacts
<1>2. Instr = <<"push", <<"r12">> >>
  BY <1>1, SyscallEntryIs
<1>3. PushStep /\ Instr[1] = "push" /\ Instr[2] = <<"r12">>
  <2>1. Instr[1] = "push" /\ Instr[2] = <<"r12">>
    BY <1>2
  <2> QED BY <1>1, <2>1, Executes
<1>4. /\ core.gs = "g_cpu_local" /\ core.kernel_gs = "0" /\ SysArgs /\ SysSaved(1)
      /\ core.rsp.stack = <<"kernel", g_current>> /\ Within(0) /\ core.rsp.depth = 9
      /\ g_cpu_local.user_rsp = left[g_current].rsp
  BY SysDepths DEF SysAt
<1>5. PICK x : x = core.reg["r12"]
  OBVIOUS
<1>6. IsSeq(<<x>>) /\ Len(<<x>>) = 1 /\ <<x>> = [i \in DOMAIN Instr[2] |-> core.reg[Instr[2][i]]]
  BY <1>3, <1>5, FewWords, OneReg
<1>7. core' = Plain(Following, Deeper(core.rsp, 1)) /\ OnStack(1, <<x>>) /\ Still
  <2>1. 1 \in Nat
    OBVIOUS
  <2> QED BY <1>1, <1>3, <1>4, <1>6, <2>1, PushEffect, Zenon
<1>8. /\ core'.pc = Following /\ core'.reg = core.reg /\ core'.cs = core.cs
      /\ core'.gs = core.gs /\ core'.kernel_gs = core.kernel_gs
  BY <1>7 DEF Plain, Core
<1>9. /\ core'.rsp.stack = <<"kernel", g_current>> /\ Within(0)' /\ core'.rsp.depth = core.rsp.depth + 1
      /\ CoreShape' /\ MemShape' /\ OneStack
  <2>1. 1 \in 1 .. 8
    OBVIOUS
  <2> QED BY <1>1, <1>4, <1>7, <2>1, SysOnStack, Zenon
<1>10. /\ Pop(0)' = x
       /\ Pop(2)' = Pop(1) /\ Pop(3)' = Pop(2) /\ Pop(4)' = Pop(3) /\ Pop(5)' = Pop(4)
       /\ Pop(6)' = Pop(5) /\ Pop(7)' = Pop(6) /\ Pop(8)' = Pop(7) /\ Pop(9)' = Pop(8)
  <2>1. \A i \in Nat : i < core.rsp.depth => Pop(1 + i)' = Pop(i)
    BY <1>7 DEF OnStack
  <2>2. \A i \in 0 .. 1 - 1 : Pop(i)' = <<x>>[1 - i]
    BY <1>7 DEF OnStack
  <2> QED BY <1>4, <2>1, <2>2
<1>11. UNCHANGED <<left, g_current, g_cpu_local>>
  BY <1>7, StillIs
<1>12. SysAt(8)'
  <2>1. Shut' /\ SysLeft'
    BY <1>1, <1>7, <1>8, SysKeeps
  <2>2. SysArgs'
    BY <1>4, <1>8, <1>11, ArgsKept
  <2>3. SysSaved(2)'
    <3>1. /\ 2 + 1 = 3 /\ 2 + 2 = 4 /\ 2 + 3 = 5 /\ 2 + 4 = 6 /\ 2 + 5 = 7 /\ 2 + 6 = 8 /\ 2 + 7 = 9
          /\ 1 + 1 = 2 /\ 1 + 2 = 3 /\ 1 + 3 = 4 /\ 1 + 4 = 5 /\ 1 + 5 = 6 /\ 1 + 6 = 7 /\ 1 + 7 = 8
      OBVIOUS
    <3> QED BY <1>4, <1>10, <1>11, <3>1, Zenon DEF SysSaved, Caller
  <2>4. core'.rsp.depth = 10
    BY <1>4, <1>9
  <2>5. Pop(0)' = Caller["r9"]'
    BY <1>4, <1>5, <1>10, <1>11 DEF SysArgs, Caller
  <2> QED BY <1>1, <1>4, <1>8, <1>9, <1>11, <2>1, <2>2, <2>3, <2>4, <2>5, SysDepths DEF SysAt
<1> QED BY <1>7, <1>9, <1>12, Stays DEF Places, InSyscall

(* What C leaves. *)
LEMMA AfterCIs ==
    ASSUME IsRegs(core.reg), NEW result, NEW reg, reg = AfterC(result)
    PROVE  /\ IsRegs(reg) /\ reg["rax"] = result
           /\ \A r \in Preserved : reg[r] = core.reg[r]
<1>1. Preserved \subseteq Gprs /\ "rax" \in Gprs /\ "rax" \notin Preserved
  BY GprsAre DEF Preserved
<1> QED BY <1>1 DEF AfterC, IsRegs

(* Which C function a call is of. *)
LEMMA CallIs ==
    ASSUME Execute, core.pc.routine \in DOMAIN Code, NEW h, Instr = <<"call", h>>
    PROVE  /\ h = "isr_common_handler" => CallIsr
           /\ h = "irq_common_handler" => CallIrq
           /\ h = "syscall_dispatch" => CallDispatch
<1>1. Instr[1] = "call" /\ Instr[2] = h
  OBVIOUS
<1>2. CallIsr \/ CallIrq \/ CallDispatch
  BY <1>1, Executes
<1> QED BY <1>1, <1>2 DEF CallIsr, CallIrq, CallDispatch, Calls

LEMMA SysCallStep == ASSUME EInv, SysAt(8), Execute PROVE EInv' /\ ~User'
<1>1. /\ core.pc.routine \in DOMAIN Code /\ Instr = syscall_entry[8] /\ Following = At("syscall_entry", 9)
      /\ CoreShape /\ MemShape /\ Shut /\ SysLeft
  BY SysFacts
<1>2. Instr = <<"call", "syscall_dispatch">>
  BY <1>1, SyscallEntryIs
<1>3. CallDispatch
  BY <1>1, <1>2, CallIs
<1>4. /\ core.gs = "g_cpu_local" /\ core.kernel_gs = "0" /\ SysArgs /\ SysSaved(2)
      /\ core.rsp.stack = <<"kernel", g_current>> /\ Within(0) /\ core.rsp.depth = 10
      /\ g_cpu_local.user_rsp = left[g_current].rsp
  BY SysDepths DEF SysAt
<1>5. mem' = mem /\ Still
  BY <1>3 DEF CallDispatch, Still
<1>6. MemShape' /\ OneStack
  BY <1>1, <1>5 DEF MemShape, OneStack
<1>7. UNCHANGED <<step, iflag, running, left, g_current, g_cpu_local, sys>>
  BY <1>5, StillIs
<1>8. CASE core.reg["rdi"] = Imm(1)
  <2>1. core' = [core EXCEPT !.pc = At("halted", 0)]
    BY <1>3, <1>8 DEF CallDispatch
  <2>2. core' = Core(At("halted", 0), core.reg, core.rsp, core.cs, core.ss, core.gs, core.kernel_gs)
    BY <1>1, <2>1 DEF CoreShape, Core
  <2>3. core'.pc = At("halted", 0) /\ core'.cs = core.cs
    BY <2>2 DEF Core
  <2>4. CoreShape'
    <3>1. At("halted", 0) = At(At("halted", 0).routine, At("halted", 0).at)
      BY DEF At
    <3> QED BY <1>1, <2>2, <3>1 DEF Core, CoreShape
  <2>5. Stopped'
    BY <1>1, <1>7, <2>3 DEF Shut, Kernel, TablesUp, Stopped
  <2>6. ~User'
    BY <2>3, NotUser
  <2> QED BY <1>5, <1>6, <2>4, <2>5, <2>6, Stays DEF Places
<1>9. CASE core.reg["rdi"] # Imm(1)
  <2>1. PICK m : m = AfterC(IF core.reg["rdi"] = Imm(0) THEN core.reg["rdx"] ELSE Imm(-1))
    OBVIOUS
  <2>2. Go([core EXCEPT !.reg = m])
    BY <1>3, <1>9, <2>1 DEF CallDispatch
  <2>3. core' = Core(Following, m, core.rsp, core.cs, core.ss, core.gs, core.kernel_gs)
    BY <1>1, <2>2 DEF Go, Following, Core, CoreShape, At
  <2>4. /\ IsRegs(m) /\ m["rax"] = IF core.reg["rdi"] = Imm(0) THEN core.reg["rdx"] ELSE Imm(-1)
    <3>1. IsRegs(core.reg)
      BY <1>1 DEF CoreShape
    <3> QED BY <2>1, <3>1, AfterCIs
  <2>5. CoreShape' /\ core'.pc = Following /\ core'.reg = m /\ core'.rsp = core.rsp /\ core'.cs = core.cs
        /\ core'.gs = core.gs /\ core'.kernel_gs = core.kernel_gs
    BY <1>1, <2>3, <2>4, CoreStep
  <2>6. Within(0)'
    BY <1>4, <1>5, <2>5 DEF Within
  <2>7. SysResult'
    BY <1>4, <1>7, <2>4, <2>5 DEF SysArgs, SysResult, Caller
  <2>8. SysSaved(2)'
    BY <1>4, <1>5, <1>7, <2>5 DEF SysSaved, Pop, Caller
  <2>9. Shut' /\ SysLeft'
    BY <1>1, <1>5, <2>5, SysKeeps
  <2>10. SysAt(9)'
    BY <1>1, <1>4, <1>7, <2>5, <2>6, <2>7, <2>8, <2>9, SysDepths DEF SysAt
  <2>11. ~User'
    BY <1>1, <2>5, NotUser
  <2> QED BY <1>5, <1>6, <2>5, <2>10, <2>11, Stays DEF Places, InSyscall
<1> QED BY <1>8, <1>9

(* A step of it that pops. *)
LEMMA SysOffStack ==
    ASSUME CoreShape, MemShape, NEW t, core.rsp.stack = <<"kernel", t>>, NEW k \in 1 .. 8, Within(k), OffStack(k)
    PROVE  /\ core'.rsp.stack = <<"kernel", t>> /\ Within(0)' /\ core'.rsp.depth = core.rsp.depth - k
           /\ MemShape' /\ OneStack
<1>1. k \in Nat
  OBVIOUS
<1>2. /\ MemShape' /\ core'.rsp.stack = core.rsp.stack /\ core'.rsp.depth = core.rsp.depth - k
      /\ core'.rsp.depth = Len(mem'[core'.rsp.stack]) /\ core'.rsp.depth \in Nat
  BY DEF OffStack, IsPtr
<1>3. Within(0)'
  BY <1>2, KernelStack DEF Within
<1> QED BY <1>1, <1>2, <1>3, OffStackIsOne

LEMMA SysAddStep == ASSUME EInv, SysAt(9), Execute PROVE EInv' /\ SysAt(10)'
<1>1. /\ core.pc.routine \in DOMAIN Code /\ Instr = syscall_entry[9] /\ Following = At("syscall_entry", 10)
      /\ CoreShape /\ MemShape /\ Shut /\ SysLeft
  BY SysFacts
<1>2. Instr = <<"add", 2>>
  BY <1>1, SyscallEntryIs
<1>3. RspStep
  <2>1. Instr[1] = "add"
    BY <1>2
  <2> QED BY <1>1, <2>1, Executes
<1>4. /\ core.gs = "g_cpu_local" /\ core.kernel_gs = "0" /\ SysResult /\ SysSaved(2)
      /\ core.rsp.stack = <<"kernel", g_current>> /\ Within(0) /\ core.rsp.depth = 10
      /\ g_cpu_local.user_rsp = left[g_current].rsp
  BY SysDepths DEF SysAt
<1>5. Within(2)
  BY <1>4, KernelStack DEF Within
<1>6. core' = Plain(Following, Deeper(core.rsp, -2)) /\ OffStack(2) /\ CoreShape' /\ Still
  <2>1. 2 \in Nat
    OBVIOUS
  <2> QED BY <1>1, <1>2, <1>3, <1>5, <2>1, AddEffect, Zenon
<1>7. /\ core'.pc = Following /\ core'.reg = core.reg /\ core'.cs = core.cs
      /\ core'.gs = core.gs /\ core'.kernel_gs = core.kernel_gs
  BY <1>6 DEF Plain, Core
<1>8. /\ core'.rsp.stack = <<"kernel", g_current>> /\ Within(0)' /\ core'.rsp.depth = core.rsp.depth - 2
      /\ MemShape' /\ OneStack
  <2>1. 2 \in 1 .. 8
    OBVIOUS
  <2> QED BY <1>1, <1>4, <1>5, <1>6, <2>1, SysOffStack, Zenon
<1>9. /\ Pop(0)' = Pop(2) /\ Pop(1)' = Pop(3) /\ Pop(2)' = Pop(4) /\ Pop(3)' = Pop(5)
      /\ Pop(4)' = Pop(6) /\ Pop(5)' = Pop(7) /\ Pop(6)' = Pop(8) /\ Pop(7)' = Pop(9)
  <2>1. \A i \in Nat : 2 + i < core.rsp.depth => Pop(i)' = Pop(2 + i)
    BY <1>6 DEF OffStack
  <2> QED BY <1>4, <2>1
<1>10. UNCHANGED <<left, g_current, g_cpu_local>>
  BY <1>6, StillIs
<1>11. SysAt(10)'
  <2>1. Shut' /\ SysLeft'
    BY <1>1, <1>6, <1>7, SysKeeps
  <2>2. SysResult'
    BY <1>4, <1>7, <1>10 DEF SysResult, Caller
  <2>3. SysSaved(0)'
    <3>1. /\ 2 + 1 = 3 /\ 2 + 2 = 4 /\ 2 + 3 = 5 /\ 2 + 4 = 6 /\ 2 + 5 = 7 /\ 2 + 6 = 8 /\ 2 + 7 = 9
          /\ 0 + 1 = 1 /\ 0 + 2 = 2 /\ 0 + 3 = 3 /\ 0 + 4 = 4 /\ 0 + 5 = 5 /\ 0 + 6 = 6 /\ 0 + 7 = 7
      OBVIOUS
    <3> QED BY <1>4, <1>9, <1>10, <3>1, Zenon DEF SysSaved, Caller
  <2>4. core'.rsp.depth = 8
    BY <1>4, <1>8
  <2> QED BY <1>1, <1>4, <1>7, <1>8, <1>10, <2>1, <2>2, <2>3, <2>4, SysDepths DEF SysAt
<1> QED BY <1>6, <1>8, <1>11, Stays DEF Places, InSyscall

(* The registers come back from the words they were saved in. *)
LEMMA PoppedAre ==
    /\ DOMAIN PoppedRegs = 1 .. 8 /\ Len(PoppedRegs) = 8
    /\ PoppedRegs[1] = "r15" /\ PoppedRegs[2] = "r14" /\ PoppedRegs[3] = "r13" /\ PoppedRegs[4] = "r12"
    /\ PoppedRegs[5] = "rbp" /\ PoppedRegs[6] = "rbx" /\ PoppedRegs[7] = "rcx" /\ PoppedRegs[8] = "r11"
BY DEF PoppedRegs

LEMMA PoppedOnce ==
    ASSUME NEW i \in 1 .. 8, NEW j \in 1 .. 8, PoppedRegs[i] = PoppedRegs[j] PROVE i = j
<1>1. \A k \in 1 .. 8 : k = 1 \/ k = 2 \/ k = 3 \/ k = 4 \/ k = 5 \/ k = 6 \/ k = 7 \/ k = 8
  OBVIOUS
<1> QED BY <1>1, PoppedAre

LEMMA PoppedWords ==
    ASSUME PopStep, CoreShape, MemShape, Within(8), Instr = <<"pop", PoppedRegs>>
    PROVE  /\ core'.reg["r15"] = Pop(0) /\ core'.reg["r14"] = Pop(1) /\ core'.reg["r13"] = Pop(2)
           /\ core'.reg["r12"] = Pop(3) /\ core'.reg["rbp"] = Pop(4) /\ core'.reg["rbx"] = Pop(5)
           /\ core'.reg["rcx"] = Pop(6) /\ core'.reg["r11"] = Pop(7) /\ core'.reg["rax"] = core.reg["rax"]
<1>1. core'.reg = [r \in Gprs |-> IF \E i \in DOMAIN PoppedRegs : PoppedRegs[i] = r
                                  THEN Pop((CHOOSE i \in DOMAIN PoppedRegs : PoppedRegs[i] = r) - 1)
                                  ELSE core.reg[r]]
  <2>1. 8 \in Nat
    OBVIOUS
  <2> QED BY <2>1, PoppedAre, PopEffect, Zenon
<1>2. ASSUME NEW i \in 1 .. 8 PROVE core'.reg[PoppedRegs[i]] = Pop(i - 1)
  <2>1. PICK r : r = PoppedRegs[i]
    OBVIOUS
  <2>2. r \in Gprs
    <3>1. i = 1 \/ i = 2 \/ i = 3 \/ i = 4 \/ i = 5 \/ i = 6 \/ i = 7 \/ i = 8
      OBVIOUS
    <3> QED BY <2>1, <3>1, PoppedAre, GprsAre
  <2>3. \E j \in DOMAIN PoppedRegs : PoppedRegs[j] = r
    BY <2>1, PoppedAre
  <2> DEFINE k == CHOOSE j \in DOMAIN PoppedRegs : PoppedRegs[j] = r
  <2>4. k \in DOMAIN PoppedRegs /\ PoppedRegs[k] = r
    BY <2>3, Zenon
  <2>5. core'.reg[r] = Pop(k - 1)
    BY <1>1, <2>2, <2>3
  <2> HIDE DEF k
  <2>6. k = i
    BY <2>1, <2>4, PoppedAre, PoppedOnce
  <2> QED BY <2>1, <2>5, <2>6
<1>3. /\ core'.reg[PoppedRegs[1]] = Pop(0) /\ core'.reg[PoppedRegs[2]] = Pop(1)
      /\ core'.reg[PoppedRegs[3]] = Pop(2) /\ core'.reg[PoppedRegs[4]] = Pop(3)
      /\ core'.reg[PoppedRegs[5]] = Pop(4) /\ core'.reg[PoppedRegs[6]] = Pop(5)
      /\ core'.reg[PoppedRegs[7]] = Pop(6) /\ core'.reg[PoppedRegs[8]] = Pop(7)
  <2>1. 1 - 1 = 0 /\ 2 - 1 = 1 /\ 3 - 1 = 2 /\ 4 - 1 = 3 /\ 5 - 1 = 4 /\ 6 - 1 = 5 /\ 7 - 1 = 6 /\ 8 - 1 = 7
    OBVIOUS
  <2>2. {1, 2, 3, 4, 5, 6, 7, 8} \subseteq 1 .. 8
    OBVIOUS
  <2> QED BY <1>2, <2>1, <2>2, Zenon
<1>4. core'.reg["rax"] = core.reg["rax"]
  <2>1. "rax" \in Gprs
    BY GprsAre
  <2>2. ~ \E i \in DOMAIN PoppedRegs : PoppedRegs[i] = "rax"
    BY DEF PoppedRegs
  <2> QED BY <1>1, <2>1, <2>2
<1> QED BY <1>3, <1>4, PoppedAre

LEMMA SysPopStep == ASSUME EInv, SysAt(10), Execute PROVE EInv' /\ SysAt(11)'
<1>1. /\ core.pc.routine \in DOMAIN Code /\ Instr = syscall_entry[10] /\ Following = At("syscall_entry", 11)
      /\ CoreShape /\ MemShape /\ Shut /\ SysLeft
  BY SysFacts
<1>2. Instr = <<"pop", PoppedRegs>>
  BY <1>1, SyscallEntryIs DEF PoppedRegs
<1>3. PopStep
  <2>1. Instr[1] = "pop"
    BY <1>2
  <2> QED BY <1>1, <2>1, Executes
<1>4. /\ core.gs = "g_cpu_local" /\ core.kernel_gs = "0" /\ SysResult /\ SysSaved(0)
      /\ core.rsp.stack = <<"kernel", g_current>> /\ Within(0) /\ core.rsp.depth = 8
      /\ g_cpu_local.user_rsp = left[g_current].rsp
  BY SysDepths DEF SysAt
<1>5. Within(8)
  BY <1>4, KernelStack DEF Within
<1>6. /\ core' = Core(Following, core'.reg, Deeper(core.rsp, -8), core.cs, core.ss, core.gs, core.kernel_gs)
      /\ OffStack(8) /\ CoreShape' /\ Still
  <2>1. 8 \in Nat
    OBVIOUS
  <2> QED BY <1>1, <1>2, <1>3, <1>5, <2>1, PoppedAre, PopEffect, Zenon
<1>7. core'.pc = Following /\ core'.cs = core.cs /\ core'.gs = core.gs /\ core'.kernel_gs = core.kernel_gs
  BY <1>6 DEF Core
<1>8. /\ core'.rsp.stack = <<"kernel", g_current>> /\ Within(0)' /\ core'.rsp.depth = core.rsp.depth - 8
      /\ MemShape' /\ OneStack
  <2>1. 8 \in 1 .. 8
    OBVIOUS
  <2> QED BY <1>1, <1>4, <1>5, <1>6, <2>1, SysOffStack, Zenon
<1>9. UNCHANGED <<left, g_current, g_cpu_local>>
  BY <1>6, StillIs
<1>10. /\ core'.reg["r15"] = Caller["r15"] /\ core'.reg["r14"] = Caller["r14"] /\ core'.reg["r13"] = Caller["r13"]
       /\ core'.reg["r12"] = Caller["r12"] /\ core'.reg["rbp"] = Caller["rbp"] /\ core'.reg["rbx"] = Caller["rbx"]
       /\ core'.reg["rcx"] = Rip(At("user", g_current)) /\ core'.reg["r11"] = Flags(TRUE)
       /\ core'.reg["rax"] = core.reg["rax"]
  <2>1. /\ Pop(0) = Caller["r15"] /\ Pop(1) = Caller["r14"] /\ Pop(2) = Caller["r13"]
        /\ Pop(3) = Caller["r12"] /\ Pop(4) = Caller["rbp"] /\ Pop(5) = Caller["rbx"]
        /\ Pop(6) = Rip(At("user", g_current)) /\ Pop(7) = Flags(TRUE)
    <3>1. 0 + 1 = 1 /\ 0 + 2 = 2 /\ 0 + 3 = 3 /\ 0 + 4 = 4 /\ 0 + 5 = 5 /\ 0 + 6 = 6 /\ 0 + 7 = 7
      OBVIOUS
    <3> QED BY <1>4, <3>1, Zenon DEF SysSaved
  <2> QED BY <1>1, <1>2, <1>3, <1>5, <2>1, PoppedWords
<1>11. SysAt(11)'
  <2>1. Shut' /\ SysLeft'
    BY <1>1, <1>6, <1>7, SysKeeps
  <2>2. SysResult' /\ SysBack'
    BY <1>4, <1>9, <1>10 DEF SysResult, SysBack, Caller
  <2>3. SysRestored'
    BY <1>9, <1>10 DEF SysRestored, Caller, Preserved
  <2>4. core'.rsp.depth = 0
    BY <1>4, <1>8
  <2> QED BY <1>1, <1>4, <1>7, <1>8, <1>9, <2>1, <2>2, <2>3, <2>4, SysDepths DEF SysAt
<1> QED BY <1>6, <1>8, <1>11, Stays DEF Places, InSyscall

LEMMA SysDoneKept ==
    ASSUME SysResult, SysRestored, SysBack, core'.reg = core.reg, UNCHANGED <<left, g_current>>
    PROVE  SysResult' /\ SysRestored' /\ SysBack'
BY DEF SysResult, SysRestored, SysBack, Caller

LEMMA SysLoadUserStep == ASSUME EInv, SysAt(11), Execute PROVE EInv' /\ SysAt(12)'
<1>1. /\ core.pc.routine \in DOMAIN Code /\ Instr = syscall_entry[11] /\ Following = At("syscall_entry", 12)
      /\ CoreShape /\ MemShape /\ Shut /\ SysLeft
  BY SysFacts
<1>2. Instr = <<"load rsp", "user_rsp">>
  BY <1>1, SyscallEntryIs
<1>3. /\ core.gs = "g_cpu_local" /\ core.kernel_gs = "0" /\ SysResult /\ SysRestored /\ SysBack
      /\ g_cpu_local.user_rsp = left[g_current].rsp
  BY DEF SysAt
<1>4. CpuLocalStep
  <2>1. Instr[1] = "load rsp"
    BY <1>2
  <2> QED BY <1>1, <2>1, Executes
<1>5. PICK p : p = left[g_current].rsp
  OBVIOUS
<1>6. IsPtr(p) /\ p = g_cpu_local["user_rsp"]
  BY <1>1, <1>3, <1>5 DEF SysLeft
<1>7. /\ CoreShape' /\ core'.pc = Following /\ core'.reg = core.reg /\ core'.rsp = p
      /\ core'.cs = core.cs /\ core'.gs = core.gs /\ core'.kernel_gs = core.kernel_gs
      /\ mem' = mem /\ Still
  BY <1>1, <1>2, <1>3, <1>4, <1>6, LoadRspEffect
<1>8. UNCHANGED <<left, g_current, g_cpu_local>>
  BY <1>7, StillIs
<1>9. SysAt(12)'
  <2>1. Shut' /\ SysLeft'
    BY <1>1, <1>7, SysKeeps
  <2>2. SysResult' /\ SysRestored' /\ SysBack'
    BY <1>3, <1>7, <1>8, SysDoneKept
  <2> QED BY <1>1, <1>3, <1>5, <1>7, <1>8, <2>1, <2>2 DEF SysAt
<1>10. MemShape' /\ OneStack
  BY <1>1, <1>7 DEF MemShape, OneStack
<1> QED BY <1>7, <1>9, <1>10, Stays DEF Places, InSyscall

LEMMA SysSwapgsBackStep == ASSUME EInv, SysAt(12), Execute PROVE EInv' /\ SysAt(13)'
<1>1. /\ core.pc.routine \in DOMAIN Code /\ Instr = syscall_entry[12] /\ Following = At("syscall_entry", 13)
      /\ CoreShape /\ MemShape /\ Shut /\ SysLeft
  BY SysFacts
<1>2. Instr[1] = "swapgs"
  <2>1. Instr = <<"swapgs">>
    BY <1>1, SyscallEntryIs
  <2> QED BY <2>1
<1>3. /\ core' = Core(Following, core.reg, core.rsp, core.cs, core.ss, core.kernel_gs, core.gs)
      /\ mem' = mem /\ Still
  BY <1>1, <1>2, Executes, SwapgsStep
<1>4. CoreShape' /\ core'.pc = Following /\ core'.reg = core.reg /\ core'.rsp = core.rsp /\ core'.cs = core.cs
      /\ core'.gs = core.kernel_gs /\ core'.kernel_gs = core.gs
  BY <1>1, <1>3, CoreStep DEF CoreShape
<1>5. UNCHANGED <<left, g_current>>
  BY <1>3, StillIs
<1>6. SysAt(13)'
  <2>1. /\ core.gs = "g_cpu_local" /\ core.kernel_gs = "0" /\ core.rsp = left[g_current].rsp
        /\ SysResult /\ SysRestored /\ SysBack
    BY DEF SysAt
  <2>2. SysResult' /\ SysRestored' /\ SysBack'
    BY <1>4, <1>5, <2>1, SysDoneKept
  <2>3. Shut' /\ SysLeft'
    BY <1>1, <1>3, <1>4, SysKeeps
  <2> QED BY <1>1, <1>4, <1>5, <2>1, <2>2, <2>3 DEF SysAt, GsUser
<1>7. MemShape' /\ OneStack
  BY <1>1, <1>3 DEF MemShape, OneStack
<1> QED BY <1>3, <1>4, <1>6, <1>7, Stays DEF Places, InSyscall

LEMMA SysretqStep == ASSUME EInv, SysAt(13), Execute PROVE EInv' /\ Resumed'
<1>1. /\ core.pc.routine \in DOMAIN Code /\ Instr = syscall_entry[13]
      /\ CoreShape /\ MemShape /\ Shut /\ SysLeft /\ g_current \in Threads
  BY SysFacts
<1>2. Sysretq
  <2>1. Instr[1] = "sysretq"
    <3>1. Instr = <<"sysretq">>
      BY <1>1, SyscallEntryIs
    <3> QED BY <3>1
  <2> QED BY <1>1, <2>1, Executes
<1>3. GsUser /\ core.rsp = left[g_current].rsp /\ SysResult /\ SysRestored /\ SysBack
  BY DEF SysAt
<1>4. sys.star.user = StarUser
  BY <1>1 DEF Shut, CallsUp
<1>5. core' = [core EXCEPT !.pc = At("user", g_current), !.cs = USER_CS, !.ss = USER_DS]
  BY <1>2, <1>3, <1>4, AddressOfRip, Sysrets DEF Sysretq, SysBack
<1>6. iflag' = TRUE
  BY <1>2, <1>3, Seconds DEF Sysretq, SysBack
<1>7. UNCHANGED <<boot, pics, lapic, running, source, mem, kept>>
  BY <1>2 DEF Sysretq
<1>8. core' = Core(At("user", g_current), core.reg, core.rsp, USER_CS, USER_DS, core.gs, core.kernel_gs)
  BY <1>1, <1>5 DEF CoreShape, Core
<1>9. /\ core'.pc = At("user", g_current) /\ core'.reg = core.reg /\ core'.rsp = core.rsp /\ core'.cs = USER_CS
      /\ core'.ss = USER_DS /\ core'.gs = core.gs /\ core'.kernel_gs = core.kernel_gs
  BY <1>8 DEF Core
<1>10. CoreShape'
  <2>1. At("user", g_current) = At(At("user", g_current).routine, At("user", g_current).at)
    BY DEF At
  <2> QED BY <1>1, <1>8, <2>1 DEF Core, CoreShape
<1>11. UNCHANGED <<step, idt, ist, sys, g_cpu_local, rsp0, g_current, frame, left, origin>>
  BY <1>7 DEF boot, kept
<1>12. InUser'
  BY <1>1, <1>3, <1>6, <1>7, <1>9, <1>11 DEF Shut, SysLeft, Kernel, TablesUp, CallsUp, GsUser, InUser
<1>13. Resumed'
  <2>1. left'[g_current'] = left[g_current]
    BY <1>11
  <2>2. left[g_current].how = "syscall"
    BY <1>1 DEF SysLeft
  <2>3. \A r \in Preserved : core'.reg[r] = left[g_current].regs[r]
    BY <1>3, <1>9 DEF SysRestored, Caller
  <2>4. core'.reg["rax"] = IF left[g_current].regs["rax"] = Imm(0) THEN left[g_current].regs["rsi"] ELSE Imm(-1)
    BY <1>3, <1>9 DEF SysResult, Caller
  <2> QED BY <1>3, <1>9, <1>11, <2>1, <2>2, <2>3, <2>4 DEF Resumed
<1>14. MemShape' /\ SysShape' /\ LeftShape'
  BY <1>7, <1>11, SysKept, LeftKept DEF EInv, Shape, MemShape
<1>15. Order' /\ ThreadsUp'
  BY <1>7, <1>11, ThreadsKept DEF EInv, Order
<1> QED BY <1>7, <1>10, <1>12, <1>13, <1>14, <1>15 DEF EInv, Shape, Places

LEMMA SysNotUser == ASSUME NEW n, SysAt(n)' PROVE ~User'
BY DEF SysAt, User, At

LEMMA SysStep ==
    ASSUME EInv, NEW n \in 1 .. 13, SysAt(n), Execute
    PROVE  EInv' /\ (User' => Resumed')
<1>1. \/ n = 1 \/ n = 2 \/ n = 3 \/ n = 4 \/ n = 5 \/ n = 6 \/ n = 7
      \/ n = 8 \/ n = 9 \/ n = 10 \/ n = 11 \/ n = 12 \/ n = 13
  OBVIOUS
<1>2. CASE n = 1
  BY <1>2, SysSwapgsStep, SysNotUser
<1>3. CASE n = 2
  BY <1>3, SysSaveRspStep, SysNotUser
<1>4. CASE n = 3
  BY <1>4, SysLoadKernelStep, SysNotUser
<1>5. CASE n = 4
  BY <1>5, SysPushStep, SysNotUser
<1>6. CASE n = 5
  BY <1>6, SysMovStep, SysNotUser
<1>7. CASE n = 6
  BY <1>7, SysSubStep, SysNotUser
<1>8. CASE n = 7
  BY <1>8, SysPushLastStep, SysNotUser
<1>9. CASE n = 8
  BY <1>9, SysCallStep
<1>10. CASE n = 9
  BY <1>10, SysAddStep, SysNotUser
<1>11. CASE n = 10
  BY <1>11, SysPopStep, SysNotUser
<1>12. CASE n = 11
  BY <1>12, SysLoadUserStep, SysNotUser
<1>13. CASE n = 12
  BY <1>13, SysSwapgsBackStep, SysNotUser
<1>14. CASE n = 13
  BY <1>14, SysretqStep
<1> QED BY <1>1, <1>2, <1>3, <1>4, <1>5, <1>6, <1>7, <1>8, <1>9, <1>10, <1>11, <1>12, <1>13, <1>14

-----------------------------------------------------------------------------
(* The stubs. *)
LEMMA ErrorCodeIs == ISR_ERR = ErrorCode /\ \A v \in ErrorCode : v < 32
BY DEF ISR_ERR, ErrorCode

(* What a stub pushes: with what the processor has, a vector and an error code. *)
LEMMA StubWords ==
    ASSUME NEW v, NEW ws, ws = (IF v \in ErrorCode THEN <<>> ELSE <<Imm(0)>>) \o <<Imm(v)>>
    PROVE  /\ IsSeq(ws) /\ Len(ws) = 2 - Coded(v) /\ ws[Len(ws)] = Imm(v)
           /\ v \notin ErrorCode => ws[1] = Imm(0)
<1>1. CASE v \in ErrorCode
  <2>1. PICK x : x = Imm(v)
    OBVIOUS
  <2>2. ws = <<x>>
    BY <1>1, <2>1
  <2>3. IsSeq(ws) /\ Len(ws) = 1
    BY <2>2, FewWords, Zenon
  <2>4. ws[1] = x
    BY <2>2
  <2> QED BY <1>1, <2>1, <2>3, <2>4 DEF Coded
<1>2. CASE v \notin ErrorCode
  <2>1. PICK x, y : x = Imm(v) /\ y = Imm(0)
    OBVIOUS
  <2>2. ws = <<y>> \o <<x>>
    BY <1>2, <2>1
  <2>3. <<y>> \in Seq({x, y}) /\ <<x>> \in Seq({x, y}) /\ Len(<<x>>) = 1 /\ Len(<<y>>) = 1
    OBVIOUS
  <2>4. /\ ws \in Seq({x, y}) /\ Len(ws) = 1 + 1
        /\ \A i \in 1 .. 1 + 1 : ws[i] = IF i <= 1 THEN <<y>>[i] ELSE <<x>>[i - 1]
    BY <2>2, <2>3, ConcatProperties, SMTT(30)
  <2>5. IsSeq(ws)
    BY <2>4, SeqOf
  <2>6. Len(ws) = 2 /\ ws[1] = y /\ ws[2] = x
    BY <2>4
  <2> QED BY <1>2, <2>1, <2>5, <2>6 DEF Coded
<1> QED BY <1>1, <1>2

LEMMA ReturnKept ==
    ASSUME Return(origin), UNCHANGED <<left, g_current, sys, step, origin>>, core'.gs = core.gs,
           core'.kernel_gs = core.kernel_gs
    PROVE  Return(origin)'
BY DEF Return, Matches, Home, GsUser, CallsUp, BootCtx, Entering, Entered

LEMMA HandlerKept ==
    InHandler /\ UNCHANGED <<iflag, step, sys>> /\ core'.cs = core.cs => InHandler'
BY DEF InHandler, Kernel, TablesUp

LEMMA StubStep == ASSUME EInv, NEW v \in Stubs, StubAt(v), Execute PROVE EInv' /\ ~User'
<1>1. /\ InHandler /\ RegsAre(origin) /\ core.pc = At("stub", v)
      /\ Within(5 + Coded(v)) /\ (core.rsp.depth - (5 + Coded(v))) % 2 = 0
      /\ FiveAre(origin, Coded(v)) /\ (v \in ErrorCode => Pop(0) = <<"error", v>>)
      /\ origin["vector"] = Imm(v) /\ origin["error"] = IF v \in ErrorCode THEN <<"error", v>> ELSE Imm(0)
      /\ IF v < 32 THEN running = Panic ELSE running = v /\ source # None /\ Return(origin)
  BY DEF StubAt
<1>2. CoreShape /\ MemShape
  BY DEF EInv, Shape
<1>3. core.pc.routine = "stub" /\ core.pc.at = v
  BY <1>1, AtIs
<1>4. Stub
  BY <1>3, CodeIs, ExecutesElsewhere
<1>5. PICK ws : ws = (IF v \in ErrorCode THEN <<>> ELSE <<Imm(0)>>) \o <<Imm(v)>>
  OBVIOUS
<1>6. PICK p : p = At(IF v < 32 THEN "isr_common" ELSE "irq_common", 1)
  OBVIOUS
<1>7. /\ mem' = OnTop(core.rsp, ws) /\ core' = [core EXCEPT !.rsp = Deeper(@, Len(ws)), !.pc = p] /\ Still
  BY <1>3, <1>4, <1>5, <1>6, ErrorCodeIs DEF Stub, Still
<1>8. /\ IsSeq(ws) /\ Len(ws) = 2 - Coded(v) /\ ws[Len(ws)] = Imm(v)
      /\ v \notin ErrorCode => ws[1] = Imm(0)
  BY <1>5, StubWords
<1>9. core.rsp.depth \in Nat /\ IsPtr(core.rsp) /\ core.rsp.depth <= Len(mem[core.rsp.stack])
  BY <1>1, <1>2 DEF CoreShape, IsPtr, Within
<1>10. core' = Core(p, core.reg, Deeper(core.rsp, Len(ws)), core.cs, core.ss, core.gs, core.kernel_gs)
  BY <1>2, <1>7 DEF CoreShape, Core
<1>11. /\ core'.pc = p /\ core'.reg = core.reg /\ core'.rsp = Deeper(core.rsp, Len(ws)) /\ core'.cs = core.cs
       /\ core'.gs = core.gs /\ core'.kernel_gs = core.kernel_gs
  BY <1>10 DEF Core
<1>12. Pushed(core.rsp, ws, core'.rsp, mem')
  BY <1>2, <1>7, <1>8, <1>9, <1>11, PushWords
<1>13. CoreShape' /\ MemShape'
  <2>1. IsPtr(core'.rsp) /\ MemShape'
    BY <1>12 DEF Pushed, MemShape
  <2>2. p = At(p.routine, p.at)
    BY <1>6 DEF At
  <2> QED BY <1>2, <1>10, <2>1, <2>2 DEF Core, CoreShape
<1>14. UNCHANGED <<step, iflag, running, source, sys, left, g_current, origin>>
  BY <1>7, StillIs
<1>15. Coded(v) \in 0 .. 1 /\ (v \in ErrorCode => Coded(v) = 1) /\ (v \notin ErrorCode => Coded(v) = 0)
  BY DEF Coded
<1>16. PICK k \in 0 .. 1 : k = Coded(v)
  BY <1>15
<1>17. /\ core'.rsp.stack = core.rsp.stack /\ core'.rsp.depth = core.rsp.depth + (2 - k)
       /\ core'.rsp.depth = Len(mem'[core'.rsp.stack])
       /\ \A s \in Stacks \ {core.rsp.stack} : mem'[s] = mem[s]
       /\ \A i \in 0 .. (2 - k) - 1 : Pop(i)' = ws[(2 - k) - i]
       /\ \A i \in 0 .. core.rsp.depth - 1 : Pop((2 - k) + i)' = Pop(i)
  BY <1>8, <1>12, <1>16 DEF Pushed, Pop
<1>18. core.rsp.depth >= 5 + k /\ (core.rsp.stack = <<"boot", 0>> => core.rsp.depth > 5 + k)
       /\ (core.rsp.depth - (5 + k)) % 2 = 0
  BY <1>1, <1>16 DEF Within
<1>19. Numbered'
  <2>1. RegsAre(origin)'
    BY <1>1, <1>11, <1>14 DEF RegsAre
  <2>2. Pop(0)' = origin["vector"]
    <3>1. Pop(0)' = ws[2 - k]
      BY <1>17
    <3> QED BY <1>1, <1>8, <1>16, <3>1
  <2>3. Pop(1)' = origin["error"]
    <3>1. CASE k = 1
      <4>1. Pop(1)' = Pop(0)
        <5>1. Pop((2 - k) + 0)' = Pop(0)
          <6>1. 0 \in 0 .. core.rsp.depth - 1
            BY <1>9, <1>18
          <6> QED BY <1>17, <6>1
        <5>2. (2 - k) + 0 = 1
          BY <3>1
        <5> QED BY <5>1, <5>2
      <4> QED BY <1>1, <1>15, <1>16, <3>1, <4>1
    <3>2. CASE k = 0
      <4>1. Pop(1)' = ws[1]
        BY <1>17, <3>2
      <4> QED BY <1>1, <1>8, <1>15, <1>16, <3>2, <4>1
    <3> QED BY <3>1, <3>2
  <2>4. FiveAre(origin, 2)'
    <3>1. /\ Pop(k) = origin["rip"] /\ Pop(k + 1) = origin["cs"] /\ Pop(k + 2) = origin["rflags"]
          /\ Pop(k + 3) = origin["rsp"] /\ Pop(k + 4) = origin["ss"]
      BY <1>1, <1>16 DEF FiveAre
    <3>2. ASSUME NEW i \in 0 .. 4 PROVE Pop(2 + i)' = Pop(k + i)
      <4>1. k + i \in 0 .. core.rsp.depth - 1
        BY <1>9, <1>18
      <4>2. Pop((2 - k) + (k + i))' = Pop(k + i)
        BY <1>17, <4>1
      <4>3. (2 - k) + (k + i) = 2 + i
        OBVIOUS
      <4> QED BY <4>2, <4>3
    <3>3. /\ Pop(2)' = Pop(k) /\ Pop(2 + 1)' = Pop(k + 1) /\ Pop(2 + 2)' = Pop(k + 2)
          /\ Pop(2 + 3)' = Pop(k + 3) /\ Pop(2 + 4)' = Pop(k + 4)
      <4>1. Pop(2 + 0)' = Pop(k + 0) /\ 2 + 0 = 2 /\ k + 0 = k
        BY <3>2
      <4> QED BY <3>2, <4>1
    <3> QED BY <1>14, <3>1, <3>3 DEF FiveAre
  <2>5. Within(7)' /\ (core'.rsp.depth - 7) % 2 = 0
    <3>1. core'.rsp.depth - 7 = core.rsp.depth - (5 + k)
      BY <1>9, <1>17
    <3>2. core'.rsp.depth >= 7 /\ (core.rsp.stack = <<"boot", 0>> => core'.rsp.depth > 7)
      BY <1>9, <1>17, <1>18
    <3>3. core'.rsp.depth <= Len(mem'[core'.rsp.stack])
      BY <1>9, <1>17
    <3> QED BY <1>17, <1>18, <3>1, <3>2, <3>3 DEF Within
  <2> QED BY <1>14, <2>1, <2>2, <2>3, <2>4, <2>5 DEF Numbered
<1>20. InHandler'
  BY <1>1, <1>11, <1>14, HandlerKept
<1>21. InIsr' \/ InIrq'
  <2>1. CASE v < 32
    <3>1. IsrAt(1)'
      BY <1>1, <1>6, <1>11, <1>14, <1>19, <1>20, <2>1 DEF IsrAt
    <3> QED BY <3>1 DEF InIsr
  <2>2. CASE ~(v < 32)
    <3>1. v \in 0 .. 255
      BY DEF Stubs
    <3>2. running \notin {None, Panic}
      <4> DEFINE V == 0 .. 255
      <4>1. {None, Panic} \cap V = {}
        BY NoneAssumption, Zenon
      <4> HIDE DEF V
      <4>2. v \in V
        BY <3>1 DEF V
      <4> QED BY <1>1, <2>2, <4>1, <4>2
    <3>3. Return(origin)'
      BY <1>1, <1>11, <1>14, <2>2, ReturnKept
    <3>4. IrqAt(1)'
      BY <1>1, <1>6, <1>11, <1>14, <1>19, <1>20, <2>2, <3>2, <3>3 DEF IrqAt
    <3> QED BY <3>4 DEF InIrq
  <2> QED BY <2>1, <2>2
<1>22. OneStack
  BY <1>9, <1>17, <1>18 DEF OneStack
<1>23. ~User'
  BY <1>6, <1>11, NotUser
<1> QED BY <1>7, <1>13, <1>21, <1>22, <1>23, Stays DEF Places

(* isr_common and irq_common up to their calls. *)
(* What is known at each of their instructions. *)
LEMMA CommonAt ==
    ASSUME NEW r \in {"isr_common", "irq_common"}, NEW n \in 1 .. 6, core.pc = At(r, n)
    PROVE  /\ core.pc.routine \in DOMAIN Code /\ Following = At(r, n + 1)
           /\ n = 1 => Instr = <<"push", Saved>>
           /\ n = 2 => Instr = <<"lea", "rdi">>
           /\ n = 3 => Instr = IF r = "isr_common" THEN <<"call", "isr_common_handler">>
                               ELSE <<"call", "irq_common_handler">>
           /\ n = 4 => Instr = <<"pop", Restored>>
           /\ n = 5 => Instr = <<"add", 2>>
           /\ n = 6 => Instr = <<"iretq">>
<1>1. core.pc.routine = r /\ Instr = Code[r][n] /\ Following = At(r, n + 1)
  BY AtIs
<1>2. PICK h : h = IF r = "isr_common" THEN "isr_common_handler" ELSE "irq_common_handler"
  OBVIOUS
<1>3. Code[r] = Common(h)
  BY <1>2, CodeIs
<1> QED BY <1>1, <1>2, <1>3, CodeIs, CommonIs

LEMMA CommonPush ==
    ASSUME EInv, Numbered, InHandler, Execute, Instr = <<"push", Saved>>, core.pc.routine \in DOMAIN Code
    PROVE  /\ core'.pc = Following /\ core'.gs = core.gs /\ core'.kernel_gs = core.kernel_gs
           /\ Framed' /\ InHandler' /\ CoreShape' /\ MemShape' /\ OneStack /\ Still
<1>1. CoreShape /\ MemShape /\ IsFrame(origin)
  BY DEF EInv, Shape, LeftShape
<1>2. PushStep
  <2>1. Instr[1] = "push"
    OBVIOUS
  <2> QED BY <2>1, Executes
<1>3. /\ RegsAre(origin) /\ Pop(0) = origin["vector"] /\ Pop(1) = origin["error"] /\ FiveAre(origin, 2)
      /\ Within(7) /\ (core.rsp.depth - 7) % 2 = 0
  BY DEF Numbered
<1>4. PICK f : f = origin
  OBVIOUS
<1>5. /\ core' = Plain(Following, Deeper(core.rsp, 15)) /\ CoreShape' /\ MemShape' /\ Still
      /\ core'.rsp.stack = core.rsp.stack /\ core'.rsp.depth = core.rsp.depth + 15
      /\ core'.rsp.depth = Len(mem'[core'.rsp.stack])
      /\ \A s \in Stacks \ {core.rsp.stack} : mem'[s] = mem[s]
      /\ FrameAt(core.rsp)' = f
  <2>1. IsFrame(f) /\ RegsAre(f) /\ Pop(0) = f["vector"] /\ Pop(1) = f["error"] /\ FiveAre(f, 2)
    BY <1>1, <1>3, <1>4 DEF RegsAre, FiveAre
  <2> QED BY <1>1, <1>2, <1>3, <2>1, PushSaved, Zenon
<1>6. /\ core'.pc = Following /\ core'.cs = core.cs /\ core'.gs = core.gs /\ core'.kernel_gs = core.kernel_gs
  BY <1>5 DEF Plain, Core
<1>7. UNCHANGED <<step, iflag, sys, origin>>
  BY <1>5, StillIs
<1>8. InHandler'
  BY <1>6, <1>7, HandlerKept
<1>9. core.rsp.depth \in Nat /\ core.rsp.depth >= 7 /\ (core.rsp.stack = <<"boot", 0>> => core.rsp.depth > 7)
  BY <1>1, <1>3 DEF CoreShape, IsPtr, Within
<1>10. core'.rsp.depth >= 22 /\ core'.rsp.depth % 2 = 0 /\ core'.rsp.depth >= 1
       /\ (core.rsp.stack = <<"boot", 0>> => core'.rsp.depth > 22)
  <2>1. PICK d \in Nat : d = core.rsp.depth
    BY <1>9
  <2>2. d + 15 >= 22 /\ (d + 15) % 2 = 0 /\ (d > 7 => d + 15 > 22)
    BY <1>3, <1>9, <2>1
  <2> QED BY <1>5, <1>9, <2>1, <2>2
<1>11. Framed'
  <2>1. core'.rsp.depth <= Len(mem'[core'.rsp.stack])
    BY <1>5, <1>9
  <2> QED BY <1>4, <1>5, <1>7, <1>10, <2>1 DEF Framed, Within
<1>12. OneStack
  BY <1>5, <1>10 DEF OneStack
<1> QED BY <1>5, <1>6, <1>8, <1>11, <1>12

LEMMA CommonLea ==
    ASSUME EInv, Framed, InHandler, Execute, Instr = <<"lea", "rdi">>, core.pc.routine \in DOMAIN Code
    PROVE  /\ core'.pc = Following /\ core'.gs = core.gs /\ core'.kernel_gs = core.kernel_gs
           /\ core'.reg["rdi"] = Rsp(core.rsp)' /\ Framed' /\ InHandler' /\ CoreShape' /\ MemShape'
           /\ OneStack /\ Still
<1>1. CoreShape /\ MemShape
  BY DEF EInv, Shape
<1>2. Instr[1] = "lea" /\ Instr[2] = "rdi"
  OBVIOUS
<1>3. MovStep
  BY <1>2, Executes
<1>4. PICK m : m = [core.reg EXCEPT !["rdi"] = Rsp(core.rsp)]
  OBVIOUS
<1>5. Go([core EXCEPT !.reg["rdi"] = Rsp(core.rsp)]) /\ mem' = mem /\ Still
  BY <1>2, <1>3 DEF MovStep, Fetch, Still
<1>6. core' = Core(Following, m, core.rsp, core.cs, core.ss, core.gs, core.kernel_gs)
  BY <1>1, <1>4, <1>5 DEF Go, Following, Core, CoreShape, At
<1>7. IsRegs(m) /\ m["rdi"] = Rsp(core.rsp)
  BY <1>1, <1>4, GprsAre DEF CoreShape, IsRegs
<1>8. CoreShape' /\ core'.pc = Following /\ core'.reg = m /\ core'.rsp = core.rsp /\ core'.cs = core.cs
      /\ core'.gs = core.gs /\ core'.kernel_gs = core.kernel_gs
  BY <1>1, <1>6, <1>7, CoreStep
<1>9. UNCHANGED <<step, iflag, sys, origin>>
  BY <1>5, StillIs
<1>10. InHandler'
  BY <1>8, <1>9, HandlerKept
<1>11. Framed'
  <2>1. FrameAt(core.rsp)' = FrameAt(core.rsp)
    BY <1>5, <1>8, FrameWords, FrameWordsPrimed
  <2> QED BY <1>5, <1>8, <1>9, <2>1 DEF Framed, Within
<1>12. MemShape' /\ OneStack
  BY <1>1, <1>5 DEF MemShape, OneStack
<1> QED BY <1>5, <1>7, <1>8, <1>10, <1>11, <1>12

(* An exception ends in a panic. *)
LEMMA IsrStep == ASSUME EInv, NEW n \in 1 .. 3, IsrAt(n), Execute PROVE EInv' /\ ~User'
<1>1. InHandler /\ running = Panic /\ core.pc = At("isr_common", n)
  BY DEF IsrAt
<1>2. n \in 1 .. 6
  OBVIOUS
<1>3. /\ core.pc.routine \in DOMAIN Code /\ Following = At("isr_common", n + 1)
      /\ n = 1 => Instr = <<"push", Saved>>
      /\ n = 2 => Instr = <<"lea", "rdi">>
      /\ n = 3 => Instr = <<"call", "isr_common_handler">>
  BY <1>1, <1>2, CommonAt
<1>4. CASE n = 1
  <2>1. Numbered
    BY <1>4 DEF IsrAt
  <2>2. core'.pc = At("isr_common", 2) /\ Framed' /\ InHandler' /\ CoreShape' /\ MemShape' /\ OneStack /\ Still
    BY <1>1, <1>3, <1>4, <2>1, CommonPush
  <2>3. IsrAt(2)'
    BY <1>1, <2>2, StillIs DEF IsrAt
  <2> QED BY <2>2, <2>3, Stays, NotUser DEF Places, InIsr
<1>5. CASE n = 2
  <2>1. Framed
    BY <1>5 DEF IsrAt
  <2>2. core'.pc = At("isr_common", 3) /\ core'.reg["rdi"] = Rsp(core.rsp)' /\ Framed' /\ InHandler'
        /\ CoreShape' /\ MemShape' /\ OneStack /\ Still
    BY <1>1, <1>3, <1>5, <2>1, CommonLea
  <2>3. IsrAt(3)'
    BY <1>1, <2>2, StillIs DEF IsrAt
  <2> QED BY <2>2, <2>3, Stays, NotUser DEF Places, InIsr
<1>6. CASE n = 3
  <2>1. CallIsr
    BY <1>3, <1>6, CallIs
  <2>2. CoreShape /\ MemShape
    BY DEF EInv, Shape
  <2>3. core' = Core(At("panic", 0), core.reg, core.rsp, core.cs, core.ss, core.gs, core.kernel_gs)
        /\ mem' = mem /\ Still
    BY <2>1, <2>2 DEF CallIsr, CoreShape, Core, Still
  <2>4. core'.pc = At("panic", 0) /\ core'.cs = core.cs
    BY <2>3 DEF Core
  <2>5. CoreShape'
    <3>1. At("panic", 0) = At(At("panic", 0).routine, At("panic", 0).at)
      BY DEF At
    <3> QED BY <2>2, <2>3, <3>1 DEF Core, CoreShape
  <2>6. Stopped'
    BY <1>1, <2>3, <2>4, StillIs DEF InHandler, Kernel, TablesUp, Stopped
  <2>7. MemShape' /\ OneStack
    BY <2>2, <2>3 DEF MemShape, OneStack
  <2> QED BY <2>3, <2>4, <2>5, <2>6, <2>7, Stays, NotUser DEF Places
<1> QED BY <1>4, <1>5, <1>6

LEMMA StoppedStep == ASSUME Stopped, Execute PROVE FALSE
<1>1. core.pc.routine \in {"panic", "halted"}
  BY AtIs DEF Stopped
<1> QED BY <1>1, CodeIs, ExecutesElsewhere

(* A context that may be returned to stays one. *)
LEMMA ReturnStays ==
    ASSUME NEW f, Return(f), UNCHANGED <<left, g_current, sys, step>>, core'.gs = core.gs,
           core'.kernel_gs = core.kernel_gs
    PROVE  Return(f)'
BY DEF Return, Matches, Home, GsUser, CallsUp, BootCtx, Entering, Entered

LEMMA ReturnOfFrame ==
    ASSUME NEW f, Return(f)', FrameAt(core.rsp)' = f PROVE Return(FrameAt(core.rsp))'
BY DEF Return, Matches, BootCtx, Entering

LEMMA ZeroedIsFrame == IsFrame(Zeroed)
BY FieldsAre DEF Zeroed, IsFrame

LEMMA FiveFields ==
    /\ {"rip", "cs", "rflags", "rsp", "ss"} \subseteq Fields /\ Gprs \subseteq Fields
    /\ "rip" \notin Gprs /\ "cs" \notin Gprs /\ "rflags" \notin Gprs /\ "rsp" \notin Gprs /\ "ss" \notin Gprs
BY GprsAre DEF Fields

LEMMA LiveIs ==
    ASSUME NEW n
    PROVE  /\ Live(n)["rip"] = Pop(n) /\ Live(n)["cs"] = Pop(n + 1) /\ Live(n)["rflags"] = Pop(n + 2)
           /\ Live(n)["rsp"] = Pop(n + 3) /\ Live(n)["ss"] = Pop(n + 4)
           /\ \A r \in Gprs : Live(n)[r] = core.reg[r]
<1>1. /\ Live(n)["rip"] = Pop(n) /\ Live(n)["cs"] = Pop(n + 1) /\ Live(n)["rflags"] = Pop(n + 2)
      /\ Live(n)["rsp"] = Pop(n + 3) /\ Live(n)["ss"] = Pop(n + 4)
  BY FiveFields DEF Live
<1>2. ASSUME NEW r \in Gprs PROVE Live(n)[r] = core.reg[r]
  BY FiveFields DEF Live
<1> QED BY <1>1, <1>2

LEMMA LiveIsPrimed ==
    ASSUME NEW n
    PROVE  /\ Live(n)'["rip"] = Pop(n)' /\ Live(n)'["cs"] = Pop(n + 1)' /\ Live(n)'["rflags"] = Pop(n + 2)'
           /\ Live(n)'["rsp"] = Pop(n + 3)' /\ Live(n)'["ss"] = Pop(n + 4)'
           /\ \A r \in Gprs : Live(n)'[r] = core'.reg[r]
<1>1. /\ Live(n)'["rip"] = Pop(n)' /\ Live(n)'["cs"] = Pop(n + 1)' /\ Live(n)'["rflags"] = Pop(n + 2)'
      /\ Live(n)'["rsp"] = Pop(n + 3)' /\ Live(n)'["ss"] = Pop(n + 4)'
  BY FiveFields DEF Live
<1>2. ASSUME NEW r \in Gprs PROVE Live(n)'[r] = core'.reg[r]
  BY FiveFields DEF Live
<1> QED BY <1>1, <1>2

(* A context that may be returned to may be returned to by the iretq that finds
   its five words n words down. *)
LEMMA ReturnLive ==
    ASSUME NEW f, NEW n, Return(f)',
           Pop(n)' = f["rip"], Pop(n + 1)' = f["cs"], Pop(n + 2)' = f["rflags"], Pop(n + 3)' = f["rsp"],
           Pop(n + 4)' = f["ss"], \A r \in Gprs : core'.reg[r] = f[r]
    PROVE  Return(Live(n))'
<1>1. PICK g : g = Live(n)'
  OBVIOUS
<1>2. /\ g["rip"] = f["rip"] /\ g["cs"] = f["cs"] /\ g["rflags"] = f["rflags"] /\ g["rsp"] = f["rsp"]
      /\ g["ss"] = f["ss"] /\ \A r \in Gprs : g[r] = f[r]
  BY <1>1, LiveIsPrimed
<1>3. "rdi" \in Gprs /\ "rsi" \in Gprs
  BY GprsAre
<1>4. Return(g)'
  BY <1>2, <1>3 DEF Return, Matches, BootCtx, Entering
<1> QED BY <1>1, <1>4 DEF Return, Matches, BootCtx, Entering

(* An interrupt: what is known at each instruction of irq_common. *)
LEMMA IrqFacts ==
    ASSUME EInv, NEW n \in 1 .. 6, IrqAt(n)
    PROVE  /\ core.pc.routine \in DOMAIN Code /\ Following = At("irq_common", n + 1)
           /\ n = 1 => Instr = <<"push", Saved>>
           /\ n = 2 => Instr = <<"lea", "rdi">>
           /\ n = 3 => Instr = <<"call", "irq_common_handler">>
           /\ n = 4 => Instr = <<"pop", Restored>>
           /\ n = 5 => Instr = <<"add", 2>>
           /\ n = 6 => Instr = <<"iretq">>
           /\ CoreShape /\ MemShape /\ InHandler /\ running \notin {None, Panic}
<1>1. core.pc = At("irq_common", n) /\ InHandler /\ running \notin {None, Panic}
  BY DEF IrqAt
<1>2. CoreShape /\ MemShape
  BY DEF EInv, Shape
<1> QED BY <1>1, <1>2, CommonAt

LEMMA IrqPushStep == ASSUME EInv, IrqAt(1), Execute PROVE EInv' /\ ~User'
<1>1. /\ core.pc.routine \in DOMAIN Code /\ Following = At("irq_common", 2) /\ Instr = <<"push", Saved>>
      /\ InHandler /\ running \notin {None, Panic}
  BY IrqFacts
<1>2. Numbered /\ origin["vector"] = Imm(running) /\ Return(origin) /\ source # None
  BY DEF IrqAt
<1>3. /\ core'.pc = At("irq_common", 2) /\ core'.gs = core.gs /\ core'.kernel_gs = core.kernel_gs
      /\ Framed' /\ InHandler' /\ CoreShape' /\ MemShape' /\ OneStack /\ Still
  BY <1>1, <1>2, CommonPush
<1>4. UNCHANGED <<running, source, origin, left, g_current, sys, step>>
  BY <1>3, StillIs
<1>5. Return(origin)'
  BY <1>2, <1>3, <1>4, ReturnKept
<1>6. IrqAt(2)'
  BY <1>1, <1>2, <1>3, <1>4, <1>5 DEF IrqAt
<1> QED BY <1>3, <1>6, Stays, NotUser DEF Places, InIrq

LEMMA IrqLeaStep == ASSUME EInv, IrqAt(2), Execute PROVE EInv' /\ ~User'
<1>1. /\ core.pc.routine \in DOMAIN Code /\ Following = At("irq_common", 3) /\ Instr = <<"lea", "rdi">>
      /\ InHandler /\ running \notin {None, Panic}
  BY IrqFacts
<1>2. Framed /\ origin["vector"] = Imm(running) /\ Return(origin) /\ source # None
  BY DEF IrqAt
<1>3. /\ core'.pc = At("irq_common", 3) /\ core'.gs = core.gs /\ core'.kernel_gs = core.kernel_gs
      /\ core'.reg["rdi"] = Rsp(core.rsp)' /\ Framed' /\ InHandler' /\ CoreShape' /\ MemShape' /\ OneStack /\ Still
  BY <1>1, <1>2, CommonLea
<1>4. UNCHANGED <<running, source, origin, left, g_current, sys, step>>
  BY <1>3, StillIs
<1>5. Return(origin)'
  BY <1>2, <1>3, <1>4, ReturnKept
<1>6. IrqAt(3)'
  BY <1>1, <1>2, <1>3, <1>4, <1>5 DEF IrqAt
<1> QED BY <1>3, <1>6, Stays, NotUser DEF Places, InIrq

LEMMA IrqPopStep == ASSUME EInv, IrqAt(4), Execute PROVE EInv' /\ ~User'
<1>1. /\ core.pc.routine \in DOMAIN Code /\ Following = At("irq_common", 5) /\ Instr = <<"pop", Restored>>
      /\ CoreShape /\ MemShape /\ InHandler /\ running \notin {None, Panic}
  BY IrqFacts
<1>2. Within(22) /\ Return(FrameAt(core.rsp)) /\ source = None
  BY DEF IrqAt
<1>3. PopStep
  <2>1. Instr[1] = "pop"
    BY <1>1
  <2> QED BY <1>1, <2>1, Executes
<1>4. PICK f : f = FrameAt(core.rsp)
  OBVIOUS
<1>5. /\ core' = Core(Following, core'.reg, Deeper(core.rsp, -15), core.cs, core.ss, core.gs, core.kernel_gs)
      /\ OffStack(15) /\ CoreShape' /\ Still /\ RegsAre(f)' /\ FiveAre(f, 2)'
  BY <1>1, <1>2, <1>3, <1>4, PopRestored
<1>6. /\ core'.pc = Following /\ core'.cs = core.cs /\ core'.gs = core.gs /\ core'.kernel_gs = core.kernel_gs
  BY <1>5 DEF Core
<1>7. UNCHANGED <<running, source, left, g_current, sys, step, iflag>>
  BY <1>5, StillIs
<1>8. core.rsp.depth \in Nat
  BY <1>1 DEF CoreShape, IsPtr
<1>9. /\ MemShape' /\ core'.rsp.stack = core.rsp.stack /\ core'.rsp.depth = core.rsp.depth - 15
      /\ core'.rsp.depth = Len(mem'[core'.rsp.stack])
  BY <1>5 DEF OffStack
<1>10. Within(7)'
  BY <1>2, <1>8, <1>9 DEF Within
<1>11. OneStack
  <2>1. 15 \in Nat /\ Within(15)
    BY <1>2, <1>8 DEF Within
  <2> QED BY <1>1, <1>5, <2>1, OffStackIsOne, Zenon
<1>12. Return(f)'
  <2>1. Return(f)
    BY <1>2, <1>4 DEF Return, Matches, BootCtx, Entering
  <2> QED BY <1>6, <1>7, <2>1, ReturnStays
<1>13. Return(Live(2))'
  <2>1. /\ Pop(2)' = f["rip"] /\ Pop(2 + 1)' = f["cs"] /\ Pop(2 + 2)' = f["rflags"] /\ Pop(2 + 3)' = f["rsp"]
        /\ Pop(2 + 4)' = f["ss"] /\ \A r \in Gprs : core'.reg[r] = f[r]
    BY <1>5 DEF FiveAre, RegsAre
  <2> QED BY <1>12, <2>1, ReturnLive
<1>14. IrqAt(5)'
  <2>1. InHandler'
    BY <1>1, <1>6, <1>7, HandlerKept
  <2> QED BY <1>1, <1>2, <1>6, <1>7, <1>10, <1>13, <2>1 DEF IrqAt
<1> QED BY <1>1, <1>5, <1>6, <1>9, <1>11, <1>14, Stays, NotUser DEF Places, InIrq

LEMMA IrqAddStep == ASSUME EInv, IrqAt(5), Execute PROVE EInv' /\ ~User'
<1>1. /\ core.pc.routine \in DOMAIN Code /\ Following = At("irq_common", 6) /\ Instr = <<"add", 2>>
      /\ CoreShape /\ MemShape /\ InHandler /\ running \notin {None, Panic}
  BY IrqFacts
<1>2. Within(7) /\ Return(Live(2)) /\ source = None
  BY DEF IrqAt
<1>3. RspStep
  <2>1. Instr[1] = "add"
    BY <1>1
  <2> QED BY <1>1, <2>1, Executes
<1>4. core.rsp.depth \in Nat
  BY <1>1 DEF CoreShape, IsPtr
<1>5. 2 \in Nat /\ Within(2)
  BY <1>2, <1>4 DEF Within
<1>6. core' = Plain(Following, Deeper(core.rsp, -2)) /\ OffStack(2) /\ CoreShape' /\ Still
  BY <1>1, <1>3, <1>5, AddEffect, Zenon
<1>7. /\ core'.pc = Following /\ core'.reg = core.reg /\ core'.cs = core.cs /\ core'.gs = core.gs
      /\ core'.kernel_gs = core.kernel_gs
  BY <1>6 DEF Plain, Core
<1>8. UNCHANGED <<running, source, left, g_current, sys, step, iflag>>
  BY <1>6, StillIs
<1>9. /\ MemShape' /\ core'.rsp.stack = core.rsp.stack /\ core'.rsp.depth = core.rsp.depth - 2
      /\ core'.rsp.depth = Len(mem'[core'.rsp.stack])
      /\ \A i \in Nat : 2 + i < core.rsp.depth => Pop(i)' = Pop(2 + i)
  BY <1>6 DEF OffStack
<1>10. Within(5)'
  BY <1>2, <1>4, <1>9 DEF Within
<1>11. OneStack
  BY <1>1, <1>5, <1>6, OffStackIsOne, Zenon
<1>12. PICK f : f = Live(2)
  OBVIOUS
<1>13. Return(f)'
  <2>1. Return(f)
    BY <1>2, <1>12 DEF Return, Matches, BootCtx, Entering
  <2> QED BY <1>7, <1>8, <2>1, ReturnStays
<1>14. Return(Live(0))'
  <2>1. core.rsp.depth >= 7
    BY <1>2 DEF Within
  <2>2. /\ Pop(0)' = Pop(2) /\ Pop(0 + 1)' = Pop(2 + 1) /\ Pop(0 + 2)' = Pop(2 + 2)
        /\ Pop(0 + 3)' = Pop(2 + 3) /\ Pop(0 + 4)' = Pop(2 + 4)
    <3>1. /\ Pop(0)' = Pop(2 + 0) /\ Pop(1)' = Pop(2 + 1) /\ Pop(2)' = Pop(2 + 2)
          /\ Pop(3)' = Pop(2 + 3) /\ Pop(4)' = Pop(2 + 4)
      BY <1>4, <1>9, <2>1
    <3> QED BY <3>1
  <2>3. /\ Pop(2) = f["rip"] /\ Pop(2 + 1) = f["cs"] /\ Pop(2 + 2) = f["rflags"] /\ Pop(2 + 3) = f["rsp"]
        /\ Pop(2 + 4) = f["ss"] /\ \A r \in Gprs : core.reg[r] = f[r]
    BY <1>12, LiveIs
  <2>4. /\ Pop(0)' = f["rip"] /\ Pop(0 + 1)' = f["cs"] /\ Pop(0 + 2)' = f["rflags"] /\ Pop(0 + 3)' = f["rsp"]
        /\ Pop(0 + 4)' = f["ss"] /\ \A r \in Gprs : core'.reg[r] = f[r]
    BY <1>7, <2>2, <2>3
  <2> QED BY <1>13, <2>4, ReturnLive
<1>15. IrqAt(6)'
  <2>1. InHandler'
    BY <1>1, <1>7, <1>8, HandlerKept
  <2> QED BY <1>1, <1>2, <1>7, <1>8, <1>10, <1>14, <2>1 DEF IrqAt
<1> QED BY <1>1, <1>6, <1>7, <1>9, <1>11, <1>15, Stays, NotUser DEF Places, InIrq

LEMMA TwoModes == KERNEL_CS % 4 = 0 /\ USER_CS % 4 = 3
BY Selectors

(* The dispatch, and the switch of frames when it makes one. *)
Switches(t, f) ==
    /\ f["cs"][2] % 4 = 3 /\ g_current' = t
    /\ frame' = [frame EXCEPT ![g_current] = f]
    /\ g_cpu_local' = [g_cpu_local EXCEPT !.kernel_rsp = Sp("kernel", t)]
    /\ rsp0' = Sp("kernel", t)
    /\ mem' = Replaced(core.rsp, frame[t])

LEMMA CallIrqEffect ==
    ASSUME EInv, IrqAt(3), Execute
    PROVE  /\ Dispatch /\ UNCHANGED <<running, iflag, sys, left>> /\ source' = None
           /\ UNCHANGED <<step, ist, idt>> /\ origin' = Zeroed
           /\ core'.pc = At("irq_common", 4) /\ core'.rsp = core.rsp /\ core'.cs = core.cs /\ core'.gs = core.gs
           /\ core'.kernel_gs = core.kernel_gs /\ CoreShape'
           /\ \/ UNCHANGED <<mem, g_cpu_local, rsp0, g_current, frame>>
              \/ \E t \in Threads \ {g_current} : Switches(t, origin)
<1>1. /\ core.pc.routine \in DOMAIN Code /\ Following = At("irq_common", 4)
      /\ Instr = <<"call", "irq_common_handler">> /\ CoreShape
  BY IrqFacts
<1>2. CallIrq
  BY <1>1, CallIs
<1>3. Framed /\ core.reg["rdi"] = Rsp(core.rsp)
  BY DEF IrqAt
<1>4. Pointer(core.reg["rdi"]) = core.rsp
  BY <1>1, <1>3, PointerOfRsp DEF CoreShape
<1>5. FrameAt(Pointer(core.reg["rdi"])) = origin
  BY <1>3, <1>4 DEF Framed
<1>6. /\ Dispatch /\ UNCHANGED <<running, iflag, sys, left>> /\ origin' = Zeroed
      /\ Go([core EXCEPT !.reg = AfterC(Junk)])
  BY <1>2 DEF CallIrq
<1>7. \/ UNCHANGED <<mem, g_cpu_local, rsp0, g_current, frame>>
      \/ \E t \in Threads \ {g_current} : Switches(t, origin)
  BY <1>2, <1>4, <1>5 DEF CallIrq, Switches
<1>8. source' = None /\ UNCHANGED <<step, ist, idt>>
  BY <1>6 DEF Dispatch, boot
<1>9. PICK m : m = AfterC(Junk)
  OBVIOUS
<1>10. IsRegs(m)
  <2>1. IsRegs(core.reg)
    BY <1>1 DEF CoreShape
  <2> QED BY <1>9, <2>1, AfterCIs
<1>11. core' = Core(Following, m, core.rsp, core.cs, core.ss, core.gs, core.kernel_gs)
  BY <1>1, <1>6, <1>9 DEF Go, Following, Core, CoreShape, At
<1>12. CoreShape' /\ core'.pc = Following /\ core'.rsp = core.rsp /\ core'.cs = core.cs /\ core'.gs = core.gs
       /\ core'.kernel_gs = core.kernel_gs
  BY <1>1, <1>10, <1>11, CoreStep
<1> QED BY <1>1, <1>6, <1>7, <1>8, <1>12

LEMMA CallIrqStep == ASSUME EInv, IrqAt(3), Execute PROVE EInv' /\ ~User'
<1>1. /\ Dispatch /\ UNCHANGED <<running, iflag, sys, left>> /\ source' = None
      /\ UNCHANGED <<step, ist, idt>> /\ origin' = Zeroed
      /\ core'.pc = At("irq_common", 4) /\ core'.rsp = core.rsp /\ core'.cs = core.cs /\ core'.gs = core.gs
      /\ core'.kernel_gs = core.kernel_gs /\ CoreShape'
      /\ \/ UNCHANGED <<mem, g_cpu_local, rsp0, g_current, frame>>
         \/ \E t \in Threads \ {g_current} : Switches(t, origin)
  BY CallIrqEffect
<1>2. CoreShape /\ MemShape /\ InHandler /\ running \notin {None, Panic}
  BY IrqFacts
<1>3. Framed /\ Return(origin)
  BY DEF IrqAt
<1>4. SysShape /\ LeftShape /\ Order /\ ThreadsUp /\ Len(mem[<<"boot", 0>>]) >= 1
  BY DEF EInv, Shape
<1>5. InHandler'
  BY <1>1, <1>2, HandlerKept
<1>6. Order'
  BY <1>1, <1>4 DEF Order
<1>7. IsFrame(origin)'
  BY <1>1, ZeroedIsFrame
<1>8. PICK f : f = origin
  OBVIOUS
<1>9. Return(f) /\ FrameAt(core.rsp) = f /\ IsFrame(f)
  BY <1>3, <1>4, <1>8 DEF Return, Matches, BootCtx, Entering, Framed, LeftShape, IsFrame
<1>10. CASE UNCHANGED <<mem, g_cpu_local, rsp0, g_current, frame>>
  <2>1. MemShape' /\ SysShape' /\ ThreadsUp' /\ Len(mem'[<<"boot", 0>>]) >= 1
    BY <1>1, <1>2, <1>4, <1>10, SysKept, ThreadsKept DEF MemShape
  <2>2. LeftShape'
    BY <1>1, <1>4, <1>7, <1>10 DEF LeftShape
  <2>3. Return(f)'
    BY <1>1, <1>9, <1>10, ReturnStays
  <2>4. FrameAt(core.rsp)' = f
    BY <1>1, <1>9, <1>10, FrameWords, FrameWordsPrimed
  <2>5. Return(FrameAt(core.rsp))'
    BY <2>3, <2>4, ReturnOfFrame
  <2>6. Within(22)'
    BY <1>1, <1>3, <1>10 DEF Framed, Within
  <2>7. IrqAt(4)'
    BY <1>1, <1>2, <1>5, <2>5, <2>6 DEF IrqAt
  <2> QED BY <1>1, <1>6, <2>1, <2>2, <2>7, NotUser DEF EInv, Shape, Places, InIrq
<1>11. ASSUME NEW t \in Threads \ {g_current}, Switches(t, origin) PROVE EInv' /\ ~User'
  <2>1. /\ f["cs"][2] % 4 = 3 /\ g_current' = t /\ frame' = [frame EXCEPT ![g_current] = f]
        /\ g_cpu_local' = [g_cpu_local EXCEPT !.kernel_rsp = Sp("kernel", t)]
        /\ rsp0' = Sp("kernel", t) /\ mem' = Replaced(core.rsp, frame[t])
    BY <1>8, <1>11 DEF Switches
  <2>2. Matches(f, g_current) /\ GsUser /\ CallsUp
    <3>1. ~ (f["cs"] = Imm(KERNEL_CS))
      BY <2>1, TwoModes, Seconds
    <3> QED BY <1>9, <3>1 DEF Return
  <2>3. /\ g_current \in Threads
        /\ \A u \in Threads \ {g_current} : IsFrame(frame[u]) /\ Matches(frame[u], u)
    BY <1>2, <1>4 DEF ThreadsUp, InHandler
  <2>4. PICK h : h = frame[t]
    OBVIOUS
  <2>5. IsFrame(h) /\ Matches(h, t)
    BY <2>3, <2>4 DEF IsFrame, Matches
  <2>6. /\ MemShape' /\ FrameAt(core.rsp)' = h /\ core.rsp.depth = Len(mem'[core.rsp.stack])
        /\ \A s \in Stacks \ {core.rsp.stack} : mem'[s] = mem[s]
    <3>1. Within(22)
      BY <1>3 DEF Framed
    <3>2. mem' = Replaced(core.rsp, h)
      BY <2>1, <2>4
    <3> QED BY <1>1, <1>2, <2>5, <3>1, <3>2, ReplacedIs
  <2>7. core.rsp.depth \in Nat /\ core.rsp.depth >= 22
    BY <1>2, <1>3 DEF CoreShape, IsPtr, Framed, Within
  <2>8. Len(mem'[<<"boot", 0>>]) >= 1
    <3>1. OneStack
      BY <1>1, <2>6, <2>7 DEF OneStack
    <3> QED BY <1>4, <3>1, BootKept
  <2>9. SysShape' /\ g_cpu_local'.kernel_rsp = Sp("kernel", t)
    BY <1>1, <1>4, <2>1 DEF SysShape
  <2>10. /\ \A u \in Threads \ {g_current} : frame'[u] = frame[u]
         /\ frame'[g_current] = f /\ frame' = [u \in Threads |-> frame'[u]]
    BY <1>4, <2>1, <2>3 DEF LeftShape
  <2>11. LeftShape'
    BY <1>1, <1>4, <1>7, <2>10 DEF LeftShape
  <2>12. ThreadsUp'
    <3>1. ASSUME NEW u \in Threads \ {t} PROVE IsFrame(frame'[u]) /\ Matches(frame[u], u)'
      <4>1. CASE u = g_current
        <5>1. Matches(f, u)
          BY <2>2, <4>1 DEF Matches
        <5>2. Matches(f, u)'
          BY <1>1, <5>1 DEF Matches, Home
        <5> QED BY <1>9, <2>10, <4>1, <5>2 DEF Matches
      <4>2. CASE u # g_current
        <5>1. PICK w : w = frame[u]
          OBVIOUS
        <5>2. IsFrame(w) /\ Matches(w, u) /\ frame'[u] = w
          BY <2>3, <2>10, <4>2, <5>1 DEF Matches, IsFrame
        <5>3. Matches(w, u)'
          BY <1>1, <5>2 DEF Matches, Home
        <5> QED BY <5>2, <5>3 DEF Matches
      <4> QED BY <4>1, <4>2
    <3> QED BY <2>1, <2>9, <3>1 DEF ThreadsUp
  <2>13. Return(h)'
    <3>1. Matches(h, t)'
      BY <1>1, <2>5 DEF Matches, Home
    <3>2. GsUser' /\ CallsUp'
      BY <1>1, <2>2 DEF GsUser, CallsUp
    <3>3. Matches(h, g_current)'
      BY <2>1, <3>1 DEF Matches, Home
    <3> QED BY <3>2, <3>3 DEF Return
  <2>14. Return(FrameAt(core.rsp))'
    BY <2>6, <2>13, ReturnOfFrame
  <2>15. Within(22)'
    <3>1. core.rsp.depth <= Len(mem'[core.rsp.stack])
      BY <2>6, <2>7
    <3> QED BY <1>1, <1>3, <3>1 DEF Framed, Within
  <2>16. IrqAt(4)'
    BY <1>1, <1>2, <1>5, <2>14, <2>15 DEF IrqAt
  <2> QED BY <1>1, <1>6, <2>6, <2>8, <2>9, <2>11, <2>12, <2>16, NotUser DEF EInv, Shape, Places, InIrq
<1> QED BY <1>1, <1>10, <1>11

LEMMA BootTopIsPtr == IsPtr(BootTop)
BY DEF IsPtr, BootTop, Stacks

(* The end of an interrupt, in user mode or in kmain. *)
LEMMA IrqIretqStep == ASSUME IInv, EInv, IrqAt(6), Execute PROVE EInv' /\ (User' => Resumed') /\ iflag' = TRUE
<1>1. /\ core.pc.routine \in DOMAIN Code /\ Instr = <<"iretq">>
      /\ CoreShape /\ MemShape /\ InHandler /\ running \notin {None, Panic}
  BY IrqFacts
<1>2. Iretq
  <2>1. Instr[1] = "iretq"
    BY <1>1
  <2> QED BY <1>1, <2>1, Executes
<1>3. Within(5) /\ Return(Live(0)) /\ source = None
  BY DEF IrqAt
<1>4. SysShape /\ LeftShape /\ Order /\ ThreadsUp /\ Len(mem[<<"boot", 0>>]) >= 1
  BY DEF EInv, Shape
<1>5. step = "up"
  BY <1>1 DEF IInv, InvBoot, Quiet
<1>6. PICK f : f = Live(0)
  OBVIOUS
<1>7. /\ Pop(0) = f["rip"] /\ Pop(1) = f["cs"] /\ Pop(2) = f["rflags"] /\ Pop(3) = f["rsp"] /\ Pop(4) = f["ss"]
      /\ \A r \in Gprs : core.reg[r] = f[r]
  <2> QED BY <1>6, LiveIs
<1>8. Return(f)
  BY <1>3, <1>6 DEF Return, Matches, BootCtx, Entering
<1>9. Kernel
  BY <1>1 DEF InHandler
<1>10. g_current \in Threads
  BY <1>4, <1>5 DEF ThreadsUp
<1>11. CASE Matches(f, g_current) /\ GsUser /\ CallsUp
  <2>1. PICK p : p = Home(g_current)
    OBVIOUS
  <2>2. PICK t \in Threads : t = g_current
    BY <1>10
  <2>3. /\ Pop(0) = Rip(At("user", t)) /\ Pop(1) = Imm(USER_CS) /\ Pop(2) = Flags(TRUE)
        /\ Pop(3) = Rsp(p) /\ Pop(4) = Imm(USER_DS) /\ IsPtr(p) /\ p.stack = <<"user", t>>
        /\ \A r \in Gprs : core.reg[r] = left[t].regs[r]
        /\ left[t].how \in {"tick", "init"}
    BY <1>7, <1>11, <2>1, <2>2 DEF Matches
  <2>4. /\ core'.pc = At("user", t) /\ core'.reg = core.reg /\ core'.rsp = p /\ core'.cs = USER_CS
        /\ core'.ss = USER_DS /\ core'.gs = core.gs /\ core'.kernel_gs = core.kernel_gs
        /\ CoreShape' /\ MemShape' /\ Len(mem'[<<"boot", 0>>]) >= 1
        /\ iflag' = TRUE /\ running' = None /\ UNCHANGED <<boot, pics, lapic, source, kept>>
    <3>1. PICK r, cs, ss : r = "user" /\ cs = USER_CS /\ ss = USER_DS
      OBVIOUS
    <3>2. (cs = USER_CS /\ ss = USER_DS) \/ (cs = KERNEL_CS /\ ss = KERNEL_DS)
      BY <3>1
    <3>3. /\ Pop(0) = Rip(At(r, t)) /\ Pop(1) = Imm(cs) /\ Pop(2) = Flags(TRUE)
          /\ Pop(3) = Rsp(p) /\ Pop(4) = Imm(ss) /\ IsPtr(p)
      BY <2>3, <3>1
    <3>4. /\ core'.pc = At(r, t) /\ core'.reg = core.reg /\ core'.rsp = p /\ core'.cs = cs
          /\ core'.ss = ss /\ core'.gs = core.gs /\ core'.kernel_gs = core.kernel_gs
          /\ CoreShape' /\ MemShape' /\ Len(mem'[<<"boot", 0>>]) >= 1
          /\ iflag' = TRUE /\ running' = None /\ UNCHANGED <<boot, pics, lapic, source, kept>>
      BY <1>1, <1>2, <1>3, <1>4, <1>9, <3>2, <3>3, IretqEffect, ZenonT(60)
    <3> QED BY <3>1, <3>4
  <2>5. UNCHANGED <<step, ist, idt, sys, g_cpu_local, rsp0, g_current, frame, left, origin>>
    BY <2>4 DEF boot, kept
  <2>6. InUser'
    BY <1>5, <1>9, <1>11, <2>2, <2>3, <2>4, <2>5 DEF InUser, Kernel, TablesUp, CallsUp, GsUser
  <2>7. Resumed'
    <3>1. IsRegs(core.reg) /\ IsRegs(left[t].regs)
      BY <1>1, <1>4 DEF CoreShape, LeftShape
    <3>2. core.reg = left[t].regs
      BY <2>3, <3>1 DEF IsRegs
    <3>3. left' = left /\ g_current' = t
      BY <2>2, <2>5
    <3>4. p = IF left[t].how = "init" THEN Sp("user", t) ELSE left[t].rsp
      BY <2>1, <2>2 DEF Home
    <3> QED BY <2>3, <2>4, <3>2, <3>3, <3>4 DEF Resumed
  <2>8. SysShape' /\ LeftShape'
    BY <1>4, <2>5, SysKept, LeftKept
  <2>9. Order' /\ ThreadsUp'
    BY <1>4, <2>4, <2>5, ThreadsKept DEF Order
  <2> QED BY <2>4, <2>6, <2>7, <2>8, <2>9 DEF EInv, Shape, Places
<1>12. CASE /\ f["cs"] = Imm(KERNEL_CS) /\ f["ss"] = Imm(KERNEL_DS) /\ f["rflags"] = Flags(TRUE)
            /\ f["rsp"] = Rsp(BootTop)
            /\ \E pc \in {At("kmain", 1), At("kmain", 2), At("enter_user", 1)} : f["rip"] = Rip(pc) /\ BootCtx(pc, f)
  <2>1. PICK r, n : r \in {"kmain", "enter_user"} /\ f["rip"] = Rip(At(r, n)) /\ BootCtx(At(r, n), f)
    BY <1>12
  <2>2. PICK p : p = BootTop
    OBVIOUS
  <2>3. PICK cs, ss : cs = KERNEL_CS /\ ss = KERNEL_DS
    OBVIOUS
  <2>4. /\ Pop(0) = Rip(At(r, n)) /\ Pop(1) = Imm(cs) /\ Pop(2) = Flags(TRUE)
        /\ Pop(3) = Rsp(p) /\ Pop(4) = Imm(ss) /\ IsPtr(p)
    BY <1>7, <1>12, <2>1, <2>2, <2>3, BootTopIsPtr
  <2>5. /\ core'.pc = At(r, n) /\ core'.reg = core.reg /\ core'.rsp = p /\ core'.cs = cs
        /\ core'.ss = ss /\ core'.gs = core.gs /\ core'.kernel_gs = core.kernel_gs
        /\ CoreShape' /\ MemShape' /\ Len(mem'[<<"boot", 0>>]) >= 1
        /\ iflag' = TRUE /\ running' = None /\ UNCHANGED <<boot, pics, lapic, source, kept>>
    <3>1. (cs = USER_CS /\ ss = USER_DS) \/ (cs = KERNEL_CS /\ ss = KERNEL_DS)
      BY <2>3
    <3>2. Within(5) /\ CoreShape /\ MemShape /\ Kernel /\ Iretq /\ Len(mem[<<"boot", 0>>]) >= 1
      BY <1>1, <1>2, <1>3, <1>4, <1>9
    <3> QED BY <2>4, <3>1, <3>2, IretqEffect, ZenonT(60)
  <2>6. UNCHANGED <<step, ist, idt, sys, g_cpu_local, rsp0, g_current, frame, left, origin>>
    BY <2>5 DEF boot, kept
  <2>7. "rdi" \in Gprs /\ "rsi" \in Gprs
    BY GprsAre
  <2>8. BootCtx(core.pc, core.reg)'
    BY <1>7, <2>1, <2>5, <2>6, <2>7 DEF BootCtx, Entering, Entered, CallsUp
  <2>9. InKmain'
    BY <1>5, <1>9, <2>2, <2>3, <2>5, <2>6, <2>8 DEF InKmain, Kernel, TablesUp
  <2>10. ~User'
    BY <2>1, <2>5, NotUser
  <2>11. SysShape' /\ LeftShape'
    BY <1>4, <2>6, SysKept, LeftKept
  <2>12. Order' /\ ThreadsUp'
    BY <1>4, <2>5, <2>6, ThreadsKept DEF Order
  <2> QED BY <2>5, <2>9, <2>10, <2>11, <2>12 DEF EInv, Shape, Places
<1> QED BY <1>8, <1>11, <1>12 DEF Return

LEMMA IrqStep == ASSUME IInv, EInv, NEW n \in 1 .. 6, IrqAt(n), Execute PROVE EInv' /\ (User' => Resumed')
<1>1. n = 1 \/ n = 2 \/ n = 3 \/ n = 4 \/ n = 5 \/ n = 6
  OBVIOUS
<1>2. CASE n = 1
  BY <1>2, IrqPushStep
<1>3. CASE n = 2
  BY <1>3, IrqLeaStep
<1>4. CASE n = 3
  BY <1>4, CallIrqStep
<1>5. CASE n = 4
  BY <1>5, IrqPopStep
<1>6. CASE n = 5
  BY <1>6, IrqAddStep
<1>7. CASE n = 6
  BY <1>7, IrqIretqStep
<1> QED BY <1>1, <1>2, <1>3, <1>4, <1>5, <1>6, <1>7

-----------------------------------------------------------------------------
(* kmain goes to user mode by iretq only. *)
LEMMA FlushNotUser == ASSUME NEW n, FlushAt(n)' PROVE ~User'
BY DEF FlushAt, User, At
LEMMA KmainNotUser == InKmain' => ~User'
BY DEF InKmain, BootCtx, User, At

LEMMA FlushGoes == ASSUME EInv, NEW n \in 1 .. 8, FlushAt(n), Execute PROVE EInv' /\ ~User'
<1>1. n = 1 \/ n = 2 \/ n = 3 \/ n = 4 \/ n = 5 \/ n = 6 \/ n = 7 \/ n = 8
  OBVIOUS
<1>2. EInv'
  BY FlushStep
<1>3. (\E m : FlushAt(m)') \/ InKmain'
  BY <1>1, LgdtStep, FlushDsStep, FlushSsStep, FlushGsStep, FlushPushStep, RetfqStep, LtrStep, RetStep, Zenon
<1> QED BY <1>2, <1>3, FlushNotUser, KmainNotUser

LEMMA StartGoes == ASSUME EInv, Starting, Execute PROVE EInv' /\ ~User'
<1>1. EInv'
  BY StartStep
<1>2. GdtInit
  <2>1. core.pc = At("kmain", 0)
    BY DEF Starting
  <2>2. core.pc.routine = "kmain" /\ core.pc # At("kmain", 1) /\ core.pc # At("kmain", 2)
    BY <2>1 DEF At
  <2> QED BY <2>2, CodeIs, ExecutesElsewhere
<1>3. core = Core(core.pc, core.reg, core.rsp, core.cs, core.ss, core.gs, core.kernel_gs)
  BY DEF EInv, Shape, CoreShape, Core
<1>4. core'.pc = At("gdt_flush", 1)
  BY <1>2, <1>3 DEF GdtInit, Core
<1> QED BY <1>1, <1>4, NotUser

LEMMA KmainGoes == ASSUME EInv, InKmain, Execute PROVE EInv' /\ ~User'
<1>1. EInv'
  BY KmainStep
<1>2. core = Core(core.pc, core.reg, core.rsp, core.cs, core.ss, core.gs, core.kernel_gs)
  BY DEF EInv, Shape, CoreShape, Core
<1>3. CASE core.pc = At("kmain", 1)
  <2>1. core.pc.routine = "kmain" /\ core.pc # At("kmain", 0) /\ core.pc # At("kmain", 2)
    BY <1>3 DEF At
  <2>2. SetUp \/ BringUp \/ syscall_init
    BY <2>1, CodeIs, ExecutesElsewhere
  <2>3. core'.pc = At("kmain", 1) \/ core'.pc = At("kmain", 2)
    BY <1>2, <1>3, <2>2 DEF SetUp, BringUp, machine, syscall_init, Core
  <2> QED BY <1>1, <2>3, NotUser
<1>4. CASE core.pc = At("kmain", 2)
  <2>1. core.pc.routine = "kmain" /\ core.pc # At("kmain", 0) /\ core.pc # At("kmain", 1)
    BY <1>4 DEF At
  <2>2. EnterUser
    BY <2>1, CodeIs, ExecutesElsewhere
  <2>3. core'.pc = At("enter_user", 1)
    BY <1>2, <2>2 DEF EnterUser, Core
  <2> QED BY <1>1, <2>3, NotUser
<1>5. CASE core.pc = At("enter_user", 1)
  <2>1. core.pc.routine \in DOMAIN Code /\ Instr = enter_user[1]
    BY <1>5, AtIs, CodeIs
  <2>2. Instr[1] = "cli"
    <3>1. Instr = <<"cli">>
      BY <2>1, EnterUserIs
    <3> QED BY <3>1
  <2>3. Cli
    BY <2>1, <2>2, Executes
  <2>4. core'.pc = At("enter_user", 2)
    BY <1>2, <1>5, <2>3 DEF Cli, Go, Core, At
  <2> QED BY <1>1, <2>4, NotUser
<1> QED BY <1>3, <1>4, <1>5 DEF InKmain, BootCtx

(* Every instruction and every C function. *)
LEMMA ExecuteStep == ASSUME IInv, EInv, Execute PROVE EInv' /\ (~User /\ User' => Resumed')
<1>1. CASE InGdt
  BY <1>1, StartGoes, FlushGoes DEF InGdt
<1>2. CASE InKmain
  BY <1>2, KmainGoes
<1>3. CASE InEnter
  BY <1>3, EnterStep DEF InEnter
<1>4. CASE InUser
  <2>1. User
    BY <1>4 DEF InUser, User, At
  <2> QED BY <1>4, <2>1, InUserStep
<1>5. CASE InSyscall
  BY <1>5, SysStep DEF InSyscall
<1>6. CASE InStub
  BY <1>6, StubStep DEF InStub
<1>7. CASE InIsr
  BY <1>7, IsrStep DEF InIsr
<1>8. CASE InIrq
  BY <1>8, IrqStep DEF InIrq
<1>9. CASE Stopped
  BY <1>9, StoppedStep
<1> QED BY <1>1, <1>2, <1>3, <1>4, <1>5, <1>6, <1>7, <1>8, <1>9 DEF EInv, Places

-----------------------------------------------------------------------------
(* The processor's part: what it puts on which stack. *)
(* Words that are below the top of a stack and were never written. *)
LEMMA PadIs ==
    ASSUME NEW k \in Int
    PROVE  LET pad == [i \in 1 .. k |-> Junk] IN
           pad \in Seq({Junk}) /\ Len(pad) = IF k >= 0 THEN k ELSE 0
<1> DEFINE pad == [i \in 1 .. k |-> Junk]
           n == IF k >= 0 THEN k ELSE 0
<1>1. n \in Nat /\ 1 .. k = 1 .. n
  OBVIOUS
<1>2. pad \in [1 .. n -> {Junk}]
  BY <1>1
<1> HIDE DEF pad, n
<1>3. pad \in Seq({Junk})
  BY <1>1, <1>2, SeqDef
<1>4. Len(pad) = n
  BY <1>1, <1>2, <1>3, LenProperties
<1> QED BY <1>3, <1>4 DEF pad, n

LEMMA Padded ==
    ASSUME NEW s, IsSeq(s), NEW d \in Nat, NEW pad, pad = [i \in 1 .. d - Len(s) |-> Junk]
    PROVE  IsSeq(s \o pad) /\ d \in 0 .. Len(s \o pad)
<1>1. PICK S : s \in Seq(S)
  BY SeqOfSome
<1>2. Len(s) \in Nat
  BY <1>1, LenProperties
<1>3. pad \in Seq({Junk}) /\ Len(pad) = IF d - Len(s) >= 0 THEN d - Len(s) ELSE 0
  <2>1. d - Len(s) \in Int
    BY <1>2
  <2> QED BY <2>1, PadIs
<1> DEFINE T == S \cup {Junk}
<1>4. s \in Seq(T) /\ pad \in Seq(T)
  BY <1>1, <1>3, SeqMonotonic
<1> HIDE DEF T
<1>5. s \o pad \in Seq(T) /\ Len(s \o pad) = Len(s) + Len(pad)
  BY <1>4, ConcatProperties
<1>6. IsSeq(s \o pad)
  BY <1>5, SeqOf
<1>7. d \in 0 .. Len(s \o pad)
  <2>1. PICK a, b, c : a = Len(s) /\ b = Len(pad) /\ c = Len(s \o pad)
    OBVIOUS
  <2>2. a \in Nat /\ c = a + b /\ b = IF d - a >= 0 THEN d - a ELSE 0
    BY <1>2, <1>3, <1>5, <2>1
  <2>3. d \in 0 .. c
    BY <2>2
  <2> QED BY <2>1, <2>3
<1> QED BY <1>6, <1>7

(* The words of an interrupt, with an error code or without. *)
Delivery(v) == Five \o IF v \in ErrorCode THEN << <<"error", v>> >> ELSE <<>>

LEMMA WordsPushed ==
    ASSUME NEW v, NEW ws, ws = Delivery(v)
    PROVE  /\ IsSeq(ws) /\ Len(ws) = 5 + Coded(v)
           /\ ws[1] = Imm(core.ss) /\ ws[2] = Rsp(core.rsp) /\ ws[3] = Flags(iflag) /\ ws[4] = Imm(core.cs)
           /\ ws[5] = Rip(core.pc) /\ (v \in ErrorCode => ws[6] = <<"error", v>>)
<1>p. PICK a1, a2, a3, a4, a5, e : /\ a1 = Imm(core.ss) /\ a2 = Rsp(core.rsp) /\ a3 = Flags(iflag)
                                   /\ a4 = Imm(core.cs) /\ a5 = Rip(core.pc) /\ e = <<"error", v>>
  OBVIOUS
<1> DEFINE T == {a1, a2, a3, a4, a5, e}
           f == <<a1, a2, a3, a4, a5>>
           g == IF v \in ErrorCode THEN <<e>> ELSE <<>>
<1>1. f \in Seq(T) /\ Len(f) = 5 /\ f[1] = a1 /\ f[2] = a2 /\ f[3] = a3 /\ f[4] = a4 /\ f[5] = a5
  OBVIOUS
<1>2. <<e>> \in Seq(T) /\ Len(<<e>>) = 1 /\ <<e>>[1] = e
  OBVIOUS
<1>3. <<>> \in Seq(T) /\ Len(<<>>) = 0
  BY EmptySeq
<1>4. g \in Seq(T) /\ Len(g) = Coded(v) /\ (v \in ErrorCode => g[1] = e)
  <2>1. CASE v \in ErrorCode
    <3>1. g = <<e>> /\ Coded(v) = 1
      BY <2>1 DEF Coded
    <3> HIDE DEF T, g
    <3> QED BY <1>2, <3>1
  <2>2. CASE v \notin ErrorCode
    <3>1. g = <<>> /\ Coded(v) = 0
      BY <2>2 DEF Coded
    <3> HIDE DEF T, g
    <3> QED BY <1>3, <2>2, <3>1, Zenon
  <2> QED BY <2>1, <2>2
<1>5. ws = f \o g
  BY <1>p DEF Delivery, Five
<1> HIDE DEF T, f, g
<1>6. /\ ws \in Seq(T) /\ Len(ws) = Len(f) + Len(g)
      /\ \A i \in 1 .. Len(f) + Len(g) : ws[i] = IF i <= Len(f) THEN f[i] ELSE g[i - Len(f)]
  <2>1. f \in Seq(T) /\ g \in Seq(T)
    BY <1>1, <1>4
  <2>2. /\ f \o g \in Seq(T) /\ Len(f \o g) = Len(f) + Len(g)
        /\ \A i \in 1 .. Len(f) + Len(g) : (f \o g)[i] = IF i <= Len(f) THEN f[i] ELSE g[i - Len(f)]
    BY <2>1, ConcatProperties
  <2> QED BY <1>5, <2>2, Zenon
<1>7. Coded(v) \in 0 .. 1 /\ (v \in ErrorCode => Coded(v) = 1)
  BY DEF Coded
<1>8. PICK k \in 0 .. 1 : k = Coded(v)
  BY <1>7
<1>9. \A i \in 1 .. 5 + k : ws[i] = IF i <= 5 THEN f[i] ELSE g[i - 5]
  BY <1>1, <1>4, <1>6, <1>8
<1>10. ws[1] = f[1] /\ ws[2] = f[2] /\ ws[3] = f[3] /\ ws[4] = f[4] /\ ws[5] = f[5]
  BY <1>9
<1>11. v \in ErrorCode => ws[6] = g[1]
  BY <1>7, <1>8, <1>9
<1>12. IsSeq(ws)
  BY <1>6, SeqOf
<1>13. ws[1] = a1 /\ ws[2] = a2 /\ ws[3] = a3 /\ ws[4] = a4 /\ ws[5] = a5
  BY <1>1, <1>10
<1>14. Len(ws) = 5 + Coded(v) /\ (v \in ErrorCode => ws[6] = e)
  BY <1>1, <1>4, <1>6, <1>11
<1> QED BY <1>p, <1>12, <1>13, <1>14

(* Where they are then: Filled is the stacks with ws on the words below p, padded
   if there are fewer; q the new top. *)
Filled(p, ws) ==
    [mem EXCEPT ![p.stack] =
        SubSeq(mem[p.stack] \o [i \in 1 .. p.depth - Len(mem[p.stack]) |-> Junk], 1, p.depth) \o ws]
LiesOn(p, ws, m, q) ==
    /\ m = [s \in Stacks |-> m[s]] /\ \A s \in Stacks : IsSeq(m[s])
    /\ \A s \in Stacks \ {p.stack} : m[s] = mem[s]
    /\ IsPtr(q) /\ q.stack = p.stack /\ q.depth = p.depth + Len(ws) /\ q.depth = Len(m[q.stack])
    /\ \A i \in 0 .. Len(ws) - 1 : m[q.stack][q.depth - i] = ws[Len(ws) - i]

LEMMA Delivered ==
    ASSUME MemShape, NEW p, IsPtr(p), NEW ws, IsSeq(ws)
    PROVE  LiesOn(p, ws, Filled(p, ws), Deeper(p, Len(ws)))
<1> DEFINE m == Filled(p, ws)
           q == Deeper(p, Len(ws))
<1>1. p.stack \in Stacks /\ p.depth \in Nat /\ p = [stack |-> p.stack, depth |-> p.depth]
  BY DEF IsPtr
<1> DEFINE w == mem[p.stack]
           pad == [i \in 1 .. p.depth - Len(w) |-> Junk]
           s0 == w \o pad
           d == p.depth
           t == SubSeq(s0, 1, d) \o ws
<1>2. IsSeq(w)
  BY <1>1 DEF MemShape
<1>3. IsSeq(s0) /\ d \in 0 .. Len(s0)
  <2>1. d \in Nat
    BY <1>1
  <2> HIDE DEF w
  <2> QED BY <1>2, <2>1, Padded
<1> HIDE DEF s0
<1>4. /\ IsSeq(t) /\ Len(t) = d + Len(ws) /\ Len(ws) \in Nat
      /\ \A i \in 1 .. Len(ws) : t[d + i] = ws[i]
  <2> HIDE DEF d
  <2> QED BY <1>3, Stacked
<1>5. m = [mem EXCEPT ![p.stack] = t]
  BY DEF s0, Filled
<1>6. DOMAIN mem = Stacks
  BY DEF MemShape
<1> HIDE DEF t
<1>7. m[p.stack] = t /\ (\A s \in Stacks \ {p.stack} : m[s] = mem[s]) /\ m = [s \in Stacks |-> m[s]]
  BY <1>1, <1>5, <1>6
<1>8. \A s \in Stacks : IsSeq(m[s])
  BY <1>4, <1>7 DEF MemShape
<1>9. q = [stack |-> p.stack, depth |-> d + Len(ws)]
  BY <1>1 DEF Deeper
<1>10. /\ q.stack = p.stack /\ q.depth = d + Len(ws) /\ IsPtr(q) /\ q.depth = Len(m[q.stack])
  BY <1>1, <1>4, <1>7, <1>9 DEF IsPtr
<1>11. ASSUME NEW i \in 0 .. Len(ws) - 1 PROVE m[q.stack][q.depth - i] = ws[Len(ws) - i]
  <2>1. PICK k \in Nat : k = Len(ws)
    BY <1>4
  <2>2. k - i \in 1 .. k /\ d + (k - i) = (d + k) - i
    BY <1>1, <2>1
  <2>3. t[d + (k - i)] = ws[k - i]
    BY <1>4, <2>1, <2>2
  <2> QED BY <1>7, <1>10, <2>1, <2>2, <2>3
<1> HIDE DEF m, q
<1>12. LiesOn(p, ws, m, q)
  BY <1>7, <1>8, <1>10, <1>11 DEF LiesOn
<1> QED BY <1>12 DEF m, q

LEMMA FieldNames ==
    /\ Fields = Gprs \cup {"vector", "error", "rip", "cs", "rflags", "rsp", "ss"}
    /\ \A x \in {"vector", "error", "rip", "cs", "rflags", "rsp", "ss"} : x \in Fields /\ x \notin Gprs
BY GprsAre DEF Fields

(* What the handler is to see, and that the stub finds it on the stack. *)
LEMMA ShownIs ==
    ASSUME NEW v
    PROVE  /\ IsFrame(Shown(v)) /\ Shown(v)["vector"] = Imm(v)
           /\ Shown(v)["error"] = IF v \in ErrorCode THEN <<"error", v>> ELSE Imm(0)
           /\ Shown(v)["rip"] = Rip(core.pc) /\ Shown(v)["cs"] = Imm(core.cs) /\ Shown(v)["rflags"] = Flags(iflag)
           /\ Shown(v)["rsp"] = Rsp(core.rsp) /\ Shown(v)["ss"] = Imm(core.ss)
           /\ \A r \in Gprs : Shown(v)[r] = core.reg[r]
<1>1. IsFrame(Shown(v))
  BY DEF IsFrame, Shown, Fields
<1>2. Shown(v)["vector"] = Imm(v) /\ Shown(v)["error"] = IF v \in ErrorCode THEN <<"error", v>> ELSE Imm(0)
  BY FieldNames DEF Shown
<1>3. /\ Five[1] = Imm(core.ss) /\ Five[2] = Rsp(core.rsp) /\ Five[3] = Flags(iflag) /\ Five[4] = Imm(core.cs)
      /\ Five[5] = Rip(core.pc)
  BY DEF Five
<1>4. /\ Shown(v)["rip"] = Five[5] /\ Shown(v)["cs"] = Five[4] /\ Shown(v)["rflags"] = Five[3]
      /\ Shown(v)["rsp"] = Five[2] /\ Shown(v)["ss"] = Five[1]
  BY FieldNames DEF Shown
<1>5. ASSUME NEW r \in Gprs PROVE Shown(v)[r] = core.reg[r]
  <2>1. r \notin {"vector", "error", "rip", "cs", "rflags", "rsp", "ss"}
    BY GprsAre
  <2> QED BY <2>1 DEF Shown
<1> QED BY <1>1, <1>2, <1>3, <1>4, <1>5

(* After the delivery the processor is at the stub of the vector. *)
LEMMA DeliverStub ==
    ASSUME EInv, NEW v, v \in Stubs, CanDeliver(v), Deliver(v), NEW p, IsPtr(p), p = Target(v), p.depth \in {0, 2},
           p.stack = <<"boot", 0>> => p.depth = 2, step' # "gdt_init", TablesUp, iflag' = FALSE,
           IF v < 32 THEN running' = Panic ELSE running' = v /\ source' # None /\ Return(origin)'
    PROVE  StubAt(v)' /\ CoreShape' /\ MemShape' /\ Len(mem'[<<"boot", 0>>]) >= 1 /\ ~User'
<1>1. CoreShape /\ MemShape /\ Len(mem[<<"boot", 0>>]) >= 1
  BY DEF EInv, Shape
<1>2. PICK ws : ws = Delivery(v)
  OBVIOUS
<1>3. /\ mem' = Filled(p, ws)
      /\ core' = [core EXCEPT !.pc = At("stub", v), !.cs = KERNEL_CS, !.ss = IF Cpl = 3 THEN 0 ELSE @,
                              !.rsp = Deeper(p, Len(ws))]
      /\ origin' = Shown(v) /\ UNCHANGED sys
  BY <1>2 DEF Deliver, Delivery, Filled
<1>4. /\ IsSeq(ws) /\ Len(ws) = 5 + Coded(v) /\ ws[1] = Imm(core.ss) /\ ws[2] = Rsp(core.rsp)
      /\ ws[3] = Flags(iflag) /\ ws[4] = Imm(core.cs) /\ ws[5] = Rip(core.pc)
      /\ v \in ErrorCode => ws[6] = <<"error", v>>
  BY <1>2, WordsPushed, Zenon
<1>5. PICK q : q = Deeper(p, Len(ws))
  OBVIOUS
<1>6. /\ mem' = [s \in Stacks |-> mem'[s]] /\ \A s \in Stacks : IsSeq(mem'[s])
      /\ \A s \in Stacks \ {p.stack} : mem'[s] = mem[s]
      /\ IsPtr(q) /\ q.stack = p.stack /\ q.depth = p.depth + Len(ws) /\ q.depth = Len(mem'[q.stack])
      /\ \A i \in 0 .. Len(ws) - 1 : mem'[q.stack][q.depth - i] = ws[Len(ws) - i]
  <2>1. LiesOn(p, ws, mem', q)
    BY <1>1, <1>3, <1>4, <1>5, Delivered, Zenon
  <2> QED BY <2>1, Zenon DEF LiesOn
<1>7. PICK ss : core' = Core(At("stub", v), core.reg, q, KERNEL_CS, ss, core.gs, core.kernel_gs)
  <2>1. PICK ss : ss = IF Cpl = 3 THEN 0 ELSE core.ss
    OBVIOUS
  <2> QED BY <1>1, <1>3, <1>5, <2>1 DEF CoreShape, Core
<1>8. core'.pc = At("stub", v) /\ core'.reg = core.reg /\ core'.rsp = q /\ core'.cs = KERNEL_CS
  BY <1>7 DEF Core
<1>9. CoreShape'
  <2>1. At("stub", v) = At(At("stub", v).routine, At("stub", v).at)
    BY DEF At
  <2> QED BY <1>1, <1>6, <1>7, <2>1 DEF Core, CoreShape
<1>10. MemShape'
  BY <1>6 DEF MemShape
<1>11. Coded(v) \in 0 .. 1 /\ (v \in ErrorCode => Coded(v) = 1)
  BY DEF Coded
<1>12. PICK k \in 0 .. 1 : k = Coded(v)
  BY <1>11
<1>13. q.depth = p.depth + (5 + k) /\ p.depth \in {0, 2}
  BY <1>4, <1>6, <1>12
<1>14. Within(5 + Coded(v))'
  <2>1. q.depth >= 5 + k /\ q.depth <= Len(mem'[q.stack]) /\ (q.stack = <<"boot", 0>> => q.depth > 5 + k)
    BY <1>6, <1>13
  <2> QED BY <1>8, <1>12, <2>1 DEF Within
<1>15. (core'.rsp.depth - (5 + Coded(v))) % 2 = 0
  BY <1>8, <1>12, <1>13
<1>16. ASSUME NEW i \in 0 .. 4 + k PROVE Pop(i)' = ws[(5 + k) - i]
  <2>1. i \in 0 .. (5 + k) - 1
    OBVIOUS
  <2> QED BY <1>4, <1>6, <1>8, <1>12, <2>1 DEF Pop
<1>17. /\ Pop(k)' = ws[5] /\ Pop(k + 1)' = ws[4] /\ Pop(k + 2)' = ws[3] /\ Pop(k + 3)' = ws[2] /\ Pop(k + 4)' = ws[1]
  <2>1. \A j \in 0 .. 4 : k + j \in 0 .. 4 + k /\ (5 + k) - (k + j) = 5 - j
    OBVIOUS
  <2>2. \A j \in 0 .. 4 : Pop(k + j)' = ws[5 - j]
    BY <1>16, <2>1
  <2>3. Pop(k + 0)' = ws[5 - 0] /\ Pop(k + 1)' = ws[5 - 1] /\ Pop(k + 2)' = ws[5 - 2] /\ Pop(k + 3)' = ws[5 - 3]
        /\ Pop(k + 4)' = ws[5 - 4]
    BY <2>2
  <2>4. k + 0 = k
    OBVIOUS
  <2> QED BY <2>3, <2>4
<1>18. PICK f : f = Shown(v)
  OBVIOUS
<1>19. /\ f["vector"] = Imm(v) /\ f["error"] = IF v \in ErrorCode THEN <<"error", v>> ELSE Imm(0)
       /\ f["rip"] = ws[5] /\ f["cs"] = ws[4] /\ f["rflags"] = ws[3] /\ f["rsp"] = ws[2] /\ f["ss"] = ws[1]
       /\ \A r \in Gprs : f[r] = core.reg[r]
  BY <1>4, <1>18, ShownIs
<1>20. origin' = f
  BY <1>3, <1>18
<1>21. FiveAre(origin, Coded(v))'
  BY <1>12, <1>17, <1>19, <1>20 DEF FiveAre
<1>22. v \in ErrorCode => Pop(0)' = <<"error", v>>
  <2>1. ASSUME v \in ErrorCode PROVE Pop(0)' = ws[6]
    <3>1. k = 1
      BY <1>11, <1>12, <2>1
    <3> QED BY <1>16, <3>1
  <2> QED BY <1>4, <2>1
<1>23. RegsAre(origin)'
  BY <1>8, <1>19, <1>20 DEF RegsAre
<1>24. InHandler'
  BY <1>3, <1>8 DEF InHandler, Kernel, TablesUp
<1>25. StubAt(v)'
  BY <1>8, <1>14, <1>15, <1>19, <1>20, <1>21, <1>22, <1>23, <1>24 DEF StubAt
<1>26. Len(mem'[<<"boot", 0>>]) >= 1
  <2>1. CASE p.stack = <<"boot", 0>>
    <3>1. q.depth >= 1
      BY <1>13
    <3> QED BY <1>6, <2>1, <3>1
  <2>2. CASE p.stack # <<"boot", 0>>
    BY <1>1, <1>6, <2>2 DEF Stacks
  <2> QED BY <2>1, <2>2
<1>27. ~User'
  BY <1>8, NotUser
<1> QED BY <1>9, <1>10, <1>25, <1>26, <1>27

(* Where user code runs, and where interrupts are enabled. *)
LEMMA WhereUser == EInv /\ User => InUser
<1> SUFFICES ASSUME EInv, User PROVE InUser
  OBVIOUS
<1>1. ~Starting /\ ~InKmain /\ ~Stopped
  BY DEF User, At, Starting, InKmain, BootCtx, Stopped
<1>2. \A n : ~FlushAt(n) /\ ~EnterAt(n) /\ ~SysAt(n)
  <2>1. \A n : ~FlushAt(n)
    BY DEF User, At, FlushAt
  <2>2. ASSUME NEW n, EnterAt(n) PROVE FALSE
    <3>1. core.pc = At("enter_user", n)
      BY <2>2 DEF EnterAt
    <3>2. core.pc.routine = "enter_user"
      BY <3>1 DEF At
    <3> QED BY <3>2 DEF User
  <2>3. ASSUME NEW n, SysAt(n) PROVE FALSE
    <3>1. core.pc = At("syscall_entry", n)
      BY <2>3 DEF SysAt
    <3>2. core.pc.routine = "syscall_entry"
      BY <3>1 DEF At
    <3> QED BY <3>2 DEF User
  <2> QED BY <2>1, <2>2, <2>3
<1>3. \A n : ~StubAt(n) /\ ~IsrAt(n) /\ ~IrqAt(n)
  BY DEF User, At, StubAt, IsrAt, IrqAt
<1> QED BY <1>1, <1>2, <1>3 DEF EInv, Places, InGdt, InEnter, InSyscall, InStub, InIsr, InIrq

LEMMA WhereEnabled == EInv /\ iflag => InKmain \/ InUser
<1> SUFFICES ASSUME EInv, iflag PROVE InKmain \/ InUser
  OBVIOUS
<1>1. ~InGdt /\ ~InEnter /\ ~InSyscall
  BY DEF InGdt, Starting, FlushAt, Early, InEnter, EnterAt, Shut, InSyscall, SysAt
<1>2. ~InStub /\ ~InIsr /\ ~InIrq /\ ~Stopped
  BY DEF InStub, StubAt, InIsr, IsrAt, InIrq, IrqAt, InHandler, Stopped
<1> QED BY <1>1, <1>2 DEF EInv, Places

LEMMA WhereTables == EInv /\ step # "gdt_init" => TablesUp
<1> SUFFICES ASSUME EInv, step # "gdt_init" PROVE TablesUp
  OBVIOUS
<1>1. ~InGdt
  BY DEF InGdt, Starting, FlushAt, Early
<1>2. InKmain \/ InEnter \/ InUser \/ InSyscall => TablesUp
  BY DEF InKmain, InEnter, EnterAt, InUser, InSyscall, SysAt, Shut, Kernel
<1>3. InStub \/ InIsr \/ InIrq \/ Stopped => TablesUp
  BY DEF InStub, StubAt, InIsr, IsrAt, InIrq, IrqAt, InHandler, Stopped, Kernel
<1> QED BY <1>1, <1>2, <1>3 DEF EInv, Places

(* With its gate there, an interrupt that comes where it can finds a stack. *)
LEMMA GateIs ==
    ASSUME IInv, EInv, NEW v, v \in Stubs, idt[v] # None
    PROVE  step \notin {"gdt_init", "idt_init"} /\ idt[v] = Gate(v) /\ ist = Purpose /\ CanDeliver(v)
<1>1. v \in 0 .. 255
  BY DEF Stubs
<1>2. step \notin {"gdt_init", "idt_init"}
  BY <1>1 DEF EInv, Order
<1>3. step \in {"irq_init", "timer_init", "idt_enable", "up"}
  BY <1>2 DEF IInv, InvType, Steps
<1>4. idt[v] = Gate(v)
  BY <1>1, <1>3 DEF IInv, InvBoot
<1>5. ist = Purpose
  BY <1>2 DEF EInv, Order
<1>6. TablesUp
  BY <1>2, WhereTables
<1>7. CodeSuits(KERNEL_CS)
  BY <1>6, Suits DEF TablesUp
<1> QED BY <1>2, <1>4, <1>5, <1>6, <1>7 DEF CanDeliver, TablesUp

LEMMA TargetIs ==
    ASSUME IInv, EInv, NEW v, v \in Stubs, idt[v] # None, v \in {2, 14} \/ InUser \/ InKmain,
           NEW p, p = Target(v)
    PROVE  IsPtr(p) /\ p.depth \in {0, 2} /\ (p.stack = <<"boot", 0>> => p.depth = 2)
<1>1. step # "gdt_init" /\ idt[v] = Gate(v) /\ ist = Purpose /\ TablesUp
  BY GateIs, WhereTables
<1>2. CASE v \in {2, 8, 14}
  <2>1. Gate(v) \in {1, 2} /\ Gate(v) # 0
    BY <1>2 DEF Gate
  <2>2. PICK i \in {1, 2} : i = Gate(v)
    BY <2>1
  <2>3. Target(v) = Sp(Purpose[i], 0)
    BY <1>1, <2>1, <2>2 DEF Target
  <2>4. Purpose[i] # "boot" /\ <<Purpose[i], 0>> \in Stacks
    BY DEF Purpose, Stacks
  <2>5. p = [stack |-> <<Purpose[i], 0>>, depth |-> 0]
    BY <2>3 DEF Sp
  <2> QED BY <2>4, <2>5 DEF IsPtr
<1>3. CASE v \notin {2, 8, 14}
  <2>1. Gate(v) = 0
    BY <1>1, <1>3 DEF Gate
  <2>2. CASE InUser
    <3>1. Cpl = 3
      BY <2>2, TwoModes DEF InUser, Cpl
    <3>2. rsp0 = Sp("kernel", g_current) /\ g_current \in Threads
      BY <1>1 DEF EInv, ThreadsUp
    <3>3. p = [stack |-> <<"kernel", g_current>>, depth |-> 0]
      BY <1>1, <2>1, <3>1, <3>2 DEF Target, Sp
    <3>4. <<"kernel", g_current>> \in Stacks
      BY <3>2 DEF Stacks
    <3> QED BY <3>3, <3>4 DEF IsPtr
  <2>3. CASE InKmain
    <3>1. Cpl = 0 /\ core.rsp = BootTop
      BY <2>3, TwoModes DEF InKmain, Kernel, Cpl
    <3>2. p = Deeper(BootTop, 1)
      BY <1>1, <2>1, <3>1 DEF Target, BootTop
    <3>3. p = [stack |-> <<"boot", 0>>, depth |-> 2]
      BY <3>2 DEF Deeper, BootTop
    <3> QED BY <3>3, BootTopIsPtr DEF IsPtr, BootTop
  <2> QED BY <1>3, <2>2, <2>3
<1> QED BY <1>2, <1>3

(* What the model remembers of the context that is interrupted. *)
LEMMA DeliverLeft ==
    ASSUME EInv, NEW v, Deliver(v), step # "gdt_init"
    PROVE  /\ LeftShape' /\ UNCHANGED <<frame, sys, g_cpu_local, rsp0, g_current>>
           /\ g_current \in Threads /\ \A t \in Threads \ {g_current} : left'[t] = left[t]
           /\ User => left'[g_current].how = "tick" /\ left'[g_current].regs = core.reg
                      /\ left'[g_current].rsp = core.rsp
           /\ ~User => left' = left
<1>1. /\ origin' = Shown(v)
      /\ left' = IF User THEN [left EXCEPT ![g_current] = [how |-> "tick", regs |-> core.reg, rsp |-> core.rsp]]
                 ELSE left
      /\ UNCHANGED <<frame, sys, g_cpu_local, rsp0, g_current>>
  BY DEF Deliver
<1>2. LeftShape /\ CoreShape /\ g_current \in Threads
  BY DEF EInv, Shape, ThreadsUp
<1>3. IsFrame(origin)'
  <2>1. IsFrame(Shown(v))
    BY ShownIs
  <2>2. PICK f : f = Shown(v)
    OBVIOUS
  <2>3. f = [x \in Fields |-> f[x]] /\ origin' = f
    BY <1>1, <2>1, <2>2 DEF IsFrame
  <2> QED BY <2>3 DEF IsFrame
<1>4. CASE User
  <2>1. PICK regs, rsp, t : regs = core.reg /\ rsp = core.rsp /\ t = g_current
    OBVIOUS
  <2>2. IsRegs(regs)
    BY <1>2, <2>1 DEF CoreShape
  <2>3. t \in Threads /\ left' = [left EXCEPT ![t] = [how |-> "tick", regs |-> regs, rsp |-> rsp]]
    BY <1>1, <1>2, <1>4, <2>1
  <2>4. LeftShape'
    BY <1>1, <1>2, <1>3, <2>2, <2>3, LeftSet
  <2>5. \A u \in Threads \ {t} : left'[u] = left[u]
    BY <1>2, <2>3 DEF LeftShape
  <2>6. left'[t] = [how |-> "tick", regs |-> regs, rsp |-> rsp]
    BY <1>2, <2>3 DEF LeftShape
  <2>7. left'[t].how = "tick" /\ left'[t].regs = regs /\ left'[t].rsp = rsp
    BY <2>6
  <2> QED BY <1>1, <1>2, <1>4, <2>1, <2>4, <2>5, <2>7
<1>5. CASE ~User
  <2>1. left' = left
    BY <1>1, <1>5
  <2>2. LeftShape'
    BY <1>1, <1>2, <1>3, <2>1 DEF LeftShape
  <2> QED BY <1>1, <1>2, <1>5, <2>1, <2>2
<1> QED BY <1>4, <1>5

(* What the controllers leave of boot to the processor. *)
LEMMA DeliverEInv ==
    ASSUME IInv, EInv, NEW v, v \in Stubs, idt[v] # None, v \in {2, 14} \/ InUser \/ InKmain, Deliver(v),
           UNCHANGED <<step, ist, idt>>, iflag' = FALSE,
           IF v < 32 THEN running' = Panic ELSE running' = v /\ source' # None /\ Return(origin)'
    PROVE  EInv' /\ ~User'
<1>1. step \notin {"gdt_init", "idt_init"} /\ ist = Purpose /\ CanDeliver(v) /\ TablesUp
  BY GateIs, WhereTables
<1>2. PICK p : p = Target(v)
  OBVIOUS
<1>3. IsPtr(p) /\ p.depth \in {0, 2} /\ (p.stack = <<"boot", 0>> => p.depth = 2)
  BY <1>2, TargetIs
<1>4. StubAt(v)' /\ CoreShape' /\ MemShape' /\ Len(mem'[<<"boot", 0>>]) >= 1 /\ ~User'
  <2>1. step' # "gdt_init"
    BY <1>1
  <2> QED BY <1>1, <1>2, <1>3, <2>1, DeliverStub
<1>5. /\ LeftShape' /\ UNCHANGED <<frame, sys, g_cpu_local, rsp0, g_current>>
      /\ \A t \in Threads \ {g_current} : left'[t] = left[t]
  BY <1>1, DeliverLeft
<1>6. SysShape' /\ Order'
  BY <1>1, <1>5 DEF EInv, Shape, SysShape, Order
<1>7. ThreadsUp'
  BY <1>5, ThreadsLeft DEF EInv
<1>8. Shape'
  BY <1>4, <1>5, <1>6 DEF Shape
<1>9. InStub'
  <2>1. v \in Stubs /\ StubAt(v)'
    BY <1>4
  <2> QED BY <2>1 DEF InStub
<1> QED BY <1>4, <1>6, <1>7, <1>8, <1>9 DEF EInv, Places

(* An exception: an NMI anywhere, others where user code runs, or 14. *)
LEMMA FailsStep == ASSUME IInv, EInv, NEW v \in Exceptions, Fails(v) PROVE IInv' /\ EInv' /\ ~User'
<1>1. PICK u : u = v
  OBVIOUS
<1>2. Happens(u) /\ Exception(u) /\ Deliver(u) /\ u \in 0 .. 31 /\ u \in Exceptions
  BY <1>1, ExceptionsAssumption DEF Fails
<1>3. u \in Stubs /\ u < 32
  BY <1>2 DEF Stubs
<1>4. u \in {2, 14} \/ InUser
  BY <1>2, WhereUser DEF Happens
<1>5. idt[u] # None /\ running' = Panic /\ iflag' = FALSE /\ UNCHANGED <<step, ist, idt>>
  BY <1>2 DEF Exception, boot
<1>6. IInv'
  BY <1>2, ExceptionIInv
<1>7. EInv' /\ ~User'
  BY <1>2, <1>3, <1>4, <1>5, DeliverEInv
<1> QED BY <1>6, <1>7

(* GS is not touched. *)
LEMMA DeliverCore ==
    ASSUME CoreShape, NEW v, CanDeliver(v), Deliver(v)
    PROVE  core'.gs = core.gs /\ core'.kernel_gs = core.kernel_gs
<1>1. PICK ws : ws = Delivery(v)
  OBVIOUS
<1>2. core' = [core EXCEPT !.pc = At("stub", v), !.cs = KERNEL_CS, !.ss = IF Cpl = 3 THEN 0 ELSE @,
                           !.rsp = Deeper(Target(v), Len(ws))]
  BY <1>1 DEF Deliver, Delivery
<1> QED BY <1>2 DEF CoreShape

(* A device's interrupt comes to user code or to kmain, and will return there. *)
LEMMA ReturnToUser ==
    ASSUME EInv, InUser, NEW v, CanDeliver(v), Deliver(v), step # "gdt_init"
    PROVE  Return(origin)'
<1>1. /\ core.pc = At("user", g_current) /\ core.cs = USER_CS /\ core.ss = USER_DS /\ iflag = TRUE
      /\ core.rsp.stack = <<"user", g_current>> /\ GsUser /\ CallsUp /\ CoreShape /\ User
  BY DEF InUser, EInv, Shape, User, At
<1>2. /\ UNCHANGED <<g_current, sys>>
      /\ left'[g_current].how = "tick" /\ left'[g_current].regs = core.reg /\ left'[g_current].rsp = core.rsp
  BY <1>1, DeliverLeft
<1>3. core'.gs = core.gs /\ core'.kernel_gs = core.kernel_gs
  BY <1>1, DeliverCore
<1>4. PICK f : f = Shown(v)
  OBVIOUS
<1>5. /\ f["rip"] = Rip(core.pc) /\ f["cs"] = Imm(core.cs) /\ f["rflags"] = Flags(iflag)
      /\ f["rsp"] = Rsp(core.rsp) /\ f["ss"] = Imm(core.ss) /\ \A r \in Gprs : f[r] = core.reg[r]
  BY <1>4, ShownIs
<1>6. origin' = f
  BY <1>4 DEF Deliver
<1>7. Home(g_current)' = core.rsp /\ IsPtr(core.rsp)
  BY <1>1, <1>2 DEF Home, CoreShape
<1>8. /\ f["rip"] = Rip(At("user", g_current))' /\ f["cs"] = Imm(USER_CS) /\ f["rflags"] = Flags(TRUE)
      /\ f["rsp"] = Rsp(Home(g_current))' /\ f["ss"] = Imm(USER_DS)
      /\ \A r \in Gprs : f[r] = left'[g_current].regs[r]
  BY <1>1, <1>2, <1>5, <1>7
<1>9. Matches(origin, g_current)'
  BY <1>1, <1>2, <1>6, <1>7, <1>8 DEF Matches
<1>10. GsUser' /\ CallsUp'
  BY <1>1, <1>2, <1>3 DEF GsUser, CallsUp
<1> QED BY <1>9, <1>10 DEF Return

LEMMA ReturnToKmain ==
    ASSUME EInv, InKmain, iflag = TRUE, NEW v, CanDeliver(v), Deliver(v), step # "gdt_init", UNCHANGED step
    PROVE  Return(origin)'
<1>1. /\ core.cs = KERNEL_CS /\ core.ss = KERNEL_DS /\ core.rsp = BootTop /\ BootCtx(core.pc, core.reg)
      /\ CoreShape
  BY DEF InKmain, Kernel, EInv, Shape
<1>2. ~User
  BY <1>1 DEF BootCtx, User, At
<1>3. UNCHANGED <<g_current, sys, left>>
  BY <1>2, DeliverLeft
<1>4. core'.gs = core.gs /\ core'.kernel_gs = core.kernel_gs
  BY <1>1, DeliverCore
<1>5. PICK f : f = Shown(v)
  OBVIOUS
<1>6. /\ f["rip"] = Rip(core.pc) /\ f["cs"] = Imm(core.cs) /\ f["rflags"] = Flags(iflag)
      /\ f["rsp"] = Rsp(core.rsp) /\ f["ss"] = Imm(core.ss) /\ \A r \in Gprs : f[r] = core.reg[r]
  BY <1>5, ShownIs
<1>7. origin' = f
  BY <1>5 DEF Deliver
<1>8. f["rdi"] = core.reg["rdi"] /\ f["rsi"] = core.reg["rsi"]
  BY <1>6, GprsAre
<1>9. PICK pc \in {At("kmain", 1), At("kmain", 2), At("enter_user", 1)} : pc = core.pc
  BY <1>1 DEF BootCtx
<1>10. CallsUp => CallsUp'
  BY <1>3 DEF CallsUp
<1>11. Entering(core.reg) => Entering(f)'
  BY <1>3, <1>8 DEF Entering, Entered
<1>12. BootCtx(pc, f)'
  BY <1>1, <1>3, <1>4, <1>9, <1>10, <1>11 DEF BootCtx
<1>13. /\ f["cs"] = Imm(KERNEL_CS) /\ f["ss"] = Imm(KERNEL_DS) /\ f["rflags"] = Flags(TRUE)
       /\ f["rsp"] = Rsp(BootTop) /\ f["rip"] = Rip(pc)
  BY <1>1, <1>6, <1>9
<1> QED BY <1>7, <1>9, <1>12, <1>13 DEF Return

LEMMA InterruptStep == ASSUME IInv, EInv, Interrupt PROVE IInv' /\ EInv' /\ ~User'
<1>1. IInv'
  BY TakeIrqIInv, TakeSpuriousIrqIInv, TakeLapicIInv DEF Interrupt
<1>2. /\ iflag /\ iflag' = FALSE /\ source' \in {"pic", "lapic"} /\ UNCHANGED boot
  BY DEF Interrupt, TakeIrq, TakeSpuriousIrq, TakeTimer, TakeSpuriousVector, Take
<1>3. PICK v : v = running'
  OBVIOUS
<1>4. source' # None
  BY <1>2, NoneAssumption
<1>5. v \in 32 .. 47 \cup {TIMER_VECTOR, LAPIC_SPURIOUS_VECTOR} /\ idt'[v] # None
  BY <1>1, <1>3, <1>4 DEF IInv, InvService
<1>6. v \in Stubs /\ ~(v < 32) /\ idt[v] # None /\ UNCHANGED <<step, ist, idt>>
  BY <1>2, <1>5 DEF Stubs, TIMER_VECTOR, LAPIC_SPURIOUS_VECTOR, boot
<1>7. Deliver(v)
  BY <1>3 DEF Interrupt
<1>8. step # "gdt_init" /\ CanDeliver(v)
  BY <1>6, GateIs
<1>9. iflag = TRUE
  BY <1>2 DEF IInv, InvType
<1>10. InKmain \/ InUser
  BY <1>2, WhereEnabled
<1>11. Return(origin)'
  BY <1>6, <1>7, <1>8, <1>9, <1>10, ReturnToUser, ReturnToKmain
<1>12. EInv' /\ ~User'
  BY <1>2, <1>3, <1>4, <1>6, <1>7, <1>10, <1>11, DeliverEInv
<1> QED BY <1>1, <1>12

(* Where the instructions are that something else depends on. *)
LEMMA Heads == (\A a : <<a>>[1] = a) /\ (\A a, b : <<a, b>>[1] = a)
OBVIOUS

LEMMA Special ==
    /\ \A n \in 1 .. 8 : gdt_flush[n][1] \notin {"iretq", "sysretq", "call"}
    /\ \A n \in 1 .. 8 : enter_user[n][1] \notin {"sysretq", "call"} /\ (enter_user[n][1] = "iretq" => n = 8)
    /\ \A n \in 1 .. 13 : /\ syscall_entry[n][1] # "iretq"
                          /\ syscall_entry[n][1] = "sysretq" => n = 13
                          /\ syscall_entry[n][1] = "call" => n = 8
    /\ \A h : \A n \in 1 .. 6 : /\ Common(h)[n][1] # "sysretq"
                                /\ Common(h)[n][1] = "iretq" => n = 6
                                /\ Common(h)[n][1] = "call" => n = 3
<1>1. ASSUME NEW n \in 1 .. 8 PROVE gdt_flush[n][1] \notin {"iretq", "sysretq", "call"}
  <2>1. n = 1 \/ n = 2 \/ n = 3 \/ n = 4 \/ n = 5 \/ n = 6 \/ n = 7 \/ n = 8
    OBVIOUS
  <2>2. /\ gdt_flush[1][1] = "lgdt" /\ gdt_flush[2][1] = "mov ds" /\ gdt_flush[3][1] = "mov ss"
        /\ gdt_flush[4][1] = "mov gs" /\ gdt_flush[5][1] = "pushi" /\ gdt_flush[6][1] = "retfq"
        /\ gdt_flush[7][1] = "ltr" /\ gdt_flush[8][1] = "ret"
    BY Heads, GdtFlushIs, ZenonT(60)
  <2> QED BY <2>1, <2>2
<1>2. ASSUME NEW n \in 1 .. 8
      PROVE  enter_user[n][1] \notin {"sysretq", "call"} /\ (enter_user[n][1] = "iretq" => n = 8)
  <2>1. n = 1 \/ n = 2 \/ n = 3 \/ n = 4 \/ n = 5 \/ n = 6 \/ n = 7 \/ n = 8
    OBVIOUS
  <2>2. /\ enter_user[1][1] = "cli" /\ enter_user[2][1] = "mov ds" /\ enter_user[3][1] = "mov gs"
        /\ enter_user[4][1] = "pushi" /\ enter_user[5][1] = "push" /\ enter_user[6][1] = "pushi"
        /\ enter_user[7][1] = "push" /\ enter_user[8][1] = "iretq"
    <3>1. enter_user[1][1] = "cli"
      BY Heads, EnterUserIs, Zenon
    <3>2. enter_user[2][1] = "mov ds"
      BY Heads, EnterUserIs, Zenon
    <3>3. enter_user[3][1] = "mov gs"
      BY Heads, EnterUserIs, Zenon
    <3>4. enter_user[4][1] = "pushi"
      BY Heads, EnterUserIs, Zenon
    <3>5. enter_user[5][1] = "push"
      BY Heads, EnterUserIs, Zenon
    <3>6. enter_user[6][1] = "pushi"
      BY Heads, EnterUserIs, Zenon
    <3>7. enter_user[7][1] = "push"
      BY Heads, EnterUserIs, Zenon
    <3>8. enter_user[8][1] = "iretq"
      BY Heads, EnterUserIs, Zenon
    <3> QED BY <3>1, <3>2, <3>3, <3>4, <3>5, <3>6, <3>7, <3>8
  <2> QED BY <2>1, <2>2
<1>3. ASSUME NEW n \in 1 .. 13
      PROVE  /\ syscall_entry[n][1] # "iretq"
             /\ syscall_entry[n][1] = "sysretq" => n = 13
             /\ syscall_entry[n][1] = "call" => n = 8
  <2>1. \/ n = 1 \/ n = 2 \/ n = 3 \/ n = 4 \/ n = 5 \/ n = 6 \/ n = 7 \/ n = 8
        \/ n = 9 \/ n = 10 \/ n = 11 \/ n = 12 \/ n = 13
    OBVIOUS
  <2>2. /\ syscall_entry[1][1] = "swapgs" /\ syscall_entry[2][1] = "save user rsp"
        /\ syscall_entry[3][1] = "load rsp" /\ syscall_entry[4][1] = "push" /\ syscall_entry[5][1] = "mov"
        /\ syscall_entry[6][1] = "sub" /\ syscall_entry[7][1] = "push" /\ syscall_entry[8][1] = "call"
        /\ syscall_entry[9][1] = "add" /\ syscall_entry[10][1] = "pop" /\ syscall_entry[11][1] = "load rsp"
        /\ syscall_entry[12][1] = "swapgs" /\ syscall_entry[13][1] = "sysretq"
    <3>1. syscall_entry[1][1] = "swapgs"
      <4>1. syscall_entry[1] = <<"swapgs">>
        BY SyscallEntryIs
      <4> QED BY <4>1, Heads, Zenon
    <3>2. syscall_entry[2][1] = "save user rsp"
      <4>1. syscall_entry[2] = <<"save user rsp">>
        BY SyscallEntryIs
      <4> QED BY <4>1, Heads, Zenon
    <3>3. syscall_entry[3][1] = "load rsp"
      <4>1. PICK w : syscall_entry[3] = <<"load rsp", w>>
        BY SyscallEntryIs
      <4> QED BY <4>1, Heads, Zenon
    <3>4. syscall_entry[4][1] = "push"
      <4>1. PICK w : syscall_entry[4] = <<"push", w>>
        BY SyscallEntryIs
      <4> QED BY <4>1
    <3>5. syscall_entry[5][1] = "mov"
      <4>1. PICK w : syscall_entry[5] = <<"mov", w>>
        BY SyscallEntryIs
      <4> QED BY <4>1
    <3>6. syscall_entry[6][1] = "sub"
      <4>1. PICK w : syscall_entry[6] = <<"sub", w>>
        BY SyscallEntryIs
      <4> QED BY <4>1
    <3>7. syscall_entry[7][1] = "push"
      <4>1. PICK w : syscall_entry[7] = <<"push", w>>
        BY SyscallEntryIs
      <4> QED BY <4>1
    <3>8. syscall_entry[8][1] = "call"
      <4>1. PICK w : syscall_entry[8] = <<"call", w>>
        BY SyscallEntryIs
      <4> QED BY <4>1
    <3>9. syscall_entry[9][1] = "add"
      <4>1. PICK w : syscall_entry[9] = <<"add", w>>
        BY SyscallEntryIs
      <4> QED BY <4>1
    <3>10. syscall_entry[10][1] = "pop"
      <4>1. PICK w : syscall_entry[10] = <<"pop", w>>
        BY SyscallEntryIs
      <4> QED BY <4>1
    <3>11. syscall_entry[11][1] = "load rsp"
      <4>1. PICK w : syscall_entry[11] = <<"load rsp", w>>
        BY SyscallEntryIs
      <4> QED BY <4>1, Heads, Zenon
    <3>12. syscall_entry[12][1] = "swapgs"
      <4>1. syscall_entry[12] = <<"swapgs">>
        BY SyscallEntryIs
      <4> QED BY <4>1, Heads, Zenon
    <3>13. syscall_entry[13][1] = "sysretq"
      <4>1. syscall_entry[13] = <<"sysretq">>
        BY SyscallEntryIs
      <4> QED BY <4>1, Heads, Zenon
    <3> QED BY <3>1, <3>2, <3>3, <3>4, <3>5, <3>6, <3>7, <3>8, <3>9, <3>10, <3>11, <3>12, <3>13
  <2> QED BY <2>1, <2>2
<1>4. ASSUME NEW h, NEW n \in 1 .. 6
      PROVE  /\ Common(h)[n][1] # "sysretq"
             /\ Common(h)[n][1] = "iretq" => n = 6
             /\ Common(h)[n][1] = "call" => n = 3
  <2>1. n = 1 \/ n = 2 \/ n = 3 \/ n = 4 \/ n = 5 \/ n = 6
    OBVIOUS
  <2>2. /\ Common(h)[1][1] = "push" /\ Common(h)[2][1] = "lea" /\ Common(h)[3][1] = "call"
        /\ Common(h)[4][1] = "pop" /\ Common(h)[5][1] = "add" /\ Common(h)[6][1] = "iretq"
    BY CommonIs
  <2> QED BY <2>1, <2>2
<1> QED BY <1>1, <1>2, <1>3, <1>4

(* iretq, sysretq and the calls are where the invariant has them. *)
LEMMA Fetched ==
    ASSUME EInv
    PROVE  /\ Fetch("iretq") => EnterAt(8) \/ IrqAt(6)
           /\ Fetch("sysretq") => SysAt(13)
           /\ Fetch("call") => SysAt(8) \/ IsrAt(3) \/ IrqAt(3)
<1> SUFFICES ASSUME core.pc.routine \in DOMAIN Code
             PROVE  /\ Instr[1] = "iretq" => EnterAt(8) \/ IrqAt(6)
                    /\ Instr[1] = "sysretq" => SysAt(13)
                    /\ Instr[1] = "call" => SysAt(8) \/ IsrAt(3) \/ IrqAt(3)
  BY DEF Fetch
<1>1. CASE InGdt
  <2>1. ~Starting
    BY CodeIs DEF Starting, At
  <2>2. PICK n \in 1 .. 8 : core.pc = At("gdt_flush", n)
    BY <1>1, <2>1 DEF InGdt, FlushAt
  <2>3. Instr = gdt_flush[n]
    BY <2>2, AtIs, CodeIs
  <2> QED BY <2>3, Special
<1>2. CASE InKmain
  <2>1. core.pc = At("enter_user", 1)
    BY <1>2, CodeIs DEF InKmain, BootCtx, At
  <2>2. Instr = <<"cli">>
    <3>1. Instr = enter_user[1]
      BY <2>1, AtIs, CodeIs
    <3> QED BY <3>1, EnterUserIs
  <2>3. Instr[1] = "cli"
    BY <2>2
  <2> QED BY <2>3
<1>3. CASE InEnter
  <2>1. PICK n \in 2 .. 8 : EnterAt(n)
    BY <1>3 DEF InEnter
  <2>2. core.pc = At("enter_user", n)
    BY <2>1 DEF EnterAt
  <2>3. Instr = enter_user[n] /\ n \in 1 .. 8
    BY <2>2, AtIs, CodeIs
  <2> QED BY <2>1, <2>3, Special
<1>4. CASE InUser
  BY <1>4, CodeIs DEF InUser, At
<1>5. CASE InSyscall
  <2>1. PICK n \in 1 .. 13 : SysAt(n)
    BY <1>5 DEF InSyscall
  <2>2. core.pc = At("syscall_entry", n)
    BY <2>1 DEF SysAt
  <2>3. Instr = syscall_entry[n]
    BY <2>2, AtIs, CodeIs
  <2> QED BY <2>1, <2>3, Special
<1>6. CASE InStub
  <2>1. PICK v \in Stubs : core.pc = At("stub", v)
    BY <1>6 DEF InStub, StubAt
  <2>2. core.pc.routine = "stub"
    BY <2>1 DEF At
  <2> QED BY <2>2, CodeIs
<1>7. CASE InIsr
  <2>1. PICK n \in 1 .. 3 : IsrAt(n)
    BY <1>7 DEF InIsr
  <2>2. core.pc = At("isr_common", n)
    BY <2>1 DEF IsrAt
  <2>3. Instr = Common("isr_common_handler")[n] /\ n \in 1 .. 6 /\ n # 6
    BY <2>2, AtIs, CodeIs
  <2> QED BY <2>1, <2>3, Special
<1>8. CASE InIrq
  <2>1. PICK n \in 1 .. 6 : IrqAt(n)
    BY <1>8 DEF InIrq
  <2>2. core.pc = At("irq_common", n)
    BY <2>1 DEF IrqAt
  <2>3. Instr = Common("irq_common_handler")[n]
    BY <2>2, AtIs, CodeIs
  <2> QED BY <2>1, <2>3, Special
<1>9. CASE Stopped
  BY <1>9, CodeIs DEF Stopped, At
<1> QED BY <1>1, <1>2, <1>3, <1>4, <1>5, <1>6, <1>7, <1>8, <1>9 DEF EInv, Places

(* The controllers' invariant, instruction by instruction. *)
LEMMA StillIInv == IInv /\ UNCHANGED vars => IInv'
BY DEF vars, boot, pics, lapic, cpu, IInv, InvType, InvBoot, InvService, Nothing, InServiceOf, Quiet

(* IF is set or cleared while nothing is being handled, or after all that was. *)
LEMMA FlagIInv ==
    ASSUME IInv, step = "up", source = None, running # Panic, iflag' \in BOOLEAN, running' = None,
           UNCHANGED <<boot, pics, lapic, source>>
    PROVE  IInv'
<1> USE DEF boot, pics, lapic
<1>1. Nothing /\ Nothing'
  BY DEF IInv, InvService, Nothing
<1>2. InvType'
  BY DEF IInv, InvType
<1>3. InvBoot'
  BY DEF IInv, InvBoot, Quiet
<1>4. InvService'
  BY <1>1, NoneAssumption DEF InvService, Quiet
<1> QED BY <1>2, <1>3, <1>4 DEF IInv

(* While nothing runs nothing is to be told of its end. *)
LEMMA NothingFrom == IInv /\ running = None => source = None
BY DEF IInv, InvService, Quiet

LEMMA IretqIInv == ASSUME IInv, EInv, Iretq PROVE IInv'
<1>1. /\ Fetch("iretq") /\ running' = None /\ UNCHANGED <<boot, pics, lapic, source>>
      /\ iflag' = Pop(2)[2] \/ iflag' = iflag
  BY DEF Iretq, Fault
<1>2. CASE EnterAt(8)
  <2>1. step = "up" /\ running = None /\ iflag = FALSE /\ Pop(2) = Flags(TRUE)
    BY <1>2 DEF EnterAt, Shut
  <2>2. Pop(2)[2] = TRUE
    <3>1. Flags(TRUE)[2] = TRUE
      BY DEF Flags
    <3> QED BY <2>1, <3>1, Zenon
  <2> QED BY <1>1, <2>1, <2>2, FlagIInv, NothingFrom, NoneAssumption
<1>3. CASE IrqAt(6)
  <2>1. source = None /\ running \notin {None, Panic}
    BY <1>3 DEF IrqAt
  <2>2. step = "up"
    BY <2>1 DEF IInv, InvBoot, Quiet
  <2>3. Execute
    BY DEF Execute
  <2>4. iflag' = TRUE
    BY <1>3, <2>3, IrqIretqStep
  <2> QED BY <1>1, <2>1, <2>2, <2>4, FlagIInv
<1> QED BY <1>1, <1>2, <1>3, Fetched

LEMMA SysretqIInv == ASSUME IInv, EInv, Sysretq PROVE IInv'
<1>1. /\ Fetch("sysretq") /\ iflag' = core.reg["r11"][2]
      /\ UNCHANGED <<boot, pics, lapic, running, source>>
  BY DEF Sysretq
<1>2. SysAt(13)
  BY <1>1, Fetched
<1>3. step = "up" /\ running = None /\ core.reg["r11"] = Flags(TRUE)
  <2>1. Shut /\ SysBack
    BY <1>2, 13 >= 11, Zenon DEF SysAt
  <2> QED BY <2>1 DEF Shut, SysBack
<1>4. iflag' = TRUE
  <2>1. Flags(TRUE)[2] = TRUE
    BY DEF Flags
  <2> QED BY <1>1, <1>3, <2>1, Zenon
<1> QED BY <1>1, <1>3, <1>4, FlagIInv, NothingFrom, NoneAssumption

LEMMA SyscallIInv == ASSUME IInv, EInv, Syscall PROVE IInv'
<1>1. /\ User /\ iflag' = (iflag /\ ~sys.fmask) /\ UNCHANGED <<boot, pics, lapic, running, source>>
  BY DEF Syscall
<1>2. step = "up" /\ running = None
  BY <1>1, WhereUser DEF InUser
<1>3. iflag' \in BOOLEAN
  BY <1>1
<1> QED BY <1>1, <1>2, <1>3, FlagIInv, NothingFrom, NoneAssumption

LEMMA CliIInv == ASSUME IInv, Cli PROVE IInv'
<1>1. iflag' = FALSE /\ UNCHANGED <<boot, pics, lapic, running, source>>
  BY DEF Cli
<1> QED BY <1>1 DEF IInv, InvType, InvBoot, InvService, Nothing, InServiceOf, Quiet, boot, pics, lapic

LEMMA CallIrqIInv == ASSUME IInv, EInv, CallIrq PROVE IInv'
<1>1. Fetch("call") /\ Instr[2] = "irq_common_handler" /\ Dispatch /\ UNCHANGED <<running, iflag>>
  BY DEF CallIrq, Calls
<1>2. running \notin {None, Panic}
  BY <1>1 DEF Dispatch
<1>3. IrqAt(3)
  BY <1>1, <1>2, Fetched DEF SysAt, Shut, IsrAt
<1>4. source # None
  BY <1>3 DEF IrqAt
<1> QED BY <1>1, <1>4, DispatchIInv

LEMMA ExecuteIInv == ASSUME IInv, EInv, Execute PROVE IInv'
<1>1. CASE PushStep \/ PopStep \/ RspStep \/ MovStep \/ CpuLocalStep \/ SegmentStep \/ TableStep \/ Stub
  BY <1>1, StillIInv DEF PushStep, PopStep, RspStep, MovStep, CpuLocalStep, SegmentStep, TableStep, Stub
<1>2. CASE CallIsr \/ CallDispatch \/ GdtInit \/ syscall_init \/ EnterUser \/ UserStep
  BY <1>2, StillIInv DEF CallIsr, CallDispatch, GdtInit, syscall_init, EnterUser, UserStep
<1>3. CASE SetUp \/ BringUp
  BY <1>3, BootSteps DEF SetUp, BringUp
<1>4. CASE Cli \/ Iretq \/ Syscall \/ Sysretq \/ CallIrq
  BY <1>4, CliIInv, IretqIInv, SyscallIInv, SysretqIInv, CallIrqIInv
<1> QED BY <1>1, <1>2, <1>3, <1>4 DEF Execute

-----------------------------------------------------------------------------
(* The devices and stuttering. *)
LEMMA StandsStill ==
    ASSUME EInv, UNCHANGED <<step, ist, idt, cpu, machine>>
    PROVE  EInv'
<1>1. Shape' /\ Order' /\ ThreadsUp' /\ Len(mem'[<<"boot", 0>>]) >= 1
  BY DEF EInv, Shape, CoreShape, MemShape, SysShape, LeftShape, Order, ThreadsUp, Matches, Home, machine, cpu
<1>2. Places'
  <2>1. InGdt => InGdt'
    BY DEF InGdt, Starting, FlushAt, Early, NoneLeft, Within, Pop, machine, cpu
  <2>2. InKmain => InKmain'
    BY DEF InKmain, BootCtx, Kernel, TablesUp, Entering, Entered, CallsUp, NoneLeft, machine, cpu
  <2>3. InEnter => InEnter'
    BY DEF InEnter, EnterAt, Shut, Kernel, TablesUp, CallsUp, GsUser, Entering, Entered, Within, Pop, machine, cpu
  <2>4. InUser => InUser'
    BY DEF InUser, TablesUp, CallsUp, GsUser, machine, cpu
  <2>5. ASSUME NEW n, SysAt(n) PROVE SysAt(n)'
    BY <2>5, ZenonT(60) DEF SysAt, SysLeft, SysDepth, SysAsked, SysSaved, SysArgs, SysResult, SysRestored, SysBack, Caller,
                Shut, Kernel, TablesUp, CallsUp, GsUser, Within, Pop, machine, cpu
  <2>6. ASSUME NEW v, StubAt(v) PROVE StubAt(v)'
    BY <2>6 DEF StubAt, InHandler, Kernel, TablesUp, RegsAre, Within, FiveAre, Pop, Return, Matches, Home, GsUser,
                CallsUp, BootCtx, Entering, Entered, machine, cpu
  <2>7. ASSUME NEW n, IsrAt(n) PROVE IsrAt(n)'
    BY <2>7 DEF IsrAt, InHandler, Kernel, TablesUp, Numbered, Framed, FrameAt, RegsAre, Within, FiveAre, Pop,
                machine, cpu
  <2>8. ASSUME NEW n, IrqAt(n) PROVE IrqAt(n)'
    <3>1. UNCHANGED <<core, mem, left, g_current, sys, step, origin, iflag, running, source>>
      BY DEF machine, cpu
    <3>2. (Numbered => Numbered') /\ (Framed => Framed')
      BY <3>1 DEF Numbered, Framed, FrameAt, RegsAre, Within, FiveAre, Pop
    <3>3. (Return(origin) => Return(origin)') /\ InHandler' /\ \A k : Within(k) => Within(k)'
      BY <2>8, <3>1, ReturnKept DEF IrqAt, InHandler, Kernel, TablesUp, Within
    <3>4. ASSUME Return(FrameAt(core.rsp)) PROVE Return(FrameAt(core.rsp))'
      <4>1. PICK f : f = FrameAt(core.rsp)
        OBVIOUS
      <4>2. Return(f)
        BY <3>4, <4>1 DEF Return, Matches, BootCtx, Entering
      <4>3. FrameAt(core.rsp)' = f
        BY <3>1, <4>1 DEF FrameAt
      <4> QED BY <3>1, <4>2, <4>3, ReturnStays, ReturnOfFrame
    <3>5. ASSUME NEW k, Return(Live(k)) PROVE Return(Live(k))'
      <4>1. PICK f : f = Live(k)
        OBVIOUS
      <4>2. Return(f)
        BY <3>5, <4>1 DEF Return, Matches, BootCtx, Entering
      <4>3. Live(k)' = f
        BY <3>1, <4>1 DEF Live, Pop
      <4>4. Return(f)'
        BY <3>1, <4>2, ReturnStays
      <4> QED BY <4>3, <4>4 DEF Return, Matches, BootCtx, Entering
    <3> QED BY <2>8, <3>1, <3>2, <3>3, <3>4, <3>5 DEF IrqAt
  <2>9. Stopped => Stopped'
    BY DEF Stopped, Kernel, TablesUp, machine, cpu
  <2> QED BY <2>1, <2>2, <2>3, <2>4, <2>5, <2>6, <2>7, <2>8, <2>9
          DEF EInv, Places, InSyscall, InStub, InIsr, InIrq
<1> QED BY <1>1, <1>2 DEF EInv

(* All of it. *)
LEMMA DevicesStep == ASSUME IInv, EInv, Devices PROVE IInv' /\ EInv'
<1>1. UNCHANGED <<boot, cpu, machine>>
  BY DEF Devices, TimerFires, pic_clear_mask, Raise
<1>2. EInv'
  BY <1>1, StandsStill DEF boot
<1>3. IInv'
  <2>1. CASE TimerFires
    BY <2>1 DEF TimerFires, IInv, InvType, InvBoot, InvService, Nothing, InServiceOf, Quiet, boot, pics, cpu
  <2>2. ASSUME NEW irq \in Irqs, pic_clear_mask(irq) \/ Raise(irq) PROVE IInv'
    BY <2>2, DeviceSteps
  <2> QED BY <2>1, <2>2 DEF Devices
<1> QED BY <1>2, <1>3

LEMMA EntryStep ==
    IInv /\ EInv /\ [EntryNext]_<<vars, machine>> => IInv' /\ EInv' /\ (~User /\ User' => Resumed')
<1> SUFFICES ASSUME IInv, EInv, [EntryNext]_<<vars, machine>>
             PROVE  IInv' /\ EInv' /\ (~User /\ User' => Resumed')
  OBVIOUS
<1>1. CASE Execute
  BY <1>1, ExecuteIInv, ExecuteStep
<1>2. CASE Interrupt
  BY <1>2, InterruptStep
<1>3. CASE \E v \in Exceptions : Fails(v)
  BY <1>3, FailsStep
<1>4. CASE Devices
  BY <1>4, DevicesStep DEF Devices, machine, User
<1>5. CASE UNCHANGED <<vars, machine>>
  <2>1. UNCHANGED <<step, ist, idt, cpu>>
    BY <1>5 DEF vars, boot
  <2>2. UNCHANGED core
    BY <1>5 DEF machine
  <2> QED BY <1>5, <2>1, <2>2, StillIInv, StandsStill DEF User
<1> QED BY <1>1, <1>2, <1>3, <1>4, <1>5, StepsAre

(* The boot loader's state. *)
LEMMA EntryBegins == EntryInit => IInv /\ EInv
<1> SUFFICES ASSUME EntryInit PROVE IInv /\ EInv
  OBVIOUS
<1>1. IInv
  BY InitIInv DEF EntryInit
<1>2. PICK reg : reg = [r \in Gprs |-> Junk]
  OBVIOUS
<1>3. IsRegs(reg)
  BY <1>2 DEF IsRegs
<1>4. Deeper(Sp("boot", 0), 1) = BootTop
  BY DEF Deeper, Sp, BootTop
<1>5. core = Core(At("kmain", 0), reg, BootTop, GDT_SEL(5, 0), GDT_SEL(6, 0), "0", "0")
  BY <1>2, <1>4 DEF EntryInit, Core
<1>6. /\ core.pc = At("kmain", 0) /\ core.rsp = BootTop /\ core.cs = GDT_SEL(5, 0) /\ core.gs = "0"
      /\ core.reg = reg
  BY <1>5 DEF Core
<1>7. CoreShape
  <2>1. At("kmain", 0) = At(At("kmain", 0).routine, At("kmain", 0).at)
    BY DEF At
  <2> QED BY <1>3, <1>5, <2>1, BootTopIsPtr DEF Core, CoreShape
<1>8. mem = [s \in Stacks |-> IF s = <<"boot", 0>> THEN <<Junk>> ELSE <<>>]
  BY DEF EntryInit, Stacks
<1>9. MemShape /\ Len(mem[<<"boot", 0>>]) = 1
  <2>1. IsSeq(<<>>)
    BY EmptyIsSeq
  <2>2. IsSeq(<<Junk>>) /\ Len(<<Junk>>) = 1
    <3>1. <<Junk>> \in Seq({Junk})
      OBVIOUS
    <3> QED BY <3>1, SeqOf
  <2>3. <<"boot", 0>> \in Stacks
    BY DEF Stacks
  <2>4. \A s \in Stacks : IsSeq(mem[s])
    BY <1>8, <2>1, <2>2, Zenon
  <2> QED BY <1>8, <2>2, <2>3, <2>4 DEF MemShape
<1>10. SysShape
  BY DEF EntryInit, SysShape
<1>11. NoneLeft /\ \A t \in Threads : left[t] = [how |-> "init", regs |-> [r \in Gprs |-> Imm(0)], rsp |-> NoSp]
  BY DEF EntryInit, NoneLeft, NotLeft
<1>12. LeftShape
  <2>1. frame = [t \in Threads |-> frame[t]] /\ left = [t \in Threads |-> left[t]]
    BY DEF EntryInit
  <2>2. IsFrame(origin)
    BY ZeroedIsFrame DEF EntryInit
  <2>3. IsRegs([r \in Gprs |-> Imm(0)])
    BY DEF IsRegs
  <2> QED BY <1>11, <2>1, <2>2, <2>3 DEF LeftShape
<1>13. step = "gdt_init" /\ iflag = FALSE /\ running = None /\ idt = [v \in 0 .. 255 |-> None]
  BY DEF EntryInit, Init
<1>14. Order /\ ThreadsUp
  BY <1>13 DEF Order, ThreadsUp
<1>15. Starting
  BY <1>6, <1>11, <1>13 DEF Starting, Early
<1> QED BY <1>1, <1>7, <1>9, <1>10, <1>12, <1>14, <1>15 DEF EInv, Shape, Places, InGdt

(* What the invariant says of the modes and of the calls. *)
LEMMA ModesHold == EInv => ModesRight
<1> SUFFICES ASSUME EInv PROVE ModesRight
  OBVIOUS
<1>1. core.pc.routine # "fault"
  <2>1. Starting \/ InKmain \/ InUser \/ Stopped => core.pc.routine # "fault"
    BY DEF Starting, InKmain, BootCtx, InUser, Stopped, At
  <2>2. ASSUME NEW r, NEW n, core.pc = At(r, n), r # "fault" PROVE core.pc.routine # "fault"
    BY <2>2 DEF At
  <2>3. \A n : FlushAt(n) \/ EnterAt(n) \/ SysAt(n) \/ StubAt(n) \/ IsrAt(n) \/ IrqAt(n) => core.pc.routine # "fault"
    BY <2>2 DEF FlushAt, EnterAt, SysAt, StubAt, IsrAt, IrqAt
  <2> QED BY <2>1, <2>3 DEF EInv, Places, InGdt, InEnter, InSyscall, InStub, InIsr, InIrq
<1>2. User => /\ core.cs = USER_CS /\ core.ss = USER_DS /\ iflag
              /\ core.gs = "0" /\ core.kernel_gs = "g_cpu_local"
  BY WhereUser DEF InUser, GsUser
<1>3. iflag /\ Cpl = 0 => core.rsp.stack[1] # "user"
  <2>1. InUser => Cpl = 3
    BY TwoModes DEF InUser, Cpl
  <2>2. InKmain => core.rsp.stack = <<"boot", 0>>
    BY DEF InKmain, BootTop
  <2>3. InKmain => core.rsp.stack[1] = "boot"
    BY <2>2
  <2> QED BY <2>1, <2>3, WhereEnabled
<1> QED BY <1>1, <1>2, <1>3 DEF ModesRight

LEMMA CallsHold == EInv => CallsRight
<1> SUFFICES ASSUME EInv, Fetch("call")
             PROVE  /\ core.rsp.depth % 2 = 0
                    /\ Instr[2] # "syscall_dispatch" => FrameAt(Pointer(core.reg["rdi"])) = origin
                    /\ Instr[2] = "syscall_dispatch" =>
                          <<core.reg["rdi"], core.reg["rsi"], core.reg["rdx"], core.reg["rcx"], core.reg["r8"],
                            core.reg["r9"], Pop(0)>>
                          = <<Caller["rax"], Caller["rdi"], Caller["rsi"], Caller["rdx"], Caller["r10"],
                              Caller["r8"], Caller["r9"]>>
  BY DEF CallsRight, Caller
<1>1. CASE SysAt(8)
  <2>1. /\ core.pc = At("syscall_entry", 8) /\ core.rsp.depth = SysDepth(8) /\ SysArgs /\ Pop(0) = Caller["r9"]
    BY <1>1, 8 \in 6 .. 8, 8 \notin {1, 2, 3, 12, 13}, Zenon DEF SysAt
  <2>2. SysDepth(8) = 10 /\ 10 % 2 = 0
    BY DEF SysDepth
  <2>3. Instr = <<"call", "syscall_dispatch">>
    <3>1. Instr = syscall_entry[8]
      BY <2>1, AtIs, CodeIs
    <3> QED BY <3>1, SyscallEntryIs
  <2>4. Instr[2] = "syscall_dispatch"
    BY <2>3
  <2> QED BY <2>1, <2>2, <2>4 DEF SysArgs
<1>2. CASE IsrAt(3) \/ IrqAt(3)
  <2>1. Framed /\ core.reg["rdi"] = Rsp(core.rsp)
    BY <1>2 DEF IsrAt, IrqAt
  <2>2. Pointer(core.reg["rdi"]) = core.rsp
    BY <2>1, PointerOfRsp DEF EInv, Shape, CoreShape
  <2>3. \E h \in {"isr_common_handler", "irq_common_handler"} : Instr = <<"call", h>>
    <3>1. core.pc = At("isr_common", 3) \/ core.pc = At("irq_common", 3)
      BY <1>2 DEF IsrAt, IrqAt
    <3>2. PICK r \in {"isr_common", "irq_common"} : core.pc = At(r, 3)
      BY <3>1
    <3> QED BY <3>2, CommonAt
  <2>4. Instr[2] # "syscall_dispatch"
    BY <2>3
  <2> QED BY <2>1, <2>2, <2>4 DEF Framed
<1> QED BY <1>1, <1>2, Fetched

-----------------------------------------------------------------------------
(* What gdt_flush, enter_user, the stubs, syscall_entry and syscall_init load never
   makes the processor fault; user mode has its own selectors and GS, and no
   interrupt finds the kernel on a user stack: for any number of threads, any
   system calls and any interrupts and exceptions between any two steps. *)
THEOREM NoFaults == EntrySpec => []ModesRight
<1>1. EntryInit => IInv /\ EInv
  BY EntryBegins
<1>2. IInv /\ EInv /\ [EntryNext]_<<vars, machine>> => IInv' /\ EInv'
  BY EntryStep
<1>3. EInv => ModesRight
  BY ModesHold
<1> QED BY <1>1, <1>2, <1>3, PTL DEF EntrySpec

(* isr.S and syscall_entry.S call C with an aligned stack, the frame of what was
   interrupted and, for a system call, the seven arguments in their places. *)
THEOREM CallsAsExpected == EntrySpec => []CallsRight
<1>1. EntryInit => IInv /\ EInv
  BY EntryBegins
<1>2. IInv /\ EInv /\ [EntryNext]_<<vars, machine>> => IInv' /\ EInv'
  BY EntryStep
<1>3. EInv => CallsRight
  BY CallsHold
<1> QED BY <1>1, <1>2, <1>3, PTL DEF EntrySpec

(* irq_common, the switch of frames in sched_on_tick and syscall_entry give every
   thread back what it had: the whole context after an interrupt, however many
   switches later, and after a system call the result and what the ABI preserves. *)
THEOREM BackAsLeft == EntrySpec => Resumes
<1>1. EntryInit => IInv /\ EInv
  BY EntryBegins
<1>2. IInv /\ EInv /\ [EntryNext]_<<vars, machine>> => IInv' /\ EInv'
  BY EntryStep
<1>3. IInv /\ EInv /\ [EntryNext]_<<vars, machine>> => [ ~User /\ User' => Resumed' ]_<<vars, machine>>
  BY EntryStep
<1> QED BY <1>1, <1>2, <1>3, PTL DEF EntrySpec, Resumes

(* The same vectors between the instructions of the entry code, where an exception
   may come and an interrupt returns later than its end was told. *)
THEOREM EntryVectors == EntrySpec => []VectorsRight
<1>1. EntryInit => IInv /\ EInv
  BY EntryBegins
<1>2. IInv /\ EInv /\ [EntryNext]_<<vars, machine>> => IInv' /\ EInv'
  BY EntryStep
<1>3. IInv => VectorsRight
  BY Invariants
<1> QED BY <1>1, <1>2, <1>3, PTL DEF EntrySpec

(* And between them nothing is left in service when nothing is being handled. *)
THEOREM EntryEnds == EntrySpec => []NothingInService
<1>1. EntryInit => IInv /\ EInv
  BY EntryBegins
<1>2. IInv /\ EInv /\ [EntryNext]_<<vars, machine>> => IInv' /\ EInv'
  BY EntryStep
<1>3. IInv => NothingInService
  BY Invariants
<1> QED BY <1>1, <1>2, <1>3, PTL DEF EntrySpec
=============================================================================
