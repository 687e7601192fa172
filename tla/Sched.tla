------------------------------- MODULE Sched -------------------------------
(***************************************************************************)
(* The preemptive scheduler of the kernel and everything it interacts with *)
(* on the one CPU: the boot sequence of kmain, the timer interrupt, the    *)
(* one-shot timer hardware, the SYSCALL path and the user threads.         *)
(*                                                                         *)
(* Time is relative.  The code only ever compares an absolute time with    *)
(* timer_now_ns() or with another absolute time, so every deadline is kept *)
(* as the time left until it, down to 0 (reached), and Clock lets one unit *)
(* pass for all of them at once.  None stands for the 0 the code uses for  *)
(* "no deadline" and for a stopped timer.                                  *)
(*                                                                         *)
(* A stack, an entry point and a user stack belong to one thread each and  *)
(* are named by it.                                                        *)
(***************************************************************************)
EXTENDS Integers, FiniteSets

CONSTANTS
    Threads,    \* the thread_t objects (t0, t1 in kmain)
    Boot,       \* the thread kmain enters first (t0)
    NoThread,   \* the NULL thread pointer
    Quanta,     \* what SCHED_QUANTUM_NS may be, in clock units: 0 is no preemption
    Events,     \* timer_event_t objects of kernel clients of the timer queue
    Delays,     \* how far ahead a client may set an event
    Regs,       \* contents of the general purpose registers
    ZeroRegs,   \* their contents in a zeroed thread_t
    Sources     \* what timer_init may find

SRC_NONE == "TIMER_SRC_NONE"
SRC_TSC  == "TIMER_SRC_TSC_DEADLINE"
SRC_APIC == "TIMER_SRC_LAPIC"

ASSUME BootAssumption    == Boot \in Threads /\ NoThread \notin Threads
ASSUME ThreadsAssumption == IsFiniteSet(Threads)
ASSUME QuantaAssumption  == Quanta \subseteq Nat
ASSUME DelaysAssumption  == Delays \subseteq Nat
ASSUME RegsAssumption    == ZeroRegs \in Regs
ASSUME SourcesAssumption == Sources \subseteq {SRC_NONE, SRC_TSC, SRC_APIC}

VARIABLES
    g_current,      \* the running thread
    next,           \* thread_t.next, NoThread before sched_add
    state,          \* thread_t.state
    frame,          \* thread_t.frame
    g_quantum_ns,
    g_slice_end_ns, \* time left in the slice, or None
    timerq,         \* time left until each pending event, or None
    kernel_rsp,     \* g_cpu_local.kernel_rsp: the stack SYSCALL switches to
    user_rsp,       \* g_cpu_local.user_rsp: one slot for the whole CPU
    rsp0,           \* g_tss.rsp0: the stack an interrupt from ring 3 uses
    g_src,          \* the timer source
    timer,          \* time left until the one-shot fires, or None
    irr,            \* the timer vector is pending in the local APIC
    isr,            \* the timer vector is in service
    live,           \* the interrupted or running context: the registers in user
                    \* mode, *frame in the tick handler, the pushes of SYSCALL
    pc,             \* where the kernel is
    ret,            \* where sched_arm_timer returns to
    delta           \* its argument to timer_oneshot_ns

ring  == <<g_current, next, state>>
slice == <<g_quantum_ns, g_slice_end_ns>>
stack == <<kernel_rsp, user_rsp, rsp0>>
apic  == <<irr, isr>>
ctl   == <<pc, ret, delta>>
vars  == <<ring, frame, slice, timerq, stack, g_src, timer, apic, live, ctl>>

None      == -1
READY     == "THREAD_READY"
RUNNING   == "THREAD_RUNNING"
Thread0   == Threads \cup {NoThread}
Time      == Nat \cup {None}
Frame     == [cs : {0, 3}, rip : Thread0, rsp : Thread0, regs : Regs]
BootPcs   == {"sched_init", "sched_add", "set_quantum", "sched_start", "idt_enable"}
Pcs       == BootPcs \cup {"window", "user", "syscall", "tick", "arm", "program",
                           "eoi", "halted"}
ReturnPcs == {"sched_add", "sched_start", "idt_enable", "syscall", "eoi"}

(* A context in ring 3 of thread t, and the one context kmain itself has. *)
UserFrame(t, r) == [cs |-> 3, rip |-> t, rsp |-> t, regs |-> r]
KernelFrame     == [cs |-> 0, rip |-> NoThread, rsp |-> NoThread, regs |-> ZeroRegs]

Ring == {t \in Threads : next[t] # NoThread}

-----------------------------------------------------------------------------
(* Operators named Mut_* are not part of the model: each is the definition it
   precedes with one plausible mistake, and some property below detects it. *)

(* Mutant: any READY thread will do. *)
Mut_FirstReady(t) == state[t] = READY

(* The round-robin choice: the first READY thread met on the way from
   g_current along next; the threads skipped on the way are not READY. *)
FirstReady(t) ==
    /\ state[t] = READY
    /\ \E skipped \in SUBSET {u \in Ring \ {g_current} : state[u] # READY} :
          \A u \in skipped \cup {g_current} : next[u] \in skipped \cup {t}

pick_next ==
    IF \E t \in Ring \ {g_current} : FirstReady(t)
    THEN CHOOSE t \in Ring \ {g_current} : FirstReady(t)
    ELSE g_current

(* The timer queue, by its promise: the earliest deadline of what is pending,
   and the removal of everything that has expired.  TimerQ has the list. *)
Pending == {e \in Events : timerq[e] # None}

timerq_next_deadline ==
    IF Pending = {} THEN None
    ELSE CHOOSE d \in {timerq[e] : e \in Pending} : \A e \in Pending : d <= timerq[e]

RunExpired ==
    timerq' = [e \in Events |-> IF timerq[e] = 0 THEN None ELSE timerq[e]]

(* Mutant: `slice_end < deadline` without the test for "no deadline". *)
Mut_Earlier(a, b) == IF a # None /\ a < b THEN a ELSE b

Earlier(a, b) == IF a = None THEN b ELSE IF b = None \/ a < b THEN a ELSE b

(* Mutant: the timer keeps running. *)
Mut_TimerStop == UNCHANGED timer

TimerStop == timer' = IF g_src = SRC_NONE THEN timer ELSE None

-----------------------------------------------------------------------------
(* sched_arm_timer: reads the clock again and programs the one-shot. *)

CallArm(to) == pc' = "arm" /\ ret' = to /\ delta' = delta
Return      == pc' = ret /\ UNCHANGED <<ret, delta>>

SliceNeeded == g_quantum_ns # 0 /\ pick_next # g_current

NewSliceEnd ==
    IF ~SliceNeeded THEN None
    ELSE IF g_slice_end_ns \in {None, 0} THEN g_quantum_ns ELSE g_slice_end_ns

sched_next_deadline == Earlier(NewSliceEnd, timerq_next_deadline)

NothingToTime == g_quantum_ns = 0 /\ timerq_next_deadline = None

(* Mutant: rounded down by one, and without the lower bound of 1. *)
Mut_Delta(deadline) == deadline - 1

(* Mutant: rounded up instead. *)
Mut_LateDelta(deadline) == deadline + 1

Delta(deadline) == IF deadline > 0 THEN deadline ELSE 1

ArmNothing ==
    /\ pc = "arm" /\ NothingToTime
    /\ TimerStop /\ Return
    /\ UNCHANGED <<ring, frame, slice, timerq, stack, g_src, apic, live>>

ArmStop ==
    /\ pc = "arm" /\ ~NothingToTime
    /\ sched_next_deadline = None
    /\ g_slice_end_ns' = NewSliceEnd
    /\ TimerStop /\ Return
    /\ UNCHANGED <<ring, frame, g_quantum_ns, timerq, stack, g_src, apic, live>>

ArmOneshot ==
    /\ pc = "arm" /\ ~NothingToTime
    /\ sched_next_deadline # None
    /\ g_slice_end_ns' = NewSliceEnd
    /\ delta' = Delta(sched_next_deadline)
    /\ pc' = "program"
    /\ UNCHANGED <<ring, frame, g_quantum_ns, timerq, stack, g_src, timer, apic,
                   live, ret>>

(* timer_oneshot_ns: counts delta from a clock read of its own. *)
ProgramTimer ==
    /\ pc = "program"
    /\ timer' = IF g_src = SRC_NONE THEN timer ELSE delta
    /\ pc' = ret /\ delta' = 0
    /\ UNCHANGED <<ring, frame, slice, timerq, stack, g_src, apic, live, ret>>

-----------------------------------------------------------------------------
(* Boot: kmain from sched_init to enter_user. *)

Init ==
    /\ g_current = NoThread
    /\ next  = [t \in Threads |-> NoThread]
    /\ state = [t \in Threads |-> READY]
    /\ frame = [t \in Threads |-> UserFrame(t, ZeroRegs)]
    /\ g_quantum_ns = 0 /\ g_slice_end_ns = None
    /\ timerq = [e \in Events |-> None]
    /\ kernel_rsp = Boot /\ rsp0 = Boot /\ user_rsp = NoThread
    /\ g_src = SRC_NONE /\ timer = None /\ irr = FALSE /\ isr = FALSE
    /\ live = KernelFrame
    /\ pc = "sched_init" /\ ret = "sched_add" /\ delta = 0

SchedInit ==
    /\ pc = "sched_init"
    /\ g_current' = Boot
    /\ state' = [state EXCEPT ![Boot] = RUNNING]
    /\ next' = [next EXCEPT ![Boot] = Boot]
    /\ pc' = "sched_add"
    /\ UNCHANGED <<frame, slice, timerq, stack, g_src, timer, apic, live, ret, delta>>

(* Mutant: the new thread is linked back to g_current, not to its successor. *)
Mut_Linked(t) == [next EXCEPT ![t] = g_current, ![g_current] = t]

Linked(t) == [next EXCEPT ![t] = next[g_current], ![g_current] = t]

SchedAdd(t) ==
    /\ pc = "sched_add" /\ t \notin Ring
    /\ next' = Linked(t)
    /\ g_slice_end_ns' = None
    /\ CallArm("sched_add")
    /\ UNCHANGED <<g_current, state, frame, g_quantum_ns, timerq, stack, g_src,
                   timer, apic, live>>

(* No more threads are added: timer_init, then the panic of kmain when no
   source was found. *)
TimerInit ==
    /\ pc = "sched_add"
    /\ \E s \in Sources :
          /\ g_src' = s
          /\ pc' = IF s = SRC_NONE THEN "halted" ELSE "set_quantum"
    /\ timer' = None
    /\ UNCHANGED <<ring, frame, slice, timerq, stack, apic, live, ret, delta>>

SetQuantum ==
    /\ pc = "set_quantum"
    /\ g_quantum_ns' \in Quanta
    /\ IF g_quantum_ns' = 0
       THEN TimerStop /\ pc' = "sched_start" /\ UNCHANGED <<ret, delta>>
       ELSE CallArm("sched_start") /\ timer' = timer
    /\ UNCHANGED <<ring, frame, g_slice_end_ns, timerq, stack, g_src, apic, live>>

SchedStart ==
    /\ pc = "sched_start"
    /\ CallArm("idt_enable")
    /\ UNCHANGED <<ring, frame, slice, timerq, stack, g_src, timer, apic, live>>

(* From here to the cli of enter_user the kernel runs with interrupts on. *)
IdtEnable ==
    /\ pc = "idt_enable"
    /\ pc' = "window"
    /\ UNCHANGED <<ring, frame, slice, timerq, stack, g_src, timer, apic, live,
                   ret, delta>>

EnterUser ==
    /\ pc = "window"
    /\ \E r \in Regs : live' = UserFrame(Boot, r)
    /\ pc' = "user"
    /\ UNCHANGED <<ring, frame, slice, timerq, stack, g_src, timer, apic, ret, delta>>

-----------------------------------------------------------------------------
(* The timer interrupt: irq_common, irq_common_handler and sched_on_tick.
   Every branch first runs what has expired, and ends by arming the timer. *)

TakeTick ==
    /\ pc \in {"window", "user"}
    /\ irr /\ ~isr
    /\ irr' = FALSE /\ isr' = TRUE
    /\ pc' = "tick"
    /\ UNCHANGED <<ring, frame, slice, timerq, stack, g_src, timer, live, ret, delta>>

(* Mutant: the privilege level of the interrupted frame is not tested. *)
Mut_FromUser == TRUE

FromUser == live.cs = 3

TickKernel ==
    /\ pc = "tick" /\ ~FromUser
    /\ RunExpired
    /\ CallArm("eoi")
    /\ UNCHANGED <<ring, frame, slice, stack, g_src, timer, apic, live>>

(* Mutant: every tick from ring 3 is taken for the end of the slice. *)
Mut_SliceOver == TRUE

SliceOver == g_slice_end_ns = 0

TickKeep ==
    /\ pc = "tick" /\ FromUser /\ ~SliceOver
    /\ RunExpired
    /\ CallArm("eoi")
    /\ UNCHANGED <<ring, frame, slice, stack, g_src, timer, apic, live>>

(* Mutant: the interrupted frame is not saved. *)
Mut_Saved == frame

Saved == [frame EXCEPT ![g_current] = live]

Switched(t) == [state EXCEPT ![g_current] = READY, ![t] = RUNNING]

(* Mutant: gdt_set_kernel_stack is not called. *)
Mut_SetStacks(t) == kernel_rsp' = t /\ UNCHANGED rsp0

SetStacks(t) == kernel_rsp' = t /\ rsp0' = t

TickPreempt ==
    /\ pc = "tick" /\ FromUser /\ SliceOver
    /\ RunExpired
    /\ frame' = Saved
    /\ IF pick_next = g_current
       THEN UNCHANGED <<ring, kernel_rsp, rsp0, live>>
       ELSE /\ state' = Switched(pick_next)
            /\ g_current' = pick_next
            /\ SetStacks(pick_next)
            /\ live' = frame[pick_next]
            /\ UNCHANGED next
    /\ g_slice_end_ns' = None
    /\ CallArm("eoi")
    /\ UNCHANGED <<g_quantum_ns, user_rsp, g_src, timer, apic>>

(* Mutant: the interrupt is never acknowledged. *)
Mut_Eoi == UNCHANGED isr

Eoi == isr' = FALSE

(* lapic_eoi, then the pops and iretq of irq_common. *)
TickReturn ==
    /\ pc = "eoi"
    /\ Eoi
    /\ pc' = IF live.cs = 3 THEN "user" ELSE "window"
    /\ UNCHANGED <<ring, frame, slice, timerq, stack, g_src, timer, irr, live, ret, delta>>

-----------------------------------------------------------------------------
(* User mode and SYSCALL, which runs with interrupts masked. *)

UserStep ==
    /\ pc = "user"
    /\ \E r \in Regs : live' = [live EXCEPT !.regs = r]
    /\ UNCHANGED <<ring, frame, slice, timerq, stack, g_src, timer, apic, ctl>>

SyscallEnter ==
    /\ pc = "user"
    /\ user_rsp' = live.rsp
    /\ pc' = "syscall"
    /\ UNCHANGED <<ring, frame, slice, timerq, kernel_rsp, rsp0, g_src, timer, apic,
                   live, ret, delta>>

SyscallReturn ==
    /\ pc = "syscall"
    /\ \E r \in Regs : live' = [live EXCEPT !.regs = r, !.rsp = user_rsp]
    /\ pc' = "user"
    /\ UNCHANGED <<ring, frame, slice, timerq, stack, g_src, timer, apic, ret, delta>>

(* SYS_exit, and any exception of the thread: the machine stops. *)
Stop ==
    /\ pc \in {"user", "syscall"}
    /\ pc' = "halted"
    /\ UNCHANGED <<ring, frame, slice, timerq, stack, g_src, timer, apic, live, ret, delta>>

(* A kernel client of the timer queue: timerq_insert, then sched_start. *)
SetEvent(e, d) ==
    /\ pc = "syscall" /\ timerq[e] = None
    /\ timerq' = [timerq EXCEPT ![e] = d]
    /\ CallArm("syscall")
    /\ UNCHANGED <<ring, frame, slice, stack, g_src, timer, apic, live>>

-----------------------------------------------------------------------------
(* Hardware: time passes at any point, and the one-shot fires no earlier than
   it was set to, whatever the CPU is doing. *)

Passed(d) == IF d \in {None, 0} THEN d ELSE d - 1

Clock ==
    /\ g_slice_end_ns' = Passed(g_slice_end_ns)
    /\ timerq' = [e \in Events |-> Passed(timerq[e])]
    /\ timer' = Passed(timer)
    /\ UNCHANGED <<ring, frame, g_quantum_ns, stack, g_src, apic, live, ctl>>

Fire ==
    /\ timer = 0
    /\ timer' = None /\ irr' = TRUE
    /\ UNCHANGED <<ring, frame, slice, timerq, stack, g_src, isr, live, ctl>>

-----------------------------------------------------------------------------
Arm    == ArmNothing \/ ArmStop \/ ArmOneshot \/ ProgramTimer
BootUp == \/ SchedInit \/ TimerInit \/ SetQuantum \/ SchedStart \/ IdtEnable
          \/ EnterUser \/ \E t \in Threads : SchedAdd(t)
Tick   == TakeTick \/ TickKernel \/ TickKeep \/ TickPreempt \/ TickReturn
User   == \/ UserStep \/ SyscallEnter \/ SyscallReturn \/ Stop
          \/ \E e \in Events, d \in Delays : SetEvent(e, d)

Next == Arm \/ BootUp \/ Tick \/ User \/ Clock \/ Fire

Spec == Init /\ [][Next]_vars
-----------------------------------------------------------------------------
(* Properties. *)

(* Every variable has its type: contexts are whole frames, and a deadline is
   a time left or None. *)
TypeOK ==
    /\ g_current \in Thread0
    /\ next \in [Threads -> Thread0]
    /\ state \in [Threads -> {READY, RUNNING}]
    /\ frame \in [Threads -> Frame]
    /\ g_quantum_ns \in {0} \cup Quanta /\ g_slice_end_ns \in Time
    /\ timerq \in [Events -> Time]
    /\ kernel_rsp \in Threads /\ rsp0 \in Threads /\ user_rsp \in Thread0
    /\ g_src \in Sources \cup {SRC_NONE}
    /\ timer \in Time /\ irr \in BOOLEAN /\ isr \in BOOLEAN
    /\ live \in Frame
    /\ pc \in Pcs /\ ret \in ReturnPcs /\ delta \in Nat

(* A context is never mixed up, in the registers, on a kernel stack or in a
   thread_t: what runs in ring 3 is g_current on its own stack, and what is
   stored for another thread is that thread's.  sched_on_tick copies frames
   both ways and syscall_entry takes the user stack from a per-CPU slot. *)
ContextIntegrity ==
    /\ pc \in {"user", "syscall"} => live.cs = 3
    /\ live.cs = 3 => live = UserFrame(g_current, live.regs)
    /\ \A t \in Threads \ {g_current} : frame[t] = UserFrame(t, frame[t].regs)

(* SYSCALL and an interrupt from ring 3 both land on the kernel stack of the
   thread they interrupt, and the one user_rsp slot holds the stack of the
   thread whose system call is in progress: sched_on_tick has to move both
   stack pointers with g_current. *)
StackAgreement ==
    /\ g_current # NoThread => kernel_rsp = g_current /\ rsp0 = g_current
    /\ pc = "syscall" => user_rsp = g_current

(* The threads sched_add has linked form one cycle, and g_current is on it: no
   part of the ring is closed under next but the whole of it.  pick_next would
   never end, or never meet some thread, on any other shape. *)
OneRing ==
    /\ g_current # NoThread => g_current \in Ring
    /\ \A t \in Ring : next[t] \in Ring
    /\ \A S \in SUBSET Ring :
          (S # {} /\ \A t \in S : next[t] \in S) => S = Ring

(* Exactly the current thread is RUNNING, so pick_next never skips a thread
   that could run. *)
RunningIsCurrent == \A t \in Threads : state[t] = RUNNING <=> t = g_current

(* No wake-up is lost: outside the handlers, while another thread waits for
   the CPU or an event is pending, the one-shot is running or its interrupt
   is already pending.  Nothing else would ever enter the scheduler again. *)
Waiting     == pc \in {"window", "user", "syscall"}
OthersReady == g_quantum_ns # 0 /\ \E t \in Ring \ {g_current} : state[t] = READY

TimerNeverLost ==
    Waiting /\ (OthersReady \/ Pending # {}) => timer # None \/ irr

(* Tickless: with no other thread to run and nothing pending, the timer is
   stopped (c.txt: "the scheduler only rearms when there is another runnable
   thread"). *)
Tickless ==
    Waiting /\ ~OthersReady /\ Pending = {} => timer = None

(* Every thread sees a CPU of its own: this specification implements
   VirtualCpu.  A thread's context is in the live frame while it runs and in
   its thread_t otherwise. *)
Context(t) ==
    LET f == IF t = g_current /\ live.cs = 3 THEN live ELSE frame[t]
    IN  [rip |-> f.rip, rsp |-> f.rsp, regs |-> f.regs]

Running == IF g_current = NoThread THEN Boot ELSE g_current

CPU == INSTANCE VirtualCpu WITH
          running <- Running, context <- [t \in Threads |-> Context(t)]

VirtualCpuSpec == CPU!Spec

(* The CPU goes round strictly: this specification implements RoundRobin.
   Walk[n] is the thread n steps along the ring from g_current. *)
Walk[n \in 0 .. Cardinality(Threads)] ==
    IF n = 0 THEN g_current ELSE next[Walk[n - 1]]

Queue == [i \in 1 .. Cardinality(Ring) |-> Walk[i - 1]]

RR == INSTANCE RoundRobin WITH queue <- Queue

RoundRobinSpec == RR!Spec
=============================================================================
