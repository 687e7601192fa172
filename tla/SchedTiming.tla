---------------------------- MODULE SchedTiming ----------------------------
(***************************************************************************)
(* The scheduler in time that is bounded where the hardware bounds it: a   *)
(* tick handler takes at most HandlerTime, the one-shot fires at its time, *)
(* and a pending interrupt is taken as soon as interrupts are on.  Boot    *)
(* and system calls may take any time.  Three auxiliary variables, read by no  *)
(* action of the kernel, measure how long the running thread has had the   *)
(* CPU, whether a timer event was pending meanwhile, and how long the      *)
(* handler has run.                                                        *)
(***************************************************************************)
EXTENDS Sched

CONSTANTS
    HandlerTime,    \* how long a tick handler may take, up to its lapic_eoi
    RanBound        \* where the count of a thread's time on the CPU stops

ASSUME HandlerTimeAssumption == HandlerTime \in Nat
ASSUME RanBoundAssumption ==
    RanBound \in Nat /\ \A q \in Quanta : RanBound > q + HandlerTime

VARIABLES
    ran,    \* time since the tick that dispatched g_current, up to RanBound;
            \* None in the first slice, which starts before enter_user
    calm,   \* since that tick no timer event has been pending, nor a wake-up for one
    busy    \* time spent in the present tick handler

timedVars == <<vars, ran, calm, busy>>

InHandler   == pc \in {"tick", "eoi"} \/ (pc \in {"arm", "program"} /\ ret = "eoi")
Deliverable == irr /\ ~isr /\ pc \in {"window", "user"}

TimedClock ==
    /\ timer # 0 /\ ~Deliverable
    /\ InHandler => busy < HandlerTime
    /\ Clock
    /\ ran' = IF ran \in {None, RanBound} THEN ran ELSE ran + 1
    /\ busy' = IF InHandler THEN busy + 1 ELSE 0
    /\ UNCHANGED calm

Dispatch == g_current # NoThread /\ g_current' # g_current

Measure ==
    /\ ran' = IF Dispatch THEN 0 ELSE ran
    /\ calm' = (Pending' = {} /\ IF Dispatch THEN timer = None /\ ~irr ELSE calm)
    /\ busy' = IF InHandler /\ pc # "eoi" THEN busy ELSE 0

Timed(step) == step /\ Measure

TimedInit == Init /\ ran = None /\ calm = TRUE /\ busy = 0

(* Kernel code that runs on by itself, whatever the user threads do. *)
KernelStep ==
    \/ Arm
    \/ SchedInit \/ TimerInit \/ SetQuantum \/ SchedStart \/ IdtEnable
    \/ \E t \in Threads : SchedAdd(t)
    \/ TickKernel \/ TickKeep \/ TickPreempt \/ TickReturn
    \/ SyscallReturn

UserChoice ==
    \/ UserStep \/ SyscallEnter \/ Stop
    \/ \E e \in Events, d \in Delays : SetEvent(e, d)

TimedNext ==
    \/ TimedClock
    \/ Timed(Fire) \/ Timed(TakeTick) \/ Timed(KernelStep)
    \/ ~Deliverable /\ Timed(EnterUser \/ UserChoice)

TimedSpec == TimedInit /\ [][TimedNext]_timedVars

(* What the kernel and the hardware do not put off for ever: time passes, the
   timer fires, a pending interrupt is taken, kernel code runs on and a system
   call returns.  The boot code of the window is interrupted by ticks but goes
   on after each, hence strongly fair.  User code owes nothing. *)
Fairness ==
    /\ WF_timedVars(TimedClock)
    /\ WF_timedVars(Timed(Fire))
    /\ WF_timedVars(Timed(TakeTick))
    /\ WF_timedVars(Timed(KernelStep))
    /\ SF_timedVars(~Deliverable /\ Timed(EnterUser))

FairSpec == TimedSpec /\ Fairness

-----------------------------------------------------------------------------
(* Properties. *)

(* A thread the tick has dispatched keeps the CPU for a whole quantum: the
   slice is counted from its own dispatch, never from the end of the last one,
   although sched_on_tick and sched_next_deadline each read the clock. *)
WholeSlice ==
    [][ g_current' # g_current /\ ran # None => ran >= g_quantum_ns ]_timedVars

(* While no timer event is about no thread keeps the CPU longer than a quantum
   and one handler, however the two clock reads of the tick and the clock read of
   timer_oneshot_ns fall, unless a system call of its own holds the tick off.
   An event before the slice leaves no trace in it but its own interrupt, if
   that is still to come. *)
SliceBounded ==
    pc = "user" /\ ~irr /\ ran # None /\ calm => ran <= g_quantum_ns + HandlerTime

(* Once timer events no longer disturb the slices, every thread that was added
   gets the CPU again and again, or the machine has stopped. *)
EveryThreadRuns ==
    <>[](Pending = {}) =>
        \A t \in Threads : []<>(t \notin Ring \/ (g_current = t /\ pc = "user") \/ pc = "halted")

(* An event a client has set is run, or the machine has stopped: the timer
   sched_start arms for it is never lost to the slice's deadline. *)
EveryEventRuns ==
    \A e \in Events : (timerq[e] # None) ~> (timerq[e] = None \/ pc = "halted")
=============================================================================
