---------------------------- MODULE SchedProofs ----------------------------
EXTENDS SchedTiming, NatFacts, FiniteSetTheorems, FunctionTheorems, SequenceTheorems

(***************************************************************************)
(* The operators the actions are built from.                               *)
(***************************************************************************)

(* timerq_next_deadline is the "none" value exactly when nothing is pending. *)
LEMMA DeadlineType ==
    ASSUME TypeOK
    PROVE  /\ timerq_next_deadline \in Time
           /\ timerq_next_deadline = None <=> Pending = {}
<1>1. CASE Pending = {}
  BY <1>1 DEF timerq_next_deadline, Time
<1>2. CASE Pending # {}
  <2> DEFINE D == {timerq[e] : e \in Pending}
  <2>1. D \in SUBSET Nat /\ D # {}
    BY <1>2 DEF TypeOK, Pending, Time, None
  <2>2. PICK m \in D : \A n \in D : m <= n
    BY <2>1, LeastNat
  <2>3. \E d \in D : \A e \in Pending : d <= timerq[e]
    BY <2>2
  <2>4. timerq_next_deadline \in D
    BY <1>2, <2>3 DEF timerq_next_deadline
  <2> QED BY <2>1, <2>4, <1>2 DEF Time, None
<1> QED BY <1>1, <1>2

(* pick_next stays on the ring. *)
LEMMA PickType == pick_next \in (Ring \ {g_current}) \cup {g_current}
BY DEF pick_next

LEMMA NewSliceEndType == TypeOK => NewSliceEnd \in Time
BY QuantaAssumption DEF TypeOK, NewSliceEnd, Time, None

LEMMA NextDeadlineType == TypeOK => sched_next_deadline \in Time
BY DeadlineType, NewSliceEndType DEF sched_next_deadline, Earlier, Time, None

(***************************************************************************)
(* Type correctness.                                                       *)
(***************************************************************************)
LEMMA InitType == Init => TypeOK
<1> SUFFICES ASSUME Init PROVE TypeOK
  OBVIOUS
<1>1. /\ live \in Frame
      /\ \A t \in Threads : UserFrame(t, ZeroRegs) \in Frame
  BY RegsAssumption DEF Init, Frame, UserFrame, KernelFrame, Thread0
<1> QED BY <1>1, BootAssumption
        DEF Init, TypeOK, Thread0, Time, None, Pcs, BootPcs, ReturnPcs

LEMMA ArmType == TypeOK /\ Arm => TypeOK'
<1> SUFFICES ASSUME TypeOK, Arm PROVE TypeOK'
  OBVIOUS
<1> USE DEF TypeOK, ring, slice, stack, apic, ctl, Time, None, Pcs, BootPcs, ReturnPcs
<1>1. CASE ArmNothing
  BY <1>1 DEF ArmNothing, TimerStop, Return
<1>2. CASE ArmStop
  BY <1>2, NewSliceEndType DEF ArmStop, TimerStop, Return
<1>3. CASE ArmOneshot
  <2>1. delta' \in Nat
    BY <1>3, NextDeadlineType DEF ArmOneshot, Delta
  <2> QED BY <1>3, <2>1, NewSliceEndType DEF ArmOneshot, Pcs
<1>4. CASE ProgramTimer
  BY <1>4 DEF ProgramTimer
<1> QED BY <1>1, <1>2, <1>3, <1>4 DEF Arm

(* Until sched_init there is no current thread, and from then on there is. *)
Booted == pc = "sched_init" <=> g_current = NoThread

LEMMA BootType == TypeOK /\ Booted /\ BootUp => TypeOK'
<1> SUFFICES ASSUME TypeOK, Booted, BootUp PROVE TypeOK'
  OBVIOUS
<1> USE DEF TypeOK, ring, slice, stack, apic, ctl, Time, None, Pcs, BootPcs, ReturnPcs
<1>1. CASE SchedInit
  BY <1>1, BootAssumption DEF SchedInit, Thread0
<1>2. ASSUME NEW t \in Threads, SchedAdd(t) PROVE TypeOK'
  BY <1>2 DEF SchedAdd, Linked, CallArm, Thread0, Ring, Booted
<1>3. CASE TimerInit
  BY <1>3 DEF TimerInit
<1>4. CASE SetQuantum
  BY <1>4 DEF SetQuantum, CallArm, TimerStop
<1>5. CASE SchedStart
  BY <1>5 DEF SchedStart, CallArm
<1>6. CASE IdtEnable
  BY <1>6 DEF IdtEnable
<1>7. CASE EnterUser
  BY <1>7, BootAssumption DEF EnterUser, Frame, UserFrame, Thread0
<1> QED BY <1>1, <1>2, <1>3, <1>4, <1>5, <1>6, <1>7 DEF BootUp

LEMMA TickType == TypeOK /\ Tick => TypeOK'
<1> SUFFICES ASSUME TypeOK, Tick PROVE TypeOK'
  OBVIOUS
<1> USE DEF TypeOK, ring, slice, stack, apic, ctl, Time, None, Pcs, BootPcs, ReturnPcs
<1>1. CASE TakeTick
  BY <1>1 DEF TakeTick
<1>2. CASE TickKernel
  BY <1>2 DEF TickKernel, RunExpired, CallArm
<1>3. CASE TickKeep
  BY <1>3 DEF TickKeep, RunExpired, CallArm
<1>4. CASE TickPreempt
  <2>1. timerq' \in [Events -> Time]
    BY <1>4 DEF TickPreempt, RunExpired
  <2>2. frame' \in [Threads -> Frame]
    BY <1>4 DEF TickPreempt, Saved
  <2>3. /\ g_current' \in Thread0 /\ next' \in [Threads -> Thread0]
        /\ state' \in [Threads -> {READY, RUNNING}]
        /\ kernel_rsp' \in Threads /\ rsp0' \in Threads /\ live' \in Frame
    <3>1. CASE pick_next = g_current
      BY <1>4, <3>1 DEF TickPreempt
    <3>2. CASE pick_next # g_current
      <4>1. pick_next \in Threads
        BY <3>2, PickType DEF Ring
      <4> QED BY <1>4, <3>2, <4>1 DEF TickPreempt, Switched, SetStacks, Thread0
    <3> QED BY <3>1, <3>2
  <2> QED BY <1>4, <2>1, <2>2, <2>3 DEF TickPreempt, CallArm
<1>5. CASE TickReturn
  BY <1>5 DEF TickReturn, Eoi
<1> QED BY <1>1, <1>2, <1>3, <1>4, <1>5 DEF Tick

LEMMA UserType == TypeOK /\ User => TypeOK'
<1> SUFFICES ASSUME TypeOK, User PROVE TypeOK'
  OBVIOUS
<1> USE DEF TypeOK, ring, slice, stack, apic, ctl, Time, None, Pcs, BootPcs, ReturnPcs
<1>1. CASE UserStep
  BY <1>1 DEF UserStep, Frame
<1>2. CASE SyscallEnter
  BY <1>2 DEF SyscallEnter, Frame
<1>3. CASE SyscallReturn
  BY <1>3 DEF SyscallReturn, Frame
<1>4. CASE Stop
  BY <1>4 DEF Stop
<1>5. ASSUME NEW e \in Events, NEW d \in Delays, SetEvent(e, d) PROVE TypeOK'
  BY <1>5, DelaysAssumption DEF SetEvent, CallArm
<1> QED BY <1>1, <1>2, <1>3, <1>4, <1>5 DEF User

LEMMA HardwareType == TypeOK /\ (Clock \/ Fire) => TypeOK'
<1> SUFFICES ASSUME TypeOK, Clock \/ Fire PROVE TypeOK'
  OBVIOUS
<1> USE DEF TypeOK, ring, slice, stack, apic, ctl, Time, None
<1>1. CASE Clock
  <2>1. \A d \in Time : Passed(d) \in Time
    BY DEF Passed
  <2>2. timerq' \in [Events -> Time]
    BY <1>1, <2>1 DEF Clock
  <2> QED BY <1>1, <2>1, <2>2 DEF Clock
<1>2. CASE Fire
  BY <1>2 DEF Fire
<1> QED BY <1>1, <1>2

LEMMA StutterType == TypeOK /\ UNCHANGED vars => TypeOK'
BY DEF TypeOK, vars, ring, slice, stack, apic, ctl

LEMMA BootedStep == TypeOK /\ Booted /\ [Next]_vars => Booted'
<1> SUFFICES ASSUME TypeOK, Booted, [Next]_vars PROVE Booted'
  OBVIOUS
<1> USE DEF TypeOK, Booted, ring, slice, stack, apic, ctl, ReturnPcs
<1>1. CASE Arm
  BY <1>1 DEF Arm, ArmNothing, ArmStop, ArmOneshot, ProgramTimer, Return
<1>2. CASE BootUp
  BY <1>2, BootAssumption
     DEF BootUp, SchedInit, SchedAdd, TimerInit, SetQuantum, SchedStart, IdtEnable,
         EnterUser, CallArm
<1>3. CASE Tick
  <2>1. CASE TickPreempt
    BY <2>1, PickType, BootAssumption DEF TickPreempt, CallArm, Ring
  <2> QED BY <1>3, <2>1
          DEF Tick, TakeTick, TickKernel, TickKeep, TickReturn, CallArm
<1>4. CASE User
  BY <1>4 DEF User, UserStep, SyscallEnter, SyscallReturn, Stop, SetEvent, CallArm
<1>5. CASE Clock \/ Fire
  BY <1>5 DEF Clock, Fire
<1>6. CASE UNCHANGED vars
  BY <1>6 DEF vars
<1> QED BY <1>1, <1>2, <1>3, <1>4, <1>5, <1>6 DEF Next

LEMMA TypeStep == TypeOK /\ Booted /\ [Next]_vars => TypeOK'
BY ArmType, BootType, TickType, UserType, HardwareType, StutterType DEF Next

(* Every variable keeps its type, whatever the numbers of threads, events and
   register contents and however long the quantum. *)
THEOREM TypeCorrect == Spec => []TypeOK
<1>1. Init => TypeOK /\ Booted
  BY InitType DEF Init, Booted
<1>2. TypeOK /\ Booted /\ [Next]_vars => TypeOK' /\ Booted'
  BY TypeStep, BootedStep
<1> QED BY <1>1, <1>2, PTL DEF Spec

(***************************************************************************)
(* Contexts and stacks.  While kmain or a tick in the window runs, the live *)
(* context is kmain's and the current thread is still Boot; a timer armed   *)
(* from inside a system call returns into it with user_rsp intact.          *)
(***************************************************************************)
LiveInv ==
    /\ pc \in BootPcs \cup {"window"} => live.cs # 3
    /\ pc \in {"arm", "program"} /\ ret \in BootPcs => live.cs # 3
    /\ pc \in {"arm", "program"} /\ ret = "syscall" => live.cs = 3 /\ user_rsp = g_current
    /\ live.cs # 3 => g_current \in {NoThread, Boot}
    /\ g_current = NoThread => kernel_rsp = Boot /\ rsp0 = Boot

ContextInv == Booted /\ LiveInv /\ ContextIntegrity /\ StackAgreement

LEMMA ContextInit == Init => ContextInv
BY BootAssumption
   DEF Init, ContextInv, Booted, LiveInv, ContextIntegrity, StackAgreement, UserFrame,
       KernelFrame, BootPcs

LEMMA ContextArm == TypeOK /\ ContextInv /\ Arm => ContextInv'
BY DEF Arm, ArmNothing, ArmStop, ArmOneshot, ProgramTimer, Return,
       TypeOK, ContextInv, Booted, LiveInv, ContextIntegrity, StackAgreement, BootPcs,
       ReturnPcs, UserFrame, ring, slice, stack, apic, ctl

LEMMA ContextBoot == TypeOK /\ ContextInv /\ BootUp => ContextInv'
<1> SUFFICES ASSUME TypeOK, ContextInv, BootUp PROVE ContextInv'
  OBVIOUS
<1> USE DEF TypeOK, ContextInv, Booted, LiveInv, ContextIntegrity, StackAgreement,
            BootPcs, ReturnPcs, UserFrame, ring, slice, stack, apic, ctl
<1>1. CASE SchedInit
  BY <1>1, BootAssumption DEF SchedInit
<1>2. ASSUME NEW t \in Threads, SchedAdd(t) PROVE ContextInv'
  BY <1>2 DEF SchedAdd, CallArm
<1>3. CASE TimerInit \/ SetQuantum \/ SchedStart \/ IdtEnable
  BY <1>3 DEF TimerInit, SetQuantum, SchedStart, IdtEnable, CallArm
<1>4. CASE EnterUser
  BY <1>4 DEF EnterUser
<1> QED BY <1>1, <1>2, <1>3, <1>4 DEF BootUp

LEMMA ContextTick == TypeOK /\ ContextInv /\ Tick => ContextInv'
<1> SUFFICES ASSUME TypeOK, ContextInv, Tick PROVE ContextInv'
  OBVIOUS
<1> USE DEF TypeOK, ContextInv, Booted, LiveInv, ContextIntegrity, StackAgreement,
            BootPcs, ReturnPcs, UserFrame, ring, slice, stack, apic, ctl
<1>1. CASE TakeTick \/ TickKernel \/ TickKeep \/ TickReturn
  BY <1>1 DEF TakeTick, TickKernel, TickKeep, TickReturn, CallArm
<1>2. CASE TickPreempt
  <2>1. g_current \in Threads /\ live = UserFrame(g_current, live.regs)
    BY <1>2 DEF TickPreempt, FromUser, Thread0
  <2>2. CASE pick_next = g_current
    BY <1>2, <2>1, <2>2 DEF TickPreempt, Saved, CallArm
  <2>3. CASE pick_next # g_current
    <3>1. pick_next \in Threads
      BY <2>3, PickType DEF Ring
    <3>2. live' = UserFrame(pick_next, live'.regs)
      BY <1>2, <2>3, <3>1 DEF TickPreempt
    <3>3. \A t \in Threads \ {pick_next} : frame'[t] = UserFrame(t, frame'[t].regs)
      BY <1>2, <2>1 DEF TickPreempt, Saved
    <3> QED BY <1>2, <2>3, <3>1, <3>2, <3>3, BootAssumption
            DEF TickPreempt, SetStacks, CallArm
  <2> QED BY <2>2, <2>3
<1> QED BY <1>1, <1>2 DEF Tick

LEMMA ContextUser == TypeOK /\ ContextInv /\ User => ContextInv'
<1> SUFFICES ASSUME TypeOK, ContextInv, User PROVE ContextInv'
  OBVIOUS
<1> USE DEF TypeOK, ContextInv, Booted, LiveInv, ContextIntegrity, StackAgreement,
            BootPcs, ReturnPcs, UserFrame, ring, slice, stack, apic, ctl
<1>1. ASSUME UserStep \/ SyscallReturn PROVE ContextInv'
  <2>1. PICK x \in Regs : live = UserFrame(g_current, x)
    BY <1>1 DEF UserStep, SyscallReturn, Frame
  <2>2. CASE UserStep
    <3>1. PICK r \in Regs : live' = [live EXCEPT !.regs = r]
      BY <2>2 DEF UserStep
    <3>2. live' = UserFrame(g_current, r)
      BY <2>1, <3>1
    <3> QED BY <2>2, <3>2 DEF UserStep
  <2>3. CASE SyscallReturn
    <3>1. PICK r \in Regs : live' = [live EXCEPT !.regs = r, !.rsp = user_rsp]
      BY <2>3 DEF SyscallReturn
    <3>2. live' = UserFrame(g_current, r)
      BY <2>1, <2>3, <3>1 DEF SyscallReturn
    <3> QED BY <2>3, <3>2 DEF SyscallReturn
  <2> QED BY <1>1, <2>2, <2>3
<1>3. CASE SyscallEnter \/ Stop
  BY <1>3 DEF SyscallEnter, Stop
<1>2. ASSUME NEW e \in Events, NEW d \in Delays, SetEvent(e, d) PROVE ContextInv'
  BY <1>2 DEF SetEvent, CallArm
<1> QED BY <1>1, <1>2, <1>3 DEF User

LEMMA ContextQuiet == ContextInv /\ (Clock \/ Fire \/ UNCHANGED vars) => ContextInv'
BY DEF Clock, Fire, vars, ContextInv, Booted, LiveInv, ContextIntegrity,
       StackAgreement, ring, slice, stack, apic, ctl

LEMMA ContextStep == TypeOK /\ ContextInv /\ [Next]_vars => TypeOK' /\ ContextInv'
<1>1. TypeOK /\ ContextInv /\ [Next]_vars => TypeOK'
  BY TypeStep DEF ContextInv
<1> QED BY <1>1, ContextArm, ContextBoot, ContextTick, ContextUser, ContextQuiet DEF Next

LEMMA ContextInvariant == Spec => [](TypeOK /\ ContextInv)
<1>1. Init => TypeOK /\ ContextInv
  BY InitType, ContextInit
<1> QED BY <1>1, ContextStep, PTL DEF Spec

(* No context is ever mixed up with another thread's: what sched_on_tick saves
   and loads, and what SYSCALL restores, is the current thread's own. *)
THEOREM ContextsKept == Spec => []ContextIntegrity
<1>1. ContextInv => ContextIntegrity
  BY DEF ContextInv
<1> QED BY <1>1, ContextInvariant, PTL

(* kernel_rsp, rsp0 and user_rsp always belong to the current thread. *)
THEOREM StacksAgree == Spec => []StackAgreement
<1>1. ContextInv => StackAgreement
  BY DEF ContextInv
<1> QED BY <1>1, ContextInvariant, PTL

(***************************************************************************)
(* The ring.                                                               *)
(***************************************************************************)
RingInv ==
    /\ OneRing
    /\ RunningIsCurrent
    /\ g_current = NoThread => Ring = {}

LEMMA RingInit == Init => RingInv
BY BootAssumption DEF Init, RingInv, OneRing, RunningIsCurrent, Ring, READY, RUNNING

LEMMA RingSame ==
    ASSUME RingInv, UNCHANGED ring
    PROVE  RingInv'
BY DEF RingInv, OneRing, RunningIsCurrent, Ring, ring

(* sched_add links the new thread in behind g_current. *)
LEMMA RingAdd ==
    ASSUME TypeOK, Booted, RingInv, NEW t \in Threads, SchedAdd(t)
    PROVE  RingInv'
<1>1. /\ g_current \in Ring /\ t \in Threads \ Ring
      /\ g_current' = g_current /\ state' = state
      /\ next' = [next EXCEPT ![t] = next[g_current], ![g_current] = t]
  BY DEF SchedAdd, Linked, Booted, RingInv, OneRing
<1>2. /\ next[g_current] \in Ring
      /\ \A u \in Ring : next[u] \in Ring /\ next[u] # t
  BY <1>1 DEF RingInv, OneRing
<1>3. /\ next'[g_current] = t /\ next'[t] = next[g_current]
      /\ \A u \in Threads \ {g_current, t} : next'[u] = next[u]
  BY <1>1 DEF TypeOK, Ring
<1>4. Ring' = Ring \cup {t}
  BY <1>1, <1>2, <1>3, BootAssumption DEF Ring
<1>5. \A u \in Ring' : next'[u] \in Ring'
  BY <1>1, <1>2, <1>3, <1>4 DEF Ring
<1>6. ASSUME NEW S \in SUBSET Ring', S # {}, \A u \in S : next'[u] \in S
      PROVE  S = Ring'
  <2> DEFINE S0 == S \ {t}
  <2>1. S0 \in SUBSET Ring
    BY <1>4
  <2>2. S0 # {}
    BY <1>2, <1>3, <1>1, <1>6
  <2>3. \A u \in S0 : next[u] \in S0
    <3> SUFFICES ASSUME NEW u \in S0 PROVE next[u] \in S0
      OBVIOUS
    <3>1. CASE u = g_current
      BY <3>1, <1>1, <1>2, <1>3, <1>6
    <3>2. CASE u # g_current
      BY <3>2, <2>1, <1>2, <1>3, <1>6 DEF Ring
    <3> QED BY <3>1, <3>2
  <2>4. S0 = Ring
    BY <2>1, <2>2, <2>3 DEF RingInv, OneRing
  <2>5. t \in S
    BY <2>4, <1>1, <1>3, <1>6
  <2> QED BY <2>4, <2>5, <1>4
<1> QED BY <1>1, <1>4, <1>5, <1>6, BootAssumption
        DEF RingInv, OneRing, RunningIsCurrent, Ring

LEMMA RingPreempt ==
    ASSUME TypeOK, Booted, RingInv, TickPreempt
    PROVE  RingInv'
<1>1. CASE pick_next = g_current
  BY <1>1, RingSame DEF TickPreempt
<1>2. CASE pick_next # g_current
  <2>1. /\ pick_next \in Ring /\ g_current' = pick_next /\ next' = next
        /\ state' = Switched(pick_next)
    BY <1>2, PickType DEF TickPreempt
  <2>2. g_current \in Threads
    BY DEF TickPreempt, Booted, TypeOK, Thread0
  <2>3. RunningIsCurrent'
    BY <2>1, <2>2, <1>2 DEF RingInv, RunningIsCurrent, Switched, TypeOK, Ring,
       READY, RUNNING
  <2> QED BY <2>1, <2>3, BootAssumption DEF RingInv, OneRing, Ring
<1> QED BY <1>1, <1>2

LEMMA RingStep == TypeOK /\ Booted /\ RingInv /\ [Next]_vars => RingInv'
<1> SUFFICES ASSUME TypeOK, Booted, RingInv, [Next]_vars PROVE RingInv'
  OBVIOUS
<1>1. CASE SchedInit
  <2>1. /\ g_current' = Boot /\ state' = [state EXCEPT ![Boot] = RUNNING]
        /\ next' = [next EXCEPT ![Boot] = Boot]
        /\ Ring = {} /\ g_current = NoThread
    BY <1>1 DEF SchedInit, Booted, RingInv
  <2>2. Ring' = {Boot} /\ next'[Boot] = Boot
    BY <2>1, BootAssumption DEF Ring, TypeOK
  <2>3. RunningIsCurrent'
    BY <2>1, BootAssumption DEF RingInv, RunningIsCurrent, TypeOK, RUNNING
  <2> QED BY <2>1, <2>2, <2>3, BootAssumption DEF RingInv, OneRing
<1>2. ASSUME NEW t \in Threads, SchedAdd(t) PROVE RingInv'
  BY <1>2, RingAdd
<1>3. CASE TickPreempt
  BY <1>3, RingPreempt
<1>4. CASE Arm
  BY <1>4, RingSame DEF Arm, ArmNothing, ArmStop, ArmOneshot, ProgramTimer
<1>5. CASE TimerInit \/ SetQuantum \/ SchedStart \/ IdtEnable \/ EnterUser
  BY <1>5, RingSame DEF TimerInit, SetQuantum, SchedStart, IdtEnable, EnterUser
<1>6. CASE TakeTick \/ TickKernel \/ TickKeep \/ TickReturn
  BY <1>6, RingSame DEF TakeTick, TickKernel, TickKeep, TickReturn
<1>7. CASE User
  BY <1>7, RingSame DEF User, UserStep, SyscallEnter, SyscallReturn, Stop, SetEvent
<1>8. CASE Clock \/ Fire \/ UNCHANGED vars
  BY <1>8, RingSame DEF Clock, Fire, vars
<1> QED BY <1>1, <1>2, <1>3, <1>4, <1>5, <1>6, <1>7, <1>8 DEF Next, BootUp, Tick

LEMMA RingInvariant == Spec => [](TypeOK /\ Booted /\ RingInv)
<1>1. Init => TypeOK /\ Booted /\ RingInv
  BY InitType, RingInit DEF Init, Booted
<1>2. TypeOK /\ Booted /\ RingInv /\ [Next]_vars => (TypeOK /\ Booted /\ RingInv)'
  BY TypeStep, BootedStep, RingStep
<1> QED BY <1>1, <1>2, PTL DEF Spec

(* sched_add keeps the threads on one cycle, in whatever order they come. *)
THEOREM RingKept == Spec => []OneRing
<1>1. RingInv => OneRing
  BY DEF RingInv
<1> QED BY <1>1, RingInvariant, PTL

(* Exactly the current thread is RUNNING, at every step. *)
THEOREM OneRunning == Spec => []RunningIsCurrent
<1>1. RingInv => RunningIsCurrent
  BY DEF RingInv
<1> QED BY <1>1, RingInvariant, PTL

(***************************************************************************)
(* The timer.  Wherever the kernel has finished arming it, the timer is     *)
(* running, or has fired, exactly when something needs it; between the      *)
(* decision and timer_oneshot_ns the need is still there.  From timer_init  *)
(* on there is a source to program.                                        *)
(***************************************************************************)
Needed == OthersReady \/ Pending # {}

Armed == pc \in {"idt_enable", "window", "user", "syscall", "eoi"}

TimerInv ==
    /\ Armed /\ Needed => timer # None \/ irr
    /\ Armed /\ ~Needed => timer = None
    /\ pc = "program" => Needed
    /\ pc \in {"sched_init", "sched_add", "halted"} \/ g_src # SRC_NONE
          \/ (pc \in {"arm", "program"} /\ ret = "sched_add")

Inv == TypeOK /\ Booted /\ RingInv /\ TimerInv

(* pick_next finds somebody else exactly when somebody else is READY. *)
LEMMA PickNextFinds ==
    ASSUME TypeOK, RingInv, g_current # NoThread
    PROVE  pick_next # g_current <=> \E t \in Ring \ {g_current} : state[t] = READY
<1>1. ASSUME NEW t \in Ring \ {g_current}, state[t] = READY
      PROVE  pick_next # g_current
  <2> DEFINE n == next[g_current]
  <2>1. g_current \in Ring /\ n \in Ring
    BY DEF RingInv, OneRing
  <2>2. n # g_current
    <3> SUFFICES ASSUME n = g_current PROVE FALSE
      OBVIOUS
    <3>1. {g_current} = Ring
      BY <2>1 DEF RingInv, OneRing
    <3> QED BY <3>1
  <2>3. state[n] = READY
    BY <2>1, <2>2 DEF RingInv, RunningIsCurrent, TypeOK, Ring
  <2>4. FirstReady(n)
    <3>1. \A u \in {} \cup {g_current} : next[u] \in {} \cup {n}
      OBVIOUS
    <3>2. {} \in SUBSET {u \in Ring \ {g_current} : state[u] # READY}
      OBVIOUS
    <3> QED BY <2>3, <3>1, <3>2 DEF FirstReady
  <2>5. \E u \in Ring \ {g_current} : FirstReady(u)
    BY <2>1, <2>2, <2>4
  <2> QED BY <2>5 DEF pick_next
<1>2. ASSUME pick_next # g_current
      PROVE  \E t \in Ring \ {g_current} : state[t] = READY
  <2>1. \E t \in Ring \ {g_current} : FirstReady(t)
    BY <1>2 DEF pick_next
  <2> QED BY <2>1 DEF FirstReady
<1> QED BY <1>1, <1>2

LEMMA SliceNeededIff ==
    ASSUME TypeOK, RingInv, g_current # NoThread
    PROVE  SliceNeeded <=> OthersReady
BY PickNextFinds DEF SliceNeeded, OthersReady

(* There is a deadline to arm for exactly when the timer is needed. *)
LEMMA DeadlineIff ==
    ASSUME TypeOK, RingInv, g_current # NoThread
    PROVE  sched_next_deadline = None <=> ~Needed
<1>1. NewSliceEnd = None <=> ~OthersReady
  BY SliceNeededIff, QuantaAssumption DEF NewSliceEnd, None, TypeOK
<1>2. timerq_next_deadline = None <=> Pending = {}
  BY DeadlineType
<1> QED BY <1>1, <1>2, NewSliceEndType, DeadlineType
        DEF sched_next_deadline, Earlier, Needed, None, Time

LEMMA TimerArm == Inv /\ Arm => TimerInv'
<1> SUFFICES ASSUME Inv, Arm PROVE TimerInv'
  OBVIOUS
<1>1. g_current # NoThread /\ TypeOK /\ RingInv /\ TimerInv
  BY DEF Inv, Booted, Arm, ArmNothing, ArmStop, ArmOneshot, ProgramTimer
<1>2. Needed' = Needed
  BY DEF Needed, OthersReady, Pending, Ring, ring, slice, Arm, ArmNothing, ArmStop,
         ArmOneshot, ProgramTimer
<1> USE <1>1 DEF Armed, ReturnPcs, apic
<1>3. CASE ArmNothing
  <2>1. ~Needed
    BY <1>3, DeadlineType DEF ArmNothing, NothingToTime, Needed, OthersReady
  <2> QED BY <1>2, <1>3, <2>1 DEF ArmNothing, TimerStop, Return, TimerInv, TypeOK
<1>4. CASE ArmStop
  <2>1. ~Needed
    BY <1>4, DeadlineIff DEF ArmStop
  <2> QED BY <1>2, <1>4, <2>1 DEF ArmStop, TimerStop, Return, TimerInv, TypeOK
<1>5. CASE ArmOneshot
  <2>1. Needed
    BY <1>5, DeadlineIff DEF ArmOneshot
  <2> QED BY <1>2, <1>5, <2>1 DEF ArmOneshot, TimerInv
<1>6. CASE ProgramTimer
  BY <1>2, <1>6 DEF ProgramTimer, TimerInv, TypeOK, None
<1> QED BY <1>3, <1>4, <1>5, <1>6 DEF Arm

LEMMA NeededSame ==
    ASSUME UNCHANGED <<ring, g_quantum_ns, timerq>>
    PROVE  Needed' = Needed
BY DEF Needed, OthersReady, Pending, Ring, ring

LEMMA TimerBoot == Inv /\ BootUp => TimerInv'
<1> SUFFICES ASSUME Inv, BootUp PROVE TimerInv'
  OBVIOUS
<1> USE DEF Inv, TimerInv, Armed, ctl, slice, apic
<1>1. CASE SchedInit
  BY <1>1 DEF SchedInit
<1>2. ASSUME NEW t \in Threads, SchedAdd(t) PROVE TimerInv'
  BY <1>2 DEF SchedAdd, CallArm
<1>3. CASE TimerInit
  BY <1>3 DEF TimerInit
<1>4. CASE SetQuantum
  BY <1>4 DEF SetQuantum, CallArm
<1>5. CASE SchedStart
  BY <1>5 DEF SchedStart, CallArm
<1>6. CASE IdtEnable
  BY <1>6, NeededSame DEF IdtEnable
<1>7. CASE EnterUser
  BY <1>7, NeededSame DEF EnterUser
<1> QED BY <1>1, <1>2, <1>3, <1>4, <1>5, <1>6, <1>7 DEF BootUp

LEMMA TimerTick == Inv /\ Tick => TimerInv'
<1> SUFFICES ASSUME Inv, Tick PROVE TimerInv'
  OBVIOUS
<1> USE DEF Inv, TimerInv, Armed, ctl, slice, apic
<1>1. CASE TakeTick
  BY <1>1 DEF TakeTick
<1>2. CASE TickKernel \/ TickKeep \/ TickPreempt
  BY <1>2 DEF TickKernel, TickKeep, TickPreempt, CallArm
<1>3. CASE TickReturn
  BY <1>3, NeededSame DEF TickReturn, Eoi
<1> QED BY <1>1, <1>2, <1>3 DEF Tick

LEMMA TimerUser == Inv /\ User => TimerInv'
<1> SUFFICES ASSUME Inv, User PROVE TimerInv'
  OBVIOUS
<1> USE DEF Inv, TimerInv, Armed, ctl, slice, apic
<1>1. CASE UserStep
  BY <1>1, NeededSame DEF UserStep
<1>3. CASE SyscallEnter
  BY <1>3, NeededSame DEF SyscallEnter
<1>4. CASE SyscallReturn
  BY <1>4, NeededSame DEF SyscallReturn
<1>5. CASE Stop
  BY <1>5 DEF Stop
<1>2. ASSUME NEW e \in Events, NEW d \in Delays, SetEvent(e, d) PROVE TimerInv'
  BY <1>2 DEF SetEvent, CallArm
<1> QED BY <1>1, <1>2, <1>3, <1>4, <1>5 DEF User

LEMMA TimerHardware == Inv /\ (Clock \/ Fire) => TimerInv'
<1> SUFFICES ASSUME Inv, Clock \/ Fire PROVE TimerInv'
  OBVIOUS
<1> USE DEF Inv, TimerInv, Armed, ctl, slice, apic
<1>1. CASE Clock
  <2>1. \A d \in Time : Passed(d) = None <=> d = None
    BY DEF Passed, Time, None
  <2>2. Pending' = Pending
    BY <1>1, <2>1 DEF Clock, Pending, TypeOK
  <2>3. Needed' = Needed
    BY <1>1, <2>2 DEF Clock, Needed, OthersReady, Ring, ring
  <2> QED BY <1>1, <2>1, <2>3 DEF Clock, TypeOK
<1>2. CASE Fire
  BY <1>2, NeededSame DEF Fire, None
<1> QED BY <1>1, <1>2

LEMMA InvStep == Inv /\ [Next]_vars => Inv'
<1>1. Inv /\ [Next]_vars => TypeOK' /\ Booted' /\ RingInv'
  BY TypeStep, BootedStep, RingStep DEF Inv
<1>2. Inv /\ UNCHANGED vars => TimerInv'
  BY NeededSame DEF vars, Inv, TimerInv, Armed, ctl, slice, apic
<1> QED BY <1>1, <1>2, TimerArm, TimerBoot, TimerTick, TimerUser, TimerHardware
        DEF Next, Inv

LEMMA TimerInvariant == Spec => []Inv
<1>1. Init => Inv
  BY InitType, RingInit DEF Init, Inv, Booted, TimerInv, Armed
<1> QED BY <1>1, InvStep, PTL DEF Spec

(* While another thread waits for the CPU, or an event is pending, user code
   and system calls run with the one-shot running or its interrupt pending. *)
THEOREM NoTickLost == Spec => []TimerNeverLost
<1>1. Inv => TimerNeverLost
  BY DEF Inv, TimerInv, TimerNeverLost, Waiting, Armed, Needed
<1> QED BY <1>1, TimerInvariant, PTL

(* With nobody else to run and nothing pending, the timer is stopped. *)
THEOREM TicklessAlone == Spec => []Tickless
<1>1. Inv => Tickless
  BY DEF Inv, TimerInv, Tickless, Waiting, Armed, Needed
<1> QED BY <1>1, TimerInvariant, PTL

(***************************************************************************)
(* The refinement: the scheduler implements one virtual CPU per thread.    *)
(***************************************************************************)
LEMMA Stutters ==
    ASSUME g_current' = g_current, live' = live, frame' = frame
    PROVE  UNCHANGED <<Running, [t \in Threads |-> Context(t)]>>
BY DEF Running, Context

(* A step of the running thread changes its own registers only. *)
LEMMA Computes ==
    ASSUME g_current \in Threads, g_current' = g_current, frame' = frame,
           NEW r \in Regs, live' = UserFrame(g_current, r)
    PROVE  CPU!Compute
<1>1. Running = g_current /\ Running' = Running
  BY BootAssumption DEF Running
<1>2. ASSUME NEW t \in Threads
      PROVE  Context(t)' = IF t = g_current THEN CPU!Own(t, r) ELSE Context(t)
  BY DEF Context, UserFrame, CPU!Own
<1>3. [t \in Threads |-> Context(t)]'
        = [[t \in Threads |-> Context(t)] EXCEPT ![Running] = CPU!Own(Running, r)]
  BY <1>1, <1>2
<1> QED BY <1>1, <1>3 DEF CPU!Compute

(* A preemption changes no thread's context. *)
LEMMA Preempts ==
    ASSUME TypeOK, ContextInv, TickPreempt
    PROVE  CPU!Switch \/ UNCHANGED <<Running, [t \in Threads |-> Context(t)]>>
<1>1. /\ g_current \in Threads /\ live.cs = 3 /\ Running = g_current
      /\ frame' = [frame EXCEPT ![g_current] = live]
  BY BootAssumption
     DEF TickPreempt, FromUser, Saved, ContextInv, Booted, TypeOK, Thread0, Running
<1>2. CASE pick_next = g_current
  <2>1. g_current' = g_current /\ live' = live
    BY <1>2 DEF TickPreempt, ring
  <2>2. \A t \in Threads : Context(t)' = Context(t)
    BY <1>1, <2>1 DEF Context, TypeOK
  <2> QED BY <2>1, <2>2 DEF Running
<1>3. CASE pick_next # g_current
  <2>1. /\ pick_next \in Threads /\ g_current' = pick_next
        /\ live' = frame[pick_next]
    BY <1>3, PickType DEF TickPreempt, Ring
  <2>2. live'.cs = 3
    <3>1. PICK r : live' = UserFrame(pick_next, r)
      BY <1>3, <2>1 DEF ContextInv, ContextIntegrity
    <3> QED BY <3>1 DEF UserFrame
  <2>3. \A t \in Threads : Context(t)' = Context(t)
    BY <1>1, <1>3, <2>1, <2>2 DEF Context, TypeOK
  <2>4. Running' \in Threads \ {Running}
    BY <1>1, <1>3, <2>1, BootAssumption DEF Running
  <2> QED BY <2>3, <2>4 DEF CPU!Switch
<1> QED BY <1>2, <1>3

LEMMA RefinesStep == TypeOK /\ ContextInv /\ [Next]_vars => [CPU!Next]_(CPU!vars)
<1> SUFFICES ASSUME TypeOK, ContextInv, [Next]_vars PROVE [CPU!Next]_(CPU!vars)
  OBVIOUS
<1> USE DEF CPU!vars, CPU!Next, ring
<1>1. CASE SchedInit
  <2>1. live.cs # 3 /\ live' = live /\ frame' = frame /\ g_current = NoThread
        /\ g_current' = Boot
    BY <1>1 DEF SchedInit, ContextInv, Booted, LiveInv, BootPcs
  <2> QED BY <2>1, BootAssumption DEF Running, Context
<1>2. CASE EnterUser
  <2>1. g_current = Boot
    BY <1>2 DEF EnterUser, ContextInv, Booted, LiveInv, BootPcs
  <2>2. PICK r \in Regs : live' = UserFrame(g_current, r)
    BY <1>2, <2>1 DEF EnterUser
  <2> QED BY <1>2, <2>1, <2>2, Computes, BootAssumption DEF EnterUser
<1>3. CASE UserStep \/ SyscallReturn
  <2>1. g_current \in Threads
    BY <1>3 DEF UserStep, SyscallReturn, ContextInv, Booted, TypeOK, Thread0
  <2>2. PICK x \in Regs : live = UserFrame(g_current, x)
    <3>1. live = UserFrame(g_current, live.regs)
      BY <1>3 DEF UserStep, SyscallReturn, ContextInv, ContextIntegrity
    <3>2. live.regs \in Regs
      BY DEF TypeOK, Frame
    <3> QED BY <3>1, <3>2
  <2>3. PICK r \in Regs : live' = UserFrame(g_current, r)
    <3>1. CASE UserStep
      BY <3>1, <2>2 DEF UserStep, UserFrame
    <3>2. CASE SyscallReturn
      BY <3>2, <2>2 DEF SyscallReturn, UserFrame, ContextInv, StackAgreement
    <3> QED BY <1>3, <3>1, <3>2
  <2> QED BY <1>3, <2>1, <2>3, Computes DEF UserStep, SyscallReturn
<1>4. CASE TickPreempt
  BY <1>4, Preempts
<1>5. CASE Arm
  BY <1>5, Stutters DEF Arm, ArmNothing, ArmStop, ArmOneshot, ProgramTimer
<1>6. CASE TimerInit \/ SetQuantum \/ SchedStart \/ IdtEnable \/ (\E t \in Threads : SchedAdd(t))
  BY <1>6, Stutters DEF TimerInit, SetQuantum, SchedStart, IdtEnable, SchedAdd
<1>7. CASE TakeTick \/ TickKernel \/ TickKeep \/ TickReturn
  BY <1>7, Stutters DEF TakeTick, TickKernel, TickKeep, TickReturn
<1>8. CASE SyscallEnter \/ Stop \/ (\E e \in Events, d \in Delays : SetEvent(e, d))
  BY <1>8, Stutters DEF SyscallEnter, Stop, SetEvent
<1>9. CASE Clock \/ Fire \/ UNCHANGED vars
  BY <1>9, Stutters DEF Clock, Fire, vars
<1> QED BY <1>1, <1>2, <1>3, <1>4, <1>5, <1>6, <1>7, <1>8, <1>9
        DEF Next, BootUp, Tick, User

LEMMA RefinesInit == Init => CPU!Init
BY DEF Init, CPU!Init, CPU!Own, Running, Context, KernelFrame, UserFrame

(* Preemption is invisible: whatever the ticks, system calls and timer events,
   each thread's context evolves as if it had a CPU of its own. *)
THEOREM RefinesVirtualCpu == Spec => VirtualCpuSpec
BY RefinesInit, RefinesStep, ContextInvariant, PTL DEF Spec, VirtualCpuSpec, CPU!Spec

(***************************************************************************)
(* The rotation: the ring is a cycle of as many threads as it has, which   *)
(* Walk goes round, and pick_next takes the second of it.                  *)
(***************************************************************************)
WalkOf(m, c) ==
    LET w[i \in 0 .. Cardinality(Threads)] == IF i = 0 THEN c ELSE m[w[i - 1]] IN w

LEMMA WalkIs == Walk = WalkOf(next, g_current) /\ Walk' = WalkOf(next', g_current')
BY DEF Walk, WalkOf

(* The definition of Walk has a solution: one is put together from the first on. *)
LEMMA WalkSteps ==
    ASSUME NEW m, NEW c
    PROVE  /\ WalkOf(m, c)[0] = c
           /\ \A i \in 0 .. Cardinality(Threads) - 1 : WalkOf(m, c)[i + 1] = m[WalkOf(m, c)[i]]
<1> DEFINE b == Cardinality(Threads)
           G(w, i) == IF i = 0 THEN c ELSE m[w[i - 1]]
           S == {k \in 0 .. b : \E w : w = [i \in 0 .. k |-> G(w, i)]}
<1>1. b \in Nat
  BY ThreadsAssumption, FS_CardinalityType
<1> HIDE DEF b
<1>2. 0 \in S
  <2> DEFINE w == [i \in 0 .. 0 |-> c]
  <2>1. w = [i \in 0 .. 0 |-> G(w, i)]
    OBVIOUS
  <2> HIDE DEF w, G
  <2>2. \E f : f = [i \in 0 .. 0 |-> G(f, i)]
    BY <2>1
  <2> QED BY <1>1, <2>2
<1>3. ASSUME NEW k \in 0 .. b - 1, k \in S PROVE k + 1 \in S
  <2>1. PICK w : w = [i \in 0 .. k |-> G(w, i)]
    BY <1>3
  <2> DEFINE v == [i \in 0 .. k + 1 |-> IF i <= k THEN w[i] ELSE G(w, i)]
  <2>2. ASSUME NEW i \in 0 .. k + 1 PROVE v[i] = G(v, i)
    <3>1. i = 0 \/ (i - 1 \in 0 .. k /\ v[i - 1] = w[i - 1])
      BY <1>1, <1>3
    <3>2. v[i] = G(w, i)
      <4>1. CASE i = k + 1
        <5> HIDE DEF G
        <5> QED BY <4>1, <1>1, <1>3
      <4>2. CASE i # k + 1
        <5>1. i \in 0 .. k
          BY <4>2, <1>3
        <5> HIDE DEF G
        <5>2. v[i] = w[i]
          BY <5>1, <1>1, <1>3
        <5>3. w[i] = G(w, i)
          BY <2>1, <5>1
        <5> QED BY <5>2, <5>3
      <4> QED BY <4>1, <4>2
    <3>3. G(v, i) = G(w, i)
      <4> HIDE DEF v
      <4> QED BY <3>1
    <3> QED BY <3>2, <3>3
  <2> HIDE DEF G
  <2>3. v = [i \in 0 .. k + 1 |-> v[i]]
    OBVIOUS
  <2> HIDE DEF v
  <2>4. v = [i \in 0 .. k + 1 |-> G(v, i)]
    BY <2>2, <2>3
  <2>5. k + 1 \in 0 .. b
    BY <1>1, <1>3
  <2> QED BY <2>4, <2>5
<1>4. PICK w : w = [i \in 0 .. b |-> G(w, i)]
  <2> HIDE DEF S
  <2>1. 0 \in Nat /\ b \in 0 .. b
    BY <1>1
  <2>2. \A k \in 0 .. b : k \in S
    BY <1>1, <1>2, <1>3, <2>1, Upwards
  <2>3. b \in S
    BY <2>1, <2>2
  <2> QED BY <2>3 DEF S
<1> DEFINE r == WalkOf(m, c)
<1>5. r = [i \in 0 .. b |-> G(r, i)]
  BY <1>4 DEF WalkOf, b
<1> HIDE DEF r
<1>6. \A i \in 0 .. b : r[i] = G(r, i)
  <2> HIDE DEF G
  <2> QED BY <1>5
<1>7. r[0] = c
  BY <1>1, <1>6
<1>8. ASSUME NEW i \in 0 .. b - 1 PROVE r[i + 1] = m[r[i]]
  <2>1. i + 1 \in 0 .. b /\ i + 1 # 0 /\ (i + 1) - 1 = i
    BY <1>1
  <2> QED BY <1>6, <2>1
<1> QED BY <1>7, <1>8 DEF r, b

(* The links m are those of the cycle q[0], ..., q[n - 1], and of no other thread. *)
Cycle(m, n, q) ==
    /\ n \in Nat \ {0}
    /\ q[n] = q[0]
    /\ \A i \in 0 .. n - 1 : q[i] \in Threads /\ m[q[i]] = q[i + 1]
    /\ \A i, j \in 0 .. n - 1 : q[i] = q[j] => i = j
    /\ \A t \in Threads : (\A i \in 0 .. n - 1 : q[i] # t) => m[t] = NoThread

LEMMA CycleIs ==
    ASSUME NEW m, NEW n, NEW q, Cycle(m, n, q)
    PROVE  /\ {t \in Threads : m[t] # NoThread} = {q[i] : i \in 0 .. n - 1}
           /\ Cardinality({t \in Threads : m[t] # NoThread}) = n
           /\ n <= Cardinality(Threads)
<1> DEFINE R == {t \in Threads : m[t] # NoThread}
           f == [i \in 1 .. n |-> q[i - 1]]
<1>1. n \in Nat \ {0}
  BY DEF Cycle
<1>2. ASSUME NEW i \in 0 .. n - 1 PROVE q[i] \in R
  <2>1. q[i + 1] \in Threads
    <3>1. CASE i + 1 = n
      <4>1. 0 \in 0 .. n - 1
        BY <1>1
      <4> QED BY <3>1, <4>1 DEF Cycle
    <3>2. CASE i + 1 # n
      <4>1. i + 1 \in 0 .. n - 1
        BY <1>1, <3>2
      <4> QED BY <4>1 DEF Cycle
    <3> QED BY <3>1, <3>2
  <2> QED BY <2>1, BootAssumption DEF Cycle
<1>3. R = {q[i] : i \in 0 .. n - 1}
  BY <1>2 DEF Cycle
<1> HIDE DEF R
<1>4. f \in Bijection(1 .. n, R)
  <2>1. \A i \in 1 .. n : i - 1 \in 0 .. n - 1 /\ f[i] = q[i - 1]
    BY <1>1
  <2>2. f \in [1 .. n -> R]
    BY <1>3, <2>1
  <2>3. ASSUME NEW i \in 1 .. n, NEW j \in 1 .. n, f[i] = f[j] PROVE i = j
    <3>1. q[i - 1] = q[j - 1] /\ i - 1 \in 0 .. n - 1 /\ j - 1 \in 0 .. n - 1
      BY <2>1, <2>3
    <3>2. i - 1 = j - 1
      BY <3>1 DEF Cycle
    <3> QED BY <1>1, <3>2
  <2>4. ASSUME NEW t \in R PROVE \E i \in 1 .. n : f[i] = t
    <3>1. PICK i \in 0 .. n - 1 : q[i] = t
      BY <1>3
    <3>2. i + 1 \in 1 .. n /\ (i + 1) - 1 = i
      BY <1>1
    <3>3. f[i + 1] = t
      BY <2>1, <3>1, <3>2
    <3> QED BY <3>2, <3>3
  <2> HIDE DEF f
  <2> QED BY <2>2, <2>3, <2>4 DEF Bijection, Injection, Surjection, IsInjective
<1>5. ExistsBijection(1 .. n, R)
  BY <1>4 DEF ExistsBijection
<1>6. Cardinality(R) = n
  BY <1>1, <1>5, FS_CountingElements
<1>7. R \in SUBSET Threads
  BY DEF R
<1>8. n <= Cardinality(Threads)
  BY <1>6, <1>7, ThreadsAssumption, FS_Subset
<1> QED BY <1>3, <1>6, <1>8 DEF R

(* Whoever goes round it meets its threads in turn. *)
LEMMA GoesRound ==
    ASSUME NEW m, NEW n, NEW q, Cycle(m, n, q)
    PROVE  \A i \in 0 .. n : WalkOf(m, q[0])[i] = q[i]
<1> DEFINE r == WalkOf(m, q[0])
           b == Cardinality(Threads)
           S == {i \in 0 .. n : r[i] = q[i]}
<1>1. n \in Nat /\ b \in Nat /\ n <= b
  <2>1. n \in Nat
    BY DEF Cycle
  <2>2. b \in Nat
    BY ThreadsAssumption, FS_CardinalityType
  <2>3. n <= b
    BY CycleIs
  <2> QED BY <2>1, <2>2, <2>3
<1>2. 0 \in S
  BY <1>1, WalkSteps
<1>3. ASSUME NEW i \in 0 .. n - 1, i \in S PROVE i + 1 \in S
  <2>1. i \in 0 .. b - 1 /\ i + 1 \in 0 .. n
    BY <1>1
  <2>2. r[i + 1] = m[r[i]]
    BY <2>1, WalkSteps
  <2>3. r[i] = q[i] /\ m[q[i]] = q[i + 1]
    BY <1>3 DEF Cycle
  <2> HIDE DEF r
  <2> QED BY <2>1, <2>2, <2>3
<1> HIDE DEF S
<1>4. \A i \in 0 .. n : i \in S
  BY <1>1, <1>2, <1>3, Upwards
<1> QED BY <1>4 DEF S, r

(* The two changes of the cycle. *)
Joined(q, n, t) == [i \in 0 .. n + 1 |-> IF i = 0 THEN q[0] ELSE IF i = 1 THEN t ELSE q[i - 1]]
Rotated(q, n)   == [i \in 0 .. n |-> IF i = n THEN q[1] ELSE q[i + 1]]

LEMMA CycleThreads ==
    ASSUME NEW m, NEW n, NEW q, Cycle(m, n, q)
    PROVE  \A i \in 0 .. n : q[i] \in Threads
<1>1. n \in Nat \ {0} /\ q[n] = q[0] /\ \A i \in 0 .. n - 1 : q[i] \in Threads
  BY DEF Cycle
<1>2. \A i \in 0 .. n : i = n \/ i \in 0 .. n - 1
  BY <1>1
<1>3. 0 \in 0 .. n - 1
  BY <1>1
<1> QED BY <1>1, <1>2, <1>3

LEMMA Joins ==
    ASSUME NEW m \in [Threads -> Thread0], NEW n, NEW q, Cycle(m, n, q),
           NEW t \in Threads, \A i \in 0 .. n - 1 : q[i] # t
    PROVE  Cycle([m EXCEPT ![t] = m[q[0]], ![q[0]] = t], n + 1, Joined(q, n, t))
<1> DEFINE mm == [m EXCEPT ![t] = m[q[0]], ![q[0]] = t]
           p == Joined(q, n, t)
<1>1. n \in Nat \ {0} /\ n + 1 \in Nat \ {0} /\ q[n] = q[0] /\ 0 \in 0 .. n - 1 /\ (n + 1) - 1 = n
  BY DEF Cycle
<1>2. \A i \in 0 .. n - 1 : q[i] \in Threads /\ m[q[i]] = q[i + 1] /\ q[i] # t
  BY DEF Cycle
<1>3. mm[q[0]] = t /\ mm[t] = m[q[0]] /\ \A u \in Threads : u # t /\ u # q[0] => mm[u] = m[u]
  BY <1>1, <1>2
<1>4. p[0] = q[0] /\ p[1] = t /\ \A i \in 1 .. n : p[i + 1] = q[i]
  BY <1>1 DEF Joined
<1> HIDE DEF mm, p
<1>5. p[n + 1] = p[0]
  BY <1>1, <1>4
<1>6. ASSUME NEW i \in 0 .. n PROVE p[i] \in Threads /\ mm[p[i]] = p[i + 1]
  <2>1. CASE i = 0
    BY <1>1, <1>2, <1>3, <1>4, <2>1
  <2>2. CASE i = 1
    <3>1. 1 \in 1 .. n /\ p[1 + 1] = q[1]
      BY <1>1, <1>4
    <3>2. m[q[0]] = q[1]
      BY <1>1, <1>2
    <3> QED BY <1>3, <1>4, <2>2, <3>1, <3>2
  <2>3. CASE i > 1
    <3>1. i - 1 \in 1 .. n /\ i - 1 \in 0 .. n - 1 /\ (i - 1) + 1 = i /\ i \in 1 .. n /\ i - 1 # 0
      BY <1>1, <2>3
    <3>2. p[i] = q[i - 1] /\ p[i + 1] = q[i]
      BY <1>4, <3>1
    <3>3. q[i - 1] # q[0] /\ q[i - 1] # t /\ q[i - 1] \in Threads /\ m[q[i - 1]] = q[i]
      BY <1>1, <1>2, <3>1 DEF Cycle
    <3> QED BY <1>3, <3>2, <3>3
  <2> QED BY <1>1, <2>1, <2>2, <2>3
<1>7. ASSUME NEW i \in 0 .. n, NEW j \in 0 .. n, i < j PROVE p[i] # p[j]
  <2>1. CASE j = 1
    <3>1. i = 0
      BY <1>7, <2>1
    <3> QED BY <1>1, <1>2, <1>4, <2>1, <3>1
  <2>2. CASE j > 1
    <3>1. j - 1 \in 1 .. n /\ j - 1 \in 0 .. n - 1 /\ (j - 1) + 1 = j /\ j - 1 # 0
      BY <1>1, <2>2
    <3>2. p[j] = q[j - 1] /\ q[j - 1] # t /\ q[j - 1] # q[0]
      BY <1>1, <1>2, <1>4, <3>1 DEF Cycle
    <3>3. CASE i <= 1
      <4>1. i = 0 \/ i = 1
        BY <3>3
      <4> QED BY <1>4, <3>2, <4>1
    <3>4. CASE i > 1
      <4>1. i - 1 \in 1 .. n /\ i - 1 \in 0 .. n - 1 /\ (i - 1) + 1 = i /\ i - 1 # j - 1
        BY <1>1, <1>7, <3>4
      <4>2. p[i] = q[i - 1] /\ q[i - 1] # q[j - 1]
        BY <1>4, <3>1, <4>1 DEF Cycle
      <4> QED BY <3>2, <4>2
    <3> QED BY <3>3, <3>4
  <2> QED BY <1>7, <2>1, <2>2
<1>8. ASSUME NEW u \in Threads, \A i \in 0 .. n : p[i] # u PROVE mm[u] = NoThread
  <2>1. u # t /\ u # q[0]
    BY <1>1, <1>4, <1>8
  <2>2. ASSUME NEW i \in 0 .. n - 1 PROVE q[i] # u
    <3>1. CASE i = 0
      BY <2>1, <3>1
    <3>2. CASE i # 0
      <4>1. i \in 1 .. n /\ i + 1 \in 0 .. n
        BY <1>1, <3>2
      <4> QED BY <1>4, <1>8, <4>1
    <3> QED BY <3>1, <3>2
  <2>3. m[u] = NoThread
    BY <2>2 DEF Cycle
  <2> QED BY <1>3, <2>1, <2>3
<1>9. \A i, j \in 0 .. n : p[i] = p[j] => i = j
  <2>1. \A i, j \in 0 .. n : i < j \/ j < i \/ i = j
    BY <1>1
  <2> QED BY <1>7, <2>1
<1> DEFINE k == n + 1
<1>10. k \in Nat \ {0} /\ k - 1 = n /\ p[k] = p[0]
  BY <1>1, <1>5
<1> HIDE DEF k
<1>11. Cycle(mm, k, p)
  BY <1>6, <1>8, <1>9, <1>10 DEF Cycle
<1> QED BY <1>11 DEF k, mm, p

LEMMA Rotates ==
    ASSUME NEW m, NEW n, NEW q, Cycle(m, n, q)
    PROVE  Cycle(m, n, Rotated(q, n)) /\ Rotated(q, n)[0] = q[1]
<1> DEFINE p == Rotated(q, n)
<1>1. n \in Nat \ {0} /\ q[n] = q[0] /\ 0 \in 0 .. n - 1
  BY DEF Cycle
<1>2. p[n] = q[1] /\ \A i \in 0 .. n - 1 : p[i] = q[i + 1]
  BY <1>1 DEF Rotated
<1> HIDE DEF p
<1>3. p[0] = q[1]
  BY <1>1, <1>2
<1>4. ASSUME NEW i \in 0 .. n - 1 PROVE p[i] \in Threads /\ m[p[i]] = p[i + 1]
  <2>1. i + 1 \in 0 .. n /\ p[i] = q[i + 1]
    BY <1>1, <1>2
  <2>2. q[i + 1] \in Threads
    BY <2>1, CycleThreads
  <2>3. CASE i + 1 = n
    <3>1. m[q[0]] = q[0 + 1]
      BY <1>1 DEF Cycle
    <3> QED BY <1>1, <1>2, <2>1, <2>2, <2>3, <3>1
  <2>4. CASE i + 1 # n
    <3>1. i + 1 \in 0 .. n - 1
      BY <1>1, <2>1, <2>4
    <3>2. m[q[i + 1]] = q[(i + 1) + 1] /\ p[i + 1] = q[(i + 1) + 1]
      BY <1>2, <3>1 DEF Cycle
    <3> QED BY <2>1, <2>2, <3>2
  <2> QED BY <2>3, <2>4
<1>5. ASSUME NEW i \in 0 .. n - 1, NEW j \in 0 .. n - 1, p[i] = p[j] PROVE i = j
  <2> DEFINE Wrapped(k) == IF k + 1 = n THEN 0 ELSE k + 1
  <2>1. ASSUME NEW k \in 0 .. n - 1 PROVE Wrapped(k) \in 0 .. n - 1 /\ p[k] = q[Wrapped(k)]
    BY <1>1, <1>2
  <2>2. q[Wrapped(i)] = q[Wrapped(j)]
    BY <1>5, <2>1
  <2>3. Wrapped(i) = Wrapped(j)
    <3> HIDE DEF Wrapped
    <3> QED BY <2>1, <2>2 DEF Cycle
  <2> QED BY <1>1, <2>3
<1>6. ASSUME NEW t \in Threads, \A i \in 0 .. n - 1 : p[i] # t PROVE m[t] = NoThread
  <2>1. ASSUME NEW i \in 0 .. n - 1 PROVE q[i] # t
    <3>1. CASE i = 0
      <4>1. n - 1 \in 0 .. n - 1 /\ (n - 1) + 1 = n
        BY <1>1
      <4>2. p[n - 1] = q[0]
        BY <1>1, <1>2, <4>1
      <4> QED BY <1>6, <3>1, <4>1, <4>2
    <3>2. CASE i # 0
      <4>1. i - 1 \in 0 .. n - 1 /\ (i - 1) + 1 = i
        BY <1>1, <3>2
      <4> QED BY <1>2, <1>6, <4>1
    <3> QED BY <3>1, <3>2
  <2> QED BY <2>1 DEF Cycle
<1>7. p[n] = p[0]
  BY <1>2, <1>3
<1>8. Cycle(m, n, p)
  BY <1>1, <1>4, <1>5, <1>6, <1>7 DEF Cycle
<1> QED BY <1>3, <1>8 DEF p

(* From sched_init on the ring is such a cycle, from g_current on. *)
CycleInv == g_current # NoThread => \E n, q : Cycle(next, n, q) /\ q[0] = g_current

Rotation == TypeOK /\ Booted /\ RingInv /\ CycleInv

(* The thread that pick_next takes, if it takes another, is the next one: no thread on
   the ring but g_current is RUNNING, so none is skipped. *)
LEMMA PicksNext ==
    ASSUME TypeOK, RingInv, pick_next # g_current
    PROVE  pick_next = next[g_current]
<1>1. \E t \in Ring \ {g_current} : FirstReady(t)
  BY DEF pick_next
<1>2. FirstReady(pick_next)
  BY <1>1 DEF pick_next
<1>3. {u \in Ring \ {g_current} : state[u] # READY} = {}
  BY DEF TypeOK, RingInv, RunningIsCurrent, Ring
<1>4. next[g_current] \in {pick_next}
  BY <1>2, <1>3 DEF FirstReady
<1> QED BY <1>4

LEMMA AddJoins ==
    ASSUME Rotation, NEW t \in Threads, SchedAdd(t), NEW n, NEW q, Cycle(next, n, q), q[0] = g_current
    PROVE  Cycle(next', n + 1, Joined(q, n, t)) /\ Joined(q, n, t)[0] = g_current' /\ n \in Nat
<1>1. next' = [next EXCEPT ![t] = next[g_current], ![g_current] = t] /\ g_current' = g_current /\ t \notin Ring
  BY DEF SchedAdd, Linked
<1>2. \A i \in 0 .. n - 1 : q[i] # t
  <2>1. Ring = {q[i] : i \in 0 .. n - 1}
    BY CycleIs DEF Ring
  <2> QED BY <1>1, <2>1
<1>3. next \in [Threads -> Thread0]
  BY DEF Rotation, TypeOK
<1>4. Cycle([next EXCEPT ![t] = next[q[0]], ![q[0]] = t], n + 1, Joined(q, n, t))
  BY <1>2, <1>3, Joins
<1>5. n \in Nat /\ Joined(q, n, t)[0] = q[0]
  BY DEF Cycle, Joined
<1> QED BY <1>1, <1>4, <1>5

LEMMA PreemptRotates ==
    ASSUME Rotation, TickPreempt, pick_next # g_current, NEW n, NEW q, Cycle(next, n, q), q[0] = g_current
    PROVE  Cycle(next', n, Rotated(q, n)) /\ Rotated(q, n)[0] = g_current'
<1>1. next' = next /\ g_current' = pick_next
  BY DEF TickPreempt
<1>2. pick_next = next[g_current]
  BY PicksNext DEF Rotation
<1>3. next[q[0]] = q[1]
  <2>1. 0 \in 0 .. n - 1
    BY DEF Cycle
  <2>2. next[q[0]] = q[0 + 1]
    BY <2>1 DEF Cycle
  <2> QED BY <2>2
<1>4. Cycle(next, n, Rotated(q, n)) /\ Rotated(q, n)[0] = q[1]
  BY Rotates
<1> QED BY <1>1, <1>2, <1>3, <1>4

(* The other steps leave the ring alone. *)
LEMMA RingAlone ==
    ASSUME [Next]_vars, ~ SchedInit, \A t \in Threads : ~ SchedAdd(t), ~ (TickPreempt /\ pick_next # g_current)
    PROVE  UNCHANGED ring
<1>1. CASE TickPreempt
  BY <1>1 DEF TickPreempt
<1>2. CASE Arm
  BY <1>2 DEF Arm, ArmNothing, ArmStop, ArmOneshot, ProgramTimer
<1>3. CASE TimerInit \/ SetQuantum \/ SchedStart \/ IdtEnable \/ EnterUser
  BY <1>3 DEF TimerInit, SetQuantum, SchedStart, IdtEnable, EnterUser
<1>4. CASE TakeTick \/ TickKernel \/ TickKeep \/ TickReturn
  BY <1>4 DEF TakeTick, TickKernel, TickKeep, TickReturn
<1>5. CASE User
  BY <1>5 DEF User, UserStep, SyscallEnter, SyscallReturn, Stop, SetEvent
<1>6. CASE Clock \/ Fire \/ UNCHANGED vars
  BY <1>6 DEF Clock, Fire, vars
<1> QED BY <1>1, <1>2, <1>3, <1>4, <1>5, <1>6 DEF Next, BootUp, Tick

LEMMA InitCycle ==
    ASSUME Rotation, SchedInit
    PROVE  LET q == [i \in 0 .. 1 |-> Boot] IN
           Cycle(next', 1, q) /\ q[0] = g_current' /\ g_current = NoThread /\ Ring = {}
<1> DEFINE q == [i \in 0 .. 1 |-> Boot]
<1>1. g_current = NoThread /\ Ring = {} /\ g_current' = Boot /\ next' = [next EXCEPT ![Boot] = Boot]
  BY DEF SchedInit, Rotation, Booted, RingInv
<1>2. Boot \in Threads /\ next \in [Threads -> Thread0]
  BY BootAssumption DEF Rotation, TypeOK
<1>3. next'[Boot] = Boot /\ \A t \in Threads : t # Boot => next'[t] = NoThread
  BY <1>1, <1>2 DEF Ring
<1>4. q[0] = Boot /\ q[1] = Boot
  OBVIOUS
<1> HIDE DEF q
<1>5. \A i \in 0 .. 1 - 1 : i = 0
  OBVIOUS
<1>6. 0 \in 0 .. 1 - 1 /\ 0 + 1 = 1
  OBVIOUS
<1>7. Cycle(next', 1, q)
  BY <1>2, <1>3, <1>4, <1>5, <1>6 DEF Cycle
<1> QED BY <1>1, <1>4, <1>7 DEF q

LEMMA CycleStep == Rotation /\ [Next]_vars => CycleInv'
<1> SUFFICES ASSUME Rotation, [Next]_vars PROVE CycleInv'
  OBVIOUS
<1>1. CASE SchedInit
  BY <1>1, InitCycle DEF CycleInv
<1>2. ASSUME NEW t \in Threads, SchedAdd(t) PROVE CycleInv'
  <2>1. g_current # NoThread
    BY <1>2 DEF SchedAdd, Rotation, Booted
  <2>2. PICK n, q : Cycle(next, n, q) /\ q[0] = g_current
    BY <2>1 DEF Rotation, CycleInv
  <2>3. Cycle(next', n + 1, Joined(q, n, t)) /\ Joined(q, n, t)[0] = g_current'
    BY <1>2, <2>2, AddJoins
  <2> QED BY <2>3 DEF CycleInv
<1>3. CASE TickPreempt /\ pick_next # g_current
  <2>1. g_current # NoThread
    BY <1>3 DEF TickPreempt, Rotation, Booted
  <2>2. PICK n, q : Cycle(next, n, q) /\ q[0] = g_current
    BY <2>1 DEF Rotation, CycleInv
  <2>3. Cycle(next', n, Rotated(q, n)) /\ Rotated(q, n)[0] = g_current'
    BY <1>3, <2>2, PreemptRotates
  <2> QED BY <2>3 DEF CycleInv
<1>4. CASE UNCHANGED ring
  BY <1>4 DEF ring, Rotation, CycleInv
<1> QED BY <1>1, <1>2, <1>3, <1>4, RingAlone

LEMMA RotationInvariant == Spec => []Rotation
<1>1. Init => CycleInv
  BY DEF Init, CycleInv
<1>2. CycleInv /\ (TypeOK /\ Booted /\ RingInv) /\ [Next]_vars => CycleInv'
  BY CycleStep DEF Rotation
<1>3. CycleInv /\ TypeOK /\ Booted /\ RingInv <=> Rotation
  BY DEF Rotation
<1> QED BY <1>1, <1>2, <1>3, RingInvariant, PTL DEF Spec

(* The queue of RoundRobin is that of the cycle. *)
QueueOf(n, q) == [i \in 1 .. n |-> q[i - 1]]

LEMMA QueueIs ==
    /\ \A n, q : Cycle(next, n, q) /\ q[0] = g_current => Queue = QueueOf(n, q)
    /\ \A n, q : Cycle(next', n, q) /\ q[0] = g_current' => Queue' = QueueOf(n, q)
<1> DEFINE Of(m, c) == [i \in 1 .. Cardinality({t \in Threads : m[t] # NoThread}) |-> WalkOf(m, c)[i - 1]]
<1>1. ASSUME NEW m, NEW n, NEW q, Cycle(m, n, q)
      PROVE  Of(m, q[0]) = QueueOf(n, q)
  <2>1. Cardinality({t \in Threads : m[t] # NoThread}) = n
    BY <1>1, CycleIs
  <2>2. n \in Nat /\ \A i \in 1 .. n : i - 1 \in 0 .. n
    BY <1>1 DEF Cycle
  <2>3. \A i \in 0 .. n : WalkOf(m, q[0])[i] = q[i]
    BY <1>1, GoesRound
  <2> QED BY <2>1, <2>2, <2>3 DEF QueueOf
<1>2. Queue = Of(next, g_current) /\ Queue' = Of(next', g_current')
  BY WalkIs DEF Queue, Ring
<1> HIDE DEF Of
<1> QED BY <1>1, <1>2

LEMMA QueueSeq ==
    ASSUME NEW n \in Nat, NEW q, \A i \in 0 .. n : q[i] \in Threads
    PROVE  /\ QueueOf(n, q) \in Seq(Threads) /\ Len(QueueOf(n, q)) = n
           /\ \A i \in 1 .. n : QueueOf(n, q)[i] = q[i - 1]
<1>1. \A i \in 1 .. n : i - 1 \in 0 .. n /\ q[i - 1] \in Threads
  OBVIOUS
<1> QED BY <1>1 DEF QueueOf

LEMMA QueueRotated ==
    ASSUME NEW n \in Nat \ {0}, NEW q, (\A i \in 0 .. n : q[i] \in Threads), q[n] = q[0],
           NEW p, \A i \in 0 .. n : p[i] = (IF i = n THEN q[1] ELSE q[i + 1])
    PROVE  QueueOf(n, q) # <<>> /\ QueueOf(n, p) = Append(Tail(QueueOf(n, q)), Head(QueueOf(n, q)))
<1> DEFINE s == QueueOf(n, q)
           t == QueueOf(n, p)
           h == Tail(s)
<1>1. s \in Seq(Threads) /\ Len(s) = n /\ \A i \in 1 .. n : s[i] = q[i - 1]
  BY QueueSeq
<1>2. \A i \in 0 .. n : p[i] \in Threads
  OBVIOUS
<1>3. t \in Seq(Threads) /\ Len(t) = n /\ \A i \in 1 .. n : t[i] = p[i - 1]
  BY <1>2, QueueSeq
<1> HIDE DEF s, t
<1>4. s # <<>>
  BY <1>1
<1>5. h \in Seq(Threads) /\ Len(h) = n - 1 /\ \A i \in 1 .. n - 1 : h[i] = s[i + 1]
  BY <1>1, <1>4, HeadTailProperties
<1>6. Head(s) = q[0] /\ Head(s) \in Threads
  BY <1>1, <1>4
<1> HIDE DEF h
<1> DEFINE x == Head(s)
           v == Append(h, x)
<1> HIDE DEF x
<1>7. /\ v \in Seq(Threads) /\ Len(v) = n
      /\ \A i \in 1 .. n - 1 : v[i] = h[i]
      /\ v[n] = x
  BY <1>5, <1>6 DEF x
<1> HIDE DEF v
<1>8. ASSUME NEW i \in 1 .. n PROVE t[i] = v[i]
  <2>1. t[i] = p[i - 1] /\ i - 1 \in 0 .. n /\ i - 1 # n /\ p[i - 1] = q[i]
    BY <1>3
  <2>2. CASE i = n
    BY <1>6, <1>7, <2>1, <2>2 DEF x
  <2>3. CASE i # n
    <3>1. i \in 1 .. n - 1 /\ i + 1 \in 1 .. n /\ (i + 1) - 1 = i
      BY <2>3
    <3>2. v[i] = s[i + 1] /\ s[i + 1] = q[i]
      BY <1>1, <1>5, <1>7, <3>1
    <3> QED BY <2>1, <3>2
  <2> QED BY <2>2, <2>3
<1>9. t = v
  BY <1>3, <1>7, <1>8, SeqEqual
<1> QED BY <1>4, <1>9 DEF v, x, h, s, t

LEMMA QueueJoined ==
    ASSUME NEW n \in Nat \ {0}, NEW q, (\A i \in 0 .. n : q[i] \in Threads), NEW t \in Threads
    PROVE  QueueOf(n, q) # <<>>
           /\ QueueOf(n + 1, Joined(q, n, t)) = <<Head(QueueOf(n, q)), t>> \o Tail(QueueOf(n, q))
<1> DEFINE s == QueueOf(n, q)
           p == Joined(q, n, t)
           l == n + 1
           r == QueueOf(l, p)
           h == Tail(s)
<1>1. s \in Seq(Threads) /\ Len(s) = n /\ \A i \in 1 .. n : s[i] = q[i - 1]
  BY QueueSeq
<1>2. p[0] = q[0] /\ p[1] = t /\ \A i \in 2 .. n + 1 : p[i] = q[i - 1]
  BY DEF Joined
<1> HIDE DEF p
<1>3. l \in Nat /\ \A i \in 0 .. l : p[i] \in Threads
  <2>1. \A i \in 0 .. l : i = 0 \/ i = 1 \/ (i \in 2 .. n + 1 /\ i - 1 \in 0 .. n)
    OBVIOUS
  <2> QED BY <1>2, <2>1
<1> HIDE DEF l
<1>4. r \in Seq(Threads) /\ Len(r) = l /\ \A i \in 1 .. l : r[i] = p[i - 1]
  BY <1>3, QueueSeq
<1> HIDE DEF s, r
<1>5. s # <<>>
  BY <1>1
<1>6. h \in Seq(Threads) /\ Len(h) = n - 1 /\ \A i \in 1 .. n - 1 : h[i] = s[i + 1]
  BY <1>1, <1>5, HeadTailProperties
<1>7. Head(s) = q[0] /\ Head(s) \in Threads
  BY <1>1, <1>5
<1> HIDE DEF h
<1> DEFINE o == <<Head(s), t>>
           v == o \o h
<1>8. o \in Seq(Threads) /\ Len(o) = 2 /\ o[1] = q[0] /\ o[2] = t
  BY <1>7
<1> HIDE DEF o
<1>9. v \in Seq(Threads) /\ Len(v) = n + 1
      /\ \A i \in 1 .. n + 1 : v[i] = IF i <= 2 THEN o[i] ELSE h[i - 2]
  <2>1. /\ o \o h \in Seq(Threads) /\ Len(o \o h) = Len(o) + Len(h)
        /\ \A i \in 1 .. Len(o) + Len(h) : (o \o h)[i] = IF i <= Len(o) THEN o[i] ELSE h[i - Len(o)]
    BY <1>6, <1>8, ConcatProperties
  <2>2. Len(o) + Len(h) = n + 1
    BY <1>6, <1>8
  <2> QED BY <1>8, <2>1, <2>2
<1> HIDE DEF v
<1>10. ASSUME NEW i \in 1 .. l PROVE r[i] = v[i]
  <2>0. i \in 1 .. n + 1 /\ r[i] = p[i - 1]
    BY <1>4 DEF l
  <2>1. CASE i = 1
    BY <1>2, <1>8, <1>9, <2>0, <2>1
  <2>2. CASE i = 2
    BY <1>2, <1>8, <1>9, <2>0, <2>2
  <2>3. CASE i > 2
    <3> DEFINE j == i - 2
    <3>1. i - 1 \in 2 .. n + 1 /\ j \in 1 .. n - 1 /\ j + 1 = i - 1 /\ (i - 1) - 1 = j /\ j + 1 \in 1 .. n /\ ~ (i <= 2)
      BY <2>0, <2>3
    <3>2. v[i] = h[j]
      BY <1>9, <2>0, <3>1
    <3> HIDE DEF j
    <3>3. h[j] = s[j + 1] /\ s[j + 1] = q[j + 1 - 1]
      BY <1>1, <1>6, <3>1
    <3>4. p[i - 1] = q[(i - 1) - 1]
      BY <1>2, <3>1
    <3>5. j + 1 - 1 = j
      BY <3>1
    <3> QED BY <2>0, <3>1, <3>2, <3>3, <3>4, <3>5
  <2> QED BY <2>0, <2>1, <2>2, <2>3
<1>11. r = v
  <2>1. Len(v) = l
    BY <1>9 DEF l
  <2> QED BY <1>4, <1>9, <1>10, <2>1, SeqEqual
<1> QED BY <1>5, <1>11 DEF r, v, o, h, s, l, p

LEMMA RotationRefines == Rotation /\ [Next]_vars => [RR!Next]_Queue
<1> SUFFICES ASSUME Rotation, [Next]_vars PROVE RR!Next \/ Queue' = Queue
  OBVIOUS
<1>1. CASE SchedInit
  <2> DEFINE q == [i \in 0 .. 1 |-> Boot]
  <2>1. Cycle(next', 1, q) /\ q[0] = g_current' /\ g_current = NoThread /\ Ring = {}
    BY <1>1, InitCycle
  <2>2. Queue' = QueueOf(1, q)
    BY <2>1, QueueIs
  <2>3. QueueOf(1, q) = <<Boot>>
    <3>1. \A i \in 1 .. 1 : q[i - 1] = Boot
      OBVIOUS
    <3> HIDE DEF q
    <3> QED BY <3>1 DEF QueueOf
  <2>4. Queue = <<>>
    <3>1. Cardinality(Ring) = 0
      BY <2>1, FS_EmptySet
    <3> QED BY <3>1 DEF Queue
  <2>5. RR!Enter
    BY <2>2, <2>3, <2>4, BootAssumption DEF RR!Enter, RR!Waiting
  <2> QED BY <2>5 DEF RR!Next
<1>2. ASSUME NEW t \in Threads, SchedAdd(t) PROVE RR!Next
  <2>1. g_current # NoThread /\ t \notin Ring
    BY <1>2 DEF SchedAdd, Rotation, Booted
  <2>2. PICK n, q : Cycle(next, n, q) /\ q[0] = g_current
    BY <2>1 DEF Rotation, CycleInv
  <2>3. Cycle(next', n + 1, Joined(q, n, t)) /\ Joined(q, n, t)[0] = g_current'
    BY <1>2, <2>2, AddJoins
  <2>4. n \in Nat \ {0} /\ \A i \in 0 .. n : q[i] \in Threads
    BY <2>2, CycleThreads DEF Cycle
  <2>5. Queue = QueueOf(n, q) /\ Queue' = QueueOf(n + 1, Joined(q, n, t))
    BY <2>2, <2>3, QueueIs
  <2>6. Queue # <<>> /\ Queue' = <<Head(Queue), t>> \o Tail(Queue)
    BY <2>4, <2>5, QueueJoined
  <2>7. \A i \in DOMAIN Queue : Queue[i] # t
    <3>1. DOMAIN Queue = 1 .. n /\ \A i \in 1 .. n : Queue[i] = q[i - 1] /\ i - 1 \in 0 .. n - 1
      BY <2>4, <2>5 DEF QueueOf
    <3>2. Ring = {q[i] : i \in 0 .. n - 1}
      BY <2>2, CycleIs DEF Ring
    <3> QED BY <2>1, <3>1, <3>2
  <2>8. RR!Enter
    BY <2>6, <2>7 DEF RR!Enter, RR!Waiting
  <2> QED BY <2>8 DEF RR!Next
<1>3. CASE TickPreempt /\ pick_next # g_current
  <2>1. g_current # NoThread
    BY <1>3 DEF TickPreempt, Rotation, Booted
  <2>2. PICK n, q : Cycle(next, n, q) /\ q[0] = g_current
    BY <2>1 DEF Rotation, CycleInv
  <2> DEFINE p == Rotated(q, n)
  <2>3. Cycle(next', n, p) /\ p[0] = g_current'
    BY <1>3, <2>2, PreemptRotates
  <2>4. n \in Nat \ {0} /\ (\A i \in 0 .. n : q[i] \in Threads) /\ q[n] = q[0]
    BY <2>2, CycleThreads DEF Cycle
  <2>5. \A i \in 0 .. n : p[i] = IF i = n THEN q[1] ELSE q[i + 1]
    BY DEF Rotated
  <2>6. Queue = QueueOf(n, q) /\ Queue' = QueueOf(n, p)
    BY <2>2, <2>3, QueueIs
  <2> HIDE DEF p
  <2>7. Queue # <<>> /\ Queue' = Append(Tail(Queue), Head(Queue))
    BY <2>4, <2>5, <2>6, QueueRotated
  <2> QED BY <2>7 DEF RR!Next, RR!Rotate
<1>4. CASE UNCHANGED ring
  BY <1>4, WalkIs DEF ring, Queue, Ring
<1> QED BY <1>1, <1>2, <1>3, <1>4, RingAlone

(* Strict rotation: sched_add puts a thread right behind the running one, and a
   preemption sends the running one to the end; nobody is passed over (RoundRobinSpec). *)
THEOREM RefinesRoundRobin == Spec => RoundRobinSpec
<1>1. Init => RR!Init
  <2> SUFFICES ASSUME Init PROVE Queue = <<>>
    BY DEF RR!Init
  <2>1. Ring = {}
    BY BootAssumption DEF Init, Ring
  <2>2. Cardinality(Ring) = 0
    BY <2>1, FS_EmptySet
  <2> QED BY <2>2 DEF Queue
<1> QED BY <1>1, RotationRefines, RotationInvariant, PTL DEF Spec, RoundRobinSpec, RR!Spec
(***************************************************************************)
(* Time slices.  A thread the tick has dispatched runs in ring 3 with       *)
(* somebody waiting behind it, and the end of its slice is a whole quantum  *)
(* from its dispatch.  A quantum is set before the first slice.             *)
(***************************************************************************)
Setup == pc \in {"sched_init", "sched_add", "set_quantum"}
         \/ (pc \in {"arm", "program"} /\ ret = "sched_add")

QuantumInv ==
    /\ Setup => g_quantum_ns = 0
    /\ g_slice_end_ns # None => g_quantum_ns # 0

SliceInv ==
    /\ ran \in {None} \cup 0 .. RanBound
    /\ busy \in 0 .. HandlerTime
    /\ calm \in BOOLEAN
    /\ calm => Pending = {}
    /\ ran # None => /\ live.cs = 3 /\ OthersReady
                     /\ g_slice_end_ns # None => ran + g_slice_end_ns >= g_quantum_ns

(* A calm slice: its end is set when the timer is armed for it, and the timer is *)
(* never set for later than a quantum after the handler, nor for earlier than *)
(* the slice's end. *)
CalmInv ==
    ran # None /\ calm =>
      /\ pc \in {"arm", "program"} => ret = "eoi" /\ ran <= busy /\ timer = None /\ ~irr
      /\ pc = "arm" => g_slice_end_ns = None
      /\ pc = "program" => /\ g_slice_end_ns \in 0 .. g_quantum_ns
                           /\ delta = g_quantum_ns
      /\ pc = "tick" => g_slice_end_ns = 0
      /\ pc \in {"eoi", "user", "syscall"} =>
           \/ /\ timer # None /\ ~irr
              /\ g_slice_end_ns \in 0 .. timer
              /\ ran + timer <= g_quantum_ns + HandlerTime
           \/ timer = None /\ irr /\ g_slice_end_ns = 0

TimedInv == Inv /\ ContextInv /\ QuantumInv /\ SliceInv /\ CalmInv

(* A step of the timed specification is a step of the scheduler. *)
LEMMA TimedIsNext == [TimedNext]_timedVars => [Next]_vars
BY DEF TimedNext, TimedClock, Timed, KernelStep, UserChoice, Next, BootUp, Tick, User,
       timedVars

LEMMA QuantumStep == TypeOK /\ Booted /\ QuantumInv /\ [Next]_vars => QuantumInv'
<1> SUFFICES ASSUME TypeOK, Booted, QuantumInv, [Next]_vars PROVE QuantumInv'
  OBVIOUS
<1> USE DEF TypeOK, QuantumInv, Setup, ring, slice, stack, apic, ctl, None, ReturnPcs
<1>1. CASE Arm
  <2>1. NewSliceEnd # None => g_quantum_ns # 0
    BY DEF NewSliceEnd, SliceNeeded
  <2> QED BY <1>1, <2>1 DEF Arm, ArmNothing, ArmStop, ArmOneshot, ProgramTimer, Return
<1>2. CASE BootUp
  BY <1>2 DEF BootUp, SchedInit, SchedAdd, TimerInit, SetQuantum, SchedStart, IdtEnable,
     EnterUser, CallArm
<1>3. CASE Tick
  BY <1>3 DEF Tick, TakeTick, TickKernel, TickKeep, TickPreempt, TickReturn, CallArm
<1>4. CASE User
  BY <1>4 DEF User, UserStep, SyscallEnter, SyscallReturn, Stop, SetEvent, CallArm
<1>5. CASE Clock
  BY <1>5 DEF Clock, Passed
<1>6. CASE Fire \/ UNCHANGED vars
  BY <1>6 DEF Fire, vars
<1> QED BY <1>1, <1>2, <1>3, <1>4, <1>5, <1>6 DEF Next

(* Time on the CPU and the end of the slice add up to a quantum: time passes for
   both. *)
LEMMA SlicesClock == TimedInv /\ TimedClock => SliceInv' /\ CalmInv'
<1> SUFFICES ASSUME TimedInv, TimedClock PROVE SliceInv' /\ CalmInv'
  OBVIOUS
<1>0. /\ TypeOK /\ SliceInv /\ CalmInv
      /\ timer \in Time /\ g_slice_end_ns \in Time /\ timerq \in [Events -> Time]
  BY DEF TimedInv, Inv, TypeOK
<1>1. /\ UNCHANGED <<ring, g_quantum_ns, g_src, apic, live, ctl, calm>>
      /\ g_slice_end_ns' = Passed(g_slice_end_ns)
      /\ timer' = Passed(timer)
      /\ timer # 0
  BY DEF TimedClock, Clock
<1>2. Pending' = Pending
  <2>1. \A d \in Time : Passed(d) = None <=> d = None
    BY DEF Passed, Time, None
  <2> QED BY <1>0, <2>1 DEF TimedClock, Clock, Pending
<1>3. OthersReady' = OthersReady
  BY <1>1 DEF OthersReady, Ring, ring
<1>4. g_quantum_ns \in Nat /\ (OthersReady => g_quantum_ns < RanBound)
  <2>1. \A q \in Quanta : q < RanBound
    BY QuantaAssumption, RanBoundAssumption, HandlerTimeAssumption
  <2> QED BY <1>0, <2>1, QuantaAssumption DEF OthersReady, TypeOK
<1>5. busy' \in 0 .. HandlerTime /\ (InHandler => busy \in Nat /\ busy' = busy + 1)
  BY <1>0, RanBoundAssumption, HandlerTimeAssumption DEF TimedClock, SliceInv
<1>6. /\ ran = None <=> ran' = None
      /\ ran \in Nat => ran' \in ran .. ran + 1 /\ (ran' = ran => ran = RanBound)
      /\ ran' \in {None} \cup 0 .. RanBound
  BY <1>0, RanBoundAssumption, HandlerTimeAssumption DEF TimedClock, SliceInv, None
<1>7. SliceInv'
  <2>1. ASSUME ran' # None, g_slice_end_ns' # None
        PROVE  ran' + g_slice_end_ns' >= g_quantum_ns
    <3>1. ran \in Nat /\ ran' \in Nat /\ g_slice_end_ns \in Nat /\ OthersReady
      BY <1>0, <1>1, <1>6, <2>1 DEF SliceInv, Passed, Time, None
    <3>2. ran + g_slice_end_ns >= g_quantum_ns
      BY <1>0, <3>1 DEF SliceInv, None
    <3>3. g_slice_end_ns' = IF g_slice_end_ns = 0 THEN 0 ELSE g_slice_end_ns - 1
      BY <1>1, <3>1 DEF Passed, None
    <3>4. ran' = ran + 1 \/ (ran' = ran /\ ran = RanBound)
      BY <1>6, <3>1
    <3>5. g_quantum_ns \in Nat /\ g_quantum_ns < RanBound
      BY <1>4, <3>1
    <3>6. PICK r \in Nat, d \in Nat : r = ran' /\ d = g_slice_end_ns'
      BY <3>1, <3>3
    <3>7. /\ ran \in Nat /\ g_slice_end_ns \in Nat
          /\ r = ran + 1 \/ (r = ran /\ ran = RanBound)
          /\ d = IF g_slice_end_ns = 0 THEN 0 ELSE g_slice_end_ns - 1
      BY <3>1, <3>3, <3>4, <3>6
    <3>8. r + d >= g_quantum_ns
      BY <3>2, <3>5, <3>7, RanBoundAssumption
    <3> QED BY <3>6, <3>8
  <2> QED BY <1>0, <1>1, <1>2, <1>3, <1>5, <1>6, <2>1 DEF SliceInv
<1>8. CalmInv'
  <2> SUFFICES ASSUME ran # None, calm PROVE CalmInv'
    BY <1>1, <1>6 DEF CalmInv
  <2>1. CASE pc \in {"arm", "program", "tick"}
    <3>1. ran \in Nat /\ ran' \in ran .. ran + 1
      BY <1>0, <1>6 DEF SliceInv
    <3>2. CASE pc = "tick"
      BY <1>0, <1>1, <2>1, <3>2 DEF CalmInv, Passed, ctl
    <3>3. CASE pc \in {"arm", "program"}
      <4>1. ret = "eoi" /\ ran <= busy /\ timer = None /\ ~irr
        BY <1>0, <3>3 DEF CalmInv
      <4>2. ran' <= busy'
        BY <1>5, <3>1, <3>3, <4>1 DEF InHandler
      <4>3. pc = "arm" => g_slice_end_ns' = None
        BY <1>0, <1>1 DEF CalmInv, Passed
      <4>4. pc = "program" => g_slice_end_ns' \in 0 .. g_quantum_ns /\ delta = g_quantum_ns
        BY <1>0, <1>1, <1>4 DEF CalmInv, Passed, None
      <4> QED BY <1>1, <3>3, <4>1, <4>2, <4>3, <4>4 DEF CalmInv, Passed, apic, ctl, slice
    <3> QED BY <2>1, <3>2, <3>3
  <2>2. CASE timer # None /\ pc \in {"eoi", "user", "syscall"}
    <3>1. timer \in Nat /\ timer' = timer - 1
      BY <1>0, <1>1, <2>2 DEF Passed, Time
    <3>2. ran' + timer' <= g_quantum_ns + HandlerTime
      <4>1. ran \in Nat /\ ran' \in Nat /\ ran' <= ran + 1
        BY <1>0, <1>6 DEF SliceInv
      <4>2. ran + timer <= g_quantum_ns + HandlerTime
        BY <1>0, <2>2 DEF CalmInv
      <4>3. g_quantum_ns \in Nat /\ HandlerTime \in Nat
        BY <1>4, HandlerTimeAssumption
      <4>4. PICK r \in Nat, d \in Nat : r = ran' /\ d = timer'
        BY <1>1, <3>1, <4>1
      <4>5. ran \in Nat /\ timer \in Nat /\ r <= ran + 1 /\ d = timer - 1
        BY <3>1, <4>1, <4>4
      <4>6. r + d <= g_quantum_ns + HandlerTime
        BY <4>2, <4>3, <4>5
      <4> QED BY <4>4, <4>6
    <3>3. g_slice_end_ns' \in 0 .. timer'
      BY <1>0, <1>1, <2>2, <3>1 DEF CalmInv, Passed, None
    <3>4. timer' # None /\ ~irr'
      BY <1>0, <1>1, <2>2, <3>1 DEF CalmInv, None, apic
    <3> QED BY <1>1, <2>2, <3>2, <3>3, <3>4 DEF CalmInv, ctl, slice
  <2>3. CASE timer = None /\ pc \in {"eoi", "user", "syscall"}
    BY <1>0, <1>1, <2>3 DEF CalmInv, Passed, apic, ctl
  <2>4. CASE pc \notin {"arm", "program", "tick", "eoi", "user", "syscall"}
    BY <1>1, <2>4 DEF CalmInv, ctl
  <2> QED BY <2>1, <2>2, <2>3, <2>4
<1> QED BY <1>7, <1>8

(* A step that dispatches nobody leaves the count of the running thread alone:
   the end of its slice stays, goes, or is set a whole quantum ahead. *)
LEMMA SliceKept ==
    ASSUME TimedInv, Measure, ~Dispatch,
           ran # None => /\ UNCHANGED <<ring, g_quantum_ns>> /\ live'.cs = 3
                         /\ g_slice_end_ns' \in {None, g_slice_end_ns, g_quantum_ns}
    PROVE  SliceInv'
<1>1. SliceInv /\ TypeOK
  BY DEF TimedInv, Inv
<1>2. /\ ran' = ran /\ ran' \in {None} \cup 0 .. RanBound
      /\ calm' \in BOOLEAN /\ (calm' => Pending' = {})
  BY <1>1 DEF Measure, SliceInv
<1>3. busy' \in 0 .. HandlerTime
  BY <1>1, HandlerTimeAssumption DEF Measure, SliceInv
<1>4. ASSUME ran # None
      PROVE  /\ live'.cs = 3 /\ OthersReady'
             /\ g_slice_end_ns' # None => ran + g_slice_end_ns' >= g_quantum_ns
  <2>1. OthersReady'
    BY <1>1, <1>4 DEF SliceInv, OthersReady, Ring, ring
  <2>2. ran + g_quantum_ns >= g_quantum_ns
    <3>1. ran \in Nat /\ g_quantum_ns \in Nat
      BY <1>1, <1>4, QuantaAssumption DEF SliceInv, TypeOK
    <3> QED BY <3>1
  <2> QED BY <1>1, <1>4, <2>1, <2>2 DEF SliceInv
<1>5. ran # None => g_quantum_ns' = g_quantum_ns
  OBVIOUS
<1> QED BY <1>2, <1>3, <1>4, <1>5 DEF SliceInv

(* Boot, and a tick in its window, come before the first slice. *)
LEMMA BeforeSlices == TimedInv /\ live.cs # 3 => ran = None
BY DEF TimedInv, SliceInv

LEMMA SlicesBoot == TimedInv /\ BootUp /\ Measure => SliceInv' /\ CalmInv'
<1> SUFFICES ASSUME TimedInv, BootUp, Measure PROVE SliceInv' /\ CalmInv'
  OBVIOUS
<1>1. pc \in BootPcs \cup {"window"}
  BY DEF BootUp, SchedInit, SchedAdd, TimerInit, SetQuantum, SchedStart, IdtEnable,
         EnterUser, BootPcs
<1>2. ran = None
  BY <1>1, BeforeSlices DEF TimedInv, ContextInv, LiveInv
<1>3. ~Dispatch
  BY DEF BootUp, SchedInit, SchedAdd, TimerInit, SetQuantum, SchedStart, IdtEnable,
         EnterUser, Dispatch, TimedInv, Inv, Booted, ring
<1>4. SliceInv'
  BY <1>2, <1>3, SliceKept
<1>5. CalmInv'
  BY <1>2, <1>3 DEF Measure, CalmInv
<1> QED BY <1>4, <1>5

(* Arming the timer for a calm slice sets its end and then the timer. *)
LEMMA SlicesArm == TimedInv /\ Arm /\ Measure => SliceInv' /\ CalmInv'
<1> SUFFICES ASSUME TimedInv, Arm, Measure PROVE SliceInv' /\ CalmInv'
  OBVIOUS
<1>1. /\ UNCHANGED <<ring, frame, g_quantum_ns, timerq, stack, g_src, apic, live, ret>>
      /\ g_slice_end_ns' \in {g_slice_end_ns, NewSliceEnd}
  BY DEF Arm, ArmNothing, ArmStop, ArmOneshot, ProgramTimer, Return, slice
<1>2. ~Dispatch
  BY <1>1 DEF Dispatch, ring
<1>3. SliceInv'
  <2>1. NewSliceEnd \in {None, g_slice_end_ns, g_quantum_ns}
    BY DEF NewSliceEnd
  <2> QED BY <1>1, <1>2, <2>1, SliceKept DEF TimedInv, SliceInv
<1>4. CalmInv'
  <2> SUFFICES ASSUME ran # None, calm PROVE CalmInv'
    BY <1>2 DEF Measure, CalmInv
  <2>1. /\ TypeOK /\ RingInv /\ TimerInv /\ g_current # NoThread
        /\ Pending = {} /\ OthersReady /\ SliceNeeded
    <3>1. g_current # NoThread
      BY DEF TimedInv, Inv, Booted, Arm, ArmNothing, ArmStop, ArmOneshot, ProgramTimer
    <3> QED BY <3>1, SliceNeededIff DEF TimedInv, Inv, SliceInv
  <2>2. /\ ret = "eoi" /\ ran <= busy /\ timer = None /\ ~irr
        /\ pc = "arm" => g_slice_end_ns = None
        /\ pc = "program" => g_slice_end_ns \in 0 .. g_quantum_ns /\ delta = g_quantum_ns
    BY DEF TimedInv, CalmInv, Arm, ArmNothing, ArmStop, ArmOneshot, ProgramTimer
  <2>3. g_quantum_ns \in Nat /\ g_quantum_ns # 0
    BY <2>1, QuantaAssumption DEF TypeOK, OthersReady
  <2>4. CASE pc = "arm"
    <3>1. sched_next_deadline = g_quantum_ns /\ NewSliceEnd = g_quantum_ns
      BY <2>1, <2>2, <2>3, <2>4
         DEF sched_next_deadline, NewSliceEnd, timerq_next_deadline, Earlier, None
    <3>2. ArmOneshot
      BY <2>3, <2>4, <3>1
         DEF Arm, ArmNothing, ArmStop, ProgramTimer, NothingToTime, None
    <3>3. /\ pc' = "program" /\ delta' = g_quantum_ns /\ g_slice_end_ns' = g_quantum_ns
          /\ UNCHANGED <<timer, irr, ret, g_quantum_ns>>
      BY <2>3, <3>1, <3>2 DEF ArmOneshot, Delta, apic
    <3>4. ran' = ran /\ busy' = busy
      BY <1>2, <2>2, <2>4 DEF Measure, InHandler
    <3> QED BY <2>2, <2>3, <3>3, <3>4 DEF CalmInv
  <2>5. CASE pc = "program"
    <3>1. ProgramTimer /\ g_src # SRC_NONE
      BY <2>1, <2>2, <2>5 DEF Arm, ArmNothing, ArmStop, ArmOneshot, TimerInv
    <3>2. /\ timer' = g_quantum_ns /\ pc' = "eoi"
          /\ UNCHANGED <<g_slice_end_ns, g_quantum_ns, irr>>
      BY <2>2, <2>5, <3>1 DEF ProgramTimer, apic, slice
    <3>3. ran' = ran /\ ran + g_quantum_ns <= g_quantum_ns + HandlerTime
      <4>1. ran \in Nat /\ busy \in Nat /\ busy <= HandlerTime /\ ran <= busy
        BY <2>2, HandlerTimeAssumption DEF TimedInv, SliceInv
      <4>2. ran + g_quantum_ns <= g_quantum_ns + HandlerTime
        BY <2>3, <4>1, HandlerTimeAssumption
      <4> QED BY <1>2, <4>2 DEF Measure
    <3> QED BY <2>2, <2>3, <2>5, <3>2, <3>3 DEF CalmInv, None
  <2> QED BY <2>4, <2>5 DEF Arm, ArmNothing, ArmStop, ArmOneshot, ProgramTimer
<1> QED BY <1>3, <1>4

(* A tick ends a calm slice: the one-shot fires when the slice is over, and not
   before.  With somebody waiting it then dispatches, and the next slice starts
   without an end. *)
LEMMA SlicesTick == TimedInv /\ Tick /\ Measure => SliceInv' /\ CalmInv'
<1> SUFFICES ASSUME TimedInv, Tick, Measure PROVE SliceInv' /\ CalmInv'
  OBVIOUS
<1>1. ASSUME TakeTick \/ TickKernel \/ TickKeep \/ TickReturn PROVE SliceInv' /\ CalmInv'
  <2>1. /\ UNCHANGED <<ring, slice, live, timer>> /\ ~Dispatch
        /\ pc = "tick" => ~(FromUser /\ SliceOver)
    BY <1>1 DEF TakeTick, TickKernel, TickKeep, TickReturn, Dispatch, ring
  <2>2. SliceInv'
    BY <2>1, SliceKept DEF TimedInv, SliceInv, slice
  <2>3. CalmInv'
    <3> SUFFICES ASSUME ran # None, calm PROVE CalmInv'
      BY <2>1 DEF Measure, CalmInv
    <3>1. live.cs = 3 /\ pc # "window" /\ CalmInv
      BY DEF TimedInv, SliceInv, ContextInv, LiveInv
    <3>2. CASE TakeTick
      BY <2>1, <3>1, <3>2 DEF TakeTick, CalmInv, slice
    <3>3. CASE TickReturn
      BY <2>1, <3>1, <3>3 DEF TickReturn, CalmInv, Measure, slice
    <3>4. CASE TickKernel \/ TickKeep
      BY <2>1, <3>1, <3>4 DEF TickKernel, TickKeep, CalmInv, FromUser, SliceOver
    <3> QED BY <1>1, <3>2, <3>3, <3>4
  <2> QED BY <2>2, <2>3
<1>2. ASSUME TickPreempt PROVE SliceInv' /\ CalmInv'
  <2>1. /\ pc = "tick" /\ live.cs = 3 /\ g_slice_end_ns = 0 /\ g_quantum_ns # 0
        /\ pc' = "arm" /\ ret' = "eoi" /\ g_slice_end_ns' = None
        /\ UNCHANGED <<g_quantum_ns, timer, irr>>
    BY <1>2 DEF TickPreempt, FromUser, SliceOver, CallArm, TimedInv, QuantumInv, None, apic
  <2>2. TypeOK /\ RingInv /\ g_current \in Threads
    BY <2>1 DEF TimedInv, Inv, Booted, TypeOK, Thread0
  <2>3. CASE pick_next = g_current
    <3>1. UNCHANGED <<ring, live>> /\ ~Dispatch
      BY <1>2, <2>3 DEF TickPreempt, Dispatch, ring
    <3>2. SliceInv'
      BY <2>1, <3>1, SliceKept DEF TimedInv, SliceInv
    <3>3. ran # None => ~calm
      BY <2>2, <2>3, BootAssumption, SliceNeededIff DEF SliceNeeded, TimedInv, SliceInv
    <3> QED BY <3>1, <3>2, <3>3 DEF Measure, CalmInv
  <2>4. CASE pick_next # g_current
    <3>1. pick_next \in Ring \ {g_current}
      BY <2>4, PickType
    <3>2. /\ g_current' = pick_next /\ next' = next /\ state' = Switched(pick_next)
          /\ live' = frame[pick_next]
      BY <1>2, <2>4 DEF TickPreempt
    <3>3. Dispatch
      BY <2>2, <2>4, <3>2, BootAssumption DEF Dispatch
    <3>4. live'.cs = 3
      <4>1. frame[pick_next] = UserFrame(pick_next, frame[pick_next].regs)
        BY <3>1 DEF TimedInv, ContextInv, ContextIntegrity, Ring
      <4> QED BY <3>2, <4>1 DEF UserFrame
    <3>5. OthersReady'
      <4>1. g_current \in Ring' \ {g_current'} /\ state'[g_current] = READY
        <5>1. g_current \in Ring
          BY <2>2, BootAssumption DEF RingInv, OneRing
        <5>2. state'[g_current] = READY
          BY <2>2, <2>4, <3>2 DEF Switched, TypeOK
        <5> QED BY <2>4, <3>2, <5>1, <5>2 DEF Ring
      <4> QED BY <2>1, <4>1 DEF OthersReady
    <3>6. /\ ran' = 0 /\ busy' = busy
          /\ calm' \in BOOLEAN /\ (calm' => Pending' = {} /\ timer = None /\ ~irr)
      BY <2>1, <3>3 DEF Measure, InHandler
    <3>7. busy \in 0 .. HandlerTime /\ 0 \in 0 .. RanBound
      BY RanBoundAssumption DEF TimedInv, SliceInv
    <3>8. SliceInv'
      BY <2>1, <3>4, <3>5, <3>6, <3>7 DEF SliceInv
    <3>9. CalmInv'
      BY <2>1, <3>6, <3>7 DEF CalmInv
    <3> QED BY <3>8, <3>9
  <2> QED BY <2>3, <2>4
<1> QED BY <1>1, <1>2 DEF Tick

LEMMA SlicesUser == TimedInv /\ User /\ Measure => SliceInv' /\ CalmInv'
<1> SUFFICES ASSUME TimedInv, User, Measure PROVE SliceInv' /\ CalmInv'
  OBVIOUS
<1>1. UNCHANGED <<ring, slice, timer, apic>> /\ ~Dispatch
  BY DEF User, UserStep, SyscallEnter, SyscallReturn, Stop, SetEvent, Dispatch, ring
<1>2. live.cs = 3 => live'.cs = 3
  BY DEF User, UserStep, SyscallEnter, SyscallReturn, Stop, SetEvent, TimedInv, Inv,
         TypeOK, Frame
<1>3. SliceInv'
  BY <1>1, <1>2, SliceKept DEF TimedInv, SliceInv, slice
<1>4. CalmInv'
  <2> SUFFICES ASSUME ran # None, calm PROVE CalmInv'
    BY <1>1 DEF Measure, CalmInv
  <2>1. CalmInv /\ TypeOK
    BY DEF TimedInv, Inv
  <2>2. CASE UserStep \/ SyscallEnter \/ SyscallReturn \/ Stop
    BY <1>1, <2>1, <2>2
       DEF UserStep, SyscallEnter, SyscallReturn, Stop, CalmInv, Measure, slice, apic, ctl
  <2>3. ASSUME NEW e \in Events, NEW d \in Delays, SetEvent(e, d) PROVE CalmInv'
    <3>1. timerq'[e] # None
      BY <2>1, <2>3, DelaysAssumption DEF SetEvent, TypeOK, None
    <3>2. ~calm'
      BY <3>1 DEF Measure, Pending
    <3> QED BY <3>2 DEF CalmInv
  <2> QED BY <2>2, <2>3 DEF User
<1> QED BY <1>3, <1>4

LEMMA SlicesFire == TimedInv /\ Fire /\ Measure => SliceInv' /\ CalmInv'
<1> SUFFICES ASSUME TimedInv, Fire, Measure PROVE SliceInv' /\ CalmInv'
  OBVIOUS
<1>1. UNCHANGED <<ring, slice, live, ctl>> /\ timer = 0 /\ timer' = None /\ irr' /\ ~Dispatch
  BY DEF Fire, Dispatch, ring
<1>2. SliceInv'
  BY <1>1, SliceKept DEF TimedInv, SliceInv, slice
<1>3. CalmInv'
  <2> SUFFICES ASSUME ran # None, calm PROVE CalmInv'
    BY <1>1 DEF Measure, CalmInv
  <2>1. timer # None /\ CalmInv
    BY <1>1 DEF None, TimedInv
  <2> QED BY <1>1, <2>1 DEF CalmInv, slice, ctl
<1> QED BY <1>2, <1>3

LEMMA SlicesStutter == TimedInv /\ UNCHANGED timedVars => SliceInv' /\ CalmInv'
BY DEF TimedInv, SliceInv, CalmInv, OthersReady, Ring, Pending, timedVars, vars, ring,
       slice, apic, ctl

LEMMA TimedInvariant == TimedSpec => []TimedInv
<1>1. TimedInit => TimedInv
  <2>1. TimedInit => Inv /\ ContextInv
    BY InitType, RingInit, ContextInit DEF TimedInit, Init, Inv, Booted, TimerInv, Armed
  <2>2. TimedInit => QuantumInv /\ CalmInv
    BY DEF TimedInit, Init, QuantumInv, CalmInv, Setup
  <2>3. TimedInit => SliceInv
    BY HandlerTimeAssumption DEF TimedInit, Init, SliceInv, Pending
  <2> QED BY <2>1, <2>2, <2>3 DEF TimedInv
<1>2. TimedInv /\ [TimedNext]_timedVars => TimedInv'
  <2> SUFFICES ASSUME TimedInv, [TimedNext]_timedVars PROVE TimedInv'
    OBVIOUS
  <2>1. [Next]_vars
    BY TimedIsNext
  <2>2. Inv' /\ ContextInv'
    <3>1. TypeOK
      BY DEF TimedInv, Inv
    <3> QED BY <2>1, <3>1, InvStep, ContextStep DEF TimedInv
  <2>3. QuantumInv'
    BY <2>1, QuantumStep DEF TimedInv, Inv
  <2>4. SliceInv' /\ CalmInv'
    BY SlicesClock, SlicesArm, SlicesBoot, SlicesTick, SlicesUser, SlicesFire, SlicesStutter
       DEF TimedNext, Timed, KernelStep, UserChoice, BootUp, Tick, User
  <2> QED BY <2>2, <2>3, <2>4 DEF TimedInv
<1> QED BY <1>1, <1>2, PTL DEF TimedSpec

(* While no timer event is about, no thread computes longer than a quantum and
   one handler. *)
THEOREM SlicesBounded == TimedSpec => []SliceBounded
<1>1. TimedInv => SliceBounded
  <2> SUFFICES ASSUME TimedInv, pc = "user", ~irr, ran # None, calm
               PROVE  ran <= g_quantum_ns + HandlerTime
    BY DEF SliceBounded
  <2>1. /\ timer \in Nat /\ ran \in Nat /\ g_quantum_ns \in Nat
        /\ ran + timer <= g_quantum_ns + HandlerTime
    BY QuantaAssumption DEF TimedInv, Inv, TypeOK, Time, SliceInv, CalmInv
  <2> QED BY <2>1, HandlerTimeAssumption
<1> QED BY <1>1, TimedInvariant, PTL

(* The tick takes the CPU from no thread it has dispatched before a whole quantum
   is over: sched_on_tick looks at the slice's end of the running thread only. *)
THEOREM SlicesWhole == TimedSpec => WholeSlice
<1>1. TimedInv /\ [TimedNext]_timedVars
      => [ g_current' # g_current /\ ran # None => ran >= g_quantum_ns ]_timedVars
  <2> SUFFICES ASSUME TimedInv, [TimedNext]_timedVars, g_current' # g_current, ran # None
               PROVE  ran >= g_quantum_ns
    OBVIOUS
  <2>1. live.cs = 3 /\ pc # "sched_init" /\ TypeOK
    BY DEF TimedInv, Inv, SliceInv, ContextInv, LiveInv, BootPcs
  <2>2. TickPreempt
    BY <2>1, TimedIsNext
       DEF Next, Arm, ArmNothing, ArmStop, ArmOneshot, ProgramTimer, BootUp, SchedInit,
           SchedAdd, TimerInit, SetQuantum, SchedStart, IdtEnable, EnterUser, Tick, TakeTick,
           TickKernel, TickKeep, TickReturn, User, UserStep, SyscallEnter, SyscallReturn,
           Stop, SetEvent, Clock, Fire, vars, ring
  <2>3. g_slice_end_ns = 0 /\ ran + g_slice_end_ns >= g_quantum_ns
    BY <2>2 DEF TickPreempt, SliceOver, TimedInv, SliceInv, None
  <2>4. ran \in Nat /\ g_quantum_ns \in Nat
    BY <2>1, QuantaAssumption DEF TimedInv, SliceInv, TypeOK
  <2> QED BY <2>3, <2>4
<1> QED BY <1>1, TimedInvariant, PTL DEF TimedSpec, WholeSlice
=============================================================================
