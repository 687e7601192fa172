------------------------------- MODULE Timer -------------------------------
(***************************************************************************)
(* The one-shot timer behind timer.h, for both of its sources (cpu/timer.c *)
(* over cpu/lapic.c), one device access at a time.  A call is the list of  *)
(* the accesses it makes, and the device goes on between any two of them.  *)
(* Calls are made with interrupts masked, so none interrupts another; an   *)
(* interrupt the device raises meanwhile stays pending.  Time is counted   *)
(* in ticks of the source: TimerConv is about nanoseconds.                 *)
(***************************************************************************)
EXTENDS Integers, Sequences

CONSTANTS
    MaxTicks,   \* no longer delay is asked for
    MaxCount,   \* the largest value of the LAPIC's 32-bit counter
    MaxPosted,  \* so many writes to the LAPIC's registers can be on their way to it
    Sources,    \* the sources the processor may have
    None

ASSUME BoundsAssumption  == MaxTicks \in Nat \ {0} /\ MaxCount \in Nat \ {0} /\ MaxPosted \in Nat \ {0}
ASSUME SourcesAssumption == Sources \subseteq {"TSC_DEADLINE", "LAPIC"}
ASSUME NoneAssumption    == None \notin Nat

VARIABLES
    g_src,      \* "NONE", "TSC_DEADLINE" or "LAPIC"
    todo,       \* the accesses the call in progress still has to make
    age,        \* the time since its rdtsc
    buffer,     \* register writes that have not reached the LAPIC
    lvt,        \* LVT_TIMER: its mode, and whether it is masked
    count,      \* TMR_CURRCNT
    deadline,   \* the time left to IA32_TSC_DEADLINE, 0 when that is 0
    irr,        \* the interrupt is pending
    (* Auxiliary, read by no access: the time left of what the last call asked
       for; of what the calls asked for that it may not have replaced yet; how
       long it has been at it; and whether the device was in TSC-deadline mode
       when it began, with no write on its way. *)
    goal, prior, spent, inMode

kernel   == <<g_src, todo, age>>
device   == <<lvt, count, deadline>>
asked    == <<goal, prior, spent, inMode>>
vars     == <<kernel, buffer, device, irr, asked>>

Least(a, b) == IF a < b THEN a ELSE b
Down(n)     == IF n \in {0, None} THEN n ELSE n - 1

(* The last call has returned and its writes have arrived. *)
Settled == todo = <<>> /\ buffer = <<>>

(* No earlier call's delay can ring: a deadline is replaced by the WRMSR, and a
   count when the write of the next one arrives. *)
InForce == todo = <<>> /\ (g_src = "TSC_DEADLINE" \/ buffer = <<>>)

DeadlineMode == [mode |-> "deadline", masked |-> FALSE]

(* The boot loader leaves the timer masked and stopped. *)
Init ==
    /\ g_src = "NONE" /\ todo = <<>> /\ age = 0 /\ buffer = <<>>
    /\ lvt = [mode |-> "oneshot", masked |-> TRUE] /\ count = 0 /\ deadline = 0 /\ irr = FALSE
    /\ goal = None /\ prior = {} /\ spent = 0 /\ inMode = FALSE

-----------------------------------------------------------------------------
(* The accesses of each call. *)
Lvt(mode, masked) == [reg |-> "LVT_TIMER", value |-> [mode |-> mode, masked |-> masked]]
InitCnt(n)        == [reg |-> "TMR_INITCNT", value |-> n]
CurrCnt           == [reg |-> "TMR_CURRCNT"]
Rdtsc             == [reg |-> "TSC"]
TscDeadline(n)    == [reg |-> "TSC_DEADLINE", value |-> n]    \* n from the rdtsc on, 0 to disarm

lapic_timer_set_oneshot      == <<Lvt("oneshot", FALSE), InitCnt(0)>>
lapic_timer_set_tsc_deadline == <<Lvt("deadline", FALSE), InitCnt(0)>>
lapic_timer_oneshot(ticks)   == <<Lvt("oneshot", FALSE), InitCnt(ticks)>>
lapic_timer_stop             == <<Lvt("oneshot", TRUE), InitCnt(0)>>
lapic_timer_calibrate_tsc    ==
    <<Lvt("oneshot", TRUE), InitCnt(MaxCount), CurrCnt>> \o lapic_timer_stop

(* Mutant: only the deadline is cleared, or nothing is. *)
Mut_Stop(src) == IF src = "TSC_DEADLINE" THEN <<TscDeadline(0)>> ELSE <<Lvt("oneshot", FALSE)>>

Stop(src) ==
    IF src = "TSC_DEADLINE" THEN <<TscDeadline(0)>> \o lapic_timer_stop ELSE lapic_timer_stop

(* Mutants: the LVT is not written again after a stop; a delay too long for the
   counter loses its high bits. *)
Mut_Unset(src, ticks) ==
    IF src = "TSC_DEADLINE" THEN <<Rdtsc, TscDeadline(ticks)>> ELSE <<InitCnt(Least(ticks, MaxCount))>>
Mut_Truncate(src, ticks) ==
    IF src = "TSC_DEADLINE" THEN lapic_timer_set_tsc_deadline \o <<Rdtsc, TscDeadline(ticks)>>
    ELSE lapic_timer_oneshot(ticks % (MaxCount + 1))

Oneshot(src, ticks) ==
    IF src = "TSC_DEADLINE" THEN lapic_timer_set_tsc_deadline \o <<Rdtsc, TscDeadline(ticks)>>
    ELSE lapic_timer_oneshot(Least(ticks, MaxCount))

-----------------------------------------------------------------------------
(* The calls. *)
Begin(accesses, wanted) ==
    /\ todo = <<>> /\ todo' = accesses
    /\ goal' = wanted /\ prior' = prior \cup {goal} /\ spent' = 0
    /\ inMode' = (buffer = <<>> /\ lvt = DeadlineMode)
    /\ UNCHANGED <<age, buffer, device, irr>>

(* Without an invariant TSC, or a frequency for it, there is no timer. *)
timer_init(src) ==
    /\ g_src = "NONE" /\ g_src' = src
    /\ Begin((IF src = "TSC_DEADLINE" THEN lapic_timer_set_tsc_deadline
              ELSE lapic_timer_set_oneshot \o lapic_timer_calibrate_tsc) \o Stop(src), None)

(* ns that make no whole tick are one. *)
timer_oneshot(n) ==
    LET ticks == IF n = 0 THEN 1 ELSE n IN
    /\ g_src # "NONE" /\ UNCHANGED g_src
    /\ Begin(Oneshot(g_src, ticks), IF g_src = "LAPIC" THEN Least(ticks, MaxCount) ELSE ticks)

timer_stop ==
    /\ g_src # "NONE" /\ UNCHANGED g_src
    /\ Begin(Stop(g_src), None)

-----------------------------------------------------------------------------
(* The device.  A change of mode disarms it; a deadline is ignored in the other
   mode, and a count in deadline mode; a masked timer expires without a word. *)
Access == Head(todo)
Advance == todo' = Tail(todo) /\ UNCHANGED <<g_src, age>>

Raise(fires) ==
    /\ irr' = (irr \/ fires)
    /\ goal' = IF fires /\ InForce' THEN None ELSE goal
    /\ prior' = IF InForce' THEN {} ELSE prior
    /\ UNCHANGED <<spent, inMode>>

Write(a) ==
    \/ /\ a.reg = "LVT_TIMER" /\ lvt' = a.value
       /\ IF a.value.mode = lvt.mode THEN UNCHANGED <<count, deadline>>
          ELSE count' = 0 /\ deadline' = 0
    \/ /\ a.reg = "TMR_INITCNT"
       /\ count' = IF lvt.mode = "oneshot" THEN a.value ELSE count
       /\ UNCHANGED <<lvt, deadline>>

(* A store to a register, with no read-back and no fence behind it: it arrives in
   its place among the stores, whatever RDTSC and WRMSR do meanwhile. *)
LapicWrite ==
    /\ todo # <<>> /\ Access.reg \in {"LVT_TIMER", "TMR_INITCNT"}
    /\ Len(buffer) < MaxPosted
    /\ Advance
    /\ buffer' = Append(buffer, Access) /\ UNCHANGED device
    /\ Raise(FALSE)

Drain ==
    /\ buffer # <<>> /\ buffer' = Tail(buffer)
    /\ UNCHANGED kernel
    /\ Write(Head(buffer)) /\ Raise(FALSE)

(* A register is read after the writes that come before the read. *)
LapicRead ==
    /\ todo # <<>> /\ Access.reg = "TMR_CURRCNT" /\ buffer = <<>>
    /\ Advance
    /\ UNCHANGED <<buffer, device>>
    /\ Raise(FALSE)

ReadTsc ==
    /\ todo # <<>> /\ Access.reg = "TSC"
    /\ age' = 0 /\ todo' = Tail(todo)
    /\ UNCHANGED <<g_src, buffer, device, irr, asked>>

Late(n) == n # 0 /\ n <= age

WriteDeadline ==
    /\ todo # <<>> /\ Access.reg = "TSC_DEADLINE"
    /\ Advance
    /\ UNCHANGED <<buffer, lvt, count>>
    /\ IF lvt.mode = "deadline"
       THEN /\ deadline' = IF Access.value <= age THEN 0 ELSE Access.value - age
            /\ Raise(Late(Access.value) /\ ~lvt.masked)
       ELSE UNCHANGED deadline /\ Raise(FALSE)

Tick ==
    /\ UNCHANGED <<g_src, todo, buffer, lvt>>
    /\ age' = Least(age + 1, MaxTicks)
    /\ count' = Down(count) /\ deadline' = Down(deadline)
    /\ LET fires == ~lvt.masked /\ 1 \in {count, deadline} IN
       /\ irr' = (irr \/ fires)
       /\ goal' = IF fires /\ InForce THEN None ELSE Down(goal)
    /\ prior' = {Down(n) : n \in prior}
    /\ spent' = IF InForce THEN spent ELSE Least(spent + 1, MaxTicks)
    /\ UNCHANGED inMode

(* The interrupt is taken; its handler makes calls of its own. *)
TakeTick ==
    /\ irr /\ todo = <<>> /\ irr' = FALSE
    /\ UNCHANGED <<kernel, buffer, device, asked>>

KernelStep == LapicWrite \/ LapicRead \/ ReadTsc \/ WriteDeadline

Next ==
    \/ \E src \in Sources : timer_init(src)
    \/ \E n \in 0 .. MaxTicks : timer_oneshot(n)
    \/ timer_stop
    \/ KernelStep \/ Drain
    \/ Tick \/ TakeTick

Spec == Init /\ [][Next]_vars

(* Kernel code runs on, and time goes on. *)
FairSpec == Spec /\ WF_vars(KernelStep) /\ WF_vars(Drain) /\ WF_vars(Tick)

-----------------------------------------------------------------------------
TypeOK ==
    /\ g_src \in {"NONE", "TSC_DEADLINE", "LAPIC"}
    /\ lvt \in [mode : {"oneshot", "deadline"}, masked : BOOLEAN]
    /\ count \in 0 .. MaxCount /\ deadline \in 0 .. MaxTicks
    /\ age \in 0 .. MaxTicks /\ spent \in 0 .. MaxTicks /\ irr \in BOOLEAN
    /\ goal \in 0 .. MaxTicks \cup {None} /\ prior \subseteq 0 .. MaxTicks \cup {None}
    /\ Len(buffer) <= MaxPosted /\ inMode \in BOOLEAN

(* The time to the interrupt, 0 when none will come. *)
Remaining ==
    IF lvt.masked THEN 0 ELSE IF lvt.mode = "deadline" THEN deadline ELSE count

Held ==
    IF goal = None THEN Remaining = 0
    ELSE 0 < Remaining /\ goal <= Remaining /\ Remaining <= goal + spent

(* "Ensure the LVT stays in TSC-deadline mode and unmasked" (timer.c:204): once a
   call has taken effect the device is set exactly for what was last asked of
   timer_oneshot_ns and has not come yet, and later by no more than the call
   took.  Not so: after timer_stop the store that brings the mode back may come
   after the WRMSR, which the device then ignores. *)
AlarmHeld == Settled => Held

(* The LVT had yet to be brought into TSC-deadline mode by a store of the call. *)
Exposed == g_src = "TSC_DEADLINE" /\ ~inMode

(* What does hold: once a call has taken effect the device is set exactly for what
   was last asked, in whatever mode timer_stop left it, however late the stores
   come and even if an older delay ran out in the middle of the call; and after
   timer_stop for nothing.  What a late store can do is lose the deadline that follows a
   timer_stop: it never leaves the device set for anything else, nor does it
   reach a deadline that replaces another. *)
HeldOrLost == Settled => Held \/ (Exposed /\ Remaining = 0)

(* The device interrupts when a delay is over that was asked for: that of the
   last call, or until that is in force that of one before it.  timer_stop and the
   calibration, which runs the counter too, never make it interrupt. *)
NeverEarly ==
    [][ irr' /\ ~irr => 0 \in {Down(n) : n \in IF InForce' THEN {goal} ELSE prior} ]_vars

(* A delay that was asked for ends in an interrupt, if no other call is made:
   with the LAPIC source always, with the TSC-deadline source if the call found
   the timer in its mode. *)
AlarmRings == (goal # None /\ todo = <<>> /\ ~Exposed) ~> (irr \/ todo # <<>>)
=============================================================================
