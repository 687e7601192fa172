----------------------------- MODULE TimerConv -----------------------------
(***************************************************************************)
(* Nanoseconds and ticks (cpu/timer.c): the fixed-point scale, the delay   *)
(* that timer_oneshot_ns programs and the clock of timer_now_ns, in the    *)
(* integers of the code, which are cut to a word.  With the TSC-deadline   *)
(* source clock and timer count the same ticks, and a client waits the way *)
(* the scheduler does: when the interrupt comes before its time by the     *)
(* clock, it asks again for the rest.                                      *)
(***************************************************************************)
EXTENDS Calibration

CONSTANTS
    Delays,     \* the delays asked for, in nanoseconds
    MaxTsc      \* the TSC stops here

ASSUME DelaysAssumption == Delays \subseteq 0 .. Word - 1 /\ MaxTsc \in Nat /\ MaxTsc < Word

Giga == Kilo * Kilo * Kilo

VARIABLES
    g_src, g_tick_num, g_tick_den, g_scale,
    due,        \* IA32_TSC_DEADLINE, None when the timer is not set
    want,       \* what the clock shows when the client's delay is over, None without one
    asked       \* auxiliary: the present delay

conv == <<g_src, g_tick_num, g_tick_den, g_scale>>
wait == <<due, want, asked>>
cal  == <<cpu, rate, phase, pitState, start, tsc_hz, tpu>>
vars == <<conv, wait, cal, tsc>>

-----------------------------------------------------------------------------
(* Mutant: the quotient wraps. *)
Mut_mul_u64_div_u64(a, b, d) == IF d = 0 THEN 0 ELSE ((a * b) \div d) % Word

(* Without a divisor 0; the quotient saturates. *)
mul_u64_div_u64(a, b, d) ==
    IF d = 0 THEN 0 ELSE IF (a * b) \div Word >= d THEN Word - 1 ELSE (a * b) \div d

(* Mutant: division before multiplication. *)
Mut_scale(num, den) == mul_u64_div_u64(One, num \div den, 1)

scale(num, den) == mul_u64_div_u64(num, One, den)

(* Mutant: the product is rounded up. *)
Mut_ticks_from_ns(ns) == ((ns * g_scale) \div One + 1) % Word

ticks_from_ns(ns) == ((ns * g_scale) \div One) % Word

ClockAt(t)   == IF g_tick_num = 0 THEN 0 ELSE mul_u64_div_u64(t, g_tick_den, g_tick_num)
timer_now_ns == ClockAt(tsc)

Init ==
    /\ CalInit
    /\ g_src = "NONE" /\ g_tick_num = 0 /\ g_tick_den = 1 /\ g_scale = 0
    /\ due = None /\ want = None /\ asked = 0

(* The end of timer_init; without a frequency it fails and there is no source. *)
SetTickRate ==
    /\ phase = "found" /\ g_src = "NONE"
    /\ LET num == IF cpu.deadline THEN tsc_hz ELSE tpu * Kilo IN
       /\ g_src' = IF cpu.deadline THEN "TSC_DEADLINE" ELSE "LAPIC"
       /\ g_tick_num' = num % Word /\ g_tick_den' = Giga
       /\ g_scale' = scale(num % Word, Giga)
    /\ UNCHANGED <<wait, cal, tsc>>

(* A delay that makes no whole tick is one tick. *)
Ticks(ns) == IF ticks_from_ns(ns) = 0 THEN 1 ELSE ticks_from_ns(ns)

timer_oneshot_ns(ns) ==
    /\ due' = IF g_tick_num = 0 \/ g_scale = 0 THEN due ELSE (tsc + Ticks(ns)) % Word
    /\ asked' = ns

(* A client starts to wait, when there is nobody waiting yet.  Its time is one
   that the clock can show. *)
Start(ns) ==
    /\ g_src = "TSC_DEADLINE" /\ want = None
    /\ timer_now_ns + ns < Word
    /\ timer_oneshot_ns(ns)
    /\ want' = timer_now_ns + ns
    /\ UNCHANGED <<conv, cal, tsc>>

(* The interrupt: the delay is over, or there is a rest to wait for. *)
Fires == due # None /\ tsc >= due
Done ==
    /\ Fires /\ timer_now_ns >= want
    /\ due' = None /\ want' = None /\ asked' = 0
    /\ UNCHANGED <<conv, cal, tsc>>
Again ==
    /\ Fires /\ timer_now_ns < want
    /\ timer_oneshot_ns(want - timer_now_ns)
    /\ UNCHANGED <<conv, cal, tsc, want>>

Tick ==
    /\ g_src # "NONE" /\ ~Fires /\ tsc < MaxTsc /\ tsc' = tsc + 1
    /\ UNCHANGED <<conv, cal, wait>>

Next ==
    \/ CalNext /\ UNCHANGED <<conv, wait>>
    \/ SetTickRate
    \/ \E ns \in Delays : Start(ns)
    \/ Done \/ Again \/ Tick

Spec == Init /\ [][Next]_vars

(* timer_init runs on, and the PIT with it. *)
FairSpec ==
    /\ Spec
    /\ WF_vars(CalKernel /\ UNCHANGED <<conv, wait>>)
    /\ WF_vars(PitTick /\ UNCHANGED <<conv, wait>>)

-----------------------------------------------------------------------------
(* A delay ends when the clock says so and no later: the clock shows at most
   the time asked for when the interrupt comes, unless the delay was less than
   one tick. *)
NeverLate ==
    due # None => ClockAt(due) <= want \/ due <= tsc + 1

(* It ends no earlier than the two roundings make it: one tick for the product,
   and for the scale another in every 2^32 ns; unless a number does not fit: the
   rate into the scale, the delay in ticks into a word, or the deadline, which
   then lies behind the TSC and fires at once. *)
Slack == ((asked \div One + 2) * g_tick_den) \div g_tick_num + 1
Fits ==
    /\ g_tick_num < One * g_tick_den
    /\ asked * g_tick_num < Word * g_tick_den
    /\ tsc <= due
HardlyEarly == due # None /\ Fits => want <= ClockAt(due) + Slack

(* The clock of a source that has been initialised never goes back. *)
ClockMonotone == [][ g_src # "NONE" => timer_now_ns' >= timer_now_ns ]_vars

(* "ticks_per_us / 1000 = ticks_per_ns" for the LAPIC's tick_num / tick_den. *)
LapicRate == g_src = "LAPIC" => g_tick_num * Kilo = tpu * g_tick_den
=============================================================================
