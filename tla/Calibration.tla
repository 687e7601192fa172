---------------------------- MODULE Calibration ----------------------------
(***************************************************************************)
(* How timer_init finds out how fast the TSC and the LAPIC's timer run     *)
(* (cpu/timer.c, cpu/pit.c, cpu/lapic.c, cpu/cpuid.h): from CPUID where it *)
(* says so, else by polling the PIT, whose counter goes on below 0, one    *)
(* port access after the other while time passes.  Time is counted in      *)
(* ticks of the PIT, and no two readings of it are more than MaxGap apart. *)
(***************************************************************************)
EXTENDS Integers

CONSTANTS
    One,        \* 2^32
    Word,       \* 2^64
    Kilo,       \* 1000
    Byte,       \* 256, the PIT's counter has two
    PitHz,      \* PIT_BASE_HZ
    CalUs,      \* TIMER_CAL_US
    Cpus,       \* what CPUID may say
    TscPerPit,  \* the ticks of the TSC to one of the PIT: what is to be found out
    TscPerLapic,\* and to one of the LAPIC's timer
    MaxGap,
    MaxWraps,   \* the wraps of the counter that are counted, and the TSC with them
    None

ASSUME WordAssumption ==
    One \in Nat \ {0} /\ Word = One * One /\ Kilo \in Nat \ {0} /\ Kilo * Kilo * Kilo < Word
ASSUME PitAssumption ==
    Byte \in Nat \ {0, 1} /\ PitHz \in Nat /\ CalUs \in Nat \ {0}
    /\ PitHz * CalUs < One * Kilo * Kilo
ASSUME RatesAssumption ==
    TscPerPit \subseteq Nat \ {0} /\ TscPerLapic \in Nat \ {0} /\ MaxGap \in Nat /\ MaxWraps \in Nat
ASSUME NoneAssumption == None \notin Nat
ASSUME CpusAssumption ==
    Cpus \subseteq [ext : Nat, invtsc : BOOLEAN, deadline : BOOLEAN, max : Nat,
                    leaf15 : [eax : Nat, ebx : Nat, ecx : Nat], leaf16 : Nat]

Mega == Kilo * Kilo
Wrap == Byte * Byte

VARIABLES
    cpu,        \* what CPUID says
    rate,       \* and the TSC does
    phase,      \* where timer_init is
    pit,        \* the counter of channel 0
    oneshot,    \* it is in mode 0, which counts through 0
    latch,      \* the count held for reading, or None
    lo,         \* the low byte, once read
    tsc, start, tsc_hz, tpu,
    (* Auxiliary: PIT ticks since it was last latched or loaded, whether that has
       ever been more than one, and how often it has wrapped. *)
    gap, attentive, wraps

pitState == <<pit, oneshot, latch, lo, gap, attentive, wraps>>
calVars  == <<cpu, rate, phase, pitState, tsc, start, tsc_hz, tpu>>

CalInit ==
    /\ cpu \in Cpus /\ rate \in TscPerPit
    /\ phase = "cpuid"
    /\ pit = 0 /\ oneshot = FALSE /\ latch = None /\ lo = None
    /\ tsc = 0 /\ start = 0 /\ tsc_hz = 0 /\ tpu = 0
    /\ gap = 0 /\ attentive = TRUE /\ wraps = 0

-----------------------------------------------------------------------------
cpu_has_invariant_tsc == cpu.ext >= 7 /\ cpu.invtsc     \* from 0x80000000 on

Base == IF cpu.max >= 22 THEN cpu.leaf16 * Mega ELSE 0

(* Leaf 0x15 has the crystal and the ratio to it, leaf 0x16 the base frequency. *)
tsc_hz_from_cpuid ==
    LET l == cpu.leaf15 IN
    IF cpu.max >= 21 /\ l.eax # 0 /\ l.ebx # 0 /\ l.ecx # 0
    THEN (l.ecx * l.ebx) \div l.eax ELSE Base

(* From here on a frequency is known: the TSC-deadline mode needs no other. *)
Found(hz) ==
    /\ tsc_hz' = hz
    /\ phase' = IF hz = 0 THEN "failed" ELSE IF cpu.deadline THEN "found" ELSE "lapic"

Identify ==
    /\ phase = "cpuid"
    /\ IF ~cpu_has_invariant_tsc THEN phase' = "failed" /\ UNCHANGED tsc_hz
       ELSE IF tsc_hz_from_cpuid = 0 THEN phase' = "set" /\ UNCHANGED tsc_hz
       ELSE Found(tsc_hz_from_cpuid)
    /\ UNCHANGED <<cpu, rate, pitState, tsc, start, tpu>>

-----------------------------------------------------------------------------
(* tsc_hz_calibrate_pit. *)
clamp_div(div) == IF div < 1 THEN 1 ELSE IF div > Wrap - 1 THEN Wrap - 1 ELSE div

Divisor(us) == clamp_div(((PitHz * us) \div Mega) % One)

(* Mutant: the mode that starts over at the divisor. *)
Mut_pit_oneshot_us(us) ==
    /\ pit' = Divisor(us) /\ oneshot' = FALSE
    /\ latch' = None /\ lo' = None /\ gap' = 0

(* The command and the two bytes; the count is there before anything reads it. *)
pit_oneshot_us(us) ==
    /\ pit' = Divisor(us) /\ oneshot' = TRUE
    /\ latch' = None /\ lo' = None /\ gap' = 0

SetPit ==
    /\ phase = "set" /\ phase' = "start"
    /\ pit_oneshot_us(CalUs)
    /\ UNCHANGED <<cpu, rate, attentive, wraps, tsc, start, tsc_hz, tpu>>

ReadStart ==
    /\ phase = "start" /\ phase' = "latch"
    /\ start' = tsc
    /\ UNCHANGED <<cpu, rate, pitState, tsc, tsc_hz, tpu>>

(* Mutant: the two bytes are read without the latch command. *)
Mut_Latched == None

Latched == pit

(* pit_read_count: the latch command, the low byte, the high byte. *)
LatchPit ==
    /\ phase = "latch" /\ phase' = "lo"
    /\ latch' = Latched /\ gap' = 0
    /\ UNCHANGED <<cpu, rate, pit, oneshot, lo, attentive, wraps, tsc, start, tsc_hz, tpu>>

Count == IF latch = None THEN pit ELSE latch

ReadLo ==
    /\ phase = "lo" /\ phase' = "hi"
    /\ lo' = Count % Byte
    /\ UNCHANGED <<cpu, rate, pit, oneshot, latch, gap, attentive, wraps, tsc, start, tsc_hz, tpu>>

(* The loop goes on until it reads a 0. *)
ReadHi ==
    /\ phase = "hi"
    /\ phase' = IF (Count \div Byte) * Byte + lo # 0 THEN "latch" ELSE "end"
    /\ latch' = None /\ lo' = None
    /\ UNCHANGED <<cpu, rate, pit, oneshot, gap, attentive, wraps, tsc, start, tsc_hz, tpu>>

ReadEnd ==
    /\ phase = "end"
    /\ Found(((tsc - start) * Mega) \div CalUs)
    /\ UNCHANGED <<cpu, rate, pitState, tsc, start, tpu>>

(* lapic_timer_calibrate_tsc: the LAPIC's counter is read once the TSC says that
   the time is over, or a little later. *)
lapic_timer_calibrate_tsc ==
    /\ phase = "lapic" /\ phase' = "found"
    /\ LET delta == (tsc_hz * CalUs) \div Mega IN
       \E late \in 0 .. MaxGap :
          /\ tsc' = tsc + (IF delta = 0 THEN 1 ELSE delta) + late
          /\ LET t == ((tsc' - tsc) \div TscPerLapic) \div CalUs IN tpu' = IF t = 0 THEN 1 ELSE t
    /\ UNCHANGED <<cpu, rate, pitState, start, tsc_hz>>

-----------------------------------------------------------------------------
(* The PIT's clock, and the TSC's.  In the other mode the count never gets to 0. *)
Polling == phase \in {"start", "latch", "lo", "hi", "end"}

PitTick ==
    /\ Polling /\ gap < MaxGap
    /\ pit' = IF pit = 1 /\ ~oneshot THEN Divisor(CalUs) ELSE (pit - 1) % Wrap
    /\ wraps' = IF pit' > pit /\ wraps <= MaxWraps THEN wraps + 1 ELSE wraps
    /\ gap' = gap + 1 /\ attentive' = (attentive /\ gap = 0)
    /\ tsc' = IF wraps' <= MaxWraps THEN tsc + rate ELSE tsc
    /\ UNCHANGED <<cpu, rate, phase, oneshot, latch, lo, start, tsc_hz, tpu>>

CalKernel ==
    \/ Identify \/ SetPit \/ ReadStart
    \/ LatchPit \/ ReadLo \/ ReadHi \/ ReadEnd
    \/ lapic_timer_calibrate_tsc

CalNext == CalKernel \/ PitTick

-----------------------------------------------------------------------------
(* What has been measured is the interval that was asked for and whole wraps of
   the counter, give or take the time between two readings at either end.  A wrap
   is only missed when polls are more than one PIT tick apart, for the loop
   waits for a reading of exactly 0; and as the count is latched, no reading is
   put together from two counts. *)
Missed == IF gap = 0 THEN wraps ELSE wraps - 1

CalibrationHonest ==
    phase = "end" /\ wraps <= MaxWraps =>
        LET ticks == Divisor(CalUs) + Missed * Wrap IN
        /\ tsc - start \in rate * (ticks - MaxGap) .. rate * (ticks + MaxGap)
        /\ attentive => Missed = 0

(* timer_init comes to an end, if polls are from some time on no further apart
   than a PIT tick. *)
CalibrationEnds == <>[](gap <= 1) => <>(phase \in {"found", "failed"})
=============================================================================
