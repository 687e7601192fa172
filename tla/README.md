# mcincos in TLA+

A verification project for the mcincos kernel (`src/kernel`): TLA+ modules of its
components, TLC configurations that check them on small instances, and theorems
that TLAPS proves for every value of the constants. The kernel runs on one x86-64
processor, with interrupts masked in every handler and in every system call. What
makes it hard is therefore the moment a *tick* arrives, the order in which a
hardware device and the code that sets it take their steps, the structures that
several calls share (ring, queue, bitmap, page tables), and arithmetic that must
be exact.

Paths below are relative to `src/kernel`; `cpu/` is `arch/x86_64/cpu/`.

## 1. The system

| Component | State | Operations | Talks to |
|---|---|---|---|
| Scheduler, `core/sched.c` | ring of `thread_t` with state and saved frame, `g_current`, quantum, end of slice | `sched_init/add/start/set_quantum_ns`, `sched_on_tick` | called by the timer interrupt and by boot; asks the timer queue, sets the timer, writes RSP0 and `kernel_rsp` |
| Entry code, `cpu/isr.S`, `cpu/syscall*`, `cpu/gdt*` | GDT, TSS, MSRs; `kernel_rsp`, `user_rsp` (per CPU) | interrupt stubs; system-call entry, dispatch, return; `gdt_flush`, `enter_user` | enters the kernel on the stack the scheduler chose, and returns to the frame it left there |
| Timer queue, `core/timerq.c` | list of events sorted by deadline | insert, next deadline, run expired | run by each tick; callbacks insert again |
| Timer, `cpu/timer.c`, `cpu/lapic.c` | source, fixed-point scale, the device's registers | `timer_init` with its calibrations, `timer_oneshot_ns`, `timer_stop`, `timer_now_ns` | CPUID and the PIT at boot; one-shot interrupt to the scheduler |
| Interrupts, `cpu/idt.c`, `irq.c`, `pic.c` | IDT, TSS stacks, masks and in-service bits of three controllers | set-up, dispatch, end of interrupt | calls the registered handler |
| Physical memory, `mm/pmm.c` | bitmap, free bytes, place of the bitmap | `pmm_init`, `pmm_alloc_pages`, `pmm_free_pages` | the boot loader's memory map; gives pages to `vmm.c` and `kmain` |
| Virtual memory, `mm/vmm.c`; devices, `mm/mmio.c` | page tables, CR3, the TLB | map, unmap, translate, spaces, `mmio_map/unmap` | takes table pages from the PMM |
| Boot information, `boot/boot_info.c`, `arch/x86_64/boot/limine.c`, `core/print.c` | copies of the loader's answers | copy, report | the boot loader; read by `pmm_init`, `vmm_init` |
| Boot, `core/kmain.c` | — | brings all of it up in order | everything |
| PIT, CPU identification, console, memory functions, build | see section 8 | | |

What is hard, with the line where it bites, is the `hazards` list of
`PROJECT.json`; in short:

- **Ticks** arrive in kernel boot code, in user code, but not in system calls;
  each reads the clock two or three times; a tick can be pending when the timer
  is set anew or stopped. A frame saved into the wrong thread, a stack that is not
  the running thread's, a timer left unset are the ways to fail.
- **Devices go on** while they are being set: an old delay runs out between two
  register writes; writes arrive late; a stopped timer is left in another mode.
- **Shared structures**: callbacks that insert into the queue that is being run,
  threads linked into a ring that grows behind the running one, page tables shared
  between spaces.
- **Partial failure**: memory that runs out in the middle of a walk or of a device
  mapping.
- **Machine code** that C and the processor meet in: selectors, stacks, alignment,
  the layout of frames, and which GS base is the present one, with an interrupt
  between any two instructions.
- **Measuring** one clock by another: polls that come late, a counter that wraps,
  a processor that says nothing or half of what is needed.
- **Boundaries**: runs of pages at the end of memory, roundings of ranges, a
  fixed-point scale cut twice, a 32-bit counter, a clock that leaves 64 bits.

For each component correctness means:

- scheduler: a thread cannot tell that it is not alone (`VirtualCpu`); the CPU
  goes round one ring (`RoundRobin`); the timer is set whenever something needs it
  and only then; slices are bounded; everybody runs; every event runs;
- timer queue: an orderly queue at every instant (`PendingQueue`), nothing lost,
  early or out of turn;
- timer: one interrupt, not before the delay asked for last and, but for a store
  that comes too late, not never;
  a frequency that is right up to the polling; arithmetic never late and hardly
  early; the clock never goes back;
- interrupts: every vector has its gate, nothing stays in service;
- entry code: no load of a selector, stack or GS ever faults, C is called as its
  convention says, a thread comes back as it left;
- boot information: the report says of each answer what it holds, and no more;
- physical memory: a pool of pages (`PagePool`), each given once, none lost, no
  false refusal, and these the pages the loader's answer calls usable;
- virtual memory: spaces are functions from pages to frames (`AddressSpaces`),
  the TLB never disagrees with the tables, user mode reaches what was mapped for
  it and nothing else.

## 2. Modules

```
   VirtualCpu  RoundRobin        PendingQueue     PagePool           AddressSpaces
         \       /                    |              |                    |
           Sched                   TimerQ           Pmm   BootInfo       Vmm
          /     \                  /    \             \   /            /    |    \
  MCSched   SchedTiming    TimerQProofs  |           Startup     VmmProofs |  BootMap
            /         \               MCTimerQ       /     \            MCVmm  MCBootMap
   SchedProofs   MCSchedTiming              LoaderProofs  MCStartup

   Timer        Calibration        Interrupts
     |               |                 |
TimerProofs      TimerConv           Entry
                 /       \             |
       TimerConvProofs  MCTimerConv  InterruptsProofs
```

The top row are the abstract specifications; each is a
`PROPERTY` of the run of the module below it, through `INSTANCE ... WITH`. The
others stand on the module they extend. NatFacts has arithmetic lemmas for the
proofs of Sched, TimerQ, Pmm, BootInfo, Vmm and TimerConv. LoaderProofs proves about
Pmm, BootInfo and Startup, which composes the two.

**Sched** is the scheduler together with what it is entangled with: `sched.c`,
the part of `kmain` from `sched_init` to `enter_user`, `irq_common`, and
`syscall_entry.S`. A step is a stretch of code that nothing can observe the middle
of; `pc` says where the kernel is ("tick", "arm", "program", "user", "syscall",
...). `sched_arm_timer` is two steps because it reads the clock again and
`timer_oneshot_ns` reads it once more: time may pass between them (`Clock`), and
the timer may fire. The live frame holds the registers of the CPU with the *owner*
of the code that runs, so that ContextIntegrity can say whose they are. Times are
kept relative to now, so that time may go on for ever in finitely many states. The
threads are added before `timer_init`, as in `kmain`, each of them behind the boot
thread, which is `g_current` until the first switch; Threads is the set that
may be, and any part of it is. BLOCKED and ZOMBIE are not states of the model because
nothing in the kernel sets them. **VirtualCpu**: each thread has a CPU of its own,
which only its own steps change. **RoundRobin**: a queue; entering it behind the
head, rotating it.

**SchedTiming** puts durations on Sched: the kernel takes at most `HandlerTime`
from interrupt to return, a pending interrupt is delivered as soon as interrupts
are enabled, user code runs as long as it likes. Auxiliary variables remember how long
the thread has had the CPU (`ran`, counted up to `RanBound`, which is above every
quantum and handler), whether a timer event was about in the present slice (`calm`),
and how long the handler has run (`busy`). Liveness lives here.

**TimerQ** is `timerq.c` by its pointers: the walk over `timer_event_t **` is one
step per link, a callback may insert any event that is not pending, itself included,
and `stack` is the C stack of the nested calls. **PendingQueue** is its abstract
specification: a sequence of events with due times.

**Timer** is `timer.c` over `lapic.c` at the level of device accesses: a call is
the list of its accesses, and time passes or a write arrives between any two. A
store to a register may arrive late, with either source, after an RDTSC or a WRMSR that
follows it: the code fences none of them and reads none back. Auxiliary variables
remember what was asked. **Calibration** is what `timer_init`
does first: the processor's checks, the leaves of CPUID, and where they say
nothing the PIT, one port access per step (command, latch, low byte, high byte)
while its counter goes on, through 0 and round; then the LAPIC's timer against the
TSC. **TimerConv** goes on from the frequency found, right or wrong, with the
arithmetic: `mul_u64_div_u64`, the scale, `ticks_from_ns`, the clock, and a client
that waits like the scheduler. The word is a constant, so that TLC runs the same
formulas with an 8-bit word.

**Interrupts** is the way from a line to a handler and back: two 8259s in
cascade, the local APIC, gates, interrupt stacks, `irq_common_handler` with its
choice of the controller to tell, and the order in which `kmain` brings them up.
**Entry** puts the machine code on it. A routine is a sequence of instructions
(`Code`), one action runs one kind of instruction, and an interrupt, an NMI or an
exception can come between any two where the processor allows it. The processor
is what these paths use of it: stacks of words, selectors checked against the GDT
in use when they are loaded by `mov`, `retfq` or `iretq` (and not by SYSCALL and
SYSRET), the TSS, the two GS bases, CPL. Words carry their kind and origin, so
that a register popped into the wrong place shows. A call of C is one step that
leaves rubbish in every register the convention does not preserve; which thread
`sched_on_tick` switches to is any.

**BootInfo** is `boot_info.c` with `kvprintf`: the types of the protocol's
structures are a table (`Layout`), and so are the lines of the report
(`Sections`, `Screens`): for each structure the fields it prints and how (`Own`), and
the pointer or the array it goes on to (`Steps`, `Item`, `Missing`), which is two deep
at most. Each conversion cuts its argument to its width and turns it into digits.
What is true of an answer is defined from the protocol's side, along its pointers
(`Places`, `Facts`), and not from the tables of lines. Null answers,
null arrays beside a count and null
elements are what the loader may give. The digits are there because the report is
what its property is about: a value cut to the wrong width shows only in them.

**Pmm** is `pmm.c`: `pmm_init` in the order of its passes (bitmap size, place,
marking of ranges, kernel and bitmap taken out, count), and `pmm_alloc_pages` as a
scan of one page per step. **PagePool**: a set of free pages and a map of who
holds which run; an allocation takes the first run or refuses when there is none.

**Startup** is the beginning of `kmain`, in which the two meet: `boot_info_init` copies
the answers, `print_boot_info` reports them, and `pmm_init` finds the memory map and
the kernel in the copies. It passes over entries that are not usable
(`UsableEntries`) and brings the kernel's linked addresses to physical ones in 64-bit
arithmetic (`kernel_phys_range`). `Promised` is what the protocol says of the two
answers; where it does not hold `pmm_init` is not started, since nothing in it checks.
`print_framebuffer_info` has no caller and may run beside the other report.

**Vmm** is `vmm.c` and `mmio.c`: the walk takes one step per level, allocating,
clearing and linking tables; entries are written and rewritten as the code does
(NX in a second write); the TLB fills itself from the tables at any time;
`*_space` calls switch CR3 there and back; `mmio_map` goes page by page and may
fail half-way. A table that is missing is allocated, cleared and linked in one step
(`Extend`): the order of these (`vmm.c:54-62`) is not visible to the properties.
**AddressSpaces**: each space is a function from pages to translations, and the kernel's half is one function for all.
**BootMap** runs `kmain`'s four calls of `vmm_map_page` on Vmm.

MC modules give model values and small functions; nothing in a cfg replaces a
definition. Operators called `Mut_...` are plausible mistakes in the definition
that follows them; for every property of every run, `PROJECT.json` names one that
the run tells from the code. No specification refers to them.

## 3. Runs

| Run (cfg) | Question | Instance | States |
|---|---|---|---|
| `sched_safety` | contexts, stacks, ring, timer, and both refinements, in every interleaving | 3 threads of which any are added, 2 events set 0–2 ahead, 2 register values, quantum 0 or 2, all sources | 531 355 |
| `sched_live` | bounded slices, everyone runs, every event runs and none shortens a slice | 3 threads, 2 events, quantum 5, handler 2 | 169 272 |
| `timerq` | the pointer walk against the queue, and nothing lost | 3 events, times 0–3 | 27 678 |
| `startup` | from the loader's answers to their report and to the pool, for every memory map | all maps of 0–2 usable entries below page 6 after a page 0 that is not, 2-byte pages, 2-bit "bytes", a kernel of 1 or 4 bytes on any page, requests up to 3; and one answer of every shape, the others missing or there; 8 to 64 bits as 1, 2, 3 and 5 hexadecimal digits | 82 387 |
| `vmm` | the spaces, with TLB and privilege | 3 levels of 2 entries, 2 spaces, a user page, a kernel page beside the first page of a device of 2, 3 free frames, 2 data pages | 181 164 |
| `timer` | the device is set for what was asked last | both sources, delays to 4 ticks, counter to 3, 4 posted writes | 288 179 |
| `timer_conv` | the frequency found, rounding and the clock | 12 processors, 2 rates, polls up to 2 PIT ticks late, 2-digit counter of base 3, one wrap; 2^4 scale, 8-bit word, kilo = 3, TSC from below to above one tick per ns and through the whole word | 1 506 278 |
| `entry` | the entry code, instruction by instruction, on the controllers | 2 threads, line 15, exceptions 2, 14 and 17, 3 system-call numbers | 2 031 848 |
| `boot_map` | violated: the user pages kmain maps | 4 user pages, 4 pages of memory | |
| `timer_posted` | violated: the deadline is set after every call | as `timer`, with the TSC-deadline source | |
| `timer_conv_lapic` | violated: the rate of the LAPIC source | as `timer_conv` | |
| `nmi_stack` | violated: the NMI's stack | lines 0, 7, 8, 15, exceptions 2, 8, 13, 14 | |

Why the bounds are enough:

- *Sched*: a third thread tells "next" from "previous" and from "any other", which
  two do not; with one thread the ring is a loop on itself and the timer is
  stopped; they are added at boot only, as in `kmain`, in any order; two
  events tell the head of the queue from the rest. Two register
  values show a mixed-up context. Times are relative, so that no run ends: the
  slices are as many as one likes. In the timed runs a quantum of 5 and a handler
  of 2 put a tick before, at and after the end of a slice.
- *TimerQ*: three events give a front, a middle and an end; times 0–3 give equal,
  earlier and later deadlines, past and future.
- *Pmm*: six pages hold two ranges with a gap, a bitmap of several bytes (two bits
  each) and a kernel in either range, in both, or in neither; requests of 3 meet
  runs broken by one page. The entry that is not usable is memory a confusion of types
  would hand out.
- *Vmm*: three levels have a table that is neither the top nor the last; three
  free frames run out in the middle of a walk, of a space and of a device mapping;
  two data pages let a page be mapped anew to another.
- *Timer*: a delay can exceed the counter by one; a call has at most 7 accesses,
  and 4 ticks cover an expiry before, between and after those that matter. Of the
  stores of one call at most 4 can be on their way without a read between them, and
  those of a stop and of the call that follows it are together at most 4.
- *Calibration*: a poll can be on time, late by the tick that may be missed, and
  late by two; nine counts and one wrap give readings before, at and after 0, and
  both bytes change. The processors have all leaves, no crystal, no ratio, no
  leaf, no deadline mode, no invariant TSC.
- *TimerConv*: with a scale of 2^4 the cut bits are worth ticks already, products
  exceed the word, and the clock saturates and deadlines wrap within the run.
- *Entry*: line 15 is the one that goes through both PICs and has a spurious
  twin on either; of the exceptions 2 comes at any instruction on a stack of its own, 14 and
  17 have error codes, one from both modes; system calls 0, 1 and 2 are the write,
  the exit and an unknown one, and their parity gives an aligned and an unaligned
  user stack. Two threads are switched from and to any number of times. Every
  register has a value of its own. The number of user steps is not bounded; stacks
  are, by the code.
- *BootInfo*: numbers are 0, 1, the largest and one that differs from all others
  in high and low digits; arrays have no element, one, or a missing one beside one
  that is there, or are missing themselves beside a count.

`CHECK_DEADLOCK FALSE` is set where the system really stops: `startup` (a panic when
there is no place for the bitmap ends the run, and the model goes no further when the
loader has not answered) and the `timer_conv` runs (the TSC stops at a bound, and
`timer_init` fails without an invariant TSC).

What the properties say is in the comment above each of them. Remarks on those
whose scope needs one:

- `SliceBounded` is for slices without a timer event (`calm`), whatever the handler
  takes, and `EveryThreadRuns` for runs in which events cease and handlers that take
  at most half a quantum. Both limits are real: `sched_on_tick`
  reads the clock to decide whether the slice is over, and `sched_next_deadline`
  reads it again to decide whether to start a new one. If the slice ends in
  between, it is renewed and the thread gets another quantum. When a handler takes
  more than half of a quantum (quantum/handler 3/2, 3/3, 4/3, 5/3) an interrupt
  that became pending meanwhile makes this repeat for ever and the other threads
  starve; for 2/1, 3/1, 4/2 and 5/2 it does not. With timer events a tick for an
  event just before the end of the slice has the same effect, once per event.
  The kernel's quantum is so much longer than its handler that neither shows.
- `SliceBounded` leaves out the time a thread spends in a system call of its own
  that holds the tick off.
- `EveryEventRuns` of TimerQ has a premise: from some moment on callbacks
  insert for a time to come. Without it, `timerq_run_expired` can go on for ever;
  TLC shows so if the premise is removed.
- `TlbCoherent`: between the write of an entry and its `invlpg` the processor may
  be wrong about the page that is being changed, and about no other; when a call
  has returned it is right about all. Between the two writes of an entry with NX
  the page is executable for a moment.
- `HeldOrLost` is about both sources and stores that come as late as they like. For
  the LAPIC source the device is set for what was asked last. So it is for the
  TSC-deadline source if the timer was in deadline mode when the call began, with no
  store on its way (not `Exposed`): after a tick, when one deadline replaces another. After
  `timer_stop`, which leaves the timer masked and in one-shot mode, the deadline
  may be lost, but nothing else can be there in its place. That it can be lost is the run
  `timer_posted`, and is why `AlarmRings` has the premise `~Exposed`. `NeverEarly` needs
  no premise: a store that is late loses a deadline and makes none come early.
- `HardlyEarly` bounds the error by one tick for the product and one for each
  2^32 ns of the delay. It is for what fits (`Fits`): a rate below 2^32 ticks per
  nanosecond, which is what the scale has room for; a delay below 2^64 ticks, beyond
  which `mul_u64_div_u64` saturates; and a deadline below 2^64. `rdtsc() + ticks` is not
  guarded (`timer.c:207`): a deadline that wraps lies behind the TSC and fires at once. TLC
  finds a delay cut short when either of the last two is left out; the first is
  needed by the proof alone, as no frequency of the run is so high.
- `CalibrationHonest`: the loop of `tsc_hz_calibrate_pit` waits for a reading of
  exactly 0 of a counter that does not stop there. What it measures is the interval
  asked for plus whole turns of the counter (55 ms each), none of them if polls are
  at most one PIT tick (838 ns) apart. `CalibrationEnds` has the same premise, from some
  time on: without it the loop need never see a 0.
- `ModesRight` counts a fault of the processor in the entry code as the worst
  outcome; exceptions of user code are allowed and end in a panic. Interrupts that
  come while the kernel runs on a user stack are what FMASK is for.
- `ReportTrue` relates the text to the answers, with the numbers read back from
  their digits. It covers the conversions the report uses.
- `SupplyAsAnswered` compares the allocator with the loader's answer itself, and not
  with the copy or the entries `pmm_init` chose. It says nothing where `pmm_init` has
  panicked.
- `ContextIntegrity` and `StackAgreement` see `g_current`, RSP0 and `kernel_rsp` change in
  one step: the code that sets them runs with interrupts masked. An NMI between
  them, which only panics, is not in Sched.

## 4. Fairness

- Sched: weakly fair are the clock, the firing of a timer that has run out, the
  delivery of a pending interrupt while interrupts are enabled, and kernel code,
  which never blocks. Entering user mode is strongly fair: it is disabled whenever
  a tick interrupts the code before it, and the code goes on after each tick.
  Nothing is assumed of user code: a thread may loop for ever, or make system
  calls for ever.
- TimerQ: ticks come while an event is pending (this is `TimerNeverLost` and
  `EveryEventRuns` of Sched), and neither function is left half-way.
- Timer: the accesses of a call are made, writes arrive, time goes on.
- Calibration: `timer_init` goes on from access to access, and the PIT counts. How
  often it is polled is a premise of `CalibrationEnds`, not fairness.

## 5. Findings

Four runs show a disagreement between the code and what it says of itself.

- `boot_map`, `core/kmain.c:178-181`: all four mappings are of `uc0_phys`, and the
  fourth is of `user_code0` again. Both programs and the first stack share a page
  and the second stack is never mapped.
- `timer_posted`, `cpu/timer.c:205-207`: the LVT is stored through memory and the
  deadline written by WRMSR, and nothing orders the two (that takes an MFENCE;
  `rdtsc_ordered` is an LFENCE, and the read-back in `lapic_write`, `lapic.c:32`, is
  commented out). After a `timer_stop` the deadline may come first and is ignored, and
  the tick never comes; the comment above says that the timer is in its mode and
  unmasked there.
- `timer_conv_lapic`, `cpu/timer.c:183`: the LAPIC's ticks per nanosecond come
  out as a thousandth of what was calibrated; the comment in `timer.c:30` has the
  formula right. The clock uses the same pair (`timer.c:236`) and divides by it the
  TSC, whose rate it is not: with the LAPIC source `timer_now_ns` is not in
  nanoseconds even if the factor is right.
- `nmi_stack`, `cpu/idt.c:53`: the NMI's gate names IST 1, the stack of the double
  fault, and not IST 3, which `kmain` fills with the "nmi stack".

Observations made while modelling that no run stands for:

- `mm/mmio.c:41`: `mmio_map` reads `writable` and `global` of its options and
  ignores `nx` and `cache`, which `mmio.h:24` promises; `lapic.c:57` sets `nx`.
- `core/sched.c:11`: the quantum is kept in 32 bits.
- `cpu/timer.c:137`: the PIT's loop waits for a count of exactly 0, and misses
  it if a poll comes late: the frequency is then too high by a whole turn of the
  counter (`CalibrationHonest` without its second conjunct still holds).
- `mm/vmm.c:75`: `& ~0xfff` keeps the NX bit in the address, harmless as long as
  no table entry has NX; and no entry is asked whether it maps a large page.
- `cpu/syscall.c:48-59`: the comment wants the selector of user code in STAR 63:48; the
  code rightly writes it less 16, as SYSRET adds 16 (the mutant `Mut_StarUser` is
  the comment's reading, and faults).
- `cpu/syscall.c:67`: FMASK clears IF and no other flag. A program that sets TF has
  the #DB of the trap at the first instruction of `syscall_entry`, in kernel mode and on
  its own stack; one that sets DF has the C code of the kernel run with it, as
  neither `syscall_entry.S` nor `isr.S` has a `cld`.
- `cpu/isr.S`: vector registers are not saved, and the build does not keep the
  compiler from using them in the kernel (`kmain.c:249` leaves it for later).
- `core/print.c:35` negates into 8 bits; `print.c:54` pads with the NUL character;
  `%lld` consumes no argument; a `%` at the end of the format reads past it. None
  of these conversions is used by the report, which makes its own
  (`print_hex_fixed`, `print_signed_u64_line`).
- `print_framebuffer_info`, `cpu_relax_init`, `pit_init`, `pit_stop` and `pmm_free_pages`
  have no caller. The base revision of the boot protocol is never checked.

## 6. Proofs

All theorems hold for every value of the constants that satisfies the named
assumptions of the module (sets of threads, events and registers of any size, any
quantum and delays; any page size, memory map and place of the kernel).

**SchedProofs** proves of Sched: `TypeCorrect`, `ContextsKept`, `StacksAgree`,
`RingKept`, `OneRunning`, `NoTickLost`, `TicklessAlone`, `RefinesVirtualCpu` and
`RefinesRoundRobin`, and of SchedTiming, for every quantum and handler time:
`SlicesWhole` (`WholeSlice`) and `SlicesBounded` (`SliceBounded`). The inductive
invariant has five parts:

- `ContextInv`: the boot order (`Booted`), whose registers the live frame holds at
  each `pc` (`LiveInv`), ContextIntegrity and StackAgreement. Neither of the last
  two is inductive alone: a switch copies the live frame, so one must know that it
  is the running thread's exactly when it came from user mode.
- `RingInv`: `OneRing` (no part of the ring but the whole is closed under `next`),
  `RunningIsCurrent`, and the empty ring before `sched_init`. Linking a thread in
  behind `g_current` and moving `g_current` keep it.
- `TimerInv`: where the kernel is not on its way to arm the timer, the timer is
  set or its interrupt pending if and only if something needs it; the way there
  is what makes it inductive. It needs that `pick_next` finds another thread
  exactly when the ring has one (`PickNextFinds`).
- `Rotation`: with these, the ring is a cycle of as many threads as it has, from
  `g_current` on (`Cycle`). `GoesRound` connects it with `Walk`, which follows `next`,
  by induction round the ring; `Joins` and `Rotates` say what linking and a preemption
  do to the cycle, `PicksNext` that `pick_next` takes the second of it, since no thread
  but the current one is RUNNING, and `QueueJoined` and `QueueRotated` that this is what
  RoundRobin does to its queue.
- `TimedInv`, of the timed specification, whose steps are steps of Sched (`TimedIsNext`):
  a thread that was dispatched has somebody waiting behind it and, once its slice has
  an end, the time it has had and the time left make a quantum (`SliceInv`); in a slice
  without events the timer is never set for earlier than the slice's end nor for later
  than a quantum from the end of the handler, and what fires is taken to be the end
  (`CalmInv`). It is inductive only together with the other parts: that somebody
  waits is what makes `sched_next_deadline` a deadline.

Each has one lemma per group of actions, and the refinement of VirtualCpu one lemma per
kind of step (`Stutters`, `Computes`, `Preempts`).

**LoaderProofs** proves of Pmm: `TypeCorrect`, `PagesConserved`, `FreeBytesTrue`,
`BitmapSafe`, `RefusalHonest` and `RefinesPagePool`. `IInv` is TypeOK, the facts at
the start (`AtBoot`), what the scan has seen so far (`ScanOK`: the last `run` pages
before the next are free, and no run of the size asked for has gone by),
`NothingLost`, `Accounted` and `BitmapPlaced`. The assumptions on memory maps are
those the boot loader documents: entries are page-aligned and disjoint, page 0
is not usable; the kernel may lie anywhere, even in usable memory. The pages a
caller frees are pages it holds. **NatFacts** has the arithmetic: least elements,
and division and multiplication for rounding to pages.

Of BootInfo it proves `Reports` (`ReportTrue`), for every width of the C types and every
set of answers that the protocol allows (`ResponsesAssumption`: numbers fit their types,
an array is missing or as long as its count says). The inductive invariant `InfoInv` is short:
the copies are those of the answers, and the report says of the requests reported so
far what it has to. The work is in one step, that a printing function adds to the report
just the facts of its requests. It goes from the digits up:

- texts: `HexFixed`, `PrintUint`, `ReadSigned` and `ReadUuid` say that a reader gets back
  the number (`HornerAppend`, `HornerConcat`); `LineTells` that a line whose conversion
  suits its field's type tells that field whole, and `ToldApart` that no two lines of a
  structure tell the same;
- structures: lines are `Keyed` by what they tell, so that a list of lines fits a structure
  when its keys are the structure's (`OwnSays`). `HhdmFields` ... `ModeFields` have the
  protocol's structures, `HhdmFits` ... what is printed of them, one each;
- blocks: `Says` (what is said, each fact once) goes through concatenation when the facts are
  different (`SaysBoth`, `SaysAll`), and the facts of two elements of an array are,
  because their paths part at the array (`Under`, `StepsLead`). `BlocksSay` puts a structure and
  its blocks together; `FlatSay`, `ItemSay` and `AllSay` use it for the three levels there are;
- the report: each section fits its request (`HhdmSection` ... `FramebufferSection`), and each
  request has one section (`AllSectionsFit`).

For the proof the report is written without `RECURSIVE` operators, one operator for each
of the three levels, and the number of digits and the answers have named assumptions.

Of Startup it proves `StartKeeps` (`NothingLost`, `Accounted`, `BitmapPlaced` and
`ReportTrue` of the composition), `StartSupply` (`SupplyAsAnswered`), `StartRefusals`
(`NoFalseRefusal`) and `StartPool` (`PagePoolSpec`), from the two invariants above:
`StartInv` says that InfoInv holds throughout, that IInv does from the copy on where the
loader kept its promise (`Kept`), and that memory map and kernel are those of the answers
(`MapIsPromised`, `KernelIsPromised`). `UsableAre` says of the loop over the map that
what it keeps is just what is usable, each once. The assumptions of Pmm on maps and
kernels are here no longer about what `pmm_init` is given, but about what the loader
promises (`StartAssumption`: the constants MemMaps and Kernels have all of that).

**InterruptsProofs** proves of Interrupts, for any set of lines and exceptions:
`VectorsAgree` (`VectorsRight`) and `EndsOfInterrupt` (`NothingInService`). The invariant
`IInv` says which step of `kmain` has put which base, mask and gate in place (`InvBoot`), and
of the controllers that what is in service is what the vector now being handled
stands for: nothing between handlers; one line of the first PIC; one of the
second and the cascade; only the cascade for the second's spurious line; the local
APIC for the timer. With it, telling a controller chosen from the vector alone
clears exactly what is set.

Of Entry it proves, for any number of threads, lines, exceptions and system calls,
all that the run checks: `NoFaults` (`ModesRight`), `CallsAsExpected` (`CallsRight`),
`BackAsLeft` (`Resumes`), and the two above once more for the machine code
(`EntryVectors`, `EntryEnds`). None of the three is inductive: that an `iretq` gives a
thread back what it left needs to be known of every word on the stack from the
stub's first push on. `EInv` therefore has a clause for each instruction (`FlushAt`,
`InKmain`, `EnterAt`, `InUser`, `SysAt`, `StubAt`, `IsrAt`, `IrqAt`, `Stopped`): which
words the stack has there, by the count of pushes and pops so far, which registers are
already those of the frame, and which GS base and stack are in use. Beside them it has
the boot order (`Order`), the well-formedness of what is stored (`Shape`), and that each
thread that does not run waits in a frame that leads back to where it left
(`ThreadsUp`). `Return` is what a frame may return to: the current thread in user mode,
or `kmain` on the loader's stack before it enters it; the latter is why `EInv` follows an
interrupt that comes in the middle of `enter_user`. `PushSaved`, `PopRestored` and
`ReplacedIs` carry a frame through the 15 pushes and pops and the switch of threads,
`ArgumentsMoved` the registers through the moves of `syscall_entry`, `DeliverStub` what
the processor pushes into what a stub expects; `ExecuteStep` has one lemma for each kind of
instruction, `DevicesStep`, `InterruptStep` and `FailsStep` the rest of the steps.
One definition had to be corrected for it: in `gdt_entry` the cases for a TSS and
for a code segment overlapped, and a `CASE` may then take either.

**TimerProofs** proves `AlarmIsHeldOrLost`: `HeldOrLost` for every delay, counter, number
of writes under way and set of sources. The invariant has a clause for every place in a
call, counted in accesses that remain (`todo`), since the calls of the two sources end
alike: what the last accesses will do to the state the device is in now is what was
asked. `InvLapic` says so through the queue of posted writes, for the device sees the
state they will have made. `InvTsc` does for the mode, the mask and the deadline, and
has to follow the late stores too: what is armed is never anything but the last delay
(`Armed`), and a call that found the timer in its mode stays in it and ends armed
(`Kept`). One lemma per kind of access
and per event of the device keeps each part.

`AlarmIsNotEarly` is `NeverEarly`, in the same generality. It needs to know what the
device does in the middle of a call, where HeldOrLost is silent, and so a second
invariant, `OnTime`: what is counted down unmasked meanwhile was asked for
before. For the LAPIC source it is about the one list of writes that the call still
makes and the bus still carries (`Stream`), which stays the same when a write is
posted and loses its head when one arrives: `Orderly` is what is true of any such list
(an LVT is followed by its count, and a count that is set masked, as in the calibration, is
stopped before the timer is unmasked), `Ready` what ties it to the device. Both survive a new call
behind the old ones (`OrderlyJoins`, `ReadyJoins`), an arrival (`OrderlyTail`,
`FirstArrives`) and a tick (`OrderlyGrows`, `ReadyTicks`).

**VmmProofs** proves of Vmm, for any number of levels, tables, pages and spaces:
`TypeCorrect`, `Trees` (`TablesAreTrees`), `Privileged` (`Privilege`), `Coherent`
(`TlbCoherent`) and `Implements` (`AddressSpacesSpec`). A walk
is a recursive function of the tables (`WalkOf`), so that two walks, or a walk before
and after a change, can be compared level by level (`WalksJoin`). The invariant:

- `InvShape`: the tables in use have levels, and below the lower half a mark, such that each
  entry leads one level down, or on the last to data, and has the U bit its half asks
  for (`Forest`); an entry has no second parent but among the tops (`SingleParent`); the
  tops agree on the kernel's half (`Sharing`). From these: a table is reached
  in one way (`OneWay`), and all spaces find the same in the kernel's half (`SharedWalks`).
- `InvCall`, `InvWalk`: the flags of a call suit its pages, and `table` is where the
  processor's own walk of the page is on that level.
- `InvTlb`: TlbCoherent. A switch of CR3 needs that what is global was found in
  the kernel's half, which `Forest` says.

`LeafChange`, `Growth` and `NewTop` say how the three changes of the tables (an entry of
the last level, a new table, a new top) show in the walks, and `LeafKeeps`,
`GrowthKeeps`, `TopKeeps` that they keep the shape. Assumed of the loader's tables
(`LoaderTreeAssumption`): they are a tree, map nothing for user mode and nothing in
the lower half, and have the top-level entries of the kernel's half that will be used. Without
the last the spaces would part: `vmm_create_space` copies the top level once.

**TimerQProofs** proves of TimerQ, for any finite set of events and any times:
`TypeCorrect`, `Clean` (`UnlinkedIsClean`), `NoneLeft` (`NoneLeftBehind`) and `Implements`
(`PendingQueueSpec`). The invariant says that the links are those of a sequence of
distinct events in the order of their deadlines, which ends, that an event off it
links nowhere (`IsList`), and that `timerq_insert` is at a link before which all is due
no later (`Pointing`). `Follows` connects the sequence with the pointers: whoever
follows the links finds its events and no more, by induction along the list, after
`Steps` has shown that the recursive function which does so has a value. `Insertion`
and `Removal` say what the two changes of the links do to the sequence, and
`QueueInsertion` and `QueueRemoval` that this is what PendingQueue does to its queue.

**TimerConvProofs** proves of TimerConv and the calibration it extends, for every
word, scale, counter width, frequency and delay: `InTime` (`NeverLate`), `NotEarly`
(`HardlyEarly`), `Monotone` (`ClockMonotone`) and `Honest` (`CalibrationHonest`).
Quotients are handled by their
products (`DivMono`, `DivShift`, and `MulDiv` for the saturating `mul_u64_div_u64`);
`TicksFit` says that the ticks of a delay, through both roundings, do not last longer
than the delay, and `DelayEnds` what the clock then shows. `IInv` keeps, with each
delay under way, that bound as it was when the delay was programmed. For `NotEarly`
`TicksEnough` bounds the same two roundings from the other side, `DelayLasts` says that the
clock at the deadline has then gone on by the delay but for `Slack`, and `LastingKept` that
this outlives the steps. `CalInv` is about
the loop over the PIT: while it polls, the TSC has gone on by the rate times what the
counter has lost, with what its wraps gave it (`Elapsed`); what was latched is one count
(`Held`); since a 0 was latched the counter has gone on by `gap` (`SinceZero`); and where
polls are a tick apart a counter at 0 is one that has not been read since it got there
(`Attends`), so that no wrap is missed.

Model-checked only: SchedTiming's `EveryThreadRuns` and `EveryEventRuns`,
TimerQ's `EveryEventRuns`, Timer's `AlarmRings` and TimerConv's `CalibrationEnds`:
liveness, and with it `ENABLED`, is beyond the prover and stays with TLC. Every
invariant, action property and refinement that a passing run checks is proved. Where a
recursive function is needed (`WalkOf`, `print_uint`, `Horner`), what it computes is
proved without an induction theorem: from a least counterexample (`LeastNat`), and
from the existence of a function with the recursion's steps (`Recursion`, `Steps`).

## 7. What is external

Modelled from how the code uses it, and marked so in `PROJECT.json`: the timer's
device, the interrupt controllers, the processor (segments, privilege, SYSCALL,
interrupt delivery, CPUID), the 8254, the convention of C calls, the boot loader's answers,
the TLB and the page walker, the TSC, user
programs, clients of the timer queue, the callers of the PMM and VMM. Contracts
taken from the callers or from the boot protocol, and not enforced by the code:

- user pages are mapped with U in the lower half only, kernel and device pages
  under top-level entries that are present at boot, devices by `mmio_map` only;
- events are not inserted while they are pending; pages freed are held;
- the loader leaves the LAPIC's timer masked and stopped, its tables valid;
- its answers have the types of `limine.h`, and an array that is there has as many
  elements as its count says;
- both the memory map and the kernel's address are answered, usable entries are whole
  pages above page 0 that overlap no other entry, and the kernel is at the address it was
  linked at (`Promised`).

## 8. Not modelled

- `core/string.c` (`memcpy` and its like over disjoint buffers, called by the
  compiler), wrappers of single instructions (`msr.h`, `io.h`, `arch.c`): no state,
  no order to get wrong.
- `relax.c`: `cpu_relax_init` has no caller, so that `cpu_relax` is a `pause`. If
  it is called one day, the deadline of `tpause` (`relax.c:38`) starts from the
  time of that call and is only ever moved on by a step, and falls behind the TSC.
- The debug port and the UART (`kputc`), width and padding, what `panic` prints.
- `pit_init`, `pit_stop`, `pic_set_mask`: no caller. The registration of handlers:
  only the scheduler's is ever registered.
- The bytes of the two user programs: in Sched and Entry a program does anything.
- Vector registers, and of RFLAGS all but IF (section 5: TF and DF).
- `sched_add` without a current thread (`sched.c:91-94`, `106`): `kmain` has called
  `sched_init` before, which sets `g_current`.
- In Sched the timer is reliable: the deadline that `timer_posted` loses is not in
  TimerNeverLost, which is about what the scheduler asks for.
- TimerConv reads the clock and the TSC of `timer_oneshot_ns` at one moment, so that
  NeverLate is about arithmetic; the time that passes between the two is in Sched.
- The 32 bytes of `print_uint`'s buffer (`print.c:9`): only bases 10 and 16 are used,
  whose longest texts have 20 and 16 digits.
- An NMI while a double fault is being handled, on the stack they share (section 5).
- Build files, linker script, images.

## 9. What could follow

1. *Compose.* The timer Sched uses is a variable of its own; Timer could be shown
   to implement it (an abstract alarm: one delay, replaced by the next, that rings
   once). The queue Sched uses is a function from events to deadlines; PendingQueue
   could be shown to implement that.
2. *Join* Entry and Sched: Entry's tick switches to any thread; the frame Sched
   chooses could be shown to be one of these.
