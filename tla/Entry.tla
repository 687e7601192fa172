------------------------------- MODULE Entry -------------------------------
(***************************************************************************)
(* The machine code between user mode, interrupts and the kernel's C, one  *)
(* instruction at a time: the stubs of cpu/isr.S, cpu/syscall_entry.S,     *)
(* cpu/gdt_flush.S and enter_user of kmain, with the GDT, the TSS and the  *)
(* MSRs they rely on.  It runs on the controllers of Interrupts, which may *)
(* interrupt wherever interrupts are enabled.  A C function is one step:   *)
(* it leaves its result in rax and rubbish in the registers the ABI does   *)
(* not preserve.  Which thread a tick switches to is up to Sched.          *)
(*                                                                         *)
(* A value is a tuple with its kind in front.  A stack is a sequence, an   *)
(* rsp the name of one and how many words are on it; its bottom is aligned *)
(* to 16 bytes.                                                            *)
(***************************************************************************)
EXTENDS Interrupts, Integers, Sequences

CONSTANTS
    Threads,    \* t0 and t1 of kmain
    Boot,       \* t0
    Numbers     \* the system calls user code asks for

ASSUME EntryAssumption == Boot \in Threads /\ Numbers \subseteq Nat

VARIABLES
    core,       \* the processor: where it is, its registers, GS_BASE and KERNEL_GS_BASE
    mem,        \* the stacks
    sys,        \* the GDT in use, TR, and the MSRs for SYSCALL
    g_cpu_local, rsp0, g_current,
    frame,      \* thread_t.frame
    (* Auxiliary: a thread's context when it left user mode, and how; and the
       isr_frame_t that the last interrupt should make. *)
    left, origin

machine == <<core, mem, sys, g_cpu_local, rsp0, g_current, frame, left, origin>>

Imm(n)       == <<"imm", n>>
Flags(if)    == <<"rflags", if>>
At(r, n)     == [routine |-> r, at |-> n]
Rip(pc)      == <<"rip", pc.routine, pc.at>>
Address(v)   == At(v[2], v[3])
Sp(s, who)   == [stack |-> <<s, who>>, depth |-> 0]
Rsp(p)       == <<"rsp", p.stack, p.depth>>
Pointer(v)   == [stack |-> v[2], depth |-> v[3]]
Junk         == <<"junk">>
NoSp         == Sp("none", 0)

-----------------------------------------------------------------------------
(* gdt.h and gdt_init: of a descriptor what the processor asks of it here. *)
GDT_KCODE == 1
GDT_KDATA == 2
GDT_UDATA == 3
GDT_UCODE == 4
GDT_TSS   == 5
GDT_SEL(idx, rpl) == idx * 8 + rpl
KERNEL_CS == GDT_SEL(GDT_KCODE, 0)
KERNEL_DS == GDT_SEL(GDT_KDATA, 0)
USER_DS   == GDT_SEL(GDT_UDATA, 3)
USER_CS   == GDT_SEL(GDT_UCODE, 3)
TSS_SEL   == GDT_SEL(GDT_TSS, 0)

CODE  == 154    \* GDT_ACCESS_CODE, and so on
DATA  == 146
TSS   == 137
RING3 == 96
GRAN  == 128
SIZE  == 64
LONG  == 32

gdt_entry(access, flags) ==
    [dpl |-> (access \div 32) % 4, long |-> (flags \div LONG) % 2 = 1,
     type |-> IF (access \div 16) % 2 = 0 THEN "tss"
              ELSE IF (access \div 8) % 2 = 1 THEN "code" ELSE "data"]
gdt_set_tss == gdt_entry(TSS, 0)

NoEntry == [dpl |-> 0, long |-> FALSE, type |-> "none"]

gdt_init ==
    [i \in 0 .. 6 |->
        CASE i = GDT_KCODE -> gdt_entry(CODE, GRAN + LONG)
          [] i = GDT_KDATA -> gdt_entry(DATA, GRAN + SIZE)
          [] i = GDT_UDATA -> gdt_entry(DATA + RING3, GRAN + SIZE)
          [] i = GDT_UCODE -> gdt_entry(CODE + RING3, GRAN + LONG)
          [] i = GDT_TSS   -> gdt_set_tss
          [] OTHER         -> NoEntry]

(* The boot loader's has its 64-bit code and data at 5 and 6. *)
LoaderGdt == [i \in 0 .. 6 |-> IF i = 5 THEN gdt_entry(CODE, LONG) ELSE gdt_entry(DATA, SIZE)]

Entry(sel) == IF sel \div 8 \in DOMAIN sys.gdt THEN sys.gdt[sel \div 8] ELSE NoEntry
Cpl        == core.cs % 4

CodeSuits(sel)  == Entry(sel).type = "code" /\ Entry(sel).long /\ Entry(sel).dpl = sel % 4
StackSuits(sel, rpl) ==
    IF sel \div 8 = 0 THEN rpl # 3 /\ sel % 4 = rpl
    ELSE Entry(sel).type = "data" /\ Entry(sel).dpl = rpl /\ sel % 4 = rpl
DataSuits(sel)  == Entry(sel).type = "data" /\ Entry(sel).dpl >= Cpl /\ Entry(sel).dpl >= sel % 4

(* syscall_init. *)
(* Mutant: the selector of user code, as its comment has it. *)
Mut_StarUser == USER_CS

StarUser == USER_CS - 16
FmaskIf  == TRUE

-----------------------------------------------------------------------------
(* The code. *)
Saved == <<"rax", "rcx", "rdx", "rbx", "rbp", "rsi", "rdi",
           "r8", "r9", "r10", "r11", "r12", "r13", "r14", "r15">>

(* Mutant: two registers come back the other way round. *)
Mut_Restored ==
    <<"r15", "r14", "r13", "r12", "r10", "r11", "r9", "r8",
      "rdi", "rsi", "rbp", "rbx", "rdx", "rcx", "rax">>

Restored ==
    <<"r15", "r14", "r13", "r12", "r11", "r10", "r9", "r8",
      "rdi", "rsi", "rbp", "rbx", "rdx", "rcx", "rax">>
Gprs == {Saved[i] : i \in DOMAIN Saved}

isr_frame_t == Restored \o <<"vector", "error", "rip", "cs", "rflags", "rsp", "ss">>

Common(handler) ==
    << <<"push", Saved>>, <<"lea", "rdi">>, <<"call", handler>>,
       <<"pop", Restored>>, <<"add", 2>>, <<"iretq">> >>

Arguments ==
    << <<"r12", "r9">>, <<"r9", "r8">>, <<"r8", "r10">>, <<"rcx", "rdx">>,
       <<"rdx", "rsi">>, <<"rsi", "rdi">>, <<"rdi", "rax">> >>

syscall_entry ==
    << <<"swapgs">>, <<"save user rsp">>, <<"load rsp", "kernel_rsp">>,
       <<"push", <<"r11", "rcx", "rbx", "rbp", "r12", "r13", "r14", "r15">> >>,
       <<"mov", Arguments>>,
       <<"sub", 1>>, <<"push", <<"r12">> >>, <<"call", "syscall_dispatch">>, <<"add", 2>>,
       <<"pop", <<"r15", "r14", "r13", "r12", "rbp", "rbx", "rcx", "r11">> >>,
       <<"load rsp", "user_rsp">>, <<"swapgs">>, <<"sysretq">> >>

gdt_flush ==
    << <<"lgdt">>, <<"mov ds", KERNEL_DS>>, <<"mov ss", KERNEL_DS>>, <<"mov gs", KERNEL_DS>>,
       <<"pushi", <<Imm(KERNEL_CS), Rip(At("gdt_flush", 7))>> >>, <<"retfq">>,
       <<"ltr", TSS_SEL>>, <<"ret">> >>

enter_user ==
    << <<"cli">>, <<"mov ds", USER_DS>>, <<"mov gs", USER_DS>>,
       <<"pushi", <<Imm(USER_DS)>> >>, <<"push", <<"rsi">> >>, <<"pushi", <<Flags(TRUE), Imm(USER_CS)>> >>,
       <<"push", <<"rdi">> >>, <<"iretq">> >>

Code == [isr_common |-> Common("isr_common_handler"), irq_common |-> Common("irq_common_handler"),
         syscall_entry |-> syscall_entry, gdt_flush |-> gdt_flush, enter_user |-> enter_user]

Instr     == Code[core.pc.routine][core.pc.at]
Fetch(op) == core.pc.routine \in DOMAIN Code /\ Instr[1] = op
User      == core.pc.routine = "user"

-----------------------------------------------------------------------------
(* The processor. *)
Upto(p)       == SubSeq(mem[p.stack], 1, p.depth)
OnTop(p, vs)  == [mem EXCEPT ![p.stack] = Upto(p) \o vs]
Deeper(p, n)  == [p EXCEPT !.depth = @ + n]
Pop(n)        == mem[core.rsp.stack][core.rsp.depth - n]   \* the n-th word below the top
Shallower(n)  == OnTop(Deeper(core.rsp, -n), <<>>)
Go(c)         == core' = [c EXCEPT !.pc.at = @ + 1]
Fault         == core' = [core EXCEPT !.pc = At("fault", 0)] /\ UNCHANGED mem

kept == <<sys, g_cpu_local, rsp0, g_current, frame, left, origin>>

(* Pushes, pops and moves in a row are one step, which none but an NMI could tell. *)
PushStep ==
    /\ Fetch("push") \/ Fetch("pushi")
    /\ LET ws == IF Instr[1] = "push" THEN [i \in DOMAIN Instr[2] |-> core.reg[Instr[2][i]]]
                 ELSE Instr[2]
       IN /\ mem' = OnTop(core.rsp, ws)
          /\ Go([core EXCEPT !.rsp = Deeper(@, Len(ws))])
    /\ UNCHANGED <<vars, kept>>

PopStep ==
    /\ Fetch("pop")
    /\ LET rs == Instr[2] IN
       /\ mem' = Shallower(Len(rs))
       /\ Go([core EXCEPT !.rsp = Deeper(@, -Len(rs)),
                          !.reg = [r \in Gprs |-> IF \E i \in DOMAIN rs : rs[i] = r
                                                  THEN Pop((CHOOSE i \in DOMAIN rs : rs[i] = r) - 1)
                                                  ELSE @[r]]])
    /\ UNCHANGED <<vars, kept>>

RspStep ==
    /\ \/ Fetch("sub") /\ mem' = OnTop(core.rsp, [i \in 1 .. Instr[2] |-> Junk])
          /\ Go([core EXCEPT !.rsp = Deeper(@, Instr[2])])
       \/ Fetch("add") /\ mem' = Shallower(Instr[2])
          /\ Go([core EXCEPT !.rsp = Deeper(@, -Instr[2])])
    /\ UNCHANGED <<vars, kept>>

Moved(ms) ==
    LET after[i \in 0 .. Len(ms)] ==
            IF i = 0 THEN core.reg ELSE [after[i - 1] EXCEPT ![ms[i][1]] = after[i - 1][ms[i][2]]]
    IN  after[Len(ms)]

MovStep ==
    /\ \/ Fetch("mov") /\ Go([core EXCEPT !.reg = Moved(Instr[2])])
       \/ Fetch("lea") /\ Go([core EXCEPT !.reg[Instr[2]] = Rsp(core.rsp)])
       \/ Fetch("swapgs") /\ Go([core EXCEPT !.gs = core.kernel_gs, !.kernel_gs = core.gs])
    /\ UNCHANGED <<vars, mem, kept>>

(* gs:[...] is g_cpu_local only if that is where GS points. *)
CpuLocalStep ==
    /\ \/ Fetch("save user rsp") /\ core.gs = "g_cpu_local"
          /\ g_cpu_local' = [g_cpu_local EXCEPT !.user_rsp = core.rsp] /\ Go(core) /\ UNCHANGED mem
       \/ Fetch("load rsp") /\ core.gs = "g_cpu_local"
          /\ Go([core EXCEPT !.rsp = g_cpu_local[Instr[2]]]) /\ UNCHANGED <<mem, g_cpu_local>>
       \/ (Fetch("save user rsp") \/ Fetch("load rsp")) /\ core.gs # "g_cpu_local"
          /\ Fault /\ UNCHANGED g_cpu_local
    /\ UNCHANGED <<vars, sys, rsp0, g_current, frame, left, origin>>

(* A load of GS sets its base to that of the descriptor, which is 0. *)
SegmentStep ==
    /\ \/ Fetch("mov ds") /\ IF DataSuits(Instr[2]) THEN Go(core) /\ UNCHANGED mem ELSE Fault
       \/ Fetch("mov gs")
          /\ IF DataSuits(Instr[2]) THEN Go([core EXCEPT !.gs = "0"]) /\ UNCHANGED mem ELSE Fault
       \/ Fetch("mov ss")
          /\ IF StackSuits(Instr[2], Cpl) THEN Go([core EXCEPT !.ss = Instr[2]]) /\ UNCHANGED mem
             ELSE Fault
       \/ Fetch("retfq")
          /\ IF CodeSuits(Pop(1)[2])
             THEN /\ core' = [core EXCEPT !.pc = Address(Pop(0)), !.cs = Pop(1)[2],
                                          !.rsp = Deeper(@, -2)]
                  /\ mem' = Shallower(2)
             ELSE Fault
       \/ Fetch("ret")
          /\ core' = [core EXCEPT !.pc = Address(Pop(0)), !.rsp = Deeper(@, -1)]
          /\ mem' = Shallower(1)
    /\ UNCHANGED <<vars, kept>>

TableStep ==
    /\ \/ Fetch("lgdt") /\ sys' = [sys EXCEPT !.gdt = gdt_init] /\ Go(core)
       \/ /\ Fetch("ltr")
          /\ IF Entry(Instr[2]).type = "tss"
             THEN sys' = [sys EXCEPT !.tr = Instr[2], !.gdt[Instr[2] \div 8].type = "busy tss"] /\ Go(core)
             ELSE UNCHANGED sys /\ core' = [core EXCEPT !.pc = At("fault", 0)]
    /\ UNCHANGED <<vars, mem, g_cpu_local, rsp0, g_current, frame, left, origin>>

Cli ==
    /\ Fetch("cli") /\ iflag' = FALSE /\ Go(core)
    /\ UNCHANGED <<boot, pics, lapic, running, source, mem, kept>>

(* rip, cs, rflags, rsp and ss from the stack; the end of an interrupt too. *)
Iretq ==
    /\ Fetch("iretq")
    /\ LET ncs == Pop(1)[2]  nss == Pop(4)[2] IN
       IF CodeSuits(ncs) /\ ncs % 4 >= Cpl /\ StackSuits(nss, ncs % 4)
       THEN /\ core' = [core EXCEPT !.pc = Address(Pop(0)), !.cs = ncs, !.ss = nss,
                                    !.rsp = Pointer(Pop(3))]
            /\ mem' = Shallower(5) /\ iflag' = Pop(2)[2]
       ELSE Fault /\ UNCHANGED iflag
    /\ running' = None
    /\ UNCHANGED <<boot, pics, lapic, source, kept>>

(* SYSCALL and SYSRET ask nothing of the descriptors. *)
Syscall ==
    /\ User /\ sys.sce
    /\ core' = [core EXCEPT !.pc = At("syscall_entry", 1), !.cs = sys.star.kernel,
                            !.ss = sys.star.kernel + 8,
                            !.reg["rcx"] = Rip(core.pc), !.reg["r11"] = Flags(iflag)]
    /\ iflag' = (iflag /\ ~sys.fmask)
    /\ left' = [left EXCEPT ![g_current] = [how |-> "syscall", regs |-> core.reg, rsp |-> core.rsp]]
    /\ UNCHANGED <<boot, pics, lapic, running, source, mem, sys, g_cpu_local, rsp0, g_current,
                   frame, origin>>

Ring3(sel) == (sel \div 4) * 4 + 3
Sysretq ==
    /\ Fetch("sysretq")
    /\ core' = [core EXCEPT !.pc = Address(core.reg["rcx"]), !.cs = Ring3(sys.star.user + 16),
                            !.ss = Ring3(sys.star.user + 8)]
    /\ iflag' = core.reg["r11"][2]
    /\ UNCHANGED <<boot, pics, lapic, running, source, mem, kept>>

(* An interrupt or an exception: the stack the gate or the TSS names or, from the
   kernel, the present one, aligned; the five words, and with some an error code. *)
ErrorCode == {8, 10, 11, 12, 13, 14, 17, 21}

(* The vectors that have a stub in isr.S and its tables. *)
Stubs == 0 .. 31 \cup 32 .. 47 \cup {240, 255}

Target(v) ==
    IF idt[v] # 0 THEN Sp(ist[idt[v]], 0) ELSE IF Cpl = 3 THEN rsp0
    ELSE Deeper(core.rsp, core.rsp.depth % 2)

Five == <<Imm(core.ss), Rsp(core.rsp), Flags(iflag), Imm(core.cs), Rip(core.pc)>>
Shown(v) ==
    [f \in Gprs \cup {"vector", "error", "rip", "cs", "rflags", "rsp", "ss"} |->
        CASE f = "vector" -> Imm(v)
          [] f = "error"  -> IF v \in ErrorCode THEN <<"error", v>> ELSE Imm(0)
          [] f = "rip"    -> Five[5]
          [] f = "cs"     -> Five[4]
          [] f = "rflags" -> Five[3]
          [] f = "rsp"    -> Five[2]
          [] f = "ss"     -> Five[1]
          [] OTHER        -> core.reg[f]]

CanDeliver(v) == idt[v] # None /\ v \in Stubs /\ CodeSuits(KERNEL_CS) /\ sys.tr = TSS_SEL

Deliver(v) ==
    /\ IF ~CanDeliver(v) THEN Fault ELSE
       LET p   == Target(v)
           pad == [i \in 1 .. p.depth - Len(mem[p.stack]) |-> Junk]
           ws  == Five \o IF v \in ErrorCode THEN << <<"error", v>> >> ELSE <<>>
           old == SubSeq(mem[p.stack] \o pad, 1, p.depth)
       IN /\ mem' = [mem EXCEPT ![p.stack] = old \o ws]
          /\ core' = [core EXCEPT !.pc = At("stub", v), !.cs = KERNEL_CS,
                                  !.ss = IF Cpl = 3 THEN 0 ELSE @, !.rsp = Deeper(p, Len(ws))]
    /\ origin' = Shown(v)
    /\ left' = IF User THEN [left EXCEPT ![g_current] = [how |-> "tick", regs |-> core.reg, rsp |-> core.rsp]]
               ELSE left
    /\ UNCHANGED <<sys, g_cpu_local, rsp0, g_current, frame>>

Interrupt ==
    /\ \/ \E irq \in Irqs : TakeIrq(irq)
       \/ \E chip \in 1 .. 2 : TakeSpuriousIrq(chip)
       \/ TakeTimer \/ TakeSpuriousVector
    /\ Deliver(running')

(* An NMI at any time, the faults of user code, and a page fault of the system
   call that reads its buffer. *)
Happens(v) == v = 2 \/ User \/ (v = 14 /\ Fetch("call") /\ Instr[2] = "syscall_dispatch")
Fails(v)   == Happens(v) /\ Exception(v) /\ Deliver(v)

-----------------------------------------------------------------------------
(* The stub of a vector pushes what the processor has not, and its number. *)
(* Mutant: one exception that has an error code is declared without. *)
Mut_ISR_ERR == {8, 10, 11, 12, 13, 14, 21}

ISR_ERR == {8, 10, 11, 12, 13, 14, 17, 21}

Stub ==
    /\ core.pc.routine = "stub"
    /\ LET v  == core.pc.at
           ws == (IF v \in ISR_ERR THEN <<>> ELSE <<Imm(0)>>) \o <<Imm(v)>>
       IN /\ mem' = OnTop(core.rsp, ws)
          /\ core' = [core EXCEPT !.rsp = Deeper(@, Len(ws)),
                                  !.pc = At(IF v < 32 THEN "isr_common" ELSE "irq_common", 1)]
    /\ UNCHANGED <<vars, kept>>

(* What a C function leaves of the registers. *)
Preserved == {"rbx", "rbp", "r12", "r13", "r14", "r15"}
AfterC(result) ==
    [r \in Gprs |-> IF r \in Preserved THEN core.reg[r] ELSE IF r = "rax" THEN result ELSE Junk]

Zeroed == [f \in {isr_frame_t[i] : i \in DOMAIN isr_frame_t} |-> Imm(0)]

(* The frame a handler is given: the words from the address in rdi. *)
FrameAt(p)  == [f \in {isr_frame_t[i] : i \in DOMAIN isr_frame_t} |->
                   mem[p.stack][p.depth + 1 - (CHOOSE i \in DOMAIN isr_frame_t : isr_frame_t[i] = f)]]
Words(f)    == [i \in DOMAIN isr_frame_t |-> f[isr_frame_t[Len(isr_frame_t) + 1 - i]]]
Replaced(p, f) ==
    [mem EXCEPT ![p.stack] = SubSeq(@, 1, p.depth - Len(isr_frame_t)) \o Words(f)]

Calls(function) == Fetch("call") /\ Instr[2] = function

(* isr_common_handler tells what happened and panics. *)
CallIsr ==
    /\ Calls("isr_common_handler")
    /\ core' = [core EXCEPT !.pc = At("panic", 0)]
    /\ UNCHANGED <<vars, mem, kept>>

(* irq_common_handler, with sched_on_tick for the timer's vector: from user mode
   it may switch the frame, and both kernel stacks with it. *)
CallIrq ==
    /\ Calls("irq_common_handler")
    /\ Dispatch /\ UNCHANGED <<running, iflag>>
    /\ LET p == Pointer(core.reg["rdi"])  f == FrameAt(p) IN
       \/ UNCHANGED <<mem, g_cpu_local, rsp0, g_current, frame>>
       \/ /\ f["vector"] = Imm(TIMER_VECTOR) /\ f["cs"][2] % 4 = 3
          /\ \E t \in Threads \ {g_current} :
                /\ g_current' = t
                /\ frame' = [frame EXCEPT ![g_current] = f]
                /\ g_cpu_local' = [g_cpu_local EXCEPT !.kernel_rsp = Sp("kernel", t)]
                /\ rsp0' = Sp("kernel", t)
                /\ mem' = Replaced(p, frame[t])
    /\ Go([core EXCEPT !.reg = AfterC(Junk)])
    /\ origin' = Zeroed
    /\ UNCHANGED <<sys, left>>

(* syscall_dispatch: SYS_debug_write is 0 and returns its length, SYS_exit is 1. *)
CallDispatch ==
    /\ Calls("syscall_dispatch")
    /\ IF core.reg["rdi"] = Imm(1) THEN core' = [core EXCEPT !.pc = At("halted", 0)]
       ELSE Go([core EXCEPT !.reg = AfterC(IF core.reg["rdi"] = Imm(0) THEN core.reg["rdx"] ELSE Imm(-1))])
    /\ UNCHANGED <<vars, mem, kept>>

-----------------------------------------------------------------------------
(* kmain. *)
thread_init_user(t) ==
    [Zeroed EXCEPT !["rip"] = Rip(At("user", t)), !["cs"] = Imm(USER_CS), !["rflags"] = Flags(TRUE),
                   !["rsp"] = Rsp(Sp("user", t)), !["ss"] = Imm(USER_DS)]

NotLeft == [how |-> "no", regs |-> [r \in Gprs |-> Imm(0)], rsp |-> NoSp]

(* The boot loader leaves some stack, with an odd number of words on it. *)
EntryInit ==
    /\ Init
    /\ core = [pc |-> At("kmain", 0), reg |-> [r \in Gprs |-> Junk],
               rsp |-> Deeper(Sp("boot", 0), 1), cs |-> GDT_SEL(5, 0), ss |-> GDT_SEL(6, 0),
               gs |-> "0", kernel_gs |-> "0"]
    /\ mem = [s \in {<<"boot", 0>>} \cup {<<Purpose[i], 0>> : i \in 1 .. 3}
                    \cup ({"kernel", "user"} \X Threads) |->
                 IF s = <<"boot", 0>> THEN <<Junk>> ELSE <<>>]
    /\ sys = [gdt |-> LoaderGdt, tr |-> 0, sce |-> FALSE, fmask |-> FALSE,
              star |-> [user |-> 0, kernel |-> 0]]
    /\ g_cpu_local = [kernel_rsp |-> NoSp, user_rsp |-> NoSp] /\ rsp0 = NoSp
    /\ g_current = None /\ frame = [t \in Threads |-> Zeroed]
    /\ left = [t \in Threads |-> [NotLeft EXCEPT !.how = "init"]]
    /\ origin = Zeroed

KmainAt(n) == core.pc = At("kmain", n)

GdtInit ==
    /\ KmainAt(0)
    /\ mem' = OnTop(core.rsp, <<Rip(At("kmain", 1))>>)
    /\ core' = [core EXCEPT !.pc = At("gdt_flush", 1), !.rsp = Deeper(@, 1)]
    /\ UNCHANGED <<vars, kept>>

(* The stacks, the threads, and the scheduler's first one. *)
SetUp ==
    /\ KmainAt(1) /\ gdt_set_ist
    /\ frame' = [t \in Threads |-> thread_init_user(t)]
    /\ g_cpu_local' = [g_cpu_local EXCEPT !.kernel_rsp = Sp("kernel", Boot)]
    /\ rsp0' = Sp("kernel", Boot) /\ g_current' = Boot
    /\ UNCHANGED <<core, mem, sys, left, origin>>

BringUp ==
    /\ KmainAt(1) /\ (idt_init \/ irq_init \/ timer_init \/ idt_enable)
    /\ UNCHANGED machine

syscall_init ==
    /\ KmainAt(1) /\ step = "up"
    /\ sys' = [sys EXCEPT !.sce = TRUE, !.fmask = FmaskIf,
                          !.star = [user |-> StarUser, kernel |-> KERNEL_CS]]
    /\ core' = [core EXCEPT !.pc = At("kmain", 2), !.gs = "0", !.kernel_gs = "g_cpu_local"]
    /\ UNCHANGED <<vars, mem, g_cpu_local, rsp0, g_current, frame, left, origin>>

EnterUser ==
    /\ KmainAt(2)
    /\ core' = [core EXCEPT !.pc = At("enter_user", 1), !.reg["rdi"] = Rip(At("user", Boot)),
                            !.reg["rsi"] = Rsp(Sp("user", Boot))]
    /\ left' = [left EXCEPT ![Boot].how = "enter", ![Boot].rsp = Sp("user", Boot)]
    /\ UNCHANGED <<vars, mem, sys, g_cpu_local, rsp0, g_current, frame, origin>>

(* User code computes: every register has a value of its own, a system call's
   number is in rax, and the stack is aligned or not. *)
UserStep ==
    /\ User
    /\ \E n \in Numbers :
          core' = [core EXCEPT !.reg = [r \in Gprs |-> IF r = "rax" THEN Imm(n) ELSE <<"user", g_current, r>>],
                               !.rsp.depth = n % 2]
    /\ left' = [left EXCEPT ![g_current] = NotLeft]
    /\ UNCHANGED <<vars, mem, sys, g_cpu_local, rsp0, g_current, frame, origin>>

(* The devices; a stub's instructions do not look at them. *)
Devices ==
    /\ core.pc.routine \in {"kmain", "user", "panic", "halted"} \/ Fetch("call")
    /\ TimerFires \/ \E irq \in Irqs : pic_clear_mask(irq) \/ Raise(irq)
    /\ UNCHANGED machine

EntryNext ==
    \/ PushStep \/ PopStep \/ RspStep \/ MovStep \/ CpuLocalStep \/ SegmentStep \/ TableStep
    \/ Cli \/ Iretq \/ Syscall \/ Sysretq \/ Interrupt \/ Stub
    \/ \E v \in Exceptions : Fails(v)
    \/ CallIsr \/ CallIrq \/ CallDispatch
    \/ GdtInit \/ SetUp \/ BringUp \/ syscall_init \/ EnterUser \/ UserStep \/ Devices

EntrySpec == EntryInit /\ [][EntryNext]_<<vars, machine>>

-----------------------------------------------------------------------------
(* No segment, stack or gs: access on any of these paths makes the processor
   fault, though SYSRET loads selectors that only the next iretq looks at; user
   mode has its own selectors and GS; and no interrupt can be taken on a user
   stack by the kernel, which happens if SYSCALL leaves interrupts enabled. *)
ModesRight ==
    /\ core.pc.routine # "fault"
    /\ User => /\ core.cs = USER_CS /\ core.ss = USER_DS /\ iflag
               /\ core.gs = "0" /\ core.kernel_gs = "g_cpu_local"
    /\ iflag /\ Cpl = 0 => core.rsp.stack[1] # "user"

(* The kernel's C is called as it expects: the stack aligned to 16 bytes, the
   frame of an interrupt showing the interrupted context, the vector and the
   error code, through whichever stub and from whichever mode, and
   syscall_dispatch with the number and the six arguments of the thread. *)
CallsRight ==
    Fetch("call") =>
        /\ core.rsp.depth % 2 = 0
        /\ Instr[2] # "syscall_dispatch" => FrameAt(Pointer(core.reg["rdi"])) = origin
        /\ Instr[2] = "syscall_dispatch" =>
              LET r == left[g_current].regs IN
              /\ <<core.reg["rdi"], core.reg["rsi"], core.reg["rdx"], core.reg["rcx"], core.reg["r8"],
                   core.reg["r9"], Pop(0)>>
                 = <<r["rax"], r["rdi"], r["rsi"], r["rdx"], r["r10"], r["r8"], r["r9"]>>

(* A thread comes back to user mode as it left it: with all its registers after
   an interrupt, however many switches later, and after a system call with the
   result and the registers that the ABI preserves; on its own stack. *)
Resumed ==
    LET l == left[g_current] IN
    /\ core.pc = At("user", g_current)
    /\ core.rsp = IF l.how = "init" THEN Sp("user", g_current) ELSE l.rsp
    /\ l.how \in {"tick", "init"} => core.reg = l.regs
    /\ l.how = "syscall" =>
          /\ \A r \in Preserved : core.reg[r] = l.regs[r]
          /\ core.reg["rax"] = IF l.regs["rax"] = Imm(0) THEN l.regs["rsi"] ELSE Imm(-1)
Resumes == [][ ~User /\ User' => Resumed' ]_<<vars, machine>>
=============================================================================
