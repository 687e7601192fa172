----------------------------- MODULE VirtualCpu -----------------------------
(***************************************************************************)
(* What preemption promises to a thread: a CPU of its own.  One thread     *)
(* runs at a time, only the running thread's context changes, it changes   *)
(* by the thread's own execution, and it keeps the entry point and the     *)
(* user stack the thread was created with.                                 *)
(***************************************************************************)
CONSTANTS Threads, Boot, Regs, ZeroRegs

VARIABLES running, context

vars == <<running, context>>

Own(t, r) == [rip |-> t, rsp |-> t, regs |-> r]

Init ==
    /\ running = Boot
    /\ context = [t \in Threads |-> Own(t, ZeroRegs)]

Compute ==
    /\ \E r \in Regs : context' = [context EXCEPT ![running] = Own(running, r)]
    /\ UNCHANGED running

Switch == running' \in Threads \ {running} /\ UNCHANGED context

Next == Compute \/ Switch

Spec == Init /\ [][Next]_vars
=============================================================================
