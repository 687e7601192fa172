---------------------------- MODULE MCTimerConv ----------------------------
EXTENDS TimerConv

(* With all of CPUID, with the frequency of the crystal missing, with no ratio,
   and processors that do not say; without the deadline mode or the right TSC. *)
Cpu(crystal, ratio, base, deadline) ==
    [ext |-> 8, invtsc |-> TRUE, deadline |-> deadline, max |-> 22,
     leaf15 |-> [eax |-> 2, ebx |-> ratio, ecx |-> crystal], leaf16 |-> base]

Silent(deadline) == [Cpu(0, 0, 0, deadline) EXCEPT !.max = 20]

MCCpus ==
    {Cpu(c, 3, 1, TRUE) : c \in {0, 1, 14, 20, 42, 66, 160}} \cup {Cpu(18, 0, 3, TRUE)}
    \cup {Silent(TRUE), Silent(FALSE), Cpu(0, 2, 4, FALSE)}
    \cup {[Silent(TRUE) EXCEPT !.ext = 6], [Silent(FALSE) EXCEPT !.invtsc = FALSE]}
=============================================================================
