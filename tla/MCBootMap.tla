----------------------------- MODULE MCBootMap -----------------------------
EXTENDS BootMap, TLC

(* Two levels; index 3 of the top level is the kernel's half. *)
Indices      == 0 .. 3
code0        == <<0, 0>>
code1        == <<0, 1>>
stack0       == <<1, 0>>
stack1       == <<2, 0>>
MCPages      == {code0, code1, stack0, stack1}
Loaded       == {0}
MCLoaderTables == 0 :> [i \in Indices |-> None]
MCUserFlags  == {{"U", "W"}}
Memory       == {uc0, us0, uc1, us1}
=============================================================================
