------------------------------ MODULE BootMap ------------------------------
(***************************************************************************)
(* The user pages kmain maps before the first thread runs (core/kmain.c):  *)
(* its calls of vmm_map_page, in its order, each run to its end by Vmm.    *)
(***************************************************************************)
EXTENDS Vmm

CONSTANTS
    user_code0, user_stack0, user_code1, user_stack1,   \* virtual pages
    uc0, us0, uc1, us1                                  \* the pages allocated for them

VARIABLE next   \* the call kmain makes next

UserPages == {user_code0, user_stack0, user_code1, user_stack1}

MapCalls == << <<user_code0, uc0>>, <<user_stack0, uc0>>, <<user_code1, uc0>>, <<user_code0, uc0>> >>

KmainInit == Init /\ next = 1

MapNext ==
    /\ next <= Len(MapCalls)
    /\ vmm_map_page(MapCalls[next][1], MapCalls[next][2], {"U", "W"})
    /\ next' = next + 1

KmainNext ==
    \/ MapNext
    \/ (Descend \/ Extend \/ NoTable \/ WriteEntry \/ FinishEntry) /\ UNCHANGED next

KmainSpec == KmainInit /\ [][KmainNext]_<<vars, next>>

(* "map two user stacks and two code pages": when kmain goes on to write the
   programs and create the threads, each of the four pages is mapped, to memory
   that no other of them has. *)
OwnMemory ==
    next > Len(MapCalls) /\ pc = "idle" =>
        \A v \in UserPages :
            /\ Translate(cr3, v) # None
            /\ \A w \in UserPages \ {v} :
                  Translate(cr3, w) # None => Translate(cr3, w).frame # Translate(cr3, v).frame
=============================================================================
