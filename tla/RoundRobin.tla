----------------------------- MODULE RoundRobin -----------------------------
(***************************************************************************)
(* What the scheduler promises to the set of threads: strict rotation.     *)
(* The queue starts with the running thread; a thread enters it right      *)
(* behind the running one, and a preemption sends the running thread to    *)
(* the end.  No thread is passed over and none leaves.                     *)
(***************************************************************************)
EXTENDS Sequences

CONSTANT Threads

VARIABLE queue

Waiting(t) == \A i \in DOMAIN queue : queue[i] # t

Init == queue = <<>>

Enter ==
    \E t \in Threads :
       /\ Waiting(t)
       /\ queue' = IF queue = <<>> THEN <<t>> ELSE <<Head(queue), t>> \o Tail(queue)

Rotate == queue # <<>> /\ queue' = Append(Tail(queue), Head(queue))

Next == Enter \/ Rotate

Spec == Init /\ [][Next]_queue
=============================================================================
