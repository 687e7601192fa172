---------------------------- MODULE PendingQueue ----------------------------
(***************************************************************************)
(* What a timer queue promises its clients: the pending events are kept in *)
(* the order they will run in, earliest deadline first and first come      *)
(* first served among equals, and an event runs only when it is first in   *)
(* line and its deadline has come.                                         *)
(***************************************************************************)
EXTENDS Sequences, Naturals

CONSTANTS Events, Deadlines

VARIABLES queue,    \* the pending events, as records of event and deadline
          now

vars == <<queue, now>>

Pending(e) == \E i \in DOMAIN queue : queue[i].event = e

Init == queue = <<>> /\ now = 0

(* The place of an entry due at d: behind all that are due no later. *)
Insert(e, d) ==
    /\ ~Pending(e)
    /\ \E n \in 0 .. Len(queue) :
          /\ \A i \in 1 .. n : queue[i].due <= d
          /\ \A i \in n + 1 .. Len(queue) : queue[i].due > d
          /\ queue' = SubSeq(queue, 1, n) \o <<[event |-> e, due |-> d]>>
                        \o SubSeq(queue, n + 1, Len(queue))
    /\ UNCHANGED now

Run ==
    /\ queue # <<>> /\ Head(queue).due <= now
    /\ queue' = Tail(queue)
    /\ UNCHANGED now

Pass == now' > now /\ UNCHANGED queue

Next == Run \/ Pass \/ \E e \in Events, d \in Deadlines : Insert(e, d)

Spec == Init /\ [][Next]_vars
=============================================================================
