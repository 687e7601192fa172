------------------------------- MODULE TimerQ -------------------------------
(***************************************************************************)
(* timerq.c at the level of its pointers: a singly linked list of the      *)
(* clients' own timer_event_t objects, walked through a pointer to the     *)
(* link that is to be changed.  timerq_run_expired calls back into the     *)
(* client after each unlink, and the client may insert again from there.   *)
(* Both run with interrupts masked, so one never interrupts the other; a   *)
(* callback is the only thing that happens in the middle.                  *)
(***************************************************************************)
EXTENDS Naturals, Sequences, FiniteSets

CONSTANTS
    Events,     \* the timer_event_t objects
    NULL,       \* the null pointer
    HEAD,       \* the address of g_head; every other link is named by its event
    MaxTime     \* the clock stops here

ASSUME PointersAssumption == NULL \notin Events /\ HEAD \notin Events
ASSUME EventsAssumption   == IsFiniteSet(Events)
ASSUME MaxTimeAssumption  == MaxTime \in Nat

VARIABLES
    link,       \* the contents of g_head and of each event's next
    deadline_ns,
    clock,      \* timer_now_ns
    now,        \* the argument of the timerq_run_expired in progress
    pp,         \* the link timerq_insert has reached
    ev,         \* its argument
    stack       \* the calls in progress, innermost first

vars == <<link, deadline_ns, clock, now, pp, ev, stack>>

g_head == link[HEAD]
Top    == IF stack = <<>> THEN "idle" ELSE Head(stack)
Enter(f) == stack' = <<f>> \o stack
Leave    == stack' = Tail(stack)

(* The events on the list, in its order.  No list is longer than Events. *)
Nth[n \in 1 .. Cardinality(Events) + 1] ==
    IF n = 1 THEN g_head
    ELSE IF Nth[n - 1] = NULL THEN NULL ELSE link[Nth[n - 1]]
Length == Cardinality({n \in 1 .. Cardinality(Events) : Nth[n] # NULL})
Listed == {Nth[n] : n \in 1 .. Length}

Init ==
    /\ link = [l \in Events \cup {HEAD} |-> NULL]
    /\ deadline_ns = [e \in Events |-> 0]
    /\ clock = 0 /\ now = 0 /\ pp = HEAD /\ ev = NULL
    /\ stack = <<>>

(* A client, which may be a callback, sets the deadline of an event that is not
   pending and calls timerq_insert. *)
Call(e, d) ==
    /\ Top \in {"idle", "callback"}
    /\ e \notin Listed
    /\ deadline_ns' = [deadline_ns EXCEPT ![e] = d]
    /\ ev' = e /\ pp' = HEAD
    /\ Enter("insert")
    /\ UNCHANGED <<link, clock, now>>

(* Mutant: an event goes in front of those with the same deadline. *)
Mut_Passes(e) == deadline_ns[e] < deadline_ns[ev]

Passes(e) == deadline_ns[e] <= deadline_ns[ev]

Walk ==
    /\ Top = "insert"
    /\ link[pp] # NULL /\ Passes(link[pp])
    /\ pp' = link[pp]
    /\ UNCHANGED <<link, deadline_ns, clock, now, ev, stack>>

(* Mutant: the rest of the list is cut off. *)
Mut_CutOff == [link EXCEPT ![pp] = ev]

Linked == [link EXCEPT ![ev] = link[pp], ![pp] = ev]

Link ==
    /\ Top = "insert"
    /\ ~(link[pp] # NULL /\ Passes(link[pp]))
    /\ link' = Linked
    /\ pp' = HEAD /\ ev' = NULL
    /\ Leave
    /\ UNCHANGED <<deadline_ns, clock, now>>

(* A tick calls timerq_run_expired with the time it has just read. *)
Start ==
    /\ Top = "idle"
    /\ now' = clock
    /\ Enter("run")
    /\ UNCHANGED <<link, deadline_ns, clock, pp, ev>>

(* Mutant: an event due exactly now is left for the next tick. *)
Mut_Expired(e) == deadline_ns[e] < now

Expired(e) == deadline_ns[e] <= now

(* Mutant: the event leaves the list with its link into it. *)
Mut_Popped == [link EXCEPT ![HEAD] = link[g_head]]

Popped == [link EXCEPT ![HEAD] = link[g_head], ![g_head] = NULL]

Pop ==
    /\ Top = "run"
    /\ g_head # NULL /\ Expired(g_head)
    /\ link' = Popped
    /\ Enter("callback")
    /\ UNCHANGED <<deadline_ns, clock, now, pp, ev>>

CallbackReturns ==
    /\ Top = "callback"
    /\ Leave
    /\ UNCHANGED <<link, deadline_ns, clock, now, pp, ev>>

Finish ==
    /\ Top = "run"
    /\ ~(g_head # NULL /\ Expired(g_head))
    /\ Leave
    /\ UNCHANGED <<link, deadline_ns, clock, now, pp, ev>>

Tick ==
    /\ clock < MaxTime
    /\ clock' = clock + 1
    /\ UNCHANGED <<link, deadline_ns, now, pp, ev, stack>>

Next ==
    \/ Walk \/ Link \/ Start \/ Pop \/ CallbackReturns \/ Finish \/ Tick
    \/ \E e \in Events, d \in 0 .. MaxTime : Call(e, d)

Spec == Init /\ [][Next]_vars

(* Ticks keep coming while an event is pending (TimerNeverLost of Sched), and
   neither function is left half-way. *)
Fairness == WF_vars(Tick) /\ WF_vars(Start) /\ WF_vars(Walk \/ Link \/ Pop \/ CallbackReturns \/ Finish)

(* A callback that inserts for a time already past makes timerq_run_expired go
   on; one that always does so makes it go on for ever.  Clients are expected to
   insert from a callback for a time to come. *)
FutureOnly == Top = "callback" /\ Top' = "insert" => deadline_ns'[ev'] > now

FairSpec == Spec /\ Fairness

-----------------------------------------------------------------------------
TypeOK ==
    /\ link \in [Events \cup {HEAD} -> Events \cup {NULL}]
    /\ deadline_ns \in [Events -> 0 .. MaxTime]
    /\ clock \in 0 .. MaxTime /\ now \in 0 .. clock
    /\ pp \in Events \cup {HEAD} /\ ev \in Events \cup {NULL}
    /\ stack \in {<<>>, <<"insert">>, <<"run">>, <<"callback", "run">>,
                  <<"insert", "callback", "run">>}

(* The list is an orderly queue at every instant: this module implements
   PendingQueue.  Nothing is lost or run twice, early or out of turn, whatever
   the callbacks insert while timerq_run_expired is between two events. *)
Queue == [n \in 1 .. Length |-> [event |-> Nth[n], due |-> deadline_ns[Nth[n]]]]

Q == INSTANCE PendingQueue WITH Deadlines <- 0 .. MaxTime, now <- clock, queue <- Queue

PendingQueueSpec == Q!Spec

(* An event that is not pending has no link into the list, so inserting it
   again never drags others along (timerq_run_expired clears ev->next). *)
UnlinkedIsClean ==
    \A e \in Events \ Listed : link[e] = NULL

(* When timerq_run_expired returns, nothing that was due is left: the tick
   handler arms the timer for the head, which must lie in the future. *)
NoneLeftBehind ==
    [][ Top = "run" /\ Finish => \A e \in Listed : deadline_ns[e] > now ]_vars

(* Every event that is inserted runs, once callbacks insert for times to come. *)
EveryEventRuns ==
    <>[][FutureOnly]_vars => \A e \in Events : (e \in Listed) ~> (e \notin Listed)
=============================================================================
