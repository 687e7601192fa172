------------------------------ MODULE PagePool ------------------------------
(***************************************************************************)
(* What a physical page allocator promises: a request takes the lowest run *)
(* of free pages that is long enough and is refused when there is none; a  *)
(* page belongs to the pool or to one client, never to both.  Pages are    *)
(* numbers.                                                                *)
(***************************************************************************)
EXTENDS Integers

CONSTANTS
    Requests,   \* the numbers of pages that are asked for
    NoPage      \* the answer to a request that is refused

VARIABLES
    pool,       \* the free pages
    held,       \* the pages the clients have
    ret         \* the answer to the last request

vars == <<pool, held, ret>>

Run(s, n)     == s .. s + n - 1
IsRun(s, n)   == Run(s, n) \subseteq pool
FirstRun(s, n) == IsRun(s, n) /\ \A r \in pool : IsRun(r, n) => s <= r

Init == pool = {} /\ held = {} /\ ret = NoPage

Open ==
    /\ pool = {} /\ held = {}
    /\ NoPage \notin pool'
    /\ UNCHANGED <<held, ret>>

Take(s, n) ==
    /\ FirstRun(s, n)
    /\ pool' = pool \ Run(s, n)
    /\ held' = held \cup Run(s, n)
    /\ ret'  = s

Refuse(n) ==
    /\ n = 0 \/ \A s \in pool : ~IsRun(s, n)
    /\ ret' = NoPage
    /\ UNCHANGED <<pool, held>>

Return(s, n) ==
    /\ Run(s, n) \subseteq held
    /\ pool' = pool \cup Run(s, n)
    /\ held' = held \ Run(s, n)
    /\ UNCHANGED ret

Next ==
    \/ Open
    \/ \E n \in Requests : Refuse(n)
    \/ \E n \in Requests \ {0} : \/ \E s \in pool : Take(s, n)
                                \/ \E s \in held : Return(s, n)

Spec == Init /\ [][Next]_vars
=============================================================================
