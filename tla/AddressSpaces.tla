--------------------------- MODULE AddressSpaces ---------------------------
(***************************************************************************)
(* What the VMM promises: each address space is a map from pages to        *)
(* entries; the kernel's half is the same in all of them; an operation     *)
(* changes the page it is asked to change and nothing else.                *)
(***************************************************************************)
CONSTANTS
    Pages,      \* the virtual pages
    Shared,     \* those of the kernel's half
    Entries,    \* what a page can be mapped to
    None        \* what it is when it is not mapped

VARIABLES maps  \* each space's map

(* One space, the kernel's, with nothing mapped in the lower half. *)
Init ==
    /\ \A s, t \in DOMAIN maps : s = t
    /\ \A s \in DOMAIN maps, v \in Pages :
          maps[s][v] \in IF v \in Shared THEN Entries \cup {None} ELSE {None}

(* Page v of space s is mapped, mapped anew or unmapped. *)
Change(s, v) ==
    LET e == maps'[s][v] IN
    /\ e \in Entries \cup {None}
    /\ maps' = [t \in DOMAIN maps |->
                   IF t = s \/ v \in Shared THEN [maps[t] EXCEPT ![v] = e] ELSE maps[t]]

Create(t) ==
    /\ DOMAIN maps' = DOMAIN maps \cup {t} /\ t \notin DOMAIN maps
    /\ \A s \in DOMAIN maps : maps'[s] = maps[s]
    /\ \A s \in DOMAIN maps, v \in Pages :
          maps'[t][v] = IF v \in Shared THEN maps[s][v] ELSE None

Next ==
    \/ DOMAIN maps' = DOMAIN maps /\ \E s \in DOMAIN maps, v \in Pages : Change(s, v)
    \/ \E t \in DOMAIN maps' : Create(t)

Spec == Init /\ [][Next]_maps
=============================================================================
