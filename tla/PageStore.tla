------------------------------- MODULE PageStore -------------------------------
(***************************************************************************)
(* What a buffer pool promises to threads that share it: pages that hold   *)
(* the value last written, to be read under shared guards and written      *)
(* under exclusive ones.  Frames and the disk are not to be seen.          *)
(***************************************************************************)
EXTENDS Naturals

CONSTANTS Thread, Page

VARIABLES
    value,  \* what is on each page
    guards  \* [thread, page, mode] records

vars == <<value, guards>>

Guard == [thread : Thread, page : Page, mode : {"read", "write"}]

Init == value = [p \in Page |-> 0] /\ guards = {}

Excludes(g, h) == g.page = h.page /\ "write" \in {g.mode, h.mode}

Latch(g) ==
    /\ \A h \in guards : ~ Excludes(g, h)
    /\ guards' = guards \cup {g}
    /\ UNCHANGED value

Unlatch(g) == guards' = guards \ {g} /\ UNCHANGED value

Write(g) ==
    /\ g.mode = "write"
    /\ value' = [value EXCEPT ![g.page] = value'[g.page]]
    /\ UNCHANGED guards

Next ==
    \/ \E g \in Guard : Latch(g)
    \/ \E g \in guards : Unlatch(g) \/ Write(g)

Spec == Init /\ [][Next]_vars
=============================================================================
