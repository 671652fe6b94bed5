------------------------------ MODULE ClosedBooks ------------------------------
(***************************************************************************)
(* What the weekly rollups promise of the past, with nothing of how they   *)
(* keep it.  A finished run is counted in a week.  A week is closed once,  *)
(* and has from then on the figures of the runs that were counted in it,   *)
(* with all their turns: no run is added to it, and nothing that happens   *)
(* to the runs, the pupils or other weeks shows in it.                     *)
(***************************************************************************)
CONSTANT Figures(_)   \* of the runs of a week

VARIABLES
    counted,   \* the runs, with the week of each
    book       \* the closed weeks' figures

vars == <<counted, book>>

Init == counted = {} /\ book = [w \in {} |-> w]

(* Runs of open weeks come in.                                             *)
Count ==
    /\ counted \subseteq counted'
    /\ \A r \in counted' \ counted : r.week \notin DOMAIN book
    /\ UNCHANGED book

Close(w) ==
    /\ w \notin DOMAIN book
    /\ book' = [v \in DOMAIN book \union {w} |->
                   IF v = w THEN Figures({r \in counted : r.week = w}) ELSE book[v]]
    /\ UNCHANGED counted

Next == Count \/ \E w \in DOMAIN book' : Close(w)

Spec == Init /\ [][Next]_vars
===============================================================================
