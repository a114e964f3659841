------------------------------ MODULE WriteLane -----------------------------
(***************************************************************************)
(* What the Workspace write lane promises: at most one turn holds it, it   *)
(* is given back before another takes it, and a turn that gave it back     *)
(* never takes it again.                                                   *)
(***************************************************************************)
CONSTANTS Turns, NoTurn

VARIABLES holder,  \* the turn that may write, or NoTurn
          served   \* the turns that held the lane and gave it back

Init == holder = NoTurn /\ served = {}

Acquire(t) ==
    /\ holder = NoTurn
    /\ t \notin served
    /\ holder' = t
    /\ UNCHANGED served

Release ==
    /\ holder # NoTurn
    /\ holder' = NoTurn
    /\ served' = served \cup {holder}

Next == Release \/ \E t \in Turns : Acquire(t)

Spec == Init /\ [][Next]_<<holder, served>>
=============================================================================
