----------------------------- MODULE MCTurnLane -----------------------------
(***************************************************************************)
(* Three turns; the cfg bounds their revisions.                            *)
(***************************************************************************)
EXTENDS TurnLane, TLC

CONSTANTS t1, t2, t3

MCTurns == {t1, t2, t3}
TurnSymmetry == Permutations(MCTurns)
=============================================================================
