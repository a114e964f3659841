--------------------------- MODULE MCToolOperations -------------------------
(***************************************************************************)
(* Two turns and two calls that exclude each other.                        *)
(***************************************************************************)
EXTENDS ToolOperations, TLC

CONSTANTS t1, t2, c1, c2

MCTurns == {t1, t2}
MCCalls == {c1, c2}
MCExclusive == {c1}
TurnSymmetry == Permutations(MCTurns)
=============================================================================
