-------------------------- MODULE MCTurnSupervisor --------------------------
(***************************************************************************)
(* Three turns, of which two are there once a fault has happened; the cfgs *)
(* choose the faults and the bound on the revisions.  The history variable *)
(* tells the runs without a fault, for which the liveness properties are   *)
(* stated.  No symmetry: they check liveness.                              *)
(***************************************************************************)
EXTENDS TurnSupervisor

CONSTANTS t1, t2, t3

VARIABLE faulted  \* a fault happened in this run

MCVars == <<supervisorVars, faulted>>

MCInit == SupervisorInit /\ faulted = FALSE

Sound(A) == A /\ UNCHANGED faulted
FaultStep == (BranchFails \/ Escapes \/ Crash) /\ faulted' = TRUE

MCNext == Sound(Commands) \/ Sound(LoopStep) \/ Sound(RunnerStep) \/ Sound(BranchCompletes)
          \/ FaultStep

MCFairSpec == /\ MCInit /\ [][MCNext]_MCVars
              /\ WF_MCVars(Sound(LoopStep))
              /\ WF_MCVars(Sound(RunnerStep))
              /\ WF_MCVars(Sound(BranchCompletes))

(* What happens to the third turn is looked at in runs without faults.      *)
TwoTurnsOnceFaulted == faulted => status[t3] = "absent"

(* QueueAdvances, in the runs of the process without a fault.               *)
QueueAdvancesUnlessFaulted ==
    \A t \in Turns :
        status[t] = "queued" ~> \/ status[t] # "queued" \/ faulted
                                \/ lane # NoTurn /\ status[lane] = "waiting"

(* RunningGetsDriven, in the runs of the process without a fault.           *)
RunningGetsDrivenUnlessFaulted ==
    \A t \in Turns :
        lane = t /\ status[t] = "running" ~> lane # t \/ status[t] = "waiting" \/ faulted
=============================================================================
