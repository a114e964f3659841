--------------------------- MODULE TurnLaneProofs ---------------------------
(***************************************************************************)
(* Proofs about TurnLane, for every finite set of turns.                   *)
(***************************************************************************)
EXTENDS TurnLane, FiniteSetTheorems, TLAPS

LEMMA OutcomesInTerminal == Outcomes \subseteq Terminal
BY OutcomesAssumption DEF Terminal

(* MAX(enqueue_ordinal) + 1 is a number: finitely many turns exist.         *)
LEMMA NextOrdinalType == Cardinality(Existing) + 1 \in Nat
<1>1. IsFiniteSet(Existing)
  BY TurnsAssumption, FS_Subset DEF Existing
<1>2. Cardinality(Existing) \in Nat
  BY <1>1, FS_CardinalityType
<1> QED
  BY <1>2, SMT

(* Creating a turn preserves the types.                                     *)
LEMMA CreateTurnType ==
  ASSUME TypeOK, NEW t \in Turns, NEW m \in Modes, NEW from \in Turns \cup {NoTurn},
         CreateTurn(t, m, from)
  PROVE  TypeOK'
<1> DEFINE n == Cardinality(Existing) + 1
           runs == m = "read" \/ lane = NoTurn
<1>1. n \in Nat
  BY NextOrdinalType
<1>2. /\ mode' = [mode EXCEPT ![t] = m]
      /\ status' = [status EXCEPT ![t] = IF runs THEN "running" ELSE "queued"]
      /\ revision' = [revision EXCEPT ![t] = 1]
      /\ ordinal' = [ordinal EXCEPT ![t] = n]
      /\ predecessor' = [predecessor EXCEPT ![t] = from]
      /\ UNCHANGED <<request, pause>>
  BY DEF CreateTurn
<1>3. lane' \in Turns \cup {NoTurn} /\ laneRevision' \in Nat
  BY DEF CreateTurn, TakeLane, laneVars, TypeOK
<1> HIDE DEF n, runs
<1> QED
  BY <1>1, <1>2, <1>3 DEF TypeOK, Statuses, Live

(* What the steps do to the lane keeps its type.                            *)
LEMMA ReleaseType ==
  ASSUME TypeOK, NEW t \in Turns,
         ReleaseLane(t) \/ ReleaseLaneIfOwner(t) \/ UNCHANGED laneVars
  PROVE  lane' \in Turns \cup {NoTurn} /\ laneRevision' \in Nat
BY DEF TypeOK, ReleaseLane, ReleaseLaneIfOwner, laneVars

LEMMA TypeStep == TypeOK /\ [Next]_vars => TypeOK'
<1> SUFFICES ASSUME TypeOK, [Next]_vars PROVE TypeOK'
  OBVIOUS
<1>1. ASSUME NEW t \in Turns, NEW m \in Modes, SubmitMessage(t, m)
      PROVE  TypeOK'
  BY <1>1, CreateTurnType DEF SubmitMessage
<1>2. ASSUME NEW p \in Turns, NEW t \in Turns, ContinuePausedTurn(p, t)
      PROVE  TypeOK'
  <2>1. mode[p] \in Modes
    BY DEF TypeOK
  <2> QED
    BY <1>2, <2>1, CreateTurnType DEF ContinuePausedTurn
<1>3. ASSUME NEW t \in Turns, ActivateNextQueuedTurn(t)
      PROVE  TypeOK'
  BY <1>3 DEF ActivateNextQueuedTurn, Advance, TakeLane, identityVars, TypeOK, Statuses, Live
<1>4. ASSUME NEW t \in Turns, OpenWaiting(t)
      PROVE  TypeOK'
  BY <1>4 DEF OpenWaiting, Advance, identityVars, laneVars, TypeOK, Statuses, Live, RequestStatuses
<1>5. ASSUME NEW t \in Turns, AnswerWaiting(t)
      PROVE  TypeOK'
  BY <1>5 DEF AnswerWaiting, Advance, identityVars, laneVars, TypeOK, Statuses, Live, RequestStatuses
<1>6. ASSUME NEW t \in Turns, RequestPause(t)
      PROVE  TypeOK'
  BY <1>6 DEF RequestPause, ClosedByPause, Advance, identityVars, laneVars, TypeOK,
              RequestStatuses, PauseStatuses
<1>7. ASSUME NEW t \in Turns, NEW active \in BOOLEAN, ConvergePause(t, active)
      PROVE  TypeOK'
  <2>1. lane' \in Turns \cup {NoTurn} /\ laneRevision' \in Nat
    BY <1>7, ReleaseType DEF ConvergePause, laneVars, TypeOK
  <2> QED
    BY <1>7, <2>1 DEF ConvergePause, Advance, identityVars, TypeOK, Statuses, Terminal,
                      PauseStatuses
<1>8. ASSUME NEW t \in Turns, NEW outcome \in Terminal,
             CompleteTurn(t, outcome) \/ StopGuardTerminates(t, outcome)
      PROVE  TypeOK'
  <2>1. lane' \in Turns \cup {NoTurn} /\ laneRevision' \in Nat
    BY <1>8, ReleaseType DEF CompleteTurn, StopGuardTerminates
  <2> QED
    BY <1>8, <2>1 DEF CompleteTurn, StopGuardTerminates, Advance, identityVars, TypeOK, Statuses
<1>9. ASSUME NEW t \in Turns, NEW unsafe \in BOOLEAN, StopGuardWaits(t, unsafe)
      PROVE  TypeOK'
  BY <1>9 DEF StopGuardWaits, Advance, identityVars, laneVars, TypeOK, Statuses, Live, RequestStatuses
<1>10. ASSUME NEW t \in Turns, RecoverOperation(t)
       PROVE  TypeOK'
  <2>1. lane' \in Turns \cup {NoTurn} /\ laneRevision' \in Nat
    BY <1>10, ReleaseType DEF RecoverOperation, laneVars, TypeOK
  <2> QED
    BY <1>10, <2>1 DEF RecoverOperation, Advance, identityVars, TypeOK, Statuses, Terminal
<1>11. ASSUME NEW t \in Turns, NormalizeContract(t)
       PROVE  TypeOK'
  BY <1>11 DEF NormalizeContract, Advance, identityVars, laneVars, TypeOK
<1>12. CASE UNCHANGED vars
  BY <1>12 DEF vars, TypeOK
<1> QED
  BY <1>1, <1>2, <1>3, <1>4, <1>5, <1>6, <1>7, <1>8, <1>9, <1>10, <1>11, <1>12, OutcomesInTerminal
     DEF Next

(* The model's variables keep their types: the values the columns hold are  *)
(* those the schema's CHECK constraints allow.                              *)
THEOREM TypeCorrect == Spec => []TypeOK
<1>1. Init => TypeOK
  BY TurnsAssumption DEF Init, TypeOK, Modes, Statuses, RequestStatuses, PauseStatuses
<1> QED
  BY <1>1, TypeStep, PTL DEF Spec

-----------------------------------------------------------------------------
(* Each conjunct of the inductive invariant is preserved by each step.      *)

LEMMA LaneOwnershipStep == TypeOK /\ LaneOwnership /\ [Next]_vars => LaneOwnership'
<1> SUFFICES ASSUME TypeOK, LaneOwnership, [Next]_vars PROVE LaneOwnership'
  OBVIOUS
<1> USE TurnsAssumption
<1>1. ASSUME NEW t \in Turns, NEW m \in Modes, NEW from, CreateTurn(t, m, from)
      PROVE  LaneOwnership'
  <2>1. CASE m = "write" /\ lane = NoTurn
    BY <1>1, <2>1 DEF CreateTurn, TakeLane, TypeOK, LaneOwnership, Live, Modes
  <2>2. CASE ~(m = "write" /\ lane = NoTurn)
    BY <1>1, <2>2 DEF CreateTurn, laneVars, TypeOK, LaneOwnership, Live, Modes
  <2> QED
    BY <2>1, <2>2
<1>2. ASSUME NEW t \in Turns, NEW m \in Modes, SubmitMessage(t, m)
      PROVE  LaneOwnership'
  BY <1>1, <1>2 DEF SubmitMessage
<1>3. ASSUME NEW p \in Turns, NEW t \in Turns, ContinuePausedTurn(p, t)
      PROVE  LaneOwnership'
  <2>1. mode[p] \in Modes
    BY DEF TypeOK
  <2> QED
    BY <1>1, <1>3, <2>1 DEF ContinuePausedTurn
<1>4. ASSUME NEW t \in Turns, ActivateNextQueuedTurn(t)
      PROVE  LaneOwnership'
  BY <1>4 DEF ActivateNextQueuedTurn, Queued, TakeLane, identityVars, TypeOK, LaneOwnership, Live
<1>5. ASSUME NEW t \in Turns,
             status[t] \in Live, UNCHANGED <<mode, lane>>,
             \E s \in Live : status' = [status EXCEPT ![t] = s]
      PROVE  LaneOwnership'
  BY <1>5 DEF TypeOK, LaneOwnership
<1>6. ASSUME NEW t \in Turns,
             OpenWaiting(t) \/ AnswerWaiting(t)
               \/ \E unsafe \in BOOLEAN : StopGuardWaits(t, unsafe)
      PROVE  LaneOwnership'
  BY <1>5, <1>6 DEF OpenWaiting, AnswerWaiting, StopGuardWaits, identityVars, laneVars, Live
<1>7. ASSUME NEW t \in Turns, UNCHANGED <<mode, lane, status>>
      PROVE  LaneOwnership'
  BY <1>7 DEF LaneOwnership
<1>8. ASSUME NEW t \in Turns, NEW s \in Terminal,
             mode' = mode, status' = [status EXCEPT ![t] = s],
             \/ mode[t] = "write" /\ lane = t /\ lane' = NoTurn
             \/ mode[t] # "write" /\ lane' = lane
      PROVE  LaneOwnership'
  BY <1>8 DEF TypeOK, LaneOwnership, Live, Terminal
<1>9. ASSUME NEW t \in Turns, status[t] \in Live, ReleaseLaneIfOwner(t)
      PROVE  \/ mode[t] = "write" /\ lane = t /\ lane' = NoTurn
             \/ mode[t] # "write" /\ lane' = lane
  BY <1>9 DEF ReleaseLaneIfOwner, laneVars, LaneOwnership
<1>10. ASSUME NEW t \in Turns, NEW active \in BOOLEAN, ConvergePause(t, active)
       PROVE  LaneOwnership'
  <2>1. CASE UNCHANGED <<laneVars, status, revision>>
    BY <1>7, <1>10, <2>1 DEF ConvergePause, identityVars, laneVars
  <2>2. CASE /\ status[t] \in Live
             /\ ReleaseLaneIfOwner(t)
             /\ status' = [status EXCEPT ![t] = "paused"]
    BY <1>8, <1>9, <1>10, <2>2 DEF ConvergePause, identityVars, Terminal
  <2> QED
    BY <1>10, <2>1, <2>2 DEF ConvergePause
<1>11. ASSUME NEW t \in Turns,
              \/ \E outcome \in Terminal : CompleteTurn(t, outcome)
              \/ \E outcome \in Terminal : StopGuardTerminates(t, outcome)
       PROVE  LaneOwnership'
  BY <1>8, <1>11 DEF CompleteTurn, StopGuardTerminates, ReleaseLane, identityVars, laneVars
<1>12. ASSUME NEW t \in Turns, RecoverOperation(t)
       PROVE  LaneOwnership'
  <2>1. CASE status[t] \in Live
    <3>1. \/ mode[t] = "write" /\ lane = t /\ lane' = NoTurn
          \/ mode[t] # "write" /\ lane' = lane
      BY <1>9, <1>12, <2>1 DEF RecoverOperation, laneVars
    <3> QED
      BY <1>8, <1>12, <2>1, <3>1 DEF RecoverOperation, identityVars, Terminal
  <2>2. CASE status[t] \notin Live
    BY <1>7, <1>12, <2>2 DEF RecoverOperation, identityVars, laneVars
  <2> QED
    BY <2>1, <2>2
<1>13. ASSUME NEW t \in Turns,
              RequestPause(t) \/ NormalizeContract(t)
       PROVE  LaneOwnership'
  BY <1>7, <1>13 DEF RequestPause, NormalizeContract, identityVars, laneVars
<1>14. CASE UNCHANGED vars
  BY <1>14 DEF vars, LaneOwnership
<1> QED
  BY <1>2, <1>3, <1>4, <1>6, <1>10, <1>11, <1>12, <1>13, <1>14,
     OutcomesInTerminal DEF Next

LEMMA RequestAndPauseStep ==
  ASSUME TypeOK, UnstartedIsUntouched, RequestMatchesTurn, CompletedPauseIsFinal,
         [Next]_vars
  PROVE  UnstartedIsUntouched' /\ RequestMatchesTurn' /\ CompletedPauseIsFinal'
<1> DEFINE Goal == UnstartedIsUntouched /\ RequestMatchesTurn /\ CompletedPauseIsFinal
<1> USE DEF PausePending, Advance, UnstartedIsUntouched, RequestMatchesTurn,
            CompletedPauseIsFinal
<1>1. ASSUME NEW t \in Turns, NEW m, NEW from, CreateTurn(t, m, from)
      PROVE  Goal'
  BY <1>1 DEF CreateTurn, TypeOK
<1>2. ASSUME NEW t \in Turns, ActivateNextQueuedTurn(t)
      PROVE  Goal'
  BY <1>2 DEF ActivateNextQueuedTurn, Queued, identityVars, TypeOK
<1>3. ASSUME NEW t \in Turns,
             OpenWaiting(t) \/ \E unsafe \in BOOLEAN : StopGuardWaits(t, unsafe)
      PROVE  Goal'
  BY <1>3 DEF OpenWaiting, StopGuardWaits, identityVars, TypeOK
<1>4. ASSUME NEW t \in Turns, AnswerWaiting(t)
      PROVE  Goal'
  BY <1>4 DEF AnswerWaiting, identityVars, TypeOK
<1>5. ASSUME NEW t \in Turns, RequestPause(t)
      PROVE  Goal'
  BY <1>5 DEF RequestPause, ClosedByPause, Live, identityVars, TypeOK
<1>6. ASSUME NEW t \in Turns, NEW active \in BOOLEAN, ConvergePause(t, active)
      PROVE  Goal'
  BY <1>6 DEF ConvergePause, Live, TypeOK
<1>7. ASSUME NEW t \in Turns,
             \/ \E outcome \in Terminal : CompleteTurn(t, outcome)
             \/ \E outcome \in Terminal : StopGuardTerminates(t, outcome)
      PROVE  Goal'
  BY <1>7 DEF CompleteTurn, StopGuardTerminates, Live, Terminal, TypeOK
<1>8. ASSUME NEW t \in Turns, RecoverOperation(t)
      PROVE  Goal'
  BY <1>8 DEF RecoverOperation, Live, TypeOK
<1>9. ASSUME NEW t \in Turns, NormalizeContract(t)
      PROVE  Goal'
  BY <1>9 DEF NormalizeContract, TypeOK
<1>10. CASE UNCHANGED vars
  BY <1>10 DEF vars
<1> QED
  BY <1>1, <1>2, <1>3, <1>4, <1>5, <1>6, <1>7, <1>8, <1>9, <1>10, OutcomesInTerminal
     DEF Next, SubmitMessage, ContinuePausedTurn

LEMMA IInvStep == IInv /\ [Next]_vars => IInv'
BY TypeStep, LaneOwnershipStep, RequestAndPauseStep DEF IInv

LEMMA IInvInit == Init => IInv
BY TurnsAssumption
   DEF Init, IInv, TypeOK, Modes, Statuses, RequestStatuses, PauseStatuses, LaneOwnership,
       Live, UnstartedIsUntouched, RequestMatchesTurn, CompletedPauseIsFinal

(* The inductive invariant: what a turn's request and pause intent say      *)
(* about its status has to be known to show that the status goes with the   *)
(* lane, and that a turn that was never started has neither.                *)
THEOREM Inductive == Spec => []IInv
BY IInvInit, IInvStep, PTL DEF Spec

(* The write lane's owner is exactly the write turn that runs or waits.     *)
THEOREM LaneOwnershipHolds == Spec => []LaneOwnership
BY Inductive, PTL DEF IInv

(* A waiting turn can be answered or is being paused; a running turn has no *)
(* open request.                                                            *)
THEOREM RequestMatchesTurnHolds == Spec => []RequestMatchesTurn
BY Inductive, PTL DEF IInv

(* A turn whose pause converged is paused for good.                         *)
THEOREM CompletedPauseIsFinalHolds == Spec => []CompletedPauseIsFinal
BY Inductive, PTL DEF IInv

-----------------------------------------------------------------------------
(* The lane implements its abstract specification.                          *)
Served == {t \in Turns : mode[t] = "write" /\ status[t] \in Terminal}

(* A step that ends no write turn and starts none is a stutter of the lane. *)
LEMMA LaneStutters ==
  ASSUME lane' = lane, Served' = Served
  PROVE  [Lane!Next]_<<lane, Served>>
OBVIOUS

LEMMA LaneStep == IInv /\ [Next]_vars => [Lane!Next]_<<lane, Served>>
<1> SUFFICES ASSUME IInv, [Next]_vars PROVE [Lane!Next]_<<lane, Served>>
  OBVIOUS
<1> USE TurnsAssumption
<1>1. ASSUME NEW t \in Turns, NEW m \in Modes, NEW from, CreateTurn(t, m, from)
      PROVE  [Lane!Next]_<<lane, Served>>
  <2>1. Served' = Served
    BY <1>1 DEF CreateTurn, IInv, TypeOK, Served, Terminal
  <2>2. lane' = lane \/ (lane = NoTurn /\ t \notin Served /\ lane' = t)
    BY <1>1 DEF CreateTurn, TakeLane, laneVars, Served, Terminal
  <2> QED
    BY <2>1, <2>2 DEF Lane!Next, Lane!Acquire, Served
<1>2. ASSUME NEW t \in Turns, NEW m \in Modes, SubmitMessage(t, m)
      PROVE  [Lane!Next]_<<lane, Served>>
  BY <1>1, <1>2 DEF SubmitMessage
<1>3. ASSUME NEW p \in Turns, NEW t \in Turns, ContinuePausedTurn(p, t)
      PROVE  [Lane!Next]_<<lane, Served>>
  <2>1. mode[p] \in Modes
    BY DEF IInv, TypeOK
  <2> QED
    BY <1>1, <1>3, <2>1 DEF ContinuePausedTurn
<1>4. ASSUME NEW t \in Turns, ActivateNextQueuedTurn(t)
      PROVE  [Lane!Next]_<<lane, Served>>
  <2>1. Served' = Served
    BY <1>4 DEF ActivateNextQueuedTurn, Queued, identityVars, IInv, TypeOK, Served, Terminal
  <2>2. lane = NoTurn /\ t \notin Served /\ lane' = t
    BY <1>4 DEF ActivateNextQueuedTurn, Queued, TakeLane, Served, Terminal
  <2> QED
    BY <2>1, <2>2 DEF Lane!Next, Lane!Acquire, Served
<1>5. ASSUME NEW t \in Turns, status[t] \in Live, NEW s \in Live,
             UNCHANGED <<mode, lane>>, status' = [status EXCEPT ![t] = s]
      PROVE  [Lane!Next]_<<lane, Served>>
  <2>1. Served' = Served
    BY <1>5 DEF IInv, TypeOK, Served, Live, Terminal
  <2> QED
    BY <1>5, <2>1, LaneStutters
<1>6. ASSUME NEW t \in Turns,
             OpenWaiting(t) \/ AnswerWaiting(t)
               \/ \E unsafe \in BOOLEAN : StopGuardWaits(t, unsafe)
      PROVE  [Lane!Next]_<<lane, Served>>
  BY <1>5, <1>6 DEF OpenWaiting, AnswerWaiting, StopGuardWaits, identityVars, laneVars, Live
<1>7. ASSUME UNCHANGED <<mode, lane, status>>
      PROVE  [Lane!Next]_<<lane, Served>>
  BY <1>7, LaneStutters DEF Served
<1>8. ASSUME NEW t \in Turns, NEW s \in Terminal, status[t] \in Live,
             mode' = mode, status' = [status EXCEPT ![t] = s],
             ReleaseLane(t) \/ ReleaseLaneIfOwner(t)
      PROVE  [Lane!Next]_<<lane, Served>>
  <2>1. CASE mode[t] = "write"
    <3>1. lane = t /\ lane' = NoTurn
      BY <1>8, <2>1 DEF ReleaseLane, ReleaseLaneIfOwner, IInv, LaneOwnership
    <3>2. Served' = Served \cup {t}
      BY <1>8, <2>1 DEF IInv, TypeOK, Served
    <3> QED
      BY <3>1, <3>2 DEF Lane!Next, Lane!Release, Served
  <2>2. CASE mode[t] # "write"
    <3>1. lane' = lane
      BY <1>8, <2>2 DEF ReleaseLane, ReleaseLaneIfOwner, laneVars, IInv, LaneOwnership
    <3>2. Served' = Served
      BY <1>8, <2>2 DEF IInv, TypeOK, Served
    <3> QED
      BY <3>1, <3>2, LaneStutters
  <2> QED
    BY <2>1, <2>2
<1>9. ASSUME NEW t \in Turns, NEW active \in BOOLEAN, ConvergePause(t, active)
      PROVE  [Lane!Next]_<<lane, Served>>
  <2>1. CASE UNCHANGED <<laneVars, status, revision>>
    BY <1>7, <1>9, <2>1 DEF ConvergePause, identityVars, laneVars
  <2>2. CASE /\ status[t] \in Live
             /\ ReleaseLaneIfOwner(t)
             /\ status' = [status EXCEPT ![t] = "paused"]
    BY <1>8, <1>9, <2>2 DEF ConvergePause, identityVars, Terminal
  <2> QED
    BY <1>9, <2>1, <2>2 DEF ConvergePause
<1>10. ASSUME NEW t \in Turns,
              \/ \E outcome \in Terminal : CompleteTurn(t, outcome)
              \/ \E outcome \in Terminal : StopGuardTerminates(t, outcome)
       PROVE  [Lane!Next]_<<lane, Served>>
  BY <1>8, <1>10 DEF CompleteTurn, StopGuardTerminates, identityVars, Live
<1>11. ASSUME NEW t \in Turns, RecoverOperation(t)
       PROVE  [Lane!Next]_<<lane, Served>>
  <2>1. CASE status[t] \in Live
    <3>1. ReleaseLane(t) \/ ReleaseLaneIfOwner(t)
      BY <1>11, <2>1 DEF RecoverOperation, ReleaseLane
    <3> QED
      BY <1>8, <1>11, <2>1, <3>1 DEF RecoverOperation, identityVars, Terminal
  <2>2. CASE status[t] \notin Live
    BY <1>7, <1>11, <2>2 DEF RecoverOperation, identityVars, laneVars
  <2> QED
    BY <2>1, <2>2
<1>12. ASSUME NEW t \in Turns,
              RequestPause(t) \/ NormalizeContract(t)
       PROVE  [Lane!Next]_<<lane, Served>>
  BY <1>7, <1>12 DEF RequestPause, NormalizeContract, identityVars, laneVars
<1>13. CASE UNCHANGED vars
  BY <1>7, <1>13 DEF vars
<1> QED
  BY <1>2, <1>3, <1>4, <1>6, <1>9, <1>10, <1>11, <1>12, <1>13,
     OutcomesInTerminal DEF Next

(* TurnLane implements WriteLane: the lane is free before a turn takes it   *)
(* and no turn takes it twice.                                              *)
THEOREM LaneRefinement == Spec => ImplementsWriteLane
<1>1. Init => Lane!Init
  BY DEF Init, Lane!Init, Terminal
<1>2. IInv /\ [Next]_vars => [Lane!Next]_<<lane, Served>>
  BY LaneStep
<1> QED
  BY <1>1, <1>2, Inductive, PTL DEF Spec, ImplementsWriteLane, Lane!Spec, Served

-----------------------------------------------------------------------------
(* Every step either moves the revision of a turn by one or leaves what the *)
(* revision stands for alone.                                               *)
LEMMA RevisionStepHolds ==
  ASSUME IInv, [Next]_vars, NEW u \in Turns
  PROVE  RevisionStep(u)
<1> USE DEF IInv, TypeOK, RevisionStep
<1>1. ASSUME NEW t \in Turns, NEW m, NEW from, CreateTurn(t, m, from)
      PROVE  RevisionStep(u)
  BY <1>1 DEF CreateTurn, UnstartedIsUntouched
<1>2. ASSUME NEW t \in Turns,
             \/ ActivateNextQueuedTurn(t) \/ OpenWaiting(t) \/ AnswerWaiting(t)
             \/ \E unsafe \in BOOLEAN : StopGuardWaits(t, unsafe)
      PROVE  RevisionStep(u)
  BY <1>2 DEF ActivateNextQueuedTurn, OpenWaiting, AnswerWaiting, StopGuardWaits, Advance
<1>3. ASSUME NEW t \in Turns,
             \/ RequestPause(t) \/ NormalizeContract(t)
             \/ \E outcome \in Terminal : CompleteTurn(t, outcome)
             \/ \E outcome \in Terminal : StopGuardTerminates(t, outcome)
      PROVE  RevisionStep(u)
  BY <1>3 DEF RequestPause, NormalizeContract, CompleteTurn, StopGuardTerminates, Advance
<1>4. ASSUME NEW t \in Turns, NEW active \in BOOLEAN, ConvergePause(t, active)
      PROVE  RevisionStep(u)
  BY <1>4 DEF ConvergePause, PausePending, Advance
<1>5. ASSUME NEW t \in Turns, RecoverOperation(t)
      PROVE  RevisionStep(u)
  <2>1. /\ UNCHANGED <<request, pause>>
        /\ \/ UNCHANGED <<status, revision>>
           \/ Advance(t) /\ status' = [status EXCEPT ![t] = "paused"]
    BY <1>5 DEF RecoverOperation
  <2> QED
    BY <2>1 DEF Advance
<1>6. CASE UNCHANGED vars
  BY <1>6 DEF vars
<1> QED
  BY <1>1, <1>2, <1>3, <1>4, <1>5, <1>6, OutcomesInTerminal
     DEF Next, SubmitMessage, ContinuePausedTurn

(* The turn revision is a valid compare-and-swap token for the status, the  *)
(* request and the pause intent of a turn.                                  *)
THEOREM RevisionGuardsStateHolds == Spec => RevisionGuardsState
<1>1. IInv /\ [Next]_vars => [\A t \in Turns : RevisionStep(t)]_vars
  BY RevisionStepHolds
<1> QED
  BY <1>1, Inductive, PTL DEF Spec, RevisionGuardsState
=============================================================================
