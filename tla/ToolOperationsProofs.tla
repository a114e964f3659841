------------------------ MODULE ToolOperationsProofs ------------------------
(***************************************************************************)
(* Proofs about ToolOperations, for every finite set of turns and every    *)
(* set of calls: it implements TurnLane, so everything proved there holds  *)
(* of it, and its own invariants hold.                                     *)
(***************************************************************************)
EXTENDS ToolOperations, TurnLaneProofs

Decisions == {"approve", "deny", "cancel"}
Endings == {"completed", "failed", "outcome_unknown", "completed_unreconciled"}

-----------------------------------------------------------------------------
(* Refinement of TurnLane.                                                  *)

(* What a step does to the turns is a step of TurnLane or nothing.          *)
LEMMA TurnStep ==
  ASSUME ToolIInv, [ToolNext]_toolVars
  PROVE  [Next]_vars
<1> USE DEF ToolIInv
<1>1. CASE TurnOnly
  BY <1>1 DEF TurnOnly, Next, Modes
<1>2. CASE Prepare
  <2>1. driver \in Turns /\ NormalizeContract(driver)
    BY <1>2 DEF Prepare, DriverIsPlaced
  <2> QED
    BY <2>1 DEF Next
<1>3. CASE DriverStops
  <2>1. driver \in Turns /\ (OpenWaiting(driver) \/ UNCHANGED vars)
    BY <1>3 DEF DriverStops, DriverIsPlaced
  <2> QED
    BY <2>1 DEF Next
<1>4. CASE DriverWaits
  <2>1. driver \in Turns /\ OpenWaiting(driver)
    BY <1>4 DEF DriverWaits, DriverIsPlaced
  <2> QED
    BY <2>1 DEF Next
<1>5. CASE GuardWaits
  <2>1. driver \in Turns /\ \E unsafe \in BOOLEAN : StopGuardWaits(driver, unsafe)
    BY <1>5 DEF GuardWaits, DriverIsPlaced, HasUnsafeOperation
  <2> QED
    BY <2>1 DEF Next
<1>6. ASSUME NEW outcome \in Outcomes, GuardTerminates(outcome)
      PROVE  [Next]_vars
  <2>1. driver \in Turns /\ StopGuardTerminates(driver, outcome)
    BY <1>6 DEF GuardTerminates, DriverIsPlaced
  <2> QED
    BY <2>1 DEF Next
<1>7. ASSUME NEW t \in Turns, Pause(t) \/ Converge(t) \/ \E decision \in Decisions : Answer(t, decision)
      PROVE  [Next]_vars
  <2>1. RequestPause(t) \/ AnswerWaiting(t) \/ \E active \in BOOLEAN : ConvergePause(t, active)
    BY <1>7 DEF Pause, Converge, Answer, StillActive
  <2> QED
    BY <2>1 DEF Next
<1>8. ASSUME NEW c \in Calls, RequestConfirmation(c)
      PROVE  [Next]_vars
  <2>1. turnOf[c] \in Turns /\ OpenWaiting(turnOf[c])
    BY <1>8 DEF RequestConfirmation, CallsHaveTurns
  <2> QED
    BY <2>1 DEF Next
<1>9. ASSUME NEW c \in Calls, NEW classification, Recover(c, classification)
      PROVE  [Next]_vars
  <2>1. operation[c] # "none"
    BY <1>9 DEF Recover, Active
  <2>2. turnOf[c] \in Turns /\ RecoverOperation(turnOf[c])
    BY <1>9, <2>1 DEF Recover, CallsHaveTurns, ResolvedCallsAreOver
  <2> QED
    BY <2>2 DEF Next
<1>10. ASSUME NEW c \in Calls,
              \/ Admit(c) \/ AdmissionBlocked(c)
              \/ BeginExecution(c) \/ ExecutorRaises(c) \/ RecordExecutorException(c)
              \/ PrepareRender(c) \/ FinalizeRender(c)
              \/ \E s \in Endings, raises \in BOOLEAN : CompleteExecution(c, s, raises)
              \/ \E s \in Endings : Reconcile(c, s)
       PROVE  UNCHANGED vars
  BY <1>10 DEF Admit, AdmissionBlocked, BeginExecution, ExecutorRaises,
               RecordExecutorException, PrepareRender, FinalizeRender, CompleteExecution, Reconcile
<1>11. CASE \/ Crash \/ StartStep \/ StepWithoutEffect \/ ExecuteBatch \/ FinishBatch
            \/ \E proposed, rejected \in SUBSET Calls : CommitDispatchPlan(proposed, rejected)
            \/ \E t \in Turns : StartDriver(t)
            \/ UNCHANGED toolVars
  BY <1>11 DEF Crash, StartStep, StepWithoutEffect, ExecuteBatch, FinishBatch,
               CommitDispatchPlan, Planned, StartDriver, toolVars
<1> QED
  BY <1>1, <1>2, <1>3, <1>4, <1>5, <1>6, <1>7, <1>8, <1>9, <1>10, <1>11
     DEF ToolNext, ToolStep, Decisions, Endings

(* What every step of TurnLane leaves: a turn that exists goes on existing, *)
(* its revision does not fall, and no queued or paused turn is finished.    *)
LEMMA TurnsAdvance ==
  ASSUME IInv, [Next]_vars, NEW u \in Turns
  PROVE  /\ revision[u] \in Nat /\ revision'[u] \in Nat
         /\ revision[u] <= revision'[u]
         /\ status[u] # "absent" => status'[u] # "absent"
<1>1. RevisionStep(u) /\ IInv'
  BY RevisionStepHolds, IInvStep
<1>2. revision[u] \in Nat /\ revision'[u] \in Nat
  BY <1>1 DEF IInv, TypeOK
<1>3. revision[u] <= revision'[u]
  BY <1>1, <1>2 DEF RevisionStep
<1>4. status[u] # "absent" => status'[u] # "absent"
  <2> SUFFICES ASSUME status[u] # "absent" PROVE status'[u] # "absent"
    OBVIOUS
  <2> USE DEF IInv, TypeOK
  <2>1. ASSUME NEW t \in Turns, NEW m, NEW from, CreateTurn(t, m, from)
        PROVE  status'[u] # "absent"
    BY <2>1 DEF CreateTurn
  <2>2. ASSUME NEW t \in Turns,
               \/ ActivateNextQueuedTurn(t) \/ OpenWaiting(t) \/ AnswerWaiting(t)
               \/ RequestPause(t) \/ RecoverOperation(t) \/ NormalizeContract(t)
               \/ \E active \in BOOLEAN : ConvergePause(t, active)
               \/ \E unsafe \in BOOLEAN : StopGuardWaits(t, unsafe)
        PROVE  status'[u] # "absent"
    BY <2>2 DEF ActivateNextQueuedTurn, OpenWaiting, AnswerWaiting, RequestPause,
                RecoverOperation, NormalizeContract, ConvergePause, StopGuardWaits
  <2>3. ASSUME NEW t \in Turns, NEW outcome \in Terminal,
               CompleteTurn(t, outcome) \/ StopGuardTerminates(t, outcome)
        PROVE  status'[u] # "absent"
    BY <2>3 DEF CompleteTurn, StopGuardTerminates, Terminal
  <2>4. CASE UNCHANGED vars
    BY <2>4 DEF vars
  <2> QED
    BY <2>1, <2>2, <2>3, <2>4, OutcomesInTerminal DEF Next, SubmitMessage, ContinuePausedTurn
<1> QED
  BY <1>2, <1>3, <1>4

-----------------------------------------------------------------------------
(* Types.                                                                   *)

LEMMA SetType ==
  ASSUME NEW D, NEW R, NEW f \in [D -> R], NEW S, NEW v \in R
  PROVE  Set(f, S, v) \in [D -> R]
BY DEF Set

LEMMA ToolTypeStep ==
  ASSUME IInv, ToolIInv, [ToolNext]_toolVars
  PROVE  ToolTypeOK'
<1> USE DEF ToolIInv, ToolTypeOK, databaseVars, driverVars, Active, Unsafe, OperationStatuses,
            CallStatuses, Results, Phases, Idle, Goto
<1>0. contracted' \in SUBSET Turns
  <2>1. CASE Prepare
    BY <2>1 DEF Prepare, DriverIsPlaced
  <2> QED
    BY <2>1 DEF ToolNext, toolVars
<1>1. CASE TurnOnly
  BY <1>0, <1>1 DEF TurnOnly
<1>2. CASE Prepare
  BY <1>0, <1>2 DEF Prepare
<1>3. CASE DriverStops \/ Crash \/ DriverWaits \/ GuardWaits \/ \E outcome \in Outcomes : GuardTerminates(outcome)
  BY <1>0, <1>3 DEF DriverStops, Crash, DriverWaits, GuardWaits, GuardTerminates
<1>4. CASE StartStep \/ StepWithoutEffect \/ ExecuteBatch \/ FinishBatch
  BY <1>0, <1>4 DEF StartStep, StepWithoutEffect, ExecuteBatch, FinishBatch
<1>5. ASSUME NEW proposed \in SUBSET Calls, NEW rejected \in SUBSET Calls,
             CommitDispatchPlan(proposed, rejected)
      PROVE  ToolTypeOK'
  <2>1. driver \in Turns
    BY <1>5 DEF CommitDispatchPlan, Planned, DriverIsPlaced
  <2> QED
    BY <1>0, <1>5, <2>1 DEF CommitDispatchPlan, Planned, Set
<1>6. ASSUME NEW t \in Turns, StartDriver(t)
      PROVE  ToolTypeOK'
  BY <1>0, <1>6 DEF StartDriver, IInv, TypeOK
<1>7. ASSUME NEW t \in Turns, Pause(t)
      PROVE  ToolTypeOK'
  BY <1>0, <1>7 DEF Pause
<1>8. ASSUME NEW t \in Turns, Converge(t)
      PROVE  ToolTypeOK'
  <2> DEFINE failing == Cancellable(t)
             cancelled == failing \cup CallsWith(t, {"scheduled", "awaiting_confirmation"})
             failed == failing \cup OperationsWith(t, {"failed"})
             released == {c \in failed : lease[c] = "active"}
  <2>1. /\ call' = Set(call, cancelled, "resolved")
        /\ result' = Set(result, cancelled, "cancelled")
        /\ operation' = Set(operation, failing, "failed")
        /\ lease' = Set(lease, released, "released")
        /\ UNCHANGED <<turnOf, document, driverVars>>
    BY <1>8 DEF Converge
  <2> HIDE DEF failing, cancelled, failed, released
  <2>2. call' \in [Calls -> CallStatuses]
    BY <2>1, SetType
  <2>3. result' \in [Calls -> Results]
    BY <2>1, SetType
  <2>4. operation' \in [Calls -> OperationStatuses]
    BY <2>1, SetType
  <2>5. lease' \in [Calls -> {"none", "active", "released"}]
    BY <2>1, SetType
  <2> QED
    BY <1>0, <2>1, <2>2, <2>3, <2>4, <2>5
<1>9. ASSUME NEW t \in Turns, NEW decision \in Decisions, Answer(t, decision)
      PROVE  ToolTypeOK'
  <2> DEFINE asked == CallsWith(t, {"awaiting_confirmation"})
  <2>1. /\ \/ call' = Set(call, asked, "scheduled") /\ UNCHANGED result
           \/ /\ call' = Set(call, asked, "resolved")
              /\ result' = Set(result, asked, RefusalKind(decision))
        /\ UNCHANGED <<turnOf, operation, lease, document, driverVars>>
    BY <1>9 DEF Answer
  <2> HIDE DEF asked
  <2>2. call' \in [Calls -> CallStatuses]
    <3>1. Set(call, asked, "scheduled") \in [Calls -> CallStatuses]
      BY SetType
    <3>2. Set(call, asked, "resolved") \in [Calls -> CallStatuses]
      BY SetType
    <3> QED
      BY <2>1, <3>1, <3>2
  <2>3. result' \in [Calls -> Results]
    <3>1. RefusalKind(decision) \in Results
      BY DEF RefusalKind
    <3>2. Set(result, asked, RefusalKind(decision)) \in [Calls -> Results]
      BY <3>1, SetType
    <3> QED
      BY <2>1, <3>2
  <2> QED
    BY <1>0, <2>1, <2>2, <2>3
<1>10. ASSUME NEW c \in Calls,
              \/ Admit(c) \/ AdmissionBlocked(c) \/ BeginExecution(c) \/ ExecutorRaises(c)
              \/ PrepareRender(c) \/ FinalizeRender(c) \/ RequestConfirmation(c)
       PROVE  ToolTypeOK'
  BY <1>0, <1>10 DEF Admit, NextInBatch, AdmissionBlocked, BeginExecution, Executing, ExecutorRaises, Leave,
               PrepareRender, FinalizeRender, RequestConfirmation
<1>11. ASSUME NEW c \in Calls, NEW s \in Endings, NEW raises \in BOOLEAN,
              CompleteExecution(c, s, raises)
       PROVE  ToolTypeOK'
  BY <1>0, <1>11 DEF CompleteExecution, Resolve, Leave, Endings
<1>12. ASSUME NEW c \in Calls, RecordExecutorException(c)
       PROVE  ToolTypeOK'
  BY <1>0, <1>12 DEF RecordExecutorException, Resolve
<1>13. ASSUME NEW c \in Calls, NEW classification, Recover(c, classification)
       PROVE  ToolTypeOK'
  BY <1>0, <1>13 DEF Recover, Classifications
<1>14. ASSUME NEW c \in Calls, NEW s \in Endings, Reconcile(c, s)
       PROVE  ToolTypeOK'
  BY <1>0, <1>14 DEF Reconcile, Resolve, Endings
<1>15. CASE UNCHANGED toolVars
  BY <1>0, <1>15 DEF toolVars
<1> QED
  BY <1>1, <1>2, <1>3, <1>4, <1>5, <1>6, <1>7, <1>8, <1>9, <1>10, <1>11, <1>12, <1>13, <1>14,
     <1>15 DEF ToolNext, ToolStep, Decisions, Endings

-----------------------------------------------------------------------------
(* What one step does to one call: the common ground of the safety proofs.  *)

Kept(c) ==
    /\ call'[c] = call[c] /\ turnOf'[c] = turnOf[c] /\ operation'[c] = operation[c]
    /\ lease'[c] = lease[c] /\ result'[c] = result[c] /\ document'[c] = document[c]

Proposal(c) ==
    /\ phase = "asking" /\ call[c] = "absent" /\ turnOf'[c] = driver
    /\ \/ call'[c] = "scheduled" /\ result'[c] = result[c]
       \/ call'[c] = "rejected" /\ result'[c] = "rejected"
    /\ operation'[c] = operation[c] /\ lease'[c] = lease[c] /\ document'[c] = document[c]

Question(c) ==
    /\ {call[c], call'[c]} = {"scheduled", "awaiting_confirmation"}
    /\ turnOf'[c] = turnOf[c] /\ operation'[c] = operation[c]
    /\ lease'[c] = lease[c] /\ result'[c] = result[c] /\ document'[c] = document[c]

Handoff(c) ==
    /\ c \in inFlight /\ operation[c] = "admitted" /\ operation'[c] = "handoff_committed"
    /\ call'[c] = call[c] /\ turnOf'[c] = turnOf[c]
    /\ lease'[c] = lease[c] /\ result'[c] = result[c] /\ document'[c] = document[c]

(* A call ends with its operation, or without ever having had one.          *)
Closure(c) ==
    /\ \/ /\ operation[c] \in {"handoff_committed", "completed_unreconciled"}
          /\ operation'[c] \in Endings
          /\ operation[c] = "completed_unreconciled" => result[c] = "none"
       \/ operation[c] = "admitted" /\ operation'[c] = "failed"
       \/ /\ call[c] \in {"scheduled", "awaiting_confirmation"}
          /\ operation[c] = "none" /\ operation'[c] = "none"
    /\ call'[c] = "resolved" /\ result'[c] \in {"success", "error", "denied", "cancelled"}
    /\ lease'[c] = IF lease[c] = "active" THEN "released" ELSE lease[c]
    /\ turnOf'[c] = turnOf[c] /\ document'[c] = document[c]

Assessment(c) ==
    /\ phase = "idle"
    /\ \/ operation[c] = "admitted" /\ operation'[c] = "admitted"
       \/ /\ operation[c] \in {"handoff_committed", "outcome_unknown", "completed_unreconciled"}
          /\ operation'[c] \in Unsafe
    /\ lease'[c] = IF lease[c] = "active" THEN "released" ELSE lease[c]
    /\ call'[c] = call[c] /\ turnOf'[c] = turnOf[c]
    /\ result'[c] = result[c] /\ document'[c] = document[c]

Rendition(c) ==
    /\ PrepareRender(c) \/ FinalizeRender(c)
    /\ document'[c] \in {"handoff_committed", "completed"}
    /\ call'[c] = call[c] /\ turnOf'[c] = turnOf[c] /\ operation'[c] = operation[c]
    /\ lease'[c] = lease[c] /\ result'[c] = result[c]

CallStep(c) ==
    \/ Kept(c) \/ Proposal(c) \/ Question(c) \/ Admit(c) \/ Handoff(c)
    \/ Closure(c) \/ Assessment(c) \/ Rendition(c)

LEMMA CallStepHolds ==
  ASSUME ToolIInv, [ToolNext]_toolVars, NEW c \in Calls
  PROVE  CallStep(c)
<1> USE DEF CallStep, ToolIInv, ToolTypeOK
<1>1. ASSUME UNCHANGED databaseVars
      PROVE  CallStep(c)
  BY <1>1 DEF Kept, databaseVars
<1>2. ASSUME NEW proposed \in SUBSET Calls, NEW rejected \in SUBSET Calls,
             CommitDispatchPlan(proposed, rejected)
      PROVE  CallStep(c)
  BY <1>2 DEF CommitDispatchPlan, Planned, Set, Kept, Proposal
<1>3. ASSUME NEW t \in Turns, Converge(t)
      PROVE  CallStep(c)
  <2> DEFINE failing == Cancellable(t)
             unstarted == CallsWith(t, {"scheduled", "awaiting_confirmation"})
             cancelled == failing \cup unstarted
             failed == failing \cup OperationsWith(t, {"failed"})
             released == {d \in failed : lease[d] = "active"}
  <2>1. /\ call' = Set(call, cancelled, "resolved")
        /\ result' = Set(result, cancelled, "cancelled")
        /\ operation' = Set(operation, failing, "failed")
        /\ lease' = Set(lease, released, "released")
        /\ UNCHANGED <<turnOf, document>>
    BY <1>3 DEF Converge
  <2>2. c \in failing => operation[c] = "admitted"
    BY DEF Cancellable, OperationsWith
  <2>3. c \in unstarted => call[c] \in {"scheduled", "awaiting_confirmation"} /\ operation[c] = "none"
    BY DEF CallsWith, ResolvedCallsAreOver
  <2>4. c \in released => c \in failing
    BY DEF OperationsWith, LeaseCoversExecution, Active
  <2>5. operation[c] = "none" => lease[c] # "active"
    BY DEF LeaseCoversExecution, Active
  <2>6. c \in failing => (c \in released <=> lease[c] = "active")
    OBVIOUS
  <2> HIDE DEF failing, unstarted, failed, released
  <2>7. CASE c \in failing
    BY <2>1, <2>2, <2>4, <2>6, <2>7 DEF Set, Closure
  <2>8. CASE c \in unstarted /\ c \notin failing
    BY <2>1, <2>3, <2>4, <2>5, <2>8 DEF Set, Closure
  <2>9. CASE c \notin cancelled
    BY <2>1, <2>4, <2>9 DEF Set, Kept
  <2> QED
    BY <2>7, <2>8, <2>9
<1>4. ASSUME NEW t \in Turns, NEW decision \in Decisions, Answer(t, decision)
      PROVE  CallStep(c)
  <2> DEFINE asked == CallsWith(t, {"awaiting_confirmation"})
  <2>1. /\ \/ call' = Set(call, asked, "scheduled") /\ UNCHANGED result
           \/ /\ call' = Set(call, asked, "resolved")
              /\ result' = Set(result, asked, RefusalKind(decision))
        /\ UNCHANGED <<turnOf, operation, lease, document>>
    BY <1>4 DEF Answer
  <2>2. c \in asked => call[c] = "awaiting_confirmation" /\ operation[c] = "none" /\ lease[c] # "active"
    BY DEF CallsWith, ResolvedCallsAreOver, LeaseCoversExecution, Active
  <2> HIDE DEF asked
  <2>3. CASE c \in asked /\ call'[c] = "scheduled"
    BY <2>1, <2>2, <2>3 DEF Set, Question
  <2>4. CASE c \in asked /\ call'[c] # "scheduled"
    BY <2>1, <2>2, <2>4 DEF Set, Closure, RefusalKind
  <2>5. CASE c \notin asked
    BY <2>1, <2>5 DEF Set, Kept
  <2> QED
    BY <2>3, <2>4, <2>5
<1>5. ASSUME NEW d \in Calls, Admit(d) \/ BeginExecution(d) \/ RequestConfirmation(d)
      PROVE  CallStep(c)
  BY <1>5 DEF Admit, BeginExecution, Executing, RequestConfirmation, Kept, Question, Handoff
<1>6. ASSUME NEW d \in Calls, NEW s \in Endings,
             \/ \E raises \in BOOLEAN : CompleteExecution(d, s, raises)
             \/ RecordExecutorException(d)
             \/ Reconcile(d, s)
      PROVE  CallStep(c)
  <2>1. CASE c = d
    BY <1>6, <2>1 DEF CompleteExecution, RecordExecutorException, Reconcile, Resolve, Closure, Endings, Active
  <2>2. CASE c # d
    BY <1>6, <2>2 DEF CompleteExecution, RecordExecutorException, Reconcile, Resolve, Kept
  <2> QED
    BY <2>1, <2>2
<1>7. ASSUME NEW d \in Calls, NEW classification, Recover(d, classification)
      PROVE  CallStep(c)
  BY <1>7 DEF Recover, Classifications, Assessment, Kept, Active, Unsafe
<1>8. ASSUME NEW d \in Calls, PrepareRender(d) \/ FinalizeRender(d)
      PROVE  CallStep(c)
  BY <1>8 DEF PrepareRender, FinalizeRender, Rendition, Kept
<1>9. CASE \/ TurnOnly \/ Prepare \/ DriverStops \/ Crash \/ StartStep \/ StepWithoutEffect
           \/ ExecuteBatch \/ FinishBatch \/ DriverWaits \/ GuardWaits
           \/ \E outcome \in Outcomes : GuardTerminates(outcome)
           \/ \E t \in Turns : StartDriver(t) \/ Pause(t)
           \/ \E d \in Calls : AdmissionBlocked(d) \/ ExecutorRaises(d)
           \/ UNCHANGED toolVars
  <2>1. UNCHANGED databaseVars
    BY <1>9 DEF TurnOnly, Prepare, DriverStops, Crash, StartStep, StepWithoutEffect, ExecuteBatch,
                FinishBatch, DriverWaits, GuardWaits, GuardTerminates, StartDriver, Pause,
                AdmissionBlocked, ExecutorRaises, toolVars
  <2> QED
    BY <1>1, <2>1
<1> QED
  BY <1>2, <1>3, <1>4, <1>5, <1>6, <1>7, <1>8, <1>9 DEF ToolNext, ToolStep, Decisions, Endings

LEMMA ResolvedStep ==
  ASSUME ToolIInv, [ToolNext]_toolVars
  PROVE  ResolvedCallsAreOver'
<1> SUFFICES ASSUME NEW c \in Calls
             PROVE  /\ result'[c] # "none" <=> call'[c] \in {"resolved", "rejected"}
                    /\ call'[c] = "resolved" => operation'[c] \notin Active
                    /\ operation'[c] # "none" => call'[c] \in {"admitted", "resolved"}
  BY DEF ResolvedCallsAreOver, Active
<1>1. CallStep(c)
  BY CallStepHolds
<1> USE DEF ToolIInv, ToolTypeOK, ResolvedCallsAreOver, Active, Unsafe, Endings
<1>2. CASE Kept(c) \/ Proposal(c) \/ Question(c) \/ Handoff(c) \/ Assessment(c) \/ Rendition(c)
  BY <1>2 DEF Kept, Proposal, Question, Handoff, Assessment, Rendition
<1>3. CASE Admit(c)
  BY <1>3 DEF Admit, Admissible
<1>4. CASE Closure(c)
  BY <1>4 DEF Closure
<1> QED
  BY <1>1, <1>2, <1>3, <1>4 DEF CallStep

LEMMA CallsHaveTurnsStep ==
  ASSUME IInv, ToolIInv, [ToolNext]_toolVars
  PROVE  CallsHaveTurns' /\ RendersBelongToOperations'
<1> SUFFICES ASSUME NEW c \in Calls
             PROVE  /\ call'[c] # "absent" =>
                         turnOf'[c] \in Turns /\ status'[turnOf'[c]] # "absent" /\ revision'[turnOf'[c]] > 1
                    /\ document'[c] # "none" => call'[c] # "absent"
  BY DEF CallsHaveTurns, RendersBelongToOperations
<1>1. CallStep(c)
  BY CallStepHolds
<1>2. [Next]_vars
  BY TurnStep
<1>3. \/ /\ call[c] # "absent" /\ call'[c] # "absent" /\ turnOf'[c] = turnOf[c]
      \/ /\ call[c] = "absent" /\ call'[c] = "absent" /\ document'[c] = document[c]
      \/ /\ phase = "asking" /\ turnOf'[c] = driver /\ call'[c] # "absent"
  BY <1>1 DEF CallStep, Kept, Proposal, Question, Admit, Admissible, Handoff, Closure, Assessment,
              Rendition, PrepareRender, FinalizeRender, ToolIInv, ToolTypeOK, ResolvedCallsAreOver,
              DriverIsPlaced
<1>4. CASE call[c] # "absent" /\ call'[c] # "absent" /\ turnOf'[c] = turnOf[c]
  <2>1. turnOf[c] \in Turns /\ status[turnOf[c]] # "absent" /\ revision[turnOf[c]] > 1
    BY <1>4 DEF ToolIInv, CallsHaveTurns
  <2> QED
    BY <1>2, <1>4, <2>1, TurnsAdvance
<1>5. CASE call[c] = "absent" /\ call'[c] = "absent" /\ document'[c] = document[c]
  BY <1>5 DEF ToolIInv, RendersBelongToOperations
<1>6. CASE phase = "asking" /\ turnOf'[c] = driver /\ call'[c] # "absent"
  <2>1. driver \in Turns /\ status[driver] # "absent" /\ 1 < driven /\ driven <= revision[driver] /\ driven \in Nat
    BY <1>6 DEF ToolIInv, DriverIsPlaced, ToolTypeOK
  <2> QED
    BY <1>2, <1>6, <2>1, TurnsAdvance
<1> QED
  BY <1>3, <1>4, <1>5, <1>6

LEMMA LeasesExcludeStep ==
  ASSUME ToolIInv, [ToolNext]_toolVars
  PROVE  LeasesExclude'
<1> SUFFICES ASSUME NEW c \in Calls, NEW d \in Calls, lease'[c] = "active", lease'[d] = "active"
             PROVE  ~Conflict(c, d)
  BY DEF LeasesExclude, Conflict
<1>1. CallStep(c) /\ CallStep(d)
  BY CallStepHolds
<1>2. ASSUME NEW e \in Calls, CallStep(e), lease'[e] = "active"
      PROVE  lease[e] = "active" \/ Admit(e)
  BY <1>2 DEF CallStep, Kept, Proposal, Question, Handoff, Closure, Assessment, Rendition,
              ToolIInv, ToolTypeOK
<1>3. CASE lease[c] = "active" /\ lease[d] = "active"
  BY <1>3 DEF ToolIInv, LeasesExclude, Conflict
<1>4. ASSUME NEW a \in Calls, NEW b \in Calls, Admit(a), lease'[b] = "active"
      PROVE  ~Conflict(a, b)
  BY <1>4 DEF Admit, Admissible, LeaseConflict, Conflict, ToolIInv, ToolTypeOK
<1> QED
  BY <1>1, <1>2, <1>3, <1>4 DEF Conflict

-----------------------------------------------------------------------------
(* The driver and its batch.                                                *)

(* Steps that leave the driver alone, and steps that end it.                *)
Beside == \/ TurnOnly \/ UNCHANGED toolVars
          \/ \E t \in Turns : Pause(t) \/ Converge(t) \/ \E decision \in Decisions : Answer(t, decision)
          \/ \E c \in Calls : \/ RequestConfirmation(c) \/ PrepareRender(c) \/ FinalizeRender(c)
                             \/ \E s \in Endings : Reconcile(c, s)
                             \/ \E classification \in {"definitely_not_started"} \cup Unsafe :
                                  Recover(c, classification)

Leaving == \/ DriverStops \/ Crash \/ DriverWaits \/ GuardWaits
           \/ \E outcome \in Outcomes : GuardTerminates(outcome)

Moving == StartStep \/ StepWithoutEffect \/ ExecuteBatch \/ FinishBatch

LEMMA BesideKeeps == Beside => UNCHANGED driverVars
BY DEF Beside, TurnOnly, Pause, Converge, Answer, RequestConfirmation, PrepareRender,
       FinalizeRender, Reconcile, Recover, toolVars

LEMMA LeavingIdles == Leaving => Idle
BY DEF Leaving, DriverStops, Crash, DriverWaits, GuardWaits, GuardTerminates

(* A call enters the driver's hands by its plan, a batch by admission, and  *)
(* an executor that holds a handle keeps its operation handed off.          *)
LEMMA BatchStep ==
  ASSUME ToolIInv, [ToolNext]_toolVars, NEW c \in Calls
  PROVE  /\ c \in planned' \cup inFlight' \cup raised' =>
              /\ driver' = driver
              /\ \/ c \in planned \cup inFlight \cup raised
                 \/ call'[c] # "absent" /\ turnOf'[c] = driver
         /\ c \in inFlight' => c \in inFlight \/ Admit(c)
         /\ c \in begun' => \/ operation'[c] = "handoff_committed"
                            \/ c \in begun /\ operation'[c] = operation[c]
<1> USE DEF ToolIInv, ToolTypeOK
<1>1. CASE Beside
  <2>1. UNCHANGED driverVars
    BY <1>1, BesideKeeps
  <2>2. ASSUME c \in begun
        PROVE  operation'[c] = operation[c]
    <3>1. operation[c] = "handoff_committed" /\ c \in inFlight /\ phase # "idle"
      BY <2>2 DEF LeaseCoversExecution, DriverIsPlaced
    <3>2. ASSUME NEW t \in Turns, Converge(t)
          PROVE  operation'[c] = operation[c]
      BY <3>1, <3>2 DEF Converge, Cancellable, OperationsWith, Set
    <3>3. ASSUME NEW d \in Calls, NEW s \in Endings, Reconcile(d, s)
          PROVE  operation'[c] = operation[c]
      BY <3>1, <3>3 DEF Reconcile, Resolve
    <3>4. ASSUME NEW d \in Calls, NEW classification, Recover(d, classification)
          PROVE  operation'[c] = operation[c]
      BY <3>1, <3>4 DEF Recover
    <3> QED
      BY <1>1, <3>2, <3>3, <3>4
         DEF Beside, TurnOnly, Pause, Answer, RequestConfirmation, PrepareRender, FinalizeRender,
             databaseVars, toolVars
  <2> QED
    BY <2>1, <2>2 DEF driverVars
<1>2. CASE Leaving
  BY <1>2, LeavingIdles DEF Idle
<1>3. CASE Moving \/ Prepare \/ \E t \in Turns : StartDriver(t)
  BY <1>3 DEF Moving, StartStep, StepWithoutEffect, ExecuteBatch, FinishBatch, Goto, Prepare,
              StartDriver, databaseVars, DriverIsPlaced
<1>4. ASSUME NEW proposed \in SUBSET Calls, NEW rejected \in SUBSET Calls,
             CommitDispatchPlan(proposed, rejected)
      PROVE  /\ driver' = driver
             /\ UNCHANGED <<inFlight, raised, begun, operation>>
             /\ c \in planned' => c \in planned \/ (call'[c] # "absent" /\ turnOf'[c] = driver)
  BY <1>4 DEF CommitDispatchPlan, Planned, Set
<1>5. ASSUME NEW d \in Calls, Admit(d) \/ AdmissionBlocked(d)
      PROVE  /\ driver' = driver /\ UNCHANGED <<raised, begun>>
             /\ planned' \subseteq planned
             /\ c \in inFlight' => c \in inFlight \/ (Admit(d) /\ c = d)
             /\ c \in begun => operation'[c] = operation[c]
             /\ Admit(d) => call'[d] # "absent" /\ turnOf'[d] = driver
  BY <1>5 DEF Admit, Admissible, NextInBatch, AdmissionBlocked, databaseVars, DriverIsPlaced, LeaseCoversExecution,
              ResolvedCallsAreOver
<1>6. ASSUME NEW d \in Calls, NEW s \in Endings,
             \/ \E raises \in BOOLEAN : CompleteExecution(d, s, raises)
             \/ ExecutorRaises(d) \/ BeginExecution(d) \/ RecordExecutorException(d)
      PROVE  /\ driver' = driver /\ UNCHANGED planned
             /\ inFlight' \subseteq inFlight
             /\ raised' \subseteq raised \cup inFlight
             /\ c \in begun' => operation'[c] = "handoff_committed" \/ (c \in begun /\ operation'[c] = operation[c])
  BY <1>6 DEF CompleteExecution, Resolve, ExecutorRaises, Executing, Leave, BeginExecution,
              RecordExecutorException, databaseVars
<1>7. \/ Beside \/ Leaving \/ Moving \/ Prepare
      \/ \E t \in Turns : StartDriver(t)
      \/ \E proposed \in SUBSET Calls, rejected \in SUBSET Calls : CommitDispatchPlan(proposed, rejected)
      \/ \E d \in Calls : \/ Admit(d) \/ AdmissionBlocked(d) \/ ExecutorRaises(d)
                          \/ BeginExecution(d) \/ RecordExecutorException(d)
                          \/ \E s \in Endings, raises \in BOOLEAN : CompleteExecution(d, s, raises)
  BY DEF ToolNext, ToolStep, Beside, Leaving, Moving, Decisions, Endings
<1>8. "failed" \in Endings
  BY DEF Endings
<1>9. CASE \E d \in Calls : Admit(d) \/ AdmissionBlocked(d)
  BY <1>5, <1>9
<1>10. CASE \E d \in Calls : \/ ExecutorRaises(d) \/ BeginExecution(d) \/ RecordExecutorException(d)
                             \/ \E s \in Endings, raises \in BOOLEAN : CompleteExecution(d, s, raises)
  BY <1>6, <1>8, <1>10
<1> QED
  BY <1>1, <1>2, <1>3, <1>4, <1>7, <1>9, <1>10

LEMMA LeaseCoversStep ==
  ASSUME ToolIInv, [ToolNext]_toolVars
  PROVE  LeaseCoversExecution'
<1> SUFFICES ASSUME NEW c \in Calls
             PROVE  /\ c \in begun' => operation'[c] = "handoff_committed"
                    /\ operation'[c] = "handoff_committed" => lease'[c] = "active"
                    /\ lease'[c] = "active" => operation'[c] \in Active
  BY DEF LeaseCoversExecution, Active
<1> USE DEF ToolIInv, ToolTypeOK, LeaseCoversExecution, Active, Unsafe, Endings
<1>1. c \in begun' => operation'[c] = "handoff_committed"
  BY BatchStep
<1>2. CallStep(c)
  BY CallStepHolds
<1>3. CASE Kept(c) \/ Proposal(c) \/ Question(c) \/ Closure(c) \/ Assessment(c) \/ Rendition(c)
  BY <1>1, <1>3 DEF Kept, Proposal, Question, Closure, Assessment, Rendition
<1>4. CASE Admit(c) \/ Handoff(c)
  BY <1>1, <1>4 DEF Admit, Handoff, DriverIsPlaced
<1> QED
  BY <1>2, <1>3, <1>4 DEF CallStep

(* Where a step leaves the driver: gone, just started, prepared, or where   *)
(* it was, driving what it drove.                                           *)
LEMMA PlaceStep ==
  ASSUME ToolIInv, [ToolNext]_toolVars
  PROVE  \/ Leaving \/ Prepare \/ \E t \in Turns : StartDriver(t)
         \/ /\ UNCHANGED <<driver, driven>>
            /\ Beside \/ UNCHANGED vars
            /\ phase' = "idle" <=> phase = "idle"
            /\ phase' = "starting" <=> phase = "starting"
            /\ phase = "idle" => UNCHANGED driverVars
<1> USE DEF ToolIInv, ToolTypeOK
<1>1. CASE Beside
  BY <1>1, BesideKeeps DEF driverVars
<1>2. CASE Moving
  BY <1>2 DEF Moving, StartStep, StepWithoutEffect, ExecuteBatch, FinishBatch, Goto
<1>3. ASSUME NEW proposed \in SUBSET Calls, NEW rejected \in SUBSET Calls,
             CommitDispatchPlan(proposed, rejected)
      PROVE  /\ UNCHANGED <<driver, driven, vars>>
             /\ phase = "asking" /\ phase' \in {"admitting", "deciding"}
  BY <1>3 DEF CommitDispatchPlan, Planned
<1>4. ASSUME NEW d \in Calls,
             \/ Admit(d) \/ AdmissionBlocked(d) \/ ExecutorRaises(d)
             \/ BeginExecution(d) \/ RecordExecutorException(d)
             \/ \E s \in Endings, raises \in BOOLEAN : CompleteExecution(d, s, raises)
      PROVE  UNCHANGED <<driver, driven, vars, phase>> /\ phase # "idle"
  BY <1>4 DEF Admit, NextInBatch, AdmissionBlocked, ExecutorRaises, Executing, Leave, BeginExecution,
              RecordExecutorException, CompleteExecution, DriverIsPlaced
<1> QED
  BY <1>1, <1>2, <1>3, <1>4 DEF ToolNext, ToolStep, Beside, Leaving, Moving, Decisions, Endings

LEMMA DrivenTurnGoesOn ==
  ASSUME IInv, ToolIInv, Beside \/ UNCHANGED vars, NEW u \in Turns, u = driver,
         status[u] \notin {"absent", "succeeded", "partial", "failed"}
  PROVE  status'[u] \notin {"absent", "succeeded", "partial", "failed"}
<1> USE DEF IInv, TypeOK, Statuses, Live, Terminal
<1>1. CASE UNCHANGED vars
  BY <1>1 DEF vars
<1>2. ASSUME NEW t \in Turns, NEW m, NEW from, CreateTurn(t, m, from)
      PROVE  status'[u] = status[u] \/ status'[u] \in {"running", "queued"}
  BY <1>2 DEF CreateTurn
<1>3. ASSUME NEW t \in Turns,
             \/ ActivateNextQueuedTurn(t) \/ OpenWaiting(t) \/ AnswerWaiting(t)
             \/ RequestPause(t) \/ RecoverOperation(t)
             \/ \E active \in BOOLEAN : ConvergePause(t, active)
      PROVE  status'[u] = status[u] \/ status'[u] \in {"running", "waiting", "paused"}
  BY <1>3 DEF ActivateNextQueuedTurn, OpenWaiting, AnswerWaiting, RequestPause, RecoverOperation,
              ConvergePause
<1>4. ASSUME NEW t \in Turns, NEW outcome \in Outcomes, t # driver, CompleteTurn(t, outcome)
      PROVE  status'[u] = status[u]
  BY <1>4 DEF CompleteTurn
<1>5. CASE TurnOnly
  BY <1>2, <1>3, <1>4, <1>5 DEF TurnOnly, SubmitMessage, ContinuePausedTurn
<1>6. ASSUME NEW t \in Turns, Pause(t) \/ Converge(t) \/ \E decision \in Decisions : Answer(t, decision)
      PROVE  status'[u] = status[u] \/ status'[u] \in {"running", "waiting", "paused"}
  BY <1>3, <1>6 DEF Pause, Converge, Answer, StillActive
<1>7. ASSUME NEW c \in Calls, RequestConfirmation(c)
      PROVE  status'[u] = status[u] \/ status'[u] \in {"running", "waiting", "paused"}
  BY <1>3, <1>7 DEF RequestConfirmation, ToolIInv, CallsHaveTurns
<1>8. ASSUME NEW c \in Calls, NEW classification, Recover(c, classification)
      PROVE  status'[u] = status[u] \/ status'[u] \in {"running", "waiting", "paused"}
  <2>1. turnOf[c] \in Turns /\ RecoverOperation(turnOf[c])
    BY <1>8 DEF Recover, Active, ToolIInv, CallsHaveTurns, ResolvedCallsAreOver
  <2> QED
    BY <1>3, <2>1
<1>9. ASSUME NEW c \in Calls,
             \/ PrepareRender(c) \/ FinalizeRender(c) \/ \E s \in Endings : Reconcile(c, s)
      PROVE  UNCHANGED vars
  BY <1>9 DEF PrepareRender, FinalizeRender, Reconcile
<1>10. CASE UNCHANGED toolVars
  BY <1>10 DEF toolVars, vars
<1>11. CASE \E c \in Calls : PrepareRender(c) \/ FinalizeRender(c) \/ \E s \in Endings : Reconcile(c, s)
  BY <1>1, <1>9, <1>11
<1> QED
  BY <1>1, <1>5, <1>6, <1>7, <1>8, <1>10, <1>11 DEF Beside

(* The driven turn does not end by itself while its driver runs.            *)
LEMMA DriverStep ==
  ASSUME IInv, ToolIInv, [ToolNext]_toolVars
  PROVE  DriverIsPlaced'
<1> USE DEF ToolIInv, ToolTypeOK
<1>1. [Next]_vars
  BY TurnStep
<1>2. ASSUME NEW c \in planned' \cup inFlight' \cup raised'
      PROVE  call'[c] # "absent" /\ turnOf'[c] = driver'
  <2>1. c \in Calls
    BY <1>2, ToolTypeStep
  <2>2. CallStep(c)
    BY <2>1, CallStepHolds
  <2>3. /\ driver' = driver
        /\ \/ c \in planned \cup inFlight \cup raised
           \/ call'[c] # "absent" /\ turnOf'[c] = driver
    BY <1>2, <2>1, BatchStep
  <2>4. CASE c \in planned \cup inFlight \cup raised
    BY <2>1, <2>2, <2>3, <2>4
       DEF DriverIsPlaced, CallStep, Kept, Proposal, Question, Admit, Handoff, Closure, Assessment, Rendition
  <2> QED
    BY <2>3, <2>4
<1>3. ASSUME NEW c \in inFlight', operation'[c] = "admitted"
      PROVE  lease'[c] = "active"
  <2>1. c \in Calls /\ (c \in inFlight \/ Admit(c))
    BY <1>3, ToolTypeStep, BatchStep
  <2>2. CallStep(c)
    BY <2>1, CallStepHolds
  <2> QED
    BY <1>3, <2>1, <2>2
       DEF DriverIsPlaced, CallStep, Kept, Proposal, Question, Admit, Handoff, Closure, Assessment,
           Rendition, ResolvedCallsAreOver, Endings, Unsafe
<1>4. ASSUME phase' = "idle"
      PROVE  planned' = {} /\ inFlight' = {} /\ raised' = {}
  BY <1>4, PlaceStep, LeavingIdles DEF Idle, Prepare, StartDriver, DriverIsPlaced, driverVars
<1>5. ASSUME phase' # "idle"
      PROVE  /\ driver' \in Turns
             /\ status'[driver'] \notin {"absent", "succeeded", "partial", "failed"}
             /\ driven' <= revision'[driver']
             /\ phase' # "starting" => driven' > 1
  <2> USE DEF IInv, TypeOK
  <2>1. ASSUME NEW t \in Turns, StartDriver(t)
        PROVE  /\ driver' = t /\ status'[t] = "running" /\ driven' <= revision'[t]
               /\ phase' = "starting"
    BY <2>1 DEF StartDriver, vars
  <2>2. CASE Prepare
    <3>1. /\ driver \in Turns /\ driver' = driver /\ status[driver] = "running"
          /\ driven = revision[driver] /\ driven' = driven + 1
          /\ status' = status
          /\ revision' = [revision EXCEPT ![driver] = @ + 1]
      BY <2>2 DEF Prepare, RevisionCurrent, NormalizeContract, Advance, DriverIsPlaced
    <3>2. revision[driver] \in Nat \ {0}
      BY <3>1 DEF UnstartedIsUntouched
    <3> QED
      BY <3>1, <3>2
  <2>3. ASSUME UNCHANGED <<driver, driven>>, Beside \/ UNCHANGED vars, phase # "idle",
               phase' = "starting" <=> phase = "starting"
        PROVE  /\ driver' \in Turns
               /\ status'[driver'] \notin {"absent", "succeeded", "partial", "failed"}
               /\ driven' <= revision'[driver']
               /\ phase' # "starting" => driven' > 1
    <3>1. /\ driver \in Turns /\ driven <= revision[driver]
          /\ status[driver] \notin {"absent", "succeeded", "partial", "failed"}
      BY <2>3 DEF DriverIsPlaced
    <3>2. revision[driver] \in Nat /\ revision'[driver] \in Nat /\ revision[driver] <= revision'[driver]
      BY <1>1, <3>1, TurnsAdvance
    <3>3. status'[driver] \notin {"absent", "succeeded", "partial", "failed"}
      BY <2>3, <3>1, DrivenTurnGoesOn
    <3>4. phase # "starting" => driven > 1
      BY <2>3 DEF DriverIsPlaced
    <3> QED
      BY <2>3, <3>1, <3>2, <3>3, <3>4
  <2> QED
    BY <1>5, <2>1, <2>2, <2>3, PlaceStep, LeavingIdles DEF Idle
<1> QED
  BY <1>2, <1>3, <1>4, <1>5 DEF DriverIsPlaced

-----------------------------------------------------------------------------
(* Turns that are over.                                                     *)

Finished == {"succeeded", "partial", "failed"}

(* A turn is finished by the stop guard, with no work left, or by the       *)
(* request that submitted it, with no call at all.                          *)
LEMMA FinishingStep ==
  ASSUME IInv, ToolIInv, [ToolNext]_toolVars, NEW t \in Turns, status'[t] \in Finished
  PROVE  \/ status[t] \in Finished
         \/ UNCHANGED databaseVars /\ CallsOf(t) = {}
         \/ UNCHANGED databaseVars /\ NoWorkRemains(t)
<1> USE DEF IInv, TypeOK, Finished
<1>1. CASE Beside \/ UNCHANGED vars
  <2>1. ASSUME NEW u \in Turns, NEW outcome \in Outcomes, revision[u] = 1, CompleteTurn(u, outcome), u = t
        PROVE  CallsOf(t) = {}
    BY <2>1 DEF CallsOf, ToolIInv, CallsHaveTurns
  <2>2. ASSUME NEW u \in Turns, NEW outcome \in Outcomes, CompleteTurn(u, outcome), u # t
        PROVE  status[t] \in Finished
    BY <2>2 DEF CompleteTurn
  <2>3. CASE \E u \in Turns, outcome \in Outcomes :
                u # driver /\ revision[u] = 1 /\ CompleteTurn(u, outcome) /\ UNCHANGED databaseVars
    BY <2>1, <2>2, <2>3
  <2>4. CASE /\ ~ \E u \in Turns, outcome \in Outcomes :
                     u # driver /\ revision[u] = 1 /\ CompleteTurn(u, outcome) /\ UNCHANGED databaseVars
             /\ status[t] \notin Finished
    <3>1. ASSUME NEW u \in Turns, NEW m, NEW from, CreateTurn(u, m, from)
          PROVE  status[t] \in Finished
      BY <3>1 DEF CreateTurn
    <3>2. ASSUME NEW u \in Turns,
                 \/ ActivateNextQueuedTurn(u) \/ OpenWaiting(u) \/ AnswerWaiting(u)
                 \/ RequestPause(u) \/ RecoverOperation(u)
                 \/ \E active \in BOOLEAN : ConvergePause(u, active)
          PROVE  status[t] \in Finished
      BY <3>2 DEF ActivateNextQueuedTurn, OpenWaiting, AnswerWaiting, RequestPause, RecoverOperation,
                  ConvergePause
    <3>3. CASE TurnOnly
      BY <2>4, <3>1, <3>2, <3>3 DEF TurnOnly, SubmitMessage, ContinuePausedTurn
    <3>4. ASSUME NEW c \in Calls, NEW classification, Recover(c, classification)
          PROVE  status[t] \in Finished
      <4>1. turnOf[c] \in Turns /\ RecoverOperation(turnOf[c])
        BY <3>4 DEF Recover, Active, ToolIInv, CallsHaveTurns, ResolvedCallsAreOver
      <4> QED
        BY <3>2, <4>1
    <3>5. ASSUME NEW u \in Turns, Pause(u) \/ Converge(u) \/ \E decision \in Decisions : Answer(u, decision)
          PROVE  status[t] \in Finished
      BY <3>2, <3>5 DEF Pause, Converge, Answer, StillActive
    <3>6. ASSUME NEW c \in Calls, RequestConfirmation(c)
          PROVE  status[t] \in Finished
      BY <3>2, <3>6 DEF RequestConfirmation, ToolIInv, CallsHaveTurns
    <3>7. CASE UNCHANGED vars
      BY <3>7 DEF vars
    <3>8. CASE \/ UNCHANGED toolVars
               \/ \E c \in Calls : \/ PrepareRender(c) \/ FinalizeRender(c)
                                   \/ \E s \in Endings : Reconcile(c, s)
      BY <3>7, <3>8 DEF PrepareRender, FinalizeRender, Reconcile, toolVars
    <3> QED
      BY <1>1, <3>3, <3>4, <3>5, <3>6, <3>7, <3>8 DEF Beside
  <2> QED
    BY <2>3, <2>4
<1>2. ASSUME NEW u \in Turns,
             OpenWaiting(u) \/ NormalizeContract(u) \/ \E unsafe \in BOOLEAN : StopGuardWaits(u, unsafe)
      PROVE  status[t] \in Finished
  BY <1>2 DEF OpenWaiting, NormalizeContract, StopGuardWaits
<1>3. CASE Prepare \/ DriverStops \/ Crash \/ DriverWaits \/ GuardWaits \/ \E u \in Turns : StartDriver(u)
  <2>1. Prepare \/ DriverStops \/ DriverWaits \/ GuardWaits => driver \in Turns
    BY DEF Prepare, DriverStops, DriverWaits, GuardWaits, ToolIInv, DriverIsPlaced
  <2>2. UNCHANGED vars => status[t] \in Finished
    BY DEF vars
  <2> QED
    BY <1>2, <1>3, <2>1, <2>2
       DEF Prepare, DriverStops, Crash, DriverWaits, GuardWaits, StartDriver, HasUnsafeOperation
<1>4. ASSUME NEW outcome \in Outcomes, GuardTerminates(outcome)
      PROVE  \/ status[t] \in Finished
             \/ UNCHANGED databaseVars /\ NoWorkRemains(t)
  BY <1>4 DEF GuardTerminates, StopGuardTerminates, ToolIInv, DriverIsPlaced
<1> QED
  BY <1>1, <1>3, <1>4, PlaceStep DEF Leaving

LEMMA FinishedStep ==
  ASSUME IInv, ToolIInv, [ToolNext]_toolVars
  PROVE  FinishedTurnIsSettled'
<1> SUFFICES ASSUME NEW t \in Turns, status'[t] \in Finished,
                    NEW c \in Calls, call'[c] # "absent", turnOf'[c] = t
             PROVE  /\ call'[c] \in {"resolved", "rejected"}
                    /\ operation'[c] \in {"none", "completed", "failed"}
                    /\ document'[c] # "handoff_committed"
  BY DEF FinishedTurnIsSettled, CallsOf, Finished
<1> USE DEF ToolIInv, ToolTypeOK
<1>1. CallStep(c)
  BY CallStepHolds
<1>2. CASE status[t] \in Finished
  <2>1. CASE call[c] # "absent" /\ turnOf[c] = t
    <3>1. /\ call[c] \in {"resolved", "rejected"}
          /\ operation[c] \in {"none", "completed", "failed"}
          /\ document[c] # "handoff_committed"
      BY <1>2, <2>1 DEF FinishedTurnIsSettled, CallsOf, Finished
    <3> QED
      BY <1>1, <1>2, <2>1, <3>1
         DEF CallStep, Kept, Proposal, Question, Admit, Admissible, Handoff, Closure, Assessment, Rendition,
             PrepareRender, FinalizeRender, Live, Finished
  <2>2. CASE call[c] = "absent" \/ turnOf[c] # t
    <3>1. phase = "asking" /\ t = driver
      BY <1>1, <2>2
         DEF CallStep, Kept, Proposal, Question, Admit, Admissible, Handoff, Closure, Assessment, Rendition,
             ResolvedCallsAreOver, DriverIsPlaced, PrepareRender, FinalizeRender
    <3> QED
      BY <1>2, <3>1 DEF DriverIsPlaced, Finished
  <2> QED
    BY <2>1, <2>2
<1>3. CASE UNCHANGED databaseVars /\ (CallsOf(t) = {} \/ NoWorkRemains(t))
  <2>1. c \in CallsOf(t) /\ NoWorkRemains(t)
    BY <1>3 DEF CallsOf, databaseVars
  <2>2. /\ call[c] \notin {"absent", "awaiting_confirmation", "scheduled", "admitted"}
        /\ operation[c] \notin Unsafe \cup Active
        /\ document[c] # "handoff_committed"
    BY <2>1 DEF NoWorkRemains, HasUnsafeOperation, HasUnresolvedCall, HasActiveOperation, Rendering,
                CallsWith, OperationsWith, CallsOf
  <2> QED
    BY <1>3, <2>2 DEF databaseVars, CallStatuses, OperationStatuses
<1> QED
  BY <1>2, <1>3, FinishingStep

(* A pause is completed by a convergence that found nothing active.         *)
LEMMA CompletingPauseStep ==
  ASSUME IInv, ToolIInv, [ToolNext]_toolVars, NEW t \in Turns, pause'[t] = "completed"
  PROVE  \/ pause[t] = "completed"
         \/ Converge(t) /\ ~StillActive(t)
<1> USE DEF IInv, TypeOK, PauseStatuses
<1>1. ASSUME UNCHANGED pause
      PROVE  pause[t] = "completed"
  BY <1>1
<1>2. ASSUME NEW u \in Turns, Converge(u)
      PROVE  pause[t] = "completed" \/ (Converge(t) /\ ~StillActive(t))
  <2>1. ConvergePause(u, StillActive(u))
    BY <1>2 DEF Converge
  <2>2. u # t => pause'[t] = pause[t]
    BY <2>1 DEF ConvergePause
  <2>3. u = t => ~StillActive(t)
    BY <2>1 DEF ConvergePause
  <2> QED
    BY <1>2, <2>2, <2>3
<1>3. ASSUME NEW u \in Turns, Pause(u)
      PROVE  pause[t] = "completed"
  BY <1>3 DEF Pause, RequestPause
<1>4. CASE \/ TurnOnly \/ Leaving \/ Prepare \/ UNCHANGED vars
           \/ \E u \in Turns : StartDriver(u) \/ \E decision \in Decisions : Answer(u, decision)
           \/ \E c \in Calls : RequestConfirmation(c)
                               \/ \E classification \in {"definitely_not_started"} \cup Unsafe :
                                    Recover(c, classification)
  <2>1. UNCHANGED pause
    BY <1>4
       DEF TurnOnly, SubmitMessage, ContinuePausedTurn, CreateTurn, ActivateNextQueuedTurn, CompleteTurn,
           Leaving, DriverStops, Crash, DriverWaits, GuardWaits, GuardTerminates, OpenWaiting,
           StopGuardWaits, StopGuardTerminates, Prepare, NormalizeContract, StartDriver, Answer,
           AnswerWaiting, RequestConfirmation, Recover, RecoverOperation, vars
  <2> QED
    BY <1>1, <2>1
<1>5. CASE \/ UNCHANGED toolVars
           \/ \E c \in Calls : \/ PrepareRender(c) \/ FinalizeRender(c)
                               \/ \E s \in Endings : Reconcile(c, s)
  <2>1. UNCHANGED vars
    BY <1>5 DEF PrepareRender, FinalizeRender, Reconcile, toolVars
  <2> QED
    BY <1>4, <2>1
<1> QED
  BY <1>2, <1>3, <1>4, <1>5, PlaceStep DEF Beside

LEMMA ConvergedStep ==
  ASSUME IInv, ToolIInv, [ToolNext]_toolVars
  PROVE  ConvergedPauseIsQuiescent'
<1> SUFFICES ASSUME NEW t \in Turns, pause'[t] = "completed",
                    NEW c \in Calls, call'[c] # "absent", turnOf'[c] = t
             PROVE  operation'[c] \notin Active /\ document'[c] # "handoff_committed"
  BY DEF ConvergedPauseIsQuiescent, HasActiveOperation, Rendering, OperationsWith, CallsOf
<1> USE DEF ToolIInv, ToolTypeOK
<1>1. CallStep(c)
  BY CallStepHolds
<1>2. CASE pause[t] = "completed"
  <2>1. status[t] = "paused"
    BY <1>2 DEF IInv, CompletedPauseIsFinal
  <2>2. CASE call[c] # "absent" /\ turnOf[c] = t
    <3>1. operation[c] \notin Active /\ document[c] # "handoff_committed"
      BY <1>2, <2>2 DEF ConvergedPauseIsQuiescent, HasActiveOperation, Rendering, OperationsWith, CallsOf
    <3> QED
      BY <1>1, <2>1, <2>2, <3>1
         DEF CallStep, Kept, Proposal, Question, Admit, NextInBatch, Admissible, Handoff, Closure, Assessment,
             Rendition, PrepareRender, FinalizeRender, Live, Active, Unsafe, Endings, DriverIsPlaced
  <2>3. CASE call[c] = "absent" \/ turnOf[c] # t
    BY <1>1, <2>3
       DEF CallStep, Kept, Proposal, Question, Admit, Admissible, Handoff, Closure, Assessment, Rendition,
           ResolvedCallsAreOver, RendersBelongToOperations, DriverIsPlaced, PrepareRender, FinalizeRender, Active
  <2> QED
    BY <2>2, <2>3
<1>3. CASE Converge(t) /\ ~StillActive(t)
  <2>1. /\ UNCHANGED <<turnOf, document>>
        /\ operation' = Set(operation, Cancellable(t), "failed")
        /\ call[c] # "absent"
    BY <1>3 DEF Converge, Set, CallsWith, CallsOf, Cancellable, OperationsWith
  <2>2. c \in CallsOf(t)
    BY <2>1 DEF CallsOf
  <2>3. operation[c] \in Active => c \in Cancellable(t)
    BY <1>3, <2>2 DEF StillActive, OperationsWith
  <2>4. document[c] # "handoff_committed"
    BY <1>3, <2>2 DEF StillActive, Rendering
  <2> QED
    BY <2>1, <2>3, <2>4 DEF Set, Active
<1> QED
  BY <1>2, <1>3, CompletingPauseStep

-----------------------------------------------------------------------------
(* The theorems.                                                            *)

LEMMA ToolIInvStep ==
  ASSUME IInv, ToolIInv, [ToolNext]_toolVars
  PROVE  IInv' /\ ToolIInv'
BY TurnStep, IInvStep, ToolTypeStep, ResolvedStep, CallsHaveTurnsStep, LeasesExcludeStep, DriverStep,
   LeaseCoversStep, FinishedStep, ConvergedStep DEF ToolIInv

LEMMA ToolIInvInit == ToolInit => IInv /\ ToolIInv
<1> SUFFICES ASSUME ToolInit PROVE IInv /\ ToolIInv
  OBVIOUS
<1>1. IInv
  BY IInvInit DEF ToolInit
<1>2. ToolTypeOK
  BY DEF ToolInit, ToolTypeOK, CallStatuses, OperationStatuses, Results, Phases
<1>3. DriverIsPlaced /\ CallsHaveTurns /\ RendersBelongToOperations /\ ResolvedCallsAreOver
  BY DEF ToolInit, DriverIsPlaced, CallsHaveTurns, RendersBelongToOperations, ResolvedCallsAreOver
<1>4. LeasesExclude /\ LeaseCoversExecution
  BY DEF ToolInit, LeasesExclude, LeaseCoversExecution
<1>5. FinishedTurnIsSettled /\ ConvergedPauseIsQuiescent
  BY DEF ToolInit, FinishedTurnIsSettled, ConvergedPauseIsQuiescent, HasActiveOperation, Rendering,
         OperationsWith, CallsOf
<1> QED
  BY <1>1, <1>2, <1>3, <1>4, <1>5 DEF ToolIInv

(* The inductive invariant: the safety properties need each other, the      *)
(* driver's place and the invariant of the turns.                           *)
THEOREM ToolInductive == ToolSpec => [](IInv /\ ToolIInv)
BY ToolIInvInit, ToolIInvStep, PTL DEF ToolSpec

(* Every behaviour of calls, operations and drivers is a behaviour of       *)
(* TurnLane, so everything proved about the lane holds here.                *)
THEOREM RefinesTurnLane == ToolSpec => ImplementsTurnLane
<1>1. ToolInit => Init
  BY DEF ToolInit
<1>2. ToolIInv /\ [ToolNext]_toolVars => [Next]_vars
  BY TurnStep
<1> QED
  BY <1>1, <1>2, ToolInductive, PTL DEF ToolSpec, ImplementsTurnLane, Spec

(* A call is over exactly when it has its canonical result, and nothing of  *)
(* it is left to execute.                                                   *)
THEOREM ResolvedCallsAreOverHolds == ToolSpec => []ResolvedCallsAreOver
BY ToolInductive, PTL DEF ToolIInv

(* No two active leases conflict.                                           *)
THEOREM LeasesExcludeHolds == ToolSpec => []LeasesExclude
BY ToolInductive, PTL DEF ToolIInv

(* What an executor holds is handed off, and what is handed off is leased.  *)
THEOREM LeaseCoversExecutionHolds == ToolSpec => []LeaseCoversExecution
BY ToolInductive, PTL DEF ToolIInv

(* A turn that ended by itself left no work behind.                         *)
THEOREM FinishedTurnIsSettledHolds == ToolSpec => []FinishedTurnIsSettled
BY ToolInductive, PTL DEF ToolIInv

(* A turn whose pause converged has no active operation, ever after.        *)
THEOREM ConvergedPauseIsQuiescentHolds == ToolSpec => []ConvergedPauseIsQuiescent
BY ToolInductive, PTL DEF ToolIInv

LEMMA HistoryStep ==
  ASSUME ToolIInv, [ToolNext]_toolVars, NEW c \in Calls
  PROVE  History(c)
<1>1. CallStep(c)
  BY CallStepHolds
<1> USE DEF ToolIInv, ToolTypeOK, ResolvedCallsAreOver, History, HandedOffUnderLease,
           LeaseCoversExecution, DriverIsPlaced, NextStatuses, Unsafe, Active, Endings
<1>2. CASE Kept(c) \/ Proposal(c) \/ Question(c) \/ Handoff(c) \/ Assessment(c) \/ Rendition(c)
  BY <1>2 DEF Kept, Proposal, Question, Handoff, Assessment, Rendition
<1>3. CASE Admit(c)
  BY <1>3 DEF Admit, Admissible
<1>4. CASE Closure(c)
  BY <1>4 DEF Closure
<1> QED
  BY <1>1, <1>2, <1>3, <1>4 DEF CallStep

(* Operations only advance, a canonical result is never replaced, what is   *)
(* handed off is leased until its verdict, and what recovery declared not   *)
(* started is not started later (broker_execution_store.py).                *)
THEOREM HistoryIsFinalHolds == ToolSpec => HistoryIsFinal
<1>1. ToolIInv /\ [ToolNext]_toolVars => [\A c \in Calls : History(c)]_toolVars
  BY HistoryStep
<1> QED
  BY <1>1, ToolInductive, PTL DEF ToolSpec, HistoryIsFinal
=============================================================================
