--------------------------- MODULE ToolOperations ---------------------------
(***************************************************************************)
(* The tool calls and operations of the turns of TurnLane: the Tool Broker *)
(* (persistence/tool_broker_store.py, broker_execution_store.py), the turn *)
(* driver that schedules, admits and executes calls                        *)
(* (runtime/agent_turn_driver.py), and what waiting, pausing, the stop     *)
(* guard and recovery do to calls and operations.                          *)
(*                                                                         *)
(* The database survives a crash; the driver and its executors do not.     *)
(* One supervisor loop per Workspace runs one driver at a time, for the    *)
(* owner of the write lane.  A driver works with the turn revision it read *)
(* when it started.                                                        *)
(***************************************************************************)
EXTENDS TurnLane

CONSTANTS Calls,      \* the identities tool calls can be created with
          Exclusive   \* calls whose claim excludes every other; the rest read

VARIABLES call,       \* tool_calls.proposal_status
          turnOf,     \* the turn whose model step proposed the call
          operation,  \* operations.status of the call's operation
          lease,      \* tool_resource_leases.lease_status of its admission
          result,     \* canonical_tool_results.result_kind of the call
          document,   \* operations.status of a document.render operation the call began
          driver,     \* the turn that is being driven, or NoTurn
          driven,     \* the turn revision that driver works with
          phase,      \* where it stands
          planned,    \* calls of its dispatch plan still to be admitted
          inFlight,   \* calls of its batch whose executor has not returned
          begun,      \* those of them whose executor holds an execution handle
          raised,     \* calls of its batch whose executor raised
          contracted  \* the turns whose completion contract has its obligations

databaseVars == <<call, turnOf, operation, lease, result, document>>
driverVars == <<driver, driven, phase, planned, inFlight, begun, raised>>
toolVars == <<vars, databaseVars, driverVars, contracted>>

CallStatuses == {"absent", "scheduled", "rejected", "awaiting_confirmation", "admitted", "resolved"}
Unsafe == {"outcome_unknown", "completed_unreconciled", "integrity_violation"}
Active == {"admitted", "handoff_committed"}
OperationStatuses == {"none", "completed", "failed"} \cup Active \cup Unsafe
Results == {"none", "rejected", "denied", "cancelled", "success", "error"}
Phases == {"idle", "starting", "deciding", "asking", "admitting", "executing"}

CallsOf(t) == {c \in Calls : call[c] # "absent" /\ turnOf[c] = t}
CallsWith(t, statuses) == {c \in CallsOf(t) : call[c] \in statuses}
OperationsWith(t, statuses) == {c \in CallsOf(t) : operation[c] \in statuses}

Rendering(t) == \E c \in CallsOf(t) : document[c] = "handoff_committed"

(* What the stop guard counts.                                              *)
HasActiveOperation(t) == OperationsWith(t, Active) # {} \/ Rendering(t)
HasUnsafeOperation(t) == OperationsWith(t, Unsafe) # {}
HasUnresolvedCall(t) == CallsWith(t, {"awaiting_confirmation", "scheduled", "admitted"}) # {}

(* Mutant: a read beside a write is let through.                            *)
ConflictOfWrites(c, d) == c # d /\ {c, d} \subseteq Exclusive

(* The driver's batches and the broker's leases ask the same of two claims  *)
(* on a resource: that one of them does not only read.                      *)
Conflict(c, d) == c # d /\ {c, d} \cap Exclusive # {}

Set(f, S, v) == [x \in DOMAIN f |-> IF x \in S THEN v ELSE f[x]]

Idle == /\ driver' = NoTurn
        /\ driven' = 0
        /\ phase' = "idle"
        /\ planned' = {}
        /\ inFlight' = {}
        /\ begun' = {}
        /\ raised' = {}

Goto(p) == phase' = p /\ UNCHANGED <<driver, driven, planned, inFlight, begun, raised>>

(* The revision the driver works with is still the turn's.                  *)
RevisionCurrent == driven = revision[driver]

ToolInit ==
    /\ Init
    /\ call = [c \in Calls |-> "absent"]
    /\ turnOf = [c \in Calls |-> NoTurn]
    /\ operation = [c \in Calls |-> "none"]
    /\ lease = [c \in Calls |-> "none"]
    /\ result = [c \in Calls |-> "none"]
    /\ document = [c \in Calls |-> "none"]
    /\ driver = NoTurn
    /\ driven = 0
    /\ phase = "idle"
    /\ planned = {}
    /\ inFlight = {}
    /\ begun = {}
    /\ raised = {}
    /\ contracted = {}

-----------------------------------------------------------------------------
(* The driver's life.                                                       *)

(* The supervisor found t running at the head of the lane.                  *)
StartDriver(t) ==
    /\ phase = "idle"
    /\ lane = t
    /\ status[t] = "running"
    /\ driver' = t
    /\ driven' = revision[t]
    /\ phase' = "starting"
    /\ UNCHANGED <<planned, inFlight, begun, raised, vars, databaseVars>>

(* The runner gives the completion contract its obligations before it       *)
(* drives the turn.  Their key is unique in the contract of a turn, so that *)
(* this raises in a later run of the turn: DriverStops.                     *)
Prepare ==
    /\ phase = "starting"
    /\ RevisionCurrent
    /\ driver \notin contracted
    /\ NormalizeContract(driver)
    /\ contracted' = contracted \cup {driver}
    /\ driven' = driven + 1
    /\ phase' = "deciding"
    /\ UNCHANGED <<databaseVars, driver, planned, inFlight, begun, raised>>

(* The driver returns or raises: a deadline, a spent budget, a failed model *)
(* or worker, a transaction refused because the turn moved on.  What it     *)
(* scheduled or admitted and did not execute is left as it is; a batch that *)
(* executes is awaited first, all of it.  The runner makes a turn that is   *)
(* still running wait.                                                      *)
DriverStops ==
    /\ phase # "idle"
    /\ phase = "executing" => inFlight = {}
    /\ IF status[driver] = "running" THEN OpenWaiting(driver) ELSE UNCHANGED vars
    /\ Idle
    /\ UNCHANGED databaseVars

(* Mutant: the lane of the driven turn is freed, its status is forgotten.   *)
CrashFreesLane ==
    /\ phase # "idle"
    /\ Idle
    /\ lane' = NoTurn
    /\ UNCHANGED <<identityVars, laneRevision, status, revision, request, pause, databaseVars>>

(* The process dies with everything it has in memory.                       *)
Crash ==
    /\ phase # "idle"
    /\ Idle
    /\ UNCHANGED <<vars, databaseVars>>

(* A model step is started for a running turn at the driver's revision.     *)
StartStep ==
    /\ phase = "deciding"
    /\ status[driver] = "running"
    /\ RevisionCurrent
    /\ Goto("asking")
    /\ UNCHANGED <<vars, databaseVars>>

(* The model proposed nothing, or the stop guard answered CONTINUE.         *)
StepWithoutEffect ==
    /\ phase = "asking"
    /\ Goto("deciding")
    /\ UNCHANGED <<vars, databaseVars>>
-----------------------------------------------------------------------------
(* Scheduling and admission.                                                *)

(* What the plan says of each call: one that is rejected is kept, and has   *)
(* its result at once.                                                      *)
Planned(proposed, rejected) ==
    [c \in Calls |-> IF c \in rejected THEN "rejected"
                     ELSE IF c \in proposed THEN "scheduled" ELSE call[c]]

(* The plan is committed whatever became of the turn while the model        *)
(* answered.  One rejected proposal sends the driver back to the model and  *)
(* leaves the calls scheduled beside it alone.                              *)
CommitDispatchPlan(proposed, rejected) ==
    /\ phase = "asking"
    /\ proposed # {}
    /\ rejected \subseteq proposed
    /\ \A c \in proposed : call[c] = "absent"
    /\ call' = Planned(proposed, rejected)
    /\ turnOf' = Set(turnOf, proposed, driver)
    /\ result' = Set(result, rejected, "rejected")
    /\ IF rejected = {}
       THEN phase' = "admitting" /\ planned' = proposed
       ELSE phase' = "deciding" /\ UNCHANGED planned
    /\ UNCHANGED <<vars, operation, lease, document, driver, driven, inFlight, begun, raised>>

(* The next call of the batch: batches hold no two calls that conflict.     *)
NextInBatch(c) ==
    /\ phase = "admitting"
    /\ c \in planned
    /\ \A d \in inFlight : ~Conflict(c, d)

LeaseConflict(c) == \E d \in Calls : lease[d] = "active" /\ Conflict(c, d)

Admissible(c) ==
    /\ call[c] = "scheduled"
    /\ status[driver] = "running"
    /\ ~PausePending(driver)
    /\ RevisionCurrent
    /\ ~LeaseConflict(c)

Admit(c) ==
    /\ NextInBatch(c)
    /\ Admissible(c)
    /\ call' = [call EXCEPT ![c] = "admitted"]
    /\ operation' = [operation EXCEPT ![c] = "admitted"]
    /\ lease' = [lease EXCEPT ![c] = "active"]
    /\ planned' = planned \ {c}
    /\ inFlight' = inFlight \cup {c}
    /\ UNCHANGED <<vars, turnOf, result, document, driver, driven, phase, begun, raised>>

(* Permission, confirmation policy, budget, freshness, repeated failures    *)
(* and what Admissible asks can block a call.  The block goes to the        *)
(* journal; the call stays scheduled.                                       *)
AdmissionBlocked(c) ==
    /\ NextInBatch(c)
    /\ call[c] = "scheduled"
    /\ planned' = planned \ {c}
    /\ UNCHANGED <<vars, databaseVars, driver, driven, phase, inFlight, begun, raised>>

ExecuteBatch ==
    /\ phase = "admitting"
    /\ inFlight # {} \/ planned = {}
    /\ Goto("executing")
    /\ UNCHANGED <<vars, databaseVars>>

-----------------------------------------------------------------------------
(* Execution.                                                               *)

(* The call is resolved with its result and its lease is given back.        *)
Resolve(c, s, kind) ==
    /\ operation' = [operation EXCEPT ![c] = s]
    /\ call' = [call EXCEPT ![c] = "resolved"]
    /\ result' = [result EXCEPT ![c] = kind]
    /\ lease' = [lease EXCEPT ![c] = IF @ = "active" THEN "released" ELSE @]

Executing(c) == phase = "executing" /\ c \in inFlight

(* Mutant: the status of the operation is not looked at.                    *)
HandOffAgain(c) ==
    /\ Executing(c)
    /\ operation' = [operation EXCEPT ![c] = "handoff_committed"]
    /\ begun' = begun \cup {c}
    /\ UNCHANGED <<vars, call, turnOf, lease, result, document,
                   driver, driven, phase, planned, inFlight, raised>>

(* The handoff asks only whether the operation is admitted.                 *)
BeginExecution(c) ==
    /\ Executing(c)
    /\ operation[c] = "admitted"
    /\ operation' = [operation EXCEPT ![c] = "handoff_committed"]
    /\ begun' = begun \cup {c}
    /\ UNCHANGED <<vars, call, turnOf, lease, result, document,
                   driver, driven, phase, planned, inFlight, raised>>

Leave(c, raises) ==
    /\ inFlight' = inFlight \ {c}
    /\ begun' = begun \ {c}
    /\ raised' = IF raises THEN raised \cup {c} ELSE raised
    /\ UNCHANGED <<driver, driven, phase, planned>>

(* The executor commits the outcome of its call and returns, or raises all  *)
(* the same (a tainted session that cannot be closed).                      *)
CompleteExecution(c, s, raises) ==
    /\ c \in begun
    /\ operation[c] = "handoff_committed"
    /\ Resolve(c, s, IF s = "completed" THEN "success" ELSE "error")
    /\ Leave(c, raises)
    /\ UNCHANGED <<vars, turnOf, document>>

(* It raises before it commits anything, or before the handoff already.     *)
ExecutorRaises(c) ==
    /\ Executing(c)
    /\ Leave(c, TRUE)
    /\ UNCHANGED <<vars, databaseVars>>

(* The driver closes what escaped once the whole batch is back.  An         *)
(* operation that is closed already makes this raise, and the driver stops. *)
RecordExecutorException(c) ==
    /\ phase = "executing"
    /\ inFlight = {}
    /\ c \in raised
    /\ operation[c] \in Active
    /\ Resolve(c, IF operation[c] = "admitted" THEN "failed" ELSE "outcome_unknown", "error")
    /\ raised' = raised \ {c}
    /\ UNCHANGED <<vars, turnOf, document, driver, driven, phase, planned, inFlight, begun>>

FinishBatch ==
    /\ phase = "executing"
    /\ inFlight = {} /\ raised = {}
    /\ Goto(IF planned = {} THEN "deciding" ELSE "admitting")
    /\ UNCHANGED <<vars, databaseVars>>

(* A call may render a document under an operation of its own, which has no *)
(* tool call and no exception record.                                       *)
PrepareRender(c) ==
    /\ c \in begun
    /\ document[c] = "none"
    /\ status[turnOf[c]] \in Live
    /\ document' = [document EXCEPT ![c] = "handoff_committed"]
    /\ UNCHANGED <<vars, call, turnOf, operation, lease, result, driverVars>>

FinalizeRender(c) ==
    /\ c \in begun
    /\ document[c] = "handoff_committed"
    /\ status[turnOf[c]] \in Live
    /\ document' = [document EXCEPT ![c] = "completed"]
    /\ UNCHANGED <<vars, call, turnOf, operation, lease, result, driverVars>>

-----------------------------------------------------------------------------
(* Waiting, pausing, stopping.                                              *)

(* The model's waiting proposal ends the run of the driver.                 *)
DriverWaits ==
    /\ phase = "asking"
    /\ RevisionCurrent
    /\ OpenWaiting(driver)
    /\ Idle
    /\ UNCHANGED databaseVars

(* A request that names a scheduled call asks for its confirmation.         *)
RequestConfirmation(c) ==
    /\ call[c] = "scheduled"
    /\ OpenWaiting(turnOf[c])
    /\ call' = [call EXCEPT ![c] = "awaiting_confirmation"]
    /\ UNCHANGED <<turnOf, operation, lease, result, document, driverVars>>

(* Mutant: the reason code is stored for the kind.                          *)
RefusalReason(decision) == IF decision = "deny" THEN "user_denied" ELSE "user_cancelled"

RefusalKind(decision) == IF decision = "deny" THEN "denied" ELSE "cancelled"

(* The decision is about the call the open request named, if it named one.  *)
Answer(t, decision) ==
    LET asked == CallsWith(t, {"awaiting_confirmation"})
    IN  /\ AnswerWaiting(t)
        /\ IF decision = "approve"
           THEN call' = Set(call, asked, "scheduled") /\ UNCHANGED result
           ELSE /\ call' = Set(call, asked, "resolved")
                /\ result' = Set(result, asked, RefusalKind(decision))
        /\ UNCHANGED <<turnOf, operation, lease, document, driverVars>>

Pause(t) == RequestPause(t) /\ UNCHANGED <<databaseVars, driverVars>>

Cancellable(t) ==
    {c \in OperationsWith(t, {"admitted"}) : call[c] = "admitted"}

(* Mutant: only operations of tool calls count.                             *)
CallOperationActive(t) == OperationsWith(t, Active) \ Cancellable(t) # {}

(* What goes on after the cancellation: any operation the turn requested.   *)
StillActive(t) == OperationsWith(t, Active) \ Cancellable(t) # {} \/ Rendering(t)

(* What did not start is cancelled, operations included; what was handed    *)
(* off keeps the intent converging.                                         *)
Converge(t) ==
    LET failing == Cancellable(t)
        cancelled == failing \cup CallsWith(t, {"scheduled", "awaiting_confirmation"})
        failed == failing \cup OperationsWith(t, {"failed"})
    IN  /\ ConvergePause(t, StillActive(t))
        /\ call' = Set(call, cancelled, "resolved")
        /\ result' = Set(result, cancelled, "cancelled")
        /\ operation' = Set(operation, failing, "failed")
        /\ lease' = Set(lease, {c \in failed : lease[c] = "active"}, "released")
        /\ UNCHANGED <<turnOf, document, driverVars>>

GuardWaits ==
    /\ phase = "asking"
    /\ RevisionCurrent
    /\ \/ HasUnsafeOperation(driver)
       \/ ~HasUnresolvedCall(driver) /\ ~HasActiveOperation(driver)
    /\ StopGuardWaits(driver, HasUnsafeOperation(driver))
    /\ Idle
    /\ UNCHANGED databaseVars

(* Mutant: operations are counted, the calls that have none are not.        *)
NoOperationRemains(t) == ~HasUnsafeOperation(t) /\ ~HasActiveOperation(t)

NoWorkRemains(t) == ~HasUnsafeOperation(t) /\ ~HasUnresolvedCall(t) /\ ~HasActiveOperation(t)

GuardTerminates(outcome) ==
    /\ phase = "asking"
    /\ RevisionCurrent
    /\ NoWorkRemains(driver)
    /\ StopGuardTerminates(driver, outcome)
    /\ Idle
    /\ UNCHANGED databaseVars

-----------------------------------------------------------------------------
(* Recovery and reconciliation.                                             *)

(* Mutant: an operation without an outcome is taken for one that did not    *)
(* start, handed off or not.                                                *)
ClassificationsOfOutcomes(c) ==
    IF operation[c] \in Active THEN {"definitely_not_started"} ELSE Unsafe

(* What the scan of an interrupted operation can say: only an operation     *)
(* that was never handed off did definitely not start.                      *)
Classifications(c) ==
    IF operation[c] = "admitted" THEN {"definitely_not_started"} ELSE Unsafe

(* Before any driver runs.  An operation that did not start keeps its       *)
(* status, and so does its call; only the lease goes.                       *)
Recover(c, classification) ==
    /\ phase = "idle"
    /\ operation[c] \in Active \cup {"outcome_unknown", "completed_unreconciled"}
    /\ classification \in Classifications(c)
    /\ RecoverOperation(turnOf[c])
    /\ operation' = [operation EXCEPT ![c] =
                       IF classification \in Unsafe THEN classification ELSE @]
    /\ lease' = [lease EXCEPT ![c] = IF @ = "active" THEN "released" ELSE @]
    /\ UNCHANGED <<call, turnOf, result, document, driverVars>>

(* The continuation of the recovered turn finalizes a completion that was   *)
(* found on disk.  The result's identity is unique: where there is one the  *)
(* transaction fails.                                                       *)
Reconcile(c, s) ==
    /\ operation[c] = "completed_unreconciled"
    /\ \E successor \in Turns : predecessor[successor] = turnOf[c]
    /\ result[c] = "none"
    /\ Resolve(c, s, IF s = "completed" THEN "success" ELSE "error")
    /\ UNCHANGED <<vars, turnOf, document, driverVars>>

-----------------------------------------------------------------------------
(* Turn-level transactions that touch no call.  A read turn never owns the  *)
(* lane and never has a driver, so all turns here write; the turn of a      *)
(* branch command is completed by the request that submitted it.            *)
TurnOnly ==
    /\ \/ \E t \in Turns : SubmitMessage(t, "write") \/ ActivateNextQueuedTurn(t)
       \/ \E p, t \in Turns : ContinuePausedTurn(p, t)
       \/ \E t \in Turns, outcome \in Outcomes :
             t # driver /\ revision[t] = 1 /\ CompleteTurn(t, outcome)
    /\ UNCHANGED <<databaseVars, driverVars>>

ToolStep ==
    \/ TurnOnly
    \/ DriverStops \/ Crash \/ StartStep \/ StepWithoutEffect
    \/ ExecuteBatch \/ FinishBatch \/ DriverWaits \/ GuardWaits
    \/ \E outcome \in Outcomes : GuardTerminates(outcome)
    \/ \E proposed \in SUBSET Calls, rejected \in SUBSET Calls :
         CommitDispatchPlan(proposed, rejected)
    \/ \E t \in Turns :
         \/ StartDriver(t) \/ Pause(t) \/ Converge(t)
         \/ \E decision \in {"approve", "deny", "cancel"} : Answer(t, decision)
    \/ \E c \in Calls :
         \/ Admit(c) \/ AdmissionBlocked(c)
         \/ BeginExecution(c) \/ ExecutorRaises(c) \/ RecordExecutorException(c)
         \/ PrepareRender(c) \/ FinalizeRender(c) \/ RequestConfirmation(c)
         \/ \E s \in {"completed", "failed", "outcome_unknown", "completed_unreconciled"},
              raises \in BOOLEAN : CompleteExecution(c, s, raises)
         \/ \E classification \in {"definitely_not_started"} \cup Unsafe :
              Recover(c, classification)
         \/ \E s \in {"completed", "failed", "outcome_unknown"} : Reconcile(c, s)

ToolNext == Prepare \/ (ToolStep /\ UNCHANGED contracted)

ToolSpec == ToolInit /\ [][ToolNext]_toolVars

-----------------------------------------------------------------------------
(* Type invariant of the variables added here.                              *)
ToolTypeOK ==
    /\ call \in [Calls -> CallStatuses]
    /\ turnOf \in [Calls -> Turns \cup {NoTurn}]
    /\ operation \in [Calls -> OperationStatuses]
    /\ lease \in [Calls -> {"none", "active", "released"}]
    /\ result \in [Calls -> Results]
    /\ document \in [Calls -> {"none", "handoff_committed", "completed"}]
    /\ driver \in Turns \cup {NoTurn}
    /\ driven \in Nat
    /\ phase \in Phases
    /\ planned \in SUBSET Calls
    /\ inFlight \in SUBSET Calls
    /\ begun \in SUBSET inFlight
    /\ raised \in SUBSET Calls
    /\ contracted \in SUBSET Turns

(* A call has its one canonical result exactly when it is over, and nothing *)
(* of a call that is over is still to be executed.  Seven transactions in   *)
(* four stores end calls.                                                   *)
ResolvedCallsAreOver ==
    \A c \in Calls :
        /\ result[c] # "none" <=> call[c] \in {"resolved", "rejected"}
        /\ call[c] = "resolved" => operation[c] \notin Active
        /\ operation[c] # "none" => call[c] \in {"admitted", "resolved"}

(* While the operation of a call that writes holds its lease, no other      *)
(* operation holds one: not of its batch, not left by an interrupted one.   *)
LeasesExclude ==
    \A c, d \in Calls :
        lease[c] = "active" /\ lease[d] = "active" /\ c # d => {c, d} \cap Exclusive = {}

(* An operation whose side effects may be under way holds its resources: a  *)
(* pause that converges, a crash or an exception of a sibling must neither  *)
(* close it under its executor nor give its resources to another.  And no   *)
(* lease outlives its operation.                                            *)
LeaseCoversExecution ==
    \A c \in Calls :
        /\ c \in begun => operation[c] = "handoff_committed"
        /\ operation[c] = "handoff_committed" => lease[c] = "active"
        /\ lease[c] = "active" => operation[c] \in Active

(* A turn that ended by itself left nothing behind: no call that could      *)
(* still be admitted, no operation that runs, none whose outcome is open.   *)
FinishedTurnIsSettled ==
    \A t \in Turns : status[t] \in {"succeeded", "partial", "failed"} =>
        \A c \in CallsOf(t) :
            /\ call[c] \in {"resolved", "rejected"}
            /\ operation[c] \in {"none", "completed", "failed"}
            /\ document[c] # "handoff_committed"

(* Once a pause converged nothing of the turn runs, and nothing starts:     *)
(* the driver that was asking the model when the user paused may still      *)
(* schedule calls, and no more than that.                                   *)
ConvergedPauseIsQuiescent ==
    \A t \in Turns : pause[t] = "completed" => ~HasActiveOperation(t)

(* What may become of an operation.  It is handed off once; a handoff is    *)
(* never taken back to "admitted" or to a start that did not happen, and a  *)
(* completed or failed operation stays so.                                  *)
NextStatuses(s) ==
    CASE s = "none" -> {"admitted"}
      [] s = "admitted" -> {"handoff_committed", "failed"}
      [] s = "handoff_committed" -> {"completed", "failed"} \cup Unsafe
      [] s = "outcome_unknown" -> Unsafe
      [] s = "completed_unreconciled" -> {"completed", "failed"} \cup Unsafe
      [] OTHER -> {}

(* The handoff happens under the lease of the admission: what recovery      *)
(* declared not started gave its lease back, and is not started later.  And *)
(* a lease under which an operation was handed off goes only with the       *)
(* verdict on that operation, never while it may still be executed.         *)
HandedOffUnderLease(c) ==
    /\ operation[c] = "admitted" /\ operation'[c] = "handoff_committed" => lease[c] = "active"
    /\ operation[c] = "handoff_committed" /\ lease'[c] # "active" => operation'[c] \notin Active

(* Operations only advance, a canonical result is never replaced, and       *)
(* leases are there from the handoff to the verdict: whatever a converging  *)
(* pause, an exception of a sibling, a crash or recovery does in between.   *)
History(c) ==
    /\ operation'[c] = operation[c] \/ operation'[c] \in NextStatuses(operation[c])
    /\ result[c] # "none" => result'[c] = result[c]
    /\ HandedOffUnderLease(c)

HistoryIsFinal == [][\A c \in Calls : History(c)]_toolVars

(* The strengthening of the proofs: where the driver stands, whose calls it *)
(* holds, and that an admitted call in flight still has its lease.          *)
DriverIsPlaced ==
    /\ phase = "idle" => planned = {} /\ inFlight = {} /\ raised = {}
    /\ phase # "idle" =>
         /\ driver \in Turns
         /\ status[driver] \notin {"absent", "succeeded", "partial", "failed"}
         /\ driven <= revision[driver]
    /\ phase \notin {"idle", "starting"} => driven > 1
    /\ \A c \in planned \cup inFlight \cup raised : call[c] # "absent" /\ turnOf[c] = driver
    /\ \A c \in inFlight : operation[c] = "admitted" => lease[c] = "active"

CallsHaveTurns ==
    \A c \in Calls : call[c] # "absent" =>
        turnOf[c] \in Turns /\ status[turnOf[c]] # "absent" /\ revision[turnOf[c]] > 1

RendersBelongToOperations ==
    \A c \in Calls : document[c] # "none" => call[c] # "absent"

ToolIInv == /\ ToolTypeOK
            /\ DriverIsPlaced
            /\ CallsHaveTurns
            /\ RendersBelongToOperations
            /\ ResolvedCallsAreOver
            /\ LeasesExclude
            /\ LeaseCoversExecution
            /\ FinishedTurnIsSettled
            /\ ConvergedPauseIsQuiescent

(* Every step is one of TurnLane's or leaves the turns alone.               *)
ImplementsTurnLane == Spec
=============================================================================
