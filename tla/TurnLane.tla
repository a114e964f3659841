------------------------------ MODULE TurnLane ------------------------------
(***************************************************************************)
(* The Turns of one Workspace and the single write lane they share, as the *)
(* SQLite transactions of persistence/control_store.py,                    *)
(* turn_interaction_store.py, evaluation_store.py and recovery_store.py    *)
(* change them.  One action is one committed transaction (BEGIN IMMEDIATE  *)
(* serialises them; AtomicCommit models the commit itself).  A transaction *)
(* that raises is rolled back and is no step here; the schema's triggers   *)
(* are conjuncts of the guards.                                            *)
(*                                                                         *)
(* What the turn-level transactions read about tool calls and operations   *)
(* is a parameter of their actions here, any value of it; ToolOperations   *)
(* extends this module with the calls and operations and supplies it.      *)
(***************************************************************************)
EXTENDS Integers, FiniteSets

CONSTANTS Turns,        \* the identities turns can be created with
          NoTurn,       \* NULL
          MaxRevision,  \* bound on turn_revision
          Outcomes      \* the ways to end that the instance explores

ASSUME TurnsAssumption == IsFiniteSet(Turns) /\ NoTurn \notin Turns
ASSUME MaxRevisionAssumption == MaxRevision \in Nat
ASSUME OutcomesAssumption == Outcomes \subseteq {"succeeded", "partial", "paused", "failed"}

VARIABLES mode,         \* turns.execution_mode
          status,       \* turns.status; "absent": no such row yet
          revision,     \* turns.turn_revision
          ordinal,      \* turns.enqueue_ordinal
          lane,         \* workspace_write_lane.active_write_turn_id
          laneRevision, \* workspace_write_lane.lane_revision
          request,      \* status of the turn's latest waiting_requests row
          pause,        \* status of the turn's pause_intents row
          predecessor   \* turn_continuations: the turn this one continues

identityVars == <<mode, ordinal, predecessor>>
laneVars == <<lane, laneRevision>>
vars == <<mode, status, revision, ordinal, lane, laneRevision, request, pause, predecessor>>

Modes == {"read", "write"}
Live == {"running", "waiting"}
Terminal == {"succeeded", "partial", "paused", "failed"}
Statuses == {"absent", "queued"} \cup Live \cup Terminal
RequestStatuses == {"none", "open", "answered", "closed_by_user_pause"}
PauseStatuses == {"none", "requested", "converging", "completed"}

Existing == {t \in Turns : status[t] # "absent"}
Queued == {t \in Turns : status[t] = "queued" /\ mode[t] = "write"}

(* Mutant: an intent that started to converge is forgotten.                 *)
PauseRequested(t) == pause[t] = "requested"

PausePending(t) == pause[t] \in {"requested", "converging"}

(* A transaction that was prepared against turn_revision r commits only if  *)
(* the revision is still r; MaxRevision bounds the instance.                *)
Advance(t) == /\ revision[t] < MaxRevision
              /\ revision' = [revision EXCEPT ![t] = @ + 1]

(* Mutant: the acquisition is not counted.                                  *)
TakeLaneUncounted(t) == lane' = t /\ UNCHANGED laneRevision

TakeLane(t) == lane' = t /\ laneRevision' = laneRevision + 1

(* A write turn must own the lane it gives up: the UPDATE names the owner   *)
(* and its row count is checked.                                            *)
ReleaseLane(t) ==
    IF mode[t] = "write"
    THEN /\ lane = t
         /\ lane' = NoTurn
         /\ laneRevision' = laneRevision + 1
    ELSE UNCHANGED laneVars

(* The same UPDATE without the row count check.                             *)
ReleaseLaneIfOwner(t) ==
    IF lane = t
    THEN lane' = NoTurn /\ laneRevision' = laneRevision + 1
    ELSE UNCHANGED laneVars

Init ==
    /\ mode = [t \in Turns |-> "read"]
    /\ status = [t \in Turns |-> "absent"]
    /\ revision = [t \in Turns |-> 0]
    /\ ordinal = [t \in Turns |-> 0]
    /\ lane = NoTurn
    /\ laneRevision = 0
    /\ request = [t \in Turns |-> "none"]
    /\ pause = [t \in Turns |-> "none"]
    /\ predecessor = [t \in Turns |-> NoTurn]

-----------------------------------------------------------------------------
(* Creation and activation.                                                 *)

(* The row of a new turn: it runs at once when it only reads or the lane is *)
(* empty, whatever is queued; otherwise it joins the queue at the end.      *)
CreateTurn(t, m, from) ==
    LET runs == m = "read" \/ lane = NoTurn
    IN  /\ status[t] = "absent"
        /\ mode' = [mode EXCEPT ![t] = m]
        /\ status' = [status EXCEPT ![t] = IF runs THEN "running" ELSE "queued"]
        /\ revision' = [revision EXCEPT ![t] = 1]
        /\ ordinal' = [ordinal EXCEPT ![t] = Cardinality(Existing) + 1]
        /\ predecessor' = [predecessor EXCEPT ![t] = from]
        /\ IF m = "write" /\ runs THEN TakeLane(t) ELSE UNCHANGED laneVars
        /\ UNCHANGED <<request, pause>>

SubmitMessage(t, m) == CreateTurn(t, m, NoTurn)

(* Mutant: the search for an earlier continuation is dropped.               *)
ContinueTwice(p, t) ==
    /\ status[p] = "paused"
    /\ CreateTurn(t, mode[p], p)

ContinuePausedTurn(p, t) ==
    /\ status[p] = "paused"
    /\ \A s \in Turns : predecessor[s] # p
    /\ CreateTurn(t, mode[p], p)

(* Mutant: the queue head is started without a look at the lane.            *)
ActivateOverOwner(t) ==
    /\ t \in Queued
    /\ \A q \in Queued : ordinal[t] <= ordinal[q]
    /\ Advance(t)
    /\ status' = [status EXCEPT ![t] = "running"]
    /\ TakeLane(t)
    /\ UNCHANGED <<identityVars, request, pause>>

ActivateNextQueuedTurn(t) ==
    /\ lane = NoTurn
    /\ t \in Queued
    /\ \A q \in Queued : ordinal[t] <= ordinal[q]
    /\ Advance(t)
    /\ status' = [status EXCEPT ![t] = "running"]
    /\ TakeLane(t)
    /\ UNCHANGED <<identityVars, request, pause>>

-----------------------------------------------------------------------------
(* Waiting, answering, pausing.                                             *)

(* A second open request of the turn is refused by a unique index.          *)
OpenWaiting(t) ==
    /\ status[t] = "running"
    /\ request[t] # "open"
    /\ Advance(t)
    /\ status' = [status EXCEPT ![t] = "waiting"]
    /\ request' = [request EXCEPT ![t] = "open"]
    /\ UNCHANGED <<identityVars, laneVars, pause>>

AnswerWaiting(t) ==
    /\ status[t] = "waiting"
    /\ request[t] = "open"
    /\ Advance(t)
    /\ status' = [status EXCEPT ![t] = "running"]
    /\ request' = [request EXCEPT ![t] = "answered"]
    /\ UNCHANGED <<identityVars, laneVars, pause>>

(* Mutant: a status the schema does not know.                               *)
ClosedByUser(r) == IF r = "open" THEN "closed" ELSE r

ClosedByPause(r) == IF r = "open" THEN "closed_by_user_pause" ELSE r

(* Mutant: the pause intent leaves the turn revision as it was.             *)
RequestPauseUnrevised(t) ==
    /\ status[t] \in Live
    /\ pause[t] = "none"
    /\ pause' = [pause EXCEPT ![t] = "requested"]
    /\ request' = [request EXCEPT ![t] = ClosedByPause(@)]
    /\ UNCHANGED <<identityVars, laneVars, status, revision>>

(* One pause intent per turn, ever; the turn's status stays as it is and    *)
(* its open request is closed.                                              *)
RequestPause(t) ==
    /\ status[t] \in Live
    /\ pause[t] = "none"
    /\ Advance(t)
    /\ pause' = [pause EXCEPT ![t] = "requested"]
    /\ request' = [request EXCEPT ![t] = ClosedByPause(@)]
    /\ UNCHANGED <<identityVars, laneVars, status>>

(* Operations that are still active keep the intent converging, whatever    *)
(* the turn's status; without them the turn is paused, which a trigger      *)
(* refuses unless it is live.                                               *)
ConvergePause(t, active) ==
    /\ PausePending(t)
    /\ IF active
       THEN /\ pause' = [pause EXCEPT ![t] = "converging"]
            /\ UNCHANGED <<laneVars, status, revision>>
       ELSE /\ status[t] \in Live
            /\ ReleaseLaneIfOwner(t)
            /\ Advance(t)
            /\ status' = [status EXCEPT ![t] = "paused"]
            /\ pause' = [pause EXCEPT ![t] = "completed"]
    /\ UNCHANGED <<identityVars, request>>

-----------------------------------------------------------------------------
(* Ending.                                                                  *)

CompleteTurn(t, outcome) ==
    /\ status[t] \in Live
    /\ ReleaseLane(t)
    /\ Advance(t)
    /\ status' = [status EXCEPT ![t] = outcome]
    /\ UNCHANGED <<identityVars, request, pause>>

(* The stop guard's WAIT: an operation whose outcome is not reconciled      *)
(* comes before everything, a pending pause too; a finding that needs the   *)
(* user does not.                                                           *)
StopGuardWaits(t, unsafe) ==
    /\ status[t] = "running"
    /\ unsafe \/ ~PausePending(t)
    /\ request[t] # "open"
    /\ Advance(t)
    /\ status' = [status EXCEPT ![t] = "waiting"]
    /\ request' = [request EXCEPT ![t] = "open"]
    /\ UNCHANGED <<identityVars, laneVars, pause>>

(* The stop guard's TERMINATE.                                              *)
StopGuardTerminates(t, outcome) ==
    /\ status[t] = "running"
    /\ ~PausePending(t)
    /\ ReleaseLane(t)
    /\ Advance(t)
    /\ status' = [status EXCEPT ![t] = outcome]
    /\ UNCHANGED <<identityVars, request, pause>>

(* Safe convergence: whatever the classification, a live turn whose         *)
(* operation was assessed is paused and loses the lane; its open request    *)
(* and its pause intent stay as they are.                                   *)
RecoverOperation(t) ==
    /\ status[t] \notin {"absent", "queued"}
    /\ IF status[t] \in Live
       THEN /\ IF mode[t] = "write" THEN ReleaseLaneIfOwner(t) ELSE UNCHANGED laneVars
            /\ Advance(t)
            /\ status' = [status EXCEPT ![t] = "paused"]
       ELSE UNCHANGED <<laneVars, revision, status>>
    /\ UNCHANGED <<identityVars, request, pause>>

(* A new completion contract revision is bound to the turn.                 *)
NormalizeContract(t) ==
    /\ status[t] = "running"
    /\ Advance(t)
    /\ UNCHANGED <<identityVars, laneVars, status, request, pause>>

-----------------------------------------------------------------------------
Next ==
    \/ \E t \in Turns, m \in Modes : SubmitMessage(t, m)
    \/ \E p, t \in Turns : ContinuePausedTurn(p, t)
    \/ \E t \in Turns :
         \/ ActivateNextQueuedTurn(t)
         \/ OpenWaiting(t)
         \/ AnswerWaiting(t)
         \/ RequestPause(t)
         \/ \E active \in BOOLEAN : ConvergePause(t, active)
         \/ \E outcome \in Outcomes : CompleteTurn(t, outcome)
         \/ \E unsafe \in BOOLEAN : StopGuardWaits(t, unsafe)
         \/ \E outcome \in Outcomes : StopGuardTerminates(t, outcome)
         \/ RecoverOperation(t)
         \/ NormalizeContract(t)

Spec == Init /\ [][Next]_vars

-----------------------------------------------------------------------------
(* Type invariant.                                                          *)
TypeOK ==
    /\ mode \in [Turns -> Modes]
    /\ status \in [Turns -> Statuses]
    /\ revision \in [Turns -> Nat]
    /\ ordinal \in [Turns -> Nat]
    /\ lane \in Turns \cup {NoTurn}
    /\ laneRevision \in Nat
    /\ request \in [Turns -> RequestStatuses]
    /\ pause \in [Turns -> PauseStatuses]
    /\ predecessor \in [Turns -> Turns \cup {NoTurn}]

(* The lane's owner is exactly the write turn that is running or waiting:   *)
(* no live write turn without the lane, no lane held for a turn that is     *)
(* queued or over.  Nine transactions in four stores keep it together.      *)
LaneOwnership ==
    \A t \in Turns : lane = t <=> mode[t] = "write" /\ status[t] \in Live

(* The lane revision counts acquisitions and releases: recovery compares it *)
(* to detect that the lane changed hands behind its scan, so no handover    *)
(* may leave it as it was.  Every write turn takes the lane once at most.   *)
LaneRevisionCounts ==
    LET started == {t \in Turns : mode[t] = "write" /\ status[t] \in Live \cup Terminal}
        ended == {t \in started : status[t] \in Terminal}
    IN  laneRevision = Cardinality(started) + Cardinality(ended)

(* A turn that waits can go on: its request can be answered, or a pause     *)
(* closed it and is still to converge; and a turn that runs has no open     *)
(* request, which the answer would find no waiting turn for and the unique  *)
(* index would hold against the next one.                                   *)
RequestMatchesTurn ==
    \A t \in Turns :
        /\ status[t] = "waiting" => request[t] = "open" \/ PausePending(t)
        /\ status[t] = "running" => request[t] # "open"

(* Continuations form chains: a paused turn has one successor at most, of   *)
(* its own mode and enqueued after it.                                      *)
ContinuationLineage ==
    \A s \in Turns : predecessor[s] # NoTurn =>
        LET p == predecessor[s]
        IN  /\ status[p] = "paused"
            /\ mode[p] = mode[s]
            /\ ordinal[p] < ordinal[s]
            /\ \A other \in Turns : predecessor[other] = p => other = s

(* A completed pause intent is the intent of a turn that is paused for good.*)
CompletedPauseIsFinal ==
    \A t \in Turns : pause[t] = "completed" => status[t] = "paused"

(* A turn that has not started has neither a request nor a pause intent,    *)
(* and the turns with revision 0 are those that do not exist.               *)
UnstartedIsUntouched ==
    \A t \in Turns :
        /\ status[t] \in {"absent", "queued"} => request[t] = "none" /\ pause[t] = "none"
        /\ status[t] = "absent" <=> revision[t] = 0

(* The inductive invariant of the proofs.                                   *)
IInv == /\ TypeOK
        /\ LaneOwnership
        /\ UnstartedIsUntouched
        /\ RequestMatchesTurn
        /\ CompletedPauseIsFinal

(* The turn revision is a valid compare-and-swap token: whoever read it and *)
(* finds it again also finds the status, the request and the absence of a   *)
(* pause intent it read.                                                    *)
RevisionStep(t) ==
    \/ revision'[t] = revision[t] + 1
    \/ /\ revision'[t] = revision[t]
       /\ status'[t] = status[t]
       /\ request'[t] = request[t]
       /\ pause'[t] = "none" <=> pause[t] = "none"

RevisionGuardsState == [][\A t \in Turns : RevisionStep(t)]_vars

(* The lane of the Workspace is a WriteLane: it is never handed from turn   *)
(* to turn within a transaction and no turn gets it a second time.          *)
Lane == INSTANCE WriteLane WITH
            holder <- lane,
            served <- {t \in Turns : mode[t] = "write" /\ status[t] \in Terminal}

ImplementsWriteLane == Lane!Spec
=============================================================================
