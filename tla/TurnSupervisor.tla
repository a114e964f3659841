--------------------------- MODULE TurnSupervisor ---------------------------
(***************************************************************************)
(* One service process as it is wired in production: the HTTP commands of  *)
(* a Workspace (interfaces/api/app.py), the scheduler loop of              *)
(* WorkspaceTurnSupervisor (runtime/application_runtime.py) over           *)
(* SqliteWorkspaceTurnAuthority, and the ProductionTurnRunner that drives  *)
(* a Turn.  They share one asyncio event loop: a command handler and the   *)
(* loop's own code run without a break between two awaits, so handlers run *)
(* only where the loop is awaiting.  Each database change is a transaction *)
(* of TurnLane; the transactions no route or runner calls (convergence of  *)
(* a pause, continuation, recovery) are absent here, as they are there.    *)
(*                                                                         *)
(* The process may crash; the database survives, the loop does not.        *)
(***************************************************************************)
EXTENDS TurnLane

CONSTANT Faults  \* the faults of the instance

ASSUME FaultsAssumption == Faults \subseteq {"crash", "escape", "branch"}
ASSUME BranchOutcomeAssumption == "succeeded" \in Outcomes

VARIABLES loop,           \* where the Workspace's scheduler task is
          wake,           \* its event
          driving,        \* the turn run_turn was called for
          drivenRevision, \* the revision the driver was configured with
          branching,      \* the turn of a branch command under way
          ranAtOnce       \* turns whose submission was answered with "running"

loopVars == <<loop, wake>>
runnerVars == <<driving, drivenRevision>>
requestVars == <<branching, ranAtOnce>>
supervisorVars == <<vars, loopVars, runnerVars, requestVars>>

(* none: no task; scheduled: created, not begun; draining: between two      *)
(* looks at the lane; preparing: run_turn before its first await; driving:  *)
(* in the driver; leaving: the driver is through and its worker is stopping.*)
LoopStates == {"none", "scheduled", "draining", "preparing", "driving", "leaving"}

(* The loop awaits, or there is none: a handler may run.                    *)
Yielded == branching = NoTurn /\ loop \in {"none", "scheduled", "driving", "leaving"}

LoopRuns == branching = NoTurn

(* A user acts on t only while the instance has revisions left for what the *)
(* runner may still do with it.                                             *)
Room(t) == revision[t] + 3 <= MaxRevision

SupervisorInit ==
    /\ Init
    /\ loop = "none"
    /\ wake = FALSE
    /\ driving = NoTurn
    /\ drivenRevision = 0
    /\ branching = NoTurn
    /\ ranAtOnce = {}

(* A wake hint: set the event, and create the task if there is none.        *)
Dispatch ==
    /\ wake' = TRUE
    /\ loop' = IF loop = "none" THEN "scheduled" ELSE loop

-----------------------------------------------------------------------------
(* HTTP commands.                                                           *)

Submit(t, m) ==
    /\ Yielded
    /\ SubmitMessage(t, m)
    /\ IF status'[t] = "running"
       THEN Dispatch /\ ranAtOnce' = ranAtOnce \cup {t}
       ELSE UNCHANGED <<loopVars, ranAtOnce>>
    /\ UNCHANGED <<runnerVars, branching>>

(* Mutant: the answer is committed and nobody is told.                      *)
AnswerQuietly(t) ==
    /\ Yielded
    /\ Room(t)
    /\ AnswerWaiting(t)
    /\ UNCHANGED <<loopVars, runnerVars, requestVars>>

Answer(t) ==
    /\ Yielded
    /\ Room(t)
    /\ AnswerWaiting(t)
    /\ Dispatch
    /\ UNCHANGED <<runnerVars, requestVars>>

(* The replay of a submission that ran at once, or of an answer: the        *)
(* receipt's answer, and the dispatch once more.                            *)
Redeliver(t) ==
    /\ Yielded
    /\ t \in ranAtOnce \/ request[t] = "answered"
    /\ Dispatch
    /\ UNCHANGED <<vars, runnerVars, requestVars>>

Pause(t) ==
    /\ Yielded
    /\ Room(t)
    /\ RequestPause(t)
    /\ UNCHANGED <<loopVars, runnerVars, requestVars>>

(* A branch command is three commits in one handler: it submits a write     *)
(* turn of its own, branches the path and completes the turn.  A turn that  *)
(* has to queue is refused after the fact, and stays queued.                *)
BranchBegins(t) ==
    /\ Yielded
    /\ SubmitMessage(t, "write")
    /\ branching' = IF status'[t] = "running" THEN t ELSE NoTurn
    /\ UNCHANGED <<loopVars, runnerVars, ranAtOnce>>

BranchCompletes ==
    /\ branching # NoTurn
    /\ CompleteTurn(branching, "succeeded")
    /\ branching' = NoTurn
    /\ UNCHANGED <<loopVars, runnerVars, ranAtOnce>>

(* The second commit is refused (another commit came in between, the key is *)
(* taken): the handler raises.                                              *)
BranchFails ==
    /\ "branch" \in Faults
    /\ branching # NoTurn
    /\ branching' = NoTurn
    /\ UNCHANGED <<vars, loopVars, runnerVars, ranAtOnce>>

-----------------------------------------------------------------------------
(* The scheduler loop.                                                      *)

Starts ==
    /\ LoopRuns
    /\ loop = "scheduled"
    /\ loop' = "draining"
    /\ wake' = FALSE
    /\ UNCHANGED <<vars, runnerVars, requestVars>>

ActivateHead(t) ==
    /\ LoopRuns
    /\ loop = "draining"
    /\ ActivateNextQueuedTurn(t)
    /\ loop' = "preparing"
    /\ driving' = t
    /\ UNCHANGED <<wake, drivenRevision, requestVars>>

(* Mutant: whatever holds the lane is run.                                  *)
PicksUpOwner ==
    /\ LoopRuns
    /\ loop = "draining"
    /\ lane # NoTurn
    /\ loop' = "preparing"
    /\ driving' = lane
    /\ UNCHANGED <<vars, wake, drivenRevision, requestVars>>

PicksUpRunning ==
    /\ LoopRuns
    /\ loop = "draining"
    /\ lane # NoTurn
    /\ status[lane] = "running"
    /\ loop' = "preparing"
    /\ driving' = lane
    /\ UNCHANGED <<vars, wake, drivenRevision, requestVars>>

(* Nothing to run: drain once more if the event was set, else end the task. *)
Rests ==
    /\ LoopRuns
    /\ loop = "draining"
    /\ IF lane = NoTurn THEN Queued = {} ELSE status[lane] # "running"
    /\ loop' = IF wake THEN "draining" ELSE "none"
    /\ wake' = FALSE
    /\ UNCHANGED <<vars, runnerVars, requestVars>>

-----------------------------------------------------------------------------
(* The runner.                                                              *)

Prepares ==
    /\ LoopRuns
    /\ loop = "preparing"
    /\ NormalizeContract(driving)
    /\ loop' = "driving"
    /\ drivenRevision' = revision'[driving]
    /\ UNCHANGED <<wake, driving, requestVars>>

(* No model, no data, or an error before the first await: the user is asked.*)
PreparesInVain ==
    /\ LoopRuns
    /\ loop = "preparing"
    /\ OpenWaiting(driving)
    /\ loop' = "draining"
    /\ driving' = NoTurn
    /\ UNCHANGED <<wake, drivenRevision, requestVars>>

(* The driver's commits are prepared against the revision it began with.    *)
DriverMayCommit ==
    /\ LoopRuns
    /\ loop = "driving"
    /\ revision[driving] = drivenRevision

(* Mutant: a place the loop does not know.                                  *)
LeavesForGood == loop' = "left" /\ UNCHANGED <<wake, runnerVars, requestVars>>

Leaves == loop' = "leaving" /\ UNCHANGED <<wake, runnerVars, requestVars>>

DriverWaits == DriverMayCommit /\ OpenWaiting(driving) /\ Leaves

GuardWaits(unsafe) == DriverMayCommit /\ StopGuardWaits(driving, unsafe) /\ Leaves

GuardTerminates(outcome) == DriverMayCommit /\ StopGuardTerminates(driving, outcome) /\ Leaves

(* The budget is used up, a model step fails, the revision is stale.        *)
DriverStops ==
    /\ LoopRuns
    /\ loop = "driving"
    /\ Leaves
    /\ UNCHANGED vars

(* Mutant: a turn that still runs is left as it is; the supervisor's check  *)
(* then ends the loop.                                                      *)
ReturnsRunning ==
    /\ LoopRuns
    /\ loop = "leaving"
    /\ loop' = IF status[driving] = "running" THEN "none" ELSE "draining"
    /\ driving' = NoTurn
    /\ UNCHANGED <<vars, wake, drivenRevision, requestVars>>

(* Mutant: a wake runs one turn.                                            *)
ReturnsAndEnds ==
    /\ LoopRuns
    /\ loop = "leaving"
    /\ IF status[driving] = "running" THEN OpenWaiting(driving) ELSE UNCHANGED vars
    /\ loop' = "none"
    /\ driving' = NoTurn
    /\ UNCHANGED <<wake, drivenRevision, requestVars>>

(* A turn that still runs is made to wait; so the supervisor's own check    *)
(* for it after run_turn never holds, and the loop drains on.               *)
Returns ==
    /\ LoopRuns
    /\ loop = "leaving"
    /\ IF status[driving] = "running" THEN OpenWaiting(driving) ELSE UNCHANGED vars
    /\ loop' = "draining"
    /\ driving' = NoTurn
    /\ UNCHANGED <<wake, drivenRevision, requestVars>>

(* An exception gets out of run_turn (the database cannot be opened or      *)
(* written) and ends the task, its event with it.                           *)
Escapes ==
    /\ "escape" \in Faults
    /\ LoopRuns
    /\ loop \in {"preparing", "leaving"}
    /\ loop' = "none"
    /\ wake' = FALSE
    /\ driving' = NoTurn
    /\ UNCHANGED <<vars, drivenRevision, requestVars>>

(* Mutant: the restarted process clears the lane.                           *)
CrashFreesLane ==
    /\ "crash" \in Faults
    /\ loop' = "none"
    /\ wake' = FALSE
    /\ driving' = NoTurn
    /\ branching' = NoTurn
    /\ lane' = NoTurn
    /\ UNCHANGED <<identityVars, status, revision, laneRevision, request, pause,
                   drivenRevision, ranAtOnce>>

(* The process dies and is started again; nothing is dispatched at startup. *)
Crash ==
    /\ "crash" \in Faults
    /\ driving # NoTurn => Room(driving)
    /\ loop' = "none"
    /\ wake' = FALSE
    /\ driving' = NoTurn
    /\ branching' = NoTurn
    /\ UNCHANGED <<vars, drivenRevision, ranAtOnce>>

-----------------------------------------------------------------------------
Commands ==
    \E t \in Turns :
        \/ \E m \in Modes : Submit(t, m)
        \/ Answer(t) \/ Redeliver(t) \/ Pause(t) \/ BranchBegins(t)

LoopStep == Starts \/ PicksUpRunning \/ Rests \/ \E t \in Turns : ActivateHead(t)

RunnerStep ==
    \/ Prepares \/ PreparesInVain \/ DriverWaits \/ DriverStops \/ Returns
    \/ \E unsafe \in BOOLEAN : GuardWaits(unsafe)
    \/ \E outcome \in Outcomes : GuardTerminates(outcome)

BranchStep == BranchCompletes \/ BranchFails

SupervisorNext == Commands \/ LoopStep \/ RunnerStep \/ BranchStep \/ Escapes \/ Crash

SupervisorSpec == SupervisorInit /\ [][SupervisorNext]_supervisorVars

(* The event loop runs whatever is ready; the driver ends by its step, time *)
(* and tool budgets.  Nothing is assumed of users or of faults.             *)
FairSpec == /\ SupervisorSpec
            /\ WF_supervisorVars(LoopStep)
            /\ WF_supervisorVars(RunnerStep)
            /\ WF_supervisorVars(BranchStep)

-----------------------------------------------------------------------------
(* Type invariant.                                                          *)
SupervisorTypeOK ==
    /\ TypeOK
    /\ loop \in LoopStates
    /\ wake \in BOOLEAN
    /\ driving \in Turns \cup {NoTurn}
    /\ drivenRevision \in Nat
    /\ branching \in Turns \cup {NoTurn}
    /\ ranAtOnce \subseteq Turns

(* Nothing runnable is forgotten: while the lane's owner runs, or the lane  *)
(* is free and somebody queues for it, a loop or a branch handler is at it. *)
RunnableIsAttended ==
    \/ loop # "none"
    \/ branching # NoTurn
    \/ IF lane = NoTurn THEN Queued = {} ELSE status[lane] # "running"

(* The runner drives the owner of the lane and nobody else, from its first  *)
(* commit on until its own outcome is committed.                            *)
DriverOwnsLane ==
    /\ loop \in {"preparing", "driving"} => driving = lane /\ status[lane] = "running"
    /\ loop = "leaving" /\ status[driving] \in Live => driving = lane

(* The strengthenings of the proofs.  Where the loop and a branch handler   *)
(* stand, and what they hold there.                                         *)
RunIsPlaced ==
    /\ loop \in {"preparing", "driving", "leaving"} <=> driving # NoTurn
    /\ driving # NoTurn => mode[driving] = "write" /\ status[driving] # "absent"
    /\ branching # NoTurn => lane = branching /\ status[branching] = "running"
    /\ loop \in {"draining", "preparing", "driving"} => branching = NoTurn

SupervisorIInv == IInv /\ SupervisorTypeOK /\ RunIsPlaced /\ DriverOwnsLane

(* A branch handler that no loop runs beside took a lane nobody queued for. *)
QueueIsAttended ==
    /\ RunnableIsAttended
    /\ loop = "none" /\ branching # NoTurn => Queued = {}

(* A queued turn gets to run, unless the turn before it waits for the user. *)
QueueAdvances ==
    \A t \in Turns :
        status[t] = "queued" ~> \/ status[t] # "queued"
                                \/ lane # NoTurn /\ status[lane] = "waiting"

(* Every turn that the process finds running is driven or asked about.      *)
RunningGetsDriven ==
    \A t \in Turns :
        lane = t /\ status[t] = "running" ~> lane # t \/ status[t] = "waiting"

(* The turn was answered and no run of it began since: during a run its     *)
(* revision moves on by a pause at most.                                    *)
AnswerAwaitsRun(t) ==
    /\ status[t] = "running" /\ request[t] = "answered"
    /\ driving # t \/ revision[t] > drivenRevision + 1

(* An answer makes the turn go on: it is prepared for a run again.          *)
AnswerResumes == \A t \in Turns : AnswerAwaitsRun(t) ~> loop = "preparing" /\ driving = t

(* Whatever the handlers, the loop, the runner and the faults do to the     *)
(* database is a transaction of TurnLane.                                   *)
ImplementsTurnLane == Spec
=============================================================================
