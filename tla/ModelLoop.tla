------------------------------ MODULE ModelLoop ------------------------------
(***************************************************************************)
(* The driver's loop of one turn (runtime/agent_turn_driver.py) composed    *)
(* with the model gateway and the turn worker, over the runs of the turn:   *)
(* a run gets a driver and a worker, unless the runner cannot prepare it.   *)
(*                                                                         *)
(* The worker is disposable (runtime/turn_worker.py, worker_process.py,     *)
(* ipc_contract.py) and holds no authority: it checks that the driver's     *)
(* messages come in the order of the protocol and splits the model's output *)
(* into proposals.  Messages carry what the protocol decides on: the        *)
(* ordinal, the budgets and the number of tool calls.                       *)
(*                                                                         *)
(* What the tool broker and the stop guard do is theirs; here they cost     *)
(* budget, go on, wait or end the turn.                                     *)
(***************************************************************************)
EXTENDS ModelGateway

CONSTANTS
    MaxRuns,    \* bound: runs of the driver
    MaxChanges  \* bound: revisions of the model configuration

VARIABLES
    worker,     \* the child: its state, next ordinal, budgets, whether an
                \* output is pending
    toWorker,   \* lines written to its stdin and not read yet
    toDriver,   \* lines of its stdout not read yet
    driver,     \* pc, steps and tools counted in this run, loop ordinal,
                \* the turn revision it was given
    runs        \* runs of the driver so far (bound)

workerVars == <<worker, toWorker, toDriver>>
loopVars == <<turn, contract, settings, account, baseline, invocations,
              circuit, call, worker, toWorker, toDriver, driver, runs>>

-----------------------------------------------------------------------------
(* The worker of a run and the pipes to it.                                 *)

Worker == [state : {"none", "booting", "ready", "failed", "exited"},
           next : Nat, pending : BOOLEAN, steps : Int, tools : Int]
DriverMessages == {"advance", "output", "shutdown"}
WorkerMessages == {"worker_ready", "proposal", "processed", "worker_failed",
                   "worker_stopping"}
NoWorker == [state |-> "none", next |-> 1, pending |-> FALSE,
             steps |-> 0, tools |-> 0]

WorkerInit ==
    /\ worker = NoWorker
    /\ toWorker = <<>>
    /\ toDriver = <<>>

Alive == worker.state \in {"booting", "ready"}

(* A new process and new pipes; the bootstrap is the first line.            *)
SpawnWorker(steps, tools) ==
    /\ worker' = [NoWorker EXCEPT !.state = "booting", !.steps = steps,
                                  !.tools = tools]
    /\ toWorker' = <<>>
    /\ toDriver' = <<>>

Send(message) == toWorker' = Append(toWorker, message)
Emit(message) == toDriver' = Append(toDriver, message)

(* Any exception of the child: one last event and exit code 1.              *)
FailWorker ==
    /\ Emit([kind |-> "worker_failed"])
    /\ worker' = [NoWorker EXCEPT !.state = "failed"]

Boot ==
    /\ worker.state = "booting"
    /\ worker' = [worker EXCEPT !.state = "ready"]
    /\ Emit([kind |-> "worker_ready"])
    /\ UNCHANGED toWorker

Reading(kind) ==
    /\ worker.state = "ready"
    /\ toWorker # <<>>
    /\ Head(toWorker).kind = kind
    /\ toWorker' = Tail(toWorker)

Acceptable(m) ==
    /\ ~worker.pending
    /\ m.ordinal = worker.next
    /\ m.steps <= worker.steps
    /\ m.tools <= worker.tools

TakeAdvance ==
    /\ Reading("advance")
    /\ LET m == Head(toWorker)
       IN  IF Acceptable(m)
           THEN /\ worker' = [worker EXCEPT !.pending = TRUE,
                                            !.steps = m.steps,
                                            !.tools = m.tools]
                /\ Emit([kind |-> "proposal", ordinal |-> m.ordinal])
           ELSE FailWorker

(* An output with more tool calls than the budget leaves kills the worker;  *)
(* otherwise its proposals are followed by the event that closes the step.  *)
TakeOutput ==
    /\ Reading("output")
    /\ LET m == Head(toWorker)
       IN  IF /\ worker.pending
              /\ m.ordinal = worker.next
              /\ m.calls <= worker.tools
           THEN /\ worker' = [worker EXCEPT !.pending = FALSE,
                                            !.next = @ + 1,
                                            !.steps = @ - 1]
                /\ Emit([kind |-> "processed", calls |-> m.calls,
                         says |-> m.says])
           ELSE FailWorker

TakeShutdown ==
    /\ Reading("shutdown")
    /\ worker' = [NoWorker EXCEPT !.state = "exited"]
    /\ Emit([kind |-> "worker_stopping"])

(* The operating system ends the process without a word.                    *)
KillWorker ==
    /\ Alive
    /\ worker' = [NoWorker EXCEPT !.state = "failed"]
    /\ UNCHANGED <<toWorker, toDriver>>

WorkerStep == Boot \/ TakeAdvance \/ TakeOutput \/ TakeShutdown

-----------------------------------------------------------------------------
(* The driver.                                                              *)

NoDriver == [pc |-> "idle", steps |-> 0, tools |-> 0, ordinal |-> 0,
             revision |-> 0]

Init ==
    /\ GatewayInit
    /\ WorkerInit
    /\ driver = NoDriver
    /\ runs = 0

Goto(pc) == driver' = [driver EXCEPT !.pc = pc]
driverless == <<turnVars, gatewayVars, circuit, runs>>

RemainingSteps == MaxSteps - driver.steps
RemainingTools == MaxTools - driver.tools

-----------------------------------------------------------------------------
(* A run of the driver.                                                     *)

CanRun ==
    /\ driver.pc = "idle"
    /\ turn.status = "running" /\ ~turn.pausing
    /\ runs < MaxRuns

(* The contract of the turn has no obligations yet: the key of an obligation*)
(* is unique in a contract, whatever its revision.                          *)
HasNoObligations == contract = 1

(* What a run hands to a driver: the turn as normalizing left it.  The      *)
(* instructions, tools and files it names are left out.                     *)
Configured(revision) == [NoDriver EXCEPT !.pc = "starting", !.revision = revision]

(* _run_turn normalizes the completion contract, a new revision of it and   *)
(* of the turn, and starts a driver.                                        *)
StartDriver ==
    /\ CanRun
    /\ HasNoObligations
    /\ runs' = runs + 1
    /\ contract' = contract + 1
    /\ turn' = [turn EXCEPT !.revision = @ + 1]
    /\ driver' = Configured(turn.revision + 1)
    /\ SpawnWorker(MaxSteps, MaxTools)
    /\ call' = Idle
    /\ UNCHANGED <<settings, gatewayVars, circuit>>

(* There is no model or no data, or normalizing raises, as it does in every *)
(* run after the first one that was prepared: the turn waits.               *)
RunEndsEarly ==
    /\ CanRun
    /\ runs' = runs + 1
    /\ turn' = [turn EXCEPT !.status = "waiting", !.revision = @ + 1]
    /\ UNCHANGED <<contract, settings, gatewayVars, circuit, call, workerVars, driver>>

(* start: only worker_ready lets the loop begin; on anything else the       *)
(* worker is terminated and the run is over.                                *)
HearReady ==
    /\ driver.pc = "starting"
    /\ toDriver # <<>>
    /\ toDriver' = Tail(toDriver)
    /\ IF Head(toDriver).kind = "worker_ready"
       THEN Goto("loop") /\ UNCHANGED worker
       ELSE Goto("over") /\ worker' = [NoWorker EXCEPT !.state = "exited"]
    /\ UNCHANGED <<driverless, toWorker, call>>

FailToStart ==
    /\ driver.pc = "starting"
    /\ toDriver = <<>>
    /\ worker' = [NoWorker EXCEPT !.state = "exited"]
    /\ Goto("over")
    /\ UNCHANGED <<driverless, toWorker, toDriver, call>>

(* The budget of the run is used up, or its deadline has passed.            *)
GiveUp ==
    /\ driver.pc = "loop"
    /\ Goto("stop")
    /\ UNCHANGED <<driverless, workerVars, call>>

Advance ==
    /\ driver.pc = "loop"
    /\ driver.steps < MaxSteps
    /\ driver' = [driver EXCEPT !.pc = "advancing", !.ordinal = @ + 1]
    /\ Send([kind |-> "advance", ordinal |-> driver.ordinal + 1,
             steps |-> RemainingSteps, tools |-> RemainingTools])
    /\ UNCHANGED <<driverless, worker, toDriver, call>>

(* The deadline passed while the model worked: its output is not used.      *)
MissDeadline ==
    /\ driver.pc = "step"
    /\ call.pc = "completed"
    /\ driver' = [driver EXCEPT !.pc = "stop", !.steps = @ + 1]
    /\ UNCHANGED <<driverless, workerVars, call>>

(* receive: the wrong line, or none within the timeout, raises.             *)
HearProposal ==
    /\ driver.pc = "advancing"
    /\ toDriver # <<>>
    /\ toDriver' = Tail(toDriver)
    /\ IF Head(toDriver).kind = "proposal"
       THEN Goto("step") /\ call' = Idle
       ELSE Goto("stop") /\ UNCHANGED call
    /\ UNCHANGED <<driverless, worker, toWorker>>

(* Mutant: the wait for a proposal has no limit.                            *)
TimeOutOfOutput ==
    /\ driver.pc = "feeding"
    /\ toDriver = <<>>
    /\ Goto("stop")
    /\ UNCHANGED <<driverless, workerVars, call>>

TimeOut ==
    /\ driver.pc \in {"advancing", "feeding"}
    /\ toDriver = <<>>
    /\ Goto("stop")
    /\ UNCHANGED <<driverless, workerVars, call>>

(* The model step of the loop, or that of the independent evaluator.        *)
Freeze ==
    /\ driver.pc \in {"step", "evaluate"}
    /\ \/ FreezeStep(driver.revision, RemainingSteps, RemainingTools)
       \/ RefuseStep(driver.revision, RemainingSteps, RemainingTools)
    /\ UNCHANGED <<workerVars, driver, runs>>

RunStep ==
    /\ driver.pc \in {"step", "evaluate"}
    /\ ExecuteStep \/ Cancel
    /\ UNCHANGED <<workerVars, driver, runs>>

(* execute_step raised, or its outcome has no output.                       *)
StepFails ==
    /\ driver.pc \in {"step", "evaluate"}
    /\ call.pc \in {"raised", "failed"}
    /\ driver' = [driver EXCEPT !.pc = "stop",
                  !.steps = IF call.pc = "failed" THEN @ + 1 ELSE @]
    /\ UNCHANGED <<driverless, workerVars, call>>

(* The output goes to the worker: tool calls, a request to wait, or the     *)
(* proposal to complete, which is heard only without tool calls.            *)
FeedOutput(calls, says) ==
    /\ says = "complete" => calls = 0
    /\ driver.pc = "step"
    /\ call.pc = "completed"
    /\ driver' = [driver EXCEPT !.pc = "feeding", !.steps = @ + 1]
    /\ Send([kind |-> "output", ordinal |-> driver.ordinal,
             calls |-> calls, says |-> says])
    /\ UNCHANGED <<driverless, worker, toDriver, call>>

(* The worker's answer to an output, taken from the pipe.                   *)
reply == Head(toDriver)
Processed(says) == reply.kind = "processed" /\ reply.says = says
HearReply ==
    /\ driver.pc = "feeding"
    /\ toDriver # <<>>
    /\ toDriver' = Tail(toDriver)
    /\ call' = Idle
    /\ UNCHANGED <<contract, settings, baseline, invocations, circuit, runs,
                   worker, toWorker>>

HearFailure ==
    /\ HearReply
    /\ reply.kind = "processed" => reply.says = "wait" /\ reply.calls > 0
    /\ Goto("stop")
    /\ UNCHANGED <<turn, account>>

(* The broker admits calls of the output one by one, or rejects the plan.   *)
HearTools(admitted) ==
    /\ HearReply
    /\ Processed("go on") /\ reply.calls > 0
    /\ admitted <= reply.calls
    /\ driver' = [driver EXCEPT !.pc = "loop", !.tools = @ + admitted]
    /\ account' = [account EXCEPT !.tools = @ + admitted]
    /\ UNCHANGED turn

(* A waiting request is opened at the revision the driver knows.            *)
HearWaiting ==
    /\ HearReply
    /\ Processed("wait") /\ reply.calls = 0
    /\ Goto("stop")
    /\ turn' = IF turn.status = "running" /\ turn.revision = driver.revision
               THEN [turn EXCEPT !.status = "waiting", !.revision = @ + 1]
               ELSE turn
    /\ UNCHANGED account

(* Text alone sends the driver back to the model.                           *)
HearText ==
    /\ HearReply
    /\ Processed("go on") /\ reply.calls = 0
    /\ Goto("loop")
    /\ UNCHANGED <<turn, account>>

(* A completion goes to the independent evaluator if a step is left for it, *)
(* and then to the stop guard.                                              *)
HearCompletion(evaluator) ==
    /\ HearReply
    /\ Processed("complete") /\ reply.calls = 0
    /\ evaluator => driver.steps < MaxSteps
    /\ Goto(IF evaluator THEN "evaluate" ELSE "guard")
    /\ UNCHANGED <<turn, account>>

Evaluated ==
    /\ driver.pc = "evaluate"
    /\ call.pc = "completed"
    /\ driver' = [driver EXCEPT !.pc = "guard", !.steps = @ + 1]
    /\ UNCHANGED <<driverless, workerVars, call>>

(* decide_natural_stop: the turn ends, waits, or goes on with feedback.     *)
Guard(decision) ==
    /\ driver.pc = "guard"
    /\ LET valid == turn.status = "running" /\ turn.revision = driver.revision
       IN  /\ Goto(IF valid /\ decision = "running" THEN "loop" ELSE "stop")
           /\ turn' = IF valid /\ decision # "running"
                      THEN [turn EXCEPT !.revision = @ + 1,
                                        !.status = decision]
                      ELSE turn
    /\ UNCHANGED <<contract, settings, gatewayVars, circuit, runs, workerVars,
                   call>>

(* finally: a worker that has not exited is asked to stop.                  *)
AskToStop ==
    /\ driver.pc = "stop"
    /\ IF worker.state \in {"booting", "ready"}
       THEN Goto("stopping") /\ Send([kind |-> "shutdown"])
       ELSE Goto("over") /\ UNCHANGED toWorker
    /\ UNCHANGED <<driverless, worker, toDriver, call>>

(* Whatever line comes first, or none in time, the driver is done.          *)
HearStopping ==
    /\ driver.pc = "stopping"
    /\ toDriver' = IF toDriver = <<>> THEN <<>> ELSE Tail(toDriver)
    /\ Goto("over")
    /\ UNCHANGED <<driverless, worker, toWorker, call>>

(* _run_turn: a turn that still runs is made to wait for the user.          *)
FinishRun ==
    /\ driver.pc = "over"
    /\ driver' = NoDriver
    /\ call' = Idle
    /\ toDriver' = <<>>
    /\ turn' = IF turn.status = "running"
               THEN [turn EXCEPT !.status = "waiting", !.revision = @ + 1]
               ELSE turn
    /\ UNCHANGED <<contract, settings, gatewayVars, circuit, runs, worker,
                   toWorker>>

-----------------------------------------------------------------------------
(* The user.                                                                *)

Answer ==
    /\ turn.status = "waiting" /\ ~turn.pausing
    /\ turn' = [turn EXCEPT !.status = "running", !.revision = @ + 1]
    /\ UNCHANGED <<contract, settings, gatewayVars, circuit, call, workerVars,
                   driver, runs>>

RequestPause ==
    /\ turn.status \in {"running", "waiting"} /\ ~turn.pausing
    /\ turn' = [turn EXCEPT !.pausing = TRUE, !.revision = @ + 1]
    /\ UNCHANGED <<contract, settings, gatewayVars, circuit, call, workerVars,
                   driver, runs>>

ConvergePause ==
    /\ turn.status \in {"running", "waiting"} /\ turn.pausing
    /\ turn' = [turn EXCEPT !.status = "stopped", !.revision = @ + 1]
    /\ UNCHANGED <<contract, settings, gatewayVars, circuit, call, workerVars,
                   driver, runs>>

(* The configuration is resolved when a run starts: a change counts from the *)
(* next run on, so it is taken while the turn waits for that.               *)
Reconfigure ==
    /\ driver.pc = "idle" /\ turn.status = "waiting"
    /\ settings <= MaxChanges
    /\ settings' = settings + 1
    /\ UNCHANGED <<turn, contract, gatewayVars, circuit, call, workerVars,
                   driver, runs>>

(* The service dies; the registry of circuits and the worker die with it.   *)
Crash ==
    /\ driver.pc # "idle"
    /\ driver' = NoDriver
    /\ call' = Idle
    /\ circuit' = [r \in RouteIds |-> ClosedCircuit]
    /\ worker' = [NoWorker EXCEPT !.state = "exited"]
    /\ toWorker' = <<>> /\ toDriver' = <<>>
    /\ UNCHANGED <<turnVars, gatewayVars, runs>>

DriverStep ==
    \/ HearReady \/ FailToStart \/ GiveUp \/ Advance \/ HearProposal
    \/ TimeOut \/ Freeze \/ RunStep \/ StepFails
    \/ \E calls \in 0 .. MaxTools + 1, says \in {"go on", "wait", "complete"} :
           FeedOutput(calls, says)
    \/ HearFailure \/ HearWaiting \/ HearText
    \/ \E n \in 0 .. MaxTools : HearTools(n)
    \/ \E b \in BOOLEAN : HearCompletion(b)
    \/ MissDeadline \/ Evaluated
    \/ \E decision \in {"running", "waiting", "stopped"} : Guard(decision)
    \/ AskToStop \/ HearStopping \/ FinishRun

Child ==
    /\ WorkerStep \/ KillWorker
    /\ UNCHANGED <<turnVars, gatewayVars, circuit, call, driver, runs>>

(* Only a step reads the circuits: what the other turns do to them is       *)
(* taken just before a step and at the awaits of one.                       *)
Others ==
    /\ \/ call.pc \in {"sending", "sleeping"}
       \/ driver.pc = "step" /\ call.pc = "none"
    /\ Elsewhere
    /\ UNCHANGED <<workerVars, driver, runs>>

Next ==
    \/ StartDriver \/ RunEndsEarly \/ DriverStep \/ Child \/ Others
    \/ Crash \/ Answer \/ RequestPause \/ ConvergePause \/ Reconfigure

(* The driver's task is always scheduled, its receives, sends and sleeps    *)
(* are bounded by timeouts, and the child runs.                             *)
Fairness ==
    /\ WF_loopVars(DriverStep)
    /\ WF_loopVars(WorkerStep /\ UNCHANGED <<turnVars, gatewayVars, circuit,
                                             call, driver, runs>>)

Spec == Init /\ [][Next]_loopVars /\ Fairness
-----------------------------------------------------------------------------
(* Type invariant.                                                          *)
LoopTypeOK ==
    /\ turn \in Turn /\ contract \in Nat /\ settings \in Nat
    /\ account \in Account /\ baseline \in {<<>>} \cup Baseline
    /\ invocations \in Seq(Invocation)
    /\ circuit \in [RouteIds -> Circuit] /\ call \in Call
    /\ worker \in Worker
    /\ \A i \in DOMAIN toWorker : toWorker[i].kind \in DriverMessages
    /\ \A i \in DOMAIN toDriver : toDriver[i].kind \in WorkerMessages
    /\ driver.steps \in 0 .. MaxSteps /\ driver.tools \in 0 .. MaxTools

(* An invocation moves on only from an attempt that certainly failed: a     *)
(* request that may have been answered is the last of its invocation, and   *)
(* the invocation's outcome is that of its last attempt (can_retry in       *)
(* _execute_step, fail_attempt, complete_attempt).                          *)
NoRepeatAfterUnknown ==
    \A i \in DOMAIN invocations :
        LET inv == invocations[i]
            n == Len(inv.attempts)
        IN  /\ \A k \in 1 .. n - 1 :
                   /\ inv.attempts[k].state = "failed"
                   /\ inv.attempts[k].code \in Transient \cup {"circuit_open"}
            /\ inv.status # "running" =>
                   n > 0 /\ inv.attempts[n].state = inv.status
            /\ inv.output = IF inv.status = "completed" THEN n ELSE 0
            /\ inv.status = "running" =>
                   \A k \in 1 .. n : inv.attempts[k].state
                                          \notin {"completed", "delivery_unknown"}

(* The worker and the driver count steps and budgets apart, also when the   *)
(* evaluator spends steps the worker never sees: the worker refuses no      *)
(* message of the driver but an output with too many calls (main of         *)
(* worker_process.py against the loop of agent_turn_driver.py).             *)
WorkerInStep ==
    worker.state = "ready" /\ toWorker # <<>> =>
        LET m == Head(toWorker)
        IN  /\ m.kind = "advance" => Acceptable(m)
            /\ m.kind = "output" => worker.pending /\ m.ordinal = worker.next

(* Every run of the driver ends, and the worker it started is gone          *)
(* afterwards, whatever line was late or never came.                        *)
RunsEnd == driver.pc # "idle" ~> (driver.pc = "idle" /\ ~Alive)
=============================================================================
