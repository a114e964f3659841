---------------------------- MODULE ModelGateway ----------------------------
(***************************************************************************)
(* The model gateway of one turn (persistence/model_gateway_store.py,       *)
(* application/model_gateway_service.py): a step freezes its input and      *)
(* opens one invocation, the invocation makes provider attempts over the    *)
(* configured routes, and at most one attempt gives the step its output.    *)
(* The circuit breakers are shared with the turns of other Workspaces,      *)
(* which appear here as the changes they make to a breaker.                 *)
(*                                                                         *)
(* Nothing is awaited between the preparation of an attempt and its         *)
(* dispatch, so these commits are one action that names the place where     *)
(* they may stop; the send and the sleep before a retry are the awaits.     *)
(***************************************************************************)
EXTENDS Integers, Sequences, FiniteSets

CONSTANTS
    Routes,           \* the sequence of provider routes, the first is primary
    MaxAttempts,      \* attempts per invocation, gateway and budget policy
    MaxTurnAttempts,  \* attempts per turn
    MaxSteps,         \* steps per turn (max_loop_steps)
    MaxTools,         \* tool admissions per turn (max_tool_admissions)
    MaxSameFailure,   \* equal failures that end an invocation
    BeforeFallback,   \* attempts on a route before the next one
    Threshold,        \* failures that open a circuit
    Transient,        \* retry-safe failure codes
    Fatal             \* codes of failures that are certain and not retried

ASSUME GatewayAssumption ==
    /\ Routes \in Seq(STRING) /\ Len(Routes) >= 1
    /\ {MaxAttempts, MaxTurnAttempts, MaxSteps, MaxTools, MaxSameFailure,
        BeforeFallback, Threshold} \subseteq Nat \ {0}
    /\ Transient \cap Fatal = {}

VARIABLES
    turn,         \* the row of turns: status, revision and pause intent
    contract,     \* its completion contract revision
    settings,     \* revision of the model configuration and the main skill
    account,      \* turn_budget_accounts
    baseline,     \* turn_context_baselines, <<>> before the first step
    invocations,  \* model_invocations with their attempts, oldest first
    circuit,      \* ProviderCircuitRegistry, per route
    call          \* where execute_step stands

gatewayVars == <<account, baseline, invocations>>
turnVars == <<turn, contract, settings>>

RouteIds == 1 .. Len(Routes)
Turn == [status : {"running", "waiting", "stopped"}, revision : Nat,
         pausing : BOOLEAN]
Account == [steps : Nat, tools : Nat, attempts : Nat]
Baseline == Nat \X Nat   \* the contract revision and the settings
Circuit == [failures : 0 .. Threshold, opened : {"no", "yes", "cooled"}]
Call == [pc : {"none", "attempt", "sending", "sleeping", "raised", "failed",
               "completed"},
         route : RouteIds, onRoute : Nat]
Attempt == [state : {"created", "dispatch_started", "completed", "failed",
                     "delivery_unknown"},
            code : Transient \cup Fatal \cup
                   {"none", "circuit_open", "credential", "unclassified",
                    "gate"}]
Invocation == [status : {"running", "completed", "failed", "delivery_unknown"},
               attempts : Seq(Attempt),
               output : 0 .. MaxAttempts]
Idle == [pc |-> "none", route |-> 1, onRoute |-> 0]
ClosedCircuit == [failures |-> 0, opened |-> "no"]

GatewayInit ==
    /\ turn = [status |-> "running", revision |-> 1, pausing |-> FALSE]
    /\ contract = 1
    /\ settings = 1
    /\ account = [steps |-> 0, tools |-> 0, attempts |-> 0]
    /\ baseline = <<>>
    /\ invocations = <<>>
    /\ circuit = [r \in RouteIds |-> ClosedCircuit]
    /\ call = Idle

Last(s) == s[Len(s)]
current == Last(invocations)
attempt == Last(current.attempts)

WithAttempt(a) ==
    invocations' = [invocations EXCEPT ![Len(invocations)].attempts =
                        Append(@, a)]
Leave(pc) == call' = [Idle EXCEPT !.pc = pc]
Sleep == call' = [call EXCEPT !.pc = "sleeping"]

(* Mutant: off by one.                                                      *)
HasFallbackBeyond == call.route <= Len(Routes)
HasFallback == call.route < Len(Routes)

-----------------------------------------------------------------------------
(* Freezing a step.                                                         *)

BaselineValues == <<contract, settings>>

(* The turn must run at the revision the driver knows, the budget the       *)
(* driver counts must be the account's, and the baseline of the turn is     *)
(* fixed by its first step.                                                 *)
Freezable(expected, steps, tools) ==
    /\ turn.status = "running"
    /\ turn.revision = expected
    /\ baseline # <<>> => /\ steps = MaxSteps - account.steps
                         /\ tools = MaxTools - account.tools
    /\ account.steps < MaxSteps
    /\ baseline \in {<<>>, BaselineValues}

FreezeStep(expected, steps, tools) ==
    /\ call.pc = "none"
    /\ Freezable(expected, steps, tools)
    /\ account' = [account EXCEPT !.steps = @ + 1]
    /\ baseline' = BaselineValues
    /\ invocations' = Append(invocations, [status |-> "running",
                                           attempts |-> <<>>, output |-> 0])
    /\ call' = [pc |-> "attempt", route |-> 1, onRoute |-> 0]
    /\ UNCHANGED <<turnVars, circuit>>

(* freeze_step raises; nothing of its transaction stays.                    *)
RefuseStep(expected, steps, tools) ==
    /\ call.pc = "none"
    /\ ~Freezable(expected, steps, tools)
    /\ Leave("raised")
    /\ UNCHANGED <<turnVars, gatewayVars, circuit>>

-----------------------------------------------------------------------------
(* One attempt.                                                             *)

Failures(code) ==
    Cardinality({i \in DOMAIN current.attempts :
                    current.attempts[i].code = code})

Preparable ==
    /\ current.status = "running"
    /\ Len(current.attempts) < MaxAttempts
    /\ account.attempts < MaxTurnAttempts
    /\ \A c \in Transient \cup Fatal \cup {"circuit_open"} :
           Failures(c) < MaxSameFailure

(* prepare_attempt raises and nobody closes the invocation.                 *)
RefuseAttempt ==
    /\ call.pc = "attempt"
    /\ ~Preparable
    /\ Leave("raised")
    /\ UNCHANGED <<turnVars, gatewayVars, circuit>>

(* is_open forgets a circuit whose cooldown has passed.                     *)
IsOpen(r) == circuit[r].opened = "yes"
Probe(r) == IF circuit[r].opened = "cooled" THEN ClosedCircuit ELSE circuit[r]
RecordFailure(c) ==
    LET n == IF c.failures < Threshold THEN c.failures + 1 ELSE Threshold
    IN  [failures |-> n,
         opened |-> IF n >= Threshold THEN "yes" ELSE c.opened]

(* prepare_attempt: the attempt and its budget, spent before it is sent.    *)
Prepare(state, code) ==
    /\ call.pc = "attempt"
    /\ Preparable
    /\ account' = [account EXCEPT !.attempts = @ + 1]
    /\ circuit' = [circuit EXCEPT ![call.route] = Probe(call.route)]
    /\ WithAttempt([state |-> state, code |-> code])
    /\ UNCHANGED <<turnVars, baseline>>

(* The attempt is over before the network is touched; it ends the           *)
(* invocation unless another route is left.                                 *)
MeetOpenCircuit ==
    /\ IsOpen(call.route)
    /\ LET last == Len(current.attempts) + 1 = MaxAttempts
           over == ~HasFallback \/ last
           a == [state |-> "failed", code |-> "circuit_open"]
       IN  /\ call.pc = "attempt" /\ Preparable
           /\ account' = [account EXCEPT !.attempts = @ + 1]
           /\ invocations' =
                [invocations EXCEPT
                    ![Len(invocations)].attempts = Append(@, a),
                    ![Len(invocations)].status =
                        IF over THEN "failed" ELSE @]
           /\ call' = IF over THEN [Idle EXCEPT !.pc = "failed"]
                      ELSE [pc |-> "attempt", route |-> call.route + 1,
                            onRoute |-> 0]
    /\ UNCHANGED <<turnVars, baseline, circuit>>

LackCredential ==
    /\ ~IsOpen(call.route)
    /\ call.pc = "attempt" /\ Preparable
    /\ account' = [account EXCEPT !.attempts = @ + 1]
    /\ circuit' = [circuit EXCEPT ![call.route] = Probe(call.route)]
    /\ invocations' =
         [invocations EXCEPT
             ![Len(invocations)].attempts =
                 Append(@, [state |-> "failed", code |-> "credential"]),
             ![Len(invocations)].status = "failed"]
    /\ Leave("failed")
    /\ UNCHANGED <<turnVars, baseline>>

(* mark_dispatch_started finds the turn stopped, or the guard in front of   *)
(* it refuses, or the process dies: the attempt stays as it was created.    *)
RefuseDispatch ==
    /\ ~IsOpen(call.route)
    /\ Prepare("created", "none")
    /\ Leave("raised")

Dispatch ==
    /\ ~IsOpen(call.route)
    /\ turn.status = "running"
    /\ Prepare("dispatch_started", "none")
    /\ call' = [call EXCEPT !.pc = "sending", !.onRoute = @ + 1]

-----------------------------------------------------------------------------
(* The answer.                                                              *)

Close(state, code, status) ==
    invocations' =
        [invocations EXCEPT ![Len(invocations)] =
            [@ EXCEPT !.status = status,
                      !.attempts[Len(current.attempts)] =
                          [attempt EXCEPT !.state = state, !.code = code]]]

(* Mutant: a retry follows whatever the transport could not classify.       *)
FailSafelyUnknown(code) ==
    /\ call.pc = "sending"
    /\ circuit' = [circuit EXCEPT ![call.route] = RecordFailure(@)]
    /\ Len(current.attempts) < MaxAttempts
    /\ Close("delivery_unknown", code, "running")
    /\ Sleep
    /\ UNCHANGED <<turnVars, account, baseline>>

(* A failure after which another attempt cannot repeat an effect.           *)
FailSafely(code) ==
    /\ call.pc = "sending"
    /\ circuit' = [circuit EXCEPT ![call.route] = RecordFailure(@)]
    /\ IF Len(current.attempts) < MaxAttempts
       THEN Close("failed", code, "running") /\ Sleep
       ELSE Close("failed", code, "failed") /\ Leave("failed")
    /\ UNCHANGED <<turnVars, account, baseline>>

(* The sleep is over; a route that had its attempts gives way to the next.  *)
Wake ==
    /\ call.pc = "sleeping"
    /\ call' = IF call.onRoute >= BeforeFallback /\ HasFallback
               THEN [pc |-> "attempt", route |-> call.route + 1, onRoute |-> 0]
               ELSE [call EXCEPT !.pc = "attempt"]
    /\ UNCHANGED <<turnVars, gatewayVars, circuit>>

(* A refusal by the provider, or an output the sensitive gate holds back.   *)
FailForGood(code) ==
    /\ call.pc = "sending"
    /\ Close("failed", code, "failed")
    /\ Leave("failed")
    /\ UNCHANGED <<turnVars, account, baseline, circuit>>

(* The request may have been answered: it is never sent again.              *)
LoseTrack ==
    /\ call.pc = "sending"
    /\ Close("delivery_unknown", "unclassified", "delivery_unknown")
    /\ Leave("failed")
    /\ UNCHANGED <<turnVars, account, baseline, circuit>>

CompleteAttempt ==
    /\ call.pc = "sending"
    /\ circuit' = [circuit EXCEPT ![call.route] = ClosedCircuit]
    /\ invocations' =
        [invocations EXCEPT ![Len(invocations)] =
            [status |-> "completed",
             output |-> Len(current.attempts),
             attempts |-> [current.attempts EXCEPT
                 ![Len(current.attempts)] =
                     [attempt EXCEPT !.state = "completed"]]]]
    /\ Leave("completed")
    /\ UNCHANGED <<turnVars, account, baseline>>

(* A cancelled task: no handler of the gateway catches CancelledError.      *)
Cancel ==
    /\ call.pc \in {"sending", "sleeping"}
    /\ Leave("raised")
    /\ UNCHANGED <<turnVars, gatewayVars, circuit>>

-----------------------------------------------------------------------------
(* The turns of other Workspaces, and time.                                 *)

OtherTurnFails(r) ==
    /\ circuit' = [circuit EXCEPT ![r] = RecordFailure(@)]
    /\ UNCHANGED <<turnVars, gatewayVars, call>>

OtherTurnSucceeds(r) ==
    /\ circuit' = [circuit EXCEPT ![r] = ClosedCircuit]
    /\ UNCHANGED <<turnVars, gatewayVars, call>>

CoolDown(r) ==
    /\ circuit[r].opened = "yes"
    /\ circuit' = [circuit EXCEPT ![r].opened = "cooled"]
    /\ UNCHANGED <<turnVars, gatewayVars, call>>

ExecuteStep ==
    \/ RefuseAttempt
    \/ MeetOpenCircuit
    \/ LackCredential
    \/ RefuseDispatch
    \/ Dispatch
    \/ \E c \in Transient : FailSafely(c)
    \/ \E c \in Fatal \cup {"gate"} : FailForGood(c)
    \/ LoseTrack
    \/ CompleteAttempt
    \/ Wake

Elsewhere ==
    \E r \in RouteIds : OtherTurnFails(r) \/ OtherTurnSucceeds(r) \/ CoolDown(r)
=============================================================================
