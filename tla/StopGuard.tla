------------------------------ MODULE StopGuard ------------------------------
(***************************************************************************)
(* How a turn ends by itself: the completion contract a run normalizes, the *)
(* obligation an export satisfies, the evaluation of a proposed completion  *)
(* and the stop guard's decision (persistence/evaluation_store.py), as the  *)
(* runner (interfaces/production_turn_runner.py) and the driver             *)
(* (runtime/agent_turn_driver.py) call them, one commit after the other,    *)
(* while the user and other commits come between.                           *)
(***************************************************************************)
EXTENDS Integers, FiniteSets

CONSTANTS
    Explicit,      \* whether the words of the message ask for a document
    GoalMode,      \* the goal of the turn
    MaxRevision,   \* bound: revisions of the turn at which it is still answered
    MaxBatches,    \* bound: batches and proposals of a run
    MaxFindings    \* bound: findings of a report

VARIABLES
    subject,    \* the turn: status, revision, whether a pause is pending
    bound,      \* its contract revision, and whether the contract has its obligation
    observed,   \* contract revisions whose obligation was observed satisfied
    left,       \* what the tools of the turn left open
    loop,       \* the run: where it is, the revision it was given, its steps, the proposal
    report,     \* the last evaluation report
    delivered   \* history: the contract revisions in which a document was exported

guardVars == <<subject, bound, observed, left, loop, report, delivered>>

(* _completion_obligations: delivering a document is required, or optional. *)
Required == Explicit \/ GoalMode = "deliver_word"

Work == {"calls", "active", "unsafe"}
Verdicts == {"pass", "warn", "fail", "unknown"}
Dispositions == {"succeed", "partial", "pause", "fail"}

(* FINDING_POLICY: what a code blocks and whether it is the user's to decide*)
(* (required_evidence_missing is as plan_deviation, completion_ready as     *)
(* quality_concern). A model may name any other code.                       *)
Blocking == {"plan_deviation", "research_semantic_ambiguity"}
OfTheUser == {"research_semantic_ambiguity"}
Registered == Blocking \cup {"quality_concern", "loop_no_progress"}
Codes == Registered \cup {"unregistered"}

NoRun == [pc |-> "idle", revision |-> 0, steps |-> 0, asks |-> "succeed"]
NoReport == [verdict |-> "pass", codes |-> {}, contract |-> 0, fresh |-> FALSE]

StopInit ==
    /\ subject = [status |-> "running", revision |-> 1, pausing |-> FALSE]
    /\ bound = [revision |-> 1, ready |-> FALSE, obliged |-> FALSE]
    /\ observed = {}
    /\ left = {}
    /\ loop = NoRun
    /\ report = NoReport
    /\ delivered = {}

At(pc) == loop.pc = pc
Enter(pc) == loop' = [loop EXCEPT !.pc = pc]
Running == subject.status = "running"

(* Every commit makes a report that was just recorded an old one.           *)
Commits == report' = [report EXCEPT !.fresh = FALSE]

(* A run that returns, or raises, leaves a running turn waiting.            *)
EndRun ==
    /\ loop' = NoRun
    /\ IF Running
       THEN subject' = [subject EXCEPT !.status = "waiting", !.revision = @ + 1]
       ELSE UNCHANGED subject
    /\ Commits
    /\ UNCHANGED <<bound, observed, left, delivered>>

-----------------------------------------------------------------------------
(* The runner prepares the run.                                             *)

BeginRun ==
    /\ At("idle") /\ Running
    /\ loop' = [NoRun EXCEPT !.pc = "preparing", !.revision = subject.revision]
    /\ UNCHANGED <<subject, bound, observed, left, report, delivered>>

(* No model, no data, or an exception.                                      *)
RunIsNotReady ==
    /\ At("preparing")
    /\ EndRun

Unchanged == Running /\ subject.revision = loop.revision

(* The key of an obligation is unique in its contract.                      *)
Normalizable == Unchanged /\ ~bound.obliged

NormalizeContract ==
    /\ At("preparing")
    /\ Normalizable
    /\ bound' = [revision |-> bound.revision + 1, ready |-> TRUE, obliged |-> TRUE]
    /\ subject' = [subject EXCEPT !.revision = @ + 1]
    /\ loop' = [loop EXCEPT !.pc = "research", !.revision = @ + 1]
    /\ Commits
    /\ UNCHANGED <<observed, left, delivered>>

NormalizeRaises ==
    /\ At("preparing")
    /\ ~Normalizable
    /\ EndRun

-----------------------------------------------------------------------------
(* The driver: batches of tools, and what they leave.                       *)

HasSteps == loop.steps < MaxBatches
NextStep(pc) == loop' = [loop EXCEPT !.pc = pc, !.steps = @ + 1]

(* What a batch leaves: calls that were not admitted, operations that still *)
(* run, outcomes that nobody knows.                                         *)
RunBatch(open) ==
    /\ At("research") /\ HasSteps
    /\ "unsafe" \in left => "unsafe" \in open
    /\ left' = open
    /\ NextStep("research")
    /\ Commits
    /\ UNCHANGED <<subject, bound, observed, delivered>>

ExportWord ==
    /\ At("research") /\ HasSteps
    /\ delivered' = delivered \cup {bound.revision}
    /\ NextStep("exported")
    /\ Commits
    /\ UNCHANGED <<subject, bound, observed, left>>

RecordObligationState ==
    /\ At("exported")
    /\ IF Running
       THEN /\ observed' = observed \cup {bound.revision}
            /\ Enter("research")
            /\ Commits
            /\ UNCHANGED <<subject, bound, left, delivered>>
       ELSE EndRun

(* The budget or the deadline is used up, the model asks the user, the      *)
(* worker or the gateway fails.                                             *)
DriverGivesUp ==
    /\ At("research")
    /\ EndRun

ProposeCompletion(disposition) ==
    /\ At("research") /\ HasSteps
    /\ loop' = [loop EXCEPT !.pc = "proposed", !.steps = @ + 1, !.asks = disposition]
    /\ UNCHANGED <<subject, bound, observed, left, report, delivered>>

(* _evaluate_stop: the evaluation came with the proposal, or of a step of   *)
(* its own, or there is none.                                               *)
RecordEvaluation(verdict, codes) ==
    /\ At("proposed")
    /\ IF Unchanged /\ codes \subseteq Registered
       THEN /\ report' = [verdict |-> verdict, codes |-> codes,
                          contract |-> bound.revision, fresh |-> TRUE]
            /\ Enter("evaluated")
            /\ UNCHANGED <<subject, bound, observed, left, delivered>>
       ELSE EndRun

-----------------------------------------------------------------------------
(* The stop guard.                                                          *)

(* Mutant: an obligation that was never observed counts as satisfied.       *)
CompleteUnlessObserved == observed = {} \/ bound.revision \in observed

(* goal coverage: the obligation is optional, or its last observation in    *)
(* this revision of the contract says that it is satisfied.                 *)
Complete == Required => bound.revision \in observed

Waits == [status |-> "waiting", pc |-> "idle"]
Continues == [status |-> "running", pc |-> "research"]
Terminates(disposition) ==
    [status |-> CASE disposition = "succeed" -> "succeeded"
                  [] disposition = "partial" -> "partial"
                  [] disposition = "pause" -> "paused"
                  [] disposition = "fail" -> "failed",
     pc |-> "idle"]

Decision ==
    IF "unsafe" \in left THEN Waits
    ELSE IF subject.pausing \/ left # {} THEN Continues
    ELSE IF loop.asks \in {"pause", "fail"} THEN Terminates(loop.asks)
    ELSE IF report.codes \cap OfTheUser # {} THEN Waits
    ELSE IF report.verdict = "unknown" THEN Continues
    ELSE IF ~bound.ready \/ ~Complete
         THEN IF loop.asks = "partial" THEN Terminates("partial") ELSE Continues
    ELSE IF report.codes \cap Blocking # {} THEN Continues
    ELSE Terminates(loop.asks)

(* The report is of this turn and contract, and no commit came since.       *)
Decidable == Unchanged /\ report.contract = bound.revision /\ report.fresh

DecideNaturalStop ==
    /\ At("evaluated")
    /\ Decidable
    /\ Enter(Decision.pc)
    /\ subject' = [subject EXCEPT !.status = Decision.status,
                                  !.revision = IF Decision.status = "running" THEN @ ELSE @ + 1]
    /\ Commits
    /\ UNCHANGED <<bound, observed, left, delivered>>

StopGuardRaises ==
    /\ At("evaluated")
    /\ ~Decidable
    /\ EndRun

-----------------------------------------------------------------------------
(* The others.                                                              *)

AskPause ==
    /\ subject.status \in {"running", "waiting"} /\ ~subject.pausing
    /\ subject' = [subject EXCEPT !.pausing = TRUE, !.revision = @ + 1]
    /\ Commits
    /\ UNCHANGED <<bound, observed, left, loop, delivered>>

(* Calls are cancelled; an operation that runs or is unsafe keeps it open.  *)
Converge ==
    /\ subject.status \in {"running", "waiting"} /\ subject.pausing
    /\ left \cap {"active", "unsafe"} = {}
    /\ subject' = [status |-> "paused", revision |-> subject.revision + 1, pausing |-> FALSE]
    /\ left' = {}
    /\ Commits
    /\ UNCHANGED <<bound, observed, loop, delivered>>

AnswerTurn ==
    /\ subject.status = "waiting" /\ ~subject.pausing /\ At("idle")
    /\ subject.revision < MaxRevision
    /\ subject' = [subject EXCEPT !.status = "running", !.revision = @ + 1]
    /\ Commits
    /\ UNCHANGED <<bound, observed, left, loop, delivered>>

(* An operation ends, or is reconciled.                                     *)
SettleWork(w) ==
    /\ w \in left
    /\ left' = left \ {w}
    /\ Commits
    /\ UNCHANGED <<subject, bound, observed, loop, delivered>>

(* Any other command of the workspace.                                      *)
OtherCommit ==
    /\ report.fresh
    /\ Commits
    /\ UNCHANGED <<subject, bound, observed, left, loop, delivered>>

ProcessEnds ==
    /\ ~At("idle")
    /\ loop' = [NoRun EXCEPT !.pc = "gone"]
    /\ UNCHANGED <<subject, bound, observed, left, report, delivered>>

StopNext ==
    \/ BeginRun \/ RunIsNotReady \/ NormalizeContract \/ NormalizeRaises
    \/ \E open \in SUBSET Work : RunBatch(open)
    \/ ExportWord \/ RecordObligationState \/ DriverGivesUp
    \/ \E disposition \in Dispositions : ProposeCompletion(disposition)
    \/ \E verdict \in Verdicts, codes \in SUBSET Codes :
          Cardinality(codes) <= MaxFindings /\ RecordEvaluation(verdict, codes)
    \/ DecideNaturalStop \/ StopGuardRaises
    \/ AskPause \/ Converge \/ AnswerTurn \/ OtherCommit \/ ProcessEnds
    \/ \E w \in {"active", "unsafe"} : SettleWork(w)

StopSpec == StopInit /\ [][StopNext]_guardVars

-----------------------------------------------------------------------------
(* A turn that ended with success, whole or in part, has earned it: nothing *)
(* of it is open or unknown, the evaluation was of the contract it ends     *)
(* under and left nothing to the user, and with full success the document   *)
(* that the message asks for was exported in that revision of the contract  *)
(* and nothing found speaks against the end (decide_natural_stop).          *)
EndingIsEarned ==
    subject.status \in {"succeeded", "partial"} =>
        /\ left = {}
        /\ report.contract = bound.revision
        /\ report.verdict # "unknown"
        /\ report.codes \cap OfTheUser = {}
        /\ subject.status = "succeeded" =>
              /\ Required => bound.revision \in delivered
              /\ report.codes \cap Blocking = {}

(* What the prompts promise ("answer to go on"), and no run checks because  *)
(* it fails: only a change of the turn keeps a run from normalizing.        *)
AnsweredTurnIsDriven ==
    [][loop.pc = "preparing" /\ Unchanged /\ loop'.pc = "idle" => ~bound.obliged]_guardVars

(* Nor does this hold: an evaluation that failed without a blocking finding *)
(* lets the turn succeed.                                                   *)
FailedEvaluationIsHeard ==
    subject.status = "succeeded" => report.verdict # "fail"
=============================================================================
