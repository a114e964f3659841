--------------------------- MODULE AnalysisOutputs ---------------------------
(***************************************************************************)
(* Programs that a turn runs in the sandbox, the artifacts they leave, and  *)
(* the way of such an artifact into a document: the agent classifies what a *)
(* run has produced (runtime/sandbox_tool_executor.py,                      *)
(* interfaces/windows_sandbox_executor.py, runtime/analysis_output_executor *)
(* .py), the user adopts it in a later turn (persistence/                   *)
(* analysis_output_store.py), and the evidence is validated for each use    *)
(* (persistence/evidence_eligibility_store.py).                             *)
(*                                                                         *)
(* The record of an artifact says what its last verification found; its     *)
(* file can be lost or altered at any moment.                               *)
(***************************************************************************)
EXTENDS Documents

CONSTANTS
    Executions,  \* operations of the tools python.run and shell.run
    Names,       \* names of files that a program can write to its outputs
    Code         \* the artifact that holds the program

ASSUME AnalysisAssumption == Code \notin Names

VARIABLES
    execution,   \* operations.status, the turn and the inputs of each run
    stock,       \* artifact_states of the artifacts the runs left
    lost,        \* artifacts whose file is not what was recorded
    output,      \* analysis_outputs with their classification, by run
    adoption     \* analysis_output_adoptions with their evidence, by run

analysisVars == <<execution, stock, lost, output, adoption>>

Artifacts == Executions \X (Names \cup {Code})
Recorded == {a \in Artifacts : stock[a] # "absent"}
Left(r) == {a \in Recorded : a[1] = r}
Unresolved == {"outcome_unknown", "integrity_violation", "completed_unreconciled"}
Ran == [status : {"absent", "handoff_committed", "completed", "failed"} \cup Unresolved,
        turn : Nat, inputs : SUBSET Artifacts]
Stock == [Artifacts -> {"absent", "available", "unavailable"}]

(* The kinds differ in one thing: "unknown" is not for documents.           *)
Kinds == {"table", "unknown"}

(* Any role but "supporting" makes an artifact one the user can be shown.   *)
Output == [kind : Kinds, artifacts : SUBSET Artifacts, shown : SUBSET Artifacts, turn : Nat]

(* An adoption, its evidence record and its eligibility are one commit.     *)
AnalysisEvidence == [turn : Nat, path : Paths]

AnalysisInit ==
    /\ execution = [r \in Executions |-> [status |-> "absent", turn |-> 0, inputs |-> {}]]
    /\ stock = [a \in Artifacts |-> "absent"]
    /\ lost = {}
    /\ output = [r \in Executions |-> None]
    /\ adoption = [r \in Executions |-> None]

-----------------------------------------------------------------------------
(* A run in the sandbox.                                                    *)

(* Inputs are artifacts whose record and file are as they were captured;    *)
(* nobody asks what became of the run that left them.                       *)
ArtifactPath(a) == stock[a] = "available" /\ a \notin lost

Bindable(inputs) == \A a \in inputs : ArtifactPath(a)

Execute(n, r, inputs) ==
    /\ Free(n)
    /\ execution[r].status = "absent"
    /\ IF Bindable(inputs)
       THEN /\ execution' = [execution EXCEPT ![r] =
                   [status |-> "handoff_committed", turn |-> n, inputs |-> inputs]]
            /\ Continue(n, [step |-> "running", run |-> r])
       ELSE /\ execution' = [execution EXCEPT ![r] =
                   [status |-> "failed", turn |-> n, inputs |-> {}]]
            /\ UNCHANGED call
    /\ Committed
    /\ UNCHANGED <<turnVars, stock, lost, output, adoption>>

Finish(n, r, status) ==
    /\ execution' = [execution EXCEPT ![r].status = status]
    /\ Continue(n, Idle)
    /\ Committed
    /\ UNCHANGED <<turnVars, lost, output, adoption>>

(* What the sandbox can raise: no isolation or a credential in an output, a *)
(* timeout or a failing host, an alias among the files it left.             *)
SandboxErrors == {"failed", "outcome_unknown", "integrity_violation"}

FinishError(n, status) ==
    /\ call[n].step = "running"
    /\ Finish(n, call[n].run, status)
    /\ UNCHANGED stock

Captured(r, written) == {r} \X (written \cup {Code})

(* The program ended; it and the files it wrote are captured while the run  *)
(* is still handed off.  They are captured whatever its exit code is.       *)
RecordProduced(n, written) ==
    LET r == call[n].run
    IN  /\ call[n].step = "running"
        /\ execution[r].status = "handoff_committed"
        /\ stock' = [a \in Artifacts |-> IF a \in Captured(r, written)
                                         THEN "available" ELSE stock[a]]
        /\ Continue(n, [step |-> "captured", run |-> r])
        /\ Committed
        /\ UNCHANGED <<turnVars, execution, lost, output, adoption>>

CaptureFails(n) ==
    /\ call[n].step = "running"
    /\ Finish(n, call[n].run, "completed_unreconciled")
    /\ UNCHANGED stock

CompleteExecution(n, exit) ==
    /\ call[n].step = "captured"
    /\ Finish(n, call[n].run, IF exit = 0 THEN "completed" ELSE "failed")
    /\ UNCHANGED stock

(* A run whose process died is never repeated; what it had captured stays.  *)
RecoverExecution(r, status) ==
    /\ execution[r].status = "handoff_committed"
    /\ call[execution[r].turn] = Idle
    /\ turn.path = None
    /\ execution' = [execution EXCEPT ![r].status = status]
    /\ Committed
    /\ UNCHANGED <<turnVars, call, stock, lost, output, adoption>>

-----------------------------------------------------------------------------
(* Files get lost, and verifications find out.                              *)

Lose(a) ==
    /\ a \notin lost
    /\ lost' = lost \cup {a}
    /\ UNCHANGED <<turnVars, undisturbed, call, execution, stock, output, adoption>>

Found(a) == [stock EXCEPT ![a] = IF a \in lost THEN "unavailable" ELSE "available"]

(* Another command verifies an artifact.                                    *)
VerifyArtifact(a) ==
    /\ stock' = Found(a)
    /\ stock' # stock
    /\ Committed
    /\ UNCHANGED <<turnVars, call, execution, lost, output, adoption>>

-----------------------------------------------------------------------------
(* Classifying.                                                             *)

RequestClassification(n, r) ==
    /\ Free(n)
    /\ Continue(n, [step |-> "classify", run |-> r])
    /\ UNCHANGED <<turnVars, undisturbed, analysisVars>>

(* What can be chosen: files of the run, the program apart.                 *)
Choices(r) == SUBSET (Left(r) \ {<<r, Code>>}) \ {{}}

(* The classification reads the run, the program, its inputs and the chosen *)
(* outputs, and asks that they are there.                                   *)
Classifiable(n, r, chosen) ==
    /\ execution[r].status = "completed"
    /\ execution[r].turn = n
    /\ \A a \in {<<r, Code>>} \cup execution[r].inputs \cup chosen : stock[a] = "available"

(* One for each run, and for good: the run is unique, the rows immutable.   *)
Classify(n, kind) ==
    LET r == call[n].run
    IN  /\ call[n].step = "classify"
        /\ output[r] = None
        /\ \E chosen \in Choices(r) :
             /\ Classifiable(n, r, chosen)
             /\ \E shown \in SUBSET chosen :
                  output' = [output EXCEPT ![r] =
                      [kind |-> kind, artifacts |-> chosen, shown |-> shown, turn |-> n]]
        /\ Continue(n, Idle)
        /\ Committed
        /\ UNCHANGED <<turnVars, execution, stock, lost, adoption>>

-----------------------------------------------------------------------------
(* Adopting.                                                                *)

(* What was lost already when the user's confirmation came in is kept with  *)
(* the call for the property ConfirmedIsThere.                              *)
RequestAdoption(n, r, preview) ==
    /\ Free(n)
    /\ output[r] # None
    /\ Continue(n, [step |-> "verify", run |-> r, preview |-> preview,
                    left |-> output[r].artifacts, verified |-> {}, lost |-> lost])
    /\ UNCHANGED <<turnVars, undisturbed, analysisVars>>

(* One commit for each artifact: its record and a receipt.                  *)
VerifyForDelivery(n, a) ==
    LET c == call[n]
    IN  /\ c.step = "verify"
        /\ a \in c.left
        /\ stock' = Found(a)
        /\ Continue(n, [c EXCEPT !.left = @ \ {a},
                                 !.verified = IF a \in lost THEN @ ELSE @ \cup {a}])
        /\ Committed
        /\ UNCHANGED <<turnVars, execution, lost, output, adoption>>

(* Mutant: a receipt is enough, its verdict is not read.                    *)
Covered(c) == c.left = {}

(* Every artifact has a receipt of this call that found it intact, and no   *)
(* verification since found otherwise.                                      *)
ReceiptsHold(c) ==
    /\ c.left = {}
    /\ c.verified = output[c.run].artifacts
    /\ \A a \in c.verified : stock[a] = "available"

Adopt(n) ==
    LET c == call[n]
        o == output[c.run]
    IN  /\ c.step = "verify"
        /\ ReceiptsHold(c)
        /\ Running(n)
        /\ o.turn # n
        /\ o.kind # "unknown"
        /\ c.preview \in o.shown
        /\ adoption[c.run] = None
        /\ adoption' = [adoption EXCEPT ![c.run] = [turn |-> n, path |-> turn.path]]
        /\ Continue(n, Idle)
        /\ Committed
        /\ UNCHANGED <<turnVars, execution, stock, lost, output>>

-----------------------------------------------------------------------------
(* Using the evidence.                                                      *)

Sources(r) == {<<r, Code>>} \cup execution[r].inputs \cup output[r].artifacts

(* Eligible for use on path p in a context: as a current result only where  *)
(* it was adopted.  The sources are looked up in their records.             *)
AnalysisEligible(r, p, context) ==
    /\ adoption[r] # None
    /\ \A a \in Sources(r) : stock[a] = "available"
    /\ context = "current" => adoption[r].path = p

AnalysisStep ==
    \/ \E n \in Numbers :
         \/ \E r \in Executions, inputs \in SUBSET Recorded : Execute(n, r, inputs)
         \/ \E s \in SandboxErrors : FinishError(n, s)
         \/ \E written \in SUBSET Names : RecordProduced(n, written)
         \/ CaptureFails(n)
         \/ \E exit \in {0, 1} : CompleteExecution(n, exit)
         \/ \E r \in Executions : RequestClassification(n, r)
         \/ \E kind \in Kinds : Classify(n, kind)
         \/ \E r \in Executions, a \in Recorded : RequestAdoption(n, r, a)
         \/ \E a \in Recorded : VerifyForDelivery(n, a)
         \/ Adopt(n)
    \/ \E r \in Executions, s \in Unresolved : RecoverExecution(r, s)
    \/ \E a \in Recorded : Lose(a) \/ VerifyArtifact(a)

(* The whole of what a turn does to the research of its Workspace.          *)
AnalysisNext ==
    \/ Next /\ UNCHANGED analysisVars
    \/ AnalysisStep /\ UNCHANGED <<evidenceVars, documentVars>>

AnalysisSpec == Init /\ AnalysisInit /\ [][AnalysisNext]_<<vars, analysisVars>>

-----------------------------------------------------------------------------
(* Properties.                                                              *)

AnalysisTypeOK ==
    /\ execution \in [Executions -> Ran]
    /\ stock \in Stock
    /\ lost \subseteq Artifacts
    /\ \A r \in Executions : output[r] \in Output \cup {None}
    /\ \A r \in Executions : adoption[r] \in AnalysisEvidence \cup {None}

(* What the user adopts was all there when the confirmation came in, in a   *)
(* turn after the one that produced it, and comes from a run that is known  *)
(* to have succeeded, however the calls of the turns, other verifications   *)
(* and crashes interleave.                                                  *)
Confirmed(r) ==
    \E n \in Numbers :
        /\ call[n].step = "verify" /\ call[n].run = r
        /\ output[r].artifacts \cap call[n].lost = {}
        /\ \A a \in output[r].artifacts : stock[a] = "available"
        /\ output[r].turn < n
        /\ execution[r].status = "completed"

ConfirmedIsThere ==
    [][\A r \in Executions : adoption'[r] # adoption[r] => Confirmed(r)]_<<turnVars, call, analysisVars>>

(* What eligible evidence rests on comes from a run that is known to have succeeded.   *)
(* Not so: what a failed run, or one whose outcome is unknown, had captured *)
(* is as good an input as any.                                              *)
InputsAreVouchedFor ==
    \A r \in Executions, p \in paths : AnalysisEligible(r, p, "current") =>
        \A a \in Sources(r) : execution[a[1]].status = "completed"
=============================================================================
