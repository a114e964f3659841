--------------------------- MODULE StataOperations ---------------------------
(***************************************************************************)
(* One supervised Stata session and the operations that run in it: the      *)
(* executor that keeps a chain of data states                               *)
(* (runtime/open_research_executor.py), the protocol of an operation        *)
(* (application/stata_operation_service.py), its transactions               *)
(* (persistence/stata_operation_store.py), the completions on disk          *)
(* (artifacts/completion_manifest_store.py) and what recovery makes of them *)
(* (persistence/stata_recovery_scanner.py).                                 *)
(*                                                                         *)
(* What is in the memory of the session is the sequence of the operations   *)
(* that made it, so its data signature is that sequence.                    *)
(***************************************************************************)
EXTENDS Naturals, Sequences

CONSTANTS
    MaxOperations,  \* bound: operations that are requested
    Datasets,       \* data versions that are read
    None,
    MaxTurns,       \* bound: turns that work on the session
    MaxGenerations  \* bound: sessions that are started

VARIABLES
    op,          \* operations, their requests, bindings and manifests
    session,     \* the session the host holds
    binding,     \* OpenStataExecutor: the data state of its last operation
    doing,        \* what the executor is doing
    turn,        \* the turn that works
    unaccounted, \* history: sessions in which something ended in an exception
    scoped       \* the session stages below its scope, not below the Workspace

stataVars == <<op, session, binding, doing, turn, unaccounted, scoped>>

(* Identities of operations, in the order they are used.                    *)
OperationIds == 1..MaxOperations

Purposes == {"data_load", "data_step", "formal_estimation", "formal_post_estimation"}
Formal == {"formal_estimation", "formal_post_estimation"}
Statuses == {"none", "admitted", "handoff_committed", "completed", "failed",
             "outcome_unknown", "completed_unreconciled", "integrity_violation"}
Classes == {"definitely_not_started", "committed", "completed_unreconciled",
            "outcome_unknown", "integrity_violation"}
Executions == {"succeeded", "command_failed", "timed_out"}

State == Seq(OperationIds)
Receipt == [execution : Executions, gen : Nat, seq : Nat, state : State,
            reset : BOOLEAN, captured : BOOLEAN]
Binding == [source : OperationIds, data : Datasets, token : State, gen : Nat]
Idle == [step |-> "idle"]

ASSUME StataAssumption ==
    /\ MaxOperations \in Nat /\ MaxTurns \in Nat /\ MaxGenerations \in Nat
    /\ None \notin State /\ None \notin Receipt

Unused == [status |-> "none", turn |-> 0, purpose |-> None, data |-> None,
           source |-> None, token |-> <<>>, gen |-> 0, output |-> FALSE, found |-> None,
           file |-> None, whole |-> TRUE, row |-> None, report |-> None,
           promoted |-> FALSE]

StataInit ==
    /\ op = [o \in OperationIds |-> Unused]
    /\ session = [gen |-> 0, state |-> <<>>, seq |-> 0, open |-> FALSE]
    /\ binding = None
    /\ doing = Idle
    /\ turn = 1
    /\ unaccounted = {}
    /\ scoped \in BOOLEAN

(* OperationIds get new identities.                                           *)
Fresh == {o \in OperationIds : op[o].status = "none"}
NewOperation == CHOOSE o \in Fresh : \A u \in Fresh : o <= u

-----------------------------------------------------------------------------
(* The executor.                                                            *)

(* An exception ends the call and leaves the executor's binding as it was.  *)
Raises ==
    /\ doing' = Idle
    /\ UNCHANGED <<session, binding, turn, scoped>>

(* The model asks for an operation on a dataset, in a role, perhaps on data *)
(* that are to be loaded anew and with an output that has to be captured.   *)
Execute(d, purpose, anew, output) ==
    /\ doing = Idle
    /\ Fresh # {}
    /\ purpose = "formal_post_estimation" => ~anew
    /\ op' = [op EXCEPT ![NewOperation] =
           [op[NewOperation] EXCEPT
                !.status = "admitted", !.turn = turn, !.purpose = purpose,
                !.data = d, !.output = output]]
    /\ doing' = [step |-> "prepare", op |-> NewOperation, anew |-> anew]
    /\ UNCHANGED <<session, binding, turn, unaccounted, scoped>>

(* The last state is known, of the same data, and may be used.              *)
Continues ==
    /\ binding # None
    /\ binding.data = op[doing.op].data
    /\ ~doing.anew

(* The load is an operation of its own that no tool call admitted.          *)
HandoffLoad ==
    /\ doing.step = "prepare"
    /\ ~Continues
    /\ Fresh # {}
    /\ op' = [op EXCEPT ![NewOperation] =
           [op[NewOperation] EXCEPT
                !.status = "handoff_committed", !.turn = turn,
                !.purpose = "data_load", !.data = op[doing.op].data]]
    /\ doing' = [step |-> "run", op |-> NewOperation, for |-> doing.op]
    /\ UNCHANGED <<session, binding, turn, unaccounted, scoped>>

(* The predecessor that a request declares: completed, in this session, on  *)
(* the same data, and its record says what the request expects.             *)
IsPredecessor(s, d, token, gen) ==
    /\ op[s].status = "completed"
    /\ op[s].row # None
    /\ op[s].row.execution = "succeeded"
    /\ op[s].data = d
    /\ op[s].row.state = token
    /\ op[s].row.gen = gen

(* A post-estimation continues an estimation whose result was promoted.     *)
ContinuesEstimation(s) == op[s].purpose = "formal_estimation" /\ op[s].promoted

Accepts(o) ==
    /\ IsPredecessor(binding.source, op[o].data, binding.token, binding.gen)
    /\ op[o].purpose = "formal_post_estimation" => ContinuesEstimation(binding.source)

(* The handoff is committed before anything is asked of Stata.              *)
Handoff ==
    /\ doing.step = "prepare"
    /\ Continues
    /\ Accepts(doing.op)
    /\ op' = [op EXCEPT ![doing.op] =
           [op[doing.op] EXCEPT
                !.status = "handoff_committed", !.source = binding.source,
                !.token = binding.token, !.gen = binding.gen]]
    /\ doing' = [step |-> "run", op |-> doing.op, for |-> doing.op]
    /\ UNCHANGED <<session, binding, turn, unaccounted, scoped>>

(* Nothing was executed: the operation stays admitted.                      *)
HandoffRefused ==
    /\ doing.step = "prepare"
    /\ Continues
    /\ ~Accepts(doing.op)
    /\ Raises
    /\ UNCHANGED <<op, unaccounted>>

-----------------------------------------------------------------------------
(* What Stata does.                                                         *)

(* A session that is not there is started with nothing in its memory.       *)
HostSession ==
    IF session.open THEN session
    ELSE [gen |-> session.gen + 1, state |-> <<>>, seq |-> 0, open |-> TRUE]

(* The memory after the code of an operation: loading replaces it, a data   *)
(* step changes it, an estimation does not.  A load that fails may have     *)
(* cleared it, a step that fails may have done a part.                      *)
Memories(o, before, execution) ==
    CASE op[o].purpose = "data_load" ->
            IF execution = "succeeded" THEN {<<o>>} ELSE {before, <<>>}
      [] op[o].purpose = "data_step" ->
            IF execution = "succeeded" THEN {Append(before, o)}
            ELSE {before, Append(before, o)}
      [] OTHER -> {before}

(* An estimation without data fails.                                        *)
CanSucceed(o) == op[o].purpose \in Formal => HostSession.state # <<>>

RunEnds(execution, reset, captured, memory) ==
    LET after == [HostSession EXCEPT !.state = IF reset THEN <<>> ELSE memory, !.seq = @ + 1]
    IN  /\ session' = after
        /\ op' = [op EXCEPT ![doing.op].found = HostSession.state]
        /\ doing' = [step |-> "publish", op |-> doing.op, for |-> doing.for,
                     receipt |-> [execution |-> execution, gen |-> after.gen,
                                  seq |-> after.seq, state |-> after.state,
                                  reset |-> reset, captured |-> captured]]

(* An execution that does not end in time takes the session with it or has  *)
(* it reset; an output is captured by what succeeds, or it is not.          *)
RunCode ==
    /\ doing.step = "run"
    /\ HostSession.gen <= MaxGenerations
    /\ \E execution \in Executions, reset \in BOOLEAN, captured \in BOOLEAN :
         /\ execution = "succeeded" => CanSucceed(doing.op)
         /\ reset => execution = "timed_out"
         /\ captured => op[doing.op].output /\ execution = "succeeded"
         /\ \E memory \in Memories(doing.op, HostSession.state, execution) :
              RunEnds(execution, reset, captured, memory)
    /\ UNCHANGED <<binding, turn, unaccounted, scoped>>

(* The transport breaks or the output gate cannot be asked: whether Stata   *)
(* executed the code is not known, and the session is closed.               *)
MarkTransportUnknown ==
    /\ doing.step = "run"
    /\ HostSession.gen <= MaxGenerations
    /\ \E ran \in BOOLEAN :
         op' = [op EXCEPT ![doing.op] =
                  [op[doing.op] EXCEPT
                      !.status = "outcome_unknown",
                      !.found = IF ran THEN HostSession.state ELSE None]]
    /\ session' = [HostSession EXCEPT !.open = FALSE]
    /\ doing' = [step |-> "outcome", op |-> doing.op, for |-> doing.for]
    /\ UNCHANGED <<binding, turn, unaccounted, scoped>>

-----------------------------------------------------------------------------
(* Completions.                                                             *)

(* The isolated completion is written and then renamed into place.          *)
Publish ==
    /\ doing.step = "publish"
    /\ op' = [op EXCEPT ![doing.op].file = doing.receipt]
    /\ doing' = [doing EXCEPT !.step = "finalize"]
    /\ UNCHANGED <<session, binding, turn, unaccounted, scoped>>

(* A required output has to be there, as it was when the completion was     *)
(* published.                                                               *)
CandidatesPublish(o, receipt) ==
    receipt.execution = "succeeded" /\ op[o].output => receipt.captured /\ op[o].whole

(* A timeout whose session was reset and that leaves nothing to reconcile   *)
(* is a failure, one that may have left something is unknown.               *)
Outcome(o, receipt) ==
    IF receipt.execution = "succeeded" THEN "completed"
    ELSE IF receipt.execution = "command_failed" \/ (receipt.reset /\ ~op[o].output)
         THEN "failed"
    ELSE "outcome_unknown"

(* Only an operation whose end is open is given one.                        *)
Finalized(o, receipt) ==
    [op EXCEPT ![o] = [op[o] EXCEPT
        !.row = receipt,
        !.status = IF op[o].status \in {"handoff_committed", "completed_unreconciled"}
                   THEN Outcome(o, receipt) ELSE op[o].status]]

(* A session that may still be at work is closed.                           *)
Finalize ==
    /\ doing.step = "finalize"
    /\ CandidatesPublish(doing.op, doing.receipt)
    /\ op' = Finalized(doing.op, doing.receipt)
    /\ session' = [session EXCEPT !.open = @ /\ doing.receipt.execution # "timed_out"]
    /\ doing' = [step |-> "outcome", op |-> doing.op, for |-> doing.for]
    /\ UNCHANGED <<binding, turn, unaccounted, scoped>>

(* The disk, an output or the database fails: the operation stays handed    *)
(* off and its session goes on.                                             *)
CompletionFails ==
    /\ doing.step \in {"publish", "finalize"}
    /\ Raises
    /\ unaccounted' = unaccounted \cup {session.gen}
    /\ UNCHANGED op

BindingOf(o) ==
    [source |-> o, data |-> op[o].data, token |-> op[o].row.state, gen |-> op[o].row.gen]

(* Mutant: the binding outlives an operation that failed.                   *)
KeepsBinding(o) == IF op[o].status = "completed" THEN BindingOf(o) ELSE binding

(* After a failed or uncertain operation the session may hold anything.     *)
BindingAfter(o) == IF op[o].status = "completed" THEN BindingOf(o) ELSE None

ReturnOutcome ==
    /\ doing.step = "outcome"
    /\ doing.op = doing.for
    /\ binding' = BindingAfter(doing.op)
    /\ doing' = Idle
    /\ UNCHANGED <<op, session, turn, unaccounted, scoped>>

(* The receipt has no data signature: the old binding is kept.              *)
SignatureIsMissing ==
    /\ doing.step = "outcome"
    /\ op[doing.op].status = "completed"
    /\ Raises
    /\ unaccounted' = unaccounted \cup {session.gen}
    /\ UNCHANGED op

(* The load of the data is done: the operation it was for is next.          *)
Loaded ==
    /\ doing.step = "outcome"
    /\ doing.op # doing.for
    /\ op[doing.op].status = "completed"
    /\ binding' = BindingOf(doing.op)
    /\ doing' = [step |-> "prepare", op |-> doing.for, anew |-> FALSE]
    /\ UNCHANGED <<op, session, turn, unaccounted, scoped>>

(* A load that did not complete is an exception, before the old binding is  *)
(* given up.                                                                *)
LoadFails ==
    /\ doing.step = "outcome"
    /\ doing.op # doing.for
    /\ op[doing.op].status # "completed"
    /\ Raises
    /\ unaccounted' = unaccounted \cup {session.gen}
    /\ UNCHANGED op

-----------------------------------------------------------------------------
(* Promoting what a formal operation returned.                              *)

(* The session it ran in is the one it expected.  A post-estimation is the  *)
(* very next execution after its estimation and found the same data.        *)
StateIsExpected(o) ==
    LET s == op[o].source
    IN  /\ s # None
        /\ op[o].gen = op[o].row.gen
        /\ op[o].purpose = "formal_post_estimation" =>
             /\ ContinuesEstimation(s)
             /\ op[o].row.seq = op[s].row.seq + 1
             /\ op[o].row.state = op[o].token

Promote(o) ==
    /\ doing = Idle
    /\ op[o].status = "completed"
    /\ op[o].purpose \in Formal
    /\ ~op[o].promoted
    /\ StateIsExpected(o)
    /\ op' = [op EXCEPT ![o].promoted = TRUE]
    /\ UNCHANGED <<session, binding, doing, turn, unaccounted, scoped>>

-----------------------------------------------------------------------------
(* Recovery.                                                                *)

(* Mutant: outputs are not hashed again.                                    *)
AnyFile(o) == IF op[o].file = None THEN "absent" ELSE "verified"

(* The outputs of a completion are looked for below the Workspace.          *)
VerifyAttempt(o) ==
    IF op[o].file = None THEN "absent"
    ELSE IF op[o].file.captured /\ (scoped \/ ~op[o].whole) THEN "failed"
    ELSE "verified"

HandedOff(o) == op[o].status \notin {"none", "admitted"}

IntegrityReasons(o) ==
    \/ VerifyAttempt(o) = "failed"
    \/ op[o].status \in {"completed", "failed"} /\ op[o].row = None
    \/ op[o].row # None /\ op[o].file # op[o].row

Classification(o) ==
    IF HandedOff(o) /\ IntegrityReasons(o) THEN "integrity_violation"
    ELSE IF op[o].row # None THEN "committed"
    ELSE IF ~HandedOff(o) THEN "definitely_not_started"
    ELSE IF op[o].file # None THEN "completed_unreconciled"
    ELSE "outcome_unknown"

(* A recovery report converges an operation whose end is open.              *)
Assess(o) ==
    /\ doing.step = "down"
    /\ op[o].status # "none"
    /\ op[o].report = None
    /\ op' = [op EXCEPT ![o] = [op[o] EXCEPT
           !.report = Classification(o),
           !.status = IF Classification(o) \in Statuses THEN Classification(o)
                      ELSE op[o].status]]
    /\ UNCHANGED <<session, binding, doing, turn, unaccounted, scoped>>

(* The successor of the recovered turn has a completion that was found on   *)
(* disk committed, and nothing is executed again.                           *)
Reconcile(o) ==
    /\ doing = Idle
    /\ op[o].report = "completed_unreconciled"
    /\ op[o].turn # turn
    /\ op[o].row = None
    /\ VerifyAttempt(o) = "verified"
    /\ CandidatesPublish(o, op[o].file)
    /\ op' = Finalized(o, op[o].file)
    /\ UNCHANGED <<session, binding, doing, turn, unaccounted, scoped>>

(* The process ends, and with it the host, its session and the executor.    *)
Crash ==
    /\ doing.step # "down"
    /\ turn < MaxTurns
    /\ doing' = [step |-> "down"]
    /\ binding' = None
    /\ session' = [session EXCEPT !.open = FALSE]
    /\ UNCHANGED <<op, turn, unaccounted, scoped>>

Restart ==
    /\ doing.step = "down"
    /\ doing' = Idle
    /\ turn' = turn + 1
    /\ UNCHANGED <<op, session, binding, unaccounted, scoped>>

(* The session goes away between two operations; the pool opens another.    *)
LoseSession ==
    /\ session.open
    /\ session' = [session EXCEPT !.open = FALSE]
    /\ UNCHANGED <<op, binding, doing, turn, unaccounted, scoped>>

(* A captured output is changed or removed after its completion.            *)
DamageOutput(o) ==
    /\ op[o].file # None
    /\ op[o].file.captured
    /\ op[o].whole
    /\ op' = [op EXCEPT ![o].whole = FALSE]
    /\ UNCHANGED <<session, binding, doing, turn, unaccounted, scoped>>

StataNext ==
    \/ \E d \in Datasets, purpose \in Purposes \ {"data_load"}, anew, output \in BOOLEAN :
         Execute(d, purpose, anew, output)
    \/ HandoffLoad \/ Handoff \/ HandoffRefused
    \/ RunCode \/ MarkTransportUnknown
    \/ Publish \/ Finalize \/ CompletionFails
    \/ ReturnOutcome \/ SignatureIsMissing \/ Loaded \/ LoadFails
    \/ \E o \in OperationIds :
         Promote(o) \/ Assess(o) \/ Reconcile(o) \/ DamageOutput(o)
    \/ Crash \/ Restart \/ LoseSession

StataSpec == StataInit /\ [][StataNext]_stataVars

-----------------------------------------------------------------------------
StataTypeOK ==
    /\ \A o \in OperationIds :
         /\ op[o].status \in Statuses /\ op[o].report \in Classes \cup {None}
         /\ op[o].file = None \/ op[o].file.execution \in Executions
    /\ session.gen \in 0..MaxGenerations
    /\ binding = None \/ binding.source \in OperationIds
    /\ turn \in 1..MaxTurns
    /\ scoped \in BOOLEAN

(* A formal result that is promoted was computed on exactly the data that   *)
(* its declared predecessor left in the session, over failing steps, lost   *)
(* sessions, other datasets and timeouts, unless an exception got past the  *)
(* executor in that session (open_research_executor.py:240-247).            *)
FormalRunsOnDeclaredData ==
    \A o \in OperationIds :
      op[o].promoted => op[o].found = op[o].token \/ op[o].gen \in unaccounted

(* The data an operation is declared to rest on: the load and the steps     *)
(* that lead to its predecessor.                                            *)
Declared ==
    LET after[o \in OperationIds] ==
            CASE op[o].purpose = "data_load" -> <<o>>
              [] op[o].purpose = "data_step" -> Append(after[op[o].source], o)
              [] OTHER -> after[op[o].source]
    IN  [o \in {p \in OperationIds : op[p].source # None} |-> after[op[o].source]]

(* The whole chain leads there, also after exceptions ("maintaining a       *)
(* verifiable data-state chain", open_research_executor.py:143).  It does   *)
(* not hold: an exception leaves the old binding in use, and a data step is *)
(* not asked whether its session is the one it expected.                    *)
ChainIsVerifiable ==
    \A o \in OperationIds : op[o].promoted => op[o].found = Declared[o]

(* What recovery says of an operation is so: what it calls not started did  *)
(* not reach Stata, what it calls committed or completed did, with its      *)
(* outputs intact, and what it reconciles is what was executed.             *)
RecoveryTellsTheTruth ==
    \A o \in OperationIds :
      LET class == Classification(o)
      IN  op[o].status # "none" =>
            /\ class = "definitely_not_started" => op[o].found = None
            /\ class \in {"committed", "completed_unreconciled"} =>
                 op[o].found # None /\ (op[o].file.captured => op[o].whole)
            /\ class = "integrity_violation" /\ ~scoped => ~op[o].whole
            /\ op[o].row # None => op[o].row = op[o].file

(* Below a scope no completion with outputs verifies; it does not hold.     *)
CompletionIsRecoverable ==
    \A o \in OperationIds : Classification(o) = "integrity_violation" => ~op[o].whole
=============================================================================
