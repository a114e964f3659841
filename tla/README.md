# Verification of the stata-agent

TLA+ models, TLC runs and TLAPS proofs for `stata_research_agent`
(`src/src/stata_research_agent`) and for the browser's commands and views (`src/web/src/browser`,
`src/web/src/app`). All paths below are relative to the first of these, or are file names of the second,
unless they start with `src/`.

## 1. The system

A service process hosts Workspaces. A Workspace is a directory with one SQLite database (WAL,
`BEGIN IMMEDIATE`), and every authoritative change is one *command*: an idempotent transaction that
inserts a workspace revision, the change itself, journal facts, outbox notifications and a receipt
(`persistence/atomic_commit.py`). A user's message makes a *Turn*. Turns that may write share one
*write lane* per Workspace; the others queue. A scheduler loop (`runtime/application_runtime.py`)
hands the owner of the lane to a runner (`interfaces/production_turn_runner.py`), which drives it
with an agent loop (`runtime/agent_turn_driver.py`): compile a context of memories, skills and
documents, freeze it with a step, ask the model through the *gateway*, let a worker process split the
answer into proposals, schedule the proposed tool calls through the *Tool Broker*, admit them, execute
them in batches, and let the *stop guard* decide whether the Turn may end, has to wait for the user, or
goes on. The tools move the research state: plans, data versions, results, documents. Users answer,
pause, branch, edit memory files and return documents while all this happens. Beside the Turns a
maintenance task curates memories and proposes skills, and around the whole stand credentials, schema
migration and the activation of releases.

| Component | Source | State | Operations | What is hard |
|---|---|---|---|---|
| Turns and write lane | `persistence/control_store.py`, `turn_interaction_store.py` | `turns`, `workspace_write_lane`, `waiting_requests`, `pause_intents`, `turn_continuations` | submit, activate, wait, answer, pause, converge, continue, complete | nine transactions keep one lane; stale revisions |
| Stop guard, completion contracts | `persistence/evaluation_store.py`, `production_turn_runner.py` | contracts, obligation, observations, reports, decisions | normalize, observe, evaluate, decide | three commits per decision; ending too early or never |
| Tool Broker | `persistence/tool_broker_store.py`, `broker_execution_store.py`, `application/tool_broker_service.py` | `tool_calls`, `operations`, `operation_attempts`, leases, canonical results | plan, admit, block, begin, complete, record exception | several executors at once, pauses between any two steps |
| Turn driver | `runtime/agent_turn_driver.py` | in memory only | model step, batches, stop | deadlines, gathered exceptions, a Turn revision read once |
| Turn worker process | `runtime/turn_worker.py`, `worker_process.py`, `ipc_contract.py` | ordinal, budgets, pipes | boot, advance, propose, stop | both sides must count alike; either may die |
| Model gateway | `persistence/model_gateway_store.py`, `application/model_gateway_service.py` | steps, invocations, attempts, budgets, circuit breakers | freeze, dispatch, receive, retry, fall back | a request that may have been answered must not be sent again |
| Stata operations | `persistence/stata_operation_store.py`, `application/stata_operation_service.py`, `runtime/open_research_executor.py`, `artifacts/completion_manifest_store.py` | operations, completions on disk, chain of data states | hand off, run, publish, finalize, promote, reconcile | outcome unknown; which data a result was computed on |
| Recovery | `persistence/recovery_store.py`, `stata_recovery_scanner.py` | recovery reports | assess, record | a stale scan; what did start |
| Atomic commit, command coordinator | `persistence/atomic_commit.py`; `commands.ts` | commits, receipts, journal, outbox; pending commands | commit; submit, retry | crash points, repeated and late deliveries |
| HTTP commands | `interfaces/api/app.py` | none of its own | submit, answer, pause, branch | several commits in one handler; wakes |
| Scheduler loop, turn runner | `runtime/application_runtime.py`, `persistence/workspace_scheduler.py`, `interfaces/production_turn_runner.py` | task and event per Workspace | dispatch, drain, prepare, drive, return | lost wakes, restart, status re-read after an await |
| Stata execution pool | `runtime/workspace_execution.py`, `stata/stdio_runtime.py` | entries and locks, runtime, bindings of sessions | start, execute, discard, abort, close | two locks and a retry loop; what pool, runtime and host each believe of a session |
| Event stream, browser shell, attention list | `shell.ts`, `workspace-stream.ts`, `App.tsx`, `persistence/outbox_stream.py`, `control_query.py` | state, snapshots, generations, event ids seen | open, refresh, reconnect, resync | answers out of order, replays, the gap between snapshot and stream |
| Live text and trace | `application/model_delta_stream.py`, `ResearchViews.tsx`, `provider-text-projection.ts`, `persistence/research_view_query.py` | history and queues of deltas, pages | publish, subscribe, replay, read a page | full queues, cut histories, a page read across commits |
| Memory and its files | `persistence/memory_store.py`, `filesystem_memory.py` | items, revisions, tiers, summary; files of the user | create, revise, archive, replace, synchronise, reconcile | two writers of the same text, one of them an editor |
| Memory curation | `persistence/memory_curator_store.py`, `interfaces/memory_maintenance_runner.py` | windows, jobs, attempts | discover, dispatch, complete, recover | exactly-once over a model that may not answer |
| Skills | `persistence/skill_*_store.py`, `workspace_skill_publisher.py` | candidates, changes, adoption, published file | propose, evaluate, publish, finalize | ledger and file in three steps |
| Knowledge | `persistence/knowledge_store.py`, `dense_knowledge_store.py` | documents, parses, dense index, sessions | synchronise, index, hop | files change while they are read |
| Turn context | `persistence/context_authority.py`, `model_gateway_store.py` | drafts, frozen contexts | compile, freeze | everything it rests on may change between the two |
| Research state, plans, paths | `persistence/research_state_store.py`, `runtime/plan_coordinator.py` | paths, slots, plans | branch, adopt | pointers read before, calls that outlive their Turn |
| Results, evidence, tables | `persistence/result_profile_store.py`, `evidence_*_store.py`, `table_export_store.py` | data versions, results, qualification, tables | qualify, promote, export | several commits per tool; evidence lost between |
| Documents | `persistence/document_delivery_store.py`, `document_roundtrip_store.py` | document revisions, gate reports, returns | render, deliver, take back | gate passed at preparation, evidence gone at delivery |
| Sandbox and analysis outputs | `runtime/sandbox_tool_executor.py`, `persistence/analysis_output_store.py` | runs, artifacts, outputs, adoptions | run, classify, adopt, validate | files that are no longer what was recorded |
| Provider credentials | `persistence/global_credentials.py`, `application/provider_credentials.py` | profiles, versions, the vault | create, rotate, delete, recover | database and vault share no transaction |
| Schema migration runner | `persistence/migrations.py` | schema, records, lease | acquire, apply, verify | two processes, expired leases |
| Releases, gates, signing | `persistence/release_control_store.py`, `application/release_activation_service.py` | releases, pointers, attempts, gate results, signings | stage, activate, roll back, approve, sign | effects that cannot be undone; a crash during the probe |
| Workspace migration | `persistence/workspace_migration.py` | attempts, lock, receipts, backups | prepare, adopt, clean up | users at work between the copies, a second call |
| Product evaluation and audits | `persistence/operational_evaluation_query.py` and others | none | reports | offline, over committed data: not modelled |

## 2. Plan

Order: the core first, then what it rests on, then what drives it, then the parts beside it.

| Step | Modules | What they add | State |
|---|---|---|---|
| 1 | `TurnLane`, `WriteLane` | turns, requests, pauses, the lane; `WriteLane` is its abstract specification | done, proved |
| 2 | `ToolOperations` (extends `TurnLane`) | calls, operations, leases, the driver, crash and recovery | done, proved |
| 3 | `AtomicCommit`, `CommandLog` | why one transaction may be one action; repeated and late deliveries; `CommandLog` is its abstract specification | done, proved |
| 4 | `TurnSupervisor` (extends `TurnLane`) | HTTP handlers, wakes, scheduler loop, runner as wired in production | done; safety proved |
| 5 | `ExecutionPool`, `StataOperations` | Stata sessions of a pool; the operations in one session, their completions and recovery | done; safety proved |
| 6 | `WorkspaceClient`, `Attention`, `ResearchViews` | what browsers show | done; safety proved |
| 7 | `ModelGateway`, `ModelLoop`, `StopGuard` | steps, attempts and budgets of a turn over several runs; how it ends | done; safety proved |
| 8 | `WorkspaceRevision`, `Memory`, `Skills`, `MemoryCurator`, `Knowledge`, `TurnContext` | what a model step is told and where it comes from | done, proved |
| 9 | `ResearchState`, `Evidence`, `Documents`, `AnalysisOutputs` | what a turn leaves: plans, data, results, documents | done, proved |
| 10 | `Credentials`, `SchemaMigration`, `ReleaseControl`, `WorkspaceMigration` | what surrounds an installed release | done, proved |

`ToolOperations` and `TurnSupervisor` extend `TurnLane`; `ModelLoop` extends `ModelGateway`; `TurnContext`
extends `MemoryCurator` (over `Skills`, `Memory`, `WorkspaceRevision`) and `Knowledge`; `Documents` extends
`Evidence`, which extends `ResearchState`, and is extended by `AnalysisOutputs`; `WorkspaceMigration`
extends `ReleaseControl`.

Every invariant and every action property the runs check is proved, `LiveTextIsTheAnswer` from what a fold
over tokens shows, which TLC evaluates (section 5). Liveness stays with TLC.

## 3. Modules and code

One action is one committed transaction, or one stretch of code between two awaits. A transaction that
raises is rolled back and is no step (except in `AtomicCommit`, where the rollback itself is the
subject). The definitions whose comment begins with "Mutant:" are deliberately wrong variants of the
definition that follows; no specification uses them, they serve to show that the checked properties
can fail.

**`TurnLane`.** Variables are columns: `status`, `revision`, `mode`, `ordinal` of `turns`; `lane` and
`laneRevision` of `workspace_write_lane`; `request` is the status of the turn's latest
`waiting_requests` row, `pause` that of its `pause_intents` row, `predecessor` its
`turn_continuations` row. `CreateTurn` is the shared body of `submit_message` and
`continue_paused_turn`; `ActivateNextQueuedTurn`, `OpenWaiting`, `AnswerWaiting`, `RequestPause`,
`ConvergePause`, `CompleteTurn`, `StopGuardWaits`, `StopGuardTerminates`, `RecoverOperation` and
`NormalizeContract` are the methods of the same names in the four stores. What these read about
operations is a parameter (`active`, `unsafe`) over which `Next` quantifies; `ToolOperations` supplies
it. The optimistic check of `turn_revision` is not a guard of each action, because an action reads
and commits at once; it is the property `RevisionGuardsState`, and it is a guard wherever a model
keeps a revision that was read earlier (`RevisionCurrent` in `ToolOperations`, `DriverMayCommit` in
`TurnSupervisor`).

**`WriteLane`** (abstract): nobody holds the lane, a newcomer takes it, the holder gives it back and
never returns.

**`ToolOperations`** extends `TurnLane`. `call`, `operation`, `lease`, `result`, `document` are the
status columns of a call, its operation, its lease, its canonical result and of a render operation it
began; `driver`, `driven`, `phase`, `planned`, `inFlight`, `begun`, `raised` are the memory of
`AgentTurnDriver`. The driver's loop is `StartDriver`, `Prepare`, `StartStep` (ask the model), then
`CommitDispatchPlan`, `StepWithoutEffect`, `DriverWaits`, `GuardWaits` or `GuardTerminates`; a plan
is admitted call by call (`Admit`, `AdmissionBlocked`), executed as a batch (`ExecuteBatch`,
`BeginExecution`, `CompleteExecution`, `ExecutorRaises`), its exceptions recorded
(`RecordExecutorException`), and so on to the next batch. `DriverStops` is every way out by an
exception or a budget, the call of `worker.stop` included. Answers, pauses, their convergence,
recovery and reconciliation may happen between any two of these steps. Decisions:

- All turns here write. A read turn never owns the lane, so it is never picked up by the loop.
- The resources of a call are abstracted to whether its claim excludes others (`Exclusive`).
- `RequestConfirmation` names a call of the turn that asks, as the driver's requests do.
- A call renders one document at most; a second one would repeat the same two steps.
- A turn of a branch command is completed by its own request (revision 1, never driven): `TurnOnly`.
- `Recover` happens while no driver is at work: it is about operations a dead process left. Nothing
  outside the tests calls the scanner yet; the model runs it at any such moment.

**`AtomicCommit`.** An attempt is one delivery of one envelope. `stage` is how far it got through
`commit_mutation`, one stage per `CommitCrashPoint`; `db` is what is committed and `scratch` what the
open transaction sees. `pending`, `asked` and `via` are the browser's `PendingCommandCoordinator`
(state, envelope, delivery awaited). `GiveUpCommand` is a fetch that fails, wherever the request is by then;
`Reuse` is another client with the same identity. SQLite is modelled by its promise: one writer,
rollback on death, `COMMIT` atomic. A domain write is one fact per command; outbox rows are numbered.
`CommandLog` (abstract) applies a command once at most and issues acceptances that quote the log.

**`TurnSupervisor`** extends `TurnLane` and has only the transactions that are wired in the
process: no `ConvergePause`, `ContinuePausedTurn` or `RecoverOperation`, since no route, runner or
loop calls them. `loop` is the program counter of the Workspace's task and its runner, `wake` its
event, `branching` the branch command between its commits. asyncio is modelled by *where handlers may
run*: `Yielded` lists the places where the loop awaits (task created but not begun, in the driver,
stopping the worker). Draining and preparing contain no await before their first commit and so are
not interleaved with handlers. The supervisor's own check for a turn that still runs after `run_turn`
never fires with this runner, which makes such a turn wait first (`Returns`); it is left out.
`Faults` selects crash, an exception that escapes from `run_turn`, and a branch command whose second
commit is refused.

**`ExecutionPool`.** `made` is every `_RuntimeEntry` ever created, in order, with its flags and the
holders of its two locks; `entries` is the table. `runtime`, `built`, `up` and `bindings` are the
runtimes, whether their transport has an owner task, and `_session_working_directories`. `sessions` is
the state of the MCP host: a session is absent, bound to the directory of its scope, or unbound, that is
made by the host in its own root. The host is outside the source tree (a vendored wheel) and modelled
from the tools the runtime calls: `stata_session_open` binds, `stata_run` makes a session it does not
know, `stata_session_close` ends what runs in it. `call` is where each caller is, from one await to the
next: a request is asked, served (the host serves requests in any order, one command per session at a
time) and only then resumes its caller. `Begin` is `prepare` and `execute`; the service's own
`close_session` after an uncertain, raised or turned down result is part of the call, so a call ends when
the service's does. `entries_lock` is never held across an await and has no state. `Faults` selects a
transport that does not start, a session that does not open, uncertain and raised executions, a result
the sensitive output gate turns down, a session the host reaps, a transport that ends, and a close that
raises while the host lives: an error, an answer `close_session` turns down, or none within 15 seconds. The
runtime keeps its binding then and `_discard` swallows the exception, whether or not the host ended the
session (`SessionGoes`, `CloseFails`). `lost` is a history variable: the sessions that left the sight of
the runtime in these ways. "shutdown" is
`close()` as the service calls it, once the supervisor is closed; "close" is `close()` at any time.
That the caller still owns the write lane, which the adapter checks first, is `TurnLane`'s subject.

**`WorkspaceClient`.** `view` and `snapshots` are the shell's `#state` and `#snapshots`, contents
abstracted to the revision they were read at; `requestGeneration` and `refreshGeneration` are its two
counters; `queries` are the requests in flight, each with its answer once the service gave one, and
`stream` is the source with the cursor in its url, the position of the connection and the event ids seen.
A cursor is the number of outbox entries before it. Answers are given and arrive in any order; the stream
is in order. "resyncing" is not a state of the model, since `resync` sets it and "bootstrapping" in one
stretch. `WorkspaceStream` has a generation of its own, which moves exactly when `openWorkspace` moves the
shell's; the model has one. `lost` is a history variable: a query of the open workspace failed, after which
nothing is claimed until it is opened again. A commit notifies nobody or once; more entries of one commit
would be further notifications of the same revision.

**`Attention`.** `facts` are the rows that `attention_snapshot` looks at, `reads` the queries of the list
in flight, `previous` the fingerprint of the invalidation stream, `asked` the generation in `App.tsx`. A
fact changes with a commit; the endpoint polls, compares and writes an invalidation, the page asks again,
and only the answer to its last question is shown. `unread` is a history variable: that question failed.

**`ResearchViews`.** First the text a model still writes: `send_stream` publishes deltas of a call,
`EphemeralModelDeltaHub` keeps a cut `history` of the turn and a bounded `queue` per subscriber, the page
keeps the ids it has `seen` and the deltas `raw`, and `projectProviderText` shows of them what a reader is
meant to see; a call writes one of `Messages`. Then the trace: pages of the journal read with a cursor
signed over the revision at which the first was read, while commits go on.

**`ModelGateway`, `ModelLoop`.** `FreezeStep` opens a step with its invocation; an attempt is prepared and
dispatched without an await, so that is one action, and the send and the sleep are the awaits. Outcomes of a
send are an answer, a transient or fatal failure of a class, a timeout and a cancellation; a request that
was sent and not answered is `delivery_unknown`. `ModelLoop` adds the driver (`driver.pc`), the child
process and the lines in the two pipes, with crashes, answers, pauses and changed settings between any two
steps. The driver can be started a second time for a turn that was answered, but that run ends where it
normalizes the contract (`HasNoObligations`, see *The answered turn* in section 4). The tool broker and the
stop guard cost budget here and decide; what they do is in `ToolOperations` and `StopGuard`.

**`StopGuard`.** The contract a run normalizes (`bound`), what a tool observed of the obligation
(`observed`), the evaluation of a proposed completion (`report`) and the decision, three commits with other
commits between. Tool calls and operations are what they left open (`left`).

**`WorkspaceRevision`, `Memory`, `Skills`, `MemoryCurator`, `Knowledge`, `TurnContext`.**
`WorkspaceRevision` is the shared counter of commits; `MaxCommits` bounds a run. `Memory`: a command on the
ledger and the writing of the files after it are two steps; reconciling reads the files of the user into
`edits` and revises one item after the other, each against the pointer it read. `MemoryCurator` is
`run_once`, one step per ledger operation; a job is named by the last message of its window. `Skills` has
three steps for a command: prepare a plan, publish the file, finalize the ledger; a version is named by the
candidate its content comes from. `Knowledge`: a synchronisation reads the files (`scan`), then commits;
`extracted` is every node any parse ever had; sessions select nodes hop by hop. `TurnContext` composes all
of them: `CompileContext` builds a draft from what is current, `FreezeStep` is the comparison `freeze_step`
makes with what is current then. `recalled`, `loaded` and `consulted` are the results of the turn's memory,
skill and knowledge tools. They are part of every later context: memory revisions and skill versions are
compared with what is current, whereas nodes that a knowledge tool returned are only looked up in the table
of all extractions (`model_gateway_store.py:265–330`). So a draft has two sets of nodes: `nodes`, selected
by a session and current, and `told`, which merely exist.

**`ResearchState`, `Evidence`, `Documents`, `AnalysisOutputs`.** `slot` holds, by path, what the path has
adopted and the pointer revision of each adoption; `call` is what the runner of a turn is in the middle of:
a turn runs one tool at a time, but can end while the call goes on. `Evidence` adds data versions, results
and tables: promoting takes three commits, exporting two with Stata between. `Documents` adds document
revisions with their gate reports: rendering takes two commits with the renderer between, and so does taking
back a document the user changed. A branch request notes what the path had adopted when it was asked
(`shown`), its turn is started by a commit of its own, and the branch is refused if any command was committed
since (`undisturbed`). `AnalysisOutputs` is the way of a sandboxed program's file into a document:
`execution`, `stock` (what was last verified of each file), `lost` (what is really gone), `output`,
`adoption`. The adoption takes one more turn, since the user must have confirmed.

**`StataOperations`.** One session: `op` are operations with request, binding and manifest, `session` what
the host holds in memory, `binding` what `OpenStataExecutor` believes was left by its last operation,
`doing` where the executor stands. The memory of a session is named by the sequence of operations that made
it, which is what its data signature stands for. Completions are published to disk, damaged, and found or
not found by recovery.

**`Credentials`, `SchemaMigration`, `ReleaseControl`, `WorkspaceMigration`.** In `Credentials` a command is
a sequence of steps of the database or the vault, and any of them may raise or be the process's last;
`Start` and the `Recover` actions are `recover()`. `SchemaMigration` has two runners that may know different
registries; a step applied twice would fail. `ReleaseControl` has attempts of activation with probe, guard
(`AnnounceEffect`, `TakeEffect`) and rollback; an effect announced while no attempt is open goes ahead
unrecorded, as in the code, and the model remembers under which attempt that was (`Under`): the open one,
which is marked, or a failed one whose candidate is still the active release, which is not. In its second
part (`GatesSpec`) results, founder receipts, approval and signing of one candidate. `WorkspaceMigration`
extends it: two calls prepare, adopt and clean up while users write and the activation under which the
migration runs may fail; an adoption whose preconditions fail leaves the attempt `RECOVERY_REQUIRED`
(`AdoptionRefused`).

**`...Proofs`** hold theorems about the modules they extend. **`MC...`** define the small sets for TLC.
Where one run holds several independent parts, a variable `part` or `scenario` chooses one of them initially,
the others stay at rest, and every property is about its own part.

## 4. Runs

| Run | Instance | Checks |
|---|---|---|
| `lane` | 3 turns (symmetric), revisions up to 4, endings succeeded and paused | `RevisionGuardsState` (the turn revision is a valid compare-and-swap token); `ImplementsWriteLane` |
| `tools` | 2 turns, 2 calls of which one is exclusive, revisions up to 4 | `LeasesExclude`; `FinishedTurnIsSettled`; `ConvergedPauseIsQuiescent`; `HistoryIsFinal`; `ImplementsTurnLane` |
| `supervisor` | 3 turns, revisions up to 7, all faults (the third turn only until one happened), fairness | `DriverOwnsLane`; `QueueAdvancesUnlessFaulted` and `RunningGetsDrivenUnlessFaulted` (liveness of behaviours in which nothing failed) |
| `supervisor_crash` | 2 turns, crashes | violates `RunningGetsDriven` |
| `pool` | 2 scopes with a caller each, up to 4 calls together, 2 runtimes, every fault, failing closes included; then chains of 4 operations on 2 datasets over 2 turns; then recovery after 2 generations | `CommandsRunInTheirDirectory`; `FormalRunsOnDeclaredData`; `RecoveryTellsTheTruth` |
| `pool_api` | 1 scope with 2 callers, 2 calls each of any operation, close at any time, fairness | `CallsEnd` |
| `client` | 2 workspaces with 2 and 1 commits, 2 opens, 2 faults, fairness; then the attention list over both | `ViewNeverGoesBack`; `ViewCatchesUp`; `AttentionIsCurrent` |
| `gateway` | 2 routes, 3 attempts, 2 steps, a driver that may be started twice, fairness; then the stop guard of a turn that must deliver; then 2 calls writing deltas into a history of 5 and a queue of 2; then a journal of 3 revisions in pages of 2 | `NoRepeatAfterUnknown`; `RunsEnd`; `EndingIsEarned`; `LiveTextIsTheAnswer`; `TraceIsOneWindow` |
| `context` | 2 memories, 2 texts, 3 messages, 2 documents, 1 skill candidate and 1 change, in eight scenarios | `EditsFollowTheirBase`; `CuratedOnce`; `UnknownIsNotResent`; `SkillDecisionsAreFinal`; `RetrievalIsCurrentAndBounded`; `ContextsNeverGoBack` |
| `upgrade` | 2 profiles with 3 versions; 2 runners with 2 and 3 steps; 2 releases with 3 activations; 2 calls and 2 migrations; 3 gates; 2 commands, the first delivered twice as one request and once as another, with up to 2 outbox rows | `SecretsAreAccountedFor`; `SchemaIsWhole`; `EffectsAreNotUndone`; `ResearchSurvivesAdoption`; `ApprovedPassedEveryTest`; `CommittedIsWhole`; `ImplementsCommandLog` |
| `late_effect` | the releases of `upgrade` alone | violates `GuardedEffectsForbidRollback` |
| `research` | 2 paths, 2 data versions, 2 results, 3 turns, 3 document revisions; 2 sandboxed runs with 2 files each, in four scenarios | `DeliveredPassedAllAlong`; `BranchAsShown`; `NothingIsReplacedUnseen`; `ResultComesWithItsData`; `ConfirmedIsThere` |

Each property is stated in words above its definition. What those of the newer parts ask, in short: an edit
of a file is applied to the revision it was made of; the windows of completed curator jobs share no message,
and a window that may have been sent is not sent again as that window; a decision on a candidate or a change
of a skill stays as it was made; a hop selects only text of current parses; a later step is not told an
older revision of a memory than an earlier one of the turn. What becomes final of a call, an operation or a
result stays so, an operation is handed off under its lease only, so that what recovery declared not started
does not start later, and the lease of what was handed off goes only with the verdict on it. A request that
may have been answered is the last of its invocation. A turn that ended with success was evaluated under the
contract it ends with, left nothing open, and exported the document its message requires. A page shows the
beginning of the answer as long as nothing was dropped, and one window of the journal. A delivered document
passed its gate, as did every document it was made from; a branch starts from what its user was shown; what
an adoption or a return replaces is what its caller read; a result comes with its data; what the user
confirms is there. A promoted result was computed on the data its declared predecessor left, and recovery
tells what was executed. A secret in the vault has a row that says so; the schema is what its records say;
an activation that was open when an irreversible effect was announced is not rolled back; a migration of the
schema changes no research; what is approved passed every test.

### Bounds

- *Turns.* Three are needed for a queue of two behind an owner, for a continuation beside an
  unrelated turn, and for a chain of two continuations; a fourth adds no kind of interaction with a
  single lane. The driver and the faults concern the owner and one competitor: two.
- *`MaxRevision`* bounds `turn_revision`. Four lets a turn be created, activated or waited, answered
  or paused, and ended, each at every other's place. In `TurnSupervisor` it is 7, and `Room` keeps
  users from using up the last revisions so that the runner is never stopped by the bound itself;
  without it the liveness checks would report the bound.
- *`Outcomes`.* `lane` takes "succeeded" and "paused": all terminal states but "paused" (which can be
  continued) are treated alike. `tools` takes "succeeded".
- *Calls.* Two that exclude each other give every conflict of admission, batch and recovery; the
  second is a reader beside the exclusive one. Identities are not reused, so the graph is finite.
- *Attempts, MaxNotices* (`upgrade`). Two deliveries of the same request, a conflicting one and an unrelated
  command are the four relations two deliveries can have; two rows test the numbering.
- *Callers, `MaxCalls`, `MaxRuntimes`.* In the product a scope has one caller at a time, its Workspace's
  runner; two on one scope are what the locks of an entry are for. Three calls let a call fail, the next
  one make a new entry and the third run on what that left. Two runtimes let a pool be closed and used
  again.
- *Operations of a session.* Four: load, prepare, lose the session, estimate; `MaxGenerations` 2 lets a
  session be made anew once, `MaxTurns` 2 lets a turn find what another left.
- *Revisions, opens, faults of the client.* Two commits in one workspace are what two refreshes out of
  order need, one in the other shows that late answers do not cross over; two opens let a workspace be
  left or read again, and two faults let a reconnection be followed by a resync. `MaxIncidents` 2 lets the
  attention list lose a query and a connection.
- *Gateway.* `MaxAttempts` 3 with two routes is a retry and a fallback; a second start of the driver meets
  what the first left; one change is enough to make a baseline stale. `Threshold` 1 opens a breaker at once.
- *Stop guard.* `MaxRevision` 4 is a contract revision per run and one by the user, `MaxBatches` 3 lets the
  guard send the driver back twice, one finding of each code.
- *Deltas and trace.* A queue of 2 and a history of 5 overflow with two short messages; two mounts and one
  break are a reconnection and a reload. Three revisions with three entries at most and pages of two put a
  page boundary inside a commit, between two commits and at the end.
- *Context.* `MaxRevisions` 3 is a revision beyond the one an edit was based on; `MaxCommits` 13 is what the
  longest scenario needs from its start; `WindowLimit` 2 with three messages gives a full and a partial
  window; `MaxAttempts` 2 a retry and its end. Four scenarios start in a state that a workspace comes to
  (`MCTurnContext` writes these states out: a curated window, a proposed skill, an adopted one), the others
  in a new workspace; `Scenario` is the constraint that keeps the parts not in question at rest.
- *Research.* Two paths are a parent and a branch; two results and data versions are the adopted and the
  next; three document revisions let a second one be rendered while the user returns the first. `MaxPointer`
  2 is an adoption and its replacement. `Delivered` is a workspace whose first turn delivered.
- *Upgrade.* Three versions let a rotation be rotated; runners with different registries are an old and a
  new release on one database; `MaxTerms` 4 lets each runner acquire the lease twice. `OneAtATime` names
  the remaining limits. Two effects are one under an
  open attempt and one after it failed. Three signings let an unknown one be followed by two others.
- `CHECK_DEADLOCK FALSE` everywhere: the instances really end, when identities and revisions are
  used up, and in the product every turn may be over.
- Symmetry of turns is used in the runs whose properties are safety properties, never with liveness.

### Fairness

`FairSpec` of the supervisor asks weak fairness of the loop's step, the runner's step and the completion of a
branch command: the event loop runs whatever is ready, and the driver ends since its steps, wall clock and
tool calls have budgets (`agent_turn_driver.py`). Nothing is assumed of users, faults, or which way the runner
ends. `Fairness` of the pool asks weak fairness of each call's own steps and of the host's answers to it:
`asyncio` resumes what is ready, and each request has a time limit (`stdio_runtime.py`: 40 s to open,
15 s to close, the timeout of the command and a margin to run). That of the client asks it of answers to
queries, of the timer of the stream and of the delivery of what the outbox holds; connections are lost
finitely often (`MaxFaults`), without which no view could catch up. That of the gateway asks it of the
driver, of a send (which has a time limit) and of the steps of the worker process, which runs or is dead.

### What the violated runs show

`supervisor_crash`: a process that dies while a turn runs leaves it running and owner of the lane; the next
process has no loop for the Workspace, since only two HTTP handlers dispatch. The docstring of
`WorkspaceTurnSupervisor` says process memory is never the sole source of runnable work.

`late_effect`: `mark_current_irreversible` marks the attempt that is open and answers `None` when there is
none (`release_control_store.py:341–350`), and the guarded effect goes ahead
(`release_activation_service.py:79–87`). A candidate whose activation failed stays the active release until
it is rolled back, so its effects in that time are recorded nowhere, its attempt stays eligible, and the
rollback (374–401) is allowed over them. The test `test_release_activation.py:102` is named for the
contrary, "any guarded side effect persists irreversibility and forbids rollback". What does hold,
`EffectsAreNotUndone`, is the case of an attempt that was open when the effect was announced, whatever
happens between announcement and effect.

### Stated, violated by the code, and in no run

The modules also state what one might expect of the code and what it does not do. They are kept as
definitions whose comments say so; TLC finds a counterexample to each when it is put into the run of its
module. `RunningGetsDriven` and `GuardedEffectsForbidRollback` (above) contradict a document most plainly.

| Definition | Module | What happens instead |
|---|---|---|
| `AnswerResumes` | `TurnSupervisor` | an answer between the driver's waiting commit and the end of its worker starts nothing: the runner finds the turn running, takes it for a driver that failed and asks again |
| `RecompilingHelps` | `TurnContext` | a result of the turn's memory search keeps naming an old revision, so every new compilation is refused ("recompile context") |
| `PlanCanBeProposed` | `ResearchState` | a stop between creating and adopting a plan leaves the key `study.<path>` taken (`runtime/plan_coordinator.py:61`) |
| `NoProfileIsStuck` | `Credentials` | deleting a profile without versions answers "deleted" and leaves it disabled for ever |
| `RollbackIsOfTheLast`, `ApprovedByTheFounder` | `ReleaseControl` | a failed attempt stays eligible, its rollback can undo a newer activation; a G7 result can be recorded without a receipt |
| `OpenMigrationHoldsLock` | `WorkspaceMigration` | a second adopter takes an adopted migration back; the lock of some ends is never released |
| `ChainIsVerifiable`, `CompletionIsRecoverable` | `StataOperations` | an exception out of `_stata.execute` leaves the old binding (`open_research_executor.py:240–247`); completions are published below the scope and looked for below the Workspace |
| `AnsweredTurnIsDriven`, `FailedEvaluationIsHeard` | `StopGuard` | the answered turn, see below; a report that is no longer fresh raises and the run is lost |
| `DirectoriesDiffer`, `SessionsAreOwned` | `ExecutionPool` | after a reaped session or a failed close, commands of two scopes can run in the host's own root (the docstring of `WorkspaceExecutionPool` promises different directories); an open or a close that failed leaves a session no entry owns |
| `InputsAreVouchedFor` | `AnalysisOutputs` | files of failed or unknown runs can be inputs of a run whose output becomes evidence |
| `ToolCallsStayHidden` | `ResearchViews` | a cut history makes a remounted page start inside a call, against `provider-text-projection.ts:65–68` |

`ContinuationLineage`, `ActiveWasProbed` and `WorkerInStep` hold on the
instances they were tried on and are in no run.

### Known consequences that no document denies

Seen in the models, not claimed as findings.

- *The answered turn.* `completion_obligations` has one row per contract and key (`migrations.py:2862`), and
  `normalize_contract` (`evaluation_store.py:143–160`) inserts `deliver.traceable_word` in every run of
  the same contract, so every run after the first prepared one raises and the turn waits again: a turn that
  was answered is never driven a second time. Beyond that point the driver would count its budget from zero
  with a new contract revision, and `freeze_step` would refuse it. `ModelLoop` explores what the later code
  would do; `StopGuard` models the obstacle.
- *Turns.* A pause request closes the open question of a waiting turn and keeps the stop guard from ending a
  running one, but nothing in the process calls `converge_pause`, so the turn keeps the lane. A branch
  command whose second commit is refused leaves a running turn nobody drives; one that meets a busy lane is
  answered 409 while its turn stays queued. A browser retry that is refused may be overtaken by its own late
  first delivery (`RejectedIsUnapplied` says "at the time").
- *Tools.* A deadline between two admissions leaves leases held until recovery; a render that fails leaves its
  operation handed off, so that a pause keeps converging. `admit` refuses every tool whose confirmation
  policy is not "never", also after the approval (`tool_broker_store.py:557`); calls scheduled beside a
  rejected proposal stay scheduled.
- *Stop guard.* Any commit between the evaluation and the decision makes the report stale and the run is lost;
  a verdict "fail" without blocking findings still ends with success; an unregistered finding code raises; the
  pause disposition of the guard is not reachable from the driver; a blocked admission leaves a call
  scheduled, so that the guard goes on until the budget ends.
- *Gateway.* A cancellation leaves an attempt `dispatch_started`, unlike the comment at
  `model_gateway_service.py:456–459`.
- *Stata sessions.* A result turned down by the sensitive output gate, a session reaped after ten idle
  minutes or lost with its transport leaves a started entry; the next command is sent without a configured
  session and the host makes one in its own root, the parent of all Workspaces. A close that raises while
  the host lives (`stdio_runtime.py:466–489`) is swallowed (`workspace_execution.py:172–180`) and leaves the
  binding; if the host did end the session, the next `configure` returns early (277–283) and the next
  command runs in the host's root as well. `CommandsRunInTheirDirectory` excepts exactly the sessions
  recorded in `lost`, which are these. Two callers on one scope can break the directory of a command (not
  reachable as wired); `close()` while calls are in flight leaves the host of the dropped runtime running; a
  `prepare()` overtaken by an abort reports success for a scope without an entry; a command served after an
  abort's close makes a session nobody owns until the call discards it. A data step whose session was lost
  runs in the empty memory of the new one. A succeeded operation with a missing required output raises at
  every reconciliation; scanner and reconciliation are wired only in tests.
- *Browser.* A notification counts as seen before its refresh succeeds, so a view whose refresh failed stays
  behind, shown as synchronised, until the next notification; a probe that fails is not repeated, which leaves
  the shell reconnecting, or ready without a stream; a refresh that arrives while the stream is down shows
  the shell as ready; `RESYNC_REQUIRED` as the answer to a reconnection is retried for ever. A failed
  attention query is not repeated before the next invalidation. A keepalive of the delta stream
  (`wait_for(anext(iterator), 10)`) closes the subscription it wraps, so that the stream ends after one and
  the page replays the history; a delta dropped from a full queue arrives out of order after it.
- *Context.* A compilation between a commit of the memory and the writing of its file raises. After a
  revision through the API the file of the user keeps the old revision, is reported invalid, and later edits
  of it are ignored. More than 64 uncurated messages wedge the window of a job; a shorter or longer window
  can send messages of an unknown delivery again; the contribution policy is not looked at again for a
  pending job; one document with empty chunks rolls a whole synchronisation back. Nodes that a knowledge
  tool returned stay in the contexts of the turn after their document was reindexed or left: only their
  existence is checked. A rejected skill change may stay installed after a crash or a concurrent rejection.
- *Research.* The merge of documents is not reachable from `src/src` alone; the round trip service is wired
  nowhere there; `adopt_path_data` asks for no active turn. A run of unknown outcome can never be classified;
  a crash between capture and completion leaves artifacts of an operation that never completed; an input's
  hash is checked before the copy only.
- *Releases and credentials.* An effect after a failed activation is recorded nowhere and does not keep the
  rollback from happening (above); so is an adoption of a migrated workspace that is announced then.
  Rotating a deleted profile brings it back; a rotation during a turn retires the reference the turn froze.
  A rollback after a failed probe clears a newer pending release; a failed candidate staged again has itself
  as its previous; a crash between begin and probe leaves the attempt probing; an irreversible attempt can
  never succeed. A crash between cleanup and unlock leaves the lock held; one during the creation of a
  Workspace leaves a file neither `create` nor `open` accepts. A signing of unknown outcome blocks for ever.
  Coordinator, release control, gates and signing services are wired only in tests.

## 5. Proofs

All theorems hold for every set of turns, calls, commands, deliveries, workspaces, routes, memories,
documents, skills, profiles, runners, releases, migrations, gates and so on, and for every bound; sets that
are counted are finite. Assumptions are named, in the module that declares the constants, and evaluated by
TLC in some run: `TurnsAssumption` (finite, `NoTurn` is none of them), `OutcomesAssumption` (endings are
terminal states), `AttemptsAssumption` (a delivery has a command and a body), `BranchOutcomeAssumption` (a
branch command ends "succeeded"), `ClientAssumption`, `PoolAssumption` (every caller of the pool has a
scope), `StataAssumption`, and for the newer modules that bounds are numbers, that "nothing" is none of the
things, that transient and fatal failure codes are different, and that what a constant lists is listed once.
Each proof is of the modules' own specification (`Spec`, `ClientSpec`, `AttentionSpec`, `DeltaSpec`,
`JournalSpec`, `StopSpec`, `StataSpec`, `CredentialsSpec`, `SchemaSpec`, `UpgradeSpec`, `GatesSpec`,
`AnalysisSpec`); the runs check the same properties on one of these at a time. `AnalysisSpec` starts from a
new Workspace; the run `research` also from one that has delivered, a state the proof needs nothing special
for.

- **`TurnLaneProofs`.** `IInv` = `TypeOK`, `LaneOwnership`, `UnstartedIsUntouched`,
  `RequestMatchesTurn`, `CompletedPauseIsFinal`. `LaneOwnership` alone is nearly inductive;
  `RequestMatchesTurn` needs that a queued turn has no request (`UnstartedIsUntouched`), or
  activation could start a turn with an open one. `LaneRefinement` maps every step to a step of
  `WriteLane` or a stutter, `RevisionGuardsStateHolds` goes action by action.
- **`ToolOperationsProofs`.** First `RefinesTurnLane`, which makes everything proved of `TurnLane`
  available. `ToolIInv` adds to the checked invariants `DriverIsPlaced` (where the driver stands,
  that it holds calls of its own turn only, that an admitted call in flight still has its lease: else
  `BeginExecution` could hand off without one), `CallsHaveTurns` (else a call could be the work of a
  turn created later) and `RendersBelongToOperations`. `FinishedTurnIsSettled` rests on the stop
  guard's counts, on `DriverIsPlaced` (no driver of a finished turn), and on a turn that never had a
  driver having no calls; `ConvergedPauseIsQuiescent` on `CompletedPauseIsFinal` of `TurnLane`, since
  such a turn stays paused, what was admitted was cancelled, and an admission needs it to run. The half of
  `HistoryIsFinal` about hand-offs and leases (`HandedOffUnderLease`) again needs `DriverIsPlaced`.
- **`AtomicCommitProofs`.** `IInv` = `TypeOK`, `OneWriter`, `CommittedIsWhole`, `AnswersAreTrue`,
  `EnvelopeIsKept`. `OneWriter` says exactly what the open transaction sees at each stage
  (`TransactionIsOpen`), so that `COMMIT` publishes a whole revision; that no row has its command yet gives
  uniqueness, hence `AppliedAt` names one row, hence `LogRefinement`: `Commit` is `Apply`, `ReturnAnswer`
  and `Replay` are `Accept`, all else stutters. `AcceptedIsAppliedHolds` joins the coordinator's side
  (`EnvelopeIsKept`) to the server's (`AnswersAreTrue`).
- **`HostProofs`**, the supervisor. `SupervisorIInv` = `IInv`, `SupervisorTypeOK`, `RunIsPlaced`,
  `DriverOwnsLane`; the branch handler's place is needed because its `CompleteTurn` would otherwise
  take the lane from under a driver. `RunnableIsAttendedHolds` assumes `Faults = {}` and needs
  `QueueIsAttended`: a branch turn that runs without a loop took a lane nobody queued for, so that
  its end strands nobody.
- **`ConversationProofs`**, the browser. `ClientIInv` = `ClientTypeOK`, `QueriesArePlaced`, `OneOfAKind`,
  `AnswersAreTrue`, `StreamIsAttended`, `NotificationsAreCovered`. A query is *live* when its answer
  will be looked at: its generation is current and, for a refresh, no later one overtook it.
  `OneOfAKind` (one live query of a kind) makes an arriving answer the witness that covered an entry,
  so that what it covered is now shown or lies behind the cursor of the stream; `AnswersAreTrue` (an
  answer is the database at one moment, and a live one is not older than the view) gives
  `ViewNeverGoesBack`; `StreamIsAttended` covers an entry at the moment of its commit, when a probe
  or the stream stands before it. The property that is checked counts a failed query as covering only
  while it is live, which is what the induction needs.
- The attention list, in the same module: `AttentionIInv` says that while the stream has nothing to say,
  what the latest query has read of each workspace is what that workspace asks for now, and that the list is so
  once no such query is left. A commit makes the stream have something to say, an invalidation makes a new
  query the latest, so an answer overtaken by a commit is never the latest one when the stream is quiet.
- **`ConversationProofs`**, the loop. `GatewayIInv` joins `NoRepeatAfterUnknown` (as `NeverRepeats` of each
  invocation) to where `execute_step` stands: before another attempt all earlier ones have certainly failed,
  and while one is sent it is the last and dispatched (`UnderWay`). Without it a retry could follow an
  unknown outcome. `StopIInv` joins `EndingIsEarned` to what a run knows: what was observed in a revision of
  the contract was exported in it, and a turn that ended has no run that could change what it rests on.
- **`ConversationProofs`**, the trace. `TraceIInv`: every page is the page of its number of *one* window,
  the journal up to the revision the first page froze, and its cursor names that window's entry at the
  page's end (`Fits`); an answer under way fits as the next page. Commits add entries above the frozen
  revision only, so the window stays. The rest is about `Newest`: in a finite set ordered by `Above` every
  rank below its cardinality is taken, by one entry (`RanksAreTaken`, `RanksDiffer`), so `Newest` lists the
  set in order, and what lies behind its `k`-th entry is listed as the rest of the list (`RestOfNewest`). So
  a page read behind a cursor is the next page of the window (`PageOfRest`): nothing is left out or
  repeated.
- **`ConversationProofs`**, the live text. `LiveIInv`: history, backlog and queue hold published deltas in
  the order they were sent, the queue after the backlog (`LinkOK`); while nothing was missed, what the page
  has of a call is its first deltas (`InOrder`); and while it is connected, all that was published is seen
  or on its way (`Covered`). So the next delta that it has not seen is the least of all it has not seen,
  hence the next of its call (`HeadIsNext`), across reconnects, repetitions and new mounts. The theorem's
  hypothesis, `ProjectsPrefixes`, is about the projection alone: of the first deltas of a message it shows a
  beginning of the message's text.
- **`HostProofs`**, what surrounds a release. Credentials: a command under way has a version to deal with,
  one that has not adopted it finds it allocated, and one about to mark it has emptied its target; that a
  version once allocated has a profile, and `OneVersionIsActive`, are needed for retiring the old one.
  Schema: what a runner read is never newer than the schema, which never goes back; the proof shows that
  steps stay whole without the lease, since a step compares the version in its own transaction - batches and
  leases guard the same conflict twice. Releases and migrations are one invariant (`UpgradeIInv`): an effect
  announced while an attempt is open marks it irreversible, only unmarked failed attempts are undone, and a
  call that was announced so knows an attempt that is marked; so a guard that is overtaken by the failure of
  its activation is not undone. Effects announced after the failure are not covered: they are the subject of
  `late_effect`. Gates: a gate that was passed keeps the results it was passed on (`GatesIInv`), because
  later results send the candidate back.
- **`ContextProofs`.** The curator: `JobsIInv` (one job at a time can still be sent, and it begins behind
  all that is completed) and `TaskIInv` (so does the window the task is about to make a job of) give
  `CuratedOnce`; `LastIsGreatest` needs the least-number principle, taken from the library's fact on
  well-founded relations. Retrieval: `SessionsIInv`, and `FindableIsCurrent`, which is why an old index
  finds nothing old. Memory: `LedgerIInv` (ledger and summary agree), `FilesIInv` (an edit whose pointer is
  still current was made of the current text: `EditRests`) and `DecaysIInv`, shown by what one command may
  do to one item (`MemoryMoves`); `EditsFollowTheirBase` and `ReplacedIsArchived` follow. Skills:
  `SkillsIInv` with `PlanRests`, a plan under way refers to a candidate or change that was decided. A
  decision is final (`SkillDecisionsAreFinal`) since a command that was prepared earlier finalizes only the
  pointer it read (`PlanRests`). `ContextsNeverGoBack` joins three facts: the pointer of a memory only grows
  (`NumbersGrow`), a frozen context names no revision above its pointer (`ContextKeeps`), and a context is
  frozen only while each memory it names is at the revision it names.
- **`ResearchProofs`.** `AnalysisInvariant` = `ResearchIInv` and `AnalysisIInv`, over the turn, its calls,
  the slots of all paths and everything they point to. A call carries what it read (`CallOK`, `ReturnOK`):
  by `Seen`, while the working slot stands where the making of a document found it, what it holds was there
  when that making began; the commit compares the pointer, hence `NothingIsReplacedUnseen`. A clean return
  needs a base that passed, and the base is there (`Lineage`), hence `DeliveredPassedAllAlong`.
  `ResultComesWithItsData` holds because the commit adopts the data with the result or finds it current.
  `BranchAsShown` needs that, while no command was committed since the request, the slots are those the
  request noted (`ShownIsCurrent`): whatever moves a slot of the path is a commit, an adoption of evidence
  included (`EvidenceCommits`). For `ConfirmedIsThere` a call that verifies must know outputs classified in
  a turn not after its own, of a run that completed (`RunnerOK`, `OutputsOK`).
- **`SessionProofs`**, the operations of a session. `StataIInv`: the executor's binding tells what the
  session of its number holds (`Holds`), or that session is one in which an exception got past the executor.
  So `RunCode` finds what the operation rests on (`FoundAsDeclared`); a completion carries that to the
  promotion, which takes only what a row confirms: `FormalRunsOnDeclaredData`. `RecoveryTellsTheTruth` needs
  that a row is its file, that a file is of something that ran, and that what was not handed off found
  nothing. Which operations recovery looks at, and in which order, is not part of it: it holds of whatever
  it is asked about.
- **`SessionProofs`**, the pool. `PoolIInv` is what a reader of `workspace_execution.py` takes for granted
  and no single line says: the table of a scope holds an entry of that scope or none, a caller that stands
  at an entry has one of its own scope, one that asks a runtime asks one that was built, and a close under
  way has a pool to close. `SerialIInv` adds that a caller between the two ends of a command has the lock of
  its entry, and that an entry stays in the table until it is given up: so two commands of one scope are in
  one entry, or one of the entries was given up (`SameScopeIsSerial`, for any callers on any scopes).
  `LaneIInv` says for each scope what its one caller and its entry know of the session: an entry that is
  started has a session in the right directory, unless the caller holds an answer that will make it discard
  the entry; what the runtimes believe is so, with the same exception; nothing is being closed while a
  caller is at work. It leaves out the sessions in `lost`, which only a failed close, a reaped session, a
  transport that ended and a result turned down by the sensitive output gate add to. It needs
  `OneCallerPerScope` and `CloseIsShutdown`, which are hypotheses of the theorem and hold of the run `pool`:
  a call passes the check of the write lane, which one turn of a Workspace has
  (`workspace_execution.py:329–343`, `TurnLane`), and the service closes the pool after the supervisor
  (`service_main.py:430–431`). The pool alone does not keep `CommandsRunInTheirDirectory`: TLC finds a
  command in the wrong directory when two callers share a scope, and when the pool is closed under its
  callers.

Four theorems have the same subject as an implementation proof: `LaneRefinement`, `LogRefinement`,
`RefinesTurnLane` and `SupervisorRefinesTurnLane` show that the detailed modules implement the abstract ones.
Some invariants are only proved, not run, since the run of their module already checks a stronger or a more
telling one: `LaneOwnership`, `RequestMatchesTurn`, `ResolvedCallsAreOver`, `LeaseCoversExecution`,
`AcceptedIsApplied`, `RejectedIsUnapplied`, `RunnableIsAttended`, `NotificationsAreCovered`,
`ViewStaysWithItsWorkspace`, `OneVersionIsActive`, `MigrationIsWhole`, `SchemaNeverGoesBack`,
`ReplacedIsArchived`, `LastKnownGoodStays`, `PoolTypeOK` and `SameScopeIsSerial`.

Only model-checked:

- Liveness under fairness and `ENABLED` are beyond the prover: `QueueAdvancesUnlessFaulted`,
  `RunningGetsDrivenUnlessFaulted`, `CallsEnd`, `ViewCatchesUp`, `RunsEnd`.
- Induction over data is, too: `ProjectsPrefixes`, from which `LiveTextIsTheAnswer` is proved, is about a
  fold over tokens. TLC evaluates it on the messages of the run `gateway`, where it is the assumption
  `MessagesAreRead`.

## 6. Not modelled

Contents: messages, prompts, contracts, arguments, manifests, texts, scores and findings enter only as
choices or identities. The scanner's evidence is a choice among the classifications it can give, the
model's answer a choice among proposals. The MCP host, the provider, the vault and SQLite are external and
modelled by what the code relies on. Not modelled are the ranking of retrieval and the parsing of files, the
citations, most read-only routes and views (they read one snapshot and keep no state), the merge of documents
(which nothing under `src/src` starts), `close()` of the scheduler, the audits that produce gate results, and
offline evaluation. `PROJECT.json` says for each component what is left out.
