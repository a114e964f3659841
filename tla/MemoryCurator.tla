---------------------------- MODULE MemoryCurator ----------------------------
(***************************************************************************)
(* The memory curator: windows of messages are sent to a model, whose       *)
(* answer becomes memories, an episode and skill candidates                 *)
(* (persistence/memory_curator_store.py), by the one maintenance task of a  *)
(* workspace (interfaces/memory_maintenance_runner.py run_once).            *)
(*                                                                         *)
(* A job is identified by the last message of its window.  Every ledger     *)
(* operation of run_once is a step of its own: commands of the user come    *)
(* between, and the process may die at any of them.  Messages of one        *)
(* conversation are numbered in the order of their revisions.               *)
(***************************************************************************)
EXTENDS Skills

CONSTANTS
    MaxMessages,   \* bound of the model: messages of the conversation
    WindowLimit,   \* messages of one window; 64 in the program
    MaxAttempts,   \* attempts of one job; 3 in the program
    Pinned         \* items of the kinds that do not decay

ASSUME CuratorAssumption ==
    /\ MaxMessages \in Nat /\ WindowLimit \in Nat \ {0}
    /\ MaxAttempts \in Nat \ {0} /\ Pinned \subseteq Items

VARIABLES
    messages,      \* messages of the conversation so far
    ended,         \* messages whose turn succeeded, paused or failed
    contributes,   \* conversation_memory_policies.contribute_memory
    jobs,          \* memory_maintenance_jobs and their last attempt
    maintenance    \* where the maintenance task is

curatorVars == <<messages, ended, contributes, jobs, maintenance>>

Messages == 1 .. MaxMessages
JobStatuses == {"none", "pending", "prepared", "dispatched", "completed",
                "failed", "delivery_unknown"}
Job == [status : JobStatuses, start : 0 .. MaxMessages,
        attempts : 0 .. MaxAttempts]
Places == {"idle", "enqueue", "prepare", "dispatch", "send", "decay"}
Decay == [item : Items, retention : 0 .. MaxCommits, tier : Tiers]
Maintenance == [at : Places, start : 0 .. MaxMessages, end : 0 .. MaxMessages,
                decays : SUBSET Decay]

Idle == [at |-> "idle", start |-> 0, end |-> 0, decays |-> {}]

CuratorInit ==
    /\ messages = 0 /\ ended = {} /\ contributes = TRUE
    /\ jobs = [e \in Messages |-> [status |-> "none", start |-> 0, attempts |-> 0]]
    /\ maintenance = Idle

-----------------------------------------------------------------------------
(* What the task has to work on.                                            *)

InFlight == {e \in Messages : jobs[e].status \in {"prepared", "dispatched"}}
Retryable == {e \in Messages :
                 \/ jobs[e].status = "pending"
                 \/ jobs[e].status = "failed" /\ jobs[e].attempts < MaxAttempts}
Completed == {e \in Messages : jobs[e].status = "completed"}
Last(S) == CHOOSE n \in S \cup {0} : \A k \in S : k <= n

Processed == Last(Completed)

(* A job that can not be tried again blocks the message at its end.         *)
Blocked(e) ==
    \/ jobs[e].status = "delivery_unknown"
    \/ jobs[e].status = "failed" /\ jobs[e].attempts >= MaxAttempts
Eligible == {e \in ended : e > Processed /\ ~Blocked(e)}

(* Mutant: the next window starts with the last message of the previous one.*)
StartAtProcessed == IF Processed = 0 THEN 1 ELSE Processed
NextStart == Processed + 1

(* _load_window: the window ends where its limit cuts it.                   *)
Cut(start, end) == IF end - start >= WindowLimit THEN start + WindowLimit - 1
                   ELSE end

At(place) == maintenance.at = place
GoTo(place) == maintenance' = [maintenance EXCEPT !.at = place]
Stop == maintenance' = Idle
SetJob(e, job) == jobs' = [jobs EXCEPT ![e] = job]

-----------------------------------------------------------------------------
(* run_once.                                                                *)

(* Mutant: an attempt that was sent is tried again after a restart.         *)
InterruptedAsFailed(e) == "failed"
Interrupted(e) == IF jobs[e].status = "dispatched" THEN "delivery_unknown"
                  ELSE "failed"

RecoverInterrupted ==
    /\ At("idle")
    /\ \E e \in InFlight :
          /\ Commit
          /\ SetJob(e, [jobs[e] EXCEPT !.status = Interrupted(e)])
    /\ UNCHANGED <<ledger, maintenance>>

Window(start, end) ==
    maintenance' = [at |-> "enqueue", start |-> start, end |-> Cut(start, end),
                    decays |-> {}]

Choose ==
    /\ IF Retryable # {}
       THEN \E e \in Retryable : Window(jobs[e].start, e)
       ELSE contributes /\ Eligible # {} /\ Window(NextStart, Last(Eligible))
    /\ UNCHANGED <<revision, ledger, jobs>>

(* Mutant: work is looked for without recovering what was interrupted.      *)
DiscoverBeforeRecovery == At("idle") /\ Choose
DiscoverWindow == At("idle") /\ InFlight = {} /\ Choose

(* A job of the same end is taken up as it is; after its last attempt       *)
(* run_once returns.                                                        *)
Enqueue ==
    /\ At("enqueue")
    /\ LET e == maintenance.end IN
       IF jobs[e].status = "none"
       THEN /\ Commit
            /\ SetJob(e, [status |-> "pending", start |-> maintenance.start,
                          attempts |-> 0])
            /\ GoTo("prepare")
       ELSE /\ IF jobs[e].attempts >= MaxAttempts THEN Stop ELSE GoTo("prepare")
            /\ UNCHANGED <<revision, jobs>>
    /\ UNCHANGED ledger

(* Mutant: any job that is not completed can be sent.                       *)
DispatchableUnlessDone(e) == jobs[e].status # "completed"
Dispatchable(e) == jobs[e].status \in {"pending", "failed"}

PrepareAttempt ==
    /\ At("prepare")
    /\ LET e == maintenance.end IN
       IF Dispatchable(e)
       THEN /\ Commit
            /\ SetJob(e, [jobs[e] EXCEPT !.status = "prepared", !.attempts = @ + 1])
            /\ GoTo("dispatch")
       ELSE Stop /\ UNCHANGED <<revision, jobs>>
    /\ UNCHANGED ledger

MarkDispatchStarted ==
    /\ At("dispatch")
    /\ Commit
    /\ SetJob(maintenance.end,
              [jobs[maintenance.end] EXCEPT !.status = "dispatched"])
    /\ GoTo("send")
    /\ UNCHANGED ledger

(* The provider refused, the answer was unusable, or nothing is known.      *)
Fail ==
    /\ At("send")
    /\ Commit
    /\ \E outcome \in {"failed", "delivery_unknown"} :
          SetJob(maintenance.end,
                 [jobs[maintenance.end] EXCEPT !.status = outcome])
    /\ Stop
    /\ UNCHANGED ledger

InUse(text) == \E i \in Items : /\ memory[i].lifecycle \in {"active", "proposed"}
                                /\ memory[i].text = text

(* The memory one proposal of the answer leaves: none when it is rejected   *)
(* or what it says is in use already.                                       *)
Curated ==
    {memory} \cup
    {[memory EXCEPT ![i] =
         [lifecycle |-> l, number |-> 1, text |-> t, pointer |-> 1,
          tier |-> TierFor(l), retention |-> 1, successor |-> None]] :
        i \in Items \ Stored, t \in {u \in Texts : ~InUse(u)},
        l \in {"active", "proposed"}}

FinalizeWindow ==
    /\ At("send")
    /\ \E m \in Curated : Write(m)
    /\ SetJob(maintenance.end,
              [jobs[maintenance.end] EXCEPT !.status = "completed"])
    /\ \/ UNCHANGED evolution
       \/ \E c \in Candidates, items \in SUBSET Items : evolution' = Proposed(c, items)
    /\ GoTo("decay")

(* apply_retention_policy: the items to move are read before the            *)
(* transaction that moves them.                                             *)
Colder(tier) == CASE tier = "hot" -> "warm" [] tier = "warm" -> "cold"
                  [] OTHER -> "archived"
Decaying == {i \in Stored \ Pinned : /\ memory[i].successor = None
                                     /\ memory[i].tier # "archived"}

ScanRetention ==
    /\ \/ At("decay")
       \/ At("idle") /\ InFlight = {} /\ Retryable = {}
          /\ (~contributes \/ Eligible = {})
    /\ \E S \in SUBSET Decaying :
          maintenance' = IF S = {} THEN Idle ELSE
             [Idle EXCEPT !.at = "decay",
                 !.decays = {[item |-> i, retention |-> memory[i].retention,
                              tier |-> Colder(memory[i].tier)] : i \in S}]
    /\ maintenance.decays = {}
    /\ UNCHANGED <<revision, ledger, jobs>>

Unmoved(d) == memory[d.item].retention = d.retention /\ memory[d.item].successor = None

ApplyRetention ==
    /\ At("decay") /\ maintenance.decays # {}
    /\ IF \A d \in maintenance.decays : Unmoved(d)
       THEN Write([i \in Items |->
               IF \E d \in maintenance.decays : d.item = i
               THEN [memory[i] EXCEPT !.tier = Colder(@), !.retention = @ + 1]
               ELSE memory[i]])
       ELSE UNCHANGED <<revision, ledger>>
    /\ Stop
    /\ UNCHANGED jobs

-----------------------------------------------------------------------------
(* The conversation, and the end of the process.                            *)

NewMessage ==
    /\ messages < MaxMessages
    /\ messages' = messages + 1
    /\ UNCHANGED <<revision, ended, contributes, jobs, maintenance>>

EndTurn ==
    /\ \E n \in 1 .. messages : n \notin ended /\ ended' = ended \cup {n}
    /\ UNCHANGED <<revision, messages, contributes, jobs, maintenance>>

SetContribution ==
    /\ Commit
    /\ contributes' = ~contributes
    /\ UNCHANGED <<messages, ended, jobs, maintenance>>

(* Or run_once raises: a credential is missing, a plan is stale.            *)
CuratorDies ==
    /\ ~At("idle")
    /\ Stop
    /\ UNCHANGED <<revision, messages, ended, contributes, jobs>>

RunOnce ==
    /\ \/ RecoverInterrupted \/ DiscoverWindow \/ Enqueue \/ PrepareAttempt
       \/ MarkDispatchStarted \/ Fail \/ ScanRetention \/ ApplyRetention
    /\ UNCHANGED <<messages, ended, contributes, files, edits, skillVars>>

FinishesWindow ==
    /\ FinalizeWindow
    /\ UNCHANGED <<messages, ended, contributes, files, edits, change, adoption,
                   versions, judged, proposals, skillFiles, publishing>>

CuratorStep ==
    \/ RunOnce
    \/ FinishesWindow
    \/ /\ NewMessage \/ EndTurn \/ SetContribution \/ CuratorDies
       /\ UNCHANGED <<ledger, files, edits, skillVars>>

-----------------------------------------------------------------------------
CuratorTypeOK ==
    /\ messages \in 0 .. MaxMessages /\ ended \subseteq 1 .. messages
    /\ contributes \in BOOLEAN
    /\ jobs \in [Messages -> Job]
    /\ maintenance \in Maintenance
    /\ Cardinality(InFlight) <= 1

(* No message is curated twice: the windows of completed jobs do not share  *)
(* a message, whatever was retried, given up, cut at the limit or found     *)
(* again after a crash (memory_curator_store.py discover_window).           *)
CuratedOnce ==
    \A d, e \in Completed : d < e => d < jobs[e].start

(* A window whose delivery is unknown is never sent again as that window,   *)
(* one that was on its way when the process died counts as unknown, and a   *)
(* completed one is not reopened: not by recovery, a retry or an            *)
(* enqueue that finds the job (memory_curator_store.py recover_interrupted, *)
(* enqueue, prepare_attempt).                                               *)
UnknownIsNotResent ==
    [][\A e \in Messages :
          /\ jobs[e].status \in {"completed", "delivery_unknown"}
             => jobs'[e].status = jobs[e].status
          /\ jobs[e].status = "dispatched" /\ At("idle")
             => jobs'[e].status \in {"dispatched", "delivery_unknown"}]_jobs
=============================================================================
