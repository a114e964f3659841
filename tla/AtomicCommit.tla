---------------------------- MODULE AtomicCommit ----------------------------
(***************************************************************************)
(* One command, from the browser's coordinator to the transaction that     *)
(* applies it: PendingCommandCoordinator (web/src/browser/commands.ts),    *)
(* the error mapping of POST /api/v1/commands (interfaces/api/app.py) and  *)
(* AtomicCommitService.commit_mutation (persistence/atomic_commit.py), one *)
(* step per CommitCrashPoint.  Every other module takes one such           *)
(* transaction as one action; this is the one that shows why it may.       *)
(*                                                                         *)
(* An attempt is one delivery of an envelope to the server and its answer. *)
(* The network may lose the answer, or keep the envelope until after the   *)
(* coordinator has given the attempt up and tried again.  The process may  *)
(* die at any point; SQLite then keeps what COMMIT published and nothing   *)
(* of the open transaction.                                                *)
(***************************************************************************)
EXTENDS Integers, Sequences, FiniteSets

CONSTANTS Commands,    \* command identities
          Bodies,      \* what a request with such an identity can ask for
          Attempts,    \* deliveries of an envelope, each used once
          NoBody, NoAttempt,
          MaxNotices   \* bound on the Outbox rows of one commit

ASSUME AttemptsAssumption ==
    /\ \A a \in Attempts : a.command \in Commands /\ a.body \in Bodies
    /\ NoAttempt \notin Attempts /\ NoBody \notin Bodies
ASSUME MaxNoticesAssumption == MaxNotices \in Nat

VARIABLES db,       \* what is committed
          scratch,  \* what the writer's open transaction sees, else what is committed
          stage,    \* of each attempt, how far it got
          answer,   \* of each attempt, what the server answered
          pending,  \* the coordinator's PendingCommandState per command
          asked,    \* the body of the coordinator's envelope
          via       \* the attempt whose answer the coordinator awaits

serverVars == <<db, scratch>>
attemptVars == <<stage, answer>>
clientVars == <<pending, asked, via>>
vars == <<db, scratch, stage, answer, pending, asked, via>>

(* The stages of the transaction are the crash points of the code.          *)
InsideStages == {"begun", "revised", "mutated", "journaled", "notified", "receipted"}
ServerStages == InsideStages \cup {"committed"}
Stages == {"unused", "sent", "over"} \cup ServerStages
AnswerKinds == {"none", "accepted", "rejected", "failed"}
PendingStates == {"none", "submitting", "delivery_unknown", "accepted", "rejected"}

NoAnswer == [kind |-> "none", revision |-> 0]

EmptyDatabase == [commits  |-> << >>,  \* workspace_commits, by workspace_revision
                  facts    |-> {},     \* what the mutations wrote: command, body, revision
                  journal  |-> {},     \* journal_entries: <<workspace_revision, ordinal>>
                  outbox   |-> {},     \* outbox_entries: <<workspace_revision, ordinal>>
                  receipts |-> {}]     \* command_receipts: command, body, revision

Init ==
    /\ db = EmptyDatabase
    /\ scratch = EmptyDatabase
    /\ stage = [a \in Attempts |-> "unused"]
    /\ answer = [a \in Attempts |-> NoAnswer]
    /\ pending = [c \in Commands |-> "none"]
    /\ asked = [c \in Commands |-> NoBody]
    /\ via = [c \in Commands |-> NoAttempt]

WriterBusy == \E a \in Attempts : stage[a] \in InsideStages

(* MAX(workspace_revision) as the open transaction sees it.                 *)
CurrentRevision == Len(scratch.commits)

Row(a, r) == [command |-> a.command, body |-> a.body, revision |-> r]

ReceiptsOf(a) == {x \in scratch.receipts : x.command = a.command}

Enter(a, next) == stage' = [stage EXCEPT ![a] = next] /\ UNCHANGED answer

Finish(a, kind, r) ==
    /\ stage' = [stage EXCEPT ![a] = "over"]
    /\ answer' = [answer EXCEPT ![a] = [kind |-> kind, revision |-> r]]

(* Mutant: the error leaves the transaction open for whoever comes next.    *)
KeepOpen == UNCHANGED serverVars

RollbackUnit == scratch' = db /\ UNCHANGED db

-----------------------------------------------------------------------------
(* The coordinator.                                                         *)

Send(a) == stage[a] = "unused" /\ Enter(a, "sent")

Submit(a) ==
    /\ pending[a.command] = "none"
    /\ pending' = [pending EXCEPT ![a.command] = "submitting"]
    /\ asked' = [asked EXCEPT ![a.command] = a.body]
    /\ via' = [via EXCEPT ![a.command] = a]
    /\ Send(a)
    /\ UNCHANGED serverVars

(* Mutant: the retry is made from what the form holds now.                  *)
RetryEdited(a) ==
    /\ pending[a.command] = "delivery_unknown"
    /\ pending' = [pending EXCEPT ![a.command] = "submitting"]
    /\ via' = [via EXCEPT ![a.command] = a]
    /\ Send(a)
    /\ UNCHANGED <<serverVars, asked>>

(* The only retry: the same envelope, and only of an unknown delivery.      *)
Retry(a) ==
    /\ pending[a.command] = "delivery_unknown"
    /\ a.body = asked[a.command]
    /\ pending' = [pending EXCEPT ![a.command] = "submitting"]
    /\ via' = [via EXCEPT ![a.command] = a]
    /\ Send(a)
    /\ UNCHANGED <<serverVars, asked>>

(* Another client of the HTTP API uses the identity, for the same request   *)
(* or for one of its own; the coordinator never sees the answer.            *)
Reuse(a) == Send(a) /\ UNCHANGED <<serverVars, clientVars>>

(* Mutant: the answer is shown as the server put it.                        *)
AsAnswered(kind) == kind

(* A 2xx, an error envelope, or a body that does not parse.                 *)
Outcome(kind) == CASE kind = "accepted" -> "accepted"
                   [] kind = "rejected" -> "rejected"
                   [] kind = "failed"   -> "delivery_unknown"

Deliver(c) ==
    /\ pending[c] = "submitting"
    /\ stage[via[c]] = "over"
    /\ pending' = [pending EXCEPT ![c] = Outcome(answer[via[c]].kind)]
    /\ UNCHANGED <<serverVars, attemptVars, asked, via>>

(* fetch fails; wherever the attempt is, it goes on there.                  *)
GiveUpCommand(c) ==
    /\ pending[c] = "submitting"
    /\ pending' = [pending EXCEPT ![c] = "delivery_unknown"]
    /\ UNCHANGED <<serverVars, attemptVars, asked, via>>

-----------------------------------------------------------------------------
(* The transaction.                                                         *)

(* BEGIN IMMEDIATE takes the database's only write lock.                    *)
Begin(a) ==
    /\ stage[a] = "sent"
    /\ ~WriterBusy
    /\ Enter(a, "begun")
    /\ UNCHANGED <<serverVars, clientVars>>

(* Mutant: the identity alone decides.                                      *)
ReplayAnything(a) ==
    /\ stage[a] = "begun"
    /\ \E x \in ReceiptsOf(a) : Finish(a, "accepted", x.revision)
    /\ UNCHANGED <<serverVars, clientVars>>

(* The identity has a receipt and the request has its hash: ROLLBACK, and   *)
(* the receipt's answer once more.                                          *)
Replay(a) ==
    /\ stage[a] = "begun"
    /\ \E x \in ReceiptsOf(a) : x.body = a.body /\ Finish(a, "accepted", x.revision)
    /\ UNCHANGED <<serverVars, clientVars>>

(* Mutant: every receipt is a conflict.                                     *)
ConflictAlways(a) ==
    /\ stage[a] = "begun"
    /\ ReceiptsOf(a) # {}
    /\ Finish(a, "rejected", 0)
    /\ UNCHANGED <<serverVars, clientVars>>

(* The identity has a receipt for another request: ROLLBACK, and 409.       *)
Conflict(a) ==
    /\ stage[a] = "begun"
    /\ \E x \in ReceiptsOf(a) : x.body # a.body
    /\ Finish(a, "rejected", 0)
    /\ UNCHANGED <<serverVars, clientVars>>

InsertCommit(a) ==
    /\ stage[a] = "begun"
    /\ ReceiptsOf(a) = {}
    /\ scratch' = [scratch EXCEPT !.commits = Append(@, a.command)]
    /\ Enter(a, "revised")
    /\ UNCHANGED <<db, clientVars>>

Mutate(a) ==
    /\ stage[a] = "revised"
    /\ scratch' = [scratch EXCEPT !.facts = @ \cup {Row(a, CurrentRevision)}]
    /\ Enter(a, "mutated")
    /\ UNCHANGED <<db, clientVars>>

(* Journal facts and Outbox rows are numbered from 1 within the commit; a   *)
(* commit needs a Journal fact.                                             *)
InsertJournal(a) ==
    /\ stage[a] = "mutated"
    /\ scratch' = [scratch EXCEPT !.journal = @ \cup {<<CurrentRevision, 1>>}]
    /\ Enter(a, "journaled")
    /\ UNCHANGED <<db, clientVars>>

InsertOutbox(a, notices) ==
    /\ stage[a] = "journaled"
    /\ scratch' = [scratch EXCEPT !.outbox = @ \cup ({CurrentRevision} \X (1..notices))]
    /\ Enter(a, "notified")
    /\ UNCHANGED <<db, clientVars>>

InsertReceipt(a) ==
    /\ stage[a] = "notified"
    /\ scratch' = [scratch EXCEPT !.receipts = @ \cup {Row(a, CurrentRevision)}]
    /\ Enter(a, "receipted")
    /\ UNCHANGED <<db, clientVars>>

Commit(a) ==
    /\ stage[a] = "receipted"
    /\ db' = scratch
    /\ stage' = [stage EXCEPT ![a] = "committed"]
    /\ answer' = [answer EXCEPT ![a].revision = CurrentRevision]
    /\ UNCHANGED <<scratch, clientVars>>

ReturnAnswer(a) ==
    /\ stage[a] = "committed"
    /\ Finish(a, "accepted", answer[a].revision)
    /\ UNCHANGED <<serverVars, clientVars>>

(* The mutation refuses: ROLLBACK, and the endpoint answers 409.            *)
Refuse(a) ==
    /\ stage[a] = "revised"
    /\ RollbackUnit
    /\ Finish(a, "rejected", 0)
    /\ UNCHANGED clientVars

(* Anything else that is raised, the lock's timeout before the transaction  *)
(* included: ROLLBACK where one is open, and a 500 without an error envelope.*)
FailUnit(a) ==
    /\ stage[a] \in {"sent"} \cup ServerStages
    /\ IF stage[a] \in InsideStages THEN RollbackUnit ELSE UNCHANGED serverVars
    /\ Finish(a, "failed", 0)
    /\ UNCHANGED clientVars

(* The process dies with its transaction; the connection breaks.  Envelopes *)
(* still on their way find the next process.                                *)
Crash ==
    LET dead == {a \in Attempts : stage[a] \in ServerStages}
    IN  /\ stage' = [a \in Attempts |-> IF a \in dead THEN "over" ELSE stage[a]]
        /\ answer' = [a \in Attempts |->
                IF a \in dead THEN [kind |-> "failed", revision |-> 0] ELSE answer[a]]
        /\ RollbackUnit
        /\ UNCHANGED clientVars

Next ==
    \/ \E a \in Attempts :
         \/ Submit(a) \/ Retry(a) \/ Reuse(a)
         \/ Begin(a) \/ Replay(a) \/ Conflict(a) \/ InsertCommit(a)
         \/ Mutate(a) \/ InsertJournal(a) \/ InsertReceipt(a) \/ Commit(a) \/ ReturnAnswer(a)
         \/ \E notices \in 0..MaxNotices : InsertOutbox(a, notices)
         \/ Refuse(a) \/ FailUnit(a)
    \/ \E c \in Commands : Deliver(c) \/ GiveUpCommand(c)
    \/ Crash

Spec == Init /\ [][Next]_vars

-----------------------------------------------------------------------------
Rows == [command : Commands, body : Bodies, revision : Nat]

Databases == [commits : Seq(Commands), facts : SUBSET Rows, receipts : SUBSET Rows,
              journal : SUBSET (Nat \X Nat), outbox : SUBSET (Nat \X Nat)]

(* Type invariant.                                                          *)
TypeOK ==
    /\ db \in Databases
    /\ scratch \in Databases
    /\ stage \in [Attempts -> Stages]
    /\ answer \in [Attempts -> [kind : AnswerKinds, revision : Nat]]
    /\ pending \in [Commands -> PendingStates]
    /\ asked \in [Commands -> Bodies \cup {NoBody}]
    /\ via \in [Commands -> Attempts \cup {NoAttempt}]

(* What is committed is whole: every revision has its command, the one      *)
(* write of its mutation, a Journal fact, Outbox rows without a gap and the *)
(* receipt for exactly that request, and nothing is left over from a        *)
(* transaction that was refused, failed or died.                            *)
Whole(d) ==
    /\ \A r \in 1..Len(d.commits) :
         /\ \E x \in d.facts : x.revision = r /\ x.command = d.commits[r]
         /\ <<r, 1>> \in d.journal
    /\ d.facts = d.receipts
    /\ \A x \in d.facts : x.revision \in 1..Len(d.commits)
    /\ \A x, y \in d.facts : x.command = y.command \/ x.revision = y.revision => x = y
    /\ \A row \in d.journal \cup d.outbox : row[1] \in 1..Len(d.commits) /\ row[2] \in Nat \ {0}
    /\ \A row \in d.outbox : \A n \in 1..row[2] : <<row[1], n>> \in d.outbox

CommittedIsWhole == Whole(db)

(* What the coordinator shows as accepted is applied as it was asked for,   *)
(* whatever was lost, retried or sent by others in between.                 *)
AcceptedIsApplied ==
    \A c \in Commands : pending[c] = "accepted" =>
        [command |-> c, body |-> asked[c], revision |-> answer[via[c]].revision] \in db.facts

(* A 409 tells the truth at the time: the refused envelope was not applied  *)
(* by an earlier delivery whose answer got lost.                            *)
RejectedIsUnapplied ==
    [][\A a \in Attempts :
          answer'[a].kind = "rejected" /\ answer[a].kind = "none" =>
              \A x \in db.facts : ~(x.command = a.command /\ x.body = a.body)]_vars

(* The strengthening of the proofs.  One writer at a time; what it sees is  *)
(* what is committed and, from InsertCommit on, what it wrote itself for a  *)
(* command that has no receipt yet.                                         *)
Writing(a) == stage[a] \in InsideStages \ {"begun"}

TransactionIsOpen(a) ==
    LET new == Len(db.commits) + 1
        written(stages, old, rows) == IF stage[a] \in stages THEN old ELSE old \cup rows
    IN  /\ \A x \in db.facts : x.command # a.command
        /\ scratch.commits = Append(db.commits, a.command)
        /\ scratch.facts = written({"revised"}, db.facts, {Row(a, new)})
        /\ scratch.journal = written({"revised", "mutated"}, db.journal, {<<new, 1>>})
        /\ \E notices \in 0..MaxNotices :
             scratch.outbox = written({"revised", "mutated", "journaled"},
                                      db.outbox, {new} \X (1..notices))
        /\ scratch.receipts = IF stage[a] = "receipted" THEN db.receipts \cup {Row(a, new)}
                                                        ELSE db.receipts

OneWriter ==
    /\ \A a, b \in Attempts : stage[a] \in InsideStages /\ stage[b] \in InsideStages => a = b
    /\ \A a \in Attempts : Writing(a) => TransactionIsOpen(a)
    /\ (\A a \in Attempts : ~Writing(a)) => scratch = db

(* An acceptance, given or about to be given, names a committed row.        *)
AnswersAreTrue ==
    \A a \in Attempts :
        /\ answer[a].kind # "none" <=> stage[a] = "over"
        /\ stage[a] = "committed" \/ answer[a].kind = "accepted" =>
              Row(a, answer[a].revision) \in db.facts

(* What the coordinator waits for or shows is about the envelope it made.   *)
EnvelopeIsKept ==
    \A c \in Commands : pending[c] # "none" =>
        /\ via[c] \in Attempts /\ via[c].command = c /\ via[c].body = asked[c]
        /\ pending[c] = "accepted" => answer[via[c]].kind = "accepted"

IInv == /\ TypeOK
        /\ OneWriter
        /\ CommittedIsWhole
        /\ AnswersAreTrue
        /\ EnvelopeIsKept

(* The endpoint is a CommandLog.                                            *)
AppliedAt(d, r) ==
    LET x == CHOOSE x \in d.facts : x.revision = r
    IN  [command |-> x.command, body |-> x.body]

Log == INSTANCE CommandLog WITH
           log <- [r \in 1..Len(db.commits) |-> AppliedAt(db, r)],
           accepted <- {Row(a, answer[a].revision) : a \in {a \in Attempts : answer[a].kind = "accepted"}}

ImplementsCommandLog == Log!Spec
=============================================================================
