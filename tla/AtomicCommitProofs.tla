------------------------- MODULE AtomicCommitProofs -------------------------
(***************************************************************************)
(* Proofs about AtomicCommit, for any commands, bodies and deliveries.     *)
(***************************************************************************)
EXTENDS AtomicCommit, SequenceTheorems, TLAPS

LEMMA RowType ==
  ASSUME NEW a \in Attempts, NEW r \in Nat
  PROVE  Row(a, r) \in Rows
BY AttemptsAssumption DEF Row, Rows

(* What the writer adds to its transaction has the right types.             *)
LEMMA ScratchType ==
  ASSUME TypeOK, NEW a \in Attempts,
         \/ InsertCommit(a) \/ Mutate(a) \/ InsertJournal(a) \/ InsertReceipt(a)
         \/ \E notices \in 0..MaxNotices : InsertOutbox(a, notices)
  PROVE  scratch' \in Databases
<1> DEFINE n == Len(scratch.commits)
<1>1. /\ scratch.commits \in Seq(Commands) /\ n \in Nat
      /\ scratch.facts \in SUBSET Rows /\ scratch.receipts \in SUBSET Rows
      /\ scratch.journal \in SUBSET (Nat \X Nat) /\ scratch.outbox \in SUBSET (Nat \X Nat)
      /\ scratch = [commits |-> scratch.commits, facts |-> scratch.facts,
                    journal |-> scratch.journal, outbox |-> scratch.outbox,
                    receipts |-> scratch.receipts]
  BY DEF TypeOK, Databases
<1>2. Row(a, n) \in Rows
  BY <1>1, RowType
<1>3. CASE InsertCommit(a)
  <2>1. Append(scratch.commits, a.command) \in Seq(Commands)
    BY <1>1, AttemptsAssumption
  <2> QED
    BY <1>1, <1>3, <2>1 DEF InsertCommit, Databases
<1>4. CASE Mutate(a)
  BY <1>1, <1>2, <1>4 DEF Mutate, CurrentRevision, Databases
<1>5. CASE InsertJournal(a)
  <2>1. <<n, 1>> \in Nat \X Nat
    BY <1>1
  <2> QED
    BY <1>1, <1>5, <2>1 DEF InsertJournal, CurrentRevision, Databases
<1>6. ASSUME NEW notices \in 0..MaxNotices, InsertOutbox(a, notices)
      PROVE  scratch' \in Databases
  <2>1. {n} \X (1..notices) \subseteq Nat \X Nat
    BY <1>1, MaxNoticesAssumption
  <2> QED
    BY <1>1, <1>6, <2>1 DEF InsertOutbox, CurrentRevision, Databases
<1>7. CASE InsertReceipt(a)
  BY <1>1, <1>2, <1>7 DEF InsertReceipt, CurrentRevision, Databases
<1> QED
  BY <1>3, <1>4, <1>5, <1>6, <1>7

(* Finish and Enter move one attempt and keep the types.                    *)
LEMMA AttemptType ==
  ASSUME TypeOK, NEW a \in Attempts,
         \/ \E next \in Stages : Enter(a, next)
         \/ \E kind \in AnswerKinds, r \in Nat : Finish(a, kind, r)
  PROVE  /\ stage' \in [Attempts -> Stages]
         /\ answer' \in [Attempts -> [kind : AnswerKinds, revision : Nat]]
<1> USE DEF TypeOK
<1>1. ASSUME NEW next \in Stages, Enter(a, next)
      PROVE  /\ stage' \in [Attempts -> Stages]
             /\ answer' \in [Attempts -> [kind : AnswerKinds, revision : Nat]]
  BY <1>1 DEF Enter
<1>2. ASSUME NEW kind \in AnswerKinds, NEW r \in Nat, Finish(a, kind, r)
      PROVE  /\ stage' \in [Attempts -> Stages]
             /\ answer' \in [Attempts -> [kind : AnswerKinds, revision : Nat]]
  BY <1>2 DEF Finish, Stages
<1> QED
  BY <1>1, <1>2

LEMMA TypeStep == IInv /\ [Next]_vars => TypeOK'
<1> SUFFICES ASSUME IInv, [Next]_vars PROVE TypeOK'
  OBVIOUS
<1>t. TypeOK
  BY DEF IInv
<1> USE DEF serverVars, attemptVars, clientVars
<1>s. /\ {"unused", "sent", "over", "begun", "revised", "mutated", "journaled",
          "notified", "receipted", "committed"} \subseteq Stages
      /\ {"none", "accepted", "rejected", "failed"} \subseteq AnswerKinds
      /\ {"submitting", "delivery_unknown", "accepted", "rejected"} \subseteq PendingStates
  BY DEF Stages, ServerStages, InsideStages, AnswerKinds, PendingStates
<1>1. ASSUME NEW a \in Attempts, Submit(a) \/ Retry(a) \/ Reuse(a)
      PROVE  TypeOK'
  <2>1. Enter(a, "sent")
    BY <1>1 DEF Submit, Retry, Reuse, Send
  <2>2. /\ stage' \in [Attempts -> Stages]
        /\ answer' \in [Attempts -> [kind : AnswerKinds, revision : Nat]]
    BY <1>s, <2>1, <1>t, AttemptType
  <2> QED
    BY <1>1, <1>s, <1>t, <2>2, AttemptsAssumption DEF TypeOK, Submit, Retry, Reuse
<1>2. ASSUME NEW a \in Attempts, Begin(a)
      PROVE  TypeOK'
  BY <1>2, <1>s, <1>t, AttemptType DEF Begin, TypeOK
<1>3. ASSUME NEW a \in Attempts, Replay(a) \/ Conflict(a) \/ ReturnAnswer(a)
      PROVE  TypeOK'
  <2>1. PICK kind \in AnswerKinds, r \in Nat : Finish(a, kind, r)
    BY <1>3, <1>s, <1>t DEF TypeOK, Replay, Conflict, ReturnAnswer, ReceiptsOf, Databases, Rows
  <2>2. UNCHANGED <<serverVars, clientVars>>
    BY <1>3 DEF Replay, Conflict, ReturnAnswer
  <2> QED
    BY <2>1, <2>2, <1>t, AttemptType DEF TypeOK
<1>4. ASSUME NEW a \in Attempts,
             \/ InsertCommit(a) \/ Mutate(a) \/ InsertJournal(a) \/ InsertReceipt(a)
             \/ \E notices \in 0..MaxNotices : InsertOutbox(a, notices)
      PROVE  TypeOK'
  <2>1. scratch' \in Databases
    BY <1>4, <1>t, ScratchType
  <2>2. PICK next \in Stages : Enter(a, next)
    BY <1>4, <1>s DEF InsertCommit, Mutate, InsertJournal, InsertReceipt, InsertOutbox
  <2>3. UNCHANGED <<db, clientVars>>
    BY <1>4 DEF InsertCommit, Mutate, InsertJournal, InsertReceipt, InsertOutbox
  <2> QED
    BY <2>1, <2>2, <2>3, <1>t, AttemptType DEF TypeOK
<1>5. ASSUME NEW a \in Attempts, Commit(a)
      PROVE  TypeOK'
  <2>1. Len(scratch.commits) \in Nat
    BY <1>t DEF TypeOK, Databases
  <2> QED
    BY <1>5, <1>s, <1>t, <2>1 DEF Commit, CurrentRevision, TypeOK
<1>6. ASSUME NEW a \in Attempts, Refuse(a) \/ FailUnit(a)
      PROVE  TypeOK'
  <2>1. PICK kind \in AnswerKinds : Finish(a, kind, 0)
    BY <1>6, <1>s DEF Refuse, FailUnit
  <2>2. UNCHANGED <<db, clientVars>> /\ scratch' \in {db, scratch}
    BY <1>6 DEF Refuse, FailUnit, RollbackUnit
  <2> QED
    BY <2>1, <2>2, <1>t, AttemptType DEF TypeOK
<1>7. ASSUME NEW c \in Commands, Deliver(c) \/ GiveUpCommand(c)
      PROVE  TypeOK'
  <2>1. CASE GiveUpCommand(c)
    BY <1>s, <1>t, <2>1 DEF TypeOK, GiveUpCommand
  <2>2. CASE Deliver(c)
    <3>1. answer[via[c]].kind \in {"accepted", "rejected", "failed"}
      BY <1>t, <2>2 DEF IInv, TypeOK, EnvelopeIsKept, AnswersAreTrue, AnswerKinds, Deliver
    <3>2. Outcome(answer[via[c]].kind) \in PendingStates
      BY <1>s, <3>1 DEF Outcome
    <3> HIDE DEF Outcome
    <3> QED
      BY <1>t, <2>2, <3>2 DEF TypeOK, Deliver
  <2> QED
    BY <1>7, <2>1, <2>2
<1>8. CASE Crash
  BY <1>8, <1>s, <1>t DEF TypeOK, Crash, RollbackUnit
<1>9. CASE UNCHANGED vars
  BY <1>9, <1>t DEF vars, TypeOK
<1> QED
  BY <1>1, <1>2, <1>3, <1>4, <1>5, <1>6, <1>7, <1>8, <1>9 DEF Next

-----------------------------------------------------------------------------
(* The writer.                                                              *)

(* A step of one attempt that is not writing before or after it.            *)
LEMMA QuietWriter ==
  ASSUME IInv, NEW a \in Attempts, NEW s,
         stage' = [stage EXCEPT ![a] = s],
         ~Writing(a), s \notin InsideStages \ {"begun"}, s = "begun" => ~WriterBusy,
         UNCHANGED serverVars
  PROVE  OneWriter'
<1> USE DEF IInv, serverVars
<1>1. \A b \in Attempts : stage'[b] = IF b = a THEN s ELSE stage[b]
  BY DEF TypeOK
<1>2. \A b \in Attempts : Writing(b)' <=> Writing(b)
  BY <1>1 DEF Writing
<1>3. ASSUME NEW b \in Attempts, NEW c \in Attempts,
             stage'[b] \in InsideStages, stage'[c] \in InsideStages
      PROVE  b = c
  BY <1>1, <1>3 DEF OneWriter, WriterBusy, InsideStages
<1>4. ASSUME NEW b \in Attempts, Writing(b)'
      PROVE  TransactionIsOpen(b)'
  <2>1. b # a /\ stage'[b] = stage[b] /\ TransactionIsOpen(b)
    BY <1>1, <1>2, <1>4 DEF OneWriter
  <2> QED
    BY <2>1 DEF TransactionIsOpen, Row
<1> QED
  BY <1>2, <1>3, <1>4 DEF OneWriter

(* The writer moves on: it stays the only one.                              *)
LEMMA WriterMoves ==
  ASSUME IInv, NEW a \in Attempts, NEW s \in InsideStages \ {"begun"},
         stage[a] \in InsideStages,
         stage' = [stage EXCEPT ![a] = s],
         TransactionIsOpen(a)'
  PROVE  OneWriter'
<1>1. \A b \in Attempts : stage'[b] = IF b = a THEN s ELSE stage[b]
  BY DEF IInv, TypeOK
<1>2. \A b \in Attempts : stage'[b] \in InsideStages => b = a
  BY <1>1 DEF IInv, OneWriter
<1>3. Writing(a)'
  BY <1>1 DEF Writing
<1> QED
  BY <1>2, <1>3 DEF OneWriter, Writing

(* What a begun transaction sees is what is committed.                      *)
LEMMA BegunSeesCommitted ==
  ASSUME IInv, NEW a \in Attempts, stage[a] = "begun"
  PROVE  scratch = db
<1>1. \A b \in Attempts : ~Writing(b)
  BY DEF IInv, OneWriter, Writing, InsideStages
<1> QED
  BY <1>1 DEF IInv, OneWriter

(* Each write adds its rows at the new revision.                            *)
LEMMA WriterStep ==
  ASSUME IInv, NEW a \in Attempts,
         \/ InsertCommit(a) \/ Mutate(a) \/ InsertJournal(a) \/ InsertReceipt(a)
         \/ \E notices \in 0..MaxNotices : InsertOutbox(a, notices)
  PROVE  OneWriter'
<1> DEFINE new == Len(db.commits) + 1
<1>1. /\ db.commits \in Seq(Commands)
      /\ \A b \in Attempts : b.command \in Commands
      /\ db \in Databases /\ scratch \in Databases
      /\ stage \in [Attempts -> Stages]
  BY AttemptsAssumption DEF IInv, TypeOK, Databases
<1>2. Len(Append(db.commits, a.command)) = new
  BY <1>1
<1>3. CASE InsertCommit(a)
  <2>1. stage[a] = "begun" /\ scratch = db /\ stage' = [stage EXCEPT ![a] = "revised"]
        /\ db' = db
    BY <1>3, BegunSeesCommitted DEF InsertCommit, Enter
  <2>2. \A x \in db.facts : x.command # a.command
    BY <1>3, <2>1 DEF InsertCommit, ReceiptsOf, IInv, CommittedIsWhole, Whole
  <2>3. /\ scratch'.commits = Append(db.commits, a.command)
        /\ scratch'.facts = db.facts /\ scratch'.journal = db.journal
        /\ scratch'.outbox = db.outbox /\ scratch'.receipts = db.receipts
    BY <1>1, <1>3, <2>1 DEF InsertCommit, Databases
  <2>4. stage'[a] = "revised"
    BY <1>1, <2>1
  <2>5. 0 \in 0..MaxNotices
    BY MaxNoticesAssumption
  <2>6. TransactionIsOpen(a)'
    BY <2>1, <2>2, <2>3, <2>4, <2>5 DEF TransactionIsOpen
  <2> QED
    BY <2>1, <2>6, WriterMoves DEF InsideStages
<1>4. ASSUME Writing(a)
      PROVE  TransactionIsOpen(a) /\ CurrentRevision = new
  BY <1>2, <1>4 DEF IInv, OneWriter, TransactionIsOpen, CurrentRevision
<1>5. CASE Mutate(a)
  <2>1. /\ stage[a] = "revised" /\ stage' = [stage EXCEPT ![a] = "mutated"] /\ db' = db
        /\ scratch' = [scratch EXCEPT !.facts = @ \cup {Row(a, CurrentRevision)}]
    BY <1>5 DEF Mutate, Enter
  <2>2. TransactionIsOpen(a) /\ CurrentRevision = new
    BY <1>4, <2>1 DEF Writing, InsideStages
  <2>3. /\ scratch'.commits = scratch.commits
        /\ scratch'.facts = scratch.facts \cup {Row(a, new)}
        /\ scratch'.journal = scratch.journal
        /\ scratch'.outbox = scratch.outbox /\ scratch'.receipts = scratch.receipts
    BY <1>1, <2>1, <2>2 DEF Databases
  <2>4. stage'[a] = "mutated"
    BY <1>1, <2>1
  <2>5. TransactionIsOpen(a)'
    BY <2>1, <2>2, <2>3, <2>4 DEF TransactionIsOpen, Row
  <2> QED
    BY <2>1, <2>5, WriterMoves DEF InsideStages
<1>6. CASE InsertJournal(a)
  <2>1. /\ stage[a] = "mutated" /\ stage' = [stage EXCEPT ![a] = "journaled"] /\ db' = db
        /\ scratch' = [scratch EXCEPT !.journal = @ \cup {<<CurrentRevision, 1>>}]
    BY <1>6 DEF InsertJournal, Enter
  <2>2. TransactionIsOpen(a) /\ CurrentRevision = new
    BY <1>4, <2>1 DEF Writing, InsideStages
  <2>3. /\ scratch'.commits = scratch.commits /\ scratch'.facts = scratch.facts
        /\ scratch'.journal = scratch.journal \cup {<<new, 1>>}
        /\ scratch'.outbox = scratch.outbox /\ scratch'.receipts = scratch.receipts
    BY <1>1, <2>1, <2>2 DEF Databases
  <2>4. stage'[a] = "journaled"
    BY <1>1, <2>1
  <2>5. TransactionIsOpen(a)'
    BY <2>1, <2>2, <2>3, <2>4 DEF TransactionIsOpen, Row
  <2> QED
    BY <2>1, <2>5, WriterMoves DEF InsideStages
<1>7. ASSUME NEW notices \in 0..MaxNotices, InsertOutbox(a, notices)
      PROVE  OneWriter'
  <2>1. /\ stage[a] = "journaled" /\ stage' = [stage EXCEPT ![a] = "notified"] /\ db' = db
        /\ scratch' = [scratch EXCEPT !.outbox = @ \cup ({CurrentRevision} \X (1..notices))]
    BY <1>7 DEF InsertOutbox, Enter
  <2>2. TransactionIsOpen(a) /\ CurrentRevision = new
    BY <1>4, <2>1 DEF Writing, InsideStages
  <2>3. /\ scratch'.commits = scratch.commits /\ scratch'.facts = scratch.facts
        /\ scratch'.journal = scratch.journal /\ scratch'.receipts = scratch.receipts
        /\ scratch'.outbox = scratch.outbox \cup ({new} \X (1..notices))
    BY <1>1, <2>1, <2>2 DEF Databases
  <2>4. stage'[a] = "notified"
    BY <1>1, <2>1
  <2>5. TransactionIsOpen(a)'
    BY <2>1, <2>2, <2>3, <2>4 DEF TransactionIsOpen, Row
  <2> QED
    BY <2>1, <2>5, WriterMoves DEF InsideStages
<1>8. CASE InsertReceipt(a)
  <2>1. /\ stage[a] = "notified" /\ stage' = [stage EXCEPT ![a] = "receipted"] /\ db' = db
        /\ scratch' = [scratch EXCEPT !.receipts = @ \cup {Row(a, CurrentRevision)}]
    BY <1>8 DEF InsertReceipt, Enter
  <2>2. TransactionIsOpen(a) /\ CurrentRevision = new
    BY <1>4, <2>1 DEF Writing, InsideStages
  <2>3. /\ scratch'.commits = scratch.commits /\ scratch'.facts = scratch.facts
        /\ scratch'.journal = scratch.journal /\ scratch'.outbox = scratch.outbox
        /\ scratch'.receipts = scratch.receipts \cup {Row(a, new)}
    BY <1>1, <2>1, <2>2 DEF Databases
  <2>4. stage'[a] = "receipted"
    BY <1>1, <2>1
  <2>5. TransactionIsOpen(a)'
    BY <2>1, <2>2, <2>3, <2>4 DEF TransactionIsOpen, Row
  <2> QED
    BY <2>1, <2>5, WriterMoves DEF InsideStages
<1> QED
  BY <1>3, <1>5, <1>6, <1>7, <1>8

(* The transaction ends, with or without its process: nobody writes and     *)
(* what a next one would see is what is committed.                          *)
LEMMA NobodyWrites ==
  ASSUME IInv, scratch' = db', \A b \in Attempts : stage'[b] \notin InsideStages
  PROVE  OneWriter'
BY DEF OneWriter, Writing

LEMMA OneWriterStep ==
  ASSUME IInv, [Next]_vars
  PROVE  OneWriter'
<1> USE DEF serverVars, attemptVars, clientVars
<1>t. stage \in [Attempts -> Stages]
  BY DEF IInv, TypeOK
<1>w. \A a, b \in Attempts : stage[a] \in InsideStages /\ stage[b] \in InsideStages => a = b
  BY DEF IInv, OneWriter
<1>1. ASSUME NEW a \in Attempts, Submit(a) \/ Retry(a) \/ Reuse(a)
      PROVE  OneWriter'
  <2>1. stage[a] = "unused" /\ stage' = [stage EXCEPT ![a] = "sent"] /\ UNCHANGED serverVars
    BY <1>1 DEF Submit, Retry, Reuse, Send, Enter
  <2> QED
    BY <2>1, QuietWriter DEF Writing, InsideStages
<1>2. ASSUME NEW a \in Attempts, Begin(a)
      PROVE  OneWriter'
  BY <1>2, QuietWriter DEF Begin, Enter, Writing, InsideStages
<1>3. ASSUME NEW a \in Attempts, Replay(a) \/ Conflict(a) \/ ReturnAnswer(a)
      PROVE  OneWriter'
  <2>1. /\ stage[a] \in {"begun", "committed"}
        /\ stage' = [stage EXCEPT ![a] = "over"]
        /\ UNCHANGED serverVars
    BY <1>3 DEF Replay, Conflict, ReturnAnswer, Finish
  <2> QED
    BY <2>1, QuietWriter DEF Writing, InsideStages
<1>4. ASSUME NEW a \in Attempts,
             \/ InsertCommit(a) \/ Mutate(a) \/ InsertJournal(a) \/ InsertReceipt(a)
             \/ \E notices \in 0..MaxNotices : InsertOutbox(a, notices)
      PROVE  OneWriter'
  BY <1>4, WriterStep
<1>5. ASSUME NEW a \in Attempts, Commit(a) \/ Refuse(a)
      PROVE  OneWriter'
  <2>1. /\ stage[a] \in InsideStages
        /\ stage' = [stage EXCEPT ![a] = "committed"] \/ stage' = [stage EXCEPT ![a] = "over"]
        /\ scratch' = db'
    BY <1>5 DEF Commit, Refuse, RollbackUnit, Finish, InsideStages
  <2>2. \A b \in Attempts : stage'[b] \notin InsideStages
    BY <1>t, <1>w, <2>1 DEF InsideStages
  <2> QED
    BY <2>1, <2>2, NobodyWrites
<1>6. ASSUME NEW a \in Attempts, FailUnit(a)
      PROVE  OneWriter'
  <2>1. stage' = [stage EXCEPT ![a] = "over"]
    BY <1>6 DEF FailUnit, Finish
  <2>2. CASE stage[a] \in InsideStages
    <3>1. scratch' = db'
      BY <1>6, <2>2 DEF FailUnit, RollbackUnit
    <3>2. \A b \in Attempts : stage'[b] \notin InsideStages
      BY <1>t, <1>w, <2>1, <2>2 DEF InsideStages
    <3> QED
      BY <3>1, <3>2, NobodyWrites
  <2>3. CASE stage[a] \notin InsideStages
    BY <1>6, <2>1, <2>3, QuietWriter DEF FailUnit, Writing, InsideStages
  <2> QED
    BY <2>2, <2>3
<1>7. CASE Crash
  <2>1. scratch' = db'
    BY <1>7 DEF Crash, RollbackUnit
  <2>2. \A b \in Attempts : stage'[b] \notin InsideStages
    BY <1>7 DEF Crash, ServerStages, InsideStages
  <2> QED
    BY <2>1, <2>2, NobodyWrites
<1>8. CASE UNCHANGED vars \/ \E c \in Commands : Deliver(c) \/ GiveUpCommand(c)
  <2>1. UNCHANGED <<db, scratch, stage>>
    BY <1>8 DEF vars, Deliver, GiveUpCommand
  <2> QED
    BY <2>1 DEF IInv, OneWriter, Writing, TransactionIsOpen, Row
<1> QED
  BY <1>1, <1>2, <1>3, <1>4, <1>5, <1>6, <1>7, <1>8 DEF Next

-----------------------------------------------------------------------------
(* What is committed.                                                       *)

(* COMMIT publishes a whole revision after whole revisions.                 *)
LEMMA CommitPublishesWhole ==
  ASSUME IInv, NEW a \in Attempts, stage[a] = "receipted"
  PROVE  Whole(scratch)
<1> DEFINE new == Len(db.commits) + 1
<1>1. /\ \A x \in db.facts : x.command # a.command
      /\ scratch.commits = Append(db.commits, a.command)
      /\ scratch.facts = db.facts \cup {Row(a, new)}
      /\ scratch.journal = db.journal \cup {<<new, 1>>}
      /\ scratch.receipts = db.receipts \cup {Row(a, new)}
  BY DEF IInv, OneWriter, Writing, InsideStages, TransactionIsOpen
<1>2. PICK notices \in 0..MaxNotices : scratch.outbox = db.outbox \cup ({new} \X (1..notices))
  BY DEF IInv, OneWriter, Writing, InsideStages, TransactionIsOpen
<1>3. /\ db.commits \in Seq(Commands) /\ Len(db.commits) \in Nat
      /\ db.outbox \in SUBSET (Nat \X Nat) /\ db.journal \in SUBSET (Nat \X Nat)
      /\ a.command \in Commands
  BY AttemptsAssumption DEF IInv, TypeOK, Databases
<1>4. /\ Len(scratch.commits) = new
      /\ scratch.commits[new] = a.command
      /\ \A r \in 1..Len(db.commits) : scratch.commits[r] = db.commits[r]
  BY <1>1, <1>3
<1>5. Whole(db)
  BY DEF IInv, CommittedIsWhole
<1>6. Row(a, new).revision = new /\ Row(a, new).command = a.command
  BY DEF Row
<1> HIDE DEF new
<1>n. new \in Nat /\ 1..new = 1..Len(db.commits) \cup {new} /\ new \notin 1..Len(db.commits)
  BY <1>3 DEF new
<1>7. ASSUME NEW r \in 1..Len(scratch.commits)
      PROVE  /\ \E x \in scratch.facts : x.revision = r /\ x.command = scratch.commits[r]
             /\ <<r, 1>> \in scratch.journal
  BY <1>1, <1>4, <1>5, <1>6, <1>7, <1>n DEF Whole
<1>8. scratch.facts = scratch.receipts
  BY <1>1, <1>5 DEF Whole
<1>9. \A x \in scratch.facts : x.revision \in 1..Len(scratch.commits)
  BY <1>1, <1>4, <1>5, <1>6, <1>n DEF Whole
<1>10. ASSUME NEW x \in scratch.facts, NEW y \in scratch.facts,
              x.command = y.command \/ x.revision = y.revision
       PROVE  x = y
  BY <1>1, <1>5, <1>6, <1>10, <1>n DEF Whole
<1>11. ASSUME NEW row \in scratch.journal \cup scratch.outbox
       PROVE  row[1] \in 1..Len(scratch.commits) /\ row[2] \in Nat \ {0}
  <2>1. CASE row \in db.journal \cup db.outbox
    BY <1>4, <1>5, <1>n, <2>1 DEF Whole
  <2>2. CASE row = <<new, 1>>
    BY <1>4, <1>n, <2>2
  <2>3. CASE row \in {new} \X (1..notices)
    BY <1>4, <1>n, <2>3
  <2> QED
    BY <1>1, <1>2, <1>11, <2>1, <2>2, <2>3
<1>12. ASSUME NEW row \in scratch.outbox, NEW n \in 1..row[2]
       PROVE  <<row[1], n>> \in scratch.outbox
  <2>1. CASE row \in db.outbox
    BY <1>2, <1>5, <1>12, <2>1 DEF Whole
  <2>2. CASE row \in {new} \X (1..notices)
    <3>1. row[1] = new /\ n \in 1..notices
      BY <1>12, <2>2, MaxNoticesAssumption
    <3> QED
      BY <1>2, <3>1
  <2> QED
    BY <1>2, <1>12, <2>1, <2>2
<1> QED
  BY <1>7, <1>8, <1>9, <1>10, <1>11, <1>12 DEF Whole

(* Only COMMIT changes what is committed, and rows are never taken away.    *)
LEMMA DatabaseStep ==
  ASSUME IInv, [Next]_vars
  PROVE  \/ db' = db
         \/ \E a \in Attempts : Commit(a)
<1> QED
  BY DEF Next, vars, serverVars, Submit, Retry, Reuse, Begin, Replay, Conflict, InsertCommit,
         Mutate, InsertJournal, InsertOutbox, InsertReceipt, ReturnAnswer, Refuse, FailUnit, RollbackUnit,
         Deliver, GiveUpCommand, Crash

LEMMA WholeStep ==
  ASSUME IInv, [Next]_vars
  PROVE  CommittedIsWhole'
<1>1. CASE db' = db
  BY <1>1 DEF IInv, CommittedIsWhole, Whole
<1>2. ASSUME NEW a \in Attempts, Commit(a)
      PROVE  CommittedIsWhole'
  <2>1. Whole(scratch) /\ db' = scratch
    BY <1>2, CommitPublishesWhole DEF Commit
  <2> QED
    BY <2>1 DEF CommittedIsWhole, Whole
<1> QED
  BY <1>1, <1>2, DatabaseStep

(* The rows of the committed facts stay.                                    *)
LEMMA FactsStay ==
  ASSUME IInv, [Next]_vars
  PROVE  db.facts \subseteq db'.facts
<1>1. ASSUME NEW a \in Attempts, Commit(a)
      PROVE  db.facts \subseteq db'.facts
  BY <1>1 DEF IInv, OneWriter, Writing, InsideStages, TransactionIsOpen, Commit
<1> QED
  BY <1>1, DatabaseStep

-----------------------------------------------------------------------------
(* Answers and the coordinator.                                             *)

Truthful(a) ==
    /\ answer[a].kind # "none" <=> stage[a] = "over"
    /\ stage[a] = "committed" \/ answer[a].kind = "accepted" =>
          Row(a, answer[a].revision) \in db.facts

(* An attempt that does not move keeps its answer and its row.              *)
LEMMA StillTruthful ==
  ASSUME IInv, [Next]_vars, NEW a \in Attempts,
         stage'[a] = stage[a], answer'[a] = answer[a]
  PROVE  Truthful(a)'
BY FactsStay DEF IInv, AnswersAreTrue, Truthful, Row

LEMMA AnswersStep ==
  ASSUME IInv, [Next]_vars
  PROVE  AnswersAreTrue'
<1> SUFFICES ASSUME NEW b \in Attempts PROVE Truthful(b)'
  BY DEF AnswersAreTrue, Truthful
<1> USE DEF serverVars, attemptVars, clientVars
<1>t. /\ stage \in [Attempts -> Stages]
      /\ answer \in [Attempts -> [kind : AnswerKinds, revision : Nat]]
      /\ Truthful(b)
  BY DEF IInv, TypeOK, AnswersAreTrue, Truthful
<1>e. ASSUME NEW a \in Attempts, NEW s, Enter(a, s), stage[a] # "over", s \notin {"over", "committed"}
      PROVE  Truthful(b)'
  <2>1. CASE a = b
    BY <1>t, <1>e, <2>1 DEF Enter, Truthful
  <2>2. CASE a # b
    BY <1>t, <1>e, <2>2, StillTruthful DEF Enter
  <2> QED
    BY <2>1, <2>2
<1>f. ASSUME NEW a \in Attempts, NEW kind \in AnswerKinds \ {"none"}, NEW r \in Nat, Finish(a, kind, r),
             kind = "accepted" => Row(a, r) \in db.facts
      PROVE  Truthful(b)'
  <2>1. CASE a = b
    <3>1. stage'[b] = "over" /\ answer'[b] = [kind |-> kind, revision |-> r]
      BY <1>t, <1>f, <2>1 DEF Finish
    <3> QED
      BY <1>f, <2>1, <3>1, FactsStay DEF Truthful, Row
  <2>2. CASE a # b
    BY <1>t, <1>f, <2>2, StillTruthful DEF Finish
  <2> QED
    BY <2>1, <2>2
<1>1. ASSUME NEW a \in Attempts, Submit(a) \/ Retry(a) \/ Reuse(a) \/ Begin(a)
      PROVE  Truthful(b)'
  <2>1. stage[a] \in {"unused", "sent"} /\ (Enter(a, "sent") \/ Enter(a, "begun"))
    BY <1>1 DEF Submit, Retry, Reuse, Send, Begin
  <2> QED
    BY <2>1, <1>e
<1>2. ASSUME NEW a \in Attempts,
             \/ InsertCommit(a) \/ Mutate(a) \/ InsertJournal(a) \/ InsertReceipt(a)
             \/ \E notices \in 0..MaxNotices : InsertOutbox(a, notices)
      PROVE  Truthful(b)'
  <2>1. PICK s \in InsideStages : Enter(a, s) /\ stage[a] \in InsideStages
    BY <1>2 DEF InsertCommit, Mutate, InsertJournal, InsertReceipt, InsertOutbox, InsideStages
  <2> QED
    BY <2>1, <1>e DEF InsideStages
<1>3. ASSUME NEW a \in Attempts, Replay(a)
      PROVE  Truthful(b)'
  <2>1. PICK x \in ReceiptsOf(a) : x.body = a.body /\ Finish(a, "accepted", x.revision)
    BY <1>3 DEF Replay
  <2>2. x \in db.facts /\ x.command = a.command
    BY <1>3, BegunSeesCommitted DEF Replay, ReceiptsOf, IInv, CommittedIsWhole, Whole
  <2>3. x = Row(a, x.revision) /\ x.revision \in Nat
    BY <2>1, <2>2 DEF Row, IInv, TypeOK, Databases, Rows
  <2> QED
    BY <1>f, <2>1, <2>2, <2>3 DEF AnswerKinds
<1>4. ASSUME NEW a \in Attempts, Conflict(a) \/ Refuse(a)
      PROVE  Truthful(b)'
  BY <1>4, <1>f DEF Conflict, Refuse, AnswerKinds
<1>5. ASSUME NEW a \in Attempts, Commit(a)
      PROVE  Truthful(b)'
  <2>1. CASE a = b
    <3>1. /\ stage'[b] = "committed" /\ stage[b] = "receipted"
          /\ answer'[b].kind = answer[b].kind
          /\ answer'[b].revision = CurrentRevision
          /\ db' = scratch
      BY <1>5, <1>t, <2>1 DEF Commit
    <3>2. answer[b].kind = "none"
      BY <1>t, <3>1 DEF Truthful
    <3>3. TransactionIsOpen(b)
      BY <3>1 DEF IInv, OneWriter, Writing, InsideStages
    <3>4. CurrentRevision = Len(db.commits) + 1
      BY <3>3, AttemptsAssumption DEF TransactionIsOpen, CurrentRevision, IInv, TypeOK, Databases
    <3>5. Row(b, CurrentRevision) \in scratch.facts
      BY <3>1, <3>3, <3>4 DEF TransactionIsOpen
    <3> QED
      BY <3>1, <3>2, <3>5 DEF Truthful, Row
  <2>2. CASE a # b
    BY <1>5, <1>t, <2>2, StillTruthful DEF Commit
  <2> QED
    BY <2>1, <2>2
<1>6. ASSUME NEW a \in Attempts, ReturnAnswer(a)
      PROVE  Truthful(b)'
  <2>1. Row(a, answer[a].revision) \in db.facts /\ answer[a].revision \in Nat
    BY <1>6, <1>t DEF ReturnAnswer, IInv, AnswersAreTrue
  <2> QED
    BY <1>6, <1>f, <2>1 DEF ReturnAnswer, AnswerKinds
<1>7. ASSUME NEW a \in Attempts, FailUnit(a)
      PROVE  Truthful(b)'
  BY <1>7, <1>f DEF FailUnit, AnswerKinds
<1>8. CASE Crash
  <2>1. CASE stage[b] \in ServerStages
    BY <1>8, <2>1 DEF Crash, Truthful
  <2>2. CASE stage[b] \notin ServerStages
    BY <1>8, <2>2, StillTruthful DEF Crash
  <2> QED
    BY <2>1, <2>2
<1>9. CASE UNCHANGED vars \/ \E c \in Commands : Deliver(c) \/ GiveUpCommand(c)
  BY <1>9, StillTruthful DEF vars, Deliver, GiveUpCommand
<1> QED
  BY <1>1, <1>2, <1>3, <1>4, <1>5, <1>6, <1>7, <1>8, <1>9 DEF Next

(* An answer is given once.                                                 *)
LEMMA AnswersStay ==
  ASSUME IInv, [Next]_vars, NEW a \in Attempts, answer[a].kind # "none"
  PROVE  answer'[a] = answer[a]
<1> USE DEF serverVars, attemptVars, clientVars
<1>1. /\ stage[a] = "over" /\ stage \in [Attempts -> Stages]
      /\ answer \in [Attempts -> [kind : AnswerKinds, revision : Nat]]
  BY DEF IInv, AnswersAreTrue, TypeOK
<1>2. ASSUME NEW b \in Attempts,
             \/ Submit(b) \/ Retry(b) \/ Reuse(b) \/ Begin(b) \/ InsertCommit(b) \/ Mutate(b)
             \/ InsertJournal(b) \/ InsertReceipt(b)
             \/ \E notices \in 0..MaxNotices : InsertOutbox(b, notices)
      PROVE  answer'[a] = answer[a]
  BY <1>2 DEF Submit, Retry, Reuse, Send, Begin, InsertCommit, Mutate, InsertJournal,
              InsertReceipt, InsertOutbox, Enter
<1>3. ASSUME NEW b \in Attempts,
             Replay(b) \/ Conflict(b) \/ Commit(b) \/ ReturnAnswer(b) \/ Refuse(b) \/ FailUnit(b)
      PROVE  answer'[a] = answer[a]
  <2>1. b # a
    BY <1>1, <1>3 DEF Replay, Conflict, Commit, ReturnAnswer, Refuse, FailUnit, ServerStages, InsideStages
  <2> QED
    BY <1>1, <1>3, <2>1 DEF Replay, Conflict, Commit, ReturnAnswer, Refuse, FailUnit, Finish
<1>4. CASE Crash
  BY <1>1, <1>4 DEF Crash, ServerStages, InsideStages
<1>5. CASE UNCHANGED vars \/ \E c \in Commands : Deliver(c) \/ GiveUpCommand(c)
  BY <1>5 DEF vars, Deliver, GiveUpCommand
<1> QED
  BY <1>2, <1>3, <1>4, <1>5 DEF Next

LEMMA EnvelopeStep ==
  ASSUME IInv, [Next]_vars
  PROVE  EnvelopeIsKept'
<1> USE DEF serverVars, attemptVars, clientVars
<1>t. /\ pending \in [Commands -> PendingStates] /\ asked \in [Commands -> Bodies \cup {NoBody}]
      /\ via \in [Commands -> Attempts \cup {NoAttempt}]
  BY DEF IInv, TypeOK
<1>k. \A c \in Commands : pending[c] # "none" =>
        /\ via[c] \in Attempts /\ via[c].command = c /\ via[c].body = asked[c]
        /\ pending[c] = "accepted" =>
              answer[via[c]].kind = "accepted" /\ answer'[via[c]].kind = "accepted"
  BY AnswersStay DEF IInv, EnvelopeIsKept
<1>1. ASSUME NEW a \in Attempts, Submit(a)
      PROVE  EnvelopeIsKept'
  BY <1>1, <1>t, <1>k, AttemptsAssumption DEF Submit, EnvelopeIsKept
<1>2. ASSUME NEW a \in Attempts, Retry(a)
      PROVE  EnvelopeIsKept'
  BY <1>2, <1>t, <1>k, AttemptsAssumption DEF Retry, EnvelopeIsKept
<1>3. ASSUME NEW c \in Commands, Deliver(c)
      PROVE  EnvelopeIsKept'
  <2>1. answer[via[c]].kind \in {"accepted", "rejected", "failed"}
    BY <1>3, <1>k DEF Deliver, IInv, TypeOK, AnswersAreTrue, AnswerKinds
  <2>2. Outcome(answer[via[c]].kind) = "accepted" => answer[via[c]].kind = "accepted"
    BY <2>1 DEF Outcome
  <2> QED
    BY <1>3, <1>t, <1>k, <2>2 DEF Deliver, EnvelopeIsKept
<1>4. ASSUME NEW c \in Commands, GiveUpCommand(c)
      PROVE  EnvelopeIsKept'
  BY <1>4, <1>t, <1>k DEF GiveUpCommand, EnvelopeIsKept
<1>5. CASE UNCHANGED clientVars
  BY <1>5, <1>k DEF EnvelopeIsKept
<1> QED
  BY <1>1, <1>2, <1>3, <1>4, <1>5
     DEF Next, vars, Reuse, Begin, Replay, Conflict, InsertCommit, Mutate, InsertJournal,
         InsertOutbox, InsertReceipt, Commit, ReturnAnswer, Refuse, FailUnit, Crash

-----------------------------------------------------------------------------
LEMMA Inductive == Spec => []IInv
<1>1. Init => IInv
  <2> SUFFICES ASSUME Init PROVE IInv
    OBVIOUS
  <2>1. TypeOK
    BY DEF Init, TypeOK, EmptyDatabase, Databases, NoAnswer, AnswerKinds, PendingStates, Stages
  <2>2. Whole(db)
    BY DEF Init, EmptyDatabase, Whole
  <2>3. OneWriter
    BY DEF Init, OneWriter, Writing, InsideStages
  <2> QED
    BY <2>1, <2>2, <2>3 DEF Init, IInv, CommittedIsWhole, AnswersAreTrue, EnvelopeIsKept, NoAnswer
<1>2. IInv /\ [Next]_vars => IInv'
  BY TypeStep, OneWriterStep, WholeStep, AnswersStep, EnvelopeStep DEF IInv
<1> QED
  BY <1>1, <1>2, PTL DEF Spec

(* Every variable keeps its type, for any commands and deliveries.          *)
THEOREM TypeCorrect == Spec => []TypeOK
<1>1. IInv => TypeOK
  BY DEF IInv
<1> QED
  BY <1>1, Inductive, PTL

(* What is committed is whole after any number of crashes, refusals and     *)
(* repeated deliveries.                                                     *)
THEOREM CommittedIsWholeHolds == Spec => []CommittedIsWhole
<1>1. IInv => CommittedIsWhole
  BY DEF IInv
<1> QED
  BY <1>1, Inductive, PTL

(* An acceptance the coordinator shows is about the envelope it was asked   *)
(* for, and that envelope is applied.                                       *)
THEOREM AcceptedIsAppliedHolds == Spec => []AcceptedIsApplied
<1>1. IInv => AcceptedIsApplied
  BY DEF IInv, EnvelopeIsKept, AnswersAreTrue, AcceptedIsApplied, Row
<1> QED
  BY <1>1, Inductive, PTL

RefusalIsTrue(a) ==
    answer'[a].kind = "rejected" /\ answer[a].kind = "none" =>
        \A x \in db.facts : ~(x.command = a.command /\ x.body = a.body)

LEMMA RefusalStep ==
  ASSUME IInv, [Next]_vars, NEW a \in Attempts,
         answer'[a].kind = "rejected", answer[a].kind = "none"
  PROVE  \A x \in db.facts : ~(x.command = a.command /\ x.body = a.body)
<1> USE DEF serverVars, attemptVars, clientVars
<1>t. answer \in [Attempts -> [kind : AnswerKinds, revision : Nat]]
  BY DEF IInv, TypeOK
<1>1. Conflict(a) \/ Refuse(a)
  <2>1. ASSUME NEW b \in Attempts,
               \/ Submit(b) \/ Retry(b) \/ Reuse(b) \/ Begin(b) \/ InsertCommit(b)
               \/ Mutate(b) \/ InsertJournal(b) \/ InsertReceipt(b)
               \/ \E notices \in 0..MaxNotices : InsertOutbox(b, notices)
        PROVE  FALSE
    BY <2>1 DEF Submit, Retry, Reuse, Send, Begin, InsertCommit, Mutate, InsertJournal,
                InsertReceipt, InsertOutbox, Enter
  <2>2. ASSUME NEW b \in Attempts, Replay(b) \/ Commit(b) \/ ReturnAnswer(b) \/ FailUnit(b)
        PROVE  FALSE
    BY <2>2, <1>t DEF Replay, Commit, ReturnAnswer, FailUnit, Finish
  <2>3. ASSUME NEW b \in Attempts, Conflict(b) \/ Refuse(b)
        PROVE  b = a
    BY <2>3, <1>t DEF Conflict, Refuse, Finish
  <2>4. CASE Crash
    BY <2>4, <1>t DEF Crash
  <2>5. CASE UNCHANGED vars \/ \E c \in Commands : Deliver(c) \/ GiveUpCommand(c)
    BY <2>5 DEF vars, Deliver, GiveUpCommand
  <2> QED
    BY <2>1, <2>2, <2>3, <2>4, <2>5 DEF Next
<1>2. CASE Conflict(a)
  <2>1. PICK x \in db.facts : x.command = a.command /\ x.body # a.body
    BY <1>2, BegunSeesCommitted DEF Conflict, ReceiptsOf, IInv, CommittedIsWhole, Whole
  <2> QED
    BY <2>1 DEF IInv, CommittedIsWhole, Whole
<1>3. CASE Refuse(a)
  BY <1>3 DEF Refuse, IInv, OneWriter, Writing, InsideStages, TransactionIsOpen
<1> QED
  BY <1>1, <1>2, <1>3

(* A refusal is true when it is given: the refused envelope is not applied. *)
THEOREM RejectedIsUnappliedHolds == Spec => RejectedIsUnapplied
<1>1. IInv /\ [Next]_vars => [\A a \in Attempts : RefusalIsTrue(a)]_vars
  BY RefusalStep DEF RefusalIsTrue
<1> QED
  BY <1>1, Inductive, PTL DEF Spec, RejectedIsUnapplied, RefusalIsTrue

-----------------------------------------------------------------------------
(* The endpoint implements its abstract specification.                      *)
AcceptedAttempts == {a \in Attempts : answer[a].kind = "accepted"}
Acceptances == {Row(a, answer[a].revision) : a \in AcceptedAttempts}
LogOf(d) == [r \in 1..Len(d.commits) |-> AppliedAt(d, r)]

(* The log's entry for a revision is the fact of that revision.             *)
LEMMA EntryOfFact ==
  ASSUME NEW d, Whole(d), NEW x \in d.facts
  PROVE  AppliedAt(d, x.revision) = [command |-> x.command, body |-> x.body]
<1> DEFINE y == CHOOSE y \in d.facts : y.revision = x.revision
<1>1. y \in d.facts /\ y.revision = x.revision
  OBVIOUS
<1>2. y = x
  BY <1>1 DEF Whole
<1> HIDE DEF y
<1> QED
  BY <1>2 DEF AppliedAt, y

LEMMA CommitApplies ==
  ASSUME IInv, NEW a \in Attempts, Commit(a)
  PROVE  /\ \A r \in DOMAIN LogOf(db) : LogOf(db)[r].command # a.command
         /\ LogOf(db)' = Append(LogOf(db), [command |-> a.command, body |-> a.body])
<1> DEFINE n == Len(db.commits)
<1>1. /\ \A x \in db.facts : x.command # a.command
      /\ scratch.commits = Append(db.commits, a.command)
      /\ scratch.facts = db.facts \cup {Row(a, n + 1)}
      /\ db' = scratch
  BY DEF Commit, IInv, OneWriter, Writing, InsideStages, TransactionIsOpen
<1>2. db.commits \in Seq(Commands) /\ n \in Nat /\ a.command \in Commands
  BY AttemptsAssumption DEF IInv, TypeOK, Databases
<1>3. Whole(db) /\ Whole(scratch)
  BY CommitPublishesWhole DEF Commit, IInv, CommittedIsWhole
<1>4. Len(scratch.commits) = n + 1
  BY <1>1, <1>2
<1>5. ASSUME NEW r \in 1..n
      PROVE  /\ AppliedAt(db, r).command # a.command
             /\ AppliedAt(scratch, r) = AppliedAt(db, r)
  <2>1. PICK x \in db.facts : x.revision = r
    BY <1>3 DEF Whole
  <2>2. /\ AppliedAt(db, r) = [command |-> x.command, body |-> x.body]
        /\ AppliedAt(scratch, r) = [command |-> x.command, body |-> x.body]
    BY <1>1, <1>3, <2>1, EntryOfFact
  <2> QED
    BY <1>1, <2>2
<1>6. AppliedAt(scratch, n + 1) = [command |-> a.command, body |-> a.body]
  <2>1. /\ Row(a, n + 1) \in scratch.facts /\ Row(a, n + 1).revision = n + 1
        /\ Row(a, n + 1).command = a.command /\ Row(a, n + 1).body = a.body
    BY <1>1 DEF Row
  <2> QED
    BY <1>3, <2>1, EntryOfFact
<1> DEFINE new == [command |-> a.command, body |-> a.body]
<1>7. LogOf(db) = [r \in 1..n |-> AppliedAt(db, r)]
      /\ LogOf(scratch) = [r \in 1..(n + 1) |-> AppliedAt(scratch, r)]
  BY <1>4 DEF LogOf
<1>8. Len(LogOf(db)) = n
  BY <1>2, <1>7, LenProperties
<1>9. Append(LogOf(db), new) = [r \in 1..(n + 1) |-> IF r <= n THEN LogOf(db)[r] ELSE new]
  BY <1>2, <1>7, <1>8
<1>10. LogOf(scratch) = Append(LogOf(db), new)
  BY <1>2, <1>5, <1>6, <1>7, <1>9
<1>11. LogOf(db)' = LogOf(scratch)
  BY <1>1 DEF LogOf, AppliedAt
<1> QED
  BY <1>5, <1>7, <1>10, <1>11

(* An acceptance names a committed row, hence an entry of the log.          *)
LEMMA AcceptanceIsIssued ==
  ASSUME IInv, NEW a \in Attempts, NEW r, Finish(a, "accepted", r), db' = db,
         stage[a] # "over", Row(a, r) \in db.facts
  PROVE  Log!Accept(r) /\ r \in DOMAIN LogOf(db)
<1>1. /\ answer \in [Attempts -> [kind : AnswerKinds, revision : Nat]]
      /\ answer[a].kind = "none"
  BY DEF IInv, TypeOK, AnswersAreTrue
<1>2. \A b \in Attempts :
        answer'[b] = IF b = a THEN [kind |-> "accepted", revision |-> r] ELSE answer[b]
  BY <1>1 DEF Finish
<1>3. Acceptances' = Acceptances \cup {Row(a, r)}
  BY <1>1, <1>2 DEF Acceptances, AcceptedAttempts, Row
<1>4. /\ Row(a, r).revision = r /\ Row(a, r).command = a.command /\ Row(a, r).body = a.body
      /\ Whole(db)
  BY DEF Row, IInv, CommittedIsWhole
<1>5. AppliedAt(db, r) = [command |-> a.command, body |-> a.body] /\ r \in 1..Len(db.commits)
  <2>1. r \in 1..Len(db.commits)
    BY <1>4 DEF Whole
  <2> QED
    BY <1>4, <2>1, EntryOfFact
<1>6. /\ LogOf(db)[r].command = a.command /\ LogOf(db)[r].body = a.body
      /\ LogOf(db)' = LogOf(db) /\ r \in DOMAIN LogOf(db)
  BY <1>5 DEF LogOf, AppliedAt
<1> QED
  BY <1>3, <1>6 DEF Log!Accept, LogOf, Acceptances, AcceptedAttempts, Row

LEMMA LogStep ==
  ASSUME IInv, [Next]_vars
  PROVE  [Log!Next]_<<LogOf(db), Acceptances>>
<1> USE DEF serverVars, attemptVars, clientVars
<1>t. answer \in [Attempts -> [kind : AnswerKinds, revision : Nat]]
  BY DEF IInv, TypeOK
<1>a. ASSUME \A a \in Attempts :
               /\ answer'[a].kind = "accepted" <=> answer[a].kind = "accepted"
               /\ answer[a].kind = "accepted" => answer'[a] = answer[a]
      PROVE  Acceptances' = Acceptances
  <2>1. AcceptedAttempts' = AcceptedAttempts
    BY <1>a DEF AcceptedAttempts
  <2>2. \A a \in AcceptedAttempts : Row(a, answer'[a].revision) = Row(a, answer[a].revision)
    BY <1>a DEF AcceptedAttempts
  <2>3. Acceptances' = {Row(a, answer'[a].revision) : a \in AcceptedAttempts}
    BY <2>1 DEF Acceptances, Row
  <2> QED
    BY <2>2, <2>3 DEF Acceptances
<1>s. ASSUME db' = db,
             \A a \in Attempts : /\ answer'[a].kind = "accepted" <=> answer[a].kind = "accepted"
                                 /\ answer[a].kind = "accepted" => answer'[a] = answer[a]
      PROVE  [Log!Next]_<<LogOf(db), Acceptances>>
  <2>1. LogOf(db)' = LogOf(db)
    BY <1>s DEF LogOf, AppliedAt
  <2> QED
    BY <1>a, <1>s, <2>1
<1>1. ASSUME NEW a \in Attempts, Commit(a)
      PROVE  [Log!Next]_<<LogOf(db), Acceptances>>
  <2>1. /\ answer[a].kind = "none" /\ answer'[a].kind = "none"
        /\ \A b \in Attempts : b # a => answer'[b] = answer[b]
    BY <1>1, <1>t DEF Commit, IInv, AnswersAreTrue, AnswerKinds
  <2>2. Acceptances' = Acceptances
    BY <1>a, <2>1
  <2>3. a.command \in Commands /\ a.body \in Bodies
    BY AttemptsAssumption
  <2>4. Log!Apply(a.command, a.body)
    BY <1>1, <2>2, CommitApplies DEF Log!Apply, LogOf, Acceptances, AcceptedAttempts, Row
  <2> QED
    BY <2>3, <2>4 DEF Log!Next
<1>2. ASSUME NEW a \in Attempts, ReturnAnswer(a)
      PROVE  [Log!Next]_<<LogOf(db), Acceptances>>
  <2>1. Row(a, answer[a].revision) \in db.facts
    BY <1>2 DEF ReturnAnswer, IInv, AnswersAreTrue
  <2> QED
    BY <1>2, <2>1, AcceptanceIsIssued DEF ReturnAnswer, Log!Next, LogOf
<1>3. ASSUME NEW a \in Attempts, Replay(a)
      PROVE  [Log!Next]_<<LogOf(db), Acceptances>>
  <2>1. PICK x \in ReceiptsOf(a) : x.body = a.body /\ Finish(a, "accepted", x.revision)
    BY <1>3 DEF Replay
  <2>2. x \in db.facts /\ x.command = a.command
    BY <1>3, BegunSeesCommitted DEF Replay, ReceiptsOf, IInv, CommittedIsWhole, Whole
  <2>3. x = Row(a, x.revision)
    BY <2>1, <2>2 DEF Row, IInv, TypeOK, Databases, Rows
  <2> QED
    BY <1>3, <2>1, <2>2, <2>3, AcceptanceIsIssued DEF Replay, Log!Next, LogOf
<1>4. ASSUME NEW a \in Attempts, NEW kind \in {"rejected", "failed"}, NEW r,
             Finish(a, kind, r), db' = db, stage[a] # "over"
      PROVE  [Log!Next]_<<LogOf(db), Acceptances>>
  <2>1. answer[a].kind = "none"
    BY <1>4 DEF IInv, AnswersAreTrue
  <2> QED
    BY <1>4, <1>s, <1>t, <2>1 DEF Finish
<1>5. ASSUME NEW a \in Attempts, Conflict(a) \/ Refuse(a) \/ FailUnit(a)
      PROVE  [Log!Next]_<<LogOf(db), Acceptances>>
  <2>1. /\ Finish(a, "rejected", 0) \/ Finish(a, "failed", 0)
        /\ db' = db /\ stage[a] # "over"
    BY <1>5 DEF Conflict, Refuse, FailUnit, RollbackUnit, ServerStages, InsideStages
  <2> QED
    BY <1>4, <2>1
<1>6. CASE Crash
  BY <1>6, <1>s DEF Crash, RollbackUnit, IInv, AnswersAreTrue, ServerStages, InsideStages
<1>7. ASSUME NEW a \in Attempts,
             \/ Submit(a) \/ Retry(a) \/ Reuse(a) \/ Begin(a) \/ InsertCommit(a) \/ Mutate(a)
             \/ InsertJournal(a) \/ InsertReceipt(a)
             \/ \E notices \in 0..MaxNotices : InsertOutbox(a, notices)
      PROVE  [Log!Next]_<<LogOf(db), Acceptances>>
  BY <1>7, <1>s DEF Submit, Retry, Reuse, Send, Begin, InsertCommit, Mutate, InsertJournal,
                    InsertReceipt, InsertOutbox, Enter
<1>8. CASE UNCHANGED vars \/ \E c \in Commands : Deliver(c) \/ GiveUpCommand(c)
  BY <1>8, <1>s DEF vars, Deliver, GiveUpCommand
<1> QED
  BY <1>1, <1>2, <1>3, <1>5, <1>6, <1>7, <1>8 DEF Next

(* The endpoint implements CommandLog: COMMIT is the only moment at which a *)
(* command is applied, and every acceptance reads what was applied.         *)
THEOREM LogRefinement == Spec => ImplementsCommandLog
<1>1. Init => Log!Init
  BY DEF Init, Log!Init, EmptyDatabase, NoAnswer
<1>2. IInv /\ [Next]_vars => [Log!Next]_<<LogOf(db), Acceptances>>
  BY LogStep
<1> QED
  BY <1>1, <1>2, Inductive, PTL
     DEF Spec, ImplementsCommandLog, Log!Spec, LogOf, Acceptances, AcceptedAttempts
=============================================================================
