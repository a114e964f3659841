------------------------- MODULE WorkspaceMigration -------------------------
(***************************************************************************)
(* The staged migration of one Workspace to the schema of a new release     *)
(* (persistence/workspace_migration.py): the database is backed up, a copy  *)
(* is migrated and verified, and then the database itself is migrated in    *)
(* one transaction with its receipt.  Adopting a migration is an effect     *)
(* that no activation of a release can undo (ReleaseControl).               *)
(*                                                                         *)
(* The steps of a call are its transactions and its copies of files; users  *)
(* go on working between them, another call may be under way, and a call    *)
(* may raise or end with its process anywhere.                              *)
(***************************************************************************)
EXTENDS ReleaseControl, FiniteSets

CONSTANTS
    Callers,        \* calls of the coordinator at one time
    MaxMigrations,  \* bound of the model: migration attempts
    MaxResearch     \* bound of the model: research commits

ASSUME WorkspaceMigrationAssumption == {MaxMigrations, MaxResearch} \subseteq Nat

VARIABLES
    live,        \* the database: schema, research identity, writers at work
    migrations,  \* workspace_migration_attempts: the state of each
    lock,        \* workspace_migration_lock, 0 when free
    receipts,    \* attempts with a workspace_migration_receipts row
    files,       \* backups and candidates that are as their manifests say
    caller       \* where each call is

migrationVars == <<live, migrations, lock, receipts, files, caller>>

OpenMigrations == {"PREPARING", "PREPARED", "ADOPTING", "RECOVERY_REQUIRED"}
MigrationStates == OpenMigrations \cup {"ADOPTED", "CLEANUP_COMPLETE"}
Damaged == MaxResearch + 1   \* what no research commit makes of the research
LiveWorkspace == [schema : {"old", "new"}, research : 0 .. Damaged, writing : BOOLEAN]
File == {"backup", "candidate"} \X (1 .. MaxMigrations)
Caller == [at : {"idle", "insert", "backup", "record", "stage", "prepared", "guard",
                 "start", "adopt", "clean", "unlock"},
           attempt : 0 .. MaxMigrations, seen : 0 .. Damaged,
           under : SUBSET Recorded]
NoCall == [at |-> "idle", attempt |-> 0, seen |-> 0, under |-> {}]

MigrationInit ==
    /\ live = [schema |-> "old", research |-> 0, writing |-> FALSE]
    /\ migrations = <<>> /\ lock = 0 /\ receipts = {} /\ files = {}
    /\ caller = [c \in Callers |-> NoCall]

Migrations == DOMAIN migrations
Others(m) == Migrations \ {m}
Mine(c) == caller[c].attempt
At(c, place) == caller[c].at = place
Goto(c, place) == caller' = [caller EXCEPT ![c].at = place]
Return(c) == caller' = [caller EXCEPT ![c] = NoCall]

(* one_open_workspace_migration and the transition of an attempt, which     *)
(* asks for no state.                                                       *)
Moves(m, state) ==
    /\ state \in OpenMigrations =>
          \A o \in Others(m) : migrations[o] \notin OpenMigrations
    /\ migrations' = [migrations EXCEPT ![m] = state]

-----------------------------------------------------------------------------
(* prepare                                                                  *)

Preflight(c) ==
    /\ At(c, "idle")
    /\ live.schema = "old" /\ ~live.writing
    /\ Goto(c, "insert")
    /\ UNCHANGED <<live, migrations, lock, receipts, files>>

InsertAttempt(c) ==
    /\ At(c, "insert") /\ Len(migrations) < MaxMigrations
    /\ \A m \in Migrations : migrations[m] \notin OpenMigrations
    /\ lock = 0
    /\ migrations' = Append(migrations, "PREPARING")
    /\ lock' = Len(migrations) + 1
    /\ caller' = [caller EXCEPT ![c].at = "backup", ![c].attempt = Len(migrations) + 1]
    /\ UNCHANGED <<live, receipts, files>>

Backup(c) ==
    /\ At(c, "backup")
    /\ files' = files \cup {<<"backup", Mine(c)>>}
    /\ Goto(c, "record")
    /\ UNCHANGED <<live, migrations, lock, receipts>>

RecordBackup(c) ==
    /\ At(c, "record")
    /\ Moves(Mine(c), "PREPARING")
    /\ Goto(c, "stage")
    /\ UNCHANGED <<live, lock, receipts, files>>

(* A copy of the backup is migrated and validated; it may turn out that it  *)
(* cannot be (RaisePrepare).                                                *)
StageCandidate(c) ==
    /\ At(c, "stage") /\ <<"backup", Mine(c)>> \in files
    /\ files' = files \cup {<<"candidate", Mine(c)>>}
    /\ Goto(c, "prepared")
    /\ UNCHANGED <<live, migrations, lock, receipts>>

RecordPrepared(c) ==
    /\ At(c, "prepared")
    /\ Moves(Mine(c), "PREPARED")
    /\ Return(c)
    /\ UNCHANGED <<live, lock, receipts, files>>

-----------------------------------------------------------------------------
(* adopt                                                                    *)

VerifyPrepared(c, m) ==
    /\ At(c, "idle")
    /\ migrations[m] = "PREPARED"
    /\ {<<"backup", m>>, <<"candidate", m>>} \subseteq files
    /\ caller' = [caller EXCEPT ![c] = [NoCall EXCEPT !.at = "guard", !.attempt = m,
                                                      !.seen = live.research]]
    /\ UNCHANGED <<live, migrations, lock, receipts, files>>

(* A failed attempt is left for an operator, unless it is over.              *)
LeftForRecovery(m) ==
    migrations' = IF migrations[m] \in {"PREPARING", "PREPARED", "ADOPTING"}
                  THEN [migrations EXCEPT ![m] = "RECOVERY_REQUIRED"] ELSE migrations

(* adopt is called for an attempt that is not prepared, perhaps not yet, or   *)
(* whose files do not verify.                                               *)
AdoptionRefused(c, m) ==
    /\ At(c, "idle")
    /\ migrations[m] = "PREPARED" => ~({<<"backup", m>>, <<"candidate", m>>} \subseteq files)
    /\ LeftForRecovery(m)
    /\ UNCHANGED <<live, lock, receipts, files, caller>>

(* The guard announces the adoption to the activation that is under way.    *)
GuardAdoption(c) ==
    /\ At(c, "guard")
    /\ Announce
    /\ caller' = [caller EXCEPT ![c].at = "start", ![c].under = Under]
    /\ UNCHANGED <<release, pointer, intact, undoing, acting, historyVars>>
    /\ UNCHANGED <<live, migrations, lock, receipts, files>>

StartAdoption(c) ==
    /\ At(c, "start")
    /\ Moves(Mine(c), "ADOPTING")
    /\ Goto(c, "adopt")
    /\ UNCHANGED <<live, lock, receipts, files>>

(* Mutant: the hook does not compare what the research was.                 *)
AnyResearch(c, research) == TRUE
SameResearch(c, research) == research = caller[c].seen

(* Mutant: a database that has the new schema is taken to be adopted.       *)
AnySchema(c) == TRUE
HasSourceSchema(c) == live.schema = "old"

IsAdopting(c) == migrations[Mine(c)] = "ADOPTING" /\ Mine(c) \notin receipts

(* One transaction: the steps of the schema, which may be wrong and damage  *)
(* the research, the receipt and the state of the attempt.                  *)
AdoptMigration(c) ==
    /\ At(c, "adopt")
    /\ HasSourceSchema(c)
    /\ \E research \in {live.research, Damaged} :
          /\ SameResearch(c, research)
          /\ live' = [live EXCEPT !.schema = "new", !.research = research]
    /\ IsAdopting(c)
    /\ receipts' = receipts \cup {Mine(c)}
    /\ migrations' = [migrations EXCEPT ![Mine(c)] = "ADOPTED"]
    /\ effects' = effects \cup caller[c].under
    /\ Return(c)
    /\ UNCHANGED <<controlVars, intact, undoing, acting, undone>>
    /\ UNCHANGED <<lock, files>>

-----------------------------------------------------------------------------
(* cleanup                                                                  *)

BeginCleanup(c, m) ==
    /\ At(c, "idle")
    /\ migrations[m] \in {"ADOPTED", "CLEANUP_COMPLETE"}
    /\ files' = files \ {<<"candidate", m>>}
    /\ caller' = [caller EXCEPT ![c] =
           IF migrations[m] = "ADOPTED" THEN [NoCall EXCEPT !.at = "clean", !.attempt = m]
           ELSE NoCall]
    /\ UNCHANGED <<live, migrations, lock, receipts>>

CompleteCleanup(c) ==
    /\ At(c, "clean")
    /\ Moves(Mine(c), "CLEANUP_COMPLETE")
    /\ Goto(c, "unlock")
    /\ UNCHANGED <<live, lock, receipts, files>>

Unlock(c) ==
    /\ At(c, "unlock")
    /\ lock' = IF lock = Mine(c) THEN 0 ELSE lock
    /\ Return(c)
    /\ UNCHANGED <<live, migrations, receipts, files>>

-----------------------------------------------------------------------------
(* An exception of prepare or adopt; that of a cleanup changes nothing.      *)
RaiseMigration(c) ==
    /\ ~At(c, "idle")
    /\ IF Mine(c) \in Migrations /\ ~At(c, "clean") /\ ~At(c, "unlock")
       THEN LeftForRecovery(Mine(c))
       ELSE UNCHANGED migrations
    /\ Return(c)
    /\ UNCHANGED <<live, lock, receipts, files>>

CallDies(c) ==
    /\ ~At(c, "idle")
    /\ Return(c)
    /\ UNCHANGED <<live, migrations, lock, receipts, files>>

(* Users work on, and files are lost or damaged.                            *)
ResearchCommit ==
    /\ live.research < MaxResearch
    /\ live' = [live EXCEPT !.research = @ + 1]
    /\ UNCHANGED <<migrations, lock, receipts, files, caller>>

WriteExecution ==
    /\ live' = [live EXCEPT !.writing = ~@]
    /\ UNCHANGED <<migrations, lock, receipts, files, caller>>

LoseFile(f) ==
    /\ f \in files
    /\ files' = files \ {f}
    /\ UNCHANGED <<live, migrations, lock, receipts, caller>>

CallerStep(c) ==
    \/ Preflight(c) \/ InsertAttempt(c) \/ Backup(c) \/ RecordBackup(c)
    \/ StageCandidate(c) \/ RecordPrepared(c)
    \/ StartAdoption(c)
    \/ CompleteCleanup(c) \/ Unlock(c)
    \/ \E m \in Migrations : VerifyPrepared(c, m) \/ AdoptionRefused(c, m) \/ BeginCleanup(c, m)
    \/ RaiseMigration(c) \/ CallDies(c)

MigrationNext ==
    \/ /\ \/ \E c \in Callers : CallerStep(c)
          \/ ResearchCommit \/ WriteExecution
          \/ \E f \in files : LoseFile(f)
       /\ UNCHANGED releaseVars
    \/ \E c \in Callers : GuardAdoption(c) \/ AdoptMigration(c)

(* Releases are activated and rolled back while workspaces are migrated.    *)
UpgradeVars == <<releaseVars, migrationVars>>
UpgradeNext == MigrationNext \/ (ReleaseNext /\ UNCHANGED migrationVars)
UpgradeSpec == ReleaseInit /\ MigrationInit /\ [][UpgradeNext]_UpgradeVars

-----------------------------------------------------------------------------
MigrationTypeOK ==
    /\ live \in LiveWorkspace
    /\ migrations \in Seq(MigrationStates) /\ Len(migrations) <= MaxMigrations
    /\ lock \in 0 .. MaxMigrations
    /\ receipts \subseteq Migrations
    /\ files \subseteq File
    /\ caller \in [Callers -> Caller]

(* The new schema and its receipt come together and once: one attempt has   *)
(* the receipt, and none is called adopted without it.                      *)
MigrationIsWhole ==
    /\ live.schema = "new" <=> receipts # {}
    /\ \A m, n \in receipts : m = n
    /\ \A m \in Migrations :
          migrations[m] \in {"ADOPTED", "CLEANUP_COMPLETE"} => m \in receipts

(* A migration changes no research: what the users had when the adoption    *)
(* began is what they have afterwards, whatever its steps do and whoever    *)
(* committed in between.                                                    *)
ResearchSurvivesAdoption ==
    [][live'.schema # live.schema => live'.research = live.research]_live

(* To be checked, no run does: an open migration holds the lock.  A second  *)
(* call that verified the attempt before takes an adopted one back to       *)
(* "ADOPTING" and leaves it for recovery, after its lock was released.      *)
OpenMigrationHoldsLock ==
    \A m \in Migrations : migrations[m] \in OpenMigrations => lock = m
=============================================================================
