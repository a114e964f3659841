-------------------------- MODULE WorkspaceRevision --------------------------
(***************************************************************************)
(* The revision of a Workspace: AtomicCommitService (AtomicCommit.tla)      *)
(* gives every accepted command one.  The components that only need to      *)
(* count the commands they accept share this counter, and MaxCommits bounds *)
(* a run: it is a bound of the model, the program has none.                 *)
(***************************************************************************)
EXTENDS Naturals

CONSTANT MaxCommits
ASSUME CommitsAssumption == MaxCommits \in Nat

VARIABLE revision

NothingCommitted == revision = 0

Commit ==
    /\ revision < MaxCommits
    /\ revision' = revision + 1

RevisionTypeOK == revision \in 0 .. MaxCommits
=============================================================================
