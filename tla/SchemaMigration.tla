--------------------------- MODULE SchemaMigration ---------------------------
(***************************************************************************)
(* The migration runner (persistence/migrations.py, MigrationRunner): every *)
(* reviewed step of the schema is applied in a transaction of its own,      *)
(* under a lease that expires when its owner is slow or dead.  Two          *)
(* processes may run it on one database, and the reviewed registry of one   *)
(* may be longer than that of the other.                                    *)
(***************************************************************************)
EXTENDS Naturals, Sequences

CONSTANTS
    Runners,      \* processes that migrate the database
    Registry,     \* steps each runner knows
    Free,         \* no owner of the lease
    MaxTerms      \* bound of the model: times the lease is taken

ASSUME MigrationAssumption ==
    Registry \in [Runners -> Nat \ {0}] /\ Free \notin Runners \X Nat

VARIABLES
    schema,   \* PRAGMA user_version and schema_meta.current_version
    records,  \* schema_migrations: the versions applied, in that order
    lease,    \* migration_lease: owner token, whether it expired, revision
    runner    \* where each process is, its token and what it read

schemaVars == <<schema, records, lease, runner>>

(* A token is drawn for every acquisition.                                  *)
Tokens == Runners \X Nat
Lease == [owner : Tokens \cup {Free}, expired : BOOLEAN, revision : Nat]
Runner == [at : {"idle", "first", "acquire", "apply", "verify", "ready"},
           version : Nat, token : Tokens \cup {Free}]
AtRest == [at |-> "idle", version |-> 0, token |-> Free]

SchemaInit ==
    /\ schema = 0 /\ records = <<>>
    /\ lease = [owner |-> Free, expired |-> FALSE, revision |-> 0]
    /\ runner = [r \in Runners |-> AtRest]

(* The records are those of the registry, as far as it goes.                *)
ChecksumsVerify(version) == records = [v \in 1 .. version |-> v]

(* Beginning: an empty database, a known one or one that is ready.          *)
Inspect(r) ==
    /\ runner[r].at = "idle" /\ schema <= Registry[r]
    /\ schema >= 1 => ChecksumsVerify(schema)
    /\ runner' = [runner EXCEPT ![r] =
           [AtRest EXCEPT !.version = schema,
                          !.at = CASE schema = Registry[r] -> "ready"
                                   [] schema = 0 -> "first"
                                   [] OTHER -> "acquire"]]
    /\ UNCHANGED <<schema, records, lease>>

(* Mutant: a step can be applied twice.                                     *)
AppliedAgain(v) == TRUE
(* Every statement of a step fails if it was applied before, its record at  *)
(* the latest.                                                              *)
Unapplied(v) == \A i \in DOMAIN records : records[i] # v
Record(v) == schema' = v /\ records' = Append(records, v)

ApplyFirst(r) ==
    /\ runner[r].at = "first"
    /\ Unapplied(1) /\ Record(1)
    /\ runner' = [runner EXCEPT ![r].version = 1, ![r].at = "acquire"]
    /\ UNCHANGED lease

LeaseIsFree == lease.owner = Free \/ lease.expired

AcquireLease(r) ==
    /\ runner[r].at = "acquire" /\ lease.revision < MaxTerms
    /\ LeaseIsFree
    /\ lease' = [owner |-> <<r, lease.revision>>, expired |-> FALSE,
                 revision |-> lease.revision + 1]
    /\ runner' = [runner EXCEPT ![r].token = <<r, lease.revision>>, ![r].at = "apply"]
    /\ UNCHANGED <<schema, records>>

OwnsLease(r) == lease.owner = runner[r].token

(* The step and the new expiry of the lease are one transaction.            *)
ApplyMigration(r) ==
    /\ runner[r].at = "apply" /\ runner[r].version < Registry[r]
    /\ LET v == runner[r].version + 1 IN
       /\ Unapplied(v) /\ OwnsLease(r)
       /\ Record(v)
       /\ runner' = [runner EXCEPT ![r].version = v]
    /\ lease' = [lease EXCEPT !.expired = FALSE]

Released == [owner |-> Free, expired |-> FALSE, revision |-> lease.revision + 1]

(* The lease is released whether the steps succeeded or one of them raised. *)
ReleaseLease(r) ==
    /\ runner[r].at = "apply" /\ OwnsLease(r)
    /\ lease' = Released
    /\ runner' = [runner EXCEPT ![r].at = IF runner[r].version = Registry[r] THEN "verify"
                                          ELSE "idle"]
    /\ UNCHANGED <<schema, records>>

Verify(r) ==
    /\ runner[r].at = "verify" /\ ChecksumsVerify(Registry[r])
    /\ runner' = [runner EXCEPT ![r].at = "ready"]
    /\ UNCHANGED <<schema, records, lease>>

(* Anything a runner does not do raises, or the process dies.               *)
GiveUp(r) ==
    /\ runner[r].at # "idle"
    /\ runner' = [runner EXCEPT ![r] = AtRest]
    /\ UNCHANGED <<schema, records, lease>>

(* The lease is a minute old.                                               *)
LeaseExpires ==
    /\ lease.owner # Free /\ ~lease.expired
    /\ lease' = [lease EXCEPT !.expired = TRUE]
    /\ UNCHANGED <<schema, records, runner>>

SchemaNext ==
    \/ \E r \in Runners :
          \/ Inspect(r) \/ ApplyFirst(r) \/ AcquireLease(r) \/ ApplyMigration(r)
          \/ ReleaseLease(r) \/ Verify(r) \/ GiveUp(r)
    \/ LeaseExpires

SchemaSpec == SchemaInit /\ [][SchemaNext]_schemaVars

-----------------------------------------------------------------------------
SchemaTypeOK ==
    /\ schema \in Nat /\ records \in Seq(Nat) /\ lease \in Lease
    /\ runner \in [Runners -> Runner]

(* The schema is what its records say: every step up to its version, once   *)
(* and in order, however the runners interleave and wherever one dies; and  *)
(* a runner that is ready finds the schema it knows, or a newer one.        *)
SchemaIsWhole ==
    /\ ChecksumsVerify(schema)
    /\ \A r \in Runners : runner[r].at = "ready" => schema >= Registry[r]
=============================================================================
