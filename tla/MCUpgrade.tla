------------------------------ MODULE MCUpgrade ------------------------------
(***************************************************************************)
(* Instance of what surrounds an installed release: its candidate on the    *)
(* way through the gates, its activation, the migrations of the schema and  *)
(* of a workspace, and the credentials; and of the commits of a workspace,  *)
(* with two commands, one of which is sent twice as one request and once as *)
(* another.  The parts share nothing but the activation under which a       *)
(* migration is adopted; each scenario explores one of them, with the       *)
(* others at rest.                                                          *)
(***************************************************************************)
EXTENDS Credentials, SchemaMigration, WorkspaceMigration, AtomicCommit

CONSTANTS
    r1, r2,      \* the release that is active and the one that comes after it
    k1, k2,      \* tests of the candidate
    c1, c2,      \* commands
    b1, b2,      \* what they ask for
    Parts        \* the scenarios that are explored

VARIABLE part    \* the scenario of this behaviour

releaseAndMigrationVars == <<releaseVars, migrationVars>>
upgradeVars == <<credentialVars, schemaVars, releaseVars, migrationVars, gateVars>>
MCVars == <<part, upgradeVars, vars>>

MCCommands == {c1, c2}
MCBodies == {b1, b2}
Delivery(c, b, n) == [command |-> c, body |-> b, delivery |-> n]
MCAttempts == {Delivery(c1, b1, 1), Delivery(c1, b1, 2),
               Delivery(c1, b2, 1), Delivery(c2, b1, 1)}

(* The steps each runner of the schema knows: one is of the release before. *)
MCRegistry == [r \in Runners |-> IF r = CHOOSE s \in Runners : TRUE THEN 2 ELSE 3]
MCGates == <<"G0", "G6", "G7">>
MCCaseGate == [c \in Cases |-> CASE c = k1 -> "G0" [] c = k2 -> "G6" [] OTHER -> "G7"]

(* The second release is being activated, and nothing irreversible happened. *)
ActivationUnderWay ==
    /\ release = [r \in Releases |->
                     CASE r = r1 -> "ACTIVE" [] r = r2 -> "PENDING_ACTIVATION"
                       [] OTHER -> "unknown"]
    /\ pointer = [active |-> r2, pending |-> NoRelease]
    /\ activations = <<[candidate |-> r1, previous |-> NoRelease, state |-> "SUCCEEDED",
                        eligibility |-> "UNKNOWN",
                        past |-> {"PROBING", "STARTING_SAFE", "SUCCEEDED"}],
                       [candidate |-> r2, previous |-> r1, state |-> "STARTING_SAFE",
                        eligibility |-> "VERIFIED_REVERSIBLE",
                        past |-> {"PROBING", "STARTING_SAFE"}]>>
    /\ intact = Releases /\ undoing = {} /\ acting = {} /\ effects = {} /\ undone = {}

MCInit ==
    /\ part \in Parts
    /\ CredentialsInit /\ SchemaInit /\ MigrationInit /\ GatesInit /\ Init
    /\ CASE part = "migration" -> ActivationUnderWay
         [] part = "releases" -> ReleaseInit \/ ActivationUnderWay
         [] OTHER -> ReleaseInit

(* What happens to the activation while the workspace is migrated.          *)
ActivationFails ==
    /\ \E a \in AttemptIds : Fail(a) \/ VerifyPrevious(a) \/ Rollback(a)
    /\ UNCHANGED migrationVars

MCNext ==
    /\ UNCHANGED part
    /\ part # "commits" => UNCHANGED vars
    /\ \/ /\ part = "commits" /\ Next
          /\ UNCHANGED upgradeVars
       \/ /\ part = "credentials" /\ CredentialsNext
          /\ UNCHANGED <<schemaVars, releaseAndMigrationVars, gateVars>>
       \/ /\ part = "schema" /\ SchemaNext
          /\ UNCHANGED <<credentialVars, releaseAndMigrationVars, gateVars>>
       \/ /\ part = "releases" /\ ReleaseNext
          /\ UNCHANGED <<credentialVars, schemaVars, migrationVars, gateVars>>
       \/ /\ part = "migration" /\ (MigrationNext \/ ActivationFails)
          /\ UNCHANGED <<credentialVars, schemaVars, gateVars>>
       \/ /\ part = "gates" /\ GatesNext
          /\ UNCHANGED <<credentialVars, schemaVars, releaseAndMigrationVars>>

(* One rollback and one guarded effect at a time; the third attempt comes   *)
(* after an activation.                                                     *)
OneAtATime ==
    /\ Cardinality(undoing) <= 1 /\ Cardinality(acting) <= 1 /\ Cardinality(effects) <= 2
    /\ Len(activations) > 2 => activations[1].state = "SUCCEEDED"
    /\ Cardinality(intact) >= Cardinality(Releases) - 1

MCSpec == MCInit /\ [][MCNext]_MCVars
=============================================================================
