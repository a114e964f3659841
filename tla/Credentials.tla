----------------------------- MODULE Credentials -----------------------------
(***************************************************************************)
(* Provider profiles and the versions of their credentials                  *)
(* (persistence/global_credentials.py), whose secrets are kept by the vault *)
(* of the operating system (application/provider_credentials.py).           *)
(*                                                                         *)
(* The vault takes no part in the transactions of the database, so every    *)
(* command of the service is a sequence of steps of one or the other.  The  *)
(* handlers run one at a time; any step of a command may raise or be the    *)
(* last one of the process, and recover() runs when the next one starts.    *)
(***************************************************************************)
EXTENDS Naturals, FiniteSets, Sequences

CONSTANTS
    Profiles,     \* identities of provider profiles
    Versions,     \* identities of credential versions, drawn once
    Workspaces,   \* workspaces that choose a model
    Nothing       \* no version, no profile

ASSUME CredentialsAssumption ==
    IsFiniteSet(Versions) /\ Nothing \notin Profiles \cup Versions

VARIABLES
    profile,    \* provider_profiles: status and active version
    version,    \* provider_credential_versions: profile and state
    vault,      \* versions whose target holds a secret
    chosen,     \* workspace_model_configurations: the profile
    command     \* the command of the service that is under way

credentialVars == <<profile, version, vault, chosen, command>>

Profile == [status : {"absent", "staging", "enabled", "disabled",
                      "credential_unavailable", "deleted"},
            active : Versions \cup {Nothing}]
Version == [profile : Profiles \cup {Nothing},
            state : {"absent", "allocated", "adopted", "retired",
                     "orphan_cleaned", "delete_pending", "deleted"}]

(* What the process does: the versions it has still to deal with, in order. *)
Command == [at : {"down", "recovering", "idle", "writing", "reading", "adopting",
                  "deleting", "marking"},
            todo : Seq(Versions), recovery : BOOLEAN]
Idle == [at |-> "idle", todo |-> <<>>, recovery |-> FALSE]
Down == [Idle EXCEPT !.at = "down"]

CredentialsInit ==
    /\ profile = [p \in Profiles |-> [status |-> "absent", active |-> Nothing]]
    /\ version = [v \in Versions |-> [profile |-> Nothing, state |-> "absent"]]
    /\ vault = {}
    /\ chosen = [w \in Workspaces |-> Nothing]
    /\ command = Idle

OfProfile(p) == {v \in Versions : version[v].profile = p}
InState(v, states) == version[v].state \in states
Ledger == <<profile, version, chosen>>
Current == Head(command.todo)

-----------------------------------------------------------------------------
(* A new credential: allocate, write the secret, read it back, adopt.       *)

Allocate(v, p) ==
    /\ version[v].state = "absent"
    /\ version' = [version EXCEPT ![v] = [profile |-> p, state |-> "allocated"]]
    /\ command' = [Idle EXCEPT !.at = "writing", !.todo = <<v>>]
    /\ UNCHANGED <<vault, chosen>>

CreateProfile(v, p) ==
    /\ command = Idle /\ profile[p].status = "absent"
    /\ profile' = [profile EXCEPT ![p].status = "staging"]
    /\ Allocate(v, p)

Rotate(v, p) ==
    /\ command = Idle /\ profile[p].status \notin {"absent", "disabled"}
    /\ UNCHANGED profile
    /\ Allocate(v, p)

WriteSecret ==
    /\ command.at = "writing"
    /\ vault' = vault \cup {Current}
    /\ command' = [command EXCEPT !.at = "reading"]
    /\ UNCHANGED Ledger

ReadBack ==
    /\ command.at = "reading"
    /\ Current \in vault
    /\ command' = [command EXCEPT !.at = "adopting"]
    /\ UNCHANGED <<Ledger, vault>>

(* Mutant: the version that was active stays adopted.                       *)
RetiresNothing(v, p) ==
    [version EXCEPT ![v].state = "adopted"]
Retired(v, p) ==
    [u \in Versions |->
        CASE u = v -> [version[u] EXCEPT !.state = "adopted"]
          [] u = profile[p].active /\ InState(u, {"adopted"}) ->
                 [version[u] EXCEPT !.state = "retired"]
          [] OTHER -> version[u]]

Adopt ==
    /\ command.at = "adopting"
    /\ InState(Current, {"allocated"})
    /\ LET p == version[Current].profile IN
       /\ version' = Retired(Current, p)
       /\ profile' = [profile EXCEPT ![p] = [status |-> "enabled", active |-> Current]]
    /\ command' = Idle
    /\ UNCHANGED <<vault, chosen>>

-----------------------------------------------------------------------------
(* Deleting a profile: the versions are marked, then each secret is deleted *)
(* and its version too; the last one takes the profile with it.             *)

Enumeration(S) == {s \in [1 .. Cardinality(S) -> S] : \A i, j \in DOMAIN s : s[i] = s[j] => i = j}

DeleteProfile(p) ==
    /\ command = Idle /\ profile[p].status # "absent"
    /\ LET doomed == {v \in OfProfile(p) : ~InState(v, {"orphan_cleaned", "deleted"})} IN
       /\ version' = [v \in Versions |->
                         IF v \in doomed THEN [version[v] EXCEPT !.state = "delete_pending"]
                         ELSE version[v]]
       /\ \E todo \in Enumeration(doomed) :
             command' = IF doomed = {} THEN Idle
                        ELSE [Idle EXCEPT !.at = "deleting", !.todo = todo]
    /\ profile' = [profile EXCEPT ![p] = [status |-> "disabled", active |-> Nothing]]
    /\ UNCHANGED <<vault, chosen>>

(* What follows when the first version of the list is dealt with.           *)
Proceed ==
    IF Len(command.todo) > 1 THEN
         [command EXCEPT !.todo = Tail(command.todo),
                         !.at = IF command.recovery THEN "recovering" ELSE "deleting"]
    ELSE Idle

DeleteSecret ==
    /\ command.at = "deleting"
    /\ vault' = vault \ {Current}
    /\ command' = [command EXCEPT !.at = "marking"]
    /\ UNCHANGED Ledger

WithState(v, state) == [version EXCEPT ![v].state = state]

MarkDeleted ==
    /\ command.at = "marking" /\ InState(Current, {"delete_pending"})
    /\ version' = WithState(Current, "deleted")
    /\ LET p == version[Current].profile IN
       profile' = IF \E v \in OfProfile(p) \ {Current} : InState(v, {"delete_pending"})
                  THEN profile
                  ELSE [profile EXCEPT ![p].status = "deleted"]
    /\ command' = Proceed
    /\ UNCHANGED <<vault, chosen>>

-----------------------------------------------------------------------------
(* Recovery looks at every version that a command left unfinished, and at   *)
(* every adopted one; the list is read once.                                *)

RecoveryCandidates == {v \in Versions : InState(v, {"allocated", "adopted", "delete_pending"})}

Start ==
    /\ command = Down
    /\ \E todo \in Enumeration(RecoveryCandidates) :
          command' = IF RecoveryCandidates = {} THEN Idle
                     ELSE [at |-> "recovering", todo |-> todo, recovery |-> TRUE]
    /\ UNCHANGED <<Ledger, vault>>

RecoverAdopted ==
    /\ command.at = "recovering" /\ InState(Current, {"adopted"})
    /\ LET p == version[Current].profile IN
       profile' = IF Current \in vault \/ profile[p].status = "disabled" THEN profile
                  ELSE [profile EXCEPT ![p].status = "credential_unavailable"]
    /\ command' = Proceed
    /\ UNCHANGED <<version, vault, chosen>>

(* Mutant: a version that was never adopted is taken to have no secret.     *)
DeletionsOnly(v) == IF InState(v, {"allocated"}) THEN vault ELSE vault \ {v}
Cleaned(v) == vault \ {v}

RecoverSecret ==
    /\ command.at = "recovering" /\ InState(Current, {"allocated", "delete_pending"})
    /\ vault' = Cleaned(Current)
    /\ command' = [command EXCEPT !.at = "marking"]
    /\ UNCHANGED Ledger

MarkOrphanCleaned ==
    /\ command.at = "marking" /\ InState(Current, {"allocated"})
    /\ version' = WithState(Current, "orphan_cleaned")
    /\ LET p == version[Current].profile IN
       profile' = IF profile[p].active # Nothing THEN profile
                  ELSE [profile EXCEPT ![p].status = "credential_unavailable"]
    /\ command' = Proceed
    /\ UNCHANGED <<vault, chosen>>

-----------------------------------------------------------------------------
(* Using a credential, and what may go wrong.                               *)

SelectModel(w, p) ==
    /\ command = Idle /\ profile[p].status = "enabled"
    /\ chosen' = [chosen EXCEPT ![w] = p]
    /\ UNCHANGED <<profile, version, vault, command>>

(* resolve_active: the reference still names the active version.            *)
Usable(v) ==
    LET p == version[v].profile IN
    /\ InState(v, {"adopted"})
    /\ profile[p].status = "enabled" /\ profile[p].active = v

(* A transport asks for a secret that is gone.                              *)
ResolveFails(v) ==
    /\ command = Idle /\ version[v].profile # Nothing /\ Usable(v) /\ v \notin vault
    /\ profile' = [profile EXCEPT ![version[v].profile].status = "credential_unavailable"]
    /\ UNCHANGED <<version, vault, chosen, command>>

(* The user removes a secret from the vault.                                *)
LoseSecret(v) ==
    /\ v \in vault
    /\ vault' = vault \ {v}
    /\ UNCHANGED <<Ledger, command>>

(* A step raises: the handler answers 503; an exception of recover() ends   *)
(* the start of the process.                                                *)
Raise ==
    /\ command.at \notin {"idle", "down"}
    /\ command' = IF command.recovery THEN Down ELSE Idle
    /\ UNCHANGED <<Ledger, vault>>

VaultCrash ==
    /\ command # Down
    /\ command' = Down
    /\ UNCHANGED <<Ledger, vault>>

CredentialsNext ==
    \/ \E p \in Profiles :
          \/ \E v \in Versions : CreateProfile(v, p) \/ Rotate(v, p)
          \/ DeleteProfile(p)
          \/ \E w \in Workspaces : SelectModel(w, p)
    \/ WriteSecret \/ ReadBack \/ Adopt
    \/ DeleteSecret \/ MarkDeleted
    \/ Start \/ RecoverAdopted \/ RecoverSecret \/ MarkOrphanCleaned
    \/ \E v \in Versions : ResolveFails(v) \/ LoseSecret(v)
    \/ Raise \/ VaultCrash

CredentialsSpec == CredentialsInit /\ [][CredentialsNext]_credentialVars

-----------------------------------------------------------------------------
CredentialsTypeOK ==
    /\ profile \in [Profiles -> Profile]
    /\ version \in [Versions -> Version]
    /\ vault \subseteq Versions
    /\ chosen \in [Workspaces -> Profiles \cup {Nothing}]
    /\ command \in Command

(* A secret the vault holds belongs to a version whose row still tells so:  *)
(* nothing that was deleted or cleaned up is left behind, whichever step    *)
(* was the last one of the process.                                         *)
SecretsAreAccountedFor ==
    \A v \in vault : InState(v, {"allocated", "adopted", "retired", "delete_pending"})

(* At most one version of a profile is adopted, and it is the one that the  *)
(* profile names; an enabled profile names one.                             *)
OneVersionIsActive ==
    \A p \in Profiles :
        /\ {v \in OfProfile(p) : InState(v, {"adopted"})}
              = {profile[p].active} \ {Nothing}
        /\ profile[p].status = "enabled" => profile[p].active # Nothing

(* To be checked, no run does: a profile whose deletion was answered is     *)
(* deleted.  A profile without versions to delete stays "disabled".         *)
NoProfileIsStuck ==
    [][\A p \in Profiles :
          profile'[p].status = "disabled" /\ profile[p].status # "disabled"
             => command' # Idle]_credentialVars
=============================================================================
