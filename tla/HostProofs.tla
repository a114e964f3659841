------------------------------ MODULE HostProofs ------------------------------
(***************************************************************************)
(* Proofs about the process that hosts the Workspaces: the supervisor that *)
(* drives their turns, and what surrounds an installed release - the vault *)
(* of the credentials, the migration of the schema, activations and the    *)
(* workspace migrations that are adopted under them, and the gates.        *)
(*                                                                         *)
(* They hold for every finite set of turns and any faults, and any number  *)
(* of profiles, versions, runners, releases, callers, gates and tests.     *)
(***************************************************************************)
EXTENDS TurnSupervisor, TurnLaneProofs, Credentials, SchemaMigration, WorkspaceMigration

-----------------------------------------------------------------------------
(* Credentials.                                                            *)
UnderWay == command.at \notin {"idle", "down"}

(* A command that is under way has a version to deal with; one that has not *)
(* adopted it yet finds it allocated, and one that is about to mark it has  *)
(* emptied its target.  A version has a profile once it was allocated.      *)
CredentialsIInv ==
    /\ CredentialsTypeOK
    /\ UnderWay => command.todo # <<>>
    /\ command.at \in {"writing", "reading", "adopting"} => InState(Current, {"allocated"})
    /\ command.at = "marking" => Current \notin vault
    /\ \A v \in Versions : version[v].state # "absent" => version[v].profile \in Profiles
    /\ SecretsAreAccountedFor
    /\ OneVersionIsActive

LEMMA CredentialsBegin == CredentialsInit => CredentialsIInv
<1> SUFFICES ASSUME CredentialsInit PROVE CredentialsIInv
  OBVIOUS
<1>1. CredentialsTypeOK
  <2>1. <<>> \in Seq(Versions)
    OBVIOUS
  <2> QED
    BY <2>1 DEF CredentialsInit, CredentialsTypeOK, Profile, Version, Command, Idle
<1>2. ~UnderWay
  BY DEF CredentialsInit, UnderWay, Idle
<1>3. OneVersionIsActive
  BY DEF CredentialsInit, OneVersionIsActive, OfProfile, InState
<1> QED
  BY <1>1, <1>2, <1>3 DEF CredentialsInit, CredentialsIInv, UnderWay, SecretsAreAccountedFor

(* An enumeration of a set of versions is a list of them, and has an        *)
(* element if the set has.                                                  *)
LEMMA EnumerationLists ==
  ASSUME NEW S \in SUBSET Versions, NEW todo \in Enumeration(S)
  PROVE  todo \in Seq(Versions) /\ (S # {} => todo # <<>>)
<1>1. IsFiniteSet(S) /\ Cardinality(S) \in Nat
  BY CredentialsAssumption, FS_Subset, FS_CardinalityType
<1>2. todo \in [1 .. Cardinality(S) -> S]
  BY DEF Enumeration
<1>3. todo \in Seq(S) /\ Len(todo) = Cardinality(S)
  BY <1>1, <1>2
<1>4. S # {} => Cardinality(S) # 0
  BY <1>1, FS_EmptySet
<1>5. todo \in Seq(Versions)
  BY <1>1, <1>2
<1> QED
  BY <1>3, <1>4, <1>5

(* What stays of a command when its first version is dealt with.            *)
LEMMA ProceedIsCommand ==
  ASSUME command \in Command, command.todo # <<>>
  PROVE  /\ Proceed \in Command
         /\ Proceed.at \notin {"idle", "down"} => Proceed.todo # <<>>
         /\ Proceed.at \in {"idle", "recovering", "deleting"}
<1>1. command.todo \in Seq(Versions) /\ Len(command.todo) \in Nat
  BY DEF Command
<1>2. CASE Len(command.todo) > 1
  <2>1. Tail(command.todo) \in Seq(Versions) /\ Tail(command.todo) # <<>>
    BY <1>1, <1>2
  <2> QED
    BY <1>2, <2>1 DEF Proceed, Command
<1>3. CASE ~(Len(command.todo) > 1)
  <2>1. <<>> \in Seq(Versions)
    OBVIOUS
  <2> QED
    BY <1>3, <2>1 DEF Proceed, Command, Idle
<1> QED
  BY <1>2, <1>3

LEMMA CurrentIsAVersion ==
  ASSUME CredentialsIInv, UnderWay
  PROVE  Current \in Versions /\ command.todo \in Seq(Versions) /\ command.todo # <<>>
BY DEF CredentialsIInv, CredentialsTypeOK, Command, Current

(* Steps that change neither a version nor a profile's choice of one.       *)
LEMMA LedgerKept ==
  ASSUME CredentialsIInv, UNCHANGED version, profile' \in [Profiles -> Profile],
         \A p \in Profiles : /\ profile'[p].active = profile[p].active
                             /\ profile'[p].status # profile[p].status
                                    => profile'[p].status # "enabled"
  PROVE  OneVersionIsActive'
BY DEF CredentialsIInv, OneVersionIsActive, OfProfile, InState

LEMMA CredentialsStep ==
  ASSUME CredentialsIInv, [CredentialsNext]_credentialVars
  PROVE  CredentialsIInv'
<1>t. CredentialsTypeOK
  BY DEF CredentialsIInv
<1>i. <<>> \in Seq(Versions) /\ Idle \in Command /\ Down \in Command
  <2>1. <<>> \in Seq(Versions)
    OBVIOUS
  <2> QED
    BY <2>1 DEF Idle, Down, Command
<1>1. ASSUME NEW v \in Versions, NEW p \in Profiles, CreateProfile(v, p) \/ Rotate(v, p)
      PROVE  CredentialsIInv'
  <2>1. /\ version[v].state = "absent" /\ UNCHANGED <<vault, chosen>>
        /\ version' = [version EXCEPT ![v] = [profile |-> p, state |-> "allocated"]]
        /\ command' = [Idle EXCEPT !.at = "writing", !.todo = <<v>>]
    BY <1>1 DEF CreateProfile, Rotate, Allocate
  <2>2. /\ profile' \in [Profiles -> Profile]
        /\ \A q \in Profiles : /\ profile'[q].active = profile[q].active
                               /\ profile'[q].status # profile[q].status
                                      => profile'[q].status # "enabled"
    BY <1>1, <1>t DEF CreateProfile, Rotate, CredentialsTypeOK, Profile
  <2>3. <<v>> \in Seq(Versions) /\ <<v>> # <<>> /\ Head(<<v>>) = v
    OBVIOUS
  <2>4. version' \in [Versions -> Version] /\ command' \in Command
    BY <2>1, <2>3, <1>t, <1>i DEF CredentialsTypeOK, Version, Command, Idle
  <2>5. CredentialsTypeOK'
    BY <2>1, <2>2, <2>4, <1>t DEF CredentialsTypeOK
  <2>6. \A u \in Versions : /\ u # v => version'[u] = version[u]
                            /\ version'[v] = [profile |-> p, state |-> "allocated"]
    BY <2>1, <1>t DEF CredentialsTypeOK
  <2>7. OneVersionIsActive'
    BY <2>1, <2>2, <2>6 DEF CredentialsIInv, OneVersionIsActive, OfProfile, InState
  <2>8. SecretsAreAccountedFor'
    BY <2>1, <2>6, <1>t DEF CredentialsIInv, SecretsAreAccountedFor, InState, CredentialsTypeOK
  <2>9. command'.at = "writing" /\ command'.todo = <<v>>
    BY <2>1 DEF Idle
  <2> QED
    BY <2>3, <2>5, <2>6, <2>7, <2>8, <2>9
    DEF CredentialsIInv, InState, Current, UnderWay
<1>2. CASE WriteSecret
  <2>1. UnderWay /\ Current \in Versions /\ command.todo # <<>>
    BY <1>2, CurrentIsAVersion DEF WriteSecret, UnderWay
  <2>2. /\ vault' = vault \cup {Current} /\ UNCHANGED Ledger
        /\ command' = [command EXCEPT !.at = "reading"] /\ InState(Current, {"allocated"})
    BY <1>2 DEF WriteSecret, CredentialsIInv
  <2>3. /\ command' \in Command /\ command'.todo = command.todo /\ command'.at = "reading"
    BY <2>2, <1>t DEF CredentialsTypeOK, Command
  <2> QED
    BY <2>1, <2>2, <2>3, <1>t, LedgerKept
    DEF CredentialsIInv, CredentialsTypeOK, Ledger, SecretsAreAccountedFor, InState, Current, UnderWay
<1>3. CASE ReadBack
  <2>1. /\ UNCHANGED <<Ledger, vault>> /\ command' = [command EXCEPT !.at = "adopting"]
        /\ command.at = "reading"
    BY <1>3 DEF ReadBack
  <2>2. /\ command' \in Command /\ command'.todo = command.todo /\ command'.at = "adopting"
    BY <2>1, <1>t DEF CredentialsTypeOK, Command
  <2> QED
    BY <2>1, <2>2, <1>t, LedgerKept
    DEF CredentialsIInv, CredentialsTypeOK, Ledger, SecretsAreAccountedFor, InState, Current, UnderWay
<1>4. CASE Adopt
  <2> DEFINE v == Current
             p == version[v].profile
  <2>1. /\ v \in Versions /\ command.at = "adopting" /\ InState(v, {"allocated"})
        /\ version' = Retired(v, p) /\ command' = Idle /\ UNCHANGED <<vault, chosen>>
        /\ profile' = [profile EXCEPT ![p] = [status |-> "enabled", active |-> v]]
    BY <1>4, CurrentIsAVersion DEF Adopt, UnderWay
  <2>2. p \in Profiles
    BY <2>1 DEF CredentialsIInv, InState
  <2>3. \A u \in Versions :
           /\ version'[u].profile = version[u].profile
           /\ version'[u].state = IF u = v THEN "adopted"
                                  ELSE IF u = profile[p].active /\ version[u].state = "adopted"
                                       THEN "retired" ELSE version[u].state
           /\ version'[u] \in Version
    BY <2>1, <1>t DEF Retired, InState, CredentialsTypeOK, Version
  <2>4. version' \in [Versions -> Version]
    BY <2>1, <2>3 DEF Retired
  <2>5. /\ profile' \in [Profiles -> Profile]
        /\ profile'[p] = [status |-> "enabled", active |-> v]
        /\ \A q \in Profiles : q # p => profile'[q] = profile[q]
    BY <2>1, <2>2, <1>t DEF CredentialsTypeOK, Profile
  <2>6. CredentialsTypeOK'
    BY <2>1, <2>4, <2>5, <1>t, <1>i DEF CredentialsTypeOK
  <2>7. SecretsAreAccountedFor'
    BY <2>1, <2>3, <1>t DEF CredentialsIInv, SecretsAreAccountedFor, InState, CredentialsTypeOK
  <2>8. OneVersionIsActive'
    <3>1. ASSUME NEW q \in Profiles
          PROVE  {u \in Versions : version'[u].profile = q /\ version'[u].state = "adopted"}
                    = {profile'[q].active} \ {Nothing}
      <4>1. {u \in Versions : version[u].profile = q /\ version[u].state = "adopted"}
               = {profile[q].active} \ {Nothing}
        BY DEF CredentialsIInv, OneVersionIsActive, OfProfile, InState
      <4>2. v # Nothing
        BY <2>1, CredentialsAssumption
      <4>3. CASE q = p
        BY <4>1, <4>2, <4>3, <2>1, <2>3, <2>5
      <4>4. CASE q # p
        <5>1. \A u \in Versions : version[u].profile = q =>
                 (version'[u].state = "adopted" <=> version[u].state = "adopted")
          <6>1. profile[p].active # Nothing => version[profile[p].active].profile = p
            BY <2>2 DEF CredentialsIInv, OneVersionIsActive, OfProfile, InState
          <6> QED
            BY <6>1, <2>1, <2>3, <4>4, CredentialsAssumption
        <5> QED
          BY <4>1, <4>4, <5>1, <2>3, <2>5
      <4> QED
        BY <4>3, <4>4
    <3>2. ASSUME NEW q \in Profiles, profile'[q].status = "enabled"
          PROVE  profile'[q].active # Nothing
      BY <3>2, <2>1, <2>5, CredentialsAssumption DEF CredentialsIInv, OneVersionIsActive
    <3> QED
      BY <3>1, <3>2, <2>3 DEF OneVersionIsActive, OfProfile, InState
  <2>9. \A u \in Versions : version'[u].state # "absent" => version'[u].profile \in Profiles
    BY <2>3, <2>1 DEF CredentialsIInv, InState
  <2> QED
    BY <2>1, <2>6, <2>7, <2>8, <2>9 DEF CredentialsIInv, Idle, UnderWay
<1>5. ASSUME NEW p \in Profiles, DeleteProfile(p)
      PROVE  CredentialsIInv'
  <2> DEFINE doomed == {v \in OfProfile(p) : ~InState(v, {"orphan_cleaned", "deleted"})}
  <2>1. /\ version' = [v \in Versions |->
                         IF v \in doomed THEN [version[v] EXCEPT !.state = "delete_pending"]
                         ELSE version[v]]
        /\ profile' = [profile EXCEPT ![p] = [status |-> "disabled", active |-> Nothing]]
        /\ UNCHANGED <<vault, chosen>>
        /\ \E todo \in Enumeration(doomed) :
             command' = IF doomed = {} THEN Idle
                        ELSE [Idle EXCEPT !.at = "deleting", !.todo = todo]
    BY <1>5 DEF DeleteProfile
  <2>2. doomed \in SUBSET Versions
    BY DEF OfProfile
  <2>3. /\ command' \in Command /\ command'.at \in {"idle", "deleting"}
        /\ command'.at = "deleting" => command'.todo # <<>>
    <3>1. PICK todo \in Enumeration(doomed) :
             command' = IF doomed = {} THEN Idle
                        ELSE [Idle EXCEPT !.at = "deleting", !.todo = todo]
      BY <2>1
    <3>2. todo \in Seq(Versions) /\ (doomed # {} => todo # <<>>)
      BY <2>2, EnumerationLists
    <3> QED
      BY <3>1, <3>2, <1>i DEF Command, Idle
  <2>4. \A v \in Versions :
           /\ version'[v] \in Version /\ version'[v].profile = version[v].profile
           /\ version'[v].state = IF v \in doomed THEN "delete_pending" ELSE version[v].state
    BY <2>1, <1>t DEF CredentialsTypeOK, Version
  <2>5. version' \in [Versions -> Version]
    BY <2>1, <2>4
  <2>6. /\ profile' \in [Profiles -> Profile]
        /\ profile'[p] = [status |-> "disabled", active |-> Nothing]
        /\ \A q \in Profiles : q # p => profile'[q] = profile[q]
    BY <2>1, <1>t DEF CredentialsTypeOK, Profile
  <2>7. CredentialsTypeOK'
    BY <2>1, <2>3, <2>5, <2>6, <1>t DEF CredentialsTypeOK
  <2>8. SecretsAreAccountedFor'
    BY <2>1, <2>4, <1>t DEF CredentialsIInv, SecretsAreAccountedFor, InState, CredentialsTypeOK
  <2>9. OneVersionIsActive'
    <3>1. ASSUME NEW q \in Profiles
          PROVE  {u \in Versions : version'[u].profile = q /\ version'[u].state = "adopted"}
                    = {profile'[q].active} \ {Nothing}
      <4>1. {u \in Versions : version[u].profile = q /\ version[u].state = "adopted"}
               = {profile[q].active} \ {Nothing}
        BY DEF CredentialsIInv, OneVersionIsActive, OfProfile, InState
      <4>2. CASE q = p
        BY <4>2, <2>4, <2>6 DEF OfProfile, InState
      <4>3. CASE q # p
        BY <4>1, <4>3, <2>4, <2>6 DEF OfProfile
      <4> QED
        BY <4>2, <4>3
    <3>2. ASSUME NEW q \in Profiles, profile'[q].status = "enabled"
          PROVE  profile'[q].active # Nothing
      BY <3>2, <2>6 DEF CredentialsIInv, OneVersionIsActive
    <3> QED
      BY <3>1, <3>2, <2>4 DEF OneVersionIsActive, OfProfile, InState
  <2>10. \A v \in Versions : version'[v].state # "absent" => version'[v].profile \in Profiles
    BY <2>4 DEF CredentialsIInv, OfProfile
  <2> QED
    BY <2>3, <2>7, <2>8, <2>9, <2>10 DEF CredentialsIInv, UnderWay
<1>6. CASE DeleteSecret \/ RecoverSecret
  <2>1. UnderWay
    BY <1>6 DEF DeleteSecret, RecoverSecret, UnderWay
  <2>2. /\ vault' = vault \ {Current} /\ UNCHANGED Ledger
        /\ command' = [command EXCEPT !.at = "marking"]
    BY <1>6 DEF DeleteSecret, RecoverSecret, Cleaned
  <2>3. /\ command' \in Command /\ command'.todo = command.todo /\ command'.at = "marking"
    BY <2>2, <1>t DEF CredentialsTypeOK, Command
  <2> QED
    BY <2>1, <2>2, <2>3, <1>t, LedgerKept
    DEF CredentialsIInv, CredentialsTypeOK, Ledger, SecretsAreAccountedFor, InState, Current, UnderWay
<1>7. ASSUME NEW state \in {"deleted", "orphan_cleaned"},
             command.at = "marking", InState(Current, {"allocated", "delete_pending"}),
             version' = WithState(Current, state), command' = Proceed,
             profile' \in [Profiles -> Profile],
             \A p \in Profiles : /\ profile'[p].active = profile[p].active
                                 /\ profile'[p].status # profile[p].status
                                        => profile'[p].status # "enabled",
             UNCHANGED <<vault, chosen>>
      PROVE  CredentialsIInv'
  <2>1. Current \in Versions /\ Current \notin vault /\ command.todo # <<>>
    BY <1>7, CurrentIsAVersion DEF UnderWay, CredentialsIInv
  <2>2. \A v \in Versions :
           /\ version'[v] \in Version /\ version'[v].profile = version[v].profile
           /\ version'[v].state = IF v = Current THEN state ELSE version[v].state
    BY <1>7, <2>1, <1>t DEF WithState, CredentialsTypeOK, Version
  <2>3. version' \in [Versions -> Version]
    BY <1>7, <1>t, <2>1 DEF WithState, CredentialsTypeOK, Version
  <2>4. /\ command' \in Command /\ command'.at \in {"idle", "recovering", "deleting"}
        /\ command'.at \notin {"idle", "down"} => command'.todo # <<>>
    BY <1>7, <2>1, <1>t, ProceedIsCommand DEF CredentialsTypeOK
  <2>5. OneVersionIsActive'
    BY <1>7, <2>1, <2>2 DEF CredentialsIInv, OneVersionIsActive, OfProfile, InState
  <2>6. SecretsAreAccountedFor'
    BY <1>7, <2>1, <2>2, <1>t DEF CredentialsIInv, SecretsAreAccountedFor, InState, CredentialsTypeOK
  <2>7. \A v \in Versions : version'[v].state # "absent" => version'[v].profile \in Profiles
    BY <2>1, <2>2, <1>7 DEF CredentialsIInv, InState
  <2> QED
    BY <1>7, <1>t, <2>3, <2>4, <2>5, <2>6, <2>7 DEF CredentialsIInv, CredentialsTypeOK, UnderWay
<1>8. CASE MarkDeleted
  <2>1. /\ command.at = "marking" /\ InState(Current, {"delete_pending"})
        /\ version' = WithState(Current, "deleted") /\ command' = Proceed
        /\ UNCHANGED <<vault, chosen>>
        /\ \/ profile' = profile
           \/ profile' = [profile EXCEPT ![version[Current].profile].status = "deleted"]
    BY <1>8 DEF MarkDeleted
  <2>2. /\ profile' \in [Profiles -> Profile]
        /\ \A p \in Profiles : /\ profile'[p].active = profile[p].active
                               /\ profile'[p].status # profile[p].status
                                      => profile'[p].status # "enabled"
    BY <2>1, <1>t DEF CredentialsTypeOK, Profile
  <2> QED
    BY <2>1, <2>2, <1>7 DEF InState
<1>9. CASE MarkOrphanCleaned
  <2>1. /\ command.at = "marking" /\ InState(Current, {"allocated"})
        /\ version' = WithState(Current, "orphan_cleaned") /\ command' = Proceed
        /\ UNCHANGED <<vault, chosen>>
        /\ \/ profile' = profile
           \/ profile' = [profile EXCEPT ![version[Current].profile].status
                                             = "credential_unavailable"]
    BY <1>9 DEF MarkOrphanCleaned
  <2>2. /\ profile' \in [Profiles -> Profile]
        /\ \A p \in Profiles : /\ profile'[p].active = profile[p].active
                               /\ profile'[p].status # profile[p].status
                                      => profile'[p].status # "enabled"
    BY <2>1, <1>t DEF CredentialsTypeOK, Profile
  <2> QED
    BY <2>1, <2>2, <1>7 DEF InState
<1>10. ASSUME UNCHANGED <<version, vault>>, chosen' \in [Workspaces -> Profiles \cup {Nothing}],
              profile' \in [Profiles -> Profile],
              \A p \in Profiles : /\ profile'[p].active = profile[p].active
                                  /\ profile'[p].status # profile[p].status
                                         => profile'[p].status # "enabled",
              command' \in Command,
              \/ command'.at \in {"idle", "down"}
              \/ command'.at \in {"recovering", "deleting"} /\ command'.todo # <<>>
       PROVE  CredentialsIInv'
  BY <1>10, <1>t, LedgerKept
  DEF CredentialsIInv, CredentialsTypeOK, SecretsAreAccountedFor, InState, UnderWay
<1>11. CASE Start
  <2>1. PICK todo \in Enumeration(RecoveryCandidates) :
           command' = IF RecoveryCandidates = {} THEN Idle
                      ELSE [at |-> "recovering", todo |-> todo, recovery |-> TRUE]
    BY <1>11 DEF Start
  <2>2. RecoveryCandidates \in SUBSET Versions
    BY DEF RecoveryCandidates
  <2>3. todo \in Seq(Versions) /\ (RecoveryCandidates # {} => todo # <<>>)
    BY <2>2, EnumerationLists
  <2>4. /\ command' \in Command
        /\ command'.at = "idle" \/ (command'.at = "recovering" /\ command'.todo # <<>>)
    BY <2>1, <2>3, <1>i DEF Command, Idle
  <2> QED
    BY <2>4, <1>11, <1>10, <1>t DEF Start, Ledger, CredentialsTypeOK
<1>12. CASE RecoverAdopted
  <2>1. UnderWay /\ command.todo # <<>>
    BY <1>12, CurrentIsAVersion DEF RecoverAdopted, UnderWay
  <2>2. /\ UNCHANGED <<version, vault, chosen>> /\ command' = Proceed
        /\ \/ profile' = profile
           \/ profile' = [profile EXCEPT ![version[Current].profile].status
                                             = "credential_unavailable"]
    BY <1>12 DEF RecoverAdopted
  <2>3. /\ command' \in Command /\ command'.at \in {"idle", "recovering", "deleting"}
        /\ command'.at \notin {"idle", "down"} => command'.todo # <<>>
    BY <2>1, <2>2, <1>t, ProceedIsCommand DEF CredentialsTypeOK
  <2>4. /\ profile' \in [Profiles -> Profile]
        /\ \A p \in Profiles : /\ profile'[p].active = profile[p].active
                               /\ profile'[p].status # profile[p].status
                                      => profile'[p].status # "enabled"
    BY <2>2, <1>t DEF CredentialsTypeOK, Profile
  <2> QED
    BY <2>2, <2>3, <2>4, <1>10, <1>t DEF CredentialsTypeOK
<1>13. ASSUME NEW w \in Workspaces, NEW p \in Profiles, SelectModel(w, p)
       PROVE  CredentialsIInv'
  <2>1. /\ UNCHANGED <<profile, version, vault, command>> /\ command = Idle
        /\ chosen' \in [Workspaces -> Profiles \cup {Nothing}]
    BY <1>13, <1>t DEF SelectModel, CredentialsTypeOK
  <2> QED
    BY <2>1, <1>10, <1>t DEF CredentialsTypeOK, Idle
<1>14. ASSUME NEW v \in Versions, ResolveFails(v)
       PROVE  CredentialsIInv'
  <2>1. /\ UNCHANGED <<version, vault, chosen, command>> /\ command = Idle
        /\ profile' = [profile EXCEPT ![version[v].profile].status = "credential_unavailable"]
    BY <1>14 DEF ResolveFails
  <2>2. /\ profile' \in [Profiles -> Profile]
        /\ \A p \in Profiles : /\ profile'[p].active = profile[p].active
                               /\ profile'[p].status # profile[p].status
                                      => profile'[p].status # "enabled"
    BY <2>1, <1>t DEF CredentialsTypeOK, Profile
  <2> QED
    BY <2>1, <2>2, <1>10, <1>t DEF CredentialsTypeOK, Idle
<1>15. ASSUME NEW v \in Versions, LoseSecret(v)
       PROVE  CredentialsIInv'
  BY <1>15, <1>t, LedgerKept
  DEF LoseSecret, Ledger, CredentialsIInv, CredentialsTypeOK, SecretsAreAccountedFor, InState,
      Current, UnderWay
<1>16. CASE Raise \/ VaultCrash
  <2>1. UNCHANGED <<Ledger, vault>> /\ command' \in {Down, Idle}
    BY <1>16 DEF Raise, VaultCrash
  <2>2. UNCHANGED <<profile, version, vault, chosen>>
    BY <2>1 DEF Ledger
  <2>3. Idle.at = "idle" /\ Down.at = "down"
    BY DEF Idle, Down
  <2>4. command' \in Command /\ command'.at \in {"idle", "down"}
    BY <2>1, <2>3, <1>i
  <2> QED
    BY <2>2, <2>4, <1>t, <1>10 DEF CredentialsTypeOK
<1>17. CASE UNCHANGED credentialVars
  BY <1>17, LedgerKept
  DEF credentialVars, CredentialsIInv, CredentialsTypeOK, SecretsAreAccountedFor, InState,
      Current, UnderWay, OneVersionIsActive, OfProfile
<1> QED
  BY <1>1, <1>2, <1>3, <1>4, <1>5, <1>6, <1>8, <1>9, <1>11, <1>12, <1>13, <1>14, <1>15, <1>16,
     <1>17 DEF CredentialsNext

(* A secret in the vault belongs to a version whose row still tells so.     *)
THEOREM SecretsAreAccountedForHolds == CredentialsSpec => []SecretsAreAccountedFor
<1>1. CredentialsIInv => SecretsAreAccountedFor
  BY DEF CredentialsIInv
<1> QED
  BY <1>1, CredentialsBegin, CredentialsStep, PTL DEF CredentialsSpec

(* At most one version of a profile is adopted, the one the profile names.  *)
THEOREM OneVersionIsActiveHolds == CredentialsSpec => []OneVersionIsActive
<1>1. CredentialsIInv => OneVersionIsActive
  BY DEF CredentialsIInv
<1> QED
  BY <1>1, CredentialsBegin, CredentialsStep, PTL DEF CredentialsSpec

-----------------------------------------------------------------------------
(* The migration runner.                                                   *)

(* What a runner read is no newer than the schema, which never goes back;   *)
(* one that verifies or is ready went as far as its registry.               *)
SchemaIInv ==
    /\ SchemaTypeOK
    /\ ChecksumsVerify(schema)
    /\ \A r \in Runners :
          /\ runner[r].version <= schema
          /\ runner[r].at = "ready" => schema >= Registry[r]

LEMMA SchemaBegin == SchemaInit => SchemaIInv
<1> SUFFICES ASSUME SchemaInit PROVE SchemaIInv
  OBVIOUS
<1>1. <<>> \in Seq(Nat) /\ <<>> = [v \in 1 .. 0 |-> v]
  OBVIOUS
<1> QED
  BY <1>1 DEF SchemaInit, SchemaIInv, SchemaTypeOK, ChecksumsVerify, Lease, Runner, AtRest

(* A step that was not applied before comes after all that were; if a       *)
(* runner applies the one after what it knows, it is the next one.          *)
LEMMA NextRecord ==
  ASSUME NEW n \in Nat, NEW v \in Nat \ {0}, v <= n + 1,
         NEW s, s = [i \in 1 .. n |-> i], \A i \in DOMAIN s : s[i] # v
  PROVE  v = n + 1 /\ Append(s, v) \in Seq(Nat) /\ Append(s, v) = [i \in 1 .. n + 1 |-> i]
<1>1. v = n + 1
  <2> SUFFICES ASSUME v <= n PROVE FALSE
    OBVIOUS
  <2>1. v \in DOMAIN s /\ s[v] = v
    OBVIOUS
  <2> QED
    BY <2>1
<1>2. s \in Seq(Nat) /\ Len(s) = n
  OBVIOUS
<1>3. /\ Append(s, v) \in Seq(Nat) /\ Len(Append(s, v)) = n + 1
      /\ \A i \in 1 .. n + 1 : Append(s, v)[i] = i
  BY <1>1, <1>2
<1>4. DOMAIN Append(s, v) = 1 .. n + 1
  BY <1>3
<1> QED
  BY <1>1, <1>3, <1>4

LEMMA SchemaStep ==
  ASSUME SchemaIInv, [SchemaNext]_schemaVars
  PROVE  SchemaIInv' /\ schema <= schema'
<1>t. SchemaTypeOK
  BY DEF SchemaIInv
<1>n. Registry \in [Runners -> Nat \ {0}]
  BY MigrationAssumption
<1>1. ASSUME NEW r \in Runners, UNCHANGED <<schema, records>>, lease' \in Lease,
             runner' \in [Runners -> Runner],
             \A q \in Runners : q # r => runner'[q] = runner[q],
             runner'[r].version <= schema,
             runner'[r].at = "ready" => schema >= Registry[r]
      PROVE  SchemaIInv' /\ schema <= schema'
  BY <1>1, <1>t DEF SchemaIInv, SchemaTypeOK, ChecksumsVerify
<1>2. ASSUME NEW r \in Runners, NEW v \in Nat \ {0}, v <= schema + 1, Unapplied(v), Record(v),
             lease' \in Lease, runner' \in [Runners -> Runner],
             \A q \in Runners : q # r => runner'[q] = runner[q],
             runner'[r].version = v, runner'[r].at # "ready"
      PROVE  SchemaIInv' /\ schema <= schema'
  <2>1. records = [i \in 1 .. schema |-> i] /\ schema \in Nat
    BY <1>t DEF SchemaIInv, ChecksumsVerify, SchemaTypeOK
  <2>2. v = schema + 1 /\ records' \in Seq(Nat) /\ records' = [i \in 1 .. schema + 1 |-> i]
    BY <1>2, <2>1, NextRecord DEF Unapplied, Record
  <2>3. schema' = v
    BY <1>2 DEF Record
  <2>4. \A q \in Runners : /\ runner[q].version \in Nat /\ Registry[q] \in Nat
    BY <1>t, <1>n DEF SchemaTypeOK, Runner
  <2>5. SchemaTypeOK'
    BY <1>2, <1>t, <2>1, <2>2, <2>3 DEF SchemaTypeOK
  <2>6. ChecksumsVerify(schema)'
    BY <2>2, <2>3 DEF ChecksumsVerify
  <2>7. ASSUME NEW q \in Runners
        PROVE  /\ runner'[q].version <= schema'
               /\ runner'[q].at = "ready" => schema' >= Registry[q]
    <3>1. runner[q].version <= schema /\ (runner[q].at = "ready" => schema >= Registry[q])
      BY DEF SchemaIInv
    <3>2. CASE q = r
      BY <3>2, <1>2, <2>3
    <3>3. CASE q # r
      BY <3>1, <3>3, <1>2, <2>1, <2>2, <2>3, <2>4
    <3> QED
      BY <3>2, <3>3
  <2>8. schema <= schema'
    BY <2>1, <2>2, <2>3
  <2> QED
    BY <2>5, <2>6, <2>7, <2>8 DEF SchemaIInv
<1>3. ASSUME NEW r \in Runners, Inspect(r)
      PROVE  SchemaIInv' /\ schema <= schema'
  <2>1. /\ UNCHANGED <<schema, records, lease>>
        /\ runner' = [runner EXCEPT ![r] =
               [AtRest EXCEPT !.version = schema,
                              !.at = CASE schema = Registry[r] -> "ready"
                                       [] schema = 0 -> "first"
                                       [] OTHER -> "acquire"]]
    BY <1>3 DEF Inspect
  <2> DEFINE place == CASE schema = Registry[r] -> "ready"
                        [] schema = 0 -> "first"
                        [] OTHER -> "acquire"
  <2>2. place \in {"ready", "first", "acquire"} /\ (place = "ready" => schema = Registry[r])
    OBVIOUS
  <2>3. runner'[r] = [at |-> place, version |-> schema, token |-> Free]
    BY <2>1, <1>t DEF SchemaTypeOK, AtRest
  <2>4. runner' \in [Runners -> Runner]
    <3> HIDE DEF place
    <3> QED
      BY <2>1, <2>2, <2>3, <1>t DEF SchemaTypeOK, Runner
  <2>5. runner'[r].version <= schema /\ (runner'[r].at = "ready" => schema >= Registry[r])
    <3> HIDE DEF place
    <3> QED
      BY <2>2, <2>3, <1>t, <1>n DEF SchemaTypeOK
  <2> QED
    BY <2>1, <2>4, <2>5, <1>1, <1>t DEF SchemaTypeOK
<1>4. ASSUME NEW r \in Runners, ApplyFirst(r)
      PROVE  SchemaIInv' /\ schema <= schema'
  <2>1. /\ Unapplied(1) /\ Record(1) /\ UNCHANGED lease
        /\ runner' = [runner EXCEPT ![r].version = 1, ![r].at = "acquire"]
    BY <1>4 DEF ApplyFirst
  <2>2. runner' \in [Runners -> Runner] /\ runner'[r].version = 1 /\ runner'[r].at = "acquire"
    BY <2>1, <1>t DEF SchemaTypeOK, Runner
  <2>3. 1 \in Nat \ {0} /\ 1 <= schema + 1 /\ lease' \in Lease
    BY <2>1, <1>t DEF SchemaTypeOK
  <2>4. \A q \in Runners : q # r => runner'[q] = runner[q]
    BY <2>1, <1>t DEF SchemaTypeOK
  <2> QED
    BY <2>1, <2>2, <2>3, <2>4, <1>2
<1>5. ASSUME NEW r \in Runners, AcquireLease(r)
      PROVE  SchemaIInv' /\ schema <= schema'
  <2>1. /\ UNCHANGED <<schema, records>>
        /\ lease' = [owner |-> <<r, lease.revision>>, expired |-> FALSE,
                     revision |-> lease.revision + 1]
        /\ runner' = [runner EXCEPT ![r].token = <<r, lease.revision>>, ![r].at = "apply"]
    BY <1>5 DEF AcquireLease
  <2>2. lease' \in Lease /\ <<r, lease.revision>> \in Tokens
    BY <2>1, <1>t DEF SchemaTypeOK, Lease, Tokens
  <2>3. /\ runner' \in [Runners -> Runner] /\ runner'[r].version = runner[r].version
        /\ runner'[r].at = "apply"
    BY <2>1, <2>2, <1>t DEF SchemaTypeOK, Runner
  <2> QED
    BY <2>1, <2>2, <2>3, <1>1, <1>t DEF SchemaTypeOK, SchemaIInv
<1>6. ASSUME NEW r \in Runners, ApplyMigration(r)
      PROVE  SchemaIInv' /\ schema <= schema'
  <2> DEFINE v == runner[r].version + 1
  <2>1. /\ runner[r].at = "apply" /\ Unapplied(v) /\ Record(v)
        /\ runner' = [runner EXCEPT ![r].version = v]
        /\ lease' = [lease EXCEPT !.expired = FALSE]
    BY <1>6 DEF ApplyMigration
  <2>2. v \in Nat \ {0} /\ v <= schema + 1
    BY <1>t DEF SchemaIInv, SchemaTypeOK, Runner
  <2>3. /\ runner' \in [Runners -> Runner] /\ runner'[r].version = v /\ runner'[r].at = "apply"
        /\ lease' \in Lease
    BY <2>1, <2>2, <1>t DEF SchemaTypeOK, Runner, Lease
  <2> HIDE DEF v
  <2> QED
    BY <2>1, <2>2, <2>3, <1>2, <1>t DEF SchemaTypeOK
<1>7. ASSUME NEW r \in Runners, ReleaseLease(r)
      PROVE  SchemaIInv' /\ schema <= schema'
  <2>1. /\ UNCHANGED <<schema, records>> /\ lease' = Released
        /\ \E place \in {"verify", "idle"} : runner' = [runner EXCEPT ![r].at = place]
    BY <1>7 DEF ReleaseLease
  <2>2. PICK place \in {"verify", "idle"} : runner' = [runner EXCEPT ![r].at = place]
    BY <2>1
  <2>3. /\ runner' \in [Runners -> Runner] /\ runner'[r].version = runner[r].version
        /\ runner'[r].at # "ready"
        /\ \A q \in Runners : q # r => runner'[q] = runner[q]
    BY <2>2, <1>t DEF SchemaTypeOK, Runner
  <2>4. lease' \in Lease
    <3>1. lease.revision \in Nat
      BY <1>t DEF SchemaTypeOK, Lease
    <3> QED
      BY <2>1, <3>1 DEF Lease, Released
  <2>5. runner[r].version <= schema
    BY DEF SchemaIInv
  <2> QED
    BY <2>1, <2>3, <2>4, <2>5, <1>1
<1>8. ASSUME NEW r \in Runners, Verify(r)
      PROVE  SchemaIInv' /\ schema <= schema'
  <2>1. /\ UNCHANGED <<schema, records, lease>> /\ ChecksumsVerify(Registry[r])
        /\ runner' = [runner EXCEPT ![r].at = "ready"]
    BY <1>8 DEF Verify
  <2>2. /\ runner' \in [Runners -> Runner] /\ runner'[r].version = runner[r].version
    BY <2>1, <1>t DEF SchemaTypeOK, Runner
  <2>3. schema = Registry[r]
    <3>1. schema \in Nat /\ Registry[r] \in Nat
      BY <1>t, <1>n DEF SchemaTypeOK
    <3>2. 1 .. schema = 1 .. Registry[r]
      BY <2>1 DEF SchemaIInv, ChecksumsVerify
    <3>3. schema = 0 \/ schema \in 1 .. schema
      BY <3>1
    <3>4. Registry[r] = 0 \/ Registry[r] \in 1 .. Registry[r]
      BY <3>1
    <3> QED
      BY <3>1, <3>2, <3>3, <3>4
  <2>4. \A q \in Runners : q # r => runner'[q] = runner[q]
    BY <2>1, <1>t DEF SchemaTypeOK
  <2>5. schema >= Registry[r] /\ runner[r].version <= schema /\ lease' \in Lease
    BY <2>1, <2>3, <1>t, <1>n DEF SchemaTypeOK, SchemaIInv
  <2> QED
    BY <2>1, <2>2, <2>4, <2>5, <1>1
<1>9. ASSUME NEW r \in Runners, GiveUp(r)
      PROVE  SchemaIInv' /\ schema <= schema'
  <2>1. UNCHANGED <<schema, records, lease>> /\ runner' = [runner EXCEPT ![r] = AtRest]
    BY <1>9 DEF GiveUp
  <2>2. /\ runner' \in [Runners -> Runner] /\ runner'[r].version = 0
        /\ runner'[r].at = "idle"
    BY <2>1, <1>t DEF SchemaTypeOK, Runner, AtRest
  <2> QED
    BY <2>1, <2>2, <1>1, <1>t DEF SchemaTypeOK
<1>10. CASE LeaseExpires
  <2>1. UNCHANGED <<schema, records, runner>> /\ lease' = [lease EXCEPT !.expired = TRUE]
    BY <1>10 DEF LeaseExpires
  <2>2. lease' \in Lease
    BY <2>1, <1>t DEF SchemaTypeOK, Lease
  <2> QED
    BY <2>1, <2>2, <1>t DEF SchemaIInv, SchemaTypeOK, ChecksumsVerify
<1>11. CASE UNCHANGED schemaVars
  BY <1>11, <1>t DEF schemaVars, SchemaIInv, SchemaTypeOK, ChecksumsVerify
<1> QED
  BY <1>3, <1>4, <1>5, <1>6, <1>7, <1>8, <1>9, <1>10, <1>11 DEF SchemaNext

(* The schema is what its records say, whoever migrates it.                 *)
THEOREM SchemaIsWholeHolds == SchemaSpec => []SchemaIsWhole
<1>1. SchemaIInv => SchemaIsWhole
  BY DEF SchemaIInv, SchemaIsWhole
<1> QED
  BY <1>1, SchemaBegin, SchemaStep, PTL DEF SchemaSpec

(* And it never goes back to an older version.                              *)
THEOREM SchemaNeverGoesBack == SchemaSpec => [][schema <= schema']_schemaVars
<1>1. SchemaIInv /\ [SchemaNext]_schemaVars => SchemaIInv'
  BY SchemaStep
<1>2. SchemaIInv /\ [SchemaNext]_schemaVars => [schema <= schema']_schemaVars
  BY SchemaStep
<1> QED
  BY <1>1, <1>2, SchemaBegin, PTL DEF SchemaSpec

-----------------------------------------------------------------------------
(* Activations and the migrations adopted under them.                      *)

(* Attempts under which something that cannot be undone was announced.      *)
Marked == {a \in AttemptIds : "IRREVERSIBLE" \in activations[a].past}

(* The attempts an effect was recorded for, among those it takes place under. *)
RecordedIn(under) == {a \in Nat : <<a, TRUE>> \in under}

ReleaseIInv ==
    /\ pointer \in Pointer
    /\ activations \in Seq(Activation) /\ Len(activations) <= MaxActivations
    /\ \A a, b \in Open : a = b
    /\ \A under \in acting : RecordedIn(under) \subseteq Marked
    /\ RecordedIn(effects) \subseteq Marked
    /\ \A c \in Callers : RecordedIn(caller[c].under) \subseteq Marked
    /\ undone \subseteq AttemptIds \ Marked
    /\ \A a \in undone : activations[a].state = "FAILED"

(* What the calls of the coordinator know of the research and of their      *)
(* attempt.                                                                 *)
KnowsItsAttempt(call, attempts, adopted) ==
    /\ call.seen # Damaged
    /\ call.at \notin {"idle", "insert"} => call.attempt \in attempts
    /\ call.at \in {"clean", "unlock"} => call.attempt \in adopted

MigrationIInv ==
    /\ MigrationTypeOK
    /\ live.research # Damaged
    /\ MigrationIsWhole
    /\ \A c \in Callers : KnowsItsAttempt(caller[c], Migrations, receipts)

UpgradeIInv == ReleaseIInv /\ MigrationIInv

LEMMA UpgradeBegin == ReleaseInit /\ MigrationInit => UpgradeIInv
<1> SUFFICES ASSUME ReleaseInit, MigrationInit PROVE UpgradeIInv
  OBVIOUS
<1>1. <<>> \in Seq(Activation) /\ <<>> \in Seq(MigrationStates)
  OBVIOUS
<1>2. AttemptIds = {} /\ Open = {}
  BY DEF ReleaseInit, AttemptIds, Open
<1>r. RecordedIn({}) = {}
  BY DEF RecordedIn
<1>3. ReleaseIInv
  <2>1. /\ \A under \in acting : RecordedIn(under) \subseteq Marked
        /\ RecordedIn(effects) \subseteq Marked
    BY <1>r DEF ReleaseInit
  <2>2. \A c \in Callers : RecordedIn(caller[c].under) \subseteq Marked
    BY <1>r DEF MigrationInit, NoCall
  <2> QED
    BY <1>1, <1>2, <2>1, <2>2, ReleasesAssumption DEF ReleaseInit, ReleaseIInv, Pointer
<1>4. live.research # Damaged
  BY WorkspaceMigrationAssumption DEF MigrationInit, LiveWorkspace, Damaged
<1>5. \A c \in Callers : KnowsItsAttempt(caller[c], Migrations, receipts)
  BY WorkspaceMigrationAssumption DEF MigrationInit, NoCall, Damaged, KnowsItsAttempt
<1>6. MigrationIsWhole
  BY DEF MigrationInit, MigrationIsWhole, Migrations
<1>7. MigrationTypeOK
  <2>1. Damaged \in Nat /\ MaxMigrations \in Nat
    BY WorkspaceMigrationAssumption DEF Damaged
  <2>2. NoCall \in Caller
    BY <2>1 DEF NoCall, Caller
  <2> QED
    BY <1>1, <2>1, <2>2 DEF MigrationInit, MigrationTypeOK, LiveWorkspace
<1> QED
  BY <1>1, <1>3, <1>4, <1>5, <1>6, <1>7 DEF UpgradeIInv, MigrationIInv

(* A transition keeps what an attempt was, adds to its history and leaves   *)
(* the others alone.                                                        *)
LEMMA TransitionOf ==
  ASSUME ReleaseIInv, NEW a \in AttemptIds, NEW state \in AttemptStates,
         NEW eligibility \in Eligibilities, Transition(a, state, eligibility)
  PROVE  /\ activations' \in Seq(Activation) /\ AttemptIds' = AttemptIds
         /\ \A b \in AttemptIds : b # a => activations'[b] = activations[b]
         /\ activations'[a].state = state
         /\ activations'[a].past = activations[a].past \cup {state}
         /\ Len(activations') = Len(activations)
<1>1. /\ activations \in Seq(Activation) /\ a \in 1 .. Len(activations)
      /\ activations[a] \in Activation /\ AttemptIds = 1 .. Len(activations)
  BY DEF ReleaseIInv, AttemptIds
<1>2. DOMAIN activations' = AttemptIds
  BY <1>1 DEF Transition, AttemptIds
<1>3. \A b \in AttemptIds : b # a => activations'[b] = activations[b]
  BY <1>1 DEF Transition, AttemptIds
<1>4. /\ activations'[a].state = state
      /\ activations'[a].past = activations[a].past \cup {state}
      /\ activations'[a] \in Activation
  BY <1>1 DEF Transition, AttemptIds, Activation
<1>5. activations' \in [1 .. Len(activations) -> Activation]
  <2>1. activations' = [b \in 1 .. Len(activations) |-> activations'[b]]
    BY <1>1, <1>2 DEF Transition, AttemptIds
  <2>2. \A b \in 1 .. Len(activations) : activations'[b] \in Activation
    BY <1>1, <1>3, <1>4
  <2> QED
    BY <2>1, <2>2
<1>6. activations' \in Seq(Activation) /\ Len(activations') = Len(activations)
  BY <1>1, <1>5
<1> QED
  BY <1>1, <1>2, <1>3, <1>4, <1>6 DEF AttemptIds

(* An open attempt moves on: it stays the only open one, or is closed.      *)
LEMMA OpenMovesOn ==
  ASSUME ReleaseIInv, NEW a \in Open, NEW state \in AttemptStates,
         NEW eligibility \in Eligibilities, Transition(a, state, eligibility)
  PROVE  /\ activations' \in Seq(Activation) /\ AttemptIds' = AttemptIds
         /\ Len(activations') = Len(activations)
         /\ Open' \subseteq Open
         /\ Marked \subseteq Marked'
         /\ state # "IRREVERSIBLE" => Marked' = Marked
         /\ state = "IRREVERSIBLE" => Marked' = Marked \cup {a}
         /\ \A b \in undone : activations'[b] = activations[b]
         /\ a \notin undone
<1>1. a \in AttemptIds /\ activations[a].state \in OpenStates
  BY DEF Open
<1>2. /\ activations' \in Seq(Activation) /\ AttemptIds' = AttemptIds
      /\ Len(activations') = Len(activations)
      /\ \A b \in AttemptIds : b # a => activations'[b] = activations[b]
      /\ activations'[a].state = state
      /\ activations'[a].past = activations[a].past \cup {state}
  BY <1>1, TransitionOf
<1>3. a \notin undone /\ undone \subseteq AttemptIds
  BY <1>1 DEF ReleaseIInv, OpenStates
<1>4. Open' \subseteq Open
  BY <1>1, <1>2 DEF Open
<1>5. \A b \in AttemptIds : b \in Marked' <=> (b \in Marked \/ (b = a /\ state = "IRREVERSIBLE"))
  BY <1>1, <1>2 DEF Marked
<1>6. Marked \subseteq AttemptIds /\ Marked' \subseteq AttemptIds
  BY <1>2 DEF Marked
<1>7. \A b \in undone : activations'[b] = activations[b]
  BY <1>2, <1>3
<1>8. Marked \subseteq Marked'
  BY <1>5, <1>6
<1>9. state # "IRREVERSIBLE" => Marked' = Marked
  BY <1>5, <1>6
<1>10. state = "IRREVERSIBLE" => Marked' = Marked \cup {a}
  BY <1>1, <1>5, <1>6
<1> QED
  BY <1>2, <1>3, <1>4, <1>7, <1>8, <1>9, <1>10

(* What the release control is about is unchanged.                          *)
LEMMA ReleaseKept ==
  ASSUME ReleaseIInv, UNCHANGED <<activations, effects, undone>>, acting' \subseteq acting, pointer' \in Pointer,
         \A c \in Callers : caller'[c].under \subseteq caller[c].under
  PROVE  ReleaseIInv'
<1>1. Marked' = Marked /\ Open' = Open /\ AttemptIds' = AttemptIds
  BY DEF Marked, Open, AttemptIds
<1>2. \A c \in Callers : RecordedIn(caller'[c].under) \subseteq RecordedIn(caller[c].under)
  BY DEF RecordedIn
<1> QED
  BY <1>1, <1>2 DEF ReleaseIInv

(* Marking an open attempt: the announcement of an effect.                  *)
LEMMA Announced ==
  ASSUME ReleaseIInv, Announce
  PROVE  /\ activations' \in Seq(Activation) /\ AttemptIds' = AttemptIds
         /\ Len(activations') = Len(activations)
         /\ \A a, b \in Open' : a = b
         /\ Marked \cup Open \subseteq Marked'
         /\ undone \subseteq AttemptIds \ Marked'
         /\ \A a \in undone : activations'[a].state = "FAILED"
<1>1. CASE Open = {}
  BY <1>1 DEF Announce, ReleaseIInv, Marked, Open, AttemptIds
<1>2. CASE Open # {}
  <2>1. PICK a \in Open : Forbidden(a)
    BY <1>2 DEF Announce
  <2>2. Open = {a}
    BY <2>1 DEF ReleaseIInv
  <2>3. "IRREVERSIBLE" \in AttemptStates /\ "FORBIDDEN_IRREVERSIBLE" \in Eligibilities
    BY DEF AttemptStates, OpenStates, Eligibilities
  <2>4. Transition(a, "IRREVERSIBLE", "FORBIDDEN_IRREVERSIBLE")
    BY <2>1 DEF Forbidden
  <2>5. /\ activations' \in Seq(Activation) /\ AttemptIds' = AttemptIds /\ Open' \subseteq Open
        /\ Len(activations') = Len(activations)
        /\ Marked' = Marked \cup {a} /\ a \notin undone
        /\ \A b \in undone : activations'[b] = activations[b]
    BY <2>3, <2>4, OpenMovesOn
  <2> QED
    BY <2>2, <2>5 DEF ReleaseIInv
<1> QED
  BY <1>1, <1>2

(* Of what an effect takes place under, the open attempts are recorded.     *)
LEMMA RecordedUnder == RecordedIn(Under) \subseteq Open
BY DEF RecordedIn, Under

LEMMA ReleaseStep ==
  ASSUME ReleaseIInv, ReleaseNext, UNCHANGED migrationVars
  PROVE  ReleaseIInv'
<1>u. UNCHANGED caller
  BY DEF migrationVars
<1>p. pointer \in Pointer /\ activations \in Seq(Activation)
  BY DEF ReleaseIInv
<1>1. ASSUME UNCHANGED <<activations, effects, undone>>, acting' \subseteq acting,
             pointer' \in Pointer
      PROVE  ReleaseIInv'
  BY <1>1, <1>u, ReleaseKept
<1>2. ASSUME NEW a \in Open, NEW state \in {"STARTING_SAFE", "ACTIVE_REVERSIBLE", "SUCCEEDED", "FAILED"},
             Becomes(a, state), UNCHANGED <<acting, effects, undone>>, pointer' \in Pointer
      PROVE  ReleaseIInv'
  <2>1. state \in AttemptStates /\ state # "IRREVERSIBLE"
    BY DEF AttemptStates, OpenStates
  <2>a. activations[a] \in Activation
    BY <1>p DEF Open, AttemptIds
  <2>b. activations[a].eligibility \in Eligibilities
    BY <2>a DEF Activation
  <2>2. Transition(a, state, activations[a].eligibility)
    BY <1>2 DEF Becomes
  <2>3. /\ activations' \in Seq(Activation) /\ AttemptIds' = AttemptIds /\ Open' \subseteq Open
        /\ Marked' = Marked /\ Len(activations') = Len(activations)
        /\ \A b \in undone : activations'[b] = activations[b]
    BY <2>1, <2>2, <2>b, OpenMovesOn
  <2> QED
    BY <2>3, <1>2, <1>u DEF ReleaseIInv
<1>3. ASSUME NEW r \in Releases, Stage(r)
      PROVE  ReleaseIInv'
  BY <1>1, <1>3, <1>p DEF Stage, ControlOnly, historyVars, Pointer
<1>4. ASSUME NEW r \in Releases, BeginAttempt(r)
      PROVE  ReleaseIInv'
  <2> DEFINE row == [candidate |-> r, previous |-> pointer.active, state |-> "PROBING",
                     eligibility |-> IF pointer.active = NoRelease THEN "UNKNOWN"
                                     ELSE "VERIFIED_REVERSIBLE",
                     past |-> {"PROBING"}]
             n == Len(activations) + 1
  <2>1. /\ Open = {} /\ activations' = Append(activations, row)
        /\ UNCHANGED <<pointer, acting, effects, undone>> /\ Len(activations) < MaxActivations
    BY <1>4 DEF BeginAttempt, ControlOnly, historyVars
  <2>2. row \in Activation /\ row.past = {"PROBING"}
    BY <1>p DEF Activation, Pointer, AttemptStates, OpenStates, Eligibilities
  <2>3. /\ activations' \in Seq(Activation) /\ AttemptIds' = AttemptIds \cup {n}
        /\ n \notin AttemptIds /\ activations'[n] = row
        /\ \A b \in AttemptIds : activations'[b] = activations[b]
    <3> HIDE DEF row
    <3> QED
      BY <2>1, <2>2, <1>p DEF AttemptIds
  <2>4. Marked' = Marked
    BY <2>2, <2>3 DEF Marked
  <2>5. Open' \subseteq {n}
    BY <2>1, <2>3 DEF Open
  <2>6. \A b \in undone : b \in AttemptIds
    BY DEF ReleaseIInv
  <2>7. Len(activations') <= MaxActivations
    <3> HIDE DEF row
    <3> QED
      BY <2>1, <1>p, ReleasesAssumption
  <2> HIDE DEF row
  <2> QED
    BY <2>1, <2>3, <2>4, <2>5, <2>6, <2>7, <1>u DEF ReleaseIInv
<1>5. ASSUME NEW r \in Releases, Damage(r)
      PROVE  ReleaseIInv'
  BY <1>1, <1>5, <1>p DEF Damage, controlVars, historyVars
<1>6. ASSUME NEW a \in AttemptIds, MarkStartingSafe(a)
      PROVE  ReleaseIInv'
  <2>1. a \in Open
    BY <1>6 DEF MarkStartingSafe, ProbePassed, Open, OpenStates
  <2>2. activations[a] \in Activation
    BY <1>p DEF AttemptIds
  <2>3. pointer' \in Pointer
    BY <1>6, <2>2 DEF MarkStartingSafe, Pointer, Activation
  <2> QED
    BY <1>2, <1>6, <2>1, <2>3 DEF MarkStartingSafe, ProbePassed, ControlOnly, historyVars
<1>7. ASSUME NEW a \in AttemptIds, MarkActiveReversible(a) \/ Succeed(a) \/ Fail(a)
      PROVE  ReleaseIInv'
  <2>1. a \in Open /\ UNCHANGED <<pointer, acting, effects, undone>>
    BY <1>7 DEF MarkActiveReversible, Succeed, Fail, Open, OpenStates, ControlOnly, historyVars
  <2>2. \E state \in {"ACTIVE_REVERSIBLE", "SUCCEEDED", "FAILED"} : Becomes(a, state)
    BY <1>7 DEF MarkActiveReversible, Succeed, Fail
  <2> QED
    BY <1>2, <1>p, <2>1, <2>2
<1>8. ASSUME NEW under \in acting, TakeEffect(under)
      PROVE  ReleaseIInv'
  <2>1. /\ acting' = acting \ {under} /\ effects' = effects \cup under
        /\ UNCHANGED <<pointer, activations, undone>>
    BY <1>8 DEF TakeEffect, controlVars
  <2>2. Marked' = Marked /\ Open' = Open /\ AttemptIds' = AttemptIds
    BY <2>1 DEF Marked, Open, AttemptIds
  <2>3. RecordedIn(effects') = RecordedIn(effects) \cup RecordedIn(under)
    BY <2>1 DEF RecordedIn
  <2> QED
    BY <2>1, <2>2, <2>3, <1>u DEF ReleaseIInv
<1>9. ASSUME NEW a \in AttemptIds, VerifyPrevious(a)
      PROVE  ReleaseIInv'
  BY <1>1, <1>9, <1>p DEF VerifyPrevious, controlVars, historyVars
<1>10. ASSUME NEW a \in AttemptIds, Rollback(a)
       PROVE  ReleaseIInv'
  <2>1. /\ ProvablyReversible(a) /\ undone' = undone \cup {a}
        /\ pointer' = [active |-> activations[a].previous, pending |-> NoRelease]
        /\ UNCHANGED <<activations, acting, effects>>
    BY <1>10 DEF Rollback
  <2>2. activations[a] \in Activation
    BY <1>p DEF AttemptIds
  <2>3. pointer' \in Pointer
    BY <2>1, <2>2 DEF Pointer, Activation
  <2>4. a \notin Marked /\ activations[a].state = "FAILED"
    BY <2>1 DEF ProvablyReversible, Marked
  <2>5. Marked' = Marked /\ Open' = Open /\ AttemptIds' = AttemptIds
    BY <2>1 DEF Marked, Open, AttemptIds
  <2> QED
    BY <2>1, <2>3, <2>4, <2>5, <1>u DEF ReleaseIInv
<1>11. CASE AnnounceEffect
  <2>1. /\ Announce /\ acting' \subseteq acting \cup {Under}
        /\ UNCHANGED <<pointer, effects, undone>>
    BY <1>11 DEF AnnounceEffect, historyVars
  <2> QED
    BY <2>1, <1>u, Announced, RecordedUnder DEF ReleaseIInv
<1>12. ASSUME NEW u \in undoing, RefuseRollback(u)
       PROVE  ReleaseIInv'
  BY <1>1, <1>12, <1>p DEF RefuseRollback, controlVars, historyVars
<1>13. CASE ProcessEnds
  BY <1>1, <1>13, <1>p DEF ProcessEnds, controlVars, historyVars
<1> QED
  BY <1>3, <1>4, <1>5, <1>6, <1>7, <1>8, <1>9, <1>10, <1>11, <1>12, <1>13 DEF ReleaseNext

LEMMA MigrationKeepsReleases ==
  ASSUME ReleaseIInv, MigrationIInv, MigrationNext
  PROVE  ReleaseIInv'
<1>d. caller \in [Callers -> Caller] /\ pointer \in Pointer
  BY DEF MigrationIInv, MigrationTypeOK, ReleaseIInv
<1>1. ASSUME UNCHANGED releaseVars, \A c \in Callers : caller'[c].under \subseteq caller[c].under
      PROVE  ReleaseIInv'
  BY <1>1, <1>d, ReleaseKept DEF releaseVars, controlVars, historyVars
<1>2. ASSUME NEW c \in Callers, CallerStep(c)
      PROVE  \A d \in Callers : caller'[d].under \subseteq caller[d].under
  <2>1. ASSUME NEW call, caller' = [caller EXCEPT ![c] = call], call.under \subseteq caller[c].under
        PROVE  \A d \in Callers : caller'[d].under \subseteq caller[d].under
    BY <2>1, <1>d
  <2>2. NoCall.under = {}
    BY DEF NoCall
  <2>3. ASSUME NEW place, Goto(c, place)
        PROVE  \A d \in Callers : caller'[d].under \subseteq caller[d].under
    BY <2>3, <1>d DEF Goto, Caller
  <2>4. ASSUME Return(c)
        PROVE  \A d \in Callers : caller'[d].under \subseteq caller[d].under
    BY <2>1, <2>2, <2>4 DEF Return
  <2>5. CASE InsertAttempt(c)
    BY <2>5, <1>d DEF InsertAttempt, Caller
  <2>7. ASSUME NEW m \in Migrations, AdoptionRefused(c, m)
        PROVE  \A d \in Callers : caller'[d].under \subseteq caller[d].under
    BY <2>7 DEF AdoptionRefused
  <2>6. ASSUME NEW m \in Migrations, VerifyPrepared(c, m) \/ BeginCleanup(c, m)
        PROVE  \A d \in Callers : caller'[d].under \subseteq caller[d].under
    <3>1. CASE VerifyPrepared(c, m)
      BY <3>1, <1>d DEF VerifyPrepared, NoCall
    <3>2. CASE BeginCleanup(c, m)
      <4>1. \E call \in {[NoCall EXCEPT !.at = "clean", !.attempt = m], NoCall} :
               caller' = [caller EXCEPT ![c] = call]
        BY <3>2 DEF BeginCleanup
      <4>2. [NoCall EXCEPT !.at = "clean", !.attempt = m].under = {}
        BY DEF NoCall
      <4> QED
        BY <4>1, <4>2, <2>1, <2>2
    <3> QED
      BY <2>6, <3>1, <3>2
  <2> QED
    BY <1>2, <2>3, <2>4, <2>5, <2>6, <2>7
    DEF CallerStep, Preflight, Backup, RecordBackup, StageCandidate, RecordPrepared,
        StartAdoption, CompleteCleanup, Unlock, RaiseMigration, CallDies
<1>3. ASSUME ResearchCommit \/ WriteExecution \/ (\E f \in files : LoseFile(f))
      PROVE  \A d \in Callers : caller'[d].under \subseteq caller[d].under
  BY <1>3 DEF ResearchCommit, WriteExecution, LoseFile
<1>4. ASSUME NEW c \in Callers, GuardAdoption(c)
      PROVE  ReleaseIInv'
  <2>1. /\ Announce /\ caller' = [caller EXCEPT ![c].at = "start", ![c].under = Under]
        /\ UNCHANGED <<pointer, acting, effects, undone>>
    BY <1>4 DEF GuardAdoption, historyVars
  <2>2. \A d \in Callers : caller'[d].under \in {caller[d].under, Under}
    BY <2>1, <1>d DEF Caller
  <2>3. \A d \in Callers : RecordedIn(caller'[d].under) \subseteq Marked \cup Open
    BY <2>2, RecordedUnder DEF ReleaseIInv
  <2> QED
    BY <2>1, <2>3, Announced DEF ReleaseIInv
<1>5. ASSUME NEW c \in Callers, AdoptMigration(c)
      PROVE  ReleaseIInv'
  <2>1. /\ effects' = effects \cup caller[c].under /\ caller' = [caller EXCEPT ![c] = NoCall]
        /\ UNCHANGED <<pointer, activations, acting, undone>>
    BY <1>5 DEF AdoptMigration, controlVars, Return
  <2>2. \A d \in Callers : caller'[d].under \subseteq caller[d].under
    BY <2>1, <1>d DEF NoCall
  <2>3. Marked' = Marked /\ Open' = Open /\ AttemptIds' = AttemptIds
    BY <2>1 DEF Marked, Open, AttemptIds
  <2>4. RecordedIn(effects') = RecordedIn(effects) \cup RecordedIn(caller[c].under)
    BY <2>1 DEF RecordedIn
  <2>5. \A d \in Callers : RecordedIn(caller'[d].under) \subseteq RecordedIn(caller[d].under)
    BY <2>2 DEF RecordedIn
  <2> QED
    BY <2>1, <2>3, <2>4, <2>5 DEF ReleaseIInv
<1> QED
  BY <1>1, <1>2, <1>3, <1>4, <1>5 DEF MigrationNext

(* The state of an attempt changes, to one that needs no receipt or to one  *)
(* of an attempt that has it.                                               *)
LEMMA AttemptMoves ==
  ASSUME MigrationIInv, NEW m, NEW state \in MigrationStates,
         migrations' = [migrations EXCEPT ![m] = state], UNCHANGED <<live, receipts>>,
         state \in {"ADOPTED", "CLEANUP_COMPLETE"} => m \in receipts
  PROVE  /\ migrations' \in Seq(MigrationStates) /\ Len(migrations') = Len(migrations)
         /\ Migrations' = Migrations /\ MigrationIsWhole'
<1>1. migrations \in Seq(MigrationStates)
  BY DEF MigrationIInv, MigrationTypeOK
<1>2. migrations' \in Seq(MigrationStates) /\ Len(migrations') = Len(migrations)
  <2>1. migrations \in [1 .. Len(migrations) -> MigrationStates] /\ Len(migrations) \in Nat
    BY <1>1
  <2>2. migrations' \in [1 .. Len(migrations) -> MigrationStates]
    BY <2>1
  <2> QED
    BY <2>1, <2>2
<1>3. Migrations' = Migrations
  BY <1>1, <1>2 DEF Migrations
<1>4. \A n \in Migrations : migrations'[n] = IF n = m THEN state ELSE migrations[n]
  BY <1>1 DEF Migrations
<1>5. MigrationIsWhole'
  BY <1>3, <1>4 DEF MigrationIInv, MigrationIsWhole
<1> QED
  BY <1>2, <1>3, <1>5

(* The steps of the schema either leave the research alone or raise.        *)
LEMMA AdoptionKeepsResearch ==
  ASSUME MigrationIInv, NEW c \in Callers, AdoptMigration(c)
  PROVE  live' = [live EXCEPT !.schema = "new"] /\ live'.research = live.research
<1>1. live \in LiveWorkspace /\ caller[c].seen # Damaged
  BY DEF MigrationIInv, MigrationTypeOK, KnowsItsAttempt
<1>2. PICK research \in {live.research, Damaged} :
         /\ SameResearch(c, research)
         /\ live' = [live EXCEPT !.schema = "new", !.research = research]
  BY DEF AdoptMigration
<1>3. research = live.research
  BY <1>1, <1>2 DEF SameResearch
<1> QED
  BY <1>1, <1>2, <1>3 DEF LiveWorkspace

LEMMA MigrationStep ==
  ASSUME UpgradeIInv, MigrationNext
  PROVE  MigrationIInv'
<1>i. MigrationIInv /\ MigrationTypeOK
  BY DEF UpgradeIInv, MigrationIInv
<1>n. MaxMigrations \in Nat /\ MaxResearch \in Nat /\ Damaged \in Nat
  BY WorkspaceMigrationAssumption DEF Damaged
<1>c. /\ NoCall \in Caller /\ NoCall.seen # Damaged /\ NoCall.at = "idle"
  BY <1>n DEF NoCall, Caller, Damaged
<1>m. Migrations \subseteq 1 .. MaxMigrations /\ Migrations = 1 .. Len(migrations)
  BY <1>i, <1>n DEF MigrationTypeOK, Migrations
(* What a call does to its own place only.                                  *)
<1>1. ASSUME NEW c \in Callers, NEW call \in Caller, caller' = [caller EXCEPT ![c] = call],
             KnowsItsAttempt(call, Migrations', receipts'), UNCHANGED live, receipts \subseteq receipts',
             receipts' \subseteq Migrations',
             migrations' \in Seq(MigrationStates), Len(migrations') <= MaxMigrations,
             Migrations \subseteq Migrations', MigrationIsWhole',
             lock' \in 0 .. MaxMigrations, files' \subseteq File
      PROVE  MigrationIInv'
  <2>1. caller' \in [Callers -> Caller]
    BY <1>1, <1>i DEF MigrationTypeOK
  <2>2. MigrationTypeOK'
    BY <1>1, <2>1, <1>i DEF MigrationTypeOK
  <2>3. \A d \in Callers : KnowsItsAttempt(caller'[d], Migrations', receipts')
    BY <1>1, <1>i DEF MigrationIInv, MigrationTypeOK, KnowsItsAttempt
  <2> QED
    BY <1>1, <2>2, <2>3, <1>i DEF MigrationIInv
<1>w. UNCHANGED <<live, migrations, receipts>> =>
         /\ receipts \subseteq receipts' /\ receipts' \subseteq Migrations'
         /\ migrations' \in Seq(MigrationStates) /\ Len(migrations') <= MaxMigrations
         /\ Migrations' = Migrations /\ MigrationIsWhole'
  BY <1>i DEF MigrationIInv, MigrationTypeOK, MigrationIsWhole, Migrations
<1>k. lock \in 0 .. MaxMigrations /\ files \subseteq File /\ receipts \subseteq Migrations
  BY <1>i DEF MigrationTypeOK
<1>a. KnowsItsAttempt(NoCall, Migrations', receipts')
  BY <1>c DEF KnowsItsAttempt
<1>g. ASSUME NEW c \in Callers,
             NEW place \in {"idle", "insert", "backup", "record", "stage", "prepared", "guard",
                            "start", "adopt", "clean", "unlock"}
      PROVE  /\ [caller[c] EXCEPT !.at = place] \in Caller
             /\ [caller[c] EXCEPT !.at = place].at = place
             /\ [caller[c] EXCEPT !.at = place].seen # Damaged
             /\ [caller[c] EXCEPT !.at = place].attempt = Mine(c)
  BY <1>i DEF MigrationIInv, MigrationTypeOK, Caller, Mine, KnowsItsAttempt
(* A call goes to a place where it knows what it must know there.           *)
<1>h. ASSUME NEW c \in Callers,
             NEW place \in {"idle", "insert", "backup", "record", "stage", "prepared", "guard",
                            "start", "adopt", "clean", "unlock"},
             Goto(c, place), Migrations' = Migrations, receipts' = receipts,
             place \notin {"idle", "insert"} => Mine(c) \in Migrations,
             place \in {"clean", "unlock"} => Mine(c) \in receipts
      PROVE  \E call \in Caller : /\ caller' = [caller EXCEPT ![c] = call]
                                 /\ KnowsItsAttempt(call, Migrations', receipts')
  <2> DEFINE call == [caller[c] EXCEPT !.at = place]
  <2>1. caller' = [caller EXCEPT ![c] = call]
    BY <1>h, <1>i DEF Goto, MigrationTypeOK
  <2>2. /\ call \in Caller /\ call.at = place /\ call.seen # Damaged
        /\ call.attempt = Mine(c)
    BY <1>g
  <2> HIDE DEF call
  <2>3. KnowsItsAttempt(call, Migrations', receipts')
    BY <1>h, <2>2 DEF KnowsItsAttempt
  <2> QED
    BY <2>1, <2>2, <2>3
<1>p. \A c \in Callers :
         /\ caller[c] \in Caller /\ caller[c].seen # Damaged
         /\ caller[c].at \notin {"idle", "insert"} => Mine(c) \in Migrations
         /\ caller[c].at \in {"clean", "unlock"} => Mine(c) \in receipts
  BY <1>i DEF MigrationIInv, MigrationTypeOK, KnowsItsAttempt, Mine
<1>2. ASSUME NEW c \in Callers, Preflight(c)
      PROVE  MigrationIInv'
  <2>1. UNCHANGED <<live, migrations, lock, receipts, files>> /\ Goto(c, "insert")
    BY <1>2 DEF Preflight
  <2>2. \E call \in Caller : caller' = [caller EXCEPT ![c] = call] /\ KnowsItsAttempt(call, Migrations', receipts')
    BY <2>1, <1>h, <1>w
  <2> QED
    BY <2>1, <2>2, <1>1, <1>w, <1>k
<1>3. ASSUME NEW c \in Callers, InsertAttempt(c)
      PROVE  MigrationIInv'
  <2> DEFINE n == Len(migrations) + 1
             call == [[caller[c] EXCEPT !.at = "backup"] EXCEPT !.attempt = n]
  <2>1. /\ Len(migrations) < MaxMigrations /\ migrations' = Append(migrations, "PREPARING")
        /\ lock' = n /\ caller' = [caller EXCEPT ![c].at = "backup", ![c].attempt = n]
        /\ UNCHANGED <<live, receipts, files>>
    BY <1>3 DEF InsertAttempt
  <2>2. n \in 1 .. MaxMigrations /\ "PREPARING" \in MigrationStates
    BY <2>1, <1>i, <1>n DEF MigrationTypeOK, MigrationStates, OpenMigrations
  <2>3. call \in Caller /\ call.seen # Damaged /\ call.at = "backup" /\ call.attempt = n
    <3>1. n \in 0 .. MaxMigrations
      BY <2>2
    <3>2. caller[c] \in Caller /\ caller[c].seen # Damaged
      BY <1>p
    <3> HIDE DEF n
    <3> QED
      BY <3>1, <3>2 DEF Caller
  <2>4. caller' = [caller EXCEPT ![c] = call]
    BY <2>1, <1>i DEF MigrationTypeOK
  <2>5. /\ migrations' \in Seq(MigrationStates) /\ Len(migrations') = n
        /\ \A m \in Migrations : migrations'[m] = migrations[m]
        /\ migrations'[n] = "PREPARING" /\ Migrations' = Migrations \cup {n}
    BY <2>1, <2>2, <1>i, <1>m DEF MigrationTypeOK, Migrations
  <2>6. MigrationIsWhole'
    BY <2>1, <2>5, <1>i DEF MigrationIInv, MigrationIsWhole
  <2>7. Len(migrations') <= MaxMigrations /\ lock' \in 0 .. MaxMigrations /\ files' \subseteq File
    BY <2>1, <2>2, <2>5, <1>k, <1>n
  <2>8. KnowsItsAttempt(call, Migrations', receipts')
    <3> HIDE DEF call, n
    <3> QED
      BY <2>3, <2>5 DEF KnowsItsAttempt
  <2> HIDE DEF call, n
  <2> QED
    BY <2>1, <2>3, <2>4, <2>5, <2>6, <2>7, <2>8, <1>1, <1>k
(* Files are written, for an attempt that exists.                           *)
<1>4. ASSUME NEW c \in Callers, Backup(c) \/ StageCandidate(c)
      PROVE  MigrationIInv'
  <2>1. Mine(c) \in Migrations /\ Mine(c) \in 1 .. MaxMigrations
    BY <1>4, <1>p, <1>m DEF Backup, StageCandidate, At
  <2>2. files' \subseteq File
    BY <1>4, <2>1, <1>k DEF Backup, StageCandidate, File
  <2>3. /\ UNCHANGED <<live, migrations, lock, receipts>>
        /\ Goto(c, "record") \/ Goto(c, "prepared")
    BY <1>4 DEF Backup, StageCandidate
  <2>4. \E call \in Caller : caller' = [caller EXCEPT ![c] = call] /\ KnowsItsAttempt(call, Migrations', receipts')
    BY <2>1, <2>3, <1>h, <1>w
  <2> QED
    BY <2>2, <2>3, <2>4, <1>1, <1>w, <1>k
<1>5. ASSUME NEW c \in Callers, RecordBackup(c) \/ RecordPrepared(c) \/ StartAdoption(c) \/ CompleteCleanup(c)
      PROVE  MigrationIInv'
  <2>1. PICK state \in {"PREPARING", "PREPARED", "ADOPTING", "CLEANUP_COMPLETE"} :
           /\ Moves(Mine(c), state) /\ UNCHANGED <<live, lock, receipts, files>>
           /\ state = "CLEANUP_COMPLETE" => caller[c].at = "clean"
    BY <1>5 DEF RecordBackup, RecordPrepared, StartAdoption, CompleteCleanup, At
  <2>2. Mine(c) \in Migrations /\ (caller[c].at = "clean" => Mine(c) \in receipts)
    BY <1>5, <1>p DEF RecordBackup, RecordPrepared, StartAdoption, CompleteCleanup, At
  <2>3. state \in MigrationStates /\ migrations' = [migrations EXCEPT ![Mine(c)] = state]
    BY <2>1 DEF Moves, MigrationStates, OpenMigrations
  <2>4. state \in {"ADOPTED", "CLEANUP_COMPLETE"} => Mine(c) \in receipts
    BY <2>1, <2>2
  <2>5. /\ migrations' \in Seq(MigrationStates) /\ Len(migrations') = Len(migrations)
        /\ Migrations' = Migrations /\ MigrationIsWhole'
    BY <2>1, <2>3, <2>4, <1>i, AttemptMoves
  <2>6. \E call \in Caller : caller' = [caller EXCEPT ![c] = call] /\ KnowsItsAttempt(call, Migrations', receipts')
    <3>1. CASE RecordPrepared(c)
      BY <3>1, <1>a, <1>c DEF RecordPrepared, Return
    <3>2. CASE RecordBackup(c) \/ StartAdoption(c)
      <4>1. Goto(c, "stage") \/ Goto(c, "adopt")
        BY <3>2 DEF RecordBackup, StartAdoption
      <4> QED
        BY <4>1, <2>1, <2>2, <2>5, <1>h
    <3>3. CASE CompleteCleanup(c)
      <4>1. Goto(c, "unlock") /\ caller[c].at = "clean"
        BY <3>3 DEF CompleteCleanup, At
      <4> QED
        BY <4>1, <2>1, <2>2, <2>5, <1>h
    <3> QED
      BY <1>5, <3>1, <3>2, <3>3
  <2>7. Len(migrations') <= MaxMigrations
    BY <2>5, <1>i DEF MigrationTypeOK
  <2> QED
    BY <2>1, <2>5, <2>6, <2>7, <1>1, <1>k
<1>6. ASSUME NEW c \in Callers, NEW m \in Migrations, VerifyPrepared(c, m)
      PROVE  MigrationIInv'
  <2> DEFINE call == [NoCall EXCEPT !.at = "guard", !.attempt = m, !.seen = live.research]
  <2>1. UNCHANGED <<live, migrations, lock, receipts, files>> /\ caller' = [caller EXCEPT ![c] = call]
    BY <1>6 DEF VerifyPrepared
  <2>2. call \in Caller /\ call.seen # Damaged /\ call.at = "guard" /\ call.attempt = m
    <3>1. m \in 0 .. MaxMigrations /\ live.research \in 0 .. Damaged /\ live.research # Damaged
      BY <1>m, <1>i DEF MigrationIInv, MigrationTypeOK, LiveWorkspace
    <3> QED
      BY <3>1 DEF Caller, NoCall
  <2> HIDE DEF call
  <2>3. KnowsItsAttempt(call, Migrations', receipts')
    BY <2>1, <2>2, <1>w DEF KnowsItsAttempt
  <2> QED
    BY <2>1, <2>2, <2>3, <1>1, <1>w, <1>k
<1>7. ASSUME NEW c \in Callers, NEW m \in Migrations, BeginCleanup(c, m)
      PROVE  MigrationIInv'
  <2> DEFINE call == IF migrations[m] = "ADOPTED" THEN [NoCall EXCEPT !.at = "clean", !.attempt = m]
                     ELSE NoCall
  <2>1. /\ UNCHANGED <<live, migrations, lock, receipts>> /\ caller' = [caller EXCEPT ![c] = call]
        /\ files' \subseteq files /\ migrations[m] \in {"ADOPTED", "CLEANUP_COMPLETE"}
    BY <1>7 DEF BeginCleanup
  <2>2. m \in 0 .. MaxMigrations /\ m \in receipts
    BY <2>1, <1>m, <1>i DEF MigrationIInv, MigrationIsWhole
  <2>3. /\ call \in Caller /\ call.seen # Damaged
        /\ call.at = "idle" \/ call.attempt = m
    <3>1. [NoCall EXCEPT !.at = "clean", !.attempt = m] \in Caller
      BY <2>2, <1>c DEF Caller, NoCall
    <3> QED
      BY <3>1, <1>c DEF NoCall
  <2>5. KnowsItsAttempt(call, Migrations', receipts')
    <3> HIDE DEF call
    <3> QED
      BY <2>1, <2>2, <2>3, <1>w DEF KnowsItsAttempt
  <2>4. files' \subseteq File
    BY <2>1, <1>k
  <2> HIDE DEF call
  <2> QED
    BY <2>1, <2>3, <2>4, <2>5, <1>1, <1>w, <1>k
<1>8. ASSUME NEW c \in Callers, Unlock(c) \/ CallDies(c)
      PROVE  MigrationIInv'
  <2>1. /\ UNCHANGED <<live, migrations, receipts, files>> /\ caller' = [caller EXCEPT ![c] = NoCall]
        /\ lock' \in {0, lock}
    BY <1>8 DEF Unlock, CallDies, Return
  <2>2. lock' \in 0 .. MaxMigrations
    BY <2>1, <1>k, <1>n
  <2> QED
    BY <2>1, <2>2, <1>1, <1>w, <1>k, <1>c, <1>a
<1>9. ASSUME NEW c \in Callers, RaiseMigration(c)
      PROVE  MigrationIInv'
  <2>1. /\ UNCHANGED <<live, lock, receipts, files>> /\ caller' = [caller EXCEPT ![c] = NoCall]
        /\ \/ UNCHANGED migrations
           \/ migrations' = [migrations EXCEPT ![Mine(c)] = "RECOVERY_REQUIRED"]
    BY <1>9 DEF RaiseMigration, LeftForRecovery, Return
  <2>2. CASE UNCHANGED migrations
    BY <2>1, <2>2, <1>1, <1>w, <1>k, <1>c, <1>a
  <2>3. CASE migrations' = [migrations EXCEPT ![Mine(c)] = "RECOVERY_REQUIRED"]
    <3>1. "RECOVERY_REQUIRED" \in MigrationStates
      BY DEF MigrationStates, OpenMigrations
    <3>2. /\ migrations' \in Seq(MigrationStates) /\ Len(migrations') = Len(migrations)
          /\ Migrations' = Migrations /\ MigrationIsWhole'
      BY <2>1, <2>3, <3>1, <1>i, AttemptMoves
    <3> QED
      BY <2>1, <3>2, <1>1, <1>k, <1>c, <1>a, <1>i DEF MigrationTypeOK
  <2> QED
    BY <2>1, <2>2, <2>3
<1>13. ASSUME NEW c \in Callers, NEW m \in Migrations, AdoptionRefused(c, m)
       PROVE  MigrationIInv'
  <2>1. /\ UNCHANGED <<live, lock, receipts, files, caller>>
        /\ \/ UNCHANGED migrations
           \/ migrations' = [migrations EXCEPT ![m] = "RECOVERY_REQUIRED"]
    BY <1>13 DEF AdoptionRefused, LeftForRecovery
  <2>2. CASE UNCHANGED migrations
    BY <2>1, <2>2, <1>i
    DEF MigrationIInv, MigrationTypeOK, MigrationIsWhole, Migrations, KnowsItsAttempt
  <2>3. CASE migrations' = [migrations EXCEPT ![m] = "RECOVERY_REQUIRED"]
    <3>1. "RECOVERY_REQUIRED" \in MigrationStates
      BY DEF MigrationStates, OpenMigrations
    <3>2. /\ migrations' \in Seq(MigrationStates) /\ Len(migrations') = Len(migrations)
          /\ Migrations' = Migrations /\ MigrationIsWhole'
      BY <2>1, <2>3, <3>1, <1>i, AttemptMoves
    <3> QED
      BY <2>1, <3>2, <1>i DEF MigrationIInv, MigrationTypeOK, KnowsItsAttempt
  <2> QED
    BY <2>1, <2>2, <2>3
<1>10. ASSUME NEW c \in Callers, GuardAdoption(c)
       PROVE  MigrationIInv'
  <2> DEFINE call == [[caller[c] EXCEPT !.at = "start"] EXCEPT !.under = Under]
  <2>1. /\ UNCHANGED <<live, migrations, lock, receipts, files>>
        /\ caller' = [caller EXCEPT ![c].at = "start", ![c].under = Under]
    BY <1>10 DEF GuardAdoption
  <2>2. caller' = [caller EXCEPT ![c] = call]
    BY <2>1, <1>i DEF MigrationTypeOK
  <2>3. call \in Caller /\ call.seen # Damaged /\ call.at = "start" /\ call.attempt = Mine(c)
    <3>1. caller[c] \in Caller /\ caller[c].seen # Damaged
      BY <1>p
    <3>2. Under \in SUBSET Recorded
      <4>1. AttemptIds \subseteq 1 .. MaxActivations
        BY ReleasesAssumption DEF UpgradeIInv, ReleaseIInv, AttemptIds
      <4>2. Open \subseteq AttemptIds /\ ActiveAfterFailure \subseteq AttemptIds
        BY DEF Open, ActiveAfterFailure
      <4> QED
        BY <4>1, <4>2 DEF Under, Recorded
    <3> QED
      BY <3>1, <3>2 DEF Caller, Mine
  <2> HIDE DEF call
  <2>4. Mine(c) \in Migrations
    BY <1>10, <1>p DEF GuardAdoption, At
  <2>5. KnowsItsAttempt(call, Migrations', receipts')
    BY <2>1, <2>3, <2>4, <1>w DEF KnowsItsAttempt
  <2> QED
    BY <2>1, <2>2, <2>3, <2>5, <1>1, <1>w, <1>k
<1>11. ASSUME NEW c \in Callers, AdoptMigration(c)
       PROVE  MigrationIInv'
  <2> DEFINE m == Mine(c)
  <2>2. /\ live.schema = "old" /\ migrations[m] = "ADOPTING" /\ m \notin receipts
        /\ receipts' = receipts \cup {m} /\ migrations' = [migrations EXCEPT ![m] = "ADOPTED"]
        /\ caller' = [caller EXCEPT ![c] = NoCall] /\ UNCHANGED <<lock, files>>
    BY <1>11 DEF AdoptMigration, HasSourceSchema, IsAdopting, Return
  <2>4. live' \in LiveWorkspace /\ live'.research = live.research /\ live'.schema = "new"
    BY <1>11, <1>i, AdoptionKeepsResearch DEF MigrationTypeOK, LiveWorkspace
  <2>5. receipts = {}
    BY <2>2, <1>i DEF MigrationIInv, MigrationIsWhole
  <2>6. m \in Migrations
    BY <1>11, <1>p DEF AdoptMigration, At
  <2>7. /\ migrations' \in Seq(MigrationStates) /\ Len(migrations') = Len(migrations)
        /\ Migrations' = Migrations
        /\ \A n \in Migrations : migrations'[n] = IF n = m THEN "ADOPTED" ELSE migrations[n]
    <3>1. "ADOPTED" \in MigrationStates /\ migrations \in Seq(MigrationStates)
      BY <1>i DEF MigrationStates, MigrationTypeOK
    <3>2. migrations \in [1 .. Len(migrations) -> MigrationStates] /\ Len(migrations) \in Nat
      BY <3>1
    <3>3. migrations' \in [1 .. Len(migrations) -> MigrationStates]
      BY <2>2, <3>1, <3>2
    <3> QED
      BY <2>2, <3>2, <3>3 DEF Migrations
  <2>8. MigrationIsWhole'
    BY <2>2, <2>4, <2>5, <2>7, <1>i DEF MigrationIInv, MigrationIsWhole
  <2>9. MigrationTypeOK'
    BY <2>2, <2>4, <2>5, <2>6, <2>7, <1>i, <1>c DEF MigrationTypeOK
  <2>10. ASSUME NEW d \in Callers
         PROVE  KnowsItsAttempt(caller'[d], Migrations', receipts')
    <3>1. caller'[d] = IF d = c THEN NoCall ELSE caller[d]
      BY <2>2, <1>i DEF MigrationTypeOK
    <3> QED
      BY <3>1, <2>2, <2>7, <1>a, <1>i DEF MigrationIInv, KnowsItsAttempt
  <2> QED
    BY <2>4, <2>8, <2>9, <2>10, <1>i DEF MigrationIInv
<1>12. CASE ResearchCommit \/ WriteExecution \/ (\E f \in files : LoseFile(f))
  <2>1. UNCHANGED <<migrations, lock, receipts, caller>> /\ files' \subseteq files
    BY <1>12 DEF ResearchCommit, WriteExecution, LoseFile
  <2>2. live' \in LiveWorkspace /\ live'.research # Damaged /\ live'.schema = live.schema
    <3>1. live \in LiveWorkspace /\ live.research # Damaged /\ live.research \in Nat
      BY <1>i, <1>n DEF MigrationIInv, MigrationTypeOK, LiveWorkspace
    <3>2. CASE ResearchCommit
      BY <3>1, <3>2, <1>n DEF ResearchCommit, LiveWorkspace, Damaged
    <3>3. CASE WriteExecution
      BY <3>1, <3>3 DEF WriteExecution, LiveWorkspace
    <3>4. CASE \E f \in files : LoseFile(f)
      BY <3>1, <3>4 DEF LoseFile
    <3> QED
      BY <1>12, <3>2, <3>3, <3>4
  <2>3. MigrationTypeOK'
    BY <2>1, <2>2, <1>i DEF MigrationTypeOK, Migrations
  <2> QED
    BY <2>1, <2>2, <2>3, <1>i DEF MigrationIInv, MigrationIsWhole, Migrations, KnowsItsAttempt
<1> QED
  BY <1>2, <1>3, <1>4, <1>5, <1>6, <1>7, <1>8, <1>9, <1>10, <1>11, <1>12,
     <1>13
  DEF MigrationNext, CallerStep

LEMMA UpgradeStep ==
  ASSUME UpgradeIInv, [UpgradeNext]_UpgradeVars
  PROVE  UpgradeIInv'
<1>1. CASE MigrationNext
  BY <1>1, MigrationStep, MigrationKeepsReleases DEF UpgradeIInv
<1>2. CASE ReleaseNext /\ UNCHANGED migrationVars
  <2>1. MigrationIInv'
    BY <1>2 DEF UpgradeIInv, MigrationIInv, migrationVars, MigrationTypeOK, MigrationIsWhole,
                Migrations, KnowsItsAttempt
  <2> QED
    BY <1>2, <2>1, ReleaseStep DEF UpgradeIInv
<1>3. CASE UNCHANGED UpgradeVars
  BY <1>3 DEF UpgradeVars, releaseVars, controlVars, historyVars, migrationVars, UpgradeIInv,
              ReleaseIInv, Marked, Open, AttemptIds, MigrationIInv, MigrationTypeOK,
              MigrationIsWhole, Migrations, KnowsItsAttempt
<1> QED
  BY <1>1, <1>2, <1>3 DEF UpgradeNext

(* An attempt that was open when something irreversible was announced is     *)
(* never rolled back over it, also when what happens is the adoption of a   *)
(* migration, and however late it happens.  It is the recording that        *)
(* forbids the rollback: of an effect announced when the attempt had failed *)
(* already the theorem says nothing, and the code then forbids nothing (see *)
(* GuardedEffectsForbidRollback in ReleaseControl).                         *)
THEOREM EffectsAreNotUndoneHolds == UpgradeSpec => []EffectsAreNotUndone
<1>1. UpgradeIInv => EffectsAreNotUndone
  <2> SUFFICES ASSUME UpgradeIInv, NEW a \in undone
               PROVE  <<a, TRUE>> \notin effects /\ activations[a].state = "FAILED"
    BY DEF EffectsAreNotUndone
  <2>1. a \in Nat /\ a \notin Marked
    BY DEF UpgradeIInv, ReleaseIInv, AttemptIds
  <2> QED
    BY <2>1 DEF UpgradeIInv, ReleaseIInv, RecordedIn
<1> QED
  BY <1>1, UpgradeBegin, UpgradeStep, PTL DEF UpgradeSpec

(* The new schema and its receipt come together and once.                   *)
THEOREM MigrationIsWholeHolds == UpgradeSpec => []MigrationIsWhole
<1>1. UpgradeIInv => MigrationIsWhole
  BY DEF UpgradeIInv, MigrationIInv
<1> QED
  BY <1>1, UpgradeBegin, UpgradeStep, PTL DEF UpgradeSpec

(* A migration changes no research.                                         *)
THEOREM ResearchSurvivesAdoptionHolds == UpgradeSpec => ResearchSurvivesAdoption
<1>1. ASSUME UpgradeIInv, [UpgradeNext]_UpgradeVars, live'.schema # live.schema
      PROVE  live'.research = live.research
  <2>1. ASSUME UNCHANGED live PROVE FALSE
    BY <1>1, <2>1
  <2>2. ~(UNCHANGED UpgradeVars \/ UNCHANGED migrationVars)
    BY <2>1 DEF UpgradeVars, migrationVars
  <2>3. MigrationNext
    BY <1>1, <2>2 DEF UpgradeNext
  <2>4. CASE \E c \in Callers : AdoptMigration(c)
    BY <1>1, <2>4, AdoptionKeepsResearch DEF UpgradeIInv
  <2>5. CASE WriteExecution \/ ResearchCommit
    <3>1. live \in LiveWorkspace
      BY <1>1 DEF UpgradeIInv, MigrationIInv, MigrationTypeOK
    <3> QED
      BY <1>1, <2>5, <3>1 DEF WriteExecution, ResearchCommit, LiveWorkspace
  <2> QED
    BY <2>1, <2>3, <2>4, <2>5
    DEF MigrationNext, CallerStep, Preflight, InsertAttempt, Backup, RecordBackup,
        StageCandidate, RecordPrepared, StartAdoption, CompleteCleanup, Unlock, VerifyPrepared,
        AdoptionRefused, BeginCleanup, RaiseMigration, CallDies, GuardAdoption, LoseFile
<1>2. UpgradeIInv /\ [UpgradeNext]_UpgradeVars
         => [live'.schema # live.schema => live'.research = live.research]_live
  BY <1>1
<1> QED
  BY <1>2, UpgradeBegin, UpgradeStep, PTL DEF UpgradeSpec, ResearchSurvivesAdoption

-----------------------------------------------------------------------------
(* The gates.                                                              *)
(* A gate that was passed keeps the results it was passed on, and where the *)
(* candidate stands is what its gates make of it.                           *)
GatesIInv ==
    /\ GatesTypeOK
    /\ \A g \in DOMAIN decisions, c \in Cases :
          decisions[g] /\ CaseGate[c] = Gates[g] => FreshPass(c)
    /\ candidate # "REJECTED" =>
          /\ \A g \in DOMAIN decisions : decisions[g]
          /\ \A s \in Scenarios : acceptance[s] # "REJECT"
    /\ candidate = "READY_FOR_FOUNDER" => Len(decisions) = Len(Gates) - 1
    /\ candidate = "APPROVED_FOR_SIGNING" => Len(decisions) = Len(Gates)
    /\ signings # <<>> =>
          candidate = "APPROVED_FOR_SIGNING" /\ approval = CurrentEvidence

LEMMA GateSequence ==
  /\ Gates \in Seq(STRING) /\ Len(Gates) \in Nat /\ Len(Gates) > 1
  /\ \A c \in Cases : \E g \in 1 .. Len(Gates) : CaseGate[c] = Gates[g]
  /\ \A g, h \in 1 .. Len(Gates) : Gates[g] = Gates[h] => g = h
  /\ Gates[Len(Gates) - 1] = "G6" /\ Gates[Len(Gates)] = "G7"
BY GatesAssumption

LEMMA WhichGate ==
  ASSUME NEW g \in 1 .. Len(Gates)
  PROVE  /\ Gates[g] = "G7" => g = Len(Gates)
         /\ Gates[g] = "G6" => g = Len(Gates) - 1
<1>1. Len(Gates) \in 1 .. Len(Gates) /\ Len(Gates) - 1 \in 1 .. Len(Gates)
  BY GateSequence
<1> QED
  BY <1>1, GateSequence

LEMMA GatesBegin == GatesInit => GatesIInv
<1> SUFFICES ASSUME GatesInit PROVE GatesIInv
  OBVIOUS
<1>1. <<>> \in Seq(BOOLEAN) /\ <<>> \in Seq(SigningStates) /\ Len(<<>>) = 0
  OBVIOUS
<1>2. GatesTypeOK
  <2>1. NotApproved \in Evidence
    BY <1>1 DEF NotApproved, Evidence, Decisions
  <2> QED
    BY <1>1, <2>1, GateSequence DEF GatesInit, GatesTypeOK, CandidateStates, Decisions
<1> QED
  BY <1>1, <1>2 DEF GatesInit, GatesIInv

(* A result is added to a test whose gate was not decided.                  *)
LEMMA ResultAdded ==
  ASSUME GatesIInv, NEW case \in Cases, NEW outcome \in TestOutcomes,
         \A g \in DOMAIN decisions : Gates[g] # CaseGate[case],
         results' = [results EXCEPT ![case] = @ \cup {outcome}], UNCHANGED decisions
  PROVE  /\ results' \in [Cases -> SUBSET TestOutcomes]
         /\ \A g \in DOMAIN decisions, c \in Cases :
               decisions[g] /\ CaseGate[c] = Gates[g] => FreshPass(c)'
<1>1. results \in [Cases -> SUBSET TestOutcomes]
  BY DEF GatesIInv, GatesTypeOK
<1>2. \A c \in Cases : c # case => results'[c] = results[c]
  BY <1>1
<1> QED
  BY <1>1, <1>2 DEF GatesIInv, FreshPass

LEMMA GatesStep ==
  ASSUME GatesIInv, [GatesNext]_gateVars
  PROVE  GatesIInv'
<1>t. GatesTypeOK
  BY DEF GatesIInv
<1>d. decisions \in Seq(BOOLEAN) /\ Len(decisions) \in Nat /\ DOMAIN decisions = 1 .. Len(decisions)
  BY <1>t DEF GatesTypeOK
<1>s. candidate # "APPROVED_FOR_SIGNING" => signings = <<>>
  BY DEF GatesIInv
<1>1. ASSUME NEW case \in Cases, NEW outcome \in TestOutcomes, RecordResult(case, outcome)
      PROVE  GatesIInv'
  <2>1. /\ candidate \notin {"REJECTED", "APPROVED_FOR_SIGNING"}
        /\ \A g \in DOMAIN decisions : Gates[g] # CaseGate[case]
        /\ results' = [results EXCEPT ![case] = @ \cup {outcome}]
        /\ candidate' = IF candidate = "CREATED" THEN "TESTING" ELSE candidate
        /\ UNCHANGED <<decisions, acceptance, approval, signings>>
    BY <1>1 DEF RecordResult, Undecided, SigningUnchanged
  <2>2. /\ results' \in [Cases -> SUBSET TestOutcomes]
        /\ \A g \in DOMAIN decisions, c \in Cases :
              decisions[g] /\ CaseGate[c] = Gates[g] => FreshPass(c)'
    BY <2>1, ResultAdded
  <2>3. candidate' \in CandidateStates
    BY <2>1, <1>t DEF GatesTypeOK, CandidateStates
  <2> QED
    BY <2>1, <2>2, <2>3, <1>s, <1>t DEF GatesIInv, GatesTypeOK
<1>2. ASSUME NEW case \in Cases, NEW scenario \in Scenarios, NEW decision \in Decisions \ {"none"},
             RecordFounderAcceptance(case, scenario, decision)
      PROVE  GatesIInv'
  <2> DEFINE outcome == IF decision = "ACCEPT" THEN "PASSED" ELSE "not passed"
  <2>1. /\ candidate = "READY_FOR_FOUNDER" /\ CaseGate[case] = "G7"
        /\ acceptance' = [acceptance EXCEPT ![scenario] = decision]
        /\ results' = [results EXCEPT ![case] = @ \cup {outcome}]
        /\ candidate' = IF decision = "REJECT" THEN "REJECTED" ELSE candidate
        /\ UNCHANGED <<decisions, approval, signings>>
    BY <1>2 DEF RecordFounderAcceptance, SigningUnchanged
  <2>2. \A g \in DOMAIN decisions : Gates[g] # CaseGate[case]
    <3>1. Len(decisions) = Len(Gates) - 1
      BY <2>1 DEF GatesIInv
    <3>2. \A g \in 1 .. Len(Gates) : Gates[g] = "G7" => g = Len(Gates)
      BY WhichGate
    <3>3. \A g \in DOMAIN decisions : g \in 1 .. Len(Gates) /\ g # Len(Gates)
      BY <3>1, <1>d, GateSequence
    <3> QED
      BY <2>1, <3>2, <3>3
  <2>3. outcome \in TestOutcomes
    BY DEF TestOutcomes
  <2>4. /\ results' \in [Cases -> SUBSET TestOutcomes]
        /\ \A g \in DOMAIN decisions, c \in Cases :
              decisions[g] /\ CaseGate[c] = Gates[g] => FreshPass(c)'
    <3> HIDE DEF outcome
    <3> QED
      BY <2>1, <2>2, <2>3, ResultAdded
  <2>5. acceptance' \in [Scenarios -> Decisions] /\ candidate' \in CandidateStates
    BY <2>1, <1>t DEF GatesTypeOK, CandidateStates
  <2>6. candidate' # "REJECTED" => \A s \in Scenarios : acceptance'[s] # "REJECT"
    BY <2>1, <1>t DEF GatesIInv, GatesTypeOK
  <2>7. signings' = <<>>
    BY <2>1, <1>s
  <2>8. /\ candidate' # "REJECTED" => \A g \in DOMAIN decisions : decisions[g]
        /\ candidate' # "APPROVED_FOR_SIGNING"
        /\ candidate' = "READY_FOR_FOUNDER" => Len(decisions) = Len(Gates) - 1
    BY <2>1 DEF GatesIInv
  <2>9. GatesTypeOK'
    BY <2>1, <2>4, <2>5, <1>t DEF GatesTypeOK
  <2> QED
    BY <2>1, <2>4, <2>6, <2>7, <2>8, <2>9 DEF GatesIInv
<1>3. CASE EvaluateGate
  <2> DEFINE n == Len(decisions) + 1
             gate == Gates[n]
  <2>1. /\ candidate # "REJECTED" /\ Len(decisions) < Len(Gates)
        /\ decisions' = Append(decisions, Passes(gate))
        /\ candidate' = CASE ~Passes(gate) -> "REJECTED"
                         [] gate = "G6" /\ Passes(gate) -> "READY_FOR_FOUNDER"
                         [] gate = "G7" /\ Passes(gate) -> "APPROVED_FOR_SIGNING"
                         [] OTHER -> candidate
        /\ UNCHANGED <<results, acceptance, approval, signings>>
    BY <1>3 DEF EvaluateGate, SigningUnchanged
  <2>2. Passes(gate) \in BOOLEAN
    BY DEF Passes
  <2>3. /\ decisions' \in Seq(BOOLEAN) /\ Len(decisions') = n
        /\ DOMAIN decisions' = 1 .. n /\ decisions'[n] = Passes(gate)
        /\ \A g \in 1 .. Len(decisions) : decisions'[g] = decisions[g]
    <3> HIDE DEF gate
    <3> QED
      BY <2>1, <2>2, <1>d
  <2>4. \A g \in DOMAIN decisions', c \in Cases :
              decisions'[g] /\ CaseGate[c] = Gates[g] => FreshPass(c)'
    <3>1. ASSUME NEW c \in Cases, Passes(gate), CaseGate[c] = gate
          PROVE  FreshPass(c)
      BY <3>1 DEF Passes, CasesOf
    <3>2. \A c \in Cases : FreshPass(c)' = FreshPass(c)
      BY <2>1 DEF FreshPass
    <3> HIDE DEF gate
    <3> QED
      BY <2>3, <3>1, <3>2, <1>d DEF GatesIInv, gate
  <2>5. candidate # "APPROVED_FOR_SIGNING" /\ signings = <<>>
    BY <2>1, <1>s DEF GatesIInv
  <2>6. CASE ~Passes(gate)
    <3>1. candidate' = "REJECTED"
      BY <2>1, <2>6
    <3> QED
      BY <2>1, <2>3, <2>4, <2>5, <3>1, <1>t, <1>d, GateSequence
      DEF GatesIInv, GatesTypeOK, CandidateStates
  <2>7. CASE Passes(gate)
    <3>1. \A g \in DOMAIN decisions' : decisions'[g]
      BY <2>1, <2>3, <2>7, <1>d DEF GatesIInv
    <3>2. /\ candidate' \in CandidateStates \ {"REJECTED"}
          /\ candidate' = "READY_FOR_FOUNDER" => gate = "G6" \/ candidate = "READY_FOR_FOUNDER"
          /\ candidate' = "APPROVED_FOR_SIGNING" => gate = "G7"
          /\ gate = "G7" => candidate' = "APPROVED_FOR_SIGNING"
      BY <2>1, <2>5, <2>7, <1>t DEF GatesTypeOK, CandidateStates
    <3>3. /\ gate = "G6" => n = Len(Gates) - 1
          /\ gate = "G7" => n = Len(Gates)
          /\ n = Len(Gates) => gate = "G7"
      <4>1. n \in 1 .. Len(Gates)
        BY <2>1, <1>d, GateSequence
      <4> HIDE DEF n
      <4> QED
        BY <4>1, GateSequence, WhichGate
    <3>4. candidate = "READY_FOR_FOUNDER" => n = Len(Gates)
      BY <1>d, GateSequence DEF GatesIInv
    <3>5. GatesTypeOK'
      BY <2>1, <2>3, <3>2, <1>t, <1>d, GateSequence DEF GatesTypeOK
    <3> HIDE DEF gate, n
    <3>6. /\ candidate' = "READY_FOR_FOUNDER" => Len(decisions') = Len(Gates) - 1
          /\ candidate' = "APPROVED_FOR_SIGNING" => Len(decisions') = Len(Gates)
      BY <2>3, <3>2, <3>3, <3>4
    <3> QED
      BY <2>1, <2>4, <2>5, <3>1, <3>5, <3>6 DEF GatesIInv
  <2> QED
    BY <2>6, <2>7
<1>4. CASE Approve
  <2>1. /\ approval' = CurrentEvidence /\ candidate = "APPROVED_FOR_SIGNING"
        /\ UNCHANGED <<candidate, decisions, results, acceptance, signings>>
    BY <1>4 DEF Approve
  <2>2. CurrentEvidence \in Evidence /\ CurrentEvidence' = CurrentEvidence
    BY <2>1, <1>t DEF CurrentEvidence, Evidence, GatesTypeOK
  <2> QED
    BY <2>1, <2>2, <1>t DEF GatesIInv, GatesTypeOK, FreshPass
<1>5. CASE RequestSigning
  <2>1. /\ candidate = "APPROVED_FOR_SIGNING" /\ approval = CurrentEvidence
        /\ signings' = Append(signings, "REQUESTED")
        /\ UNCHANGED <<candidate, decisions, results, acceptance, approval>>
    BY <1>5 DEF RequestSigning
  <2>2. signings' \in Seq(SigningStates) /\ CurrentEvidence' = CurrentEvidence
    BY <2>1, <1>t DEF CurrentEvidence, GatesTypeOK, SigningStates
  <2> QED
    BY <2>1, <2>2, <1>t DEF GatesIInv, GatesTypeOK, FreshPass
<1>6. ASSUME NEW a \in DOMAIN signings, NEW state \in SigningStates, CompleteSigning(a, state)
      PROVE  GatesIInv'
  <2>1. /\ signings' = [signings EXCEPT ![a] = state]
        /\ UNCHANGED <<candidate, decisions, results, acceptance, approval>>
    BY <1>6 DEF CompleteSigning
  <2>2. signings \in Seq(SigningStates) /\ signings # <<>>
    BY <1>t DEF GatesTypeOK
  <2>3. signings' \in Seq(SigningStates) /\ CurrentEvidence' = CurrentEvidence
    BY <2>1, <2>2 DEF CurrentEvidence
  <2> QED
    BY <2>1, <2>2, <2>3, <1>t DEF GatesIInv, GatesTypeOK, FreshPass
<1>7. CASE UNCHANGED gateVars
  BY <1>7, <1>t DEF gateVars, GatesIInv, GatesTypeOK, FreshPass, CurrentEvidence
<1> QED
  BY <1>1, <1>2, <1>3, <1>4, <1>5, <1>6, <1>7 DEF GatesNext

(* What is approved passed every test, and what was signed is what passed.  *)
THEOREM ApprovedPassedEveryTestHolds == GatesSpec => []ApprovedPassedEveryTest
<1>1. ASSUME GatesIInv PROVE ApprovedPassedEveryTest
  <2>1. ASSUME candidate = "APPROVED_FOR_SIGNING", NEW c \in Cases
        PROVE  FreshPass(c)
    <3>1. Len(decisions) = Len(Gates) /\ DOMAIN decisions = 1 .. Len(decisions)
      BY <1>1, <2>1 DEF GatesIInv, GatesTypeOK
    <3>2. PICK g \in 1 .. Len(Gates) : CaseGate[c] = Gates[g]
      BY GateSequence
    <3> QED
      BY <1>1, <2>1, <3>1, <3>2 DEF GatesIInv
  <2> QED
    BY <1>1, <2>1 DEF GatesIInv, ApprovedPassedEveryTest
<1>2. GatesIInv => ApprovedPassedEveryTest
  BY <1>1
<1> QED
  BY <1>2, GatesBegin, GatesStep, PTL DEF GatesSpec

-----------------------------------------------------------------------------
(* The supervisor: the database of the process makes steps of TurnLane     *)
(* only, the runner drives the owner of the lane, and without faults       *)
(* nothing that can run is left without a loop.                            *)

(* The runner's steps are about the turn it drives.                         *)
LEMMA RunnerHasTurn ==
  ASSUME SupervisorIInv, loop \in {"preparing", "driving", "leaving"}
  PROVE  driving \in Turns
BY TurnsAssumption DEF SupervisorIInv, SupervisorTypeOK, RunIsPlaced

(* What a step of the process does to the turns is one transaction of       *)
(* TurnLane or nothing.                                                     *)
LEMMA SupervisorTurnStep ==
  ASSUME SupervisorIInv, [SupervisorNext]_supervisorVars
  PROVE  [Next]_vars
<1>1. CASE Commands
  <2>1. PICK t \in Turns : \/ \E m \in Modes : Submit(t, m)
                           \/ Answer(t) \/ Redeliver(t) \/ Pause(t) \/ BranchBegins(t)
    BY <1>1 DEF Commands
  <2>2. ASSUME NEW m \in Modes, SubmitMessage(t, m)
        PROVE  Next
    BY <2>2 DEF Next
  <2>3. CASE AnswerWaiting(t) \/ RequestPause(t)
    BY <2>3 DEF Next
  <2> QED
    BY <2>1, <2>2, <2>3 DEF Submit, Answer, Redeliver, Pause, BranchBegins, Modes
<1>2. CASE LoopStep
  <2>1. UNCHANGED vars \/ \E t \in Turns : ActivateNextQueuedTurn(t)
    BY <1>2 DEF LoopStep, Starts, PicksUpRunning, Rests, ActivateHead
  <2> QED
    BY <2>1 DEF Next
<1>3. CASE RunnerStep
  <2>1. driving \in Turns
    BY <1>3, RunnerHasTurn DEF RunnerStep, Prepares, PreparesInVain, DriverWaits, DriverStops,
         Returns, GuardWaits, GuardTerminates, DriverMayCommit
  <2>2. \/ UNCHANGED vars \/ NormalizeContract(driving) \/ OpenWaiting(driving)
        \/ \E unsafe \in BOOLEAN : StopGuardWaits(driving, unsafe)
        \/ \E outcome \in Outcomes : StopGuardTerminates(driving, outcome)
    BY <1>3 DEF RunnerStep, Prepares, PreparesInVain, DriverWaits, DriverStops, Returns,
         GuardWaits, GuardTerminates
  <2> QED
    BY <2>1, <2>2 DEF Next
<1>4. CASE BranchStep
  <2>1. UNCHANGED vars \/ (branching \in Turns /\ CompleteTurn(branching, "succeeded"))
    BY <1>4 DEF BranchStep, BranchCompletes, BranchFails, SupervisorIInv, SupervisorTypeOK
  <2> QED
    BY <2>1, BranchOutcomeAssumption DEF Next
<1>5. CASE Escapes \/ Crash \/ UNCHANGED supervisorVars
  BY <1>5 DEF Escapes, Crash, supervisorVars
<1> QED
  BY <1>1, <1>2, <1>3, <1>4, <1>5 DEF SupervisorNext

LEMMA SupervisorTypeStep ==
  ASSUME SupervisorIInv, [SupervisorNext]_supervisorVars
  PROVE  SupervisorTypeOK'
<1> USE DEF vars, loopVars, runnerVars, requestVars
<1>t. SupervisorTypeOK /\ TypeOK /\ TypeOK'
  BY SupervisorTurnStep, TypeStep DEF SupervisorIInv, IInv
<1> SUFFICES /\ loop' \in LoopStates /\ wake' \in BOOLEAN
             /\ driving' \in Turns \cup {NoTurn} /\ drivenRevision' \in Nat
             /\ branching' \in Turns \cup {NoTurn} /\ ranAtOnce' \subseteq Turns
  BY <1>t DEF SupervisorTypeOK
<1> USE DEF LoopStates, SupervisorTypeOK
<1>1. ASSUME NEW t \in Turns, Submit(t, "read") \/ Submit(t, "write")
                               \/ Answer(t) \/ Redeliver(t) \/ Pause(t) \/ BranchBegins(t)
      PROVE  /\ loop' \in LoopStates /\ wake' \in BOOLEAN
             /\ driving' \in Turns \cup {NoTurn} /\ drivenRevision' \in Nat
             /\ branching' \in Turns \cup {NoTurn} /\ ranAtOnce' \subseteq Turns
  <2>1. Dispatch \/ UNCHANGED loopVars
    BY <1>1 DEF Submit, Answer, Redeliver, Pause, BranchBegins
  <2>2. UNCHANGED runnerVars /\ branching' \in {branching, t, NoTurn}
    BY <1>1 DEF Submit, Answer, Redeliver, Pause, BranchBegins
  <2>3. ranAtOnce' \in {ranAtOnce, ranAtOnce \cup {t}}
    BY <1>1 DEF Submit, Answer, Redeliver, Pause, BranchBegins
  <2>4. loop' \in LoopStates /\ wake' \in BOOLEAN
    BY <1>t, <2>1 DEF Dispatch
  <2> QED
    BY <1>t, <2>2, <2>3, <2>4
<1>2. CASE LoopStep
  <2>1. ASSUME NEW t \in Turns, ActivateHead(t)
        PROVE  loop' \in LoopStates /\ driving' \in Turns /\ UNCHANGED <<wake, drivenRevision, requestVars>>
    BY <2>1 DEF ActivateHead
  <2>2. CASE Starts \/ Rests
    BY <1>t, <2>2 DEF Starts, Rests
  <2>3. CASE PicksUpRunning
    BY <1>t, <2>3 DEF PicksUpRunning, TypeOK
  <2> QED
    BY <1>2, <1>t, <2>1, <2>2, <2>3 DEF LoopStep
<1>3. CASE RunnerStep
  <2>1. CASE Prepares
    <3>1. revision'[driving] \in Nat
      BY <1>t, <2>1, RunnerHasTurn DEF Prepares, TypeOK
    <3> QED
      BY <1>t, <2>1, <3>1 DEF Prepares
  <2>2. CASE PreparesInVain \/ Returns
    BY <1>t, <2>2 DEF PreparesInVain, Returns
  <2>3. CASE Leaves
    BY <1>t, <2>3 DEF Leaves
  <2> QED
    BY <1>3, <2>1, <2>2, <2>3
       DEF RunnerStep, DriverWaits, DriverStops, GuardWaits, GuardTerminates
<1>4. CASE BranchStep
  BY <1>4, <1>t DEF BranchStep, BranchCompletes, BranchFails
<1>5. CASE Escapes \/ Crash \/ UNCHANGED supervisorVars
  BY <1>5, <1>t DEF Escapes, Crash, supervisorVars
<1> QED
  BY <1>1, <1>2, <1>3, <1>4, <1>5 DEF SupervisorNext, Commands, Modes

-----------------------------------------------------------------------------
(* What the steps of the turns do to a turn that is being driven.           *)

(* The mode of a turn that exists does not change, and it goes on existing. *)
LEMMA ModeStays ==
  ASSUME IInv, [Next]_vars, NEW t \in Turns, status[t] # "absent"
  PROVE  mode'[t] = mode[t] /\ status'[t] # "absent"
<1> USE DEF IInv, TypeOK
<1>1. ASSUME NEW s \in Turns, NEW m, NEW from, CreateTurn(s, m, from)
      PROVE  mode'[t] = mode[t] /\ status'[t] # "absent"
  BY <1>1 DEF CreateTurn
<1>2. ASSUME NEW s \in Turns,
             \/ ActivateNextQueuedTurn(s) \/ OpenWaiting(s) \/ AnswerWaiting(s) \/ RequestPause(s)
             \/ \E active \in BOOLEAN : ConvergePause(s, active)
             \/ \E outcome \in Outcomes : CompleteTurn(s, outcome)
             \/ \E unsafe \in BOOLEAN : StopGuardWaits(s, unsafe)
             \/ \E outcome \in Outcomes : StopGuardTerminates(s, outcome)
             \/ RecoverOperation(s) \/ NormalizeContract(s)
      PROVE  mode'[t] = mode[t] /\ status'[t] # "absent"
  <2>1. UNCHANGED mode
    BY <1>2 DEF ActivateNextQueuedTurn, OpenWaiting, AnswerWaiting, RequestPause, ConvergePause,
         CompleteTurn, StopGuardWaits, StopGuardTerminates, RecoverOperation, NormalizeContract,
         identityVars
  <2>2. UNCHANGED status \/ \E v \in Statuses \ {"absent"} : status' = [status EXCEPT ![s] = v]
    BY <1>2, OutcomesInTerminal DEF ActivateNextQueuedTurn, OpenWaiting, AnswerWaiting,
         RequestPause, ConvergePause, CompleteTurn, StopGuardWaits, StopGuardTerminates,
         RecoverOperation, NormalizeContract, Statuses, Live, Terminal
  <2> QED
    BY <2>1, <2>2
<1>3. CASE UNCHANGED vars
  BY <1>3 DEF vars
<1> QED
  BY <1>1, <1>2, <1>3 DEF Next, SubmitMessage, ContinuePausedTurn

(* A message that is submitted neither disturbs a running owner of the lane *)
(* nor takes the lane from it.                                              *)
LEMMA SubmissionKeepsOwner ==
  ASSUME IInv, NEW t \in Turns, NEW m \in Modes, SubmitMessage(t, m), lane # NoTurn
  PROVE  lane' = lane /\ status'[lane] = status[lane]
BY DEF IInv, TypeOK, LaneOwnership, SubmitMessage, CreateTurn, laneVars, Live

(* A write turn that runs at once found the lane free, and has it.          *)
LEMMA SubmissionTakesLane ==
  ASSUME IInv, NEW t \in Turns, SubmitMessage(t, "write"), status'[t] = "running"
  PROVE  lane = NoTurn /\ lane' = t
BY DEF IInv, TypeOK, SubmitMessage, CreateTurn, TakeLane

(* The turn that is driven, before and after a step that keeps driving it.  *)
LEMMA DrivenStaysWriter ==
  ASSUME SupervisorIInv, [SupervisorNext]_supervisorVars, driving' = driving
  PROVE  driving # NoTurn => mode'[driving] = "write" /\ status'[driving] # "absent"
BY SupervisorTurnStep, ModeStays, TurnsAssumption
   DEF SupervisorIInv, SupervisorTypeOK, RunIsPlaced

LEMMA RunIsPlacedStep ==
  ASSUME SupervisorIInv, [SupervisorNext]_supervisorVars
  PROVE  RunIsPlaced' /\ DriverOwnsLane'
<1> USE DEF loopVars, runnerVars, requestVars
<1>i. IInv /\ IInv' /\ TypeOK /\ LaneOwnership /\ LaneOwnership' /\ SupervisorTypeOK /\ SupervisorTypeOK'
  BY SupervisorTurnStep, IInvStep, SupervisorTypeStep DEF SupervisorIInv, IInv
<1>p. /\ loop \in {"preparing", "driving", "leaving"} <=> driving # NoTurn
      /\ driving # NoTurn => mode[driving] = "write" /\ status[driving] # "absent"
      /\ branching # NoTurn => lane = branching /\ status[branching] = "running"
      /\ loop \in {"draining", "preparing", "driving"} => branching = NoTurn
      /\ loop \in {"preparing", "driving"} => driving = lane /\ status[lane] = "running"
      /\ driving' = driving /\ driving # NoTurn => mode'[driving] = "write" /\ status'[driving] # "absent"
  BY DrivenStaysWriter DEF SupervisorIInv, RunIsPlaced, DriverOwnsLane
<1>1. SUFFICES
        /\ loop' \in {"preparing", "driving", "leaving"} <=> driving' # NoTurn
        /\ driving' # NoTurn => mode'[driving'] = "write" /\ status'[driving'] # "absent"
        /\ branching' # NoTurn => lane' = branching' /\ status'[branching'] = "running"
        /\ loop' \in {"draining", "preparing", "driving"} => branching' = NoTurn
        /\ loop' \in {"preparing", "driving"} => driving' = lane' /\ status'[lane'] = "running"
  <2>1. ASSUME driving' # NoTurn, mode'[driving'] = "write", status'[driving'] \in Live
        PROVE  driving' = lane'
    BY <1>i, <2>1 DEF LaneOwnership, SupervisorTypeOK
  <2> QED
    BY <2>1 DEF RunIsPlaced, DriverOwnsLane
<1> DEFINE Goal ==
        /\ loop' \in {"preparing", "driving", "leaving"} <=> driving' # NoTurn
        /\ driving' # NoTurn => mode'[driving'] = "write" /\ status'[driving'] # "absent"
        /\ branching' # NoTurn => lane' = branching' /\ status'[branching'] = "running"
        /\ loop' \in {"draining", "preparing", "driving"} => branching' = NoTurn
        /\ loop' \in {"preparing", "driving"} => driving' = lane' /\ status'[lane'] = "running"
<1>2. ASSUME NEW t \in Turns, NEW m \in Modes, Submit(t, m)
      PROVE  Goal
  <2>1. /\ loop \in {"none", "scheduled", "driving", "leaving"} /\ branching = NoTurn
        /\ loop' = loop \/ (loop = "none" /\ loop' = "scheduled")
        /\ UNCHANGED <<driving, branching>> /\ SubmitMessage(t, m)
    BY <1>2 DEF Submit, Yielded, Dispatch
  <2>2. loop = "driving" => lane # NoTurn
    BY <1>p
  <2> QED
    BY <1>i, <1>p, <2>1, <2>2, SubmissionKeepsOwner
<1>3. ASSUME NEW t \in Turns, Answer(t) \/ Redeliver(t) \/ Pause(t)
      PROVE  Goal
  <2>1. /\ loop \in {"none", "scheduled", "driving", "leaving"} /\ branching = NoTurn
        /\ loop' = loop \/ (loop = "none" /\ loop' = "scheduled")
        /\ UNCHANGED <<driving, branching>>
    BY <1>3 DEF Answer, Redeliver, Pause, Yielded, Dispatch
  <2>2. lane' = lane /\ (status' = status \/ status' = [status EXCEPT ![t] = "running"])
    BY <1>3 DEF Answer, Redeliver, Pause, AnswerWaiting, RequestPause, laneVars, vars
  <2>3. loop = "driving" => status'[lane] = "running"
    BY <1>i, <1>p, <2>2 DEF TypeOK
  <2> QED
    BY <1>p, <2>1, <2>2, <2>3
<1>4. ASSUME NEW t \in Turns, BranchBegins(t)
      PROVE  Goal
  <2>1. /\ loop \in {"none", "scheduled", "driving", "leaving"}
        /\ loop' = loop /\ driving' = driving /\ SubmitMessage(t, "write")
        /\ branching' = IF status'[t] = "running" THEN t ELSE NoTurn
    BY <1>4 DEF BranchBegins, Yielded
  <2>2. loop = "driving" => lane # NoTurn
    BY <1>p
  <2>3. loop = "driving" => lane' = lane /\ status'[lane] = status[lane] /\ branching' = NoTurn
    BY <1>i, <2>1, <2>2, SubmissionKeepsOwner, SubmissionTakesLane DEF Modes
  <2>4. branching' # NoTurn => lane' = branching' /\ status'[branching'] = "running"
    BY <1>i, <2>1, SubmissionTakesLane
  <2> QED
    BY <1>p, <2>1, <2>3, <2>4
<1>5. ASSUME NEW t \in Turns, ActivateHead(t)
      PROVE  Goal
  BY <1>5, <1>i, TurnsAssumption DEF ActivateHead, LoopRuns, ActivateNextQueuedTurn, TakeLane, identityVars,
     Queued, TypeOK
<1>6. CASE Starts \/ Rests
  BY <1>6, <1>p DEF Starts, Rests, LoopRuns
<1>7. CASE PicksUpRunning
  BY <1>7, <1>i DEF PicksUpRunning, LoopRuns, vars, TypeOK, LaneOwnership, Live
<1>8. CASE Prepares
  BY <1>8, <1>p DEF Prepares, LoopRuns, NormalizeContract, laneVars
<1>9. CASE PreparesInVain \/ Returns
  BY <1>9 DEF PreparesInVain, Returns, LoopRuns
<1>10. CASE RunnerStep /\ Leaves
  BY <1>10, <1>p DEF RunnerStep, Prepares, PreparesInVain, Returns, DriverWaits, DriverStops,
     GuardWaits, GuardTerminates, DriverMayCommit, Leaves, LoopRuns
<1>11. CASE BranchStep
  BY <1>11, <1>p DEF BranchStep, BranchCompletes, BranchFails
<1>12. CASE Escapes \/ Crash
  BY <1>12, <1>p DEF Escapes, Crash, LoopRuns
<1>13. CASE UNCHANGED supervisorVars
  BY <1>13, <1>p DEF supervisorVars, vars
<1>14. RunnerStep => Prepares \/ PreparesInVain \/ Returns \/ (RunnerStep /\ Leaves)
  BY DEF RunnerStep, DriverWaits, DriverStops, GuardWaits, GuardTerminates
<1> QED
  BY <1>2, <1>3, <1>4, <1>5, <1>6, <1>7, <1>8, <1>9, <1>10, <1>11, <1>12, <1>13, <1>14
     DEF SupervisorNext, Commands, LoopStep

-----------------------------------------------------------------------------
(* Nothing runnable is forgotten.                                           *)

LaneRests == IF lane = NoTurn THEN Queued = {} ELSE status[lane] # "running"

(* Without a loop there is nothing to do but what a branch handler does.    *)
LEMMA QueueStep ==
  ASSUME SupervisorIInv, Faults = {}, QueueIsAttended, [SupervisorNext]_supervisorVars
  PROVE  QueueIsAttended'
<1> USE DEF loopVars, runnerVars, requestVars
<1>i. IInv /\ IInv' /\ TypeOK /\ LaneOwnership /\ RunIsPlaced
  BY SupervisorTurnStep, IInvStep DEF SupervisorIInv, IInv
<1>q. /\ loop # "none" \/ branching # NoTurn \/ LaneRests
      /\ loop = "none" /\ branching # NoTurn => Queued = {}
  BY DEF QueueIsAttended, RunnableIsAttended, LaneRests
<1> SUFFICES ASSUME loop' = "none"
             PROVE  (branching' # NoTurn \/ LaneRests') /\ (branching' # NoTurn => Queued' = {})
  BY DEF QueueIsAttended, RunnableIsAttended, LaneRests
<1>1. ASSUME NEW t \in Turns, NEW m \in Modes, Submit(t, m)
      PROVE  branching' = NoTurn /\ LaneRests'
  <2>1. /\ SubmitMessage(t, m) /\ status'[t] # "running" /\ loop' = loop
        /\ branching = NoTurn /\ branching' = NoTurn
    BY <1>1 DEF Submit, Yielded, Dispatch
  <2>2. lane # NoTurn
    BY <1>i, <2>1 DEF SubmitMessage, CreateTurn, TypeOK
  <2>3. lane' = lane /\ status'[lane] = status[lane]
    BY <1>i, <2>1, <2>2, SubmissionKeepsOwner
  <2> QED
    BY <1>q, <2>1, <2>2, <2>3 DEF LaneRests
<1>2. ASSUME NEW t \in Turns, Answer(t) \/ Redeliver(t)
      PROVE  FALSE
  BY <1>2 DEF Answer, Redeliver, Dispatch
<1>3. ASSUME NEW t \in Turns, Pause(t)
      PROVE  branching' = NoTurn /\ LaneRests'
  BY <1>3, <1>q DEF Pause, Yielded, RequestPause, identityVars, laneVars, LaneRests, Queued
<1>4. ASSUME NEW t \in Turns, BranchBegins(t)
      PROVE  (branching' # NoTurn \/ LaneRests') /\ (branching' # NoTurn => Queued' = {})
  <2>1. /\ SubmitMessage(t, "write") /\ loop = "none" /\ branching = NoTurn
        /\ branching' = IF status'[t] = "running" THEN t ELSE NoTurn
    BY <1>4 DEF BranchBegins, Yielded
  <2>2. CASE status'[t] = "running"
    <3>1. Queued = {}
      BY <1>i, <1>q, <2>1, <2>2, SubmissionTakesLane DEF LaneRests
    <3>2. Queued' = {}
      BY <1>i, <2>1, <2>2, <3>1 DEF SubmitMessage, CreateTurn, Queued, TypeOK
    <3> QED
      BY <2>1, <2>2, <3>2, TurnsAssumption
  <2>3. CASE status'[t] # "running"
    <3>1. lane # NoTurn
      BY <1>i, <2>1, <2>3 DEF SubmitMessage, CreateTurn, TypeOK
    <3>2. lane' = lane /\ status'[lane] = status[lane]
      BY <1>i, <2>1, <3>1, SubmissionKeepsOwner DEF Modes
    <3> QED
      BY <1>q, <2>1, <2>3, <3>1, <3>2 DEF LaneRests
  <2> QED
    BY <2>2, <2>3
<1>5. CASE LoopStep \/ RunnerStep
  <2>1. Rests
    BY <1>5 DEF LoopStep, Starts, ActivateHead, PicksUpRunning, RunnerStep, Prepares,
       PreparesInVain, DriverWaits, DriverStops, Returns, GuardWaits, GuardTerminates, Leaves
  <2>2. branching' = NoTurn /\ LaneRests /\ UNCHANGED vars
    BY <2>1 DEF Rests, LoopRuns, LaneRests
  <2> QED
    BY <2>2 DEF LaneRests, Queued, vars
<1>6. CASE BranchStep
  <2>1. /\ CompleteTurn(branching, "succeeded") /\ branching \in Turns /\ branching # NoTurn
        /\ branching' = NoTurn /\ loop = "none" /\ lane = branching
    BY <1>6, <1>i DEF BranchStep, BranchCompletes, BranchFails, RunIsPlaced, SupervisorIInv,
       SupervisorTypeOK
  <2>2. Queued = {} /\ mode[branching] = "write"
    BY <1>i, <1>q, <2>1 DEF LaneOwnership
  <2>3. lane' = NoTurn /\ Queued' = {}
    BY <1>i, <2>1, <2>2 DEF CompleteTurn, ReleaseLane, identityVars, Queued, TypeOK
  <2> QED
    BY <2>1, <2>3 DEF LaneRests
<1>7. CASE UNCHANGED supervisorVars
  BY <1>7, <1>q DEF supervisorVars, vars, LaneRests, Queued
<1>8. ~Escapes /\ ~Crash
  BY DEF Escapes, Crash
<1> QED
  BY <1>1, <1>2, <1>3, <1>4, <1>5, <1>6, <1>7, <1>8 DEF SupervisorNext, Commands

-----------------------------------------------------------------------------
LEMMA SupervisorInductive == SupervisorSpec => []SupervisorIInv
<1>1. SupervisorInit => SupervisorIInv
  <2> SUFFICES ASSUME SupervisorInit PROVE SupervisorIInv
    OBVIOUS
  <2>1. IInv /\ TypeOK
    BY IInvInit DEF SupervisorInit, IInv
  <2>2. SupervisorTypeOK
    BY <2>1 DEF SupervisorInit, SupervisorTypeOK, LoopStates
  <2>3. RunIsPlaced /\ DriverOwnsLane
    BY DEF SupervisorInit, RunIsPlaced, DriverOwnsLane
  <2> QED
    BY <2>1, <2>2, <2>3 DEF SupervisorIInv
<1>2. SupervisorIInv /\ [SupervisorNext]_supervisorVars => SupervisorIInv'
  BY SupervisorTurnStep, IInvStep, SupervisorTypeStep, RunIsPlacedStep DEF SupervisorIInv
<1> QED
  BY <1>1, <1>2, PTL DEF SupervisorSpec

(* Every variable of the process keeps its type.                            *)
THEOREM SupervisorTypeCorrect == SupervisorSpec => []SupervisorTypeOK
BY SupervisorInductive, PTL DEF SupervisorIInv

(* The runner drives the owner of the write lane and nobody else, crashes,  *)
(* escaping exceptions and failing branch commands included.                *)
THEOREM DriverOwnsLaneHolds == SupervisorSpec => []DriverOwnsLane
BY SupervisorInductive, PTL DEF SupervisorIInv

(* Whatever the handlers, the loop, the runner and the faults do, the       *)
(* database only makes steps of TurnLane.                                   *)
THEOREM SupervisorRefinesTurnLane == SupervisorSpec => ImplementsTurnLane
<1>1. SupervisorInit => Init
  BY DEF SupervisorInit
<1>2. SupervisorIInv /\ [SupervisorNext]_supervisorVars => [Next]_vars
  BY SupervisorTurnStep
<1> QED
  BY <1>1, <1>2, SupervisorInductive, PTL DEF SupervisorSpec, ImplementsTurnLane, Spec

(* Without faults no wake is lost: as long as a turn could run there is a   *)
(* loop or a branch handler that will see it.                               *)
THEOREM RunnableIsAttendedHolds ==
  ASSUME Faults = {}
  PROVE  SupervisorSpec => []RunnableIsAttended
<1>1. SupervisorInit => QueueIsAttended
  BY DEF SupervisorInit, Init, QueueIsAttended, RunnableIsAttended, Queued
<1>2. SupervisorIInv /\ QueueIsAttended /\ [SupervisorNext]_supervisorVars => QueueIsAttended'
  BY QueueStep
<1>3. QueueIsAttended => RunnableIsAttended
  BY DEF QueueIsAttended
<1> QED
  BY <1>1, <1>2, <1>3, SupervisorInductive, PTL DEF SupervisorSpec
=============================================================================
