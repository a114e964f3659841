--------------------------- MODULE ReleaseControl ---------------------------
(***************************************************************************)
(* The installed releases of the product, the one that is active and the    *)
(* attempts to activate another (persistence/release_control_store.py,      *)
(* application/release_activation_service.py).  A failed attempt can be     *)
(* rolled back as long as the ledger knows of nothing under it that cannot  *)
(* be undone: the guard announces such effects before they happen, to the   *)
(* attempt that is open; with none open the effect goes ahead unrecorded.   *)
(*                                                                         *)
(* Every operation of the store is one transaction.  The service makes      *)
(* several of them, with the probe of the candidate or the verification of  *)
(* files between; the process may end there.                                *)
(*                                                                         *)
(* The second part is the way of one release candidate through the gates to *)
(* the founder's acceptance and to its signature (GatesSpec).               *)
(***************************************************************************)
EXTENDS Naturals, Sequences

CONSTANTS
    Releases,        \* identities of releases
    NoRelease,
    MaxActivations   \* bound of the model: activation attempts

ASSUME ReleasesAssumption == NoRelease \notin Releases /\ MaxActivations \in Nat

VARIABLES
    release,      \* releases: the state of each
    pointer,      \* release_pointers
    activations,  \* release_activation_attempts and the states they had
    intact,       \* releases whose directory verifies
    undoing,      \* rollbacks under way: attempt, whether files verified
    acting,       \* effects that were announced and not done yet: see Under
    effects,      \* history: the attempts under which an effect took place
    undone        \* history: attempts that were rolled back

controlVars == <<release, pointer, activations>>
historyVars == <<effects, undone>>
releaseVars == <<controlVars, intact, undoing, acting, historyVars>>

ReleaseStates == {"unknown", "PENDING_ACTIVATION", "ACTIVE", "RETIRED",
                  "ACTIVATION_FAILED"}
Pointer == [active : Releases \cup {NoRelease}, pending : Releases \cup {NoRelease}]
OpenStates == {"PROBING", "STARTING_SAFE", "ACTIVE_REVERSIBLE", "IRREVERSIBLE"}
AttemptStates == OpenStates \cup {"SUCCEEDED", "FAILED"}
Eligibilities == {"VERIFIED_REVERSIBLE", "FORBIDDEN_IRREVERSIBLE", "UNKNOWN"}
Activation == [candidate : Releases, previous : Releases \cup {NoRelease},
               state : AttemptStates, eligibility : Eligibilities,
               past : SUBSET AttemptStates]
Undoing == (1 .. MaxActivations) \X BOOLEAN
Recorded == (1 .. MaxActivations) \X BOOLEAN  \* an attempt, whether it is marked

ReleaseInit ==
    /\ release = [r \in Releases |-> "unknown"]
    /\ pointer = [active |-> NoRelease, pending |-> NoRelease]
    /\ activations = <<>>
    /\ intact = Releases
    /\ undoing = {} /\ acting = {} /\ effects = {} /\ undone = {}

AttemptIds == DOMAIN activations
Open == {a \in AttemptIds : activations[a].state \in OpenStates}

(* The transition of an attempt, which its history keeps.                   *)
Transition(a, state, eligibility) ==
    activations' = [activations EXCEPT ![a].state = state,
                                       ![a].eligibility = eligibility,
                                       ![a].past = @ \cup {state}]
Becomes(a, state) == Transition(a, state, activations[a].eligibility)

ControlOnly == UNCHANGED <<intact, undoing, acting, historyVars>>

-----------------------------------------------------------------------------
(* Activation.                                                              *)

(* stage: a verified release becomes the pending one, known or not.         *)
Stage(r) ==
    /\ r \in intact
    /\ release' = [release EXCEPT ![r] = IF @ = "unknown" THEN "PENDING_ACTIVATION" ELSE @]
    /\ pointer' = [pointer EXCEPT !.pending = r]
    /\ UNCHANGED activations /\ ControlOnly

BeginAttempt(r) ==
    /\ Len(activations) < MaxActivations
    /\ release[r] = "PENDING_ACTIVATION" /\ pointer.pending = r
    /\ Open = {}
    /\ activations' = Append(activations,
           [candidate |-> r, previous |-> pointer.active, state |-> "PROBING",
            eligibility |-> IF pointer.active = NoRelease THEN "UNKNOWN"
                            ELSE "VERIFIED_REVERSIBLE",
            past |-> {"PROBING"}])
    /\ UNCHANGED <<release, pointer>> /\ ControlOnly

(* Mutant: the pointer moves when the attempt begins to be probed.          *)
ActivatedUnprobed(a) == activations[a].state = "PROBING" /\ UNCHANGED activations
ProbePassed(a) == activations[a].state = "PROBING" /\ Becomes(a, "STARTING_SAFE")

(* The probe passed: the candidate is what starts from now on.              *)
MarkStartingSafe(a) ==
    /\ ProbePassed(a)
    /\ pointer' = [active |-> activations[a].candidate, pending |-> NoRelease]
    /\ UNCHANGED release /\ ControlOnly

MarkActiveReversible(a) ==
    /\ activations[a].state = "STARTING_SAFE"
    /\ Becomes(a, "ACTIVE_REVERSIBLE")
    /\ UNCHANGED <<release, pointer>> /\ ControlOnly

Succeed(a) ==
    /\ activations[a].state \in {"STARTING_SAFE", "ACTIVE_REVERSIBLE"}
    /\ Becomes(a, "SUCCEEDED")
    /\ release' = [r \in Releases |->
                      CASE r = activations[a].previous -> "RETIRED"
                        [] r = activations[a].candidate -> "ACTIVE"
                        [] OTHER -> release[r]]
    /\ UNCHANGED pointer /\ ControlOnly

(* The probe failed, or the candidate did later.                            *)
Fail(a) ==
    /\ a \in Open
    /\ Becomes(a, "FAILED")
    /\ UNCHANGED <<release, pointer>> /\ ControlOnly

-----------------------------------------------------------------------------
(* Effects that cannot be undone: provider dispatches, handoffs of tools,   *)
(* adopted migrations, authoritative writes.                                *)

(* Mutant: an attempt that is irreversible keeps its eligibility.           *)
AnnouncedOnly(a) == UNCHANGED activations
Forbidden(a) == Transition(a, "IRREVERSIBLE", "FORBIDDEN_IRREVERSIBLE")

(* mark_current_irreversible: the attempt that is open, if there is one.    *)
Announce ==
    IF Open = {} THEN UNCHANGED activations
    ELSE \E a \in Open : Forbidden(a)

(* Failed attempts whose candidate is nevertheless the active release.       *)
ActiveAfterFailure ==
    {a \in AttemptIds : /\ activations[a].state = "FAILED"
                      /\ activations[a].candidate = pointer.active
                      /\ "STARTING_SAFE" \in activations[a].past
                      /\ a \notin undone}

(* What an effect takes place under: the open attempt, which is marked, and  *)
(* a failed one whose candidate acts, which is not.                         *)
Under == (Open \X {TRUE}) \cup (ActiveAfterFailure \X {FALSE})

(* The guard lets the effect go ahead, recorded or not; then it happens.     *)
AnnounceEffect ==
    /\ Announce
    /\ acting' = acting \cup ({Under} \ {{}})
    /\ UNCHANGED <<release, pointer, intact, undoing, historyVars>>

TakeEffect(under) ==
    /\ under \in acting
    /\ acting' = acting \ {under}
    /\ effects' = effects \cup under
    /\ UNCHANGED <<controlVars, intact, undoing, undone>>

-----------------------------------------------------------------------------
(* Rolling back: the service verifies the files of the previous release,    *)
(* then the store decides.                                                  *)

VerifyPrevious(a) ==
    /\ undoing' = undoing \cup {<<a, activations[a].previous \in intact>>}
    /\ UNCHANGED <<controlVars, intact, acting, historyVars>>

(* Mutant: only the state of the attempt counts.                            *)
AnyFailure(a) == activations[a].state = "FAILED" /\ activations[a].previous # NoRelease
ProvablyReversible(a) ==
    /\ activations[a].state = "FAILED"
    /\ activations[a].eligibility = "VERIFIED_REVERSIBLE"
    /\ activations[a].previous # NoRelease
    /\ activations[a].past \cap {"IRREVERSIBLE", "SUCCEEDED"} = {}

Rollback(a) ==
    /\ <<a, TRUE>> \in undoing
    /\ ProvablyReversible(a)
    /\ pointer' = [active |-> activations[a].previous, pending |-> NoRelease]
    /\ release' = [release EXCEPT ![activations[a].candidate] = "ACTIVATION_FAILED",
                                  ![activations[a].previous] = "ACTIVE"]
    /\ undoing' = undoing \ {<<a, TRUE>>}
    /\ undone' = undone \cup {a}
    /\ UNCHANGED <<activations, intact, acting, effects>>

RefuseRollback(u) ==
    /\ u \in undoing /\ ~(u[2] /\ ProvablyReversible(u[1]))
    /\ undoing' = undoing \ {u}
    /\ UNCHANGED <<controlVars, intact, acting, historyVars>>

(* The files of a release are damaged; a process that was rolling back or   *)
(* about to act ends.                                                       *)
Damage(r) ==
    /\ r \in intact
    /\ intact' = intact \ {r}
    /\ UNCHANGED <<controlVars, undoing, acting, historyVars>>

ProcessEnds ==
    /\ undoing # {} \/ acting # {}
    /\ undoing' = {} /\ acting' = {}
    /\ UNCHANGED <<controlVars, intact, historyVars>>

ReleaseNext ==
    \/ \E r \in Releases : Stage(r) \/ BeginAttempt(r) \/ Damage(r)
    \/ \E a \in AttemptIds :
          \/ MarkStartingSafe(a) \/ MarkActiveReversible(a) \/ Succeed(a) \/ Fail(a)
          \/ VerifyPrevious(a) \/ Rollback(a)
    \/ AnnounceEffect
    \/ \E under \in acting : TakeEffect(under)
    \/ \E u \in undoing : RefuseRollback(u)
    \/ ProcessEnds

-----------------------------------------------------------------------------
ReleaseTypeOK ==
    /\ release \in [Releases -> ReleaseStates]
    /\ pointer \in Pointer
    /\ activations \in Seq(Activation) /\ Len(activations) <= MaxActivations
    /\ intact \subseteq Releases
    /\ undoing \subseteq Undoing
    /\ acting \subseteq SUBSET Recorded /\ effects \subseteq Recorded
    /\ undone \subseteq AttemptIds

(* An attempt that was open when an irreversible effect was announced is     *)
(* never rolled back, however late the effect takes place and whatever       *)
(* becomes of the attempt in between; neither is one that succeeded.         *)
(* (Effects announced when it had failed already are another matter, see     *)
(* GuardedEffectsForbidRollback.)                                           *)
EffectsAreNotUndone ==
    \A a \in undone : <<a, TRUE>> \notin effects /\ activations[a].state = "FAILED"

(* Violated by the code: "any guarded side effect persists irreversibility   *)
(* and forbids rollback" (tests/integration/test_release_activation.py:102). *)
(* A guarded effect of a candidate that failed and is still the active       *)
(* release is not recorded, and the attempt can be rolled back over it.      *)
GuardedEffectsForbidRollback ==
    \A a \in undone, recorded \in BOOLEAN : <<a, recorded>> \notin effects

(* What starts as the product passed its probe in some attempt.             *)
ActiveWasProbed ==
    pointer.active # NoRelease =>
        \E a \in AttemptIds : /\ activations[a].candidate = pointer.active
                            /\ "STARTING_SAFE" \in activations[a].past

(* To be checked, no run does: a rollback undoes the last activation.  The  *)
(* failed attempt stays eligible when another release was activated since.  *)
RollbackIsOfTheLast ==
    [][\A a \in AttemptIds : a \in undone' \ undone => a = Len(activations)]_releaseVars

-----------------------------------------------------------------------------
(* The gates: persistence/release_candidate_store.py,                       *)
(* persistence/release_signing_store.py, interfaces/                        *)
(* gated_release_signing.py.  Results of tests are only ever added; a gate  *)
(* is decided once, from the results that are there.                        *)

CONSTANTS
    Gates,       \* the gates in order, the last two are "G6" and "G7"
    Cases,       \* the frozen set of applicable tests
    CaseGate,    \* the gate of each of them
    Scenarios,   \* scenarios the founder goes through
    MaxSignings  \* bound of the model: signing attempts

ASSUME GatesAssumption ==
    /\ Gates \in Seq(STRING) /\ \A g, h \in DOMAIN Gates : Gates[g] = Gates[h] => g = h
    /\ Len(Gates) > 1 /\ Gates[Len(Gates) - 1] = "G6" /\ Gates[Len(Gates)] = "G7"
    /\ CaseGate \in [Cases -> {Gates[g] : g \in 1 .. Len(Gates)}]
    /\ MaxSignings \in Nat

VARIABLES
    candidate,   \* release_candidate_states
    decisions,   \* release_gate_decisions: whether each gate passed, in order
    results,     \* release_test_results: what there is for each case
    acceptance,  \* founder_acceptance_receipts: the decision on each scenario
    approval,    \* approved_release_candidates: the evidence it was given for
    signings     \* release_signing_attempts: the state of each

gateVars == <<candidate, decisions, results, acceptance, approval, signings>>

CandidateStates == {"CREATED", "TESTING", "READY_FOR_FOUNDER",
                    "APPROVED_FOR_SIGNING", "REJECTED"}
(* A result with another fingerprint than the case's is a stale one.        *)
TestOutcomes == {"PASSED", "not passed", "stale"}
Decisions == {"none", "ACCEPT", "REJECT"}
Evidence == [results : [Cases -> SUBSET TestOutcomes], decisions : Seq(BOOLEAN),
             acceptance : [Scenarios -> Decisions]]
NotApproved == [results |-> [c \in Cases |-> {}], decisions |-> <<>>,
                acceptance |-> [s \in Scenarios |-> "none"]]
SigningStates == {"REQUESTED", "COMPLETED", "FAILED", "OUTCOME_UNKNOWN"}

GatesInit ==
    /\ candidate = "CREATED"
    /\ decisions = <<>>
    /\ results = [c \in Cases |-> {}]
    /\ acceptance = [s \in Scenarios |-> "none"]
    /\ approval = NotApproved
    /\ signings = <<>>

SigningUnchanged == UNCHANGED <<approval, signings>>

-----------------------------------------------------------------------------
(* Results, each of which is one transaction.                               *)

(* Mutant: a gate that was decided goes on taking results.                  *)
AnyGate(case) == TRUE
Undecided(case) == \A g \in DOMAIN decisions : Gates[g] # CaseGate[case]

RecordResult(case, outcome) ==
    /\ candidate \notin {"REJECTED", "APPROVED_FOR_SIGNING"}
    /\ Undecided(case)
    /\ results' = [results EXCEPT ![case] = @ \cup {outcome}]
    /\ candidate' = IF candidate = "CREATED" THEN "TESTING" ELSE candidate
    /\ UNCHANGED <<decisions, acceptance>> /\ SigningUnchanged

(* A receipt of the founder is a result of the case it names.               *)
RecordFounderAcceptance(case, scenario, decision) ==
    /\ candidate = "READY_FOR_FOUNDER" /\ CaseGate[case] = "G7"
    /\ acceptance[scenario] = "none"
    /\ acceptance' = [acceptance EXCEPT ![scenario] = decision]
    /\ results' = [results EXCEPT
           ![case] = @ \cup {IF decision = "ACCEPT" THEN "PASSED" ELSE "not passed"}]
    /\ candidate' = IF decision = "REJECT" THEN "REJECTED" ELSE candidate
    /\ UNCHANGED decisions /\ SigningUnchanged

-----------------------------------------------------------------------------
(* Gates are evaluated in order; a gate without cases fails.                *)

FreshPass(case) == "PASSED" \in results[case] /\ "not passed" \notin results[case]
CasesOf(gate) == {c \in Cases : CaseGate[c] = gate}
Passes(gate) == CasesOf(gate) # {} /\ \A c \in CasesOf(gate) : FreshPass(c)

EvaluateGate ==
    /\ candidate # "REJECTED" /\ Len(decisions) < Len(Gates)
    /\ LET gate == Gates[Len(decisions) + 1] IN
       /\ decisions' = Append(decisions, Passes(gate))
       /\ candidate' = CASE ~Passes(gate) -> "REJECTED"
                         [] gate = "G6" /\ Passes(gate) -> "READY_FOR_FOUNDER"
                         [] gate = "G7" /\ Passes(gate) -> "APPROVED_FOR_SIGNING"
                         [] OTHER -> candidate
    /\ UNCHANGED <<results, acceptance>> /\ SigningUnchanged

-----------------------------------------------------------------------------
(* Signing.  request_signing approves and requests, in two transactions.    *)

CurrentEvidence == [results |-> results, decisions |-> decisions, acceptance |-> acceptance]

Approve ==
    /\ candidate = "APPROVED_FOR_SIGNING" /\ approval = NotApproved
    /\ approval' = CurrentEvidence
    /\ UNCHANGED <<candidate, decisions, results, acceptance, signings>>

(* Known evidence only, and no attempt whose outcome is open.               *)
RequestSigning ==
    /\ candidate = "APPROVED_FOR_SIGNING" /\ approval = CurrentEvidence
    /\ \A a \in DOMAIN signings : signings[a] \notin {"REQUESTED", "OUTCOME_UNKNOWN"}
    /\ Len(signings) < MaxSignings
    /\ signings' = Append(signings, "REQUESTED")
    /\ UNCHANGED <<candidate, decisions, results, acceptance, approval>>

CompleteSigning(a, state) ==
    /\ signings[a] = "REQUESTED"
    /\ signings' = [signings EXCEPT ![a] = state]
    /\ UNCHANGED <<candidate, decisions, results, acceptance, approval>>

GatesNext ==
    \/ \E c \in Cases :
          \/ \E o \in TestOutcomes : RecordResult(c, o)
          \/ \E s \in Scenarios, d \in Decisions \ {"none"} : RecordFounderAcceptance(c, s, d)
    \/ EvaluateGate
    \/ Approve \/ RequestSigning
    \/ \E a \in DOMAIN signings, s \in SigningStates \ {"REQUESTED"} : CompleteSigning(a, s)

GatesSpec == GatesInit /\ [][GatesNext]_gateVars

-----------------------------------------------------------------------------
GatesTypeOK ==
    /\ candidate \in CandidateStates
    /\ decisions \in Seq(BOOLEAN) /\ Len(decisions) <= Len(Gates)
    /\ results \in [Cases -> SUBSET TestOutcomes]
    /\ acceptance \in [Scenarios -> Decisions]
    /\ approval \in Evidence
    /\ signings \in Seq(SigningStates)

(* What is approved passed every test of the frozen set and has no result   *)
(* against it, from a test or from the founder, and what was signed is what *)
(* passed: nothing came after the evidence it was approved for.             *)
ApprovedPassedEveryTest ==
    /\ candidate = "APPROVED_FOR_SIGNING" =>
          /\ \A c \in Cases : FreshPass(c)
          /\ \A s \in Scenarios : acceptance[s] # "REJECT"
    /\ signings # <<>> => approval = CurrentEvidence

(* To be checked, no run does: what is approved was accepted by the founder. *)
(* A result of a test of G7 can be recorded without a receipt.              *)
ApprovedByTheFounder ==
    candidate = "APPROVED_FOR_SIGNING" => \E s \in Scenarios : acceptance[s] = "ACCEPT"
=============================================================================
