-------------------------------- MODULE Skills --------------------------------
(***************************************************************************)
(* The evolution of one specialised skill: candidates the memory curator    *)
(* proposes (persistence/skill_evolution_store.py), changes an evaluation   *)
(* proposes (skill_evaluation_store.py, skill_change_store.py), the version *)
(* the workspace has adopted, and the file that installs it                 *)
(* (workspace_skill_publisher.py).                                          *)
(*                                                                         *)
(* A command prepares a plan, publishes the file and then finalizes the     *)
(* ledger: three steps without a lock between them, and nothing is undone   *)
(* when the last one is refused.  A version is named by the candidate its   *)
(* content comes from: each candidate becomes one version at most.          *)
(***************************************************************************)
EXTENDS Memory

CONSTANTS
    Candidates,    \* evolution candidates of the skill
    Changes,       \* change candidates of the skill
    MaxRequests    \* bound of the model: commands under way at once

ASSUME SkillsAssumption == Candidates \cap Changes = {} /\ MaxRequests \in Nat

VARIABLES
    evolution,   \* skill_evolution_candidates and their current states
    change,      \* skill_change_candidates and their current states
    adoption,    \* skill_adoptions: the row of the skill
    versions,    \* skill_versions
    judged,      \* versions with an evaluation under way
    proposals,   \* versions with a revise or merge proposal
    installed,   \* the content of skills/<name>/SKILL.md
    archived,    \* <<kind, target>> whose command kept a copy in the history
    publishing   \* plans of the commands under way

skillLedger == <<evolution, change, adoption, versions, judged, proposals>>
skillFiles == <<installed, archived>>
skillVars == <<skillLedger, skillFiles, publishing>>

Versions == Candidates \cup Changes
Decisions == {"absent", "proposed", "approved", "activated", "rejected"}
Kinds == {"evolution", "change", "rollback", "deactivate"}
Sources == Items \X (1 .. MaxRevisions)

Evolution == [decision : Decisions, pointer : Nat, sources : SUBSET Sources]
Change == [decision : Decisions, pointer : Nat, base : Versions \cup {None}]
Adoption == [status : {"absent", "active", "deactivated"},
             current : Versions \cup {None}, pointer : Nat]
Plan == [kind : Kinds, target : Versions, pointer : Nat,
         base : Versions \cup {None}, adoption : Nat, published : BOOLEAN]

SkillsInit ==
    /\ evolution = [c \in Candidates |->
                       [decision |-> "absent", pointer |-> 0, sources |-> {}]]
    /\ change = [k \in Changes |->
                    [decision |-> "absent", pointer |-> 0, base |-> None]]
    /\ adoption = [status |-> "absent", current |-> None, pointer |-> 0]
    /\ versions = {} /\ judged = {} /\ proposals = {}
    /\ installed = None /\ archived = {} /\ publishing = {}

-----------------------------------------------------------------------------
(* What a candidate of the curator rests on.                                *)

CurrentSource(s) ==
    /\ memory[s[1]].lifecycle = "active"
    /\ memory[s[1]].number = s[2]
    /\ memory[s[1]].tier # "archived"
    /\ memory[s[1]].successor = None

SourcesAreCurrent(c) ==
    /\ Cardinality(evolution[c].sources) >= 2
    /\ \A s \in evolution[c].sources : CurrentSource(s)

(* The curator names two active items or more; whether they are archived or *)
(* superseded is looked at when the user approves.                          *)
Proposed(c, items) ==
    IF /\ evolution[c].decision = "absent"
       /\ Cardinality(items) >= 2
       /\ \A i \in items : memory[i].lifecycle = "active"
    THEN [evolution EXCEPT ![c] =
             [decision |-> "proposed", pointer |-> 1,
              sources |-> {<<i, memory[i].number>> : i \in items}]]
    ELSE evolution

-----------------------------------------------------------------------------
(* Plans.                                                                   *)

NewPlan(kind, target, pointer, base) ==
    publishing' = publishing \cup
        {[kind |-> kind, target |-> target, pointer |-> pointer, base |-> base,
          adoption |-> adoption.pointer, published |-> FALSE]}

HasRoom == Cardinality(publishing) < MaxRequests

(* A candidate that was approved before is published again without a commit.*)
Approve(c) ==
    /\ HasRoom
    /\ SourcesAreCurrent(c)
    /\ \/ /\ evolution[c].decision = "proposed"
          /\ Commit
          /\ evolution' = [evolution EXCEPT ![c].decision = "approved",
                                            ![c].pointer = @ + 1]
          /\ NewPlan("evolution", c, evolution[c].pointer + 1, None)
       \/ /\ evolution[c].decision = "approved"
          /\ NewPlan("evolution", c, evolution[c].pointer, None)
          /\ UNCHANGED <<revision, evolution>>
    /\ UNCHANGED <<change, adoption, versions, judged, proposals, skillFiles>>

RejectEvolution(c) ==
    /\ evolution[c].decision = "proposed"
    /\ Commit
    /\ evolution' = [evolution EXCEPT ![c].decision = "rejected",
                                      ![c].pointer = @ + 1]
    /\ UNCHANGED <<change, adoption, versions, judged, proposals, skillFiles,
                   publishing>>

(* prepare, and finalize or mark_failed, of an evaluation of a version: the *)
(* provider is asked in between.                                            *)
Evaluate(v) ==
    /\ v \in versions \ judged
    /\ Commit
    /\ judged' = judged \cup {v}
    /\ UNCHANGED <<evolution, change, adoption, versions, proposals, skillFiles,
                   publishing>>

Judge(v) ==
    /\ v \in judged
    /\ Commit
    /\ judged' = judged \ {v}
    /\ proposals' \in {proposals, proposals \cup {v}}
    /\ UNCHANGED <<evolution, change, adoption, versions, skillFiles, publishing>>

IsCurrent(v) == adoption.status = "active" /\ adoption.current = v

Materialize(k, v) ==
    /\ v \in proposals /\ change[k].decision = "absent"
    /\ IsCurrent(v)
    /\ Commit
    /\ change' = [change EXCEPT ![k] =
                     [decision |-> "proposed", pointer |-> 1, base |-> v]]
    /\ UNCHANGED <<evolution, adoption, versions, judged, proposals, skillFiles,
                   publishing>>

PrepareChange(k) ==
    /\ HasRoom
    /\ change[k].decision = "proposed"
    /\ IsCurrent(change[k].base)
    /\ NewPlan("change", k, change[k].pointer, change[k].base)
    /\ UNCHANGED <<revision, skillLedger, skillFiles>>

RejectChange(k) ==
    /\ change[k].decision = "proposed"
    /\ Commit
    /\ change' = [change EXCEPT ![k].decision = "rejected", ![k].pointer = @ + 1]
    /\ UNCHANGED <<evolution, adoption, versions, judged, proposals, skillFiles,
                   publishing>>

PrepareRollback(v) ==
    /\ HasRoom
    /\ v \in versions /\ ~IsCurrent(v)
    /\ NewPlan("rollback", v, 0, None)
    /\ UNCHANGED <<revision, skillLedger, skillFiles>>

PrepareDeactivation ==
    /\ HasRoom
    /\ adoption.status = "active"
    /\ NewPlan("deactivate", adoption.current, 0, None)
    /\ UNCHANGED <<revision, skillLedger, skillFiles>>

-----------------------------------------------------------------------------
(* The publisher.  A file that is already what the plan wants is accepted   *)
(* from a command that is repeated, by the copy it kept the first time.     *)

MayPublish(p) ==
    CASE p.kind \in {"evolution", "rollback"} -> TRUE
      [] p.kind = "change" ->
            \/ installed = p.base
            \/ installed = p.target /\ <<p.kind, p.target>> \in archived
      [] OTHER ->
            \/ installed = p.target
            \/ installed = None /\ <<p.kind, p.target>> \in archived

Publish(p) ==
    /\ ~p.published
    /\ MayPublish(p)
    /\ installed' = IF p.kind = "deactivate" THEN None ELSE p.target
    /\ archived' = IF p.kind \in {"change", "deactivate"}
                   THEN archived \cup {<<p.kind, p.target>>} ELSE archived
    /\ publishing' = (publishing \ {p}) \cup {[p EXCEPT !.published = TRUE]}
    /\ UNCHANGED <<revision, skillLedger>>

-----------------------------------------------------------------------------
(* The last transaction of a plan.                                          *)

Adopt(v) == adoption' = [status |-> "active", current |-> v,
                         pointer |-> adoption.pointer + 1]

ActivatesEvolution(p) ==
    /\ p.kind = "evolution"
    /\ evolution[p.target].decision = "approved"
    /\ evolution[p.target].pointer = p.pointer
    /\ SourcesAreCurrent(p.target)

FinalizeEvolution(p) ==
    /\ ActivatesEvolution(p)
    /\ evolution' = [evolution EXCEPT ![p.target].decision = "activated",
                                      ![p.target].pointer = @ + 1]
    /\ versions' = versions \cup {p.target}
    /\ Adopt(p.target)
    /\ UNCHANGED change

(* Mutant: what was prepared is carried out.                                *)
ActivatesPrepared(p) ==
    /\ p.kind = "change"
    /\ IsCurrent(p.base) /\ adoption.pointer = p.adoption

ActivatesChange(p) ==
    /\ p.kind = "change"
    /\ change[p.target].decision = "proposed"
    /\ change[p.target].pointer = p.pointer
    /\ IsCurrent(p.base) /\ adoption.pointer = p.adoption

FinalizeChange(p) ==
    /\ ActivatesChange(p)
    /\ change' = [change EXCEPT ![p.target].decision = "activated",
                                ![p.target].pointer = @ + 1]
    /\ versions' = versions \cup {p.target}
    /\ Adopt(p.target)
    /\ UNCHANGED evolution

FinalizeRollback(p) ==
    /\ p.kind = "rollback"
    /\ adoption.pointer = p.adoption
    /\ Adopt(p.target)
    /\ UNCHANGED <<evolution, change, versions>>

FinalizeDeactivation(p) ==
    /\ p.kind = "deactivate"
    /\ IsCurrent(p.target) /\ adoption.pointer = p.adoption
    /\ adoption' = [status |-> "deactivated", current |-> None,
                    pointer |-> adoption.pointer + 1]
    /\ UNCHANGED <<evolution, change, versions>>

Finalize(p) ==
    /\ p.published
    /\ Commit
    /\ \/ FinalizeEvolution(p)
       \/ FinalizeChange(p)
       \/ FinalizeRollback(p)
       \/ FinalizeDeactivation(p)
    /\ publishing' = publishing \ {p}
    /\ UNCHANGED <<judged, proposals, skillFiles>>

(* The publisher or the last transaction refuses, or the process dies: the  *)
(* file stays as it is.                                                     *)
Abandon(p) ==
    /\ publishing' = publishing \ {p}
    /\ UNCHANGED <<revision, skillLedger, skillFiles>>

SkillStep ==
    /\ \/ \E c \in Candidates : Approve(c) \/ RejectEvolution(c)
       \/ \E v \in Versions : Evaluate(v) \/ Judge(v) \/ PrepareRollback(v)
       \/ \E k \in Changes : PrepareChange(k) \/ RejectChange(k)
       \/ \E k \in Changes, v \in Versions : Materialize(k, v)
       \/ PrepareDeactivation
       \/ \E p \in publishing : Publish(p) \/ Finalize(p) \/ Abandon(p)
    /\ UNCHANGED <<memory, catalog, view, payload, edits>>

-----------------------------------------------------------------------------
SkillsTypeOK ==
    /\ evolution \in [Candidates -> Evolution]
    /\ change \in [Changes -> Change]
    /\ adoption \in Adoption
    /\ versions \subseteq Versions
    /\ judged \subseteq versions /\ proposals \subseteq versions
    /\ installed \in Versions \cup {None}
    /\ archived \subseteq Kinds \X Versions
    /\ publishing \subseteq Plan

(* What a user decided about a candidate stays decided: a command that was  *)
(* prepared before a rejection, a rollback or another activation, and whose *)
(* file may have been published already, takes no effect on it any more     *)
(* (skill_change_store.py and skill_evolution_store.py finalize_activation, *)
(* reject).                                                                 *)
SkillDecisionsAreFinal ==
    [][/\ \A k \in Changes :
            change[k].decision \in {"activated", "rejected"}
            => change'[k].decision = change[k].decision
       /\ \A c \in Candidates :
            evolution[c].decision \in {"activated", "rejected"}
            => evolution'[c].decision = evolution[c].decision]_
      <<revision, memory, skillVars>>
=============================================================================
