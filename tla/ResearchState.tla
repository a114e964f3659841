---------------------------- MODULE ResearchState ----------------------------
(***************************************************************************)
(* The research paths of a Workspace and what each has adopted: a plan, a   *)
(* data version, a result, a working and a delivered document.  An adoption *)
(* is a slot with a target and a pointer revision, and every command that   *)
(* moves a slot names the pointer it read                                   *)
(* (persistence/research_state_store.py, runtime/plan_coordinator.py).      *)
(*                                                                         *)
(* A turn runs one tool at a time.  It can end while its runner is still    *)
(* inside a call: the call then goes on beside the calls of the next turn,  *)
(* until a transaction asks for its turn.                                   *)
(***************************************************************************)
EXTENDS Naturals, Sequences

CONSTANTS
    Paths,      \* identities of research paths
    Main,       \* the path a Workspace starts with
    Contents,   \* what a plan proposal can say, up to its semantic digest
    None,       \* NULL
    MaxTurns,   \* bound of the model: turns that start
    MaxPlans    \* bound of the model: plan revisions

ASSUME ResearchAssumption ==
    Main \in Paths /\ None \notin Paths /\ MaxTurns \in Nat /\ MaxPlans \in Nat

VARIABLES
    turn,       \* the write turn that runs: its number, and its path or None
    call,       \* what the runner of a turn is in the middle of
    paths,      \* research_paths
    studies,    \* the canonical keys of plans, each the path it was made for
    plans,      \* plan_revisions
    planned,    \* path_plan_adoption_history: the plans a path adopted
    slot,       \* path_*_adoptions, by path and slot
    undisturbed \* no command was committed since the branch request's own

turnVars == <<turn, paths, studies, plans, planned, slot>>

Slots == {"plan", "data", "result", "working", "delivery"}
Numbers == 1 .. MaxTurns
Turn == [number : 0 .. MaxTurns, path : paths \cup {None}]
Keys == Paths   \* the canonical key of a plan is made of its path's
PlanRevision == [text : Contents, parent : Nat \cup {None}]
Adoption(targets) == [target : targets \cup {None}, pointer : Nat]
PlanAdoption == Adoption(DOMAIN plans)
Idle == [step |-> "idle"]
Empty == [target |-> None, pointer |-> 0]

ResearchInit ==
    /\ turn = [number |-> 0, path |-> None]
    /\ call = [n \in Numbers |-> Idle]
    /\ paths = {Main}
    /\ studies = {}
    /\ plans = <<>>
    /\ planned = [p \in Paths |-> {}]
    /\ slot = [p \in Paths |-> [s \in Slots |-> Empty]]
    /\ undisturbed = FALSE

-----------------------------------------------------------------------------
(* Turns and the calls of their runners.                                    *)

Running(n) == turn.number = n /\ turn.path # None
Bound(n) == Running(n) /\ turn.path = call[n].path
Free(n) == Running(n) /\ call[n] = Idle
Continue(n, c) == call' = [call EXCEPT ![n] = c]
Committed == undisturbed' = FALSE

Adopted(p, s, target) ==
    [slot[p] EXCEPT ![s] = [target |-> target, pointer |-> @.pointer + 1]]

Started(p) ==
    /\ turn.path = None
    /\ p \in paths
    /\ turn.number < MaxTurns
    /\ turn' = [number |-> turn.number + 1, path |-> p]
    /\ UNCHANGED <<paths, studies, plans, planned, slot>>

StartTurn(p) == Started(p) /\ Committed /\ UNCHANGED call

Ended ==
    /\ turn' = [turn EXCEPT !.path = None]
    /\ UNCHANGED <<paths, studies, plans, planned, slot>>

(* The turn completes, is stopped or fails; its runner is not asked.        *)
EndTurn == turn.path # None /\ Ended /\ Committed /\ UNCHANGED call

(* The process dies and recovery ends the turn.                             *)
Crash ==
    /\ turn.path # None \/ \E n \in Numbers : call[n] # Idle
    /\ Ended
    /\ Committed
    /\ call' = [n \in Numbers |-> Idle]

(* A call raises: a tool fails, or a transaction refuses and is rolled back.*)
Fail(n) ==
    /\ call[n] # Idle
    /\ Continue(n, Idle)
    /\ UNCHANGED <<turnVars, undisturbed>>

(* A command of another part of the Workspace commits.                      *)
OtherCommand ==
    /\ undisturbed
    /\ Committed
    /\ UNCHANGED <<turnVars, call>>

-----------------------------------------------------------------------------
(* The plan coordinator creates a revision and then adopts it: two commits. *)

(* A proposal that says what the current plan says changes nothing.         *)
CommitProposal(n, text) ==
    LET current == slot[turn.path]["plan"]
    IN  /\ Free(n)
        /\ current.target # None => plans[current.target].text # text
        /\ Continue(n, [step |-> "create", path |-> turn.path, text |-> text,
                        parent |-> current.target, pointer |-> current.pointer])
        /\ UNCHANGED <<turnVars, undisturbed>>

(* A first revision makes the plan, under a key that is taken once; a later *)
(* one extends the plan of its parent.                                      *)
CreatePlanRevision(n) ==
    LET c == call[n]
    IN  /\ c.step = "create"
        /\ Running(n)
        /\ Len(plans) < MaxPlans
        /\ IF c.parent = None
           THEN c.path \notin studies /\ studies' = studies \cup {c.path}
           ELSE UNCHANGED studies
        /\ plans' = Append(plans, [text |-> c.text, parent |-> c.parent])
        /\ Continue(n, [step |-> "adoptPlan", path |-> c.path, pointer |-> c.pointer,
                        target |-> Len(plans) + 1])
        /\ Committed
        /\ UNCHANGED <<turn, paths, planned, slot>>

AdoptPlanRevision(n) ==
    LET c == call[n]
    IN  /\ c.step = "adoptPlan"
        /\ Bound(n)
        /\ slot[c.path]["plan"].pointer = c.pointer
        /\ slot' = [slot EXCEPT ![c.path] = Adopted(c.path, "plan", c.target)]
        /\ planned' = [planned EXCEPT ![c.path] = @ \cup {c.target}]
        /\ Continue(n, Idle)
        /\ Committed
        /\ UNCHANGED <<turn, paths, studies, plans>>

-----------------------------------------------------------------------------
(* A branch request starts a write turn of its own, branches in it and      *)
(* completes it: three commits of one HTTP handler (interfaces/api/app.py). *)

(* What the request saw stays in the call, for the property BranchAsShown.  *)
RequestBranch(p) ==
    /\ Started(p)
    /\ undisturbed' = TRUE
    /\ Continue(turn.number + 1, [step |-> "branch", path |-> p, shown |-> slot[p]])

Copied(adoption) ==
    IF adoption.target = None THEN Empty ELSE [adoption EXCEPT !.pointer = 1]

(* The slots of a branch: every current adoption, in a history of its own.  *)
Branched(p) == [s \in Slots |-> Copied(slot[p][s])]

(* Mutant: the revision the request was made for is not compared.           *)
BranchOnAny(n) == TRUE
BranchOnExpected(n) == undisturbed

(* The branch copies every current adoption and starts a history of its own.*)
CreatePathBranch(n, q) ==
    LET c == call[n]
    IN  /\ c.step = "branch"
        /\ Bound(n)
        /\ BranchOnExpected(n)
        /\ q \notin paths
        /\ paths' = paths \cup {q}
        /\ slot' = [slot EXCEPT ![q] = Branched(c.path)]
        /\ planned' = [planned EXCEPT ![q] = {slot[c.path]["plan"].target} \ {None}]
        /\ Continue(n, [step |-> "complete", path |-> c.path])
        /\ Committed
        /\ UNCHANGED <<turn, studies, plans>>

CompleteBranch(n) ==
    /\ call[n].step = "complete"
    /\ Running(n)
    /\ Ended
    /\ Continue(n, Idle)
    /\ Committed

ResearchStep ==
    \/ \E p \in paths : StartTurn(p) \/ RequestBranch(p)
    \/ EndTurn
    \/ OtherCommand
    \/ \E n \in Numbers :
         \/ Fail(n)
         \/ \E t \in Contents : CommitProposal(n, t)
         \/ CreatePlanRevision(n)
         \/ AdoptPlanRevision(n)
         \/ \E q \in Paths : CreatePathBranch(n, q)
         \/ CompleteBranch(n)

-----------------------------------------------------------------------------
(* Properties.                                                              *)

(* A branch starts from what the path had adopted when the branch was asked *)
(* for, though its turn is started by a commit of its own and calls of an   *)
(* earlier turn may still move the slots of the path.                       *)
BranchAsShown ==
    [][\A n \in Numbers, q \in Paths \ paths :
         q \in paths' /\ call[n].step = "branch" /\ call'[n].step = "complete"
         => \A s \in Slots : slot'[q][s].target = call[n].shown[s].target]_<<call, paths, slot>>

(* A path without a plan can be given one: its key is still free, or a      *)
(* proposal is about to adopt the plan that took it.  plan_coordinator.py   *)
(* promises to "normalize, version, and adopt a proposed plan".             *)
PlanCanBeProposed ==
    \A p \in paths :
        slot[p]["plan"].target = None /\ p \in studies
        => \E n \in Numbers : call[n].step = "adoptPlan" /\ Bound(n)
=============================================================================
