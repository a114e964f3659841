---------------------------- MODULE MCDocuments ----------------------------
(***************************************************************************)
(* Instance of the research state, its evidence, its documents and what     *)
(* sandboxed programs add to them.  The constraint explores one concern at a *)
(* time, from a new Workspace and from one whose first turn adopted a plan  *)
(* and a result and delivered them.                                         *)
(***************************************************************************)
EXTENDS AnalysisOutputs, FiniteSets

CONSTANTS
    Branch,      \* the path that can be branched off
    d1, d2, r1, r2,      \* the data and the result of the first delivery
    x1, x2,      \* a run in the sandbox, and one that reads what it left
    MaxLost,     \* bound of the instance: files that get lost
    MaxPointer,  \* bound of the instance: adoptions of one slot
    Scenarios    \* the concerns that are explored

VARIABLE scenario    \* the concern a behaviour explores

First(target) == [target |-> target, pointer |-> 1]

Delivered ==
    /\ turn = [number |-> 1, path |-> None]
    /\ call = [n \in Numbers |-> Idle]
    /\ paths = {Main} /\ studies = {Main} /\ undisturbed = FALSE
    /\ plans = <<[text |-> CHOOSE t \in Contents : TRUE, parent |-> None]>>
    /\ planned = [p \in Paths |-> IF p = Main THEN {1} ELSE {}]
    /\ slot = [p \in Paths |->
                  IF p = Main
                  THEN [plan |-> First(1), data |-> First(d1), result |-> First(r1),
                        working |-> First(1), delivery |-> First(1)]
                  ELSE [s \in Slots |-> Empty]]
    /\ data = [d \in Data |-> IF d = d1 THEN "available" ELSE "absent"]
    /\ results = [r \in Results |->
                     IF r = r1 THEN [state |-> "qualified", path |-> Main, data |-> d1,
                                     plan |-> 1]
                     ELSE NoRun]
    /\ tables = {<<1, Main, r1>>}
    /\ documents = <<[path |-> Main, parent |-> None, result |-> r1, gate |-> "pass"]>>
    /\ returning = Idle

MCVars == <<vars, analysisVars, scenario>>

MCInit ==
    /\ scenario \in Scenarios
    /\ Init \/ (Delivered /\ scenario # "analysing")
    /\ AnalysisInit

MCNext ==
    /\ UNCHANGED scenario
    /\ \/ Next /\ UNCHANGED analysisVars
       \/ /\ scenario = "analysing"
          /\ AnalysisStep
          /\ UNCHANGED <<evidenceVars, documentVars>>

MCSpec == MCInit /\ [][MCNext]_MCVars

Busy(steps) == \E n \in Numbers : call[n].step \in steps

Lost == {d \in Data : data[d] = "unavailable"}
Runs == {r \in Results : results[r].state # "absent"}
Stale == {n \in Numbers : call[n] # Idle /\ ~Running(n)}

(* Bounds of the instance: adoptions of a slot, data found unavailable, and *)
(* the calls that go on after their turn.                                   *)
Bounded ==
    /\ \A p \in Paths, s \in Slots : slot[p][s].pointer <= MaxPointer
    /\ Lost \subseteq {d1}
    /\ \A n \in Stale : call[n].step \in {"adoptData", "adoptPlan", "render"}
    /\ plans # <<>> => Head(plans).text = "a"

WithoutDocuments ==
    /\ documents = <<>> /\ tables = {} /\ ~Busy({"export"})
    /\ Lost = {} /\ Runs \subseteq {r1} /\ Len(plans) <= 1 /\ turn.number <= 2
OnOnePath ==
    /\ paths = {Main} /\ returning = Idle /\ ~Busy({"branch"})
    /\ turn.number <= 2 /\ Len(documents) <= 2
    /\ \A r \in Runs : results[r].data = IF r = r1 THEN d1 ELSE d2
WithOneResult ==
    /\ Len(plans) = 1 /\ Runs = {r1} /\ data[d2] = "absent"
    /\ turn.number = 3 => turn.path # Main /\ Len(documents) <= 2

(* The second run reads a table of the first, of which no more is used.     *)
WithOneAnalysis ==
    /\ plans = <<>> /\ data = [d \in Data |-> "absent"] /\ paths = {Main}
    /\ turn.number <= 2 /\ ~Busy({"branch", "create"})
    /\ Cardinality(lost) <= MaxLost
    /\ execution[x1].inputs = {}
    /\ execution[x2].status # "absent" =>
         /\ execution[x1].status # "absent" /\ output[x1] = None
         /\ execution[x2].inputs = {<<x1, "table">>}
         /\ \A r \in Executions : stock[<<r, "plot">>] = "absent"
         /\ \A n \in Numbers : call[n].step \in {"classify", "verify"} => call[n].run = x2

Scenario ==
    CASE scenario = "branching" -> Bounded /\ WithoutDocuments
      [] scenario = "delivering" -> Bounded /\ OnOnePath
      [] scenario = "returning" -> Bounded /\ WithOneResult
      [] scenario = "analysing" -> WithOneAnalysis
=============================================================================
