------------------------------ MODULE Evidence ------------------------------
(***************************************************************************)
(* Data versions, formal results and the tables made of them, and when they *)
(* may be used: artifact_data_store.py, result_profile_store.py,            *)
(* evidence_store.py, evidence_eligibility_store.py, table_export_store.py  *)
(* and the tools that call them (runtime/open_research_executor.py).        *)
(*                                                                         *)
(* Promoting a result takes three commits - qualify the result, adopt its   *)
(* data, adopt the result - and exporting a table two, with Stata between.  *)
(***************************************************************************)
EXTENDS ResearchState

CONSTANTS
    Data,       \* identities of data versions
    Results     \* identities of formal Stata runs and the results they give

VARIABLES
    data,       \* artifact_states of the data versions
    results,    \* stata_runs, results and what they rest on
    tables      \* verified tables whose artifact is available

evidenceVars == <<data, results, tables>>

(* Missing and corrupt make no difference to what may be used.              *)
Availabilities == {"available", "unavailable"}
Availability == [Data -> Availabilities \cup {"absent"}]
Run == [state : {"absent", "ran", "qualified"}, path : Paths \cup {None},
        data : Data \cup {None}, plan : Nat \cup {None}]
Table == Numbers \X Paths \X Results
DataAdoption == Adoption(Data)
ResultAdoption == Adoption(Results)
NoRun == [state |-> "absent", path |-> None, data |-> None, plan |-> None]

EvidenceInit ==
    /\ data = [d \in Data |-> "absent"]
    /\ results = [r \in Results |-> NoRun]
    /\ tables = {}

(* The data a result requires is what the path has adopted.                 *)
DataCurrent(p, r) == slot[p]["data"].target = results[r].data

(* The run was made under the plan that the path follows.                   *)
PlanCurrent(p, r) == slot[p]["plan"].target = results[r].plan

(* Evidence of a result may be used in a document of the path.              *)
Eligible(p, r) ==
    /\ data[results[r].data] = "available"
    /\ slot[p]["result"].target = r
    /\ DataCurrent(p, r)
    /\ PlanCurrent(p, r)

-----------------------------------------------------------------------------
(* Data and runs.                                                           *)

(* A run captures the file it reads as a data version.                      *)
RecordCapture(d) ==
    /\ data[d] = "absent"
    /\ data' = [data EXCEPT ![d] = "available"]

(* Verifying an artifact records what its bytes were found to be.           *)
RecordVerification(d, found) ==
    /\ data[d] \notin {"absent", found}
    /\ data' = [data EXCEPT ![d] = found]

Intake(n) ==
    /\ Free(n)
    /\ \E d \in Data : \/ RecordCapture(d)
                       \/ \E a \in Availabilities : RecordVerification(d, a)
    /\ Committed
    /\ UNCHANGED <<turnVars, call, results, tables>>

(* A formal run names a node of the plan the path follows and reads a data  *)
(* version that was just verified; it may succeed or not, and what succeeds *)
(* waits to be promoted.                                                    *)
RunFormally(n, r, d) ==
    /\ Free(n)
    /\ results[r].state = "absent"
    /\ slot[turn.path]["plan"].target # None
    /\ data[d] = "available"
    /\ results' = [results EXCEPT ![r] =
           [state |-> "ran", path |-> turn.path, data |-> d,
            plan |-> slot[turn.path]["plan"].target]]
    /\ Committed
    /\ UNCHANGED <<turnVars, call, data, tables>>

-----------------------------------------------------------------------------
(* Promoting a run.                                                         *)

(* The plan of the run need not be current, but the path must have adopted  *)
(* it.                                                                      *)
PlanWasAdopted(r) == results[r].plan \in planned[turn.path]

(* The result belongs to the path it is promoted for.                       *)
Qualified(r) == [results[r] EXCEPT !.state = "qualified", !.path = turn.path]

(* What a promotion does next, against the pointer it finds then.           *)
Adopting(step, s, p, r) ==
    [step |-> step, path |-> p, result |-> r, pointer |-> slot[p][s].pointer]

CommitQualification(n, r) ==
    /\ Free(n)
    /\ results[r].state = "ran"
    /\ PlanWasAdopted(r)
    /\ results' = [results EXCEPT ![r] = Qualified(r)]
    /\ Continue(n, Adopting("adoptData", "data", turn.path, r))
    /\ Committed
    /\ UNCHANGED <<turnVars, data, tables>>

(* No turn is asked for here: a call of a stopped turn still adopts data.   *)
AdoptPathData(n) ==
    LET c == call[n]
    IN  /\ c.step = "adoptData"
        /\ data[results[c.result].data] = "available"
        /\ slot[c.path]["data"].pointer = c.pointer
        /\ slot' = [slot EXCEPT ![c.path] =
               Adopted(c.path, "data", results[c.result].data)]
        /\ Continue(n, Adopting("adoptResult", "result", c.path, c.result))
        /\ Committed
        /\ UNCHANGED <<turn, paths, studies, plans, planned, evidenceVars>>

AdoptPathResult(n) ==
    LET c == call[n]
    IN  /\ c.step = "adoptResult"
        /\ Bound(n)
        /\ results[c.result].path = c.path
        /\ DataCurrent(c.path, c.result)
        /\ slot[c.path]["result"].pointer = c.pointer
        /\ slot' = [slot EXCEPT ![c.path] = Adopted(c.path, "result", c.result)]
        /\ Continue(n, Idle)
        /\ Committed
        /\ UNCHANGED <<turn, paths, studies, plans, planned, evidenceVars>>

(* Mutant: the data the path had before the bundle is looked at.            *)
BundleWasClosed(p, after) ==
    after["result"].target # None => DataCurrent(p, after["result"].target)

(* A bundle adopts data, results and a plan in one commit: the data has to  *)
(* be available, and a result has to rest on the data the path has after    *)
(* the bundle.  The path of the result is not asked for.                    *)
BundleIsClosed(p, after) ==
    after["result"].target # None =>
        results[after["result"].target].data = after["data"].target

AdoptResearchBundle(n, d, r, v) ==
    LET p == turn.path
        with(a, s, target) ==
            IF target = None THEN a
            ELSE [a EXCEPT ![s] = [target |-> target, pointer |-> @.pointer + 1]]
        after == with(with(with(slot[p], "data", d), "result", r), "plan", v)
    IN  /\ Free(n)
        /\ {d, r, v} # {None}
        /\ d # None => data[d] = "available"
        /\ r # None => results[r].state = "qualified" /\ BundleIsClosed(p, after)
        /\ slot' = [slot EXCEPT ![p] = after]
        /\ planned' = IF v = None THEN planned ELSE [planned EXCEPT ![p] = @ \cup {v}]
        /\ Committed
        /\ UNCHANGED <<turn, paths, studies, plans, call, evidenceVars>>

-----------------------------------------------------------------------------
(* Exporting a table.                                                       *)

Delivering(n, p, r) ==
    [step |-> "deliver", path |-> p, result |-> r,
     working |-> slot[p]["working"].pointer, delivery |-> slot[p]["delivery"].pointer]

(* The adopted result, on the data the path has adopted, is exported by     *)
(* Stata, unless this turn has already a verified table of it.              *)
PrepareExport(n) ==
    LET p == turn.path
        r == slot[p]["result"].target
    IN  /\ Free(n)
        /\ r # None
        /\ IF <<n, p, r>> \in tables
           THEN Continue(n, Delivering(n, p, r))
           ELSE /\ DataCurrent(p, r)
                /\ Continue(n, [step |-> "export", path |-> p, result |-> r])
        /\ Committed
        /\ UNCHANGED <<turnVars, evidenceVars>>

(* The table is verified against the elements of the result it was made of. *)
CommitVerification(n) ==
    LET c == call[n]
    IN  /\ c.step = "export"
        /\ Bound(n)
        /\ slot[c.path]["result"].target = c.result
        /\ DataCurrent(c.path, c.result)
        /\ tables' = tables \cup {<<n, c.path, c.result>>}
        /\ Continue(n, Delivering(n, c.path, c.result))
        /\ Committed
        /\ UNCHANGED <<turnVars, data, results>>

(* The artifact of a table is found missing or corrupt.                     *)
LoseTable(n, t) ==
    /\ Free(n)
    /\ t \in tables
    /\ tables' = tables \ {t}
    /\ Committed
    /\ UNCHANGED <<turnVars, call, data, results>>

EvidenceStep(n) ==
    \/ Intake(n)
    \/ \E r \in Results, d \in Data : RunFormally(n, r, d)
    \/ \E r \in Results : CommitQualification(n, r)
    \/ AdoptPathData(n)
    \/ AdoptPathResult(n)
    \/ \E d \in Data \cup {None}, r \in Results \cup {None},
          v \in {None} \cup DOMAIN plans : AdoptResearchBundle(n, d, r, v)
    \/ PrepareExport(n)
    \/ CommitVerification(n)
    \/ \E t \in tables : LoseTable(n, t)

-----------------------------------------------------------------------------
(* Properties.                                                              *)

(* A path adopts a result only on the data it was computed from: whatever   *)
(* order the commits of promotions, bundles and calls of stopped turns come *)
(* in, the moment a result becomes a path's, its data is the path's too.    *)
ResultComesWithItsData ==
    [][\A p \in paths :
         slot'[p]["result"] # slot[p]["result"]
         => slot'[p]["data"].target = results'[slot'[p]["result"].target].data]_<<slot, paths, results>>
=============================================================================
