--------------------------- MODULE MCExecutionPool ---------------------------
(***************************************************************************)
(* Two scopes with one caller each, as the write lanes have it, or one     *)
(* scope that two callers share; and, in behaviours of their own, the      *)
(* operations of one session: the chain of its data states, and what        *)
(* recovery says of operations that a crash cut off.                        *)
(***************************************************************************)
EXTENDS ExecutionPool, StataOperations, FiniteSets

CONSTANTS
    k1, k2, p1, p2,
    d1,      \* the dataset that is read where one is enough
    Parts    \* the concerns that are explored

VARIABLE part

TwoScopes == {k1, k2}
OneScope == {k1}
MCCallers == {p1, p2}

OnePerScope == [c \in MCCallers |-> IF c = p1 THEN k1 ELSE k2]
BothOnOne == [c \in MCCallers |-> k1]

MCInit == Init /\ StataInit /\ part \in Parts /\ (part = "pool" => scoped = FALSE)
MCNext ==
    /\ UNCHANGED part
    /\ \/ part = "pool" /\ Next /\ UNCHANGED stataVars
       \/ part # "pool" /\ StataNext /\ UNCHANGED vars
MCSpec == MCInit /\ [][MCNext]_<<vars, stataVars, part>>
MCFairSpec == MCSpec /\ Fairness

(* Four calls in all, by the caller of one scope or of both.                *)
FewCalls == calls[p1] + calls[p2] <= 4

Used == {o \in OperationIds : op[o].status # "none"}
Ended(status) == {o \in Used : op[o].status \in status}

(* No crash and no outputs, at most one operation that fails and exceptions *)
(* in the first session only.                                               *)
OneFailure ==
    /\ doing.step # "down" /\ ~scoped
    /\ \A o \in Used : ~op[o].output
    /\ \A o \in Used : op[o].file # None =>
          op[o].file.execution # "timed_out" \/ op[o].file.reset
    /\ Cardinality(Ended({"failed", "outcome_unknown"})) <= 1
    /\ unaccounted \subseteq {1}

(* Three operations on one dataset in one session, assessed in their order. *)
OneSession ==
    /\ Used \subseteq 1..3
    /\ session.gen = 1 /\ doing.step \notin {"down", "idle"} => session.open
    /\ session.gen <= 1
    /\ "anew" \in DOMAIN doing => ~doing.anew
    /\ \A o \in Used :
         /\ op[o].data = d1
         /\ op[o].purpose # "formal_post_estimation"
         /\ op[o].report # None => \A u \in Used : u < o => op[u].report # None

Bounded ==
    CASE part = "pool" -> FewCalls
      [] part = "chain" -> OneFailure
      [] part = "recovery" -> OneSession
=============================================================================
