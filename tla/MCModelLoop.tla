----------------------------- MODULE MCModelLoop -----------------------------
(***************************************************************************)
(* One turn and its driver, which is started once: a second run ends where  *)
(* it normalizes the contract (HasNoObligations); and, in behaviours of     *)
(* their own, how a turn whose message asks for a document ends, over its   *)
(* answers, what a browser shows while the model writes, and the trace it   *)
(* reads.                                                                   *)
(***************************************************************************)
EXTENDS ModelLoop, StopGuard, ResearchViews

CONSTANT Parts    \* the concerns that are explored

VARIABLE part

TwoRoutes == <<"primary", "fallback">>
OneTransient == {"http_503"}
OneFatal == {"http_402"}

(* An answer with a call whose arguments have a text of their own, and one   *)
(* whose text has a brace.                                                   *)
WithCall ==
    [deltas |-> << <<"{", "q", "calls", "q", ":">>, <<"{", "q", "text", "q">>,
                   <<":", "q", "c", "q", "}", "q">>, <<"text", "q", ":", "q", "a">>,
                   <<"b", "q", "}">> >>,
     text |-> <<"a", "b">>]
Plain ==
    [deltas |-> << <<"{", "q", "text", "q", ":">>, <<"q", "a", "}">>, <<"q", "}">> >>,
     text |-> <<"a", "}">>]
MCMessages == {WithCall, Plain}

ASSUME MessagesAreRead == ProjectsPrefixes

viewVars == <<deltaVars, journalVars>>

MCInit ==
    /\ Init /\ StopInit /\ DeltaInit /\ JournalInit
    /\ part \in Parts
    /\ part # "deltas" => message = [a \in Calls |-> Plain]
MCNext ==
    /\ UNCHANGED part
    /\ \/ part = "gateway" /\ Next /\ UNCHANGED <<guardVars, viewVars>>
       \/ part = "stopping" /\ StopNext /\ UNCHANGED <<loopVars, viewVars>>
       \/ part = "deltas" /\ DeltaNext /\ UNCHANGED <<loopVars, guardVars, journalVars>>
       \/ part = "trace" /\ JournalNext /\ UNCHANGED <<loopVars, guardVars, deltaVars>>
MCSpec == MCInit /\ [][MCNext]_<<loopVars, guardVars, viewVars, part>> /\ Fairness
=============================================================================
