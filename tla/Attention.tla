------------------------------ MODULE Attention ------------------------------
(***************************************************************************)
(* The list of workspaces that ask for the user: attention_snapshot        *)
(* (control_query.py) of each, the query over all of them and its          *)
(* invalidation stream (app.py), and the refreshes of App.tsx over         *)
(* GlobalAttentionStream.                                                  *)
(*                                                                         *)
(* facts stands for the rows of a workspace that the summary looks at.     *)
(* fingerprint is read by the one thread of the event loop in one step: a  *)
(* commit beside it is in this reading or in the next one.                 *)
(***************************************************************************)
EXTENDS Integers, FiniteSets

CONSTANTS Watched,          \* the workspaces of the host
          Facts,            \* what a commit may leave behind in one
          MaxIncidents      \* bound on commits, failed queries and lost connections

ASSUME AttentionAssumption == MaxIncidents \in Nat

VARIABLES facts,        \* of each workspace
          commits,      \* of each workspace, workspace_revision
          asked,        \* generation in App.tsx
          reads,        \* the queries in flight
          summary,      \* what the list shows of each workspace
          source,       \* the connection of GlobalAttentionStream
          previous,     \* of the endpoint
          incidents,
          unread        \* history: the query asked for last failed

attentionVars == <<facts, commits, asked, reads, summary, source, previous, incidents, unread>>

Nothing == [refs |-> {}, severity |-> "INFO", requires |-> FALSE]

(* The rows: an open waiting request, an active pause intent, and the states *)
(* of operations and of turns that the summary picks.                        *)
FactsOfWorkspace ==
    [waiting : BOOLEAN, pausing : BOOLEAN,
     operations : SUBSET {"completed_unreconciled", "outcome_unknown", "integrity_violation"},
     turns : SUBSET {"paused", "failed", "partial"}]

Quiet == [waiting |-> FALSE, pausing |-> FALSE, operations |-> {}, turns |-> {}]

-----------------------------------------------------------------------------
(* attention_snapshot.                                                      *)

Ref(kind, status, severity) == [kind |-> kind, status |-> status, severity |-> severity]

Refs(f) ==
    {ref \in {Ref("waiting_request", "open", "ACTION_REQUIRED")} : f.waiting}
      \cup {ref \in {Ref("pause_intent", "converging", "INFO")} : f.pausing}
      \cup {Ref("operation", status,
                IF status = "integrity_violation" THEN "CRITICAL" ELSE "ACTION_REQUIRED")
               : status \in f.operations}
      \cup {Ref("turn", status, IF status = "partial" THEN "INFO" ELSE "ACTION_REQUIRED")
               : status \in f.turns}

AttentionSnapshot(f) ==
    LET severities == {ref.severity : ref \in Refs(f)}
    IN [refs |-> Refs(f),
        severity |-> IF "CRITICAL" \in severities THEN "CRITICAL"
                     ELSE IF "ACTION_REQUIRED" \in severities THEN "ACTION_REQUIRED" ELSE "INFO",
        requires |-> severities \ {"INFO"} # {}]

Fingerprint == commits

AttentionInit ==
    /\ facts = [w \in Watched |-> Quiet]
    /\ commits = [w \in Watched |-> 0]
    /\ asked = 0
    /\ reads = {}
    /\ summary = [w \in Watched |-> Nothing]
    /\ source = "closed"
    /\ previous = Fingerprint
    /\ incidents = 0
    /\ unread = FALSE

CommitFacts(w) ==
    /\ incidents < MaxIncidents
    /\ incidents' = incidents + 1
    /\ commits' = [commits EXCEPT ![w] = @ + 1]
    /\ \E f \in Facts : facts' = [facts EXCEPT ![w] = f]
    /\ UNCHANGED <<asked, reads, summary, source, previous, unread>>

-----------------------------------------------------------------------------
(* The list.                                                                *)

(* A query reads the workspaces one after the other, each in a transaction.  *)
Asks(generation) == [generation |-> generation, answer |-> [w \in {} |-> Nothing], status |-> "reading"]

(* refresh up to its request.                                                *)
Refresh ==
    /\ asked' = asked + 1
    /\ reads' = reads \cup {Asks(asked')}
    /\ unread' = FALSE

OpenList ==
    /\ source = "closed"
    /\ source' = "connecting"
    /\ Refresh
    /\ UNCHANGED <<facts, commits, summary, previous, incidents>>

ReadWorkspace(q) ==
    /\ q.status = "reading"
    /\ \E w \in Watched \ DOMAIN q.answer :
          LET more == [v \in DOMAIN q.answer \cup {w} |->
                          IF v = w THEN AttentionSnapshot(facts[w]) ELSE q.answer[v]]
          IN reads' = (reads \ {q}) \cup
                {[q EXCEPT !.answer = more,
                           !.status = IF DOMAIN more = Watched THEN "answered" ELSE "reading"]}
    /\ UNCHANGED <<facts, commits, asked, summary, source, previous, incidents, unread>>

ReadFails(q) ==
    /\ q.status = "reading" /\ incidents < MaxIncidents
    /\ incidents' = incidents + 1
    /\ reads' = (reads \ {q}) \cup {[q EXCEPT !.status = "failed"]}
    /\ UNCHANGED <<facts, commits, asked, summary, source, previous, unread>>

(* Mutant: any answer is taken.                                              *)
IsWantedAlways(q) == TRUE

IsWanted(q) == q.generation = asked

(* refresh after its request.                                                *)
TakeAnswer(q) ==
    /\ q.status \in {"answered", "failed"}
    /\ reads' = reads \ {q}
    /\ IF IsWanted(q) /\ q.status = "answered" THEN summary' = q.answer ELSE UNCHANGED summary
    /\ unread' = (unread \/ (IsWanted(q) /\ q.status = "failed"))
    /\ UNCHANGED <<facts, commits, asked, source, previous, incidents>>

-----------------------------------------------------------------------------
(* The invalidation stream.                                                 *)

(* The endpoint takes the connection and remembers where everything stands;  *)
(* onOpen reads the list.                                                    *)
SourceOpens ==
    /\ source = "connecting"
    /\ source' = "open"
    /\ previous' = Fingerprint
    /\ Refresh
    /\ UNCHANGED <<facts, commits, summary, incidents>>

SourceBreaks ==
    /\ source \in {"connecting", "open"} /\ incidents < MaxIncidents
    /\ incidents' = incidents + 1
    /\ source' = "waiting"
    /\ UNCHANGED <<facts, commits, asked, reads, summary, previous, unread>>

SourceRetries ==
    /\ source = "waiting"
    /\ source' = "connecting"
    /\ UNCHANGED <<facts, commits, asked, reads, summary, previous, incidents, unread>>

(* The half second is over: attention_invalidated, or a keepalive.           *)
Invalidate ==
    /\ source = "open" /\ Fingerprint # previous
    /\ previous' = Fingerprint
    /\ Refresh
    /\ UNCHANGED <<facts, commits, summary, source, incidents>>

AttentionNext ==
    \/ OpenList \/ SourceOpens \/ SourceBreaks \/ SourceRetries \/ Invalidate
    \/ \E w \in Watched : CommitFacts(w)
    \/ \E q \in reads : ReadWorkspace(q) \/ ReadFails(q) \/ TakeAnswer(q)

AttentionSpec == AttentionInit /\ [][AttentionNext]_attentionVars
-----------------------------------------------------------------------------
(* However queries overtake each other, commits fall between the workspaces   *)
(* that one reads, and connections are lost: once the stream has nothing to   *)
(* say and no query is under way, the list shows of every workspace what it   *)
(* asks of the user.  Only the failure of the query asked for last leaves it  *)
(* behind; nobody repeats that query before the next invalidation (App.tsx,   *)
(* app.py).                                                                   *)
AttentionIsCurrent ==
    source = "open" /\ previous = Fingerprint /\ reads = {} /\ ~unread =>
        \A w \in Watched : summary[w] = AttentionSnapshot(facts[w])
=============================================================================
