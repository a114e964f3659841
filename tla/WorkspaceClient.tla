--------------------------- MODULE WorkspaceClient ---------------------------
(***************************************************************************)
(* WorkspaceShell (browser/shell.ts) with its WorkspaceStream and          *)
(* ReconnectingApiEventStream, over the queries and the event stream that  *)
(* the service answers from the outbox (outbox_stream.py, control_query.py *)
(* and app.py).                                                            *)
(*                                                                         *)
(* A cursor is the number of outbox entries before it.  Queries are        *)
(* answered, and their answers arrive, in any order.  An entry of the      *)
(* stream that is sent and then lost with its connection is one that was   *)
(* not sent, so a connection needs one position.                           *)
(*                                                                         *)
(* WorkspaceStream counts generations of its own.  They advance when, and  *)
(* only when, openWorkspace advances those of the shell: one number here.  *)
(***************************************************************************)
EXTENDS Integers, Sequences

CONSTANTS Workspaces,
          NoWorkspace,
          LastRevision,  \* of each workspace, the bound on its revisions
          MaxOpens,     \* bound on what the user opens and reads again
          MaxFaults     \* bound on failed queries, lost connections and resyncs

ASSUME ClientAssumption ==
    /\ NoWorkspace \notin Workspaces
    /\ LastRevision \in [Workspaces -> Nat \ {0}] /\ MaxOpens \in Nat /\ MaxFaults \in Nat

VARIABLES revision,           \* of each workspace, its authoritative revision
          outbox,             \* of each workspace, the revisions of its outbox entries
          view,               \* #state
          snapshots,          \* #snapshots: of each workspace the revision, 0 for none
          requestGeneration,  \* #requestGeneration
          refreshGeneration,  \* #refreshGeneration
          queries,            \* the requests in flight
          stream,             \* the event stream
          opens, faults,      \* how often the user opened, how much went wrong
          lost                \* history: a query for the open workspace failed

serverVars == <<revision, outbox>>
vars == <<revision, outbox, view, snapshots, requestGeneration, refreshGeneration,
          queries, stream, opens, faults, lost>>

Kinds == {"cold", "bootstrapping", "ready", "reconnecting", "unavailable"}
Phases == {"closed", "connecting", "connected", "waiting"}
Answers == {"none", "ok", "refused", "resync", "thrown"}
NoSnapshot == 0

ClosedStream == [phase |-> "closed", from |-> 0, at |-> 0, seen |-> {}]

(* A request as it is sent; revision and cursor are for the answer.          *)
Query(kind, w, generation, refresh, cursor) ==
    [kind |-> kind, workspace |-> w, generation |-> generation, refresh |-> refresh,
     answer |-> "none", revision |-> NoSnapshot, cursor |-> cursor]

ClientInit ==
    /\ revision = [w \in Workspaces |-> 1]
    /\ outbox = [w \in Workspaces |-> << >>]
    /\ view = [kind |-> "cold", workspace |-> NoWorkspace, revision |-> NoSnapshot]
    /\ snapshots = [w \in Workspaces |-> NoSnapshot]
    /\ requestGeneration = 0
    /\ refreshGeneration = 0
    /\ queries = {}
    /\ stream = ClosedStream
    /\ opens = 0
    /\ faults = 0
    /\ lost = FALSE

-----------------------------------------------------------------------------
(* The service.                                                             *)

(* A commit; whether it notifies anybody is its own affair.                  *)
Commit(w) ==
    /\ revision[w] < LastRevision[w]
    /\ revision' = [revision EXCEPT ![w] = @ + 1]
    /\ \/ outbox' = [outbox EXCEPT ![w] = Append(@, revision'[w])]
       \/ UNCHANGED outbox
    /\ UNCHANGED <<view, snapshots, requestGeneration, refreshGeneration,
                   queries, stream, opens, faults, lost>>

(* What bootstrap answers: whatever it shows is of one database snapshot, of *)
(* which the revision and the cursor matter here.                            *)
BootstrapAnswer(w) == [revision |-> revision[w], cursor |-> Len(outbox[w])]

(* The answer of bootstrap; stream_head finds the cursor that it is asked    *)
(* about.                                                                    *)
Reply(q) ==
    IF q.kind = "probe" THEN [q EXCEPT !.answer = "ok"]
    ELSE [q EXCEPT !.answer = "ok", !.revision = BootstrapAnswer(q.workspace).revision,
                   !.cursor = BootstrapAnswer(q.workspace).cursor]

(* replay_after: the entries behind a cursor, oldest first.                  *)
ReplayAfter(w, cursor) == {entry \in DOMAIN outbox[w] : entry > cursor}

Serve(q) ==
    /\ q.answer = "none"
    /\ queries' = (queries \ {q}) \cup {Reply(q)}
    /\ UNCHANGED <<serverVars, view, snapshots, requestGeneration, refreshGeneration,
                   stream, opens, faults, lost>>

(* The service answers with an error, or the fetch rejects.                  *)
QueryFails(q) ==
    /\ q.answer = "none"
    /\ faults < MaxFaults
    /\ faults' = faults + 1
    /\ \E status \in {"refused", "thrown"} \cup (IF q.kind = "probe" THEN {"resync"} ELSE {}) :
          queries' = (queries \ {q}) \cup {[q EXCEPT !.answer = status]}
    /\ UNCHANGED <<serverVars, view, snapshots, requestGeneration, refreshGeneration,
                   stream, opens, lost>>

-----------------------------------------------------------------------------
(* The shell.                                                               *)

(* openWorkspace up to its await; rest are the queries that stay in flight.  *)
(* Aborting the previous request only spares an answer that would be         *)
(* ignored.                                                                 *)
OpenWorkspace(w, rest) ==
    /\ requestGeneration' = requestGeneration + 1
    /\ refreshGeneration' = refreshGeneration + 1
    /\ stream' = ClosedStream
    /\ view' = [kind |-> "bootstrapping", workspace |-> w, revision |-> NoSnapshot]
    /\ queries' = rest \cup {Query("bootstrap", w, requestGeneration', refreshGeneration', 0)}
    /\ lost' = FALSE
    /\ UNCHANGED snapshots

Shown == view.kind \in {"ready", "reconnecting"}

(* The user opens a workspace, or reads the one that is open again (resync). *)
UserOpens(w) ==
    /\ opens < MaxOpens
    /\ opens' = opens + 1
    /\ OpenWorkspace(w, queries)
    /\ UNCHANGED <<serverVars, faults>>

(* A snapshot replaces the one of its workspace and is shown.                *)
Show(q) ==
    /\ snapshots' = [snapshots EXCEPT ![q.workspace] = q.revision]
    /\ view' = [kind |-> "ready", workspace |-> q.workspace, revision |-> q.revision]

(* What a callback of the stream, or an answer of kind, leaves alone.        *)
Keeps == UNCHANGED <<serverVars, requestGeneration, refreshGeneration, opens, faults>>

(* Mutant: the answer is taken though another workspace was opened.          *)
AnyGeneration(q) == TRUE

Current(q) == q.generation = requestGeneration

(* The answer is not wanted any more.                                        *)
Ignore(q) ==
    /\ queries' = queries \ {q}
    /\ UNCHANGED <<view, snapshots, stream, lost>>
    /\ Keeps

(* openWorkspace after its await: the stream is opened at the cursor of the  *)
(* snapshot, which starts with a probe of that cursor.                       *)
Bootstrapped(q) ==
    /\ q.kind = "bootstrap" /\ Current(q)
    /\ \/ /\ q.answer = "ok"
          /\ Show(q)
          /\ queries' = (queries \ {q}) \cup
                {Query("probe", q.workspace, q.generation, q.refresh, q.cursor)}
          /\ UNCHANGED lost
       \/ /\ q.answer = "refused"
          /\ view' = [view EXCEPT !.kind = "unavailable"]
          /\ queries' = queries \ {q}
          /\ lost' = TRUE
          /\ UNCHANGED snapshots
       \/ /\ q.answer = "thrown"
          /\ queries' = queries \ {q}
          /\ lost' = TRUE
          /\ UNCHANGED <<view, snapshots>>
    /\ UNCHANGED stream
    /\ Keeps

(* Mutant: a refresh that a later one overtook is taken.                     *)
AnyRefresh(q) == TRUE

LatestRefresh(q) == q.refresh = refreshGeneration

(* #refreshFromDurableNotification after its await.                          *)
Refreshed(q) ==
    /\ q.kind = "refresh" /\ Current(q)
    /\ LatestRefresh(q)
    /\ IF q.answer = "ok" THEN Show(q) /\ UNCHANGED lost
       ELSE lost' = TRUE /\ UNCHANGED <<view, snapshots>>
    /\ queries' = queries \ {q}
    /\ UNCHANGED stream
    /\ Keeps

Overtaken(q) == q.kind = "refresh" /\ ~LatestRefresh(q)

-----------------------------------------------------------------------------
(* The stream.                                                              *)

MarkReconnecting == view' = IF view.kind = "ready" THEN [view EXCEPT !.kind = "reconnecting"] ELSE view

(* resync, from a callback.                                                  *)
Resync(rest) ==
    /\ Shown
    /\ OpenWorkspace(view.workspace, rest)
    /\ UNCHANGED <<serverVars, opens>>

OpenSource(q) ==
    stream' = [phase |-> "connecting", from |-> q.cursor, at |-> 0, seen |-> {}]

(* open after its await.  Without a resync or a source nobody tries again.   *)
Probed(q) ==
    /\ q.kind = "probe" /\ Current(q)
    /\ \/ /\ q.answer = "ok"
          /\ OpenSource(q)
          /\ queries' = queries \ {q}
          /\ UNCHANGED <<view, snapshots, lost>>
          /\ Keeps
       \/ /\ q.answer = "resync"
          /\ Resync(queries \ {q})
          /\ UNCHANGED faults
       \/ /\ q.answer = "refused"
          /\ MarkReconnecting
          /\ queries' = queries \ {q}
          /\ lost' = TRUE
          /\ UNCHANGED <<snapshots, stream>>
          /\ Keeps
       \/ /\ q.answer = "thrown"
          /\ queries' = queries \ {q}
          /\ lost' = TRUE
          /\ UNCHANGED <<view, snapshots, stream>>
          /\ Keeps

(* The answer of a query arrives.                                            *)
Arrives(q) ==
    /\ q.answer # "none"
    /\ \/ Bootstrapped(q) \/ Refreshed(q) \/ Probed(q)
       \/ (~Current(q) \/ Overtaken(q)) /\ Ignore(q)

(* Mutant: the cursor of the url is not heeded.                              *)
ConnectsAtStart ==
    /\ stream.phase = "connecting"
    /\ stream' = [stream EXCEPT !.phase = "connected", !.at = 0]
    /\ view' = IF view.kind = "reconnecting" THEN [view EXCEPT !.kind = "ready"] ELSE view
    /\ UNCHANGED <<snapshots, queries, lost>>
    /\ Keeps

(* The service takes the connection and begins at the cursor of the url.     *)
Connects ==
    /\ stream.phase = "connecting"
    /\ stream' = [stream EXCEPT !.phase = "connected", !.at = stream.from]
    /\ view' = IF view.kind = "reconnecting" THEN [view EXCEPT !.kind = "ready"] ELSE view
    /\ UNCHANGED <<snapshots, queries, lost>>
    /\ Keeps

(* The connection is refused, also with RESYNC_REQUIRED, or ends.            *)
Disconnects ==
    /\ stream.phase \in {"connecting", "connected"}
    /\ faults < MaxFaults
    /\ faults' = faults + 1
    /\ stream' = [stream EXCEPT !.phase = "waiting"]
    /\ MarkReconnecting
    /\ UNCHANGED <<serverVars, snapshots, requestGeneration, refreshGeneration,
                   queries, opens, lost>>

(* Mutant: a second connection is not tried.                                 *)
RetriesNot == FALSE /\ UNCHANGED vars

Retries ==
    /\ stream.phase = "waiting"
    /\ stream' = [stream EXCEPT !.phase = "connecting"]
    /\ UNCHANGED <<view, snapshots, queries, lost>>
    /\ Keeps

(* The next entry is read from the outbox and arrives.  One that was seen    *)
(* before does nothing; for another one the shell begins a refresh.          *)
Notified ==
    LET w == view.workspace
        next == stream.at + 1
    IN /\ stream.phase = "connected"
       /\ next \in ReplayAfter(w, stream.at)
       /\ stream' = [stream EXCEPT !.at = next, !.seen = @ \cup {next}]
       /\ IF next \in stream.seen THEN UNCHANGED <<refreshGeneration, queries>>
          ELSE /\ refreshGeneration' = refreshGeneration + 1
               /\ queries' = queries \cup
                     {Query("refresh", w, requestGeneration, refreshGeneration', 0)}
       /\ UNCHANGED <<serverVars, view, snapshots, requestGeneration, opens, faults, lost>>

(* The service could not read on and says so.                                *)
ResyncRequired ==
    /\ stream.phase = "connected"
    /\ faults < MaxFaults
    /\ faults' = faults + 1
    /\ Resync(queries)

-----------------------------------------------------------------------------
ClientNext ==
    \/ \E w \in Workspaces : Commit(w) \/ UserOpens(w)
    \/ \E q \in queries : Serve(q) \/ QueryFails(q) \/ Arrives(q)
    \/ Connects \/ Disconnects \/ Retries \/ Notified \/ ResyncRequired

(* Queries are answered, answers are looked at, the timer of the stream runs *)
(* out and what the outbox holds is sent.                                    *)
ClientFairness ==
    /\ WF_vars(\E q \in queries : Serve(q))
    /\ WF_vars(\E q \in queries : Arrives(q))
    /\ WF_vars(Connects) /\ WF_vars(Retries) /\ WF_vars(Notified)

ClientSpec == ClientInit /\ [][ClientNext]_vars /\ ClientFairness
-----------------------------------------------------------------------------
(* State, snapshots, queries and stream have the types of the code; a         *)
(* connection never stands before the cursor it was opened at, and entries    *)
(* that were seen are entries behind that cursor.                            *)
ClientTypeOK ==
    /\ revision \in [Workspaces -> Nat \ {0}] /\ outbox \in [Workspaces -> Seq(Nat)]
    /\ \A w \in Workspaces :
          /\ revision[w] <= LastRevision[w] /\ snapshots[w] <= revision[w]
          /\ outbox[w] \in Seq(2..revision[w])
    /\ view \in [kind : Kinds, workspace : Workspaces \cup {NoWorkspace}, revision : Nat]
    /\ view.kind # "cold" => view.workspace \in Workspaces
    /\ snapshots \in [Workspaces -> Nat]
    /\ Shown => view.revision = snapshots[view.workspace]
    /\ requestGeneration \in Nat /\ refreshGeneration \in Nat
    /\ \A q \in queries :
          q \in [kind : {"bootstrap", "refresh", "probe"}, workspace : Workspaces,
                generation : 0..requestGeneration, refresh : 1..refreshGeneration,
                answer : Answers, revision : Nat, cursor : Nat]
    /\ stream \in [phase : Phases, from : Nat, at : Nat, seen : SUBSET Nat]
    /\ stream.phase = "connected" =>
          stream.at \in stream.from..Len(outbox[view.workspace])
    /\ stream.phase # "closed" =>
          /\ stream.from <= Len(outbox[view.workspace])
          /\ stream.seen \subseteq (stream.from + 1)..Len(outbox[view.workspace])
    /\ opens \in 0..MaxOpens /\ faults \in 0..MaxFaults /\ lost \in BOOLEAN

(* However answers are delayed and reordered, a snapshot never replaces a     *)
(* newer one of its workspace (the two generations of shell.ts).             *)
ViewNeverGoesBack ==
    [][\A w \in Workspaces : snapshots'[w] >= snapshots[w]]_vars

(* Only opening another workspace takes the browser away from the one it      *)
(* shows: no late answer or notification does.                               *)
ViewStaysWithItsWorkspace ==
    [][view'.workspace # view.workspace => view'.kind = "bootstrapping"]_vars

(* A notification is still to come, or the refresh that will show it is.      *)
ToBeNotified(i) ==
    /\ i > stream.from
    /\ i \notin stream.seen
    /\ stream.phase # "closed"

(* A query whose answer will be looked at.                                   *)
Live(q) == Current(q) /\ ~Overtaken(q)

ToBeProbed(i) ==
    \E q \in queries : q.kind = "probe" /\ Live(q) /\ i > q.cursor

ToBeRefreshed(r) ==
    \E q \in queries :
        /\ q.kind = "refresh" /\ Live(q)
        /\ q.answer = "none" \/ (q.answer = "ok" /\ q.revision >= r)

ToFail == \E q \in queries : Live(q) /\ q.answer \in {"refused", "thrown"}

(* While no query of the open workspace failed, every outbox entry is in the  *)
(* snapshot that is shown, or on its way to it: there is no gap between the   *)
(* snapshot, the cursor, the replays of the stream and the refreshes.        *)
NotificationsAreCovered ==
    (Shown /\ ~lost) =>
        \A i \in DOMAIN outbox[view.workspace] :
            LET r == outbox[view.workspace][i]
            IN r <= view.revision \/ ToBeNotified(i) \/ ToBeProbed(i) \/ ToBeRefreshed(r) \/ ToFail

(* What was notified is shown eventually, over lost connections and resyncs,  *)
(* unless the user opens another workspace or a query fails.                 *)
ViewCatchesUp ==
    \A w \in Workspaces : \A r \in 2..LastRevision[w] :
        (view.workspace = w /\ (\E i \in DOMAIN outbox[w] : outbox[w][i] = r))
            ~> (snapshots[w] >= r \/ view.workspace # w \/ lost)

-----------------------------------------------------------------------------
(* What the safety properties rest on.                                       *)

(* A query that is current belongs to the workspace that is open, and its     *)
(* kind says how far opening it came.                                        *)
QueriesArePlaced ==
    \A q \in queries : Current(q) =>
        /\ q.workspace = view.workspace
        /\ q.kind = "bootstrap" => view.kind = "bootstrapping" /\ stream.phase = "closed"
        /\ q.kind = "probe" => Shown /\ stream.phase = "closed"
        /\ q.kind = "refresh" => Shown

OneOfAKind ==
    \A p, q \in queries : Live(p) /\ Live(q) /\ p.kind = q.kind => p = q

(* An answer is what the database was at one moment, not older than what is   *)
(* shown when it will be looked at.                                          *)
AnswersAreTrue ==
    \A q \in queries :
        /\ (q.answer = "ok" \/ q.kind = "probe") => q.cursor <= Len(outbox[q.workspace])
        /\ (q.answer = "ok" /\ q.kind # "probe") =>
              /\ q.revision <= revision[q.workspace]
              /\ \A i \in 1..q.cursor : outbox[q.workspace][i] <= q.revision
              /\ Live(q) => snapshots[q.workspace] <= q.revision

(* A stream, or the probe that will open it, goes with what is shown.        *)
StreamIsAttended ==
    /\ stream.phase # "closed" => Shown
    /\ (Shown /\ ~lost) => \/ stream.phase # "closed"
                           \/ \E q \in queries : q.kind = "probe" /\ Live(q)

ClientIInv ==
    /\ ClientTypeOK
    /\ QueriesArePlaced
    /\ OneOfAKind
    /\ AnswersAreTrue
    /\ StreamIsAttended
    /\ NotificationsAreCovered
=============================================================================
