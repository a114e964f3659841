---------------------------- MODULE ResearchViews ----------------------------
(***************************************************************************)
(* What a browser shows of a workspace in pieces (ResearchViews.tsx): the  *)
(* text that a turn's model still writes, delta by delta, and the trace of *)
(* the workspace, page by page.                                            *)
(*                                                                         *)
(* The deltas of send_stream and ModelGatewayService go through            *)
(* EphemeralModelDeltaHub and the model-deltas endpoint to                 *)
(* ModelDeltaStream, and LiveAssistantMessage shows what                   *)
(* projectProviderText finds in them.  One turn and one page: its calls    *)
(* follow each other and each writes one of Messages, deltas of a few      *)
(* tokens as the provider sends them and the text that a reader is meant   *)
(* to see.  A token of a string stands for a character or a whole escape.  *)
(*                                                                         *)
(* The pages of the trace are those of journal_page                        *)
(* (research_view_query.py), which TraceView reads while commits go on    *)
(* adding entries.  An entry is its revision and its ordinal in the        *)
(* commit; a cursor is what the codec signs: the frozen revision and the   *)
(* last entry of a page.                                                   *)
(***************************************************************************)
EXTENDS Integers, Sequences, FiniteSets
Seqs == INSTANCE SequencesExt

CONSTANTS Messages,
          MaxCalls,      \* bound on the calls of the turn
          HistoryCapacity,  \* history_capacity
          QueueCapacity,    \* queue_capacity
          MaxMounts,        \* bound on how often the page is shown anew
          MaxBreaks         \* bound on lost connections and expired histories

ASSUME DeltaAssumption ==
    /\ MaxCalls \in Nat \ {0} /\ HistoryCapacity \in Nat \ {0} /\ QueueCapacity \in Nat \ {0}
    /\ MaxMounts \in Nat /\ MaxBreaks \in Nat
    /\ \A m \in Messages : m.deltas \in Seq(Seq(STRING))

VARIABLES message,   \* what each call writes
          sent,      \* how many deltas of each call were published
          writing,   \* the call that writes
          history,   \* _history of the turn
          queue,     \* the queue of the subscriber
          backlog,   \* what subscribe has still to yield of the history
          link,      \* the connection of the page
          seen,      \* #seen
          raw,       \* rawByAttempt, as the numbers of the deltas
          mounts, breaks,
          missed     \* history: a delta was dropped that this page had not seen

deltaVars == <<message, sent, writing, history, queue, backlog, link, seen, raw,
               mounts, breaks, missed>>

Calls == 1..MaxCalls

DeltaInit ==
    /\ message \in [Calls -> Messages]
    /\ sent = [a \in Calls |-> 0]
    /\ writing = 1
    /\ history = << >> /\ queue = << >> /\ backlog = << >>
    /\ link = "closed"
    /\ seen = {}
    /\ raw = [a \in Calls |-> << >>]
    /\ mounts = 0 /\ breaks = 0
    /\ missed = FALSE

-----------------------------------------------------------------------------
(* projectProviderText, token by token.                                     *)

(* Outside of strings, a brace changes the depth and a quote opens a name.   *)
ScanOutside(scan, token) ==
    CASE token = "{" -> [scan EXCEPT !.depth = @ + 1, !.mode = "outside"]
      [] token = "}" -> [scan EXCEPT !.depth = IF @ = 0 THEN 0 ELSE @ - 1, !.mode = "outside"]
      [] token = "q" -> [scan EXCEPT !.mode = "name", !.word = << >>]
      [] OTHER -> [scan EXCEPT !.mode = "outside"]

(* Where the scan stands after one more token of the source.                *)
Scan(scan, token) ==
    CASE scan.mode = "outside" -> ScanOutside(scan, token)
      [] scan.mode = "name" /\ token # "q" -> [scan EXCEPT !.word = Append(@, token)]
      [] scan.mode = "name" /\ token = "q" ->
            [scan EXCEPT !.mode = IF scan.depth = 1 /\ scan.word = <<"text">> THEN "named"
                                  ELSE "outside"]
      [] scan.mode = "named" -> IF token = ":" THEN [scan EXCEPT !.mode = "value"]
                                ELSE ScanOutside(scan, token)
      [] scan.mode = "value" -> [scan EXCEPT !.mode = IF token = "q" THEN "text" ELSE "none"]
      [] scan.mode = "text" -> IF token = "q" THEN [scan EXCEPT !.mode = "complete"]
                               ELSE [scan EXCEPT !.text = Append(@, token)]
      [] OTHER -> scan

ProjectProviderText(tokens) ==
    Seqs!FoldLeft(Scan, [mode |-> "outside", depth |-> 0, word |-> << >>, text |-> << >>], tokens).text

(* The projection shows of every beginning of a message's call a beginning of *)
(* the text it is meant to show: what provider-text-projection.ts promises of *)
(* one source.                                                               *)
ProjectsPrefixes ==
    \A m \in Messages : \A n \in 0..Len(m.deltas) :
        Seqs!IsPrefix(ProjectProviderText(Seqs!FlattenSeq([i \in 1..n |-> m.deltas[i]])), m.text)

-----------------------------------------------------------------------------
(* The hub.                                                                 *)

Recorded(event) ==
    LET longer == Append(history, event)
    IN IF Len(longer) > HistoryCapacity THEN Tail(longer) ELSE longer

Subscribed == link = "open"

(* The provider sends the next delta, emit_delta numbers it and publish      *)
(* hands it on; a full queue loses its oldest.                               *)
Publish ==
    LET event == <<writing, sent[writing] + 1>>
        full == Len(queue) = QueueCapacity
    IN /\ sent[writing] < Len(message[writing].deltas)
       /\ sent' = [sent EXCEPT ![writing] = @ + 1]
       /\ history' = Recorded(event)
       /\ IF Subscribed THEN /\ queue' = Append(IF full THEN Tail(queue) ELSE queue, event)
                             /\ missed' = (missed \/ (full /\ Head(queue) \notin seen))
          ELSE UNCHANGED <<queue, missed>>
       /\ UNCHANGED <<message, writing, backlog, link, seen, raw, mounts, breaks>>

(* The turn's next call, after its tools have run.                           *)
NextCall ==
    /\ sent[writing] = Len(message[writing].deltas) /\ writing < MaxCalls
    /\ writing' = writing + 1
    /\ UNCHANGED <<message, sent, history, queue, backlog, link, seen, raw, mounts, breaks, missed>>

(* _prune_history after fifteen minutes, or the histories of other turns.    *)
HistoryExpires ==
    /\ breaks < MaxBreaks /\ history # << >>
    /\ breaks' = breaks + 1
    /\ history' = << >>
    /\ UNCHANGED <<message, sent, writing, queue, backlog, link, seen, raw, mounts, missed>>

(* What the page has neither seen nor can still be told.                     *)
Unreachable ==
    (UNION {{<<a, n>> : n \in 1..sent[a]} : a \in Calls}) \ (seen \cup Seqs!Range(history))

(* Mutant: a subscriber is told what is published from now on.               *)
SubscribeFromNow ==
    /\ link = "connecting"
    /\ link' = "open"
    /\ queue' = << >> /\ backlog' = << >>
    /\ missed' = (missed \/ Unreachable # {})
    /\ UNCHANGED <<message, sent, writing, history, seen, raw, mounts, breaks>>

(* The endpoint answers and subscribe begins: nothing is published between   *)
(* the registration of the queue and the reading of the history.             *)
Subscribe ==
    /\ link = "connecting"
    /\ link' = "open"
    /\ queue' = << >> /\ backlog' = history
    /\ missed' = (missed \/ Unreachable # {})
    /\ UNCHANGED <<message, sent, writing, history, seen, raw, mounts, breaks>>

-----------------------------------------------------------------------------
(* The page.                                                                *)

(* onEvent and acceptDelta.                                                  *)
Accept(event) ==
    IF event \in seen THEN UNCHANGED <<seen, raw>>
    ELSE /\ seen' = seen \cup {event}
         /\ raw' = [raw EXCEPT ![event[1]] = Append(@, event[2])]

(* What subscribe yields, first the history and then the queue.              *)
Deliver ==
    /\ Subscribed
    /\ \/ /\ backlog # << >>
          /\ Accept(Head(backlog))
          /\ backlog' = Tail(backlog)
          /\ UNCHANGED queue
       \/ /\ backlog = << >> /\ queue # << >>
          /\ Accept(Head(queue))
          /\ queue' = Tail(queue)
          /\ UNCHANGED backlog
    /\ UNCHANGED <<message, sent, writing, history, link, mounts, breaks, missed>>

LinkWaits ==
    /\ link' = "waiting"
    /\ queue' = << >> /\ backlog' = << >>

(* Ten seconds without a delta: the wait that is cancelled closes subscribe, *)
(* the next one fails, and the connection ends after one keepalive.          *)
Silence ==
    /\ Subscribed /\ backlog = << >> /\ queue = << >>
    /\ breaks < MaxBreaks
    /\ breaks' = breaks + 1
    /\ LinkWaits
    /\ UNCHANGED <<message, sent, writing, history, seen, raw, mounts, missed>>

(* The connection is refused, or lost with what was under way.               *)
Breaks ==
    /\ link \in {"connecting", "open"}
    /\ breaks < MaxBreaks
    /\ breaks' = breaks + 1
    /\ LinkWaits
    /\ UNCHANGED <<message, sent, writing, history, seen, raw, mounts, missed>>

Reconnects ==
    /\ link = "waiting"
    /\ link' = "connecting"
    /\ UNCHANGED <<message, sent, writing, history, queue, backlog, seen, raw, mounts, breaks, missed>>

(* The conversation is shown, or read again at a new workspace revision:     *)
(* while it loads the live message is taken away, and begins anew.           *)
Mount ==
    /\ mounts < MaxMounts
    /\ mounts' = mounts + 1
    /\ link' = "connecting"
    /\ queue' = << >> /\ backlog' = << >>
    /\ seen' = {}
    /\ raw' = [a \in Calls |-> << >>]
    /\ missed' = FALSE
    /\ UNCHANGED <<message, sent, writing, history, breaks>>

DeltaNext ==
    \/ Publish \/ NextCall \/ HistoryExpires \/ Subscribe
    \/ Deliver \/ Silence \/ Breaks \/ Reconnects \/ Mount

DeltaSpec == DeltaInit /\ [][DeltaNext]_deltaVars
-----------------------------------------------------------------------------
Content(a) == Seqs!FlattenSeq([i \in DOMAIN raw[a] |-> message[a].deltas[raw[a][i]]])

(* As long as neither the history nor the queue dropped a delta that the page *)
(* had not seen, it has every call from its first delta on, in order and      *)
(* without repetition, however often it reconnected or was shown anew; it has *)
(* all that was sent once nothing is under way; and it shows the beginning of *)
(* the text the reader is meant to see, never that of a tool call             *)
(* (EphemeralModelDeltaHub, model-delta-stream.ts and                         *)
(* provider-text-projection.ts together).                                    *)
LiveTextIsTheAnswer ==
    ~missed =>
      \A a \in Calls :
          /\ raw[a] = [i \in 1..Len(raw[a]) |-> i]
          /\ Subscribed /\ backlog = << >> /\ queue = << >> => Len(raw[a]) = sent[a]
          /\ Seqs!IsPrefix(ProjectProviderText(Content(a)), message[a].text)

(* What provider-text-projection.ts says of every source: that the JSON of a  *)
(* tool call never becomes visible.  It does not hold when the first deltas   *)
(* of a call have left the history.                                          *)
ToolCallsStayHidden ==
    \A a \in Calls : Seqs!Range(ProjectProviderText(Content(a))) \subseteq Seqs!Range(message[a].text)
-----------------------------------------------------------------------------
(* The trace.                                                               *)

CONSTANTS PageSize,      \* page_size
          MaxJournal,    \* bound on the revisions
          MaxOrdinal,    \* bound on the entries of a commit
          MaxVisits      \* bound on how often the trace is read from the start

ASSUME JournalAssumption ==
    /\ PageSize \in Nat \ {0} /\ MaxJournal \in Nat /\ MaxOrdinal \in Nat \ {0} /\ MaxVisits \in Nat

VARIABLES journal,    \* journal_entries
          head,       \* the revision of the workspace
          pages,      \* pages in TraceView
          phase,      \* state in TraceView, and the request under way
          visits

journalVars == <<journal, head, pages, phase, visits>>

NoCursor == [asOf |-> 0, boundary |-> <<0, 0>>]

JournalInit ==
    /\ journal = {} /\ head = 0
    /\ pages = << >>
    /\ phase = [state |-> "closed", cursor |-> NoCursor, page |-> << >>]
    /\ visits = 0

(* A commit, with the entries that it records.                               *)
Record ==
    /\ head < MaxJournal
    /\ head' = head + 1
    /\ \E n \in 0..MaxOrdinal : journal' = journal \cup {<<head + 1, o>> : o \in 1..n}
    /\ UNCHANGED <<pages, phase, visits>>

-----------------------------------------------------------------------------
Above(e, f) == e[1] > f[1] \/ (e[1] = f[1] /\ e[2] > f[2])
Newest(entries) ==
    [i \in 1..Cardinality(entries) |->
        CHOOSE e \in entries : Cardinality({f \in entries : Above(f, e)}) = i - 1]

(* Mutant: a page begins at the commit behind the boundary.                  *)
BehindCommit(cursor) == {e \in journal : cursor = NoCursor \/ cursor.boundary[1] > e[1]}

Behind(cursor) == {e \in journal : cursor = NoCursor \/ Above(cursor.boundary, e)}

(* journal_page, newest first: the window is frozen by the first page.       *)
JournalPage(cursor) ==
    LET asOf == IF cursor = NoCursor THEN head ELSE cursor.asOf
        rows == Newest({e \in Behind(cursor) : e[1] <= asOf})
        items == SubSeq(rows, 1, IF Len(rows) > PageSize THEN PageSize ELSE Len(rows))
    IN [items |-> items, asOf |-> asOf,
        next |-> IF Len(rows) > PageSize THEN [asOf |-> asOf, boundary |-> Seqs!Last(items)] ELSE NoCursor,
        newer |-> \E e \in journal : e[1] > asOf]

(* The view is shown, or read anew; a request it had is aborted.             *)
ReadTrace ==
    /\ phase.state \in {"closed", "ready", "first"} /\ visits < MaxVisits
    /\ visits' = visits + 1
    /\ pages' = << >>
    /\ phase' = [state |-> "first", cursor |-> NoCursor, page |-> << >>]
    /\ UNCHANGED <<journal, head>>

(* While more is loaded nothing else can be asked for.                       *)
LoadMore ==
    /\ phase.state = "ready" /\ Seqs!Last(pages).next # NoCursor
    /\ phase' = [state |-> "more", cursor |-> Seqs!Last(pages).next, page |-> << >>]
    /\ UNCHANGED <<journal, head, pages, visits>>

JournalEntries ==
    /\ phase.state \in {"first", "more"} /\ phase.page = << >>
    /\ phase' = [phase EXCEPT !.page = <<JournalPage(phase.cursor)>>]
    /\ UNCHANGED <<journal, head, pages, visits>>

PageArrives ==
    /\ phase.state \in {"first", "more"} /\ phase.page # << >>
    /\ pages' = IF phase.state = "first" THEN phase.page ELSE pages \o phase.page
    /\ phase' = [state |-> "ready", cursor |-> phase.cursor, page |-> << >>]
    /\ UNCHANGED <<journal, head, visits>>

PageFails ==
    /\ phase.state \in {"first", "more"}
    /\ phase' = [state |-> "error", cursor |-> phase.cursor, page |-> << >>]
    /\ UNCHANGED <<journal, head, pages, visits>>

JournalNext == Record \/ ReadTrace \/ LoadMore \/ JournalEntries \/ PageArrives \/ PageFails

JournalSpec == JournalInit /\ [][JournalNext]_journalVars
-----------------------------------------------------------------------------
(* The i-th page of a list.                                                  *)
PageOf(list, i) ==
    SubSeq(list, (i - 1) * PageSize + 1,
           IF i * PageSize < Len(list) THEN i * PageSize ELSE Len(list))

(* However many commits fall between two pages, what the trace shows is the   *)
(* beginning of one window of the journal, that of the revision its first     *)
(* page froze, newest entry first, page by page with none left out or         *)
(* repeated; and a trace that offers no more is the whole window.             *)
TraceIsOneWindow ==
    pages # << >> =>
      LET window == Newest({e \in journal : e[1] <= pages[1].asOf})
      IN /\ \A i \in DOMAIN pages : pages[i].items = PageOf(window, i)
         /\ Seqs!Last(pages).next = NoCursor <=> Len(window) <= Len(pages) * PageSize
=============================================================================
