---------------------------- MODULE ExecutionPool ----------------------------
(***************************************************************************)
(* WorkspaceExecutionPool (runtime/workspace_execution.py) over            *)
(* StdioStataRuntime (stata/stdio_runtime.py), called by                   *)
(* StataOperationService.execute: one entry and one Stata session per      *)
(* execution scope, all of them on one MCP host.                           *)
(*                                                                         *)
(* The pool lives in one asyncio loop, so a step runs from one await to    *)
(* the next.  No code awaits while it holds entries_lock, which therefore  *)
(* needs no state; start_lock and operation_lock do.  A request is asked,  *)
(* served by the host, and only then resumes its caller.                   *)
(*                                                                         *)
(* The host is the vendored stata-mcp server.  It is modelled from the     *)
(* tools the runtime calls: opening a session binds it to a directory,     *)
(* running in a session it does not know creates one in the directory of   *)
(* the host, and closing one that it does not know does nothing.           *)
(***************************************************************************)
EXTENDS Integers, Sequences

CONSTANTS Scopes,      \* execution scopes, each with its session and directory
          Callers,     \* tasks that use the pool
          ScopeOf,     \* the scope of each of them
          Operations,  \* what they call: see Begin, Close
          Faults,      \* what may go wrong: see StartFails, ServeOpen, Answer, CloseFails,
                       \* Return, HostReaps, HostExits
          NoCaller,
          MaxCalls,    \* bound on the calls of one caller
          MaxRuntimes  \* bound on the runtimes the pool creates

ASSUME PoolAssumption ==
    /\ ScopeOf \in [Callers -> Scopes]
    /\ NoCaller \notin Callers
    /\ Operations \subseteq {"execute", "prepare", "abort", "close_scope", "close", "shutdown"}
    /\ Faults \subseteq {"start", "open", "uncertain", "raised", "close", "gate", "idle", "exit"}
    /\ MaxCalls \in Nat /\ MaxRuntimes \in Nat \ {0}
VARIABLES entries,   \* _entries: of each scope its entry, 0 for none
          made,      \* the _RuntimeEntry objects, in the order of their creation
          runtime,   \* _runtime, 0 for None
          built,     \* runtimes created so far
          up,        \* the runtimes whose transport has an owner task
          bindings,  \* of each runtime, _session_working_directories
          sessions,  \* of each runtime's host, its sessions
          lost,      \* history: the sessions that ended under a healthy entry, or
                     \* that a failed close left without their directory
          call,      \* where each caller is
          calls,     \* how many calls it made
          closing    \* the progress of close()

poolVars == <<entries, made, runtime, built>>
hostVars == <<up, bindings, sessions, lost>>
callVars == <<call, calls>>
vars == <<entries, made, runtime, built, up, bindings, sessions, lost, call, calls, closing>>

NoEntry == 0
NoRuntime == 0
Runtimes == 1..MaxRuntimes
Directories == {"absent", "bound", "unbound"}
Requests == {"none", "asked", "serving", "ok", "uncertain", "failed"}
Places == {"rest", "start", "opening", "run", "running", "discarding",
           "close", "closelock", "scopelock", "closing"}

Entry(k, r) == [scope |-> k, runtime |-> r, started |-> FALSE, tainted |-> FALSE,
                starter |-> NoCaller,  \* who holds start_lock
                worker |-> NoCaller]   \* who holds operation_lock
Resting == [op |-> "execute", at |-> "rest", entry |-> NoEntry,
            runtime |-> NoRuntime, request |-> "none"]
NotClosing == [active |-> FALSE, left |-> {}]

Init ==
    /\ entries = [k \in Scopes |-> NoEntry]
    /\ made = << >>
    /\ runtime = NoRuntime
    /\ built = 0
    /\ up = {}
    /\ bindings = [r \in Runtimes |-> {}]
    /\ sessions = [r \in Runtimes |-> [k \in Scopes |-> "absent"]]
    /\ lost = [r \in Runtimes |-> {}]
    /\ call = [c \in Callers |-> Resting]
    /\ calls = [c \in Callers |-> 0]
    /\ closing = NotClosing

(* _submit: the transport is started when it has no owner, and the request   *)
(* is queued.                                                               *)
Ask(c, e, r, place) ==
    /\ up' = up \cup {r}
    /\ call' = [call EXCEPT ![c] = [op |-> call[c].op, at |-> place, entry |-> e,
                                    runtime |-> r, request |-> "asked"]]
    /\ UNCHANGED <<bindings, sessions, lost>>

(* The table without entry e of scope k, if it is still there.              *)
Without(k, e) == IF entries[k] = e THEN [entries EXCEPT ![k] = NoEntry] ELSE entries

-----------------------------------------------------------------------------
(* The entry of a scope.                                                    *)

GoesToStart(c, op, e) ==
    call' = [call EXCEPT ![c] = [op |-> op, at |-> "start", entry |-> e,
                                 runtime |-> NoRuntime, request |-> "none"]]

FindEntry(c, op, M) ==
    LET e == entries[ScopeOf[c]]
    IN /\ e # NoEntry /\ ~M[e].tainted
       /\ made' = M
       /\ GoesToStart(c, op, e)
       /\ UNCHANGED <<entries, runtime, built>>

MakeEntry(c, op, M) ==
    LET r == IF runtime = NoRuntime THEN built + 1 ELSE runtime
        e == Len(M) + 1
    IN /\ made' = Append(M, Entry(ScopeOf[c], r))
       /\ entries' = [entries EXCEPT ![ScopeOf[c]] = e]
       /\ runtime' = r
       /\ built' = IF runtime = NoRuntime THEN r ELSE built
       /\ GoesToStart(c, op, e)

(* Mutant: an entry is made without looking for one.                        *)
EnterAnew(c, op, M) == MakeEntry(c, op, M)

(* _entry up to start_lock: the entry of the scope, or a new one.  M is made *)
(* without what the caller has just released.                               *)
EnterPool(c, op, M) ==
    \/ FindEntry(c, op, M)
    \/ /\ entries[ScopeOf[c]] # NoEntry => M[entries[ScopeOf[c]]].tainted
       /\ MakeEntry(c, op, M)

(* What a caller does with a started entry: prepare is over.                *)
AfterStart(c) ==
    IF call[c].op = "prepare" THEN call' = [call EXCEPT ![c] = Resting]
    ELSE call' = [call EXCEPT ![c] = [call[c] EXCEPT !.at = "run", !.request = "none"]]

(* Mutant: a session that failed to open is believed not to exist.           *)
StartRaisesOnly(c) ==
    LET e == call[c].entry
    IN /\ made' = [made EXCEPT ![e] = [made[e] EXCEPT !.tainted = TRUE, !.starter = NoCaller]]
       /\ entries' = Without(ScopeOf[c], e)
       /\ call' = [call EXCEPT ![c] = Resting]
       /\ UNCHANGED <<runtime, built>>

(* _entry raised: the service of an execution still closes the session.     *)
StartRaises(c) ==
    LET e == call[c].entry
    IN /\ made' = [made EXCEPT ![e] = [made[e] EXCEPT !.tainted = TRUE, !.starter = NoCaller]]
       /\ entries' = Without(ScopeOf[c], e)
       /\ call' = [call EXCEPT ![c] = IF call[c].op = "prepare" THEN Resting
                                      ELSE [Resting EXCEPT !.at = "close"]]
       /\ UNCHANGED <<runtime, built>>

StartLocked(c) ==
    /\ call[c].at = "start"
    /\ made[call[c].entry].starter = NoCaller

AlreadyStarted(c) ==
    /\ StartLocked(c)
    /\ made[call[c].entry].started
    /\ AfterStart(c)
    /\ UNCHANGED <<poolVars, hostVars, calls, closing>>

(* start(), then configure_session_workspace, which asks the host only for   *)
(* a session that it does not remember.                                     *)
Configure(c) ==
    LET e == call[c].entry
        r == made[e].runtime
    IN /\ StartLocked(c)
       /\ ~made[e].started
       /\ \/ /\ ScopeOf[c] \in bindings[r]
             /\ up' = up \cup {r}
             /\ made' = [made EXCEPT ![e].started = TRUE]
             /\ AfterStart(c)
             /\ UNCHANGED <<bindings, sessions, lost>>
          \/ /\ ScopeOf[c] \notin bindings[r]
             /\ made' = [made EXCEPT ![e].starter = c]
             /\ Ask(c, e, r, "opening")
       /\ UNCHANGED <<entries, runtime, built, calls, closing>>

StartFails(c) ==
    /\ "start" \in Faults
    /\ StartLocked(c)
    /\ ~made[call[c].entry].started
    /\ made[call[c].entry].runtime \notin up
    /\ StartRaises(c)
    /\ UNCHANGED <<hostVars, calls, closing>>

Opened(c) ==
    LET e == call[c].entry
    IN /\ call[c].at = "opening"
       /\ call[c].request = "ok"
       /\ bindings' = [bindings EXCEPT ![call[c].runtime] = @ \cup {ScopeOf[c]}]
       /\ made' = [made EXCEPT ![e] = [made[e] EXCEPT !.started = TRUE, !.starter = NoCaller]]
       /\ AfterStart(c)
       /\ UNCHANGED <<entries, runtime, built, up, sessions, lost, calls, closing>>

OpenRaises(c) ==
    /\ call[c].at = "opening"
    /\ call[c].request = "failed"
    /\ StartRaises(c)
    /\ UNCHANGED <<hostVars, calls, closing>>

-----------------------------------------------------------------------------
(* The calls.                                                               *)

(* A new call of a caller.  Nobody calls a pool that is being shut down.     *)
Calls(c) ==
    /\ call[c].at = "rest"
    /\ closing.active => "close" \in Operations
    /\ calls[c] < MaxCalls
    /\ calls' = [calls EXCEPT ![c] = @ + 1]

(* prepare() and execute().  That the turn still owns the write lane, which  *)
(* both check first, is TurnLane's to say.                                  *)
Begin(c, op) ==
    /\ op \in Operations
    /\ Calls(c)
    /\ EnterPool(c, op, made)
    /\ UNCHANGED <<hostVars, closing>>

RunLocked(c) ==
    /\ call[c].at = "run"
    /\ made[call[c].entry].worker = NoCaller

Run(c) ==
    LET e == call[c].entry
    IN /\ RunLocked(c)
       /\ ~made[e].tainted
       /\ made' = [made EXCEPT ![e].worker = c]
       /\ Ask(c, e, made[e].runtime, "running")
       /\ UNCHANGED <<entries, runtime, built, calls, closing>>

(* The entry was given up while the caller waited for operation_lock.        *)
RunAgain(c) ==
    /\ RunLocked(c)
    /\ made[call[c].entry].tainted
    /\ EnterPool(c, call[c].op, made)
    /\ UNCHANGED <<hostVars, calls, closing>>

(* A certain result.  The service closes the session nevertheless when the   *)
(* sensitive output gate turns the result down.                             *)
Return(c) ==
    /\ call[c].at = "running"
    /\ call[c].request = "ok"
    /\ made' = [made EXCEPT ![call[c].entry].worker = NoCaller]
    /\ \/ call' = [call EXCEPT ![c] = Resting]
       \/ /\ "gate" \in Faults
          /\ call' = [call EXCEPT ![c] = [Resting EXCEPT !.at = "close"]]
    /\ UNCHANGED <<entries, runtime, built, hostVars, calls, closing>>

(* Mutant: the session is closed as _close_session closes it, which waits    *)
(* for the lock that the caller holds.                                      *)
DiscardByClosing(c) ==
    LET e == call[c].entry
    IN /\ call[c].at = "running"
       /\ call[c].request \in {"uncertain", "failed"}
       /\ made' = [made EXCEPT ![e].tainted = TRUE]
       /\ entries' = Without(ScopeOf[c], e)
       /\ call' = [call EXCEPT ![c] = [call[c] EXCEPT !.at = "closelock", !.request = "none"]]
       /\ UNCHANGED <<runtime, built, hostVars, calls, closing>>

(* An uncertain result or an exception: _discard, inside operation_lock.     *)
Discard(c) ==
    LET e == call[c].entry
    IN /\ call[c].at = "running"
       /\ call[c].request \in {"uncertain", "failed"}
       /\ made' = [made EXCEPT ![e].tainted = TRUE]
       /\ entries' = Without(ScopeOf[c], e)
       /\ Ask(c, e, made[e].runtime, "discarding")
       /\ UNCHANGED <<runtime, built, calls, closing>>

(* Mutant: the runtime still takes the closed session for configured.        *)
ForgetNothing(c) == UNCHANGED bindings

(* A close that the host answered is forgotten by the runtime as well.       *)
Forget(c) ==
    bindings' = IF call[c].request = "ok"
                THEN [bindings EXCEPT ![call[c].runtime] = @ \ {ScopeOf[c]}]
                ELSE bindings

(* The session is closed, or its close failed, which is ignored; then the    *)
(* service closes it once more.                                             *)
Discarded(c) ==
    /\ call[c].at = "discarding"
    /\ call[c].request \in {"ok", "failed"}
    /\ Forget(c)
    /\ made' = [made EXCEPT ![call[c].entry].worker = NoCaller]
    /\ call' = [call EXCEPT ![c] = [Resting EXCEPT !.at = "close"]]
    /\ UNCHANGED <<entries, runtime, built, up, sessions, lost, calls, closing>>

(* _close_session, which leaves the entry as it is.                          *)
CloseSession(c) ==
    LET e == entries[ScopeOf[c]]
    IN /\ call[c].at = "close"
       /\ \/ /\ e # NoEntry
             /\ call' = [call EXCEPT ![c] = [call[c] EXCEPT !.at = "closelock", !.entry = e]]
             /\ UNCHANGED hostVars
          \/ /\ e = NoEntry
             /\ runtime # NoRuntime
             /\ Ask(c, NoEntry, runtime, "closing")
          \/ /\ e = NoEntry
             /\ runtime = NoRuntime
             /\ call' = [call EXCEPT ![c] = Resting]
             /\ UNCHANGED hostVars
       /\ UNCHANGED <<poolVars, calls, closing>>

CloseLocked(c) ==
    LET e == call[c].entry
    IN /\ call[c].at = "closelock"
       /\ made[e].worker = NoCaller
       /\ made' = [made EXCEPT ![e].worker = c]
       /\ Ask(c, e, made[e].runtime, "closing")
       /\ UNCHANGED <<entries, runtime, built, calls, closing>>

Closed(c) ==
    /\ call[c].at = "closing"
    /\ call[c].request \in {"ok", "failed"}
    /\ Forget(c)
    /\ made' = IF call[c].entry = NoEntry THEN made
               ELSE [made EXCEPT ![call[c].entry].worker = NoCaller]
    /\ call' = [call EXCEPT ![c] = Resting]
    /\ UNCHANGED <<entries, runtime, built, up, sessions, lost, calls, closing>>

(* abort_scope: the entry is given up without waiting for operation_lock.    *)
Abort(c) ==
    LET e == entries[ScopeOf[c]]
    IN /\ "abort" \in Operations
       /\ Calls(c)
       /\ e # NoEntry
       /\ entries' = Without(ScopeOf[c], e)
       /\ made' = [made EXCEPT ![e].tainted = TRUE]
       /\ IF made[e].started THEN Ask(c, NoEntry, made[e].runtime, "closing")
          ELSE UNCHANGED <<call, hostVars>>
       /\ UNCHANGED <<runtime, built, closing>>

(* close_scope takes the entry out of the table and then waits for it.       *)
CloseScope(c) ==
    LET e == entries[ScopeOf[c]]
    IN /\ "close_scope" \in Operations
       /\ Calls(c)
       /\ e # NoEntry
       /\ entries' = Without(ScopeOf[c], e)
       /\ call' = [call EXCEPT ![c] = [Resting EXCEPT !.at = "scopelock", !.entry = e]]
       /\ UNCHANGED <<made, runtime, built, hostVars, closing>>

CloseScopeLocked(c) ==
    LET e == call[c].entry
    IN /\ call[c].at = "scopelock"
       /\ made[e].worker = NoCaller
       /\ IF made[e].started
          THEN /\ made' = [made EXCEPT ![e] = [made[e] EXCEPT !.tainted = TRUE, !.worker = c]]
               /\ Ask(c, e, made[e].runtime, "closing")
          ELSE /\ made' = [made EXCEPT ![e].tainted = TRUE]
               /\ call' = [call EXCEPT ![c] = Resting]
               /\ UNCHANGED hostVars
       /\ UNCHANGED <<entries, runtime, built, calls, closing>>

-----------------------------------------------------------------------------
(* close() of the pool, which the service calls once the supervisor has      *)
(* awaited every turn ("shutdown"), and which anyone may call ("close").     *)

Close ==
    /\ \/ "close" \in Operations
       \/ "shutdown" \in Operations /\ \A c \in Callers : call[c].at = "rest"
    /\ ~closing.active
    /\ runtime # NoRuntime
    /\ built < MaxRuntimes
    /\ LET taken == {entries[k] : k \in Scopes} \ {NoEntry}
       IN /\ made' = [e \in DOMAIN made |->
                         IF e \in taken THEN [made[e] EXCEPT !.tainted = TRUE] ELSE made[e]]
          /\ closing' = [active |-> TRUE, left |-> {e \in taken : made[e].started}]
    /\ entries' = [k \in Scopes |-> NoEntry]
    /\ UNCHANGED <<runtime, built, hostVars, callVars>>

(* What a request of another caller comes to when its session is closed.     *)
Killed(r, k) ==
    [c \in Callers |->
        IF call[c].request = "serving" /\ call[c].runtime = r /\ ScopeOf[c] = k
        THEN [call[c] EXCEPT !.request = "uncertain"] ELSE call[c]]

(* stata_session_close ends whatever runs in the session.                    *)
SessionGoes(r, k) == sessions' = [sessions EXCEPT ![r][k] = "absent"]

(* A close can raise while the host lives: the host answers with an error or *)
(* with what close_session turns down, or not within 15 seconds.  The host   *)
(* serves one request after the other, so that the session is gone or stays  *)
(* when the next one is served; the runtime keeps its binding either way.    *)
CloseFails(r, k) ==
    /\ "close" \in Faults
    /\ SessionGoes(r, k) \/ UNCHANGED sessions
    /\ lost' = IF sessions'[r][k] = "bound" THEN lost ELSE [lost EXCEPT ![r] = @ \cup {k}]

(* The calls while a close of session k is served.                           *)
AfterClose(r, k) == IF sessions'[r][k] = "absent" THEN Killed(r, k) ELSE call

(* One of the gathered close_session calls, from its request to its answer.  *)
CloseTaken(e) ==
    LET k == made[e].scope
        r == made[e].runtime
    IN /\ e \in closing.left
       /\ closing' = [closing EXCEPT !.left = @ \ {e}]
       /\ up' = up \cup {r}
       /\ \/ /\ SessionGoes(r, k)
             /\ bindings' = [bindings EXCEPT ![r] = @ \ {k}]
             /\ UNCHANGED lost
          \/ /\ CloseFails(r, k)
             /\ UNCHANGED bindings
       /\ call' = AfterClose(r, k)
       /\ UNCHANGED <<poolVars, calls>>

(* The host of runtime r is gone: whoever waits for an answer gets an error. *)
Down(r) ==
    /\ up' = up \ {r}
    /\ sessions' = [sessions EXCEPT ![r] = [k \in Scopes |-> "absent"]]
    /\ lost' = [lost EXCEPT ![r] = Scopes]
    /\ call' = [c \in Callers |->
                   IF call[c].runtime = r /\ call[c].request \in {"asked", "serving"}
                   THEN [call[c] EXCEPT !.request = "failed"] ELSE call[c]]

CloseRuntime ==
    /\ closing.active
    /\ closing.left = {}
    /\ runtime' = NoRuntime
    /\ Down(runtime)
    /\ bindings' = [bindings EXCEPT ![runtime] = {}]
    /\ closing' = NotClosing
    /\ UNCHANGED <<entries, made, built, calls>>

-----------------------------------------------------------------------------
(* The host.                                                                *)

Asked(c, place) ==
    /\ call[c].at = place
    /\ call[c].request = "asked"

(* stata_session_open.  A session that could not enter its directory stays.  *)
ServeOpen(c) ==
    LET r == call[c].runtime
    IN /\ Asked(c, "opening")
       /\ \/ /\ sessions' = [sessions EXCEPT ![r][ScopeOf[c]] = "bound"]
             /\ lost' = [lost EXCEPT ![r] = @ \ {ScopeOf[c]}]
             /\ call' = [call EXCEPT ![c].request = "ok"]
          \/ /\ "open" \in Faults
             /\ sessions' = [sessions EXCEPT ![r][ScopeOf[c]] =
                                IF @ = "absent" THEN "unbound" ELSE @]
             /\ call' = [call EXCEPT ![c].request = "failed"]
             /\ UNCHANGED lost
       /\ UNCHANGED <<poolVars, up, bindings, calls, closing>>

(* stata_run takes the session, or makes one, and waits for its turn in it.  *)
ServeRun(c) ==
    LET r == call[c].runtime
    IN /\ Asked(c, "running")
       /\ \A d \in Callers : call[d].request = "serving" /\ call[d].runtime = r
                                => ScopeOf[d] # ScopeOf[c]
       /\ sessions' = [sessions EXCEPT ![r][ScopeOf[c]] = IF @ = "absent" THEN "unbound" ELSE @]
       /\ call' = [call EXCEPT ![c].request = "serving"]
       /\ UNCHANGED <<poolVars, up, bindings, lost, calls, closing>>

(* The command ends; it times out or its worker dies, and the session goes   *)
(* on in a new worker; or the runtime can not accept what came back.         *)
Answer(c) ==
    LET r == call[c].runtime
    IN /\ call[c].request = "serving"
       /\ \/ /\ call' = [call EXCEPT ![c].request = "ok"]
             /\ UNCHANGED sessions
          \/ /\ "raised" \in Faults
             /\ call' = [call EXCEPT ![c].request = "failed"]
             /\ UNCHANGED sessions
          \/ /\ "uncertain" \in Faults
             /\ call' = [call EXCEPT ![c].request = "uncertain"]
             /\ \/ sessions' = [sessions EXCEPT ![r][ScopeOf[c]] = "unbound"]
                \/ UNCHANGED sessions
       /\ UNCHANGED <<poolVars, up, bindings, lost, calls, closing>>

(* The session is closed, also under an entry that goes on believing in it,  *)
(* or the close fails.                                                      *)
ServeClose(c) ==
    LET r == call[c].runtime
        k == ScopeOf[c]
        e == call[c].entry
    IN /\ Asked(c, "discarding") \/ Asked(c, "closing")
       /\ \/ /\ SessionGoes(r, k)
             /\ lost' = IF e # NoEntry /\ ~made[e].tainted
                        THEN [lost EXCEPT ![r] = @ \cup {k}] ELSE lost
             /\ call' = [AfterClose(r, k) EXCEPT ![c] = [call[c] EXCEPT !.request = "ok"]]
          \/ /\ CloseFails(r, k)
             /\ call' = [AfterClose(r, k) EXCEPT ![c] = [call[c] EXCEPT !.request = "failed"]]
       /\ UNCHANGED <<poolVars, up, bindings, calls, closing>>

(* A session that nothing was asked of for ten minutes is reaped.            *)
HostReaps(r, k) ==
    /\ "idle" \in Faults
    /\ sessions[r][k] # "absent"
    /\ \A c \in Callers : call[c].runtime = r /\ ScopeOf[c] = k
                             => call[c].request \notin {"asked", "serving"}
    /\ sessions' = [sessions EXCEPT ![r][k] = "absent"]
    /\ lost' = [lost EXCEPT ![r] = @ \cup {k}]
    /\ UNCHANGED <<poolVars, up, bindings, callVars, closing>>

(* The transport ends.  The runtime keeps its bindings.                      *)
HostExits(r) ==
    /\ "exit" \in Faults
    /\ r \in up
    /\ Down(r)
    /\ UNCHANGED <<poolVars, bindings, calls, closing>>

-----------------------------------------------------------------------------
Starts(c) == AlreadyStarted(c) \/ Configure(c) \/ StartFails(c) \/ Opened(c) \/ OpenRaises(c)
Executes(c) == Run(c) \/ RunAgain(c) \/ Return(c) \/ Discard(c) \/ Discarded(c)
Closes(c) == CloseSession(c) \/ CloseLocked(c) \/ Closed(c) \/ CloseScopeLocked(c)
Serves(c) == ServeOpen(c) \/ ServeRun(c) \/ Answer(c) \/ ServeClose(c)

Next ==
    \/ \E c \in Callers :
          \/ \E op \in {"execute", "prepare"} : Begin(c, op)
          \/ Starts(c) \/ Executes(c) \/ Closes(c) \/ Serves(c)
          \/ Abort(c) \/ CloseScope(c)
    \/ Close
    \/ \E e \in closing.left : CloseTaken(e)
    \/ CloseRuntime
    \/ \E r \in Runtimes : HostExits(r) \/ \E k \in Scopes : HostReaps(r, k)

(* The loop runs what is ready, and the host answers what it is asked within *)
(* the time limits of the requests.                                         *)
Fairness ==
    /\ \A c \in Callers : WF_vars(Starts(c) \/ Executes(c) \/ Closes(c) \/ Serves(c))
    /\ WF_vars(\E e \in closing.left : CloseTaken(e))
    /\ WF_vars(CloseRuntime)

Spec == Init /\ [][Next]_vars /\ Fairness

-----------------------------------------------------------------------------
(* Entries, runtimes, locks, sessions and calls have the types of the code:   *)
(* in particular every entry has a runtime.                                  *)
PoolTypeOK ==
    /\ \A e \in DOMAIN made :
          made[e] \in [scope : Scopes, runtime : Runtimes, started : BOOLEAN, tainted : BOOLEAN,
                       starter : Callers \cup {NoCaller}, worker : Callers \cup {NoCaller}]
    /\ entries \in [Scopes -> DOMAIN made \cup {NoEntry}]
    /\ runtime \in Runtimes \cup {NoRuntime}
    /\ built \in 0..MaxRuntimes
    /\ up \subseteq Runtimes
    /\ bindings \in [Runtimes -> SUBSET Scopes]
    /\ sessions \in [Runtimes -> [Scopes -> Directories]]
    /\ lost \in [Runtimes -> SUBSET Scopes]
    /\ call \in [Callers -> [op : {"execute", "prepare"}, at : Places,
                             entry : DOMAIN made \cup {NoEntry},
                             runtime : Runtimes \cup {NoRuntime}, request : Requests]]
    /\ calls \in [Callers -> 0..MaxCalls]
    /\ closing \in [active : BOOLEAN, left : SUBSET (DOMAIN made)]

(* Abort, close or close_scope took the entry out of the table.             *)
GivenUp(e) == made[e].tainted \/ \E c \in Callers : call[c].at = "scopelock" /\ call[c].entry = e

AllRest == ~closing.active /\ \A c \in Callers : call[c].at = "rest"

(* A command runs in a session that was opened in the directory of its scope  *)
(* (configure_session_workspace before execute), never in one that the host   *)
(* made for it in its own directory, which all workspaces share.  This holds  *)
(* as long as the runtime did not lose sight of the session: reaped after     *)
(* idle minutes or gone with the transport while its binding stays, closed    *)
(* under an entry that goes on believing in it (the sensitive output gate),   *)
(* or left without its directory by a close that failed.                      *)
CommandsRunInTheirDirectory ==
    \A c \in Callers : call[c].request = "serving" =>
        \/ sessions[call[c].runtime][ScopeOf[c]] = "bound"
        \/ ScopeOf[c] \in lost[call[c].runtime]

(* Violated by the code: "Different Workspace keys use different locks, Stata *)
(* worker processes, sessions, and working directories" (docstring of         *)
(* WorkspaceExecutionPool).  The commands of two scopes are never executed    *)
(* both in the directory of the host.                                         *)
DirectoriesDiffer ==
    \A c, d \in Callers :
        /\ call[c].request = "serving" /\ call[d].request = "serving"
        /\ ScopeOf[c] # ScopeOf[d] /\ call[c].runtime = call[d].runtime
        => \/ sessions[call[c].runtime][ScopeOf[c]] = "bound"
           \/ sessions[call[d].runtime][ScopeOf[d]] = "bound"

(* The commands of a scope are executed one at a time, also while its entry   *)
(* is given up and made again (operation_lock, _discard, _entry), unless an   *)
(* abort or a close gave up the entry of one of them under its command.       *)
SameScopeIsSerial ==
    \A c, d \in Callers :
        /\ call[c].at = "running" /\ call[d].at = "running"
        /\ ScopeOf[c] = ScopeOf[d]
        /\ ~GivenUp(call[c].entry) /\ ~GivenUp(call[d].entry)
        => c = d

(* Violated by the code: when nobody uses the pool, a session that a host     *)
(* keeps belongs to the started entry of its scope, so that the pool will     *)
(* close it.  An open or a close that failed leaves one without an entry.     *)
SessionsAreOwned ==
    AllRest => \A r \in Runtimes, k \in Scopes :
        sessions[r][k] # "absent" =>
            /\ entries[k] # NoEntry
            /\ made[entries[k]].started
            /\ made[entries[k]].runtime = r

(* Every call ends: no order of locks, retries and closes keeps a caller      *)
(* waiting (start_lock, operation_lock, the loop of _execute).                *)
CallsEnd == \A c \in Callers : (call[c].at # "rest") ~> (call[c].at = "rest")
=============================================================================
