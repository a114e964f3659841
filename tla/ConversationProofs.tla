-------------------------- MODULE ConversationProofs --------------------------
(***************************************************************************)
(* Proofs about both ends of a conversation.  The loop of a turn, for any  *)
(* routes, budgets, failure codes and number of runs: what an invocation    *)
(* does after a request that may have been answered, and what a turn that   *)
(* ends by itself rests on.  The browser, for any workspaces and any        *)
(* bounds: a view never goes back, stays with its workspace, and misses no  *)
(* notification while no query failed; and the list of workspaces that ask  *)
(* for the user is current once nothing is under way.  And what it shows in  *)
(* pieces, for any journal, page size, history and queue: the pages of the   *)
(* trace, and the text that the model still writes.                          *)
(***************************************************************************)
EXTENDS ModelLoop, StopGuard, WorkspaceClient, Attention, ResearchViews,
        FiniteSetTheorems, SequenceTheorems, TLAPS

-----------------------------------------------------------------------------
(* The attempts of an invocation.                                          *)

(* What NoRepeatAfterUnknown says of one invocation.                        *)
CertainlyFailed(a) == a.state = "failed" /\ a.code \in Transient \cup {"circuit_open"}
NeverRepeats(inv) ==
    /\ \A k \in 1 .. Len(inv.attempts) - 1 : CertainlyFailed(inv.attempts[k])
    /\ inv.status # "running" =>
          Len(inv.attempts) > 0 /\ inv.attempts[Len(inv.attempts)].state = inv.status
    /\ inv.output = IF inv.status = "completed" THEN Len(inv.attempts) ELSE 0
    /\ inv.status = "running" =>
          \A k \in 1 .. Len(inv.attempts) :
             inv.attempts[k].state \notin {"completed", "delivery_unknown"}

(* The invocation of a step that is under way still runs; before another    *)
(* attempt all that it made have certainly failed, and while one is sent it *)
(* is the last.                                                             *)
UnderWay(pc, inv) ==
    /\ inv.status = "running"
    /\ pc \in {"attempt", "sleeping"} =>
          \A k \in 1 .. Len(inv.attempts) : CertainlyFailed(inv.attempts[k])
    /\ pc = "sending" =>
          /\ Len(inv.attempts) > 0
          /\ inv.attempts[Len(inv.attempts)].state = "dispatch_started"

Stepping == {"attempt", "sending", "sleeping"}

GatewayIInv ==
    /\ invocations \in Seq(Invocation)
    /\ call \in Call
    /\ \A i \in DOMAIN invocations :
          Len(invocations[i].attempts) <= MaxAttempts /\ NeverRepeats(invocations[i])
    /\ call.pc \in Stepping => Len(invocations) > 0 /\ UnderWay(call.pc, current)

LEMMA GatewayConstants ==
  /\ MaxAttempts \in Nat \ {0} /\ Transient \cap Fatal = {}
  /\ Len(Routes) \in Nat /\ 1 \in RouteIds
BY GatewayAssumption DEF RouteIds

LEMMA IdleIsACall == Idle \in Call /\ Idle.pc = "none"
BY GatewayConstants DEF Idle, Call

LEMMA GatewayBegin == Init => GatewayIInv
<1> SUFFICES ASSUME Init PROVE GatewayIInv
  OBVIOUS
<1>1. invocations = <<>> /\ call = Idle
  BY DEF Init, GatewayInit
<1>2. <<>> \in Seq(Invocation)
  OBVIOUS
<1> QED
  BY <1>1, <1>2, IdleIsACall DEF GatewayIInv, Stepping

(* A step that leaves the invocations alone and is not under way afterwards *)
(* unless it was.                                                           *)
LEMMA GatewayKept ==
  ASSUME GatewayIInv, UNCHANGED invocations, call' \in Call,
         call' = call \/ call'.pc \notin Stepping
  PROVE  GatewayIInv'
BY DEF GatewayIInv, current, Last

(* The last invocation becomes another one; the rest stays.                 *)
LEMMA LastReplaced ==
  ASSUME GatewayIInv, Len(invocations) > 0, NEW inv \in Invocation,
         DOMAIN invocations' = DOMAIN invocations,
         invocations' = [i \in DOMAIN invocations |-> invocations'[i]],
         \A i \in DOMAIN invocations : i # Len(invocations) => invocations'[i] = invocations[i],
         invocations'[Len(invocations)] = inv,
         Len(inv.attempts) <= MaxAttempts, NeverRepeats(inv),
         call' \in Call, call'.pc \in Stepping => UnderWay(call'.pc, inv)
  PROVE  GatewayIInv'
<1>1. invocations \in Seq(Invocation) /\ DOMAIN invocations = 1 .. Len(invocations)
  BY DEF GatewayIInv
<1>2. \A i \in 1 .. Len(invocations) : invocations'[i] \in Invocation
  BY <1>1
<1>3. invocations' \in [1 .. Len(invocations) -> Invocation]
  BY <1>1, <1>2
<1>4. invocations' \in Seq(Invocation) /\ Len(invocations') = Len(invocations)
  BY <1>1, <1>3
<1>5. current' = inv
  BY <1>4 DEF current, Last
<1>6. \A i \in DOMAIN invocations' :
         Len(invocations'[i].attempts) <= MaxAttempts /\ NeverRepeats(invocations'[i])
  BY <1>1, <1>4 DEF GatewayIInv
<1> QED
  BY <1>1, <1>4, <1>5, <1>6 DEF GatewayIInv

(* The invocation of the step under way.                                    *)
LEMMA CurrentInvocation ==
  ASSUME GatewayIInv, call.pc \in Stepping
  PROVE  /\ current \in Invocation /\ Len(invocations) > 0
         /\ Len(invocations) \in DOMAIN invocations
         /\ current = invocations[Len(invocations)]
         /\ current.attempts \in Seq(Attempt) /\ Len(current.attempts) \in Nat
         /\ Len(current.attempts) <= MaxAttempts
         /\ current.status = "running" /\ current.output = 0
         /\ NeverRepeats(current) /\ UnderWay(call.pc, current)
<1>1. /\ invocations \in Seq(Invocation) /\ Len(invocations) > 0
      /\ Len(invocations) \in DOMAIN invocations /\ UnderWay(call.pc, current)
  BY DEF GatewayIInv
<1>2. current = invocations[Len(invocations)] /\ current \in Invocation
  BY <1>1 DEF current, Last
<1>3. Len(current.attempts) <= MaxAttempts /\ NeverRepeats(current)
  BY <1>1, <1>2 DEF GatewayIInv
<1>4. current.status = "running" /\ current.output = 0
  BY <1>1, <1>3 DEF UnderWay, NeverRepeats
<1> QED
  BY <1>1, <1>2, <1>3, <1>4 DEF Invocation

(* Appending an attempt to those that have certainly failed.                *)
OneMore(s, a, status) == [status |-> status, attempts |-> Append(s, a), output |-> 0]
LEMMA AttemptAppended ==
  ASSUME NEW s \in Seq(Attempt), Len(s) < MaxAttempts,
         \A k \in 1 .. Len(s) : CertainlyFailed(s[k]),
         NEW a \in Attempt,
         NEW status \in {"running", "completed", "failed", "delivery_unknown"},
         \/ status = "running" /\ a.state \notin {"completed", "delivery_unknown"}
         \/ status = "failed" /\ a.state = "failed"
  PROVE  LET inv == OneMore(s, a, status)
         IN  /\ inv \in Invocation /\ Len(inv.attempts) <= MaxAttempts /\ NeverRepeats(inv)
             /\ Len(inv.attempts) = Len(s) + 1 /\ inv.attempts[Len(s) + 1] = a
             /\ \A k \in 1 .. Len(s) : inv.attempts[k] = s[k]
<1> DEFINE t == Append(s, a)
           inv == OneMore(s, a, status)
<1>1. /\ t \in Seq(Attempt) /\ Len(t) = Len(s) + 1 /\ t[Len(s) + 1] = a
      /\ \A k \in 1 .. Len(s) : t[k] = s[k]
  OBVIOUS
<1>2. inv.status = status /\ inv.attempts = t /\ inv.output = 0
  BY DEF OneMore
<1>3. 0 \in 0 .. MaxAttempts /\ Len(s) \in Nat
  BY GatewayConstants
<1>4. inv \in Invocation
  BY <1>1, <1>3 DEF Invocation, OneMore
<1> HIDE DEF t, inv
<1>5. Len(t) <= MaxAttempts
  BY <1>1, <1>3, GatewayConstants
<1>6. \A k \in 1 .. Len(t) - 1 : CertainlyFailed(t[k])
  BY <1>1, <1>3
<1>7. \A k \in 1 .. Len(t) - 1 : t[k].state = "failed"
  BY <1>6 DEF CertainlyFailed
<1>8. NeverRepeats(inv)
  BY <1>1, <1>2, <1>3, <1>6, <1>7 DEF NeverRepeats
<1> QED
  BY <1>1, <1>2, <1>4, <1>5, <1>8 DEF inv

(* What an attempt that was prepared leaves of the invocation.              *)
LEMMA LastAttempted ==
  ASSUME GatewayIInv, call.pc = "attempt", Preparable, NEW a \in Attempt,
         NEW status \in {"running", "failed"},
         \/ invocations' = [invocations EXCEPT ![Len(invocations)].attempts = Append(@, a)]
               /\ status = "running"
         \/ invocations' = [invocations EXCEPT ![Len(invocations)].attempts = Append(@, a),
                                               ![Len(invocations)].status = status],
         \/ status = "running" /\ a.state \notin {"completed", "delivery_unknown"}
         \/ status = "failed" /\ a.state = "failed",
         call' \in Call,
         call'.pc \in {"attempt", "sleeping"} => status = "running" /\ CertainlyFailed(a),
         call'.pc = "sending" => status = "running" /\ a.state = "dispatch_started"
  PROVE  GatewayIInv'
<1> DEFINE n == Len(invocations)
           inv == OneMore(current.attempts, a, status)
<1>1. /\ current \in Invocation /\ n > 0 /\ n \in DOMAIN invocations /\ current = invocations[n]
      /\ current.attempts \in Seq(Attempt) /\ Len(current.attempts) \in Nat
      /\ current.status = "running" /\ current.output = 0 /\ UnderWay("attempt", current)
  BY CurrentInvocation DEF Stepping
<1>2. Len(current.attempts) < MaxAttempts
  BY DEF Preparable
<1>3. \A k \in 1 .. Len(current.attempts) : CertainlyFailed(current.attempts[k])
  BY <1>1 DEF UnderWay
<1>4. /\ inv \in Invocation /\ Len(inv.attempts) <= MaxAttempts /\ NeverRepeats(inv)
      /\ Len(inv.attempts) = Len(current.attempts) + 1
      /\ inv.attempts[Len(current.attempts) + 1] = a
      /\ \A k \in 1 .. Len(current.attempts) : inv.attempts[k] = current.attempts[k]
  <2>1. /\ current.attempts \in Seq(Attempt)
        /\ status \in {"running", "completed", "failed", "delivery_unknown"}
    BY <1>1
  <2>2. \/ status = "running" /\ a.state \notin {"completed", "delivery_unknown"}
        \/ status = "failed" /\ a.state = "failed"
    OBVIOUS
  <2> HIDE DEF inv
  <2>3. inv = OneMore(current.attempts, a, status)
    BY DEF inv
  <2> QED
    BY ONLY <1>2, <1>3, <2>1, <2>2, <2>3, AttemptAppended
<1>5. /\ DOMAIN invocations' = DOMAIN invocations
      /\ invocations' = [i \in DOMAIN invocations |-> invocations'[i]]
      /\ \A i \in DOMAIN invocations : i # n => invocations'[i] = invocations[i]
  OBVIOUS
<1>6. invocations'[n] = inv
  <2>1. current = [status |-> "running", attempts |-> current.attempts, output |-> 0]
    BY <1>1 DEF Invocation
  <2> QED
    BY <1>1, <2>1 DEF OneMore
<1> HIDE DEF inv
<1>7. call'.pc \in Stepping => UnderWay(call'.pc, inv)
  <2>1. inv.status = status
    BY DEF inv, OneMore
  <2>2. call'.pc \in {"attempt", "sleeping"} =>
           \A k \in 1 .. Len(inv.attempts) : CertainlyFailed(inv.attempts[k])
    BY <1>1, <1>3, <1>4
  <2>3. call'.pc = "sending" =>
           /\ Len(inv.attempts) > 0
           /\ inv.attempts[Len(inv.attempts)].state = "dispatch_started"
    BY <1>1, <1>4
  <2> QED
    BY <2>1, <2>2, <2>3 DEF UnderWay, Stepping
<1> HIDE DEF n
<1> QED
  BY <1>1, <1>4, <1>5, <1>6, <1>7, LastReplaced DEF n

(* The attempt that was sent is closed, and with it the invocation unless   *)
(* the attempt has certainly failed.                                        *)
LEMMA LastClosed ==
  ASSUME GatewayIInv, call.pc = "sending", NEW a \in Attempt,
         NEW status \in {"running", "completed", "failed", "delivery_unknown"},
         NEW inv, inv = [status |-> status,
                         attempts |-> [current.attempts EXCEPT ![Len(current.attempts)] = a],
                         output |-> IF status = "completed" THEN Len(current.attempts) ELSE 0],
         invocations' = [invocations EXCEPT ![Len(invocations)] = inv],
         (status = "running" /\ CertainlyFailed(a)) \/ a.state = status,
         status = "running" => CertainlyFailed(a),
         call' \in Call, call'.pc \notin {"attempt", "sending"},
         call'.pc = "sleeping" => status = "running"
  PROVE  GatewayIInv'
<1> DEFINE m == Len(current.attempts)
           t == [current.attempts EXCEPT ![m] = a]
<1>1. /\ current \in Invocation /\ Len(invocations) > 0 /\ Len(invocations) \in DOMAIN invocations
      /\ current.attempts \in Seq(Attempt) /\ m \in Nat /\ m <= MaxAttempts
      /\ NeverRepeats(current) /\ UnderWay("sending", current)
  BY CurrentInvocation DEF Stepping
<1>2. m > 0
  BY <1>1 DEF UnderWay
<1>3. /\ t \in Seq(Attempt) /\ Len(t) = m /\ t[m] = a
      /\ \A k \in 1 .. m - 1 : t[k] = current.attempts[k]
  BY <1>1, <1>2
<1>4. inv.status = status /\ inv.attempts = t
      /\ inv.output = IF status = "completed" THEN m ELSE 0
  OBVIOUS
<1>5. inv \in Invocation
  <2>1. (IF status = "completed" THEN m ELSE 0) \in 0 .. MaxAttempts
    BY <1>1, GatewayConstants
  <2> QED
    BY <1>3, <2>1 DEF Invocation
<1> HIDE DEF t, m
<1>6. \A k \in 1 .. m - 1 : CertainlyFailed(t[k])
  BY <1>1, <1>3 DEF NeverRepeats, m
<1>7. NeverRepeats(inv)
  <2>1. status = "running" => a.state = "failed"
    BY DEF CertainlyFailed
  <2>2. \A k \in 1 .. m - 1 : t[k].state = "failed"
    BY <1>6 DEF CertainlyFailed
  <2> QED
    BY <1>1, <1>2, <1>3, <1>4, <1>6, <2>1, <2>2 DEF NeverRepeats
<1>8. call'.pc \in Stepping => UnderWay(call'.pc, inv)
  BY <1>1, <1>2, <1>3, <1>4, <1>6 DEF UnderWay, Stepping
<1>9. Len(inv.attempts) <= MaxAttempts
  BY <1>1, <1>3, <1>4
<1> QED
  BY <1>1, <1>5, <1>7, <1>8, <1>9, LastReplaced

-----------------------------------------------------------------------------
(* The steps of the gateway.                                                *)

LEMMA CallTypes ==
  ASSUME GatewayIInv
  PROVE  /\ call \in Call /\ call.route \in RouteIds /\ call.onRoute \in Nat
         /\ HasFallback => call.route + 1 \in RouteIds
         /\ \A pc \in {"none", "attempt", "sending", "sleeping", "raised", "failed", "completed"} :
               /\ [Idle EXCEPT !.pc = pc] \in Call /\ [Idle EXCEPT !.pc = pc].pc = pc
               /\ [call EXCEPT !.pc = pc] \in Call /\ [call EXCEPT !.pc = pc].pc = pc
<1>1. call \in Call /\ Len(Routes) \in Nat
  BY GatewayConstants DEF GatewayIInv
<1>2. call.route \in RouteIds /\ call.onRoute \in Nat
  BY <1>1 DEF Call
<1>3. HasFallback => call.route + 1 \in RouteIds
  BY <1>1, <1>2 DEF HasFallback, RouteIds
<1>4. Idle \in Call
  BY IdleIsACall
<1> QED
  BY <1>1, <1>2, <1>3, <1>4 DEF Call

(* A step that stops where it is, or raises.                                *)
LEMMA GatewayLeft ==
  ASSUME GatewayIInv, UNCHANGED gatewayVars, Leave("raised")
  PROVE  GatewayIInv'
<1>1. call' \in Call /\ call'.pc = "raised"
  BY CallTypes DEF Leave
<1> QED
  BY <1>1, GatewayKept DEF gatewayVars, Stepping

LEMMA FreezeKeeps ==
  ASSUME GatewayIInv, NEW r, NEW n, NEW k, FreezeStep(r, n, k)
  PROVE  GatewayIInv'
<1> DEFINE inv == [status |-> "running", attempts |-> <<>>, output |-> 0]
<1>1. invocations \in Seq(Invocation) /\ MaxAttempts \in Nat
  BY GatewayConstants DEF GatewayIInv
<1>2. inv \in Invocation /\ Len(inv.attempts) = 0 /\ inv.status = "running" /\ inv.output = 0
  BY <1>1 DEF Invocation
<1>3. invocations' = Append(invocations, inv)
  BY DEF FreezeStep
<1> HIDE DEF inv
<1>4. /\ invocations' \in Seq(Invocation) /\ Len(invocations') = Len(invocations) + 1
      /\ Len(invocations') > 0
      /\ invocations'[Len(invocations')] = inv
      /\ \A i \in DOMAIN invocations : invocations'[i] = invocations[i]
      /\ DOMAIN invocations' = DOMAIN invocations \cup {Len(invocations')}
  BY <1>1, <1>2, <1>3
<1>5. call' = [pc |-> "attempt", route |-> 1, onRoute |-> 0]
  BY DEF FreezeStep
<1>6. call' \in Call /\ call'.pc = "attempt"
  BY <1>5, GatewayConstants DEF Call
<1>7. NeverRepeats(inv) /\ UnderWay("attempt", inv) /\ Len(inv.attempts) <= MaxAttempts
  BY <1>1, <1>2 DEF NeverRepeats, UnderWay
<1>8. current' = inv
  BY <1>4 DEF current, Last
<1>9. \A i \in DOMAIN invocations' :
         Len(invocations'[i].attempts) <= MaxAttempts /\ NeverRepeats(invocations'[i])
  BY <1>4, <1>7 DEF GatewayIInv
<1> QED
  BY <1>4, <1>6, <1>7, <1>8, <1>9 DEF GatewayIInv

LEMMA WakeKeeps ==
  ASSUME GatewayIInv, Wake
  PROVE  GatewayIInv'
<1>1. call' \in Call /\ call'.pc = "attempt" /\ call.pc = "sleeping" /\ invocations' = invocations
  <2>1. [call EXCEPT !.pc = "attempt"] \in Call /\ [call EXCEPT !.pc = "attempt"].pc = "attempt"
    BY CallTypes
  <2>2. HasFallback => [pc |-> "attempt", route |-> call.route + 1, onRoute |-> 0] \in Call
    BY CallTypes DEF Call
  <2> QED
    BY <2>1, <2>2 DEF Wake, gatewayVars
<1>2. Len(invocations) > 0 /\ UnderWay("sleeping", current)
  BY <1>1 DEF GatewayIInv, Stepping
<1>3. current' = current
  BY <1>1 DEF current, Last
<1>4. UnderWay("attempt", current)
  BY <1>2 DEF UnderWay
<1> QED
  BY <1>1, <1>2, <1>3, <1>4 DEF GatewayIInv

-----------------------------------------------------------------------------
(* The attempts that are prepared.                                          *)

LEMMA MeetOpenCircuitKeeps ==
  ASSUME GatewayIInv, MeetOpenCircuit
  PROVE  GatewayIInv'
<1> DEFINE over == ~HasFallback \/ Len(current.attempts) + 1 = MaxAttempts
           a == [state |-> "failed", code |-> "circuit_open"]
           status == IF over THEN "failed" ELSE "running"
<1>1. /\ call.pc = "attempt" /\ Preparable
      /\ invocations' = [invocations EXCEPT
             ![Len(invocations)].attempts = Append(@, a),
             ![Len(invocations)].status = IF over THEN "failed" ELSE @]
      /\ call' = IF over THEN [Idle EXCEPT !.pc = "failed"]
                 ELSE [pc |-> "attempt", route |-> call.route + 1, onRoute |-> 0]
  BY DEF MeetOpenCircuit
<1>2. a \in Attempt /\ CertainlyFailed(a) /\ a.state = "failed"
  BY DEF Attempt, CertainlyFailed
<1>3. /\ invocations \in Seq(Invocation) /\ Len(invocations) \in DOMAIN invocations
      /\ invocations[Len(invocations)].status = "running"
  BY <1>1, CurrentInvocation DEF Stepping, GatewayIInv
<1>4. invocations' = [invocations EXCEPT
             ![Len(invocations)].attempts = Append(@, a),
             ![Len(invocations)].status = status]
  <2> DEFINE old == invocations[Len(invocations)]
  <2>1. old \in Invocation
    BY <1>3
  <2> QED
    BY <1>1, <1>3, <2>1 DEF Invocation
<1>5. call' \in Call /\ call'.pc = IF over THEN "failed" ELSE "attempt"
  <2>1. CASE over
    BY <1>1, <2>1, CallTypes
  <2>2. CASE ~over
    BY <1>1, <2>2, CallTypes DEF Call
  <2> QED
    BY <2>1, <2>2
<1>6. status \in {"running", "failed"} /\ (over => status = "failed") /\ (~over => status = "running")
  OBVIOUS
<1> HIDE DEF a, over, status
<1>7. \/ status = "running" /\ a.state \notin {"completed", "delivery_unknown"}
      \/ status = "failed" /\ a.state = "failed"
  BY <1>2, <1>6
<1> QED
  BY <1>1, <1>2, <1>4, <1>5, <1>6, <1>7, LastAttempted

LEMMA LackCredentialKeeps ==
  ASSUME GatewayIInv, LackCredential
  PROVE  GatewayIInv'
<1> DEFINE a == [state |-> "failed", code |-> "credential"]
<1>1. /\ call.pc = "attempt" /\ Preparable
      /\ invocations' = [invocations EXCEPT
             ![Len(invocations)].attempts = Append(@, a),
             ![Len(invocations)].status = "failed"]
      /\ Leave("failed")
  BY DEF LackCredential
<1>2. a \in Attempt /\ a.state = "failed"
  BY DEF Attempt
<1>3. call' \in Call /\ call'.pc = "failed"
  BY <1>1, CallTypes DEF Leave
<1> HIDE DEF a
<1> QED
  BY <1>1, <1>2, <1>3, LastAttempted

LEMMA RefuseDispatchKeeps ==
  ASSUME GatewayIInv, RefuseDispatch
  PROVE  GatewayIInv'
<1> DEFINE a == [state |-> "created", code |-> "none"]
<1>1. /\ call.pc = "attempt" /\ Preparable
      /\ invocations' = [invocations EXCEPT ![Len(invocations)].attempts = Append(@, a)]
      /\ Leave("raised")
  BY DEF RefuseDispatch, Prepare, WithAttempt
<1>2. a \in Attempt /\ a.state = "created"
  BY DEF Attempt
<1>3. call' \in Call /\ call'.pc = "raised"
  BY <1>1, CallTypes DEF Leave
<1> HIDE DEF a
<1> QED
  BY <1>1, <1>2, <1>3, LastAttempted

LEMMA DispatchKeeps ==
  ASSUME GatewayIInv, Dispatch
  PROVE  GatewayIInv'
<1> DEFINE a == [state |-> "dispatch_started", code |-> "none"]
<1>1. /\ call.pc = "attempt" /\ Preparable
      /\ invocations' = [invocations EXCEPT ![Len(invocations)].attempts = Append(@, a)]
      /\ call' = [call EXCEPT !.pc = "sending", !.onRoute = @ + 1]
  BY DEF Dispatch, Prepare, WithAttempt
<1>2. a \in Attempt /\ a.state = "dispatch_started"
  BY DEF Attempt
<1>3. call' \in Call /\ call'.pc = "sending"
  <2>1. call \in Call /\ call.onRoute + 1 \in Nat
    BY CallTypes
  <2> QED
    BY <1>1, <2>1 DEF Call
<1> HIDE DEF a
<1> QED
  BY <1>1, <1>2, <1>3, LastAttempted

-----------------------------------------------------------------------------
(* The answers to an attempt that was sent.                                 *)

LEMMA SentAttempt ==
  ASSUME GatewayIInv, call.pc = "sending"
  PROVE  /\ attempt \in Attempt /\ attempt.state = "dispatch_started"
         /\ attempt = current.attempts[Len(current.attempts)]
<1>1. /\ current.attempts \in Seq(Attempt) /\ Len(current.attempts) \in Nat
      /\ UnderWay("sending", current)
  BY CurrentInvocation DEF Stepping
<1> QED
  BY <1>1 DEF UnderWay, attempt, Last

(* Two fields of a record that are written together.                        *)
RewrittenAttempt(r, x, y) == [r EXCEPT !.state = x, !.code = y]
RewrittenInvocation(r, x, m, y) == [r EXCEPT !.status = x, !.attempts[m] = y]

LEMMA AttemptRewritten ==
  ASSUME NEW r \in Attempt, NEW x, NEW y
  PROVE  RewrittenAttempt(r, x, y) = [state |-> x, code |-> y]
<1>1. PICK s, c : r = [state |-> s, code |-> c]
  BY DEF Attempt
<1> DEFINE first == [r EXCEPT !.state = x]
<1>2. first = [state |-> x, code |-> c]
  BY <1>1
<1> HIDE DEF first
<1>3. [first EXCEPT !.code = y] = [state |-> x, code |-> y]
  BY <1>2
<1> QED
  BY <1>3 DEF first, RewrittenAttempt

LEMMA InvocationRewritten ==
  ASSUME NEW r \in Invocation, NEW x, NEW m, NEW y
  PROVE  RewrittenInvocation(r, x, m, y)
            = [status |-> x, attempts |-> [r.attempts EXCEPT ![m] = y], output |-> r.output]
<1>1. PICK s, t, o : r = [status |-> s, attempts |-> t, output |-> o]
  BY DEF Invocation
<1> DEFINE first == [r EXCEPT !.status = x]
<1>2. first = [status |-> x, attempts |-> t, output |-> o]
  BY <1>1
<1>3. r.attempts = t /\ r.output = o
  BY <1>1
<1> HIDE DEF first
<1>4. [first EXCEPT !.attempts = [t EXCEPT ![m] = y]]
         = [status |-> x, attempts |-> [t EXCEPT ![m] = y], output |-> o]
  BY <1>2
<1>5. first.attempts = t
  BY <1>2
<1> QED
  BY <1>3, <1>4, <1>5 DEF first, RewrittenInvocation
LEMMA CloseKeeps ==
  ASSUME GatewayIInv, call.pc = "sending",
         NEW state \in {"failed", "delivery_unknown"},
         NEW code \in Transient \cup Fatal \cup {"unclassified", "gate"},
         NEW status \in {"running", "failed", "delivery_unknown"},
         Close(state, code, status),
         status # "running" => state = status,
         status = "running" => state = "failed" /\ code \in Transient,
         call' \in Call, call'.pc \notin {"attempt", "sending"},
         call'.pc = "sleeping" => status = "running"
  PROVE  GatewayIInv'
<1> DEFINE m == Len(current.attempts)
           a == [attempt EXCEPT !.state = state, !.code = code]
           inv == [status |-> status, attempts |-> [current.attempts EXCEPT ![m] = a],
                   output |-> IF status = "completed" THEN m ELSE 0]
<1>1. /\ current \in Invocation /\ Len(invocations) \in DOMAIN invocations
      /\ current = invocations[Len(invocations)] /\ current.output = 0
  BY CurrentInvocation DEF Stepping
<1>2. a = [state |-> state, code |-> code]
  <2>1. RewrittenAttempt(attempt, state, code) = [state |-> state, code |-> code]
    BY SentAttempt, AttemptRewritten
  <2> QED
    BY <2>1 DEF RewrittenAttempt
<1>3. a \in Attempt /\ a.state = state /\ a.code = code
  BY <1>2 DEF Attempt
<1> HIDE DEF a
<1>4. [current EXCEPT !.status = status, !.attempts[m] = a] = inv
  <2>1. inv.output = 0
    OBVIOUS
  <2>2. RewrittenInvocation(current, status, m, a)
            = [status |-> status, attempts |-> [current.attempts EXCEPT ![m] = a],
               output |-> current.output]
    BY <1>1, InvocationRewritten
  <2> QED
    BY <1>1, <2>1, <2>2 DEF RewrittenInvocation
<1>5. invocations' = [invocations EXCEPT ![Len(invocations)] = inv]
  <2>1. invocations' = [invocations EXCEPT ![Len(invocations)] =
                          [invocations[Len(invocations)] EXCEPT !.status = status, !.attempts[m] = a]]
    BY DEF Close, a
  <2> QED
    BY <1>1, <1>4, <2>1
<1>6. (status = "running" /\ CertainlyFailed(a)) \/ a.state = status
  BY <1>3 DEF CertainlyFailed
<1>7. status = "running" => CertainlyFailed(a)
  BY <1>3 DEF CertainlyFailed
<1> HIDE DEF m
<1>8. inv = [status |-> status,
             attempts |-> [current.attempts EXCEPT ![Len(current.attempts)] = a],
             output |-> IF status = "completed" THEN Len(current.attempts) ELSE 0]
  BY DEF m
<1>9. status \in {"running", "completed", "failed", "delivery_unknown"}
  OBVIOUS
<1> HIDE DEF inv
<1> QED
  BY <1>3, <1>5, <1>6, <1>7, <1>8, <1>9, LastClosed

LEMMA CompleteKeeps ==
  ASSUME GatewayIInv, CompleteAttempt
  PROVE  GatewayIInv'
<1> DEFINE m == Len(current.attempts)
           a == [attempt EXCEPT !.state = "completed"]
           inv == [status |-> "completed", attempts |-> [current.attempts EXCEPT ![m] = a],
                   output |-> IF "completed" = "completed" THEN m ELSE 0]
<1>1. call.pc = "sending"
  BY DEF CompleteAttempt
<1>2. a \in Attempt /\ a.state = "completed"
  BY <1>1, SentAttempt DEF Attempt
<1>3. invocations' = [invocations EXCEPT ![Len(invocations)] = inv]
  BY DEF CompleteAttempt
<1>4. call' \in Call /\ call'.pc = "completed"
  BY CallTypes DEF CompleteAttempt, Leave
<1> HIDE DEF a, m
<1>5. inv = [status |-> "completed",
             attempts |-> [current.attempts EXCEPT ![Len(current.attempts)] = a],
             output |-> IF "completed" = "completed" THEN Len(current.attempts) ELSE 0]
  BY DEF m
<1> HIDE DEF inv
<1> QED
  BY <1>1, <1>2, <1>3, <1>4, <1>5, LastClosed

LEMMA FailSafelyKeeps ==
  ASSUME GatewayIInv, NEW c \in Transient, FailSafely(c)
  PROVE  GatewayIInv'
<1>1. call.pc = "sending"
  BY DEF FailSafely
<1>2. CASE Len(current.attempts) < MaxAttempts
  <2>1. Close("failed", c, "running") /\ Sleep
    BY <1>2 DEF FailSafely
  <2>2. call' \in Call /\ call'.pc = "sleeping"
    BY <2>1, CallTypes DEF Sleep
  <2> QED
    BY <1>1, <2>1, <2>2, CloseKeeps
<1>3. CASE ~(Len(current.attempts) < MaxAttempts)
  <2>1. Close("failed", c, "failed") /\ Leave("failed")
    BY <1>3 DEF FailSafely
  <2>2. call' \in Call /\ call'.pc = "failed"
    BY <2>1, CallTypes DEF Leave
  <2> QED
    BY <1>1, <2>1, <2>2, CloseKeeps
<1> QED
  BY <1>2, <1>3

LEMMA FailForGoodKeeps ==
  ASSUME GatewayIInv, NEW c \in Fatal \cup {"gate"}, FailForGood(c)
  PROVE  GatewayIInv'
<1>1. call.pc = "sending" /\ Close("failed", c, "failed") /\ Leave("failed")
  BY DEF FailForGood
<1>2. call' \in Call /\ call'.pc = "failed"
  BY <1>1, CallTypes DEF Leave
<1> QED
  BY <1>1, <1>2, CloseKeeps

LEMMA LoseTrackKeeps ==
  ASSUME GatewayIInv, LoseTrack
  PROVE  GatewayIInv'
<1>1. /\ call.pc = "sending" /\ Leave("failed")
      /\ Close("delivery_unknown", "unclassified", "delivery_unknown")
  BY DEF LoseTrack
<1>2. call' \in Call /\ call'.pc = "failed"
  BY <1>1, CallTypes DEF Leave
<1> QED
  BY <1>1, <1>2, CloseKeeps

-----------------------------------------------------------------------------
(* The loop around them: every other step leaves the invocations alone and  *)
(* either the call too or ends it.                                          *)

LEMMA StepOfTheLoop ==
  ASSUME [Next]_loopVars
  PROVE  \/ UNCHANGED invocations /\ call' \in {call, Idle}
         \/ Freeze
         \/ RunStep
<1> DEFINE Still == UNCHANGED invocations /\ call' \in {call, Idle}
<1>1. StartDriver \/ RunEndsEarly => Still
  BY DEF StartDriver, RunEndsEarly, gatewayVars
<1>2. DriverStep => Still \/ Freeze \/ RunStep
  <2>1. HearReply => Still
    BY DEF HearReply
  <2>2. HearReady \/ FailToStart \/ GiveUp \/ Advance \/ HearProposal => Still
    BY DEF HearReady, FailToStart, GiveUp, Advance, HearProposal, driverless, gatewayVars
  <2>3. TimeOut \/ StepFails \/ MissDeadline \/ Evaluated => Still
    BY DEF TimeOut, StepFails, MissDeadline, Evaluated, driverless, gatewayVars
  <2>4. AskToStop \/ HearStopping \/ FinishRun => Still
    BY DEF AskToStop, HearStopping, FinishRun, driverless, gatewayVars
  <2>5. ASSUME NEW n, NEW w, FeedOutput(n, w) PROVE Still
    BY <2>5 DEF FeedOutput, driverless, gatewayVars
  <2>6. ASSUME NEW d, Guard(d) PROVE Still
    BY <2>6 DEF Guard, gatewayVars
  <2>7. ASSUME NEW n, HearTools(n) PROVE Still
    BY <2>1, <2>7 DEF HearTools
  <2>8. ASSUME NEW b, HearCompletion(b) PROVE Still
    BY <2>1, <2>8 DEF HearCompletion
  <2>9. HearFailure \/ HearWaiting \/ HearText => Still
    BY <2>1 DEF HearFailure, HearWaiting, HearText
  <2> HIDE DEF Still
  <2> QED
    BY <2>2, <2>3, <2>4, <2>5, <2>6, <2>7, <2>8, <2>9 DEF DriverStep
<1>3. Child \/ Others => Still
  BY DEF Child, Others, Elsewhere, OtherTurnFails, OtherTurnSucceeds, CoolDown, gatewayVars
<1>4. Crash \/ Answer \/ RequestPause \/ ConvergePause \/ Reconfigure => Still
  BY DEF Crash, Answer, RequestPause, ConvergePause, Reconfigure, gatewayVars
<1>5. UNCHANGED loopVars => Still
  BY DEF loopVars
<1> HIDE DEF Still
<1>6. Still \/ Freeze \/ RunStep
  BY <1>1, <1>2, <1>3, <1>4, <1>5 DEF Next
<1> QED
  BY <1>6 DEF Still

LEMMA GatewayStep == GatewayIInv /\ [Next]_loopVars => GatewayIInv'
<1> SUFFICES ASSUME GatewayIInv, [Next]_loopVars PROVE GatewayIInv'
  OBVIOUS
<1>1. ASSUME UNCHANGED invocations, call' \in {call, Idle} PROVE GatewayIInv'
  <2>1. call' \in Call /\ (call' = call \/ call'.pc \notin Stepping)
    BY <1>1, IdleIsACall DEF GatewayIInv, Stepping
  <2> QED
    BY <1>1, <2>1, GatewayKept
<1>2. CASE Freeze
  <2>1. CASE FreezeStep(driver.revision, RemainingSteps, RemainingTools)
    BY <2>1, FreezeKeeps
  <2>2. CASE RefuseStep(driver.revision, RemainingSteps, RemainingTools)
    BY <2>2, GatewayLeft DEF RefuseStep
  <2> QED
    BY <1>2, <2>1, <2>2 DEF Freeze
<1>3. CASE RunStep
  <2>1. CASE RefuseAttempt \/ Cancel
    BY <2>1, GatewayLeft DEF RefuseAttempt, Cancel
  <2>2. CASE MeetOpenCircuit \/ LackCredential \/ RefuseDispatch \/ Dispatch
    BY <2>2, MeetOpenCircuitKeeps, LackCredentialKeeps, RefuseDispatchKeeps, DispatchKeeps
  <2>3. ASSUME NEW c \in Transient, FailSafely(c) PROVE GatewayIInv'
    BY <2>3, FailSafelyKeeps
  <2>4. ASSUME NEW c \in Fatal \cup {"gate"}, FailForGood(c) PROVE GatewayIInv'
    BY <2>4, FailForGoodKeeps
  <2>5. CASE LoseTrack \/ CompleteAttempt \/ Wake
    BY <2>5, LoseTrackKeeps, CompleteKeeps, WakeKeeps
  <2> QED
    BY <1>3, <2>1, <2>2, <2>3, <2>4, <2>5 DEF RunStep, ExecuteStep
<1> QED
  BY <1>1, <1>2, <1>3, StepOfTheLoop

(* A request that may have been answered is the last of its invocation: for *)
(* any routes, limits and failure codes, with the circuits of other turns,  *)
(* crashes, cancellation and a worker that fails at any moment              *)
(* (NoRepeatAfterUnknown).                                                  *)
THEOREM NoRepeatAfterUnknownHolds == Spec => []NoRepeatAfterUnknown
<1>1. GatewayIInv => NoRepeatAfterUnknown
  BY DEF GatewayIInv, NoRepeatAfterUnknown, NeverRepeats, CertainlyFailed
<1> QED
  BY <1>1, GatewayBegin, GatewayStep, PTL DEF Spec

-----------------------------------------------------------------------------
(* The stop guard.                                                         *)

Subjects == [status : {"running", "waiting", "paused", "failed", "succeeded", "partial"},
             revision : Int, pausing : BOOLEAN]
Places == {"idle", "preparing", "research", "exported", "proposed", "evaluated", "gone"}
Reports == [verdict : Verdicts, codes : SUBSET Codes, contract : Int, fresh : BOOLEAN]

GuardTypeOK ==
    /\ subject \in Subjects
    /\ bound \in [revision : Int, ready : BOOLEAN, obliged : BOOLEAN]
    /\ loop \in [pc : Places, revision : Int, steps : Int, asks : Dispositions]
    /\ report \in Reports

(* A turn that ended by itself has no run any more, so that nothing it      *)
(* rests on changes; what was observed in a revision of the contract was    *)
(* exported in it, and a run that exported knows the revision.              *)
StopIInv ==
    /\ GuardTypeOK
    /\ observed \subseteq delivered
    /\ At("exported") => bound.revision \in delivered
    /\ subject.status \in {"succeeded", "partial"} => At("idle")
    /\ EndingIsEarned

LEMMA StopBegin == StopInit => StopIInv
<1> SUFFICES ASSUME StopInit PROVE StopIInv
  OBVIOUS
<1>1. GuardTypeOK
  BY DEF StopInit, GuardTypeOK, Subjects, NoRun, NoReport, Places, Reports, Verdicts, Dispositions
<1> QED
  BY <1>1 DEF StopInit, StopIInv, EndingIsEarned, At, NoRun

(* A turn that is written anew: its revision counts on.                     *)
LEMMA SubjectWritten ==
  ASSUME subject \in Subjects, NEW pausing \in BOOLEAN,
         NEW status \in {"running", "waiting", "paused", "failed", "succeeded", "partial"},
         NEW number \in {subject.revision, subject.revision + 1},
         subject' = [status |-> status, revision |-> number, pausing |-> pausing]
  PROVE  subject' \in Subjects /\ subject'.status = status
<1>1. subject.revision \in Int /\ subject.revision + 1 \in Int
  BY DEF Subjects
<1> QED
  BY <1>1 DEF Subjects

Ended == subject.status \in {"succeeded", "partial"}

(* Other parts of a report do not depend on whether it is fresh.            *)
LEMMA ReportAges ==
  ASSUME StopIInv, Commits
  PROVE  /\ report' \in Reports /\ report'.verdict = report.verdict
         /\ report'.codes = report.codes /\ report'.contract = report.contract
BY DEF StopIInv, GuardTypeOK, Reports, Commits

(* A step of a turn that is not ended and stays so.                         *)
LEMMA NotEnded ==
  ASSUME StopIInv, subject' \in Subjects, subject'.status \notin {"succeeded", "partial"},
         bound' = bound, loop' \in [pc : Places, revision : Int, steps : Int, asks : Dispositions],
         report' \in Reports, delivered \subseteq delivered', observed' \subseteq delivered',
         loop'.pc = "exported" => bound.revision \in delivered'
  PROVE  StopIInv'
BY DEF StopIInv, GuardTypeOK, EndingIsEarned, At

(* A run that ends leaves no trace in what the ending rests on.             *)
LEMMA RunEnds ==
  ASSUME StopIInv, EndRun
  PROVE  StopIInv'
<1>1. /\ subject \in Subjects /\ loop' = NoRun /\ Commits
      /\ UNCHANGED <<bound, observed, left, delivered>>
  BY DEF EndRun, StopIInv, GuardTypeOK
<1>2. loop' \in [pc : Places, revision : Int, steps : Int, asks : Dispositions] /\ loop'.pc = "idle"
  BY <1>1 DEF NoRun, Places, Dispositions
<1>3. CASE Running
  <2>1. subject' = [subject EXCEPT !.status = "waiting", !.revision = @ + 1]
    BY <1>3 DEF EndRun
  <2>2. subject' \in Subjects /\ subject'.status = "waiting"
    <3>1. /\ subject' = [status |-> "waiting", revision |-> subject.revision + 1,
                         pausing |-> subject.pausing]
          /\ subject.pausing \in BOOLEAN
      BY <2>1, <1>1 DEF Subjects
    <3> QED
      BY <3>1, <1>1, SubjectWritten
  <2> QED
    BY <1>1, <1>2, <2>2, ReportAges, NotEnded DEF StopIInv
<1>4. CASE ~Running
  <2>1. subject' = subject
    BY <1>4 DEF EndRun
  <2> QED
    BY <1>1, <1>2, <2>1, ReportAges DEF StopIInv, GuardTypeOK, EndingIsEarned, At
<1> QED
  BY <1>3, <1>4

(* What the guard lets end has earned it.                                   *)
LEMMA DecisionIsEarned ==
  ASSUME StopIInv, At("evaluated"), Decidable
  PROVE  /\ Decision.status \in {"running", "waiting", "paused", "failed", "succeeded", "partial"}
         /\ Decision.pc \in {"idle", "research"}
         /\ Decision.status \in {"succeeded", "partial"} =>
               /\ Decision.pc = "idle" /\ left = {}
               /\ report.contract = bound.revision
               /\ report.verdict # "unknown"
               /\ report.codes \cap OfTheUser = {}
         /\ Decision.status = "succeeded" =>
               /\ Required => bound.revision \in delivered
               /\ report.codes \cap Blocking = {}
<1>1. loop.asks \in Dispositions /\ report.contract = bound.revision /\ observed \subseteq delivered
  BY DEF StopIInv, GuardTypeOK, Decidable
<1>2. \A d \in Dispositions :
         /\ Terminates(d).pc = "idle"
         /\ Terminates(d).status \in {"succeeded", "partial", "paused", "failed"}
         /\ Terminates(d).status = "succeeded" => d = "succeed"
         /\ Terminates(d).status = "partial" => d = "partial"
  BY DEF Terminates, Dispositions
<1>3. /\ Waits.status = "waiting" /\ Waits.pc = "idle"
      /\ Continues.status = "running" /\ Continues.pc = "research"
  BY DEF Waits, Continues
<1>4. "partial" \in Dispositions
  BY DEF Dispositions
<1>5. CASE "unsafe" \in left
  BY <1>3, <1>5 DEF Decision
<1>6. CASE "unsafe" \notin left /\ (subject.pausing \/ left # {})
  BY <1>3, <1>6 DEF Decision
<1>7. CASE left = {} /\ ~subject.pausing /\ loop.asks \in {"pause", "fail"}
  <2>1. Decision = Terminates(loop.asks)
    BY <1>7 DEF Decision
  <2>2. Terminates(loop.asks).status \in {"paused", "failed"}
    BY <1>1, <1>2, <1>7
  <2> QED
    BY <1>1, <1>2, <2>1, <2>2
<1>8. CASE /\ left = {} /\ ~subject.pausing /\ loop.asks \notin {"pause", "fail"}
           /\ report.codes \cap OfTheUser # {} \/ report.verdict = "unknown"
  <2>1. Decision \in {Waits, Continues}
    BY <1>8 DEF Decision
  <2> QED
    BY <2>1, <1>3
<1>9. CASE /\ left = {} /\ ~subject.pausing /\ loop.asks \notin {"pause", "fail"}
           /\ report.codes \cap OfTheUser = {} /\ report.verdict # "unknown"
           /\ ~bound.ready \/ ~Complete
  <2>1. Decision \in {Terminates("partial"), Continues}
    BY <1>9 DEF Decision
  <2> QED
    BY <1>9, <2>1, <1>1, <1>2, <1>3, <1>4
<1>10. CASE /\ left = {} /\ ~subject.pausing /\ loop.asks \notin {"pause", "fail"}
            /\ report.codes \cap OfTheUser = {} /\ report.verdict # "unknown"
            /\ bound.ready /\ Complete
  <2>1. Required => bound.revision \in delivered
    BY <1>10, <1>1 DEF Complete
  <2>2. CASE report.codes \cap Blocking # {}
    BY <1>3, <1>10, <2>2 DEF Decision
  <2>3. CASE report.codes \cap Blocking = {}
    <3>1. Decision = Terminates(loop.asks)
      BY <1>10, <2>3 DEF Decision
    <3> QED
      BY <1>1, <1>2, <1>10, <2>1, <2>3, <3>1
  <2> QED
    BY <2>2, <2>3
<1> QED
  BY <1>5, <1>6, <1>7, <1>8, <1>9, <1>10

LEMMA StopStep ==
  ASSUME StopIInv, [StopNext]_guardVars
  PROVE  StopIInv'
<1> DEFINE Runs == [pc : Places, revision : Int, steps : Int, asks : Dispositions]
<1>t. /\ subject \in Subjects /\ loop \in Runs /\ report \in Reports
      /\ bound \in [revision : Int, ready : BOOLEAN, obliged : BOOLEAN]
      /\ observed \subseteq delivered
      /\ loop.pc = "exported" => bound.revision \in delivered
      /\ loop.pc # "idle" => ~Ended
  BY DEF StopIInv, GuardTypeOK, At, Ended
<1>p. ASSUME NEW pc \in Places
      PROVE  /\ [loop EXCEPT !.pc = pc] \in Runs /\ [loop EXCEPT !.pc = pc].pc = pc
  BY <1>t
<1>n. ASSUME NEW pc \in Places, loop' = [loop EXCEPT !.pc = pc, !.steps = @ + 1]
      PROVE  loop' \in Runs /\ loop'.pc = pc
  <2>1. loop.steps + 1 \in Int
    BY <1>t
  <2>2. loop' = [pc |-> pc, revision |-> loop.revision, steps |-> loop.steps + 1,
                 asks |-> loop.asks]
    BY <1>n, <1>t
  <2> QED
    BY <2>1, <2>2, <1>t
(* A step of the run that leaves the turn and the contract alone.           *)
<1>r. ASSUME loop.pc # "idle", UNCHANGED <<subject, bound>>, loop' \in Runs,
             report' \in Reports, delivered \subseteq delivered', observed' \subseteq delivered',
             loop'.pc = "exported" => bound.revision \in delivered'
      PROVE  StopIInv'
  BY <1>r, <1>t, NotEnded DEF Ended
<1>1. CASE BeginRun
  <2>1. /\ Running /\ loop' = [NoRun EXCEPT !.pc = "preparing", !.revision = subject.revision]
        /\ UNCHANGED <<subject, bound, observed, left, report, delivered>>
    BY <1>1 DEF BeginRun
  <2>2. loop' \in Runs /\ loop'.pc = "preparing"
    <3>1. subject.revision \in Int
      BY <1>t DEF Subjects
    <3>2. loop' = [pc |-> "preparing", revision |-> subject.revision, steps |-> 0,
                   asks |-> "succeed"]
      BY <2>1 DEF NoRun
    <3> QED
      BY <3>1, <3>2 DEF Places, Dispositions
  <2> QED
    BY <2>1, <2>2, <1>t, NotEnded DEF Running
<1>2. CASE RunIsNotReady \/ NormalizeRaises \/ DriverGivesUp \/ StopGuardRaises
  BY <1>2, RunEnds DEF RunIsNotReady, NormalizeRaises, DriverGivesUp, StopGuardRaises
<1>3. CASE NormalizeContract
  <2>1. /\ Running /\ loop.pc = "preparing"
        /\ bound' = [revision |-> bound.revision + 1, ready |-> TRUE, obliged |-> TRUE]
        /\ subject' = [subject EXCEPT !.revision = @ + 1]
        /\ loop' = [loop EXCEPT !.pc = "research", !.revision = @ + 1]
        /\ Commits /\ UNCHANGED <<observed, left, delivered>>
    BY <1>3 DEF NormalizeContract, Normalizable, Unchanged, At
  <2>2. /\ subject' \in Subjects /\ subject'.status = "running"
        /\ bound' \in [revision : Int, ready : BOOLEAN, obliged : BOOLEAN]
    BY <2>1, <1>t DEF Subjects, Running
  <2>3. loop' \in Runs /\ loop'.pc = "research"
    <3>1. loop.revision + 1 \in Int
      BY <1>t
    <3>2. loop' = [pc |-> "research", revision |-> loop.revision + 1, steps |-> loop.steps,
                   asks |-> loop.asks]
      BY <2>1, <1>t
    <3> QED
      BY <3>1, <3>2, <1>t DEF Places
  <2> QED
    BY <2>1, <2>2, <2>3, <1>t, ReportAges DEF StopIInv, GuardTypeOK, EndingIsEarned, At
<1>4. ASSUME NEW open \in SUBSET Work, RunBatch(open)
      PROVE  StopIInv'
  <2>1. /\ loop.pc = "research" /\ loop' = [loop EXCEPT !.pc = "research", !.steps = @ + 1]
        /\ Commits /\ UNCHANGED <<subject, bound, observed, delivered>>
    BY <1>4 DEF RunBatch, At, NextStep
  <2>2. loop' \in Runs /\ loop'.pc = "research"
    BY <2>1, <1>n DEF Places
  <2> QED
    BY <2>1, <2>2, <1>r, <1>t, ReportAges
<1>5. CASE ExportWord
  <2>1. /\ loop.pc = "research" /\ loop' = [loop EXCEPT !.pc = "exported", !.steps = @ + 1]
        /\ delivered' = delivered \cup {bound.revision}
        /\ Commits /\ UNCHANGED <<subject, bound, observed>>
    BY <1>5 DEF ExportWord, At, NextStep
  <2>2. loop' \in Runs
    BY <2>1, <1>n DEF Places
  <2> QED
    BY <2>1, <2>2, <1>r, <1>t, ReportAges
<1>6. CASE RecordObligationState
  <2>1. loop.pc = "exported"
    BY <1>6 DEF RecordObligationState, At
  <2>2. CASE Running
    <3>1. /\ observed' = observed \cup {bound.revision} /\ loop' = [loop EXCEPT !.pc = "research"]
          /\ Commits /\ UNCHANGED <<subject, bound, delivered>>
      BY <1>6, <2>2 DEF RecordObligationState, Enter
    <3>2. loop' \in Runs /\ loop'.pc = "research"
      BY <3>1, <1>p DEF Places
    <3> QED
      BY <2>1, <3>1, <3>2, <1>r, <1>t, ReportAges
  <2>3. CASE ~Running
    BY <1>6, <2>3, RunEnds DEF RecordObligationState
  <2> QED
    BY <2>2, <2>3
<1>7. ASSUME NEW disposition \in Dispositions, ProposeCompletion(disposition)
      PROVE  StopIInv'
  <2>1. /\ loop.pc = "research"
        /\ loop' = [loop EXCEPT !.pc = "proposed", !.steps = @ + 1, !.asks = disposition]
        /\ UNCHANGED <<subject, bound, observed, left, report, delivered>>
    BY <1>7 DEF ProposeCompletion, At
  <2>2. loop' \in Runs /\ loop'.pc = "proposed"
    <3>1. loop.steps + 1 \in Int
      BY <1>t
    <3>2. loop' = [pc |-> "proposed", revision |-> loop.revision, steps |-> loop.steps + 1,
                   asks |-> disposition]
      BY <2>1, <1>t
    <3> QED
      BY <3>1, <3>2, <1>t DEF Places
  <2> QED
    BY <2>1, <2>2, <1>r, <1>t
<1>8. ASSUME NEW verdict \in Verdicts, NEW codes \in SUBSET Codes, RecordEvaluation(verdict, codes)
      PROVE  StopIInv'
  <2>1. loop.pc = "proposed"
    BY <1>8 DEF RecordEvaluation, At
  <2>2. CASE Unchanged /\ codes \subseteq Registered
    <3>1. /\ report' = [verdict |-> verdict, codes |-> codes,
                        contract |-> bound.revision, fresh |-> TRUE]
          /\ loop' = [loop EXCEPT !.pc = "evaluated"]
          /\ UNCHANGED <<subject, bound, observed, left, delivered>>
      BY <1>8, <2>2 DEF RecordEvaluation, Enter
    <3>2. loop' \in Runs /\ loop'.pc = "evaluated" /\ report' \in Reports
      BY <3>1, <1>p, <1>t DEF Places, Reports
    <3> QED
      BY <2>1, <3>1, <3>2, <1>r, <1>t
  <2>3. CASE ~(Unchanged /\ codes \subseteq Registered)
    BY <1>8, <2>3, RunEnds DEF RecordEvaluation
  <2> QED
    BY <2>2, <2>3
<1>9. CASE DecideNaturalStop
  <2>1. /\ At("evaluated") /\ Decidable
        /\ loop' = [loop EXCEPT !.pc = Decision.pc]
        /\ subject' = [subject EXCEPT !.status = Decision.status,
                                      !.revision = IF Decision.status = "running" THEN @ ELSE @ + 1]
        /\ Commits /\ UNCHANGED <<bound, observed, left, delivered>>
    BY <1>9 DEF DecideNaturalStop, Enter
  <2> HIDE DEF Runs
  <2>2. /\ Decision.status \in {"running", "waiting", "paused", "failed", "succeeded", "partial"}
        /\ Decision.pc \in {"idle", "research"}
    BY <2>1, DecisionIsEarned
  <2>3. loop' \in Runs /\ loop'.pc = Decision.pc
    BY <2>1, <2>2, <1>p DEF Places
  <2>4. subject' \in Subjects /\ subject'.status = Decision.status
    <3>1. \E number \in {subject.revision, subject.revision + 1} :
             subject' = [status |-> Decision.status, revision |-> number,
                         pausing |-> subject.pausing]
      BY <2>1, <1>t DEF Subjects
    <3>2. subject.pausing \in BOOLEAN
      BY <1>t DEF Subjects
    <3> QED
      BY <2>2, <3>1, <3>2, <1>t, SubjectWritten
  <2>5. EndingIsEarned'
    BY <2>1, <2>4, DecisionIsEarned, ReportAges DEF EndingIsEarned
  <2>6. subject'.status \in {"succeeded", "partial"} => loop'.pc = "idle"
    BY <2>1, <2>3, <2>4, DecisionIsEarned
  <2> QED
    BY <2>1, <2>2, <2>3, <2>4, <2>5, <2>6, <1>t, ReportAges DEF StopIInv, GuardTypeOK, At, Runs
<1>10. CASE AskPause
  <2>1. /\ ~Ended /\ subject' = [subject EXCEPT !.pausing = TRUE, !.revision = @ + 1]
        /\ Commits /\ UNCHANGED <<bound, observed, left, loop, delivered>>
    BY <1>10 DEF AskPause, Ended
  <2>2. subject' \in Subjects /\ subject'.status = subject.status
    <3>1. subject' = [status |-> subject.status, revision |-> subject.revision + 1,
                      pausing |-> TRUE]
      BY <2>1, <1>t DEF Subjects
    <3>2. subject.status \in {"running", "waiting", "paused", "failed", "succeeded", "partial"}
      BY <1>t DEF Subjects
    <3> QED
      BY <3>1, <3>2, <1>t, SubjectWritten
  <2> QED
    BY <2>1, <2>2, <1>t, ReportAges, NotEnded DEF Ended
<1>11. CASE Converge
  <2>1. /\ subject' = [status |-> "paused", revision |-> subject.revision + 1, pausing |-> FALSE]
        /\ Commits /\ UNCHANGED <<bound, observed, loop, delivered>>
    BY <1>11 DEF Converge
  <2>2. subject' \in Subjects /\ subject'.status = "paused"
    BY <2>1, <1>t DEF Subjects
  <2> QED
    BY <2>1, <2>2, <1>t, ReportAges, NotEnded
<1>12. CASE AnswerTurn
  <2>1. /\ subject' = [subject EXCEPT !.status = "running", !.revision = @ + 1]
        /\ Commits /\ UNCHANGED <<bound, observed, left, loop, delivered>>
    BY <1>12 DEF AnswerTurn
  <2>2. subject' \in Subjects /\ subject'.status = "running"
    <3>1. /\ subject' = [status |-> "running", revision |-> subject.revision + 1,
                         pausing |-> subject.pausing]
          /\ subject.pausing \in BOOLEAN
      BY <2>1, <1>t DEF Subjects
    <3> QED
      BY <3>1, <1>t, SubjectWritten
  <2> QED
    BY <2>1, <2>2, <1>t, ReportAges, NotEnded
(* These may also come after the turn has ended.                            *)
<1>13. ASSUME Commits, UNCHANGED <<subject, bound, observed, loop, delivered>>, left' \subseteq left
       PROVE  StopIInv'
  BY <1>13, <1>t, ReportAges DEF StopIInv, GuardTypeOK, EndingIsEarned, At
<1>14. ASSUME NEW w \in {"active", "unsafe"}, SettleWork(w)
       PROVE  StopIInv'
  BY <1>13, <1>14 DEF SettleWork
<1>15. CASE OtherCommit
  BY <1>13, <1>15 DEF OtherCommit
<1>16. CASE ProcessEnds
  <2>1. /\ loop.pc # "idle" /\ loop' = [NoRun EXCEPT !.pc = "gone"]
        /\ UNCHANGED <<subject, bound, observed, left, report, delivered>>
    BY <1>16 DEF ProcessEnds, At
  <2>2. loop' \in Runs /\ loop'.pc = "gone"
    BY <2>1 DEF NoRun, Places, Dispositions
  <2> QED
    BY <2>1, <2>2, <1>r, <1>t
<1>17. CASE UNCHANGED guardVars
  BY <1>17 DEF guardVars, StopIInv, GuardTypeOK, EndingIsEarned, At
<1> QED
  BY <1>1, <1>2, <1>3, <1>4, <1>5, <1>6, <1>7, <1>8, <1>9, <1>10, <1>11, <1>12, <1>14, <1>15,
     <1>16, <1>17 DEF StopNext

(* A turn that ended with success has earned it, whatever was committed     *)
(* between its evaluation and the decision, and however often it was        *)
(* answered before (decide_natural_stop; EndingIsEarned).                   *)
THEOREM EndingIsEarnedHolds == StopSpec => []EndingIsEarned
<1>1. StopIInv => EndingIsEarned
  BY DEF StopIInv
<1> QED
  BY <1>1, StopBegin, StopStep, PTL DEF StopSpec

-----------------------------------------------------------------------------
(* The browser.                                                             *)

Requests == [kind : {"bootstrap", "refresh", "probe"}, workspace : Workspaces,
             generation : 0..requestGeneration, refresh : 1..refreshGeneration,
             answer : Answers, revision : Nat, cursor : Nat]

LEMMA InitInvariant == ClientInit => ClientIInv
<1> SUFFICES ASSUME ClientInit PROVE ClientIInv
  OBVIOUS
<1>1. ClientTypeOK
  <2>1. /\ view = [kind |-> "cold", workspace |-> NoWorkspace, revision |-> 0]
        /\ view \in [kind : Kinds, workspace : Workspaces \cup {NoWorkspace}, revision : Nat]
        /\ stream = [phase |-> "closed", from |-> 0, at |-> 0, seen |-> {}]
        /\ stream \in [phase : Phases, from : Nat, at : Nat, seen : SUBSET Nat]
    BY DEF ClientInit, Kinds, ClosedStream, Phases, NoSnapshot
  <2>2. ASSUME NEW w \in Workspaces
        PROVE  /\ revision[w] <= LastRevision[w] /\ snapshots[w] <= revision[w]
               /\ outbox[w] \in Seq(2..revision[w])
    <3>1. outbox[w] = << >> /\ revision[w] = 1 /\ snapshots[w] = 0 /\ LastRevision[w] \in Nat \ {0}
      BY ClientAssumption DEF ClientInit, NoSnapshot
    <3>2. << >> \in Seq(2..1)
      OBVIOUS
    <3> QED
      BY <3>1, <3>2
  <2>3. ~Shown
    BY <2>1 DEF Shown
  <2>4. /\ revision \in [Workspaces -> Nat \ {0}] /\ outbox \in [Workspaces -> Seq(Nat)]
        /\ snapshots \in [Workspaces -> Nat] /\ requestGeneration \in Nat /\ refreshGeneration \in Nat
    <3>1. << >> \in Seq(Nat)
      OBVIOUS
    <3> QED
      BY <3>1 DEF ClientInit, NoSnapshot
  <2>5. queries = {} /\ opens \in 0..MaxOpens /\ faults \in 0..MaxFaults
    BY ClientAssumption DEF ClientInit
  <2>6. lost \in BOOLEAN
    BY DEF ClientInit
  <2> QED
    BY <2>1, <2>2, <2>3, <2>4, <2>5, <2>6 DEF ClientTypeOK
<1>2. QueriesArePlaced /\ OneOfAKind /\ AnswersAreTrue
  BY DEF ClientInit, QueriesArePlaced, OneOfAKind, AnswersAreTrue
<1>3. StreamIsAttended /\ NotificationsAreCovered
  BY DEF ClientInit, StreamIsAttended, NotificationsAreCovered, Shown, ClosedStream
<1> QED
  BY <1>1, <1>2, <1>3 DEF ClientIInv

(* An entry that is appended changes none of those before it.                *)
LEMMA AppendedEntries ==
  ASSUME NEW S, NEW s \in Seq(S), NEW e
  PROVE  /\ Len(Append(s, e)) = Len(s) + 1
         /\ \A i \in 1..Len(s) : Append(s, e)[i] = s[i]
         /\ Append(s, e)[Len(s) + 1] = e
OBVIOUS

LEMMA CommitStep ==
  ASSUME ClientIInv, NEW w \in Workspaces, Commit(w)
  PROVE  ClientIInv'
<1> DEFINE n == revision[w] + 1
<1>t. ClientTypeOK
  BY DEF ClientIInv
<1>u. UNCHANGED <<view, snapshots, requestGeneration, refreshGeneration,
                  queries, stream, opens, faults, lost>>
  BY DEF Commit
<1>r. /\ revision' = [revision EXCEPT ![w] = n] /\ revision[w] \in Nat \ {0}
      /\ n <= LastRevision[w]
      /\ outbox' = [outbox EXCEPT ![w] = Append(@, n)] \/ outbox' = outbox
  BY <1>t, ClientAssumption DEF ClientTypeOK, Commit
<1>v. \A v \in Workspaces : revision'[v] \in Nat /\ revision[v] <= revision'[v]
  <2>1. revision \in [Workspaces -> Nat \ {0}]
    BY <1>t DEF ClientTypeOK
  <2>2. revision' = [revision EXCEPT ![w] = revision[w] + 1]
    BY <1>r
  <2> QED
    BY <2>1, <2>2
<1>o. ASSUME NEW v \in Workspaces
      PROVE  /\ Len(outbox[v]) \in Nat /\ Len(outbox'[v]) \in Nat
             /\ Len(outbox[v]) <= Len(outbox'[v])
             /\ \A i \in 1..Len(outbox[v]) : outbox'[v][i] = outbox[v][i]
  <2>1. outbox[v] \in Seq(Nat) /\ outbox[w] \in Seq(Nat) /\ n \in Nat
    BY <1>t, <1>r DEF ClientTypeOK
  <2>2. outbox'[v] = outbox[v] \/ (v = w /\ outbox'[v] = Append(outbox[v], n))
    BY <1>t, <1>r DEF ClientTypeOK
  <2> QED
    BY <2>1, <2>2, AppendedEntries
<1>1. ClientTypeOK'
  <2>1. ASSUME NEW v \in Workspaces
        PROVE  /\ revision'[v] <= LastRevision[v] /\ snapshots'[v] <= revision'[v]
               /\ outbox'[v] \in Seq(2..revision'[v])
    <3>1. revision'[v] <= LastRevision[v] /\ snapshots'[v] <= revision'[v]
      BY <1>t, <1>u, <1>r, ClientAssumption DEF ClientTypeOK
    <3>2. outbox[v] \in Seq(2..revision'[v])
      <4>1. /\ outbox[v] \in Seq(2..revision[v]) /\ revision[v] \in Nat
            /\ revision'[v] \in Nat /\ revision[v] <= revision'[v]
        BY <1>t, <1>v DEF ClientTypeOK
      <4>2. \A i \in 1..Len(outbox[v]) : outbox[v][i] \in 2..revision'[v]
        BY <4>1
      <4> QED
        BY <4>1, <4>2
    <3>3. CASE outbox'[v] = outbox[v]
      BY <3>1, <3>2, <3>3
    <3>4. CASE v = w /\ outbox'[v] = Append(outbox[v], n)
      <4>1. n \in 2..revision'[v]
        BY <3>4, <1>t, <1>r DEF ClientTypeOK
      <4> QED
        BY <3>1, <3>2, <3>4, <4>1
    <3> QED
      BY <3>3, <3>4, <1>r, <1>t DEF ClientTypeOK
  <2>2. revision' \in [Workspaces -> Nat \ {0}] /\ outbox' \in [Workspaces -> Seq(Nat)]
    <3>1. n \in Nat \ {0} /\ outbox[w] \in Seq(Nat) /\ Append(outbox[w], n) \in Seq(Nat)
      BY <1>t, <1>r DEF ClientTypeOK
    <3> QED
      BY <3>1, <1>t, <1>r DEF ClientTypeOK
  <2>3. stream.phase # "closed" => view.workspace \in Workspaces
    BY <1>t DEF ClientTypeOK, ClientIInv, StreamIsAttended, Shown
  <2>4. /\ stream.phase = "connected" => stream.at \in stream.from..Len(outbox'[view.workspace])
        /\ stream.phase # "closed" =>
             /\ stream.from <= Len(outbox'[view.workspace])
             /\ stream.seen \subseteq (stream.from + 1)..Len(outbox'[view.workspace])
    <3>1. stream.from \in Nat /\ stream.at \in Nat /\ stream.seen \subseteq Nat
      BY <1>t DEF ClientTypeOK
    <3>2. CASE stream.phase # "closed"
      <4>1. /\ Len(outbox[view.workspace]) \in Nat /\ Len(outbox'[view.workspace]) \in Nat
            /\ Len(outbox[view.workspace]) <= Len(outbox'[view.workspace])
        BY <1>o, <2>3, <3>2
      <4>2. /\ stream.phase = "connected" => stream.at \in stream.from..Len(outbox[view.workspace])
            /\ stream.from <= Len(outbox[view.workspace])
            /\ stream.seen \subseteq (stream.from + 1)..Len(outbox[view.workspace])
        BY <1>t, <3>2 DEF ClientTypeOK
      <4> QED
        BY <3>1, <4>1, <4>2
    <3> QED
      BY <3>2
  <2> QED
    BY <1>t, <1>u, <2>1, <2>2, <2>4 DEF ClientTypeOK, Shown
<1>2. QueriesArePlaced' /\ OneOfAKind'
  BY <1>u DEF ClientIInv, QueriesArePlaced, OneOfAKind, Live, Current, Overtaken, LatestRefresh, Shown
<1>3. AnswersAreTrue'
  <2> SUFFICES ASSUME NEW q \in queries
               PROVE  /\ (q.answer = "ok" \/ q.kind = "probe") => q.cursor <= Len(outbox'[q.workspace])
                      /\ (q.answer = "ok" /\ q.kind # "probe") =>
                            /\ q.revision <= revision'[q.workspace]
                            /\ \A i \in 1..q.cursor : outbox'[q.workspace][i] <= q.revision
                            /\ Live(q) => snapshots[q.workspace] <= q.revision
    BY <1>u DEF AnswersAreTrue, Live, Current, Overtaken, LatestRefresh
  <2>1. q.workspace \in Workspaces /\ q.cursor \in Nat /\ q.revision \in Nat
    BY <1>t DEF ClientTypeOK
  <2>2. /\ revision[q.workspace] \in Nat /\ revision'[q.workspace] \in Nat
        /\ revision[q.workspace] <= revision'[q.workspace]
        /\ Len(outbox[q.workspace]) \in Nat /\ Len(outbox'[q.workspace]) \in Nat
        /\ Len(outbox[q.workspace]) <= Len(outbox'[q.workspace])
    BY <2>1, <1>o, <1>v, <1>t DEF ClientTypeOK
  <2>3. q.cursor <= Len(outbox[q.workspace]) =>
            \A i \in 1..q.cursor : outbox'[q.workspace][i] = outbox[q.workspace][i]
    BY <2>1, <2>2, <1>o
  <2> QED
    BY <2>1, <2>2, <2>3 DEF ClientIInv, AnswersAreTrue
<1>4. StreamIsAttended'
  BY <1>u DEF ClientIInv, StreamIsAttended, Shown, Live, Current, Overtaken, LatestRefresh
<1>5. NotificationsAreCovered'
  <2> SUFFICES ASSUME Shown, ~lost, NEW i \in DOMAIN outbox'[view.workspace]
               PROVE  \/ outbox'[view.workspace][i] <= view.revision
                      \/ ToBeNotified(i) \/ ToBeProbed(i)
                      \/ ToBeRefreshed(outbox'[view.workspace][i]) \/ ToFail
    BY <1>u DEF NotificationsAreCovered, Shown, ToBeNotified, ToBeProbed, ToBeRefreshed, ToFail,
         Live, Current, Overtaken, LatestRefresh
  <2>1. view.workspace \in Workspaces
    BY <1>t DEF ClientTypeOK, Shown
  <2>2. i \in Nat /\ i >= 1
    BY <2>1, <1>o
  <2>3. CASE i <= Len(outbox[view.workspace])
    BY <2>1, <2>2, <2>3, <1>o DEF ClientIInv, NotificationsAreCovered
  <2>4. CASE i > Len(outbox[view.workspace]) /\ stream.phase # "closed"
    BY <2>1, <2>2, <2>4, <1>o, <1>t DEF ClientTypeOK, ToBeNotified
  <2>5. CASE i > Len(outbox[view.workspace]) /\ stream.phase = "closed"
    <3>1. PICK q \in queries : q.kind = "probe" /\ Live(q)
      BY <2>5 DEF ClientIInv, StreamIsAttended
    <3>2. q.workspace = view.workspace /\ q.cursor <= Len(outbox[view.workspace])
      BY <3>1 DEF ClientIInv, QueriesArePlaced, AnswersAreTrue, Live
    <3>3. q.cursor \in Nat
      BY <1>t DEF ClientTypeOK
    <3>4. i > q.cursor
      BY <3>2, <3>3, <2>1, <2>2, <2>5, <1>o
    <3> QED
      BY <3>1, <3>4 DEF ToBeProbed
  <2> QED
    BY <2>1, <2>2, <2>3, <2>4, <2>5, <1>o
<1> QED
  BY <1>1, <1>2, <1>3, <1>4, <1>5 DEF ClientIInv

(* What the type invariant says of a workspace and of a request.             *)
LEMMA TypeFacts ==
  ASSUME ClientTypeOK
  PROVE  /\ \A w \in Workspaces :
               /\ revision[w] \in Nat /\ snapshots[w] \in Nat /\ snapshots[w] <= revision[w]
               /\ Len(outbox[w]) \in Nat /\ DOMAIN outbox[w] = 1..Len(outbox[w])
               /\ \A i \in 1..Len(outbox[w]) : outbox[w][i] \in Nat /\ outbox[w][i] <= revision[w]
         /\ \A q \in queries :
               /\ q \in Requests
               /\ q.workspace \in Workspaces /\ q.cursor \in Nat /\ q.revision \in Nat
               /\ q.generation \in 0..requestGeneration /\ q.refresh \in 1..refreshGeneration
               /\ q.kind \in {"bootstrap", "refresh", "probe"}
         /\ Shown => view.workspace \in Workspaces /\ view.revision = snapshots[view.workspace]
<1>1. ASSUME NEW w \in Workspaces
      PROVE  /\ revision[w] \in Nat /\ snapshots[w] \in Nat /\ snapshots[w] <= revision[w]
             /\ Len(outbox[w]) \in Nat /\ DOMAIN outbox[w] = 1..Len(outbox[w])
             /\ \A i \in 1..Len(outbox[w]) : outbox[w][i] \in Nat /\ outbox[w][i] <= revision[w]
  <2>1. /\ revision[w] \in Nat /\ snapshots[w] \in Nat /\ snapshots[w] <= revision[w]
        /\ outbox[w] \in Seq(2..revision[w])
    BY DEF ClientTypeOK
  <2> QED
    BY <2>1
<1>2. ASSUME NEW q \in queries
      PROVE  /\ q \in Requests
             /\ q.workspace \in Workspaces /\ q.cursor \in Nat /\ q.revision \in Nat
             /\ q.generation \in 0..requestGeneration /\ q.refresh \in 1..refreshGeneration
             /\ q.kind \in {"bootstrap", "refresh", "probe"}
  <2>1. q \in Requests
    BY DEF ClientTypeOK, Requests
  <2> QED
    BY <2>1 DEF Requests
<1>3. Shown => view.workspace \in Workspaces /\ view.revision = snapshots[view.workspace]
  BY DEF ClientTypeOK, Shown
<1> QED
  BY <1>1, <1>2, <1>3

(* The type invariant while the service stands still.                        *)
LEMMA TypesKept ==
  ASSUME ClientTypeOK, UNCHANGED serverVars,
         view' \in [kind : Kinds, workspace : Workspaces \cup {NoWorkspace}, revision : Nat],
         view'.kind # "cold" => view'.workspace \in Workspaces,
         snapshots' \in [Workspaces -> Nat],
         \A w \in Workspaces : snapshots'[w] <= revision[w],
         Shown' => view'.revision = snapshots'[view'.workspace],
         requestGeneration' \in Nat, refreshGeneration' \in Nat,
         \A q \in queries' : q \in Requests',
         stream' \in [phase : Phases, from : Nat, at : Nat, seen : SUBSET Nat],
         stream'.phase = "connected" =>
             stream'.at \in stream'.from..Len(outbox[view'.workspace]),
         stream'.phase # "closed" =>
             /\ stream'.from <= Len(outbox[view'.workspace])
             /\ stream'.seen \subseteq (stream'.from + 1)..Len(outbox[view'.workspace]),
         opens' \in 0..MaxOpens, faults' \in 0..MaxFaults, lost' \in BOOLEAN
  PROVE  ClientTypeOK'
<1>1. revision' = revision /\ outbox' = outbox
  BY DEF serverVars
<1> QED
  BY <1>1 DEF ClientTypeOK, Requests

(* Only the requests change.                                                 *)
LEMMA TypesOfRequests ==
  ASSUME ClientTypeOK,
         UNCHANGED <<serverVars, view, snapshots, requestGeneration, refreshGeneration,
                     stream, opens, lost>>,
         faults' \in 0..MaxFaults, \A q \in queries' : q \in Requests
  PROVE  ClientTypeOK'
<1>1. revision' = revision /\ outbox' = outbox
  BY DEF serverVars
<1> QED
  BY <1>1 DEF ClientTypeOK, Requests, Shown

LEMMA AnsweredStep ==
  ASSUME ClientIInv, NEW q \in queries, q.answer = "none", NEW a \in Requests,
         a.kind = q.kind, a.workspace = q.workspace,
         a.generation = q.generation, a.refresh = q.refresh,
         a.answer \in {"ok", "refused", "thrown"} \/ q.kind = "probe",
         q.kind = "probe" => a.cursor = q.cursor,
         (a.answer = "ok" /\ q.kind # "probe") =>
             a.revision = revision[q.workspace] /\ a.cursor = Len(outbox[q.workspace]),
         queries' = (queries \ {q}) \cup {a}, faults' \in 0..MaxFaults,
         UNCHANGED <<serverVars, view, snapshots, requestGeneration, refreshGeneration,
                     stream, opens, lost>>
  PROVE  ClientIInv'
<1>t. ClientTypeOK
  BY DEF ClientIInv
<1>s. revision' = revision /\ outbox' = outbox
  BY DEF serverVars
<1>l. /\ \A p \in queries : Live(p)' <=> Live(p)
      /\ \A p \in queries : Current(p)' <=> Current(p)
      /\ (Live(a)' <=> Live(q)) /\ (Current(a)' <=> Current(q))
      /\ Shown' <=> Shown
  BY DEF Live, Current, Overtaken, LatestRefresh, Shown
<1>1. ClientTypeOK'
  <2>1. \A p \in queries' : p \in Requests
    BY <1>t, TypeFacts
  <2> QED
    BY <1>t, <2>1, TypesOfRequests
<1>2. QueriesArePlaced'
  BY <1>l DEF ClientIInv, QueriesArePlaced
<1>3. OneOfAKind'
  BY <1>l DEF ClientIInv, OneOfAKind
<1>4. AnswersAreTrue'
  <2>1. ASSUME NEW p \in queries \ {q}
        PROVE  /\ (p.answer = "ok" \/ p.kind = "probe") => p.cursor <= Len(outbox[p.workspace])
               /\ (p.answer = "ok" /\ p.kind # "probe") =>
                     /\ p.revision <= revision[p.workspace]
                     /\ \A i \in 1..p.cursor : outbox[p.workspace][i] <= p.revision
                     /\ Live(p)' => snapshots[p.workspace] <= p.revision
    BY <1>l DEF ClientIInv, AnswersAreTrue
  <2>2. q.workspace \in Workspaces
    BY <1>t, TypeFacts
  <2>3. (a.answer = "ok" \/ a.kind = "probe") => a.cursor <= Len(outbox[a.workspace])
    BY <2>2, <1>t, TypeFacts DEF ClientIInv, AnswersAreTrue
  <2>4. (a.answer = "ok" /\ a.kind # "probe") =>
            /\ a.revision <= revision[a.workspace]
            /\ \A i \in 1..a.cursor : outbox[a.workspace][i] <= a.revision
            /\ snapshots[a.workspace] <= a.revision
    BY <2>2, <1>t, TypeFacts
  <2> QED
    BY <1>s, <2>1, <2>3, <2>4 DEF AnswersAreTrue
<1>5. StreamIsAttended'
  BY <1>l DEF ClientIInv, StreamIsAttended
<1>6. NotificationsAreCovered'
  <2> SUFFICES ASSUME Shown, ~lost, NEW i \in DOMAIN outbox[view.workspace]
               PROVE  \/ outbox[view.workspace][i] <= view.revision
                      \/ ToBeNotified(i) \/ ToBeProbed(i)'
                      \/ ToBeRefreshed(outbox[view.workspace][i])' \/ ToFail'
    BY <1>s, <1>l DEF NotificationsAreCovered, ToBeNotified, ToBeRefreshed
  <2> DEFINE r == outbox[view.workspace][i]
  <2>0. view.workspace \in Workspaces /\ r \in Nat /\ r <= revision[view.workspace]
    BY <1>t, TypeFacts
  <2>1. CASE ToBeProbed(i)
    BY <2>1, <1>l DEF ToBeProbed
  <2>2. CASE ToBeRefreshed(r)
    <3>1. PICK p \in queries : /\ p.kind = "refresh" /\ Live(p)
                               /\ p.answer = "none" \/ (p.answer = "ok" /\ p.revision >= r)
      BY <2>2 DEF ToBeRefreshed
    <3>2. CASE p # q
      BY <3>1, <3>2, <1>l, <1>s DEF ToBeRefreshed
    <3>3. CASE p = q /\ a.answer = "ok"
      <4>1. q.workspace = view.workspace
        BY <3>1, <3>3 DEF ClientIInv, QueriesArePlaced, Live
      <4>2. a.revision = revision[view.workspace]
        BY <4>1, <3>1, <3>3
      <4>3. a.revision >= r
        BY <4>2, <2>0, <1>t, TypeFacts
      <4> QED
        BY <4>3, <3>1, <3>3, <1>l, <1>s DEF ToBeRefreshed
    <3>4. CASE p = q /\ a.answer # "ok"
      BY <3>1, <3>4, <1>l DEF ToFail
    <3> QED
      BY <3>2, <3>3, <3>4
  <2>3. CASE ToFail
    BY <2>3, <1>l DEF ToFail
  <2> QED
    BY <2>1, <2>2, <2>3 DEF ClientIInv, NotificationsAreCovered
<1> QED
  BY <1>1, <1>2, <1>3, <1>4, <1>5, <1>6 DEF ClientIInv

LEMMA ServeStep ==
  ASSUME ClientIInv, NEW q \in queries, Serve(q)
  PROVE  ClientIInv'
<1>t. ClientTypeOK /\ q \in Requests /\ q.workspace \in Workspaces
  BY TypeFacts DEF ClientIInv
<1>1. Reply(q) \in Requests
  BY <1>t, TypeFacts DEF Reply, BootstrapAnswer, Requests, Answers
<1>2. /\ Reply(q).kind = q.kind /\ Reply(q).workspace = q.workspace
      /\ Reply(q).generation = q.generation /\ Reply(q).refresh = q.refresh
      /\ Reply(q).answer = "ok"
      /\ q.kind = "probe" => Reply(q).cursor = q.cursor
      /\ q.kind # "probe" => /\ Reply(q).revision = revision[q.workspace]
                             /\ Reply(q).cursor = Len(outbox[q.workspace])
  BY <1>t DEF Reply, BootstrapAnswer, Requests
<1>3. faults' \in 0..MaxFaults
  BY <1>t DEF Serve, ClientTypeOK
<1> QED
  BY <1>1, <1>2, <1>3, AnsweredStep DEF Serve

LEMMA QueryFailsStep ==
  ASSUME ClientIInv, NEW q \in queries, QueryFails(q)
  PROVE  ClientIInv'
<1>t. ClientTypeOK /\ q \in Requests
  BY TypeFacts DEF ClientIInv
<1>1. PICK status \in {"refused", "thrown"} \cup (IF q.kind = "probe" THEN {"resync"} ELSE {}) :
          queries' = (queries \ {q}) \cup {[q EXCEPT !.answer = status]}
  BY DEF QueryFails
<1> DEFINE a == [q EXCEPT !.answer = status]
<1>2. /\ a \in Requests /\ a.kind = q.kind /\ a.workspace = q.workspace
      /\ a.generation = q.generation /\ a.refresh = q.refresh
      /\ a.answer = status /\ a.cursor = q.cursor
  BY <1>t DEF Requests, Answers
<1>3. faults' \in 0..MaxFaults
  <2>1. faults \in 0..MaxFaults /\ MaxFaults \in Nat
    BY <1>t, ClientAssumption DEF ClientTypeOK
  <2> QED
    BY <2>1 DEF QueryFails
<1>4. status # "ok" /\ (status \in {"refused", "thrown"} \/ q.kind = "probe")
  OBVIOUS
<1> QED
  <2> HIDE DEF a
  <2> QED
    BY <1>1, <1>2, <1>3, <1>4, AnsweredStep DEF QueryFails, a

LEMMA IgnoreStep ==
  ASSUME ClientIInv, NEW q \in queries, ~Live(q), Ignore(q)
  PROVE  ClientIInv'
<1>t. ClientTypeOK
  BY DEF ClientIInv
<1>u. /\ queries' = queries \ {q} /\ revision' = revision /\ outbox' = outbox
      /\ UNCHANGED <<view, snapshots, requestGeneration, refreshGeneration, stream, opens, faults, lost>>
  BY DEF Ignore, Keeps, serverVars
<1>l. /\ \A p \in queries : (Live(p)' <=> Live(p)) /\ (Current(p)' <=> Current(p))
      /\ Shown' <=> Shown
  BY <1>u DEF Live, Current, Overtaken, LatestRefresh, Shown
<1>1. ClientTypeOK'
  BY <1>t, <1>u DEF ClientTypeOK, Shown
<1>2. QueriesArePlaced' /\ OneOfAKind' /\ AnswersAreTrue' /\ StreamIsAttended'
  BY <1>u, <1>l DEF ClientIInv, QueriesArePlaced, OneOfAKind, AnswersAreTrue, StreamIsAttended
<1>3. NotificationsAreCovered'
  BY <1>u, <1>l DEF ClientIInv, NotificationsAreCovered, ToBeNotified, ToBeProbed, ToBeRefreshed, ToFail
<1> QED
  BY <1>1, <1>2, <1>3 DEF ClientIInv

(* openWorkspace overtakes every request that is in flight.                  *)
LEMMA OpenStep ==
  ASSUME ClientIInv, NEW w \in Workspaces, NEW rest \in SUBSET queries, OpenWorkspace(w, rest),
         UNCHANGED serverVars, opens' \in 0..MaxOpens, faults' \in 0..MaxFaults
  PROVE  ClientIInv'
<1> DEFINE b == Query("bootstrap", w, requestGeneration', refreshGeneration', 0)
<1>t. ClientTypeOK
  BY DEF ClientIInv
<1>s. revision' = revision /\ outbox' = outbox
  BY DEF serverVars
<1>g. /\ requestGeneration \in Nat /\ refreshGeneration \in Nat
      /\ requestGeneration' = requestGeneration + 1 /\ refreshGeneration' = refreshGeneration + 1
  BY <1>t DEF ClientTypeOK, OpenWorkspace
<1>v. /\ view' = [kind |-> "bootstrapping", workspace |-> w, revision |-> 0]
      /\ stream' = [phase |-> "closed", from |-> 0, at |-> 0, seen |-> {}]
      /\ queries' = rest \cup {b} /\ snapshots' = snapshots
  BY DEF OpenWorkspace, ClosedStream, NoSnapshot
<1>h. ~Shown'
  BY <1>v DEF Shown
<1>b. /\ b.kind = "bootstrap" /\ b.workspace = w /\ b.answer = "none"
      /\ b \in Requests'
  BY <1>g DEF Query, Requests, Answers, NoSnapshot
<1>q. ASSUME NEW p \in rest
      PROVE  ~Current(p)' /\ p \in Requests'
  <2>1. p \in Requests /\ p.generation \in 0..requestGeneration
    BY <1>t, TypeFacts
  <2> QED
    BY <2>1, <1>g DEF Current, Requests
<1> HIDE DEF b
<1>1. ClientTypeOK'
  <2>1. /\ view' \in [kind : Kinds, workspace : Workspaces \cup {NoWorkspace}, revision : Nat]
        /\ stream' \in [phase : Phases, from : Nat, at : Nat, seen : SUBSET Nat]
        /\ stream'.phase = "closed" /\ view'.workspace = w
    BY <1>v DEF Kinds, Phases
  <2>2. \A p \in queries' : p \in Requests'
    BY <1>v, <1>b, <1>q
  <2>3. /\ snapshots' \in [Workspaces -> Nat] /\ \A v \in Workspaces : snapshots'[v] <= revision[v]
        /\ requestGeneration' \in Nat /\ refreshGeneration' \in Nat
    BY <1>t, <1>v, <1>g DEF ClientTypeOK
  <2>4. lost' \in BOOLEAN
    BY DEF OpenWorkspace
  <2> QED
    BY <1>t, <1>h, <2>1, <2>2, <2>3, <2>4, TypesKept
<1>2. QueriesArePlaced' /\ OneOfAKind'
  BY <1>v, <1>b, <1>q DEF QueriesArePlaced, OneOfAKind, Live
<1>3. AnswersAreTrue'
  BY <1>s, <1>v, <1>b, <1>q DEF ClientIInv, AnswersAreTrue, Live
<1>4. StreamIsAttended' /\ NotificationsAreCovered'
  BY <1>v, <1>h DEF StreamIsAttended, NotificationsAreCovered
<1> QED
  BY <1>1, <1>2, <1>3, <1>4 DEF ClientIInv

LEMMA UserOpensStep ==
  ASSUME ClientIInv, NEW w \in Workspaces, UserOpens(w)
  PROVE  ClientIInv'
<1>1. opens \in 0..MaxOpens /\ faults \in 0..MaxFaults /\ MaxOpens \in Nat
  BY ClientAssumption DEF ClientIInv, ClientTypeOK
<1>2. opens' \in 0..MaxOpens /\ faults' \in 0..MaxFaults
  BY <1>1 DEF UserOpens
<1> QED
  BY <1>2, OpenStep DEF UserOpens

(* While the workspace is being opened, only its bootstrap is current.       *)
LEMMA BootstrapIsAlone ==
  ASSUME ClientIInv, NEW q \in queries, q.kind = "bootstrap", Current(q)
  PROVE  /\ Live(q) /\ q.workspace = view.workspace
         /\ view.kind = "bootstrapping" /\ stream.phase = "closed" /\ ~Shown
         /\ \A p \in queries \ {q} : ~Current(p)
<1>1. Live(q)
  BY DEF Live, Overtaken
<1>2. /\ q.workspace = view.workspace
      /\ view.kind = "bootstrapping" /\ stream.phase = "closed" /\ ~Shown
  BY DEF ClientIInv, QueriesArePlaced, Shown
<1>3. ASSUME NEW p \in queries \ {q}, Current(p) PROVE FALSE
  <2>1. p.kind = "bootstrap"
    BY <1>2, <1>3, TypeFacts DEF ClientIInv, QueriesArePlaced
  <2>2. Live(p)
    BY <2>1, <1>3 DEF Live, Overtaken
  <2> QED
    BY <1>1, <2>1, <2>2, <1>3 DEF ClientIInv, OneOfAKind
<1> QED
  BY <1>1, <1>2, <1>3

LEMMA BootstrappedStep ==
  ASSUME ClientIInv, NEW q \in queries, Bootstrapped(q)
  PROVE  ClientIInv'
<1> DEFINE p == Query("probe", q.workspace, q.generation, q.refresh, q.cursor)
<1>t. ClientTypeOK /\ q \in Requests /\ q.workspace \in Workspaces
  BY TypeFacts DEF ClientIInv
<1>u. /\ UNCHANGED <<requestGeneration, refreshGeneration, opens, faults, stream, serverVars>>
      /\ revision' = revision /\ outbox' = outbox
  BY DEF Bootstrapped, Keeps, serverVars
<1>q. /\ Live(q) /\ Current(q) /\ q.workspace = view.workspace
      /\ view.kind = "bootstrapping" /\ stream.phase = "closed"
      /\ \A c \in queries \ {q} : ~Current(c)
  BY BootstrapIsAlone DEF Bootstrapped
<1>c. /\ \A c \in queries : (Current(c)' <=> Current(c)) /\ (Live(c)' <=> Live(c))
      /\ Requests' = Requests
  BY <1>u DEF Current, Live, Overtaken, LatestRefresh, Requests
<1>1. CASE /\ q.answer = "ok" /\ Show(q) /\ lost' = lost
           /\ queries' = (queries \ {q}) \cup {p}
  <2>1. /\ p \in Requests /\ p.kind = "probe" /\ p.workspace = q.workspace
        /\ p.cursor = q.cursor /\ p.generation = q.generation
    BY <1>t DEF Query, Requests, Answers, NoSnapshot
  <2>2. /\ view' = [kind |-> "ready", workspace |-> q.workspace, revision |-> q.revision]
        /\ snapshots' = [snapshots EXCEPT ![q.workspace] = q.revision]
    BY <1>1 DEF Show
  <2>3. /\ q.cursor \in Nat /\ q.revision \in Nat /\ q.revision <= revision[q.workspace]
        /\ q.cursor <= Len(outbox[q.workspace])
        /\ \A i \in 1..q.cursor : outbox[q.workspace][i] <= q.revision
    BY <1>1, <1>t, TypeFacts DEF ClientIInv, AnswersAreTrue, Bootstrapped
  <2>4. Shown' /\ Current(p)' /\ Live(p)'
    BY <1>u, <1>q, <2>1, <2>2 DEF Shown, Current, Live, Overtaken
  <2> HIDE DEF p
  <2>5. ClientTypeOK'
    <3>1. view' \in [kind : Kinds, workspace : Workspaces \cup {NoWorkspace}, revision : Nat]
      BY <2>2, <2>3, <1>t DEF Kinds
    <3>2. snapshots' \in [Workspaces -> Nat] /\ \A w \in Workspaces : snapshots'[w] <= revision[w]
      BY <2>2, <2>3, <1>t DEF ClientTypeOK
    <3>3. view'.workspace \in Workspaces /\ view'.revision = snapshots'[view'.workspace]
      BY <2>2, <1>t DEF ClientTypeOK
    <3>4. \A c \in queries' : c \in Requests'
      BY <1>1, <1>c, <2>1, <1>t, TypeFacts
    <3>5. /\ stream' \in [phase : Phases, from : Nat, at : Nat, seen : SUBSET Nat]
          /\ stream'.phase = "closed"
          /\ requestGeneration' \in Nat /\ refreshGeneration' \in Nat
          /\ opens' \in 0..MaxOpens /\ faults' \in 0..MaxFaults
      BY <1>t, <1>u, <1>q DEF ClientTypeOK
    <3>6. lost' \in BOOLEAN
      BY <1>t, <1>1 DEF ClientTypeOK
    <3> QED
      BY <1>t, <1>u, <3>1, <3>2, <3>3, <3>4, <3>5, <3>6, TypesKept
  <2>6. QueriesArePlaced' /\ OneOfAKind'
    BY <1>1, <1>u, <1>q, <1>c, <2>1, <2>2, <2>4 DEF QueriesArePlaced, OneOfAKind, Live
  <2>7. AnswersAreTrue'
    BY <1>1, <1>u, <1>q, <1>c, <2>1, <2>3 DEF ClientIInv, AnswersAreTrue, Live
  <2>8. StreamIsAttended'
    BY <1>1, <1>u, <1>q, <2>1, <2>4 DEF StreamIsAttended
  <2>9. NotificationsAreCovered'
    <3> SUFFICES ASSUME NEW i \in DOMAIN outbox[q.workspace]
                 PROVE  outbox[q.workspace][i] <= q.revision \/ ToBeProbed(i)'
      BY <1>u, <2>2 DEF NotificationsAreCovered
    <3>1. i \in 1..Len(outbox[q.workspace]) /\ Len(outbox[q.workspace]) \in Nat
      BY <1>t, TypeFacts
    <3>2. CASE i <= q.cursor
      BY <3>1, <3>2, <2>3
    <3>3. CASE i > q.cursor
      BY <3>3, <1>1, <2>1, <2>4 DEF ToBeProbed
    <3> QED
      BY <3>1, <3>2, <3>3, <2>3
  <2> QED
    BY <2>5, <2>6, <2>7, <2>8, <2>9 DEF ClientIInv
<1>2. CASE /\ queries' = queries \ {q} /\ lost' = TRUE /\ snapshots' = snapshots
           /\ view' = view \/ view' = [view EXCEPT !.kind = "unavailable"]
  <2>1. /\ view' \in [kind : Kinds, workspace : Workspaces \cup {NoWorkspace}, revision : Nat]
        /\ view'.workspace = view.workspace /\ ~Shown'
    BY <1>2, <1>t, <1>q DEF ClientTypeOK, Kinds, Shown
  <2>2. ClientTypeOK'
    <3>1. /\ snapshots' \in [Workspaces -> Nat] /\ \A w \in Workspaces : snapshots'[w] <= revision[w]
          /\ stream' \in [phase : Phases, from : Nat, at : Nat, seen : SUBSET Nat]
          /\ stream'.phase = "closed"
          /\ requestGeneration' \in Nat /\ refreshGeneration' \in Nat
          /\ opens' \in 0..MaxOpens /\ faults' \in 0..MaxFaults
      BY <1>2, <1>t, <1>u, <1>q DEF ClientTypeOK
    <3>2. \A c \in queries' : c \in Requests'
      BY <1>2, <1>c, <1>t, TypeFacts
    <3>3. lost' \in BOOLEAN
      BY <1>2
    <3> QED
      BY <1>t, <1>u, <1>q, <2>1, <3>1, <3>2, <3>3, TypesKept
  <2>3. QueriesArePlaced' /\ OneOfAKind'
    BY <1>2, <1>c, <1>q DEF QueriesArePlaced, OneOfAKind, Live
  <2>4. AnswersAreTrue'
    BY <1>2, <1>u, <1>c DEF ClientIInv, AnswersAreTrue
  <2>5. StreamIsAttended' /\ NotificationsAreCovered'
    BY <2>1, <1>u, <1>q DEF StreamIsAttended, NotificationsAreCovered
  <2> QED
    BY <2>2, <2>3, <2>4, <2>5 DEF ClientIInv
<1> QED
  BY <1>1, <1>2 DEF Bootstrapped

(* Once a snapshot is shown, no bootstrap is current.                        *)
LEMMA NoBootstrapWhileShown ==
  ASSUME ClientIInv, Shown, NEW q \in queries, Current(q)
  PROVE  q.kind # "bootstrap" /\ q.workspace = view.workspace
BY DEF ClientIInv, QueriesArePlaced, Shown

LEMMA RefreshedStep ==
  ASSUME ClientIInv, NEW q \in queries, Refreshed(q)
  PROVE  ClientIInv'
<1>t. ClientTypeOK /\ q.workspace \in Workspaces /\ q.revision \in Nat
  BY TypeFacts DEF ClientIInv
<1>u. /\ UNCHANGED <<requestGeneration, refreshGeneration, opens, faults, stream, serverVars>>
      /\ revision' = revision /\ outbox' = outbox /\ queries' = queries \ {q}
  BY DEF Refreshed, Keeps, serverVars
<1>q. /\ Live(q) /\ Current(q) /\ q.kind = "refresh"
      /\ Shown /\ q.workspace = view.workspace
  BY DEF Refreshed, Live, Overtaken, ClientIInv, QueriesArePlaced
<1>c. /\ \A c \in queries : (Current(c)' <=> Current(c)) /\ (Live(c)' <=> Live(c))
      /\ Requests' = Requests
  BY <1>u DEF Current, Live, Overtaken, LatestRefresh, Requests
<1>a. \A c \in queries : Live(c) /\ c.kind = "refresh" => c = q
  BY <1>q DEF ClientIInv, OneOfAKind
<1>s. view.workspace \in Workspaces /\ view.revision = snapshots[view.workspace] /\ view.revision \in Nat
  BY <1>t, <1>q, TypeFacts
<1>v. /\ view'.workspace = view.workspace /\ Shown'
      /\ view' \in [kind : Kinds, workspace : Workspaces \cup {NoWorkspace}, revision : Nat]
      /\ snapshots' \in [Workspaces -> Nat] /\ \A w \in Workspaces : snapshots'[w] <= revision[w]
      /\ view'.revision = snapshots'[view.workspace] /\ view.revision <= view'.revision
      /\ lost' \in BOOLEAN
      /\ (q.answer = "ok" => view'.revision = q.revision) /\ (q.answer # "ok" => lost')
  <2>1. CASE q.answer = "ok"
    <3>1. /\ view' = [kind |-> "ready", workspace |-> q.workspace, revision |-> q.revision]
          /\ snapshots' = [snapshots EXCEPT ![q.workspace] = q.revision] /\ lost' = lost
      BY <2>1 DEF Refreshed, Show
    <3>2. q.revision <= revision[q.workspace] /\ snapshots[q.workspace] <= q.revision
      BY <2>1, <1>q DEF ClientIInv, AnswersAreTrue
    <3>3. snapshots' \in [Workspaces -> Nat] /\ \A w \in Workspaces : snapshots'[w] <= revision[w]
      BY <3>1, <3>2, <1>t DEF ClientTypeOK
    <3>4. lost' \in BOOLEAN
      BY <3>1, <1>t DEF ClientTypeOK
    <3>5. /\ view' \in [kind : Kinds, workspace : Workspaces \cup {NoWorkspace}, revision : Nat]
          /\ view'.workspace = view.workspace /\ Shown' /\ view'.revision = q.revision
      BY <3>1, <1>t, <1>q DEF Kinds, Shown
    <3>6. snapshots'[view.workspace] = q.revision
      BY <3>1, <1>t, <1>q DEF ClientTypeOK
    <3> QED
      BY <2>1, <3>2, <3>3, <3>4, <3>5, <3>6, <1>s, <1>q
  <2>2. CASE q.answer # "ok"
    <3>1. lost' = TRUE /\ view' = view /\ snapshots' = snapshots
      BY <2>2 DEF Refreshed
    <3>2. Shown'
      BY <3>1, <1>q DEF Shown
    <3>3. /\ view \in [kind : Kinds, workspace : Workspaces \cup {NoWorkspace}, revision : Nat]
          /\ snapshots \in [Workspaces -> Nat] /\ \A w \in Workspaces : snapshots[w] <= revision[w]
      BY <1>t DEF ClientTypeOK
    <3> QED
      BY <2>2, <3>1, <3>2, <3>3, <1>s
  <2> QED
    BY <2>1, <2>2
<1>1. ClientTypeOK'
  <2>1. /\ stream' \in [phase : Phases, from : Nat, at : Nat, seen : SUBSET Nat]
        /\ stream'.phase = "connected" => stream'.at \in stream'.from..Len(outbox[view.workspace])
        /\ stream'.phase # "closed" =>
              /\ stream'.from <= Len(outbox[view.workspace])
              /\ stream'.seen \subseteq (stream'.from + 1)..Len(outbox[view.workspace])
        /\ requestGeneration' \in Nat /\ refreshGeneration' \in Nat
        /\ opens' \in 0..MaxOpens /\ faults' \in 0..MaxFaults
    BY <1>t, <1>u DEF ClientTypeOK
  <2>2. \A c \in queries' : c \in Requests'
    BY <1>u, <1>c, <1>t, TypeFacts
  <2> QED
    BY <1>t, <1>u, <1>v, <1>s, <2>1, <2>2, TypesKept
<1>2. QueriesArePlaced'
  <2>1. \A c \in queries : Current(c) /\ c.kind = "probe" => stream.phase = "closed"
    BY DEF ClientIInv, QueriesArePlaced
  <2> QED
    BY <1>u, <1>c, <1>q, <1>v, <2>1, NoBootstrapWhileShown DEF QueriesArePlaced
<1>3. OneOfAKind'
  BY <1>u, <1>c DEF ClientIInv, OneOfAKind
<1>4. AnswersAreTrue'
  <2>1. \A c \in queries \ {q} : c.kind # "probe" => ~Live(c)
    BY <1>q, <1>a, <1>t, NoBootstrapWhileShown, TypeFacts DEF Live
  <2> QED
    BY <1>u, <1>c, <2>1 DEF ClientIInv, AnswersAreTrue
<1>5. StreamIsAttended'
  <2>1. CASE lost'
    BY <2>1, <1>u, <1>v DEF StreamIsAttended
  <2>2. CASE ~lost'
    <3>1. ~lost
      BY <2>2 DEF Refreshed
    <3> QED
      BY <3>1, <1>u, <1>c, <1>v, <1>q DEF ClientIInv, StreamIsAttended
  <2> QED
    BY <2>1, <2>2
<1>6. NotificationsAreCovered'
  <2> SUFFICES ASSUME ~lost', NEW i \in DOMAIN outbox[view.workspace]
               PROVE  \/ outbox[view.workspace][i] <= view'.revision
                      \/ ToBeNotified(i)' \/ ToBeProbed(i)' \/ ToFail'
    BY <1>u, <1>v DEF NotificationsAreCovered
  <2> DEFINE r == outbox[view.workspace][i]
  <2>0. r \in Nat /\ ~lost /\ q.answer = "ok" /\ view'.revision = q.revision
    BY <1>s, <1>t, <1>v, TypeFacts DEF Refreshed
  <2>1. CASE r <= view.revision
    BY <2>0, <2>1, <1>s, <1>v, <1>t
  <2>2. CASE ToBeNotified(i)
    BY <2>2, <1>u DEF ToBeNotified
  <2>3. CASE ToBeProbed(i)
    BY <2>3, <1>u, <1>q, <1>c DEF ToBeProbed
  <2>4. CASE ToBeRefreshed(r)
    BY <2>0, <2>4, <1>a DEF ToBeRefreshed
  <2>5. CASE ToFail
    BY <2>0, <2>5, <1>u, <1>c DEF ToFail
  <2> QED
    BY <2>0, <2>1, <2>2, <2>3, <2>4, <2>5, <1>q DEF ClientIInv, NotificationsAreCovered
<1> QED
  BY <1>1, <1>2, <1>3, <1>4, <1>5, <1>6 DEF ClientIInv

(* The stream's own steps: what is shown and where the stream began stay.     *)
LEMMA StreamMoves ==
  ASSUME ClientIInv, stream.phase # "closed",
         UNCHANGED <<serverVars, snapshots, requestGeneration, refreshGeneration,
                     queries, opens, lost>>,
         faults' \in 0..MaxFaults,
         stream' \in [phase : Phases, from : Nat, at : Nat, seen : SUBSET Nat],
         stream'.phase # "closed", stream'.from = stream.from, stream'.seen = stream.seen,
         stream'.phase = "connected" =>
             stream'.at \in stream.from..Len(outbox[view.workspace]),
         view' = view \/ view' = [view EXCEPT !.kind = "ready"]
                      \/ view' = [view EXCEPT !.kind = "reconnecting"]
  PROVE  ClientIInv'
<1>t. ClientTypeOK /\ Shown
  BY DEF ClientIInv, StreamIsAttended
<1>u. revision' = revision /\ outbox' = outbox
  BY DEF serverVars
<1>v. /\ view' \in [kind : Kinds, workspace : Workspaces \cup {NoWorkspace}, revision : Nat]
      /\ view'.workspace = view.workspace /\ view'.revision = view.revision /\ Shown'
  BY <1>t DEF ClientTypeOK, Kinds, Shown
<1>c. /\ \A c \in queries : (Current(c)' <=> Current(c)) /\ (Live(c)' <=> Live(c))
      /\ Requests' = Requests
  BY DEF Current, Live, Overtaken, LatestRefresh, Requests
<1>p. \A c \in queries : Current(c) => c.kind = "refresh" /\ c.workspace = view.workspace
  BY <1>t, NoBootstrapWhileShown, TypeFacts DEF ClientIInv, QueriesArePlaced
<1>1. ClientTypeOK'
  <2>1. /\ snapshots \in [Workspaces -> Nat] /\ \A w \in Workspaces : snapshots[w] <= revision[w]
        /\ view.workspace \in Workspaces /\ view.revision = snapshots[view.workspace]
        /\ stream.from <= Len(outbox[view.workspace])
        /\ stream.seen \subseteq (stream.from + 1)..Len(outbox[view.workspace])
        /\ requestGeneration \in Nat /\ refreshGeneration \in Nat /\ opens \in 0..MaxOpens
    BY <1>t DEF ClientTypeOK, Shown
  <2>2. lost' \in BOOLEAN
    BY <1>t DEF ClientTypeOK
  <2>3. \A c \in queries' : c \in Requests'
    BY <1>c, <1>t, TypeFacts
  <2> QED
    BY <1>t, <1>v, <2>1, <2>2, <2>3, TypesKept
<1>2. QueriesArePlaced'
  BY <1>c, <1>p, <1>v DEF QueriesArePlaced
<1>3. OneOfAKind' /\ AnswersAreTrue'
  BY <1>u, <1>c DEF ClientIInv, OneOfAKind, AnswersAreTrue
<1>4. StreamIsAttended'
  BY <1>v DEF StreamIsAttended
<1>5. NotificationsAreCovered'
  BY <1>t, <1>u, <1>c, <1>v DEF ClientIInv, NotificationsAreCovered, ToBeNotified, ToBeProbed, ToBeRefreshed, ToFail
<1> QED
  BY <1>1, <1>2, <1>3, <1>4, <1>5 DEF ClientIInv

LEMMA StreamStep ==
  ASSUME ClientIInv, Connects \/ Disconnects \/ Retries
  PROVE  ClientIInv'
<1>t. /\ stream \in [phase : Phases, from : Nat, at : Nat, seen : SUBSET Nat]
      /\ faults \in 0..MaxFaults /\ MaxFaults \in Nat
  BY ClientAssumption DEF ClientIInv, ClientTypeOK
<1>1. CASE Connects
  <2>1. /\ stream.phase = "connecting" /\ stream' = [stream EXCEPT !.phase = "connected", !.at = stream.from]
        /\ view' = view \/ view' = [view EXCEPT !.kind = "ready"]
        /\ UNCHANGED <<serverVars, snapshots, requestGeneration, refreshGeneration, queries, opens, faults, lost>>
    BY <1>1 DEF Connects, Keeps
  <2>2. /\ stream' \in [phase : Phases, from : Nat, at : Nat, seen : SUBSET Nat]
        /\ stream'.phase = "connected" /\ stream'.at = stream.from
        /\ stream'.from = stream.from /\ stream'.seen = stream.seen
    BY <1>t, <2>1 DEF Phases
  <2>3. stream.from \in stream.from..Len(outbox[view.workspace])
    <3>1. stream.from <= Len(outbox[view.workspace]) /\ Shown /\ stream.from \in Nat
      BY <1>t, <2>1 DEF ClientIInv, ClientTypeOK, StreamIsAttended
    <3>2. Len(outbox[view.workspace]) \in Nat
      BY <3>1, TypeFacts DEF ClientIInv
    <3> QED
      BY <3>1, <3>2
  <2> QED
    BY <1>t, <2>1, <2>2, <2>3, StreamMoves
<1>2. CASE Disconnects
  <2>1. /\ stream.phase # "closed" /\ stream' = [stream EXCEPT !.phase = "waiting"]
        /\ view' = view \/ view' = [view EXCEPT !.kind = "reconnecting"]
        /\ UNCHANGED <<serverVars, snapshots, requestGeneration, refreshGeneration, queries, opens, lost>>
    BY <1>2 DEF Disconnects, MarkReconnecting
  <2>2. /\ stream' \in [phase : Phases, from : Nat, at : Nat, seen : SUBSET Nat]
        /\ stream'.phase = "waiting" /\ stream'.from = stream.from /\ stream'.seen = stream.seen
    BY <1>t, <2>1 DEF Phases
  <2>3. faults' \in 0..MaxFaults
    BY <1>2, <1>t DEF Disconnects
  <2> QED
    BY <2>1, <2>2, <2>3, StreamMoves
<1>3. CASE Retries
  <2>1. /\ stream.phase # "closed" /\ stream' = [stream EXCEPT !.phase = "connecting"]
        /\ UNCHANGED <<serverVars, view, snapshots, requestGeneration, refreshGeneration, queries, opens, faults, lost>>
    BY <1>3 DEF Retries, Keeps
  <2>2. /\ stream' \in [phase : Phases, from : Nat, at : Nat, seen : SUBSET Nat]
        /\ stream'.phase = "connecting" /\ stream'.from = stream.from /\ stream'.seen = stream.seen
    BY <1>t, <2>1 DEF Phases
  <2> QED
    BY <1>t, <2>1, <2>2, StreamMoves
<1> QED
  BY <1>1, <1>2, <1>3

(* open after its await: nobody else is opening the stream.                  *)
LEMMA ProbeIsAlone ==
  ASSUME ClientIInv, NEW q \in queries, q.kind = "probe", Current(q)
  PROVE  /\ Live(q) /\ Shown /\ q.workspace = view.workspace /\ stream.phase = "closed"
         /\ \A c \in queries \ {q} : Current(c) => c.kind = "refresh" /\ c.workspace = view.workspace
<1>1. Live(q) /\ Shown /\ q.workspace = view.workspace /\ stream.phase = "closed"
  BY DEF Live, Overtaken, ClientIInv, QueriesArePlaced
<1>2. ASSUME NEW c \in queries \ {q}, Current(c)
      PROVE  c.kind = "refresh" /\ c.workspace = view.workspace
  <2>1. c.kind # "bootstrap" /\ c.workspace = view.workspace
    BY <1>1, <1>2, NoBootstrapWhileShown
  <2>2. c.kind # "probe"
    BY <1>1, <1>2 DEF ClientIInv, OneOfAKind, Live, Overtaken
  <2> QED
    BY <2>1, <2>2, TypeFacts DEF ClientIInv
<1> QED
  BY <1>1, <1>2

LEMMA ProbedStep ==
  ASSUME ClientIInv, NEW q \in queries, Probed(q)
  PROVE  ClientIInv'
<1>t. ClientTypeOK /\ q.workspace \in Workspaces /\ q.cursor \in Nat
  BY TypeFacts DEF ClientIInv
<1>q. /\ Live(q) /\ Current(q) /\ q.kind = "probe"
      /\ Shown /\ q.workspace = view.workspace /\ stream.phase = "closed"
      /\ \A c \in queries \ {q} : Current(c) => c.kind = "refresh" /\ c.workspace = view.workspace
  BY ProbeIsAlone DEF Probed
<1>s. view.workspace \in Workspaces /\ view.revision = snapshots[view.workspace]
  BY <1>t, <1>q, TypeFacts
<1>1. CASE q.answer = "resync"
  <2>1. Resync(queries \ {q}) /\ UNCHANGED faults
    BY <1>1 DEF Probed
  <2>2. opens' \in 0..MaxOpens /\ faults' \in 0..MaxFaults
    BY <2>1, <1>t DEF Resync, ClientTypeOK
  <2>3. OpenWorkspace(view.workspace, queries \ {q}) /\ UNCHANGED serverVars
    BY <2>1 DEF Resync
  <2>4. queries \ {q} \in SUBSET queries
    OBVIOUS
  <2> QED
    BY <2>2, <2>3, <2>4, <1>s, OpenStep
<1>2. CASE q.answer # "resync"
  <2>u. /\ queries' = queries \ {q} /\ snapshots' = snapshots
        /\ UNCHANGED <<requestGeneration, refreshGeneration, opens, faults, serverVars>>
        /\ revision' = revision /\ outbox' = outbox
    BY <1>2 DEF Probed, Keeps, serverVars
  <2>v. /\ \/ view' = view \/ view' = [view EXCEPT !.kind = "reconnecting"]
        /\ \/ lost' = TRUE /\ stream' = stream
           \/ /\ q.answer = "ok" /\ lost' = lost /\ view' = view
              /\ stream' = [phase |-> "connecting", from |-> q.cursor, at |-> 0, seen |-> {}]
    BY <1>2 DEF Probed, MarkReconnecting, OpenSource
  <2>w. /\ view' \in [kind : Kinds, workspace : Workspaces \cup {NoWorkspace}, revision : Nat]
        /\ view'.workspace = view.workspace /\ view'.revision = view.revision /\ Shown'
    BY <2>v, <1>t, <1>q DEF ClientTypeOK, Kinds, Shown
  <2>c. /\ \A c \in queries : (Current(c)' <=> Current(c)) /\ (Live(c)' <=> Live(c))
        /\ Requests' = Requests
    BY <2>u DEF Current, Live, Overtaken, LatestRefresh, Requests
  <2>1. ClientTypeOK'
    <3>1. /\ snapshots' \in [Workspaces -> Nat] /\ \A w \in Workspaces : snapshots'[w] <= revision[w]
          /\ requestGeneration' \in Nat /\ refreshGeneration' \in Nat
          /\ opens' \in 0..MaxOpens /\ faults' \in 0..MaxFaults
      BY <2>u, <1>t DEF ClientTypeOK
    <3>2. \A c \in queries' : c \in Requests'
      BY <2>u, <2>c, <1>t, TypeFacts
    <3>3. lost' \in BOOLEAN
      BY <2>v, <1>t DEF ClientTypeOK
    <3>4. /\ stream' \in [phase : Phases, from : Nat, at : Nat, seen : SUBSET Nat]
          /\ stream'.phase # "connected"
      <4>1. stream \in [phase : Phases, from : Nat, at : Nat, seen : SUBSET Nat]
        BY <1>t DEF ClientTypeOK
      <4> QED
        BY <4>1, <2>v, <1>t, <1>q DEF Phases
    <3>5. q.cursor <= Len(outbox[view.workspace])
      BY <1>q DEF ClientIInv, AnswersAreTrue
    <3>6. stream'.phase # "closed" =>
             /\ stream'.from <= Len(outbox[view.workspace])
             /\ stream'.seen \subseteq (stream'.from + 1)..Len(outbox[view.workspace])
      BY <2>v, <1>q, <3>5
    <3> QED
      BY <1>t, <1>s, <2>u, <2>w, <3>1, <3>2, <3>3, <3>4, <3>6, TypesKept
  <2>2. QueriesArePlaced' /\ OneOfAKind'
    BY <2>u, <2>c, <2>w, <1>q DEF ClientIInv, QueriesArePlaced, OneOfAKind
  <2>3. AnswersAreTrue'
    BY <2>u, <2>c DEF ClientIInv, AnswersAreTrue
  <2>4. StreamIsAttended'
    BY <2>v, <2>w DEF StreamIsAttended
  <2>5. NotificationsAreCovered'
    <3>1. CASE lost'
      BY <3>1 DEF NotificationsAreCovered
    <3>2. CASE ~lost'
      <4>1. /\ ~lost /\ q.answer = "ok" /\ view' = view
            /\ stream' = [phase |-> "connecting", from |-> q.cursor, at |-> 0, seen |-> {}]
        BY <3>2, <2>v
      <4>2. ASSUME NEW i, ToBeProbed(i) PROVE ToBeNotified(i)'
        <5>1. i > q.cursor
          BY <4>2, <1>q DEF ToBeProbed, Live
        <5> QED
          BY <5>1, <4>1 DEF ToBeNotified
      <4>3. ASSUME NEW r, ToBeRefreshed(r) PROVE ToBeRefreshed(r)'
        BY <4>3, <2>u, <2>c, <1>q DEF ToBeRefreshed
      <4>4. ToFail => ToFail'
        BY <4>1, <2>u, <2>c DEF ToFail
      <4>5. \A i : ~ToBeNotified(i)
        BY <1>q DEF ToBeNotified
      <4> SUFFICES ASSUME NEW i \in DOMAIN outbox[view.workspace]
                   PROVE  \/ outbox[view.workspace][i] <= view.revision
                          \/ ToBeNotified(i)' \/ ToBeRefreshed(outbox[view.workspace][i])' \/ ToFail'
        BY <2>u, <4>1 DEF NotificationsAreCovered
      <4>6. \/ outbox[view.workspace][i] <= view.revision
            \/ ToBeProbed(i) \/ ToBeRefreshed(outbox[view.workspace][i]) \/ ToFail
        BY <1>q, <4>1, <4>5 DEF ClientIInv, NotificationsAreCovered
      <4> QED
        BY <4>2, <4>3, <4>4, <4>6, <2>u, <4>1
    <3> QED
      BY <3>1, <3>2
  <2> QED
    BY <2>1, <2>2, <2>3, <2>4, <2>5 DEF ClientIInv
<1> QED
  BY <1>1, <1>2

LEMMA NotifiedStep ==
  ASSUME ClientIInv, Notified
  PROVE  ClientIInv'
<1> DEFINE w == view.workspace
           next == stream.at + 1
<1>d. PICK n : n = Query("refresh", w, requestGeneration, refreshGeneration', 0)
  OBVIOUS
<1>t. ClientTypeOK /\ Shown /\ stream.phase = "connected"
  BY DEF ClientIInv, StreamIsAttended, Notified, ReplayAfter
<1>s. /\ w \in Workspaces /\ view.revision = snapshots[w]
      /\ Len(outbox[w]) \in Nat /\ DOMAIN outbox[w] = 1..Len(outbox[w])
  BY <1>t, TypeFacts
<1>y. /\ stream \in [phase : Phases, from : Nat, at : Nat, seen : SUBSET Nat]
      /\ stream.at \in Nat /\ stream.from \in Nat /\ stream.seen \subseteq Nat
      /\ stream.from <= stream.at
      /\ stream.seen \subseteq (stream.from + 1)..Len(outbox[w])
      /\ requestGeneration \in Nat /\ refreshGeneration \in Nat
  BY <1>t, <1>s DEF ClientTypeOK
<1>u. /\ next \in 1..Len(outbox[w])
      /\ stream' = [stream EXCEPT !.at = next, !.seen = stream.seen \cup {next}]
      /\ UNCHANGED <<serverVars, view, snapshots, requestGeneration, opens, faults, lost>>
      /\ revision' = revision /\ outbox' = outbox
  BY <1>s DEF Notified, ReplayAfter, serverVars
<1>w. /\ stream' \in [phase : Phases, from : Nat, at : Nat, seen : SUBSET Nat]
      /\ stream'.phase = "connected" /\ stream'.from = stream.from
      /\ stream'.at = next /\ stream'.seen = stream.seen \cup {next}
  <2>1. next \in Nat /\ stream.seen \cup {next} \in SUBSET Nat
    BY <1>y
  <2>2. stream' = [stream EXCEPT !.at = next, !.seen = stream.seen \cup {next}]
    BY <1>u
  <2> HIDE DEF next
  <2> QED
    BY <2>1, <2>2, <1>y, <1>t
<1>p. \A c \in queries : Current(c) => c.kind = "refresh" /\ c.workspace = view.workspace
  BY <1>t, NoBootstrapWhileShown, TypeFacts DEF ClientIInv, QueriesArePlaced
<1>h. Shown'
  BY <1>t, <1>u DEF Shown
<1>r. \/ next \in stream.seen /\ refreshGeneration' = refreshGeneration /\ queries' = queries
      \/ /\ next \notin stream.seen /\ refreshGeneration' = refreshGeneration + 1
         /\ queries' = queries \cup {n}
  BY <1>d DEF Notified, ReplayAfter
<1>n. /\ n.kind = "refresh" /\ n.workspace = w /\ n.answer = "none" /\ Current(n)' /\ Live(n)'
      /\ (refreshGeneration' = refreshGeneration + 1 => n \in Requests')
      /\ (n.cursor = 0 /\ n.revision = 0)
  <2>1. requestGeneration \in 0..requestGeneration
    BY <1>y
  <2>2. /\ n.generation = requestGeneration /\ n.refresh = refreshGeneration'
        /\ n.kind = "refresh" /\ n.workspace = w /\ n.answer = "none" /\ n.cursor = 0 /\ n.revision = 0
    BY <1>d DEF Query, NoSnapshot
  <2>3. Current(n)' /\ Live(n)'
    BY <2>2, <1>u DEF Current, Live, Overtaken, LatestRefresh
  <2>4. ASSUME refreshGeneration' = refreshGeneration + 1 PROVE n \in Requests'
    <3>1. refreshGeneration' \in 1..refreshGeneration'
      BY <2>4, <1>y
    <3>2. n.answer \in Answers /\ requestGeneration' = requestGeneration
      BY <2>2, <1>u DEF Answers
    <3> QED
      BY <1>d, <1>s, <2>1, <3>1, <3>2 DEF Query, Requests, Answers, NoSnapshot
  <2> QED
    BY <2>2, <2>3, <2>4
<1>l. /\ \A c \in queries : Current(c)' <=> Current(c)
      /\ \A c \in queries : Live(c)' => Live(c)
      /\ next \in stream.seen => \A c \in queries : Live(c)' <=> Live(c)
      /\ next \notin stream.seen => \A c \in queries : ~Live(c)'
  <2>1. \A c \in queries : Current(c)' <=> Current(c)
    BY <1>u DEF Current
  <2>2. CASE refreshGeneration' = refreshGeneration /\ next \in stream.seen
    BY <2>1, <2>2 DEF Live, Overtaken, LatestRefresh
  <2>3. CASE refreshGeneration' = refreshGeneration + 1 /\ next \notin stream.seen
    <3>1. ASSUME NEW c \in queries, Live(c)' PROVE FALSE
      <4>1. c.kind = "refresh" /\ c.refresh = refreshGeneration + 1
        BY <2>1, <2>3, <3>1, <1>p DEF Live, Overtaken, LatestRefresh
      <4>2. c.refresh \in 1..refreshGeneration
        BY <1>t, TypeFacts
      <4> QED
        BY <4>1, <4>2, <1>y
    <3> QED
      BY <2>1, <2>3, <3>1
  <2> QED
    BY <1>r, <2>1, <2>2, <2>3
<1>1. ClientTypeOK'
  <2>1. \A c \in queries' : c \in Requests'
    <3>1. ASSUME NEW c \in queries PROVE c \in Requests'
      <4>1. c \in Requests
        BY <1>t, TypeFacts
      <4> QED
        BY <4>1, <1>y, <1>u, <1>r DEF Requests
    <3> QED
      BY <3>1, <1>r, <1>n
  <2>2. refreshGeneration' \in Nat
    BY <1>r, <1>y
  <2>3. /\ stream'.at \in stream'.from..Len(outbox[w])
        /\ stream'.from <= Len(outbox[w])
        /\ stream'.seen \subseteq (stream'.from + 1)..Len(outbox[w])
    BY <1>s, <1>w, <1>y, <1>u
  <2>4. /\ view' \in [kind : Kinds, workspace : Workspaces \cup {NoWorkspace}, revision : Nat]
        /\ snapshots' \in [Workspaces -> Nat] /\ \A v \in Workspaces : snapshots'[v] <= revision[v]
        /\ opens' \in 0..MaxOpens /\ faults' \in 0..MaxFaults
    BY <1>t, <1>u DEF ClientTypeOK
  <2>5. lost' \in BOOLEAN
    BY <1>t, <1>u DEF ClientTypeOK
  <2>6. view' = view /\ snapshots' = snapshots /\ requestGeneration' = requestGeneration
    BY <1>u
  <2> QED
    BY <1>t, <1>u, <1>s, <1>w, <1>y, <2>1, <2>2, <2>3, <2>4, <2>5, <2>6, TypesKept
<1>2. QueriesArePlaced'
  BY <1>l, <1>p, <1>r, <1>n, <1>h, <1>u DEF QueriesArePlaced
<1>3. OneOfAKind'
  BY <1>l, <1>r DEF ClientIInv, OneOfAKind
<1>4. AnswersAreTrue'
  <2>1. \A c \in queries' : c \in queries \/ (c.answer = "none" /\ c.kind = "refresh")
    BY <1>r, <1>n
  <2> QED
    BY <2>1, <1>l, <1>u DEF ClientIInv, AnswersAreTrue
<1>5. StreamIsAttended'
  BY <1>h, <1>w DEF StreamIsAttended
<1>6. NotificationsAreCovered'
  <2> SUFFICES ASSUME ~lost, NEW i \in DOMAIN outbox[w]
               PROVE  \/ outbox[w][i] <= view.revision
                      \/ ToBeNotified(i)' \/ ToBeProbed(i)'
                      \/ ToBeRefreshed(outbox[w][i])' \/ ToFail'
    BY <1>u DEF NotificationsAreCovered
  <2>0. \/ outbox[w][i] <= view.revision
        \/ ToBeNotified(i) \/ ToBeProbed(i) \/ ToBeRefreshed(outbox[w][i]) \/ ToFail
    BY <1>t DEF ClientIInv, NotificationsAreCovered
  <2>1. CASE next \notin stream.seen
    BY <2>1, <1>r, <1>n, <1>u DEF ToBeRefreshed
  <2>2. CASE next \in stream.seen
    <3>1. ToBeNotified(i) => ToBeNotified(i)'
      BY <2>2, <1>w, <1>t DEF ToBeNotified
    <3>2. ToBeProbed(i) => ToBeProbed(i)'
      BY <2>2, <1>r, <1>l DEF ToBeProbed
    <3>3. ToBeRefreshed(outbox[w][i]) => ToBeRefreshed(outbox[w][i])'
      BY <2>2, <1>r, <1>l, <1>u DEF ToBeRefreshed
    <3>4. ToFail => ToFail'
      BY <2>2, <1>r, <1>l DEF ToFail
    <3> QED
      BY <2>0, <3>1, <3>2, <3>3, <3>4
  <2> QED
    BY <2>1, <2>2
<1> QED
  BY <1>1, <1>2, <1>3, <1>4, <1>5, <1>6 DEF ClientIInv

LEMMA ResyncRequiredStep ==
  ASSUME ClientIInv, ResyncRequired
  PROVE  ClientIInv'
<1>1. /\ Shown /\ OpenWorkspace(view.workspace, queries) /\ UNCHANGED serverVars
      /\ UNCHANGED opens /\ faults' = faults + 1 /\ faults < MaxFaults
  BY DEF ResyncRequired, Resync
<1>2. opens \in 0..MaxOpens /\ faults \in 0..MaxFaults /\ MaxFaults \in Nat /\ view.workspace \in Workspaces
  BY <1>1, TypeFacts, ClientAssumption DEF ClientIInv, ClientTypeOK
<1>3. opens' \in 0..MaxOpens /\ faults' \in 0..MaxFaults
  BY <1>1, <1>2
<1> QED
  BY <1>1, <1>2, <1>3, OpenStep

LEMMA StutterStep == ClientIInv /\ UNCHANGED vars => ClientIInv'
BY DEF vars, ClientIInv, ClientTypeOK, QueriesArePlaced, OneOfAKind, AnswersAreTrue, StreamIsAttended,
       NotificationsAreCovered, ToBeNotified, ToBeProbed, ToBeRefreshed, ToFail,
       Live, Current, Overtaken, LatestRefresh, Shown

LEMMA NextInvariant == ClientIInv /\ [ClientNext]_vars => ClientIInv'
<1> SUFFICES ASSUME ClientIInv, [ClientNext]_vars PROVE ClientIInv'
  OBVIOUS
<1>1. ASSUME NEW w \in Workspaces, Commit(w) PROVE ClientIInv'
  BY <1>1, CommitStep
<1>2. ASSUME NEW w \in Workspaces, UserOpens(w) PROVE ClientIInv'
  BY <1>2, UserOpensStep
<1>3. ASSUME NEW q \in queries, Serve(q) PROVE ClientIInv'
  BY <1>3, ServeStep
<1>4. ASSUME NEW q \in queries, QueryFails(q) PROVE ClientIInv'
  BY <1>4, QueryFailsStep
<1>5. ASSUME NEW q \in queries, Arrives(q) PROVE ClientIInv'
  <2>1. CASE Bootstrapped(q)
    BY <2>1, BootstrappedStep
  <2>2. CASE Refreshed(q)
    BY <2>2, RefreshedStep
  <2>3. CASE Probed(q)
    BY <2>3, ProbedStep
  <2>4. CASE (~Current(q) \/ Overtaken(q)) /\ Ignore(q)
    BY <2>4, IgnoreStep DEF Live
  <2> QED
    BY <1>5, <2>1, <2>2, <2>3, <2>4 DEF Arrives
<1>6. CASE Connects \/ Disconnects \/ Retries
  BY <1>6, StreamStep
<1>7. CASE Notified
  BY <1>7, NotifiedStep
<1>8. CASE ResyncRequired
  BY <1>8, ResyncRequiredStep
<1>9. CASE UNCHANGED vars
  BY <1>9, StutterStep
<1> QED
  BY <1>1, <1>2, <1>3, <1>4, <1>5, <1>6, <1>7, <1>8, <1>9 DEF ClientNext

(* The inductive invariant of the browser: requests that count belong to what *)
(* is open, answers say what the database was, the stream goes with the view. *)
THEOREM ClientInvariant == ClientSpec => []ClientIInv
<1> QED
  BY InitInvariant, NextInvariant, PTL DEF ClientSpec

(* Type correctness of the browser's state: a stream never stands before the  *)
(* cursor of its snapshot, and a snapshot is never ahead of the database.     *)
THEOREM ClientTypes == ClientSpec => []ClientTypeOK
<1>1. ClientIInv => ClientTypeOK
  BY DEF ClientIInv
<1> QED
  BY <1>1, ClientInvariant, PTL

(* No notification is lost between the snapshot, the cursor, the replays and  *)
(* the refreshes, for any workspaces, commits, reopenings and faults.         *)
THEOREM NotificationsCovered == ClientSpec => []NotificationsAreCovered
<1>1. ClientIInv => NotificationsAreCovered
  BY DEF ClientIInv
<1> QED
  BY <1>1, ClientInvariant, PTL

(* What an answer that is looked at does to the snapshots and the view.       *)
LEMMA ShownIsNewer ==
  ASSUME ClientIInv, NEW q \in queries, Live(q), q.answer = "ok", q.kind # "probe", Show(q)
  PROVE  /\ \A w \in Workspaces : snapshots'[w] >= snapshots[w]
         /\ view'.workspace = view.workspace
<1>1. q.workspace \in Workspaces /\ q.revision \in Nat /\ snapshots \in [Workspaces -> Nat]
  BY TypeFacts DEF ClientIInv, ClientTypeOK
<1>2. snapshots[q.workspace] <= q.revision /\ q.workspace = view.workspace
  BY DEF ClientIInv, AnswersAreTrue, QueriesArePlaced, Live
<1>3. view'.workspace = q.workspace /\ snapshots' = [snapshots EXCEPT ![q.workspace] = q.revision]
  BY DEF Show
<1> QED
  BY <1>1, <1>2, <1>3

(* Every step keeps the snapshots or makes them newer, and keeps the          *)
(* workspace or begins to open one.                                          *)
LEMMA StepsGoForward ==
  ASSUME ClientIInv, [ClientNext]_vars
  PROVE  /\ \A w \in Workspaces : snapshots'[w] >= snapshots[w]
         /\ view'.workspace = view.workspace \/ view'.kind = "bootstrapping"
<1>t. /\ \A w \in Workspaces : snapshots[w] \in Nat
      /\ view \in [kind : Kinds, workspace : Workspaces \cup {NoWorkspace}, revision : Nat]
  BY TypeFacts DEF ClientIInv, ClientTypeOK
<1>o. ASSUME NEW w, NEW rest, OpenWorkspace(w, rest)
      PROVE  snapshots' = snapshots /\ view'.kind = "bootstrapping"
  BY <1>o DEF OpenWorkspace
<1>1. ASSUME snapshots' = snapshots,
             view'.workspace = view.workspace \/ view'.kind = "bootstrapping"
      PROVE  /\ \A w \in Workspaces : snapshots'[w] >= snapshots[w]
             /\ view'.workspace = view.workspace \/ view'.kind = "bootstrapping"
  BY <1>1, <1>t
<1>2. ASSUME NEW w \in Workspaces, Commit(w) \/ UserOpens(w)
      PROVE  snapshots' = snapshots /\ (view'.workspace = view.workspace \/ view'.kind = "bootstrapping")
  BY <1>2, <1>o DEF Commit, UserOpens
<1>3. ASSUME NEW q \in queries, Serve(q) \/ QueryFails(q) \/ Ignore(q)
      PROVE  snapshots' = snapshots /\ view'.workspace = view.workspace
  BY <1>3 DEF Serve, QueryFails, Ignore
<1>4. ASSUME NEW q \in queries, Bootstrapped(q)
      PROVE  /\ \A w \in Workspaces : snapshots'[w] >= snapshots[w]
             /\ view'.workspace = view.workspace
  <2>1. CASE q.answer = "ok"
    BY <2>1, <1>4, BootstrapIsAlone, ShownIsNewer DEF Bootstrapped
  <2>2. CASE q.answer # "ok"
    BY <2>2, <1>4, <1>t DEF Bootstrapped
  <2> QED
    BY <2>1, <2>2
<1>5. ASSUME NEW q \in queries, Refreshed(q)
      PROVE  /\ \A w \in Workspaces : snapshots'[w] >= snapshots[w]
             /\ view'.workspace = view.workspace
  <2>1. Live(q) /\ q.kind = "refresh"
    BY <1>5 DEF Refreshed, Live, Overtaken
  <2>2. CASE q.answer = "ok"
    BY <2>1, <2>2, <1>5, ShownIsNewer DEF Refreshed
  <2>3. CASE q.answer # "ok"
    BY <2>3, <1>5, <1>t DEF Refreshed
  <2> QED
    BY <2>2, <2>3
<1>6. ASSUME NEW q \in queries, Probed(q)
      PROVE  snapshots' = snapshots /\ (view'.workspace = view.workspace \/ view'.kind = "bootstrapping")
  BY <1>6, <1>o, <1>t DEF Probed, Resync, MarkReconnecting
<1>7. ASSUME Connects \/ Disconnects \/ Retries \/ Notified \/ ResyncRequired
      PROVE  snapshots' = snapshots /\ (view'.workspace = view.workspace \/ view'.kind = "bootstrapping")
  BY <1>7, <1>o, <1>t DEF Connects, Disconnects, Retries, Notified, ResyncRequired, Resync, MarkReconnecting
<1>8. CASE UNCHANGED vars
  BY <1>8, <1>1 DEF vars
<1> QED
  BY <1>1, <1>2, <1>3, <1>4, <1>5, <1>6, <1>7, <1>8 DEF ClientNext, Arrives

(* However answers are delayed, reordered and overtaken, a snapshot never     *)
(* replaces a newer one of its workspace.                                    *)
THEOREM NeverBack == ClientSpec => ViewNeverGoesBack
<1>1. ClientIInv /\ [ClientNext]_vars => [\A w \in Workspaces : snapshots'[w] >= snapshots[w]]_vars
  BY StepsGoForward
<1> QED
  BY <1>1, ClientInvariant, PTL DEF ClientSpec, ViewNeverGoesBack

(* No late answer or notification takes the browser to another workspace.     *)
THEOREM WorkspaceStays == ClientSpec => ViewStaysWithItsWorkspace
<1>1. ClientIInv /\ [ClientNext]_vars =>
          [view'.workspace # view.workspace => view'.kind = "bootstrapping"]_vars
  BY StepsGoForward
<1> QED
  BY <1>1, ClientInvariant, PTL DEF ClientSpec, ViewStaysWithItsWorkspace
-----------------------------------------------------------------------------
(* The list of workspaces that ask for the user.                           *)

IsLatest(q) == q.generation = asked
Settled == source = "open" /\ previous = Fingerprint

(* While the stream has nothing to say, what the latest query has read is    *)
(* what the workspaces ask, and so is the list once that query is taken.     *)
AttentionIInv ==
    /\ commits \in [Watched -> Nat] /\ previous \in [Watched -> Nat]
    /\ \A w \in Watched : previous[w] <= commits[w]
    /\ asked \in Nat
    /\ \A q \in reads :
          /\ q \in [generation : Nat, answer : {q.answer},
                    status : {"reading", "answered", "failed"}]
          /\ q.generation <= asked
          /\ DOMAIN q.answer \subseteq Watched
          /\ q.status = "answered" => DOMAIN q.answer = Watched
    /\ Settled =>
          \A q \in reads : IsLatest(q) =>
             \A w \in DOMAIN q.answer : q.answer[w] = AttentionSnapshot(facts[w])
    /\ Settled /\ ~unread /\ (\A q \in reads : ~IsLatest(q)) =>
          \A w \in Watched : summary[w] = AttentionSnapshot(facts[w])

LEMMA AttentionBegin == AttentionInit => AttentionIInv
<1> SUFFICES ASSUME AttentionInit PROVE AttentionIInv
  OBVIOUS
<1>1. source = "closed" /\ reads = {} /\ asked = 0
  BY DEF AttentionInit
<1>2. commits \in [Watched -> Nat] /\ previous = commits
  BY DEF AttentionInit, Fingerprint
<1> QED
  BY <1>1, <1>2 DEF AttentionIInv, Settled

(* A query that is asked anew: none before it is the latest any more.        *)
LEMMA RefreshKeeps ==
  ASSUME AttentionIInv, Refresh, UNCHANGED <<facts, commits, summary>>,
         previous' \in {previous, Fingerprint}
  PROVE  AttentionIInv'
<1> DEFINE n == Asks(asked')
<1>1. asked' = asked + 1 /\ reads' = reads \cup {n} /\ asked \in Nat
  BY DEF Refresh, AttentionIInv
<1>2. /\ n \in [generation : Nat, answer : {n.answer}, status : {"reading", "answered", "failed"}]
      /\ n.generation = asked' /\ DOMAIN n.answer = {} /\ n.status = "reading"
  BY <1>1 DEF Asks
<1> HIDE DEF n
<1>3. previous' \in [Watched -> Nat] /\ \A w \in Watched : previous'[w] <= commits'[w]
  BY DEF AttentionIInv, Fingerprint
<1>4. \A q \in reads' :
          /\ q \in [generation : Nat, answer : {q.answer},
                    status : {"reading", "answered", "failed"}]
          /\ q.generation <= asked'
          /\ DOMAIN q.answer \subseteq Watched
          /\ q.status = "answered" => DOMAIN q.answer = Watched
          /\ q.generation = asked' => DOMAIN q.answer = {}
  <2> SUFFICES ASSUME NEW q \in reads
               PROVE  /\ q \in [generation : Nat, answer : {q.answer},
                                status : {"reading", "answered", "failed"}]
                      /\ q.generation <= asked' /\ q.generation # asked'
                      /\ DOMAIN q.answer \subseteq Watched
                      /\ q.status = "answered" => DOMAIN q.answer = Watched
    BY <1>1, <1>2
  <2> QED
    BY <1>1 DEF AttentionIInv
<1>5. \E q \in reads' : q.generation = asked'
  BY <1>1, <1>2
<1> QED
  BY <1>1, <1>3, <1>4, <1>5 DEF AttentionIInv, IsLatest

(* One query of those in flight is written anew, with more of its answer.    *)
LEMMA QueryKeeps ==
  ASSUME AttentionIInv, NEW q \in reads, NEW r,
         reads' = (reads \ {q}) \cup {r},
         r \in [generation : Nat, answer : {r.answer}, status : {"reading", "answered", "failed"}],
         r.generation = q.generation, DOMAIN r.answer \subseteq Watched,
         r.status = "answered" => DOMAIN r.answer = Watched,
         \A w \in DOMAIN r.answer :
            \/ w \in DOMAIN q.answer /\ r.answer[w] = q.answer[w]
            \/ r.answer[w] = AttentionSnapshot(facts[w]),
         UNCHANGED <<facts, commits, asked, summary, source, previous, unread>>
  PROVE  AttentionIInv'
<1>1. q.generation <= asked /\ r.generation <= asked'
  BY DEF AttentionIInv
<1>2. \A p \in reads' : p \in reads \/ p = r
  OBVIOUS
<1>3. (\A p \in reads' : ~IsLatest(p)') => \A p \in reads : ~IsLatest(p)
  BY DEF IsLatest
<1>4. Settled' = Settled
  BY DEF Settled, Fingerprint
<1>5. Settled /\ IsLatest(r)' =>
         \A w \in DOMAIN r.answer : r.answer[w] = AttentionSnapshot(facts[w])
  BY DEF AttentionIInv, IsLatest
<1> QED
  BY <1>1, <1>2, <1>3, <1>4, <1>5 DEF AttentionIInv, IsLatest

LEMMA ReadWorkspaceKeeps ==
  ASSUME AttentionIInv, NEW q \in reads, ReadWorkspace(q)
  PROVE  AttentionIInv'
<1>1. PICK w \in Watched \ DOMAIN q.answer :
         LET more == [v \in DOMAIN q.answer \cup {w} |->
                         IF v = w THEN AttentionSnapshot(facts[w]) ELSE q.answer[v]]
         IN reads' = (reads \ {q}) \cup
               {[q EXCEPT !.answer = more,
                          !.status = IF DOMAIN more = Watched THEN "answered" ELSE "reading"]}
  BY DEF ReadWorkspace
<1> DEFINE more == [v \in DOMAIN q.answer \cup {w} |->
                       IF v = w THEN AttentionSnapshot(facts[w]) ELSE q.answer[v]]
           status == IF DOMAIN more = Watched THEN "answered" ELSE "reading"
           r == [q EXCEPT !.answer = more, !.status = status]
<1>2. /\ q \in [generation : Nat, answer : {q.answer}, status : {"reading", "answered", "failed"}]
      /\ DOMAIN q.answer \subseteq Watched
  BY DEF AttentionIInv
<1>3. /\ DOMAIN more \subseteq Watched
      /\ status \in {"reading", "answered"} /\ (status = "answered" => DOMAIN more = Watched)
      /\ \A v \in DOMAIN more : \/ v \in DOMAIN q.answer /\ more[v] = q.answer[v]
                                \/ more[v] = AttentionSnapshot(facts[v])
  BY <1>2
<1>4. reads' = (reads \ {q}) \cup {r}
  BY <1>1
<1> HIDE DEF more, status
<1>5. /\ r.answer = more /\ r.status = status /\ r.generation = q.generation
      /\ r \in [generation : Nat, answer : {r.answer}, status : {"reading", "answered", "failed"}]
  BY <1>2, <1>3
<1> HIDE DEF r
<1>6. UNCHANGED <<facts, commits, asked, summary, source, previous, unread>>
  BY DEF ReadWorkspace
<1> QED
  BY <1>3, <1>4, <1>5, <1>6, QueryKeeps

LEMMA ReadFailsKeeps ==
  ASSUME AttentionIInv, NEW q \in reads, ReadFails(q)
  PROVE  AttentionIInv'
<1> DEFINE r == [q EXCEPT !.status = "failed"]
<1>1. /\ q \in [generation : Nat, answer : {q.answer}, status : {"reading", "answered", "failed"}]
      /\ DOMAIN q.answer \subseteq Watched
  BY DEF AttentionIInv
<1>2. /\ r.answer = q.answer /\ r.status = "failed" /\ r.generation = q.generation
      /\ r \in [generation : Nat, answer : {r.answer}, status : {"reading", "answered", "failed"}]
  BY <1>1
<1>3. /\ reads' = (reads \ {q}) \cup {r}
      /\ UNCHANGED <<facts, commits, asked, summary, source, previous, unread>>
  BY DEF ReadFails
<1> HIDE DEF r
<1> QED
  BY <1>1, <1>2, <1>3, QueryKeeps

LEMMA TakeAnswerKeeps ==
  ASSUME AttentionIInv, NEW q \in reads, TakeAnswer(q)
  PROVE  AttentionIInv'
<1>1. /\ reads' = reads \ {q} /\ UNCHANGED <<facts, commits, asked, source, previous>>
      /\ q.status \in {"answered", "failed"}
      /\ IF IsWanted(q) /\ q.status = "answered" THEN summary' = q.answer ELSE UNCHANGED summary
      /\ unread' = (unread \/ (IsWanted(q) /\ q.status = "failed"))
  BY DEF TakeAnswer
<1>2. Settled' = Settled /\ \A p : IsLatest(p)' = IsLatest(p)
  BY <1>1 DEF Settled, Fingerprint, IsLatest
<1>3. ASSUME Settled, ~unread', \A p \in reads' : ~IsLatest(p)
      PROVE  \A w \in Watched : summary'[w] = AttentionSnapshot(facts[w])
  <2>1. CASE ~IsWanted(q)
    <3>1. \A p \in reads : ~IsLatest(p)
      BY <2>1, <1>1, <1>3 DEF IsWanted, IsLatest
    <3> QED
      BY <2>1, <3>1, <1>1, <1>3 DEF AttentionIInv
  <2>2. CASE IsWanted(q)
    <3>1. q.status = "answered" /\ summary' = q.answer /\ IsLatest(q)
      BY <2>2, <1>1, <1>3 DEF IsWanted, IsLatest
    <3> QED
      BY <3>1, <1>3 DEF AttentionIInv
  <2> QED
    BY <2>1, <2>2
<1> QED
  BY <1>1, <1>2, <1>3 DEF AttentionIInv

LEMMA CommitFactsKeeps ==
  ASSUME AttentionIInv, NEW w \in Watched, CommitFacts(w)
  PROVE  AttentionIInv'
<1>1. /\ commits' = [commits EXCEPT ![w] = @ + 1]
      /\ UNCHANGED <<asked, reads, summary, source, previous, unread>>
  BY DEF CommitFacts
<1>2. /\ commits \in [Watched -> Nat] /\ previous \in [Watched -> Nat]
      /\ \A v \in Watched : previous[v] <= commits[v]
  BY DEF AttentionIInv
<1>3. commits' \in [Watched -> Nat] /\ \A v \in Watched : previous'[v] <= commits'[v]
  BY <1>1, <1>2
<1>4. previous'[w] # commits'[w]
  BY <1>1, <1>2
<1>5. ~Settled'
  BY <1>4 DEF Settled, Fingerprint
<1> QED
  BY <1>1, <1>2, <1>3, <1>5 DEF AttentionIInv

LEMMA AttentionStep == AttentionIInv /\ [AttentionNext]_attentionVars => AttentionIInv'
<1> SUFFICES ASSUME AttentionIInv, [AttentionNext]_attentionVars PROVE AttentionIInv'
  OBVIOUS
<1>1. CASE OpenList \/ SourceOpens \/ Invalidate
  BY <1>1, RefreshKeeps DEF OpenList, SourceOpens, Invalidate
<1>2. CASE SourceBreaks \/ SourceRetries
  <2>1. ~Settled' /\ UNCHANGED <<facts, commits, asked, reads, summary, previous, unread>>
    BY <1>2 DEF SourceBreaks, SourceRetries, Settled
  <2> QED
    BY <2>1 DEF AttentionIInv
<1>3. ASSUME NEW w \in Watched, CommitFacts(w) PROVE AttentionIInv'
  BY <1>3, CommitFactsKeeps
<1>4. ASSUME NEW q \in reads, ReadWorkspace(q) PROVE AttentionIInv'
  BY <1>4, ReadWorkspaceKeeps
<1>5. ASSUME NEW q \in reads, ReadFails(q) PROVE AttentionIInv'
  BY <1>5, ReadFailsKeeps
<1>6. ASSUME NEW q \in reads, TakeAnswer(q) PROVE AttentionIInv'
  BY <1>6, TakeAnswerKeeps
<1>7. CASE UNCHANGED attentionVars
  BY <1>7 DEF attentionVars, AttentionIInv, Settled, IsLatest, Fingerprint
<1> QED
  BY <1>1, <1>2, <1>3, <1>4, <1>5, <1>6, <1>7 DEF AttentionNext

(* Once the stream has nothing to say and no query is under way, the list    *)
(* shows what every workspace asks of the user, for any workspaces and facts *)
(* and however queries overtake each other, commits fall between the         *)
(* workspaces that one reads, and connections are lost (App.tsx, app.py;     *)
(* AttentionIsCurrent).                                                      *)
THEOREM AttentionIsCurrentHolds == AttentionSpec => []AttentionIsCurrent
<1>1. AttentionIInv => AttentionIsCurrent
  BY DEF AttentionIInv, AttentionIsCurrent, Settled
<1> QED
  BY <1>1, AttentionBegin, AttentionStep, PTL DEF AttentionSpec

-----------------------------------------------------------------------------
(* The order of the journal.                                                *)

Entries == Nat \X Nat

(* How many entries of a list come before an entry.                         *)
Rank(S, e) == Cardinality({f \in S : Above(f, e)})

LEMMA AboveIsAnOrder ==
  /\ \A e \in Entries : ~Above(e, e)
  /\ \A e, f, g \in Entries : Above(e, f) /\ Above(f, g) => Above(e, g)
  /\ \A e, f \in Entries : e # f => Above(e, f) \/ Above(f, e)
BY DEF Above, Entries

LEMMA RanksDiffer ==
  ASSUME NEW S, S \subseteq Entries, IsFiniteSet(S)
  PROVE  /\ \A e \in S : Rank(S, e) \in 0 .. Cardinality(S) - 1
         /\ \A e, f \in S : Rank(S, e) = Rank(S, f) => e = f
<1>1. ASSUME NEW e \in S PROVE Rank(S, e) \in 0 .. Cardinality(S) - 1
  <2> DEFINE T == {f \in S : Above(f, e)}
  <2>1. IsFiniteSet(T) /\ Cardinality(T) \in Nat /\ Cardinality(S) \in Nat
    BY FS_Subset, FS_CardinalityType
  <2>2. T \subseteq S \ {e}
    BY AboveIsAnOrder
  <2>3. IsFiniteSet(S \ {e}) /\ Cardinality(S \ {e}) = Cardinality(S) - 1
    BY FS_RemoveElement
  <2>4. Cardinality(T) <= Cardinality(S \ {e})
    BY <2>2, <2>3, FS_Subset
  <2> QED
    BY <2>1, <2>3, <2>4 DEF Rank
<1>2. ASSUME NEW e \in S, NEW f \in S, Above(f, e) PROVE Rank(S, f) < Rank(S, e)
  <2> DEFINE T == {g \in S : Above(g, e)}
             U == {g \in S : Above(g, f)}
  <2>1. IsFiniteSet(T) /\ IsFiniteSet(U) /\ Cardinality(T) \in Nat /\ Cardinality(U) \in Nat
    BY FS_Subset, FS_CardinalityType
  <2>2. U \subseteq T \ {f} /\ f \in T
    BY <1>2, AboveIsAnOrder
  <2>3. IsFiniteSet(T \ {f}) /\ Cardinality(T \ {f}) = Cardinality(T) - 1
    BY <2>1, <2>2, FS_RemoveElement
  <2>4. Cardinality(U) <= Cardinality(T \ {f})
    BY <2>2, <2>3, FS_Subset
  <2> QED
    BY <2>1, <2>3, <2>4 DEF Rank
<1>3. ASSUME NEW e \in S, NEW f \in S, Rank(S, e) = Rank(S, f) PROVE e = f
  <2>1. Rank(S, e) \in Int /\ Rank(S, f) \in Int
    BY <1>1
  <2> QED
    BY <1>2, <1>3, <2>1, AboveIsAnOrder
<1> QED
  BY <1>1, <1>3

LEMMA RanksAreTaken ==
  ASSUME NEW S, S \subseteq Entries, IsFiniteSet(S), NEW i \in 1 .. Cardinality(S)
  PROVE  \E e \in S : Rank(S, e) = i - 1
<1> DEFINE T == 0 .. Cardinality(S) - 1
           rank == [e \in S |-> Rank(S, e)]
<1>1. Cardinality(S) \in Nat
  BY FS_CardinalityType
<1>2. IsFiniteSet(T) /\ Cardinality(T) = Cardinality(S)
  <2> DEFINE n == Cardinality(S) - 1
  <2>1. n \in Int /\ 0 \in Int /\ Cardinality(S) = IF 0 > n THEN 0 ELSE n - 0 + 1
    BY <1>1, RanksDiffer, FS_EmptySet
  <2> HIDE DEF n
  <2>2. IsFiniteSet(0 .. n) /\ Cardinality(0 .. n) = Cardinality(S)
    BY ONLY <2>1, FS_Interval
  <2> QED
    BY <2>2 DEF n
<1>3. rank \in Injection(S, T)
  BY RanksDiffer DEF Injection, IsInjective
<1>4. rank \in Surjection(S, T)
  BY <1>2, <1>3, FS_Injection
<1>5. i - 1 \in T
  BY <1>1
<1> QED
  BY <1>4, <1>5 DEF Surjection

LEMMA NewestIsSorted ==
  ASSUME NEW S, S \subseteq Entries, IsFiniteSet(S)
  PROVE  /\ Newest(S) \in Seq(S)
         /\ Len(Newest(S)) = Cardinality(S)
         /\ \A i \in 1 .. Cardinality(S) : Newest(S)[i] \in S /\ Rank(S, Newest(S)[i]) = i - 1
<1>1. Cardinality(S) \in Nat
  BY FS_CardinalityType
<1>2. \A i \in 1 .. Cardinality(S) : Newest(S)[i] \in S /\ Rank(S, Newest(S)[i]) = i - 1
  BY RanksAreTaken DEF Newest, Rank
<1>3. Newest(S) \in [1 .. Cardinality(S) -> S]
  BY <1>2 DEF Newest
<1> QED
  BY <1>1, <1>2, <1>3
(* What lies behind the k-th entry is the rest of the list.                  *)
LEMMA RestOfNewest ==
  ASSUME NEW S, S \subseteq Entries, IsFiniteSet(S), NEW k \in 1 .. Cardinality(S),
         NEW T, T = {e \in S : Above(Newest(S)[k], e)}
  PROVE  /\ T \subseteq Entries
         /\ IsFiniteSet(T)
         /\ Cardinality(T) = Cardinality(S) - k
         /\ \A j \in 1 .. Cardinality(T) : Newest(T)[j] = Newest(S)[k + j]
<1> DEFINE b == Newest(S)[k]
           B == {e \in S : Above(e, b)}
<1>1. b \in S /\ Rank(S, b) = k - 1 /\ Cardinality(S) \in Nat /\ k \in Nat
  BY NewestIsSorted, FS_CardinalityType
<1> HIDE DEF b
<1>2. IsFiniteSet(B) /\ Cardinality(B) = k - 1 /\ B \subseteq S
  BY <1>1, FS_Subset DEF Rank
<1>3. IsFiniteSet(B \cup {b}) /\ Cardinality(B \cup {b}) = k
  <2>1. b \notin B
    BY <1>1, AboveIsAnOrder
  <2> HIDE DEF B
  <2>2. /\ IsFiniteSet(B \cup {b})
        /\ Cardinality(B \cup {b}) = IF b \in B THEN Cardinality(B) ELSE Cardinality(B) + 1
    BY <1>2, FS_AddElement
  <2> QED
    BY <1>1, <1>2, <2>1, <2>2
<1>4. T = S \ (B \cup {b})
  BY <1>1, AboveIsAnOrder DEF b
<1>5. IsFiniteSet(T) /\ Cardinality(T) = Cardinality(S) - k
  <2> DEFINE U == B \cup {b}
  <2>1. IsFiniteSet(T)
    BY <1>4, FS_Subset
  <2>2. S \cap U = U /\ T = S \ U
    BY <1>1, <1>2, <1>4
  <2>3. Cardinality(S \ U) = Cardinality(S) - Cardinality(S \cap U)
    BY FS_Difference
  <2> QED
    BY <1>3, <2>1, <2>2, <2>3
<1>6. T \subseteq Entries /\ T \subseteq S
  BY <1>4
<1>7. ASSUME NEW e \in T PROVE Rank(S, e) = k + Rank(T, e)
  <2> DEFINE U == B \cup {b}
             A == {f \in T : Above(f, e)}
  <2>1. {f \in S : Above(f, e)} = U \cup A /\ U \cap A = {}
    <3>1. Above(b, e) /\ e \in Entries /\ b \in Entries
      BY <1>1, <1>6 DEF b
    <3>2. \A f \in U : f \in S /\ Above(f, e)
      BY <1>1, <1>2, <3>1, AboveIsAnOrder
    <3> QED
      BY <1>4, <1>6, <3>2
  <2>2. IsFiniteSet(A) /\ Cardinality(A) \in Nat
    BY <1>5, FS_Subset, FS_CardinalityType
  <2>3. Cardinality(U \cup A) = Cardinality(U) + Cardinality(A)
    <3>1. Cardinality(U \cup A) = Cardinality(U) + Cardinality(A) - Cardinality(U \cap A)
      BY <1>3, <2>2, FS_Union
    <3>2. Cardinality(U \cap A) = 0 /\ Cardinality(U) \in Nat
      BY <1>1, <1>3, <2>1, FS_EmptySet
    <3> QED
      BY <2>2, <3>1, <3>2
  <2> QED
    BY <1>3, <2>1, <2>3 DEF Rank
<1>8. ASSUME NEW j \in 1 .. Cardinality(T) PROVE Newest(T)[j] = Newest(S)[k + j]
  <2>1. Newest(T)[j] \in T /\ Rank(T, Newest(T)[j]) = j - 1
    BY <1>5, <1>6, NewestIsSorted
  <2>2. Rank(S, Newest(T)[j]) = k + j - 1
    BY <1>7, <2>1
  <2>3. k + j \in 1 .. Cardinality(S)
    BY <1>1, <1>5
  <2>4. Newest(S)[k + j] \in S /\ Rank(S, Newest(S)[k + j]) = k + j - 1
    BY <2>3, NewestIsSorted
  <2> QED
    BY <1>6, <2>1, <2>2, <2>4, RanksDiffer
<1> QED
  BY <1>5, <1>6, <1>8
-----------------------------------------------------------------------------
(* The pages of the trace.                                                  *)

(* A page of what follows the m-th entry of a list.                          *)
LEMMA PageOfRest ==
  ASSUME NEW w \in Seq(Entries), NEW rows \in Seq(Entries), NEW P \in Nat \ {0},
         NEW m \in Nat, m <= Len(w), Len(rows) = Len(w) - m,
         \A j \in 1 .. Len(rows) : rows[j] = w[m + j],
         NEW items, items = SubSeq(rows, 1, IF Len(rows) > P THEN P ELSE Len(rows))
  PROVE  /\ items \in Seq(Entries)
         /\ items = SubSeq(w, m + 1, IF m + P < Len(w) THEN m + P ELSE Len(w))
         /\ Len(rows) > P => items[Len(items)] = w[m + P]
<1> DEFINE n == IF Len(rows) > P THEN P ELSE Len(rows)
           last == IF m + P < Len(w) THEN m + P ELSE Len(w)
           part == SubSeq(w, m + 1, last)
<1>1. n \in Nat /\ n <= Len(rows) /\ last \in Nat /\ last = m + n /\ m + 1 \in Int
  OBVIOUS
<1>2. /\ items \in Seq(Entries) /\ Len(items) = n
      /\ \A j \in 1 .. n : items[j] = rows[j]
  <2>1. \A j \in 1 .. n : rows[j] \in Entries
    BY <1>1
  <2> HIDE DEF n
  <2>2. /\ SubSeq(rows, 1, n) \in Seq(Entries)
        /\ Len(SubSeq(rows, 1, n)) = IF 1 <= n THEN n - 1 + 1 ELSE 0
        /\ \A j \in 1 .. n - 1 + 1 : SubSeq(rows, 1, n)[j] = rows[1 + j - 1]
    BY <1>1, <2>1, SubSeqProperties
  <2> QED
    BY <1>1, <2>2 DEF n
<1>3. /\ part \in Seq(Entries) /\ Len(part) = n
      /\ \A j \in 1 .. n : part[j] = w[m + j]
  <2>1. \A j \in m + 1 .. last : w[j] \in Entries
    BY <1>1
  <2> HIDE DEF last, n
  <2>2. /\ part \in Seq(Entries)
        /\ Len(part) = IF m + 1 <= last THEN last - (m + 1) + 1 ELSE 0
        /\ \A j \in 1 .. last - (m + 1) + 1 : part[j] = w[(m + 1) + j - 1]
    BY <1>1, <2>1, SubSeqProperties
  <2>3. Len(part) = n /\ last - (m + 1) + 1 = n
    BY <1>1, <2>2
  <2>4. ASSUME NEW j \in 1 .. n PROVE part[j] = w[m + j]
    <3>1. (m + 1) + j - 1 = m + j
      BY <1>1
    <3> QED
      BY <2>2, <2>3, <3>1
  <2> QED
    BY <2>2, <2>3, <2>4
<1>4. \A j \in 1 .. n : items[j] = part[j]
  BY <1>1, <1>2, <1>3
<1>5. items = part
  <2> HIDE DEF n, part
  <2>1. items \in Seq(Entries) /\ part \in Seq(Entries)
    BY <1>2, <1>3
  <2>2. Len(items) = Len(part) /\ \A j \in 1 .. Len(items) : items[j] = part[j]
    BY <1>2, <1>3, <1>4
  <2> QED
    BY ONLY <2>1, <2>2, SeqEqual, Zenon
<1>6. Len(rows) > P => items[Len(items)] = w[m + P]
  BY <1>1, <1>2
<1> HIDE DEF part
<1> QED
  BY <1>2, <1>5, <1>6 DEF part
Cursors == [asOf : Nat, boundary : Entries]
TracePage == [items : Seq(Entries), asOf : Nat, next : Cursors, newer : BOOLEAN]

(* The entries up to a revision.                                            *)
Window(asOf) == {e \in journal : e[1] <= asOf}

JournalOK ==
    /\ head \in Nat
    /\ journal \subseteq Entries
    /\ IsFiniteSet(journal)
    /\ \A e \in journal : e[1] \in 1 .. head

(* The i-th page of the window of a revision.                               *)
Fits(p, asOf, i) ==
    LET window == Newest(Window(asOf))
    IN  /\ p.items = PageOf(window, i)
        /\ p.asOf = asOf
        /\ p.next = IF i * PageSize < Len(window)
                    THEN [asOf |-> asOf, boundary |-> window[i * PageSize]] ELSE NoCursor

LEMMA WindowOK ==
  ASSUME JournalOK, NEW asOf
  PROVE  /\ Window(asOf) \subseteq Entries
         /\ IsFiniteSet(Window(asOf))
         /\ Newest(Window(asOf)) \in Seq(Window(asOf))
         /\ Newest(Window(asOf)) \in Seq(Entries)
         /\ Len(Newest(Window(asOf))) = Cardinality(Window(asOf))
<1>1. Window(asOf) \subseteq Entries /\ IsFiniteSet(Window(asOf))
  BY FS_Subset DEF JournalOK, Window
<1>2. /\ Newest(Window(asOf)) \in Seq(Window(asOf))
      /\ Len(Newest(Window(asOf))) = Cardinality(Window(asOf))
  BY <1>1, NewestIsSorted
<1>3. Newest(Window(asOf)) \in Seq(Entries)
  BY <1>1, <1>2, SeqMonotonic
<1> QED
  BY <1>1, <1>2, <1>3

LEMMA PageBounds ==
  ASSUME NEW list, NEW i, NEW begin, NEW end, begin = (i - 1) * PageSize, end = i * PageSize
  PROVE  PageOf(list, i) = SubSeq(list, begin + 1, IF end < Len(list) THEN end ELSE Len(list))
BY Zenon DEF PageOf

LEMMA PageFits ==
  ASSUME JournalOK, NEW cursor \in Cursors, NEW n \in Nat, NEW asOf \in Nat,
         asOf = IF cursor = NoCursor THEN head ELSE cursor.asOf,
         n = 0 => cursor = NoCursor,
         n > 0 => /\ cursor # NoCursor
                  /\ n * PageSize \in 1 .. Len(Newest(Window(asOf)))
                  /\ cursor.boundary = Newest(Window(asOf))[n * PageSize]
  PROVE  JournalPage(cursor) \in TracePage /\ Fits(JournalPage(cursor), asOf, n + 1)
<1> DEFINE w == Newest(Window(asOf))
           m == n * PageSize
           R == {e \in Behind(cursor) : e[1] <= asOf}
           rows == Newest(R)
           items == SubSeq(rows, 1, IF Len(rows) > PageSize THEN PageSize ELSE Len(rows))
<1>1. m \in Nat /\ (n + 1) * PageSize = m + PageSize /\ (n + 1 - 1) * PageSize = m
      /\ PageSize \in Nat \ {0}
  BY JournalAssumption
<1>2. w \in Seq(Entries) /\ Len(w) = Cardinality(Window(asOf)) /\ Len(w) \in Nat
  BY WindowOK
<1>3. /\ rows \in Seq(Entries) /\ m <= Len(w) /\ Len(rows) = Len(w) - m
      /\ \A j \in 1 .. Len(rows) : rows[j] = w[m + j]
  <2>1. CASE n = 0
    <3>1. R = Window(asOf) /\ m = 0
      BY <2>1, <1>1, JournalAssumption DEF Behind, Window
    <3>2. rows = w
      BY <3>1
    <3> HIDE DEF rows, w, m
    <3> QED
      BY <1>2, <3>1, <3>2
  <2>2. CASE n > 0
    <3>1. R = {e \in Window(asOf) : Above(w[m], e)} /\ m \in 1 .. Cardinality(Window(asOf))
      BY <2>2, <1>2 DEF Behind, Window
    <3>2. Window(asOf) \subseteq Entries /\ IsFiniteSet(Window(asOf))
      BY WindowOK
    <3> HIDE DEF R, m
    <3>3. /\ R \subseteq Entries /\ IsFiniteSet(R)
          /\ Cardinality(R) = Cardinality(Window(asOf)) - m
          /\ \A j \in 1 .. Cardinality(R) : Newest(R)[j] = w[m + j]
      BY <3>1, <3>2, RestOfNewest
    <3>4. rows \in Seq(R) /\ Len(rows) = Cardinality(R)
      BY <3>3, NewestIsSorted
    <3>5. rows \in Seq(Entries)
      BY <3>3, <3>4, SeqMonotonic
    <3> HIDE DEF w
    <3>6. Len(rows) = Len(w) - m /\ m <= Len(w)
      BY <1>2, <3>1, <3>3, <3>4
    <3>7. \A j \in 1 .. Len(rows) : rows[j] = w[m + j]
      BY <3>3, <3>4
    <3> QED
      BY <3>5, <3>6, <3>7
  <2> QED
    BY <2>1, <2>2
<1> HIDE DEF m, w
<1>4. /\ items \in Seq(Entries)
      /\ items = SubSeq(w, m + 1, IF m + PageSize < Len(w) THEN m + PageSize ELSE Len(w))
      /\ Len(rows) > PageSize => items[Len(items)] = w[m + PageSize]
  <2> DEFINE P == PageSize
  <2>1. items = SubSeq(rows, 1, IF Len(rows) > P THEN P ELSE Len(rows))
    OBVIOUS
  <2>2. P \in Nat \ {0} /\ m \in Nat
    BY <1>1
  <2> HIDE DEF rows, items, P
  <2>3. /\ items \in Seq(Entries)
        /\ items = SubSeq(w, m + 1, IF m + P < Len(w) THEN m + P ELSE Len(w))
        /\ Len(rows) > P => items[Len(items)] = w[m + P]
    BY ONLY <1>2, <1>3, <2>1, <2>2, PageOfRest
  <2> QED
    BY <2>3 DEF P
<1>5. JournalPage(cursor) =
        [items |-> items, asOf |-> asOf,
         next |-> IF Len(rows) > PageSize THEN [asOf |-> asOf, boundary |-> items[Len(items)]]
                  ELSE NoCursor,
         newer |-> \E e \in journal : e[1] > asOf]
  BY DEF JournalPage, Seqs!Last
<1> HIDE DEF items, rows
<1>6. Len(rows) > PageSize <=> m + PageSize < Len(w)
  BY <1>1, <1>2, <1>3
<1>7. m + PageSize < Len(w) => w[m + PageSize] \in Entries
  BY <1>1, <1>2
<1>8. JournalPage(cursor) \in TracePage
  <2>1. NoCursor \in Cursors
    BY DEF NoCursor, Cursors, Entries
  <2>2. (\E e \in journal : e[1] > asOf) \in BOOLEAN
    OBVIOUS
  <2>3. Len(rows) > PageSize => [asOf |-> asOf, boundary |-> items[Len(items)]] \in Cursors
    BY <1>4, <1>6, <1>7 DEF Cursors
  <2>4. (IF Len(rows) > PageSize THEN [asOf |-> asOf, boundary |-> items[Len(items)]]
         ELSE NoCursor) \in Cursors
    BY <2>1, <2>3
  <2> DEFINE next == IF Len(rows) > PageSize
                     THEN [asOf |-> asOf, boundary |-> items[Len(items)]] ELSE NoCursor
             newer == \E e \in journal : e[1] > asOf
  <2>5. JournalPage(cursor) =
          [items |-> items, asOf |-> asOf, next |-> next, newer |-> newer]
    BY <1>5
  <2>6. next \in Cursors /\ newer \in BOOLEAN
    BY <2>2, <2>4
  <2> HIDE DEF next, newer
  <2> QED
    BY <1>4, <2>5, <2>6 DEF TracePage
<1>9. Fits(JournalPage(cursor), asOf, n + 1)
  <2> DEFINE end == (n + 1) * PageSize
             begin == (n + 1 - 1) * PageSize
  <2>e. end = m + PageSize /\ begin = m
    BY <1>1
  <2>p. PageOf(w, n + 1) = SubSeq(w, begin + 1, IF end < Len(w) THEN end ELSE Len(w))
    BY PageBounds
  <2>f. Fits(JournalPage(cursor), asOf, n + 1) <=>
          /\ JournalPage(cursor).items = PageOf(w, n + 1)
          /\ JournalPage(cursor).asOf = asOf
          /\ JournalPage(cursor).next =
               IF end < Len(w) THEN [asOf |-> asOf, boundary |-> w[end]] ELSE NoCursor
    BY DEF Fits, w
  <2> HIDE DEF end, begin
  <2>1. PageOf(w, n + 1) = items
    BY <1>4, <2>e, <2>p
  <2>2. JournalPage(cursor).items = items /\ JournalPage(cursor).asOf = asOf
    BY <1>5
  <2>3. JournalPage(cursor).next =
          IF end < Len(w) THEN [asOf |-> asOf, boundary |-> w[end]] ELSE NoCursor
    <3>1. CASE m + PageSize < Len(w)
      <4>1. Len(rows) > PageSize
        BY <1>6, <3>1
      <4>2. JournalPage(cursor).next = [asOf |-> asOf, boundary |-> items[Len(items)]]
        BY <1>5, <4>1
      <4>3. items[Len(items)] = w[end]
        BY <1>4, <2>e, <4>1
      <4>4. end < Len(w)
        BY <2>e, <3>1
      <4> QED
        BY <4>2, <4>3, <4>4
    <3>2. CASE ~(m + PageSize < Len(w))
      BY <1>5, <1>6, <2>e, <3>2
    <3> QED
      BY <3>1, <3>2
  <2> QED
    BY <2>1, <2>2, <2>3, <2>f
<1> QED
  BY <1>8, <1>9

(* What an answer under way is, and what is shown already.                   *)
TraceIInv ==
    /\ JournalOK
    /\ pages \in Seq(TracePage)
    /\ phase \in [state : {"closed", "first", "more", "ready", "error"}, cursor : Cursors,
                  page : Seq(TracePage)]
    /\ pages # << >> => pages[1].asOf <= head
    /\ \A i \in DOMAIN pages : Fits(pages[i], pages[1].asOf, i)
    /\ phase.state = "closed" => pages = << >>
    /\ phase.state = "ready" => pages # << >>
    /\ phase.state = "first" =>
          /\ pages = << >> /\ phase.cursor = NoCursor
          /\ phase.page # << >> =>
                /\ Len(phase.page) = 1 /\ phase.page[1].asOf <= head
                /\ Fits(phase.page[1], phase.page[1].asOf, 1)
    /\ phase.state = "more" =>
          /\ pages # << >>
          /\ phase.cursor = pages[Len(pages)].next /\ phase.cursor # NoCursor
          /\ phase.page # << >> =>
                Len(phase.page) = 1 /\ Fits(phase.page[1], pages[1].asOf, Len(pages) + 1)

LEMMA TraceStarts == JournalInit => TraceIInv
<1> SUFFICES ASSUME JournalInit PROVE TraceIInv
  OBVIOUS
<1>1. JournalOK
  BY FS_EmptySet DEF JournalInit, JournalOK
<1>2. NoCursor \in Cursors
  BY DEF NoCursor, Cursors, Entries
<1> QED
  BY <1>1, <1>2 DEF JournalInit, TraceIInv

(* Where the next page of a window begins is an entry, not the start.        *)
LEMMA NextIsBehind ==
  ASSUME TraceIInv, pages # << >>, pages[Len(pages)].next # NoCursor,
         NEW asOf, asOf = pages[1].asOf,
         NEW n, n = Len(pages),
         NEW window, window = Newest(Window(asOf))
  PROVE  /\ n \in Nat \ {0}
         /\ n * PageSize \in 1 .. Len(window)
         /\ pages[n].next = [asOf |-> asOf, boundary |-> window[n * PageSize]]
<1>1. n \in Nat \ {0} /\ n \in DOMAIN pages
  BY DEF TraceIInv
<1>2. Fits(pages[n], asOf, n)
  BY <1>1 DEF TraceIInv
<1>3. n * PageSize \in Nat \ {0}
  BY <1>1, JournalAssumption
<1>4. window \in Seq(Entries)
  BY WindowOK DEF TraceIInv
<1> DEFINE m == n * PageSize
<1>5. pages[n].next = IF m < Len(window) THEN [asOf |-> asOf, boundary |-> window[m]] ELSE NoCursor
  BY <1>2 DEF Fits
<1>6. m \in Nat \ {0}
  BY <1>3
<1> HIDE DEF m
<1>7. m \in 1 .. Len(window) /\ pages[n].next = [asOf |-> asOf, boundary |-> window[m]]
  BY <1>4, <1>5, <1>6
<1> QED
  BY <1>1, <1>7 DEF m

LEMMA WindowStays ==
  ASSUME JournalOK, Record, NEW asOf \in Nat, asOf <= head
  PROVE  Window(asOf)' = Window(asOf)
BY DEF JournalOK, Record, Window

LEMMA RecordKeeps == TraceIInv /\ Record => TraceIInv'
<1> SUFFICES ASSUME TraceIInv, Record PROVE TraceIInv'
  OBVIOUS
<1>1. JournalOK'
  <2>1. PICK n \in 0 .. MaxOrdinal : journal' = journal \cup {<<head + 1, o>> : o \in 1 .. n}
    BY DEF Record
  <2>2. IsFiniteSet({<<head + 1, o>> : o \in 1 .. n})
    <3> DEFINE T == {<<head + 1, o>> : o \in 1 .. n}
               f == [o \in 1 .. n |-> <<head + 1, o>>]
    <3>1. f \in Surjection(1 .. n, T)
      BY DEF Surjection
    <3>2. IsFiniteSet(1 .. n)
      BY FS_Interval, JournalAssumption
    <3> HIDE DEF f, T
    <3>3. IsFiniteSet(T)
      BY <3>1, <3>2, FS_Surjection
    <3> QED
      BY <3>3 DEF T
  <2>3. IsFiniteSet(journal')
    BY <2>1, <2>2, FS_Union DEF TraceIInv, JournalOK
  <2>4. head' \in Nat /\ head' = head + 1 /\ head \in Nat
    BY DEF Record, TraceIInv, JournalOK
  <2>5. journal' \subseteq Entries /\ \A e \in journal' : e[1] \in 1 .. head'
    BY <2>1, <2>4, JournalAssumption DEF TraceIInv, JournalOK, Entries
  <2> QED
    BY <2>3, <2>4, <2>5 DEF JournalOK
<1>2. head' = head + 1 /\ head \in Nat /\ UNCHANGED <<pages, phase>>
  BY DEF Record, TraceIInv, JournalOK
<1>3. ASSUME NEW p, NEW asOf \in Nat, asOf <= head, NEW i, Fits(p, asOf, i)
      PROVE  Fits(p, asOf, i)'
  BY <1>3, WindowStays DEF Fits, TraceIInv
<1>p. \A p \in TracePage : p.asOf \in Nat
  BY DEF TracePage
<1>4. \A i \in DOMAIN pages : pages[i] \in TracePage /\ pages[i].asOf \in Nat
  BY <1>p DEF TraceIInv
<1>5. \A i \in DOMAIN phase.page : phase.page[i] \in TracePage /\ phase.page[i].asOf \in Nat
  <2>1. phase.page \in Seq(TracePage)
    BY DEF TraceIInv
  <2> QED
    BY <2>1, <1>p
<1>6. pages # << >> => 1 \in DOMAIN pages
  BY DEF TraceIInv
<1>7. \A i \in DOMAIN pages : Fits(pages[i], pages[1].asOf, i)'
  BY <1>2, <1>3, <1>4, <1>6 DEF TraceIInv
<1>8. phase.page # << >> => 1 \in DOMAIN phase.page
  <2>1. phase.page \in Seq(TracePage)
    BY DEF TraceIInv
  <2> QED
    BY <2>1
<1>9. phase.state = "first" /\ phase.page # << >> =>
        Fits(phase.page[1], phase.page[1].asOf, 1)'
  BY <1>2, <1>3, <1>5, <1>8 DEF TraceIInv
<1>10. phase.state = "more" /\ phase.page # << >> =>
        Fits(phase.page[1], pages[1].asOf, Len(pages) + 1)'
  BY <1>2, <1>3, <1>4, <1>6 DEF TraceIInv
<1> QED
  BY <1>1, <1>2, <1>4, <1>5, <1>6, <1>7, <1>8, <1>9, <1>10 DEF TraceIInv

(* What does not touch the journal leaves its windows.                       *)
LEMMA PagesStay ==
  ASSUME TraceIInv, UNCHANGED <<journal, head>>
  PROVE  /\ JournalOK'
         /\ \A p, asOf, i : Fits(p, asOf, i)' <=> Fits(p, asOf, i)
<1>1. JournalOK'
  BY DEF TraceIInv, JournalOK
<1>2. ASSUME NEW p, NEW asOf, NEW i PROVE Fits(p, asOf, i)' <=> Fits(p, asOf, i)
  <2>1. Window(asOf)' = Window(asOf)
    BY DEF Window
  <2> QED
    BY <2>1 DEF Fits
<1> QED
  BY <1>1, <1>2

LEMMA AskingKeeps == TraceIInv /\ (ReadTrace \/ LoadMore \/ PageFails) => TraceIInv'
<1> SUFFICES ASSUME TraceIInv, ReadTrace \/ LoadMore \/ PageFails PROVE TraceIInv'
  OBVIOUS
<1>1. JournalOK' /\ \A p, asOf, i : Fits(p, asOf, i)' <=> Fits(p, asOf, i)
  BY PagesStay DEF ReadTrace, LoadMore, PageFails
<1>2. NoCursor \in Cursors
  BY DEF NoCursor, Cursors, Entries
<1>3. CASE ReadTrace
  BY <1>1, <1>2, <1>3 DEF ReadTrace, TraceIInv
<1>4. CASE LoadMore
  <2>1. pages # << >>
    BY <1>4 DEF LoadMore, TraceIInv
  <2>2. pages[Len(pages)] \in TracePage /\ 1 \in DOMAIN pages
    BY <2>1 DEF TraceIInv
  <2>3. pages[Len(pages)].next \in Cursors
    BY <2>2 DEF TracePage
  <2>4. /\ phase' = [state |-> "more", cursor |-> pages[Len(pages)].next, page |-> << >>]
        /\ pages[Len(pages)].next # NoCursor
        /\ UNCHANGED <<pages, head>>
    BY <1>4 DEF LoadMore, Seqs!Last
  <2> QED
    BY <1>1, <2>1, <2>2, <2>3, <2>4 DEF TraceIInv
<1>5. CASE PageFails
  BY <1>1, <1>5 DEF PageFails, TraceIInv
<1> QED
  BY <1>3, <1>4, <1>5

LEMMA AnswerKeeps == TraceIInv /\ JournalEntries => TraceIInv'
<1> SUFFICES ASSUME TraceIInv, JournalEntries PROVE TraceIInv'
  OBVIOUS
<1> DEFINE cursor == phase.cursor
           page == JournalPage(cursor)
<1>1. JournalOK' /\ \A p, asOf, i : Fits(p, asOf, i)' <=> Fits(p, asOf, i)
  BY PagesStay DEF JournalEntries
<1>2. /\ phase.state \in {"first", "more"}
      /\ UNCHANGED <<journal, head, pages>>
      /\ phase' = [state |-> phase.state, cursor |-> phase.cursor, page |-> <<page>>]
  BY DEF JournalEntries, TraceIInv
<1>3. cursor \in Cursors /\ JournalOK /\ head \in Nat
  BY DEF TraceIInv, JournalOK
<1>4. CASE phase.state = "first"
  <2>1. cursor = NoCursor /\ pages = << >>
    BY <1>4 DEF TraceIInv
  <2>2. page \in TracePage /\ Fits(page, head, 0 + 1)
    BY <1>3, <2>1, PageFits
  <2>3. page.asOf = head
    BY <2>2 DEF Fits
  <2> HIDE DEF page
  <2>4. <<page>> \in Seq(TracePage) /\ Len(<<page>>) = 1 /\ <<page>>[1] = page
    BY <2>2
  <2> QED
    BY <1>1, <1>2, <1>3, <1>4, <2>1, <2>2, <2>3, <2>4 DEF TraceIInv
<1>5. CASE phase.state = "more"
  <2> DEFINE n == Len(pages)
             asOf == pages[1].asOf
  <2>1. pages # << >> /\ cursor = pages[n].next /\ cursor # NoCursor
    BY <1>5 DEF TraceIInv
  <2>2. pages[1] \in TracePage
    BY <2>1 DEF TraceIInv
  <2>3. asOf \in Nat
    BY <2>2 DEF TracePage
  <2>4. /\ n \in Nat \ {0}
        /\ n * PageSize \in 1 .. Len(Newest(Window(asOf)))
        /\ cursor = [asOf |-> asOf, boundary |-> Newest(Window(asOf))[n * PageSize]]
    BY <2>1, NextIsBehind
  <2>5. cursor.asOf = asOf /\ cursor.boundary = Newest(Window(asOf))[n * PageSize]
    BY <2>4
  <2> HIDE DEF n, asOf, cursor
  <2>6. page \in TracePage /\ Fits(page, asOf, n + 1)
    BY <1>3, <2>1, <2>3, <2>4, <2>5, PageFits
  <2> HIDE DEF page
  <2>7. <<page>> \in Seq(TracePage) /\ Len(<<page>>) = 1 /\ <<page>>[1] = page
    BY <2>6
  <2> QED
    BY <1>1, <1>2, <1>3, <1>5, <2>1, <2>6, <2>7 DEF TraceIInv, n, asOf, cursor
<1> QED
  BY <1>2, <1>4, <1>5

LEMMA OnePageMore ==
  ASSUME NEW R, NEW s \in Seq(R), NEW t \in Seq(R), Len(t) = 1
  PROVE  /\ s \o t \in Seq(R) /\ Len(s \o t) = Len(s) + 1
         /\ \A i \in 1 .. Len(s) : (s \o t)[i] = s[i]
         /\ (s \o t)[Len(s) + 1] = t[1]
<1> DEFINE n == Len(s)
           u == s \o t
<1>1. n \in Nat
  OBVIOUS
<1>2. u \in Seq(R) /\ Len(u) = n + 1
      /\ \A i \in 1 .. n + 1 : u[i] = IF i <= n THEN s[i] ELSE t[i - n]
  <2> DEFINE more == Len(t)
  <2>1. u \in Seq(R) /\ Len(u) = n + more
        /\ \A i \in 1 .. n + more : u[i] = IF i <= n THEN s[i] ELSE t[i - n]
    BY ConcatProperties
  <2>2. more = 1
    OBVIOUS
  <2> HIDE DEF n, u, more
  <2> QED
    BY <2>1, <2>2
<1> HIDE DEF n, u
<1>3. u[n + 1] = t[1]
  <2> DEFINE i == n + 1
  <2>1. i \in 1 .. n + 1 /\ ~(i <= n) /\ i - n = 1
    BY <1>1
  <2> HIDE DEF i
  <2>2. u[i] = t[i - n]
    BY <1>2, <2>1
  <2> QED
    BY <2>1, <2>2 DEF i
<1>4. \A i \in 1 .. n : u[i] = s[i]
  BY <1>1, <1>2
<1> QED
  BY <1>2, <1>3, <1>4 DEF n, u

LEMMA ArrivalKeeps == TraceIInv /\ PageArrives => TraceIInv'
<1> SUFFICES ASSUME TraceIInv, PageArrives PROVE TraceIInv'
  OBVIOUS
<1>1. JournalOK' /\ \A p, asOf, i : Fits(p, asOf, i)' <=> Fits(p, asOf, i)
  BY PagesStay DEF PageArrives
<1>2. /\ phase.state \in {"first", "more"} /\ phase.page # << >>
      /\ UNCHANGED <<journal, head>>
      /\ phase' = [state |-> "ready", cursor |-> phase.cursor, page |-> << >>]
      /\ phase.page \in Seq(TracePage) /\ Len(phase.page) = 1
      /\ phase.cursor \in Cursors
  BY DEF PageArrives, TraceIInv
<1>3. CASE phase.state = "first"
  <2>1. pages' = phase.page /\ DOMAIN pages' = {1}
    BY <1>2, <1>3 DEF PageArrives
  <2>2. Fits(pages'[1], pages'[1].asOf, 1) /\ pages'[1].asOf <= head
    BY <1>2, <1>3, <2>1 DEF TraceIInv
  <2> QED
    BY <1>1, <1>2, <2>1, <2>2 DEF TraceIInv
<1>4. CASE phase.state = "more"
  <2> DEFINE n == Len(pages)
  <2>1. pages # << >> /\ pages \in Seq(TracePage) /\ n \in Nat \ {0}
    BY <1>4 DEF TraceIInv
  <2>2. pages' = pages \o phase.page
    BY <1>4 DEF PageArrives
  <2>3. /\ pages' \in Seq(TracePage) /\ Len(pages') = n + 1
        /\ \A i \in 1 .. n : pages'[i] = pages[i]
        /\ pages'[n + 1] = phase.page[1]
    BY <1>2, <2>1, <2>2, OnePageMore
  <2>4. pages'[1].asOf = pages[1].asOf /\ pages[1].asOf <= head
    BY <2>1, <2>3 DEF TraceIInv
  <2>5. ASSUME NEW i \in DOMAIN pages' PROVE Fits(pages'[i], pages'[1].asOf, i)
    <3>1. CASE i \in 1 .. n
      BY <2>1, <2>3, <2>4, <3>1 DEF TraceIInv
    <3>2. CASE i = n + 1
      BY <1>2, <1>4, <2>3, <2>4, <3>2 DEF TraceIInv
    <3> QED
      BY <2>1, <2>3, <3>1, <3>2
  <2> QED
    BY <1>1, <1>2, <2>1, <2>3, <2>4, <2>5 DEF TraceIInv
<1> QED
  BY <1>2, <1>3, <1>4

LEMMA TraceStep == TraceIInv /\ [JournalNext]_journalVars => TraceIInv'
<1> SUFFICES ASSUME TraceIInv, [JournalNext]_journalVars PROVE TraceIInv'
  OBVIOUS
<1>1. CASE UNCHANGED journalVars
  BY <1>1, PagesStay DEF journalVars, TraceIInv
<1> QED
  BY <1>1, RecordKeeps, AskingKeeps, AnswerKeeps, ArrivalKeeps DEF JournalNext

(* However many commits fall between two pages, the trace shows the pages of *)
(* one window of the journal, in their order, none left out or repeated, and *)
(* offers no more exactly when it shows all of it.                           *)
THEOREM TraceIsOneWindowHolds == JournalSpec => []TraceIsOneWindow
<1>1. TraceIInv => TraceIsOneWindow
  <2> SUFFICES ASSUME TraceIInv, pages # << >>
               PROVE  LET window == Newest({e \in journal : e[1] <= pages[1].asOf})
                      IN /\ \A i \in DOMAIN pages : pages[i].items = PageOf(window, i)
                         /\ pages[Len(pages)].next = NoCursor
                              <=> Len(window) <= Len(pages) * PageSize
    BY DEF TraceIsOneWindow, Seqs!Last
  <2> DEFINE window == Newest(Window(pages[1].asOf))
             n == Len(pages)
             m == n * PageSize
  <2>1. Window(pages[1].asOf) = {e \in journal : e[1] <= pages[1].asOf}
    BY DEF Window
  <2>2. \A i \in DOMAIN pages : pages[i].items = PageOf(window, i)
    BY DEF TraceIInv, Fits
  <2>3. n \in DOMAIN pages /\ n \in Nat \ {0}
    BY DEF TraceIInv
  <2>4. m \in Nat /\ Len(window) \in Nat
    BY <2>3, WindowOK, JournalAssumption DEF TraceIInv
  <2>5. pages[n].next = IF m < Len(window)
                        THEN [asOf |-> pages[1].asOf, boundary |-> window[m]] ELSE NoCursor
    BY <2>3 DEF TraceIInv, Fits
  <2>6. m < Len(window) => pages[n].next # NoCursor
    <3>1. ASSUME m < Len(window) PROVE window[m] # <<0, 0>>
      <4>1. m \in Nat \ {0}
        BY <2>3, JournalAssumption
      <4>2. window \in Seq(Window(pages[1].asOf))
        BY WindowOK DEF TraceIInv
      <4>3. window[m] \in journal
        <5> HIDE DEF m, window
        <5>1. window[m] \in Window(pages[1].asOf)
          BY <2>4, <3>1, <4>1, <4>2
        <5> QED
          BY <5>1 DEF Window
      <4> QED
        BY <4>3 DEF TraceIInv, JournalOK
    <3> HIDE DEF m, window
    <3> QED
      BY <2>5, <3>1 DEF NoCursor
  <2>7. pages[n].next = NoCursor <=> Len(window) <= m
    <3> HIDE DEF m, window
    <3> QED
      BY <2>4, <2>5, <2>6
  <2> QED
    BY <2>1, <2>2, <2>7
<1> QED
  BY <1>1, TraceStarts, TraceStep, PTL DEF JournalSpec

-----------------------------------------------------------------------------
(* Deltas in the order in which they are sent.                              *)

Ascending(s) == \A i, j \in DOMAIN s : i < j => Above(s[j], s[i])

LEMMA TailAscends ==
  ASSUME NEW s \in Seq(Entries), s # << >>, Ascending(s)
  PROVE  /\ Head(s) \in Entries
         /\ Tail(s) \in Seq(Entries)
         /\ Ascending(Tail(s))
         /\ Seqs!Range(s) = {Head(s)} \cup Seqs!Range(Tail(s))
         /\ \A e \in Seqs!Range(Tail(s)) : Above(e, Head(s))
<1> DEFINE t == Tail(s)
           n == Len(t)
<1>1. /\ Head(s) \in Entries /\ t \in Seq(Entries) /\ n = Len(s) - 1 /\ n \in Nat
      /\ \A i \in 1 .. n : t[i] = s[i + 1]
      /\ Head(s) = s[1] /\ 1 \in DOMAIN s /\ DOMAIN s = 1 .. n + 1 /\ DOMAIN t = 1 .. n
  BY HeadTailProperties
<1> HIDE DEF t, n
<1>2. \A i \in 1 .. n : i + 1 \in DOMAIN s /\ 1 < i + 1
  BY <1>1
<1>3. ASSUME NEW i \in DOMAIN t, NEW j \in DOMAIN t, i < j PROVE Above(t[j], t[i])
  <2>1. i + 1 < j + 1 /\ i \in 1 .. n /\ j \in 1 .. n
    BY <1>1, <1>3
  <2>2. Above(s[j + 1], s[i + 1])
    BY <1>2, <2>1 DEF Ascending
  <2> QED
    BY <1>1, <2>1, <2>2
<1>4. \A e \in Seqs!Range(t) : Above(e, s[1])
  BY <1>1, <1>2 DEF Seqs!Range, Ascending
<1>5. Seqs!Range(s) = {s[1]} \cup Seqs!Range(t)
  <2>1. ASSUME NEW i \in DOMAIN s, i # 1 PROVE s[i] \in Seqs!Range(t)
    <3>1. i - 1 \in 1 .. n /\ (i - 1) + 1 = i
      BY <1>1, <2>1
    <3>2. t[i - 1] = s[i]
      BY <1>1, <3>1
    <3> QED
      BY <1>1, <3>1, <3>2 DEF Seqs!Range
  <2>2. \A i \in DOMAIN t : t[i] \in Seqs!Range(s)
    BY <1>1, <1>2 DEF Seqs!Range
  <2>3. \A e \in Seqs!Range(s) : e = s[1] \/ e \in Seqs!Range(t)
    BY <2>1 DEF Seqs!Range
  <2>4. \A e \in Seqs!Range(t) : e \in Seqs!Range(s)
    BY <2>2 DEF Seqs!Range
  <2>5. s[1] \in Seqs!Range(s)
    BY <1>1 DEF Seqs!Range
  <2> QED
    BY <2>3, <2>4, <2>5
<1> QED
  BY <1>1, <1>3, <1>4, <1>5 DEF t, Ascending

LEMMA AppendAscends ==
  ASSUME NEW s \in Seq(Entries), NEW e \in Entries, Ascending(s),
         \A f \in Seqs!Range(s) : Above(e, f)
  PROVE  /\ Append(s, e) \in Seq(Entries)
         /\ Ascending(Append(s, e))
         /\ Seqs!Range(Append(s, e)) = Seqs!Range(s) \cup {e}
         /\ Append(s, e) # << >>
<1> DEFINE t == Append(s, e)
           n == Len(s)
<1>1. /\ t \in Seq(Entries) /\ n \in Nat /\ DOMAIN s = 1 .. n /\ DOMAIN t = 1 .. n + 1
      /\ (\A i \in 1 .. n : t[i] = s[i]) /\ t[n + 1] = e /\ t # << >>
  BY AppendProperties
<1> HIDE DEF t, n
<1>2. ASSUME NEW i \in DOMAIN t, NEW j \in DOMAIN t, i < j PROVE Above(t[j], t[i])
  <2>1. i \in 1 .. n /\ t[i] = s[i] /\ s[i] \in Seqs!Range(s)
    BY <1>1, <1>2 DEF Seqs!Range
  <2>2. CASE j \in 1 .. n
    BY <1>1, <1>2, <2>1, <2>2 DEF Ascending
  <2>3. CASE j = n + 1
    BY <1>1, <2>1, <2>3
  <2> QED
    BY <1>1, <2>2, <2>3
<1>3. Seqs!Range(t) = Seqs!Range(s) \cup {e}
  <2>1. \A i \in 1 .. n + 1 : i \in 1 .. n \/ i = n + 1
    BY <1>1
  <2>2. \A f \in Seqs!Range(t) : f \in Seqs!Range(s) \/ f = e
    BY <1>1, <2>1 DEF Seqs!Range
  <2>3. \A i \in 1 .. n : i \in DOMAIN t
    BY <1>1
  <2>4. \A f \in Seqs!Range(s) : f \in Seqs!Range(t)
    BY <1>1, <2>3 DEF Seqs!Range
  <2>5. e \in Seqs!Range(t)
    BY <1>1 DEF Seqs!Range
  <2> QED
    BY <2>2, <2>4, <2>5
<1> QED
  BY <1>1, <1>2, <1>3 DEF t, Ascending

(* What was sent, and what the page has of it as long as it missed nothing:  *)
(* of every call the beginning, and no delta twice.                         *)
Published == {e \in Entries : e[1] \in Calls /\ e[2] \in 1 .. sent[e[1]]}
InOrder ==
    /\ \A a \in Calls : \A i \in 1 .. Len(raw[a]) : raw[a][i] = i
    /\ seen = {e \in Entries : e[1] \in Calls /\ e[2] \in 1 .. Len(raw[e[1]])}

(* A sequence of some of these deltas, in their order.                      *)
Sent(s, all) == s \in Seq(Entries) /\ Ascending(s) /\ Seqs!Range(s) \subseteq all

SendingOK ==
    /\ message \in [Calls -> Messages]
    /\ sent \in [Calls -> Nat]
    /\ \A a \in Calls : sent[a] <= Len(message[a].deltas)
    /\ writing \in Calls
    /\ \A a \in Calls : a > writing => sent[a] = 0

LinkOK ==
    /\ Sent(history, Published) /\ Sent(backlog, Published) /\ Sent(queue, Published)
    /\ \A e \in Seqs!Range(backlog), f \in Seqs!Range(queue) : Above(f, e)
    /\ link # "open" => backlog = << >> /\ queue = << >>

PageOK ==
    /\ raw \in [Calls -> Seq(Nat)]
    /\ seen \subseteq Published
    /\ missed \in BOOLEAN
    /\ ~missed => InOrder

(* While a page that missed nothing is connected, all that was sent is seen  *)
(* or on its way.                                                           *)
Covered ==
    ~missed /\ Subscribed =>
      Published \subseteq seen \cup Seqs!Range(backlog) \cup Seqs!Range(queue)

LiveIInv == SendingOK /\ LinkOK /\ PageOK /\ Covered

LEMMA EmptySent == (\A all : Sent(<< >>, all)) /\ Seqs!Range(<< >>) = {}
BY DEF Sent, Ascending, Seqs!Range

LEMMA LiveStarts == DeltaInit => LiveIInv
<1> SUFFICES ASSUME DeltaInit PROVE LiveIInv
  OBVIOUS
<1>1. SendingOK
  <2>1. ASSUME NEW a \in Calls PROVE Len(message[a].deltas) \in Nat
    <3>1. message[a] \in Messages
      BY DEF DeltaInit
    <3>2. message[a].deltas \in Seq(Seq(STRING))
      BY <3>1, DeltaAssumption
    <3> QED
      BY <3>2
  <2>2. \A a \in Calls : 0 <= Len(message[a].deltas)
    BY <2>1
  <2> QED
    BY <2>2, DeltaAssumption DEF DeltaInit, SendingOK, Calls
<1>2. LinkOK
  BY EmptySent DEF DeltaInit, LinkOK
<1>3. PageOK
  <2>1. \A a \in Calls : raw[a] = << >> /\ Len(raw[a]) = 0
    BY DEF DeltaInit
  <2>2. InOrder
    BY <2>1 DEF DeltaInit, InOrder
  <2>3. raw \in [Calls -> Seq(Nat)] /\ seen = {} /\ missed = FALSE
    BY DEF DeltaInit
  <2> QED
    BY <2>2, <2>3 DEF PageOK
<1>4. Covered
  BY DEF DeltaInit, Covered, Subscribed
<1> QED
  BY <1>1, <1>2, <1>3, <1>4 DEF LiveIInv

LEMMA TailSent ==
  ASSUME NEW s, NEW all, Sent(s, all), s # << >>
  PROVE  /\ Sent(Tail(s), all)
         /\ Head(s) \in all
         /\ Seqs!Range(s) = {Head(s)} \cup Seqs!Range(Tail(s))
         /\ \A e \in Seqs!Range(Tail(s)) : Above(e, Head(s))
<1>1. s \in Seq(Entries) /\ Ascending(s) /\ Seqs!Range(s) \subseteq all
  BY DEF Sent
<1> QED
  BY <1>1, TailAscends DEF Sent

LEMMA PublishKeeps == LiveIInv /\ Publish => LiveIInv'
<1> SUFFICES ASSUME LiveIInv, Publish PROVE LiveIInv'
  OBVIOUS
<1> DEFINE full == Len(queue) = QueueCapacity
<1>0. PICK event : event = <<writing, sent[writing] + 1>>
  OBVIOUS
<1>1. /\ sent[writing] < Len(message[writing].deltas)
      /\ sent' = [sent EXCEPT ![writing] = @ + 1]
      /\ history' = Recorded(event)
      /\ IF Subscribed THEN /\ queue' = Append(IF full THEN Tail(queue) ELSE queue, event)
                            /\ missed' = (missed \/ (full /\ Head(queue) \notin seen))
         ELSE UNCHANGED <<queue, missed>>
      /\ UNCHANGED <<message, writing, backlog, link, seen, raw>>
  BY <1>0 DEF Publish
<1>t. /\ writing \in Calls /\ sent \in [Calls -> Nat] /\ sent[writing] \in Nat
      /\ Calls \subseteq Nat
  BY DEF LiveIInv, SendingOK, Calls
<1>2. event \in Entries /\ \A f \in Published : Above(event, f)
  <2>1. event \in Entries
    BY <1>0, <1>t DEF Entries
  <2>2. ASSUME NEW f \in Published PROVE Above(event, f)
    <3>1. f \in Entries /\ f[1] \in Calls /\ f[2] \in 1 .. sent[f[1]] /\ f[1] \in Nat
      BY <1>t DEF Published
    <3>2. ~(f[1] > writing)
      BY <3>1 DEF LiveIInv, SendingOK
    <3>3. f[1] < writing \/ f[1] = writing
      BY <1>t, <3>1, <3>2
    <3>4. f[1] = writing => f[2] < sent[writing] + 1
      BY <1>t, <3>1
    <3> QED
      BY <1>0, <3>3, <3>4, <1>t, <3>1 DEF Above
  <2> QED
    BY <2>1, <2>2
<1>3. Published' = Published \cup {event}
  <2>1. \A a \in Calls : sent'[a] = IF a = writing THEN sent[a] + 1 ELSE sent[a]
    BY <1>1, <1>t
  <2>2. ASSUME NEW e \in Entries
        PROVE  e \in Published' <=> e \in Published \/ e = event
    <3>1. CASE e[1] = writing
      <4>1. e[2] \in Nat /\ e = <<e[1], e[2]>>
        BY DEF Entries
      <4> QED
        BY <1>0, <1>t, <2>1, <3>1, <4>1 DEF Published
    <3>2. CASE e[1] # writing
      BY <1>0, <2>1, <3>2 DEF Published
    <3> QED
      BY <3>1, <3>2
  <2> QED
    BY <1>2, <2>2 DEF Published
<1> HIDE DEF full
<1>4. SendingOK'
  <2>1. \A a \in Calls : sent'[a] = IF a = writing THEN sent[a] + 1 ELSE sent[a]
    BY <1>1, <1>t
  <2>2. sent' \in [Calls -> Nat]
    BY <1>1, <1>t
  <2>3. ASSUME NEW a \in Calls PROVE sent'[a] <= Len(message'[a].deltas)
    <3>1. message[a] \in Messages
      BY DEF LiveIInv, SendingOK
    <3>2. message[a].deltas \in Seq(Seq(STRING))
      BY <3>1, DeltaAssumption
    <3>3. Len(message[a].deltas) \in Nat /\ sent[a] <= Len(message[a].deltas) /\ sent[a] \in Nat
      BY <3>2, <1>t DEF LiveIInv, SendingOK
    <3> QED
      BY <1>1, <2>1, <3>3
  <2>4. \A a \in Calls : a > writing => sent'[a] = 0
    BY <1>t, <2>1 DEF LiveIInv, SendingOK
  <2> QED
    BY <1>1, <2>2, <2>3, <2>4 DEF LiveIInv, SendingOK
<1>5. ASSUME NEW s, Sent(s, Published) PROVE Sent(s, Published')
  BY <1>3, <1>5 DEF Sent
<1>6. ASSUME NEW s, Sent(s, Published)
      PROVE  /\ Sent(Append(s, event), Published')
             /\ Seqs!Range(Append(s, event)) = Seqs!Range(s) \cup {event}
             /\ Append(s, event) # << >>
  <2>1. s \in Seq(Entries) /\ Ascending(s) /\ Seqs!Range(s) \subseteq Published
    BY <1>6 DEF Sent
  <2>2. \A f \in Seqs!Range(s) : Above(event, f)
    BY <1>2, <2>1
  <2>3. /\ Append(s, event) \in Seq(Entries)
        /\ Ascending(Append(s, event))
        /\ Seqs!Range(Append(s, event)) = Seqs!Range(s) \cup {event}
        /\ Append(s, event) # << >>
    BY <1>2, <2>1, <2>2, AppendAscends
  <2> QED
    BY <1>3, <2>1, <2>3 DEF Sent
<1>8. Sent(history', Published')
  <2> DEFINE longer == Append(history, event)
  <2>1. history' = IF Len(longer) > HistoryCapacity THEN Tail(longer) ELSE longer
    BY <1>1 DEF Recorded
  <2>2. Sent(longer, Published') /\ longer # << >>
    BY <1>6 DEF LiveIInv, LinkOK
  <2> HIDE DEF longer
  <2>3. Sent(Tail(longer), Published')
    BY <2>2, TailSent
  <2> QED
    BY <2>1, <2>2, <2>3
<1>9. Sent(backlog', Published')
  BY <1>1, <1>5 DEF LiveIInv, LinkOK
<1> DEFINE rest == IF full THEN Tail(queue) ELSE queue
<1>10. /\ Sent(rest, Published) /\ Seqs!Range(rest) \subseteq Seqs!Range(queue)
       /\ full => Seqs!Range(queue) = {Head(queue)} \cup Seqs!Range(rest)
       /\ ~full => rest = queue
  <2>1. Sent(queue, Published)
    BY DEF LiveIInv, LinkOK
  <2>2. full => queue # << >>
    BY DeltaAssumption DEF full
  <2> QED
    BY <2>1, <2>2, TailSent
<1> HIDE DEF rest
<1>11. Subscribed => queue' = Append(rest, event)
  BY <1>1 DEF rest
<1>12. /\ Sent(Append(rest, event), Published')
       /\ Seqs!Range(Append(rest, event)) = Seqs!Range(rest) \cup {event}
  BY <1>6, <1>10
<1>13. LinkOK'
  <2>1. CASE Subscribed
    <3>1. \A e \in Seqs!Range(backlog) : e \in Published
      BY DEF LiveIInv, LinkOK, Sent
    <3>2. \A e \in Seqs!Range(backlog'), f \in Seqs!Range(queue') : Above(f, e)
      <4>1. \A f \in Seqs!Range(queue') : f \in Seqs!Range(queue) \/ f = event
        BY <1>10, <1>11, <1>12, <2>1
      <4>2. \A e \in Seqs!Range(backlog), f \in Seqs!Range(queue) : Above(f, e)
        BY DEF LiveIInv, LinkOK
      <4>3. backlog' = backlog
        BY <1>1
      <4> QED
        BY <1>2, <3>1, <4>1, <4>2, <4>3
    <3> QED
      BY <1>1, <1>8, <1>9, <1>11, <1>12, <2>1, <3>2 DEF LiveIInv, LinkOK, Subscribed
  <2>2. CASE ~Subscribed
    <3>1. Sent(queue', Published')
      BY <1>1, <1>5, <2>2 DEF LiveIInv, LinkOK
    <3> QED
      BY <1>1, <1>8, <1>9, <2>2, <3>1 DEF LiveIInv, LinkOK, Subscribed
  <2> QED
    BY <2>1, <2>2
<1>14. missed' \in BOOLEAN /\ (~missed' => ~missed)
  BY <1>1 DEF LiveIInv, PageOK
<1>15. PageOK'
  <2>1. ~missed => InOrder'
    BY <1>1 DEF LiveIInv, PageOK, InOrder
  <2> QED
    BY <1>1, <1>3, <1>14, <2>1 DEF LiveIInv, PageOK
<1>16. Covered'
  <2> SUFFICES ASSUME ~missed', Subscribed
               PROVE  Published' \subseteq seen \cup Seqs!Range(backlog) \cup Seqs!Range(queue')
    BY <1>1 DEF Covered, Subscribed
  <2>1. Published \subseteq seen \cup Seqs!Range(backlog) \cup Seqs!Range(queue)
    BY <1>14 DEF LiveIInv, Covered
  <2>2. full => Head(queue) \in seen
    BY <1>1
  <2> QED
    BY <1>3, <1>10, <1>11, <1>12, <2>1, <2>2
<1> QED
  BY <1>4, <1>13, <1>15, <1>16 DEF LiveIInv

(* What does not publish leaves what was published.                          *)
LEMMA NothingSent ==
  ASSUME LiveIInv, UNCHANGED <<message, sent>>, writing' = writing \/ writing' > writing,
         writing' \in Calls
  PROVE  SendingOK' /\ Published' = Published
<1>1. Published' = Published
  BY DEF Published
<1>2. \A a \in Calls : a > writing' => sent[a] = 0
  BY DEF LiveIInv, SendingOK, Calls
<1> QED
  BY <1>1, <1>2 DEF LiveIInv, SendingOK

LEMMA QuietKeeps ==
  LiveIInv /\ (NextCall \/ HistoryExpires \/ Silence \/ Breaks \/ Reconnects) => LiveIInv'
<1> SUFFICES ASSUME LiveIInv, NextCall \/ HistoryExpires \/ Silence \/ Breaks \/ Reconnects
             PROVE  LiveIInv'
  OBVIOUS
<1>1. /\ UNCHANGED <<message, sent, seen, raw, missed>>
      /\ writing' = writing \/ writing' > writing
      /\ writing' \in Calls
  BY DeltaAssumption
     DEF NextCall, HistoryExpires, Silence, Breaks, Reconnects, LiveIInv, SendingOK, Calls
<1>2. SendingOK' /\ Published' = Published
  BY <1>1, NothingSent
<1>3. PageOK'
  <2>1. InOrder' <=> InOrder
    BY <1>1 DEF InOrder
  <2> QED
    BY <1>1, <1>2, <2>1 DEF LiveIInv, PageOK
<1>4. CASE NextCall \/ HistoryExpires
  <2>1. UNCHANGED <<queue, backlog, link>> /\ history' \in {history, << >>}
    BY <1>4 DEF NextCall, HistoryExpires
  <2>2. LinkOK'
    BY <1>2, <2>1, EmptySent DEF LiveIInv, LinkOK
  <2>3. Covered'
    BY <1>1, <1>2, <2>1 DEF LiveIInv, Covered, Subscribed
  <2> QED
    BY <1>2, <1>3, <2>2, <2>3 DEF LiveIInv
<1>5. CASE Silence \/ Breaks \/ Reconnects
  <2>1. link' # "open" /\ history' = history
    BY <1>5 DEF Silence, Breaks, Reconnects, LinkWaits
  <2>2. queue' = << >> /\ backlog' = << >>
    BY <1>5 DEF Silence, Breaks, Reconnects, LinkWaits, LiveIInv, LinkOK
  <2>3. LinkOK'
    BY <1>2, <2>1, <2>2, EmptySent DEF LiveIInv, LinkOK
  <2>4. Covered'
    BY <2>1 DEF Covered, Subscribed
  <2> QED
    BY <1>2, <1>3, <2>3, <2>4 DEF LiveIInv
<1> QED
  BY <1>4, <1>5

LEMMA UnreachableIs == LiveIInv => Unreachable = Published \ (seen \cup Seqs!Range(history))
<1> SUFFICES ASSUME LiveIInv
             PROVE  Unreachable = Published \ (seen \cup Seqs!Range(history))
  OBVIOUS
<1>1. ASSUME NEW e
      PROVE  e \in Published <=> \E a \in Calls : e \in {<<a, n>> : n \in 1 .. sent[a]}
  <2>1. ASSUME e \in Published PROVE \E a \in Calls : e \in {<<a, n>> : n \in 1 .. sent[a]}
    BY <2>1 DEF Published, Entries
  <2>2. ASSUME NEW a \in Calls, NEW n \in 1 .. sent[a], e = <<a, n>> PROVE e \in Published
    <3>1. a \in Nat /\ sent[a] \in Nat /\ n \in Nat
      BY DEF LiveIInv, SendingOK, Calls
    <3> QED
      BY <2>2, <3>1 DEF Published, Entries
  <2> QED
    BY <2>1, <2>2
<1>2. Published = UNION {{<<a, n>> : n \in 1 .. sent[a]} : a \in Calls}
  BY <1>1
<1> QED
  BY <1>2 DEF Unreachable

LEMMA SubscribeKeeps == LiveIInv /\ Subscribe => LiveIInv'
<1> SUFFICES ASSUME LiveIInv, Subscribe PROVE LiveIInv'
  OBVIOUS
<1>1. /\ link' = "open" /\ queue' = << >> /\ backlog' = history
      /\ missed' = (missed \/ Unreachable # {})
      /\ UNCHANGED <<message, sent, writing, history, seen, raw>>
  BY DEF Subscribe
<1>2. SendingOK' /\ Published' = Published
  BY <1>1, NothingSent DEF LiveIInv, SendingOK
<1>3. LinkOK'
  BY <1>1, <1>2, EmptySent DEF LiveIInv, LinkOK
<1>4. missed' \in BOOLEAN /\ (~missed' => ~missed /\ Unreachable = {})
  BY <1>1 DEF LiveIInv, PageOK
<1>5. PageOK'
  <2>1. InOrder' <=> InOrder
    BY <1>1 DEF InOrder
  <2> QED
    BY <1>1, <1>2, <1>4, <2>1 DEF LiveIInv, PageOK
<1>6. Covered'
  BY <1>1, <1>2, <1>4, UnreachableIs DEF Covered
<1> QED
  BY <1>2, <1>3, <1>5, <1>6 DEF LiveIInv

LEMMA MountKeeps == LiveIInv /\ Mount => LiveIInv'
<1> SUFFICES ASSUME LiveIInv, Mount PROVE LiveIInv'
  OBVIOUS
<1>1. /\ link' = "connecting" /\ queue' = << >> /\ backlog' = << >>
      /\ seen' = {} /\ raw' = [a \in Calls |-> << >>] /\ missed' = FALSE
      /\ UNCHANGED <<message, sent, writing, history>>
  BY DEF Mount
<1>2. SendingOK' /\ Published' = Published
  BY <1>1, NothingSent DEF LiveIInv, SendingOK
<1>3. LinkOK'
  BY <1>1, <1>2, EmptySent DEF LiveIInv, LinkOK
<1>4. \A a \in Calls : raw'[a] = << >> /\ Len(raw'[a]) = 0
  BY <1>1
<1>5. InOrder'
  BY <1>1, <1>4 DEF InOrder
<1>6. PageOK' /\ Covered'
  <2>1. raw' \in [Calls -> Seq(Nat)]
    BY <1>1
  <2> QED
    BY <1>1, <1>5, <2>1 DEF PageOK, Covered, Subscribed
<1> QED
  BY <1>2, <1>3, <1>6 DEF LiveIInv

(* What is least of all that is unseen is the next delta of its call.        *)
LEMMA HeadIsNext ==
  ASSUME LiveIInv, ~missed, NEW head0 \in Published, head0 \notin seen,
         \A f \in Published : f \in seen \/ f = head0 \/ Above(f, head0)
  PROVE  /\ head0[1] \in Calls /\ head0 = <<head0[1], head0[2]>>
         /\ head0[2] = Len(raw[head0[1]]) + 1
<1>1. PICK a \in Nat, n \in Nat : head0 = <<a, n>>
  BY DEF Published, Entries
<1>2. a \in Calls /\ n \in 1 .. sent[a] /\ sent[a] \in Nat
  BY <1>1 DEF Published, LiveIInv, SendingOK
<1>3. raw[a] \in Seq(Nat)
  BY <1>2 DEF LiveIInv, PageOK
<1>4. PICK k \in Nat : k = Len(raw[a])
  BY <1>3
<1>5. \A m \in Nat : <<a, m>> \in seen <=> m \in 1 .. k
  <2>1. seen = {e \in Entries : e[1] \in Calls /\ e[2] \in 1 .. Len(raw[e[1]])}
    BY DEF LiveIInv, PageOK, InOrder
  <2>2. ASSUME NEW m \in Nat PROVE <<a, m>> \in seen <=> m \in 1 .. k
    <3>1. PICK e : e = <<a, m>>
      OBVIOUS
    <3>2. e \in Entries /\ e[1] = a /\ e[2] = m
      BY <3>1 DEF Entries
    <3> QED
      BY <1>2, <1>4, <2>1, <3>1, <3>2
  <2> QED
    BY <2>2
<1>6. n > k
  BY <1>1, <1>2, <1>5
<1>7. ASSUME n > k + 1 PROVE FALSE
  <2>1. <<a, n - 1>> \in Published
    BY <1>1, <1>2, <1>6, <1>7 DEF Published, Entries
  <2>2. <<a, n - 1>> \notin seen
    BY <1>5, <1>7
  <2>3. Above(<<a, n - 1>>, <<a, n>>)
    BY <1>1, <2>1, <2>2
  <2> QED
    BY <1>1, <2>3 DEF Above
<1> QED
  BY <1>1, <1>2, <1>4, <1>6, <1>7

(* Receiving a delta, the page stays in order, and has it.                   *)
LEMMA AcceptKeeps ==
  ASSUME LiveIInv, NEW event \in Published, Accept(event),
         UNCHANGED <<message, sent, writing, missed>>,
         ~missed => \A f \in Published : f \in seen \/ f = event \/ Above(f, event)
  PROVE  PageOK' /\ seen' = seen \cup {event}
<1>1. Published' = Published
  BY DEF Published
<1>2. CASE event \in seen
  <2>1. UNCHANGED <<seen, raw>>
    BY <1>2 DEF Accept
  <2>2. InOrder' <=> InOrder
    BY <2>1 DEF InOrder
  <2> QED
    BY <1>1, <1>2, <2>1, <2>2 DEF LiveIInv, PageOK
<1>3. CASE event \notin seen
  <2>1. seen' = seen \cup {event} /\ raw' = [raw EXCEPT ![event[1]] = Append(@, event[2])]
    BY <1>3 DEF Accept
  <2>2. event \in Entries /\ event[1] \in Calls /\ event[2] \in Nat
    BY DEF Published, Entries
  <2>3. raw[event[1]] \in Seq(Nat)
    BY <2>2 DEF LiveIInv, PageOK
  <2>4. raw' \in [Calls -> Seq(Nat)]
    <3>1. Append(raw[event[1]], event[2]) \in Seq(Nat)
      BY <2>2, <2>3
    <3> QED
      BY <2>1, <2>2, <3>1 DEF LiveIInv, PageOK
  <2>5. \A a \in Calls : a # event[1] => raw'[a] = raw[a]
    BY <2>1 DEF LiveIInv, PageOK
  <2>6. raw'[event[1]] = Append(raw[event[1]], event[2])
    BY <2>1, <2>2 DEF LiveIInv, PageOK
  <2>7. ASSUME ~missed PROVE InOrder'
    <3>1. event = <<event[1], event[2]>> /\ event[2] = Len(raw[event[1]]) + 1
      BY <1>3, <2>7, HeadIsNext
    <3>2. PICK a \in Calls : a = event[1]
      BY <2>2
    <3>3. PICK k \in Nat : k = Len(raw[a])
      BY <2>3, <3>2
    <3>4. event = <<a, k + 1>>
      BY <3>1, <3>2, <3>3
    <3>5. Len(raw'[a]) = k + 1
      BY <2>3, <2>6, <3>2, <3>3
    <3>6. InOrder
      BY <2>7 DEF LiveIInv, PageOK
    <3>7. ASSUME NEW i \in 1 .. k + 1 PROVE raw'[a][i] = i
      <4>1. raw'[a][i] = IF i <= k THEN raw[a][i] ELSE k + 1
        BY <2>3, <2>6, <3>2, <3>3, <3>4
      <4>2. i <= k => raw[a][i] = i
        BY <3>3, <3>6 DEF InOrder
      <4> QED
        BY <4>1, <4>2
    <3>8. \A c \in Calls : \A i \in 1 .. Len(raw'[c]) : raw'[c][i] = i
      <4>1. ASSUME NEW c \in Calls, c # a, NEW i \in 1 .. Len(raw'[c]) PROVE raw'[c][i] = i
        BY <2>5, <3>2, <3>6, <4>1 DEF InOrder
      <4> QED
        BY <3>5, <3>7, <4>1
    <3>9. ASSUME NEW e \in Entries
          PROVE  e \in seen' <=> e[1] \in Calls /\ e[2] \in 1 .. Len(raw'[e[1]])
      <4>0. e \in seen <=> e[1] \in Calls /\ e[2] \in 1 .. Len(raw[e[1]])
        BY <3>6 DEF InOrder
      <4>1. CASE e[1] = a
        <5>1. e = <<a, e[2]>> /\ e[2] \in Nat
          BY <4>1 DEF Entries
        <5>2. e = event <=> e[2] = k + 1
          BY <3>4, <5>1
        <5> QED
          BY <2>1, <3>2, <3>3, <3>5, <4>0, <4>1, <5>1, <5>2
      <4>2. CASE e[1] # a
        BY <2>1, <2>5, <3>2, <4>0, <4>2
      <4> QED
        BY <4>1, <4>2
    <3>10. seen' \subseteq Entries
      BY <2>1, <2>2 DEF LiveIInv, PageOK, Published
    <3>11. seen' = {e \in Entries : e[1] \in Calls /\ e[2] \in 1 .. Len(raw'[e[1]])}
      BY <3>9, <3>10
    <3>12. Calls' = Calls /\ Entries' = Entries
      BY DEF Calls, Entries
    <3> QED
      BY <3>8, <3>11, <3>12 DEF InOrder
  <2> QED
    BY <1>1, <2>1, <2>4, <2>7 DEF LiveIInv, PageOK
<1> QED
  BY <1>2, <1>3

LEMMA DeliverKeeps == LiveIInv /\ Deliver => LiveIInv'
<1> SUFFICES ASSUME LiveIInv, Deliver PROVE LiveIInv'
  OBVIOUS
<1>1. link = "open" /\ UNCHANGED <<message, sent, writing, history, link, missed>>
  BY DEF Deliver, Subscribed
<1>2. SendingOK' /\ Published' = Published
  BY <1>1, NothingSent DEF LiveIInv, SendingOK
<1>3. Sent(backlog, Published) /\ Sent(queue, Published)
  BY DEF LiveIInv, LinkOK
<1>4. ~missed => Published \subseteq seen \cup Seqs!Range(backlog) \cup Seqs!Range(queue)
  BY <1>1 DEF LiveIInv, Covered, Subscribed
<1>5. CASE backlog # << >> /\ Accept(Head(backlog)) /\ backlog' = Tail(backlog) /\ UNCHANGED queue
  <2>1. /\ Sent(Tail(backlog), Published) /\ Head(backlog) \in Published
        /\ Seqs!Range(backlog) = {Head(backlog)} \cup Seqs!Range(Tail(backlog))
        /\ \A e \in Seqs!Range(Tail(backlog)) : Above(e, Head(backlog))
    BY <1>3, <1>5, TailSent
  <2>2. \A f \in Seqs!Range(queue) : Above(f, Head(backlog))
    BY <2>1 DEF LiveIInv, LinkOK
  <2>3. ~missed => \A f \in Published : f \in seen \/ f = Head(backlog) \/ Above(f, Head(backlog))
    BY <1>4, <2>1, <2>2
  <2>4. PageOK' /\ seen' = seen \cup {Head(backlog)}
    BY <1>1, <1>5, <2>1, <2>3, AcceptKeeps
  <2>5. LinkOK'
    BY <1>1, <1>2, <1>5, <2>1 DEF LiveIInv, LinkOK
  <2>6. Covered'
    BY <1>1, <1>2, <1>4, <1>5, <2>1, <2>4 DEF Covered
  <2> QED
    BY <1>2, <2>4, <2>5, <2>6 DEF LiveIInv
<1>6. CASE backlog = << >> /\ queue # << >> /\ Accept(Head(queue)) /\ queue' = Tail(queue)
           /\ UNCHANGED backlog
  <2>1. /\ Sent(Tail(queue), Published) /\ Head(queue) \in Published
        /\ Seqs!Range(queue) = {Head(queue)} \cup Seqs!Range(Tail(queue))
        /\ \A e \in Seqs!Range(Tail(queue)) : Above(e, Head(queue))
    BY <1>3, <1>6, TailSent
  <2>2. Seqs!Range(backlog) = {}
    BY <1>6, EmptySent
  <2>3. ~missed => \A f \in Published : f \in seen \/ f = Head(queue) \/ Above(f, Head(queue))
    BY <1>4, <2>1, <2>2
  <2>4. PageOK' /\ seen' = seen \cup {Head(queue)}
    BY <1>1, <1>6, <2>1, <2>3, AcceptKeeps
  <2>5. LinkOK'
    BY <1>1, <1>2, <1>6, <2>1, <2>2 DEF LiveIInv, LinkOK
  <2>6. Covered'
    BY <1>1, <1>2, <1>4, <1>6, <2>1, <2>2, <2>4 DEF Covered
  <2> QED
    BY <1>2, <2>4, <2>5, <2>6 DEF LiveIInv
<1> QED
  BY <1>5, <1>6 DEF Deliver

LEMMA LiveStep == LiveIInv /\ [DeltaNext]_deltaVars => LiveIInv'
<1>1. LiveIInv /\ UNCHANGED deltaVars => LiveIInv'
  BY DEF deltaVars, LiveIInv, SendingOK, LinkOK, PageOK, Covered, InOrder, Published,
         Subscribed
<1> QED
  BY <1>1, PublishKeeps, QuietKeeps, SubscribeKeeps, DeliverKeeps, MountKeeps DEF DeltaNext

(* As long as nothing was dropped that the page had not seen, it has every    *)
(* call from its first delta on, in order and without repetition, through     *)
(* lost connections, expired histories and new mounts; it has all that was    *)
(* sent once nothing is under way; and what it shows is a beginning of the    *)
(* text, if the projection shows beginnings of beginnings (the hub,           *)
(* model-delta-stream.ts and provider-text-projection.ts together).           *)
THEOREM LiveTextIsTheAnswerHolds ==
  ASSUME ProjectsPrefixes PROVE DeltaSpec => []LiveTextIsTheAnswer
<1>1. LiveIInv => LiveTextIsTheAnswer
  <2> SUFFICES ASSUME LiveIInv, ~missed, NEW a \in Calls
               PROVE  /\ raw[a] = [i \in 1 .. Len(raw[a]) |-> i]
                      /\ Subscribed /\ backlog = << >> /\ queue = << >> => Len(raw[a]) = sent[a]
                      /\ Seqs!IsPrefix(ProjectProviderText(Content(a)), message[a].text)
    BY DEF LiveTextIsTheAnswer
  <2>1. raw[a] \in Seq(Nat) /\ sent[a] \in Nat /\ InOrder /\ a \in Nat
    BY DEF LiveIInv, PageOK, SendingOK, Calls
  <2>2. PICK k \in Nat : k = Len(raw[a])
    BY <2>1
  <2>3. raw[a] = [i \in 1 .. k |-> i]
    BY <2>1, <2>2 DEF InOrder
  <2>4. ASSUME NEW n \in Nat
        PROVE  /\ <<a, n>> \in seen <=> n \in 1 .. k
               /\ <<a, n>> \in Published <=> n \in 1 .. sent[a]
    <3>1. seen = {e \in Entries : e[1] \in Calls /\ e[2] \in 1 .. Len(raw[e[1]])}
      BY <2>1 DEF InOrder
    <3>2. PICK e : e = <<a, n>>
      OBVIOUS
    <3>3. e \in Entries /\ e[1] = a /\ e[2] = n
      BY <2>1, <3>2 DEF Entries
    <3> QED
      BY <2>2, <3>1, <3>2, <3>3 DEF Published
  <2>5. k <= sent[a]
    <3>1. ASSUME k > sent[a] PROVE FALSE
      <4>1. <<a, k>> \in seen /\ <<a, k>> \notin Published
        BY <2>1, <2>2, <2>4, <3>1
      <4> QED
        BY <4>1 DEF LiveIInv, PageOK
    <3> QED
      BY <2>1, <2>2, <3>1
  <2>6. ASSUME Subscribed, backlog = << >>, queue = << >> PROVE k = sent[a]
    <3>1. Published \subseteq seen
      BY <2>6, EmptySent DEF LiveIInv, Covered
    <3>2. ASSUME k < sent[a] PROVE FALSE
      <4>1. <<a, sent[a]>> \in Published /\ <<a, sent[a]>> \notin seen
        BY <2>1, <2>2, <2>4, <3>2
      <4> QED
        BY <3>1, <4>1
    <3> QED
      BY <2>1, <2>2, <2>5, <3>2
  <2>7. message[a] \in Messages /\ sent[a] <= Len(message[a].deltas)
    BY DEF LiveIInv, SendingOK
  <2>8. message[a].deltas \in Seq(Seq(STRING))
    BY <2>7, DeltaAssumption
  <2>9. k \in 0 .. Len(message[a].deltas)
    <3>1. Len(message[a].deltas) \in Nat
      BY <2>8
    <3> QED
      BY <2>1, <2>2, <2>5, <2>7, <3>1
  <2>10. [i \in DOMAIN raw[a] |-> message[a].deltas[raw[a][i]]]
           = [i \in 1 .. k |-> message[a].deltas[i]]
    BY <2>3
  <2>11. Content(a) = Seqs!FlattenSeq([i \in 1 .. k |-> message[a].deltas[i]])
    BY <2>10 DEF Content
  <2>12. Seqs!IsPrefix(ProjectProviderText(Content(a)), message[a].text)
    BY <2>7, <2>9, <2>11 DEF ProjectsPrefixes
  <2> QED
    BY <2>2, <2>3, <2>6, <2>12
<1> QED
  BY <1>1, LiveStarts, LiveStep, PTL DEF DeltaSpec
=============================================================================
