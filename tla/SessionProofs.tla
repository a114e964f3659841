---------------------------- MODULE SessionProofs ----------------------------
(***************************************************************************)
(* Proofs about the Stata side.  A Stata operation, for any operations,    *)
(* states, data files and bounds: a formal run ran on the data it declares, *)
(* and what recovery concludes of an operation is the truth.  The pool of   *)
(* Stata runtimes, for any scopes, runtimes and callers: its tables stay    *)
(* what they are meant to be, no two commands of a scope run at once, and   *)
(* -- when a scope has one caller and the pool closes only at shutdown --   *)
(* every command runs in the directory of its own scope.                    *)
(***************************************************************************)
EXTENDS StataOperations, ExecutionPool, WellFoundedInduction, TLAPS

-----------------------------------------------------------------------------
(* Numbers.                                                                 *)

LEMMA LessThan ==
  \E R : IsWellFoundedOn(R, Nat) /\ \A x, y \in Nat : y < x => <<y, x>> \in R
<1>1. IsWellFoundedOn(OpToRel(<, Nat), Nat)
  BY NatLessThanWellFounded
<1>2. \A x, y \in Nat : y < x => <<y, x>> \in OpToRel(<, Nat)
  BY DEF OpToRel
<1> QED
  BY <1>1, <1>2, Zenon

LEMMA LeastNumber ==
  ASSUME NEW T, T \subseteq Nat, T # {}
  PROVE  \E n \in T : \A m \in T : n <= m
<1>1. PICK R : IsWellFoundedOn(R, Nat) /\ \A x, y \in Nat : y < x => <<y, x>> \in R
  BY LessThan
<1>2. PICK n \in T : \A y \in T : ~ (<<y, n>> \in R)
  BY <1>1, WFMin
<1>3. ASSUME NEW y \in T PROVE n <= y
  <2>1. n \in Nat /\ y \in Nat /\ ~(y < n)
    BY <1>1, <1>2
  <2> QED
    BY <2>1
<1> QED
  BY <1>3

-----------------------------------------------------------------------------
(* The invariant.                                                           *)

OperationRecord ==
    [status : Statuses, turn : Nat, purpose : Purposes \cup {None},
     data : Datasets \cup {None}, source : OperationIds \cup {None}, token : State,
     gen : Nat, output : BOOLEAN, found : State \cup {None}, file : Receipt \cup {None},
     whole : BOOLEAN, row : Receipt \cup {None}, report : Classes \cup {None},
     promoted : BOOLEAN]

HostRecord == [gen : Nat, state : State, seq : Nat, open : BOOLEAN]

(* A session with this number, if it is the one the host holds, has this in *)
(* its memory, unless an exception got past the executor in it.             *)
Holds(s, gen, state, gone) ==
    /\ gen <= s.gen
    /\ s.open /\ s.gen = gen => s.state = state \/ gen \in gone

(* What an operation found in the session it ran in is what it rests on.    *)
FoundAsDeclared(r, receipt, gone) ==
    r.source # None /\ r.gen = receipt.gen => r.found = r.token \/ r.gen \in gone

OperationOK(r, gone) ==
    /\ r.status \in {"none", "admitted"} => r.found = None /\ r.file = None /\ r.row = None
    /\ r.status = "none" => r.source = None
    /\ r.file # None => r.found # None /\ FoundAsDeclared(r, r.file, gone)
    /\ r.row # None => r.row = r.file
    /\ r.status \in {"completed", "failed"} => r.row # None
    /\ r.promoted => r.row # None /\ (r.found = r.token \/ r.gen \in gone)

(* What the executor is doing with an operation that was handed off.        *)
RunOK(r, d, s, gone) ==
    /\ d.step \in {"run", "publish"} => r.file = None
    /\ d.step \in {"run", "publish", "finalize"} =>
          r.status = "handoff_committed" /\ r.row = None
    /\ d.step = "run" /\ r.source # None => Holds(s, r.gen, r.token, gone)
    /\ d.step = "publish" =>
          d = [step |-> "publish", op |-> d.op, for |-> d.for, receipt |-> d.receipt]
    /\ d.step \in {"publish", "finalize"} =>
          /\ d.receipt \in Receipt
          /\ r.found # None
          /\ Holds(s, d.receipt.gen, d.receipt.state, gone)
          /\ FoundAsDeclared(r, d.receipt, gone)
    /\ d.step = "finalize" => r.file = d.receipt
    /\ d.step = "outcome" =>
          /\ r.status \notin {"none", "admitted"}
          /\ r.status = "completed" => Holds(s, r.row.gen, r.row.state, gone)

DoingOK(d, all, s, gone) ==
    /\ d.step \in {"idle", "down", "prepare", "run", "publish", "finalize", "outcome"}
    /\ d.step = "prepare" => d.op \in OperationIds /\ all[d.op].status = "admitted"
    /\ d.step \in {"run", "publish", "finalize", "outcome"} =>
          /\ d.op \in OperationIds
          /\ d.for \in OperationIds
          /\ d.for # d.op => all[d.for].status = "admitted"
          /\ RunOK(all[d.op], d, s, gone)

(* The binding of the executor tells what the session holds, whenever no    *)
(* operation is in it.                                                      *)
BindingOK(b, d, s, gone) == b # None =>
    /\ b.token \in State
    /\ b.gen \in Nat
    /\ b.gen <= s.gen
    /\ b.source \in OperationIds
    /\ d.step \in {"idle", "prepare", "run"} => Holds(s, b.gen, b.token, gone)

StataIInv ==
    /\ op \in [OperationIds -> OperationRecord]
    /\ session \in HostRecord
    /\ turn \in Nat
    /\ \A o \in OperationIds : OperationOK(op[o], unaccounted)
    /\ DoingOK(doing, op, session, unaccounted)
    /\ BindingOK(binding, doing, session, unaccounted)
    /\ doing.step = "down" => binding = None

-----------------------------------------------------------------------------
(* Updates of the record of an operation.                                   *)

SameRequest(q, r) == q.source = r.source /\ q.token = r.token /\ q.gen = r.gen
SameEnd(q, r) == q.file = r.file /\ q.row = r.row /\ q.promoted = r.promoted

AdmittedAs(r, t, p, d, b) ==
    [r EXCEPT !.status = "admitted", !.turn = t, !.purpose = p, !.data = d, !.output = b]
LoadAs(r, t, d) ==
    [r EXCEPT !.status = "handoff_committed", !.turn = t, !.purpose = "data_load",
              !.data = d]
HandedOffAs(r, s, t, g) ==
    [r EXCEPT !.status = "handoff_committed", !.source = s, !.token = t, !.gen = g]
UnknownAs(r, f) == [r EXCEPT !.status = "outcome_unknown", !.found = f]
RowAs(r, f, x) == [r EXCEPT !.row = f, !.status = x]
ReportAs(r, c, x) == [r EXCEPT !.report = c, !.status = x]

LEMMA AdmittedRecord ==
  ASSUME NEW r \in OperationRecord, NEW t \in Nat, NEW p \in Purposes, NEW d \in Datasets,
         NEW b \in BOOLEAN
  PROVE  LET q == AdmittedAs(r, t, p, d, b)
         IN  /\ q \in OperationRecord /\ q.status = "admitted" /\ q.found = r.found
             /\ SameRequest(q, r) /\ SameEnd(q, r)
  BY DEF AdmittedAs, OperationRecord, Statuses, SameRequest, SameEnd

LEMMA LoadRecord ==
  ASSUME NEW r \in OperationRecord, NEW t \in Nat, NEW d \in Datasets \cup {None}
  PROVE  LET q == LoadAs(r, t, d)
         IN  /\ q \in OperationRecord /\ q.status = "handoff_committed" /\ q.found = r.found
             /\ SameRequest(q, r) /\ SameEnd(q, r)
  BY DEF LoadAs, OperationRecord, Statuses, Purposes, SameRequest, SameEnd

LEMMA HandoffRecord ==
  ASSUME NEW r \in OperationRecord, NEW s \in OperationIds, NEW t \in State, NEW g \in Nat
  PROVE  LET q == HandedOffAs(r, s, t, g)
         IN  /\ q \in OperationRecord /\ q.status = "handoff_committed" /\ q.found = r.found
             /\ q.source = s /\ q.token = t /\ q.gen = g
             /\ SameEnd(q, r)
  BY DEF HandedOffAs, OperationRecord, Statuses, SameEnd

LEMMA FoundRecord ==
  ASSUME NEW r \in OperationRecord, NEW f \in State \cup {None}
  PROVE  LET q == [r EXCEPT !.found = f]
         IN  /\ q \in OperationRecord /\ q.status = r.status /\ q.found = f
             /\ SameRequest(q, r) /\ SameEnd(q, r)
  BY DEF OperationRecord, SameRequest, SameEnd

LEMMA UnknownRecord ==
  ASSUME NEW r \in OperationRecord, NEW f \in State \cup {None}
  PROVE  LET q == UnknownAs(r, f)
         IN  /\ q \in OperationRecord /\ q.status = "outcome_unknown" /\ q.found = f
             /\ SameRequest(q, r) /\ SameEnd(q, r)
  BY DEF UnknownAs, OperationRecord, Statuses, SameRequest, SameEnd

LEMMA FileRecord ==
  ASSUME NEW r \in OperationRecord, NEW f \in Receipt
  PROVE  LET q == [r EXCEPT !.file = f]
         IN  /\ q \in OperationRecord /\ q.status = r.status /\ q.found = r.found
             /\ q.file = f /\ q.row = r.row /\ q.promoted = r.promoted
             /\ SameRequest(q, r)
  BY DEF OperationRecord, SameRequest

LEMMA RowRecord ==
  ASSUME NEW r \in OperationRecord, NEW f \in Receipt, NEW x \in Statuses
  PROVE  LET q == RowAs(r, f, x)
         IN  /\ q \in OperationRecord /\ q.status = x /\ q.found = r.found
             /\ q.row = f /\ q.file = r.file /\ q.promoted = r.promoted
             /\ SameRequest(q, r)
  BY DEF RowAs, OperationRecord, SameRequest

LEMMA ReportRecord ==
  ASSUME NEW r \in OperationRecord, NEW c \in Classes, NEW x \in Statuses
  PROVE  LET q == ReportAs(r, c, x)
         IN  /\ q \in OperationRecord /\ q.status = x /\ q.found = r.found
             /\ SameRequest(q, r) /\ SameEnd(q, r)
  BY DEF ReportAs, OperationRecord, SameRequest, SameEnd

LEMMA PromotedRecord ==
  ASSUME NEW r \in OperationRecord
  PROVE  LET q == [r EXCEPT !.promoted = TRUE]
         IN  /\ q \in OperationRecord /\ q.status = r.status /\ q.found = r.found
             /\ q.file = r.file /\ q.row = r.row
             /\ SameRequest(q, r)
  BY DEF OperationRecord, SameRequest

LEMMA DamagedRecord ==
  ASSUME NEW r \in OperationRecord
  PROVE  LET q == [r EXCEPT !.whole = FALSE]
         IN  /\ q \in OperationRecord /\ q.status = r.status /\ q.found = r.found
             /\ SameRequest(q, r) /\ SameEnd(q, r)
  BY DEF OperationRecord, SameRequest, SameEnd

-----------------------------------------------------------------------------
(* One operation changes at a time.                                         *)

LEMMA OperationKept ==
  ASSUME NEW r, NEW G, NEW H, G \subseteq H, OperationOK(r, G)
  PROVE  OperationOK(r, H)
  BY DEF OperationOK, FoundAsDeclared

LEMMA HoldsStill ==
  ASSUME NEW s, NEW g, NEW m, NEW G, NEW H, G \subseteq H, Holds(s, g, m, G)
  PROVE  Holds(s, g, m, H)
  BY DEF Holds

LEMMA OneChanges ==
  ASSUME op \in [OperationIds -> OperationRecord],
         \A o \in OperationIds : OperationOK(op[o], unaccounted),
         unaccounted \subseteq unaccounted',
         NEW x \in OperationIds, NEW r \in OperationRecord, OperationOK(r, unaccounted'),
         op' = [op EXCEPT ![x] = r]
  PROVE  /\ op' \in [OperationIds -> OperationRecord]
         /\ op'[x] = r
         /\ \A o \in OperationIds : o # x => op'[o] = op[o]
         /\ \A o \in OperationIds : OperationOK(op'[o], unaccounted')
<1>1. /\ op' \in [OperationIds -> OperationRecord]
      /\ op'[x] = r
      /\ \A o \in OperationIds : o # x => op'[o] = op[o]
  OBVIOUS
<1>2. ASSUME NEW o \in OperationIds PROVE OperationOK(op'[o], unaccounted')
  <2>1. OperationOK(op[o], unaccounted')
    BY OperationKept
  <2> QED
    BY <1>1, <2>1
<1> QED
  BY <1>1, <1>2

LEMMA NoneChanges ==
  ASSUME op \in [OperationIds -> OperationRecord],
         \A o \in OperationIds : OperationOK(op[o], unaccounted),
         unaccounted \subseteq unaccounted', UNCHANGED op
  PROVE  /\ op' \in [OperationIds -> OperationRecord]
         /\ \A o \in OperationIds : OperationOK(op'[o], unaccounted')
<1>1. ASSUME NEW o \in OperationIds PROVE OperationOK(op'[o], unaccounted')
  BY OperationKept
<1> QED
  BY <1>1

(* A number that was not used is there when one is fresh.                   *)
LEMMA NewIsFresh ==
  ASSUME Fresh # {}
  PROVE  NewOperation \in OperationIds /\ op[NewOperation].status = "none"
<1>1. \E o \in Fresh : \A u \in Fresh : o <= u
  <2>1. Fresh \subseteq Nat
    BY StataAssumption DEF Fresh, OperationIds
  <2> QED
    BY <2>1, LeastNumber
<1>2. NewOperation \in Fresh
  BY <1>1 DEF NewOperation
<1> QED
  BY <1>2 DEF Fresh

-----------------------------------------------------------------------------
(* The steps.                                                               *)

LEMMA StataBegins == StataInit => StataIInv
<1> SUFFICES ASSUME StataInit PROVE StataIInv
  OBVIOUS
<1>1. Unused \in OperationRecord
  BY DEF Unused, OperationRecord, Statuses, State
<1>2. OperationOK(Unused, {})
  BY DEF Unused, OperationOK
<1>3. session \in HostRecord
  BY DEF StataInit, HostRecord, State
<1>4. DoingOK(doing, op, session, unaccounted) /\ BindingOK(binding, doing, session, unaccounted)
  BY DEF StataInit, DoingOK, BindingOK, Idle
<1> QED
  BY <1>1, <1>2, <1>3, <1>4 DEF StataInit, StataIInv

LEMMA ExecuteStep ==
  ASSUME StataIInv,
         NEW d \in Datasets, NEW purpose \in Purposes, NEW anew \in BOOLEAN,
         NEW output \in BOOLEAN, Execute(d, purpose, anew, output)
  PROVE  StataIInv'
<1> DEFINE n == NewOperation
           r == [op[n] EXCEPT !.status = "admitted", !.turn = turn, !.purpose = purpose,
                              !.data = d, !.output = output]
<1>1. n \in OperationIds /\ op[n].status = "none" /\ op[n] \in OperationRecord
  BY NewIsFresh DEF Execute, StataIInv
<1>2. op' = [op EXCEPT ![n] = r] /\ UNCHANGED <<session, binding, turn, unaccounted>>
  BY DEF Execute
<1>3. doing' = [step |-> "prepare", op |-> n, anew |-> anew] /\ doing.step = "idle"
  BY DEF Execute, Idle
<1> HIDE DEF n
<1>a. r = AdmittedAs(op[n], turn, purpose, d, output)
  BY DEF AdmittedAs
<1> HIDE DEF r
<1>4. /\ r \in OperationRecord /\ r.status = "admitted"
      /\ r.found = op[n].found /\ r.file = op[n].file /\ r.row = op[n].row
      /\ r.promoted = op[n].promoted
  <2>1. turn \in Nat
    BY DEF StataIInv
  <2> QED
    BY <1>1, <1>a, <2>1, AdmittedRecord DEF SameRequest, SameEnd
<1>5. OperationOK(op[n], unaccounted)
  BY <1>1 DEF StataIInv
<1>6. OperationOK(r, unaccounted')
  BY <1>1, <1>2, <1>4, <1>5 DEF OperationOK
<1>7. /\ op' \in [OperationIds -> OperationRecord] /\ op'[n] = r
      /\ \A o \in OperationIds : OperationOK(op'[o], unaccounted')
  BY <1>1, <1>2, <1>4, <1>6, OneChanges DEF StataIInv
<1>8. DoingOK(doing', op', session', unaccounted')
  BY <1>1, <1>3, <1>4, <1>7 DEF DoingOK
<1>9. BindingOK(binding', doing', session', unaccounted')
  BY <1>2, <1>3 DEF StataIInv, BindingOK
<1> QED
  BY <1>2, <1>3, <1>7, <1>8, <1>9 DEF StataIInv

LEMMA HandoffLoadStep == ASSUME StataIInv, HandoffLoad PROVE StataIInv'
<1> DEFINE n == NewOperation
           d == op[doing.op].data
           r == [op[n] EXCEPT !.status = "handoff_committed", !.turn = turn,
                              !.purpose = "data_load", !.data = d]
<1>1. n \in OperationIds /\ op[n].status = "none" /\ op[n] \in OperationRecord
  BY NewIsFresh DEF HandoffLoad, StataIInv
<1>2. op' = [op EXCEPT ![n] = r] /\ UNCHANGED <<session, binding, turn, unaccounted>>
  BY DEF HandoffLoad
<1>3. doing' = [step |-> "run", op |-> n, for |-> doing.op] /\ doing.step = "prepare"
  BY DEF HandoffLoad
<1>4. doing.op \in OperationIds /\ op[doing.op].status = "admitted"
  BY <1>3 DEF StataIInv, DoingOK
<1>5. d \in Datasets \cup {None} /\ turn \in Nat
  BY <1>4 DEF StataIInv, OperationRecord
<1> HIDE DEF n, d
<1>a. r = LoadAs(op[n], turn, d)
  BY DEF LoadAs
<1> HIDE DEF r
<1>6. /\ r \in OperationRecord /\ r.status = "handoff_committed"
      /\ r.found = op[n].found /\ r.file = op[n].file /\ r.row = op[n].row
      /\ r.source = op[n].source /\ r.promoted = op[n].promoted
  BY <1>1, <1>5, <1>a, LoadRecord DEF SameRequest, SameEnd
<1>7. OperationOK(op[n], unaccounted)
  BY <1>1 DEF StataIInv
<1>8. OperationOK(r, unaccounted')
  BY <1>1, <1>2, <1>6, <1>7 DEF OperationOK
<1>9. /\ op' \in [OperationIds -> OperationRecord] /\ op'[n] = r
      /\ \A o \in OperationIds : o # n => op'[o] = op[o]
      /\ \A o \in OperationIds : OperationOK(op'[o], unaccounted')
  BY <1>1, <1>2, <1>6, <1>8, OneChanges DEF StataIInv
<1>10. RunOK(r, doing', session', unaccounted')
  BY <1>1, <1>3, <1>6, <1>7 DEF RunOK, OperationOK
<1>11. DoingOK(doing', op', session', unaccounted')
  BY <1>1, <1>3, <1>4, <1>9, <1>10 DEF DoingOK
<1>12. BindingOK(binding', doing', session', unaccounted')
  BY <1>2, <1>3 DEF StataIInv, BindingOK
<1> QED
  BY <1>2, <1>3, <1>9, <1>11, <1>12 DEF StataIInv

LEMMA HandoffStep == ASSUME StataIInv, Handoff PROVE StataIInv'
<1> DEFINE n == doing.op
           r == [op[n] EXCEPT !.status = "handoff_committed", !.source = binding.source,
                              !.token = binding.token, !.gen = binding.gen]
<1>1. doing.step = "prepare" /\ binding # None
  BY DEF Handoff, Continues
<1>2. n \in OperationIds /\ op[n].status = "admitted" /\ op[n] \in OperationRecord
  BY <1>1 DEF StataIInv, DoingOK
<1>3. op' = [op EXCEPT ![n] = r] /\ UNCHANGED <<session, binding, turn, unaccounted>>
  BY DEF Handoff
<1>4. doing' = [step |-> "run", op |-> n, for |-> n]
  BY DEF Handoff
<1>5. /\ binding.source \in OperationIds /\ binding.token \in State /\ binding.gen \in Nat
      /\ Holds(session, binding.gen, binding.token, unaccounted)
  BY <1>1 DEF StataIInv, BindingOK
<1> HIDE DEF n
<1>a. r = HandedOffAs(op[n], binding.source, binding.token, binding.gen)
  BY DEF HandedOffAs
<1> HIDE DEF r
<1>6. /\ r \in OperationRecord /\ r.status = "handoff_committed"
      /\ r.token = binding.token /\ r.gen = binding.gen
      /\ r.found = op[n].found /\ r.file = op[n].file /\ r.row = op[n].row
      /\ r.promoted = op[n].promoted
  BY <1>2, <1>5, <1>a, HandoffRecord DEF SameRequest, SameEnd
<1>7. OperationOK(op[n], unaccounted)
  BY <1>2 DEF StataIInv
<1>8. OperationOK(r, unaccounted')
  BY <1>2, <1>3, <1>6, <1>7 DEF OperationOK
<1>9. /\ op' \in [OperationIds -> OperationRecord] /\ op'[n] = r
      /\ \A o \in OperationIds : OperationOK(op'[o], unaccounted')
  BY <1>2, <1>3, <1>6, <1>8, OneChanges DEF StataIInv
<1>10. RunOK(r, doing', session', unaccounted')
  BY <1>2, <1>3, <1>4, <1>5, <1>6, <1>7 DEF RunOK, OperationOK
<1>11. DoingOK(doing', op', session', unaccounted')
  BY <1>2, <1>4, <1>9, <1>10 DEF DoingOK
<1>12. BindingOK(binding', doing', session', unaccounted')
  BY <1>1, <1>3, <1>4 DEF StataIInv, BindingOK
<1> QED
  BY <1>3, <1>4, <1>9, <1>11, <1>12 DEF StataIInv

LEMMA HandoffRefusedStep == ASSUME StataIInv, HandoffRefused PROVE StataIInv'
<1>1. /\ UNCHANGED <<op, session, binding, turn, unaccounted>> /\ doing' = Idle
      /\ doing.step = "prepare"
  BY DEF HandoffRefused, Raises
<1>2. DoingOK(doing', op', session', unaccounted')
  BY <1>1 DEF DoingOK, Idle
<1>3. BindingOK(binding', doing', session', unaccounted')
  BY <1>1 DEF StataIInv, BindingOK, Idle
<1> QED
  BY <1>1, <1>2, <1>3 DEF StataIInv, Idle

(* A session that is not there gets a new number.                           *)
LEMMA HostIsNew ==
  ASSUME session \in HostRecord
  PROVE  /\ HostSession \in HostRecord
         /\ session.gen <= HostSession.gen
         /\ HostSession.gen = session.gen => session.open /\ HostSession = session
  BY DEF HostSession, HostRecord, State

LEMMA RunCodeStep == ASSUME StataIInv, RunCode PROVE StataIInv'
<1> DEFINE n == doing.op
           h == HostSession
           r == [op[n] EXCEPT !.found = h.state]
<1>1. doing.step = "run" /\ UNCHANGED <<binding, turn, unaccounted>>
  BY DEF RunCode
<1>2. PICK execution \in Executions, reset \in BOOLEAN, captured \in BOOLEAN :
         \E memory \in Memories(n, h.state, execution) :
            RunEnds(execution, reset, captured, memory)
  BY DEF RunCode
<1>3. PICK memory \in Memories(n, h.state, execution) :
         RunEnds(execution, reset, captured, memory)
  BY <1>2
<1>4. /\ n \in OperationIds /\ doing.for \in OperationIds
      /\ doing.for # n => op[doing.for].status = "admitted"
      /\ RunOK(op[n], doing, session, unaccounted)
      /\ op[n] \in OperationRecord
  BY <1>1 DEF StataIInv, DoingOK
<1>5. /\ h \in HostRecord /\ session.gen <= h.gen /\ session \in HostRecord
      /\ h.gen = session.gen => session.open /\ h = session
  BY HostIsNew DEF StataIInv
<1>6. memory \in State
  <2>1. n \in OperationIds /\ h.state \in Seq(OperationIds)
    BY <1>4, <1>5 DEF HostRecord, State
  <2> HIDE DEF n, h
  <2>2. <<n>> \in Seq(OperationIds) /\ Append(h.state, n) \in Seq(OperationIds)
        /\ <<>> \in Seq(OperationIds)
    BY <2>1
  <2>3. \/ Memories(n, h.state, execution) = {<<n>>}
        \/ Memories(n, h.state, execution) = {h.state, <<>>}
        \/ Memories(n, h.state, execution) = {Append(h.state, n)}
        \/ Memories(n, h.state, execution) = {h.state, Append(h.state, n)}
        \/ Memories(n, h.state, execution) = {h.state}
    BY DEF Memories
  <2> QED
    BY <1>3, <2>1, <2>2, <2>3 DEF State
<1>7. /\ session' \in HostRecord /\ session'.gen = h.gen
      /\ session'.state = IF reset THEN <<>> ELSE memory
  <2> DEFINE m == IF reset THEN <<>> ELSE memory
  <2>1. session' = [h EXCEPT !.state = m, !.seq = h.seq + 1]
    BY <1>3, <1>5 DEF RunEnds, HostRecord
  <2>2. m \in State
    BY <1>6 DEF State
  <2> HIDE DEF h, m
  <2>3. session' = [gen |-> h.gen, state |-> m, seq |-> h.seq + 1, open |-> h.open]
    BY <1>5, <2>1 DEF HostRecord
  <2>4. session' \in HostRecord /\ session'.gen = h.gen /\ session'.state = m
    BY <1>5, <2>2, <2>3 DEF HostRecord
  <2> QED
    BY <2>4 DEF m
<1>8. /\ doing'.step = "publish" /\ doing'.op = n /\ doing'.for = doing.for
      /\ doing' = [step |-> "publish", op |-> n, for |-> doing.for, receipt |-> doing'.receipt]
      /\ doing'.receipt.gen = session'.gen /\ doing'.receipt.state = session'.state
      /\ doing'.receipt = [execution |-> execution, gen |-> session'.gen,
                           seq |-> session'.seq, state |-> session'.state,
                           reset |-> reset, captured |-> captured]
  BY <1>3 DEF RunEnds
<1>9. doing'.receipt \in Receipt
  BY <1>7, <1>8 DEF Receipt, HostRecord
<1>10. op' = [op EXCEPT ![n] = r]
  BY <1>3 DEF RunEnds
<1>11. h.state \in State
  BY <1>5 DEF HostRecord
<1>12. /\ r \in OperationRecord /\ r.status = op[n].status
       /\ r.source = op[n].source /\ r.token = op[n].token /\ r.gen = op[n].gen
       /\ r.found = h.state /\ r.file = op[n].file /\ r.row = op[n].row
       /\ r.promoted = op[n].promoted
  BY <1>4, <1>11, FoundRecord DEF SameRequest, SameEnd
<1> HIDE DEF n, h, r
<1>13. /\ op[n].file = None /\ op[n].status = "handoff_committed" /\ op[n].row = None
       /\ op[n].source # None => Holds(session, op[n].gen, op[n].token, unaccounted)
  BY <1>1, <1>4 DEF RunOK
<1>14. OperationOK(op[n], unaccounted)
  BY <1>4 DEF StataIInv
<1>15. OperationOK(r, unaccounted')
  BY <1>1, <1>12, <1>13, <1>14 DEF OperationOK
<1>16. /\ op' \in [OperationIds -> OperationRecord] /\ op'[n] = r
       /\ \A o \in OperationIds : o # n => op'[o] = op[o]
       /\ \A o \in OperationIds : OperationOK(op'[o], unaccounted')
  BY <1>1, <1>4, <1>10, <1>12, <1>15, OneChanges DEF StataIInv
<1>17. FoundAsDeclared(r, doing'.receipt, unaccounted')
  <2> SUFFICES ASSUME r.source # None, r.gen = doing'.receipt.gen
               PROVE  r.found = r.token \/ r.gen \in unaccounted'
    BY DEF FoundAsDeclared
  <2>1. Holds(session, op[n].gen, op[n].token, unaccounted) /\ op[n].gen = h.gen
    BY <1>7, <1>8, <1>12, <1>13
  <2>2. h.gen \in Nat /\ session.gen \in Nat
    BY <1>5 DEF HostRecord
  <2>3. h.gen = session.gen
    BY <2>1, <2>2, <1>5 DEF Holds
  <2> QED
    BY <2>1, <2>3, <1>1, <1>5, <1>12 DEF Holds
<1>18. Holds(session', doing'.receipt.gen, doing'.receipt.state, unaccounted')
  BY <1>7, <1>8 DEF Holds, HostRecord
<1>19. r.found # None
  BY <1>11, <1>12, StataAssumption
<1>20. RunOK(r, doing', session', unaccounted')
  BY <1>8, <1>9, <1>12, <1>13, <1>17, <1>18, <1>19 DEF RunOK
<1>21. DoingOK(doing', op', session', unaccounted')
  BY <1>4, <1>8, <1>16, <1>20 DEF DoingOK
<1>22. BindingOK(binding', doing', session', unaccounted')
  <2> SUFFICES ASSUME binding # None PROVE binding.gen <= session'.gen
    BY <1>1, <1>8 DEF StataIInv, BindingOK
  <2>1. binding.gen \in Nat /\ binding.gen <= session.gen
    BY DEF StataIInv, BindingOK
  <2> QED
    BY <2>1, <1>5, <1>7 DEF HostRecord
<1> QED
  BY <1>1, <1>7, <1>8, <1>16, <1>21, <1>22 DEF StataIInv

LEMMA MarkTransportUnknownStep == ASSUME StataIInv, MarkTransportUnknown PROVE StataIInv'
<1> DEFINE n == doing.op
           h == HostSession
<1>1. doing.step = "run" /\ UNCHANGED <<binding, turn, unaccounted>>
  BY DEF MarkTransportUnknown
<1>2. PICK ran \in BOOLEAN :
         op' = [op EXCEPT ![n] = [op[n] EXCEPT !.status = "outcome_unknown",
                                               !.found = IF ran THEN h.state ELSE None]]
  BY DEF MarkTransportUnknown
<1> DEFINE f == IF ran THEN h.state ELSE None
           r == [op[n] EXCEPT !.status = "outcome_unknown", !.found = f]
<1>3. /\ n \in OperationIds /\ doing.for \in OperationIds
      /\ doing.for # n => op[doing.for].status = "admitted"
      /\ RunOK(op[n], doing, session, unaccounted)
      /\ op[n] \in OperationRecord
  BY <1>1 DEF StataIInv, DoingOK
<1>4. h \in HostRecord /\ session.gen <= h.gen /\ session \in HostRecord
  BY HostIsNew DEF StataIInv
<1>5. session' \in HostRecord /\ session'.gen = h.gen
  <2>1. session' = [h EXCEPT !.open = FALSE]
    BY DEF MarkTransportUnknown
  <2> HIDE DEF h
  <2> QED
    BY <1>4, <2>1 DEF HostRecord
<1>6. doing' = [step |-> "outcome", op |-> n, for |-> doing.for]
  BY DEF MarkTransportUnknown
<1>7. f \in State \cup {None}
  BY <1>4 DEF HostRecord
<1>9. op' = [op EXCEPT ![n] = r]
  BY <1>2
<1> HIDE DEF n, h, f
<1>a. r = UnknownAs(op[n], f)
  BY DEF UnknownAs
<1> HIDE DEF r
<1>8. /\ r \in OperationRecord /\ r.status = "outcome_unknown"
      /\ r.file = op[n].file /\ r.row = op[n].row /\ r.promoted = op[n].promoted
  BY <1>3, <1>7, <1>a, UnknownRecord DEF SameRequest, SameEnd
<1>10. op[n].file = None /\ op[n].row = None
  BY <1>1, <1>3 DEF RunOK
<1>11. OperationOK(op[n], unaccounted)
  BY <1>3 DEF StataIInv
<1>12. OperationOK(r, unaccounted')
  BY <1>8, <1>10, <1>11 DEF OperationOK
<1>13. /\ op' \in [OperationIds -> OperationRecord] /\ op'[n] = r
       /\ \A o \in OperationIds : o # n => op'[o] = op[o]
       /\ \A o \in OperationIds : OperationOK(op'[o], unaccounted')
  BY <1>1, <1>3, <1>8, <1>9, <1>12, OneChanges DEF StataIInv
<1>14. RunOK(r, doing', session', unaccounted')
  BY <1>6, <1>8 DEF RunOK
<1>15. DoingOK(doing', op', session', unaccounted')
  BY <1>3, <1>6, <1>13, <1>14 DEF DoingOK
<1>16. BindingOK(binding', doing', session', unaccounted')
  <2> SUFFICES ASSUME binding # None PROVE binding.gen <= session'.gen
    BY <1>1, <1>6 DEF StataIInv, BindingOK
  <2>1. binding.gen \in Nat /\ binding.gen <= session.gen
    BY DEF StataIInv, BindingOK
  <2> QED
    BY <2>1, <1>4, <1>5 DEF HostRecord
<1> QED
  BY <1>1, <1>5, <1>6, <1>13, <1>15, <1>16 DEF StataIInv

LEMMA PublishStep == ASSUME StataIInv, Publish PROVE StataIInv'
<1> DEFINE n == doing.op
           r == [op[n] EXCEPT !.file = doing.receipt]
<1>1. /\ doing.step = "publish" /\ UNCHANGED <<session, binding, turn, unaccounted>>
      /\ op' = [op EXCEPT ![n] = r]
  BY DEF Publish
<1>2. /\ n \in OperationIds /\ doing.for \in OperationIds
      /\ doing.for # n => op[doing.for].status = "admitted"
      /\ RunOK(op[n], doing, session, unaccounted)
      /\ op[n] \in OperationRecord
  BY <1>1 DEF StataIInv, DoingOK
<1>3. /\ doing = [step |-> "publish", op |-> n, for |-> doing.for, receipt |-> doing.receipt]
      /\ doing.receipt \in Receipt
  BY <1>1, <1>2 DEF RunOK
<1>4. /\ doing'.step = "finalize" /\ doing'.op = n /\ doing'.for = doing.for
      /\ doing'.receipt = doing.receipt
  BY <1>3 DEF Publish
<1>5. /\ r \in OperationRecord /\ r.status = op[n].status
      /\ r.source = op[n].source /\ r.token = op[n].token /\ r.gen = op[n].gen
      /\ r.found = op[n].found /\ r.file = doing.receipt /\ r.row = op[n].row
      /\ r.promoted = op[n].promoted
  BY <1>2, <1>3, FileRecord DEF SameRequest, SameEnd
<1> HIDE DEF n, r
<1>6. RunOK(r, doing', session', unaccounted')
  BY <1>1, <1>2, <1>4, <1>5 DEF RunOK, FoundAsDeclared
<1>7. OperationOK(op[n], unaccounted)
  BY <1>2 DEF StataIInv
<1>8. OperationOK(r, unaccounted')
  BY <1>1, <1>4, <1>5, <1>6, <1>7 DEF OperationOK, RunOK
<1>9. /\ op' \in [OperationIds -> OperationRecord] /\ op'[n] = r
      /\ \A o \in OperationIds : o # n => op'[o] = op[o]
      /\ \A o \in OperationIds : OperationOK(op'[o], unaccounted')
  BY <1>1, <1>2, <1>5, <1>8, OneChanges DEF StataIInv
<1>10. DoingOK(doing', op', session', unaccounted')
  BY <1>2, <1>4, <1>6, <1>9 DEF DoingOK
<1>11. BindingOK(binding', doing', session', unaccounted')
  BY <1>1, <1>4 DEF StataIInv, BindingOK
<1> QED
  BY <1>1, <1>4, <1>9, <1>10, <1>11 DEF StataIInv

LEMMA FinalizeStep == ASSUME StataIInv, Finalize PROVE StataIInv'
<1> DEFINE n == doing.op
           x == IF op[n].status \in {"handoff_committed", "completed_unreconciled"}
                THEN Outcome(n, doing.receipt) ELSE op[n].status
           r == [op[n] EXCEPT !.row = doing.receipt, !.status = x]
<1>1. /\ doing.step = "finalize" /\ UNCHANGED <<binding, turn, unaccounted>>
      /\ op' = [op EXCEPT ![n] = r]
      /\ session' = [session EXCEPT !.open = @ /\ doing.receipt.execution # "timed_out"]
      /\ doing' = [step |-> "outcome", op |-> n, for |-> doing.for]
  BY DEF Finalize, Finalized
<1>2. /\ n \in OperationIds /\ doing.for \in OperationIds
      /\ doing.for # n => op[doing.for].status = "admitted"
      /\ RunOK(op[n], doing, session, unaccounted)
      /\ op[n] \in OperationRecord
  BY <1>1 DEF StataIInv, DoingOK
<1>3. /\ doing.receipt \in Receipt /\ op[n].status = "handoff_committed"
      /\ op[n].file = doing.receipt
      /\ Holds(session, doing.receipt.gen, doing.receipt.state, unaccounted)
  BY <1>1, <1>2 DEF RunOK
<1>4. x \in {"completed", "failed", "outcome_unknown"}
  BY <1>3 DEF Outcome
<1>5. session' \in HostRecord /\ session'.gen = session.gen
      /\ session'.state = session.state /\ (session'.open => session.open)
  BY <1>1 DEF StataIInv, HostRecord
<1> HIDE DEF n, x
<1>a. r = RowAs(op[n], doing.receipt, x) /\ x \in Statuses
  BY <1>4 DEF RowAs, Statuses
<1> HIDE DEF r
<1>6. /\ r \in OperationRecord /\ r.status = x
      /\ r.source = op[n].source /\ r.token = op[n].token /\ r.gen = op[n].gen
      /\ r.found = op[n].found /\ r.file = op[n].file /\ r.row = doing.receipt
      /\ r.promoted = op[n].promoted
  BY <1>2, <1>3, <1>a, RowRecord DEF SameRequest, SameEnd
<1>7. OperationOK(op[n], unaccounted)
  BY <1>2 DEF StataIInv
<1>8. OperationOK(r, unaccounted')
  BY <1>1, <1>3, <1>4, <1>6, <1>7, StataAssumption DEF OperationOK, FoundAsDeclared
<1>9. /\ op' \in [OperationIds -> OperationRecord] /\ op'[n] = r
      /\ \A o \in OperationIds : o # n => op'[o] = op[o]
      /\ \A o \in OperationIds : OperationOK(op'[o], unaccounted')
  BY <1>1, <1>2, <1>6, <1>8, OneChanges DEF StataIInv
<1>10. RunOK(r, doing', session', unaccounted')
  BY <1>1, <1>3, <1>4, <1>5, <1>6 DEF RunOK, Holds
<1>11. DoingOK(doing', op', session', unaccounted')
  BY <1>1, <1>2, <1>9, <1>10 DEF DoingOK
<1>12. BindingOK(binding', doing', session', unaccounted')
  BY <1>1, <1>5 DEF StataIInv, BindingOK
<1> QED
  BY <1>1, <1>5, <1>9, <1>11, <1>12 DEF StataIInv

(* An exception gets past the executor: its session is accounted for no more. *)
LEMMA ExceptionStep ==
  ASSUME StataIInv, Raises, unaccounted' = unaccounted \cup {session.gen}, UNCHANGED op
  PROVE  StataIInv'
<1>1. UNCHANGED <<session, binding, turn>> /\ doing' = Idle
  BY DEF Raises
<1>2. /\ op' \in [OperationIds -> OperationRecord]
      /\ \A o \in OperationIds : OperationOK(op'[o], unaccounted')
  BY NoneChanges DEF StataIInv
<1>3. DoingOK(doing', op', session', unaccounted')
  BY <1>1 DEF DoingOK, Idle
<1>4. BindingOK(binding', doing', session', unaccounted')
  BY <1>1 DEF StataIInv, BindingOK, Holds
<1> QED
  BY <1>1, <1>2, <1>3, <1>4 DEF StataIInv, Idle

(* What an operation that completed leaves is what the session holds.       *)
LEMMA CompletedLeaves ==
  ASSUME StataIInv, doing.step = "outcome", op[doing.op].status = "completed"
  PROVE  LET b == BindingOf(doing.op)
         IN  /\ b.token \in State /\ b.gen \in Nat /\ b.source \in OperationIds
             /\ Holds(session, b.gen, b.token, unaccounted)
<1> DEFINE n == doing.op
<1>1. n \in OperationIds /\ RunOK(op[n], doing, session, unaccounted)
  BY DEF StataIInv, DoingOK
<1>2. OperationOK(op[n], unaccounted) /\ op[n] \in OperationRecord
  BY <1>1 DEF StataIInv
<1>3. op[n].row \in Receipt
  BY <1>2 DEF OperationOK, OperationRecord
<1>4. Holds(session, op[n].row.gen, op[n].row.state, unaccounted)
  BY <1>1 DEF RunOK
<1>5. op[n].row.gen \in Nat /\ op[n].row.state \in State
  BY <1>3 DEF Receipt
<1> QED
  BY <1>1, <1>4, <1>5 DEF BindingOf

LEMMA ReturnOutcomeStep == ASSUME StataIInv, ReturnOutcome PROVE StataIInv'
<1>1. /\ doing.step = "outcome" /\ binding' = BindingAfter(doing.op) /\ doing' = Idle
      /\ UNCHANGED <<op, session, turn, unaccounted>>
  BY DEF ReturnOutcome
<1>2. DoingOK(doing', op', session', unaccounted')
  BY <1>1 DEF DoingOK, Idle
<1>3. BindingOK(binding', doing', session', unaccounted')
  <2>1. CASE op[doing.op].status = "completed"
    <3>1. binding' = BindingOf(doing.op)
      BY <1>1, <2>1 DEF BindingAfter
    <3> QED
      BY <1>1, <2>1, <3>1, CompletedLeaves DEF BindingOK, Holds
  <2>2. CASE op[doing.op].status # "completed"
    BY <1>1, <2>2 DEF BindingAfter, BindingOK
  <2> QED
    BY <2>1, <2>2
<1> QED
  BY <1>1, <1>2, <1>3 DEF StataIInv, Idle

LEMMA LoadedStep == ASSUME StataIInv, Loaded PROVE StataIInv'
<1>1. /\ doing.step = "outcome" /\ doing.op # doing.for
      /\ op[doing.op].status = "completed" /\ binding' = BindingOf(doing.op)
      /\ doing' = [step |-> "prepare", op |-> doing.for, anew |-> FALSE]
      /\ UNCHANGED <<op, session, turn, unaccounted>>
  BY DEF Loaded
<1>2. DoingOK(doing', op', session', unaccounted')
  BY <1>1 DEF StataIInv, DoingOK
<1>3. BindingOK(binding', doing', session', unaccounted')
  BY <1>1, CompletedLeaves DEF BindingOK, Holds
<1> QED
  BY <1>1, <1>2, <1>3 DEF StataIInv

LEMMA PromoteStep == ASSUME StataIInv, NEW o \in OperationIds, Promote(o) PROVE StataIInv'
<1> DEFINE r == [op[o] EXCEPT !.promoted = TRUE]
<1>1. /\ doing.step = "idle" /\ op[o].status = "completed" /\ StateIsExpected(o)
      /\ op' = [op EXCEPT ![o] = r]
      /\ UNCHANGED <<session, binding, doing, turn, unaccounted>>
  BY DEF Promote, Idle
<1>2. op[o] \in OperationRecord /\ OperationOK(op[o], unaccounted)
  BY DEF StataIInv
<1>3. /\ r \in OperationRecord /\ r.status = op[o].status
      /\ r.source = op[o].source /\ r.token = op[o].token /\ r.gen = op[o].gen
      /\ r.found = op[o].found /\ r.file = op[o].file /\ r.row = op[o].row
  BY <1>2, PromotedRecord DEF SameRequest
<1> HIDE DEF r
<1>4. op[o].row # None /\ op[o].source # None /\ op[o].gen = op[o].row.gen
  BY <1>1, <1>2 DEF OperationOK, StateIsExpected
<1>5. op[o].row = op[o].file
  BY <1>2, <1>4 DEF OperationOK
<1>6. op[o].found = op[o].token \/ op[o].gen \in unaccounted
  BY <1>2, <1>4, <1>5 DEF OperationOK, FoundAsDeclared
<1>7. OperationOK(r, unaccounted')
  BY <1>1, <1>2, <1>3, <1>4, <1>6 DEF OperationOK, FoundAsDeclared
<1>8. /\ op' \in [OperationIds -> OperationRecord]
      /\ \A u \in OperationIds : OperationOK(op'[u], unaccounted')
  BY <1>1, <1>3, <1>7, OneChanges DEF StataIInv
<1>9. DoingOK(doing', op', session', unaccounted')
  BY <1>1 DEF DoingOK
<1> QED
  BY <1>1, <1>8, <1>9 DEF StataIInv

LEMMA AssessStep == ASSUME StataIInv, NEW o \in OperationIds, Assess(o) PROVE StataIInv'
<1> DEFINE c == Classification(o)
           x == IF c \in Statuses THEN c ELSE op[o].status
           r == [op[o] EXCEPT !.report = c, !.status = x]
<1>1. /\ doing.step = "down" /\ op' = [op EXCEPT ![o] = r]
      /\ UNCHANGED <<session, binding, doing, turn, unaccounted>>
  BY DEF Assess
<1>2. op[o] \in OperationRecord /\ OperationOK(op[o], unaccounted)
  BY DEF StataIInv
<1>3. c \in Classes
  BY DEF Classification, Classes
<1>4. x \in Statuses /\ (x = op[o].status \/ x \notin {"none", "admitted", "completed", "failed"})
  BY <1>2, <1>3 DEF Classes, OperationRecord, Statuses
<1> HIDE DEF c, x
<1>a. r = ReportAs(op[o], c, x)
  BY DEF ReportAs
<1> HIDE DEF r
<1>5. /\ r \in OperationRecord /\ r.status = x
      /\ r.source = op[o].source /\ r.token = op[o].token /\ r.gen = op[o].gen
      /\ r.found = op[o].found /\ r.file = op[o].file /\ r.row = op[o].row
      /\ r.promoted = op[o].promoted
  BY <1>2, <1>3, <1>4, <1>a, ReportRecord DEF SameRequest, SameEnd
<1>6. OperationOK(r, unaccounted')
  BY <1>1, <1>2, <1>4, <1>5 DEF OperationOK, FoundAsDeclared
<1>7. /\ op' \in [OperationIds -> OperationRecord]
      /\ \A u \in OperationIds : OperationOK(op'[u], unaccounted')
  BY <1>1, <1>5, <1>6, OneChanges DEF StataIInv
<1>8. DoingOK(doing', op', session', unaccounted')
  BY <1>1 DEF DoingOK
<1> QED
  BY <1>1, <1>7, <1>8 DEF StataIInv

LEMMA ReconcileStep == ASSUME StataIInv, NEW o \in OperationIds, Reconcile(o) PROVE StataIInv'
<1> DEFINE f == op[o].file
           x == IF op[o].status \in {"handoff_committed", "completed_unreconciled"}
                THEN Outcome(o, f) ELSE op[o].status
           r == [op[o] EXCEPT !.row = f, !.status = x]
<1>1. /\ doing.step = "idle" /\ op' = [op EXCEPT ![o] = r]
      /\ VerifyAttempt(o) = "verified"
      /\ UNCHANGED <<session, binding, doing, turn, unaccounted>>
  BY DEF Reconcile, Finalized, Idle
<1>2. op[o] \in OperationRecord /\ OperationOK(op[o], unaccounted)
  BY DEF StataIInv
<1>3. f # None /\ f \in Receipt
  BY <1>1, <1>2 DEF VerifyAttempt, OperationRecord
<1>4. /\ x \in Statuses
      /\ x = op[o].status \/ x \in {"completed", "failed", "outcome_unknown"}
  BY <1>2 DEF Outcome, OperationRecord, Statuses
<1> HIDE DEF f, x
<1>a. r = RowAs(op[o], f, x)
  BY DEF RowAs
<1> HIDE DEF r
<1>5. /\ r \in OperationRecord /\ r.status = x
      /\ r.source = op[o].source /\ r.token = op[o].token /\ r.gen = op[o].gen
      /\ r.found = op[o].found /\ r.file = f /\ r.row = f
      /\ r.promoted = op[o].promoted
  BY <1>2, <1>3, <1>4, <1>a, RowRecord DEF SameRequest, f
<1>6. OperationOK(r, unaccounted')
  BY <1>1, <1>2, <1>3, <1>4, <1>5 DEF OperationOK, FoundAsDeclared, f
<1>7. /\ op' \in [OperationIds -> OperationRecord]
      /\ \A u \in OperationIds : OperationOK(op'[u], unaccounted')
  BY <1>1, <1>5, <1>6, OneChanges DEF StataIInv
<1>8. DoingOK(doing', op', session', unaccounted')
  BY <1>1 DEF DoingOK
<1> QED
  BY <1>1, <1>7, <1>8 DEF StataIInv

LEMMA DamageStep == ASSUME StataIInv, NEW o \in OperationIds, DamageOutput(o) PROVE StataIInv'
<1> DEFINE r == [op[o] EXCEPT !.whole = FALSE]
<1>1. op' = [op EXCEPT ![o] = r] /\ UNCHANGED <<session, binding, doing, turn, unaccounted>>
  BY DEF DamageOutput
<1>2. op[o] \in OperationRecord /\ OperationOK(op[o], unaccounted)
  BY DEF StataIInv
<1>3. /\ r \in OperationRecord /\ r.status = op[o].status
      /\ r.source = op[o].source /\ r.token = op[o].token /\ r.gen = op[o].gen
      /\ r.found = op[o].found /\ r.file = op[o].file /\ r.row = op[o].row
      /\ r.promoted = op[o].promoted
  BY <1>2, DamagedRecord DEF SameRequest, SameEnd
<1> HIDE DEF r
<1>4. OperationOK(r, unaccounted')
  BY <1>1, <1>2, <1>3 DEF OperationOK, FoundAsDeclared
<1>5. /\ op' \in [OperationIds -> OperationRecord] /\ op'[o] = r
      /\ \A u \in OperationIds : u # o => op'[u] = op[u]
      /\ \A u \in OperationIds : OperationOK(op'[u], unaccounted')
  BY <1>1, <1>3, <1>4, OneChanges DEF StataIInv
<1>6. ASSUME NEW u \in OperationIds
      PROVE  /\ op'[u].status = op[u].status
             /\ RunOK(op[u], doing, session, unaccounted)
                  => RunOK(op'[u], doing, session, unaccounted)
  BY <1>3, <1>5 DEF RunOK, FoundAsDeclared
<1>7. DoingOK(doing', op', session', unaccounted')
  BY <1>1, <1>6 DEF StataIInv, DoingOK
<1> QED
  BY <1>1, <1>5, <1>7 DEF StataIInv

(* The session is gone: nothing is said of what it held.                    *)
LEMMA SessionEnds ==
  ASSUME session \in HostRecord, session' = [session EXCEPT !.open = FALSE]
  PROVE  /\ session' \in HostRecord /\ session'.gen = session.gen
         /\ \A g, m : Holds(session, g, m, unaccounted) => Holds(session', g, m, unaccounted)
  BY DEF HostRecord, Holds

LEMMA CrashStep == ASSUME StataIInv, Crash PROVE StataIInv'
<1>1. /\ doing' = [step |-> "down"] /\ binding' = None
      /\ UNCHANGED <<op, turn, unaccounted>>
      /\ session' = [session EXCEPT !.open = FALSE]
  BY DEF Crash
<1>2. session' \in HostRecord
  BY <1>1, SessionEnds DEF StataIInv
<1>3. DoingOK(doing', op', session', unaccounted') /\ BindingOK(binding', doing', session', unaccounted')
  BY <1>1 DEF DoingOK, BindingOK
<1> QED
  BY <1>1, <1>2, <1>3 DEF StataIInv

LEMMA RestartStep == ASSUME StataIInv, Restart PROVE StataIInv'
<1>1. /\ doing.step = "down" /\ doing' = Idle /\ turn' = turn + 1
      /\ UNCHANGED <<op, session, binding, unaccounted>>
  BY DEF Restart
<1>2. DoingOK(doing', op', session', unaccounted') /\ BindingOK(binding', doing', session', unaccounted')
  BY <1>1 DEF StataIInv, DoingOK, BindingOK, Idle
<1> QED
  BY <1>1, <1>2 DEF StataIInv, Idle

LEMMA LoseSessionStep == ASSUME StataIInv, LoseSession PROVE StataIInv'
<1>1. /\ UNCHANGED <<op, binding, doing, turn, unaccounted>>
      /\ session' = [session EXCEPT !.open = FALSE]
  BY DEF LoseSession
<1>2. /\ session' \in HostRecord /\ session'.gen = session.gen
      /\ \A g, m : Holds(session, g, m, unaccounted) => Holds(session', g, m, unaccounted)
  BY <1>1, SessionEnds DEF StataIInv
<1>3. ASSUME NEW r, RunOK(r, doing, session, unaccounted)
      PROVE  RunOK(r, doing, session', unaccounted)
  BY <1>2, <1>3 DEF RunOK
<1>4. DoingOK(doing', op', session', unaccounted')
  BY <1>1, <1>3 DEF StataIInv, DoingOK
<1>5. BindingOK(binding', doing', session', unaccounted')
  BY <1>1, <1>2 DEF StataIInv, BindingOK
<1> QED
  BY <1>1, <1>2, <1>4, <1>5 DEF StataIInv

LEMMA StataStep == StataIInv /\ [StataNext]_stataVars => StataIInv'
<1> SUFFICES ASSUME StataIInv, [StataNext]_stataVars PROVE StataIInv'
  OBVIOUS
<1>1. CASE \E d \in Datasets, purpose \in Purposes \ {"data_load"}, anew, output \in BOOLEAN :
              Execute(d, purpose, anew, output)
  <2>1. PICK d \in Datasets, purpose \in Purposes, anew \in BOOLEAN, output \in BOOLEAN :
               Execute(d, purpose, anew, output)
    BY <1>1
  <2> QED
    BY <2>1, ExecuteStep
<1>2. CASE HandoffLoad \/ Handoff \/ HandoffRefused \/ RunCode \/ MarkTransportUnknown
  BY <1>2, HandoffLoadStep, HandoffStep, HandoffRefusedStep, RunCodeStep,
     MarkTransportUnknownStep
<1>3. CASE Publish \/ Finalize \/ ReturnOutcome \/ Loaded
  BY <1>3, PublishStep, FinalizeStep, ReturnOutcomeStep, LoadedStep
<1>4. CASE CompletionFails \/ SignatureIsMissing \/ LoadFails
  BY <1>4, ExceptionStep DEF CompletionFails, SignatureIsMissing, LoadFails
<1>5. CASE \E o \in OperationIds : Promote(o) \/ Assess(o) \/ Reconcile(o) \/ DamageOutput(o)
  BY <1>5, PromoteStep, AssessStep, ReconcileStep, DamageStep
<1>6. CASE Crash \/ Restart \/ LoseSession
  BY <1>6, CrashStep, RestartStep, LoseSessionStep
<1>7. CASE UNCHANGED stataVars
  BY <1>7 DEF stataVars, StataIInv
<1> QED
  BY <1>1, <1>2, <1>3, <1>4, <1>5, <1>6, <1>7 DEF StataNext

THEOREM StataInvariantHolds == StataSpec => []StataIInv
  BY StataBegins, StataStep, PTL DEF StataSpec

-----------------------------------------------------------------------------
(* A promoted formal result was computed on the data its predecessor left,  *)
(* unless an exception got past the executor in that session.               *)
THEOREM FormalRunsOnDeclaredDataHolds == StataSpec => []FormalRunsOnDeclaredData
<1>1. StataIInv => FormalRunsOnDeclaredData
  BY DEF StataIInv, OperationOK, FormalRunsOnDeclaredData
<1> QED
  BY <1>1, StataInvariantHolds, PTL

(* What recovery says of an operation is so, whenever it looks: what it      *)
(* calls not started did not reach Stata, and what it calls committed or    *)
(* completed did, with its outputs intact.                                  *)
THEOREM RecoveryTellsTheTruthHolds == StataSpec => []RecoveryTellsTheTruth
<1>1. ASSUME StataIInv, NEW o \in OperationIds, op[o].status # "none"
      PROVE  LET class == Classification(o)
             IN  /\ class = "definitely_not_started" => op[o].found = None
                 /\ class \in {"committed", "completed_unreconciled"} =>
                      op[o].found # None /\ (op[o].file.captured => op[o].whole)
                 /\ class = "integrity_violation" /\ ~scoped => ~op[o].whole
                 /\ op[o].row # None => op[o].row = op[o].file
  <2>1. OperationOK(op[o], unaccounted) /\ op[o] \in OperationRecord
    BY <1>1 DEF StataIInv
  <2>2. op[o].row # None => op[o].row = op[o].file /\ HandedOff(o)
    BY <2>1 DEF OperationOK, HandedOff
  <2>3. ~HandedOff(o) => op[o].found = None
    BY <2>1 DEF OperationOK, HandedOff
  <2>4. op[o].file # None => op[o].found # None /\ HandedOff(o)
    BY <2>1 DEF OperationOK, HandedOff
  <2>5. IntegrityReasons(o) /\ ~scoped => ~op[o].whole
    BY <2>1 DEF OperationOK, IntegrityReasons, VerifyAttempt
  <2>6. ~IntegrityReasons(o) /\ op[o].file # None => (op[o].file.captured => op[o].whole)
    BY DEF IntegrityReasons, VerifyAttempt
  <2> DEFINE class == Classification(o)
  <2>7. class = "definitely_not_started" => ~HandedOff(o)
    BY <2>2 DEF Classification
  <2>8. class \in {"committed", "completed_unreconciled"}
          => op[o].file # None /\ ~IntegrityReasons(o)
    <3>1. CASE HandedOff(o) /\ IntegrityReasons(o)
      <4>1. class = "integrity_violation"
        BY <3>1 DEF Classification
      <4> QED
        BY <4>1
    <3>2. CASE ~IntegrityReasons(o) /\ op[o].row # None
      BY <2>2, <3>2
    <3>3. CASE ~(HandedOff(o) /\ IntegrityReasons(o)) /\ op[o].row = None
      <4>1. class = IF ~HandedOff(o) THEN "definitely_not_started"
                    ELSE IF op[o].file # None THEN "completed_unreconciled"
                    ELSE "outcome_unknown"
        BY <3>3 DEF Classification
      <4> HIDE DEF class
      <4> QED
        BY <3>3, <4>1
    <3> QED
      BY <2>2, <3>1, <3>2, <3>3
  <2>9. class = "integrity_violation" => IntegrityReasons(o)
    BY DEF Classification
  <2> HIDE DEF class
  <2>10. class \in {"committed", "completed_unreconciled"} =>
            op[o].found # None /\ (op[o].file.captured => op[o].whole)
    BY <2>4, <2>6, <2>8
  <2>11. /\ class = "definitely_not_started" => op[o].found = None
         /\ class = "integrity_violation" /\ ~scoped => ~op[o].whole
         /\ op[o].row # None => op[o].row = op[o].file
    BY <2>2, <2>3, <2>5, <2>7, <2>9
  <2> QED
    BY <2>10, <2>11 DEF class
<1>2. StataIInv => RecoveryTellsTheTruth
  BY <1>1 DEF RecoveryTellsTheTruth
<1> QED
  BY <1>2, StataInvariantHolds, PTL

-----------------------------------------------------------------------------
(* The pool of Stata runtimes.                                             *)

EntryRecord ==
    [scope : Scopes, runtime : Runtimes, started : BOOLEAN, tainted : BOOLEAN,
     starter : Callers \cup {NoCaller}, worker : Callers \cup {NoCaller}]

CallRecord ==
    [op : {"execute", "prepare"}, at : Places, entry : Nat,
     runtime : Runtimes \cup {NoRuntime}, request : Requests]

(* A caller that stands at an entry has one, and one that asked a runtime   *)
(* asked one that was built.                                                *)
Standing == {"start", "opening", "run", "running", "discarding", "closelock", "scopelock"}
Asking == {"opening", "running", "discarding", "closing"}

CallPlaced(x, k, m) ==
    /\ x.entry \in DOMAIN m \cup {NoEntry}
    /\ x.entry # NoEntry => m[x.entry].scope = k
    /\ x.at \in Standing => x.entry \in DOMAIN m
    /\ x.at \in Asking => x.runtime \in Runtimes
    /\ x.request \in {"asked", "serving"} => x.at \in Asking

TableOK ==
    /\ made \in Seq(EntryRecord)
    /\ entries \in [Scopes -> Nat]
    /\ \A k \in Scopes : entries[k] # NoEntry =>
          entries[k] \in DOMAIN made /\ made[entries[k]].scope = k

BuiltOK ==
    /\ runtime \in Runtimes \cup {NoRuntime}
    /\ built \in 0..MaxRuntimes
    /\ runtime = NoRuntime => built < MaxRuntimes
    /\ closing.active => runtime # NoRuntime /\ built < MaxRuntimes

HostsOK ==
    /\ up \subseteq Runtimes
    /\ bindings \in [Runtimes -> SUBSET Scopes]
    /\ sessions \in [Runtimes -> [Scopes -> Directories]]
    /\ lost \in [Runtimes -> SUBSET Scopes]

CallsOK ==
    /\ call \in [Callers -> CallRecord]
    /\ \A c \in Callers : CallPlaced(call[c], ScopeOf[c], made)

CountsOK ==
    /\ calls \in [Callers -> 0..MaxCalls]
    /\ closing \in [active : BOOLEAN, left : SUBSET Nat]
    /\ closing.left \subseteq DOMAIN made

PoolIInv == TableOK /\ BuiltOK /\ HostsOK /\ CallsOK /\ CountsOK

-----------------------------------------------------------------------------
(* Entries.                                                                 *)

WithStarter(r, c) == [r EXCEPT !.starter = c]
WithWorker(r, c) == [r EXCEPT !.worker = c]
StartedAs(r) == [r EXCEPT !.started = TRUE]
TaintedAs(r) == [r EXCEPT !.tainted = TRUE]
GivenUpAs(r) == [r EXCEPT !.tainted = TRUE, !.starter = NoCaller]
OpenedAs(r) == [r EXCEPT !.started = TRUE, !.starter = NoCaller]
TakenAs(r, c) == [r EXCEPT !.tainted = TRUE, !.worker = c]

(* What an entry says of its session.                                       *)
SamePlace(q, r) == q.scope = r.scope /\ q.runtime = r.runtime
SameEntry(q, r) == SamePlace(q, r) /\ q.started = r.started /\ q.tainted = r.tainted

LEMMA LockedEntry ==
  ASSUME NEW r \in EntryRecord, NEW c \in Callers \cup {NoCaller}
  PROVE  /\ WithStarter(r, c) \in EntryRecord /\ SameEntry(WithStarter(r, c), r)
         /\ WithWorker(r, c) \in EntryRecord /\ SameEntry(WithWorker(r, c), r)
  BY DEF EntryRecord, WithStarter, WithWorker, SameEntry, SamePlace

LEMMA StartedEntry ==
  ASSUME NEW r \in EntryRecord, NEW q, q = StartedAs(r) \/ q = OpenedAs(r)
  PROVE  q \in EntryRecord /\ SamePlace(q, r) /\ q.started /\ q.tainted = r.tainted
<1>1. CASE q = StartedAs(r)
  BY <1>1 DEF EntryRecord, StartedAs, SamePlace
<1>2. CASE q = OpenedAs(r)
  BY <1>2 DEF EntryRecord, OpenedAs, SamePlace
<1> QED
  BY <1>1, <1>2

LEMMA TaintedEntry ==
  ASSUME NEW r \in EntryRecord, NEW c \in Callers, NEW q,
         q = TaintedAs(r) \/ q = GivenUpAs(r) \/ q = TakenAs(r, c)
  PROVE  q \in EntryRecord /\ SamePlace(q, r) /\ q.tainted
<1>1. CASE q = TaintedAs(r)
  BY <1>1 DEF EntryRecord, TaintedAs, SamePlace
<1>2. CASE q = GivenUpAs(r)
  BY <1>2 DEF EntryRecord, GivenUpAs, SamePlace
<1>3. CASE q = TakenAs(r, c)
  BY <1>3 DEF EntryRecord, TakenAs, SamePlace
<1> QED
  BY <1>1, <1>2, <1>3

(* Entries stay where they are.                                             *)
MadeGrows ==
    /\ made' \in Seq(EntryRecord)
    /\ \A e \in DOMAIN made : e \in DOMAIN made' /\ SamePlace(made'[e], made[e])

LEMMA OneEntryMoves ==
  ASSUME made \in Seq(EntryRecord), NEW e \in DOMAIN made, NEW r \in EntryRecord,
         SamePlace(r, made[e]), made' = [made EXCEPT ![e] = r]
  PROVE  /\ MadeGrows /\ DOMAIN made' = DOMAIN made /\ made'[e] = r
         /\ \A u \in DOMAIN made : u # e => made'[u] = made[u]
<1>1. made' \in Seq(EntryRecord) /\ DOMAIN made' = DOMAIN made
  OBVIOUS
<1>2. \A u \in DOMAIN made : made'[u] = IF u = e THEN r ELSE made[u]
  OBVIOUS
<1> QED
  BY <1>1, <1>2 DEF MadeGrows, SamePlace

LEMMA EntryIsAdded ==
  ASSUME made \in Seq(EntryRecord), NEW r \in EntryRecord, made' = Append(made, r)
  PROVE  /\ MadeGrows /\ Len(made) + 1 \in DOMAIN made' /\ made'[Len(made) + 1] = r
         /\ \A u \in DOMAIN made : made'[u] = made[u] /\ u # Len(made) + 1
<1>1. made' \in Seq(EntryRecord) /\ Len(made') = Len(made) + 1 /\ made'[Len(made) + 1] = r
  OBVIOUS
<1>2. \A u \in 1..Len(made) : made'[u] = made[u] /\ u # Len(made) + 1
  OBVIOUS
<1>3. DOMAIN made = 1..Len(made) /\ DOMAIN made' = 1..(Len(made) + 1) /\ Len(made) \in Nat
  BY <1>1
<1> QED
  BY <1>1, <1>2, <1>3 DEF MadeGrows, SamePlace

LEMMA EntriesStay == ASSUME made \in Seq(EntryRecord), UNCHANGED made PROVE MadeGrows
  BY DEF MadeGrows, SamePlace

(* The table keeps its entries or gives some up.                            *)
LEMMA TableShrinks ==
  ASSUME TableOK, MadeGrows, entries' \in [Scopes -> Nat],
         \A k \in Scopes : entries'[k] \in {entries[k], NoEntry}
  PROVE  TableOK'
  BY DEF TableOK, MadeGrows, SamePlace

LEMMA WithoutShrinks ==
  ASSUME TableOK, NEW k \in Scopes, NEW e, entries' = Without(k, e)
  PROVE  /\ entries' \in [Scopes -> Nat]
         /\ \A j \in Scopes : entries'[j] \in {entries[j], NoEntry}
         /\ \A j \in Scopes : j # k => entries'[j] = entries[j]
         /\ entries[k] = e => entries'[k] = NoEntry
  BY DEF TableOK, Without, NoEntry

-----------------------------------------------------------------------------
(* Callers.                                                                 *)

LEMMA PlacedStill ==
  ASSUME NEW x, NEW k, CallPlaced(x, k, made), MadeGrows PROVE CallPlaced(x, k, made')
  BY DEF CallPlaced, MadeGrows, SamePlace

LEMMA OneCallMoves ==
  ASSUME CallsOK, MadeGrows, NEW c \in Callers, NEW q \in CallRecord,
         CallPlaced(q, ScopeOf[c], made'),
         call' = [call EXCEPT ![c] = q]
  PROVE  CallsOK' /\ call'[c] = q /\ \A d \in Callers : d # c => call'[d] = call[d]
<1>1. /\ call' \in [Callers -> CallRecord] /\ call'[c] = q
      /\ \A d \in Callers : d # c => call'[d] = call[d]
  BY DEF CallsOK
<1>2. ASSUME NEW d \in Callers PROVE CallPlaced(call'[d], ScopeOf[d], made')
  BY <1>1, PlacedStill DEF CallsOK
<1> QED
  BY <1>1, <1>2 DEF CallsOK

LEMMA NoCallMoves == ASSUME CallsOK, MadeGrows, UNCHANGED call PROVE CallsOK'
  BY PlacedStill DEF CallsOK

(* Requests end, and nobody moves.                                          *)
EndedAs(x, request) == [x EXCEPT !.request = request]

LEMMA EndedCall ==
  ASSUME NEW x \in CallRecord, NEW request \in Requests
  PROVE  LET q == EndedAs(x, request)
         IN  /\ q \in CallRecord /\ q.at = x.at /\ q.entry = x.entry
             /\ q.runtime = x.runtime /\ q.request = request /\ q.op = x.op
  BY DEF CallRecord, EndedAs

Ending == {"ok", "uncertain", "failed"}
SomeEnd ==
    /\ call' = [d \in Callers |-> call'[d]]
    /\ \A d \in Callers : call'[d] = call[d]
                           \/ \E request \in Ending : call'[d] = EndedAs(call[d], request)

LEMMA RequestsEnd ==
  ASSUME CallsOK, MadeGrows, SomeEnd PROVE CallsOK'
<1>1. ASSUME NEW d \in Callers
      PROVE  call'[d] \in CallRecord /\ CallPlaced(call'[d], ScopeOf[d], made')
  <2>1. CallPlaced(call[d], ScopeOf[d], made') /\ call[d] \in CallRecord
    BY PlacedStill DEF CallsOK
  <2>2. ASSUME NEW request \in Ending, call'[d] = EndedAs(call[d], request)
        PROVE  call'[d] \in CallRecord /\ CallPlaced(call'[d], ScopeOf[d], made')
    <3>1. request \in Requests /\ request \notin {"asked", "serving"}
      BY DEF Ending, Requests
    <3> QED
      BY <2>1, <2>2, <3>1, EndedCall DEF CallPlaced
  <2> QED
    BY <2>1, <2>2 DEF SomeEnd
<1>2. call' \in [Callers -> CallRecord]
  BY <1>1 DEF SomeEnd
<1> QED
  BY <1>1, <1>2 DEF CallsOK

LEMMA RestIsPlaced ==
  /\ Resting \in CallRecord /\ \A k, m : CallPlaced(Resting, k, m)
  /\ [Resting EXCEPT !.at = "close"] \in CallRecord
  /\ \A k, m : CallPlaced([Resting EXCEPT !.at = "close"], k, m)
  BY DEF Resting, CallRecord, CallPlaced, Places, Requests, Standing, Asking, NoEntry, NoRuntime

(* A request to a runtime is placed.                                        *)
LEMMA AskStep ==
  ASSUME CallsOK, HostsOK, MadeGrows, NEW c \in Callers, NEW e \in DOMAIN made \cup {NoEntry},
         NEW r \in Runtimes, NEW place \in Asking, place # "closing" => e \in DOMAIN made,
         e # NoEntry => made[e].scope = ScopeOf[c], Ask(c, e, r, place)
  PROVE  CallsOK' /\ HostsOK' /\ UNCHANGED <<bindings, sessions, lost>>
         /\ call'[c] = [op |-> call[c].op, at |-> place, entry |-> e, runtime |-> r,
                        request |-> "asked"]
         /\ \A d \in Callers : d # c => call'[d] = call[d]
<1> DEFINE q == [op |-> call[c].op, at |-> place, entry |-> e, runtime |-> r,
                 request |-> "asked"]
<1>1. call' = [call EXCEPT ![c] = q] /\ up' = up \cup {r} /\ UNCHANGED <<bindings, sessions, lost>>
  BY DEF Ask
<1>2. e \in Nat /\ e \in DOMAIN made' \cup {NoEntry} /\ (place # "closing" => e \in DOMAIN made')
      /\ (e # NoEntry => made'[e].scope = ScopeOf[c])
  <2>1. e \in DOMAIN made' \cup {NoEntry} /\ (place # "closing" => e \in DOMAIN made')
        /\ (e # NoEntry => made'[e].scope = ScopeOf[c])
    BY DEF MadeGrows, SamePlace
  <2>2. DOMAIN made' \subseteq Nat
    BY DEF MadeGrows
  <2> QED
    BY <2>1, <2>2 DEF NoEntry
<1>3. q \in CallRecord
  BY <1>2 DEF CallsOK, CallRecord, Places, Requests, Asking
<1>4. CallPlaced(q, ScopeOf[c], made')
  BY <1>2 DEF CallPlaced, Standing, Asking
<1> HIDE DEF q
<1>5. CallsOK' /\ call'[c] = q /\ \A d \in Callers : d # c => call'[d] = call[d]
  BY <1>1, <1>3, <1>4, OneCallMoves
<1>6. HostsOK'
  BY <1>1 DEF HostsOK
<1> QED
  BY <1>1, <1>5, <1>6 DEF q

-----------------------------------------------------------------------------
(* A step of one caller leaves the other scopes alone.                      *)

TableElsewhere(k) == \A j \in Scopes : j # k => entries'[j] = entries[j]
MadeElsewhere(k) == \A e \in DOMAIN made : made[e].scope # k => made'[e] = made[e]
HostsElsewhere(k) ==
    \A r \in Runtimes, j \in Scopes : j # k =>
        /\ j \in bindings'[r] <=> j \in bindings[r]
        /\ sessions'[r][j] = sessions[r][j]
        /\ j \in lost'[r] <=> j \in lost[r]
CallsElsewhere(k) == \A d \in Callers : ScopeOf[d] # k => call'[d] = call[d]
OthersStay(k) ==
    TableElsewhere(k) /\ MadeElsewhere(k) /\ HostsElsewhere(k) /\ CallsElsewhere(k)
    /\ UNCHANGED closing

LEMMA HostsStay ==
  ASSUME HostsOK, UNCHANGED hostVars, NEW k PROVE HostsOK' /\ HostsElsewhere(k)
  BY DEF HostsOK, hostVars, HostsElsewhere

LEMMA HostsAsked ==
  ASSUME UNCHANGED <<bindings, sessions, lost>>, NEW k PROVE HostsElsewhere(k)
  BY DEF HostsElsewhere

LEMMA OneCallElsewhere ==
  ASSUME NEW c \in Callers, \A d \in Callers : d # c => call'[d] = call[d]
  PROVE  CallsElsewhere(ScopeOf[c])
  BY DEF CallsElsewhere

LEMMA OneEntryElsewhere ==
  ASSUME NEW e \in DOMAIN made, NEW k, made[e].scope = k,
         \A u \in DOMAIN made : u # e => made'[u] = made[u]
  PROVE  MadeElsewhere(k)
  BY DEF MadeElsewhere

LEMMA BuiltStays ==
  ASSUME BuiltOK, UNCHANGED <<runtime, built, closing>> PROVE BuiltOK'
  BY DEF BuiltOK

LEMMA CountsStay ==
  ASSUME CountsOK, MadeGrows, UNCHANGED closing,
         UNCHANGED calls \/ \E c \in Callers : calls[c] < MaxCalls
                               /\ calls' = [calls EXCEPT ![c] = @ + 1]
  PROVE  CountsOK'
<1>1. calls' \in [Callers -> 0..MaxCalls]
  BY PoolAssumption DEF CountsOK
<1>2. closing'.left \subseteq DOMAIN made'
  BY DEF CountsOK, MadeGrows
<1> QED
  BY <1>1, <1>2 DEF CountsOK

(* The caller's entry.                                                      *)
LEMMA EntryOfCall ==
  ASSUME PoolIInv, NEW c \in Callers, call[c].entry # NoEntry \/ call[c].at \in Standing
  PROVE  /\ call[c].entry \in DOMAIN made
         /\ made[call[c].entry] \in EntryRecord
         /\ made[call[c].entry].scope = ScopeOf[c]
         /\ made[call[c].entry].runtime \in Runtimes
         /\ ScopeOf[c] \in Scopes
<1>1. CallPlaced(call[c], ScopeOf[c], made) /\ made \in Seq(EntryRecord) /\ ScopeOf[c] \in Scopes
  BY PoolAssumption DEF PoolIInv, CallsOK, TableOK
<1>2. call[c].entry \in DOMAIN made
  BY <1>1 DEF CallPlaced
<1>3. made[call[c].entry] \in EntryRecord
  BY <1>1, <1>2
<1>4. call[c].entry # NoEntry
  BY <1>1, <1>2 DEF NoEntry
<1> QED
  BY <1>1, <1>2, <1>3, <1>4 DEF CallPlaced, EntryRecord

(* A step that changes at most the caller's entry and its call, and what    *)
(* waits for it.                                                            *)
LEMMA CallerSteps ==
  ASSUME PoolIInv, NEW c \in Callers, NEW e \in DOMAIN made, NEW r \in EntryRecord,
         made[e].scope = ScopeOf[c], SamePlace(r, made[e]), made' = [made EXCEPT ![e] = r],
         UNCHANGED <<runtime, built, closing>>, UNCHANGED entries \/ entries' = Without(ScopeOf[c], e),
         CallsOK', HostsOK', CountsOK'
  PROVE  PoolIInv' /\ TableElsewhere(ScopeOf[c]) /\ MadeElsewhere(ScopeOf[c])
<1>1. TableOK /\ MadeGrows /\ MadeElsewhere(ScopeOf[c])
  BY OneEntryMoves, OneEntryElsewhere DEF PoolIInv, TableOK
<1>2. ScopeOf[c] \in Scopes
  BY PoolAssumption
<1>3. TableOK' /\ TableElsewhere(ScopeOf[c])
  <2>1. CASE UNCHANGED entries
    <3>1. entries' \in [Scopes -> Nat] /\ \A k \in Scopes : entries'[k] \in {entries[k], NoEntry}
      BY <1>1, <2>1 DEF TableOK
    <3> QED
      BY <1>1, <2>1, <3>1, TableShrinks DEF TableElsewhere
  <2>2. CASE entries' = Without(ScopeOf[c], e)
    <3>1. /\ entries' \in [Scopes -> Nat]
          /\ \A j \in Scopes : entries'[j] \in {entries[j], NoEntry}
          /\ \A j \in Scopes : j # ScopeOf[c] => entries'[j] = entries[j]
      BY <1>1, <1>2, <2>2, WithoutShrinks
    <3> QED
      BY <1>1, <3>1, TableShrinks DEF TableElsewhere
  <2> QED
    BY <2>1, <2>2
<1>4. BuiltOK'
  BY BuiltStays DEF PoolIInv
<1> QED
  BY <1>1, <1>3, <1>4 DEF PoolIInv

-----------------------------------------------------------------------------
(* The steps.                                                               *)

(* Where EnterPool leaves the caller.                                       *)
StartingAs(kind, e) == [op |-> kind, at |-> "start", entry |-> e, runtime |-> NoRuntime,
                          request |-> "none"]

LEMMA StartingIsPlaced ==
  ASSUME NEW kind \in {"execute", "prepare"}, NEW m, NEW e \in DOMAIN m, e \in Nat,
         NEW k, m[e].scope = k
  PROVE  StartingAs(kind, e) \in CallRecord /\ CallPlaced(StartingAs(kind, e), k, m)
  BY DEF StartingAs, CallRecord, CallPlaced, Places, Requests, Asking, NoRuntime

LEMMA EnterSteps ==
  ASSUME PoolIInv, NEW c \in Callers, NEW kind \in {"execute", "prepare"},
         EnterPool(c, kind, made), UNCHANGED <<hostVars, closing>>,
         UNCHANGED calls \/ Calls(c)
  PROVE  PoolIInv' /\ OthersStay(ScopeOf[c])
<1> DEFINE k == ScopeOf[c]
           e == entries[k]
           r == IF runtime = NoRuntime THEN built + 1 ELSE runtime
           n == Len(made) + 1
<1>1. k \in Scopes /\ TableOK /\ BuiltOK /\ CallsOK /\ CountsOK
  BY PoolAssumption DEF PoolIInv
<1>2. HostsOK' /\ HostsElsewhere(k)
  BY HostsStay DEF PoolIInv
<1>3. ASSUME MadeGrows PROVE CountsOK'
  BY <1>1, <1>3, CountsStay DEF Calls
<1>4. CASE FindEntry(c, kind, made)
  <2>1. e # NoEntry /\ UNCHANGED <<entries, made, runtime, built>>
        /\ call' = [call EXCEPT ![c] = StartingAs(kind, e)]
    BY <1>4 DEF FindEntry, GoesToStart, StartingAs
  <2>2. e \in Nat /\ e \in DOMAIN made /\ made[e].scope = k
    BY <1>1, <2>1 DEF TableOK
  <2>3. MadeGrows /\ TableOK' /\ TableElsewhere(k) /\ MadeElsewhere(k)
    BY <1>1, <2>1, EntriesStay DEF TableOK, TableElsewhere, MadeElsewhere
  <2>4. StartingAs(kind, e) \in CallRecord /\ CallPlaced(StartingAs(kind, e), ScopeOf[c], made')
    BY <2>1, <2>2, StartingIsPlaced
  <2> HIDE DEF e
  <2>5. CallsOK' /\ CallsElsewhere(k)
    BY <1>1, <2>1, <2>3, <2>4, OneCallMoves, OneCallElsewhere
  <2>6. BuiltOK'
    BY <1>1, <2>1, BuiltStays
  <2> QED
    BY <1>2, <1>3, <2>3, <2>5, <2>6 DEF PoolIInv, OthersStay
<1>5. CASE MakeEntry(c, kind, made)
  <2>1. /\ made' = Append(made, Entry(k, r)) /\ entries' = [entries EXCEPT ![k] = n]
        /\ runtime' = r /\ built' = (IF runtime = NoRuntime THEN r ELSE built)
        /\ call' = [call EXCEPT ![c] = StartingAs(kind, n)]
    BY <1>5 DEF MakeEntry, GoesToStart, StartingAs
  <2>2. r \in Runtimes /\ BuiltOK'
    BY PoolAssumption, <1>1, <2>1 DEF BuiltOK, Runtimes, NoRuntime
  <2>3. Entry(k, r) \in EntryRecord /\ Entry(k, r).scope = k
    BY <1>1, <2>2 DEF Entry, EntryRecord
  <2> HIDE DEF r
  <2>4. /\ MadeGrows /\ n \in DOMAIN made' /\ made'[n] = Entry(k, r)
        /\ \A u \in DOMAIN made : made'[u] = made[u] /\ u # n
    BY <1>1, <2>1, <2>3, EntryIsAdded DEF TableOK
  <2>5. n \in Nat /\ made'[n].scope = k
    BY <2>3, <2>4, <1>1 DEF TableOK
  <2> HIDE DEF n
  <2>6. TableOK' /\ TableElsewhere(k) /\ MadeElsewhere(k)
    <3>1. entries' \in [Scopes -> Nat] /\ entries'[k] = n
          /\ \A j \in Scopes : j # k => entries'[j] = entries[j]
      BY <1>1, <2>1, <2>5 DEF TableOK
    <3>2. ASSUME NEW j \in Scopes, entries'[j] # NoEntry
          PROVE  entries'[j] \in DOMAIN made' /\ made'[entries'[j]].scope = j
      BY <1>1, <2>4, <2>5, <3>1, <3>2 DEF TableOK, MadeGrows, SamePlace
    <3> QED
      BY <2>4, <3>1, <3>2 DEF TableOK, MadeGrows, TableElsewhere, MadeElsewhere
  <2>7. StartingAs(kind, n) \in CallRecord /\ CallPlaced(StartingAs(kind, n), ScopeOf[c], made')
    BY <2>4, <2>5, StartingIsPlaced
  <2>8. CallsOK' /\ CallsElsewhere(k)
    BY <1>1, <2>1, <2>4, <2>7, OneCallMoves, OneCallElsewhere
  <2> QED
    BY <1>2, <1>3, <2>2, <2>4, <2>6, <2>8 DEF PoolIInv, OthersStay
<1> QED
  BY <1>4, <1>5 DEF EnterPool

(* What the caller is left with by the other steps.                         *)
RunAs(x) == [x EXCEPT !.at = "run", !.request = "none"]
GoesTo(x, place) == [x EXCEPT !.at = place]

LEMMA CallMovesOn ==
  ASSUME NEW x \in CallRecord, NEW k, NEW m, CallPlaced(x, k, m), x.at \in Standing
  PROVE  RunAs(x) \in CallRecord /\ CallPlaced(RunAs(x), k, m) /\ RunAs(x).at = "run"
         /\ RunAs(x).entry = x.entry /\ RunAs(x).runtime = x.runtime
         /\ RunAs(x).request = "none" /\ RunAs(x).op = x.op
  BY DEF CallRecord, RunAs, CallPlaced, Places, Requests, Asking, Standing

LEMMA AfterStartSteps ==
  ASSUME CallsOK, MadeGrows, NEW c \in Callers, call[c].at \in Standing, AfterStart(c)
  PROVE  CallsOK' /\ CallsElsewhere(ScopeOf[c]) /\ call'[c] \in {Resting, RunAs(call[c])}
<1>1. call[c] \in CallRecord /\ CallPlaced(call[c], ScopeOf[c], made')
  BY PlacedStill DEF CallsOK
<1>2. CASE call' = [call EXCEPT ![c] = Resting]
  BY <1>2, RestIsPlaced, OneCallMoves, OneCallElsewhere
<1>3. CASE call' = [call EXCEPT ![c] = RunAs(call[c])]
  BY <1>1, <1>3, CallMovesOn, OneCallMoves, OneCallElsewhere
<1> QED
  BY <1>2, <1>3 DEF AfterStart, RunAs


LEMMA AlreadyStartedSteps ==
  ASSUME PoolIInv, NEW c \in Callers, AlreadyStarted(c)
  PROVE  PoolIInv' /\ OthersStay(ScopeOf[c]) /\ call'[c] \in {Resting, RunAs(call[c])}
<1>1. /\ call[c].at \in Standing /\ AfterStart(c)
      /\ UNCHANGED <<entries, made, runtime, built, hostVars, calls, closing>>
  BY DEF AlreadyStarted, StartLocked, Standing, poolVars
<1>2. MadeGrows /\ TableOK' /\ TableElsewhere(ScopeOf[c]) /\ MadeElsewhere(ScopeOf[c])
  BY <1>1, EntriesStay DEF PoolIInv, TableOK, TableElsewhere, MadeElsewhere
<1>3. CallsOK' /\ CallsElsewhere(ScopeOf[c]) /\ call'[c] \in {Resting, RunAs(call[c])}
  BY <1>1, <1>2, AfterStartSteps DEF PoolIInv
<1>4. HostsOK' /\ HostsElsewhere(ScopeOf[c])
  BY <1>1, HostsStay DEF PoolIInv
<1>5. BuiltOK' /\ CountsOK'
  BY <1>1, <1>2, BuiltStays, CountsStay DEF PoolIInv
<1> QED
  BY <1>1, <1>2, <1>3, <1>4, <1>5 DEF PoolIInv, OthersStay

LEMMA ConfigureSteps ==
  ASSUME PoolIInv, NEW c \in Callers, Configure(c)
  PROVE  PoolIInv' /\ OthersStay(ScopeOf[c])
<1> DEFINE k == ScopeOf[c]
           e == call[c].entry
           r == made[e].runtime
<1>1. /\ call[c].at = "start" /\ UNCHANGED <<entries, runtime, built, calls, closing>>
  BY DEF Configure, StartLocked
<1>2. e \in DOMAIN made /\ made[e] \in EntryRecord /\ made[e].scope = k /\ r \in Runtimes
  BY <1>1, EntryOfCall DEF Standing
<1>3. TableOK /\ HostsOK /\ CallsOK /\ CountsOK
  BY DEF PoolIInv
<1>4. CASE /\ up' = up \cup {r} /\ made' = [made EXCEPT ![e].started = TRUE]
           /\ AfterStart(c) /\ UNCHANGED <<bindings, sessions, lost>>
  <2> DEFINE q == StartedAs(made[e])
  <2>1. made' = [made EXCEPT ![e] = q] /\ q \in EntryRecord /\ SamePlace(q, made[e])
    <3>1. made' = [made EXCEPT ![e] = q]
      BY <1>4 DEF StartedAs
    <3> QED
      BY <1>2, <3>1, StartedEntry
  <2> HIDE DEF q
  <2>2. MadeGrows
    BY <1>2, <1>3, <2>1, OneEntryMoves DEF TableOK
  <2>3. CallsOK' /\ CallsElsewhere(k)
    BY <1>1, <1>3, <1>4, <2>2, AfterStartSteps DEF Standing
  <2>4. HostsOK' /\ HostsElsewhere(k) /\ CountsOK'
    BY <1>1, <1>2, <1>3, <1>4, <2>2, CountsStay, HostsAsked DEF HostsOK
  <2>5. PoolIInv' /\ TableElsewhere(k) /\ MadeElsewhere(k)
    BY <1>1, <1>2, <2>1, <2>3, <2>4, CallerSteps
  <2> QED
    BY <1>1, <2>3, <2>4, <2>5 DEF OthersStay
<1>5. CASE made' = [made EXCEPT ![e].starter = c] /\ Ask(c, e, r, "opening")
  <2> DEFINE q == WithStarter(made[e], c)
  <2>1. made' = [made EXCEPT ![e] = q] /\ q \in EntryRecord /\ SamePlace(q, made[e])
    <3>1. made' = [made EXCEPT ![e] = q]
      BY <1>5 DEF WithStarter
    <3> QED
      BY <1>2, <3>1, LockedEntry DEF SameEntry
  <2> HIDE DEF q
  <2>2. MadeGrows
    BY <1>2, <1>3, <2>1, OneEntryMoves DEF TableOK
  <2>3. /\ CallsOK' /\ HostsOK' /\ UNCHANGED <<bindings, sessions, lost>>
        /\ \A d \in Callers : d # c => call'[d] = call[d]
    BY <1>2, <1>3, <1>5, <2>2, AskStep DEF Asking
  <2>4. HostsElsewhere(k) /\ CallsElsewhere(k) /\ CountsOK'
    BY <1>1, <1>3, <2>2, <2>3, HostsAsked, OneCallElsewhere, CountsStay
  <2>5. PoolIInv' /\ TableElsewhere(k) /\ MadeElsewhere(k)
    BY <1>1, <1>2, <2>1, <2>3, <2>4, CallerSteps
  <2> QED
    BY <1>1, <2>4, <2>5 DEF OthersStay
<1> QED
  BY <1>4, <1>5 DEF Configure

LEMMA StartRaisesSteps ==
  ASSUME PoolIInv, NEW c \in Callers, call[c].at \in Standing, StartRaises(c),
         UNCHANGED <<hostVars, calls, closing>>
  PROVE  PoolIInv' /\ OthersStay(ScopeOf[c])
<1> DEFINE k == ScopeOf[c]
           e == call[c].entry
           q == GivenUpAs(made[e])
<1>1. /\ made' = [made EXCEPT ![e] = q] /\ entries' = Without(k, e)
      /\ \/ call' = [call EXCEPT ![c] = Resting]
         \/ call' = [call EXCEPT ![c] = [Resting EXCEPT !.at = "close"]]
      /\ UNCHANGED <<runtime, built>>
  BY DEF StartRaises, GivenUpAs
<1>2. e \in DOMAIN made /\ made[e] \in EntryRecord /\ made[e].scope = k
  BY EntryOfCall
<1>3. TableOK /\ HostsOK /\ CallsOK /\ CountsOK
  BY DEF PoolIInv
<1>4. q \in EntryRecord /\ SamePlace(q, made[e])
  BY <1>2, TaintedEntry
<1> HIDE DEF q
<1>5. MadeGrows
  BY <1>1, <1>2, <1>3, <1>4, OneEntryMoves DEF TableOK
<1>6. CallsOK' /\ CallsElsewhere(k)
  <2>1. CASE call' = [call EXCEPT ![c] = Resting]
    BY <1>3, <1>5, <2>1, RestIsPlaced, OneCallMoves, OneCallElsewhere
  <2>2. CASE call' = [call EXCEPT ![c] = [Resting EXCEPT !.at = "close"]]
    BY <1>3, <1>5, <2>2, RestIsPlaced, OneCallMoves, OneCallElsewhere
  <2> QED
    BY <1>1, <2>1, <2>2
<1>7. HostsOK' /\ HostsElsewhere(k) /\ CountsOK'
  BY <1>3, <1>5, HostsStay, CountsStay
<1>8. PoolIInv' /\ TableElsewhere(k) /\ MadeElsewhere(k)
  BY <1>1, <1>2, <1>4, <1>6, <1>7, CallerSteps
<1> QED
  BY <1>6, <1>7, <1>8 DEF OthersStay

LEMMA OpenedSteps ==
  ASSUME PoolIInv, NEW c \in Callers, Opened(c)
  PROVE  PoolIInv' /\ OthersStay(ScopeOf[c]) /\ call'[c] \in {Resting, RunAs(call[c])}
<1> DEFINE k == ScopeOf[c]
           e == call[c].entry
           q == OpenedAs(made[e])
<1>1. /\ call[c].at = "opening" /\ made' = [made EXCEPT ![e] = q] /\ AfterStart(c)
      /\ bindings' = [bindings EXCEPT ![call[c].runtime] = @ \cup {k}]
      /\ UNCHANGED <<entries, runtime, built, up, sessions, lost, calls, closing>>
  BY DEF Opened, OpenedAs
<1>2. e \in DOMAIN made /\ made[e] \in EntryRecord /\ made[e].scope = k /\ k \in Scopes
  BY <1>1, EntryOfCall DEF Standing
<1>3. TableOK /\ HostsOK /\ CallsOK /\ CountsOK
  BY DEF PoolIInv
<1>4. q \in EntryRecord /\ SamePlace(q, made[e])
  BY <1>2, StartedEntry
<1> HIDE DEF q
<1>5. MadeGrows
  BY <1>1, <1>2, <1>3, <1>4, OneEntryMoves DEF TableOK
<1>6. CallsOK' /\ CallsElsewhere(k) /\ call'[c] \in {Resting, RunAs(call[c])}
  BY <1>1, <1>3, <1>5, AfterStartSteps DEF Standing
<1>7. HostsOK' /\ HostsElsewhere(k) /\ CountsOK'
  BY <1>1, <1>2, <1>3, <1>5, CountsStay DEF HostsOK, HostsElsewhere
<1>8. PoolIInv' /\ TableElsewhere(k) /\ MadeElsewhere(k)
  BY <1>1, <1>2, <1>4, <1>6, <1>7, CallerSteps
<1> QED
  BY <1>1, <1>6, <1>7, <1>8 DEF OthersStay


(* The caller locks or gives up its entry and asks the host.                *)
LEMMA AskingSteps ==
  ASSUME PoolIInv, NEW c \in Callers, NEW e \in DOMAIN made, made[e].scope = ScopeOf[c],
         NEW q \in EntryRecord, SamePlace(q, made[e]), made' = [made EXCEPT ![e] = q],
         NEW place \in Asking, Ask(c, e, made[e].runtime, place),
         UNCHANGED entries \/ entries' = Without(ScopeOf[c], e),
         UNCHANGED <<runtime, built, calls, closing>>
  PROVE  PoolIInv' /\ OthersStay(ScopeOf[c])
<1>1. TableOK /\ HostsOK /\ CallsOK /\ CountsOK
  BY DEF PoolIInv
<1>2. MadeGrows
  BY <1>1, OneEntryMoves DEF TableOK
<1>3. made[e] \in EntryRecord /\ made[e].runtime \in Runtimes
  <2>1. made[e] \in EntryRecord
    BY <1>1 DEF TableOK
  <2> QED
    BY <2>1 DEF EntryRecord
<1>4. /\ CallsOK' /\ HostsOK' /\ UNCHANGED <<bindings, sessions, lost>>
      /\ \A d \in Callers : d # c => call'[d] = call[d]
  BY <1>1, <1>2, <1>3, AskStep
<1>5. HostsElsewhere(ScopeOf[c]) /\ CallsElsewhere(ScopeOf[c]) /\ CountsOK'
  BY <1>1, <1>2, <1>4, HostsAsked, OneCallElsewhere, CountsStay
<1>6. PoolIInv' /\ TableElsewhere(ScopeOf[c]) /\ MadeElsewhere(ScopeOf[c])
  BY <1>4, <1>5, CallerSteps
<1> QED
  BY <1>5, <1>6 DEF OthersStay

LEMMA RunSteps ==
  ASSUME PoolIInv, NEW c \in Callers, Run(c) PROVE PoolIInv' /\ OthersStay(ScopeOf[c])
<1> DEFINE e == call[c].entry
           q == WithWorker(made[e], c)
<1>1. e \in DOMAIN made /\ made[e] \in EntryRecord /\ made[e].scope = ScopeOf[c]
  BY EntryOfCall DEF Run, RunLocked, Standing
<1>2. /\ made' = [made EXCEPT ![e] = q] /\ Ask(c, e, made[e].runtime, "running")
      /\ UNCHANGED <<entries, runtime, built, calls, closing>>
  BY DEF Run, WithWorker
<1>3. q \in EntryRecord /\ SamePlace(q, made[e]) /\ "running" \in Asking
  BY <1>1, LockedEntry DEF SameEntry, Asking
<1> HIDE DEF q, e
<1> QED
  BY <1>1, <1>2, <1>3, AskingSteps

LEMMA DiscardSteps ==
  ASSUME PoolIInv, NEW c \in Callers, Discard(c) PROVE PoolIInv' /\ OthersStay(ScopeOf[c])
<1> DEFINE e == call[c].entry
           q == TaintedAs(made[e])
<1>1. e \in DOMAIN made /\ made[e] \in EntryRecord /\ made[e].scope = ScopeOf[c]
  BY EntryOfCall DEF Discard, Standing
<1>2. /\ made' = [made EXCEPT ![e] = q] /\ Ask(c, e, made[e].runtime, "discarding")
      /\ entries' = Without(ScopeOf[c], e)
      /\ UNCHANGED <<runtime, built, calls, closing>>
  BY DEF Discard, TaintedAs
<1>3. q \in EntryRecord /\ SamePlace(q, made[e]) /\ "discarding" \in Asking
  BY <1>1, TaintedEntry DEF Asking
<1> HIDE DEF q, e
<1> QED
  BY <1>1, <1>2, <1>3, AskingSteps

LEMMA CloseLockedSteps ==
  ASSUME PoolIInv, NEW c \in Callers, CloseLocked(c) PROVE PoolIInv' /\ OthersStay(ScopeOf[c])
<1> DEFINE e == call[c].entry
           q == WithWorker(made[e], c)
<1>1. e \in DOMAIN made /\ made[e] \in EntryRecord /\ made[e].scope = ScopeOf[c]
  BY EntryOfCall DEF CloseLocked, Standing
<1>2. /\ made' = [made EXCEPT ![e] = q] /\ Ask(c, e, made[e].runtime, "closing")
      /\ UNCHANGED <<entries, runtime, built, calls, closing>>
  BY DEF CloseLocked, WithWorker
<1>3. q \in EntryRecord /\ SamePlace(q, made[e]) /\ "closing" \in Asking
  BY <1>1, LockedEntry DEF SameEntry, Asking
<1> HIDE DEF q, e
<1> QED
  BY <1>1, <1>2, <1>3, AskingSteps

(* The caller leaves its entry and goes to rest, or to close the session.   *)
AfterCall(c) ==
    \/ call' = [call EXCEPT ![c] = Resting]
    \/ call' = [call EXCEPT ![c] = [Resting EXCEPT !.at = "close"]]

LEMMA AfterCallSteps ==
  ASSUME CallsOK, MadeGrows, NEW c \in Callers, AfterCall(c)
  PROVE  CallsOK' /\ CallsElsewhere(ScopeOf[c])
         /\ call'[c] \in {Resting, [Resting EXCEPT !.at = "close"]}
<1>1. CASE call' = [call EXCEPT ![c] = Resting]
  BY <1>1, RestIsPlaced, OneCallMoves, OneCallElsewhere
<1>2. CASE call' = [call EXCEPT ![c] = [Resting EXCEPT !.at = "close"]]
  BY <1>2, RestIsPlaced, OneCallMoves, OneCallElsewhere
<1> QED
  BY <1>1, <1>2 DEF AfterCall

LEMMA LeavingSteps ==
  ASSUME PoolIInv, NEW c \in Callers, NEW e \in DOMAIN made, made[e].scope = ScopeOf[c],
         made' = [made EXCEPT ![e].worker = NoCaller], AfterCall(c),
         UNCHANGED <<entries, runtime, built, calls, closing>>,
         HostsOK', HostsElsewhere(ScopeOf[c])
  PROVE  PoolIInv' /\ OthersStay(ScopeOf[c])
<1> DEFINE q == WithWorker(made[e], NoCaller)
<1>1. TableOK /\ CallsOK /\ CountsOK /\ made[e] \in EntryRecord
  BY DEF PoolIInv, TableOK
<1>2. made' = [made EXCEPT ![e] = q]
  BY DEF WithWorker
<1>3. q \in EntryRecord /\ SamePlace(q, made[e])
  BY <1>1, LockedEntry DEF SameEntry
<1> HIDE DEF q
<1>4. MadeGrows
  BY <1>1, <1>2, <1>3, OneEntryMoves DEF TableOK
<1>5. CallsOK' /\ CallsElsewhere(ScopeOf[c]) /\ CountsOK'
  BY <1>1, <1>4, AfterCallSteps, CountsStay
<1>6. PoolIInv' /\ TableElsewhere(ScopeOf[c]) /\ MadeElsewhere(ScopeOf[c])
  BY <1>2, <1>3, <1>5, CallerSteps
<1> QED
  BY <1>5, <1>6 DEF OthersStay

LEMMA ForgetSteps ==
  ASSUME HostsOK, NEW c \in Callers, Forget(c), UNCHANGED <<up, sessions, lost>>
  PROVE  HostsOK' /\ HostsElsewhere(ScopeOf[c])
  BY DEF HostsOK, HostsElsewhere, Forget

LEMMA ReturnSteps ==
  ASSUME PoolIInv, NEW c \in Callers, Return(c) PROVE PoolIInv' /\ OthersStay(ScopeOf[c])
<1>1. /\ call[c].entry \in DOMAIN made /\ made[call[c].entry].scope = ScopeOf[c]
  BY EntryOfCall DEF Return, Standing
<1>2. /\ made' = [made EXCEPT ![call[c].entry].worker = NoCaller] /\ AfterCall(c)
      /\ UNCHANGED <<entries, runtime, built, hostVars, calls, closing>>
  BY DEF Return, AfterCall
<1>3. HostsOK' /\ HostsElsewhere(ScopeOf[c])
  BY <1>2, HostsStay DEF PoolIInv
<1> QED
  BY <1>1, <1>2, <1>3, LeavingSteps

LEMMA DiscardedSteps ==
  ASSUME PoolIInv, NEW c \in Callers, Discarded(c) PROVE PoolIInv' /\ OthersStay(ScopeOf[c])
<1>1. /\ call[c].entry \in DOMAIN made /\ made[call[c].entry].scope = ScopeOf[c]
  BY EntryOfCall DEF Discarded, Standing
<1>2. /\ made' = [made EXCEPT ![call[c].entry].worker = NoCaller] /\ AfterCall(c) /\ Forget(c)
      /\ UNCHANGED <<entries, runtime, built, up, sessions, lost, calls, closing>>
  BY DEF Discarded, AfterCall
<1>3. HostsOK' /\ HostsElsewhere(ScopeOf[c])
  BY <1>2, ForgetSteps DEF PoolIInv
<1> QED
  BY <1>1, <1>2, <1>3, LeavingSteps

LEMMA ClosedSteps ==
  ASSUME PoolIInv, NEW c \in Callers, Closed(c) PROVE PoolIInv' /\ OthersStay(ScopeOf[c])
<1>1. /\ AfterCall(c) /\ Forget(c)
      /\ UNCHANGED <<entries, runtime, built, up, sessions, lost, calls, closing>>
  BY DEF Closed, AfterCall
<1>2. HostsOK' /\ HostsElsewhere(ScopeOf[c])
  BY <1>1, ForgetSteps DEF PoolIInv
<1>3. CASE call[c].entry # NoEntry
  <2>1. /\ call[c].entry \in DOMAIN made /\ made[call[c].entry].scope = ScopeOf[c]
        /\ made' = [made EXCEPT ![call[c].entry].worker = NoCaller]
    BY <1>3, EntryOfCall DEF Closed
  <2> QED
    BY <1>1, <1>2, <2>1, LeavingSteps
<1>4. CASE call[c].entry = NoEntry
  <2>1. UNCHANGED made
    BY <1>4 DEF Closed
  <2>2. MadeGrows /\ TableOK' /\ TableElsewhere(ScopeOf[c]) /\ MadeElsewhere(ScopeOf[c])
    BY <1>1, <2>1, EntriesStay DEF PoolIInv, TableOK, TableElsewhere, MadeElsewhere
  <2>3. CallsOK' /\ CallsElsewhere(ScopeOf[c]) /\ BuiltOK' /\ CountsOK'
    BY <1>1, <2>2, AfterCallSteps, BuiltStays, CountsStay DEF PoolIInv
  <2> QED
    BY <1>1, <1>2, <2>2, <2>3 DEF PoolIInv, OthersStay
<1> QED
  BY <1>3, <1>4

LEMMA CloseSessionSteps ==
  ASSUME PoolIInv, NEW c \in Callers, CloseSession(c) PROVE PoolIInv' /\ OthersStay(ScopeOf[c])
<1> DEFINE k == ScopeOf[c]
           e == entries[k]
           q == [call[c] EXCEPT !.at = "closelock", !.entry = e]
<1>1. /\ call[c].at = "close" /\ UNCHANGED <<entries, made, runtime, built, calls, closing>>
  BY DEF CloseSession, poolVars
<1>2. /\ MadeGrows /\ TableOK' /\ TableElsewhere(k) /\ MadeElsewhere(k) /\ k \in Scopes
      /\ TableOK /\ CallsOK /\ HostsOK
  BY <1>1, EntriesStay, PoolAssumption DEF PoolIInv, TableOK, TableElsewhere, MadeElsewhere
<1>3. BuiltOK' /\ CountsOK'
  BY <1>1, <1>2, BuiltStays, CountsStay DEF PoolIInv
<1>4. CASE e # NoEntry /\ call' = [call EXCEPT ![c] = q] /\ UNCHANGED hostVars
  <2>1. e \in DOMAIN made /\ made[e].scope = k /\ e \in Nat
    BY <1>2, <1>4 DEF TableOK
  <2>2. q \in CallRecord
    BY <1>2, <2>1 DEF CallsOK, CallRecord, Places
  <2>3. CallPlaced(q, k, made')
    <3>1. CallPlaced(call[c], k, made) /\ call[c] \in CallRecord
      BY <1>2 DEF CallsOK
    <3>2. q.at = "closelock" /\ q.entry = e /\ q.request = call[c].request
      BY <3>1 DEF CallRecord
    <3>3. call[c].request \notin {"asked", "serving"}
      BY <1>1, <3>1 DEF CallPlaced, Asking
    <3> QED
      BY <1>1, <2>1, <3>2, <3>3 DEF CallPlaced, Asking
  <2> HIDE DEF q, e
  <2>4. CallsOK' /\ CallsElsewhere(k)
    BY <1>2, <1>4, <2>2, <2>3, OneCallMoves, OneCallElsewhere
  <2>5. HostsOK' /\ HostsElsewhere(k)
    BY <1>2, <1>4, HostsStay
  <2> QED
    BY <1>1, <1>2, <1>3, <2>4, <2>5 DEF PoolIInv, OthersStay
<1>5. CASE runtime # NoRuntime /\ Ask(c, NoEntry, runtime, "closing")
  <2>1. runtime \in Runtimes /\ "closing" \in Asking
    BY <1>5 DEF PoolIInv, BuiltOK, Asking
  <2>2. /\ CallsOK' /\ HostsOK' /\ UNCHANGED <<bindings, sessions, lost>>
        /\ \A d \in Callers : d # c => call'[d] = call[d]
    BY <1>2, <1>5, <2>1, AskStep
  <2> QED
    BY <1>1, <1>2, <1>3, <2>2, HostsAsked, OneCallElsewhere DEF PoolIInv, OthersStay
<1>6. CASE call' = [call EXCEPT ![c] = Resting] /\ UNCHANGED hostVars
  <2>1. CallsOK' /\ CallsElsewhere(k) /\ HostsOK' /\ HostsElsewhere(k)
    BY <1>2, <1>6, AfterCallSteps, HostsStay DEF AfterCall
  <2> QED
    BY <1>1, <1>2, <1>3, <2>1 DEF PoolIInv, OthersStay
<1> QED
  BY <1>4, <1>5, <1>6 DEF CloseSession


LEMMA CloseScopeLockedSteps ==
  ASSUME PoolIInv, NEW c \in Callers, CloseScopeLocked(c)
  PROVE  PoolIInv' /\ OthersStay(ScopeOf[c])
<1> DEFINE e == call[c].entry
           q == TakenAs(made[e], c)
           t == TaintedAs(made[e])
<1>1. e \in DOMAIN made /\ made[e] \in EntryRecord /\ made[e].scope = ScopeOf[c]
  BY EntryOfCall DEF CloseScopeLocked, Standing
<1>2. UNCHANGED <<entries, runtime, built, calls, closing>>
  BY DEF CloseScopeLocked
<1>3. CASE made' = [made EXCEPT ![e] = q] /\ Ask(c, e, made[e].runtime, "closing")
  <2>1. q \in EntryRecord /\ SamePlace(q, made[e]) /\ "closing" \in Asking
    BY <1>1, TaintedEntry DEF Asking
  <2> HIDE DEF q, e
  <2> QED
    BY <1>1, <1>2, <1>3, <2>1, AskingSteps
<1>4. CASE /\ made' = [made EXCEPT ![e] = t] /\ call' = [call EXCEPT ![c] = Resting]
           /\ UNCHANGED hostVars
  <2>1. t \in EntryRecord /\ SamePlace(t, made[e])
    BY <1>1, TaintedEntry
  <2> HIDE DEF t, e
  <2>2. MadeGrows /\ CallsOK
    BY <1>1, <1>4, <2>1, OneEntryMoves DEF PoolIInv, TableOK
  <2>3. CallsOK' /\ CallsElsewhere(ScopeOf[c])
    BY <1>4, <2>2, AfterCallSteps DEF AfterCall
  <2>4. HostsOK' /\ HostsElsewhere(ScopeOf[c]) /\ CountsOK'
    BY <1>2, <1>4, <2>2, HostsStay, CountsStay DEF PoolIInv
  <2>5. PoolIInv' /\ TableElsewhere(ScopeOf[c]) /\ MadeElsewhere(ScopeOf[c])
    BY <1>1, <1>2, <1>4, <2>1, <2>3, <2>4, CallerSteps
  <2> QED
    BY <1>2, <2>3, <2>4, <2>5 DEF OthersStay
<1>5. \/ made' = [made EXCEPT ![e] = q] /\ Ask(c, e, made[e].runtime, "closing")
      \/ /\ made' = [made EXCEPT ![e] = t] /\ call' = [call EXCEPT ![c] = Resting]
         /\ UNCHANGED hostVars
  BY DEF CloseScopeLocked, TakenAs, TaintedAs
<1> QED
  BY <1>3, <1>4, <1>5

(* The entry of a scope.                                                    *)
LEMMA EntryOfScope ==
  ASSUME PoolIInv, NEW k \in Scopes, entries[k] # NoEntry
  PROVE  /\ entries[k] \in DOMAIN made /\ entries[k] \in Nat
         /\ made[entries[k]] \in EntryRecord /\ made[entries[k]].scope = k
         /\ made[entries[k]].runtime \in Runtimes
<1>1. /\ entries[k] \in DOMAIN made /\ made[entries[k]].scope = k /\ entries[k] \in Nat
      /\ made \in Seq(EntryRecord)
  BY DEF PoolIInv, TableOK
<1>2. made[entries[k]] \in EntryRecord
  BY <1>1
<1> QED
  BY <1>1, <1>2 DEF EntryRecord

LEMMA AbortSteps ==
  ASSUME PoolIInv, NEW c \in Callers, Abort(c) PROVE PoolIInv' /\ OthersStay(ScopeOf[c])
<1> DEFINE k == ScopeOf[c]
           e == entries[k]
           q == TaintedAs(made[e])
<1>1. /\ e # NoEntry /\ Calls(c) /\ entries' = Without(k, e)
      /\ made' = [made EXCEPT ![e] = q] /\ UNCHANGED <<runtime, built, closing>>
      /\ Ask(c, NoEntry, made[e].runtime, "closing") \/ UNCHANGED <<call, hostVars>>
  BY DEF Abort, TaintedAs
<1>2. /\ k \in Scopes /\ e \in DOMAIN made /\ made[e] \in EntryRecord /\ made[e].scope = k
      /\ made[e].runtime \in Runtimes /\ TableOK /\ CallsOK /\ HostsOK /\ CountsOK
  BY <1>1, EntryOfScope, PoolAssumption DEF PoolIInv
<1>3. q \in EntryRecord /\ SamePlace(q, made[e])
  BY <1>2, TaintedEntry
<1> HIDE DEF q
<1>4. MadeGrows /\ CountsOK'
  <2>1. MadeGrows
    BY <1>1, <1>2, <1>3, OneEntryMoves DEF TableOK
  <2> QED
    BY <1>1, <1>2, <2>1, CountsStay DEF Calls
<1>5. CallsOK' /\ HostsOK' /\ CallsElsewhere(k) /\ HostsElsewhere(k)
  <2>1. CASE Ask(c, NoEntry, made[e].runtime, "closing")
    <3>1. /\ CallsOK' /\ HostsOK' /\ UNCHANGED <<bindings, sessions, lost>>
          /\ \A d \in Callers : d # c => call'[d] = call[d]
      BY <1>2, <1>4, <2>1, AskStep DEF Asking
    <3> QED
      BY <3>1, HostsAsked, OneCallElsewhere
  <2>2. CASE UNCHANGED <<call, hostVars>>
    BY <1>2, <1>4, <2>2, NoCallMoves, HostsStay DEF CallsElsewhere
  <2> QED
    BY <1>1, <2>1, <2>2
<1> HIDE DEF e
<1>6. PoolIInv' /\ TableElsewhere(k) /\ MadeElsewhere(k)
  BY <1>1, <1>2, <1>3, <1>4, <1>5, CallerSteps
<1> QED
  BY <1>1, <1>5, <1>6 DEF OthersStay

LEMMA CloseScopeSteps ==
  ASSUME PoolIInv, NEW c \in Callers, CloseScope(c) PROVE PoolIInv' /\ OthersStay(ScopeOf[c])
<1> DEFINE k == ScopeOf[c]
           e == entries[k]
           q == [Resting EXCEPT !.at = "scopelock", !.entry = e]
<1>1. /\ e # NoEntry /\ Calls(c) /\ entries' = Without(k, e)
      /\ call' = [call EXCEPT ![c] = q]
      /\ UNCHANGED <<made, runtime, built, hostVars, closing>>
  BY DEF CloseScope
<1>2. /\ k \in Scopes /\ e \in DOMAIN made /\ e \in Nat /\ made[e].scope = k
      /\ TableOK /\ CallsOK /\ HostsOK /\ CountsOK /\ BuiltOK
  BY <1>1, EntryOfScope, PoolAssumption DEF PoolIInv
<1>3. MadeGrows /\ MadeElsewhere(k)
  BY <1>1, <1>2, EntriesStay DEF TableOK, MadeElsewhere
<1>4. q \in CallRecord /\ CallPlaced(q, k, made')
  BY <1>1, <1>2 DEF Resting, CallRecord, CallPlaced, Places, Requests, Asking, NoRuntime, NoEntry
<1> HIDE DEF q, e
<1>5. CallsOK' /\ CallsElsewhere(k)
  BY <1>1, <1>2, <1>3, <1>4, OneCallMoves, OneCallElsewhere
<1>6. TableOK' /\ TableElsewhere(k)
  <2>1. /\ entries' \in [Scopes -> Nat]
        /\ \A j \in Scopes : entries'[j] \in {entries[j], NoEntry}
        /\ \A j \in Scopes : j # k => entries'[j] = entries[j]
    BY <1>1, <1>2, WithoutShrinks
  <2> QED
    BY <1>2, <1>3, <2>1, TableShrinks DEF TableElsewhere
<1>7. HostsOK' /\ HostsElsewhere(k) /\ BuiltOK' /\ CountsOK'
  BY <1>1, <1>2, <1>3, HostsStay, BuiltStays, CountsStay DEF Calls
<1> QED
  BY <1>1, <1>3, <1>5, <1>6, <1>7 DEF PoolIInv, OthersStay


(* The host answers one caller.                                             *)
LEMMA AnsweredSteps ==
  ASSUME PoolIInv, NEW c \in Callers, NEW request \in Requests,
         request \in {"asked", "serving"} => call[c].at \in Asking,
         call' = [call EXCEPT ![c].request = request],
         UNCHANGED <<poolVars, calls, closing>>, HostsOK', HostsElsewhere(ScopeOf[c])
  PROVE  PoolIInv' /\ OthersStay(ScopeOf[c]) /\ call'[c] = EndedAs(call[c], request)
<1> DEFINE q == EndedAs(call[c], request)
<1>1. UNCHANGED <<entries, made, runtime, built>>
  BY DEF poolVars
<1>2. /\ MadeGrows /\ TableOK' /\ TableElsewhere(ScopeOf[c]) /\ MadeElsewhere(ScopeOf[c])
      /\ CallsOK
  BY <1>1, EntriesStay DEF PoolIInv, TableOK, TableElsewhere, MadeElsewhere
<1>3. call[c] \in CallRecord /\ CallPlaced(call[c], ScopeOf[c], made')
  BY <1>2, PlacedStill DEF CallsOK
<1>4. q \in CallRecord /\ CallPlaced(q, ScopeOf[c], made')
  BY <1>3, EndedCall DEF CallPlaced
<1>5. call' = [call EXCEPT ![c] = q]
  BY DEF EndedAs
<1> HIDE DEF q
<1>6. CallsOK' /\ call'[c] = q /\ CallsElsewhere(ScopeOf[c])
  BY <1>2, <1>4, <1>5, OneCallMoves, OneCallElsewhere
<1>7. BuiltOK' /\ CountsOK'
  BY <1>1, <1>2, BuiltStays, CountsStay DEF PoolIInv
<1> QED
  BY <1>1, <1>2, <1>6, <1>7 DEF PoolIInv, OthersStay, q

(* Who waits for an answer asked a runtime.                                 *)
LEMMA WhomItAsked ==
  ASSUME PoolIInv, NEW c \in Callers, call[c].at \in Asking \/ call[c].request \in {"asked", "serving"}
  PROVE  call[c].at \in Asking /\ call[c].runtime \in Runtimes /\ ScopeOf[c] \in Scopes
         /\ call[c] \in CallRecord
  BY PoolAssumption DEF PoolIInv, CallsOK, CallPlaced

(* The session of a scope changes.                                          *)
LEMMA SessionChanges ==
  ASSUME HostsOK, NEW r \in Runtimes, NEW k \in Scopes, NEW state \in Directories,
         sessions' = [sessions EXCEPT ![r][k] = state], UNCHANGED <<up, bindings>>,
         \/ UNCHANGED lost
         \/ lost' = [lost EXCEPT ![r] = @ \ {k}]
         \/ lost' = [lost EXCEPT ![r] = @ \cup {k}]
  PROVE  /\ HostsOK' /\ HostsElsewhere(k) /\ sessions'[r][k] = state
         /\ \A u \in Runtimes : u # r => sessions'[u] = sessions[u] /\ lost'[u] = lost[u]
<1>1. /\ sessions' \in [Runtimes -> [Scopes -> Directories]] /\ sessions'[r][k] = state
      /\ \A u \in Runtimes : u # r => sessions'[u] = sessions[u]
      /\ \A j \in Scopes : j # k => sessions'[r][j] = sessions[r][j]
  BY DEF HostsOK
<1>2. /\ lost' \in [Runtimes -> SUBSET Scopes]
      /\ \A u \in Runtimes : u # r => lost'[u] = lost[u]
      /\ \A j \in Scopes : j # k => (j \in lost'[r] <=> j \in lost[r])
  BY DEF HostsOK
<1> QED
  BY <1>1, <1>2 DEF HostsOK, HostsElsewhere

LEMMA ServeOpenSteps ==
  ASSUME PoolIInv, NEW c \in Callers, ServeOpen(c) PROVE PoolIInv' /\ OthersStay(ScopeOf[c])
<1> DEFINE r == call[c].runtime
           k == ScopeOf[c]
<1>1. /\ call[c].at \in Asking /\ UNCHANGED <<poolVars, up, bindings, calls, closing>>
  BY DEF ServeOpen, Asked, Asking
<1>2. r \in Runtimes /\ k \in Scopes /\ HostsOK
  BY <1>1, WhomItAsked DEF PoolIInv
<1>3. CASE /\ sessions' = [sessions EXCEPT ![r][k] = "bound"]
           /\ lost' = [lost EXCEPT ![r] = @ \ {k}]
           /\ call' = [call EXCEPT ![c].request = "ok"]
  <2>1. HostsOK' /\ HostsElsewhere(k)
    BY <1>1, <1>2, <1>3, SessionChanges DEF Directories
  <2> QED
    BY <1>1, <1>3, <2>1, AnsweredSteps DEF Requests
<1>4. CASE /\ sessions' = [sessions EXCEPT ![r][k] = IF @ = "absent" THEN "unbound" ELSE @]
           /\ call' = [call EXCEPT ![c].request = "failed"]
           /\ UNCHANGED lost
  <2> DEFINE s == IF sessions[r][k] = "absent" THEN "unbound" ELSE sessions[r][k]
  <2>1. sessions' = [sessions EXCEPT ![r][k] = s] /\ s \in Directories
    BY <1>2, <1>4 DEF HostsOK, Directories
  <2> HIDE DEF s
  <2>2. UNCHANGED <<up, bindings, lost>>
    BY <1>1, <1>4
  <2>3. HostsOK' /\ HostsElsewhere(k)
    BY <1>2, <2>1, <2>2, SessionChanges
  <2> QED
    BY <1>1, <1>4, <2>3, AnsweredSteps DEF Requests
<1> QED
  BY <1>3, <1>4 DEF ServeOpen

LEMMA ServeRunSteps ==
  ASSUME PoolIInv, NEW c \in Callers, ServeRun(c) PROVE PoolIInv' /\ OthersStay(ScopeOf[c])
<1> DEFINE r == call[c].runtime
           k == ScopeOf[c]
           s == IF sessions[r][k] = "absent" THEN "unbound" ELSE sessions[r][k]
<1>1. /\ call[c].at \in Asking /\ UNCHANGED <<poolVars, up, bindings, lost, calls, closing>>
      /\ call' = [call EXCEPT ![c].request = "serving"]
      /\ sessions' = [sessions EXCEPT ![r][k] = s]
  BY DEF ServeRun, Asked, Asking
<1>2. r \in Runtimes /\ k \in Scopes /\ HostsOK
  BY <1>1, WhomItAsked DEF PoolIInv
<1>3. s \in Directories
  BY <1>2 DEF HostsOK, Directories
<1> HIDE DEF s
<1>4. HostsOK' /\ HostsElsewhere(k)
  BY <1>1, <1>2, <1>3, SessionChanges
<1> QED
  BY <1>1, <1>4, AnsweredSteps DEF Requests

LEMMA AnswerSteps ==
  ASSUME PoolIInv, NEW c \in Callers, Answer(c) PROVE PoolIInv' /\ OthersStay(ScopeOf[c])
<1> DEFINE r == call[c].runtime
           k == ScopeOf[c]
<1>1. /\ call[c].request = "serving" /\ UNCHANGED <<poolVars, up, bindings, lost, calls, closing>>
      /\ UNCHANGED sessions \/ sessions' = [sessions EXCEPT ![r][k] = "unbound"]
      /\ \E request \in {"ok", "failed", "uncertain"} :
            call' = [call EXCEPT ![c].request = request]
  BY DEF Answer
<1>2. r \in Runtimes /\ k \in Scopes /\ HostsOK
  BY <1>1, WhomItAsked DEF PoolIInv
<1>3. HostsOK' /\ HostsElsewhere(k)
  <2>1. CASE UNCHANGED sessions
    BY <1>1, <1>2, <2>1 DEF HostsOK, HostsElsewhere
  <2>2. CASE sessions' = [sessions EXCEPT ![r][k] = "unbound"]
    BY <1>1, <1>2, <2>2, SessionChanges DEF Directories
  <2> QED
    BY <1>1, <2>1, <2>2
<1>4. PICK request \in {"ok", "failed", "uncertain"} : call' = [call EXCEPT ![c].request = request]
  BY <1>1
<1>5. request \in Requests /\ request \notin {"asked", "serving"}
  BY DEF Requests
<1> QED
  BY <1>1, <1>3, <1>4, <1>5, AnsweredSteps


(* What is killed is the command of the scope.                              *)
LEMMA KilledEnd ==
  ASSUME NEW r, NEW k, NEW d \in Callers
  PROVE  /\ Killed(r, k)[d] \in {call[d], EndedAs(call[d], "uncertain")}
         /\ ScopeOf[d] # k \/ call[d].request # "serving" => Killed(r, k)[d] = call[d]
  BY DEF Killed, EndedAs

(* The calls while a close is served.                                       *)
LEMMA AfterCloseEnd ==
  ASSUME CallsOK, NEW r, NEW k
  PROVE  /\ AfterClose(r, k) = [d \in Callers |-> AfterClose(r, k)[d]]
         /\ \A d \in Callers :
               /\ AfterClose(r, k)[d] \in {call[d], EndedAs(call[d], "uncertain")}
               /\ ScopeOf[d] # k \/ call[d].request # "serving" => AfterClose(r, k)[d] = call[d]
<1>1. CASE sessions'[r][k] = "absent"
  <2>1. AfterClose(r, k) = Killed(r, k)
    BY <1>1 DEF AfterClose
  <2>2. Killed(r, k) = [d \in Callers |-> Killed(r, k)[d]]
    BY DEF Killed
  <2> QED
    BY <2>1, <2>2, KilledEnd
<1>2. CASE sessions'[r][k] # "absent"
  <2>1. AfterClose(r, k) = call /\ call = [d \in Callers |-> call[d]]
    BY <1>2 DEF AfterClose, CallsOK
  <2> QED
    BY <2>1
<1> QED
  BY <1>1, <1>2

(* A close that failed leaves the session in its directory, or lost.         *)
LEMMA CloseLeaves ==
  ASSUME HostsOK, NEW r \in Runtimes, NEW k \in Scopes, CloseFails(r, k)
  PROVE  /\ \E state \in Directories : sessions' = [sessions EXCEPT ![r][k] = state]
         /\ UNCHANGED lost \/ lost' = [lost EXCEPT ![r] = @ \cup {k}]
         /\ sessions'[r][k] = "bound" \/ k \in lost'[r]
<1>1. \E state \in Directories : sessions' = [sessions EXCEPT ![r][k] = state]
  <2>1. CASE UNCHANGED sessions
    <3>1. sessions[r][k] \in Directories /\ sessions' = [sessions EXCEPT ![r][k] = sessions[r][k]]
      BY <2>1 DEF HostsOK
    <3> QED
      BY <3>1
  <2>2. CASE SessionGoes(r, k)
    BY <2>2 DEF SessionGoes, Directories
  <2> QED
    BY <2>1, <2>2 DEF CloseFails
<1>2. UNCHANGED lost \/ lost' = [lost EXCEPT ![r] = @ \cup {k}]
  BY DEF CloseFails
<1>3. sessions'[r][k] = "bound" \/ k \in lost'[r]
  BY DEF CloseFails, HostsOK
<1> QED
  BY <1>1, <1>2, <1>3

LEMMA ServeCloseSteps ==
  ASSUME PoolIInv, NEW c \in Callers, ServeClose(c)
  PROVE  /\ PoolIInv' /\ OthersStay(ScopeOf[c])
         /\ \/ call'[c] = EndedAs(call[c], "ok")
            \/ /\ call'[c] = EndedAs(call[c], "failed")
               /\ CloseFails(call[c].runtime, ScopeOf[c])
<1> DEFINE r == call[c].runtime
           k == ScopeOf[c]
<1>1. /\ call[c].at \in Asking /\ UNCHANGED <<entries, made, runtime, built, up, bindings, calls, closing>>
      /\ \/ /\ SessionGoes(r, k)
            /\ UNCHANGED lost \/ lost' = [lost EXCEPT ![r] = @ \cup {k}]
            /\ call' = [AfterClose(r, k) EXCEPT ![c] = EndedAs(call[c], "ok")]
         \/ /\ CloseFails(r, k)
            /\ call' = [AfterClose(r, k) EXCEPT ![c] = EndedAs(call[c], "failed")]
  BY DEF ServeClose, Asked, Asking, EndedAs, poolVars
<1>2. r \in Runtimes /\ k \in Scopes /\ HostsOK /\ CallsOK
  BY <1>1, WhomItAsked DEF PoolIInv
<1>3. /\ \E state \in Directories : sessions' = [sessions EXCEPT ![r][k] = state]
      /\ UNCHANGED lost \/ lost' = [lost EXCEPT ![r] = @ \cup {k}]
  <2>1. CASE SessionGoes(r, k) /\ (UNCHANGED lost \/ lost' = [lost EXCEPT ![r] = @ \cup {k}])
    BY <2>1 DEF SessionGoes, Directories
  <2>2. CASE CloseFails(r, k)
    BY <1>2, <2>2, CloseLeaves
  <2> QED
    BY <1>1, <2>1, <2>2
<1>4. HostsOK' /\ HostsElsewhere(k)
  <2>1. PICK state \in Directories : sessions' = [sessions EXCEPT ![r][k] = state]
    BY <1>3
  <2> HIDE DEF r, k
  <2> QED
    BY <1>1, <1>2, <1>3, <2>1, SessionChanges
<1>5. /\ MadeGrows /\ TableOK' /\ TableElsewhere(k) /\ MadeElsewhere(k)
  BY <1>1, EntriesStay DEF PoolIInv, TableOK, TableElsewhere, MadeElsewhere
<1>6. BuiltOK' /\ CountsOK'
  BY <1>1, <1>5, BuiltStays, CountsStay DEF PoolIInv
<1>7. PICK answer \in {"ok", "failed"} :
         /\ call' = [AfterClose(r, k) EXCEPT ![c] = EndedAs(call[c], answer)]
         /\ answer = "failed" => CloseFails(r, k)
  BY <1>1
<1>8. /\ call' = [d \in Callers |-> call'[d]] /\ call'[c] = EndedAs(call[c], answer)
      /\ \A d \in Callers : d # c => call'[d] = AfterClose(r, k)[d]
  BY <1>2, <1>7, AfterCloseEnd
<1>9. SomeEnd /\ CallsElsewhere(k)
  BY <1>2, <1>8, AfterCloseEnd DEF SomeEnd, Ending, CallsElsewhere
<1>10. CallsOK'
  BY <1>2, <1>5, <1>9, RequestsEnd
<1> QED
  BY <1>1, <1>4, <1>5, <1>6, <1>7, <1>8, <1>9, <1>10 DEF PoolIInv, OthersStay

LEMMA HostReapsSteps ==
  ASSUME PoolIInv, NEW r \in Runtimes, NEW k \in Scopes, HostReaps(r, k)
  PROVE  /\ PoolIInv' /\ OthersStay(k) /\ UNCHANGED <<made, entries, bindings, call>>
         /\ k \in lost'[r]
         /\ \A u \in Runtimes : u # r => sessions'[u] = sessions[u] /\ lost'[u] = lost[u]
<1>1. /\ UNCHANGED <<entries, made, runtime, built, up, bindings, call, calls, closing>>
      /\ sessions' = [sessions EXCEPT ![r][k] = "absent"]
      /\ lost' = [lost EXCEPT ![r] = @ \cup {k}]
  BY DEF HostReaps, poolVars, callVars
<1>2. /\ HostsOK' /\ HostsElsewhere(k) /\ k \in lost'[r]
      /\ \A u \in Runtimes : u # r => sessions'[u] = sessions[u] /\ lost'[u] = lost[u]
  <2>1. HostsOK
    BY DEF PoolIInv
  <2> QED
    BY <1>1, <2>1, SessionChanges DEF Directories, HostsOK
<1>3. /\ MadeGrows /\ TableOK' /\ TableElsewhere(k) /\ MadeElsewhere(k) /\ CallsOK
  BY <1>1, EntriesStay DEF PoolIInv, TableOK, TableElsewhere, MadeElsewhere
<1>4. BuiltOK' /\ CountsOK' /\ CallsOK' /\ CallsElsewhere(k)
  BY <1>1, <1>3, BuiltStays, CountsStay, NoCallMoves DEF PoolIInv, CallsElsewhere
<1> QED
  BY <1>1, <1>2, <1>3, <1>4 DEF PoolIInv, OthersStay

(* A host that is gone keeps no session, and answers nobody.                *)
LEMMA DownSteps ==
  ASSUME HostsOK, CallsOK, MadeGrows, NEW r \in Runtimes, Down(r),
         UNCHANGED bindings \/ bindings' = [bindings EXCEPT ![r] = {}]
  PROVE  /\ HostsOK' /\ CallsOK' /\ lost'[r] = Scopes
         /\ \A u \in Runtimes : u # r => sessions'[u] = sessions[u] /\ lost'[u] = lost[u]
         /\ \A d \in Callers : call'[d] = IF call[d].runtime = r /\ call[d].request \in {"asked", "serving"}
                                          THEN EndedAs(call[d], "failed") ELSE call[d]
<1>1. /\ HostsOK' /\ lost'[r] = Scopes
      /\ \A u \in Runtimes : u # r => sessions'[u] = sessions[u] /\ lost'[u] = lost[u]
  BY DEF HostsOK, Down, Directories
<1>2. /\ call' = [d \in Callers |-> call'[d]]
      /\ \A d \in Callers : call'[d] = IF call[d].runtime = r /\ call[d].request \in {"asked", "serving"}
                                       THEN EndedAs(call[d], "failed") ELSE call[d]
  BY DEF Down, EndedAs
<1>3. SomeEnd
  BY <1>2 DEF SomeEnd, Ending
<1> QED
  BY <1>1, <1>2, <1>3, RequestsEnd

LEMMA HostExitsSteps ==
  ASSUME PoolIInv, NEW r \in Runtimes, HostExits(r)
  PROVE  PoolIInv' /\ MadeGrows
<1>1. Down(r) /\ UNCHANGED <<entries, made, runtime, built, bindings, calls, closing>>
  BY DEF HostExits, poolVars
<1>2. MadeGrows /\ TableOK'
  BY <1>1, EntriesStay DEF PoolIInv, TableOK
<1>3. HostsOK' /\ CallsOK'
  BY <1>1, <1>2, DownSteps DEF PoolIInv
<1>4. BuiltOK' /\ CountsOK'
  BY <1>1, <1>2, BuiltStays, CountsStay DEF PoolIInv
<1> QED
  BY <1>2, <1>3, <1>4 DEF PoolIInv

LEMMA CloseRuntimeSteps ==
  ASSUME PoolIInv, CloseRuntime
  PROVE  PoolIInv' /\ MadeGrows
<1>1. /\ closing.active /\ runtime' = NoRuntime /\ Down(runtime)
      /\ bindings' = [bindings EXCEPT ![runtime] = {}] /\ closing' = NotClosing
      /\ UNCHANGED <<entries, made, built, calls>>
  BY DEF CloseRuntime
<1>2. MadeGrows /\ TableOK'
  BY <1>1, EntriesStay DEF PoolIInv, TableOK
<1>3. runtime \in Runtimes
  BY <1>1 DEF PoolIInv, BuiltOK
<1>4. HostsOK' /\ CallsOK'
  BY <1>1, <1>2, <1>3, DownSteps DEF PoolIInv
<1>5. BuiltOK' /\ CountsOK'
  BY <1>1 DEF PoolIInv, BuiltOK, CountsOK, NotClosing
<1> QED
  BY <1>2, <1>4, <1>5 DEF PoolIInv

LEMMA CloseSteps ==
  ASSUME PoolIInv, Close
  PROVE  PoolIInv' /\ MadeGrows /\ \A k \in Scopes : entries'[k] = NoEntry
<1> DEFINE taken == {entries[k] : k \in Scopes} \ {NoEntry}
<1>1. /\ made' = [e \in DOMAIN made |-> IF e \in taken THEN TaintedAs(made[e]) ELSE made[e]]
      /\ closing' = [active |-> TRUE, left |-> {e \in taken : made[e].started}]
      /\ entries' = [k \in Scopes |-> NoEntry]
      /\ runtime # NoRuntime /\ built < MaxRuntimes
      /\ UNCHANGED <<runtime, built, up, bindings, sessions, lost, call, calls>>
  BY DEF Close, TaintedAs, hostVars, callVars
<1>2. made \in Seq(EntryRecord) /\ taken \subseteq DOMAIN made
  BY DEF PoolIInv, TableOK
<1>3. MadeGrows /\ DOMAIN made' = DOMAIN made
  <2>1. ASSUME NEW e \in DOMAIN made
        PROVE  made'[e] \in EntryRecord /\ SamePlace(made'[e], made[e])
    <3>1. made[e] \in EntryRecord
      BY <1>2
    <3>2. TaintedAs(made[e]) \in EntryRecord /\ SamePlace(TaintedAs(made[e]), made[e])
      BY <3>1 DEF TaintedAs, EntryRecord, SamePlace
    <3> QED
      BY <1>1, <3>1, <3>2 DEF SamePlace
  <2>2. DOMAIN made = 1..Len(made) /\ Len(made) \in Nat
    BY <1>2
  <2>3. made' \in [1..Len(made) -> EntryRecord]
    BY <1>1, <2>1, <2>2
  <2>4. made' \in Seq(EntryRecord) /\ DOMAIN made' = DOMAIN made
    BY <2>2, <2>3
  <2> QED
    BY <2>1, <2>4 DEF MadeGrows
<1>4. TableOK' /\ \A k \in Scopes : entries'[k] = NoEntry
  BY <1>1, <1>3 DEF TableOK, MadeGrows, NoEntry
<1>5. CallsOK' /\ HostsOK'
  BY <1>1, <1>3, NoCallMoves DEF PoolIInv, HostsOK
<1>6. BuiltOK'
  BY <1>1 DEF PoolIInv, BuiltOK
<1>7. CountsOK'
  <2>1. DOMAIN made \subseteq Nat
    BY <1>2
  <2> QED
    BY <1>1, <1>2, <1>3, <2>1 DEF PoolIInv, CountsOK
<1> QED
  BY <1>3, <1>4, <1>5, <1>6, <1>7 DEF PoolIInv

LEMMA CloseTakenSteps ==
  ASSUME PoolIInv, NEW e \in closing.left, CloseTaken(e)
  PROVE  PoolIInv' /\ MadeGrows
<1> DEFINE k == made[e].scope
           r == made[e].runtime
<1>1. /\ closing' = [closing EXCEPT !.left = @ \ {e}] /\ up' = up \cup {r}
      /\ \/ SessionGoes(r, k) /\ bindings' = [bindings EXCEPT ![r] = @ \ {k}] /\ UNCHANGED lost
         \/ CloseFails(r, k) /\ UNCHANGED bindings
      /\ call' = AfterClose(r, k)
      /\ UNCHANGED <<entries, made, runtime, built, calls>>
  BY DEF CloseTaken, poolVars
<1>2. MadeGrows /\ TableOK'
  BY <1>1, EntriesStay DEF PoolIInv, TableOK
<1>3. r \in Runtimes /\ k \in Scopes /\ HostsOK /\ CallsOK
  <2>1. made[e] \in EntryRecord
    BY DEF PoolIInv, TableOK, CountsOK
  <2> QED
    BY <2>1 DEF EntryRecord, PoolIInv
<1>4. /\ \E state \in Directories : sessions' = [sessions EXCEPT ![r][k] = state]
      /\ UNCHANGED lost \/ lost' = [lost EXCEPT ![r] = @ \cup {k}]
      /\ UNCHANGED bindings \/ bindings' = [bindings EXCEPT ![r] = @ \ {k}]
  <2>1. CASE SessionGoes(r, k) /\ UNCHANGED lost
    BY <1>1, <2>1 DEF SessionGoes, Directories
  <2>2. CASE CloseFails(r, k)
    BY <1>1, <1>3, <2>2, CloseLeaves
  <2> QED
    BY <1>1, <2>1, <2>2
<1>5. HostsOK'
  <2>1. sessions' \in [Runtimes -> [Scopes -> Directories]]
    BY <1>3, <1>4 DEF HostsOK
  <2>2. up' \subseteq Runtimes /\ bindings' \in [Runtimes -> SUBSET Scopes]
    BY <1>1, <1>3, <1>4 DEF HostsOK
  <2>3. lost' \in [Runtimes -> SUBSET Scopes]
    BY <1>3, <1>4 DEF HostsOK
  <2> QED
    BY <2>1, <2>2, <2>3 DEF HostsOK
<1>6. SomeEnd
  BY <1>1, <1>3, AfterCloseEnd DEF SomeEnd, Ending
<1>7. CallsOK'
  BY <1>2, <1>3, <1>6, RequestsEnd
<1>8. BuiltOK' /\ CountsOK'
  BY <1>1 DEF PoolIInv, BuiltOK, CountsOK
<1> QED
  BY <1>2, <1>5, <1>7, <1>8 DEF PoolIInv


-----------------------------------------------------------------------------
(* PoolIInv is inductive.                                                   *)

LEMMA PoolStarts == Init => PoolIInv
<1> SUFFICES ASSUME Init PROVE PoolIInv
  OBVIOUS
<1>1. TableOK
  BY DEF Init, TableOK, NoEntry
<1>2. BuiltOK /\ HostsOK /\ CountsOK
  BY PoolAssumption DEF Init, BuiltOK, HostsOK, CountsOK, NoRuntime, NotClosing, Directories
<1>3. CallsOK
  BY RestIsPlaced DEF Init, CallsOK
<1> QED
  BY <1>1, <1>2, <1>3 DEF PoolIInv

(* The steps of a caller, and of the host for it.                           *)
CallerStep(c) ==
    \/ \E kind \in {"execute", "prepare"} : Begin(c, kind)
    \/ Starts(c) \/ Executes(c) \/ Closes(c) \/ Serves(c)
    \/ Abort(c) \/ CloseScope(c)

LEMMA CallerKeeps ==
  ASSUME PoolIInv, NEW c \in Callers, CallerStep(c)
  PROVE  PoolIInv' /\ OthersStay(ScopeOf[c])
<1>1. CASE \E kind \in {"execute", "prepare"} : Begin(c, kind)
  <2>1. PICK kind \in {"execute", "prepare"} : Begin(c, kind)
    BY <1>1
  <2> QED
    BY <2>1, EnterSteps DEF Begin
<1>2. CASE Starts(c)
  <2>1. CASE StartFails(c) \/ OpenRaises(c)
    <3>1. /\ call[c].at \in Standing /\ StartRaises(c) /\ UNCHANGED <<hostVars, calls, closing>>
      BY <2>1 DEF StartFails, OpenRaises, StartLocked, Standing
    <3> QED
      BY <3>1, StartRaisesSteps
  <2> QED
    BY <1>2, <2>1, AlreadyStartedSteps, ConfigureSteps, OpenedSteps DEF Starts
<1>3. CASE Executes(c)
  <2>1. CASE RunAgain(c)
    <3>1. call[c].op \in {"execute", "prepare"}
      BY DEF PoolIInv, CallsOK, CallRecord
    <3> QED
      BY <2>1, <3>1, EnterSteps DEF RunAgain
  <2> QED
    BY <1>3, <2>1, RunSteps, ReturnSteps, DiscardSteps, DiscardedSteps DEF Executes
<1>4. CASE Closes(c)
  BY <1>4, CloseSessionSteps, CloseLockedSteps, ClosedSteps, CloseScopeLockedSteps DEF Closes
<1>5. CASE Serves(c)
  BY <1>5, ServeOpenSteps, ServeRunSteps, AnswerSteps, ServeCloseSteps DEF Serves
<1> QED
  BY <1>1, <1>2, <1>3, <1>4, <1>5, AbortSteps, CloseScopeSteps DEF CallerStep

LEMMA PoolStutters == ASSUME PoolIInv, UNCHANGED vars PROVE PoolIInv'
  BY DEF PoolIInv, vars, TableOK, BuiltOK, HostsOK, CallsOK, CountsOK

LEMMA PoolKeeps == PoolIInv /\ [Next]_vars => PoolIInv'
<1> SUFFICES ASSUME PoolIInv, [Next]_vars PROVE PoolIInv'
  OBVIOUS
<1>1. CASE \E c \in Callers : CallerStep(c)
  BY <1>1, CallerKeeps
<1>2. CASE \E e \in closing.left : CloseTaken(e)
  BY <1>2, CloseTakenSteps
<1>3. CASE \E r \in Runtimes : HostExits(r) \/ \E k \in Scopes : HostReaps(r, k)
  BY <1>3, HostExitsSteps, HostReapsSteps
<1> QED
  BY <1>1, <1>2, <1>3, CloseSteps, CloseRuntimeSteps, PoolStutters DEF Next, CallerStep

LEMMA PoolTypes == PoolIInv => PoolTypeOK
<1> SUFFICES ASSUME PoolIInv PROVE PoolTypeOK
  OBVIOUS
<1>1. \A e \in DOMAIN made : made[e] \in EntryRecord
  BY DEF PoolIInv, TableOK
<1>2. entries \in [Scopes -> DOMAIN made \cup {NoEntry}]
  BY DEF PoolIInv, TableOK
<1>3. call \in [Callers -> [op : {"execute", "prepare"}, at : Places,
                            entry : DOMAIN made \cup {NoEntry},
                            runtime : Runtimes \cup {NoRuntime}, request : Requests]]
  <2>1. ASSUME NEW c \in Callers
        PROVE  call[c] \in [op : {"execute", "prepare"}, at : Places,
                            entry : DOMAIN made \cup {NoEntry},
                            runtime : Runtimes \cup {NoRuntime}, request : Requests]
    <3>1. call[c] \in CallRecord /\ call[c].entry \in DOMAIN made \cup {NoEntry}
      BY DEF PoolIInv, CallsOK, CallPlaced
    <3> QED
      BY <3>1 DEF CallRecord
  <2> QED
    BY <2>1 DEF PoolIInv, CallsOK
<1>4. closing \in [active : BOOLEAN, left : SUBSET (DOMAIN made)]
  BY DEF PoolIInv, CountsOK
<1> QED
  BY <1>1, <1>2, <1>3, <1>4 DEF PoolTypeOK, EntryRecord, PoolIInv, BuiltOK, HostsOK, CountsOK

(* Entries, runtimes, locks and sessions keep their types whatever the      *)
(* order in which the tasks call the pool, abort a scope, close it or the    *)
(* pool, and whatever fails: a caller that asked a runtime asked one that    *)
(* was built, and no table refers to an entry of another scope.             *)
THEOREM PoolTypeOKHolds == Spec => []PoolTypeOK
<1>1. Spec => []PoolIInv
  BY PoolStarts, PoolKeeps, PTL DEF Spec
<1> QED
  BY <1>1, PoolTypes, PTL


-----------------------------------------------------------------------------
(* One caller per scope.                                                    *)

(* The pool is called by the turn that has the write lane of its workspace, *)
(* which the adapter checks first (workspace_execution.py:329-343), and the *)
(* service closes it once it has closed the supervisor (service_main.py:430 *)
(* and 431).                                                                *)
OneCallerPerScope == \A c, d \in Callers : ScopeOf[c] = ScopeOf[d] => c = d
CloseIsShutdown == "close" \notin Operations

(* A session that was opened in the directory of its scope, or that ended.  *)
Sound(k, r, s, l) == s[r][k] = "bound" \/ k \in l[r]

AtEntry == {"start", "opening", "run", "running", "closelock"}
Busy == {"running", "discarding", "closing"}

(* The binding of a session that is being closed, or must be, is still to   *)
(* be forgotten.                                                            *)
Excused(x) ==
    \/ x.request = "uncertain"
    \/ x.at = "discarding" /\ x.request \in {"asked", "ok"}
    \/ x.at = "closing" /\ x.request = "ok"

(* The entry of a scope and its caller.                                     *)
EntryLane(k, x, e, m, s, l) ==
    /\ e # NoEntry => /\ ~m[e].tainted
                      /\ m[e].started => Sound(k, m[e].runtime, s, l) \/ x.request = "uncertain"
    /\ x.at \in AtEntry => e # NoEntry /\ x.entry = e
    /\ x.at = "closing" /\ e # NoEntry => x.entry = e /\ x.runtime = m[e].runtime
    /\ x.at \in {"discarding", "scopelock"} => e = NoEntry
    /\ x.at \in {"opening", "running"} => x.runtime = m[e].runtime
    /\ x.at \in {"run", "running"} => m[e].started
    /\ x.at = "opening" /\ x.request = "ok" => Sound(k, x.runtime, s, l)
    /\ x.request \in {"serving", "uncertain"} => x.at = "running"

(* What the runtimes believe of its session.                                *)
BindingLane(k, x, b, s, l) ==
    \A r \in Runtimes : k \in b[r] => Sound(k, r, s, l) \/ (x.runtime = r /\ Excused(x))

MyLane(c) ==
    /\ EntryLane(ScopeOf[c], call[c], entries[ScopeOf[c]], made, sessions, lost)
    /\ BindingLane(ScopeOf[c], call[c], bindings, sessions, lost)

ShutDownAtRest ==
    /\ closing.left # {} => closing.active
    /\ closing.active => /\ \A c \in Callers : call[c].at = "rest"
                         /\ \A k \in Scopes : entries[k] = NoEntry

LaneIInv == PoolIInv /\ ShutDownAtRest /\ \A c \in Callers : MyLane(c)

(* The lanes of the other callers stay as they are.                         *)
LEMMA OtherLane ==
  ASSUME PoolIInv, NEW d \in Callers, NEW k, ScopeOf[d] # k, OthersStay(k), MyLane(d)
  PROVE  MyLane(d)'
<1> DEFINE j == ScopeOf[d]
           e == entries[j]
<1>1. /\ j \in Scopes /\ call'[d] = call[d] /\ entries'[j] = e
      /\ \A r \in Runtimes : /\ j \in bindings'[r] <=> j \in bindings[r]
                             /\ sessions'[r][j] = sessions[r][j]
                             /\ j \in lost'[r] <=> j \in lost[r]
  BY PoolAssumption DEF OthersStay, TableElsewhere, HostsElsewhere, CallsElsewhere
<1>2. e # NoEntry => made'[e] = made[e] /\ made[e].runtime \in Runtimes
  BY <1>1, EntryOfScope DEF OthersStay, MadeElsewhere
<1>3. call[d].at \in Asking => call[d].runtime \in Runtimes
  BY WhomItAsked
<1>4. \A r \in Runtimes : Sound(j, r, sessions', lost') <=> Sound(j, r, sessions, lost)
  BY <1>1 DEF Sound
<1>5. BindingLane(j, call[d], bindings', sessions', lost')
  BY <1>1, <1>4 DEF MyLane, BindingLane
<1>6. EntryLane(j, call[d], e, made', sessions', lost')
  <2>1. EntryLane(j, call[d], e, made, sessions, lost)
    BY DEF MyLane
  <2> HIDE DEF j, e
  <2> QED
    BY <1>2, <1>3, <1>4, <2>1 DEF EntryLane, AtEntry, Asking
<1> QED
  BY <1>1, <1>5, <1>6 DEF MyLane

(* A caller that asks nothing of the runtime believes what is so.           *)
LEMMA CalmLane ==
  ASSUME PoolIInv, NEW c \in Callers, MyLane(c), call[c].at \notin Busy
  PROVE  /\ \A r \in Runtimes : ScopeOf[c] \in bindings[r] => Sound(ScopeOf[c], r, sessions, lost)
         /\ entries[ScopeOf[c]] # NoEntry =>
               /\ ~made[entries[ScopeOf[c]]].tainted
               /\ made[entries[ScopeOf[c]]].started =>
                     Sound(ScopeOf[c], made[entries[ScopeOf[c]]].runtime, sessions, lost)
  BY DEF MyLane, EntryLane, BindingLane, Excused, Busy

(* A call that rests, or waits to close, at a sound entry.                  *)
LEMMA LaneAtRest ==
  ASSUME NEW x \in {Resting, [Resting EXCEPT !.at = "close"]}, NEW k, NEW e, NEW m, NEW b, NEW s, NEW l,
         \A r \in Runtimes : k \in b[r] => Sound(k, r, s, l),
         e # NoEntry => ~m[e].tainted /\ (m[e].started => Sound(k, m[e].runtime, s, l))
  PROVE  EntryLane(k, x, e, m, s, l) /\ BindingLane(k, x, b, s, l)
<1>1. x.at \in {"rest", "close"} /\ x.request = "none"
  BY DEF Resting
<1>2. BindingLane(k, x, b, s, l)
  BY DEF BindingLane
<1>3. EntryLane(k, x, e, m, s, l)
  BY <1>1 DEF EntryLane, AtEntry
<1> QED
  BY <1>2, <1>3

LEMMA BeginLane ==
  ASSUME PoolIInv, NEW c \in Callers, MyLane(c), NEW kind, call[c].at \notin Busy,
         EnterPool(c, kind, made), UNCHANGED hostVars
  PROVE  MyLane(c)'
<1> DEFINE k == ScopeOf[c]
           e == entries[k]
           r == IF runtime = NoRuntime THEN built + 1 ELSE runtime
           n == Len(made) + 1
<1>1. /\ \A u \in Runtimes : k \in bindings[u] => Sound(k, u, sessions, lost)
      /\ e # NoEntry => ~made[e].tainted /\ (made[e].started => Sound(k, made[e].runtime, sessions, lost))
      /\ k \in Scopes /\ call \in [Callers -> CallRecord] /\ UNCHANGED <<bindings, sessions, lost>>
      /\ made \in Seq(EntryRecord) /\ entries \in [Scopes -> Nat]
  BY CalmLane, PoolAssumption DEF PoolIInv, TableOK, CallsOK, hostVars
<1>2. CASE FindEntry(c, kind, made)
  <2>1. e # NoEntry /\ UNCHANGED <<entries, made>> /\ call'[c] = StartingAs(kind, e)
    BY <1>1, <1>2 DEF FindEntry, GoesToStart, StartingAs
  <2>2. StartingAs(kind, e).at = "start" /\ StartingAs(kind, e).entry = e
        /\ StartingAs(kind, e).request = "none"
    BY DEF StartingAs
  <2> HIDE DEF e, k
  <2>3. EntryLane(k, StartingAs(kind, e), e, made, sessions, lost)
    BY <1>1, <2>1, <2>2 DEF EntryLane, AtEntry
  <2>4. BindingLane(k, StartingAs(kind, e), bindings, sessions, lost)
    BY <1>1 DEF BindingLane
  <2> QED
    BY <1>1, <2>1, <2>3, <2>4 DEF MyLane, k, e
<1>3. CASE MakeEntry(c, kind, made)
  <2>1. /\ made' = Append(made, Entry(k, r)) /\ entries' = [entries EXCEPT ![k] = n]
        /\ call' = [call EXCEPT ![c] = StartingAs(kind, n)]
    BY <1>3 DEF MakeEntry, GoesToStart, StartingAs
  <2>2. made'[n] = Entry(k, r) /\ n # NoEntry
    BY <1>1, <2>1 DEF NoEntry
  <2>3. ~Entry(k, r).started /\ ~Entry(k, r).tainted
    BY DEF Entry
  <2>4. StartingAs(kind, n).at = "start" /\ StartingAs(kind, n).entry = n
        /\ StartingAs(kind, n).request = "none"
    BY DEF StartingAs
  <2>5. call'[c] = StartingAs(kind, n) /\ entries'[k] = n
    BY <1>1, <2>1
  <2> HIDE DEF n, k, e, r
  <2>6. EntryLane(k, StartingAs(kind, n), n, made', sessions, lost)
    BY <2>2, <2>3, <2>4 DEF EntryLane, AtEntry
  <2>7. BindingLane(k, StartingAs(kind, n), bindings, sessions, lost)
    BY <1>1 DEF BindingLane
  <2> QED
    BY <1>1, <2>5, <2>6, <2>7 DEF MyLane, k
<1> QED
  BY <1>2, <1>3 DEF EnterPool


(* The lane of a caller that stands at its entry.                           *)
LEMMA AtItsEntry ==
  ASSUME PoolIInv, NEW c \in Callers, MyLane(c), call[c].at \in AtEntry
  PROVE  /\ entries[ScopeOf[c]] = call[c].entry /\ call[c].entry # NoEntry
         /\ call[c].entry \in DOMAIN made /\ made[call[c].entry] \in EntryRecord
         /\ made[call[c].entry].runtime \in Runtimes
         /\ ~made[call[c].entry].tainted /\ ScopeOf[c] \in Scopes
         /\ made \in Seq(EntryRecord) /\ call[c] \in CallRecord
<1>1. entries[ScopeOf[c]] = call[c].entry /\ call[c].entry # NoEntry
      /\ ~made[call[c].entry].tainted
  BY DEF MyLane, EntryLane
<1>2. ScopeOf[c] \in Scopes /\ made \in Seq(EntryRecord) /\ call[c] \in CallRecord
  BY PoolAssumption DEF PoolIInv, TableOK, CallsOK
<1> QED
  BY <1>1, <1>2, EntryOfCall

(* It goes to rest, to close the session, or to run in it.                  *)
LEMMA CalmAfter ==
  ASSUME NEW c \in Callers, NEW k, k = ScopeOf[c], NEW e, entries'[k] = e,
         \/ call'[c] \in {Resting, [Resting EXCEPT !.at = "close"]}
         \/ /\ call'[c].at = "run" /\ call'[c].entry = e /\ e # NoEntry
            /\ call'[c].request = "none" /\ made'[e].started,
         e # NoEntry => /\ ~made'[e].tainted
                        /\ made'[e].started => Sound(k, made'[e].runtime, sessions', lost'),
         \A r \in Runtimes : k \in bindings'[r] => Sound(k, r, sessions', lost')
  PROVE  MyLane(c)'
<1>1. BindingLane(k, call'[c], bindings', sessions', lost')
  BY DEF BindingLane
<1>2. EntryLane(k, call'[c], e, made', sessions', lost')
  <2>1. CASE call'[c] \in {Resting, [Resting EXCEPT !.at = "close"]}
    <3>1. call'[c].at \in {"rest", "close"} /\ call'[c].request = "none"
      BY <2>1 DEF Resting
    <3> QED
      BY <3>1 DEF EntryLane, AtEntry
  <2>2. CASE /\ call'[c].at = "run" /\ call'[c].entry = e /\ e # NoEntry
             /\ call'[c].request = "none" /\ made'[e].started
    BY <2>2 DEF EntryLane, AtEntry
  <2> QED
    BY <2>1, <2>2
<1> QED
  BY <1>1, <1>2 DEF MyLane

(* It asks the runtime of its entry.                                        *)
LEMMA AskedAfter ==
  ASSUME NEW c \in Callers, NEW k, k = ScopeOf[c], NEW e, entries'[k] = e, e # NoEntry,
         NEW place \in {"opening", "running", "closing"}, NEW r, r = made'[e].runtime,
         call'[c] = [op |-> call[c].op, at |-> place, entry |-> e, runtime |-> r,
                     request |-> "asked"],
         place = "running" => made'[e].started,
         ~made'[e].tainted,
         made'[e].started => Sound(k, r, sessions', lost'),
         \A u \in Runtimes : k \in bindings'[u] => Sound(k, u, sessions', lost')
  PROVE  MyLane(c)'
<1>1. /\ call'[c].at = place /\ call'[c].entry = e /\ call'[c].runtime = r
      /\ call'[c].request = "asked"
  OBVIOUS
<1>2. BindingLane(k, call'[c], bindings', sessions', lost')
  BY DEF BindingLane
<1>3. EntryLane(k, call'[c], e, made', sessions', lost')
  BY <1>1 DEF EntryLane, AtEntry
<1> QED
  BY <1>2, <1>3 DEF MyLane

LEMMA StartingLane ==
  ASSUME PoolIInv, NEW c \in Callers, MyLane(c), AlreadyStarted(c) \/ Configure(c)
  PROVE  MyLane(c)'
<1> DEFINE k == ScopeOf[c]
           e == call[c].entry
           r == made[e].runtime
<1>1. call[c].at = "start" /\ call[c].at \notin Busy /\ call[c].at \in AtEntry /\ UNCHANGED entries
  BY DEF AlreadyStarted, Configure, StartLocked, poolVars, Busy, AtEntry
<1>2. /\ entries[k] = e /\ e # NoEntry /\ e \in DOMAIN made /\ made[e] \in EntryRecord
      /\ r \in Runtimes /\ ~made[e].tainted /\ k \in Scopes /\ made \in Seq(EntryRecord)
      /\ call[c] \in CallRecord /\ CallsOK
  BY <1>1, AtItsEntry DEF PoolIInv
<1>3. /\ \A u \in Runtimes : k \in bindings[u] => Sound(k, u, sessions, lost)
      /\ made[e].started => Sound(k, r, sessions, lost)
  BY <1>1, <1>2, CalmLane
<1>4. /\ RunAs(call[c]).at = "run" /\ RunAs(call[c]).entry = e /\ RunAs(call[c]).request = "none"
  BY <1>2 DEF RunAs, CallRecord
<1>5. CASE AlreadyStarted(c)
  <2>1. /\ UNCHANGED <<made, bindings, sessions, lost>> /\ made[e].started
        /\ call'[c] \in {Resting, RunAs(call[c])}
    BY <1>5, AlreadyStartedSteps DEF AlreadyStarted, poolVars, hostVars
  <2> HIDE DEF e, k
  <2>2. \/ call'[c] \in {Resting, [Resting EXCEPT !.at = "close"]}
        \/ /\ call'[c].at = "run" /\ call'[c].entry = e
           /\ call'[c].request = "none" /\ made'[e].started
    BY <1>4, <2>1
  <2> QED
    BY <1>1, <1>2, <1>3, <2>1, <2>2, CalmAfter DEF k
<1>6. CASE /\ k \in bindings[r] /\ made' = [made EXCEPT ![e].started = TRUE]
           /\ AfterStart(c) /\ UNCHANGED <<bindings, sessions, lost>>
  <2>1. made'[e].started /\ ~made'[e].tainted /\ made'[e].runtime = r
    BY <1>2, <1>6 DEF EntryRecord
  <2>2. call'[c] \in {Resting, RunAs(call[c])}
    BY <1>2, <1>6 DEF AfterStart, RunAs, CallsOK
  <2> HIDE DEF e, k, r
  <2>3. \/ call'[c] \in {Resting, [Resting EXCEPT !.at = "close"]}
        \/ /\ call'[c].at = "run" /\ call'[c].entry = e
           /\ call'[c].request = "none" /\ made'[e].started
    BY <1>4, <2>1, <2>2
  <2>4. /\ Sound(k, made'[e].runtime, sessions', lost')
        /\ \A u \in Runtimes : k \in bindings'[u] => Sound(k, u, sessions', lost')
    BY <1>2, <1>3, <1>6, <2>1
  <2> QED
    BY <1>1, <1>2, <2>1, <2>3, <2>4, CalmAfter DEF k
<1>7. CASE /\ made' = [made EXCEPT ![e].starter = c] /\ Ask(c, e, r, "opening")
  <2>1. /\ made'[e].started = made[e].started /\ ~made'[e].tainted /\ made'[e].runtime = r
    BY <1>2, <1>7 DEF EntryRecord
  <2>2. /\ call'[c] = [op |-> call[c].op, at |-> "opening", entry |-> e, runtime |-> r,
                       request |-> "asked"]
        /\ UNCHANGED <<bindings, sessions, lost>>
    BY <1>2, <1>7 DEF Ask, CallsOK
  <2> HIDE DEF e, k, r
  <2> QED
    BY <1>1, <1>2, <1>3, <2>1, <2>2, AskedAfter DEF k
<1> QED
  BY <1>5, <1>6, <1>7 DEF Configure

LEMMA RaisingLane ==
  ASSUME PoolIInv, NEW c \in Callers, MyLane(c), StartFails(c) \/ OpenRaises(c)
  PROVE  MyLane(c)'
<1> DEFINE k == ScopeOf[c]
           e == call[c].entry
<1>1. /\ call[c].at \notin Busy /\ call[c].at \in AtEntry /\ StartRaises(c)
      /\ UNCHANGED <<bindings, sessions, lost>>
  BY DEF StartFails, OpenRaises, StartLocked, hostVars, Busy, AtEntry
<1>2. entries[k] = e /\ k \in Scopes /\ CallsOK /\ entries \in [Scopes -> Nat]
  BY <1>1, AtItsEntry DEF PoolIInv, TableOK
<1>3. entries'[k] = NoEntry /\ call'[c] \in {Resting, [Resting EXCEPT !.at = "close"]}
  BY <1>1, <1>2 DEF StartRaises, Without, CallsOK
<1>4. \A u \in Runtimes : k \in bindings'[u] => Sound(k, u, sessions', lost')
  BY <1>1, CalmLane
<1> QED
  BY <1>3, <1>4, CalmAfter

LEMMA OpenedLane ==
  ASSUME PoolIInv, NEW c \in Callers, MyLane(c), Opened(c)
  PROVE  MyLane(c)'
<1> DEFINE k == ScopeOf[c]
           e == call[c].entry
           r == made[e].runtime
<1>1. /\ call[c].at = "opening" /\ call[c].request = "ok" /\ UNCHANGED <<entries, sessions, lost>>
      /\ bindings' = [bindings EXCEPT ![call[c].runtime] = @ \cup {k}]
      /\ made' = [made EXCEPT ![e] = OpenedAs(made[e])] /\ AfterStart(c)
  BY DEF Opened, OpenedAs
<1>2. /\ entries[k] = e /\ e # NoEntry /\ e \in DOMAIN made /\ made[e] \in EntryRecord
      /\ r \in Runtimes /\ ~made[e].tainted /\ k \in Scopes /\ made \in Seq(EntryRecord)
      /\ call[c] \in CallRecord /\ CallsOK /\ bindings \in [Runtimes -> SUBSET Scopes]
  BY <1>1, AtItsEntry DEF PoolIInv, HostsOK, AtEntry
<1>3. call[c].runtime = r /\ Sound(k, r, sessions, lost)
  BY <1>1, <1>2 DEF MyLane, EntryLane
<1>4. made'[e].started /\ ~made'[e].tainted /\ made'[e].runtime = r
  <2>1. made'[e] = OpenedAs(made[e])
    BY <1>1, <1>2
  <2> QED
    BY <1>2, <2>1, StartedEntry DEF SamePlace
<1>5. \/ call'[c] \in {Resting, [Resting EXCEPT !.at = "close"]}
      \/ /\ call'[c].at = "run" /\ call'[c].entry = e
         /\ call'[c].request = "none" /\ made'[e].started
  <2>1. call'[c] \in {Resting, RunAs(call[c])}
    BY <1>1, <1>2 DEF AfterStart, RunAs, CallsOK
  <2>2. RunAs(call[c]).at = "run" /\ RunAs(call[c]).entry = e /\ RunAs(call[c]).request = "none"
    BY <1>2 DEF RunAs, CallRecord
  <2> QED
    BY <1>4, <2>1, <2>2
<1>6. \A u \in Runtimes : k \in bindings'[u] => Sound(k, u, sessions', lost')
  <2>1. \A u \in Runtimes : k \in bindings[u] => Sound(k, u, sessions, lost)
    BY <1>1, CalmLane DEF Busy
  <2>2. \A u \in Runtimes : u # r => bindings'[u] = bindings[u]
    BY <1>1, <1>2, <1>3
  <2> QED
    BY <1>1, <1>3, <2>1, <2>2
<1> HIDE DEF e, k, r
<1> QED
  BY <1>1, <1>2, <1>3, <1>4, <1>5, <1>6, CalmAfter DEF k


LEMMA LockingLane ==
  ASSUME PoolIInv, NEW c \in Callers, MyLane(c), Run(c) \/ CloseLocked(c)
  PROVE  MyLane(c)'
<1> DEFINE k == ScopeOf[c]
           e == call[c].entry
           r == made[e].runtime
           place == IF Run(c) THEN "running" ELSE "closing"
<1>1. /\ call[c].at = (IF Run(c) THEN "run" ELSE "closelock") /\ UNCHANGED entries
      /\ made' = [made EXCEPT ![e].worker = c] /\ Ask(c, e, r, place)
  BY DEF Run, RunLocked, CloseLocked
<1>2. /\ entries[k] = e /\ e # NoEntry /\ e \in DOMAIN made /\ made[e] \in EntryRecord
      /\ r \in Runtimes /\ ~made[e].tainted /\ k \in Scopes /\ made \in Seq(EntryRecord)
      /\ call[c] \in CallRecord /\ CallsOK
  BY <1>1, AtItsEntry DEF PoolIInv, AtEntry
<1>3. /\ \A u \in Runtimes : k \in bindings[u] => Sound(k, u, sessions, lost)
      /\ made[e].started => Sound(k, r, sessions, lost)
      /\ place = "running" => made[e].started
  <2>1. call[c].at \notin Busy
    BY <1>1 DEF Busy
  <2>2. place = "running" => made[e].started
    BY <1>1, <1>2 DEF MyLane, EntryLane
  <2> QED
    BY <1>2, <2>1, <2>2, CalmLane
<1>4. /\ made'[e].started = made[e].started /\ ~made'[e].tainted /\ made'[e].runtime = r
  BY <1>1, <1>2 DEF EntryRecord
<1>5. /\ call'[c] = [op |-> call[c].op, at |-> place, entry |-> e, runtime |-> r,
                     request |-> "asked"]
      /\ UNCHANGED <<bindings, sessions, lost>>
  BY <1>1, <1>2 DEF Ask, CallsOK
<1>6. place \in {"opening", "running", "closing"}
  OBVIOUS
<1> HIDE DEF e, k, r, place
<1> QED
  BY <1>1, <1>2, <1>3, <1>4, <1>5, <1>6, AskedAfter DEF k

LEMMA ReturnLane ==
  ASSUME PoolIInv, NEW c \in Callers, MyLane(c), Return(c)
  PROVE  MyLane(c)'
<1> DEFINE k == ScopeOf[c]
           e == call[c].entry
<1>1. /\ call[c].at = "running" /\ call[c].request = "ok"
      /\ UNCHANGED <<entries, bindings, sessions, lost>>
      /\ made' = [made EXCEPT ![e].worker = NoCaller] /\ AfterCall(c)
  BY DEF Return, AfterCall, hostVars
<1>2. /\ entries[k] = e /\ e # NoEntry /\ e \in DOMAIN made /\ made[e] \in EntryRecord
      /\ ~made[e].tainted /\ made \in Seq(EntryRecord) /\ CallsOK
  BY <1>1, AtItsEntry DEF PoolIInv, AtEntry
<1>3. /\ \A u \in Runtimes : k \in bindings[u] => Sound(k, u, sessions, lost)
      /\ made[e].started => Sound(k, made[e].runtime, sessions, lost)
  BY <1>1, <1>2 DEF MyLane, EntryLane, BindingLane, Excused
<1>4. made'[e].started = made[e].started /\ ~made'[e].tainted /\ made'[e].runtime = made[e].runtime
  BY <1>1, <1>2 DEF EntryRecord
<1>5. call'[c] \in {Resting, [Resting EXCEPT !.at = "close"]}
  BY <1>1, <1>2 DEF AfterCall, CallsOK
<1> HIDE DEF e, k
<1> QED
  BY <1>1, <1>2, <1>3, <1>4, <1>5, CalmAfter DEF k

LEMMA DiscardLane ==
  ASSUME PoolIInv, NEW c \in Callers, MyLane(c), Discard(c)
  PROVE  MyLane(c)'
<1> DEFINE k == ScopeOf[c]
           e == call[c].entry
           r == made[e].runtime
<1>1. /\ call[c].at = "running" /\ UNCHANGED <<bindings, sessions, lost>>
      /\ entries' = Without(k, e) /\ Ask(c, e, r, "discarding")
  BY DEF Discard, Ask
<1>2. /\ entries[k] = e /\ k \in Scopes /\ CallsOK /\ entries \in [Scopes -> Nat]
  BY <1>1, AtItsEntry DEF PoolIInv, TableOK, AtEntry
<1>3. /\ entries'[k] = NoEntry /\ call'[c].at = "discarding" /\ call'[c].runtime = r
      /\ call'[c].request = "asked"
  BY <1>1, <1>2 DEF Without, Ask, CallsOK
<1>4. call[c].runtime = r
  BY <1>1, <1>2 DEF MyLane, EntryLane
<1>5. BindingLane(k, call'[c], bindings', sessions', lost')
  BY <1>1, <1>3, <1>4 DEF MyLane, BindingLane, Excused
<1>6. EntryLane(k, call'[c], NoEntry, made', sessions', lost')
  BY <1>3 DEF EntryLane, AtEntry
<1> QED
  BY <1>3, <1>5, <1>6 DEF MyLane

LEMMA ForgottenLane ==
  ASSUME PoolIInv, NEW c \in Callers, MyLane(c), Discarded(c) \/ Closed(c)
  PROVE  MyLane(c)'
<1> DEFINE k == ScopeOf[c]
           e == entries[k]
           r == call[c].runtime
<1>1. /\ call[c].at \in {"discarding", "closing"} /\ call[c].request \in {"ok", "failed"}
      /\ Forget(c) /\ AfterCall(c) /\ UNCHANGED <<entries, sessions, lost>>
  BY DEF Discarded, Closed, AfterCall
<1>2. /\ k \in Scopes /\ CallsOK /\ r \in Runtimes /\ bindings \in [Runtimes -> SUBSET Scopes]
  BY <1>1, WhomItAsked DEF PoolIInv, Asking, HostsOK
<1>3. call'[c] \in {Resting, [Resting EXCEPT !.at = "close"]}
  BY <1>1, <1>2 DEF AfterCall, CallsOK
<1>4. ASSUME NEW u \in Runtimes, k \in bindings'[u] PROVE Sound(k, u, sessions', lost')
  <2>1. k \in bindings[u] /\ (call[c].request = "ok" => u # r)
    BY <1>1, <1>2, <1>4 DEF Forget
  <2>2. Sound(k, u, sessions, lost)
    BY <1>1, <2>1 DEF MyLane, BindingLane, Excused
  <2> QED
    BY <1>1, <2>2
<1>5. ASSUME e # NoEntry
      PROVE  /\ ~made'[e].tainted
             /\ made'[e].started => Sound(k, made'[e].runtime, sessions', lost')
  <2>1. /\ ~made[e].tainted /\ (made[e].started => Sound(k, made[e].runtime, sessions, lost))
        /\ call[c].at = "closing" /\ call[c].entry = e
    BY <1>1, <1>5 DEF MyLane, EntryLane
  <2>2. e \in DOMAIN made /\ made[e] \in EntryRecord /\ made \in Seq(EntryRecord)
    BY <1>2, <1>5, EntryOfScope DEF PoolIInv, TableOK
  <2>3. made' = [made EXCEPT ![e].worker = NoCaller]
    BY <1>5, <2>1 DEF Closed, Discarded
  <2>4. made'[e].started = made[e].started /\ ~made'[e].tainted /\ made'[e].runtime = made[e].runtime
    BY <2>1, <2>2, <2>3 DEF EntryRecord
  <2> QED
    BY <1>1, <2>1, <2>4
<1> HIDE DEF e, k
<1>6. entries'[k] = e
  BY <1>1 DEF e
<1> QED
  BY <1>3, <1>4, <1>5, <1>6, CalmAfter DEF k

LEMMA ClosingLane ==
  ASSUME PoolIInv, NEW c \in Callers, MyLane(c), CloseSession(c)
  PROVE  MyLane(c)'
<1> DEFINE k == ScopeOf[c]
           e == entries[k]
<1>1. /\ call[c].at = "close" /\ UNCHANGED <<entries, made, bindings, sessions, lost>>
  BY DEF CloseSession, poolVars, hostVars, Ask
<1>2. /\ \A u \in Runtimes : k \in bindings[u] => Sound(k, u, sessions, lost)
      /\ e # NoEntry => ~made[e].tainted /\ (made[e].started => Sound(k, made[e].runtime, sessions, lost))
      /\ CallsOK /\ call[c] \in CallRecord /\ call[c].request \notin {"serving", "uncertain"}
  <2>1. call[c].at \notin Busy /\ call[c].request \notin {"serving", "uncertain"}
    BY <1>1 DEF Busy, MyLane, EntryLane
  <2> QED
    BY <2>1, CalmLane DEF PoolIInv, CallsOK
<1>3. BindingLane(k, call'[c], bindings', sessions', lost')
  BY <1>1, <1>2 DEF BindingLane
<1>4. CASE e # NoEntry /\ call' = [call EXCEPT ![c] = [call[c] EXCEPT !.at = "closelock", !.entry = e]]
  <2>1. call'[c].at = "closelock" /\ call'[c].entry = e /\ call'[c].request = call[c].request
    BY <1>2, <1>4 DEF CallsOK, CallRecord
  <2>2. EntryLane(k, call'[c], e, made', sessions', lost')
    BY <1>1, <1>2, <1>4, <2>1 DEF EntryLane, AtEntry
  <2> QED
    BY <1>1, <1>3, <2>2 DEF MyLane
<1>5. CASE e = NoEntry /\ Ask(c, NoEntry, runtime, "closing")
  <2>1. call'[c].at = "closing" /\ call'[c].entry = NoEntry /\ call'[c].request = "asked"
    BY <1>2, <1>5 DEF Ask, CallsOK
  <2>2. EntryLane(k, call'[c], e, made', sessions', lost')
    BY <1>5, <2>1 DEF EntryLane, AtEntry
  <2> QED
    BY <1>1, <1>3, <2>2 DEF MyLane
<1>6. CASE e = NoEntry /\ call' = [call EXCEPT ![c] = Resting]
  <2>1. call'[c].at = "rest" /\ call'[c].request = "none"
    BY <1>2, <1>6 DEF CallsOK, Resting
  <2>2. EntryLane(k, call'[c], e, made', sessions', lost')
    BY <1>6, <2>1 DEF EntryLane, AtEntry
  <2> QED
    BY <1>1, <1>3, <2>2 DEF MyLane
<1> QED
  BY <1>4, <1>5, <1>6 DEF CloseSession


LEMMA OpenServedLane ==
  ASSUME PoolIInv, NEW c \in Callers, MyLane(c), ServeOpen(c)
  PROVE  MyLane(c)'
<1> DEFINE k == ScopeOf[c]
           e == call[c].entry
           r == call[c].runtime
           x == call'[c]
<1>1. /\ call[c].at = "opening" /\ call[c].request = "asked"
      /\ UNCHANGED <<entries, made, bindings>>
  BY DEF ServeOpen, Asked, poolVars
<1>2. /\ entries[k] = e /\ e # NoEntry /\ r \in Runtimes /\ k \in Scopes /\ CallsOK /\ HostsOK
      /\ ~made[e].tainted /\ made[e].runtime \in Runtimes
  BY <1>1, AtItsEntry, WhomItAsked DEF PoolIInv, AtEntry, Asking
<1>3. /\ \A u \in Runtimes : k \in bindings[u] => Sound(k, u, sessions, lost)
      /\ made[e].started => Sound(k, made[e].runtime, sessions, lost)
      /\ call[c].entry = e /\ r = made[e].runtime
  BY <1>1, <1>2, CalmLane DEF Busy, MyLane, EntryLane
<1>4. /\ x.at = "opening" /\ x.entry = e /\ x.runtime = r /\ x.request \in {"ok", "failed"}
      /\ x.request = "ok" => sessions' = [sessions EXCEPT ![r][k] = "bound"]
                             /\ lost' = [lost EXCEPT ![r] = @ \ {k}]
      /\ x.request = "failed" => UNCHANGED lost /\
            sessions' = [sessions EXCEPT ![r][k] = IF @ = "absent" THEN "unbound" ELSE @]
  <2>1. CASE /\ sessions' = [sessions EXCEPT ![r][k] = "bound"]
             /\ lost' = [lost EXCEPT ![r] = @ \ {k}]
             /\ call' = [call EXCEPT ![c].request = "ok"]
    BY <1>1, <1>2, <2>1 DEF CallsOK, CallRecord
  <2>2. CASE /\ sessions' = [sessions EXCEPT ![r][k] = IF @ = "absent" THEN "unbound" ELSE @]
             /\ call' = [call EXCEPT ![c].request = "failed"] /\ UNCHANGED lost
    BY <1>1, <1>2, <2>2 DEF CallsOK, CallRecord
  <2> QED
    BY <2>1, <2>2 DEF ServeOpen
<1>5. ASSUME NEW u \in Runtimes, Sound(k, u, sessions, lost)
      PROVE  Sound(k, u, sessions', lost')
  BY <1>2, <1>4, <1>5 DEF Sound, HostsOK
<1>6. x.request = "ok" => Sound(k, r, sessions', lost')
  BY <1>2, <1>4 DEF Sound, HostsOK
<1> HIDE DEF x, e, k, r
<1>7. BindingLane(k, x, bindings', sessions', lost')
  BY <1>1, <1>3, <1>5 DEF BindingLane
<1>8. EntryLane(k, x, e, made', sessions', lost')
  BY <1>1, <1>2, <1>3, <1>4, <1>5, <1>6 DEF EntryLane, AtEntry
<1> QED
  BY <1>1, <1>2, <1>7, <1>8 DEF MyLane, x, k

LEMMA RunServedLane ==
  ASSUME PoolIInv, NEW c \in Callers, MyLane(c), ServeRun(c)
  PROVE  MyLane(c)'
<1> DEFINE k == ScopeOf[c]
           e == call[c].entry
           r == call[c].runtime
           x == call'[c]
<1>1. /\ call[c].at = "running" /\ call[c].request = "asked"
      /\ UNCHANGED <<entries, made, bindings, lost>>
      /\ sessions' = [sessions EXCEPT ![r][k] = IF @ = "absent" THEN "unbound" ELSE @]
      /\ call' = [call EXCEPT ![c].request = "serving"]
  BY DEF ServeRun, Asked, poolVars
<1>2. /\ entries[k] = e /\ e # NoEntry /\ r \in Runtimes /\ k \in Scopes /\ CallsOK /\ HostsOK
      /\ ~made[e].tainted /\ made[e].runtime \in Runtimes
  BY <1>1, AtItsEntry, WhomItAsked DEF PoolIInv, AtEntry, Asking
<1>3. /\ \A u \in Runtimes : k \in bindings[u] => Sound(k, u, sessions, lost)
      /\ Sound(k, made[e].runtime, sessions, lost)
      /\ r = made[e].runtime /\ made[e].started
  BY <1>1, <1>2 DEF MyLane, EntryLane, BindingLane, Excused
<1>4. x.at = "running" /\ x.entry = e /\ x.runtime = r /\ x.request = "serving"
  BY <1>1, <1>2 DEF CallsOK, CallRecord
<1>5. ASSUME NEW u \in Runtimes, Sound(k, u, sessions, lost)
      PROVE  Sound(k, u, sessions', lost')
  BY <1>1, <1>2, <1>5 DEF Sound, HostsOK
<1> HIDE DEF x, e, k, r
<1>6. BindingLane(k, x, bindings', sessions', lost')
  BY <1>1, <1>3, <1>5 DEF BindingLane
<1>7. EntryLane(k, x, e, made', sessions', lost')
  BY <1>1, <1>2, <1>3, <1>4, <1>5 DEF EntryLane, AtEntry
<1> QED
  BY <1>1, <1>2, <1>6, <1>7 DEF MyLane, x, k

LEMMA AnsweredLane ==
  ASSUME PoolIInv, NEW c \in Callers, MyLane(c), Answer(c)
  PROVE  MyLane(c)'
<1> DEFINE k == ScopeOf[c]
           e == call[c].entry
           r == call[c].runtime
           x == call'[c]
<1>1. /\ call[c].request = "serving" /\ call[c].at = "running"
      /\ UNCHANGED <<entries, made, bindings, lost>>
      /\ \/ UNCHANGED sessions /\ (\/ call' = [call EXCEPT ![c].request = "ok"]
                                   \/ call' = [call EXCEPT ![c].request = "failed"])
         \/ /\ call' = [call EXCEPT ![c].request = "uncertain"]
            /\ UNCHANGED sessions \/ sessions' = [sessions EXCEPT ![r][k] = "unbound"]
  <2>1. call[c].at = "running"
    BY DEF Answer, MyLane, EntryLane
  <2> QED
    BY <2>1 DEF Answer, poolVars
<1>2. /\ entries[k] = e /\ e # NoEntry /\ r \in Runtimes /\ k \in Scopes /\ CallsOK /\ HostsOK
      /\ ~made[e].tainted /\ made[e].runtime \in Runtimes
  BY <1>1, AtItsEntry, WhomItAsked DEF PoolIInv, AtEntry, Asking
<1>3. /\ \A u \in Runtimes : k \in bindings[u] => Sound(k, u, sessions, lost)
      /\ Sound(k, made[e].runtime, sessions, lost)
      /\ r = made[e].runtime /\ made[e].started
  BY <1>1, <1>2 DEF MyLane, EntryLane, BindingLane, Excused
<1>4. /\ x.at = "running" /\ x.entry = e /\ x.runtime = r
      /\ x.request \in {"ok", "failed", "uncertain"}
      /\ x.request # "uncertain" => UNCHANGED sessions
  <2>1. CASE UNCHANGED sessions /\ (\/ call' = [call EXCEPT ![c].request = "ok"]
                                    \/ call' = [call EXCEPT ![c].request = "failed"])
    BY <1>1, <1>2, <2>1 DEF CallsOK, CallRecord
  <2>2. CASE call' = [call EXCEPT ![c].request = "uncertain"]
    BY <1>1, <1>2, <2>2 DEF CallsOK, CallRecord
  <2> QED
    BY <1>1, <2>1, <2>2
<1>5. ASSUME NEW u \in Runtimes, Sound(k, u, sessions, lost)
      PROVE  Sound(k, u, sessions', lost') \/ (u = r /\ x.request = "uncertain")
  <2>1. CASE UNCHANGED sessions
    BY <1>1, <1>5, <2>1 DEF Sound
  <2>2. CASE sessions' = [sessions EXCEPT ![r][k] = "unbound"] /\ x.request = "uncertain"
    BY <1>1, <1>2, <1>5, <2>2 DEF Sound, HostsOK
  <2> QED
    BY <1>1, <1>4, <2>1, <2>2
<1> HIDE DEF x, e, k, r
<1>6. BindingLane(k, x, bindings', sessions', lost')
  BY <1>1, <1>3, <1>4, <1>5 DEF BindingLane, Excused
<1>7. EntryLane(k, x, e, made', sessions', lost')
  BY <1>1, <1>2, <1>3, <1>4, <1>5 DEF EntryLane, AtEntry
<1> QED
  BY <1>1, <1>2, <1>6, <1>7 DEF MyLane, x, k

LEMMA CloseServedLane ==
  ASSUME PoolIInv, NEW c \in Callers, MyLane(c), ServeClose(c)
  PROVE  MyLane(c)'
<1> DEFINE k == ScopeOf[c]
           e == entries[k]
           r == call[c].runtime
           x == call'[c]
<1>1. /\ call[c].at \in {"discarding", "closing"} /\ call[c].request = "asked"
      /\ UNCHANGED <<entries, made, bindings>>
      /\ \/ CloseFails(r, k)
         \/ /\ sessions' = [sessions EXCEPT ![r][k] = "absent"]
            /\ lost' = IF call[c].entry # NoEntry /\ ~made[call[c].entry].tainted
                       THEN [lost EXCEPT ![r] = @ \cup {k}] ELSE lost
  BY DEF ServeClose, Asked, poolVars, SessionGoes
<1>2. /\ r \in Runtimes /\ k \in Scopes /\ HostsOK /\ call[c] \in CallRecord
      /\ e # NoEntry => made[e].runtime \in Runtimes
  <2>1. r \in Runtimes /\ k \in Scopes /\ call[c] \in CallRecord /\ HostsOK
    BY <1>1, WhomItAsked DEF Asking, PoolIInv
  <2> QED
    BY <2>1, EntryOfScope
<1>3. /\ x.at = call[c].at /\ x.entry = call[c].entry /\ x.runtime = r
      /\ x.request = "ok" \/ (x.request = "failed" /\ CloseFails(r, k))
  <2>1. PICK answer \in {"ok", "failed"} :
           x = EndedAs(call[c], answer) /\ (answer = "failed" => CloseFails(r, k))
    BY ServeCloseSteps
  <2>2. answer \in Requests
    BY DEF Requests
  <2>3. /\ EndedAs(call[c], answer).at = call[c].at /\ EndedAs(call[c], answer).entry = call[c].entry
        /\ EndedAs(call[c], answer).runtime = r /\ EndedAs(call[c], answer).request = answer
    BY <1>2, <2>2, EndedCall
  <2> HIDE DEF x
  <2> QED
    BY <2>1, <2>3
<1>4. /\ e # NoEntry => /\ ~made[e].tainted /\ call[c].at = "closing"
                        /\ made[e].started => Sound(k, made[e].runtime, sessions, lost)
      /\ e # NoEntry => call[c].entry = e /\ r = made[e].runtime
  BY <1>1 DEF MyLane, EntryLane
<1>5. ASSUME NEW u \in Runtimes, u # r, Sound(k, u, sessions, lost)
      PROVE  Sound(k, u, sessions', lost')
  <2>1. CASE CloseFails(r, k)
    BY <1>2, <1>5, <2>1, CloseLeaves DEF Sound, HostsOK
  <2>2. CASE sessions' = [sessions EXCEPT ![r][k] = "absent"]
    BY <1>1, <1>2, <1>5, <2>2 DEF Sound, HostsOK, CloseFails
  <2> QED
    BY <1>1, <2>1, <2>2
<1>6. CloseFails(r, k) \/ e # NoEntry => Sound(k, r, sessions', lost')
  <2>1. CASE CloseFails(r, k)
    BY <1>2, <2>1, CloseLeaves DEF Sound
  <2>2. CASE ~CloseFails(r, k)
    BY <1>1, <1>2, <1>4, <2>2 DEF Sound, HostsOK
  <2> QED
    BY <2>1, <2>2
<1>7. \A u \in Runtimes : k \in bindings[u] =>
         Sound(k, u, sessions, lost) \/ (r = u /\ Excused(call[c]))
  BY DEF MyLane, BindingLane
<1> HIDE DEF x, e, k, r
<1>8. BindingLane(k, x, bindings', sessions', lost')
  <2>1. CASE x.request = "ok"
    <3>1. Excused(x)
      BY <1>1, <1>3, <2>1 DEF Excused
    <3> QED
      BY <1>1, <1>3, <1>5, <1>7, <3>1 DEF BindingLane
  <2>2. CASE CloseFails(r, k)
    BY <1>1, <1>3, <1>5, <1>6, <1>7, <2>2 DEF BindingLane
  <2> QED
    BY <1>3, <2>1, <2>2
<1>9. EntryLane(k, x, e, made', sessions', lost')
  BY <1>1, <1>2, <1>3, <1>4, <1>5, <1>6 DEF EntryLane, AtEntry
<1> QED
  BY <1>1, <1>2, <1>8, <1>9 DEF MyLane, x, k, e


LEMMA AbortLane ==
  ASSUME PoolIInv, NEW c \in Callers, MyLane(c), Abort(c) PROVE MyLane(c)'
<1> DEFINE k == ScopeOf[c]
<1>1. /\ call[c].at = "rest" /\ entries' = Without(k, entries[k])
      /\ UNCHANGED <<bindings, sessions, lost>>
      /\ \/ Ask(c, NoEntry, made[entries[k]].runtime, "closing")
         \/ UNCHANGED call
  BY DEF Abort, Calls, Ask, hostVars
<1>2. k \in Scopes /\ CallsOK /\ entries \in [Scopes -> Nat]
  BY PoolAssumption DEF PoolIInv, TableOK
<1>3. entries'[k] = NoEntry
  BY <1>1, <1>2 DEF Without
<1>4. \/ call'[c].at = "closing" /\ call'[c].request = "asked"
      \/ call'[c].at = "rest" /\ call'[c].request = call[c].request
  BY <1>1, <1>2 DEF Ask, CallsOK
<1>5. call[c].request \notin {"serving", "uncertain"}
  BY <1>1 DEF MyLane, EntryLane
<1>6. \A u \in Runtimes : k \in bindings'[u] => Sound(k, u, sessions', lost')
  BY <1>1, CalmLane DEF Busy
<1>7. BindingLane(k, call'[c], bindings', sessions', lost')
  BY <1>6 DEF BindingLane
<1>8. EntryLane(k, call'[c], NoEntry, made', sessions', lost')
  BY <1>4, <1>5 DEF EntryLane, AtEntry
<1> QED
  BY <1>3, <1>7, <1>8 DEF MyLane

LEMMA ScopeGivenUpLane ==
  ASSUME PoolIInv, NEW c \in Callers, MyLane(c), CloseScope(c) PROVE MyLane(c)'
<1> DEFINE k == ScopeOf[c]
<1>1. /\ call[c].at = "rest" /\ entries' = Without(k, entries[k])
      /\ call' = [call EXCEPT ![c] = [Resting EXCEPT !.at = "scopelock", !.entry = entries[k]]]
      /\ UNCHANGED <<bindings, sessions, lost>>
  BY DEF CloseScope, Calls, hostVars
<1>2. k \in Scopes /\ CallsOK /\ entries \in [Scopes -> Nat]
  BY PoolAssumption DEF PoolIInv, TableOK
<1>3. entries'[k] = NoEntry
  BY <1>1, <1>2 DEF Without
<1>4. call'[c].at = "scopelock" /\ call'[c].request = "none"
  BY <1>1, <1>2 DEF CallsOK, Resting
<1>5. \A u \in Runtimes : k \in bindings'[u] => Sound(k, u, sessions', lost')
  BY <1>1, CalmLane DEF Busy
<1>6. BindingLane(k, call'[c], bindings', sessions', lost')
  BY <1>5 DEF BindingLane
<1>7. EntryLane(k, call'[c], NoEntry, made', sessions', lost')
  BY <1>4 DEF EntryLane, AtEntry
<1> QED
  BY <1>3, <1>6, <1>7 DEF MyLane

LEMMA ScopeTakenLane ==
  ASSUME PoolIInv, NEW c \in Callers, MyLane(c), CloseScopeLocked(c) PROVE MyLane(c)'
<1> DEFINE k == ScopeOf[c]
<1>1. /\ call[c].at = "scopelock" /\ UNCHANGED <<entries, bindings, sessions, lost>>
      /\ \/ Ask(c, call[c].entry, made[call[c].entry].runtime, "closing")
         \/ call' = [call EXCEPT ![c] = Resting]
  BY DEF CloseScopeLocked, Ask, hostVars
<1>2. CallsOK /\ entries[k] = NoEntry
  BY <1>1 DEF PoolIInv, MyLane, EntryLane
<1>3. \/ call'[c].at = "closing" /\ call'[c].request = "asked"
      \/ call'[c].at = "rest" /\ call'[c].request = "none"
  BY <1>1, <1>2 DEF Ask, CallsOK, Resting
<1>4. \A u \in Runtimes : k \in bindings'[u] => Sound(k, u, sessions', lost')
  BY <1>1, CalmLane DEF Busy
<1>5. BindingLane(k, call'[c], bindings', sessions', lost')
  BY <1>4 DEF BindingLane
<1>6. EntryLane(k, call'[c], NoEntry, made', sessions', lost')
  BY <1>3 DEF EntryLane, AtEntry
<1> QED
  BY <1>1, <1>2, <1>5, <1>6 DEF MyLane

(* A host ends what its sessions were, and answers who waits for it.        *)
LEMMA HostLane ==
  ASSUME PoolIInv, NEW c \in Callers, MyLane(c), UNCHANGED <<entries, made>>,
         NEW r \in Runtimes,
         \A u \in Runtimes : ScopeOf[c] \in bindings'[u] => ScopeOf[c] \in bindings[u],
         \A u \in Runtimes : Sound(ScopeOf[c], u, sessions, lost)
                                => Sound(ScopeOf[c], u, sessions', lost'),
         \/ call'[c] = call[c]
         \/ /\ call'[c] = EndedAs(call[c], "failed") /\ call[c].runtime = r
            /\ call[c].request \in {"asked", "serving"}
            /\ Sound(ScopeOf[c], r, sessions', lost')
  PROVE  MyLane(c)'
<1> DEFINE k == ScopeOf[c]
           e == entries[k]
           y == call[c]
           x == call'[c]
<1>1. /\ x.at = y.at /\ x.entry = y.entry /\ x.runtime = y.runtime
      /\ \/ x.request = y.request
         \/ /\ x.request = "failed" /\ y.runtime = r /\ y.request \in {"asked", "serving"}
            /\ Sound(k, r, sessions', lost')
  <2>1. call[c] \in CallRecord
    BY DEF PoolIInv, CallsOK
  <2> QED
    BY <2>1, EndedCall DEF Requests
<1>2. /\ e # NoEntry => made[e].runtime \in Runtimes
      /\ y.at \in Asking => y.runtime \in Runtimes
  BY EntryOfScope, WhomItAsked, PoolAssumption
<1>3. EntryLane(k, y, e, made, sessions, lost) /\ BindingLane(k, y, bindings, sessions, lost)
  BY DEF MyLane
<1> HIDE DEF k, e, x, y
<1>4. EntryLane(k, x, e, made, sessions', lost')
  BY <1>1, <1>2, <1>3 DEF EntryLane, AtEntry, Asking, k
<1>5. BindingLane(k, x, bindings', sessions', lost')
  BY <1>1, <1>3 DEF BindingLane, Excused, k
<1> QED
  BY <1>4, <1>5 DEF MyLane, k, e, x

(* Who rests while the pool is shut down has no entry.                      *)
LEMMA RestingLane ==
  ASSUME NEW c \in Callers, entries'[ScopeOf[c]] = NoEntry, call'[c] = call[c],
         call[c].at = "rest", MyLane(c),
         \A r \in Runtimes : ScopeOf[c] \in bindings'[r] =>
            /\ ScopeOf[c] \in bindings[r]
            /\ Sound(ScopeOf[c], r, sessions, lost) => Sound(ScopeOf[c], r, sessions', lost')
  PROVE  MyLane(c)'
<1>1. call[c].request \notin {"serving", "uncertain"}
  BY DEF MyLane, EntryLane
<1>2. BindingLane(ScopeOf[c], call[c], bindings', sessions', lost')
  BY <1>1 DEF MyLane, BindingLane, Excused
<1>3. EntryLane(ScopeOf[c], call[c], NoEntry, made', sessions', lost')
  BY <1>1 DEF EntryLane, AtEntry
<1> QED
  BY <1>2, <1>3 DEF MyLane

LEMMA LanesStart == Init => LaneIInv
<1> SUFFICES ASSUME Init PROVE LaneIInv
  OBVIOUS
<1>1. PoolIInv
  BY PoolStarts
<1>2. ShutDownAtRest
  BY DEF Init, NotClosing, ShutDownAtRest
<1>3. ASSUME NEW c \in Callers PROVE MyLane(c)
  <2>1. ScopeOf[c] \in Scopes /\ call[c] = Resting /\ entries[ScopeOf[c]] = NoEntry
        /\ \A r \in Runtimes : bindings[r] = {}
    BY PoolAssumption DEF Init
  <2> QED
    BY <2>1 DEF MyLane, EntryLane, BindingLane, AtEntry, Resting
<1> QED
  BY <1>1, <1>2, <1>3 DEF LaneIInv

LEMMA CallerKeepsItsLane ==
  ASSUME OneCallerPerScope, CloseIsShutdown, LaneIInv, NEW c \in Callers, CallerStep(c)
  PROVE  LaneIInv'
<1>1. PoolIInv /\ MyLane(c) /\ "close" \notin Operations
  BY DEF LaneIInv, CloseIsShutdown
<1>2. PoolIInv' /\ OthersStay(ScopeOf[c])
  BY <1>1, CallerKeeps
<1>3. ~closing.active
  <2>1. call[c].at # "rest" \/ Calls(c)
    <3>1. call[c].request \in {"asked", "serving"} => call[c].at \in Asking
      BY WhomItAsked, <1>1
    <3> QED
      BY <3>1 DEF CallerStep, Begin, Starts, AlreadyStarted, Configure, StartFails, StartLocked, Opened,
        OpenRaises, Executes, Run, RunAgain, RunLocked, Return, Discard, Discarded, Closes,
        CloseSession, CloseLocked, Closed, CloseScopeLocked, Serves, ServeOpen, ServeRun, Answer,
        ServeClose, Asked, Asking, Abort, CloseScope
  <2> QED
    BY <1>1, <2>1 DEF LaneIInv, ShutDownAtRest, Calls
<1>4. ShutDownAtRest'
  BY <1>2, <1>3 DEF LaneIInv, ShutDownAtRest, OthersStay
<1>5. MyLane(c)'
  <2>1. CASE \E kind \in {"execute", "prepare"} : Begin(c, kind)
    <3>1. PICK kind \in {"execute", "prepare"} : Begin(c, kind)
      BY <2>1
    <3>2. EnterPool(c, kind, made) /\ UNCHANGED hostVars /\ call[c].at \notin Busy
      BY <3>1 DEF Begin, Calls, Busy
    <3> QED
      BY <1>1, <3>2, BeginLane
  <2>2. CASE Starts(c)
    BY <1>1, <2>2, StartingLane, RaisingLane, OpenedLane DEF Starts
  <2>3. CASE Executes(c)
    <3>1. ~RunAgain(c)
      BY <1>1, AtItsEntry DEF RunAgain, RunLocked, AtEntry
    <3> QED
      BY <1>1, <2>3, <3>1, LockingLane, ReturnLane, DiscardLane, ForgottenLane DEF Executes
  <2>4. CASE Closes(c)
    BY <1>1, <2>4, ClosingLane, LockingLane, ForgottenLane, ScopeTakenLane DEF Closes
  <2>5. CASE Serves(c)
    BY <1>1, <2>5, OpenServedLane, RunServedLane, AnsweredLane, CloseServedLane DEF Serves
  <2> QED
    BY <1>1, <2>1, <2>2, <2>3, <2>4, <2>5, AbortLane, ScopeGivenUpLane DEF CallerStep
<1>6. ASSUME NEW d \in Callers, d # c PROVE MyLane(d)'
  <2>1. ScopeOf[d] # ScopeOf[c]
    BY <1>6 DEF OneCallerPerScope
  <2> QED
    BY <1>1, <1>2, <2>1, OtherLane DEF LaneIInv
<1> QED
  BY <1>2, <1>4, <1>5, <1>6 DEF LaneIInv

LEMMA HostReapsLanes ==
  ASSUME LaneIInv, NEW r \in Runtimes, NEW k \in Scopes, HostReaps(r, k) PROVE LaneIInv'
<1>1. /\ PoolIInv /\ PoolIInv' /\ OthersStay(k) /\ UNCHANGED <<made, entries, bindings, call>>
      /\ k \in lost'[r]
      /\ \A u \in Runtimes : u # r => sessions'[u] = sessions[u] /\ lost'[u] = lost[u]
  BY HostReapsSteps DEF LaneIInv
<1>2. ASSUME NEW c \in Callers PROVE MyLane(c)'
  <2>1. CASE ScopeOf[c] # k
    BY <1>1, <2>1, OtherLane DEF LaneIInv
  <2>2. CASE ScopeOf[c] = k
    <3>1. \A u \in Runtimes : Sound(k, u, sessions, lost) => Sound(k, u, sessions', lost')
      BY <1>1 DEF Sound
    <3> QED
      BY <1>1, <2>2, <3>1, HostLane DEF LaneIInv
  <2> QED
    BY <2>1, <2>2
<1>3. ShutDownAtRest'
  BY <1>1 DEF LaneIInv, ShutDownAtRest, OthersStay
<1> QED
  BY <1>1, <1>2, <1>3 DEF LaneIInv

LEMMA DownLanes ==
  ASSUME LaneIInv, PoolIInv', NEW r \in Runtimes, Down(r), UNCHANGED <<entries, made>>,
         UNCHANGED bindings \/ bindings' = [bindings EXCEPT ![r] = {}]
  PROVE  /\ \A c \in Callers : MyLane(c)'
         /\ \A c \in Callers : call'[c].at = call[c].at
<1>1. HostsOK /\ CallsOK /\ MadeGrows /\ PoolIInv
  BY EntriesStay DEF LaneIInv, PoolIInv, TableOK
<1>2. /\ lost'[r] = Scopes
      /\ \A u \in Runtimes : u # r => sessions'[u] = sessions[u] /\ lost'[u] = lost[u]
      /\ \A d \in Callers : call'[d] = IF call[d].runtime = r /\ call[d].request \in {"asked", "serving"}
                                       THEN EndedAs(call[d], "failed") ELSE call[d]
  BY <1>1, DownSteps
<1>3. ASSUME NEW c \in Callers PROVE MyLane(c)' /\ call'[c].at = call[c].at
  <2>1. ScopeOf[c] \in Scopes /\ MyLane(c) /\ call[c] \in CallRecord
    BY <1>1, PoolAssumption DEF LaneIInv, CallsOK
  <2>2. /\ \A u \in Runtimes : Sound(ScopeOf[c], u, sessions, lost)
                                  => Sound(ScopeOf[c], u, sessions', lost')
        /\ Sound(ScopeOf[c], r, sessions', lost')
    BY <1>2, <2>1 DEF Sound
  <2>3. \A u \in Runtimes : ScopeOf[c] \in bindings'[u] => ScopeOf[c] \in bindings[u]
    BY <1>1 DEF HostsOK
  <2>4. MyLane(c)'
    BY <1>1, <1>2, <2>1, <2>2, <2>3, HostLane
  <2> QED
    BY <1>2, <2>1, <2>4, EndedCall DEF Requests
<1> QED
  BY <1>3

LEMMA HostExitsLanes ==
  ASSUME LaneIInv, NEW r \in Runtimes, HostExits(r) PROVE LaneIInv'
<1>1. PoolIInv' /\ Down(r) /\ UNCHANGED <<entries, made, bindings, closing>>
  BY HostExitsSteps DEF LaneIInv, HostExits, poolVars
<1>2. (\A c \in Callers : MyLane(c)') /\ \A c \in Callers : call'[c].at = call[c].at
  BY <1>1, DownLanes
<1>3. ShutDownAtRest'
  BY <1>1, <1>2 DEF LaneIInv, ShutDownAtRest
<1> QED
  BY <1>1, <1>2, <1>3 DEF LaneIInv

LEMMA CloseRuntimeLanes ==
  ASSUME LaneIInv, CloseRuntime PROVE LaneIInv'
<1>1. /\ PoolIInv' /\ Down(runtime) /\ UNCHANGED <<entries, made>> /\ runtime \in Runtimes
      /\ bindings' = [bindings EXCEPT ![runtime] = {}] /\ closing' = NotClosing
  BY CloseRuntimeSteps DEF LaneIInv, CloseRuntime, PoolIInv, BuiltOK
<1>2. \A c \in Callers : MyLane(c)'
  BY <1>1, DownLanes
<1>3. ShutDownAtRest'
  BY <1>1 DEF ShutDownAtRest, NotClosing
<1> QED
  BY <1>1, <1>2, <1>3 DEF LaneIInv

LEMMA CloseLanes ==
  ASSUME CloseIsShutdown, LaneIInv, Close PROVE LaneIInv'
<1>1. /\ PoolIInv' /\ \A k \in Scopes : entries'[k] = NoEntry
      /\ \A c \in Callers : call[c].at = "rest"
      /\ UNCHANGED <<bindings, sessions, lost, call>>
      /\ closing'.active
  BY CloseSteps DEF LaneIInv, Close, CloseIsShutdown, hostVars, callVars
<1>2. ASSUME NEW c \in Callers PROVE MyLane(c)'
  <2>1. entries'[ScopeOf[c]] = NoEntry /\ MyLane(c) /\ call'[c] = call[c] /\ call[c].at = "rest"
    BY <1>1, PoolAssumption DEF LaneIInv
  <2>2. \A r \in Runtimes : ScopeOf[c] \in bindings'[r] =>
            /\ ScopeOf[c] \in bindings[r]
            /\ Sound(ScopeOf[c], r, sessions, lost) => Sound(ScopeOf[c], r, sessions', lost')
    BY <1>1
  <2> QED
    BY <2>1, <2>2, RestingLane
<1>3. ShutDownAtRest'
  BY <1>1 DEF ShutDownAtRest
<1> QED
  BY <1>1, <1>2, <1>3 DEF LaneIInv

LEMMA CloseTakenLanes ==
  ASSUME LaneIInv, NEW e \in closing.left, CloseTaken(e) PROVE LaneIInv'
<1> DEFINE k == made[e].scope
           r == made[e].runtime
<1>1. /\ PoolIInv' /\ closing' = [closing EXCEPT !.left = @ \ {e}]
      /\ \/ SessionGoes(r, k) /\ bindings' = [bindings EXCEPT ![r] = @ \ {k}] /\ UNCHANGED lost
         \/ CloseFails(r, k) /\ UNCHANGED bindings
      /\ call' = AfterClose(r, k) /\ UNCHANGED entries
  BY CloseTakenSteps DEF LaneIInv, CloseTaken, poolVars
<1>2. /\ closing.active /\ \A c \in Callers : call[c].at = "rest"
      /\ \A j \in Scopes : entries[j] = NoEntry
  BY DEF LaneIInv, ShutDownAtRest
<1>3. HostsOK /\ CountsOK /\ CallsOK
  BY DEF LaneIInv, PoolIInv
<1>4. ASSUME NEW c \in Callers PROVE call'[c] = call[c]
  <2>1. call[c].request # "serving"
    BY <1>2, <1>3 DEF CallsOK, CallPlaced, Asking
  <2> QED
    BY <1>1, <1>3, <2>1, AfterCloseEnd
<1>5. r \in Runtimes /\ k \in Scopes
  <2>1. made[e] \in EntryRecord
    BY DEF LaneIInv, PoolIInv, TableOK, CountsOK
  <2> QED
    BY <2>1 DEF EntryRecord
<1>6. ASSUME NEW c \in Callers PROVE MyLane(c)'
  <2>1. entries'[ScopeOf[c]] = NoEntry /\ MyLane(c) /\ call'[c] = call[c] /\ call[c].at = "rest"
        /\ ScopeOf[c] \in Scopes
    BY <1>1, <1>2, <1>4, PoolAssumption DEF LaneIInv
  <2>2. ASSUME NEW u \in Runtimes, ScopeOf[c] \in bindings'[u]
        PROVE  /\ ScopeOf[c] \in bindings[u]
               /\ Sound(ScopeOf[c], u, sessions, lost) => Sound(ScopeOf[c], u, sessions', lost')
    <3>1. ScopeOf[c] \in bindings[u]
      BY <1>1, <1>3, <2>2 DEF HostsOK
    <3>2. ASSUME Sound(ScopeOf[c], u, sessions, lost) PROVE Sound(ScopeOf[c], u, sessions', lost')
      <4>1. CASE CloseFails(r, k)
        BY <1>3, <1>5, <2>1, <3>2, <4>1, CloseLeaves DEF Sound, HostsOK
      <4>2. CASE SessionGoes(r, k) /\ bindings' = [bindings EXCEPT ![r] = @ \ {k}] /\ UNCHANGED lost
        <5>1. u # r \/ ScopeOf[c] # k
          BY <1>3, <1>5, <2>2, <4>2 DEF HostsOK
        <5> QED
          BY <1>3, <1>5, <2>1, <3>2, <4>2, <5>1 DEF Sound, SessionGoes, HostsOK
      <4> QED
        BY <1>1, <4>1, <4>2
    <3> QED
      BY <3>1, <3>2
  <2> HIDE DEF k, r
  <2> QED
    BY <2>1, <2>2, RestingLane
<1>7. ShutDownAtRest'
  BY <1>1, <1>2, <1>3, <1>4 DEF ShutDownAtRest, CountsOK
<1> QED
  BY <1>1, <1>6, <1>7 DEF LaneIInv

LEMMA LanesKeep ==
  ASSUME OneCallerPerScope, CloseIsShutdown, LaneIInv, [Next]_vars PROVE LaneIInv'
<1>1. CASE \E c \in Callers : CallerStep(c)
  BY <1>1, CallerKeepsItsLane
<1>2. CASE \E e \in closing.left : CloseTaken(e)
  BY <1>2, CloseTakenLanes
<1>3. CASE \E r \in Runtimes : HostExits(r) \/ \E k \in Scopes : HostReaps(r, k)
  BY <1>3, HostExitsLanes, HostReapsLanes
<1>4. CASE UNCHANGED vars
  <2>1. PoolIInv'
    BY <1>4, PoolStutters DEF LaneIInv
  <2>2. ShutDownAtRest'
    BY <1>4 DEF vars, LaneIInv, ShutDownAtRest
  <2>3. \A c \in Callers : MyLane(c)'
    BY <1>4 DEF vars, LaneIInv, MyLane
  <2> QED
    BY <2>1, <2>2, <2>3 DEF LaneIInv
<1> QED
  BY <1>1, <1>2, <1>3, <1>4, CloseLanes, CloseRuntimeLanes DEF Next, CallerStep

LEMMA LanesAreSound == LaneIInv => CommandsRunInTheirDirectory
<1> SUFFICES ASSUME LaneIInv, NEW c \in Callers, call[c].request = "serving"
             PROVE  \/ sessions[call[c].runtime][ScopeOf[c]] = "bound"
                    \/ ScopeOf[c] \in lost[call[c].runtime]
  BY DEF CommandsRunInTheirDirectory
<1>1. MyLane(c)
  BY DEF LaneIInv
<1> QED
  BY <1>1 DEF MyLane, EntryLane, AtEntry, Sound

(* A command never runs in a session that the host made for it in its own   *)
(* directory, whatever fails, times out, is discarded, aborted, given up    *)
(* or shut down, unless the session had left the sight of its runtime:      *)
(* reaped, gone with its transport, closed under an entry that goes on      *)
(* believing in it, or left without its directory by a close that failed.   *)
(* This is so as long as each scope has one caller, as the write lane of    *)
(* a workspace has it, and the pool is closed while every caller rests, as  *)
(* the service does it.  Without either it is not true of the pool.         *)
THEOREM CommandsRunInTheirDirectoryHolds ==
  ASSUME OneCallerPerScope, CloseIsShutdown PROVE Spec => []CommandsRunInTheirDirectory
<1>1. Init => LaneIInv
  BY LanesStart
<1>2. LaneIInv /\ [Next]_vars => LaneIInv'
  BY LanesKeep
<1>3. Spec => []LaneIInv
  BY <1>1, <1>2, PTL DEF Spec
<1> QED
  BY <1>3, LanesAreSound, PTL


-----------------------------------------------------------------------------
(* The lock of a session.                                                   *)

(* The caller has operation_lock of its entry.                              *)
Locked(x) == x.at \in {"running", "discarding"} \/ (x.at = "closing" /\ x.entry # NoEntry)

LocksOK == \A c \in Callers : Locked(call[c]) => made[call[c].entry].worker = c
(* An entry is in the table of its scope until it is given up.              *)
TabledOK == \A e \in DOMAIN made : GivenUp(e) \/ entries[made[e].scope] = e

SerialIInv == PoolIInv /\ LocksOK /\ TabledOK

(* Where a caller stands.                                                   *)
SameStand(x, y) == x.at = y.at /\ x.entry = y.entry

LEMMA StayingEntries ==
  ASSUME SerialIInv, UNCHANGED made, NEW c \in Callers,
         \A d \in Callers : d # c => SameStand(call'[d], call[d]),
         SameStand(call'[c], call[c]) \/ (~Locked(call'[c]) /\ call[c].at # "scopelock"),
         \/ UNCHANGED entries
         \/ /\ entries' = Without(ScopeOf[c], entries[ScopeOf[c]])
            /\ call'[c].at = "scopelock" /\ call'[c].entry = entries[ScopeOf[c]]
  PROVE  LocksOK' /\ TabledOK'
<1>1. LocksOK'
  BY DEF SerialIInv, LocksOK, Locked, SameStand
<1>2. ASSUME NEW e \in DOMAIN made' PROVE GivenUp(e)' \/ entries'[made'[e].scope] = e
  <2>1. GivenUp(e) \/ entries[made[e].scope] = e
    BY <1>2 DEF SerialIInv, TabledOK
  <2>2. CASE GivenUp(e)
    BY <2>2 DEF GivenUp, SameStand
  <2>3. CASE entries[made[e].scope] = e /\ UNCHANGED entries
    BY <2>3
  <2>4. CASE /\ entries[made[e].scope] = e /\ entries' = Without(ScopeOf[c], entries[ScopeOf[c]])
             /\ call'[c].at = "scopelock" /\ call'[c].entry = entries[ScopeOf[c]]
    <3>1. CASE made[e].scope = ScopeOf[c]
      BY <2>4, <3>1 DEF GivenUp
    <3>2. CASE made[e].scope # ScopeOf[c]
      <4>1. made[e].scope \in Scopes /\ ScopeOf[c] \in Scopes /\ TableOK
        <5>1. made[e] \in EntryRecord /\ TableOK
          BY <1>2 DEF SerialIInv, PoolIInv, TableOK
        <5> QED
          BY <5>1, PoolAssumption DEF EntryRecord
      <4>2. entries'[made[e].scope] = entries[made[e].scope]
        BY <2>4, <3>2, <4>1, WithoutShrinks
      <4> QED
        BY <2>4, <4>2
    <3> QED
      BY <3>1, <3>2
  <2> QED
    BY <2>1, <2>2, <2>3, <2>4
<1> QED
  BY <1>1, <1>2 DEF TabledOK

LEMMA MovingEntry ==
  ASSUME SerialIInv, NEW c \in Callers, NEW e \in DOMAIN made, made[e].scope = ScopeOf[c],
         NEW q \in EntryRecord, SamePlace(q, made[e]), made' = [made EXCEPT ![e] = q],
         q.worker = made[e].worker \/ made[e].worker \in {NoCaller, c},
         made[e].tainted => q.tainted,
         \A d \in Callers : d # c => call'[d] = call[d],
         Locked(call'[c]) => call'[c].entry = e /\ q.worker = c,
         call[c].at = "scopelock" => call[c].entry = e /\ q.tainted,
         UNCHANGED entries \/ (entries' = Without(ScopeOf[c], e) /\ q.tainted)
  PROVE  LocksOK' /\ TabledOK'
<1>1. /\ DOMAIN made' = DOMAIN made /\ made'[e] = q /\ TableOK /\ ScopeOf[c] \in Scopes
      /\ \A u \in DOMAIN made : u # e => made'[u] = made[u]
  BY OneEntryMoves, PoolAssumption DEF SerialIInv, PoolIInv, TableOK
<1>2. ASSUME NEW d \in Callers, Locked(call'[d]) PROVE made'[call'[d].entry].worker = d
  <2>1. CASE d = c
    BY <1>1, <1>2, <2>1
  <2>2. CASE d # c
    <3>1. call'[d] = call[d] /\ made[call[d].entry].worker = d
      BY <1>2, <2>2 DEF SerialIInv, LocksOK
    <3>2. call[d].entry \in DOMAIN made
      BY <1>2, <3>1, EntryOfCall DEF SerialIInv, Locked, Standing
    <3>3. d # NoCaller
      BY PoolAssumption
    <3> QED
      BY <1>1, <2>2, <3>1, <3>2, <3>3
  <2> QED
    BY <2>1, <2>2
<1>3. ASSUME NEW u \in DOMAIN made' PROVE GivenUp(u)' \/ entries'[made'[u].scope] = u
  <2>1. GivenUp(u) \/ entries[made[u].scope] = u
    BY <1>1, <1>3 DEF SerialIInv, TabledOK
  <2>2. made'[u].scope = made[u].scope /\ (made[u].tainted => made'[u].tainted)
    BY <1>1, <1>3 DEF SamePlace
  <2>3. CASE GivenUp(u)
    <3>1. CASE made[u].tainted
      BY <2>2, <3>1 DEF GivenUp
    <3>2. ASSUME NEW d \in Callers, call[d].at = "scopelock", call[d].entry = u PROVE GivenUp(u)'
      <4>1. CASE d = c
        BY <1>1, <3>2, <4>1 DEF GivenUp
      <4>2. CASE d # c
        BY <3>2, <4>2 DEF GivenUp
      <4> QED
        BY <4>1, <4>2
    <3> QED
      BY <2>3, <3>1, <3>2 DEF GivenUp
  <2>4. CASE entries[made[u].scope] = u /\ UNCHANGED entries
    BY <2>2, <2>4
  <2>5. CASE entries[made[u].scope] = u /\ entries' = Without(ScopeOf[c], e) /\ q.tainted
    <3>1. CASE u = e
      BY <1>1, <2>5, <3>1 DEF GivenUp
    <3>2. CASE u # e
      <4>1. made[u].scope \in Scopes
        <5>1. made[u] \in EntryRecord
          BY <1>1, <1>3 DEF TableOK
        <5> QED
          BY <5>1 DEF EntryRecord
      <4>2. entries'[made[u].scope] = u
        BY <1>1, <2>5, <3>2, <4>1 DEF Without, TableOK
      <4> QED
        BY <2>2, <4>2
    <3> QED
      BY <3>1, <3>2
  <2> QED
    BY <2>1, <2>3, <2>4, <2>5
<1> QED
  BY <1>2, <1>3 DEF LocksOK, TabledOK

(* What a caller does, with an entry it found or made.                      *)
LEMMA EnteringSerial ==
  ASSUME SerialIInv, NEW c \in Callers, NEW kind, EnterPool(c, kind, made), call[c].at # "scopelock"
  PROVE  LocksOK' /\ TabledOK'
<1> DEFINE k == ScopeOf[c]
           r == IF runtime = NoRuntime THEN built + 1 ELSE runtime
           n == Len(made) + 1
<1>1. /\ CallsOK /\ TableOK /\ k \in Scopes
  BY PoolAssumption DEF SerialIInv, PoolIInv
<1>2. \A e : ~Locked(StartingAs(kind, e)) /\ StartingAs(kind, e).at # "scopelock"
  BY DEF Locked, StartingAs
<1>3. CASE FindEntry(c, kind, made)
  <2>1. /\ UNCHANGED <<made, entries>> /\ call'[c] = StartingAs(kind, entries[k])
        /\ \A d \in Callers : d # c => call'[d] = call[d]
    BY <1>1, <1>3 DEF FindEntry, GoesToStart, StartingAs, CallsOK
  <2> QED
    BY <1>2, <2>1, StayingEntries DEF SameStand
<1>4. CASE /\ MakeEntry(c, kind, made)
           /\ entries[k] # NoEntry => made[entries[k]].tainted
  <2>1. /\ made' = Append(made, Entry(k, r)) /\ entries' = [entries EXCEPT ![k] = n]
        /\ call'[c] = StartingAs(kind, n) /\ \A d \in Callers : d # c => call'[d] = call[d]
    BY <1>1, <1>4 DEF MakeEntry, GoesToStart, StartingAs, CallsOK
  <2>2. Entry(k, r).scope = k
    BY DEF Entry
  <2> HIDE DEF r
  <2>3. /\ Len(made) \in Nat /\ DOMAIN made = 1..Len(made) /\ DOMAIN made' = 1..n
        /\ made'[n].scope = k /\ \A u \in DOMAIN made : made'[u] = made[u] /\ u # n
    BY <1>1, <2>1, <2>2 DEF TableOK
  <2>4. entries'[k] = n /\ \A j \in Scopes : j # k => entries'[j] = entries[j]
    BY <1>1, <2>1 DEF TableOK
  <2>5. \A u \in DOMAIN made' : u = n \/ u \in DOMAIN made
    BY <2>3
  <2> HIDE DEF n
  <2>6. ASSUME NEW d \in Callers, Locked(call'[d]) PROVE made'[call'[d].entry].worker = d
    <3>1. d # c /\ call'[d] = call[d] /\ Locked(call[d])
      BY <1>2, <2>1, <2>6
    <3>2. made[call[d].entry].worker = d /\ call[d].entry \in DOMAIN made
      BY <3>1, EntryOfCall DEF SerialIInv, LocksOK, Locked, Standing
    <3> QED
      BY <2>3, <3>1, <3>2
  <2>7. ASSUME NEW u \in DOMAIN made' PROVE GivenUp(u)' \/ entries'[made'[u].scope] = u
    <3>1. CASE u = n
      BY <2>3, <2>4, <3>1
    <3>2. CASE u \in DOMAIN made
      <4>1. made'[u] = made[u] /\ made[u] \in EntryRecord
        BY <1>1, <2>3, <3>2 DEF TableOK
      <4>2. CASE GivenUp(u)
        <5>1. CASE made[u].tainted
          BY <4>1, <5>1 DEF GivenUp
        <5>2. CASE \E d \in Callers : call[d].at = "scopelock" /\ call[d].entry = u
          BY <2>1, <5>2 DEF GivenUp
        <5> QED
          BY <4>2, <5>1, <5>2 DEF GivenUp
      <4>3. CASE entries[made[u].scope] = u /\ ~GivenUp(u)
        <5>1. made[u].scope \in Scopes
          BY <4>1 DEF EntryRecord
        <5>2. u # NoEntry
          BY <2>3, <3>2 DEF NoEntry
        <5>3. made[u].scope # k
          BY <1>4, <4>3, <5>2 DEF GivenUp
        <5> QED
          BY <2>4, <4>1, <4>3, <5>1, <5>3
      <4> QED
        BY <3>2, <4>2, <4>3 DEF SerialIInv, TabledOK
    <3> QED
      BY <2>5, <3>1, <3>2
  <2> QED
    BY <2>6, <2>7 DEF LocksOK, TabledOK
<1> QED
  BY <1>3, <1>4 DEF EnterPool


LEMMA RestIsFree ==
  /\ ~Locked(Resting) /\ Resting.at # "scopelock"
  /\ ~Locked([Resting EXCEPT !.at = "close"]) /\ [Resting EXCEPT !.at = "close"].at # "scopelock"
  BY DEF Locked, Resting

LEMMA StartingSerial ==
  ASSUME SerialIInv, NEW c \in Callers, Starts(c) PROVE LocksOK' /\ TabledOK'
<1> DEFINE e == call[c].entry
<1>1. call[c].at \in {"start", "opening"} /\ call[c].at \in Standing
  BY DEF Starts, AlreadyStarted, Configure, StartFails, StartLocked, Opened, OpenRaises, Standing
<1>2. /\ e \in DOMAIN made /\ made[e] \in EntryRecord /\ made[e].scope = ScopeOf[c]
      /\ CallsOK /\ call[c] \in CallRecord
  BY <1>1, EntryOfCall DEF SerialIInv, PoolIInv, CallsOK
<1>3. ASSUME AfterStart(c)
      PROVE  ~Locked(call'[c]) /\ \A d \in Callers : d # c => call'[d] = call[d]
  <2>1. ~Locked(RunAs(call[c]))
    BY <1>2 DEF RunAs, CallRecord, Locked
  <2>2. call'[c] \in {Resting, RunAs(call[c])} /\ \A d \in Callers : d # c => call'[d] = call[d]
    BY <1>2, <1>3 DEF AfterStart, RunAs, CallsOK
  <2> QED
    BY <2>1, <2>2, RestIsFree
<1>4. CASE AlreadyStarted(c)
  <2>1. UNCHANGED <<made, entries>> /\ AfterStart(c)
    BY <1>4 DEF AlreadyStarted, poolVars
  <2> QED
    BY <1>1, <1>3, <2>1, StayingEntries DEF SameStand
<1>5. CASE Configure(c)
  <2>1. CASE made' = [made EXCEPT ![e].started = TRUE] /\ AfterStart(c) /\ UNCHANGED entries
    <3> DEFINE q == StartedAs(made[e])
    <3>1. made' = [made EXCEPT ![e] = q]
      BY <2>1 DEF StartedAs
    <3>2. q \in EntryRecord /\ SamePlace(q, made[e]) /\ q.worker = made[e].worker
          /\ q.tainted = made[e].tainted
      BY <1>2 DEF StartedAs, EntryRecord, SamePlace
    <3> HIDE DEF q, e
    <3> QED
      BY <1>1, <1>2, <1>3, <2>1, <3>1, <3>2, MovingEntry
  <2>2. CASE made' = [made EXCEPT ![e].starter = c] /\ Ask(c, e, made[e].runtime, "opening")
             /\ UNCHANGED entries
    <3> DEFINE q == WithStarter(made[e], c)
    <3>1. made' = [made EXCEPT ![e] = q]
      BY <2>2 DEF WithStarter
    <3>2. q \in EntryRecord /\ SamePlace(q, made[e]) /\ q.worker = made[e].worker
          /\ q.tainted = made[e].tainted
      BY <1>2 DEF WithStarter, EntryRecord, SamePlace
    <3>3. ~Locked(call'[c]) /\ \A d \in Callers : d # c => call'[d] = call[d]
      BY <1>2, <2>2 DEF Ask, CallsOK, Locked
    <3> HIDE DEF q, e
    <3> QED
      BY <1>1, <1>2, <2>2, <3>1, <3>2, <3>3, MovingEntry
  <2> QED
    BY <1>5, <2>1, <2>2 DEF Configure
<1>6. CASE StartFails(c) \/ OpenRaises(c)
  <2> DEFINE q == GivenUpAs(made[e])
  <2>1. /\ made' = [made EXCEPT ![e] = q] /\ entries' = Without(ScopeOf[c], e)
        /\ call'[c] \in {Resting, [Resting EXCEPT !.at = "close"]}
        /\ \A d \in Callers : d # c => call'[d] = call[d]
    BY <1>2, <1>6 DEF StartFails, OpenRaises, StartRaises, GivenUpAs, CallsOK
  <2>2. q \in EntryRecord /\ SamePlace(q, made[e]) /\ q.worker = made[e].worker /\ q.tainted
    BY <1>2 DEF GivenUpAs, EntryRecord, SamePlace
  <2>3. ~Locked(call'[c])
    BY <2>1, RestIsFree
  <2> HIDE DEF q, e
  <2> QED
    BY <1>1, <1>2, <2>1, <2>2, <2>3, MovingEntry
<1>7. CASE Opened(c)
  <2> DEFINE q == OpenedAs(made[e])
  <2>1. made' = [made EXCEPT ![e] = q] /\ AfterStart(c) /\ UNCHANGED entries
    BY <1>7 DEF Opened, OpenedAs
  <2>2. q \in EntryRecord /\ SamePlace(q, made[e]) /\ q.worker = made[e].worker
        /\ q.tainted = made[e].tainted
    BY <1>2 DEF OpenedAs, EntryRecord, SamePlace
  <2> HIDE DEF q, e
  <2> QED
    BY <1>1, <1>2, <1>3, <2>1, <2>2, MovingEntry
<1> QED
  BY <1>4, <1>5, <1>6, <1>7 DEF Starts

(* An entry that is locked, released or given up.                           *)
LEMMA EntryChanges ==
  ASSUME NEW r \in EntryRecord, NEW c \in Callers
  PROVE  /\ LET q == WithWorker(r, c)
            IN  q \in EntryRecord /\ SamePlace(q, r) /\ q.worker = c /\ q.tainted = r.tainted
         /\ LET q == WithWorker(r, NoCaller)
            IN  q \in EntryRecord /\ SamePlace(q, r) /\ q.worker = NoCaller /\ q.tainted = r.tainted
         /\ LET q == TaintedAs(r)
            IN  q \in EntryRecord /\ SamePlace(q, r) /\ q.worker = r.worker /\ q.tainted
         /\ LET q == TakenAs(r, c)
            IN  q \in EntryRecord /\ SamePlace(q, r) /\ q.worker = c /\ q.tainted
  BY DEF WithWorker, TaintedAs, TakenAs, EntryRecord, SamePlace

LEMMA ExecutingSerial ==
  ASSUME SerialIInv, NEW c \in Callers, Executes(c) PROVE LocksOK' /\ TabledOK'
<1> DEFINE e == call[c].entry
<1>1. call[c].at \in {"run", "running", "discarding"} /\ call[c].at \in Standing
  BY DEF Executes, Run, RunAgain, RunLocked, Return, Discard, Discarded, Standing
<1>2. /\ e \in DOMAIN made /\ made[e] \in EntryRecord /\ made[e].scope = ScopeOf[c]
      /\ CallsOK /\ e # NoEntry
  BY <1>1, EntryOfCall DEF SerialIInv, PoolIInv, TableOK, NoEntry
<1>3. call[c].at \in {"running", "discarding"} => made[e].worker = c
  BY DEF SerialIInv, LocksOK, Locked
<1>4. CASE Run(c)
  <2> DEFINE q == WithWorker(made[e], c)
  <2>1. /\ made' = [made EXCEPT ![e] = q] /\ UNCHANGED entries /\ made[e].worker = NoCaller
        /\ call'[c].entry = e /\ \A d \in Callers : d # c => call'[d] = call[d]
    BY <1>2, <1>4 DEF Run, RunLocked, Ask, WithWorker, CallsOK
  <2>2. q \in EntryRecord /\ SamePlace(q, made[e]) /\ q.worker = c /\ q.tainted = made[e].tainted
    BY <1>2, EntryChanges
  <2> HIDE DEF q, e
  <2> QED
    BY <1>1, <1>2, <2>1, <2>2, MovingEntry
<1>5. CASE RunAgain(c)
  BY <1>1, <1>5, EnteringSerial DEF RunAgain
<1>6. CASE Return(c) \/ Discarded(c)
  <2> DEFINE q == WithWorker(made[e], NoCaller)
  <2>1. /\ made' = [made EXCEPT ![e] = q] /\ UNCHANGED entries /\ made[e].worker = c
        /\ call'[c] \in {Resting, [Resting EXCEPT !.at = "close"]}
        /\ \A d \in Callers : d # c => call'[d] = call[d]
    BY <1>2, <1>3, <1>6 DEF Return, Discarded, WithWorker, CallsOK
  <2>2. q \in EntryRecord /\ SamePlace(q, made[e]) /\ q.tainted = made[e].tainted
    BY <1>2, EntryChanges
  <2>3. ~Locked(call'[c])
    BY <2>1, RestIsFree
  <2> HIDE DEF q, e
  <2> QED
    BY <1>1, <1>2, <2>1, <2>2, <2>3, MovingEntry
<1>7. CASE Discard(c)
  <2> DEFINE q == TaintedAs(made[e])
  <2>1. /\ made' = [made EXCEPT ![e] = q] /\ entries' = Without(ScopeOf[c], e) /\ made[e].worker = c
        /\ call'[c].entry = e /\ \A d \in Callers : d # c => call'[d] = call[d]
    BY <1>2, <1>3, <1>7 DEF Discard, Ask, TaintedAs, CallsOK
  <2>2. q \in EntryRecord /\ SamePlace(q, made[e]) /\ q.worker = made[e].worker /\ q.tainted
    BY <1>2, EntryChanges
  <2> HIDE DEF q, e
  <2> QED
    BY <1>1, <1>2, <2>1, <2>2, MovingEntry
<1> QED
  BY <1>4, <1>5, <1>6, <1>7 DEF Executes

LEMMA ClosingSerial ==
  ASSUME SerialIInv, NEW c \in Callers, Closes(c) PROVE LocksOK' /\ TabledOK'
<1> DEFINE e == call[c].entry
<1>1. CallsOK
  BY DEF SerialIInv, PoolIInv
<1>2. CASE CloseSession(c)
  <2>1. UNCHANGED <<made, entries>> /\ call[c].at = "close"
    BY <1>2 DEF CloseSession, poolVars
  <2>2. ~Locked(call'[c]) /\ \A d \in Callers : d # c => call'[d] = call[d]
    <3> DEFINE q == [call[c] EXCEPT !.at = "closelock", !.entry = entries[ScopeOf[c]]]
    <3>1. call[c] \in CallRecord
      BY <1>1 DEF CallsOK
    <3>2. ~Locked(q)
      BY <3>1 DEF CallRecord, Locked
    <3>3. CASE call' = [call EXCEPT ![c] = q]
      <4> HIDE DEF q
      <4> QED
        BY <1>1, <3>2, <3>3 DEF CallsOK
    <3>4. CASE Ask(c, NoEntry, runtime, "closing")
      BY <1>1, <3>4 DEF Ask, CallsOK, Locked
    <3>5. CASE call' = [call EXCEPT ![c] = Resting]
      BY <1>1, <3>5, RestIsFree DEF CallsOK
    <3> QED
      BY <1>2, <3>3, <3>4, <3>5 DEF CloseSession
  <2> QED
    BY <2>1, <2>2, StayingEntries DEF SameStand
<1>3. CASE CloseLocked(c)
  <2> DEFINE q == WithWorker(made[e], c)
  <2>1. e \in DOMAIN made /\ made[e] \in EntryRecord /\ made[e].scope = ScopeOf[c]
    BY <1>3, EntryOfCall DEF CloseLocked, Standing, SerialIInv
  <2>2. /\ made' = [made EXCEPT ![e] = q] /\ UNCHANGED entries /\ made[e].worker = NoCaller
        /\ call'[c].entry = e /\ \A d \in Callers : d # c => call'[d] = call[d]
        /\ call[c].at # "scopelock"
    BY <1>1, <1>3 DEF CloseLocked, Ask, WithWorker, CallsOK
  <2>3. q \in EntryRecord /\ SamePlace(q, made[e]) /\ q.worker = c /\ q.tainted = made[e].tainted
    BY <2>1, EntryChanges
  <2> HIDE DEF q, e
  <2> QED
    BY <2>1, <2>2, <2>3, MovingEntry
<1>4. CASE Closed(c)
  <2>1. /\ call[c].at = "closing" /\ call'[c] = Resting /\ UNCHANGED entries
        /\ \A d \in Callers : d # c => call'[d] = call[d]
    BY <1>1, <1>4 DEF Closed, CallsOK
  <2>2. CASE e = NoEntry
    <3>1. UNCHANGED made
      BY <1>4, <2>2 DEF Closed
    <3> QED
      BY <2>1, <3>1, RestIsFree, StayingEntries DEF SameStand
  <2>3. CASE e # NoEntry
    <3> DEFINE q == WithWorker(made[e], NoCaller)
    <3>1. e \in DOMAIN made /\ made[e] \in EntryRecord /\ made[e].scope = ScopeOf[c]
      BY <2>3, EntryOfCall DEF SerialIInv
    <3>2. made' = [made EXCEPT ![e] = q] /\ made[e].worker = c
      BY <1>4, <2>1, <2>3 DEF Closed, WithWorker, SerialIInv, LocksOK, Locked
    <3>3. q \in EntryRecord /\ SamePlace(q, made[e]) /\ q.tainted = made[e].tainted
      BY <3>1, EntryChanges
    <3> HIDE DEF q, e
    <3> QED
      BY <2>1, <3>1, <3>2, <3>3, RestIsFree, MovingEntry
  <2> QED
    BY <2>2, <2>3
<1>5. CASE CloseScopeLocked(c)
  <2>1. /\ e \in DOMAIN made /\ made[e] \in EntryRecord /\ made[e].scope = ScopeOf[c]
        /\ made[e].worker = NoCaller /\ UNCHANGED entries
    BY <1>5, EntryOfCall DEF CloseScopeLocked, Standing, SerialIInv
  <2>2. CASE /\ made' = [made EXCEPT ![e] = TakenAs(made[e], c)]
             /\ Ask(c, e, made[e].runtime, "closing")
    <3> DEFINE q == TakenAs(made[e], c)
    <3>1. /\ made' = [made EXCEPT ![e] = q] /\ call'[c].entry = e
          /\ \A d \in Callers : d # c => call'[d] = call[d]
      BY <1>1, <2>2 DEF Ask, CallsOK
    <3>2. q \in EntryRecord /\ SamePlace(q, made[e]) /\ q.worker = c /\ q.tainted
      BY <2>1, EntryChanges
    <3>3. call[c].entry = e
      OBVIOUS
    <3> HIDE DEF q, e
    <3> QED
      BY <2>1, <3>1, <3>2, <3>3, MovingEntry
  <2>3. CASE made' = [made EXCEPT ![e] = TaintedAs(made[e])] /\ call' = [call EXCEPT ![c] = Resting]
    <3> DEFINE q == TaintedAs(made[e])
    <3>1. /\ made' = [made EXCEPT ![e] = q] /\ call'[c] = Resting
          /\ \A d \in Callers : d # c => call'[d] = call[d]
      BY <1>1, <2>3 DEF CallsOK
    <3>2. q \in EntryRecord /\ SamePlace(q, made[e]) /\ q.worker = made[e].worker /\ q.tainted
      BY <2>1, EntryChanges
    <3>3. call[c].entry = e
      OBVIOUS
    <3> HIDE DEF q, e
    <3> QED
      BY <2>1, <3>1, <3>2, <3>3, RestIsFree, MovingEntry
  <2> QED
    BY <1>5, <2>2, <2>3 DEF CloseScopeLocked, TakenAs, TaintedAs
<1> QED
  BY <1>2, <1>3, <1>4, <1>5 DEF Closes

LEMMA ServingSerial ==
  ASSUME SerialIInv, NEW c \in Callers, Serves(c) PROVE LocksOK' /\ TabledOK'
<1>1. UNCHANGED <<made, entries>>
  BY DEF Serves, ServeOpen, ServeRun, Answer, ServeClose, poolVars
<1>2. ASSUME NEW d \in Callers PROVE SameStand(call'[d], call[d])
  <2>1. call[d] \in CallRecord /\ CallsOK
    BY DEF SerialIInv, PoolIInv, CallsOK
  <2>2. CASE ServeClose(c)
    <3>1. PICK answer \in {"ok", "failed"} :
             call' = [AfterClose(call[c].runtime, ScopeOf[c]) EXCEPT ![c] = EndedAs(call[c], answer)]
      BY <2>2 DEF ServeClose, EndedAs
    <3>2. call'[d] \in {call[d], EndedAs(call[d], answer), EndedAs(call[d], "uncertain")}
      BY <2>1, <3>1, AfterCloseEnd
    <3> QED
      BY <2>1, <3>2, EndedCall DEF SameStand, Requests
  <2>3. CASE \E request \in Requests : call' = [call EXCEPT ![c].request = request]
    BY <2>1, <2>3 DEF SameStand, CallsOK, CallRecord
  <2> QED
    BY <2>2, <2>3 DEF Serves, ServeOpen, ServeRun, Answer, Requests
<1> QED
  BY <1>1, <1>2, StayingEntries

LEMMA GivingUpSerial ==
  ASSUME SerialIInv, NEW c \in Callers, Abort(c) \/ CloseScope(c) PROVE LocksOK' /\ TabledOK'
<1> DEFINE k == ScopeOf[c]
           e == entries[k]
<1>1. /\ CallsOK /\ call[c].at = "rest" /\ e # NoEntry /\ entries' = Without(k, e)
      /\ e \in DOMAIN made /\ made[e] \in EntryRecord /\ made[e].scope = k
  <2>1. call[c].at = "rest" /\ e # NoEntry /\ entries' = Without(k, e)
    BY DEF Abort, CloseScope, Calls
  <2> QED
    BY <2>1, EntryOfScope, PoolAssumption DEF SerialIInv, PoolIInv
<1>2. CASE Abort(c)
  <2> DEFINE q == TaintedAs(made[e])
  <2>1. made' = [made EXCEPT ![e] = q] /\ \A d \in Callers : d # c => call'[d] = call[d]
    BY <1>1, <1>2 DEF Abort, TaintedAs, Ask, CallsOK
  <2>2. ~Locked(call'[c])
    <3>1. CASE UNCHANGED call
      BY <1>1, <3>1 DEF Locked
    <3>2. CASE Ask(c, NoEntry, made[e].runtime, "closing")
      BY <1>1, <3>2 DEF Ask, CallsOK, Locked
    <3> QED
      BY <1>2, <3>1, <3>2 DEF Abort
  <2>3. q \in EntryRecord /\ SamePlace(q, made[e]) /\ q.worker = made[e].worker /\ q.tainted
    BY <1>1, EntryChanges
  <2> HIDE DEF q, e
  <2> QED
    BY <1>1, <2>1, <2>2, <2>3, MovingEntry
<1>3. CASE CloseScope(c)
  <2>1. /\ UNCHANGED made /\ call'[c].at = "scopelock" /\ call'[c].entry = e
        /\ \A d \in Callers : d # c => call'[d] = call[d]
    BY <1>1, <1>3 DEF CloseScope, CallsOK, Resting
  <2>2. ~Locked(call'[c])
    BY <2>1 DEF Locked
  <2> QED
    BY <1>1, <2>1, <2>2, StayingEntries DEF SameStand
<1> QED
  BY <1>2, <1>3

(* A step that moves no caller and no entry.                                *)
LEMMA UnmovedSerial ==
  ASSUME SerialIInv, UNCHANGED <<made, entries>>,
         \A d \in Callers : SameStand(call'[d], call[d])
  PROVE  LocksOK' /\ TabledOK'
  BY DEF SerialIInv, LocksOK, TabledOK, GivenUp, Locked, SameStand

LEMMA ClosePoolSerial ==
  ASSUME SerialIInv, Close PROVE LocksOK' /\ TabledOK'
<1> DEFINE taken == {entries[k] : k \in Scopes} \ {NoEntry}
<1>1. /\ made' = [e \in DOMAIN made |-> IF e \in taken THEN TaintedAs(made[e]) ELSE made[e]]
      /\ UNCHANGED call
  BY DEF Close, TaintedAs, callVars
<1>2. ASSUME NEW e \in DOMAIN made
      PROVE  /\ made'[e].worker = made[e].worker
             /\ e \in taken \/ made[e].tainted => made'[e].tainted
             /\ e \in Nat /\ made[e].scope \in Scopes
  <2>1. made[e] \in EntryRecord /\ e \in Nat
    BY DEF SerialIInv, PoolIInv, TableOK
  <2>2. LET q == TaintedAs(made[e]) IN q.worker = made[e].worker /\ q.tainted
    BY <2>1 DEF TaintedAs, EntryRecord
  <2> QED
    BY <1>1, <2>1, <2>2 DEF EntryRecord
<1>3. DOMAIN made' = DOMAIN made
  BY <1>1
<1>4. ASSUME NEW c \in Callers, Locked(call[c]) PROVE made'[call[c].entry].worker = c
  BY <1>2, <1>4, EntryOfCall DEF SerialIInv, LocksOK, Locked, Standing
<1>5. ASSUME NEW e \in DOMAIN made PROVE GivenUp(e)'
  <2>1. 0 \notin DOMAIN made
    BY DEF SerialIInv, PoolIInv, TableOK
  <2>2. CASE entries[made[e].scope] = e
    BY <1>2, <2>1, <2>2 DEF GivenUp, NoEntry
  <2>3. CASE GivenUp(e)
    BY <1>1, <1>2, <2>3 DEF GivenUp
  <2> QED
    BY <2>2, <2>3 DEF SerialIInv, TabledOK
<1> QED
  BY <1>1, <1>3, <1>4, <1>5 DEF LocksOK, TabledOK

LEMMA SerialKeeps == SerialIInv /\ [Next]_vars => SerialIInv'
<1> SUFFICES ASSUME SerialIInv, [Next]_vars PROVE SerialIInv'
  OBVIOUS
<1>1. PoolIInv'
  BY PoolKeeps DEF SerialIInv
<1>2. \A d \in Callers : call[d] \in CallRecord
  BY DEF SerialIInv, PoolIInv, CallsOK
<1>3. ASSUME NEW c \in Callers, CallerStep(c) PROVE LocksOK' /\ TabledOK'
  <2>1. CASE \E kind \in {"execute", "prepare"} : Begin(c, kind)
    <3>1. PICK kind \in {"execute", "prepare"} : Begin(c, kind)
      BY <2>1
    <3> QED
      BY <3>1, EnteringSerial DEF Begin, Calls
  <2> QED
    BY <1>3, <2>1, StartingSerial, ExecutingSerial, ClosingSerial, ServingSerial, GivingUpSerial
      DEF CallerStep
<1>4. ASSUME NEW r, Down(r), UNCHANGED <<made, entries>> PROVE LocksOK' /\ TabledOK'
  <2>1. ASSUME NEW d \in Callers PROVE SameStand(call'[d], call[d])
    <3>1. call'[d] \in {call[d], EndedAs(call[d], "failed")}
      BY <1>4 DEF Down, EndedAs
    <3> QED
      BY <1>2, <3>1, EndedCall DEF SameStand, Requests
  <2> QED
    BY <1>4, <2>1, UnmovedSerial
<1>5. CASE \E e \in closing.left : CloseTaken(e)
  <2>1. PICK e \in closing.left : CloseTaken(e)
    BY <1>5
  <2>2. ASSUME NEW d \in Callers PROVE SameStand(call'[d], call[d])
    <3>1. call'[d] \in {call[d], EndedAs(call[d], "uncertain")}
      <4>1. CallsOK
        BY DEF SerialIInv, PoolIInv
      <4> QED
        BY <2>1, <4>1, AfterCloseEnd DEF CloseTaken
    <3> QED
      BY <1>2, <3>1, EndedCall DEF SameStand, Requests
  <2> QED
    BY <1>1, <2>1, <2>2, UnmovedSerial DEF CloseTaken, poolVars, SerialIInv
<1>6. CASE CloseRuntime
  BY <1>1, <1>4, <1>6 DEF CloseRuntime, SerialIInv
<1>7. CASE \E r \in Runtimes : HostExits(r) \/ \E k \in Scopes : HostReaps(r, k)
  <2>1. PICK r \in Runtimes : HostExits(r) \/ \E k \in Scopes : HostReaps(r, k)
    BY <1>7
  <2>2. CASE HostExits(r)
    BY <1>1, <1>4, <2>2 DEF HostExits, poolVars, SerialIInv
  <2>3. CASE \E k \in Scopes : HostReaps(r, k)
    <3>1. UNCHANGED <<made, entries, call>>
      BY <2>3 DEF HostReaps, poolVars, callVars
    <3> QED
      BY <1>1, <3>1, UnmovedSerial DEF SameStand, SerialIInv
  <2> QED
    BY <2>1, <2>2, <2>3
<1>8. CASE UNCHANGED vars
  BY <1>1, <1>8, UnmovedSerial DEF vars, SameStand, SerialIInv
<1> QED
  BY <1>1, <1>3, <1>5, <1>6, <1>7, <1>8, ClosePoolSerial DEF Next, CallerStep, SerialIInv

(* The commands of a scope are executed one at a time, whoever calls the     *)
(* pool and in whatever order entries are started, given up, discarded and   *)
(* made again: unless an abort or a close gave up the entry of one of them.  *)
THEOREM SameScopeIsSerialHolds == Spec => []SameScopeIsSerial
<1>1. Init => SerialIInv
  BY PoolStarts DEF Init, SerialIInv, LocksOK, TabledOK, Locked, Resting
<1>2. SerialIInv => SameScopeIsSerial
  <2> SUFFICES ASSUME SerialIInv, NEW c \in Callers, NEW d \in Callers,
                      call[c].at = "running", call[d].at = "running", ScopeOf[c] = ScopeOf[d],
                      ~GivenUp(call[c].entry), ~GivenUp(call[d].entry)
               PROVE  c = d
    BY DEF SameScopeIsSerial
  <2>1. /\ call[c].entry \in DOMAIN made /\ made[call[c].entry].scope = ScopeOf[c]
        /\ call[d].entry \in DOMAIN made /\ made[call[d].entry].scope = ScopeOf[d]
    BY EntryOfCall DEF SerialIInv, Standing
  <2>2. call[c].entry = entries[ScopeOf[c]] /\ call[d].entry = entries[ScopeOf[c]]
    BY <2>1 DEF SerialIInv, TabledOK
  <2> QED
    BY <2>2 DEF SerialIInv, LocksOK, Locked
<1> QED
  BY <1>1, <1>2, SerialKeeps, PTL DEF Spec
=============================================================================
